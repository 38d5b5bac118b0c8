-------------------------- MODULE MCManagedWorktree --------------------------
(* Instances of ManagedWorktree for TLC.                                   *)
EXTENDS ManagedWorktree, TLC

Interchangeable ==
    Permutations(Trees) \cup Permutations(Destroys) \cup Permutations(Owners)
        \cup Permutations(Branches) \cup Permutations(Roots)
==============================================================================
