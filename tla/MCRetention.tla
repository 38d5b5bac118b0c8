----------------------------- MODULE MCRetention -----------------------------
(* An instance of Retention for TLC: the worktrees that the migration made   *)
(* temporary are those it makes so in the behaviour.                         *)
EXTENDS Retention

MCInit == Init /\ \A e \in Envs : env[e].ret.policy # "worktree"
MCSpec == MCInit /\ [][Next]_vars /\ Fairness
==============================================================================
