---------------------------- MODULE MCGuardedCalls ----------------------------
(* An instance of GuardedCalls for TLC: a tool, spelled as its bare name    *)
(* with and without ".exe", as its path and as a link of a shell's name.    *)
EXTENDS GuardedCalls, TLC

MCName(e) == IF e = "link" THEN "shell" ELSE "tool"
MCPlace(e) == IF e \in {"path", "link"} THEN "file" ELSE e
MCPolicy == [allowed |-> {"tool"}, blocked |-> {"path"}, full |-> TRUE]
Symmetry == Permutations(Calls) \cup Permutations(Owners)
===============================================================================
