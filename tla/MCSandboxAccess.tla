---------------------------- MODULE MCSandboxAccess ----------------------------
(* An instance of SandboxAccess for TLC: the second Workspace is a directory *)
(* above the first, and the one that the Environment is bound to at first.   *)
EXTENDS SandboxAccess, TLC

MCTraversalPaths(w) == IF w = "inner" THEN {"near"} ELSE {"near", "far"}
MCBelow(place) == IF place = "far" THEN {"near"} ELSE {}
MCInit == Init /\ env.workspace = "outer"
MCSpec == MCInit /\ [][Next]_vars
Symmetry == Permutations(Runs)
===============================================================================
