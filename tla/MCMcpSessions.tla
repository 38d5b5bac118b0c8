---------------------------- MODULE MCMcpSessions ----------------------------
(* Instances of McpSessions for TLC.                                       *)
EXTENDS McpSessions, TLC

\* Nothing tells goroutines, sessions or versions of one kind apart.
Interchangeable ==
    Permutations(Calls) \cup Permutations(Workers) \cup Permutations(Sessions)
        \cup Permutations(Configs) \cup Permutations(Secrets)
==============================================================================
