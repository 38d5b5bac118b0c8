--------------------------- MODULE MCProjectIndex ---------------------------
(* A few threads, of which those that start alike are interchangeable. *)
EXTENDS ProjectIndex, TLC

Interchangeable ==
    Permutations(Threads \ WatchThreads) \cup Permutations(WatchThreads)
==============================================================================
