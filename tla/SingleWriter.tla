---------------------------- MODULE SingleWriter -----------------------------
(***************************************************************************)
(* What the writer lease promises, without clock, expiry or records: a set *)
(* of grants, each an Environment and its owner, that never lets two       *)
(* grants reach the same directory.  Grants may end at any moment; one at  *)
(* a time is given, and an owner keeps the grant it has until it ends.     *)
(***************************************************************************)
CONSTANTS Environments, Writers, Dirs, Within, Root

VARIABLE grants

\* The directories a grant on Environment e lets its owner mutate.
Reach(e) == {d \in Dirs : <<Root[e], d>> \in Within}

Exclusive(G) == \A g, h \in G : g # h => Reach(g[1]) \cap Reach(h[1]) = {}

Init == grants = {}

End(G) == grants' = G

Grant(G, e, o) ==
    /\ grants' = G \cup {<<e, o>>}
    /\ Exclusive(grants')

Next == \E G \in SUBSET grants : End(G) \/ \E e \in Environments, o \in Writers : Grant(G, e, o)

Spec == Init /\ [][Next]_grants
==============================================================================
