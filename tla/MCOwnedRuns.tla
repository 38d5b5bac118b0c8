----------------------------- MODULE MCOwnedRuns -----------------------------
(* Two commands, of two kinds: an agent run beside a dev process or beside *)
(* a verifier run.  Environments and owners are interchangeable.           *)
EXTENDS OwnedRuns, TLC

Interchangeable == Permutations(Envs) \cup Permutations(Owners)

MCRuns == {1, 2}
RunAndProcess == [r \in MCRuns |-> IF r = 1 THEN "run" ELSE "process"]
ProcessAndVerifier == [r \in MCRuns |-> IF r = 1 THEN "process" ELSE "verifier"]
==============================================================================
