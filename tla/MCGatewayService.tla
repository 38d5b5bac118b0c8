--------------------------- MODULE MCGatewayService ---------------------------
(* An instance of GatewayService for TLC.  A running service is enabled when *)
(* its unit file is not as this program renders it, and disabled otherwise.  *)
(* Every kind of process may be at the address where no unit file is; beside *)
(* a service that is stopped, but enabled, or not ADM's, a Gateway of this   *)
(* version serves, which may end before anything else happens.               *)
EXTENDS GatewayService, TLC

MCProcs == 1..3
Symmetry == Permutations(Clients)

MCInit ==
    /\ Init
    /\ unit.file \in {"stale", "bare"} => unit.enabled /\ Active
    /\ unit.file = "old" => unit.enabled = ~Active
    /\ unit.file \in {"old", "unmanaged"} /\ ~Active =>
         proc[1] = [Runs("adm") EXCEPT !.phase = "serving"]
MCSpec == MCInit /\ [][Next]_vars
===============================================================================
