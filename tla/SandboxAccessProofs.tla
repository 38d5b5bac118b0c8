-------------------------- MODULE SandboxAccessProofs --------------------------
(***************************************************************************)
(* Proofs about SandboxAccess, for every finite number of commands, every  *)
(* set of Workspaces, every arrangement of the directories above the root  *)
(* and of the tools in them, and every number of troubles in a behaviour.  *)
(***************************************************************************)
EXTENDS SandboxAccess, FiniteSetTheorems, TLAPS

\* A command that has not asked the broker yet names no lease, one that waits
\* for the broker does.
Early == {"idle", "waiting", "locked", "prepared"}
Phases == Early \cup {"entering", "entered", "profiled", "running", "revoking", "deleting",
                      "done", "leaving"}
RunStates == [pc : Phases, key : Workspaces \cup {None}, made : SUBSET ({"root"} \cup Tools),
              created : BOOLEAN]
Keyed(x) == /\ x.pc \in Early => x.key = None
            /\ x.pc \in {"entering", "leaving"} => x.key # None

KeyInv ==
  /\ \A r \in Runs : Keyed(run[r])
  /\ late.op = "none" <=> late.key = None

Hosts == [acl : SUBSET Places, read : SUBSET LentTools, profile : BOOLEAN]
Leases == [refs : Nat, owned : SUBSET Dirs, lost : SUBSET Dirs]

LEMMA PlacesAre ==
  /\ Dirs \cap {"root", "tool"} = {} /\ Dirs \subseteq Places
  /\ LentTools \subseteq Dirs /\ {"root"} \cup Tools \subseteq Places
  /\ \A key \in Workspaces : TraversalPaths(key) \subseteq Dirs
BY PlacesAssumption DEF Dirs, Places, Tools

-----------------------------------------------------------------------------
(* What the broker's operations change. *)

\* What the first one in finds closed, and opens.
Closed(key) == {place \in TraversalPaths(key) : ~Traversable(place)}

\* Entries taken from the host, and with them what is inherited from them.
Without(places) == [host EXCEPT !.acl = host.acl \ places, !.read = host.read \ places]

\* The first one in opens what is closed, or fails and takes back what the lease
\* owns and what it had opened: all of it, unless a revocation fails.
LEMMA EnterFirstIs ==
  ASSUME TypeOK, NEW key \in Workspaces, NEW ok \in BOOLEAN, EnterFirst(key, ok)
  PROVE
   \/ /\ ok
      /\ host' = [host EXCEPT !.acl = host.acl \cup Closed(key)]
      /\ \E lost \in SUBSET broker[key].lost :
           /\ broker' = [broker EXCEPT ![key] =
                [refs |-> 1, owned |-> broker[key].owned \cup Closed(key), lost |-> lost]]
           /\ lost = IF "restart" \in happened THEN broker[key].lost ELSE {}
      /\ happened' = happened
   \/ /\ ~ok
      /\ broker' = [broker EXCEPT ![key] = [refs |-> 0, owned |-> {}, lost |-> broker[key].lost]]
      /\ \E got \in SUBSET Closed(key) : \E gone \in SUBSET (broker[key].owned \cup got) :
           /\ host' = [host EXCEPT !.acl = (host.acl \cup got) \ gone, !.read = host.read \ gone]
           /\ "revoke" \notin happened' => gone = broker[key].owned \cup got
<1>0. host \in Hosts /\ broker[key] \in Leases
  BY DEF TypeOK, Hosts, Leases
<1>1. CASE ok
  <2>1. /\ host' = EnsurePaths(Closed(key)) /\ happened' = happened
        /\ broker' = [broker EXCEPT ![key] =
                [refs |-> 1, owned |-> broker[key].owned \cup Closed(key),
                 lost |-> IF "restart" \in happened THEN broker[key].lost ELSE {}]]
    BY <1>1 DEF EnterFirst, Closed
  <2>2. (IF "restart" \in happened THEN broker[key].lost ELSE {}) \in SUBSET broker[key].lost
    OBVIOUS
  <2>3. QED
    BY <1>1, <2>1, <2>2 DEF EnsurePaths
<1>2. CASE ~ok
  <2>1. PICK got \in SUBSET Closed(key), stuck \in SUBSET TraversalPaths(key) :
          /\ stuck \subseteq broker[key].owned \cup got
          /\ host' = [RevokePaths((broker[key].owned \cup got) \ stuck)
                        EXCEPT !.acl = @ \cup (got \cap stuck)]
          /\ IF stuck = {} THEN UNCHANGED happened ELSE Happens("revoke")
    BY <1>2 DEF EnterFirst, Closed
  <2>2. broker' = [broker EXCEPT ![key] = [refs |-> 0, owned |-> {}, lost |-> broker[key].lost]]
    BY <1>2 DEF EnterFirst, NoLease
  <2> DEFINE gone == (broker[key].owned \cup got) \ stuck
  <2>3. host' = [host EXCEPT !.acl = (host.acl \ gone) \cup (got \cap stuck),
                             !.read = host.read \ gone]
    BY <1>0, <2>1 DEF RevokePaths, Hosts
  <2>4. (host.acl \ gone) \cup (got \cap stuck) = (host.acl \cup got) \ gone
    OBVIOUS
  <2>5. "revoke" \notin happened' => gone = broker[key].owned \cup got
    BY <2>1 DEF Happens
  <2>6. /\ gone \in SUBSET (broker[key].owned \cup got)
        /\ host' = [host EXCEPT !.acl = (host.acl \cup got) \ gone, !.read = host.read \ gone]
    BY <2>3, <2>4
  <2> HIDE DEF gone
  <2>7. \E out \in SUBSET (broker[key].owned \cup got) :
          /\ host' = [host EXCEPT !.acl = (host.acl \cup got) \ out, !.read = host.read \ out]
          /\ "revoke" \notin happened' => out = broker[key].owned \cup got
    BY <2>5, <2>6
  <2>8. QED
    BY <1>2, <2>2, <2>7
<1>3. QED
  BY <1>1, <1>2

\* The last one out closes what the lease owns, unless a revocation fails.
LEMMA LeaveLastIs ==
  ASSUME TypeOK, NEW key \in Workspaces, LeaveLast(key)
  PROVE  \E gone \in SUBSET broker[key].owned, lease \in Leases :
           /\ host' = Without(gone)
           /\ broker' = [broker EXCEPT ![key] = lease]
           /\ lease.refs = 0 /\ lease.owned \subseteq broker[key].owned
           /\ lease.lost = broker[key].lost
           /\ "revoke" \notin happened' => gone = broker[key].owned /\ lease.owned = {}
<1>0. broker[key] \in Leases /\ broker \in [Workspaces -> Leases]
  BY DEF TypeOK, Leases
<1>1. PICK stuck \in SUBSET broker[key].owned :
        /\ host' = RevokePaths(broker[key].owned \ stuck)
        /\ broker' = [broker EXCEPT ![key].refs = 0,
                                    ![key].owned = IF stuck = {} THEN {} ELSE @]
        /\ IF stuck = {} THEN UNCHANGED happened ELSE Happens("revoke")
  BY DEF LeaveLast
<1> DEFINE gone == broker[key].owned \ stuck
           rest == IF stuck = {} THEN {} ELSE broker[key].owned
           lease == [broker[key] EXCEPT !.refs = 0, !.owned = rest]
<1>2. host' = Without(gone)
  BY <1>1 DEF RevokePaths, Without
<1>3. broker' = [broker EXCEPT ![key] = lease]
  BY <1>0, <1>1
<1>4. /\ lease \in Leases /\ lease.refs = 0 /\ lease.owned = rest
      /\ lease.lost = broker[key].lost
  BY <1>0 DEF Leases
<1>5. /\ rest \subseteq broker[key].owned /\ gone \in SUBSET broker[key].owned
      /\ "revoke" \notin happened' => gone = broker[key].owned /\ rest = {}
  BY <1>1 DEF Happens
<1> HIDE DEF lease, gone, rest
<1>6. QED
  BY <1>2, <1>3, <1>4, <1>5

\* One more, or one less, of several.
LEMMA CountIs ==
  ASSUME TypeOK, NEW key \in Workspaces, NEW n \in Nat,
         broker' = [broker EXCEPT ![key].refs = n]
  PROVE  /\ broker' = [broker EXCEPT ![key] = broker'[key]]
         /\ broker'[key] \in Leases /\ broker'[key].refs = n
         /\ broker'[key].owned = broker[key].owned /\ broker'[key].lost = broker[key].lost
<1>1. broker[key] \in Leases /\ broker \in [Workspaces -> Leases]
  BY DEF TypeOK, Leases
<1>2. broker'[key] = [broker[key] EXCEPT !.refs = n]
  BY <1>1
<1>3. QED
  BY <1>1, <1>2 DEF Leases

\* An operation of the broker concerns the directories of one lease only.
Lends(key) ==
  /\ \E places \in SUBSET Dirs :
       host'.acl \subseteq host.acl \cup places /\ host.acl \ places \subseteq host'.acl
  /\ host' \in [acl : SUBSET Places, read : SUBSET host.read, profile : {host.profile}]
  /\ \E lease \in Leases : /\ broker' = [broker EXCEPT ![key] = lease]
                            /\ lease.lost \in {broker[key].lost, {}}

LEMMA BrokerLends ==
  ASSUME TypeOK, NEW key \in Workspaces,
         (\E ok \in BOOLEAN : EnterExecution(key, ok)) \/ LeaveExecution(key)
  PROVE  Lends(key)
<1>0. /\ Closed(key) \subseteq Dirs /\ Dirs \subseteq Places
      /\ broker[key] \in Leases /\ host \in Hosts /\ broker \in [Workspaces -> Leases]
  BY PlacesAre DEF TypeOK, Leases, Hosts, Closed
<1>1. ASSUME UNCHANGED host, NEW n \in Nat, broker' = [broker EXCEPT ![key].refs = n]
      PROVE  Lends(key)
  <2>1. host'.acl \subseteq host.acl \cup {} /\ host.acl \ {} \subseteq host'.acl
    BY <1>1
  <2>2. host' \in [acl : SUBSET Places, read : SUBSET host.read, profile : {host.profile}]
    BY <1>0, <1>1 DEF Hosts
  <2>3. QED
    BY <1>1, <2>1, <2>2, CountIs DEF Lends
<1>2. ASSUME NEW places \in SUBSET Dirs, NEW acl \in SUBSET Places, NEW read \in SUBSET host.read,
             host' = [host EXCEPT !.acl = acl, !.read = read],
             acl \subseteq host.acl \cup places, host.acl \ places \subseteq acl,
             NEW lease \in Leases, broker' = [broker EXCEPT ![key] = lease],
             lease.lost \in {broker[key].lost, {}}
      PROVE  Lends(key)
  <2>1. host' \in [acl : SUBSET Places, read : SUBSET host.read, profile : {host.profile}]
        /\ host'.acl = acl
    BY <1>0, <1>2 DEF Hosts
  <2>2. QED
    BY <1>2, <2>1 DEF Lends
<1>3. ASSUME NEW ok \in BOOLEAN, EnterFirst(key, ok)
      PROVE  Lends(key)
  <2>1. CASE ok
    <3>1. /\ host' = [host EXCEPT !.acl = host.acl \cup Closed(key), !.read = host.read]
          /\ \E lease \in Leases : /\ broker' = [broker EXCEPT ![key] = lease]
                                    /\ lease.lost \in {broker[key].lost, {}}
      <4>1. PICK lost \in SUBSET broker[key].lost :
              /\ broker' = [broker EXCEPT ![key] =
                   [refs |-> 1, owned |-> broker[key].owned \cup Closed(key), lost |-> lost]]
              /\ lost \in {broker[key].lost, {}}
        BY <1>3, <2>1, EnterFirstIs
      <4>2. [refs |-> 1, owned |-> broker[key].owned \cup Closed(key), lost |-> lost] \in Leases
        BY <1>0 DEF Leases
      <4>3. host' = [host EXCEPT !.acl = host.acl \cup Closed(key)]
        BY <1>3, <2>1, EnterFirstIs
      <4>4. QED
        BY <1>0, <4>1, <4>2, <4>3 DEF Hosts
    <3>2. host.acl \cup Closed(key) \in SUBSET Places
      BY <1>0 DEF Hosts
    <3>3. QED
      BY <1>0, <1>2, <3>1, <3>2
  <2>2. CASE ~ok
    <3>1. PICK got \in SUBSET Closed(key) : \E gone \in SUBSET (broker[key].owned \cup got) :
            host' = [host EXCEPT !.acl = (host.acl \cup got) \ gone, !.read = host.read \ gone]
      BY <1>3, <2>2, EnterFirstIs
    <3>2. PICK gone \in SUBSET (broker[key].owned \cup got) :
            host' = [host EXCEPT !.acl = (host.acl \cup got) \ gone, !.read = host.read \ gone]
      BY <3>1
    <3> DEFINE lease == [refs |-> 0, owned |-> {}, lost |-> broker[key].lost]
               places == broker[key].owned \cup got
    <3>3. /\ broker' = [broker EXCEPT ![key] = lease] /\ lease \in Leases
          /\ lease.lost = broker[key].lost
      BY <1>0, <1>3, <2>2, EnterFirstIs DEF Leases
    <3>4. places \in SUBSET Dirs /\ (host.acl \cup got) \ gone \in SUBSET Places
      BY <1>0 DEF Leases, Hosts
    <3>5. (host.acl \cup got) \ gone \subseteq host.acl \cup places
          /\ host.acl \ places \subseteq (host.acl \cup got) \ gone
          /\ host.read \ gone \in SUBSET host.read
      OBVIOUS
    <3>6. host' \in [acl : SUBSET Places, read : SUBSET host.read, profile : {host.profile}]
          /\ host'.acl = (host.acl \cup got) \ gone
      BY <1>0, <3>2, <3>4, <3>5 DEF Hosts
    <3> HIDE DEF lease, places
    <3>7. QED
      BY <3>3, <3>4, <3>5, <3>6 DEF Lends
  <2>3. QED
    BY <2>1, <2>2
<1>4. ASSUME LeaveLast(key)
      PROVE  Lends(key)
  <2>1. PICK gone \in SUBSET broker[key].owned, lease \in Leases :
          /\ host' = Without(gone) /\ broker' = [broker EXCEPT ![key] = lease]
          /\ lease.lost = broker[key].lost
    BY <1>4, LeaveLastIs
  <2>2. gone \in SUBSET Dirs /\ host.acl \ gone \in SUBSET Places
    BY <1>0 DEF Leases, Hosts
  <2>3. host' \in [acl : SUBSET Places, read : SUBSET host.read, profile : {host.profile}]
        /\ host'.acl = host.acl \ gone
    BY <1>0, <2>1, <2>2 DEF Without, Hosts
  <2>4. host'.acl \subseteq host.acl \cup gone /\ host.acl \ gone \subseteq host'.acl
    BY <2>3
  <2>5. QED
    BY <2>1, <2>2, <2>3, <2>4 DEF Lends
<1>5. ASSUME NEW ok \in BOOLEAN, EnterExecution(key, ok)
      PROVE  Lends(key)
  <2>1. CASE broker[key].refs > 0
    <3>1. broker[key].refs + 1 \in Nat /\ UNCHANGED host
          /\ broker' = [broker EXCEPT ![key].refs = broker[key].refs + 1]
      BY <1>0, <1>5, <2>1 DEF EnterExecution, EnterAgain, Leases
    <3>2. QED
      BY <3>1, <1>1
  <2>2. CASE ~(broker[key].refs > 0)
    BY <1>5, <2>2, <1>3 DEF EnterExecution
  <2>3. QED
    BY <2>1, <2>2
<1>6. ASSUME LeaveExecution(key)
      PROVE  Lends(key)
  <2>1. CASE broker[key].refs > 1
    <3>1. broker[key].refs - 1 \in Nat /\ UNCHANGED host
          /\ broker' = [broker EXCEPT ![key].refs = broker[key].refs - 1]
      BY <1>0, <1>6, <2>1 DEF LeaveExecution, Leases
    <3>2. QED
      BY <3>1, <1>1
  <2>2. CASE ~(broker[key].refs > 1)
    BY <1>6, <2>2, <1>4 DEF LeaveExecution
  <2>3. QED
    BY <2>1, <2>2
<1>7. QED
  BY <1>5, <1>6

LEMMA LendsTypes ==
  ASSUME TypeOK, NEW key \in Workspaces, Lends(key)
  PROVE  /\ host' \in Hosts
         /\ broker' \in [Workspaces -> Leases]
         /\ host'.profile = host.profile
         /\ "root" \in host'.acl <=> "root" \in host.acl
<1>1. "root" \notin Dirs
  BY PlacesAre
<1>2. host \in Hosts /\ broker \in [Workspaces -> Leases]
  BY DEF TypeOK, Hosts, Leases
<1>3. QED
  BY <1>1, <1>2 DEF Lends, Hosts

-----------------------------------------------------------------------------
(* Type correctness. *)

RunsTyped == run \in [Runs -> RunStates] /\ \A r \in Runs : Keyed(run[r])
LateTyped == /\ late \in [op : {"none", "enter", "leave"}, key : Workspaces \cup {None}]
             /\ late.op = "none" <=> late.key = None
HostTyped == host \in Hosts
BrokerTyped == broker \in [Workspaces -> Leases]
EnvTyped == env \in [present : BOOLEAN, workspace : Workspaces]
GatewayTyped ==
  gw \in [store : {"free", "remove"}, prep : {"free", "remove"} \cup Runs,
          rm : {"idle", "locked", "cleaning", "deleting", "saving"}, alone : BOOLEAN]
HelperTyped == helper \in {"idle", "prepare", "cleanup"}

LEMMA Types ==
  /\ TypeOK /\ KeyInv <=> /\ RunsTyped /\ LateTyped /\ HostTyped /\ BrokerTyped
                          /\ EnvTyped /\ GatewayTyped /\ HelperTyped
  /\ (TypeOK /\ KeyInv)' <=> (/\ RunsTyped /\ LateTyped /\ HostTyped /\ BrokerTyped
                              /\ EnvTyped /\ GatewayTyped /\ HelperTyped)'
<1>1. RunStates = [pc : {"idle", "waiting", "locked", "prepared", "entering", "entered",
                         "profiled", "running", "revoking", "deleting", "done", "leaving"},
                   key : Workspaces \cup {None}, made : SUBSET ({"root"} \cup Tools),
                   created : BOOLEAN]
  <2>1. Phases = {"idle", "waiting", "locked", "prepared", "entering", "entered",
                  "profiled", "running", "revoking", "deleting", "done", "leaving"}
    BY DEF Phases, Early
  <2>2. QED
    BY <2>1 DEF RunStates
<1>2. QED
  BY <1>1 DEF TypeOK, KeyInv, RunsTyped, LateTyped, HostTyped, BrokerTyped, EnvTyped,
              GatewayTyped, HelperTyped, Hosts, Leases

LEMMA RunMoves ==
  ASSUME RunsTyped, NEW r \in Runs, NEW x \in RunStates, Keyed(x),
         run' = [run EXCEPT ![r] = x]
  PROVE  RunsTyped'
BY DEF RunsTyped

LEMMA RunGoes ==
  ASSUME RunsTyped, NEW r \in Runs, NEW pc \in Phases, Go(r, pc),
         pc \in Early => run[r].key = None,
         pc \in {"entering", "leaving"} => run[r].key # None
  PROVE  RunsTyped'
<1>1. run[r] \in RunStates
  BY DEF RunsTyped
<1>2. [run[r] EXCEPT !.pc = pc] \in RunStates /\ Keyed([run[r] EXCEPT !.pc = pc])
  BY <1>1 DEF RunStates, Keyed
<1>3. run' = [run EXCEPT ![r] = [run[r] EXCEPT !.pc = pc]]
  BY DEF Go
<1>4. QED
  BY <1>2, <1>3, RunMoves

LEMMA RunEnds ==
  ASSUME RunsTyped, NEW r \in Runs, End(r)
  PROVE  RunsTyped'
<1>1. NoRun \in RunStates /\ Keyed(NoRun)
  BY DEF NoRun, RunStates, Keyed, Phases, Early
<1>2. QED
  BY <1>1, RunMoves DEF End

LEMMA InitTypes == Init => TypeOK /\ KeyInv
<1> SUFFICES ASSUME Init PROVE TypeOK /\ KeyInv
  OBVIOUS
<1>1. RunsTyped
  BY DEF Init, RunsTyped, NoRun, RunStates, Phases, Early, Keyed
<1>2. LateTyped /\ HostTyped /\ BrokerTyped
  BY RunsAssumption DEF Init, LateTyped, HostTyped, BrokerTyped, NoCall, NoLease, Hosts, Leases
<1>3. EnvTyped /\ GatewayTyped /\ HelperTyped
  BY DEF Init, EnvTyped, GatewayTyped, HelperTyped, NoGateway
<1>4. QED
  BY <1>1, <1>2, <1>3, Types

\* What a command grants: what does not suffice already.
LEMMA GrantsAre ==
  ASSUME NEW r \in Runs, ExecuteGrants(r)
  PROVE  \E made \in SUBSET ({"root"} \cup Tools), pc \in {"running", "revoking"} :
           /\ run' = [run EXCEPT ![r].made = made, ![r].pc = pc]
           /\ host' = [EnsurePaths(made) EXCEPT !.read = @ \cup (made \cap LentTools)]
<1>1. PICK wanted \in {{}, {"root"}} \cup {{"root", tool} : tool \in Tools} :
         LET made == {place \in wanted : ~Suffices(place)}
         IN  /\ run' = [run EXCEPT ![r].made = made,
                          ![r].pc = IF wanted \subseteq {"root"} THEN "revoking" ELSE "running"]
             /\ host' = [EnsurePaths(made) EXCEPT !.read = @ \cup (made \cap LentTools)]
  BY DEF ExecuteGrants
<1> DEFINE made == {place \in wanted : ~Suffices(place)}
           pc == IF wanted \subseteq {"root"} THEN "revoking" ELSE "running"
<1>2. made \in SUBSET ({"root"} \cup Tools) /\ pc \in {"running", "revoking"}
  OBVIOUS
<1>3. /\ run' = [run EXCEPT ![r].made = made, ![r].pc = pc]
      /\ host' = [EnsurePaths(made) EXCEPT !.read = @ \cup (made \cap LentTools)]
  BY <1>1
<1> HIDE DEF made, pc
<1>4. QED
  BY <1>2, <1>3

\* What a lease may lose with the tool directories that a command gives back.
Under(key, places) ==
  {place \in TraversalPaths(key) : \E tool \in places : place \in Reach(tool)}

\* A command that gives its directories back leaves the counts of the broker, and
\* what its leases own, alone.
LEMMA RevokesAre ==
  ASSUME broker \in [Workspaces -> Leases], NEW r \in Runs, ExecuteRevokes(r)
  PROVE  /\ broker' \in [Workspaces -> Leases]
         /\ \A key \in Workspaces :
              broker'[key].refs = broker[key].refs /\ broker'[key].owned = broker[key].owned
         /\ \E gone \in SUBSET run[r].made :
              /\ host' = Without(gone)
              /\ \A key \in Workspaces :
                   broker'[key].lost = broker[key].lost \cup Under(key, gone \cap LentTools)
              /\ "revoke" \notin happened' => gone = run[r].made
<1>1. PICK stuck \in SUBSET run[r].made :
        /\ host' = RevokePaths(run[r].made \ stuck)
        /\ broker' = LoseTo((run[r].made \ stuck) \cap LentTools)
        /\ IF stuck = {} THEN UNCHANGED happened ELSE Happens("revoke")
  BY DEF ExecuteRevokes
<1> DEFINE gone == run[r].made \ stuck
<1>2. host' = Without(gone) /\ ("revoke" \notin happened' => gone = run[r].made)
  BY <1>1 DEF RevokePaths, Without, Happens
<1>3. broker' = [key \in Workspaces |->
                   [broker[key] EXCEPT !.lost = @ \cup Under(key, gone \cap LentTools)]]
  BY <1>1 DEF LoseTo, Under
<1>4. ASSUME NEW key \in Workspaces
      PROVE  /\ broker'[key] \in Leases
             /\ broker'[key].refs = broker[key].refs /\ broker'[key].owned = broker[key].owned
             /\ broker'[key].lost = broker[key].lost \cup Under(key, gone \cap LentTools)
  <2>1. broker[key] \in Leases /\ Under(key, gone \cap LentTools) \in SUBSET Dirs
    BY PlacesAre DEF Under
  <2> HIDE DEF gone
  <2>2. broker'[key] = [broker[key] EXCEPT !.lost =
                          broker[key].lost \cup Under(key, gone \cap LentTools)]
    BY <1>3
  <2>3. QED
    BY <2>1, <2>2 DEF Leases
<1>5. broker' \in [Workspaces -> Leases]
  BY <1>3, <1>4
<1>6. gone \in SUBSET run[r].made
  OBVIOUS
<1> HIDE DEF gone
<1>7. QED
  BY <1>2, <1>4, <1>5, <1>6

\* The steps of a command.
LEMMA RunStepTypes ==
  ASSUME TypeOK, KeyInv, NEW r \in Runs
  PROVE
   /\ PrepareSandboxExecution(r) \/ EnsureLocks(r) \/ EnsureEnvironmentSandboxAccess(r)
        \/ AskEnter(r) => RunsTyped' /\ HostTyped' /\ GatewayTyped'
   /\ BrokerEnters(r) \/ BrokerRefuses(r) \/ RequestGivesUp(r, "entering", "enter")
        \/ RequestGivesUp(r, "leaving", "leave") \/ AskLeave(r) \/ BrokerLeaves(r)
        => RunsTyped' /\ HostTyped' /\ BrokerTyped' /\ LateTyped'
   /\ ExecuteEnsuresProfile(r) \/ ExecuteGrants(r) \/ ExecuteRevokes(r)
        \/ ExecuteDeletesProfile(r) => RunsTyped' /\ HostTyped' /\ BrokerTyped'
<1> USE DEF HostTyped, Hosts
<1>0. /\ RunsTyped /\ LateTyped /\ HostTyped /\ BrokerTyped
      /\ EnvTyped /\ GatewayTyped /\ HelperTyped
      /\ run[r] \in RunStates /\ Keyed(run[r])
  BY Types DEF RunsTyped
<1>a. /\ run[r].pc \in Phases /\ run[r].key \in Workspaces \cup {None}
      /\ run[r].made \in SUBSET ({"root"} \cup Tools)
      /\ run[r].pc \in Early => run[r].key = None
      /\ run[r].pc \in {"entering", "leaving"} => run[r].key # None
  BY <1>0 DEF Keyed, RunStates
<1>b. /\ {"waiting", "locked", "prepared", "entered", "done", "deleting"} \subseteq Phases
      /\ "entering" \in Phases /\ "leaving" \in Phases /\ "profiled" \in Phases
      /\ "running" \in Phases /\ "revoking" \in Phases
      /\ Early = {"idle", "waiting", "locked", "prepared"}
  BY DEF Phases, Early
<1>1. PrepareSandboxExecution(r) => RunsTyped' /\ HostTyped' /\ GatewayTyped'
  BY <1>0, <1>a, <1>b, RunGoes DEF PrepareSandboxExecution, GatewayTyped
<1>2. EnsureLocks(r) => RunsTyped' /\ HostTyped' /\ GatewayTyped'
  <2> SUFFICES ASSUME EnsureLocks(r) PROVE RunsTyped' /\ GatewayTyped'
    BY <1>0 DEF EnsureLocks
  <2>1. RunsTyped'
    BY <1>0, <1>a, <1>b, RunGoes DEF EnsureLocks
  <2>2. GatewayTyped'
    BY <1>0 DEF EnsureLocks, GatewayTyped
  <2>3. QED
    BY <2>1, <2>2
<1>3. EnsureEnvironmentSandboxAccess(r) => RunsTyped' /\ HostTyped' /\ GatewayTyped'
  <2> SUFFICES ASSUME EnsureEnvironmentSandboxAccess(r)
               PROVE  RunsTyped' /\ HostTyped' /\ GatewayTyped'
    OBVIOUS
  <2>1. RunsTyped'
    BY <1>0, <1>a, <1>b, RunGoes, RunEnds DEF EnsureEnvironmentSandboxAccess
  <2>2. GatewayTyped'
    BY <1>0 DEF EnsureEnvironmentSandboxAccess, GatewayTyped
  <2>3. HostTyped'
    BY <1>0, PlacesAre DEF EnsureEnvironmentSandboxAccess, Prepared, EnsureProfile
  <2>4. QED
    BY <2>1, <2>2, <2>3
<1>4. AskEnter(r) => RunsTyped' /\ HostTyped' /\ GatewayTyped'
  <2> SUFFICES ASSUME AskEnter(r) PROVE RunsTyped'
    BY <1>0 DEF AskEnter, GatewayTyped
  <2>1. CASE End(r)
    BY <2>1, <1>0, RunEnds
  <2>2. CASE Go(r, "entered")
    BY <2>2, <1>0, <1>a, <1>b, RunGoes
  <2>3. CASE run' = [run EXCEPT ![r].pc = "entering", ![r].key = env.workspace]
    <3> DEFINE x == [run[r] EXCEPT !.pc = "entering", !.key = env.workspace]
    <3>1. run' = [run EXCEPT ![r] = x]
      BY <2>3
    <3>2. x \in RunStates /\ Keyed(x)
      BY <1>0, <1>b, RunsAssumption DEF RunStates, Keyed, EnvTyped
    <3>3. QED
      BY <3>1, <3>2, <1>0, RunMoves
  <2>4. QED
    BY <2>1, <2>2, <2>3 DEF AskEnter
<1>5. BrokerEnters(r) => RunsTyped' /\ HostTyped' /\ BrokerTyped' /\ LateTyped'
  <2> SUFFICES ASSUME BrokerEnters(r)
               PROVE  RunsTyped' /\ HostTyped' /\ BrokerTyped' /\ LateTyped'
    OBVIOUS
  <2>1. RunsTyped'
    BY <1>0, <1>a, <1>b, RunGoes, RunEnds DEF BrokerEnters
  <2>2. Lends(run[r].key) /\ run[r].key \in Workspaces
    BY <1>a, BrokerLends DEF BrokerEnters
  <2>3. QED
    BY <2>1, <2>2, <1>0, LendsTypes DEF BrokerEnters, BrokerTyped, LateTyped
<1>6. BrokerRefuses(r) => RunsTyped' /\ HostTyped' /\ BrokerTyped' /\ LateTyped'
  BY <1>0, RunEnds DEF BrokerRefuses, BrokerTyped, LateTyped
<1>7. ASSUME NEW pc \in {"entering", "leaving"}, NEW op \in {"enter", "leave"},
             RequestGivesUp(r, pc, op)
      PROVE  RunsTyped' /\ HostTyped' /\ BrokerTyped' /\ LateTyped'
  <2>1. RunsTyped' /\ HostTyped' /\ BrokerTyped'
    BY <1>7, <1>0, RunEnds DEF RequestGivesUp, BrokerTyped
  <2>2. late' = [op |-> op, key |-> run[r].key] /\ run[r].key \in Workspaces
    BY <1>7, <1>a DEF RequestGivesUp
  <2>3. LateTyped'
    BY <2>2, RunsAssumption DEF LateTyped
  <2>4. QED
    BY <2>1, <2>3
<1>8. AskLeave(r) => RunsTyped' /\ HostTyped' /\ BrokerTyped' /\ LateTyped'
  <2> SUFFICES ASSUME AskLeave(r) PROVE RunsTyped'
    BY <1>0 DEF AskLeave, BrokerTyped, LateTyped
  <2>1. CASE End(r)
    BY <2>1, <1>0, RunEnds
  <2>2. CASE run' = [run EXCEPT ![r].pc = "leaving", ![r].key = env.workspace]
    <3> DEFINE x == [run[r] EXCEPT !.pc = "leaving", !.key = env.workspace]
    <3>1. run' = [run EXCEPT ![r] = x]
      BY <2>2
    <3>2. x \in RunStates /\ Keyed(x)
      BY <1>0, <1>b, RunsAssumption DEF RunStates, Keyed, EnvTyped
    <3>3. QED
      BY <3>1, <3>2, <1>0, RunMoves
  <2>3. QED
    BY <2>1, <2>2 DEF AskLeave
<1>9. BrokerLeaves(r) => RunsTyped' /\ HostTyped' /\ BrokerTyped' /\ LateTyped'
  <2> SUFFICES ASSUME BrokerLeaves(r)
               PROVE  RunsTyped' /\ HostTyped' /\ BrokerTyped' /\ LateTyped'
    OBVIOUS
  <2>1. RunsTyped'
    BY <1>0, RunEnds DEF BrokerLeaves
  <2>2. Lends(run[r].key) /\ run[r].key \in Workspaces
    BY <1>a, BrokerLends DEF BrokerLeaves
  <2>3. QED
    BY <2>1, <2>2, <1>0, LendsTypes DEF BrokerLeaves, BrokerTyped, LateTyped
<1>10. ExecuteEnsuresProfile(r) => RunsTyped' /\ HostTyped' /\ BrokerTyped'
  <2> SUFFICES ASSUME ExecuteEnsuresProfile(r) PROVE RunsTyped' /\ HostTyped'
    BY <1>0 DEF ExecuteEnsuresProfile, BrokerTyped
  <2>1. HostTyped'
    BY <1>0 DEF ExecuteEnsuresProfile, EnsureProfile
  <2>2. CASE Go(r, "done")
    BY <2>1, <2>2, <1>0, <1>b, RunGoes
  <2>3. CASE run' = [run EXCEPT ![r].pc = "profiled", ![r].created = ~host.profile]
    <3> DEFINE x == [run[r] EXCEPT !.pc = "profiled", !.created = ~host.profile]
    <3>1. run' = [run EXCEPT ![r] = x]
      BY <2>3
    <3>2. x \in RunStates /\ Keyed(x)
      BY <1>0, <1>b DEF RunStates, Keyed
    <3>3. QED
      BY <2>1, <3>1, <3>2, <1>0, RunMoves
  <2>4. QED
    BY <2>2, <2>3 DEF ExecuteEnsuresProfile
<1>11. ExecuteGrants(r) => RunsTyped' /\ HostTyped' /\ BrokerTyped'
  <2> SUFFICES ASSUME ExecuteGrants(r) PROVE RunsTyped' /\ HostTyped'
    BY <1>0 DEF ExecuteGrants, BrokerTyped
  <2>1. PICK made \in SUBSET ({"root"} \cup Tools), pc \in {"running", "revoking"} :
          /\ run' = [run EXCEPT ![r].made = made, ![r].pc = pc]
          /\ host' = [EnsurePaths(made) EXCEPT !.read = @ \cup (made \cap LentTools)]
    BY GrantsAre
  <2> DEFINE x == [run[r] EXCEPT !.made = made, !.pc = pc]
  <2>2. run' = [run EXCEPT ![r] = x]
    BY <2>1
  <2>3. x \in RunStates /\ Keyed(x)
    BY <1>0, <1>b DEF RunStates, Keyed
  <2>4. HostTyped'
    BY <2>1, <1>0, PlacesAre DEF EnsurePaths
  <2>5. QED
    BY <2>2, <2>3, <2>4, <1>0, RunMoves
<1>12. ExecuteRevokes(r) => RunsTyped' /\ HostTyped' /\ BrokerTyped'
  <2> SUFFICES ASSUME ExecuteRevokes(r) PROVE RunsTyped' /\ HostTyped' /\ BrokerTyped'
    OBVIOUS
  <2>1. RunsTyped'
    BY <1>0, <1>b, RunGoes DEF ExecuteRevokes
  <2>2. HostTyped'
    BY <1>0 DEF ExecuteRevokes, RevokePaths
  <2>3. BrokerTyped'
    BY <1>0, RevokesAre DEF BrokerTyped
  <2>4. QED
    BY <2>1, <2>2, <2>3
<1>13. ExecuteDeletesProfile(r) => RunsTyped' /\ HostTyped' /\ BrokerTyped'
  <2> SUFFICES ASSUME ExecuteDeletesProfile(r) PROVE RunsTyped' /\ HostTyped'
    BY <1>0 DEF ExecuteDeletesProfile, BrokerTyped
  <2>1. RunsTyped'
    BY <1>0, <1>b, RunGoes DEF ExecuteDeletesProfile
  <2>2. HostTyped'
    BY <1>0 DEF ExecuteDeletesProfile, DeleteProfile
  <2>3. QED
    BY <2>1, <2>2
<1>14. QED
  BY <1>1, <1>2, <1>3, <1>4, <1>5, <1>6, <1>7, <1>8, <1>9, <1>10, <1>11, <1>12, <1>13

LEMMA NextTypes == TypeOK /\ KeyInv /\ [Next]_vars => (TypeOK /\ KeyInv)'
<1> SUFFICES ASSUME TypeOK, KeyInv, [Next]_vars PROVE (TypeOK /\ KeyInv)'
  OBVIOUS
<1>0. /\ RunsTyped /\ LateTyped /\ HostTyped /\ BrokerTyped
      /\ EnvTyped /\ GatewayTyped /\ HelperTyped
  BY Types
<1> USE DEF HostTyped, Hosts, BrokerTyped, HelperTyped
<1> USE <1>0
<1>1. ASSUME NEW r \in Runs,
             \/ PrepareSandboxExecution(r) \/ EnsureLocks(r)
             \/ EnsureEnvironmentSandboxAccess(r) \/ AskEnter(r)
      PROVE  (TypeOK /\ KeyInv)'
  <2>1. RunsTyped' /\ HostTyped' /\ GatewayTyped'
    BY <1>1, RunStepTypes
  <2>2. LateTyped' /\ BrokerTyped' /\ EnvTyped' /\ HelperTyped'
    BY <1>1 DEF PrepareSandboxExecution, EnsureLocks, EnsureEnvironmentSandboxAccess, AskEnter,
                LateTyped, EnvTyped
  <2>3. QED
    BY <2>1, <2>2, Types
<1>2. ASSUME NEW r \in Runs,
             \/ BrokerEnters(r) \/ BrokerRefuses(r)
             \/ RequestGivesUp(r, "entering", "enter") \/ RequestGivesUp(r, "leaving", "leave")
             \/ AskLeave(r) \/ BrokerLeaves(r)
      PROVE  (TypeOK /\ KeyInv)'
  <2>1. RunsTyped' /\ HostTyped' /\ BrokerTyped' /\ LateTyped'
    BY <1>2, RunStepTypes
  <2>2. EnvTyped' /\ GatewayTyped' /\ HelperTyped'
    BY <1>2 DEF BrokerEnters, BrokerRefuses, RequestGivesUp, AskLeave, BrokerLeaves,
                EnvTyped, GatewayTyped
  <2>3. QED
    BY <2>1, <2>2, Types
<1>3. ASSUME NEW r \in Runs,
             \/ ExecuteEnsuresProfile(r) \/ ExecuteGrants(r) \/ ExecuteRevokes(r)
             \/ ExecuteDeletesProfile(r)
      PROVE  (TypeOK /\ KeyInv)'
  <2>1. RunsTyped' /\ HostTyped' /\ BrokerTyped'
    BY <1>3, RunStepTypes
  <2>2. LateTyped' /\ EnvTyped' /\ GatewayTyped' /\ HelperTyped'
    BY <1>3 DEF ExecuteEnsuresProfile, ExecuteGrants, ExecuteRevokes, ExecuteDeletesProfile,
                EnvTyped, GatewayTyped, LateTyped
  <2>3. QED
    BY <2>1, <2>2, Types
<1>4. CASE BrokerServesLate
  <2>1. late.key \in Workspaces
    BY <1>4 DEF LateTyped, BrokerServesLate
  <2>2. Lends(late.key)
    BY <1>4, <2>1, BrokerLends DEF BrokerServesLate
  <2>3. HostTyped' /\ BrokerTyped'
    BY <2>1, <2>2, LendsTypes
  <2>4. LateTyped' /\ RunsTyped' /\ EnvTyped' /\ GatewayTyped' /\ HelperTyped'
    BY <1>4 DEF BrokerServesLate, NoCall, RunsTyped, LateTyped, EnvTyped, GatewayTyped
  <2>5. QED
    BY <2>3, <2>4, Types
<1>5. CASE SetWorkspace
  <2>1. EnvTyped'
    BY <1>5 DEF SetWorkspace, EnvTyped
  <2>2. LateTyped' /\ RunsTyped' /\ HostTyped' /\ BrokerTyped' /\ GatewayTyped' /\ HelperTyped'
    BY <1>5 DEF SetWorkspace, RunsTyped, LateTyped, GatewayTyped
  <2>3. QED
    BY <2>1, <2>2, Types
<1>6. CASE RemoveBegins \/ CleanupLocks \/ CleanupRevokes \/ CleanupDeletesProfile \/ RemoveSaves
  <2>1. GatewayTyped'
    <3>1. CASE RemoveBegins \/ CleanupLocks
      BY <3>1 DEF RemoveBegins, CleanupLocks, GatewayTyped
    <3>2. NoGateway' \in [store : {"free", "remove"}, prep : {"free", "remove"} \cup Runs,
                          rm : {"idle", "locked", "cleaning", "deleting", "saving"},
                          alone : BOOLEAN]
      BY DEF NoGateway
    <3>3. ASSUME NEW ok \in BOOLEAN, gw' = CleanupReturns(ok)
          PROVE  GatewayTyped'
      BY <3>2, <3>3 DEF CleanupReturns, NoGateway, GatewayTyped
    <3>4. CASE CleanupRevokes \/ CleanupDeletesProfile
      <4>1. CASE gw' = [gw EXCEPT !.rm = "deleting"]
        BY <4>1 DEF GatewayTyped
      <4>2. QED
        BY <3>3, <3>4, <4>1 DEF CleanupRevokes, CleanupDeletesProfile
    <3>5. CASE RemoveSaves
      BY <3>2, <3>5 DEF RemoveSaves, NoGateway, GatewayTyped
    <3>6. QED
      BY <1>6, <3>1, <3>4, <3>5
  <2>2. HostTyped' /\ EnvTyped'
    <3>1. RevokePaths({"root"}) \in Hosts /\ DeleteProfile \in Hosts
      BY DEF RevokePaths, DeleteProfile
    <3>2. EnvTyped'
      BY <1>6 DEF RemoveBegins, CleanupLocks, CleanupRevokes, CleanupDeletesProfile, RemoveSaves,
                  EnvTyped
    <3>3. host' \in {host, RevokePaths({"root"}), DeleteProfile}
      BY <1>6 DEF RemoveBegins, CleanupLocks, CleanupRevokes, CleanupDeletesProfile, RemoveSaves
    <3> HIDE DEF Hosts
    <3>4. QED
      BY <3>1, <3>2, <3>3
  <2>3. LateTyped' /\ RunsTyped' /\ BrokerTyped' /\ HelperTyped'
    BY <1>6 DEF RemoveBegins, CleanupLocks, CleanupRevokes, CleanupDeletesProfile, RemoveSaves,
                RunsTyped, LateTyped
  <2>4. QED
    BY <2>1, <2>2, <2>3, Types
<1>7. CASE (\E op \in {"prepare", "cleanup"} : HelperReads(op)) \/ EnablePreparation
           \/ CleanupPreparation
  <2>1. HostTyped' /\ HelperTyped'
    BY <1>7 DEF HelperReads, EnablePreparation, CleanupPreparation, EnsureProfile, Prepared,
                RevokePaths, Places
  <2>2. GatewayTyped'
    BY <1>7 DEF HelperReads, EnablePreparation, CleanupPreparation, GatewayTyped
  <2>3. LateTyped' /\ RunsTyped' /\ BrokerTyped' /\ EnvTyped'
    BY <1>7 DEF HelperReads, EnablePreparation, CleanupPreparation, RunsTyped, LateTyped, EnvTyped
  <2>4. QED
    BY <2>1, <2>2, <2>3, Types
<1>8. NoRun \in RunStates /\ Keyed(NoRun)
  BY DEF NoRun, RunStates, Keyed, Phases, Early
<1>9. CASE GatewayCrashes
  <2>1. ASSUME NEW r \in Runs, run[r].pc \in DOMAIN Waits,
               late' = [op |-> Waits[run[r].pc], key |-> run[r].key]
        PROVE  LateTyped'
    <3>1. run[r].key \in Workspaces
      BY <2>1 DEF RunsTyped, RunStates, Keyed, Waits
    <3>2. Waits[run[r].pc] \in {"enter", "leave"}
      BY <2>1 DEF Waits
    <3>3. QED
      BY <2>1, <3>1, <3>2, RunsAssumption DEF LateTyped
  <2>2. LateTyped'
    BY <1>9, <2>1 DEF GatewayCrashes, LateTyped
  <2>3. RunsTyped' /\ GatewayTyped'
    BY <1>9, <1>8 DEF GatewayCrashes, RunsTyped, GatewayTyped, NoGateway
  <2>4. HostTyped' /\ BrokerTyped' /\ EnvTyped' /\ HelperTyped'
    BY <1>9 DEF GatewayCrashes, EnvTyped
  <2>5. QED
    BY <2>2, <2>3, <2>4, Types
<1>10. CASE BrokerCrashes
  <2>1. RunsTyped'
    BY <1>10, <1>8 DEF BrokerCrashes, RunsTyped
  <2>2. BrokerTyped' /\ LateTyped'
    BY <1>10, RunsAssumption DEF BrokerCrashes, NoLease, NoCall, LateTyped, Leases
  <2>3. HostTyped' /\ GatewayTyped' /\ EnvTyped' /\ HelperTyped'
    BY <1>10 DEF BrokerCrashes, EnvTyped, GatewayTyped
  <2>4. QED
    BY <2>1, <2>2, <2>3, Types
<1>11. CASE UNCHANGED vars
  BY <1>11, Types DEF vars, RunsTyped, LateTyped, EnvTyped, GatewayTyped
<1>12. QED
  BY <1>1, <1>2, <1>3, <1>4, <1>5, <1>6, <1>7, <1>9, <1>10, <1>11 DEF Next

\* Every state the commands, the broker, the removal, the desktop and the crashes
\* reach is one of those that TypeOK describes.
THEOREM TypeCorrect == Spec => [](TypeOK /\ KeyInv)
<1>1. Init => TypeOK /\ KeyInv
  BY InitTypes
<1>2. TypeOK /\ KeyInv /\ [Next]_vars => (TypeOK /\ KeyInv)'
  BY NextTypes
<1>3. QED
  BY <1>1, <1>2, PTL DEF Spec

-----------------------------------------------------------------------------
(* The removal. *)

\* Noted once, noted for good.
LEMMA HistoryGrows == [Next]_vars => happened \subseteq happened'
<1> SUFFICES ASSUME Next PROVE happened \subseteq happened'
  BY DEF vars
<1> USE DEF Happens, Note
<1>1. ASSUME NEW key, NEW ok, EnterExecution(key, ok)
      PROVE  happened \subseteq happened'
  BY <1>1 DEF EnterExecution, EnterFirst
<1>2. ASSUME NEW key, LeaveExecution(key)
      PROVE  happened \subseteq happened'
  BY <1>2 DEF LeaveExecution, LeaveLast
<1>3. ASSUME NEW r \in Runs,
             \/ PrepareSandboxExecution(r) \/ EnsureLocks(r)
             \/ EnsureEnvironmentSandboxAccess(r) \/ AskEnter(r) \/ BrokerEnters(r)
             \/ BrokerRefuses(r) \/ AskLeave(r) \/ BrokerLeaves(r)
      PROVE  happened \subseteq happened'
  BY <1>1, <1>2, <1>3 DEF PrepareSandboxExecution, EnsureLocks, EnsureEnvironmentSandboxAccess,
     AskEnter, BrokerEnters, BrokerRefuses, AskLeave, BrokerLeaves
<1>4. ASSUME NEW r \in Runs,
             \/ RequestGivesUp(r, "entering", "enter") \/ RequestGivesUp(r, "leaving", "leave")
             \/ ExecuteEnsuresProfile(r) \/ ExecuteGrants(r) \/ ExecuteRevokes(r)
             \/ ExecuteDeletesProfile(r)
      PROVE  happened \subseteq happened'
  BY <1>4 DEF RequestGivesUp, ExecuteEnsuresProfile, ExecuteGrants, ExecuteRevokes,
     ExecuteDeletesProfile, NoteOrphan
<1>5. CASE BrokerServesLate \/ SetWorkspace \/ GatewayCrashes \/ BrokerCrashes
  BY <1>1, <1>2, <1>5 DEF BrokerServesLate, SetWorkspace, GatewayCrashes, BrokerCrashes
<1>6. CASE RemoveBegins \/ CleanupLocks \/ CleanupRevokes \/ CleanupDeletesProfile \/ RemoveSaves
  BY <1>6 DEF RemoveBegins, CleanupLocks, CleanupRevokes, CleanupDeletesProfile, RemoveSaves,
     NoteOthers
<1>7. CASE (\E op \in {"prepare", "cleanup"} : HelperReads(op)) \/ EnablePreparation
           \/ CleanupPreparation
  BY <1>7 DEF HelperReads, EnablePreparation, CleanupPreparation
<1>8. QED
  BY <1>3, <1>4, <1>5, <1>6, <1>7 DEF Next

\* Nobody is at work on the Environment but a removal.
Unattended == ~SomeRunActive /\ helper = "idle"
Clean == happened \cap {"inside", "orphan"} = {}
NoAccess == "root" \notin host.acl /\ ~host.profile

\* The removal holds the store from its first step, so that no command begins
\* under it; one that found nobody at work stays alone, unless it is noted; and
\* then what it has taken away stays away.  An entry without a profile, which
\* the cleanup would not see, is noted.
RemovalInv ==
  /\ gw.store = "remove" <=> gw.rm # "idle"
  /\ gw.alone /\ gw.rm \in {"cleaning", "deleting", "saving"} => Unattended
  /\ ~env.present /\ "inside" \notin happened => Unattended
  /\ Clean => ("root" \in host.acl => host.profile)
  /\ Clean /\ gw.alone /\ gw.rm = "deleting" => "root" \notin host.acl
  /\ Clean /\ gw.alone /\ gw.rm = "saving" => NoAccess
  /\ Clean /\ ~env.present => NoAccess

LEMMA AttendedStep ==
  ASSUME RemovalInv, happened \subseteq happened',
         gw'.store = gw.store, gw'.rm = gw.rm, gw'.alone = gw.alone,
         env'.present = env.present,
         (gw.rm = "idle" /\ env.present) \/ ~Unattended,
         Clean' => ("root" \in host'.acl => host'.profile)
  PROVE  RemovalInv'
BY DEF RemovalInv, Clean

LEMMA RemovalRunStep ==
  ASSUME TypeOK, KeyInv, RemovalInv, happened \subseteq happened', NEW r \in Runs,
         \/ PrepareSandboxExecution(r) \/ EnsureLocks(r)
         \/ EnsureEnvironmentSandboxAccess(r)
         \/ AskEnter(r) \/ BrokerEnters(r) \/ BrokerRefuses(r)
         \/ RequestGivesUp(r, "entering", "enter") \/ RequestGivesUp(r, "leaving", "leave")
         \/ AskLeave(r) \/ BrokerLeaves(r)
         \/ ExecuteEnsuresProfile(r) \/ ExecuteGrants(r)
         \/ ExecuteRevokes(r) \/ ExecuteDeletesProfile(r)
  PROVE  RemovalInv'
<1>0. /\ RunsTyped /\ HostTyped /\ GatewayTyped /\ run[r] \in RunStates /\ Keyed(run[r])
  BY Types DEF RunsTyped
<1>1. PrepareSandboxExecution(r) \/ run[r].pc # "idle"
  BY DEF EnsureLocks, EnsureEnvironmentSandboxAccess, AskEnter, BrokerEnters, BrokerRefuses,
     RequestGivesUp, AskLeave, BrokerLeaves, ExecuteEnsuresProfile, ExecuteGrants,
     ExecuteRevokes, ExecuteDeletesProfile
<1>2. (gw.rm = "idle" /\ env.present) \/ ~Unattended
  BY <1>0, <1>1 DEF PrepareSandboxExecution, StoreFree, RemovalInv, GatewayTyped, Unattended,
     SomeRunActive
<1>3. gw'.store = gw.store /\ gw'.rm = gw.rm /\ gw'.alone = gw.alone /\ env'.present = env.present
  BY <1>0 DEF PrepareSandboxExecution, EnsureLocks, EnsureEnvironmentSandboxAccess, AskEnter,
     BrokerEnters, BrokerRefuses, RequestGivesUp, AskLeave, BrokerLeaves, ExecuteEnsuresProfile,
     ExecuteGrants, ExecuteRevokes, ExecuteDeletesProfile, GatewayTyped
<1>4. Clean' => ("root" \in host'.acl => host'.profile)
  <2> SUFFICES ASSUME Clean', "root" \in host'.acl PROVE host'.profile
    OBVIOUS
  <2>0. "root" \in host.acl => host.profile
    BY DEF RemovalInv, Clean
  <2>1. CASE UNCHANGED host
    BY <2>0, <2>1
  <2>2. CASE EnsureEnvironmentSandboxAccess(r) \/ ExecuteEnsuresProfile(r)
    BY <1>0, <2>0, <2>2 DEF EnsureEnvironmentSandboxAccess, ExecuteEnsuresProfile, Prepared,
       EnsureProfile, HostTyped, Hosts
  <2>3. CASE BrokerEnters(r) \/ BrokerLeaves(r)
    <3>1. run[r].key \in Workspaces
      BY <1>0, <2>3 DEF BrokerEnters, BrokerLeaves, RunStates, Keyed
    <3>2. Lends(run[r].key)
      BY <2>3, <3>1, BrokerLends DEF BrokerEnters, BrokerLeaves
    <3>3. QED
      BY <2>0, <3>1, <3>2, LendsTypes
  <2>4. CASE ExecuteGrants(r) \/ ExecuteDeletesProfile(r)
    <3>1. NoteOrphan
      BY <2>4 DEF ExecuteGrants, ExecuteDeletesProfile
    <3>2. QED
      BY <3>1 DEF NoteOrphan, Note, Clean
  <2>5. CASE ExecuteRevokes(r)
    BY <1>0, <2>0, <2>5 DEF ExecuteRevokes, RevokePaths, HostTyped, Hosts
  <2>6. QED
    BY <2>1, <2>2, <2>3, <2>4, <2>5 DEF PrepareSandboxExecution, EnsureLocks, AskEnter,
       BrokerRefuses, RequestGivesUp, AskLeave
<1>5. QED
  BY <1>2, <1>3, <1>4, AttendedStep

LEMMA RemovalStep ==
  TypeOK /\ KeyInv /\ RemovalInv /\ [Next]_vars => RemovalInv'
<1> SUFFICES ASSUME TypeOK, KeyInv, RemovalInv, [Next]_vars PROVE RemovalInv'
  OBVIOUS
<1>0. /\ RunsTyped /\ LateTyped /\ HostTyped /\ GatewayTyped /\ HelperTyped /\ EnvTyped
      /\ happened \subseteq happened'
  BY Types, HistoryGrows
<1>1. ASSUME NEW r \in Runs,
             \/ PrepareSandboxExecution(r) \/ EnsureLocks(r)
             \/ EnsureEnvironmentSandboxAccess(r)
             \/ AskEnter(r) \/ BrokerEnters(r) \/ BrokerRefuses(r)
             \/ RequestGivesUp(r, "entering", "enter") \/ RequestGivesUp(r, "leaving", "leave")
             \/ AskLeave(r) \/ BrokerLeaves(r)
             \/ ExecuteEnsuresProfile(r) \/ ExecuteGrants(r)
             \/ ExecuteRevokes(r) \/ ExecuteDeletesProfile(r)
      PROVE  RemovalInv'
  BY <1>0, <1>1, RemovalRunStep
<1>2. CASE BrokerServesLate
  <2>1. late.key \in Workspaces /\ late # NoCall
    BY <1>0, <1>2 DEF BrokerServesLate, LateTyped, NoCall
  <2>2. Lends(late.key)
    BY <1>2, <2>1, BrokerLends DEF BrokerServesLate
  <2>3. Clean' => ("root" \in host'.acl => host'.profile)
    BY <1>0, <2>1, <2>2, LendsTypes DEF RemovalInv, Clean
  <2>4. ~Unattended /\ UNCHANGED <<gw, env>>
    BY <1>2, <2>1 DEF Unattended, SomeRunActive, BrokerServesLate
  <2>5. QED
    BY <1>0, <2>3, <2>4, AttendedStep
<1>3. CASE SetWorkspace
  <2>1. gw.rm = "idle" /\ env.present /\ env'.present = env.present /\ UNCHANGED <<gw, host>>
    BY <1>0, <1>3 DEF SetWorkspace, StoreFree, RemovalInv, EnvTyped
  <2>2. Clean' => ("root" \in host'.acl => host'.profile)
    BY <1>0, <2>1 DEF RemovalInv, Clean
  <2>3. QED
    BY <1>0, <2>1, <2>2, AttendedStep
<1>4. CASE EnablePreparation \/ CleanupPreparation
  <2>1. ~Unattended /\ UNCHANGED <<gw, env>>
    BY <1>4 DEF Unattended, EnablePreparation, CleanupPreparation
  <2>2. Clean' => ("root" \in host'.acl => host'.profile)
    BY <1>0, <1>4 DEF EnablePreparation, CleanupPreparation, EnsureProfile, Prepared, RevokePaths,
       RemovalInv, Clean, HostTyped, Hosts
  <2>3. QED
    BY <1>0, <2>1, <2>2, AttendedStep
<1>5. CASE \E op \in {"prepare", "cleanup"} : HelperReads(op)
  <2>1. /\ env.present /\ UNCHANGED <<env, host>>
        /\ gw'.store = gw.store /\ gw'.rm = gw.rm /\ gw'.alone = (gw.rm = "idle")
    BY <1>0, <1>5 DEF HelperReads, GatewayTyped
  <2>2. QED
    BY <1>0, <2>1 DEF RemovalInv, Clean, NoAccess
<1>6. CASE RemoveBegins
  <2>1. /\ env.present /\ UNCHANGED <<env, host>>
        /\ gw'.store = "remove" /\ gw'.rm = "locked"
    BY <1>0, <1>6 DEF RemoveBegins, GatewayTyped
  <2>2. QED
    BY <1>0, <2>1 DEF RemovalInv, Clean, NoAccess
<1>7. CASE CleanupLocks
  <2>1. /\ gw.rm = "locked" /\ UNCHANGED <<env, host, late, run, helper>>
        /\ gw'.store = gw.store /\ gw'.rm = "cleaning" /\ gw'.alone = Unattended
    BY <1>0, <1>7 DEF CleanupLocks, GatewayTyped, Unattended
  <2>2. Unattended' = Unattended
    BY <2>1 DEF Unattended, SomeRunActive
  <2>3. QED
    BY <1>0, <2>1, <2>2 DEF RemovalInv, Clean, NoAccess
<1>8. CASE CleanupRevokes
  <2>1. UNCHANGED <<env, late, run, helper, happened>> /\ gw.rm = "cleaning"
    BY <1>8 DEF CleanupRevokes
  <2>2. Unattended' = Unattended /\ Clean' = Clean
    BY <2>1 DEF Unattended, SomeRunActive, Clean
  <2>3. CASE ~ProfilePresent /\ gw' = CleanupReturns(TRUE) /\ UNCHANGED host
    <3>1. gw'.store = gw.store /\ gw'.rm = "saving" /\ gw'.alone = gw.alone
      BY <1>0, <2>3 DEF CleanupReturns, GatewayTyped
    <3>2. QED
      BY <2>1, <2>2, <2>3, <3>1 DEF RemovalInv, NoAccess, ProfilePresent
  <2>4. CASE ProfilePresent /\ host' = RevokePaths({"root"})
             /\ gw' = [gw EXCEPT !.rm = "deleting"]
    <3>1. gw'.store = gw.store /\ gw'.rm = "deleting" /\ gw'.alone = gw.alone
      BY <1>0, <2>4 DEF GatewayTyped
    <3>2. host'.profile = host.profile /\ "root" \notin host'.acl
      BY <1>0, <2>4 DEF RevokePaths, HostTyped, Hosts
    <3>3. QED
      BY <2>1, <2>2, <3>1, <3>2 DEF RemovalInv, NoAccess
  <2>5. CASE gw' = CleanupReturns(FALSE) /\ UNCHANGED host
    BY <2>1, <2>2, <2>5 DEF CleanupReturns, NoGateway, RemovalInv, NoAccess
  <2>6. QED
    BY <1>8, <2>3, <2>4, <2>5 DEF CleanupRevokes
<1>9. CASE CleanupDeletesProfile
  <2>1. UNCHANGED <<env, late, run, helper>> /\ gw.rm = "deleting"
    BY <1>9 DEF CleanupDeletesProfile
  <2>2. Unattended' = Unattended
    BY <2>1 DEF Unattended, SomeRunActive
  <2>3. CASE host' = DeleteProfile /\ gw' = CleanupReturns(TRUE) /\ NoteOthers
    <3>1. gw'.store = gw.store /\ gw'.rm = "saving" /\ gw'.alone = gw.alone
      BY <1>0, <2>3 DEF CleanupReturns, GatewayTyped
    <3>2. ~host'.profile /\ host'.acl = host.acl
      BY <1>0, <2>3 DEF DeleteProfile, HostTyped, Hosts
    <3>3. Clean' => Clean /\ gw.alone
      BY <1>0, <2>3 DEF NoteOthers, Note, Clean
    <3>4. Clean' => NoAccess'
      BY <2>1, <3>2, <3>3 DEF RemovalInv, NoAccess
    <3>5. "inside" \notin happened' => "inside" \notin happened
      BY <1>0
    <3>6. QED
      BY <2>1, <2>2, <3>1, <3>2, <3>4, <3>5 DEF RemovalInv, NoAccess
  <2>4. CASE UNCHANGED <<host, happened>> /\ gw' = CleanupReturns(FALSE)
    BY <2>1, <2>2, <2>4 DEF CleanupReturns, NoGateway, RemovalInv, NoAccess, Clean
  <2>5. QED
    BY <1>9, <2>3, <2>4 DEF CleanupDeletesProfile
<1>10. CASE RemoveSaves
  <2>1. UNCHANGED <<host, late, run, helper>> /\ gw.rm = "saving"
        /\ gw'.store = "free" /\ gw'.rm = "idle"
    BY <1>10 DEF RemoveSaves, NoGateway
  <2>2. Unattended' = Unattended /\ NoAccess' = NoAccess
    BY <2>1 DEF Unattended, SomeRunActive, NoAccess
  <2>3. CASE env' = [env EXCEPT !.present = FALSE] /\ NoteOthers
    <3>1. "inside" \notin happened' => "inside" \notin happened /\ gw.alone
      BY <1>0, <2>3 DEF NoteOthers, Note
    <3>2. Clean' => Clean /\ gw.alone
      BY <1>0, <3>1 DEF Clean
    <3>3. QED
      BY <2>1, <2>2, <3>1, <3>2 DEF RemovalInv
  <2>4. CASE UNCHANGED <<env, happened>>
    BY <2>1, <2>2, <2>4 DEF RemovalInv, Clean
  <2>5. QED
    BY <1>10, <2>3, <2>4 DEF RemoveSaves
<1>11. CASE GatewayCrashes \/ BrokerCrashes
  <2>1. Unattended => Unattended'
    <3>1. CASE GatewayCrashes
      <4>1. ASSUME Unattended
            PROVE  late' = NoCall
        <5>1. late = NoCall /\ \A r \in Runs : run[r].pc = "idle"
          BY <4>1 DEF Unattended, SomeRunActive
        <5>2. ~ \E r \in Runs : run[r].pc \in DOMAIN Waits
          BY <5>1 DEF Waits
        <5>3. QED
          BY <3>1, <5>1, <5>2 DEF GatewayCrashes
      <4>2. \A r \in Runs : run'[r].pc = "idle"
        BY <3>1 DEF GatewayCrashes, NoRun
      <4>3. QED
        BY <3>1, <4>1, <4>2 DEF GatewayCrashes, Unattended, SomeRunActive
    <3>2. CASE BrokerCrashes
      BY <3>2 DEF BrokerCrashes, Unattended, SomeRunActive, NoRun
    <3>3. QED
      BY <1>11, <3>1, <3>2
  <2>2. UNCHANGED <<host, env>> /\ (UNCHANGED gw \/ gw' = NoGateway)
    BY <1>11 DEF GatewayCrashes, BrokerCrashes
  <2>3. NoAccess' = NoAccess /\ (Clean' => Clean)
        /\ ("inside" \notin happened' => "inside" \notin happened)
    BY <1>0, <2>2 DEF NoAccess, Clean
  <2>4. CASE UNCHANGED gw
    BY <2>1, <2>2, <2>3, <2>4 DEF RemovalInv
  <2>5. CASE gw' = NoGateway
    BY <2>1, <2>2, <2>3, <2>5 DEF RemovalInv, NoGateway
  <2>6. QED
    BY <2>2, <2>4, <2>5
<1>12. CASE UNCHANGED vars
  BY <1>12 DEF vars, RemovalInv, Unattended, SomeRunActive, Clean, NoAccess
<1>13. QED
  BY <1>1, <1>2, <1>3, <1>4, <1>5, <1>6, <1>7, <1>8, <1>9, <1>10, <1>11, <1>12 DEF Next

LEMMA InitRemoval == Init => RemovalInv
BY DEF Init, RemovalInv, NoGateway, NoAccess, Unattended, SomeRunActive, NoRun

LEMMA AlwaysRemoval == Spec => [](TypeOK /\ KeyInv /\ RemovalInv)
<1>1. Init => TypeOK /\ KeyInv /\ RemovalInv
  BY InitTypes, InitRemoval
<1>2. TypeOK /\ KeyInv /\ RemovalInv /\ [Next]_vars => (TypeOK /\ KeyInv /\ RemovalInv)'
  BY NextTypes, RemovalStep
<1>3. QED
  BY <1>1, <1>2, PTL DEF Spec

\* An Environment that has left the store has left neither its root's entry nor
\* its profile on the host, wherever an earlier cleanup failed or crashed -
\* unless somebody was at work on it during a cleanup, or a command left the
\* entry without the profile, which hides it.
THEOREM RemovalIsComplete == Spec => []RemovalLeavesNoAccess
<1>1. RemovalInv => RemovalLeavesNoAccess
  BY DEF RemovalInv, RemovalLeavesNoAccess, Clean, NoAccess, Granted, ProfilePresent
<1>2. QED
  BY <1>1, AlwaysRemoval, PTL

-----------------------------------------------------------------------------
(* Borrowed traversal. *)

\* Who has entered the lease of k and not left it: commands, and the command
\* whose request to leave the broker has yet to serve.
Borrowing == {"entered", "profiled", "running", "revoking", "deleting", "done", "leaving"}
Uses(x, k) == x.pc \in Borrowing /\ x.key = k
Users(k) == {r \in Runs : Uses(run[r], k)}
LateLeaves(k) == IF late.op = "leave" /\ late.key = k THEN 1 ELSE 0
Holders(k) == Cardinality(Users(k)) + LateLeaves(k)

\* What a lease lost it lost with all that lies below it.
LostInv ==
  \A k \in Workspaces : \A place \in broker[k].lost :
    Below(place) \cap TraversalPaths(k) \subseteq broker[k].lost

\* The directories of a lease that is held, or counted as held, are open, but for
\* the lost ones; the broker counts as many as hold it, or owns nothing that it
\* could take from them but what is lost anyway: a restart, and nothing else,
\* forgets who holds it, together with what was owned.
Passable(k) == \A place \in TraversalPaths(k) \ broker[k].lost : Traversable(place)
Lent(k) ==
  /\ Holders(k) > 0 \/ broker[k].refs > 0 => Passable(k)
  /\ broker[k].refs >= Holders(k) \/ broker[k].owned \subseteq broker[k].lost
  /\ "restart" \notin happened => broker[k].refs >= Holders(k)

\* Until the Workspace is changed under a command, all use the lease of one
\* Workspace, and it was changed once at most.
Unused(k) == broker[k].refs = 0 /\ broker[k].owned = {}
BoundInv == "rebind" \notin happened =>
  /\ \A r \in Runs : run[r].key \in {None, env.workspace}
  /\ late.key \in {None, env.workspace}
  /\ "move" \notin happened => \A k \in Workspaces \ {env.workspace} : Unused(k)

LentInv == "rebind" \notin happened => Lent(env.workspace)

\* What is not taken, and lies under no tool directory that is, stays open.
LEMMA StaysTraversable ==
  ASSUME HostTyped, NEW got, NEW gone, NEW place, Traversable(place),
         host'.acl = (host.acl \cup got) \ gone, host'.read = host.read \ gone,
         place \notin gone, \A tool \in gone \cap LentTools : place \notin Below(tool)
  PROVE  Traversable(place)'
<1>1. CASE place \in host.acl
  BY <1>1 DEF Traversable
<1>2. CASE place \notin host.acl
  <2>1. PICK tool \in host.read : place \in Reach(tool)
    BY <1>2 DEF Traversable, Readable
  <2>2. tool \in LentTools
    BY <2>1 DEF HostTyped, Hosts
  <2>3. tool \notin gone
    BY <2>1, <2>2 DEF Reach
  <2>4. tool \in host'.read
    BY <2>1, <2>3
  <2>5. QED
    BY <2>1, <2>4 DEF Traversable, Readable, Reach
<1>3. QED
  BY <1>1, <1>2

\* A lease loses a tool directory with all that lies below it.
LEMMA UnderClosed ==
  ASSUME NEW k \in Workspaces, NEW tools \in SUBSET LentTools, NEW place \in Under(k, tools)
  PROVE  Below(place) \cap TraversalPaths(k) \subseteq Under(k, tools)
<1> SUFFICES ASSUME NEW low \in Below(place), low \in TraversalPaths(k)
             PROVE  low \in Under(k, tools)
  OBVIOUS
<1>1. PICK tool \in tools : place \in {tool} \cup Below(tool)
  BY DEF Under, Reach
<1>2. tool \in Dirs /\ place \in Dirs /\ low \in Dirs
  BY <1>1, PlacesAre DEF Under
<1>3. low \in Below(tool)
  BY <1>1, <1>2, PlacesAssumption DEF Dirs
<1>4. QED
  BY <1>1, <1>3 DEF Under, Reach

LEMMA LostLends ==
  ASSUME BrokerTyped, LostInv, NEW key \in Workspaces, Lends(key)
  PROVE  LostInv'
<1>1. PICK lease \in Leases : /\ broker' = [broker EXCEPT ![key] = lease]
                              /\ lease.lost \in {broker[key].lost, {}}
  BY DEF Lends
<1>2. \A k \in Workspaces : broker'[k].lost \in {broker[k].lost, {}}
  BY <1>1 DEF BrokerTyped
<1>3. QED
  BY <1>2 DEF LostInv

LEMMA LostRevokes ==
  ASSUME BrokerTyped, RunsTyped, LostInv, NEW r \in Runs, ExecuteRevokes(r)
  PROVE  LostInv'
<1>1. PICK gone \in SUBSET run[r].made : \A key \in Workspaces :
         broker'[key].lost = broker[key].lost \cup Under(key, gone \cap LentTools)
  BY RevokesAre DEF BrokerTyped
<1>2. ASSUME NEW k \in Workspaces, NEW place \in broker'[k].lost
      PROVE  Below(place) \cap TraversalPaths(k) \subseteq broker'[k].lost
  <2>1. CASE place \in broker[k].lost
    BY <1>1, <2>1 DEF LostInv
  <2>2. CASE place \in Under(k, gone \cap LentTools)
    BY <1>1, <2>2, UnderClosed
  <2>3. QED
    BY <1>1, <1>2, <2>1, <2>2
<1>3. QED
  BY <1>2 DEF LostInv

LEMMA LostStep ==
  TypeOK /\ KeyInv /\ LostInv /\ [Next]_vars => LostInv'
<1> SUFFICES ASSUME TypeOK, KeyInv, LostInv, [Next]_vars PROVE LostInv'
  OBVIOUS
<1>0. RunsTyped /\ LateTyped /\ BrokerTyped
  BY Types
<1>1. CASE UNCHANGED broker
  BY <1>1 DEF LostInv
<1>2. ASSUME NEW r \in Runs, BrokerEnters(r) \/ BrokerLeaves(r)
      PROVE  LostInv'
  <2>1. run[r].key \in Workspaces
    BY <1>0, <1>2 DEF BrokerEnters, BrokerLeaves, RunsTyped, RunStates, Keyed
  <2>2. Lends(run[r].key)
    BY <1>2, <2>1, BrokerLends DEF BrokerEnters, BrokerLeaves
  <2>3. QED
    BY <1>0, <2>1, <2>2, LostLends
<1>3. CASE BrokerServesLate
  <2>1. late.key \in Workspaces
    BY <1>0, <1>3 DEF BrokerServesLate, LateTyped
  <2>2. QED
    BY <1>0, <1>3, <2>1, BrokerLends, LostLends DEF BrokerServesLate
<1>4. ASSUME NEW r \in Runs, ExecuteRevokes(r)
      PROVE  LostInv'
  BY <1>0, <1>4, LostRevokes
<1>5. CASE BrokerCrashes
  <2>1. \A k \in Workspaces : broker'[k].lost = broker[k].lost
    BY <1>5 DEF BrokerCrashes, NoLease
  <2>2. QED
    BY <2>1 DEF LostInv
<1>6. QED
  BY <1>1, <1>2, <1>3, <1>4, <1>5 DEF Next, vars, PrepareSandboxExecution, EnsureLocks,
     EnsureEnvironmentSandboxAccess, AskEnter, BrokerRefuses, RequestGivesUp, AskLeave,
     ExecuteEnsuresProfile, ExecuteGrants, ExecuteDeletesProfile, SetWorkspace, RemoveBegins,
     CleanupLocks, CleanupRevokes, CleanupDeletesProfile, RemoveSaves, HelperReads,
     EnablePreparation, CleanupPreparation, GatewayCrashes

LEMMA UsersCounted ==
  ASSUME NEW k
  PROVE  /\ IsFiniteSet(Users(k)) /\ Cardinality(Users(k)) \in Nat /\ Holders(k) \in Nat
         /\ (Cardinality(Users(k)) = 0 <=> Users(k) = {})
         /\ Users(k) # {} => Holders(k) > 0
         /\ Cardinality(Users(k))' \in Nat /\ Holders(k)' \in Nat
         /\ (Cardinality(Users(k))' = 0 <=> Users(k)' = {})
<1>1. IsFiniteSet(Users(k)) /\ IsFiniteSet(Users(k)')
  <2>1. Users(k) \subseteq Runs /\ Users(k)' \subseteq Runs
    BY DEF Users
  <2>2. QED
    BY <2>1, RunsAssumption, FS_Subset
<1>2. /\ Cardinality(Users(k)) \in Nat /\ (Cardinality(Users(k)) = 0 <=> Users(k) = {})
      /\ Cardinality(Users(k)') \in Nat /\ (Cardinality(Users(k)') = 0 <=> Users(k)' = {})
  BY <1>1, FS_CardinalityType, FS_EmptySet
<1>3. QED
  BY <1>1, <1>2 DEF Holders, LateLeaves

LEMMA UsersMove ==
  ASSUME RunsTyped, NEW r \in Runs, NEW x, run' = [run EXCEPT ![r] = x], NEW k
  PROVE  /\ Uses(x, k) /\ r \notin Users(k) =>
              Users(k)' = Users(k) \cup {r} /\ Cardinality(Users(k))' = Cardinality(Users(k)) + 1
         /\ ~Uses(x, k) /\ r \in Users(k) =>
              Users(k)' = Users(k) \ {r} /\ Cardinality(Users(k))' = Cardinality(Users(k)) - 1
         /\ (Uses(x, k) <=> r \in Users(k)) =>
              Users(k)' = Users(k) /\ Cardinality(Users(k))' = Cardinality(Users(k))
<1>1. \A q \in Runs : run'[q] = IF q = r THEN x ELSE run[q]
  BY DEF RunsTyped
<1>2. Users(k)' = {q \in Runs : Uses(run'[q], k)}
  BY DEF Users, Uses
<1>3. CASE Uses(x, k) /\ r \notin Users(k)
  <2>1. Users(k)' = Users(k) \cup {r}
    BY <1>1, <1>2, <1>3 DEF Users
  <2>2. QED
    BY <2>1, <1>3, UsersCounted, FS_AddElement
<1>4. CASE ~Uses(x, k) /\ r \in Users(k)
  <2>1. Users(k)' = Users(k) \ {r}
    BY <1>1, <1>2, <1>4 DEF Users
  <2>2. QED
    BY <2>1, <1>4, UsersCounted, FS_RemoveElement
<1>5. CASE Uses(x, k) <=> r \in Users(k)
  <2>1. Users(k)' = Users(k)
    BY <1>1, <1>2, <1>5 DEF Users
  <2>2. QED
    BY <2>1, <1>5
<1>6. QED
  BY <1>3, <1>4, <1>5

\* A step that does not concern the lease may end its users, and tools may go.
LEMMA LentStill ==
  ASSUME NEW k \in Workspaces, Lent(k), TypeOK, happened \subseteq happened',
         broker'[k].refs = broker[k].refs, broker'[k].owned = broker[k].owned,
         broker[k].lost \subseteq broker'[k].lost, Holders(k)' <= Holders(k),
         \A place \in TraversalPaths(k) \ broker'[k].lost :
           Traversable(place) => Traversable(place)'
  PROVE  Lent(k)'
<1>1. Holders(k) \in Nat /\ Holders(k)' \in Nat
  BY UsersCounted
<1>2. broker[k].refs \in Nat
  BY DEF TypeOK
<1>3. Passable(k) => Passable(k)'
  BY DEF Passable
<1>4. Holders(k)' > 0 => Holders(k) > 0
  BY <1>1
<1>5. broker[k].refs >= Holders(k) => broker'[k].refs >= Holders(k)'
  BY <1>1, <1>2
<1>6. QED
  BY <1>3, <1>4, <1>5 DEF Lent

\* Entering a lease, with one more user if it succeeds.
LEMMA LentEnter ==
  ASSUME NEW k \in Workspaces, Lent(k), LostInv, TypeOK, happened \subseteq happened',
         NEW ok \in BOOLEAN, EnterExecution(k, ok),
         Holders(k)' <= (IF ok THEN Holders(k) + 1 ELSE Holders(k))
  PROVE  Lent(k)'
<1>1. Holders(k) \in Nat /\ Holders(k)' \in Nat
  BY UsersCounted
<1>2. /\ broker[k] \in Leases /\ broker[k].refs \in Nat
      /\ host \in Hosts /\ k \in DOMAIN broker
  BY DEF TypeOK, Leases, Hosts
<1>3. CASE broker[k].refs > 0
  <2>1. ok /\ UNCHANGED <<host, happened>>
        /\ broker[k].refs + 1 \in Nat
        /\ broker' = [broker EXCEPT ![k].refs = broker[k].refs + 1]
    BY <1>2, <1>3 DEF EnterExecution, EnterAgain
  <2>2. /\ broker'[k].refs = broker[k].refs + 1
        /\ broker'[k].owned = broker[k].owned /\ broker'[k].lost = broker[k].lost
    BY <2>1, CountIs
  <2>3. Passable(k)'
    BY <1>3, <2>1, <2>2 DEF Lent, Passable, Traversable, Readable
  <2>4. broker[k].refs >= Holders(k) => broker'[k].refs >= Holders(k)'
    BY <1>1, <1>2, <2>1, <2>2
  <2>5. QED
    BY <2>1, <2>2, <2>3, <2>4 DEF Lent
<1>4. CASE ~(broker[k].refs > 0)
  <2>1. EnterFirst(k, ok) /\ broker[k].refs = 0
    BY <1>2, <1>4 DEF EnterExecution
  <2>2. Holders(k) > 0 =>
          /\ Closed(k) \cup broker[k].owned \subseteq broker[k].lost
          /\ "restart" \in happened
    BY <1>1, <2>1 DEF Lent, Passable, Closed
  <2>3. CASE ok
    <3>1. PICK lost \in SUBSET broker[k].lost :
            /\ broker' = [broker EXCEPT ![k] =
                 [refs |-> 1, owned |-> broker[k].owned \cup Closed(k), lost |-> lost]]
            /\ lost = IF "restart" \in happened THEN broker[k].lost ELSE {}
      BY <2>1, <2>3, EnterFirstIs
    <3>2. host' = [host EXCEPT !.acl = host.acl \cup Closed(k)] /\ happened' = happened
      BY <2>1, <2>3, EnterFirstIs
    <3>3. /\ broker'[k].refs = 1 /\ broker'[k].lost = lost
          /\ broker'[k].owned = broker[k].owned \cup Closed(k)
      BY <1>2, <3>1
    <3>4. \A place \in TraversalPaths(k) : Traversable(place)'
      <4>1. host'.acl = host.acl \cup Closed(k) /\ host'.read = host.read
        BY <1>2, <3>2 DEF Hosts
      <4>2. QED
        BY <4>1 DEF Closed, Traversable, Readable
    <3>5. CASE Holders(k) > 0
      BY <2>2, <3>1, <3>2, <3>3, <3>4, <3>5 DEF Lent, Passable
    <3>6. CASE Holders(k) = 0
      <4>1. broker'[k].refs >= Holders(k)'
        BY <1>1, <2>3, <3>3, <3>6
      <4>2. QED
        BY <3>4, <4>1 DEF Lent, Passable
    <3>7. QED
      BY <1>1, <3>5, <3>6
  <2>4. CASE ~ok
    <3>1. broker' = [broker EXCEPT ![k] = [refs |-> 0, owned |-> {}, lost |-> broker[k].lost]]
      BY <2>1, <2>4, EnterFirstIs
    <3>2. PICK got \in SUBSET Closed(k) : \E gone \in SUBSET (broker[k].owned \cup got) :
            host' = [host EXCEPT !.acl = (host.acl \cup got) \ gone, !.read = host.read \ gone]
      BY <2>1, <2>4, EnterFirstIs
    <3>3. PICK gone \in SUBSET (broker[k].owned \cup got) :
            host' = [host EXCEPT !.acl = (host.acl \cup got) \ gone, !.read = host.read \ gone]
      BY <3>2
    <3>4. /\ broker'[k].refs = 0 /\ broker'[k].owned = {} /\ broker'[k].lost = broker[k].lost
          /\ Holders(k)' <= Holders(k)
      BY <1>2, <2>4, <3>1
    <3>5. ASSUME Holders(k)' > 0 PROVE Passable(k)'
      <4>1. Holders(k) > 0 /\ gone \subseteq broker[k].lost /\ Passable(k)
        BY <1>1, <2>2, <3>4, <3>5 DEF Lent
      <4>2. host'.acl = (host.acl \cup got) \ gone /\ host'.read = host.read \ gone
        BY <1>2, <3>3 DEF Hosts
      <4>3. ASSUME NEW place \in TraversalPaths(k) \ broker[k].lost PROVE Traversable(place)'
        <5>1. Traversable(place) /\ place \notin gone /\ \A dir \in gone : place \notin Below(dir)
          BY <4>1 DEF Passable, LostInv
        <5>2. QED
          BY <1>2, <4>2, <5>1, StaysTraversable DEF HostTyped
      <4>4. QED
        BY <3>4, <4>3 DEF Passable
    <3>6. "restart" \notin happened' => broker'[k].refs >= Holders(k)'
      BY <1>1, <2>1, <3>4 DEF Lent
    <3>7. QED
      BY <3>4, <3>5, <3>6 DEF Lent
  <2>5. QED
    BY <2>3, <2>4
<1>5. QED
  BY <1>3, <1>4

\* Leaving it, with one user less.
LEMMA LentLeave ==
  ASSUME NEW k \in Workspaces, Lent(k), LostInv, TypeOK, happened \subseteq happened',
         LeaveExecution(k), Holders(k)' = Holders(k) - 1
  PROVE  Lent(k)'
<1>1. Holders(k) \in Nat /\ Holders(k)' \in Nat /\ Holders(k) > 0
  BY UsersCounted
<1>2. /\ broker[k] \in Leases /\ broker[k].refs \in Nat
      /\ host \in Hosts /\ k \in DOMAIN broker /\ Passable(k)
  BY <1>1 DEF TypeOK, Lent, Leases, Hosts
<1>3. CASE broker[k].refs > 1
  <2>1. /\ UNCHANGED <<host, happened>> /\ broker[k].refs - 1 \in Nat
        /\ broker' = [broker EXCEPT ![k].refs = broker[k].refs - 1]
    BY <1>2, <1>3 DEF LeaveExecution
  <2>2. /\ broker'[k].refs = broker[k].refs - 1
        /\ broker'[k].owned = broker[k].owned /\ broker'[k].lost = broker[k].lost
    BY <2>1, CountIs
  <2>3. broker[k].refs >= Holders(k) => broker'[k].refs >= Holders(k)'
    BY <1>1, <1>2, <2>2
  <2>4. Passable(k)'
    BY <1>2, <2>1, <2>2 DEF Passable, Traversable, Readable
  <2>5. QED
    BY <2>1, <2>2, <2>3, <2>4 DEF Lent
<1>4. CASE ~(broker[k].refs > 1)
  <2>1. PICK gone \in SUBSET broker[k].owned, lease \in Leases :
          /\ host' = Without(gone) /\ broker' = [broker EXCEPT ![k] = lease]
          /\ lease.refs = 0 /\ lease.owned \subseteq broker[k].owned
          /\ lease.lost = broker[k].lost
    BY <1>4, LeaveLastIs DEF LeaveExecution
  <2>2. /\ broker'[k].refs = 0 /\ broker'[k].owned \subseteq broker[k].owned
        /\ broker'[k].lost = broker[k].lost
    BY <1>2, <2>1
  <2>3. CASE Holders(k)' = 0
    BY <2>2, <2>3 DEF Lent
  <2>4. CASE Holders(k)' > 0
    <3>1. broker[k].owned \subseteq broker[k].lost /\ "restart" \in happened
      BY <1>1, <1>2, <1>4, <2>4 DEF Lent
    <3>2. host'.acl = (host.acl \cup {}) \ gone /\ host'.read = host.read \ gone
      BY <1>2, <2>1 DEF Without, Hosts
    <3>3. ASSUME NEW place \in TraversalPaths(k) \ broker[k].lost PROVE Traversable(place)'
      <4>1. Traversable(place) /\ place \notin gone /\ \A dir \in gone : place \notin Below(dir)
        BY <1>2, <2>1, <3>1 DEF Passable, LostInv
      <4>2. QED
        BY <1>2, <3>2, <4>1, StaysTraversable DEF HostTyped
    <3>4. Passable(k)'
      BY <2>2, <3>3 DEF Passable
    <3>5. QED
      BY <2>2, <3>1, <3>4 DEF Lent
  <2>5. QED
    BY <1>1, <2>3, <2>4
<1>5. QED
  BY <1>3, <1>4

\* What a step of a command makes of its state: it uses the lease it used.
CommandStep(r) ==
  \/ PrepareSandboxExecution(r) \/ EnsureLocks(r)
  \/ EnsureEnvironmentSandboxAccess(r)
  \/ AskEnter(r) \/ BrokerEnters(r) \/ BrokerRefuses(r)
  \/ RequestGivesUp(r, "entering", "enter") \/ RequestGivesUp(r, "leaving", "leave")
  \/ AskLeave(r) \/ BrokerLeaves(r)
  \/ ExecuteEnsuresProfile(r) \/ ExecuteGrants(r)
  \/ ExecuteRevokes(r) \/ ExecuteDeletesProfile(r)

Becomes(r, x) ==
  /\ run' = [run EXCEPT ![r] = x]
  /\ x.key \in {None, run[r].key, env.workspace}
  /\ x.pc \in Borrowing =>
       \/ run[r].pc \in Borrowing /\ (run[r].key # None => x.key \in {run[r].key, env.workspace})
                                   /\ (run[r].key = None => x.key = None)
       \/ run[r].pc \notin Borrowing /\ x.key = run[r].key
            /\ (x.key = None \/ BrokerEnters(r))

LEMMA CommandBecomes ==
  ASSUME TypeOK, KeyInv, NEW r \in Runs, CommandStep(r)
  PROVE  (\E x \in RunStates : Becomes(r, x)) /\ env' = env
<1>0. /\ RunsTyped /\ EnvTyped /\ run[r] \in RunStates /\ Keyed(run[r])
  BY Types DEF RunsTyped
<1>1. env' = env
  BY DEF CommandStep, PrepareSandboxExecution, EnsureLocks, EnsureEnvironmentSandboxAccess,
     AskEnter, BrokerEnters, BrokerRefuses, RequestGivesUp, AskLeave, BrokerLeaves,
     ExecuteEnsuresProfile, ExecuteGrants, ExecuteRevokes, ExecuteDeletesProfile
<1>2. ASSUME NEW x \in RunStates, Becomes(r, x) PROVE \E y \in RunStates : Becomes(r, y)
  BY <1>2
<1>3. ASSUME End(r) PROVE \E x \in RunStates : Becomes(r, x)
  <2>1. NoRun \in RunStates /\ NoRun.pc \notin Borrowing /\ NoRun.key = None
    BY DEF NoRun, RunStates, Phases, Early, Borrowing
  <2>2. QED
    BY <1>2, <1>3, <2>1 DEF End, Becomes
<1>4. ASSUME NEW pc \in Phases, Go(r, pc),
             \/ pc \notin Borrowing \/ run[r].pc \in Borrowing
             \/ run[r].key = None \/ BrokerEnters(r)
      PROVE  \E x \in RunStates : Becomes(r, x)
  <2> DEFINE x == [run[r] EXCEPT !.pc = pc]
  <2>1. x \in RunStates /\ x.pc = pc /\ x.key = run[r].key /\ run' = [run EXCEPT ![r] = x]
    BY <1>0, <1>4 DEF RunStates, Go
  <2>2. Becomes(r, x)
    BY <1>4, <2>1 DEF Becomes
  <2>3. QED
    BY <2>1, <2>2
<1>5. ASSUME NEW pc \in {"entering", "leaving"},
             run' = [run EXCEPT ![r].pc = pc, ![r].key = env.workspace],
             pc = "leaving" => run[r].pc \in Borrowing /\ run[r].key # None
      PROVE  \E x \in RunStates : Becomes(r, x)
  <2> DEFINE x == [run[r] EXCEPT !.pc = pc, !.key = env.workspace]
  <2>1. x \in RunStates /\ x.pc = pc /\ x.key = env.workspace /\ run' = [run EXCEPT ![r] = x]
    BY <1>0, <1>5 DEF RunStates, EnvTyped, Phases
  <2>2. Becomes(r, x)
    BY <1>5, <2>1 DEF Becomes, Borrowing
  <2>3. QED
    BY <2>1, <2>2
<1>6. ASSUME NEW pc \in {"profiled", "running", "revoking"}, run[r].pc \in {"entered", "profiled"},
             NEW made \in SUBSET ({"root"} \cup Tools), NEW created \in BOOLEAN,
             run' = [run EXCEPT ![r] = [run[r] EXCEPT !.pc = pc, !.made = made, !.created = created]]
      PROVE  \E x \in RunStates : Becomes(r, x)
  <2> DEFINE x == [run[r] EXCEPT !.pc = pc, !.made = made, !.created = created]
  <2>1. x \in RunStates /\ x.pc = pc /\ x.key = run[r].key /\ run' = [run EXCEPT ![r] = x]
    BY <1>0, <1>6 DEF RunStates, Phases
  <2>2. Becomes(r, x)
    BY <1>6, <2>1 DEF Becomes, Borrowing
  <2>3. QED
    BY <2>1, <2>2
<1>7. /\ Phases = {"idle", "waiting", "locked", "prepared", "entering", "entered", "profiled",
                   "running", "revoking", "deleting", "done", "leaving"}
      /\ Borrowing = {"entered", "profiled", "running", "revoking", "deleting", "done", "leaving"}
      /\ run[r].pc \in Early => run[r].key = None
      /\ "prepared" \in Early
  BY <1>0 DEF Phases, Early, Borrowing, Keyed
<1>8. CASE PrepareSandboxExecution(r) \/ EnsureLocks(r) \/ EnsureEnvironmentSandboxAccess(r)
  BY <1>1, <1>3, <1>4, <1>7, <1>8
     DEF PrepareSandboxExecution, EnsureLocks, EnsureEnvironmentSandboxAccess
<1>9. CASE AskEnter(r)
  BY <1>1, <1>3, <1>4, <1>5, <1>7, <1>9 DEF AskEnter
<1>10. CASE BrokerEnters(r)
  BY <1>1, <1>3, <1>4, <1>7, <1>10 DEF BrokerEnters
<1>11. CASE BrokerRefuses(r) \/ BrokerLeaves(r) \/ RequestGivesUp(r, "entering", "enter")
            \/ RequestGivesUp(r, "leaving", "leave")
  BY <1>1, <1>3, <1>11 DEF BrokerRefuses, BrokerLeaves, RequestGivesUp
<1>12. CASE AskLeave(r)
  BY <1>1, <1>3, <1>5, <1>7, <1>12 DEF AskLeave
<1>13. CASE ExecuteEnsuresProfile(r)
  <2>1. CASE Go(r, "done")
    BY <1>1, <1>4, <1>7, <1>13, <2>1 DEF ExecuteEnsuresProfile
  <2>2. CASE run' = [run EXCEPT ![r].pc = "profiled", ![r].created = ~host.profile]
    <3>1. run' = [run EXCEPT ![r] = [run[r] EXCEPT !.pc = "profiled", !.made = run[r].made,
                                                   !.created = ~host.profile]]
      BY <1>0, <2>2 DEF RunStates
    <3>2. run[r].made \in SUBSET ({"root"} \cup Tools) /\ (~host.profile) \in BOOLEAN
      BY <1>0 DEF RunStates
    <3>3. run[r].pc = "entered"
      BY <1>13 DEF ExecuteEnsuresProfile
    <3>4. QED
      BY <1>1, <1>6, <3>1, <3>2, <3>3
  <2>3. QED
    BY <1>13, <2>1, <2>2 DEF ExecuteEnsuresProfile
<1>14. CASE ExecuteGrants(r)
  <2>1. PICK made \in SUBSET ({"root"} \cup Tools), pc \in {"running", "revoking"} :
          run' = [run EXCEPT ![r].made = made, ![r].pc = pc]
    BY <1>14, GrantsAre
  <2>2. run[r].created \in BOOLEAN /\ run[r].pc = "profiled"
    BY <1>0, <1>14 DEF ExecuteGrants, RunStates
  <2>3. run' = [run EXCEPT ![r] = [run[r] EXCEPT !.pc = pc, !.made = made,
                                                 !.created = run[r].created]]
    BY <1>0, <2>1 DEF RunStates
  <2>4. QED
    BY <1>1, <1>6, <2>1, <2>2, <2>3
<1>15. CASE ExecuteRevokes(r) \/ ExecuteDeletesProfile(r)
  BY <1>1, <1>4, <1>7, <1>15 DEF ExecuteRevokes, ExecuteDeletesProfile
<1>16. QED
  BY <1>8, <1>9, <1>10, <1>11, <1>12, <1>13, <1>14, <1>15 DEF CommandStep

\* What most steps leave alone: what the broker counts, and what it owns.
SameLease(k) == broker'[k].refs = broker[k].refs /\ broker'[k].owned = broker[k].owned

\* Only the broker, when it is asked, changes that in a step of a command.
LEMMA CommandLeases ==
  ASSUME TypeOK, NEW r \in Runs, CommandStep(r), ~BrokerEnters(r), ~BrokerLeaves(r)
  PROVE  /\ \A k \in Workspaces : SameLease(k)
         /\ broker' = broker \/ ExecuteRevokes(r)
<1>1. broker' = broker \/ ExecuteRevokes(r)
  BY DEF CommandStep, PrepareSandboxExecution, EnsureLocks, EnsureEnvironmentSandboxAccess,
     AskEnter, BrokerRefuses, RequestGivesUp, AskLeave, ExecuteEnsuresProfile, ExecuteGrants,
     ExecuteDeletesProfile
<1>2. broker \in [Workspaces -> Leases]
  BY DEF TypeOK, Leases
<1>3. QED
  BY <1>1, <1>2, RevokesAre DEF SameLease

LEMMA BoundStep ==
  TypeOK /\ KeyInv /\ BoundInv /\ [Next]_vars => BoundInv'
<1> SUFFICES ASSUME TypeOK, KeyInv, BoundInv, [Next]_vars, "rebind" \notin happened'
             PROVE  /\ \A r \in Runs : run'[r].key \in {None, env'.workspace}
                    /\ late'.key \in {None, env'.workspace}
                    /\ "move" \notin happened' =>
                         \A k \in Workspaces \ {env'.workspace} : Unused(k)'
  BY DEF BoundInv
<1>0. /\ RunsTyped /\ LateTyped /\ BrokerTyped /\ EnvTyped
      /\ happened \subseteq happened' /\ "rebind" \notin happened
  BY Types, HistoryGrows
<1>1. /\ \A r \in Runs : run[r].key \in {None, env.workspace}
      /\ late.key \in {None, env.workspace}
      /\ "move" \notin happened' =>
           \A k \in Workspaces \ {env.workspace} : Unused(k)
  BY <1>0 DEF BoundInv
<1>2. ASSUME Lends(env.workspace), NEW k \in Workspaces \ {env.workspace}
      PROVE  SameLease(k)
  BY <1>0, <1>2 DEF Lends, BrokerTyped, SameLease
<1>a. ASSUME NEW k \in Workspaces, SameLease(k), Unused(k)
      PROVE  Unused(k)'
  BY <1>a DEF Unused, SameLease
<1>3. ASSUME NEW r \in Runs, CommandStep(r)
      PROVE  /\ \A q \in Runs : run'[q].key \in {None, env'.workspace}
             /\ late'.key \in {None, env'.workspace}
             /\ "move" \notin happened' =>
                  \A k \in Workspaces \ {env'.workspace} : Unused(k)'
  <2>1. PICK x \in RunStates : Becomes(r, x) /\ env' = env
    BY <1>3, CommandBecomes
  <2>2. \A q \in Runs : run'[q] = IF q = r THEN x ELSE run[q]
    BY <1>0, <2>1 DEF Becomes, RunsTyped
  <2>3. \A q \in Runs : run'[q].key \in {None, env'.workspace}
    BY <1>1, <2>1, <2>2 DEF Becomes
  <2>4. late' = late \/ late'.key = run[r].key
    <3>1. CASE RequestGivesUp(r, "entering", "enter") \/ RequestGivesUp(r, "leaving", "leave")
      BY <3>1 DEF RequestGivesUp
    <3>2. QED
      BY <1>3, <3>1 DEF CommandStep, PrepareSandboxExecution, EnsureLocks,
         EnsureEnvironmentSandboxAccess, AskEnter, BrokerEnters, BrokerRefuses, AskLeave,
         BrokerLeaves, ExecuteEnsuresProfile, ExecuteGrants, ExecuteRevokes, ExecuteDeletesProfile
  <2>5. \A k \in Workspaces \ {env.workspace} : SameLease(k)
    <3>1. CASE BrokerEnters(r) \/ BrokerLeaves(r)
      <4>1. run[r].key # None
        BY <1>0, <3>1 DEF BrokerEnters, BrokerLeaves, RunsTyped, Keyed
      <4>2. run[r].key = env.workspace
        BY <1>1, <4>1
      <4>3. Lends(env.workspace)
        BY <1>0, <3>1, <4>2, BrokerLends DEF BrokerEnters, BrokerLeaves, EnvTyped
      <4>4. QED
        BY <1>2, <4>3
    <3>2. QED
      BY <1>3, <3>1, CommandLeases
  <2>6. QED
    BY <1>1, <1>a, <2>1, <2>3, <2>4, <2>5
<1>4. CASE BrokerServesLate
  <2>1. late.key = env.workspace
    BY <1>0, <1>1, <1>4 DEF BrokerServesLate, LateTyped
  <2>2. Lends(env.workspace) /\ UNCHANGED <<env, run>> /\ late' = NoCall
    BY <1>0, <1>4, <2>1, BrokerLends DEF BrokerServesLate, EnvTyped
  <2>3. QED
    BY <1>1, <1>2, <1>a, <2>2 DEF NoCall
<1>5. CASE SetWorkspace
  <2>1. ~SomeRunActive /\ "move" \in happened'
    BY <1>5 DEF SetWorkspace, Happens
  <2>2. late = NoCall /\ \A r \in Runs : run[r].key = None
    BY <1>0, <2>1 DEF SomeRunActive, RunsTyped, Keyed, Early
  <2>3. QED
    BY <1>5, <2>1, <2>2 DEF SetWorkspace, NoCall
<1>6. CASE RemoveBegins \/ CleanupLocks \/ CleanupRevokes \/ CleanupDeletesProfile \/ RemoveSaves
           \/ (\E op \in {"prepare", "cleanup"} : HelperReads(op))
           \/ EnablePreparation \/ CleanupPreparation \/ UNCHANGED vars
  <2>1. UNCHANGED <<run, late, broker>> /\ env'.workspace = env.workspace
    BY <1>0, <1>6 DEF RemoveBegins, CleanupLocks, CleanupRevokes, CleanupDeletesProfile, RemoveSaves,
       HelperReads, EnablePreparation, CleanupPreparation, vars, EnvTyped
  <2>2. QED
    BY <1>1, <1>a, <2>1 DEF SameLease
<1>7. CASE GatewayCrashes
  <2>1. late' = late \/ \E r \in Runs : late'.key = run[r].key
    BY <1>7 DEF GatewayCrashes
  <2>2. UNCHANGED <<broker, env>> /\ \A r \in Runs : run'[r].key = None
    BY <1>7 DEF GatewayCrashes, NoRun
  <2>3. QED
    BY <1>1, <1>a, <2>1, <2>2 DEF SameLease
<1>8. CASE BrokerCrashes
  <2>1. env' = env /\ late'.key = None /\ \A k \in Workspaces : Unused(k)'
    BY <1>8 DEF BrokerCrashes, NoCall, NoLease, Unused
  <2>2. \A r \in Runs : run'[r].key \in {None, run[r].key}
    BY <1>8 DEF BrokerCrashes, NoRun
  <2>3. QED
    BY <1>1, <2>1, <2>2
<1>9. QED
  BY <1>3, <1>4, <1>5, <1>6, <1>7, <1>8 DEF Next, CommandStep

\* A command that gives its tools back takes away what is lost with them only.
LEMMA RevokesLose ==
  ASSUME NEW k \in Workspaces, RunsTyped, HostTyped, BrokerTyped, NEW r \in Runs,
         ExecuteRevokes(r)
  PROVE  /\ broker[k].lost \subseteq broker'[k].lost
         /\ \A place \in TraversalPaths(k) \ broker'[k].lost :
              Traversable(place) => Traversable(place)'
<1>1. PICK gone \in SUBSET run[r].made :
        /\ host' = Without(gone)
        /\ \A key \in Workspaces :
             broker'[key].lost = broker[key].lost \cup Under(key, gone \cap LentTools)
  BY RevokesAre DEF BrokerTyped
<1>2. gone \subseteq {"root", "tool"} \cup LentTools
  BY DEF RunsTyped, RunStates, Tools
<1>3. host'.acl = (host.acl \cup {}) \ gone /\ host'.read = host.read \ gone
  BY <1>1 DEF Without, HostTyped, Hosts
<1>4. ASSUME NEW place \in TraversalPaths(k) \ broker'[k].lost, Traversable(place)
      PROVE  Traversable(place)'
  <2>1. \A tool \in gone \cap LentTools : place # tool /\ place \notin Below(tool)
    BY <1>1 DEF Under, Reach
  <2>2. place \notin gone
    BY <1>2, <2>1, PlacesAre
  <2>3. QED
    BY <1>3, <1>4, <2>1, <2>2, StaysTraversable
<1>5. QED
  BY <1>1, <1>4

LEMMA LentCommand ==
  ASSUME TypeOK, KeyInv, NEW k \in Workspaces, Lent(k), LostInv, NEW r \in Runs, CommandStep(r),
         k = env.workspace, \A q \in Runs : run[q].key \in {None, k}, happened \subseteq happened'
  PROVE  Lent(k)'
<1>0. /\ RunsTyped /\ LateTyped /\ HostTyped /\ BrokerTyped
      /\ run[r] \in RunStates /\ Keyed(run[r])
      /\ k # None /\ k \in DOMAIN broker
  BY Types, RunsAssumption DEF RunsTyped, BrokerTyped
<1>1. PICK x \in RunStates : Becomes(r, x)
  BY CommandBecomes
<1>2. Holders(k) = Cardinality(Users(k)) + LateLeaves(k)
      /\ Holders(k)' = Cardinality(Users(k))' + LateLeaves(k)'
      /\ Cardinality(Users(k)) \in Nat /\ Cardinality(Users(k))' \in Nat
      /\ LateLeaves(k) \in Nat /\ LateLeaves(k)' \in Nat
  BY UsersCounted DEF Holders, LateLeaves
<1>3. /\ Uses(x, k) /\ r \notin Users(k) => Cardinality(Users(k))' = Cardinality(Users(k)) + 1
      /\ ~Uses(x, k) /\ r \in Users(k) => Cardinality(Users(k))' = Cardinality(Users(k)) - 1
      /\ (Uses(x, k) <=> r \in Users(k)) => Cardinality(Users(k))' = Cardinality(Users(k))
  BY <1>0, <1>1, UsersMove DEF Becomes
<1>4. r \in Users(k) <=> Uses(run[r], k)
  BY DEF Users
<1>5. ~BrokerEnters(r) => (Uses(x, k) => r \in Users(k))
  BY <1>0, <1>1, <1>4 DEF Becomes, Uses
<1>6. CASE BrokerEnters(r)
  <2>1. run[r].key = k /\ run[r].pc = "entering" /\ late' = late
    BY <1>0, <1>6 DEF BrokerEnters, Keyed
  <2>2. r \notin Users(k) /\ LateLeaves(k)' = LateLeaves(k)
    BY <1>4, <2>1 DEF Uses, Borrowing, LateLeaves
  <2>0. ASSUME NEW ok \in BOOLEAN, EnterExecution(k, ok),
               Holders(k)' <= (IF ok THEN Holders(k) + 1 ELSE Holders(k))
        PROVE  Lent(k)'
    BY <2>0, LentEnter
  <2>3. CASE EnterExecution(k, TRUE)
    <3>1. Holders(k)' <= Holders(k) + 1
      BY <1>2, <1>3, <2>2
    <3>2. QED
      BY <2>0, <2>3, <3>1
  <2>4. CASE EnterExecution(k, FALSE) /\ End(r)
    <3>1. run' = [run EXCEPT ![r] = NoRun] /\ ~Uses(NoRun, k)
      BY <1>0, <2>4 DEF End, NoRun, Uses
    <3>2. Cardinality(Users(k))' = Cardinality(Users(k))
      BY <1>0, <2>2, <3>1, UsersMove
    <3>3. Holders(k)' <= Holders(k)
      BY <1>2, <2>2, <3>2
    <3>4. QED
      BY <2>0, <2>4, <3>3
  <2>5. QED
    BY <1>6, <2>1, <2>3, <2>4 DEF BrokerEnters
<1>7. CASE BrokerLeaves(r)
  <2>1. run[r].key = k /\ run[r].pc = "leaving" /\ late' = late
    BY <1>0, <1>7 DEF BrokerLeaves, Keyed
  <2>2. r \in Users(k) /\ LateLeaves(k)' = LateLeaves(k)
    BY <1>4, <2>1 DEF Uses, Borrowing, LateLeaves
  <2>3. run' = [run EXCEPT ![r] = NoRun] /\ ~Uses(NoRun, k)
    BY <1>0, <1>7 DEF BrokerLeaves, End, NoRun, Uses
  <2>4. Cardinality(Users(k))' = Cardinality(Users(k)) - 1
    BY <1>0, <2>2, <2>3, UsersMove
  <2>5. QED
    BY <1>2, <1>7, <2>1, <2>2, <2>4, LentLeave DEF BrokerLeaves
<1>8. CASE ~BrokerEnters(r) /\ ~BrokerLeaves(r)
  <2>1. SameLease(k) /\ (broker' = broker \/ ExecuteRevokes(r))
    BY <1>8, CommandLeases
  <2>2. /\ broker[k].lost \subseteq broker'[k].lost
        /\ \A place \in TraversalPaths(k) \ broker'[k].lost :
             Traversable(place) => Traversable(place)'
    <3>1. CASE ExecuteRevokes(r)
      BY <1>0, <3>1, RevokesLose
    <3>2. CASE ~ExecuteRevokes(r)
      <4>1. broker' = broker
        BY <2>1, <3>2
      <4>2. host.acl \subseteq host'.acl /\ host.read \subseteq host'.read
        <5>1. CASE EnsureEnvironmentSandboxAccess(r) \/ ExecuteEnsuresProfile(r)
                   \/ ExecuteDeletesProfile(r)
          BY <1>0, <5>1 DEF EnsureEnvironmentSandboxAccess, ExecuteEnsuresProfile,
             ExecuteDeletesProfile, Prepared, EnsureProfile, DeleteProfile, HostTyped, Hosts
        <5>2. CASE ExecuteGrants(r)
          <6>1. PICK made \in SUBSET ({"root"} \cup Tools) :
                  host' = [EnsurePaths(made) EXCEPT !.read = @ \cup (made \cap LentTools)]
            BY <5>2, GrantsAre
          <6>2. QED
            BY <1>0, <6>1 DEF EnsurePaths, HostTyped, Hosts
        <5>3. CASE UNCHANGED host
          BY <5>3
        <5>4. QED
          BY <1>8, <3>2, <5>1, <5>2, <5>3 DEF CommandStep, PrepareSandboxExecution, EnsureLocks,
             AskEnter, BrokerRefuses, RequestGivesUp, AskLeave
      <4>3. QED
        BY <4>1, <4>2 DEF Traversable, Readable
    <3>3. QED
      BY <3>1, <3>2
  <2>3. Holders(k)' <= Holders(k)
    <3>1. CASE RequestGivesUp(r, "leaving", "leave")
      <4>1. run[r].key = k /\ run[r].pc = "leaving" /\ late = NoCall
        BY <1>0, <3>1 DEF RequestGivesUp, Keyed
      <4>2. r \in Users(k) /\ LateLeaves(k) = 0 /\ LateLeaves(k)' <= 1
        BY <1>4, <4>1 DEF Uses, Borrowing, LateLeaves, NoCall
      <4>3. run' = [run EXCEPT ![r] = NoRun] /\ ~Uses(NoRun, k)
        BY <1>0, <3>1 DEF RequestGivesUp, End, NoRun, Uses
      <4>4. Cardinality(Users(k))' = Cardinality(Users(k)) - 1
        BY <1>0, <4>2, <4>3, UsersMove
      <4>5. QED
        BY <1>2, <4>2, <4>4
    <3>2. CASE ~RequestGivesUp(r, "leaving", "leave")
      <4>1. LateLeaves(k)' <= LateLeaves(k)
        <5>1. CASE RequestGivesUp(r, "entering", "enter")
          BY <1>2, <5>1 DEF RequestGivesUp, LateLeaves
        <5>2. CASE late' = late
          BY <1>2, <5>2 DEF LateLeaves
        <5>3. QED
          BY <1>8, <3>2, <5>1, <5>2 DEF CommandStep, PrepareSandboxExecution, EnsureLocks,
             EnsureEnvironmentSandboxAccess, AskEnter, BrokerRefuses, AskLeave,
             ExecuteEnsuresProfile, ExecuteGrants, ExecuteRevokes, ExecuteDeletesProfile
      <4>2. Cardinality(Users(k))' <= Cardinality(Users(k))
        BY <1>2, <1>3, <1>5, <1>8
      <4>3. QED
        BY <1>2, <4>1, <4>2
    <3>3. QED
      BY <3>1, <3>2
  <2>4. QED
    BY <2>1, <2>2, <2>3, LentStill DEF SameLease
<1>9. QED
  BY <1>6, <1>7, <1>8

LEMMA LentStep ==
  TypeOK /\ KeyInv /\ BoundInv /\ LostInv /\ LentInv /\ [Next]_vars => LentInv'
<1> SUFFICES ASSUME TypeOK, KeyInv, BoundInv, LostInv, LentInv, [Next]_vars,
                    "rebind" \notin happened',
                    NEW k \in Workspaces, k = env'.workspace
             PROVE  Lent(k)'
  <2>1. TypeOK /\ KeyInv /\ [Next]_vars => env'.workspace \in Workspaces
    BY NextTypes DEF TypeOK
  <2>2. QED
    BY <2>1 DEF LentInv, Lent, Holders, Users, LateLeaves, Uses, Passable, Traversable, Readable
<1>0. /\ RunsTyped /\ LateTyped /\ BrokerTyped /\ EnvTyped /\ HostTyped
      /\ happened \subseteq happened' /\ "rebind" \notin happened
  BY Types, HistoryGrows
<1>1. /\ \A r \in Runs : run[r].key \in {None, env.workspace}
      /\ late.key \in {None, env.workspace}
      /\ "move" \notin happened => \A w \in Workspaces \ {env.workspace} : Unused(w)
      /\ Lent(env.workspace)
  BY <1>0 DEF BoundInv, LentInv
<1>2. k = env.workspace => Lent(k)
  BY <1>1
<1>a. Dirs \cap {"root", "tool"} = {} /\ LentTools \subseteq Dirs
  BY PlacesAre
<1>3. ASSUME NEW r \in Runs, CommandStep(r)
      PROVE  Lent(k)'
  <2>1. k = env.workspace
    BY <1>3, CommandBecomes
  <2>2. QED
    BY <1>0, <1>1, <1>2, <1>3, <2>1, LentCommand
<1>4. CASE BrokerServesLate
  <2>1. k = env.workspace /\ late.key = k /\ late.op # "none"
    BY <1>0, <1>1, <1>4 DEF BrokerServesLate, LateTyped
  <2>2. Users(k)' = Users(k) /\ LateLeaves(k)' = 0
    BY <1>4 DEF BrokerServesLate, NoCall, Users, Uses, LateLeaves
  <2>3. /\ Holders(k) = Cardinality(Users(k)) + LateLeaves(k)
        /\ Holders(k)' = Cardinality(Users(k))
        /\ Cardinality(Users(k)) \in Nat
    BY <2>2, UsersCounted DEF Holders
  <2>4. CASE late.op = "enter"
    <3>1. PICK ok \in BOOLEAN : EnterExecution(k, ok)
      BY <1>4, <2>1, <2>4 DEF BrokerServesLate
    <3>2. LateLeaves(k) = 0
      BY <2>4 DEF LateLeaves
    <3>3. Holders(k)' <= (IF ok THEN Holders(k) + 1 ELSE Holders(k))
      BY <2>3, <3>2
    <3>4. QED
      BY <1>0, <1>2, <2>1, <3>1, <3>3, LentEnter
  <2>5. CASE late.op = "leave"
    <3>1. LeaveExecution(k) /\ LateLeaves(k) = 1
      BY <1>4, <2>1, <2>5 DEF BrokerServesLate, LateLeaves
    <3>2. Holders(k)' = Holders(k) - 1
      BY <2>3, <3>1
    <3>3. QED
      BY <1>0, <1>2, <2>1, <3>1, <3>2, LentLeave
  <2>6. QED
    BY <1>4, <2>4, <2>5 DEF BrokerServesLate
<1>5. CASE SetWorkspace
  <2>1. /\ ~SomeRunActive /\ "move" \notin happened /\ k # env.workspace
        /\ UNCHANGED <<host, broker, run, late>>
    <3>1. ~SomeRunActive
      BY <1>5 DEF SetWorkspace, Happens
    <3>2. QED
      BY <1>0, <1>5, <3>1 DEF SetWorkspace, Happens, EnvTyped
  <2>2. broker[k].refs = 0 /\ broker[k].owned = {}
    BY <1>1, <2>1 DEF Unused
  <2>3. Users(k)' = {} /\ LateLeaves(k)' = 0
    BY <2>1 DEF SomeRunActive, NoCall, Users, Uses, LateLeaves, Borrowing
  <2>4. Holders(k)' = 0
    BY <2>3, FS_EmptySet DEF Holders
  <2>5. QED
    BY <1>0, <2>1, <2>2, <2>4 DEF Lent
<1>6. CASE RemoveBegins \/ CleanupLocks \/ CleanupRevokes \/ CleanupDeletesProfile \/ RemoveSaves
           \/ (\E op \in {"prepare", "cleanup"} : HelperReads(op))
           \/ EnablePreparation \/ CleanupPreparation \/ UNCHANGED vars
  <2>1. UNCHANGED <<run, late, broker>> /\ env'.workspace = env.workspace
    BY <1>0, <1>6 DEF RemoveBegins, CleanupLocks, CleanupRevokes, CleanupDeletesProfile, RemoveSaves,
       HelperReads, EnablePreparation, CleanupPreparation, vars, EnvTyped
  <2>2. host.acl \cap Dirs \subseteq host'.acl /\ host.read \subseteq host'.read
    <3>1. CASE UNCHANGED host
      BY <3>1
    <3>2. host.acl \cap Dirs \subseteq RevokePaths({"root"}).acl
          /\ host.read \subseteq RevokePaths({"root"}).read
      BY <1>0, <1>a DEF RevokePaths, HostTyped, Hosts
    <3>3. CASE CleanupRevokes \/ CleanupDeletesProfile
      BY <1>0, <3>2, <3>3 DEF CleanupRevokes, CleanupDeletesProfile, DeleteProfile, HostTyped, Hosts
    <3>4. CASE EnablePreparation \/ CleanupPreparation
      <4>1. host'.acl \in {host.acl, Prepared.acl, RevokePaths({"root"}).acl}
            /\ host'.read \in {host.read, RevokePaths({"root"}).read}
        BY <1>0, <3>4 DEF EnablePreparation, CleanupPreparation, EnsureProfile, Prepared,
           RevokePaths, HostTyped, Hosts
      <4>2. QED
        BY <1>0, <3>2, <4>1 DEF Prepared, HostTyped, Hosts
    <3>5. QED
      BY <1>6, <3>1, <3>3, <3>4 DEF RemoveBegins, CleanupLocks, RemoveSaves, HelperReads, vars
  <2>a. \A place \in TraversalPaths(k) : Traversable(place) => Traversable(place)'
    BY <2>2, PlacesAre DEF Traversable, Readable
  <2>3. Users(k)' = Users(k) /\ LateLeaves(k)' = LateLeaves(k)
    BY <2>1 DEF Users, Uses, LateLeaves
  <2>4. Holders(k)' <= Holders(k)
    BY <2>3, UsersCounted DEF Holders
  <2>5. QED
    BY <1>0, <1>2, <2>1, <2>a, <2>4, LentStill
<1>7. CASE GatewayCrashes
  <2>1. UNCHANGED <<broker, env, host>> /\ \A r \in Runs : run'[r].pc = "idle"
    BY <1>7 DEF GatewayCrashes, NoRun
  <2>2. Users(k)' = {} /\ Cardinality(Users(k))' = 0
    <3>1. Users(k)' = {}
      BY <2>1 DEF Users, Uses, Borrowing
    <3>2. QED
      BY <3>1, FS_EmptySet
  <2>3. LateLeaves(k)' = 1 => Holders(k) > 0
    <3>1. SUFFICES ASSUME late'.op = "leave", late'.key = k PROVE Holders(k) > 0
      BY DEF LateLeaves
    <3>2. CASE late' = late
      BY <3>1, <3>2, UsersCounted DEF Holders, LateLeaves
    <3>3. CASE late' # late
      <4>1. PICK r \in Runs : /\ run[r].pc \in DOMAIN Waits
                              /\ late' = [op |-> Waits[run[r].pc], key |-> run[r].key]
        BY <1>7, <3>3 DEF GatewayCrashes
      <4>2. run[r].pc = "leaving" /\ run[r].key = k
        BY <3>1, <4>1 DEF Waits
      <4>3. r \in Users(k)
        BY <4>2 DEF Users, Uses, Borrowing
      <4>4. QED
        BY <4>3, UsersCounted
    <3>4. QED
      BY <3>2, <3>3
  <2>4. Holders(k)' <= Holders(k)
    <3>1. Holders(k)' = LateLeaves(k)' /\ LateLeaves(k)' \in {0, 1}
      BY <2>2 DEF Holders, LateLeaves
    <3>2. QED
      BY <2>3, <3>1, UsersCounted
  <2>5. QED
    BY <1>0, <1>2, <2>1, <2>4, LentStill DEF Traversable, Readable
<1>8. CASE BrokerCrashes
  <2>1. /\ UNCHANGED <<host, env>> /\ late' = NoCall /\ "restart" \in happened'
        /\ broker'[k] = [refs |-> 0, owned |-> {}, lost |-> broker[k].lost]
        /\ \A r \in Runs : run'[r] \in {NoRun, run[r]}
    BY <1>8 DEF BrokerCrashes, NoLease, Happens
  <2>2. Users(k)' \subseteq Users(k) /\ LateLeaves(k)' = 0
    BY <2>1 DEF NoRun, NoCall, Users, Uses, LateLeaves, Borrowing
  <2>3. Holders(k)' <= Holders(k)
    <3>1. Cardinality(Users(k)') <= Cardinality(Users(k))
      BY <2>2, UsersCounted, FS_Subset
    <3>2. QED
      BY <2>2, <3>1, UsersCounted DEF Holders, LateLeaves
  <2>4. Holders(k)' > 0 => Passable(k)'
    BY <1>2, <2>1, <2>3, UsersCounted DEF Lent, Passable, Traversable, Readable
  <2>5. QED
    BY <2>1, <2>4 DEF Lent
<1>9. QED
  BY <1>3, <1>4, <1>5, <1>6, <1>7, <1>8 DEF Next, CommandStep

LEMMA InitLent == Init => BoundInv /\ LostInv /\ LentInv
<1> SUFFICES ASSUME Init PROVE BoundInv /\ LostInv /\ LentInv
  OBVIOUS
<1>1. /\ \A r \in Runs : run[r] = NoRun
      /\ late = NoCall /\ env.workspace \in Workspaces
      /\ \A k \in Workspaces : broker[k] = NoLease
  BY DEF Init
<1>2. BoundInv /\ LostInv
  BY <1>1 DEF BoundInv, LostInv, Unused, NoLease, NoRun, NoCall
<1>3. ASSUME NEW k PROVE Holders(k) = 0
  <2>1. Users(k) = {} /\ LateLeaves(k) = 0
    BY <1>1 DEF NoRun, NoCall, Users, Uses, LateLeaves, Borrowing
  <2>2. QED
    BY <2>1, FS_EmptySet DEF Holders
<1>4. LentInv
  BY <1>1, <1>3 DEF LentInv, Lent, NoLease
<1>5. QED
  BY <1>2, <1>4

LEMMA AlwaysLent == Spec => [](TypeOK /\ KeyInv /\ BoundInv /\ LostInv /\ LentInv)
<1>1. Init => TypeOK /\ KeyInv /\ BoundInv /\ LostInv /\ LentInv
  BY InitTypes, InitLent
<1>2. TypeOK /\ KeyInv /\ BoundInv /\ LostInv /\ LentInv /\ [Next]_vars
        => (TypeOK /\ KeyInv /\ BoundInv /\ LostInv /\ LentInv)'
  BY NextTypes, BoundStep, LostStep, LentStep
<1>3. QED
  BY <1>1, <1>2, PTL DEF Spec

\* While a command may run, the directories it borrowed stay open to it,
\* whoever else leaves, times out, fails to revoke or restarts, unless the
\* Environment is bound to another Workspace under it: but for the directories of
\* tools that another command has given back since, and what lies below them.
THEOREM CommandsCanTraverse == Spec => []RunningCanTraverse
<1>1. TypeOK /\ KeyInv /\ BoundInv /\ LentInv => RunningCanTraverse
  <2> SUFFICES ASSUME BoundInv, LentInv, "rebind" \notin happened, NEW r \in Runs,
                      run[r].pc \in {"entered", "profiled", "running"}, run[r].key # None
               PROVE  Passable(run[r].key)
    BY DEF RunningCanTraverse, Passable
  <2>1. run[r].key = env.workspace /\ Lent(env.workspace)
    BY DEF BoundInv, LentInv
  <2>2. r \in Users(env.workspace)
    BY <2>1 DEF Users, Uses, Borrowing
  <2>3. Holders(env.workspace) > 0
    BY <2>2, UsersCounted
  <2>4. QED
    BY <2>1, <2>3 DEF Lent
<1>2. QED
  BY <1>1, AlwaysLent, PTL

-----------------------------------------------------------------------------
(* What is left when nothing runs. *)

\* Nothing failed or crashed so far, and the Environment was not rebound or
\* removed under a command.
Calm == happened \cap (Faults \cup {"rebind", "inside"}) = {}

\* The broker counts exactly the commands in the lease.
Counted(k) ==
  /\ broker[k].refs = Cardinality(Users(k))
  /\ broker[k].refs = 0 => broker[k].owned = {}

\* Who will take an entry back.
Owed(place) ==
  \/ place = "root"
  \/ \E k \in Workspaces : place \in broker[k].owned
  \/ \E r \in Runs : run[r].pc \in {"running", "revoking"} /\ place \in run[r].made

CalmInv == Calm =>
  /\ late = NoCall
  /\ \A k \in Workspaces : Counted(k)
  /\ \A place \in host.acl : Owed(place)

\* In a calm step of a command the broker is asked or it is not, and a command
\* leaves by the broker only.
LEMMA CalmQuiet ==
  ASSUME TypeOK, KeyInv, NEW r \in Runs, CommandStep(r), ~BrokerEnters(r), ~BrokerLeaves(r),
         \A q \in Runs : run[q].key \in {None, env.workspace},
         env.present \/ ~SomeRunActive, Calm', happened \subseteq happened',
         NEW k \in Workspaces, Counted(k)
  PROVE  Counted(k)'
<1>0. /\ RunsTyped /\ run[r] \in RunStates /\ Keyed(run[r])
  BY Types DEF RunsTyped
<1>1. PICK x \in RunStates : Becomes(r, x)
  BY CommandBecomes
<1>2. SameLease(k)
  BY CommandLeases
<1>3. "lost" \notin happened'
  BY DEF Calm, Faults
<1>4. Uses(x, k) => Uses(run[r], k)
  BY <1>1, RunsAssumption DEF Becomes, Uses
<1>5. Uses(run[r], k) => Uses(x, k)
  <2> SUFFICES ASSUME Uses(run[r], k) PROVE Uses(x, k)
    OBVIOUS
  <2>1. run[r].pc \in Borrowing /\ run[r].key = k /\ k = env.workspace /\ k # None
    BY RunsAssumption DEF Uses
  <2>2. env.present
    BY <2>1 DEF SomeRunActive, Borrowing
  <2>3. run'[r] = x
    BY <1>0, <1>1 DEF Becomes, RunsTyped
  <2>4. CASE AskLeave(r)
    <3>1. run' = [run EXCEPT ![r].pc = "leaving", ![r].key = env.workspace]
      BY <2>1, <2>2, <2>4 DEF AskLeave
    <3>2. run'[r].pc = "leaving" /\ run'[r].key = k
      BY <1>0, <2>1, <3>1 DEF RunsTyped, RunStates
    <3>3. QED
      BY <2>3, <3>2 DEF Uses, Borrowing
  <2>5. CASE BrokerRefuses(r) \/ RequestGivesUp(r, "entering", "enter")
             \/ RequestGivesUp(r, "leaving", "leave")
    BY <1>3, <2>1, <2>5 DEF BrokerRefuses, RequestGivesUp, Happens, Borrowing
  <2>6. CASE ExecuteEnsuresProfile(r) \/ ExecuteGrants(r) \/ ExecuteRevokes(r)
             \/ ExecuteDeletesProfile(r)
    <3>1. run'[r].pc \in Borrowing /\ run'[r].key = run[r].key
      <4>1. CASE ExecuteGrants(r)
        <5>1. PICK made \in SUBSET ({"root"} \cup Tools), pc \in {"running", "revoking"} :
                run' = [run EXCEPT ![r].made = made, ![r].pc = pc]
          BY <4>1, GrantsAre
        <5>2. QED
          BY <1>0, <5>1 DEF RunsTyped, RunStates, Borrowing
      <4>2. CASE ~ExecuteGrants(r)
        BY <1>0, <2>6, <4>2 DEF ExecuteEnsuresProfile, ExecuteRevokes, ExecuteDeletesProfile, Go,
           RunsTyped, RunStates, Borrowing
      <4>3. QED
        BY <4>1, <4>2
    <3>2. QED
      BY <2>1, <2>3, <3>1 DEF Uses
  <2>7. CASE PrepareSandboxExecution(r) \/ EnsureLocks(r) \/ EnsureEnvironmentSandboxAccess(r)
             \/ AskEnter(r)
    BY <2>1, <2>7 DEF PrepareSandboxExecution, EnsureLocks, EnsureEnvironmentSandboxAccess,
       AskEnter, Borrowing
  <2>8. QED
    BY <2>4, <2>5, <2>6, <2>7 DEF CommandStep
<1>6. Cardinality(Users(k))' = Cardinality(Users(k))
  <2>1. r \in Users(k) <=> Uses(run[r], k)
    BY DEF Users
  <2>2. QED
    BY <1>0, <1>1, <1>4, <1>5, <2>1, UsersMove DEF Becomes
<1>7. QED
  BY <1>2, <1>6 DEF Counted, SameLease

LEMMA CalmOther ==
  ASSUME TypeOK, KeyInv, NEW r \in Runs, NEW x \in RunStates, Becomes(r, x),
         NEW w \in Workspaces, run[r].key = w, x.key \in {None, w}, Lends(w),
         NEW k \in Workspaces, k # w, Counted(k)
  PROVE  Counted(k)'
<1>1. RunsTyped /\ k # None /\ broker'[k] = broker[k]
  BY Types, RunsAssumption DEF Lends, BrokerTyped
<1>2. ~Uses(x, k) /\ r \notin Users(k)
  BY <1>1 DEF Uses, Users
<1>3. Cardinality(Users(k))' = Cardinality(Users(k))
  BY <1>1, <1>2, UsersMove DEF Becomes
<1>4. QED
  BY <1>1, <1>3 DEF Counted

\* Entering the lease of w in calm.
LEMMA CalmEnter ==
  ASSUME TypeOK, NEW w \in Workspaces, NEW ok \in BOOLEAN, EnterExecution(w, ok), Calm',
         Counted(w),
         Cardinality(Users(w))' = (IF ok THEN Cardinality(Users(w)) + 1 ELSE Cardinality(Users(w)))
  PROVE  /\ Counted(w)'
         /\ \A place \in host'.acl :
              \/ place \in host.acl \ broker[w].owned
              \/ place \in broker'[w].owned
<1>1. /\ broker[w] \in Leases /\ broker[w].refs \in Nat
      /\ host \in Hosts /\ w \in DOMAIN broker
      /\ Cardinality(Users(w)) \in Nat
  BY UsersCounted DEF TypeOK, Leases, Hosts
<1>2. "revoke" \notin happened'
  BY DEF Calm, Faults
<1>3. CASE broker[w].refs > 0
  <2>1. ok /\ UNCHANGED host /\ broker[w].refs + 1 \in Nat
        /\ broker' = [broker EXCEPT ![w].refs = broker[w].refs + 1]
    BY <1>1, <1>3 DEF EnterExecution, EnterAgain
  <2>2. broker'[w].refs = broker[w].refs + 1 /\ broker'[w].owned = broker[w].owned
    BY <2>1, CountIs
  <2>3. QED
    BY <1>1, <2>1, <2>2 DEF Counted
<1>4. CASE ~(broker[w].refs > 0)
  <2>1. EnterFirst(w, ok) /\ broker[w].refs = 0 /\ broker[w].owned = {}
    BY <1>1, <1>4 DEF EnterExecution, Counted
  <2>2. CASE ok
    <3>1. broker'[w].refs = 1 /\ broker'[w].owned = Closed(w)
      <4>1. PICK lost \in SUBSET broker[w].lost : broker' = [broker EXCEPT ![w] =
              [refs |-> 1, owned |-> broker[w].owned \cup Closed(w), lost |-> lost]]
        BY <2>1, <2>2, EnterFirstIs
      <4>2. QED
        BY <1>1, <2>1, <4>1
    <3>2. host'.acl = host.acl \cup Closed(w)
      <4>1. host' = [host EXCEPT !.acl = host.acl \cup Closed(w)]
        BY <2>1, <2>2, EnterFirstIs
      <4>2. QED
        BY <1>1, <4>1 DEF Hosts
    <3>3. QED
      BY <2>1, <2>2, <3>1, <3>2 DEF Counted
  <2>3. CASE ~ok
    <3>1. broker' = [broker EXCEPT ![w] = [refs |-> 0, owned |-> {}, lost |-> broker[w].lost]]
      BY <2>1, <2>3, EnterFirstIs
    <3>2. PICK got \in SUBSET Closed(w) : \E gone \in SUBSET (broker[w].owned \cup got) :
            /\ host' = [host EXCEPT !.acl = (host.acl \cup got) \ gone, !.read = host.read \ gone]
            /\ "revoke" \notin happened' => gone = broker[w].owned \cup got
      BY <2>1, <2>3, EnterFirstIs
    <3>3. host' = [host EXCEPT !.acl = (host.acl \cup got) \ got, !.read = host.read \ got]
      BY <1>2, <2>1, <3>2
    <3>4. broker'[w].refs = 0 /\ broker'[w].owned = {}
      BY <1>1, <3>1
    <3>5. host'.acl \subseteq host.acl
      BY <1>1, <3>3 DEF Hosts
    <3>6. QED
      BY <2>1, <2>3, <3>4, <3>5 DEF Counted
  <2>4. QED
    BY <2>2, <2>3
<1>5. QED
  BY <1>3, <1>4

\* Leaving it.
LEMMA CalmLeave ==
  ASSUME TypeOK, NEW w \in Workspaces, LeaveExecution(w), Calm', Counted(w),
         Cardinality(Users(w))' = Cardinality(Users(w)) - 1
  PROVE  /\ Counted(w)'
         /\ \A place \in host'.acl :
              \/ place \in host.acl \ broker[w].owned
              \/ place \in broker'[w].owned
<1>1. /\ broker[w] \in Leases /\ broker[w].refs \in Nat
      /\ host \in Hosts /\ w \in DOMAIN broker
      /\ Cardinality(Users(w)) \in Nat /\ Cardinality(Users(w))' \in Nat
  BY UsersCounted DEF TypeOK, Leases, Hosts
<1>2. "revoke" \notin happened'
  BY DEF Calm, Faults
<1>3. CASE broker[w].refs > 1
  <2>1. UNCHANGED host /\ broker[w].refs - 1 \in Nat
        /\ broker' = [broker EXCEPT ![w].refs = broker[w].refs - 1]
    BY <1>1, <1>3 DEF LeaveExecution
  <2>2. broker'[w].refs = broker[w].refs - 1 /\ broker'[w].owned = broker[w].owned
    BY <2>1, CountIs
  <2>3. QED
    BY <1>1, <1>3, <2>1, <2>2 DEF Counted
<1>4. CASE ~(broker[w].refs > 1)
  <2>1. PICK gone \in SUBSET broker[w].owned, lease \in Leases :
          /\ host' = Without(gone) /\ broker' = [broker EXCEPT ![w] = lease]
          /\ lease.refs = 0
          /\ "revoke" \notin happened' => gone = broker[w].owned /\ lease.owned = {}
    BY <1>4, LeaveLastIs DEF LeaveExecution
  <2>2. gone = broker[w].owned /\ lease.owned = {}
    BY <1>2, <2>1
  <2>3. broker'[w].refs = 0 /\ broker'[w].owned = {} /\ host'.acl = host.acl \ broker[w].owned
    BY <1>1, <2>1, <2>2 DEF Without, Hosts
  <2>4. Cardinality(Users(w))' = 0
    BY <1>1, <1>4 DEF Counted
  <2>5. QED
    BY <2>3, <2>4 DEF Counted
<1>5. QED
  BY <1>3, <1>4

\* An entry that one lease, or one command, gives up is owed by nobody only if it
\* is gone.
LEMMA OwedStill ==
  ASSUME RunsTyped, NEW r \in Runs, NEW x, run' = [run EXCEPT ![r] = x],
         run[r].pc \notin {"running", "revoking"}, NEW place, Owed(place),
         NEW w \in Workspaces, Lends(w), BrokerTyped, place \notin broker[w].owned
  PROVE  Owed(place)'
<1>1. CASE \E k \in Workspaces : place \in broker[k].owned
  <2>1. PICK k \in Workspaces : place \in broker[k].owned /\ k # w
    BY <1>1
  <2>2. broker'[k] = broker[k]
    BY <2>1 DEF Lends, BrokerTyped
  <2>3. QED
    BY <2>1, <2>2 DEF Owed
<1>2. CASE \E q \in Runs : run[q].pc \in {"running", "revoking"} /\ place \in run[q].made
  <2>1. PICK q \in Runs : run[q].pc \in {"running", "revoking"} /\ place \in run[q].made
    BY <1>2
  <2>2. run'[q] = run[q]
    BY <2>1 DEF RunsTyped
  <2>3. QED
    BY <2>1, <2>2 DEF Owed
<1>3. CASE place = "root"
  BY <1>3 DEF Owed
<1>4. QED
  BY <1>1, <1>2, <1>3 DEF Owed

LEMMA OwedCommand ==
  ASSUME TypeOK, KeyInv, NEW r \in Runs, CommandStep(r), ~BrokerEnters(r), ~BrokerLeaves(r),
         Calm', \A place \in host.acl : Owed(place)
  PROVE  \A place \in host'.acl : Owed(place)'
<1>0. /\ RunsTyped /\ HostTyped /\ BrokerTyped /\ run[r] \in RunStates
      /\ "revoke" \notin happened'
  BY Types DEF RunsTyped, Calm, Faults
<1>1. \A k \in Workspaces : broker'[k].owned = broker[k].owned
  BY CommandLeases DEF SameLease
<1>2. PICK x \in RunStates : run' = [run EXCEPT ![r] = x]
  BY CommandBecomes DEF Becomes
<1>3. \A q \in Runs : run'[q] = IF q = r THEN x ELSE run[q]
  BY <1>0, <1>2 DEF RunsTyped
<1>4. ASSUME NEW place, Owed(place), ~(run[r].pc \in {"running", "revoking"} /\ place \in run[r].made)
      PROVE  Owed(place)'
  BY <1>1, <1>3, <1>4 DEF Owed
<1>5. CASE run[r].pc \notin {"running", "revoking"} /\ host'.acl \subseteq host.acl \cup {"root"}
  BY <1>4, <1>5 DEF Owed
<1>6. CASE ExecuteGrants(r)
  <2>1. PICK made \in SUBSET ({"root"} \cup Tools), pc \in {"running", "revoking"} :
          /\ run' = [run EXCEPT ![r].made = made, ![r].pc = pc]
          /\ host' = [EnsurePaths(made) EXCEPT !.read = @ \cup (made \cap LentTools)]
    BY <1>6, GrantsAre
  <2>2. run'[r].made = made /\ run'[r].pc \in {"running", "revoking"}
    BY <1>0, <2>1 DEF RunsTyped, RunStates
  <2>3. host'.acl = host.acl \cup made
    BY <1>0, <2>1 DEF EnsurePaths, HostTyped, Hosts
  <2>4. run[r].pc = "profiled"
    BY <1>6 DEF ExecuteGrants
  <2>5. QED
    BY <1>4, <2>2, <2>3, <2>4 DEF Owed
<1>7. CASE ExecuteRevokes(r)
  <2>1. PICK gone \in SUBSET run[r].made :
          host' = Without(gone) /\ ("revoke" \notin happened' => gone = run[r].made)
    BY <1>0, <1>7, RevokesAre DEF BrokerTyped
  <2>2. host'.acl = host.acl \ run[r].made
    BY <1>0, <2>1 DEF Without, HostTyped, Hosts
  <2>3. QED
    BY <1>4, <2>2
<1>8. CASE ~ExecuteGrants(r) /\ ~ExecuteRevokes(r)
  <2>1. run[r].pc \notin {"running", "revoking"}
    BY <1>8 DEF CommandStep, PrepareSandboxExecution, EnsureLocks, EnsureEnvironmentSandboxAccess,
       AskEnter, BrokerRefuses, RequestGivesUp, AskLeave, ExecuteEnsuresProfile,
       ExecuteDeletesProfile
  <2>2. host'.acl \subseteq host.acl \cup {"root"}
    <3>1. CASE UNCHANGED host
      BY <3>1
    <3>2. CASE EnsureEnvironmentSandboxAccess(r) \/ ExecuteEnsuresProfile(r)
               \/ ExecuteDeletesProfile(r)
      BY <1>0, <3>2 DEF EnsureEnvironmentSandboxAccess, ExecuteEnsuresProfile,
         ExecuteDeletesProfile, Prepared, EnsureProfile, DeleteProfile, HostTyped, Hosts
    <3>3. QED
      BY <1>8, <3>1, <3>2 DEF CommandStep, PrepareSandboxExecution, EnsureLocks, AskEnter,
         BrokerRefuses, RequestGivesUp, AskLeave
  <2>3. QED
    BY <1>5, <2>1, <2>2
<1>9. QED
  BY <1>6, <1>7, <1>8

LEMMA CalmStep ==
  TypeOK /\ KeyInv /\ RemovalInv /\ BoundInv /\ CalmInv /\ [Next]_vars => CalmInv'
<1> SUFFICES ASSUME TypeOK, KeyInv, RemovalInv, BoundInv, CalmInv, [Next]_vars, Calm'
             PROVE  /\ late' = NoCall
                    /\ \A k \in Workspaces : Counted(k)'
                    /\ \A place \in host'.acl : Owed(place)'
  BY DEF CalmInv
<1>0. /\ RunsTyped /\ LateTyped /\ BrokerTyped /\ EnvTyped /\ HostTyped
      /\ happened \subseteq happened' /\ "rebind" \notin happened /\ "inside" \notin happened
  BY Types, HistoryGrows DEF Calm
<1>1. /\ late = NoCall
      /\ \A k \in Workspaces : Counted(k)
      /\ \A place \in host.acl : Owed(place)
      /\ \A q \in Runs : run[q].key \in {None, env.workspace}
      /\ env.present \/ ~SomeRunActive
  BY <1>0 DEF CalmInv, Calm, BoundInv, RemovalInv, Unattended
<1>2. ASSUME NEW r \in Runs, CommandStep(r)
      PROVE  /\ late' = NoCall
             /\ \A k \in Workspaces : Counted(k)'
             /\ \A place \in host'.acl : Owed(place)'
  <2>1. late' = NoCall
    <3>1. ~RequestGivesUp(r, "entering", "enter") /\ ~RequestGivesUp(r, "leaving", "leave")
      BY DEF RequestGivesUp, Happens, Calm, Faults
    <3>2. QED
      BY <1>1, <1>2, <3>1 DEF CommandStep, PrepareSandboxExecution, EnsureLocks,
         EnsureEnvironmentSandboxAccess, AskEnter, BrokerEnters, BrokerRefuses, AskLeave,
         BrokerLeaves, ExecuteEnsuresProfile, ExecuteGrants, ExecuteRevokes, ExecuteDeletesProfile
  <2>2. PICK x \in RunStates : Becomes(r, x)
    BY <1>2, CommandBecomes
  <2>3. CASE ~BrokerEnters(r) /\ ~BrokerLeaves(r)
    BY <1>0, <1>1, <1>2, <2>1, <2>3, CalmQuiet, OwedCommand
  <2>4. CASE BrokerEnters(r) \/ BrokerLeaves(r)
    <3>0. /\ run[r].key \in Workspaces /\ run[r].key = env.workspace /\ run[r].key # None
          /\ run[r].pc \in {"entering", "leaving"}
      BY <1>0, <1>1, <2>4, RunsAssumption DEF BrokerEnters, BrokerLeaves, RunsTyped, Keyed, EnvTyped
    <3> PICK w \in Workspaces : w = run[r].key
      BY <3>0
    <3>1. w = run[r].key /\ w = env.workspace /\ w # None /\ run[r].pc \in {"entering", "leaving"}
      BY <3>0
    <3>3. Lends(w)
      BY <2>4, <3>1, BrokerLends DEF BrokerEnters, BrokerLeaves
    <3>4. x.key \in {None, w}
      BY <2>2, <3>1 DEF Becomes
    <3>5. \A k \in Workspaces \ {w} : Counted(k)'
      BY <1>1, <2>2, <3>1, <3>3, <3>4, CalmOther
    <3>6. /\ Counted(w)'
          /\ \A place \in host'.acl : \/ place \in host.acl \ broker[w].owned
                                      \/ place \in broker'[w].owned
      <4>1. Counted(w)
        BY <1>1, <3>1
      <4>2. ASSUME NEW ok \in BOOLEAN, EnterExecution(w, ok), run[r].pc = "entering",
                   Cardinality(Users(w))' =
                     (IF ok THEN Cardinality(Users(w)) + 1 ELSE Cardinality(Users(w)))
            PROVE  /\ Counted(w)'
                   /\ \A place \in host'.acl : \/ place \in host.acl \ broker[w].owned
                                               \/ place \in broker'[w].owned
        BY <3>1, <4>1, <4>2, CalmEnter
      <4>3. CASE EnterExecution(w, TRUE) /\ Go(r, "entered") /\ run[r].pc = "entering"
        <5>1. run' = [run EXCEPT ![r] = [run[r] EXCEPT !.pc = "entered"]]
          BY <4>3 DEF Go
        <5>2. Uses([run[r] EXCEPT !.pc = "entered"], w) /\ r \notin Users(w)
          BY <1>0, <4>3 DEF Uses, Users, Borrowing, RunsTyped, RunStates
        <5>3. Cardinality(Users(w))' = Cardinality(Users(w)) + 1
          BY <1>0, <5>1, <5>2, UsersMove
        <5>4. QED
          BY <4>2, <4>3, <5>3
      <4>4. ASSUME run' = [run EXCEPT ![r] = NoRun]
            PROVE  /\ r \in Users(w) => Cardinality(Users(w))' = Cardinality(Users(w)) - 1
                   /\ r \notin Users(w) => Cardinality(Users(w))' = Cardinality(Users(w))
        <5>1. ~Uses(NoRun, w)
          BY <3>1 DEF NoRun, Uses
        <5>2. QED
          BY <1>0, <4>4, <5>1, UsersMove
      <4>5. CASE EnterExecution(w, FALSE) /\ End(r) /\ run[r].pc = "entering"
        <5>1. r \notin Users(w)
          BY <4>5 DEF Uses, Users, Borrowing
        <5>2. Cardinality(Users(w))' = Cardinality(Users(w))
          BY <4>4, <4>5, <5>1 DEF End
        <5>3. QED
          BY <4>2, <4>5, <5>2
      <4>6. CASE BrokerLeaves(r)
        <5>1. r \in Users(w) /\ LeaveExecution(w) /\ run' = [run EXCEPT ![r] = NoRun]
          BY <4>6 DEF BrokerLeaves, Uses, Users, Borrowing, End
        <5>2. Cardinality(Users(w))' = Cardinality(Users(w)) - 1
          BY <4>4, <5>1
        <5>3. QED
          BY <3>1, <4>1, <5>1, <5>2, CalmLeave
      <4>7. QED
        BY <2>4, <4>3, <4>5, <4>6 DEF BrokerEnters
    <3>7. ASSUME NEW place \in host'.acl PROVE Owed(place)'
      <4>1. CASE place \in broker'[w].owned
        BY <3>1, <4>1 DEF Owed
      <4>2. CASE place \in host.acl \ broker[w].owned
        <5>1. run[r].pc \notin {"running", "revoking"} /\ run' = [run EXCEPT ![r] = x]
          BY <2>2, <3>1 DEF Becomes
        <5>2. QED
          BY <1>0, <1>1, <3>1, <3>3, <4>2, <5>1, OwedStill
      <4>3. QED
        BY <3>6, <3>7, <4>1, <4>2
    <3>8. QED
      BY <2>1, <3>5, <3>6, <3>7
  <2>5. QED
    BY <2>3, <2>4
<1>3. ~BrokerServesLate /\ ~GatewayCrashes /\ ~BrokerCrashes
  <2>1. "crash" \notin happened' /\ "restart" \notin happened'
    BY DEF Calm, Faults
  <2>2. QED
    BY <1>1, <2>1 DEF BrokerServesLate, GatewayCrashes, BrokerCrashes, Happens, NoCall
<1>4. CASE SetWorkspace \/ RemoveBegins \/ CleanupLocks \/ CleanupRevokes \/ CleanupDeletesProfile
           \/ RemoveSaves \/ (\E op \in {"prepare", "cleanup"} : HelperReads(op))
           \/ EnablePreparation \/ CleanupPreparation \/ UNCHANGED vars
  <2>1. UNCHANGED <<run, late, broker>>
    BY <1>4 DEF SetWorkspace, RemoveBegins, CleanupLocks, CleanupRevokes, CleanupDeletesProfile,
       RemoveSaves, HelperReads, EnablePreparation, CleanupPreparation, vars
  <2>2. host'.acl \subseteq host.acl \cup {"root"}
    <3>1. CASE UNCHANGED host
      BY <3>1
    <3>2. CASE CleanupRevokes \/ CleanupDeletesProfile
      BY <1>0, <3>2 DEF CleanupRevokes, CleanupDeletesProfile, RevokePaths, DeleteProfile,
         HostTyped, Hosts
    <3>3. CASE EnablePreparation \/ CleanupPreparation
      BY <1>0, <3>3 DEF EnablePreparation, CleanupPreparation, EnsureProfile, Prepared,
         RevokePaths, HostTyped, Hosts
    <3>4. QED
      BY <1>4, <3>1, <3>2, <3>3
         DEF SetWorkspace, RemoveBegins, CleanupLocks, RemoveSaves, HelperReads, vars
  <2>3. \A k \in Workspaces : Counted(k)'
    BY <1>1, <2>1 DEF Counted, Users, Uses
  <2>4. QED
    BY <1>1, <2>1, <2>2, <2>3 DEF Owed
<1>5. QED
  BY <1>2, <1>3, <1>4 DEF Next, CommandStep

LEMMA InitCalm == Init => CalmInv
<1> SUFFICES ASSUME Init PROVE CalmInv
  OBVIOUS
<1>1. ASSUME NEW k \in Workspaces PROVE Counted(k)
  <2>1. Users(k) = {}
    BY DEF Init, NoRun, Users, Uses, Borrowing
  <2>2. QED
    BY <2>1, FS_EmptySet DEF Init, Counted, NoLease
<1>2. QED
  BY <1>1 DEF Init, CalmInv

\* When nothing runs and nothing failed, crashed or was rebound or removed under
\* a command, only the prepared root is left: the commands and the broker took
\* back all that they had granted.
THEOREM RunsCleanUp == Spec => []RunsLeaveNoGrant
<1> DEFINE IInv == TypeOK /\ KeyInv /\ RemovalInv /\ BoundInv /\ CalmInv
<1>1. Init => IInv
  BY InitTypes, InitRemoval, InitLent, InitCalm
<1>2. IInv /\ [Next]_vars => IInv'
  BY NextTypes, RemovalStep, BoundStep, CalmStep
<1>3. IInv => RunsLeaveNoGrant
  <2> SUFFICES ASSUME CalmInv, Calm, ~SomeRunActive, NEW place \in host.acl
               PROVE  place = "root"
    BY DEF RunsLeaveNoGrant, Calm
  <2>1. \A r \in Runs : run[r].pc = "idle"
    BY DEF SomeRunActive
  <2>2. ASSUME NEW k \in Workspaces PROVE broker[k].owned = {}
    <3>1. Users(k) = {}
      BY <2>1 DEF Users, Uses, Borrowing
    <3>2. Counted(k)
      BY DEF CalmInv
    <3>3. QED
      BY <3>1, <3>2, FS_EmptySet DEF Counted
  <2>3. Owed(place)
    BY DEF CalmInv
  <2>4. QED
    BY <2>1, <2>2, <2>3 DEF Owed
<1>4. QED
  BY <1>1, <1>2, <1>3, PTL DEF Spec
================================================================================
