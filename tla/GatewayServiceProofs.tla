-------------------------- MODULE GatewayServiceProofs --------------------------
(***************************************************************************)
(* Proofs about GatewayService, for every number of clients and processes. *)
(***************************************************************************)
EXTENDS GatewayService, FiniteSetTheorems, TLAPS

Phases == {"unborn", "starting", "serving", "closing", "dead"}
Processes == [kind : Kinds, main : BOOLEAN, exe : {"adm", "desktop"}, phase : Phases]

Ops == {"none", "start", "stop", "listen", "restart", "update", "service", "rotate"} \cup Installs
InstallPlaces == {"setup", "apply", "reload", "enable", "run", "answer", "undo apply",
                  "undo service", "undo access", "undo unit"}
ClientPlaces == {"done", "bind", "spawn", "ready", "stop", "post", "wait",
                 "kill", "legacy kill", "dial", "legacy dial", "again", "find", "exit",
                 "last look"}
Places == {"idle", "look"} \cup ClientPlaces \cup {"launch"} \cup InstallPlaces
ClientStates == [op : Ops, pc : Places, saw : Procs \cup {None}, child : Procs \cup {None},
                 ok : BOOLEAN, after : Nat]

ProcTyped == proc \in [Procs -> Processes]
ClientTyped == client \in [Clients -> ClientStates]
UnitTyped == unit \in Units
AccessTyped == access \in Accesses
SavedTyped == saved \in [Clients -> Saves \cup {None}]

LEMMA Types ==
  /\ TypeOK <=> ProcTyped /\ ClientTyped /\ UnitTyped /\ AccessTyped /\ SavedTyped
  /\ TypeOK' <=> (ProcTyped /\ ClientTyped /\ UnitTyped /\ AccessTyped /\ SavedTyped)'
<1>1. Places = {"idle", "look", "done", "bind", "spawn", "ready", "stop", "post", "wait", "kill",
               "legacy kill", "dial", "legacy dial", "again", "find", "exit", "last look",
               "launch", "setup", "apply", "reload", "enable", "run", "answer", "undo apply",
               "undo service", "undo access", "undo unit"}
  BY DEF Places, ClientPlaces, InstallPlaces
<1>2. QED
  BY <1>1 DEF TypeOK, ProcTyped, ClientTyped, UnitTyped, AccessTyped, SavedTyped, Processes, Phases,
     ClientStates, Ops

-----------------------------------------------------------------------------
(* The processes only go on: what is born stays what it is, what has ended  *)
(* does not come back, and the next PID is the lowest that was never used.  *)

GoesOn(p) ==
  /\ proc[p].phase # "unborn" =>
       /\ proc'[p].phase # "unborn" /\ proc'[p].kind = proc[p].kind
       /\ proc'[p].exe = proc[p].exe /\ proc'[p].main = proc[p].main
       /\ Alive(p)' => Alive(p)
  /\ proc[p].phase = "unborn" /\ proc'[p].phase # "unborn" => p \in Fresh

Onward == proc' \in [Procs -> Processes] /\ \A p \in Procs : GoesOn(p)

\* The end of the main process is all that they do to the unit.
Stirs == /\ unit' \in Units
         /\ unit'.file = unit.file /\ unit'.loaded = unit.loaded /\ unit'.enabled = unit.enabled
         /\ unit.run = "stopped" => unit' = unit
         /\ unit' = unit \/ unit'.stirred

LEMMA PhaseGoesOn ==
  ASSUME ProcTyped, NEW p \in Procs, proc[p].phase # "unborn", NEW phase \in Phases \ {"unborn"},
         phase \in {"starting", "serving", "closing"} => Alive(p), proc' = Phase(p, phase)
  PROVE  Onward
BY DEF ProcTyped, Onward, GoesOn, Alive, Phase, Processes

LEMMA FreshGoesOn ==
  ASSUME ProcTyped, NEW p \in Fresh, NEW x \in Processes, x.phase # "unborn",
         proc' = [proc EXCEPT ![p] = x]
  PROVE  Onward
BY DEF ProcTyped, Onward, GoesOn, Alive, Fresh

LEMMA StillGoesOn == ProcTyped /\ UNCHANGED proc => Onward
BY DEF ProcTyped, Onward, GoesOn, Alive

LEMMA NewProcesses ==
  /\ \A exe \in {"adm", "desktop"} : Runs(exe) \in Processes /\ Runs(exe).phase = "starting"
  /\ MainProcess \in Processes /\ MainProcess.phase = "starting" /\ MainProcess.main
  /\ [Unborn EXCEPT !.phase = "serving"] \in Processes
BY DEF Runs, MainProcess, Unborn, Processes, Phases, Kinds

LEMMA MainEndsStirs ==
  ASSUME UnitTyped, NEW p, NEW run \in {"stopped", "retry"}, MainEnds(p, run)
  PROVE  Stirs
BY DEF UnitTyped, MainEnds, Stirs, Units

LEMMA StillStirs == UnitTyped /\ UNCHANGED unit => Stirs
BY DEF UnitTyped, Stirs

LEMMA ProcessStepGoesOn ==
  ASSUME ProcTyped, UnitTyped, ProcessStep
  PROVE  Onward /\ Stirs
<1>1. ASSUME NEW p \in Procs, proc[p].phase # "unborn", Dies(p)
      PROVE  Onward /\ Stirs
  BY <1>1, PhaseGoesOn, MainEndsStirs DEF Dies, Phases
<1>2. ASSUME NEW p \in Procs, Bind(p) PROVE Onward /\ Stirs
  <2>1. proc[p].phase = "starting"
    BY <1>2 DEF Bind
  <2>2. CASE Listeners = {}
    BY <1>2, <2>1, <2>2, PhaseGoesOn, StillStirs DEF Bind, Phases, Alive
  <2>3. QED
    BY <1>1, <1>2, <2>1, <2>2 DEF Bind
<1>3. ASSUME NEW p \in Procs, ExitGracefully(p) PROVE Onward /\ Stirs
  BY <1>3, PhaseGoesOn, MainEndsStirs DEF ExitGracefully, Phases
<1>4. ASSUME NEW p \in Procs, Crash(p) PROVE Onward /\ Stirs
  BY <1>1, <1>4 DEF Crash
<1>5. CASE ForeignTakesAddress
  <2>1. [Unborn EXCEPT !.phase = "serving"].phase = "serving"
    BY DEF Unborn
  <2>2. QED
    BY <1>5, <2>1, FreshGoesOn, NewProcesses, StillStirs DEF ForeignTakesAddress
<1>6. QED
  BY <1>2, <1>3, <1>4, <1>5 DEF ProcessStep

-----------------------------------------------------------------------------
(* The clients. *)

Born == {p \in Procs : proc[p].phase # "unborn"}

\* What a step of c makes of its state: it learns of a process only by looking,
\* counts those there are only when it begins, and launches only when nobody
\* else of the desktop's executable is left.
Moves(c, x) ==
  /\ x \in ClientStates /\ client' = [client EXCEPT ![c] = x]
  /\ \/ x.saw \in {None, client[c].saw}
     \/ x.saw \in Listeners /\ proc[x.saw].kind # "foreign"
  /\ x.after \in {0, client[c].after, Cardinality(Born)}
  /\ x.pc = "launch" => Blockers(None) = {}
  /\ x.pc \in InstallPlaces => client[c].op \in Installs /\ saved'[c] # None
  /\ x.pc \in {"idle", "look"} => client[c] = NoCommand
  /\ x.op = client[c].op \/ client[c] = NoCommand

LEMMA ClientTypes ==
  ASSUME ClientTyped, NEW c \in Clients
  PROVE  /\ client[c] \in ClientStates
         /\ client[c].op \in Ops /\ client[c].pc \in Places
         /\ client[c].saw \in Procs \cup {None} /\ client[c].child \in Procs \cup {None}
         /\ client[c].ok \in BOOLEAN /\ client[c].after \in Nat
BY DEF ClientTyped, ClientStates

LEMMA PlaceNames ==
  /\ {"done", "bind", "spawn", "ready", "stop", "post", "wait", "kill", "legacy kill",
      "dial", "legacy dial", "again", "find", "exit", "last look"} \subseteq ClientPlaces
  /\ ClientPlaces \subseteq Places \ ({"idle", "look", "launch"} \cup InstallPlaces)
  /\ "launch" \in Places \ ({"idle", "look"} \cup InstallPlaces)
  /\ InstallPlaces \subseteq Places \ {"idle", "look", "launch"}
  /\ "look" \in Places \ ({"launch"} \cup InstallPlaces)
BY DEF Places, ClientPlaces, InstallPlaces

LEMMA GoMoves ==
  ASSUME ClientTyped, NEW c \in Clients, NEW pc \in Places \ {"idle", "look"}, Go(c, pc),
         pc = "launch" => Blockers(None) = {},
         pc \in InstallPlaces => client[c].op \in Installs /\ saved'[c] # None
  PROVE  \E x : Moves(c, x)
<1> DEFINE x == [client[c] EXCEPT !.pc = pc]
<1>1. client[c] \in ClientStates
  BY ClientTypes
<1>2. /\ x \in ClientStates /\ x.saw = client[c].saw /\ x.after = client[c].after
      /\ x.pc = pc /\ x.op = client[c].op
  BY <1>1 DEF ClientStates
<1>3. client' = [client EXCEPT ![c] = x]
  BY DEF Go
<1>4. Moves(c, x)
  BY <1>2, <1>3, PlaceNames DEF Moves
<1>5. QED
  BY <1>4

LEMMA LearnMoves ==
  ASSUME ClientTyped, NEW c \in Clients, NEW pc \in ClientPlaces, NEW p \in Listeners,
         proc[p].kind # "foreign", Learn(c, pc, p)
  PROVE  \E x : Moves(c, x)
<1> DEFINE x == [client[c] EXCEPT !.pc = pc, !.saw = p]
<1>1. client[c] \in ClientStates /\ p \in Procs
  BY ClientTypes DEF Listeners
<1>2. /\ x \in ClientStates /\ x.saw = p /\ x.after = client[c].after
      /\ x.pc = pc /\ x.op = client[c].op
  BY <1>1, PlaceNames DEF ClientStates
<1>3. client' = [client EXCEPT ![c] = x]
  BY DEF Learn
<1>4. Moves(c, x)
  BY <1>2, <1>3, PlaceNames DEF Moves
<1>5. QED
  BY <1>4

LEMMA ReturnMoves ==
  ASSUME ClientTyped, NEW c \in Clients, NEW ok \in BOOLEAN, Return(c, ok)
  PROVE  \E x : Moves(c, x)
<1> DEFINE x == [NoCommand EXCEPT !.op = client[c].op, !.pc = "done", !.ok = ok]
<1>1. client[c].op \in Ops
  BY ClientTypes
<1>2. /\ x \in ClientStates /\ x.saw = None /\ x.after = 0
      /\ x.pc = "done" /\ x.op = client[c].op
  BY <1>1, PlaceNames DEF ClientStates, NoCommand
<1>3. client' = [client EXCEPT ![c] = x]
  BY DEF Return
<1>4. Moves(c, x)
  BY <1>2, <1>3, PlaceNames DEF Moves
<1>5. QED
  BY <1>4

LEMMA BeginMoves ==
  ASSUME ClientTyped, NEW c \in Clients, NEW op \in Ops, Begin(c, op)
  PROVE  \E x : Moves(c, x)
<1>0. PICK n \in {0, Cardinality(Born)} :
        n = IF op = "update" THEN Cardinality({p \in Procs : proc[p].phase # "unborn"}) ELSE 0
  BY DEF Born
<1> DEFINE x == [client[c] EXCEPT !.op = op, !.pc = "look", !.after = n]
<1>1. client[c] \in ClientStates /\ client[c] = NoCommand
  BY ClientTypes DEF Begin, NoCommand
<1>2. n \in Nat
  <2>1. IsFiniteSet(Born)
    BY FS_Subset, ProcessAssumption, Born \subseteq Procs DEF Born
  <2>2. Cardinality(Born) \in Nat
    BY <2>1, FS_CardinalityType
  <2>3. QED
    BY <2>2
<1>3. /\ x \in ClientStates /\ x.saw = client[c].saw /\ x.after = n /\ x.pc = "look"
  BY <1>1, <1>2, PlaceNames DEF ClientStates
<1>4. client' = [client EXCEPT ![c] = x]
  BY <1>0 DEF Begin
<1>5. Moves(c, x)
  BY <1>1, <1>2, <1>3, <1>4, PlaceNames DEF Moves
<1>6. QED
  BY <1>5

LEMMA StopMoves ==
  ASSUME ClientTyped, NEW c \in Clients, StopSucceeds(c) \/ StopFails(c)
  PROVE  \E x : Moves(c, x)
BY PlaceNames, GoMoves, ReturnMoves DEF StopSucceeds, StopFails

\* The steps that start no process and stop none.
LEMMA LooksMove ==
  ASSUME ClientTyped, NEW c \in Clients,
         \/ StartInspect(c) \/ CheckHTTPListenAvailable(c) \/ WaitHTTPReady(c)
         \/ ForceStopInspect(c) \/ WaitShutdown(c) \/ DialUntilRefused(c) \/ InspectAgain(c)
         \/ FindListeningProcess(c) \/ PrepareInstall(c) \/ WaitForGatewayProcessExit(c)
         \/ EnsureNoOtherDesktopProcesses(c) \/ InstallAndRestart(c)
  PROVE  (\E x : Moves(c, x)) /\ UNCHANGED <<proc, unit>>
<1>0. InspectHTTPBaseURL \subseteq Listeners \cup {None}
  BY DEF InspectHTTPBaseURL
<1>1. CASE StartInspect(c) \/ CheckHTTPListenAvailable(c)
  BY <1>1, GoMoves, ReturnMoves, PlaceNames DEF StartInspect, CheckHTTPListenAvailable
<1>2. CASE WaitHTTPReady(c)
  <2>1. (client[c].op = "restart" => Alive(client[c].child)) \in BOOLEAN
    OBVIOUS
  <2>2. QED
    BY <1>2, <2>1, ReturnMoves DEF WaitHTTPReady
<1>3. CASE ForceStopInspect(c)
  <2>1. UNCHANGED <<proc, unit>>
    BY <1>3 DEF ForceStopInspect
  <2>2. PICK p \in InspectHTTPBaseURL :
          CASE p = None -> StopSucceeds(c)
            [] p # None /\ ~RecognizedADMGateway(p) -> StopFails(c)
            [] p # None /\ RecognizedADMGateway(p) /\ proc[p].kind \in Owned -> Learn(c, "post", p)
            [] OTHER -> Learn(c, "kill", p)
    BY <1>3 DEF ForceStopInspect
  <2>3. CASE StopSucceeds(c) \/ StopFails(c)
    BY <2>1, <2>3, StopMoves
  <2>4. CASE p # None /\ RecognizedADMGateway(p) /\ (Learn(c, "post", p) \/ Learn(c, "kill", p))
    <3>1. p \in Listeners /\ proc[p].kind # "foreign"
      BY <1>0, <2>4 DEF RecognizedADMGateway
    <3>2. QED
      BY <2>1, <2>4, <3>1, LearnMoves, PlaceNames
  <2>5. QED
    BY <2>2, <2>3, <2>4
<1>4. CASE WaitShutdown(c)
  BY <1>4, GoMoves, StopMoves, PlaceNames DEF WaitShutdown
<1>5. CASE DialUntilRefused(c)
  BY <1>5, GoMoves, ReturnMoves, StopMoves, PlaceNames DEF DialUntilRefused
<1>6. CASE InspectAgain(c)
  BY <1>6, ReturnMoves, StopMoves DEF InspectAgain
<1>7. CASE FindListeningProcess(c)
  <2>1. ASSUME NEW p \in Listeners, MatchesADMExecutable(p), Learn(c, "legacy kill", p)
        PROVE  \E x : Moves(c, x)
    <3>1. proc[p].kind # "foreign"
      BY <2>1 DEF MatchesADMExecutable
    <3>2. QED
      BY <2>1, <3>1, LearnMoves, PlaceNames
  <2>2. QED
    BY <1>7, <2>1, ReturnMoves DEF FindListeningProcess
<1>8. CASE PrepareInstall(c)
  <2>1. ASSUME NEW p \in InspectHTTPBaseURL,
               client' = [client EXCEPT ![c].pc = "stop", ![c].child = p]
        PROVE  \E x : Moves(c, x)
    <3> DEFINE x == [client[c] EXCEPT !.pc = "stop", !.child = p]
    <3>1. client[c] \in ClientStates /\ p \in Procs \cup {None}
      BY <1>0, ClientTypes DEF Listeners
    <3>2. /\ x \in ClientStates /\ x.saw = client[c].saw /\ x.after = client[c].after
          /\ x.pc = "stop" /\ x.op = client[c].op
      BY <3>1, PlaceNames DEF ClientStates
    <3>3. client' = [client EXCEPT ![c] = x]
      BY <2>1
    <3>4. Moves(c, x)
      BY <3>2, <3>3, PlaceNames DEF Moves
    <3>5. QED
      BY <3>4
  <2>2. QED
    BY <1>8, <2>1, GoMoves, ReturnMoves, PlaceNames DEF PrepareInstall
<1>9. CASE WaitForGatewayProcessExit(c) \/ EnsureNoOtherDesktopProcesses(c) \/ InstallAndRestart(c)
  BY <1>9, GoMoves, ReturnMoves, PlaceNames
     DEF WaitForGatewayProcessExit, EnsureNoOtherDesktopProcesses, InstallAndRestart
<1>10. QED
  BY <1>1, <1>2, <1>3, <1>4, <1>5, <1>6, <1>7, <1>8, <1>9

LEMMA MovesStill ==
  ASSUME ProcTyped, UnitTyped, NEW c \in Clients, (\E x : Moves(c, x)) /\ UNCHANGED <<proc, unit>>
  PROVE  (\E x : Moves(c, x)) /\ Onward /\ Stirs
BY StillGoesOn, StillStirs

LEMMA DiesGoesOn ==
  ASSUME ProcTyped, UnitTyped, NEW p \in Procs \cup {None}, Dies(p), Alive(p)
  PROVE  Onward /\ Stirs
<1>1. CASE p \in Procs
  <2>1. proc[p].phase # "unborn"
    BY DEF Alive
  <2>2. QED
    BY <1>1, <2>1, PhaseGoesOn, MainEndsStirs DEF Dies, Phases
<1>2. CASE p \notin Procs
  <2>1. proc' = proc
    BY <1>2 DEF Dies, Phase, ProcTyped
  <2>2. QED
    BY <2>1, StillGoesOn, MainEndsStirs DEF Dies
<1>3. QED
  BY <1>1, <1>2

LEMMA StartGatewayProcessMoves ==
  ASSUME ProcTyped, ClientTyped, UnitTyped, NEW c \in Clients, StartGatewayProcess(c)
  PROVE  (\E x : Moves(c, x)) /\ Onward /\ Stirs
<1>1. PICK p \in Fresh, exe \in {"adm", "desktop"} :
        /\ proc' = [proc EXCEPT ![p] = Runs(exe)]
        /\ client' = [client EXCEPT ![c].pc = "ready", ![c].child = p]
  BY DEF StartGatewayProcess
<1>2. Onward
  BY <1>1, NewProcesses, FreshGoesOn
<1>3. Stirs
  BY StillStirs DEF StartGatewayProcess
<1> DEFINE x == [client[c] EXCEPT !.pc = "ready", !.child = p]
<1>4. client[c] \in ClientStates /\ p \in Procs \cup {None}
  BY ClientTypes DEF Fresh
<1>5. /\ x \in ClientStates /\ x.saw = client[c].saw /\ x.after = client[c].after
      /\ x.pc = "ready" /\ x.op = client[c].op
  BY <1>4, PlaceNames DEF ClientStates
<1>6. client' = [client EXCEPT ![c] = x]
  BY <1>1
<1>7. Moves(c, x)
  BY <1>5, <1>6, PlaceNames DEF Moves
<1>8. QED
  BY <1>2, <1>3, <1>7

LEMMA NotReadyMoves ==
  ASSUME ProcTyped, ClientTyped, UnitTyped, NEW c \in Clients, NotReady(c)
  PROVE  (\E x : Moves(c, x)) /\ Onward /\ Stirs
<1>1. \E x : Moves(c, x)
  BY ReturnMoves DEF NotReady
<1>2. Stirs
  BY StillStirs DEF NotReady
<1>3. Onward
  <2>1. PICK p \in Procs \cup {None}, phase \in {"closing", "dead"} :
          /\ p = client[c].child
          /\ phase = IF client[c].op = "restart" THEN "closing" ELSE "dead"
    BY ClientTypes
  <2>2. CASE ~Alive(p)
    BY <2>1, <2>2, StillGoesOn DEF NotReady
  <2>3. CASE Alive(p) /\ p \in Procs
    <3>1. proc' = Phase(p, phase) /\ proc[p].phase # "unborn"
      BY <2>1, <2>3 DEF NotReady, Alive
    <3>2. QED
      BY <2>3, <3>1, PhaseGoesOn DEF Phases
  <2>4. CASE Alive(p) /\ p \notin Procs
    <3>1. proc' = Phase(p, phase)
      BY <2>1, <2>4 DEF NotReady
    <3>2. proc' = proc
      BY <2>4, <3>1 DEF Phase, ProcTyped
    <3>3. QED
      BY <3>2, StillGoesOn
  <2>5. QED
    BY <2>2, <2>3, <2>4
<1>4. QED
  BY <1>1, <1>2, <1>3

LEMMA PostShutdownMoves ==
  ASSUME ProcTyped, ClientTyped, UnitTyped, NEW c \in Clients, PostShutdown(c)
  PROVE  (\E x : Moves(c, x)) /\ Onward /\ Stirs
<1>1. \E x : Moves(c, x)
  BY GoMoves, StopMoves, PlaceNames DEF PostShutdown
<1>2. Stirs
  BY StillStirs DEF PostShutdown
<1>3. ASSUME NEW q \in Listeners, proc' = Phase(q, "closing")
      PROVE  Onward
  <2>1. q \in Procs /\ proc[q].phase # "unborn" /\ Alive(q)
    BY DEF Listeners, Alive
  <2>2. QED
    BY <1>3, <2>1, PhaseGoesOn DEF Phases
<1>4. QED
  BY <1>1, <1>2, <1>3, StillGoesOn DEF PostShutdown

LEMMA TerminateMoves ==
  ASSUME ProcTyped, ClientTyped, UnitTyped, NEW c \in Clients, TerminateHTTPProcess(c)
  PROVE  (\E x : Moves(c, x)) /\ Onward /\ Stirs
<1>1. \E x : Moves(c, x)
  <2>1. CASE Go(c, IF client[c].pc = "kill" THEN "dial" ELSE "legacy dial")
    BY <2>1, GoMoves, PlaceNames
  <2>2. CASE StopFails(c) \/ Return(c, FALSE)
    BY <2>2, StopMoves, ReturnMoves
  <2>3. QED
    BY <2>1, <2>2 DEF TerminateHTTPProcess
<1>2. CASE Alive(client[c].saw)
  <2>1. PICK p \in Procs \cup {None} : p = client[c].saw
    BY ClientTypes
  <2>2. Dies(client[c].saw)
    BY <1>2, Zenon DEF TerminateHTTPProcess
  <2>3. Dies(p) /\ Alive(p)
    BY <1>2, <2>1, <2>2
  <2>4. QED
    BY <1>1, <2>3, DiesGoesOn
<1>3. CASE ~Alive(client[c].saw)
  <2>1. UNCHANGED <<proc, unit>>
    BY <1>3, Zenon DEF TerminateHTTPProcess
  <2>2. QED
    BY <1>1, <2>1, StillGoesOn, StillStirs
<1>4. QED
  BY <1>1, <1>2, <1>3

\* What the steps of the commands that are not the service's have in common.
LEMMA ClientStepMoves ==
  ASSUME ProcTyped, ClientTyped, UnitTyped, NEW c \in Clients, ClientStep(c)
  PROVE  (\E x : Moves(c, x)) /\ Onward /\ Stirs
<1>1. ASSUME NEW op \in {"start", "stop", "listen", "restart", "update"}, Begin(c, op)
      PROVE  (\E x : Moves(c, x)) /\ Onward /\ Stirs
  <2>1. op \in Ops /\ UNCHANGED <<proc, unit>>
    BY <1>1 DEF Ops, Begin
  <2>2. QED
    BY <1>1, <2>1, BeginMoves, MovesStill
<1>2. QED
  BY <1>1, LooksMove, MovesStill, StartGatewayProcessMoves, NotReadyMoves, PostShutdownMoves,
     TerminateMoves DEF ClientStep

-----------------------------------------------------------------------------
(* The service. *)

OnlyMainEnds ==
  \A p \in Procs : proc[p].phase \in {"starting", "serving"}
                   /\ proc'[p].phase \in {"closing", "dead"} => proc[p].main

LEMMA StillEnds == UNCHANGED proc => OnlyMainEnds
BY DEF OnlyMainEnds

LEMMA MainEndsGoesOn ==
  ASSUME ProcTyped
  PROVE  /\ WithoutMain \in [Procs -> Processes]
         /\ proc' = WithoutMain => Onward /\ OnlyMainEnds
         /\ \A p \in Fresh : proc' = [WithoutMain EXCEPT ![p] = MainProcess] => Onward /\ OnlyMainEnds
<1>1. \A q \in Procs : proc[q] \in Processes
  BY DEF ProcTyped
<1>2. \A q \in Procs :
        /\ WithoutMain[q] \in Processes /\ WithoutMain[q].kind = proc[q].kind
        /\ WithoutMain[q].exe = proc[q].exe /\ WithoutMain[q].main = proc[q].main
        /\ \/ WithoutMain[q].phase = proc[q].phase
           \/ WithoutMain[q].phase = "dead" /\ proc[q].main /\ Alive(q)
  <2> SUFFICES ASSUME NEW q \in Procs
      PROVE  /\ WithoutMain[q] \in Processes /\ WithoutMain[q].kind = proc[q].kind
             /\ WithoutMain[q].exe = proc[q].exe /\ WithoutMain[q].main = proc[q].main
             /\ \/ WithoutMain[q].phase = proc[q].phase
                \/ WithoutMain[q].phase = "dead" /\ proc[q].main /\ Alive(q)
    OBVIOUS
  <2>1. proc[q] \in Processes
    BY <1>1
  <2>2. WithoutMain[q] = IF proc[q].main /\ Alive(q) THEN [proc[q] EXCEPT !.phase = "dead"]
                         ELSE proc[q]
    BY DEF WithoutMain
  <2>3. CASE proc[q].main /\ Alive(q)
    <3>1. WithoutMain[q] = [proc[q] EXCEPT !.phase = "dead"]
      BY <2>2, <2>3
    <3>2. QED
      BY <2>1, <2>3, <3>1 DEF Processes, Phases
  <2>4. CASE ~(proc[q].main /\ Alive(q))
    <3>1. WithoutMain[q] = proc[q]
      BY <2>2, <2>4
    <3>2. QED
      BY <2>1, <3>1
  <2>5. QED
    BY <2>3, <2>4
<1>3. WithoutMain \in [Procs -> Processes]
  BY <1>2 DEF WithoutMain
<1>4. ASSUME proc' = WithoutMain
      PROVE  Onward /\ OnlyMainEnds
  BY <1>2, <1>3, <1>4 DEF Onward, OnlyMainEnds, GoesOn, Alive
<1>5. ASSUME NEW p \in Fresh, proc' = [WithoutMain EXCEPT ![p] = MainProcess]
      PROVE  Onward /\ OnlyMainEnds
  <2>1. p \in Procs /\ proc[p].phase = "unborn"
    BY DEF Fresh
  <2>2. \A q \in Procs \ {p} : proc'[q] = WithoutMain[q]
    BY <1>3, <1>5
  <2>3. proc'[p] = MainProcess /\ proc' \in [Procs -> Processes]
    BY <1>3, <1>5, <2>1, NewProcesses
  <2>4. \A q \in Procs : GoesOn(q)
    <3>1. GoesOn(p)
      BY <2>1, <2>3 DEF GoesOn
    <3>2. ASSUME NEW q \in Procs \ {p} PROVE GoesOn(q)
      BY <1>2, <2>2 DEF GoesOn, Alive
    <3>3. QED
      BY <3>1, <3>2
  <2>5. OnlyMainEnds
    BY <1>2, <2>1, <2>2 DEF OnlyMainEnds
  <2>6. QED
    BY <2>3, <2>4, <2>5 DEF Onward
<1>6. QED
  BY <1>3, <1>4, <1>5

LEMMA Systemctl ==
  ASSUME ProcTyped, NEW u \in Units, SystemctlStart(u) \/ SystemctlRestart(u) \/ SystemctlStop(u)
  PROVE  Onward /\ OnlyMainEnds /\ unit' \in Units
<1>1. unit' \in Units
  BY DEF Units, SystemctlStart, SystemctlRestart, SystemctlStop
<1>2. CASE SystemctlStart(u)
  <2>1. CASE UNCHANGED proc
    BY <1>1, <2>1, StillGoesOn, StillEnds
  <2>2. CASE \E p \in Fresh : proc' = [proc EXCEPT ![p] = MainProcess]
    <3>1. PICK p \in Fresh : proc' = [proc EXCEPT ![p] = MainProcess]
      BY <2>2
    <3>2. MainProcess.phase # "unborn"
      BY NewProcesses
    <3>3. Onward
      BY <3>1, <3>2, NewProcesses, FreshGoesOn
    <3>4. OnlyMainEnds
      BY <3>1 DEF OnlyMainEnds, Fresh, ProcTyped
    <3>5. QED
      BY <1>1, <3>3, <3>4
  <2>3. QED
    BY <1>2, <2>1, <2>2 DEF SystemctlStart
<1>3. CASE SystemctlRestart(u) \/ SystemctlStop(u)
  BY <1>1, <1>3, MainEndsGoesOn DEF SystemctlRestart, SystemctlStop
<1>4. QED
  BY <1>2, <1>3

LEMMA SystemctlRuns ==
  ASSUME ProcTyped, NEW u \in Units, NEW wanted \in BOOLEAN, NEW active \in BOOLEAN,
         SystemctlRun(u, wanted, active)
  PROVE  Onward /\ OnlyMainEnds /\ unit' \in Units
<1>1. CASE unit' = u /\ UNCHANGED proc
  BY <1>1, StillGoesOn, StillEnds
<1>2. QED
  BY <1>1, Systemctl DEF SystemctlRun

LEMMA RetryGoesOn ==
  ASSUME ProcTyped, UnitTyped, Retry
  PROVE  Onward /\ unit' \in Units
<1>1. PICK p \in Fresh : proc' = [proc EXCEPT ![p] = MainProcess]
  BY DEF Retry
<1>2. MainProcess.phase # "unborn"
  BY NewProcesses
<1>3. Onward
  BY <1>1, <1>2, NewProcesses, FreshGoesOn
<1>4. QED
  BY <1>3 DEF Retry, UnitTyped, Units

-----------------------------------------------------------------------------
(* The commands of the service. *)

ServiceMoves(c) ==
  /\ \E x : Moves(c, x)
  /\ Onward /\ OnlyMainEnds
  /\ unit' \in Units /\ access' \in Accesses /\ SavedTyped'
  /\ \A d \in Clients \ {c} : saved'[d] = saved[d]
  /\ saved[c] # None => saved'[c] # None

\* What a client that installs has, and where only it is.
Installing == \A c \in Clients :
  client[c].pc \in InstallPlaces => client[c].op \in Installs /\ saved[c] # None

LEMMA SaveTypes ==
  ASSUME SavedTyped, NEW c \in Clients
  PROVE  /\ saved[c] # None => saved[c] \in Saves
         /\ \A r \in Saves : saved' = [saved EXCEPT ![c] = r] =>
              /\ SavedTyped' /\ saved'[c] = r /\ r # None
              /\ \A d \in Clients \ {c} : saved'[d] = saved[d]
BY ServiceAssumption DEF SavedTyped

LEMMA NotSaved ==
  ASSUME SavedTyped, UNCHANGED saved
  PROVE  SavedTyped' /\ \A d \in Clients : saved'[d] = saved[d]
BY DEF SavedTyped

LEMMA ServiceCommandMoves ==
  ASSUME TypeOK, NEW c \in Clients, ServiceCommand(c) \/ ChangeAccess(c)
  PROVE  ServiceMoves(c)
<1>1. ProcTyped /\ ClientTyped /\ UnitTyped /\ AccessTyped /\ SavedTyped
  BY Types
<1>2. (\E x : Moves(c, x)) /\ UNCHANGED saved /\ access' \in Accesses
  BY <1>1, ReturnMoves DEF ServiceCommand, ChangeAccess, AccessTyped, Accesses
<1>3. Onward /\ OnlyMainEnds /\ unit' \in Units
  <2>1. [unit EXCEPT !.file = None, !.loaded = None, !.enabled = FALSE] \in Units
        /\ \A on \in BOOLEAN : [unit EXCEPT !.enabled = on] \in Units
    BY <1>1 DEF UnitTyped, Units, Files
  <2>2. CASE UNCHANGED proc /\ unit' \in Units
    BY <1>1, <2>2, StillGoesOn, StillEnds
  <2>3. CASE \/ SystemctlStart(unit) \/ SystemctlRestart(unit) \/ SystemctlStop(unit)
             \/ SystemctlStop([unit EXCEPT !.file = None, !.loaded = None, !.enabled = FALSE])
    BY <1>1, <2>1, <2>3, Systemctl DEF UnitTyped
  <2>4. CASE ServiceCommand(c)
    BY <1>1, <2>1, <2>2, <2>3, <2>4 DEF ServiceCommand, UnitTyped
  <2>5. CASE ChangeAccess(c)
    BY <1>1, <2>2, <2>5 DEF ChangeAccess, UnitTyped
  <2>6. QED
    BY <2>4, <2>5
<1>4. QED
  BY <1>1, <1>2, <1>3, NotSaved DEF ServiceMoves

\* A step that changes the unit by files alone, or not at all.
LEMMA FilesMove ==
  ASSUME TypeOK, NEW c \in Clients, \E x : Moves(c, x), UNCHANGED proc,
         unit' \in Units, access' \in Accesses,
         UNCHANGED saved \/ \E r \in Saves : saved' = [saved EXCEPT ![c] = r]
  PROVE  ServiceMoves(c)
BY Types, StillGoesOn, StillEnds, NotSaved, SaveTypes DEF ServiceMoves

LEMMA SaveUpdates ==
  ASSUME SavedTyped, NEW c \in Clients, saved[c] # None
  PROVE  /\ \A b \in BOOLEAN : saved' = [saved EXCEPT ![c].again = b] =>
              \E r \in Saves : saved' = [saved EXCEPT ![c] = r]
         /\ saved' = [saved EXCEPT ![c].applied = TRUE] =>
              \E r \in Saves : saved' = [saved EXCEPT ![c] = r]
         /\ saved' = [saved EXCEPT ![c].unseen = TRUE] =>
              \E r \in Saves : saved' = [saved EXCEPT ![c] = r]
         /\ saved' = [saved EXCEPT ![c].warn = TRUE] =>
              \E r \in Saves : saved' = [saved EXCEPT ![c] = r]
<1>1. saved[c] \in Saves
  BY SaveTypes
<1>2. /\ \A b \in BOOLEAN : [saved[c] EXCEPT !.again = b] \in Saves
      /\ [saved[c] EXCEPT !.applied = TRUE] \in Saves
      /\ [saved[c] EXCEPT !.unseen = TRUE] \in Saves
      /\ [saved[c] EXCEPT !.warn = TRUE] \in Saves
  BY <1>1 DEF Saves
<1>3. QED
  BY <1>2

LEMMA InstallInspectMoves ==
  ASSUME TypeOK, NEW c \in Clients, InstallInspect(c)
  PROVE  ServiceMoves(c)
<1>1. ProcTyped /\ ClientTyped /\ UnitTyped /\ AccessTyped /\ SavedTyped
  BY Types
<1>2. UNCHANGED <<proc, unit, access>> /\ client[c].op \in Installs
  BY DEF InstallInspect
<1>3. CASE unit.file = "unmanaged"
  BY <1>1, <1>2, <1>3, ReturnMoves, FilesMove DEF InstallInspect, UnitTyped, AccessTyped
<1>4. CASE unit.file # "unmanaged"
  <2> DEFINE r == [file |-> unit.file, enabled |-> unit.enabled, active |-> Active,
                   access |-> access, again |-> Active, applied |-> FALSE,
                   unseen |-> FALSE, warn |-> FALSE]
  <2>1. r \in Saves
    BY <1>1, <1>4 DEF UnitTyped, Units, Files, AccessTyped, Saves, Active
  <2>2. saved' = [saved EXCEPT ![c] = r] /\ (Go(c, "setup") \/ Go(c, "apply"))
    BY <1>4 DEF InstallInspect
  <2>3. saved'[c] # None
    BY <1>1, <2>1, <2>2, SaveTypes
  <2>4. "setup" \in InstallPlaces /\ "apply" \in InstallPlaces
    BY DEF InstallPlaces
  <2>5. \E x : Moves(c, x)
    BY <1>1, <1>2, <2>2, <2>3, <2>4, GoMoves, PlaceNames
  <2>6. QED
    BY <1>1, <1>2, <2>1, <2>2, <2>5, FilesMove DEF UnitTyped, AccessTyped
<1>5. QED
  BY <1>3, <1>4

\* A step of an installation that stays one.
LEMMA InstallGoes ==
  ASSUME ClientTyped, NEW c \in Clients, NEW pc \in InstallPlaces \cup {"done"}, Go(c, pc),
         client[c].op \in Installs, saved'[c] # None
  PROVE  \E x : Moves(c, x)
<1>1. pc \in Places \ {"idle", "look", "launch"}
  BY PlaceNames
<1>2. QED
  BY <1>1, GoMoves

LEMMA ApplyFailsMoves ==
  ASSUME ClientTyped, NEW c \in Clients, ApplyFails(c), client[c].op \in Installs, saved'[c] # None
  PROVE  \E x : Moves(c, x)
<1>1. "undo access" \in InstallPlaces
  BY DEF InstallPlaces
<1>2. QED
  BY <1>1, InstallGoes, ReturnMoves DEF ApplyFails

LEMMA FilesStepsMove ==
  ASSUME TypeOK, Installing, NEW c \in Clients,
         \/ SetupGatewayRemote(c) \/ ApplyGatewayService(c) \/ DaemonReload(c) \/ EnableNew(c)
         \/ Answers(c) \/ UndoAccess(c)
  PROVE  ServiceMoves(c)
<1>1. ProcTyped /\ ClientTyped /\ UnitTyped /\ AccessTyped /\ SavedTyped
  BY Types
<1>2. {"setup", "apply", "reload", "enable", "run", "answer", "undo apply",
       "undo service", "undo access", "undo unit"} \subseteq InstallPlaces
  BY DEF InstallPlaces
<1>3. client[c].op \in Installs /\ saved[c] # None /\ saved[c] \in Saves
  <2>1. client[c].pc \in InstallPlaces
    BY <1>2 DEF SetupGatewayRemote, ApplyGatewayService, DaemonReload, EnableNew, Answers, UndoAccess
  <2>2. QED
    BY <1>1, <2>1, SaveTypes DEF Installing
<1>4. UNCHANGED proc
  BY DEF SetupGatewayRemote, ApplyGatewayService, DaemonReload, EnableNew, Answers, UndoAccess
<1>5. unit' \in Units /\ access' \in Accesses
  <2>0. "new" \in Files
    BY DEF Files, ManagedFiles
  <2>1. /\ [unit EXCEPT !.file = "new"] \in Units /\ [unit EXCEPT !.loaded = unit.file] \in Units
        /\ [unit EXCEPT !.enabled = TRUE] \in Units /\ unit \in Units
    BY <1>1, <2>0 DEF UnitTyped, Units
  <2>2. unit' \in Units
    BY <2>1 DEF SetupGatewayRemote, ApplyGatewayService, DaemonReload, EnableNew, Answers, UndoAccess
  <2>3. saved[c].access \in Accesses /\ "setup" \in Accesses
    BY <1>3 DEF Saves, Accesses
  <2>4. access' \in Accesses
    BY <1>1, <2>3 DEF AccessTyped, SetupGatewayRemote, ApplyGatewayService, DaemonReload, EnableNew,
       Answers, UndoAccess
  <2>5. QED
    BY <2>2, <2>4
<1>6. UNCHANGED saved \/ \E r \in Saves : saved' = [saved EXCEPT ![c] = r]
  <2>1. CASE ApplyGatewayService(c)
    <3>1. Active \in BOOLEAN
      BY DEF Active
    <3>2. QED
      BY <1>1, <1>3, <2>1, <3>1, SaveUpdates DEF ApplyGatewayService
  <2>2. CASE UndoAccess(c)
    BY <1>1, <1>3, <2>2, SaveUpdates DEF UndoAccess, UndoFails
  <2>3. QED
    BY <2>1, <2>2 DEF SetupGatewayRemote, DaemonReload, EnableNew, Answers
<1>7. saved'[c] # None
  BY <1>1, <1>3, <1>6, SaveTypes
<1>8. \E x : Moves(c, x)
  <2>1. CASE SetupGatewayRemote(c)
    BY <1>1, <1>2, <1>3, <1>7, <2>1, InstallGoes DEF SetupGatewayRemote
  <2>2. CASE ApplyGatewayService(c)
    BY <1>1, <1>2, <1>3, <1>7, <2>2, InstallGoes, ApplyFailsMoves DEF ApplyGatewayService
  <2>3. CASE DaemonReload(c) \/ EnableNew(c)
    BY <1>1, <1>2, <1>3, <1>7, <2>3, InstallGoes DEF DaemonReload, EnableNew
  <2>4. CASE Answers(c)
    BY <1>1, <1>2, <1>3, <1>7, <2>4, InstallGoes, ReturnMoves DEF Answers
  <2>5. CASE UndoAccess(c)
    <3>1. \E pc \in {"undo unit", "done"} : Go(c, pc)
      BY <2>5 DEF UndoAccess, UndoFails, Go
    <3>2. QED
      BY <1>1, <1>2, <1>3, <1>7, <3>1, InstallGoes
  <2>6. QED
    BY <2>1, <2>2, <2>3, <2>4, <2>5
<1>9. QED
  BY <1>4, <1>5, <1>6, <1>8, FilesMove

\* A unit file rendered again is one of ADM's, and only the file is another.
LEMMA RestoredUnit ==
  ASSUME unit \in Units, NEW c \in Clients, saved[c].file \in Files
  PROVE  /\ Restored(c) \in Units /\ [unit EXCEPT !.file = Rendered(saved[c].file)] \in Units
         /\ Restored(c).run = unit.run /\ Restored(c).stirred = unit.stirred
<1>1. Rendered(saved[c].file) \in Files
  BY DEF Rendered, Files, ManagedFiles
<1>2. QED
  BY <1>1 DEF Restored, Units

LEMMA RunStepsMove ==
  ASSUME TypeOK, Installing, NEW c \in Clients,
         RunNew(c) \/ UndoApply(c) \/ UndoService(c) \/ UndoUnit(c)
  PROVE  ServiceMoves(c)
<1>1. ProcTyped /\ ClientTyped /\ UnitTyped /\ AccessTyped /\ SavedTyped
  BY Types
<1>2. {"setup", "apply", "reload", "enable", "run", "answer", "undo apply",
       "undo service", "undo access", "undo unit"} \subseteq InstallPlaces
  BY DEF InstallPlaces
<1>3. client[c].op \in Installs /\ saved[c] # None /\ saved[c] \in Saves
  <2>1. client[c].pc \in InstallPlaces
    BY <1>2 DEF RunNew, UndoApply, UndoService, UndoUnit
  <2>2. QED
    BY <1>1, <2>1, SaveTypes DEF Installing
<1>4. access' \in Accesses
  BY <1>1 DEF AccessTyped, RunNew, UndoApply, UndoService, UndoUnit
<1>5. UNCHANGED saved \/ \E r \in Saves : saved' = [saved EXCEPT ![c] = r]
  BY <1>1, <1>3, SaveUpdates DEF RunNew, UndoApply, UndoService, UndoUnit, UndoFails
<1>6. saved'[c] # None /\ SavedTyped' /\ \A d \in Clients \ {c} : saved'[d] = saved[d]
  BY <1>1, <1>3, <1>5, SaveTypes, NotSaved
<1>7. \E x : Moves(c, x)
  <2>1. CASE RunNew(c)
    BY <1>1, <1>2, <1>3, <1>6, <2>1, InstallGoes, ApplyFailsMoves DEF RunNew
  <2>2. CASE UndoApply(c)
    BY <1>1, <1>3, <1>6, <2>2, ApplyFailsMoves DEF UndoApply
  <2>3. CASE UndoService(c)
    <3>1. \E pc \in {"undo access", "undo unit", "done"} : Go(c, pc)
      BY <2>3 DEF UndoService, UndoFails, Go
    <3>2. QED
      BY <1>1, <1>2, <1>3, <1>6, <3>1, InstallGoes
  <2>4. CASE UndoUnit(c)
    <3>1. Go(c, "done") \/ Return(c, FALSE)
      BY <2>4 DEF UndoUnit, UndoFails, Go
    <3>2. QED
      BY <1>1, <1>3, <1>6, <3>1, InstallGoes, ReturnMoves
  <2>5. QED
    BY <2>1, <2>2, <2>3, <2>4
<1>8. Onward /\ OnlyMainEnds /\ unit' \in Units
  <2>1. CASE UNCHANGED proc /\ unit' \in Units
    BY <1>1, <2>1, StillGoesOn, StillEnds
  <2>2. /\ unit \in Units /\ saved[c].file \in Files /\ saved[c].enabled \in BOOLEAN
        /\ saved[c].again \in BOOLEAN /\ saved[c].active \in BOOLEAN /\ Active \in BOOLEAN
        /\ Created(c) \in BOOLEAN
    BY <1>1, <1>3 DEF UnitTyped, Saves, Files, Active, Created
  <2>3. CASE RunNew(c)
    <3>1. (~Created(c) /\ saved[c].again) \in BOOLEAN
      OBVIOUS
    <3>2. QED
      BY <1>1, <2>1, <2>2, <2>3, <3>1, SystemctlRuns DEF RunNew
  <2>4. Removed \in Units
    BY <2>2 DEF Removed, Units, Files
  <2>5. CASE UndoApply(c)
    <3>1. PICK old \in Units : old = [unit EXCEPT !.file = saved[c].file, !.loaded = saved[c].file]
      BY <2>2 DEF Units
    <3>2. PICK u \in Units : u = [old EXCEPT !.enabled = saved[c].enabled]
      BY <2>2 DEF Units
    <3>3. [unit EXCEPT !.file = saved[c].file] \in Units
      BY <2>2 DEF Units
    <3>4. \/ SystemctlStop(Removed) \/ SystemctlRestart(u) \/ SystemctlStop(u)
          \/ unit' \in {unit, [unit EXCEPT !.file = saved[c].file], old} /\ UNCHANGED proc
      BY <2>5, <3>1, <3>2 DEF UndoApply
    <3>5. QED
      BY <1>1, <2>1, <2>2, <2>4, <3>3, <3>4, Systemctl
  <2>6. CASE UndoService(c)
    <3>1. SystemctlStop(Removed) \/ SystemctlStop(unit) \/ UNCHANGED <<proc, unit>>
      BY <2>6 DEF UndoService
    <3>2. QED
      BY <1>1, <2>1, <2>2, <2>4, <3>1, Systemctl
  <2>7. CASE UndoUnit(c)
    <3>1. Restored(c) \in Units /\ [unit EXCEPT !.file = Rendered(saved[c].file)] \in Units
      BY <2>2, RestoredUnit
    <3>2. PICK u \in Units : u = [Restored(c) EXCEPT !.enabled = unit.enabled /\ saved[c].enabled]
      BY <2>2, <3>1 DEF Units
    <3>3. \/ SystemctlRun(u, saved[c].active, Active) \/ SystemctlRun(Restored(c), saved[c].active, Active)
          \/ SystemctlRestart(unit) \/ SystemctlStop(unit) \/ UNCHANGED <<proc, unit>>
          \/ unit' = [unit EXCEPT !.file = Rendered(saved[c].file)] /\ UNCHANGED proc
      BY <2>7, <3>2, Zenon DEF UndoUnit
    <3>4. QED
      BY <1>1, <2>1, <2>2, <3>1, <3>3, Systemctl, SystemctlRuns
  <2>8. QED
    BY <2>3, <2>5, <2>6, <2>7
<1>9. QED
  BY <1>4, <1>6, <1>7, <1>8 DEF ServiceMoves

-----------------------------------------------------------------------------
(* Types. *)

Steps ==
  /\ Onward /\ unit' \in Units /\ access' \in Accesses /\ SavedTyped'
  /\ \/ UNCHANGED <<client, saved>>
     \/ \E c \in Clients : /\ \E x : Moves(c, x)
                           /\ \A d \in Clients \ {c} : saved'[d] = saved[d]
                           /\ saved[c] # None => saved'[c] # None

LEMMA StirsTyped == UnitTyped /\ Stirs => unit' \in Units
BY DEF Stirs

LEMMA InstallStepMoves ==
  ASSUME TypeOK, Installing, NEW c \in Clients,
         ServiceCommand(c) \/ ChangeAccess(c) \/ InstallStep(c)
  PROVE  ServiceMoves(c)
BY ServiceCommandMoves, InstallInspectMoves, FilesStepsMove, RunStepsMove DEF InstallStep

LEMMA EveryStep ==
  ASSUME TypeOK, Installing, [Next]_vars
  PROVE  Steps
<1>1. ProcTyped /\ ClientTyped /\ UnitTyped /\ AccessTyped /\ SavedTyped
  BY Types
<1>2. CASE UNCHANGED vars
  BY <1>1, <1>2, StillGoesOn, NotSaved DEF vars, Steps, UnitTyped, AccessTyped
<1>3. CASE ProcessStep /\ UNCHANGED <<access, saved>>
  <2>1. UNCHANGED client
    BY <1>3 DEF ProcessStep, Bind, ExitGracefully, Crash, ForeignTakesAddress
  <2>2. QED
    BY <1>1, <1>3, <2>1, ProcessStepGoesOn, StirsTyped, NotSaved DEF Steps, AccessTyped
<1>4. ASSUME NEW c \in Clients, ClientStep(c), UNCHANGED <<access, saved>>
      PROVE  Steps
  BY <1>1, <1>4, ClientStepMoves, StirsTyped, NotSaved DEF Steps, AccessTyped
<1>5. CASE Retry
  <2>1. UNCHANGED <<client, access, saved>>
    BY <1>5 DEF Retry
  <2>2. QED
    BY <1>1, <1>5, <2>1, RetryGoesOn, NotSaved DEF Steps, AccessTyped
<1>6. ASSUME NEW c \in Clients, NEW op \in Installs \cup {"service", "rotate"}, Begin(c, op),
             UNCHANGED <<access, saved>>
      PROVE  Steps
  <2>1. op \in Ops /\ UNCHANGED <<proc, unit>>
    BY <1>6 DEF Ops, Begin
  <2>2. \E x : Moves(c, x)
    BY <1>1, <1>6, <2>1, BeginMoves
  <2>3. QED
    BY <1>1, <1>6, <2>1, <2>2, StillGoesOn, NotSaved DEF Steps, AccessTyped, UnitTyped
<1>7. ASSUME NEW c \in Clients, ServiceCommand(c) \/ ChangeAccess(c) \/ InstallStep(c)
      PROVE  Steps
  BY <1>7, InstallStepMoves DEF Steps, ServiceMoves
<1>8. QED
  BY <1>2, <1>3, <1>4, <1>5, <1>6, <1>7 DEF Next

LEMMA TypeInit == Init => TypeOK /\ Installing
<1> SUFFICES ASSUME Init PROVE TypeOK /\ Installing
  OBVIOUS
<1>1. ProcTyped
  <2>1. Unborn \in Processes
    BY DEF Unborn, Processes, Kinds, Phases
  <2>2. PICK k \in Kinds, first \in {"unborn", "serving"}, exe \in {"adm", "desktop"} :
          proc = [p \in Procs |-> IF p = 1
                    THEN [kind |-> k, phase |-> first, exe |-> exe, main |-> unit.run = "up"]
                    ELSE Unborn]
    BY DEF Init
  <2>3. [kind |-> k, phase |-> first, exe |-> exe, main |-> unit.run = "up"] \in Processes
    BY DEF Processes, Phases
  <2>4. QED
    BY <2>1, <2>2, <2>3 DEF ProcTyped
<1>2. NoCommand \in ClientStates /\ NoCommand.pc \notin InstallPlaces
  BY DEF NoCommand, ClientStates, Ops, Places, ClientPlaces, InstallPlaces
<1>3. ClientTyped /\ Installing
  BY <1>2 DEF Init, ClientTyped, Installing
<1>4. UnitTyped /\ AccessTyped /\ SavedTyped
  BY DEF Init, UnitTyped, AccessTyped, Accesses, SavedTyped
<1>5. QED
  BY <1>1, <1>3, <1>4, Types

LEMMA TypeStep == TypeOK /\ Installing /\ [Next]_vars => TypeOK' /\ Installing'
<1> SUFFICES ASSUME TypeOK, Installing, [Next]_vars PROVE TypeOK' /\ Installing'
  OBVIOUS
<1>1. Steps /\ ClientTyped
  BY EveryStep, Types
<1>2. (ProcTyped /\ UnitTyped /\ AccessTyped /\ SavedTyped)'
  BY <1>1 DEF Steps, Onward, ProcTyped, UnitTyped, AccessTyped
<1>3. CASE UNCHANGED <<client, saved>>
  BY <1>1, <1>2, <1>3, Types DEF ClientTyped, Installing
<1>4. ASSUME NEW c \in Clients, NEW x, Moves(c, x),
             \A d \in Clients \ {c} : saved'[d] = saved[d]
      PROVE  TypeOK' /\ Installing'
  <2>1. ClientTyped' /\ client'[c] = x /\ \A d \in Clients \ {c} : client'[d] = client[d]
    BY <1>1, <1>4 DEF Moves, ClientTyped
  <2>2. Installing'
    <3>1. ASSUME x.pc \in InstallPlaces PROVE x.op \in Installs /\ saved'[c] # None
      <4>1. client[c].op \in Installs /\ saved'[c] # None
        BY <1>4, <3>1 DEF Moves
      <4>2. NoCommand.op = "none" /\ "none" \notin Installs
        BY DEF Installs, NoCommand
      <4>3. QED
        BY <1>4, <4>1, <4>2 DEF Moves
    <3>2. QED
      BY <1>4, <2>1, <3>1 DEF Installing
  <2>3. QED
    BY <1>2, <2>1, <2>2, Types
<1>5. QED
  BY <1>1, <1>3, <1>4 DEF Steps

(* The state has the types TypeOK names, and who is in the middle of an     *)
(* installation has saved what it found.                                    *)
THEOREM TypeCorrect == Spec => [](TypeOK /\ Installing)
BY TypeInit, TypeStep, PTL DEF Spec

-----------------------------------------------------------------------------
(* What the clients know of the processes. *)

\* PIDs are given out in order, so that the first n are the n first born.
InOrder == \A p \in Born, q \in Procs : q < p => q \in Born
Counted == \A c \in Clients, p \in Procs : p <= client[c].after => p \in Born
SawGateways == \A c \in Clients :
  client[c].saw # None => client[c].saw \in Born /\ proc[client[c].saw].kind # "foreign"

KnowInv == InOrder /\ Counted /\ SawGateways /\ SetupFindsNoOldGateway

LEMMA CountBorn ==
  ASSUME InOrder, NEW p \in Procs, p <= Cardinality(Born)
  PROVE  p \in Born
<1> SUFFICES ASSUME p \notin Born PROVE FALSE
  OBVIOUS
<1>1. Procs \subseteq Nat \ {0} /\ IsFiniteSet(Procs)
  BY ProcessAssumption
<1>2. Born \in SUBSET (1..(p - 1))
  <2> SUFFICES ASSUME NEW q \in Born PROVE q \in 1..(p - 1)
    OBVIOUS
  <2>1. q \in Procs /\ q \in Nat \ {0} /\ p \in Nat \ {0}
    BY <1>1 DEF Born
  <2>2. q # p /\ ~(p < q)
    BY <2>1 DEF InOrder
  <2>3. QED
    BY <2>1, <2>2
<1>3. IsFiniteSet(1..(p - 1)) /\ Cardinality(1..(p - 1)) = p - 1
  BY <1>1, FS_Interval
<1>4. Cardinality(Born) <= p - 1
  BY <1>2, <1>3, FS_Subset
<1>5. IsFiniteSet(Born)
  BY <1>2, <1>3, FS_Subset
<1>6. Cardinality(Born) \in Nat
  BY <1>5, FS_CardinalityType
<1>7. QED
  BY <1>1, <1>4, <1>6

LEMMA KnowInit == Init => KnowInv
<1> SUFFICES ASSUME Init PROVE KnowInv
  OBVIOUS
<1>1. \A c \in Clients : client[c] = NoCommand
  BY DEF Init
<1>2. \A p \in Born : p = 1
  <2>1. PICK first : proc = [p \in Procs |-> IF p = 1 THEN first ELSE Unborn]
    BY DEF Init
  <2>2. \A p \in Procs : p # 1 => proc[p].phase = "unborn"
    BY <2>1 DEF Unborn
  <2>3. QED
    BY <2>2 DEF Born
<1>3. InOrder
  BY <1>2, ProcessAssumption DEF InOrder, Born
<1>4. Counted
  BY <1>1, ProcessAssumption DEF Counted, NoCommand
<1>5. SawGateways /\ SetupFindsNoOldGateway
  BY <1>1 DEF SawGateways, SetupFindsNoOldGateway, NoCommand
<1>6. QED
  BY <1>3, <1>4, <1>5 DEF KnowInv

LEMMA KnowStep ==
  ASSUME TypeOK, Installing, KnowInv, [Next]_vars
  PROVE  KnowInv'
<1>1. Steps /\ ProcTyped /\ ClientTyped
  BY EveryStep, Types
<1>2. Onward /\ \A p \in Procs : GoesOn(p)
  BY <1>1 DEF Steps, Onward
<1>3. Born \subseteq Born' /\ Born' \subseteq Procs
  BY <1>2 DEF Born, GoesOn
<1>4. InOrder'
  <2> SUFFICES ASSUME NEW p \in Born', NEW q \in Procs, q < p PROVE q \in Born'
    BY DEF InOrder
  <2>1. CASE p \in Born
    BY <1>3, <2>1 DEF KnowInv, InOrder
  <2>2. CASE p \notin Born
    <3>1. p \in Fresh
      BY <1>2, <1>3, <2>2 DEF Born, GoesOn
    <3>2. proc[q].phase # "unborn"
      BY <1>3, <3>1, ProcessAssumption DEF Fresh
    <3>3. QED
      BY <1>3, <3>2 DEF Born
  <2>3. QED
    BY <2>1, <2>2
<1>5. ASSUME NEW c \in Clients,
             \/ client'[c] = client[c]
             \/ Moves(c, client'[c])
      PROVE  /\ \A p \in Procs : p <= client'[c].after => p \in Born
             /\ client'[c].saw # None => client'[c].saw \in Born'
                                         /\ proc'[client'[c].saw].kind # "foreign"
             /\ client'[c].pc = "launch" =>
                  \A p \in Procs : Alive(p)' /\ proc'[p].exe = "desktop" => p > client'[c].after
  <2>1. \A p \in Procs : p <= client'[c].after => p \in Born
    <3>1. CASE client'[c].after = client[c].after
      BY <3>1 DEF KnowInv, Counted
    <3>2. CASE client'[c].after = 0
      BY <3>2, ProcessAssumption
    <3>3. CASE client'[c].after = Cardinality(Born)
      BY <3>3, CountBorn DEF KnowInv
    <3>4. QED
      BY <1>5, <3>1, <3>2, <3>3 DEF Moves
  <2>2. ASSUME client'[c].saw # None
        PROVE  client'[c].saw \in Born' /\ proc'[client'[c].saw].kind # "foreign"
    <3>1. client'[c].saw \in Born /\ proc[client'[c].saw].kind # "foreign"
      <4>1. CASE client'[c].saw = client[c].saw
        BY <2>2, <4>1 DEF KnowInv, SawGateways
      <4>2. CASE client'[c].saw \in Listeners /\ proc[client'[c].saw].kind # "foreign"
        BY <4>2 DEF Listeners, Born
      <4>3. QED
        BY <1>5, <2>2, <4>1, <4>2 DEF Moves
    <3>2. QED
      BY <1>2, <1>3, <3>1 DEF GoesOn, Born
  <2>3. ASSUME client'[c].pc = "launch", NEW p \in Procs, Alive(p)', proc'[p].exe = "desktop"
        PROVE  p > client'[c].after
    <3>1. client'[c].after \in Nat /\ p \in Nat
      <4>1. ClientTyped'
        BY <1>1, TypeStep, Types
      <4>2. QED
        BY <4>1, ProcessAssumption DEF ClientTyped, ClientStates
    <3>2. CASE p \notin Born
      BY <2>1, <3>1, <3>2
    <3>3. CASE p \in Born
      <4>1. Alive(p) /\ proc[p].exe = "desktop"
        BY <1>2, <2>3, <3>3 DEF GoesOn, Born
      <4>2. Blockers(None) # {}
        BY <4>1, ProcessAssumption DEF Blockers
      <4>3. client'[c] = client[c]
        BY <1>5, <2>3, <4>2 DEF Moves
      <4>4. QED
        BY <2>3, <4>1, <4>3 DEF KnowInv, SetupFindsNoOldGateway
    <3>4. QED
      BY <3>2, <3>3
  <2>4. QED
    BY <2>1, <2>2, <2>3
<1>6. \A c \in Clients : client'[c] = client[c] \/ Moves(c, client'[c])
  BY <1>1 DEF Steps, Moves, ClientTyped
<1>7. Counted'
  BY <1>3, <1>5, <1>6 DEF Counted
<1>8. SawGateways'
  BY <1>5, <1>6 DEF SawGateways
<1>9. SetupFindsNoOldGateway'
  BY <1>5, <1>6 DEF SetupFindsNoOldGateway
<1>10. QED
  BY <1>4, <1>7, <1>8, <1>9 DEF KnowInv

(* When the setup program starts, no process of the desktop's executable    *)
(* that ran when the update began still runs: the last look asks for the    *)
(* processes and not for the address, and whatever is born after the update *)
(* began has a higher PID than all there were.                              *)
THEOREM SetupIsClear == Spec => []SetupFindsNoOldGateway
<1>1. TypeOK /\ Installing /\ KnowInv /\ [Next]_vars => TypeOK' /\ Installing' /\ KnowInv'
  BY TypeStep, KnowStep
<1>2. KnowInv => SetupFindsNoOldGateway
  BY DEF KnowInv
<1>3. QED
  BY TypeInit, KnowInit, <1>1, <1>2, PTL DEF Spec

-----------------------------------------------------------------------------
(* Whom a client ends. *)

LEMMA ClientStepEnds ==
  ASSUME ProcTyped, NEW c \in Clients, SawGateways, ClientStep(c), NEW p \in Procs,
         proc[p].phase \in {"starting", "serving"}, proc'[p].phase \in {"closing", "dead"}
  PROVE  client[c].child = p \/ (client[c].saw = p /\ proc[p].kind # "foreign")
<1>1. ~UNCHANGED proc
  OBVIOUS
<1>2. ASSUME NEW q, NEW phase, proc' = Phase(q, phase) PROVE q = p
  BY <1>2 DEF Phase, ProcTyped
<1>3. CASE StartGatewayProcess(c)
  BY <1>3 DEF StartGatewayProcess, Fresh, ProcTyped
<1>4. CASE NotReady(c)
  BY <1>1, <1>2, <1>4 DEF NotReady
<1>5. CASE PostShutdown(c)
  BY <1>1, <1>2, <1>5 DEF PostShutdown, AcceptsShutdown, Owned
<1>6. CASE TerminateHTTPProcess(c)
  <2>1. Dies(client[c].saw)
    BY <1>1, <1>6, Zenon DEF TerminateHTTPProcess
  <2>2. client[c].saw = p
    BY <1>2, <2>1 DEF Dies
  <2>3. p # None
    BY ProcessAssumption
  <2>4. QED
    BY <2>2, <2>3 DEF SawGateways
<1>7. QED
  BY <1>1, <1>3, <1>4, <1>5, <1>6
     DEF ClientStep, Begin, StartInspect, CheckHTTPListenAvailable, WaitHTTPReady, ForceStopInspect,
         WaitShutdown, DialUntilRefused, InspectAgain, FindListeningProcess, PrepareInstall,
         WaitForGatewayProcessExit, EnsureNoOtherDesktopProcesses, InstallAndRestart

LEMMA EndsStep ==
  ASSUME TypeOK, Installing, SawGateways, [Next]_vars, NEW c \in Clients, NEW p \in Procs,
         EndedBy(c, p)
  PROVE  \/ client[c].op \in Installs \cup {"service"} /\ proc[p].main
         \/ client[c].child = p
         \/ client[c].saw = p /\ proc[p].kind # "foreign"
<1>1. ProcTyped /\ ClientTyped /\ UnitTyped
  BY Types
<1>2. /\ client'[c] # client[c]
      /\ proc[p].phase \in {"starting", "serving"} /\ proc'[p].phase \in {"closing", "dead"}
  BY DEF EndedBy
<1>3. ASSUME NEW d \in Clients, \E x : Moves(d, x) PROVE d = c
  BY <1>1, <1>2, <1>3 DEF Moves, ClientTyped
<1>4. CASE ProcessStep \/ Retry \/ UNCHANGED vars
  BY <1>2, <1>4 DEF ProcessStep, Bind, ExitGracefully, Crash, ForeignTakesAddress, Retry, vars
<1>5. ASSUME NEW d \in Clients, ClientStep(d)
      PROVE  client[c].child = p \/ (client[c].saw = p /\ proc[p].kind # "foreign")
  <2>1. d = c
    BY <1>1, <1>3, <1>5, ClientStepMoves
  <2>2. QED
    BY <1>1, <1>2, <1>5, <2>1, ClientStepEnds
<1>6. ASSUME NEW d \in Clients, NEW op, Begin(d, op) PROVE FALSE
  BY <1>2, <1>6 DEF Begin
<1>7. ASSUME NEW d \in Clients, ServiceCommand(d) \/ ChangeAccess(d) \/ InstallStep(d)
      PROVE  client[c].op \in Installs \cup {"service"} /\ proc[p].main
  <2>1. d = c /\ OnlyMainEnds
    BY <1>3, <1>7, InstallStepMoves DEF ServiceMoves
  <2>2. proc[p].main
    BY <1>2, <2>1 DEF OnlyMainEnds
  <2>3. CASE ServiceCommand(c)
    BY <2>2, <2>3 DEF ServiceCommand
  <2>4. CASE ChangeAccess(c)
    BY <1>2, <2>4 DEF ChangeAccess
  <2>5. CASE InstallStep(c)
    <3>1. client[c].op \in Installs \/ client[c].pc \in InstallPlaces
      BY <2>5 DEF InstallStep, InstallInspect, SetupGatewayRemote, ApplyGatewayService, DaemonReload,
         EnableNew, RunNew, UndoApply, Answers, UndoService, UndoAccess, UndoUnit, InstallPlaces
    <3>2. QED
      BY <2>2, <3>1 DEF Installing
  <2>6. QED
    BY <1>7, <2>1, <2>3, <2>4, <2>5
<1>8. QED
  BY <1>4, <1>5, <1>6, <1>7 DEF Next

(* A client ends no process but the service's, the child it started, or     *)
(* the one it looked at and took for a Gateway: never another program, and  *)
(* never a Gateway that took the address after the look.                    *)
THEOREM EndsItsTarget == Spec => EndsOnlyItsTarget
<1>1. TypeOK /\ Installing /\ KnowInv /\ [Next]_vars => TypeOK' /\ Installing' /\ KnowInv'
  BY TypeStep, KnowStep
<1>2. TypeOK /\ Installing /\ KnowInv /\ [Next]_vars
        => [\A c \in Clients, p \in Procs :
              EndedBy(c, p) =>
                \/ client[c].op \in Installs \cup {"service"} /\ proc[p].main
                \/ client[c].child = p
                \/ client[c].saw = p /\ proc[p].kind # "foreign"]_vars
  BY EndsStep DEF KnowInv
<1>3. QED
  BY TypeInit, KnowInit, <1>1, <1>2, PTL DEF Spec, EndsOnlyItsTarget

-----------------------------------------------------------------------------
(* What a failed installation puts back. *)

\* systemd only starts again what ended on its own.
RetryStirred == unit.run = "retry" => unit.stirred

\* How an installation goes, whatever the others do.
Course(c) ==
  /\ client[c].op \in Installs => client[c].pc \in {"look", "done"} \cup InstallPlaces
  /\ client[c].pc \in {"idle", "look"} => saved[c] = None
  /\ client[c].pc = "setup" => client[c].op = "install"
  /\ client[c].pc = "enable" => Created(c)
  /\ client[c].pc = "undo unit" => ~Created(c)

\* Before anybody changed the unit.
Found(c) ==
  client[c].pc \in {"idle", "look"} =>
    /\ unit.loaded = unit.file /\ unit.file # "new"
    /\ unit.file \notin ManagedFiles => ~unit.enabled /\ unit.run = "stopped"

EnabledKept(c) == ~Created(c) => unit.enabled = saved[c].enabled
AccessKept(c) == client[c].op = "service install" => access = saved[c].access
UnitKept(c) ==
  ~saved[c].unseen =>
  /\ unit.file = Back(c) /\ unit.loaded = Back(c) /\ unit.enabled = saved[c].enabled
  /\ saved[c].again = saved[c].active /\ ~unit.stirred => Active = saved[c].active

\* What is still, or again, as it was, at each step of an installation.
Restores(c) ==
  client[c].op \in Installs /\ saved[c] # None /\ ~saved[c].warn =>
    /\ Created(c) => ~saved[c].enabled /\ ~saved[c].active
    /\ client[c].pc \in {"setup", "apply", "reload", "enable", "run", "undo apply"}
         => ~saved[c].applied /\ ~saved[c].unseen
    /\ client[c].pc \in {"answer", "undo service", "undo unit"} => saved[c].applied
    /\ client[c].pc \in {"apply", "reload", "enable", "run", "undo apply", "answer", "undo service"}
         => AccessKept(c) /\ EnabledKept(c)
    /\ client[c].pc = "setup" => UnitKept(c) /\ access = saved[c].access
    /\ client[c].pc = "apply" => UnitKept(c)
    /\ client[c].pc = "undo access" =>
         IF saved[c].applied /\ ~Created(c) THEN EnabledKept(c) ELSE UnitKept(c)
    /\ client[c].pc = "undo unit" => EnabledKept(c) /\ access = saved[c].access
    /\ client[c].pc = "done" /\ ~client[c].ok => UnitKept(c) /\ access = saved[c].access

RestoreInv ==
  /\ RetryStirred
  /\ \A c \in Clients : Course(c) /\ (Alone(c) => Found(c) /\ Restores(c))

LEMMA RestoreInit == Init => RestoreInv
<1> SUFFICES ASSUME Init PROVE RestoreInv
  OBVIOUS
<1>1. \A c \in Clients : client[c] = NoCommand /\ saved[c] = None
  BY DEF Init
<1>2. /\ unit.loaded = unit.file /\ unit.file # "new" /\ unit.run # "retry"
      /\ unit.file \notin ManagedFiles => ~unit.enabled /\ unit.run = "stopped"
  BY DEF Init
<1>3. \A c \in Clients : client[c].op = "none" /\ client[c].pc = "idle" /\ "none" \notin Installs
  BY <1>1 DEF NoCommand, Installs
<1>4. \A c \in Clients : Course(c) /\ Found(c) /\ Restores(c)
  BY <1>1, <1>2, <1>3 DEF Course, Found, Restores
<1>5. QED
  BY <1>2, <1>4 DEF RestoreInv, RetryStirred

LEMMA RestoreImplies == TypeOK /\ RestoreInv => FailedInstallRestores
<1> SUFFICES ASSUME TypeOK, RestoreInv, NEW c \in Clients,
                    client[c].op \in Installs, client[c].pc = "done", ~client[c].ok,
                    saved[c] # None, ~saved[c].warn, saved[c].again = saved[c].active,
                    Alone(c), ~unit.stirred
    PROVE  /\ access = saved[c].access
           /\ ~saved[c].unseen =>
                /\ unit.file = Back(c) /\ unit.loaded = Back(c)
                /\ unit.enabled = saved[c].enabled
                /\ Active = saved[c].active
  BY DEF FailedInstallRestores
<1>1. UnitKept(c) /\ access = saved[c].access
  BY DEF RestoreInv, Restores
<1>2. QED
  BY <1>1 DEF UnitKept

LEMMA WentTo ==
  ASSUME ClientTyped, NEW c \in Clients
  PROVE  /\ \A pc : Go(c, pc) => /\ client'[c].pc = pc /\ client'[c].op = client[c].op
                                 /\ client'[c].ok = client[c].ok
         /\ \A ok : Return(c, ok) => /\ client'[c].pc = "done" /\ client'[c].op = client[c].op
                                     /\ client'[c].ok = ok
BY DEF ClientTyped, ClientStates, Go, Return, NoCommand

\* The steps that, to an installation, are those of others.
Quiet(c) ==
  /\ Stirs /\ UNCHANGED access /\ client'[c] = client[c] /\ saved'[c] = saved[c]

LEMMA QuietKeeps ==
  ASSUME UnitTyped, NEW c \in Clients, Quiet(c)
  PROVE  /\ Course(c) => Course(c)'
         /\ Found(c) => Found(c)'
         /\ Restores(c) => Restores(c)'
<1>1. /\ Course(c) => Course(c)'
      /\ Found(c) => Found(c)'
  BY DEF Quiet, Stirs, UnitTyped, Units, Course, Found, Created
<1>2. /\ EnabledKept(c) => EnabledKept(c)'
      /\ AccessKept(c) => AccessKept(c)'
      /\ UnitKept(c) => UnitKept(c)'
      /\ Created(c)' = Created(c)
  BY DEF Quiet, Stirs, UnitTyped, Units, EnabledKept, AccessKept, UnitKept, Back, Created, Active
<1>3. Restores(c) => Restores(c)'
  BY <1>2 DEF Quiet, Restores
<1>4. QED
  BY <1>1, <1>3

\* What a step of c's own installation keeps.
Keeps(c) == Course(c)' /\ (Found(c) /\ Restores(c) => Found(c)' /\ Restores(c)')

LEMMA InstallInspectKeeps ==
  ASSUME TypeOK, NEW c \in Clients, Course(c), InstallInspect(c)
  PROVE  Keeps(c)
<1>1. ProcTyped /\ ClientTyped /\ UnitTyped /\ AccessTyped /\ SavedTyped
  BY Types
<1>2. /\ client[c].op \in Installs /\ client[c].pc = "look" /\ saved[c] = None
      /\ UNCHANGED <<proc, unit, access>>
  BY DEF InstallInspect, Course
<1>3. client'[c].op = client[c].op
  BY <1>1, WentTo DEF InstallInspect
<1>4. CASE unit.file = "unmanaged"
  <2>1. client'[c].pc = "done" /\ saved'[c] = None
    BY <1>1, <1>2, <1>4, WentTo DEF InstallInspect
  <2>2. QED
    BY <2>1 DEF Keeps, Course, Found, Restores
<1>5. CASE unit.file # "unmanaged"
  <2> DEFINE r == [file |-> unit.file, enabled |-> unit.enabled, active |-> Active,
                   access |-> access, again |-> Active, applied |-> FALSE,
                   unseen |-> FALSE, warn |-> FALSE]
  <2>1. r \in Saves
    BY <1>1, <1>5 DEF UnitTyped, Units, Files, AccessTyped, Saves, Active
  <2>2. saved'[c] = r
    BY <1>1, <1>5, <2>1, SaveTypes DEF InstallInspect
  <2>3. client'[c].pc = IF client[c].op = "install" THEN "setup" ELSE "apply"
    BY <1>1, <1>5, WentTo DEF InstallInspect
  <2>4. Course(c)'
    BY <1>2, <1>3, <2>3 DEF Course, InstallPlaces
  <2>5. ASSUME Found(c) PROVE Found(c)' /\ Restores(c)'
    <3>1. UnitKept(c)' /\ AccessKept(c)' /\ EnabledKept(c)' /\ (access = saved[c].access)'
      BY <1>2, <2>2, <2>5 DEF UnitKept, Back, AccessKept, EnabledKept, Found, Active
    <3>2. /\ Created(c)' => ~unit.enabled /\ ~Active
          /\ ~saved'[c].applied /\ ~saved'[c].unseen /\ saved'[c].file = unit.file
          /\ saved'[c].enabled = unit.enabled /\ saved'[c].active = Active
      BY <1>1, <1>2, <1>5, <2>2, <2>5, ServiceAssumption
         DEF Found, Created, Active, UnitTyped, Units
    <3>3. Created(c)' => ~saved'[c].enabled /\ ~saved'[c].active
      BY <3>2 DEF Active
    <3>4. client'[c].pc \in {"setup", "apply"}
      BY <2>3
    <3>5. QED
      BY <3>1, <3>2, <3>3, <3>4 DEF Found, Restores
  <2>6. QED
    BY <2>4, <2>5 DEF Keeps
<1>6. QED
  BY <1>4, <1>5

\* What is known of c in the middle of an installation.
LEMMA InstallFacts ==
  ASSUME TypeOK, Installing, NEW c \in Clients, client[c].pc \in InstallPlaces
  PROVE  /\ ProcTyped /\ ClientTyped /\ UnitTyped /\ AccessTyped /\ SavedTyped
         /\ client[c].op \in Installs /\ saved[c] # None /\ saved[c] \in Saves
BY Types, SaveTypes DEF Installing

LEMMA SetupGatewayRemoteKeeps ==
  ASSUME TypeOK, Installing, NEW c \in Clients, Course(c), SetupGatewayRemote(c)
  PROVE  Keeps(c)
<1>1. client[c].pc = "setup" /\ client[c].op = "install" /\ UNCHANGED <<proc, unit, saved>>
  BY DEF SetupGatewayRemote, Course
<1>2. ClientTyped
  BY Types
<1>3. client'[c].op = "install" /\ client'[c].pc \in {"apply", "undo access"}
  BY <1>1, <1>2, WentTo DEF SetupGatewayRemote
<1>4. Course(c)'
  BY <1>3 DEF Course, Installs, InstallPlaces
<1>5. /\ UnitKept(c)' <=> UnitKept(c)
      /\ Created(c)' <=> Created(c)
      /\ UnitKept(c) /\ ~saved[c].unseen => EnabledKept(c)'
      /\ AccessKept(c)'
  BY <1>1, <1>3 DEF UnitKept, Back, EnabledKept, AccessKept, Created, Active
<1>6. Restores(c) => Found(c)' /\ Restores(c)'
  BY <1>1, <1>3, <1>5 DEF Found, Restores, Installs
<1>7. QED
  BY <1>4, <1>6 DEF Keeps

LEMMA ApplyGatewayServiceKeeps ==
  ASSUME TypeOK, Installing, NEW c \in Clients, Course(c), ApplyGatewayService(c)
  PROVE  Keeps(c)
<1>1. client[c].pc = "apply" /\ UNCHANGED <<proc, access>> /\ "apply" \in InstallPlaces
  BY DEF ApplyGatewayService, InstallPlaces
<1>2. /\ ClientTyped /\ UnitTyped /\ SavedTyped
      /\ client[c].op \in Installs /\ saved[c] # None /\ saved[c] \in Saves
  BY <1>1, InstallFacts
<1>3. CASE ApplyFails(c) /\ UNCHANGED <<unit, saved>>
  <2>1. /\ client'[c].op = client[c].op
        /\ client'[c].pc = IF client[c].op = "install" THEN "undo access" ELSE "done"
    BY <1>2, <1>3, WentTo DEF ApplyFails
  <2>2. Course(c)'
    BY <1>2, <2>1 DEF Course, Installs, InstallPlaces
  <2>3. /\ UnitKept(c)' <=> UnitKept(c)
        /\ Created(c)' <=> Created(c)
    BY <1>3 DEF UnitKept, Back, Created, Active
  <2>4. Restores(c) => Found(c)' /\ Restores(c)'
    BY <1>1, <1>2, <1>3, <2>1, <2>3 DEF Found, Restores, AccessKept, Installs
  <2>5. QED
    BY <2>2, <2>4 DEF Keeps
<1>4. CASE ~(ApplyFails(c) /\ UNCHANGED <<unit, saved>>)
  <2>1. /\ client'[c].op = client[c].op /\ client'[c].pc = "reload"
        /\ unit' = [unit EXCEPT !.file = "new"]
        /\ saved' = [saved EXCEPT ![c].again = Active]
    BY <1>2, <1>4, WentTo DEF ApplyGatewayService
  <2>2. Course(c)'
    BY <1>2, <2>1 DEF Course, InstallPlaces
  <2>3. /\ saved'[c].file = saved[c].file /\ saved'[c].enabled = saved[c].enabled
        /\ saved'[c].active = saved[c].active /\ saved'[c].access = saved[c].access
        /\ saved'[c].applied = saved[c].applied /\ saved'[c].warn = saved[c].warn
        /\ unit'.enabled = unit.enabled
    BY <1>2, <2>1 DEF SavedTyped, Saves, UnitTyped, Units
  <2>4. /\ Created(c)' <=> Created(c)
        /\ EnabledKept(c) => EnabledKept(c)'
        /\ AccessKept(c) => AccessKept(c)'
    BY <1>1, <2>1, <2>3 DEF Created, EnabledKept, AccessKept
  <2>5. Restores(c) => Found(c)' /\ Restores(c)'
    BY <1>1, <1>2, <2>1, <2>3, <2>4 DEF Found, Restores
  <2>6. QED
    BY <2>2, <2>5 DEF Keeps
<1>5. QED
  BY <1>3, <1>4

LEMMA DaemonReloadKeeps ==
  ASSUME TypeOK, Installing, NEW c \in Clients, Course(c), DaemonReload(c) \/ EnableNew(c)
  PROVE  Keeps(c)
<1>1. /\ client[c].pc \in {"reload", "enable"} /\ UNCHANGED <<proc, access, saved>>
      /\ {"reload", "enable"} \subseteq InstallPlaces
  BY DEF DaemonReload, EnableNew, InstallPlaces
<1>2. /\ ClientTyped /\ UnitTyped /\ client[c].op \in Installs /\ saved[c] # None
  BY <1>1, InstallFacts
<1>3. /\ client'[c].op = client[c].op
      /\ client'[c].pc \in {"enable", "run", "undo apply"}
      /\ client'[c].pc = "enable" => Created(c)
  <2>1. \E pc \in {"enable", "run", "undo apply"} : Go(c, pc) /\ (pc = "enable" => Created(c))
    BY DEF DaemonReload, EnableNew, Created
  <2>2. QED
    BY <1>2, <2>1, WentTo
<1>4. Created(c)' <=> Created(c)
  BY <1>1 DEF Created
<1>5. Course(c)'
  BY <1>2, <1>3, <1>4 DEF Course, InstallPlaces
<1>6. EnabledKept(c) => EnabledKept(c)'
  <2>1. CASE DaemonReload(c)
    BY <1>1, <1>2, <1>4, <2>1 DEF DaemonReload, EnabledKept, UnitTyped, Units
  <2>2. CASE EnableNew(c)
    BY <1>4, <2>2 DEF EnableNew, EnabledKept, Course
  <2>3. QED
    BY <2>1, <2>2
<1>7. AccessKept(c) => AccessKept(c)'
  BY <1>1, <1>3 DEF AccessKept
<1>8. Restores(c) => Found(c)' /\ Restores(c)'
  BY <1>1, <1>2, <1>3, <1>4, <1>6, <1>7 DEF Found, Restores
<1>9. QED
  BY <1>5, <1>8 DEF Keeps

\* What systemctl leaves of the unit u.
LEMMA SystemctlUnit ==
  ASSUME NEW u \in Units
  PROVE  /\ SystemctlStop(u) \/ SystemctlRestart(u) \/ SystemctlStart(u) =>
              /\ unit'.file = u.file /\ unit'.loaded = u.loaded /\ unit'.enabled = u.enabled
              /\ unit'.run \in {"up", "stopped"}
         /\ SystemctlStop(u) => unit'.run = "stopped"
         /\ SystemctlRestart(u) \/ SystemctlStart(u) => unit'.run = "up"
BY DEF Units, SystemctlStop, SystemctlRestart, SystemctlStart

LEMMA SystemctlRunUnit ==
  ASSUME NEW u \in Units, NEW wanted \in BOOLEAN, NEW active \in BOOLEAN,
         SystemctlRun(u, wanted, active)
  PROVE  /\ unit'.file = u.file /\ unit'.loaded = u.loaded /\ unit'.enabled = u.enabled
         /\ unit'.run \in {"up", "stopped"} \/ unit' = u
         /\ active = (u.run = "up") => (unit'.run = "up" <=> wanted)
<1>1. CASE wanted
  BY <1>1, SystemctlUnit DEF SystemctlRun
<1>2. CASE ~wanted /\ active
  BY <1>2, SystemctlUnit DEF SystemctlRun
<1>3. CASE ~wanted /\ ~active
  BY <1>3 DEF SystemctlRun
<1>4. QED
  BY <1>1, <1>2, <1>3

LEMMA RunNewKeeps ==
  ASSUME TypeOK, Installing, NEW c \in Clients, Course(c), RunNew(c)
  PROVE  Keeps(c)
<1>1. client[c].pc = "run" /\ UNCHANGED access /\ "run" \in InstallPlaces
  BY DEF RunNew, InstallPlaces
<1>2. /\ ClientTyped /\ UnitTyped /\ SavedTyped
      /\ client[c].op \in Installs /\ saved[c] # None /\ saved[c] \in Saves
  BY <1>1, InstallFacts
<1>3. CASE Go(c, "undo apply") /\ UNCHANGED <<proc, unit, saved>>
  <2>1. client'[c].op = client[c].op /\ client'[c].pc = "undo apply"
    BY <1>2, <1>3, WentTo
  <2>2. Course(c)'
    BY <1>2, <2>1 DEF Course, InstallPlaces
  <2>3. /\ Created(c)' <=> Created(c)
        /\ EnabledKept(c) => EnabledKept(c)'
        /\ AccessKept(c) => AccessKept(c)'
    BY <1>1, <1>3, <2>1 DEF Created, EnabledKept, AccessKept
  <2>4. Restores(c) => Found(c)' /\ Restores(c)'
    BY <1>1, <1>2, <1>3, <2>1, <2>3 DEF Found, Restores
  <2>5. QED
    BY <2>2, <2>4 DEF Keeps
<1>4. CASE /\ SystemctlRun(unit, TRUE, ~Created(c) /\ saved[c].again)
           /\ saved' = [saved EXCEPT ![c].applied = TRUE]
           /\ Go(c, "answer")
  <2>1. client'[c].op = client[c].op /\ client'[c].pc = "answer"
    BY <1>2, <1>4, WentTo
  <2>2. Course(c)'
    BY <1>2, <2>1 DEF Course, InstallPlaces
  <2>3. /\ saved'[c].file = saved[c].file /\ saved'[c].enabled = saved[c].enabled
        /\ saved'[c].active = saved[c].active /\ saved'[c].access = saved[c].access
        /\ saved'[c].applied /\ saved'[c].warn = saved[c].warn
    BY <1>2, <1>4 DEF SavedTyped, Saves
  <2>4. unit'.enabled = unit.enabled
    <3>1. saved[c].again \in BOOLEAN /\ Created(c) \in BOOLEAN /\ unit \in Units
      BY <1>2 DEF Saves, Created, UnitTyped
    <3>2. (~Created(c) /\ saved[c].again) \in BOOLEAN
      OBVIOUS
    <3>3. QED
      BY <1>4, <3>1, <3>2, SystemctlRunUnit
  <2>5. /\ Created(c)' <=> Created(c)
        /\ EnabledKept(c) => EnabledKept(c)'
        /\ AccessKept(c) => AccessKept(c)'
    BY <1>1, <2>1, <2>3, <2>4 DEF Created, EnabledKept, AccessKept
  <2>6. Restores(c) => Found(c)' /\ Restores(c)'
    BY <1>1, <1>2, <2>1, <2>3, <2>5 DEF Found, Restores
  <2>7. QED
    BY <2>2, <2>6 DEF Keeps
<1>5. CASE saved' = [saved EXCEPT ![c].unseen = TRUE] /\ ApplyFails(c)
  <2>1. /\ client'[c].op = client[c].op
        /\ client'[c].pc = IF client[c].op = "install" THEN "undo access" ELSE "done"
    BY <1>2, <1>5, WentTo DEF ApplyFails
  <2>2. Course(c)'
    BY <1>2, <2>1 DEF Course, Installs, InstallPlaces
  <2>3. /\ saved'[c].file = saved[c].file /\ saved'[c].enabled = saved[c].enabled
        /\ saved'[c].active = saved[c].active /\ saved'[c].access = saved[c].access
        /\ saved'[c].applied = saved[c].applied /\ saved'[c].warn = saved[c].warn
        /\ saved'[c].unseen
    BY <1>2, <1>5 DEF SavedTyped, Saves
  <2>4. (Created(c)' <=> Created(c)) /\ UnitKept(c)'
    BY <2>3 DEF Created, UnitKept
  <2>5. Restores(c) => Found(c)' /\ Restores(c)'
    BY <1>1, <1>2, <2>1, <2>3, <2>4 DEF Found, Restores, AccessKept, Installs
  <2>6. QED
    BY <2>2, <2>5 DEF Keeps
<1>6. QED
  BY <1>3, <1>4, <1>5 DEF RunNew

\* A step that could not undo what it had to.
LEMMA WarnKeeps ==
  ASSUME SavedTyped, NEW c \in Clients, saved[c] \in Saves,
         saved' = [saved EXCEPT ![c].warn = TRUE], client'[c].op \in Installs,
         client'[c].pc \in {"undo access", "undo unit", "done"},
         client'[c].pc = "undo unit" => ~Created(c)
  PROVE  Keeps(c)
<1>1. saved'[c].warn /\ saved'[c].file = saved[c].file
  BY DEF SavedTyped, Saves
<1>2. Created(c)' <=> Created(c)
  BY <1>1 DEF Created
<1>3. QED
  BY <1>1, <1>2 DEF Keeps, Course, Found, Restores, InstallPlaces

LEMMA UndoApplyKeeps ==
  ASSUME TypeOK, Installing, NEW c \in Clients, Course(c), UndoApply(c)
  PROVE  Keeps(c)
<1>1. client[c].pc = "undo apply" /\ UNCHANGED access /\ "undo apply" \in InstallPlaces
      /\ ApplyFails(c)
  BY DEF UndoApply, InstallPlaces
<1>2. /\ ClientTyped /\ UnitTyped /\ SavedTyped
      /\ client[c].op \in Installs /\ saved[c] # None /\ saved[c] \in Saves
  BY <1>1, InstallFacts
<1>3. /\ client'[c].op = client[c].op
      /\ client'[c].pc = IF client[c].op = "install" THEN "undo access" ELSE "done"
  BY <1>1, <1>2, WentTo DEF ApplyFails
<1>4. CASE saved' = [saved EXCEPT ![c].warn = TRUE]
  BY <1>2, <1>3, <1>4, WarnKeeps
<1>5. CASE saved' # [saved EXCEPT ![c].warn = TRUE]
  <2>1. PICK u \in Units : u = [unit EXCEPT !.file = saved[c].file, !.loaded = saved[c].file,
                                            !.enabled = saved[c].enabled]
    BY <1>2 DEF UnitTyped, Units, Saves, Files
  <2>2. /\ UNCHANGED saved
        /\ IF Created(c) THEN SystemctlStop(Removed)
           ELSE IF saved[c].again THEN SystemctlRestart(u) ELSE SystemctlStop(u)
    BY <1>5, <2>1 DEF UndoApply
  <2>3. Created(c)' <=> Created(c)
    BY <2>2 DEF Created
  <2>4. Course(c)'
    BY <1>2, <1>3, <2>3 DEF Course, InstallPlaces
  <2>5. (Created(c) => ~saved[c].enabled /\ ~saved[c].active) /\ ~saved[c].applied => UnitKept(c)'
    <3>1. CASE Created(c)
      <4>1. Removed \in Units /\ Removed.file = None /\ Removed.loaded = None
            /\ Removed.enabled = FALSE
        BY <1>2 DEF Removed, UnitTyped, Units, Files
      <4>2. /\ unit'.file = None /\ unit'.loaded = None /\ unit'.enabled = FALSE
            /\ unit'.run = "stopped"
        BY <2>2, <3>1, <4>1, SystemctlUnit
      <4>3. saved[c].file = None /\ saved[c].enabled \in BOOLEAN /\ saved[c].active \in BOOLEAN
        BY <1>2, <3>1 DEF Created, Saves
      <4>4. QED
        BY <2>2, <3>1, <4>2, <4>3 DEF UnitKept, Back, Active
    <3>2. CASE ~Created(c)
      <4>1. /\ u.file = saved[c].file /\ u.loaded = saved[c].file /\ u.enabled = saved[c].enabled
            /\ saved[c].again \in BOOLEAN
        BY <1>2, <2>1 DEF UnitTyped, Units, Saves
      <4>2. /\ unit'.file = u.file /\ unit'.loaded = u.loaded /\ unit'.enabled = u.enabled
            /\ unit'.run = "up" <=> saved[c].again
        BY <2>2, <3>2, <4>1, SystemctlUnit
      <4>3. QED
        BY <1>2, <2>2, <4>1, <4>2 DEF UnitKept, Back, Active, Saves
    <3>3. QED
      BY <3>1, <3>2
  <2>6. Restores(c) => Found(c)' /\ Restores(c)'
    <3> SUFFICES ASSUME Restores(c), ~saved[c].warn PROVE Restores(c)'
      BY <1>3, <2>2 DEF Found, Restores
    <3>1. ~saved[c].applied /\ AccessKept(c)
      BY <1>1, <1>2 DEF Restores
    <3>2. Created(c) => ~saved[c].enabled /\ ~saved[c].active
      BY <1>2 DEF Restores
    <3>3. client[c].op # "install" => access = saved[c].access
      BY <1>2, <3>1 DEF AccessKept, Installs
    <3>4. QED
      BY <1>1, <1>3, <2>2, <2>3, <2>5, <3>1, <3>2, <3>3 DEF Restores
  <2>7. QED
    BY <2>4, <2>6 DEF Keeps
<1>6. QED
  BY <1>4, <1>5

LEMMA AnswersKeeps ==
  ASSUME TypeOK, Installing, NEW c \in Clients, Course(c), Answers(c)
  PROVE  Keeps(c)
<1>1. client[c].pc = "answer" /\ UNCHANGED <<proc, unit, access, saved>> /\ "answer" \in InstallPlaces
  BY DEF Answers, InstallPlaces
<1>2. ClientTyped /\ client[c].op \in Installs /\ saved[c] # None
  BY <1>1, InstallFacts
<1>3. /\ client'[c].op = client[c].op
      /\ \/ client'[c].pc = "done" /\ client'[c].ok = TRUE
         \/ client'[c].pc = "undo service"
  BY <1>2, WentTo DEF Answers
<1>4. Course(c)'
  BY <1>2, <1>3 DEF Course, InstallPlaces
<1>5. /\ Created(c)' <=> Created(c)
      /\ EnabledKept(c) => EnabledKept(c)'
      /\ AccessKept(c) => AccessKept(c)'
  BY <1>1, <1>3 DEF Created, EnabledKept, AccessKept
<1>6. Restores(c) => Found(c)' /\ Restores(c)'
  BY <1>1, <1>2, <1>3, <1>5 DEF Found, Restores
<1>7. QED
  BY <1>4, <1>6 DEF Keeps

LEMMA UndoServiceKeeps ==
  ASSUME TypeOK, Installing, NEW c \in Clients, Course(c), UndoService(c)
  PROVE  Keeps(c)
<1> DEFINE next == IF client[c].op = "install" THEN "undo access"
                   ELSE IF Created(c) THEN "done" ELSE "undo unit"
<1>1. client[c].pc = "undo service" /\ UNCHANGED access /\ "undo service" \in InstallPlaces
  BY DEF UndoService, InstallPlaces
<1>2. /\ ClientTyped /\ UnitTyped /\ SavedTyped
      /\ client[c].op \in Installs /\ saved[c] # None /\ saved[c] \in Saves
  BY <1>1, InstallFacts
<1>3. Go(c, next)
  BY DEF UndoService, UndoFails, Go
<1>4. client'[c].op = client[c].op /\ client'[c].pc = next
  BY <1>2, <1>3, WentTo
<1>5. CASE saved' = [saved EXCEPT ![c].warn = TRUE]
  <2>1. /\ next \in {"undo access", "undo unit", "done"}
        /\ next = "undo unit" => ~Created(c)
    BY DEF Created
  <2>2. QED
    BY <1>2, <1>4, <1>5, <2>1, WarnKeeps
<1>6. CASE saved' # [saved EXCEPT ![c].warn = TRUE]
  <2>1. UNCHANGED saved /\ SystemctlStop(IF Created(c) THEN Removed ELSE unit)
    BY <1>6 DEF UndoService, UndoFails
  <2>2. Created(c)' <=> Created(c)
    BY <2>1 DEF Created
  <2>3. Course(c)'
    BY <1>2, <1>4, <2>2 DEF Course, InstallPlaces, Created
  <2>4. /\ AccessKept(c) => AccessKept(c)'
        /\ client[c].op # "install" /\ AccessKept(c) => access' = saved'[c].access
    BY <1>1, <1>2, <1>4, <2>1 DEF AccessKept, Installs
  <2>5. CASE Created(c)
    <3>1. Removed \in Units /\ Removed.file = None /\ Removed.loaded = None
          /\ Removed.enabled = FALSE
      BY <1>2 DEF Removed, UnitTyped, Units, Files
    <3>2. SystemctlStop(Removed)
      BY <2>1, <2>5
    <3>3. /\ unit'.file = None /\ unit'.loaded = None /\ unit'.enabled = FALSE
          /\ unit'.run = "stopped"
      BY <3>1, <3>2, SystemctlUnit
    <3>4. saved[c].file = None /\ saved[c].enabled \in BOOLEAN /\ saved[c].active \in BOOLEAN
      BY <1>2, <2>5 DEF Created, Saves
    <3>5. ~saved[c].enabled /\ ~saved[c].active => UnitKept(c)'
      BY <2>1, <3>3, <3>4, ServiceAssumption DEF UnitKept, Back, Rendered, ManagedFiles, Active
    <3>6. client'[c].pc \in {"undo access", "done"} /\ (client'[c].pc = "done" => client[c].op # "install")
      BY <1>4, <2>5
    <3>7. Restores(c) => Found(c)' /\ Restores(c)'
      BY <1>1, <1>2, <1>4, <2>1, <2>2, <2>4, <2>5, <3>5, <3>6 DEF Found, Restores
    <3>8. QED
      BY <2>3, <3>7 DEF Keeps
  <2>6. CASE ~Created(c)
    <3>1. SystemctlStop(unit) /\ unit \in Units
      BY <1>2, <2>1, <2>6 DEF UnitTyped
    <3>2. unit'.enabled = unit.enabled
      BY <3>1, SystemctlUnit
    <3>3. EnabledKept(c) => EnabledKept(c)'
      BY <2>1, <2>2, <3>2 DEF EnabledKept
    <3>4. /\ client'[c].pc \in {"undo access", "undo unit"}
          /\ client'[c].pc = "undo unit" => client[c].op # "install"
      BY <1>4, <2>6
    <3>5. Restores(c) => Found(c)' /\ Restores(c)'
      BY <1>1, <1>2, <1>4, <2>1, <2>2, <2>4, <2>6, <3>3, <3>4 DEF Found, Restores
    <3>6. QED
      BY <2>3, <3>5 DEF Keeps
  <2>7. QED
    BY <2>5, <2>6
<1>7. QED
  BY <1>5, <1>6

LEMMA UndoAccessKeeps ==
  ASSUME TypeOK, Installing, NEW c \in Clients, Course(c), UndoAccess(c)
  PROVE  Keeps(c)
<1> DEFINE next == IF saved[c].applied /\ ~Created(c) THEN "undo unit" ELSE "done"
<1>1. client[c].pc = "undo access" /\ UNCHANGED <<proc, unit>> /\ "undo access" \in InstallPlaces
  BY DEF UndoAccess, InstallPlaces
<1>2. /\ ClientTyped /\ UnitTyped /\ SavedTyped
      /\ client[c].op \in Installs /\ saved[c] # None /\ saved[c] \in Saves
  BY <1>1, InstallFacts
<1>3. Go(c, next)
  BY DEF UndoAccess, UndoFails, Go
<1>4. client'[c].op = client[c].op /\ client'[c].pc = next
  BY <1>2, <1>3, WentTo
<1>5. next \in {"undo unit", "done"} /\ (next = "undo unit" => saved[c].applied /\ ~Created(c))
      /\ (next = "done" => ~(saved[c].applied /\ ~Created(c)))
  BY DEF Created
<1>6. CASE saved' = [saved EXCEPT ![c].warn = TRUE]
  BY <1>2, <1>4, <1>5, <1>6, WarnKeeps
<1>7. CASE saved' # [saved EXCEPT ![c].warn = TRUE]
  <2>1. UNCHANGED saved /\ access' = saved[c].access
    BY <1>7 DEF UndoAccess, UndoFails
  <2>2. Created(c)' <=> Created(c)
    BY <2>1 DEF Created
  <2>3. Course(c)'
    BY <1>2, <1>4, <1>5, <2>2 DEF Course, InstallPlaces
  <2>4. /\ EnabledKept(c) => EnabledKept(c)'
        /\ UnitKept(c) => UnitKept(c)'
    BY <1>1, <2>1, <2>2 DEF EnabledKept, UnitKept, Back, Active
  <2>5. Restores(c) => Found(c)' /\ Restores(c)'
    BY <1>1, <1>2, <1>4, <1>5, <2>1, <2>2, <2>4 DEF Found, Restores
  <2>6. QED
    BY <2>3, <2>5 DEF Keeps
<1>8. QED
  BY <1>6, <1>7

LEMMA UndoUnitKeeps ==
  ASSUME TypeOK, Installing, NEW c \in Clients, Course(c), UndoUnit(c)
  PROVE  Keeps(c)
<1>1. client[c].pc = "undo unit" /\ UNCHANGED access /\ "undo unit" \in InstallPlaces
  BY DEF UndoUnit, InstallPlaces
<1>2. /\ ClientTyped /\ UnitTyped /\ SavedTyped
      /\ client[c].op \in Installs /\ saved[c] # None /\ saved[c] \in Saves
  BY <1>1, InstallFacts
<1>3. client'[c].op = client[c].op /\ client'[c].pc = "done"
  <2>1. Go(c, "done") \/ Return(c, FALSE)
    BY DEF UndoUnit, UndoFails, Go
  <2>2. QED
    BY <1>2, <2>1, WentTo
<1>4. CASE saved' = [saved EXCEPT ![c].warn = TRUE]
  BY <1>2, <1>3, <1>4, WarnKeeps
<1>5. CASE saved' # [saved EXCEPT ![c].warn = TRUE]
  <2>0. unit \in Units /\ saved[c].file \in Files /\ Restored(c) \in Units
    BY <1>2, RestoredUnit DEF UnitTyped, Saves, Files
  <2>1. PICK u \in Units : u = [Restored(c) EXCEPT !.enabled = unit.enabled /\ saved[c].enabled]
    BY <1>2, <2>0 DEF UnitTyped, Units, Saves
  <2>2. UNCHANGED saved /\ SystemctlRun(u, saved[c].active, Active)
    BY <1>5, <2>1 DEF UndoUnit, UndoFails
  <2>3. /\ u.file = Rendered(saved[c].file) /\ u.loaded = Rendered(saved[c].file) /\ u.run = unit.run
        /\ u.enabled = (unit.enabled /\ saved[c].enabled)
        /\ unit.enabled \in BOOLEAN /\ saved[c].enabled \in BOOLEAN /\ saved[c].active \in BOOLEAN
    BY <1>2, <2>0, <2>1 DEF Restored, UnitTyped, Units, Saves
  <2>4. Active \in BOOLEAN /\ Active = (u.run = "up")
    BY <2>3 DEF Active
  <2>5. /\ unit'.file = u.file /\ unit'.loaded = u.loaded /\ unit'.enabled = u.enabled
        /\ unit'.run = "up" <=> saved[c].active
    BY <2>2, <2>3, <2>4, SystemctlRunUnit
  <2>6. unit.enabled = saved[c].enabled /\ saved[c].applied => UnitKept(c)'
    BY <2>2, <2>3, <2>5 DEF UnitKept, Back, Active
  <2>7. Created(c)' <=> Created(c)
    BY <2>2 DEF Created
  <2>8. Course(c)'
    BY <1>2, <1>3, <2>7 DEF Course, InstallPlaces
  <2>9. Restores(c) => Found(c)' /\ Restores(c)'
    <3> SUFFICES ASSUME Restores(c), ~saved[c].warn PROVE Found(c)' /\ Restores(c)'
      BY <1>3, <2>2 DEF Found, Restores
    <3>1. EnabledKept(c) /\ access = saved[c].access /\ saved[c].applied
      BY <1>1, <1>2 DEF Restores
    <3>2. UnitKept(c)'
      BY <1>1, <2>6, <3>1 DEF EnabledKept, Course
    <3>3. QED
      BY <1>1, <1>2, <1>3, <2>2, <2>7, <3>1, <3>2 DEF Found, Restores
  <2>10. QED
    BY <2>8, <2>9 DEF Keeps
<1>6. QED
  BY <1>4, <1>5

LEMMA InstallStepKeeps ==
  ASSUME TypeOK, Installing, NEW c \in Clients, Course(c), InstallStep(c)
  PROVE  Keeps(c)
BY InstallInspectKeeps, SetupGatewayRemoteKeeps, ApplyGatewayServiceKeeps, DaemonReloadKeeps,
   RunNewKeeps, UndoApplyKeeps, AnswersKeeps, UndoServiceKeeps, UndoAccessKeeps, UndoUnitKeeps
   DEF InstallStep

LEMMA RetryStays ==
  ASSUME TypeOK, Installing, RetryStirred, [Next]_vars
  PROVE  RetryStirred'
<1>1. ProcTyped /\ ClientTyped /\ UnitTyped /\ SavedTyped /\ unit \in Units
  BY Types DEF UnitTyped
<1>2. CASE Stirs
  BY <1>2 DEF Stirs, RetryStirred
<1>3. CASE UNCHANGED unit
  BY <1>3 DEF RetryStirred
<1>4. CASE unit'.run \in {"up", "stopped"}
  BY <1>4 DEF RetryStirred
<1>5. CASE unit'.run = unit.run /\ unit'.stirred = unit.stirred
  BY <1>5 DEF RetryStirred
<1>6. CASE UNCHANGED vars \/ Retry
  BY <1>1, <1>3, <1>4, <1>6 DEF vars, Retry, Units
<1>7. CASE ProcessStep \/ \E c \in Clients : ClientStep(c)
  BY <1>1, <1>2, <1>7, ProcessStepGoesOn, ClientStepMoves
<1>8. ASSUME NEW c \in Clients, NEW op, Begin(c, op) PROVE RetryStirred'
  BY <1>3, <1>8 DEF Begin
<1>9. ASSUME NEW c \in Clients, ServiceCommand(c) \/ ChangeAccess(c) PROVE RetryStirred'
  <2>1. [unit EXCEPT !.file = None, !.loaded = None, !.enabled = FALSE] \in Units
    BY <1>1 DEF Units, Files
  <2>2. CASE \E u \in Units : SystemctlStart(u) \/ SystemctlRestart(u) \/ SystemctlStop(u)
    BY <1>4, <2>2, SystemctlUnit
  <2>3. CASE \E on \in BOOLEAN : unit' = [unit EXCEPT !.enabled = on]
    BY <1>1, <1>5, <2>3 DEF Units
  <2>4. QED
    BY <1>1, <1>3, <1>9, <2>1, <2>2, <2>3 DEF ServiceCommand, ChangeAccess
<1>10. ASSUME NEW c \in Clients,
              InstallInspect(c) \/ SetupGatewayRemote(c) \/ Answers(c) \/ UndoAccess(c)
       PROVE  RetryStirred'
  BY <1>3, <1>10 DEF InstallInspect, SetupGatewayRemote, Answers, UndoAccess
<1>11. ASSUME NEW c \in Clients, ApplyGatewayService(c) \/ DaemonReload(c) \/ EnableNew(c)
       PROVE  RetryStirred'
  <2>1. unit'.run = unit.run /\ unit'.stirred = unit.stirred
    BY <1>1, <1>11 DEF ApplyGatewayService, DaemonReload, EnableNew, Units
  <2>2. QED
    BY <1>5, <2>1
<1>12. ASSUME NEW c \in Clients, RunNew(c) \/ UndoApply(c) \/ UndoService(c) \/ UndoUnit(c)
       PROVE  RetryStirred'
  <2>1. client[c].pc \in InstallPlaces
    BY <1>12 DEF RunNew, UndoApply, UndoService, UndoUnit, InstallPlaces
  <2>2. saved[c] \in Saves
    BY <2>1, InstallFacts
  <2>3. Created(c) \in BOOLEAN /\ Active \in BOOLEAN /\ saved[c].again \in BOOLEAN
        /\ saved[c].active \in BOOLEAN /\ saved[c].enabled \in BOOLEAN
        /\ saved[c].file \in Files /\ Removed \in Units
    BY <1>1, <2>2 DEF Created, Active, Saves, Removed, Units, Files
  <2>4. CASE \E u \in Units : SystemctlStart(u) \/ SystemctlRestart(u) \/ SystemctlStop(u)
    BY <1>4, <2>4, SystemctlUnit
  <2>5. CASE RunNew(c)
    BY <1>1, <1>3, <2>4, <2>5 DEF RunNew, SystemctlRun
  <2>6. CASE UndoApply(c)
    <3>1. PICK old \in Units : old = [unit EXCEPT !.file = saved[c].file, !.loaded = saved[c].file]
      BY <1>1, <2>3 DEF Units
    <3>2. PICK u \in Units : u = [old EXCEPT !.enabled = saved[c].enabled]
      BY <2>3 DEF Units
    <3>3. \/ SystemctlStop(Removed) \/ SystemctlRestart(u) \/ SystemctlStop(u)
          \/ unit' \in {unit, [unit EXCEPT !.file = saved[c].file], old}
      BY <2>6, <3>1, <3>2 DEF UndoApply
    <3>4. old.run = unit.run /\ old.stirred = unit.stirred
      BY <1>1, <3>1 DEF Units
    <3>5. [unit EXCEPT !.file = saved[c].file].run = unit.run
          /\ [unit EXCEPT !.file = saved[c].file].stirred = unit.stirred
      BY <1>1 DEF Units
    <3>6. QED
      BY <1>3, <1>5, <2>3, <2>4, <3>3, <3>4, <3>5
  <2>7. CASE UndoService(c)
    <3>1. SystemctlStop(Removed) \/ SystemctlStop(unit) \/ UNCHANGED unit
      BY <2>7 DEF UndoService
    <3>2. QED
      BY <1>1, <1>3, <2>3, <2>4, <3>1
  <2>8. CASE UndoUnit(c)
    <3>1. Restored(c) \in Units /\ Restored(c).run = unit.run /\ Restored(c).stirred = unit.stirred
      BY <1>1, <2>3, RestoredUnit
    <3>2. PICK u \in Units : u = [Restored(c) EXCEPT !.enabled = unit.enabled /\ saved[c].enabled]
      BY <1>1, <2>3, <3>1 DEF Units
    <3>3. \/ SystemctlRun(u, saved[c].active, Active) \/ SystemctlRun(Restored(c), saved[c].active, Active)
          \/ SystemctlRestart(unit) \/ SystemctlStop(unit) \/ UNCHANGED unit
          \/ unit' = [unit EXCEPT !.file = Rendered(saved[c].file)]
      BY <2>8, <3>2, Zenon DEF UndoUnit
    <3>4. u.run = unit.run /\ u.stirred = unit.stirred
      BY <3>1, <3>2 DEF Units
    <3>5. ASSUME NEW v \in Units, v.run = unit.run, v.stirred = unit.stirred,
                 SystemctlRun(v, saved[c].active, Active)
          PROVE  RetryStirred'
      <4>1. unit'.run \in {"up", "stopped"} \/ unit' = v
        BY <2>3, <3>5, SystemctlRunUnit
      <4>2. QED
        BY <1>4, <1>5, <3>5, <4>1
    <3>6. CASE unit' = [unit EXCEPT !.file = Rendered(saved[c].file)]
      <4>1. unit'.run = unit.run /\ unit'.stirred = unit.stirred
        BY <1>1, <3>6 DEF Units
      <4>2. QED
        BY <1>5, <4>1
    <3>7. QED
      BY <1>1, <1>3, <2>4, <3>1, <3>3, <3>4, <3>5, <3>6
  <2>9. QED
    BY <1>12, <2>5, <2>6, <2>7, <2>8
<1>13. QED
  BY <1>6, <1>7, <1>8, <1>9, <1>10, <1>11, <1>12 DEF Next, InstallStep

\* A client that installs takes none of the other commands' steps.
LEMMA OtherCommands ==
  ASSUME NEW c \in Clients, Course(c), ClientStep(c)
  PROVE  /\ client[c].op \notin Installs
         /\ client[c] = NoCommand =>
              \E op \in {"start", "stop", "listen", "restart", "update"} : Begin(c, op)
<1>1. CASE \E op \in {"start", "stop", "listen", "restart", "update"} : Begin(c, op)
  <2>1. client[c] = NoCommand
    BY <1>1 DEF Begin
  <2>2. NoCommand.op \notin Installs
    BY DEF NoCommand, Installs
  <2>3. QED
    BY <1>1, <2>1, <2>2
<1>2. CASE ~ \E op \in {"start", "stop", "listen", "restart", "update"} : Begin(c, op)
  <2>1. /\ client[c].pc \notin {"idle", "done"} \cup InstallPlaces
        /\ client[c].pc = "look" => client[c].op \notin Installs
    <3>1. CASE StartInspect(c) \/ ForceStopInspect(c) \/ PrepareInstall(c)
      <4>1. \/ client[c].pc = "stop"
            \/ client[c].pc = "look" /\ client[c].op \in {"start", "stop", "listen", "restart", "update"}
        BY <3>1 DEF StartInspect, ForceStopInspect, PrepareInstall
      <4>2. QED
        BY <4>1 DEF InstallPlaces, Installs
    <3>2. CASE \/ CheckHTTPListenAvailable(c) \/ StartGatewayProcess(c) \/ WaitHTTPReady(c)
               \/ NotReady(c) \/ PostShutdown(c) \/ WaitShutdown(c)
      <4>1. client[c].pc \in {"bind", "spawn", "ready", "post", "wait"}
        BY <3>2 DEF CheckHTTPListenAvailable, StartGatewayProcess, WaitHTTPReady, NotReady,
           PostShutdown, WaitShutdown
      <4>2. QED
        BY <4>1 DEF InstallPlaces
    <3>3. CASE \/ TerminateHTTPProcess(c) \/ DialUntilRefused(c) \/ InspectAgain(c)
               \/ FindListeningProcess(c) \/ WaitForGatewayProcessExit(c)
               \/ EnsureNoOtherDesktopProcesses(c) \/ InstallAndRestart(c)
      <4>1. client[c].pc \in {"kill", "legacy kill", "dial", "legacy dial", "again", "find", "exit",
                             "last look", "launch"}
        BY <3>3 DEF TerminateHTTPProcess, DialUntilRefused, InspectAgain, FindListeningProcess,
           WaitForGatewayProcessExit, EnsureNoOtherDesktopProcesses, InstallAndRestart
      <4>2. QED
        BY <4>1 DEF InstallPlaces
    <3>4. QED
      BY <1>2, <3>1, <3>2, <3>3 DEF ClientStep
  <2>2. NoCommand.pc = "idle"
    BY DEF NoCommand
  <2>3. QED
    BY <2>1, <2>2 DEF Course
<1>3. QED
  BY <1>1, <1>2

\* Who installs or commands the service is known from its first step on.
LEMMA AloneBefore ==
  ASSUME TypeOK, Installing, [Next]_vars, NEW c \in Clients, Alone(c)'
  PROVE  Alone(c)
<1> SUFFICES ASSUME NEW d \in Clients \ {c}, client[d].op \in Installs \cup {"service", "rotate"}
             PROVE  client'[d].op = client[d].op
  BY DEF Alone
<1>1. Steps /\ ClientTyped
  BY EveryStep, Types
<1>2. ASSUME NEW e \in Clients, NEW x, Moves(e, x) PROVE client'[d].op = client[d].op
  <2>1. CASE e # d
    BY <1>1, <1>2, <2>1 DEF Moves, ClientTyped
  <2>2. CASE e = d
    <3>1. client'[d] = x /\ (x.op = client[d].op \/ client[d] = NoCommand)
      BY <1>1, <1>2, <2>2 DEF Moves, ClientTyped
    <3>2. NoCommand.op = "none" /\ "none" \notin Installs \cup {"service", "rotate"}
      BY DEF NoCommand, Installs
    <3>3. QED
      BY <3>1, <3>2
  <2>3. QED
    BY <2>1, <2>2
<1>3. QED
  BY <1>1, <1>2 DEF Steps

LEMMA RestoreStep ==
  ASSUME TypeOK, Installing, RestoreInv, [Next]_vars
  PROVE  RestoreInv'
<1>1. ProcTyped /\ ClientTyped /\ UnitTyped /\ AccessTyped /\ SavedTyped
  BY Types
<1>2. RetryStirred'
  BY RetryStays DEF RestoreInv
<1> SUFFICES ASSUME NEW c \in Clients
             PROVE  /\ Course(c)'
                    /\ Alone(c)' => Found(c)' /\ Restores(c)'
  BY <1>2 DEF RestoreInv
<1> DEFINE Goal == Course(c)' /\ (Alone(c)' => Found(c)' /\ Restores(c)')
<1>3. Course(c) /\ (Alone(c)' => Alone(c) /\ Found(c) /\ Restores(c))
  BY AloneBefore DEF RestoreInv
<1>4. CASE Quiet(c)
  BY <1>1, <1>3, <1>4, QuietKeeps
<1>5. CASE client'[c] = client[c] /\ saved'[c] = saved[c] /\ ~Alone(c)'
  BY <1>3, <1>5 DEF Course, Created
<1>6. CASE UNCHANGED vars
  BY <1>1, <1>4, <1>6, StillStirs DEF vars, Quiet
<1>7. CASE ProcessStep /\ UNCHANGED <<access, saved>>
  <2>1. UNCHANGED client
    BY <1>7 DEF ProcessStep, Bind, ExitGracefully, Crash, ForeignTakesAddress
  <2>2. QED
    BY <1>1, <1>4, <1>7, <2>1, ProcessStepGoesOn DEF Quiet
<1>8. CASE Retry
  <2>1. Stirs
    BY <1>1, <1>8 DEF Retry, Stirs, UnitTyped, Units, RestoreInv, RetryStirred
  <2>2. QED
    BY <1>4, <1>8, <2>1 DEF Retry, Quiet
<1>9. ASSUME NEW d \in Clients, ClientStep(d), UNCHANGED <<access, saved>>
      PROVE  Goal
  <2>1. Stirs /\ \E x : Moves(d, x)
    BY <1>1, <1>9, ClientStepMoves
  <2>2. CASE d # c
    <3>1. client'[c] = client[c]
      BY <1>1, <2>1, <2>2 DEF Moves, ClientTyped
    <3>2. QED
      BY <1>4, <1>9, <2>1, <3>1 DEF Quiet
  <2>3. CASE d = c
    <3>1. /\ client[c].op \notin Installs
          /\ client[c] = NoCommand =>
               \E op \in {"start", "stop", "listen", "restart", "update"} : Begin(c, op)
      BY <1>3, <1>9, <2>3, OtherCommands
    <3>2. PICK x : Moves(c, x) /\ client'[c] = x
      BY <1>1, <2>1, <2>3 DEF Moves, ClientTyped
    <3>3. client'[c].op \notin Installs
      <4>1. CASE client[c] = NoCommand
        BY <1>1, <3>1, <4>1 DEF Begin, ClientTyped, ClientStates, Installs
      <4>2. CASE client[c] # NoCommand
        BY <3>1, <3>2, <4>2 DEF Moves
      <4>3. QED
        BY <4>1, <4>2
    <3>4. client'[c].pc \notin InstallPlaces
      BY <3>1, <3>2 DEF Moves
    <3>5. client'[c].pc \in {"idle", "look"} => client[c].pc = "idle" /\ UNCHANGED unit
      <4>1. ASSUME client'[c].pc \in {"idle", "look"} PROVE client[c] = NoCommand
        BY <3>2, <4>1 DEF Moves
      <4>2. QED
        BY <3>1, <4>1 DEF Begin, NoCommand
    <3>6. Course(c)'
      BY <1>3, <1>9, <3>3, <3>4, <3>5 DEF Course, InstallPlaces
    <3>7. Found(c) => Found(c)'
      BY <3>5 DEF Found
    <3>8. QED
      BY <1>3, <3>3, <3>6, <3>7 DEF Restores
  <2>4. QED
    BY <2>2, <2>3
<1>10. ASSUME NEW d \in Clients, NEW op \in Installs \cup {"service", "rotate"}, Begin(d, op),
              UNCHANGED <<access, saved>>
       PROVE  Goal
  <2>1. CASE d # c
    <3>1. client'[c] = client[c]
      BY <1>1, <1>10, <2>1 DEF Begin, ClientTyped
    <3>2. QED
      BY <1>1, <1>4, <1>10, <3>1, StillStirs DEF Begin, Quiet
  <2>2. CASE d = c
    <3>1. client[c].pc = "idle" /\ client'[c].pc = "look" /\ UNCHANGED unit
      BY <1>1, <1>10, <2>2 DEF Begin, NoCommand, ClientTyped, ClientStates
    <3>2. saved'[c] = None
      BY <1>3, <1>10, <3>1 DEF Course
    <3>3. Course(c)' /\ (Found(c) => Found(c)') /\ Restores(c)'
      BY <3>1, <3>2 DEF Course, Found, Restores
    <3>4. QED
      BY <1>3, <3>3
  <2>3. QED
    BY <2>1, <2>2
<1>11. ASSUME NEW d \in Clients, ServiceCommand(d) \/ ChangeAccess(d) \/ InstallStep(d)
       PROVE  Goal
  <2>1. ServiceMoves(d)
    BY <1>11, InstallStepMoves
  <2>2. client[d].op \in Installs \cup {"service", "rotate"}
    <3>1. CASE ServiceCommand(d) \/ ChangeAccess(d)
      BY <3>1 DEF ServiceCommand, ChangeAccess
    <3>2. CASE InstallStep(d)
      <4>1. client[d].op \in Installs \/ client[d].pc \in InstallPlaces
        BY <3>2 DEF InstallStep, InstallInspect, SetupGatewayRemote, ApplyGatewayService,
           DaemonReload, EnableNew, RunNew, UndoApply, Answers, UndoService, UndoAccess, UndoUnit,
           InstallPlaces
      <4>2. QED
        BY <4>1 DEF Installing
    <3>3. QED
      BY <1>11, <3>1, <3>2
  <2>3. CASE d # c
    <3>1. client'[c] = client[c] /\ saved'[c] = saved[c]
      BY <1>1, <2>1, <2>3 DEF ServiceMoves, Moves, ClientTyped
    <3>2. ~Alone(c)
      BY <2>2, <2>3 DEF Alone
    <3>3. QED
      BY <1>3, <1>5, <3>1, <3>2
  <2>4. CASE d = c /\ InstallStep(c)
    BY <1>3, <2>4, InstallStepKeeps DEF Keeps
  <2>5. CASE d = c /\ (ServiceCommand(c) \/ ChangeAccess(c))
    <3>1. client[c].op \in {"service", "rotate"} /\ (Return(c, TRUE) \/ Return(c, FALSE))
      BY <2>5 DEF ServiceCommand, ChangeAccess
    <3>2. client'[c].pc = "done" /\ client'[c].op \notin Installs
      BY <1>1, <3>1, WentTo DEF Installs
    <3>3. QED
      BY <3>2 DEF Course, Found, Restores
  <2>6. QED
    BY <1>11, <2>3, <2>4, <2>5
<1>12. QED
  BY <1>6, <1>7, <1>8, <1>9, <1>10, <1>11 DEF Next

(* A failed installation puts the access settings back, and the unit file,  *)
(* and whether the service is enabled and runs, if the steps that undo did  *)
(* not fail and nobody interfered - except that the file is rendered again  *)
(* when the new service had been started, and that the new service stays    *)
(* when only the look at it, once it was started, failed.                   *)
THEOREM InstallRestores == Spec => []FailedInstallRestores
<1>1. TypeOK /\ Installing /\ RestoreInv /\ [Next]_vars => TypeOK' /\ Installing' /\ RestoreInv'
  BY TypeStep, RestoreStep
<1>2. TypeOK /\ RestoreInv => FailedInstallRestores
  BY RestoreImplies
<1>3. QED
  BY TypeInit, RestoreInit, <1>1, <1>2, PTL DEF Spec
================================================================================
