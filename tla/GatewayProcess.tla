---------------------------- MODULE GatewayProcess ----------------------------
(***************************************************************************)
(* The processes that may serve one listen address, and the clients (CLI   *)
(* and desktop) that start and stop them: gateway/lifecycle.go, RunHTTP,   *)
(* cli.go, desktop/connection.go and the desktop's preparation of an       *)
(* update.  A client only knows what an earlier look at /healthz told it.  *)
(* BOUND: a client runs one command; a PID names one process.              *)
(***************************************************************************)
EXTENDS Naturals, FiniteSets

CONSTANTS
    Clients,  \* CLI and desktop processes
    Procs,    \* PIDs, 1..n; BOUND: no more processes ever run
    None

ASSUME ProcessAssumption ==
    /\ IsFiniteSet(Procs) /\ Procs \subseteq Nat \ {0} /\ \A p \in Procs : 1..p \subseteq Procs
    /\ None \notin Procs

(* current: this version.  outdated: another management API.  legacy:      *)
(* recognized, but reports no owner id.  ancient: an ADM executable whose  *)
(* health is not recognized.  foreign: another program.                    *)
Kinds == {"current", "outdated", "legacy", "ancient", "foreign"}
Owned == {"current", "outdated"}

VARIABLES
    proc,    \* PID -> what it is and how far; "main": systemd's main process
    client,  \* what each client runs and knows
    unit     \* the systemd service: see GatewayService

Unborn == [kind |-> "foreign", phase |-> "unborn", exe |-> "adm", main |-> FALSE]
NoCommand == [op |-> "none", pc |-> "idle", saw |-> None, child |-> None,
              ok |-> FALSE, after |-> 0]

Alive(p) == proc[p].phase \in {"starting", "serving", "closing"}
Listeners == {p \in Procs : proc[p].phase = "serving"}
Fresh == {p \in Procs : proc[p].phase = "unborn"
                         /\ \A q \in Procs : proc[q].phase = "unborn" => p <= q}

Go(c, pc) == client' = [client EXCEPT ![c].pc = pc]
Learn(c, pc, p) == client' = [client EXCEPT ![c].pc = pc, ![c].saw = p]
Return(c, ok) ==
    client' = [client EXCEPT ![c] = [NoCommand EXCEPT !.op = client[c].op, !.pc = "done", !.ok = ok]]

Runs(p) == [kind |-> "current", phase |-> "starting", exe |-> p, main |-> FALSE]
Phase(p, phase) == [proc EXCEPT ![p].phase = phase]

\* What systemd makes of the end of p: it starts a failed service again.
MainEnds(p, run) ==
    unit' = IF proc[p].main /\ unit.run = "up"
              THEN [unit EXCEPT !.run = run, !.stirred = TRUE] ELSE unit

Dies(p) == proc' = Phase(p, "dead") /\ MainEnds(p, "retry")

-----------------------------------------------------------------------------
(* The processes. *)

\* ListenAndServe: the second one to bind the address fails.
Bind(p) ==
    /\ proc[p].phase = "starting"
    /\ IF Listeners = {} THEN proc' = Phase(p, "serving") /\ UNCHANGED unit ELSE Dies(p)
    /\ UNCHANGED client

\* RunHTTP returns: the deferred owner.Close has ended, long after the
\* address was given up.
ExitGracefully(p) ==
    /\ proc[p].phase = "closing"
    /\ proc' = Phase(p, "dead")
    /\ MainEnds(p, "stopped")
    /\ UNCHANGED client

Crash(p) == proc[p].phase \in {"starting", "serving"} /\ Dies(p) /\ UNCHANGED client

\* Another program takes the free address.
ForeignTakesAddress ==
    /\ Listeners = {}
    /\ \E p \in Fresh : proc' = [proc EXCEPT ![p] = [Unborn EXCEPT !.phase = "serving"]]
    /\ UNCHANGED <<client, unit>>

-----------------------------------------------------------------------------
(* Looking. *)

\* Nothing listens, or what does did not answer in 1.2 s: a timeout counts
\* as a refused connection.
InspectHTTPBaseURL == IF Listeners = {} THEN {None} ELSE Listeners \cup {None}

State(p) == IF p = None THEN "stopped"
            ELSE IF proc[p].kind = "current" THEN "running" ELSE "incompatible"

RecognizedADMGateway(p) == proc[p].kind \in {"current", "outdated", "legacy"}

\* A mutation: any owner id is accepted.
AcceptsAnyShutdown(q, saw) == proc[q].kind \in Owned

\* The /shutdown handler compares the owner id, which is unique to a
\* process.  A key that does not fit, or a lost answer, is a failure too.
AcceptsShutdown(q, saw) == proc[q].kind \in Owned /\ q = saw

-----------------------------------------------------------------------------
(* Starting: StartLocalADM, StartGateway, startDetachedHTTPGateway. *)
StartInspect(c) ==
    /\ client[c].op = "start" /\ client[c].pc = "look"
    /\ \E p \in InspectHTTPBaseURL :
         IF State(p) = "stopped" THEN Go(c, "bind") ELSE Return(c, State(p) = "running")
    /\ UNCHANGED <<proc, unit>>

\* Binds the address and closes it again.
CheckHTTPListenAvailable(c) ==
    /\ client[c].pc = "bind"
    /\ IF Listeners = {} THEN Go(c, "spawn") ELSE Return(c, FALSE)
    /\ UNCHANGED <<proc, unit>>

\* A detached child, or (restart) the client itself.
StartGatewayProcess(c) ==
    /\ client[c].pc = "spawn"
    /\ \E p \in Fresh, exe \in {"adm", "desktop"} :
         /\ client[c].op = "restart" => exe = "adm"
         /\ proc' = [proc EXCEPT ![p] = Runs(exe)]
         /\ client' = [client EXCEPT ![c].pc = "ready", ![c].child = p]
    /\ UNCHANGED unit

\* The Gateway that answers need not be the child.
WaitHTTPReady(c) ==
    /\ client[c].pc = "ready"
    /\ \E p \in InspectHTTPBaseURL :
         /\ State(p) = "running"
         /\ Return(c, client[c].op = "restart" => Alive(client[c].child))
    /\ UNCHANGED <<proc, unit>>

\* A Gateway of another kind answers, or none in five seconds: a detached
\* child is killed, a restarting client shuts itself down.
NotReady(c) ==
    /\ client[c].pc = "ready"
    /\ Return(c, FALSE)
    /\ IF Alive(client[c].child)
         THEN proc' = Phase(client[c].child, IF client[c].op = "restart" THEN "closing" ELSE "dead")
         ELSE UNCHANGED proc
    /\ UNCHANGED unit

-----------------------------------------------------------------------------
(* Stopping: "stop" names a base URL, "listen" and "restart" a local address. *)
StopSucceeds(c) ==
    CASE client[c].op = "restart" -> Go(c, "spawn")
      [] client[c].op = "update" -> Go(c, "exit")
      [] OTHER -> Return(c, TRUE)

StopFails(c) ==
    IF client[c].op \in {"listen", "restart"} THEN Go(c, "find") ELSE Return(c, FALSE)

ForceStopInspect(c) ==
    /\ client[c].pc = "stop" \/ (client[c].pc = "look" /\ client[c].op \in {"stop", "listen", "restart"})
    /\ \E p \in InspectHTTPBaseURL :
         CASE p = None -> StopSucceeds(c)
           [] p # None /\ ~RecognizedADMGateway(p) -> StopFails(c)
           [] p # None /\ RecognizedADMGateway(p) /\ proc[p].kind \in Owned -> Learn(c, "post", p)
           [] OTHER -> Learn(c, "kill", p)
    /\ UNCHANGED <<proc, unit>>

PostShutdown(c) ==
    /\ client[c].pc = "post"
    /\ \/ \E q \in Listeners :
            /\ AcceptsShutdown(q, client[c].saw)
            /\ proc' = Phase(q, "closing")
            /\ Go(c, "wait") \/ StopFails(c)
       \/ StopFails(c) /\ UNCHANGED proc
    /\ UNCHANGED unit

\* Another owner at the address ends the wait, and so does its length.
WaitShutdown(c) ==
    /\ client[c].pc = "wait"
    /\ \/ \E p \in InspectHTTPBaseURL :
            CASE p = None -> Go(c, "again")
              [] p # None /\ p # client[c].saw /\ proc[p].kind # "legacy" -> StopFails(c)
              [] OTHER -> FALSE
       \/ StopFails(c)
    /\ UNCHANGED <<proc, unit>>

TerminateHTTPProcess(c) ==
    /\ client[c].pc \in {"kill", "legacy kill"}
    /\ IF Alive(client[c].saw)
         THEN Dies(client[c].saw) /\ Go(c, IF client[c].pc = "kill" THEN "dial" ELSE "legacy dial")
         ELSE /\ IF client[c].pc = "kill" THEN StopFails(c) ELSE Return(c, FALSE)
              /\ UNCHANGED <<proc, unit>>

\* Nothing accepts a connection any more, or something does for three seconds.
DialUntilRefused(c) ==
    /\ client[c].pc \in {"dial", "legacy dial"}
    /\ CASE Listeners = {} /\ client[c].pc = "dial" -> Go(c, "again")
         [] Listeners = {} /\ client[c].pc # "dial" -> StopSucceeds(c)
         [] OTHER -> IF client[c].pc = "dial" THEN StopFails(c) ELSE Return(c, FALSE)
    /\ UNCHANGED <<proc, unit>>

\* The state a stop reports; the desktop does not look at it.
InspectAgain(c) ==
    /\ client[c].pc = "again"
    /\ \E p \in InspectHTTPBaseURL :
         IF p = None \/ client[c].op = "update" THEN StopSucceeds(c) ELSE Return(c, FALSE)
    /\ UNCHANGED <<proc, unit>>

\* findListeningProcess: whoever listens is killed if its executable is ADM's.
\* Every failed stop of a local address comes here, not only a legacy one's.
MatchesADMExecutable(p) == proc[p].kind # "foreign"

FindListeningProcess(c) ==
    /\ client[c].pc = "find"
    /\ \/ \E p \in Listeners : MatchesADMExecutable(p) /\ Learn(c, "legacy kill", p)
       \/ (\A p \in Listeners : ~MatchesADMExecutable(p)) /\ Return(c, FALSE)
    /\ UNCHANGED <<proc, unit>>

-----------------------------------------------------------------------------
(* stopActiveLocalGatewayBeforeInstall, then the setup program: no other   *)
(* process of the desktop's executable may run when the setup starts.      *)
Blockers(allowed) == {p \in Procs \ {allowed} : Alive(p) /\ proc[p].exe = "desktop"}

PrepareInstall(c) ==
    /\ client[c].op = "update" /\ client[c].pc = "look"
    /\ \E p \in InspectHTTPBaseURL :
         IF State(p) # "running" THEN Go(c, "last look")
         ELSE IF Blockers(p) = {}
           THEN client' = [client EXCEPT ![c].pc = "stop", ![c].child = p] ELSE Return(c, FALSE)
    /\ UNCHANGED <<proc, unit>>

\* Of the process first seen; it may have been another that was stopped.
WaitForGatewayProcessExit(c) ==
    /\ client[c].pc = "exit"
    /\ IF Alive(client[c].child) THEN Return(c, FALSE) ELSE Go(c, "last look")
    /\ UNCHANGED <<proc, unit>>

\* A mutation: no process listens, so none is left.
EnsureNoListener(c) ==
    /\ client[c].pc = "last look"
    /\ IF Listeners = {} THEN Go(c, "launch") ELSE Return(c, FALSE)
    /\ UNCHANGED <<proc, unit>>

EnsureNoOtherDesktopProcesses(c) ==
    /\ client[c].pc = "last look"
    /\ IF Blockers(None) = {} THEN Go(c, "launch") ELSE Return(c, FALSE)
    /\ UNCHANGED <<proc, unit>>

InstallAndRestart(c) ==
    /\ client[c].pc = "launch"
    /\ Return(c, TRUE)
    /\ UNCHANGED <<proc, unit>>

-----------------------------------------------------------------------------
\* after: for an update, the last process there was when it began.
Begin(c, op) ==
    /\ client[c] = NoCommand
    /\ client' = [client EXCEPT ![c].op = op, ![c].pc = "look",
                    ![c].after = IF op = "update"
                                   THEN Cardinality({p \in Procs : proc[p].phase # "unborn"}) ELSE 0]
    /\ UNCHANGED <<proc, unit>>

ClientStep(c) ==
    \/ \E op \in {"start", "stop", "listen", "restart", "update"} : Begin(c, op)
    \/ StartInspect(c) \/ CheckHTTPListenAvailable(c) \/ StartGatewayProcess(c)
    \/ WaitHTTPReady(c) \/ NotReady(c)
    \/ ForceStopInspect(c) \/ PostShutdown(c) \/ WaitShutdown(c)
    \/ TerminateHTTPProcess(c) \/ DialUntilRefused(c) \/ InspectAgain(c)
    \/ FindListeningProcess(c)
    \/ PrepareInstall(c) \/ WaitForGatewayProcessExit(c)
    \/ EnsureNoOtherDesktopProcesses(c) \/ InstallAndRestart(c)

ProcessStep ==
    \/ \E p \in Procs : Bind(p) \/ ExitGracefully(p) \/ Crash(p)
    \/ ForeignTakesAddress
===============================================================================
