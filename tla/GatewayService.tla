---------------------------- MODULE GatewayService ----------------------------
(***************************************************************************)
(* The Gateway as a system service (gatewayservice/service_linux.go), and  *)
(* "adm gateway install", "gateway service install" and the other service  *)
(* commands (cli/gateway_service.go), which undo what they did when a step *)
(* fails.  Every systemctl command may fail.                               *)
(***************************************************************************)
EXTENDS GatewayProcess

VARIABLES
    access,  \* GatewayAccess of the state file: hosts and key hashes
    saved    \* what an installing client read before it changed anything

vars == <<proc, client, unit, access, saved>>

Installs == {"install", "service install"}
Accesses == {"before", "setup", "rotated"}

(* Unit files of ADM: the "new" one of an installation, and what was there *)
(* before it: "old", as this program renders it; "stale", which it renders *)
(* otherwise (an earlier template, or edited); "bare", without the user,   *)
(* address or executable it would be rendered from.                        *)
ManagedFiles == {"old", "stale", "bare", "new"}
Files == {None, "unmanaged"} \cup ManagedFiles

\* parseManagedUnit, then RenderSystemdUnit of what it found.
Rendered(file) == IF file = "stale" THEN "old" ELSE file

\* file, loaded: the unit file and what daemon-reload made of it.
\* stirred: the main process ended on its own since systemctl last acted.
Units == [file : Files, loaded : Files,
          enabled : BOOLEAN, run : {"up", "stopped", "retry"}, stirred : BOOLEAN]

\* What an installing client saves; again: as Reconfigure asks later on;
\* unseen: the service was started, but the look at it afterwards failed.
Saves == [file : {None} \cup ManagedFiles, enabled : BOOLEAN, active : BOOLEAN,
          access : Accesses, again : BOOLEAN, applied : BOOLEAN, unseen : BOOLEAN, warn : BOOLEAN]

ASSUME ServiceAssumption == None \notin {"unmanaged"} \cup ManagedFiles /\ None \notin Saves

Managed == unit.file \in ManagedFiles
Active == unit.run = "up"

-----------------------------------------------------------------------------
(* systemd. *)
MainProcess == [Runs("adm") EXCEPT !.main = TRUE]

WithoutMain == [p \in Procs |->
    IF proc[p].main /\ Alive(p) THEN [proc[p] EXCEPT !.phase = "dead"] ELSE proc[p]]

\* Restart=on-failure.
Retry ==
    /\ unit.run = "retry"
    /\ \E p \in Fresh : proc' = [proc EXCEPT ![p] = MainProcess]
    /\ unit' = [unit EXCEPT !.run = "up"]
    /\ UNCHANGED <<client, access, saved>>

\* systemctl start (nothing to do when active), restart and stop, of the unit u.
SystemctlStart(u) ==
    IF u.run = "up" THEN unit' = u /\ UNCHANGED proc
    ELSE /\ \E p \in Fresh : proc' = [proc EXCEPT ![p] = MainProcess]
         /\ unit' = [u EXCEPT !.run = "up", !.stirred = FALSE]

SystemctlRestart(u) ==
    /\ \E p \in Fresh : proc' = [WithoutMain EXCEPT ![p] = MainProcess]
    /\ unit' = [u EXCEPT !.run = "up", !.stirred = FALSE]

SystemctlStop(u) ==
    proc' = WithoutMain /\ unit' = [u EXCEPT !.run = "stopped", !.stirred = FALSE]

\* start or restart as the service is, or stop: what Reconfigure does.
SystemctlRun(u, wanted, active) ==
    IF ~wanted THEN IF active THEN SystemctlStop(u) ELSE unit' = u /\ UNCHANGED proc
    ELSE IF active THEN SystemctlRestart(u) ELSE SystemctlStart(u)

-----------------------------------------------------------------------------
(* Start, Restart, Stop, SetEnabled and Uninstall: each looks at the unit   *)
(* first and refuses one that ADM does not manage.                          *)
ServiceCommand(c) ==
    /\ client[c].op = "service" /\ client[c].pc = "look"
    /\ \/ /\ Managed
          /\ \/ unit.file # "bare" /\ (SystemctlStart(unit) \/ SystemctlRestart(unit))
             \/ SystemctlStop(unit)
             \/ \E on \in BOOLEAN : unit' = [unit EXCEPT !.enabled = on] /\ UNCHANGED proc
             \/ SystemctlStop([unit EXCEPT !.file = None, !.loaded = None, !.enabled = FALSE])
          /\ Return(c, TRUE)
       \/ Return(c, FALSE) /\ UNCHANGED <<proc, unit>>
    /\ UNCHANGED <<access, saved>>

\* A key is rotated or set, the host policy changed.
ChangeAccess(c) ==
    /\ client[c].op = "rotate" /\ client[c].pc = "look"
    /\ access' = "rotated"
    /\ Return(c, TRUE)
    /\ UNCHANGED <<proc, unit, saved>>

-----------------------------------------------------------------------------
(* Installing. *)
Created(c) == saved[c].file = None

InstallInspect(c) ==
    /\ client[c].op \in Installs /\ client[c].pc = "look"
    /\ IF unit.file = "unmanaged" THEN Return(c, FALSE) /\ UNCHANGED saved
       ELSE /\ saved' = [saved EXCEPT ![c] =
                  [file |-> unit.file, enabled |-> unit.enabled, active |-> Active,
                   access |-> access, again |-> Active, applied |-> FALSE,
                   unseen |-> FALSE, warn |-> FALSE]]
            /\ Go(c, IF client[c].op = "install" THEN "setup" ELSE "apply")
    /\ UNCHANGED <<proc, unit, access>>

\* SetupGatewayRemote, then the ownership of the state directory.
SetupGatewayRemote(c) ==
    /\ client[c].pc = "setup"
    /\ \/ access' = "setup" /\ (Go(c, "apply") \/ Go(c, "undo access"))
       \/ Go(c, "undo access") /\ UNCHANGED access
    /\ UNCHANGED <<proc, unit, saved>>

ApplyFails(c) ==
    IF client[c].op = "install" THEN Go(c, "undo access") ELSE Return(c, FALSE)

\* The unit file is read again: Install wants none, Reconfigure a managed one,
\* and Reconfigure asks systemd again whether it is active.
ApplyGatewayService(c) ==
    /\ client[c].pc = "apply"
    /\ \/ /\ IF Created(c) THEN unit.file = None ELSE Managed
          /\ unit' = [unit EXCEPT !.file = "new"]
          /\ saved' = [saved EXCEPT ![c].again = Active]
          /\ Go(c, "reload")
       \/ ApplyFails(c) /\ UNCHANGED <<unit, saved>>
    /\ UNCHANGED <<proc, access>>

DaemonReload(c) ==
    /\ client[c].pc = "reload"
    /\ \/ /\ unit' = [unit EXCEPT !.loaded = unit.file]
          /\ Go(c, IF Created(c) THEN "enable" ELSE "run")
       \/ Go(c, "undo apply") /\ UNCHANGED unit
    /\ UNCHANGED <<proc, access, saved>>

EnableNew(c) ==
    /\ client[c].pc = "enable"
    /\ \/ unit' = [unit EXCEPT !.enabled = TRUE] /\ Go(c, "run")
       \/ Go(c, "undo apply") /\ UNCHANGED unit
    /\ UNCHANGED <<proc, access, saved>>

\* The service runs; the inspection that answers may fail, and then nothing is
\* undone: Install has given up its rollback, and nobody knows of the service.
RunNew(c) ==
    /\ client[c].pc = "run"
    /\ \/ /\ SystemctlRun(unit, TRUE, ~Created(c) /\ saved[c].again)
          /\ \/ saved' = [saved EXCEPT ![c].applied = TRUE] /\ Go(c, "answer")
             \/ saved' = [saved EXCEPT ![c].unseen = TRUE] /\ ApplyFails(c)
       \/ Go(c, "undo apply") /\ UNCHANGED <<proc, unit, saved>>
    /\ UNCHANGED access

Removed == [unit EXCEPT !.file = None, !.loaded = None, !.enabled = FALSE]

\* One that fails leaves what it did not get to.
UndoFails(c, pc) ==
    /\ saved' = [saved EXCEPT ![c].warn = TRUE]
    /\ client' = [client EXCEPT ![c].pc = pc]

\* The rollback of Install, and restore of Reconfigure.
UndoApply(c) ==
    LET old == [unit EXCEPT !.file = saved[c].file, !.loaded = saved[c].file]
    IN  /\ client[c].pc = "undo apply"
        /\ \/ /\ IF Created(c) THEN SystemctlStop(Removed)
                 ELSE LET u == [old EXCEPT !.enabled = saved[c].enabled]
                      IN  IF saved[c].again THEN SystemctlRestart(u) ELSE SystemctlStop(u)
              /\ ApplyFails(c)
              /\ UNCHANGED saved
           \/ /\ unit' \in {unit, [unit EXCEPT !.file = saved[c].file], old}
              /\ saved' = [saved EXCEPT ![c].warn = TRUE]
              /\ ApplyFails(c)
              /\ UNCHANGED proc
        /\ UNCHANGED access

\* WaitHTTPReady on the service's address: any Gateway may answer.
Answers(c) ==
    /\ client[c].pc = "answer"
    /\ \/ (\E p \in InspectHTTPBaseURL : State(p) = "running") /\ Return(c, TRUE)
       \/ Go(c, "undo service")
    /\ UNCHANGED <<proc, unit, access, saved>>

\* Uninstall what was created, stop what was there before.
UndoService(c) ==
    LET next == IF client[c].op = "install" THEN "undo access"
                ELSE IF Created(c) THEN "done" ELSE "undo unit"
    IN  /\ client[c].pc = "undo service"
        /\ \/ /\ Managed \/ (Created(c) /\ unit.file = None)
              /\ SystemctlStop(IF Created(c) THEN Removed ELSE unit)
              /\ Go(c, next) /\ UNCHANGED saved
           \/ UndoFails(c, next) /\ UNCHANGED <<proc, unit>>
        /\ UNCHANGED access

\* restoreState writes the whole of what was read, over any later change.
UndoAccess(c) ==
    LET next == IF saved[c].applied /\ ~Created(c) THEN "undo unit" ELSE "done"
    IN  /\ client[c].pc = "undo access"
        /\ \/ access' = saved[c].access /\ Go(c, next) /\ UNCHANGED saved
           \/ UndoFails(c, next) /\ UNCHANGED access
        /\ UNCHANGED <<proc, unit>>

\* What restoreGatewayService makes of the unit.
Restored(c) == [unit EXCEPT !.file = Rendered(saved[c].file), !.loaded = Rendered(saved[c].file)]

\* A mutation: whether the service was running is not asked.
RestartUnit(c) ==
    /\ client[c].pc = "undo unit"
    /\ \/ /\ Managed /\ saved[c].file # "bare"
          /\ SystemctlRun([Restored(c) EXCEPT !.enabled = unit.enabled /\ saved[c].enabled],
                          TRUE, Active)
          /\ Return(c, FALSE) /\ UNCHANGED saved
       \/ UndoFails(c, "done") /\ UNCHANGED <<proc, unit>>
    /\ UNCHANGED access

\* restoreGatewayService: Reconfigure with what the old unit file said, which a
\* bare one does not, then disable.  Reconfigure that fails restores in its turn.
UndoUnit(c) ==
    /\ client[c].pc = "undo unit"
    /\ \/ /\ Managed /\ saved[c].file # "bare"
          /\ SystemctlRun([Restored(c) EXCEPT !.enabled = unit.enabled /\ saved[c].enabled],
                          saved[c].active, Active)
          /\ Return(c, FALSE) /\ UNCHANGED saved
       \/ /\ UndoFails(c, "done")
          /\ \/ UNCHANGED <<proc, unit>>
             \/ /\ Managed /\ saved[c].file # "bare"
                /\ \/ unit' = [unit EXCEPT !.file = Rendered(saved[c].file)] /\ UNCHANGED proc
                   \/ IF Active THEN SystemctlRestart(unit) ELSE SystemctlStop(unit)
                   \/ SystemctlRun(Restored(c), saved[c].active, Active)
    /\ UNCHANGED access

-----------------------------------------------------------------------------
Init ==
    /\ client = [c \in Clients |-> NoCommand]
    /\ saved = [c \in Clients |-> None]
    /\ access = "before"
    /\ unit \in {u \in Units : /\ u.loaded = u.file /\ ~u.stirred /\ u.run # "retry"
                               /\ u.file # "new"
                               /\ u.file \notin ManagedFiles => ~u.enabled /\ u.run = "stopped"}
    /\ \E k \in Kinds, first \in {"unborn", "serving"}, exe \in {"adm", "desktop"} :
         /\ unit.run = "up" => k = "current" /\ first = "serving" /\ exe = "adm"
         /\ k \notin Owned => exe = "adm"
         /\ first = "unborn" => k = "foreign"
         /\ proc = [p \in Procs |-> IF p = 1
                      THEN [kind |-> k, phase |-> first, exe |-> exe, main |-> unit.run = "up"]
                      ELSE Unborn]

InstallStep(c) ==
    \/ InstallInspect(c) \/ SetupGatewayRemote(c)
    \/ ApplyGatewayService(c) \/ DaemonReload(c) \/ EnableNew(c) \/ RunNew(c) \/ UndoApply(c)
    \/ Answers(c) \/ UndoService(c) \/ UndoAccess(c) \/ UndoUnit(c)

Next ==
    \/ (ProcessStep \/ \E c \in Clients : ClientStep(c)) /\ UNCHANGED <<access, saved>>
    \/ Retry
    \/ \E c \in Clients :
         \/ \E op \in Installs \cup {"service", "rotate"} :
              Begin(c, op) /\ UNCHANGED <<access, saved>>
         \/ ServiceCommand(c) \/ ChangeAccess(c) \/ InstallStep(c)

Spec == Init /\ [][Next]_vars

-----------------------------------------------------------------------------
TypeOK ==
    /\ proc \in [Procs -> [kind : Kinds, main : BOOLEAN, exe : {"adm", "desktop"},
                           phase : {"unborn", "starting", "serving", "closing", "dead"}]]
    /\ client \in [Clients -> [
         op : {"none", "start", "stop", "listen", "restart", "update", "service", "rotate"}
                \cup Installs,
         pc : {"idle", "look", "done", "bind", "spawn", "ready", "stop", "post", "wait", "kill",
               "legacy kill", "dial", "legacy dial", "again", "find", "exit", "last look",
               "launch", "setup", "apply", "reload", "enable", "run", "answer", "undo apply",
               "undo service", "undo access", "undo unit"},
         saw : Procs \cup {None}, child : Procs \cup {None}, ok : BOOLEAN, after : Nat]]
    /\ unit \in Units
    /\ access \in Accesses
    /\ saved \in [Clients -> Saves \cup {None}]

(* A client ends no process but the one it looked at, or the child it      *)
(* started: never another program, and through /shutdown never a Gateway   *)
(* that took the address after the look.  Only the search for whoever      *)
(* listens, the last resort of "listen" and "restart", looks again.        *)
EndedBy(c, p) ==
    /\ client'[c] # client[c]
    /\ proc[p].phase \in {"starting", "serving"} /\ proc'[p].phase \in {"closing", "dead"}

EndsOnlyItsTarget ==
    [][\A c \in Clients, p \in Procs :
         EndedBy(c, p) =>
           \/ client[c].op \in Installs \cup {"service"} /\ proc[p].main
           \/ client[c].child = p
           \/ client[c].saw = p /\ proc[p].kind # "foreign"]_vars

(* An installation that fails leaves the access settings as it found them, *)
(* and also the unit file, and whether the service is enabled and running. *)
(* Three things are the code's own exceptions.  What was undone once the   *)
(* new service had been started comes back as this program renders it, not *)
(* byte for byte.  A look at the started service that fails leaves the new *)
(* service in place.  An undoing step may fail too, and is reported: it    *)
(* does for a unit file that lacks what it would be rendered from.  Other  *)
(* clients that change the service or the settings, and a main process     *)
(* that ends on its own just when the installation looks, are left out     *)
(* (runGatewayInstall, installPlatform, reconfigurePlatform).              *)
Alone(c) == \A d \in Clients \ {c} : client[d].op \notin Installs \cup {"service", "rotate"}
Back(c) == IF saved[c].applied THEN Rendered(saved[c].file) ELSE saved[c].file

FailedInstallRestores ==
    \A c \in Clients :
      (/\ client[c].op \in Installs /\ client[c].pc = "done" /\ ~client[c].ok
       /\ saved[c] # None /\ ~saved[c].warn /\ saved[c].again = saved[c].active
       /\ Alone(c) /\ ~unit.stirred) =>
        /\ access = saved[c].access
        /\ ~saved[c].unseen =>
             /\ unit.file = Back(c) /\ unit.loaded = Back(c)
             /\ unit.enabled = saved[c].enabled
             /\ Active = saved[c].active

(* When the setup program starts, no process of the desktop's executable   *)
(* that ran when the update began still runs: it may have given up the     *)
(* address long before it ends.                                            *)
SetupFindsNoOldGateway ==
    \A c \in Clients : client[c].pc = "launch" =>
      \A p \in Procs : Alive(p) /\ proc[p].exe = "desktop" => p > client[c].after
===============================================================================
