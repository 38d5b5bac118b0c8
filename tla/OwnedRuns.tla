------------------------------ MODULE OwnedRuns ------------------------------
(***************************************************************************)
(* The commands a Gateway's runtime owner runs in the background: agent    *)
(* runs, dev processes and verifier runs (internal/gateway runtime_run,    *)
(* runtime_process, runtime_verifier).  Each is started by one request,    *)
(* executed by a goroutine, watched by a heartbeat goroutine that renews   *)
(* the writer lease, and may be cancelled by a later request, by the drop  *)
(* of its Environment or by the owner's Close.                             *)
(*                                                                         *)
(* The Environments are all rooted in one physical directory, so at most   *)
(* one of them has a live lease (module WriterLease proves it); lease is   *)
(* that grant.  Expiry and forced release are LeaseEnds.                   *)
(***************************************************************************)
EXTENDS FiniteSets

CONSTANTS
    Envs,       \* Environments of one physical root
    Owners,     \* writer owners
    Runs,       \* command identities, each started at most once
    Kind,       \* Kind[r] is "run", "process" or "verifier"
    NoLease     \* no live lease on the root

ASSUME RunsAssumption ==
    /\ Kind \in [Runs -> {"run", "process", "verifier"}]
    /\ NoLease \notin Envs \X Owners

VARIABLES
    lease,            \* the live lease of the root: <<environment, owner>>
    present,          \* Environments of the state file
    undropped,        \* removed Environments whose DropEnvironment is to come
    closed,           \* o.closed
    ownerCtx,         \* o.ctx is not cancelled
    registered,       \* o.runs, o.processes and o.verifierRuns
    stopping,         \* taken out of the maps by a drop or by Close, not yet cancelled
    pc,               \* how far each command got
    launcher,         \* <<environment, owner>> it was started with
    ctx,              \* its context: "active", "canceled" or "expired"
    alive,            \* its operating-system process runs
    exitOK,           \* the process ended by itself with exit code 0
    cancelRequested,
    verdict,          \* what the verifier goroutine read before classifying
    state,            \* the reported lifecycle state
    heart             \* the heartbeat goroutine: "off", "beating" or "stopped"

leaseVars == <<lease, present, undropped>>
ownerVars == <<closed, ownerCtx, registered, stopping>>
runVars == <<pc, launcher, ctx, alive, exitOK, cancelRequested, verdict, state, heart>>
vars == <<leaseVars, ownerVars, runVars>>

Starting == {"admitted", "launched", "observed"}
------------------------------------------------------------------------------
Init ==
    /\ lease = NoLease /\ present = Envs /\ undropped = {}
    /\ closed = FALSE /\ ownerCtx = TRUE /\ registered = {} /\ stopping = {}
    /\ pc = [r \in Runs |-> "idle"]
    /\ launcher \in [Runs -> Envs \X Owners]
    /\ ctx = [r \in Runs |-> "active"]
    /\ alive = [r \in Runs |-> FALSE]
    /\ exitOK = [r \in Runs |-> FALSE]
    /\ cancelRequested = [r \in Runs |-> FALSE]
    /\ verdict = [r \in Runs |-> "none"]
    /\ state = [r \in Runs |-> "running"]
    /\ heart = [r \in Runs |-> "off"]

\* RequireWriter succeeds, and renews the lease, for a command's launcher.
Authorized(r) == launcher[r][1] \in present /\ lease = launcher[r]

\* requestAgentRunCancel and requestVerifierRunCancel do nothing to a settled
\* command; process.cancel only cancels the context.
CanCancel(r) == Kind[r] = "process" \/ state[r] = "running"
\* Mutant: the cancel is recorded but the context is left alone.
CanceledInNameOnly(S) ==
    /\ cancelRequested' = [r \in Runs |->
          cancelRequested[r] \/ (r \in S /\ Kind[r] # "process" /\ CanCancel(r))]
    /\ ctx' = ctx

Canceled(S) ==
    /\ cancelRequested' = [r \in Runs |->
          cancelRequested[r] \/ (r \in S /\ Kind[r] # "process" /\ CanCancel(r))]
    /\ ctx' = [r \in Runs |-> IF r \in S /\ CanCancel(r) /\ ctx[r] = "active"
                              THEN "canceled" ELSE ctx[r]]
------------------------------------------------------------------------------
(* The lease and the Environments, moved by other requests.                *)
LeaseGranted(e, o) ==
    /\ lease = NoLease /\ e \in present
    /\ lease' = <<e, o>>
    /\ UNCHANGED <<present, undropped, ownerVars, runVars>>

LeaseEnds ==
    /\ lease # NoLease
    /\ lease' = NoLease
    /\ UNCHANGED <<present, undropped, ownerVars, runVars>>

\* Remove refuses a live lease on e; RemoveManaged ends it.
EnvironmentRemoved(e) ==
    /\ e \in present
    /\ present' = present \ {e}
    /\ lease' = IF lease # NoLease /\ lease[1] = e THEN NoLease ELSE lease
    /\ undropped' = undropped \cup {e}
    /\ UNCHANGED <<ownerVars, runVars>>

\* Mutant: the commands are forgotten without being cancelled.
DropWithoutStopping(e) ==
    /\ e \in undropped
    /\ undropped' = undropped \ {e}
    /\ registered' = {r \in registered : launcher[r][1] # e}
    /\ UNCHANGED <<lease, present, closed, ownerCtx, stopping, runVars>>

\* DropEnvironment, called after the removal: the commands leave the maps
\* under o.mu and are then cancelled one by one.
DropEnvironment(e) ==
    /\ e \in undropped
    /\ undropped' = undropped \ {e}
    /\ LET dropped == {r \in registered : launcher[r][1] = e}
       IN  /\ registered' = registered \ dropped
           /\ stopping' = stopping \cup dropped
    /\ UNCHANGED <<lease, present, closed, ownerCtx, runVars>>

\* Close: no command can be installed any more, then the owner's context and
\* with it every command's context is cancelled.
Close ==
    /\ ~closed
    /\ closed' = TRUE
    /\ registered' = {}
    /\ stopping' = stopping \cup registered
    /\ UNCHANGED <<leaseVars, ownerCtx, runVars>>

CancelOwnerContext ==
    /\ closed /\ ownerCtx
    /\ ownerCtx' = FALSE
    /\ ctx' = [r \in Runs |-> IF pc[r] # "idle" /\ ctx[r] = "active"
                              THEN "canceled" ELSE ctx[r]]
    /\ UNCHANGED <<leaseVars, closed, registered, stopping>>
    /\ UNCHANGED <<pc, launcher, alive, exitOK, cancelRequested, verdict, state, heart>>

\* The loops of drop...ForEnvironment and close...: request the cancel.
StopTaken(r) ==
    /\ r \in stopping
    /\ stopping' = stopping \ {r}
    /\ Canceled({r})
    /\ UNCHANGED <<leaseVars, closed, ownerCtx, registered>>
    /\ UNCHANGED <<pc, launcher, alive, exitOK, verdict, state, heart>>
------------------------------------------------------------------------------
(* The request that starts a command.                                      *)
Step(r, from, to) == pc[r] = from /\ pc' = [pc EXCEPT ![r] = to]

\* Mutant: the context is derived from the background one.
AdmitDetached(r) ==
    /\ Authorized(r)
    /\ Step(r, "idle", "admitted")
    /\ UNCHANGED <<leaseVars, ownerVars, ctx>>
    /\ UNCHANGED <<launcher, alive, exitOK, cancelRequested, verdict, state, heart>>

\* RequireWriter (or its sandbox and verifier preparations), then a context
\* derived from the owner's.
Admit(r) ==
    /\ Authorized(r)
    /\ Step(r, "idle", "admitted")
    /\ ctx' = [ctx EXCEPT ![r] = IF ownerCtx THEN "active" ELSE "canceled"]
    /\ UNCHANGED <<leaseVars, ownerVars>>
    /\ UNCHANGED <<launcher, alive, exitOK, cancelRequested, verdict, state, heart>>

\* A dev process is started before it is observed and installed.
LaunchProcess(r) ==
    /\ Kind[r] = "process"
    /\ \/ /\ ctx[r] = "active"
          /\ Step(r, "admitted", "launched")
          /\ alive' = [alive EXCEPT ![r] = TRUE]
       \/ Step(r, "admitted", "refused") /\ UNCHANGED alive
    /\ UNCHANGED <<leaseVars, ownerVars>>
    /\ UNCHANGED <<launcher, ctx, exitOK, cancelRequested, verdict, state, heart>>

BeforeObserve(r) == IF Kind[r] = "process" THEN "launched" ELSE "admitted"

ObserveStart(r) ==
    /\ Authorized(r)
    /\ Step(r, BeforeObserve(r), "observed")
    /\ UNCHANGED <<leaseVars, ownerVars>>
    /\ UNCHANGED <<launcher, ctx, alive, exitOK, cancelRequested, verdict, state, heart>>

\* A failed observe or install cancels the context; a dev process is waited for.
AbortStart(r) ==
    /\ \/ pc[r] = BeforeObserve(r) /\ ~Authorized(r)
       \/ pc[r] = "observed" /\ closed
    /\ pc' = [pc EXCEPT ![r] = IF alive[r] THEN "aborting" ELSE "refused"]
    /\ ctx' = [ctx EXCEPT ![r] = IF ctx[r] = "active" THEN "canceled" ELSE ctx[r]]
    /\ UNCHANGED <<leaseVars, ownerVars>>
    /\ UNCHANGED <<launcher, alive, exitOK, cancelRequested, verdict, state, heart>>

\* Mutant: no heartbeat goroutine.
InstallUnwatched(r) ==
    /\ ~closed
    /\ Step(r, "observed", IF Kind[r] = "process" THEN "executing" ELSE "installed")
    /\ registered' = registered \cup {r}
    /\ UNCHANGED <<leaseVars, closed, ownerCtx, stopping>>
    /\ UNCHANGED <<launcher, ctx, alive, exitOK, cancelRequested, verdict, state, heart>>

\* install...: the goroutines start with it.
Install(r) ==
    /\ ~closed
    /\ Step(r, "observed", IF Kind[r] = "process" THEN "executing" ELSE "installed")
    /\ registered' = registered \cup {r}
    /\ heart' = [heart EXCEPT ![r] = "beating"]
    /\ UNCHANGED <<leaseVars, closed, ownerCtx, stopping>>
    /\ UNCHANGED <<launcher, ctx, alive, exitOK, cancelRequested, verdict, state>>

------------------------------------------------------------------------------
(* The goroutines of an installed command.                                 *)
\* cmd.Start in execute...: it fails when the context is already done.
BeginExecution(r) ==
    /\ \/ /\ ctx[r] = "active"
          /\ Step(r, "installed", "executing")
          /\ alive' = [alive EXCEPT ![r] = TRUE]
       \/ Step(r, "installed", "exited") /\ UNCHANGED alive
    /\ UNCHANGED <<leaseVars, ownerVars>>
    /\ UNCHANGED <<launcher, ctx, exitOK, cancelRequested, verdict, state, heart>>

\* cmd.Wait returns: the process ended, or its context killed its tree.
ProcessExits(r, ok) ==
    /\ alive[r]
    /\ pc[r] \in {"launched", "observed", "executing", "aborting"}
    /\ alive' = [alive EXCEPT ![r] = FALSE]
    /\ exitOK' = [exitOK EXCEPT ![r] = ok /\ ctx[r] = "active"]
    /\ pc' = [pc EXCEPT ![r] = IF pc[r] = "executing" THEN "exited"
                               ELSE IF pc[r] = "aborting" THEN "refused" ELSE pc[r]]
    /\ UNCHANGED <<leaseVars, ownerVars>>
    /\ UNCHANGED <<launcher, ctx, cancelRequested, verdict, state, heart>>

\* A dev process may have died before install: its Wait returns at once.
ReapProcess(r) ==
    /\ ~alive[r]
    /\ Step(r, "executing", "exited")
    /\ UNCHANGED <<leaseVars, ownerVars>>
    /\ UNCHANGED <<launcher, ctx, alive, exitOK, cancelRequested, verdict, state, heart>>

Settle(r, s) ==
    /\ pc' = [pc EXCEPT ![r] = "settled"]
    /\ state' = [state EXCEPT ![r] = s]
    /\ UNCHANGED <<leaseVars, ownerVars>>
    /\ UNCHANGED <<launcher, ctx, alive, exitOK, cancelRequested, heart>>

\* Mutants: the deadline is looked at before the cancel; a cancelled run is
\* completed without waiting for its process.
CompleteByDeadlineFirst(r) ==
    /\ Kind[r] = "run" /\ pc[r] = "exited"
    /\ Settle(r, IF ctx[r] = "expired" THEN "failed"
                 ELSE IF cancelRequested[r] \/ ctx[r] = "canceled" THEN "canceled"
                 ELSE IF exitOK[r] THEN "succeeded" ELSE "failed")
    /\ UNCHANGED verdict

\* completeAgentRun decides under the run's mutex.
CompleteAgentRun(r) ==
    /\ Kind[r] = "run" /\ pc[r] = "exited"
    /\ Settle(r, IF cancelRequested[r] \/ ctx[r] = "canceled" THEN "canceled"
                 ELSE IF ctx[r] = "active" /\ exitOK[r] THEN "succeeded" ELSE "failed")
    /\ UNCHANGED verdict

\* waitDevProcess
CompleteProcess(r) ==
    /\ Kind[r] = "process" /\ pc[r] = "exited"
    /\ Settle(r, "exited")
    /\ UNCHANGED verdict

\* execute...VerifierRun reads the cancel flag and the context, gives the
\* mutex back to classify and to Touch the lease, and settles on what it read.
ReadVerdict(r) ==
    /\ Kind[r] = "verifier"
    /\ Step(r, "exited", "classifying")
    /\ verdict' = [verdict EXCEPT ![r] =
          IF cancelRequested[r] \/ ctx[r] = "canceled" THEN "canceled"
          ELSE IF ctx[r] = "active" /\ exitOK[r] THEN "passed" ELSE "failed"]
    /\ UNCHANGED <<leaseVars, ownerVars>>
    /\ UNCHANGED <<launcher, ctx, alive, exitOK, cancelRequested, state, heart>>

CompleteVerifierRun(r) ==
    /\ Kind[r] = "verifier" /\ pc[r] = "classifying"
    /\ Settle(r, IF verdict[r] = "canceled" THEN "canceled"
                 ELSE IF verdict[r] = "passed" /\ Authorized(r) THEN "succeeded" ELSE "failed")
    /\ UNCHANGED verdict

\* run.cancel and close(run.done), after which the heartbeat goroutine ends.
Finish(r) ==
    /\ Step(r, "settled", "finished")
    /\ ctx' = [ctx EXCEPT ![r] = IF ctx[r] = "active" THEN "canceled" ELSE ctx[r]]
    /\ heart' = [heart EXCEPT ![r] = "stopped"]
    /\ UNCHANGED <<leaseVars, ownerVars>>
    /\ UNCHANGED <<launcher, alive, exitOK, cancelRequested, verdict, state>>

\* Mutant: the heartbeat goroutine gives up without cancelling.
HeartbeatGivesUp(r) ==
    /\ heart[r] = "beating" /\ ~Authorized(r)
    /\ heart' = [heart EXCEPT ![r] = "stopped"]
    /\ UNCHANGED <<leaseVars, ownerVars>>
    /\ UNCHANGED <<pc, launcher, ctx, alive, exitOK, cancelRequested, verdict, state>>

\* A heartbeat that cannot renew the lease requests the cancel and ends; one
\* that can changes nothing here.
HeartbeatFails(r) ==
    /\ heart[r] = "beating" /\ ~Authorized(r)
    /\ heart' = [heart EXCEPT ![r] = "stopped"]
    /\ Canceled({r})
    /\ UNCHANGED <<leaseVars, ownerVars>>
    /\ UNCHANGED <<pc, launcher, alive, exitOK, verdict, state>>

\* The timeout of a run or a verifier run; a dev process has none.
DeadlineExpires(r) ==
    /\ Kind[r] # "process"
    /\ pc[r] \notin {"idle", "refused", "finished"} /\ ctx[r] = "active"
    /\ ctx' = [ctx EXCEPT ![r] = "expired"]
    /\ UNCHANGED <<leaseVars, ownerVars>>
    /\ UNCHANGED <<pc, launcher, alive, exitOK, cancelRequested, verdict, state, heart>>

\* CancelAgentRun, CancelVerifierRun and StopDevProcess of the launching owner.
Cancel(r) ==
    /\ r \in registered /\ Authorized(r)
    /\ Canceled({r})
    /\ UNCHANGED <<leaseVars, ownerVars>>
    /\ UNCHANGED <<pc, launcher, alive, exitOK, verdict, state, heart>>
------------------------------------------------------------------------------
Goroutine(r) ==
    \/ BeginExecution(r) \/ ReapProcess(r)
    \/ CompleteAgentRun(r) \/ CompleteProcess(r)
    \/ ReadVerdict(r) \/ CompleteVerifierRun(r) \/ Finish(r)

Start(r) == LaunchProcess(r) \/ ObserveStart(r) \/ AbortStart(r) \/ Install(r)

Next ==
    \/ LeaseEnds \/ Close \/ CancelOwnerContext
    \/ \E e \in Envs :
          \/ EnvironmentRemoved(e) \/ DropEnvironment(e)
          \/ \E o \in Owners : LeaseGranted(e, o)
    \/ \E r \in Runs :
          \/ Admit(r) \/ Start(r) \/ Goroutine(r)
          \/ \E ok \in BOOLEAN : ProcessExits(r, ok)
          \/ HeartbeatFails(r) \/ DeadlineExpires(r) \/ Cancel(r) \/ StopTaken(r)

(* The scheduler runs every goroutine and every started handler, the       *)
(* heartbeat ticker fires, and a process whose context is done is killed.  *)
Fairness ==
    /\ WF_vars(CancelOwnerContext)
    /\ \A e \in Envs : WF_vars(DropEnvironment(e))
    /\ \A r \in Runs :
          /\ WF_vars(Start(r)) /\ WF_vars(Goroutine(r)) /\ WF_vars(StopTaken(r))
          /\ WF_vars(HeartbeatFails(r))
          /\ WF_vars(ctx[r] # "active" /\ ProcessExits(r, FALSE))

Spec == Init /\ [][Next]_vars
FairSpec == Spec /\ Fairness

------------------------------------------------------------------------------
(* Types; a process runs only between its start and its reaping, and only  *)
(* an installed command has a heartbeat.                                   *)
TypeOK ==
    /\ lease \in (Envs \X Owners) \cup {NoLease}
    /\ present \subseteq Envs /\ undropped \subseteq Envs \ present
    /\ closed \in BOOLEAN /\ ownerCtx \in BOOLEAN
    /\ registered \subseteq Runs /\ stopping \subseteq Runs
    /\ pc \in [Runs -> Starting \cup {"idle", "refused", "aborting", "installed",
                    "executing", "exited", "classifying", "settled", "finished"}]
    /\ launcher \in [Runs -> Envs \X Owners]
    /\ ctx \in [Runs -> {"active", "canceled", "expired"}]
    /\ alive \in [Runs -> BOOLEAN] /\ exitOK \in [Runs -> BOOLEAN]
    /\ cancelRequested \in [Runs -> BOOLEAN]
    /\ verdict \in [Runs -> {"none", "canceled", "passed", "failed"}]
    /\ state \in [Runs -> {"running", "succeeded", "failed", "canceled", "exited"}]
    /\ heart \in [Runs -> {"off", "beating", "stopped"}]

(* A process nobody has told to stop can be found by somebody who can: it  *)
(* is in the owner's maps, on the list of a drop or of Close, or still in  *)
(* the hands of the request that starts it.                                *)
NoUnreachableProcess ==
    \A r \in Runs : alive[r] /\ ctx[r] = "active"
        => r \in registered \cup stopping \/ pc[r] \in Starting

(* Once Close has cancelled the owner's context no process runs that has   *)
(* not been told to stop, whenever its start began (ARUN-01, PROC-01).     *)
CloseStopsEveryProcess ==
    ~ownerCtx => \A r \in Runs : alive[r] => ctx[r] # "active"

(* A terminal state is reported only when the process is gone.             *)
TerminalMeansDead == \A r \in Runs : state[r] # "running" => ~alive[r]

(* A cancel that found an agent run running ends it as canceled, whatever  *)
(* exit code, timeout or lost lease comes in between (ARUN-01).            *)
CanceledRunEndsCanceled ==
    \A r \in Runs : Kind[r] = "run" /\ cancelRequested[r] /\ state[r] # "running"
        => state[r] = "canceled"

(* A cancelled command reaches its end.                                    *)
CanceledRunFinishes == \A r \in Runs : cancelRequested[r] ~> pc[r] = "finished"

(* A process does not outlive for good the lease it was started under.     *)
LostWriterStops ==
    \A r \in Runs : (alive[r] /\ ~Authorized(r)) ~> (~alive[r] \/ Authorized(r))

(* The commands of a removed Environment come to rest, those included that *)
(* were installed after DropEnvironment had looked for them.               *)
RemovedEnvironmentStops ==
    \A r \in Runs : (launcher[r][1] \notin present) ~> [](~alive[r])

==============================================================================
