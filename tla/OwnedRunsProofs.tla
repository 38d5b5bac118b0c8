-------------------------- MODULE OwnedRunsProofs ----------------------------
(***************************************************************************)
(* No process out of reach, for any Environments, owners and commands.     *)
(* What a drop or Close may miss are processes that are still in the hands *)
(* of the request that starts them; the invariant says where a process can *)
(* be at all, and that an installed command is found or already told to    *)
(* stop.                                                                   *)
(***************************************************************************)
EXTENDS OwnedRuns, TLAPS

\* A process runs between its start and its reaping, and before installation
\* only a dev process does; an aborted start has told it to stop; a terminal
\* state is set when it is reaped.
ProcessPlaced(r) ==
    /\ alive[r] => pc[r] \in {"launched", "observed", "executing", "aborting"}
    /\ alive[r] /\ pc[r] = "observed" => Kind[r] = "process"
    /\ pc[r] = "aborting" => ctx[r] # "active"
    /\ state[r] # "running" => pc[r] \in {"settled", "finished"}

\* An installed command can be found until it is told to stop.
InstalledTracked(r) ==
    pc[r] \in {"installed", "executing"} /\ ctx[r] = "active" => r \in registered \cup stopping

\* A cancelled owner context is every started command's.
ContextFollows(r) == ~ownerCtx /\ pc[r] # "idle" => ctx[r] # "active"

\* CanceledRunEndsCanceled of one command.
EndsCanceled(r) ==
    Kind[r] = "run" /\ cancelRequested[r] /\ state[r] # "running" => state[r] = "canceled"

Sound(r) ==
    ProcessPlaced(r) /\ InstalledTracked(r) /\ ContextFollows(r) /\ EndsCanceled(r)

IInv == TypeOK /\ \A r \in Runs : Sound(r)

USE RunsAssumption

(* The owner starts with no command.                                       *)
LEMMA Initially == Init => IInv
<1> SUFFICES ASSUME Init PROVE IInv
  OBVIOUS
<1>1. TypeOK
  BY DEF Init, TypeOK
<1>2. ASSUME NEW r \in Runs PROVE Sound(r)
  BY DEF Init, Sound, ProcessPlaced, InstalledTracked, ContextFollows, EndsCanceled
<1> QED BY <1>1, <1>2 DEF IInv

(* The lease and the Environments are none of the invariant's business, and *)
(* a drop and Close take commands out of the maps onto their own lists.    *)
LEMMA TakenKeepsTrack ==
  ASSUME IInv, TypeOK', registered' \cup stopping' = registered \cup stopping,
         UNCHANGED <<ownerCtx, runVars>>
  PROVE  IInv'
  BY DEF IInv, runVars, Sound, ProcessPlaced, InstalledTracked, ContextFollows, EndsCanceled

(* Commands that are told to stop may leave the list of a drop or of Close. *)
LEMMA CanceledKeepsTrack ==
  ASSUME IInv, NEW S \in SUBSET Runs, Canceled(S), TypeOK',
         \A r \in Runs : r \in registered \cup stopping => r \in registered' \cup stopping' \cup S,
         UNCHANGED <<ownerCtx, pc, alive, state>>
  PROVE  IInv'
<1> SUFFICES ASSUME NEW r \in Runs PROVE Sound(r)'
  BY DEF IInv
<1> USE DEF IInv, TypeOK, Sound
<1>1. ProcessPlaced(r)' /\ ContextFollows(r)'
  BY DEF Canceled, ProcessPlaced, ContextFollows
<1>2. InstalledTracked(r)'
  <2>1. CASE r \in S
    BY <2>1 DEF Canceled, CanCancel, ProcessPlaced, InstalledTracked
  <2>2. CASE r \notin S
    BY <2>2 DEF Canceled, InstalledTracked
  <2> QED BY <2>1, <2>2
<1>3. EndsCanceled(r)'
  BY DEF Canceled, CanCancel, EndsCanceled
<1> QED BY <1>1, <1>2, <1>3

(* A command's own step leaves the other commands where they are.          *)
LEMMA OwnStep ==
  ASSUME IInv, TypeOK', NEW r \in Runs,
         \A s \in Runs \ {r} : /\ pc'[s] = pc[s] /\ ctx'[s] = ctx[s] /\ alive'[s] = alive[s]
                               /\ state'[s] = state[s]
                               /\ s \in registered \cup stopping => s \in registered' \cup stopping',
         UNCHANGED <<ownerCtx, cancelRequested>>,
         ProcessPlaced(r)', InstalledTracked(r)', ContextFollows(r)', EndsCanceled(r)'
  PROVE  IInv'
<1> SUFFICES ASSUME NEW s \in Runs \ {r} PROVE Sound(s)'
  BY DEF IInv, Sound
<1> QED
  BY DEF IInv, Sound, ProcessPlaced, InstalledTracked, ContextFollows, EndsCanceled

(* No step of a request, a goroutine, a process or Close breaks it.        *)
LEMMA Inductive == IInv /\ [Next]_vars => IInv'
<1> SUFFICES ASSUME IInv, [Next]_vars PROVE IInv'
  OBVIOUS
<1> USE DEF IInv, Sound
<1>1. ASSUME NEW r \in Runs, Admit(r)
      PROVE  IInv'
  <2> USE DEF Admit, Step, leaseVars, ownerVars, TypeOK
  <2>1. TypeOK'
    BY <1>1 DEF Starting
  <2>2. ProcessPlaced(r)' /\ InstalledTracked(r)'
    BY <1>1 DEF ProcessPlaced, InstalledTracked
  <2>3. ContextFollows(r)' /\ EndsCanceled(r)'
    BY <1>1 DEF ContextFollows, EndsCanceled
  <2> QED BY <1>1, <2>1, <2>2, <2>3, OwnStep
<1>2. ASSUME NEW r \in Runs, LaunchProcess(r)
      PROVE  IInv'
  <2> USE DEF LaunchProcess, Step, leaseVars, ownerVars, TypeOK
  <2>1. TypeOK'
    BY <1>2 DEF Starting
  <2>2. ProcessPlaced(r)' /\ InstalledTracked(r)'
    BY <1>2 DEF ProcessPlaced, InstalledTracked
  <2>3. ContextFollows(r)' /\ EndsCanceled(r)'
    BY <1>2 DEF ContextFollows, EndsCanceled
  <2> QED BY <1>2, <2>1, <2>2, <2>3, OwnStep
<1>3. ASSUME NEW r \in Runs, ObserveStart(r)
      PROVE  IInv'
  <2> USE DEF ObserveStart, Step, BeforeObserve, leaseVars, ownerVars, TypeOK
  <2>1. TypeOK'
    BY <1>3 DEF Starting
  <2>2. ProcessPlaced(r)' /\ InstalledTracked(r)'
    BY <1>3 DEF ProcessPlaced, InstalledTracked
  <2>3. ContextFollows(r)' /\ EndsCanceled(r)'
    BY <1>3 DEF ContextFollows, EndsCanceled
  <2> QED BY <1>3, <2>1, <2>2, <2>3, OwnStep
<1>4. ASSUME NEW r \in Runs, AbortStart(r)
      PROVE  IInv'
  <2> USE DEF AbortStart, BeforeObserve, leaseVars, ownerVars, TypeOK
  <2>1. TypeOK'
    BY <1>4 DEF Starting
  <2>2. ProcessPlaced(r)' /\ InstalledTracked(r)'
    BY <1>4 DEF ProcessPlaced, InstalledTracked
  <2>3. ContextFollows(r)' /\ EndsCanceled(r)'
    BY <1>4 DEF ContextFollows, EndsCanceled
  <2> QED BY <1>4, <2>1, <2>2, <2>3, OwnStep
<1>5. ASSUME NEW r \in Runs, Install(r)
      PROVE  IInv'
  <2> USE DEF Install, Step, leaseVars, ownerVars, TypeOK
  <2>1. TypeOK'
    BY <1>5 DEF Starting
  <2>2. ProcessPlaced(r)' /\ InstalledTracked(r)'
    BY <1>5 DEF ProcessPlaced, InstalledTracked
  <2>3. ContextFollows(r)' /\ EndsCanceled(r)'
    BY <1>5 DEF ContextFollows, EndsCanceled
  <2> QED BY <1>5, <2>1, <2>2, <2>3, OwnStep
<1>6. ASSUME NEW r \in Runs, BeginExecution(r)
      PROVE  IInv'
  <2> USE DEF BeginExecution, Step, leaseVars, ownerVars, TypeOK
  <2>1. TypeOK'
    BY <1>6 DEF Starting
  <2>2. ProcessPlaced(r)' /\ InstalledTracked(r)'
    BY <1>6 DEF ProcessPlaced, InstalledTracked
  <2>3. ContextFollows(r)' /\ EndsCanceled(r)'
    BY <1>6 DEF ContextFollows, EndsCanceled
  <2> QED BY <1>6, <2>1, <2>2, <2>3, OwnStep
<1>7. ASSUME NEW r \in Runs, ReapProcess(r)
      PROVE  IInv'
  <2> USE DEF ReapProcess, Step, leaseVars, ownerVars, TypeOK
  <2>1. TypeOK'
    BY <1>7 DEF Starting
  <2>2. ProcessPlaced(r)' /\ InstalledTracked(r)'
    BY <1>7 DEF ProcessPlaced, InstalledTracked
  <2>3. ContextFollows(r)' /\ EndsCanceled(r)'
    BY <1>7 DEF ContextFollows, EndsCanceled
  <2> QED BY <1>7, <2>1, <2>2, <2>3, OwnStep
<1>8. ASSUME NEW r \in Runs, CompleteAgentRun(r)
      PROVE  IInv'
  <2> USE DEF CompleteAgentRun, Settle, leaseVars, ownerVars, TypeOK
  <2>1. TypeOK'
    BY <1>8 DEF Starting
  <2>2. ProcessPlaced(r)' /\ InstalledTracked(r)'
    BY <1>8 DEF ProcessPlaced, InstalledTracked
  <2>3. ContextFollows(r)' /\ EndsCanceled(r)'
    BY <1>8 DEF ContextFollows, EndsCanceled
  <2> QED BY <1>8, <2>1, <2>2, <2>3, OwnStep
<1>9. ASSUME NEW r \in Runs, CompleteProcess(r)
      PROVE  IInv'
  <2> USE DEF CompleteProcess, Settle, leaseVars, ownerVars, TypeOK
  <2>1. TypeOK'
    BY <1>9 DEF Starting
  <2>2. ProcessPlaced(r)' /\ InstalledTracked(r)'
    BY <1>9 DEF ProcessPlaced, InstalledTracked
  <2>3. ContextFollows(r)' /\ EndsCanceled(r)'
    BY <1>9 DEF ContextFollows, EndsCanceled
  <2> QED BY <1>9, <2>1, <2>2, <2>3, OwnStep
<1>10. ASSUME NEW r \in Runs, ReadVerdict(r)
      PROVE  IInv'
  <2> USE DEF ReadVerdict, Step, leaseVars, ownerVars, TypeOK
  <2>1. TypeOK'
    BY <1>10 DEF Starting
  <2>2. ProcessPlaced(r)' /\ InstalledTracked(r)'
    BY <1>10 DEF ProcessPlaced, InstalledTracked
  <2>3. ContextFollows(r)' /\ EndsCanceled(r)'
    BY <1>10 DEF ContextFollows, EndsCanceled
  <2> QED BY <1>10, <2>1, <2>2, <2>3, OwnStep
<1>11. ASSUME NEW r \in Runs, CompleteVerifierRun(r)
      PROVE  IInv'
  <2> USE DEF CompleteVerifierRun, Settle, leaseVars, ownerVars, TypeOK
  <2>1. TypeOK'
    BY <1>11 DEF Starting
  <2>2. ProcessPlaced(r)' /\ InstalledTracked(r)'
    BY <1>11 DEF ProcessPlaced, InstalledTracked
  <2>3. ContextFollows(r)' /\ EndsCanceled(r)'
    BY <1>11 DEF ContextFollows, EndsCanceled
  <2> QED BY <1>11, <2>1, <2>2, <2>3, OwnStep
<1>12. ASSUME NEW r \in Runs, Finish(r)
      PROVE  IInv'
  <2> USE DEF Finish, Step, leaseVars, ownerVars, TypeOK
  <2>1. TypeOK'
    BY <1>12 DEF Starting
  <2>2. ProcessPlaced(r)' /\ InstalledTracked(r)'
    BY <1>12 DEF ProcessPlaced, InstalledTracked
  <2>3. ContextFollows(r)' /\ EndsCanceled(r)'
    BY <1>12 DEF ContextFollows, EndsCanceled
  <2> QED BY <1>12, <2>1, <2>2, <2>3, OwnStep
<1>13. ASSUME NEW r \in Runs, DeadlineExpires(r)
      PROVE  IInv'
  <2> USE DEF DeadlineExpires, leaseVars, ownerVars, TypeOK
  <2>1. TypeOK'
    BY <1>13 DEF Starting
  <2>2. ProcessPlaced(r)' /\ InstalledTracked(r)'
    BY <1>13 DEF ProcessPlaced, InstalledTracked
  <2>3. ContextFollows(r)' /\ EndsCanceled(r)'
    BY <1>13 DEF ContextFollows, EndsCanceled
  <2> QED BY <1>13, <2>1, <2>2, <2>3, OwnStep
<1>14. ASSUME NEW r \in Runs, NEW ok \in BOOLEAN, ProcessExits(r, ok)
      PROVE  IInv'
  <2> USE DEF ProcessExits, leaseVars, ownerVars, TypeOK
  <2>1. TypeOK'
    BY <1>14 DEF Starting
  <2>2. ProcessPlaced(r)' /\ InstalledTracked(r)'
    BY <1>14 DEF ProcessPlaced, InstalledTracked
  <2>3. ContextFollows(r)' /\ EndsCanceled(r)'
    BY <1>14 DEF ContextFollows, EndsCanceled
  <2> QED BY <1>14, <2>1, <2>2, <2>3, OwnStep
<1>15. ASSUME NEW r \in Runs, StopTaken(r)
      PROVE  IInv'
  <2>1. TypeOK'
    BY <1>15 DEF StopTaken, Canceled, leaseVars, ownerVars, TypeOK
  <2> QED BY <1>15, <2>1, CanceledKeepsTrack DEF StopTaken, ownerVars
<1>16. ASSUME NEW r \in Runs, HeartbeatFails(r)
      PROVE  IInv'
  <2>1. TypeOK'
    BY <1>16 DEF HeartbeatFails, Canceled, leaseVars, ownerVars, TypeOK
  <2> QED BY <1>16, <2>1, CanceledKeepsTrack DEF HeartbeatFails, ownerVars
<1>17. ASSUME NEW r \in Runs, Cancel(r)
      PROVE  IInv'
  <2>1. TypeOK'
    BY <1>17 DEF Cancel, Canceled, leaseVars, ownerVars, TypeOK
  <2> QED BY <1>17, <2>1, CanceledKeepsTrack DEF Cancel, ownerVars
<1>18. ASSUME NEW e \in Envs, NEW o \in Owners, LeaseGranted(e, o)
      PROVE  IInv'
  <2>1. TypeOK'
    BY <1>18 DEF LeaseGranted, ownerVars, runVars, TypeOK
  <2> QED BY <1>18, <2>1, TakenKeepsTrack DEF LeaseGranted, ownerVars
<1>19. ASSUME NEW e \in Envs, EnvironmentRemoved(e)
      PROVE  IInv'
  <2>1. TypeOK'
    BY <1>19 DEF EnvironmentRemoved, ownerVars, runVars, TypeOK
  <2> QED BY <1>19, <2>1, TakenKeepsTrack DEF EnvironmentRemoved, ownerVars
<1>20. CASE LeaseEnds
  <2>1. TypeOK'
    BY <1>20 DEF LeaseEnds, ownerVars, runVars, TypeOK
  <2> QED BY <1>20, <2>1, TakenKeepsTrack DEF LeaseEnds, ownerVars
<1>21. ASSUME NEW e \in Envs, DropEnvironment(e)
      PROVE  IInv'
  <2>1. TypeOK'
    BY <1>21 DEF DropEnvironment, runVars, TypeOK
  <2>2. registered' \cup stopping' = registered \cup stopping
    BY <1>21 DEF DropEnvironment, TypeOK
  <2> QED BY <1>21, <2>1, <2>2, TakenKeepsTrack DEF DropEnvironment
<1>22. CASE Close
  <2>1. TypeOK'
    BY <1>22 DEF Close, leaseVars, runVars, TypeOK
  <2>2. registered' \cup stopping' = registered \cup stopping
    BY <1>22 DEF Close, TypeOK
  <2> QED BY <1>22, <2>1, <2>2, TakenKeepsTrack DEF Close
<1>23. CASE CancelOwnerContext
  <2> USE DEF CancelOwnerContext, leaseVars, TypeOK
  <2>1. TypeOK'
    BY <1>23
  <2>2. ASSUME NEW r \in Runs PROVE Sound(r)'
    BY <1>23, <2>2 DEF ProcessPlaced, InstalledTracked, ContextFollows, EndsCanceled
  <2> QED BY <2>1, <2>2
<1>24. CASE UNCHANGED vars
  <2>1. TypeOK'
    BY <1>24 DEF vars, leaseVars, ownerVars, runVars, TypeOK
  <2> QED BY <1>24, <2>1, TakenKeepsTrack DEF vars, ownerVars
<1> QED
  BY <1>1, <1>2, <1>3, <1>4, <1>5, <1>6, <1>7, <1>8, <1>9, <1>10, <1>11, <1>12,
     <1>13, <1>14, <1>15, <1>16, <1>17, <1>18, <1>19, <1>20, <1>21, <1>22, <1>23, <1>24
  DEF Next, Start, Goroutine

(* Every state of the owner satisfies it.                                  *)
LEMMA Invariance == Spec => []IInv
  BY Initially, Inductive, PTL DEF Spec

(* Every variable has its type in every state.                             *)
THEOREM TypeCorrect == Spec => []TypeOK
<1>1. IInv => TypeOK
  BY DEF IInv
<1> QED BY <1>1, Invariance, PTL

(* A process nobody has told to stop can be found by somebody who can      *)
(* (runtime_run, runtime_process and runtime_verifier's install).          *)
THEOREM NoProcessUnreachable == Spec => []NoUnreachableProcess
<1>1. IInv => NoUnreachableProcess
  BY DEF IInv, Sound, ProcessPlaced, InstalledTracked, NoUnreachableProcess, Starting
<1> QED BY <1>1, Invariance, PTL

(* After Close has cancelled the owner's context every process was told to *)
(* stop, whenever its start began (runtime_owner's Close).                 *)
THEOREM CloseStops == Spec => []CloseStopsEveryProcess
<1>1. IInv => CloseStopsEveryProcess
  BY DEF IInv, Sound, ProcessPlaced, ContextFollows, CloseStopsEveryProcess
<1> QED BY <1>1, Invariance, PTL

(* A terminal state is reported only when the process is gone.             *)
THEOREM TerminalIsDead == Spec => []TerminalMeansDead
<1>1. IInv => TerminalMeansDead
  BY DEF IInv, Sound, ProcessPlaced, TerminalMeansDead
<1> QED BY <1>1, Invariance, PTL

(* An agent run that was cancelled while it was running ends as canceled   *)
(* (completeAgentRun).                                                     *)
THEOREM CanceledEndsCanceled == Spec => []CanceledRunEndsCanceled
<1>1. IInv => CanceledRunEndsCanceled
  BY DEF IInv, Sound, EndsCanceled, CanceledRunEndsCanceled
<1> QED BY <1>1, Invariance, PTL
==============================================================================
