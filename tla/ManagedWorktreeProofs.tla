------------------------ MODULE ManagedWorktreeProofs ------------------------
(***************************************************************************)
(* What creates and destroys of managed worktrees keep, for any requests,  *)
(* branches, roots and interferences.  The invariant ties a branch to the  *)
(* request that made it for as long as that request may delete it, and a   *)
(* destroy to a worktree whose create is over.                             *)
(***************************************************************************)
EXTENDS ManagedWorktree, TLAPS

Labels == Ended \cup
    {"idle", "settling", "adopting", "naming", "adding", "added", "checking", "recording",
     "undoingWorktree", "undoingBranch", "undoingDirectory", "validating", "inspecting",
     "recovering", "removing", "unrecording", "detaching", "pruning"}

\* TypeOK with what the module leaves to Init: arguments and program counters.
Typed ==
    /\ TypeOK
    /\ source \in [Trees -> Trees \cup {Workspace}] /\ branch \in [Trees -> Branches]
    /\ target \in [Destroys -> Trees]
    /\ pc \in [Requests -> Labels]
    /\ \A t \in Trees : pc[t] = "adopting" => place[t] \in Roots

\* From git worktree add to the end of the rollback, or for good, the branch
\* is the one this request made; so it is as long as git lists the worktree.
OwnsBranch(t) ==
    pc[t] \in {"added", "checking", "recording", "undoingWorktree", "undoingBranch", "created"}
        \/ t \in listed => maker[branch[t]] = t

\* Only a finished create has a record, and only recorded worktrees are used.
Recorded(t) ==
    /\ record[t] # "none" => pc[t] = "created"
    /\ record[t] = "none" => head[t] = "own"
    /\ record[t] = "removed" => dir[t] # "worktree"

\* How far a rollback in a Workspace has got.
RolledBack(t) ==
    /\ source[t] = Workspace =>
          /\ pc[t] \in {"undoingBranch", "undoingDirectory", "rolledBack"} => t \notin listed
          /\ pc[t] \in {"undoingDirectory", "rolledBack"} => maker[branch[t]] # t
    /\ pc[t] = "rolledBack" => dir[t] = "absent"

\* A destroy works on a worktree that was recorded, has removed it before its
\* record goes, and removes it only below the configured root.
Destroying(d) ==
    LET t == target[d] IN
    /\ pc[d] # "idle" => record[t] # "none"
    /\ pc[d] \in {"unrecording", "detaching"} => dir[t] # "worktree"
    /\ pc[d] \in {"inspecting", "removing"} => place[t] = settings \/ record[t] # "present"

IInv ==
    /\ Typed
    /\ \A t \in Trees : OwnsBranch(t) /\ Recorded(t) /\ RolledBack(t)
    /\ \A d \in Destroys : Destroying(d)

USE WorktreeAssumption

(* Interferences stay within their bound.                                  *)
LEMMA Bounded == ASSUME Typed, Interferes PROVE outside' \in 0 .. MaxOutside
  BY DEF Typed, TypeOK, Interferes

(* No worktree is made yet.                                                *)
LEMMA Initially == Init => IInv
<1> SUFFICES ASSUME Init PROVE IInv
  OBVIOUS
<1>1. Typed
  BY DEF Init, Typed, TypeOK, Labels, Requests
<1>2. ASSUME NEW t \in Trees PROVE OwnsBranch(t) /\ Recorded(t) /\ RolledBack(t)
  BY DEF Init, OwnsBranch, Recorded, RolledBack, Requests
<1>3. ASSUME NEW d \in Destroys PROVE Destroying(d)
  BY DEF Init, Destroying, Requests
<1> QED BY <1>1, <1>2, <1>3 DEF IInv

(* No step of a request, of somebody else or of a crash breaks it.         *)
LEMMA Inductive == IInv /\ [Next]_vars => IInv'
<1> SUFFICES ASSUME IInv, [Next]_vars PROVE IInv'
  OBVIOUS
<1> USE DEF IInv, Typed, TypeOK, Requests, requestVars, stateVars, diskVars
<1>1. ASSUME NEW t \in Trees, BeginCreate(t)
      PROVE  IInv'
  <2> USE DEF BeginCreate, Goto
  <2>1. Typed'
    BY <1>1 DEF Labels
  <2>2. ASSUME NEW u \in Trees PROVE OwnsBranch(u)' /\ Recorded(u)' /\ RolledBack(u)'
    BY <1>1, <2>2 DEF OwnsBranch, Recorded, RolledBack
  <2>3. ASSUME NEW c \in Destroys PROVE Destroying(c)'
    BY <1>1, <2>3 DEF Destroying
  <2> QED BY <2>1, <2>2, <2>3
<1>2. ASSUME NEW t \in Trees, EnsureSettingsWorkspace(t)
      PROVE  IInv'
  <2> USE DEF EnsureSettingsWorkspace, Goto
  <2>1. Typed'
    BY <1>2 DEF Labels
  <2>2. ASSUME NEW u \in Trees PROVE OwnsBranch(u)' /\ Recorded(u)' /\ RolledBack(u)'
    BY <1>2, <2>2 DEF OwnsBranch, Recorded, RolledBack
  <2>3. ASSUME NEW c \in Destroys PROVE Destroying(c)'
    BY <1>2, <2>3 DEF Destroying
  <2> QED BY <2>1, <2>2, <2>3
<1>3. ASSUME NEW t \in Trees, AdoptSettings(t)
      PROVE  IInv'
  <2> USE DEF AdoptSettings, Goto, UpdateSettings
  <2>1. Typed'
    BY <1>3 DEF Labels
  <2>2. ASSUME NEW u \in Trees PROVE OwnsBranch(u)' /\ Recorded(u)' /\ RolledBack(u)'
    BY <1>3, <2>2 DEF OwnsBranch, Recorded, RolledBack
  <2>3. ASSUME NEW c \in Destroys PROVE Destroying(c)'
    BY <1>3, <2>3 DEF Destroying
  <2> QED BY <2>1, <2>2, <2>3
<1>4. ASSUME NEW t \in Trees, ValidateFinalBranch(t)
      PROVE  IInv'
  <2> USE DEF ValidateFinalBranch, Goto
  <2>1. Typed'
    BY <1>4 DEF Labels
  <2>2. ASSUME NEW u \in Trees PROVE OwnsBranch(u)' /\ Recorded(u)' /\ RolledBack(u)'
    BY <1>4, <2>2 DEF OwnsBranch, Recorded, RolledBack
  <2>3. ASSUME NEW c \in Destroys PROVE Destroying(c)'
    BY <1>4, <2>3 DEF Destroying
  <2> QED BY <2>1, <2>2, <2>3
<1>5. ASSUME NEW t \in Trees, AddWorktree(t)
      PROVE  IInv'
  <2> USE DEF AddWorktree, Goto, AddBranch
  <2>1. Typed'
    BY <1>5 DEF Labels
  <2>2. ASSUME NEW u \in Trees PROVE OwnsBranch(u)' /\ Recorded(u)' /\ RolledBack(u)'
    BY <1>5, <2>2 DEF OwnsBranch, Recorded, RolledBack
  <2>3. ASSUME NEW c \in Destroys PROVE Destroying(c)'
    BY <1>5, <2>3 DEF Destroying, Recorded
  <2> QED BY <2>1, <2>2, <2>3
<1>6. ASSUME NEW t \in Trees, AddWorktreeFails(t)
      PROVE  IInv'
  <2> USE DEF AddWorktreeFails, Goto, AddBranch
  <2>1. Typed'
    BY <1>6 DEF Labels, Ended
  <2>2. ASSUME NEW u \in Trees PROVE OwnsBranch(u)' /\ Recorded(u)' /\ RolledBack(u)'
    BY <1>6, <2>2 DEF OwnsBranch, Recorded, RolledBack
  <2>3. ASSUME NEW c \in Destroys PROVE Destroying(c)'
    BY <1>6, <2>3 DEF Destroying, Recorded
  <2> QED BY <2>1, <2>2, <2>3
<1>7. ASSUME NEW t \in Trees, ApplyDirtyMigration(t)
      PROVE  IInv'
  <2> USE DEF ApplyDirtyMigration, Goto
  <2>1. Typed'
    BY <1>7 DEF Labels, Work
  <2>2. ASSUME NEW u \in Trees PROVE OwnsBranch(u)' /\ Recorded(u)' /\ RolledBack(u)'
    BY <1>7, <2>2 DEF OwnsBranch, Recorded, RolledBack
  <2>3. ASSUME NEW c \in Destroys PROVE Destroying(c)'
    BY <1>7, <2>3 DEF Destroying
  <2> QED BY <2>1, <2>2, <2>3
<1>8. ASSUME NEW t \in Trees, GetWorkspace(t)
      PROVE  IInv'
  <2> USE DEF GetWorkspace, Goto
  <2>1. Typed'
    BY <1>8 DEF Labels
  <2>2. ASSUME NEW u \in Trees PROVE OwnsBranch(u)' /\ Recorded(u)' /\ RolledBack(u)'
    BY <1>8, <2>2 DEF OwnsBranch, Recorded, RolledBack
  <2>3. ASSUME NEW c \in Destroys PROVE Destroying(c)'
    BY <1>8, <2>3 DEF Destroying
  <2> QED BY <2>1, <2>2, <2>3
<1>9. ASSUME NEW t \in Trees, CreateManaged(t)
      PROVE  IInv'
  <2> USE DEF CreateManaged, Goto
  <2>1. Typed'
    BY <1>9 DEF Labels, Ended
  <2>2. ASSUME NEW u \in Trees PROVE OwnsBranch(u)' /\ Recorded(u)' /\ RolledBack(u)'
    BY <1>9, <2>2 DEF OwnsBranch, Recorded, RolledBack
  <2>3. ASSUME NEW c \in Destroys PROVE Destroying(c)'
    BY <1>9, <2>3 DEF Destroying, Recorded
  <2> QED BY <2>1, <2>2, <2>3
<1>10. ASSUME NEW t \in Trees, CreateFails(t)
      PROVE  IInv'
  <2> USE DEF CreateFails
  <2>1. Typed'
    BY <1>10 DEF Labels, Ended
  <2>2. ASSUME NEW u \in Trees PROVE OwnsBranch(u)' /\ Recorded(u)' /\ RolledBack(u)'
    BY <1>10, <2>2 DEF OwnsBranch, Recorded, RolledBack
  <2>3. ASSUME NEW c \in Destroys PROVE Destroying(c)'
    BY <1>10, <2>3 DEF Destroying
  <2> QED BY <2>1, <2>2, <2>3
<1>11. ASSUME NEW t \in Trees, UndoWorktree(t)
      PROVE  IInv'
  <2> USE DEF UndoWorktree, Goto, Delete, SourceUsable
  <2>1. Typed'
    BY <1>11 DEF Labels
  <2>2. ASSUME NEW u \in Trees PROVE OwnsBranch(u)' /\ Recorded(u)' /\ RolledBack(u)'
    BY <1>11, <2>2 DEF OwnsBranch, Recorded, RolledBack
  <2>3. ASSUME NEW c \in Destroys PROVE Destroying(c)'
    BY <1>11, <2>3 DEF Destroying
  <2> QED BY <2>1, <2>2, <2>3
<1>12. ASSUME NEW t \in Trees, UndoBranch(t)
      PROVE  IInv'
  <2> USE DEF UndoBranch, Goto, SourceUsable, CheckedOut
  <2>1. Typed'
    BY <1>12 DEF Labels
  <2>2. ASSUME NEW u \in Trees PROVE OwnsBranch(u)' /\ Recorded(u)' /\ RolledBack(u)'
    BY <1>12, <2>2 DEF OwnsBranch, Recorded, RolledBack
  <2>3. ASSUME NEW c \in Destroys PROVE Destroying(c)'
    BY <1>12, <2>3 DEF Destroying
  <2> QED BY <2>1, <2>2, <2>3
<1>13. ASSUME NEW t \in Trees, UndoDirectory(t)
      PROVE  IInv'
  <2> USE DEF UndoDirectory, Goto, Delete
  <2>1. Typed'
    BY <1>13 DEF Labels, Ended
  <2>2. ASSUME NEW u \in Trees PROVE OwnsBranch(u)' /\ Recorded(u)' /\ RolledBack(u)'
    BY <1>13, <2>2 DEF OwnsBranch, Recorded, RolledBack
  <2>3. ASSUME NEW c \in Destroys PROVE Destroying(c)'
    BY <1>13, <2>3 DEF Destroying
  <2> QED BY <2>1, <2>2, <2>3
<1>14. ASSUME NEW d \in Destroys, RequireWriter(d)
      PROVE  IInv'
  <2> USE DEF RequireWriter, Goto
  <2>1. Typed'
    BY <1>14 DEF Labels
  <2>2. ASSUME NEW u \in Trees PROVE OwnsBranch(u)' /\ Recorded(u)' /\ RolledBack(u)'
    BY <1>14, <2>2 DEF OwnsBranch, Recorded, RolledBack
  <2>3. ASSUME NEW c \in Destroys PROVE Destroying(c)'
    BY <1>14, <2>3 DEF Destroying
  <2> QED BY <2>1, <2>2, <2>3
<1>15. ASSUME NEW d \in Destroys, ValidateEnvironment(d)
      PROVE  IInv'
  <2> USE DEF ValidateEnvironment, Goto, Valid
  <2>1. Typed'
    BY <1>15 DEF Labels
  <2>2. ASSUME NEW u \in Trees PROVE OwnsBranch(u)' /\ Recorded(u)' /\ RolledBack(u)'
    BY <1>15, <2>2 DEF OwnsBranch, Recorded, RolledBack
  <2>3. ASSUME NEW c \in Destroys PROVE Destroying(c)'
    BY <1>15, <2>3 DEF Destroying
  <2> QED BY <2>1, <2>2, <2>3
<1>16. ASSUME NEW d \in Destroys, ForcedRetentionCleanupRecovery(d)
      PROVE  IInv'
  <2> USE DEF ForcedRetentionCleanupRecovery, Goto
  <2>1. Typed'
    BY <1>16 DEF Labels
  <2>2. ASSUME NEW u \in Trees PROVE OwnsBranch(u)' /\ Recorded(u)' /\ RolledBack(u)'
    BY <1>16, <2>2 DEF OwnsBranch, Recorded, RolledBack
  <2>3. ASSUME NEW c \in Destroys PROVE Destroying(c)'
    BY <1>16, <2>3 DEF Destroying
  <2> QED BY <2>1, <2>2, <2>3
<1>17. ASSUME NEW d \in Destroys, Safety(d)
      PROVE  IInv'
  <2> USE DEF Safety, Goto, Valid
  <2>1. Typed'
    BY <1>17 DEF Labels
  <2>2. ASSUME NEW u \in Trees PROVE OwnsBranch(u)' /\ Recorded(u)' /\ RolledBack(u)'
    BY <1>17, <2>2 DEF OwnsBranch, Recorded, RolledBack
  <2>3. ASSUME NEW c \in Destroys PROVE Destroying(c)'
    BY <1>17, <2>3 DEF Destroying
  <2> QED BY <2>1, <2>2, <2>3
<1>18. ASSUME NEW d \in Destroys, RemoveWorktree(d)
      PROVE  IInv'
  <2> USE DEF RemoveWorktree, Goto, Delete
  <2>1. Typed'
    BY <1>18 DEF Labels
  <2>2. ASSUME NEW u \in Trees PROVE OwnsBranch(u)' /\ Recorded(u)' /\ RolledBack(u)'
    BY <1>18, <2>2 DEF OwnsBranch, Recorded, RolledBack
  <2>3. ASSUME NEW c \in Destroys PROVE Destroying(c)'
    BY <1>18, <2>3 DEF Destroying
  <2> QED BY <2>1, <2>2, <2>3
<1>19. ASSUME NEW d \in Destroys, RemovalKilled(d)
      PROVE  IInv'
  <2> USE DEF RemovalKilled, Goto
  <2>1. Typed'
    BY <1>19 DEF Labels, Ended
  <2>2. ASSUME NEW u \in Trees PROVE OwnsBranch(u)' /\ Recorded(u)' /\ RolledBack(u)'
    BY <1>19, <2>2 DEF OwnsBranch, Recorded, RolledBack
  <2>3. ASSUME NEW c \in Destroys PROVE Destroying(c)'
    BY <1>19, <2>3 DEF Destroying
  <2> QED BY <2>1, <2>2, <2>3
<1>20. ASSUME NEW d \in Destroys, DestroyFails(d)
      PROVE  IInv'
  <2> USE DEF DestroyFails
  <2>1. Typed'
    BY <1>20 DEF Labels, Ended
  <2>2. ASSUME NEW u \in Trees PROVE OwnsBranch(u)' /\ Recorded(u)' /\ RolledBack(u)'
    BY <1>20, <2>2 DEF OwnsBranch, Recorded, RolledBack
  <2>3. ASSUME NEW c \in Destroys PROVE Destroying(c)'
    BY <1>20, <2>3 DEF Destroying
  <2> QED BY <2>1, <2>2, <2>3
<1>21. ASSUME NEW d \in Destroys, RemoveManaged(d)
      PROVE  IInv'
  <2> USE DEF RemoveManaged, Goto
  <2>1. Typed'
    BY <1>21 DEF Labels, Ended
  <2>2. ASSUME NEW u \in Trees PROVE OwnsBranch(u)' /\ Recorded(u)' /\ RolledBack(u)'
    BY <1>21, <2>2 DEF OwnsBranch, Recorded, RolledBack, Destroying
  <2>3. ASSUME NEW c \in Destroys PROVE Destroying(c)'
    BY <1>21, <2>3 DEF Destroying
  <2> QED BY <2>1, <2>2, <2>3
<1>22. ASSUME NEW d \in Destroys, PruneWorktrees(d)
      PROVE  IInv'
  <2> USE DEF PruneWorktrees, Goto
  <2>1. Typed'
    BY <1>22 DEF Labels, Ended
  <2>2. ASSUME NEW u \in Trees PROVE OwnsBranch(u)' /\ Recorded(u)' /\ RolledBack(u)'
    BY <1>22, <2>2 DEF OwnsBranch, Recorded, RolledBack
  <2>3. ASSUME NEW c \in Destroys PROVE Destroying(c)'
    BY <1>22, <2>3 DEF Destroying
  <2> QED BY <2>1, <2>2, <2>3
<1>23. CASE AdminUpdatesSettings
  <2> USE DEF AdminUpdatesSettings, UpdateSettings
  <2>1. Typed'
    BY <1>23, Bounded
  <2>2. ASSUME NEW u \in Trees PROVE OwnsBranch(u)' /\ Recorded(u)' /\ RolledBack(u)'
    BY <1>23, <2>2 DEF OwnsBranch, Recorded, RolledBack
  <2>3. ASSUME NEW c \in Destroys PROVE Destroying(c)'
    BY <1>23, <2>3 DEF Destroying
  <2> QED BY <2>1, <2>2, <2>3
<1>24. CASE RemoveWorkspace
  <2> USE DEF RemoveWorkspace
  <2>1. Typed'
    BY <1>24, Bounded
  <2>2. ASSUME NEW u \in Trees PROVE OwnsBranch(u)' /\ Recorded(u)' /\ RolledBack(u)'
    BY <1>24, <2>2 DEF OwnsBranch, Recorded, RolledBack
  <2>3. ASSUME NEW c \in Destroys PROVE Destroying(c)'
    BY <1>24, <2>3 DEF Destroying
  <2> QED BY <2>1, <2>2, <2>3
<1>25. CASE Crash
  <2> USE DEF Crash
  <2>1. Typed'
    BY <1>25, Bounded DEF Labels, Ended
  <2>2. ASSUME NEW u \in Trees PROVE OwnsBranch(u)' /\ Recorded(u)' /\ RolledBack(u)'
    BY <1>25, <2>2 DEF OwnsBranch, Recorded, RolledBack, Ended
  <2>3. ASSUME NEW c \in Destroys PROVE Destroying(c)'
    BY <1>25, <2>3 DEF Destroying
  <2> QED BY <2>1, <2>2, <2>3
<1>26. ASSUME NEW b \in Branches, UsersBranch(b)
      PROVE  IInv'
  <2> USE DEF UsersBranch
  <2>1. Typed'
    BY <1>26, Bounded
  <2>2. ASSUME NEW u \in Trees PROVE OwnsBranch(u)' /\ Recorded(u)' /\ RolledBack(u)'
    BY <1>26, <2>2 DEF OwnsBranch, Recorded, RolledBack
  <2>3. ASSUME NEW c \in Destroys PROVE Destroying(c)'
    BY <1>26, <2>3 DEF Destroying
  <2> QED BY <2>1, <2>2, <2>3
<1>27. ASSUME NEW t \in Trees, LeaseEnds(t)
      PROVE  IInv'
  <2> USE DEF LeaseEnds
  <2>1. Typed'
    BY <1>27, Bounded
  <2>2. ASSUME NEW u \in Trees PROVE OwnsBranch(u)' /\ Recorded(u)' /\ RolledBack(u)'
    BY <1>27, <2>2 DEF OwnsBranch, Recorded, RolledBack
  <2>3. ASSUME NEW c \in Destroys PROVE Destroying(c)'
    BY <1>27, <2>3 DEF Destroying
  <2> QED BY <2>1, <2>2, <2>3
<1>28. ASSUME NEW t \in Trees, WorkInside(t)
      PROVE  IInv'
  <2> USE DEF WorkInside
  <2>1. Typed'
    BY <1>28, Bounded
  <2>2. ASSUME NEW u \in Trees PROVE OwnsBranch(u)' /\ Recorded(u)' /\ RolledBack(u)'
    BY <1>28, <2>2 DEF OwnsBranch, Recorded, RolledBack
  <2>3. ASSUME NEW c \in Destroys PROVE Destroying(c)'
    BY <1>28, <2>3 DEF Destroying
  <2> QED BY <2>1, <2>2, <2>3
<1>29. ASSUME NEW t \in Trees, SwitchBranch(t)
      PROVE  IInv'
  <2> USE DEF SwitchBranch
  <2>1. Typed'
    BY <1>29, Bounded
  <2>2. ASSUME NEW u \in Trees PROVE OwnsBranch(u)' /\ Recorded(u)' /\ RolledBack(u)'
    BY <1>29, <2>2 DEF OwnsBranch, Recorded, RolledBack
  <2>3. ASSUME NEW c \in Destroys PROVE Destroying(c)'
    BY <1>29, <2>3 DEF Destroying
  <2> QED BY <2>1, <2>2, <2>3
<1>30. ASSUME NEW t \in Trees, LoseWorktree(t)
      PROVE  IInv'
  <2> USE DEF LoseWorktree, Delete
  <2>1. Typed'
    BY <1>30, Bounded
  <2>2. ASSUME NEW u \in Trees PROVE OwnsBranch(u)' /\ Recorded(u)' /\ RolledBack(u)'
    BY <1>30, <2>2 DEF OwnsBranch, Recorded, RolledBack
  <2>3. ASSUME NEW c \in Destroys PROVE Destroying(c)'
    BY <1>30, <2>3 DEF Destroying
  <2> QED BY <2>1, <2>2, <2>3
<1>31. ASSUME NEW t \in Trees, NEW o \in Owners, AcquireWriter(t, o)
      PROVE  IInv'
  <2> USE DEF AcquireWriter
  <2>1. Typed'
    BY <1>31
  <2>2. ASSUME NEW u \in Trees PROVE OwnsBranch(u)' /\ Recorded(u)' /\ RolledBack(u)'
    BY <1>31, <2>2 DEF OwnsBranch, Recorded, RolledBack
  <2>3. ASSUME NEW c \in Destroys PROVE Destroying(c)'
    BY <1>31, <2>3 DEF Destroying
  <2> QED BY <2>1, <2>2, <2>3
<1>32. CASE UNCHANGED vars
  BY <1>32 DEF vars, OwnsBranch, Recorded, RolledBack, Destroying
<1> QED
  BY <1>1, <1>2, <1>3, <1>4, <1>5, <1>6, <1>7, <1>8, <1>9, <1>10, <1>11, <1>12,
     <1>13, <1>14, <1>15, <1>16, <1>17, <1>18, <1>19, <1>20, <1>21, <1>22, <1>23, <1>24,
     <1>25, <1>26, <1>27, <1>28, <1>29, <1>30, <1>31, <1>32
  DEF Next, Create, Destroy, Outside

(* Every state of the requests satisfies it.                               *)
LEMMA Invariance == Spec => []IInv
  BY Initially, Inductive, PTL DEF Spec

(* Every variable has its type in every state.                             *)
THEOREM TypeCorrect == Spec => []TypeOK
<1>1. IInv => TypeOK
  BY DEF IInv, Typed
<1> QED BY <1>1, Invariance, PTL

(* The branch of a recorded Environment is kept, whoever destroys it and   *)
(* whichever creates want its name (the rollback of createWithRetention).  *)
THEOREM BranchesRetained == Spec => []RetainedBranchKept
<1>1. IInv => RetainedBranchKept
  BY DEF IInv, OwnsBranch, Recorded, RetainedBranchKept
<1> QED BY <1>1, Invariance, PTL

(* A rollback that works in a Workspace leaves nothing of its create.      *)
THEOREM RollbacksComplete == Spec => []RollbackLeavesNothing
<1>1. IInv => RollbackLeavesNothing
  BY DEF IInv, RolledBack, RollbackLeavesNothing, LeavesNothing
<1> QED BY <1>1, Invariance, PTL

(* A record goes only after its worktree, whichever destroys race.         *)
THEOREM NothingForgotten == Spec => []DestroyedLeavesNoWorktree
<1>1. IInv => DestroyedLeavesNoWorktree
  BY DEF IInv, Recorded, DestroyedLeavesNoWorktree
<1> QED BY <1>1, Invariance, PTL

(* The steps that touch a branch: git worktree add makes one, a rollback   *)
(* deletes the one of its request, and users of git make theirs.           *)
LEMMA MakerSteps ==
  ASSUME [Next]_vars
  PROVE  \/ maker' = maker
         \/ \E t \in Trees : AddWorktree(t) \/ AddWorktreeFails(t) \/ UndoBranch(t)
         \/ \E b \in Branches : UsersBranch(b)
<1> USE DEF diskVars
<1>1. ASSUME NEW d \in Destroys, Destroy(d) PROVE maker' = maker
  BY <1>1 DEF Destroy, RequireWriter, ValidateEnvironment, ForcedRetentionCleanupRecovery, Safety,
              RemoveWorktree, RemovalKilled, DestroyFails, RemoveManaged, PruneWorktrees
<1>2. ASSUME NEW t \in Trees, Create(t)
      PROVE  maker' = maker \/ AddWorktree(t) \/ AddWorktreeFails(t) \/ UndoBranch(t)
  BY <1>2 DEF Create, BeginCreate, EnsureSettingsWorkspace, AdoptSettings, ValidateFinalBranch,
              ApplyDirtyMigration, GetWorkspace, CreateManaged, CreateFails, UndoWorktree,
              UndoDirectory
<1>3. ASSUME Outside PROVE maker' = maker \/ \E b \in Branches : UsersBranch(b)
  BY <1>3 DEF Outside, AdminUpdatesSettings, RemoveWorkspace, Crash, LeaseEnds, WorkInside,
              SwitchBranch, LoseWorktree, AcquireWriter
<1> QED BY <1>1, <1>2, <1>3 DEF Next, vars

(* No step deletes a branch that a user of git made.                       *)
THEOREM UsersBranchesSafe == Spec => UsersBranchesKept
<1>1. ASSUME IInv, [Next]_vars, NEW b \in Branches, maker[b] = Users
      PROVE  maker'[b] = Users
  <2> USE DEF IInv, Typed, TypeOK
  <2>1. ASSUME NEW t \in Trees, AddWorktree(t) \/ AddWorktreeFails(t) PROVE maker'[b] = Users
    BY <1>1, <2>1 DEF AddWorktree, AddWorktreeFails, AddBranch
  <2>2. ASSUME NEW t \in Trees, UndoBranch(t) PROVE maker'[b] = Users
    BY <1>1, <2>2 DEF UndoBranch, Goto, OwnsBranch
  <2>3. ASSUME NEW c \in Branches, UsersBranch(c) PROVE maker'[b] = Users
    BY <1>1, <2>3 DEF UsersBranch
  <2> QED BY <1>1, <2>1, <2>2, <2>3, MakerSteps
<1>2. IInv /\ [Next]_vars
      => [\A b \in Branches : maker[b] = Users => maker'[b] = Users]_vars
  BY <1>1
<1> QED BY <1>2, Invariance, PTL DEF Spec, UsersBranchesKept

(* The steps that touch a directory: creates, rollbacks and removals of    *)
(* git, and somebody who loses one.                                        *)
LEMMA DirSteps ==
  ASSUME [Next]_vars
  PROVE  \/ dir' = dir
         \/ \E t \in Trees : \/ AddWorktree(t) \/ AddWorktreeFails(t) \/ UndoWorktree(t)
                            \/ UndoDirectory(t) \/ LoseWorktree(t)
         \/ \E d \in Destroys : RemoveWorktree(d) \/ RemovalKilled(d)
<1> USE DEF diskVars
<1>1. ASSUME NEW d \in Destroys, Destroy(d) PROVE dir' = dir \/ RemoveWorktree(d) \/ RemovalKilled(d)
  BY <1>1 DEF Destroy, RequireWriter, ValidateEnvironment, ForcedRetentionCleanupRecovery, Safety,
              DestroyFails, RemoveManaged, PruneWorktrees
<1>2. ASSUME NEW t \in Trees, Create(t)
      PROVE  dir' = dir \/ AddWorktree(t) \/ AddWorktreeFails(t) \/ UndoWorktree(t) \/ UndoDirectory(t)
  BY <1>2 DEF Create, BeginCreate, EnsureSettingsWorkspace, AdoptSettings, ValidateFinalBranch,
              ApplyDirtyMigration, GetWorkspace, CreateManaged, CreateFails, UndoBranch
<1>3. ASSUME Outside PROVE dir' = dir \/ \E t \in Trees : LoseWorktree(t)
  BY <1>3 DEF Outside, AdminUpdatesSettings, RemoveWorkspace, Crash, LeaseEnds, WorkInside,
              SwitchBranch, UsersBranch, AcquireWriter
<1> QED BY <1>1, <1>2, <1>3 DEF Next, vars

(* No step deletes a directory that is no worktree any more while it is    *)
(* recorded (destroy and its recovery modes).                              *)
THEOREM ForeignContentsSafe == Spec => ForeignContentsKept
<1>1. ASSUME IInv, [Next]_vars, NEW t \in Trees, dir[t] = "foreign", record[t] = "present"
      PROVE  dir'[t] = "foreign"
  <2> USE DEF IInv, Typed, TypeOK
  <2>1. ASSUME NEW u \in Trees,
               AddWorktree(u) \/ AddWorktreeFails(u) \/ UndoWorktree(u) \/ UndoDirectory(u)
        PROVE  dir'[t] = "foreign"
    <3>1. u # t
      BY <1>1, <2>1 DEF AddWorktree, AddWorktreeFails, UndoWorktree, UndoDirectory, Goto, Recorded
    <3> QED
      BY <1>1, <2>1, <3>1 DEF AddWorktree, AddWorktreeFails, UndoWorktree, UndoDirectory, Delete
  <2>2. ASSUME NEW u \in Trees, LoseWorktree(u) PROVE dir'[t] = "foreign"
    BY <1>1, <2>2 DEF LoseWorktree, Delete
  <2>3. ASSUME NEW d \in Destroys, RemoveWorktree(d) \/ RemovalKilled(d) PROVE dir'[t] = "foreign"
    BY <1>1, <2>3 DEF RemoveWorktree, RemovalKilled, Delete
  <2> QED BY <1>1, <2>1, <2>2, <2>3, DirSteps
<1>2. IInv /\ [Next]_vars
      => [\A t \in Trees : dir[t] = "foreign" /\ record[t] = "present" => dir'[t] = "foreign"]_vars
  BY <1>1
<1> QED BY <1>2, Invariance, PTL DEF Spec, ForeignContentsKept

(* What a destroy removes lies below the root configured at that moment    *)
(* (UpdateSettings against destroy).                                       *)
THEOREM RemovalsInsideRoot == Spec => RemovesOnlyInsideRoot
<1>1. ASSUME IInv, [Next]_vars, NEW d \in Destroys, RemovesNow(d), dir[target[d]] = "worktree"
      PROVE  place[target[d]] = settings
  BY <1>1 DEF IInv, Typed, TypeOK, RemovesNow, Destroying, Recorded
<1>2. IInv /\ [Next]_vars
      => [\A d \in Destroys :
            RemovesNow(d) /\ dir[target[d]] = "worktree" => place[target[d]] = settings]_vars
  BY <1>1
<1> QED BY <1>2, Invariance, PTL DEF Spec, RemovesOnlyInsideRoot
==============================================================================
