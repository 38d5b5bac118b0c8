---------------------------- MODULE ManagedWorktree ----------------------------
(***************************************************************************)
(* Managed worktrees (internal/isolation): a create makes a git branch and *)
(* a git worktree and then records an Environment; a destroy checks, lets  *)
(* git remove the worktree and then removes the record.  Every git command *)
(* and every store.Update is a step of its own; only the record is under   *)
(* the store's mutex, the directories and branches are everybody's.        *)
(*                                                                         *)
(* t stands for the managed worktree, its Environment and the request that *)
(* creates it: identities are never reused.  Git itself is modelled by     *)
(* what worktree add, worktree remove, branch -D and prune do or refuse.   *)
(***************************************************************************)
EXTENDS Naturals

CONSTANTS
    Trees,        \* managed worktrees, one create request each
    Destroys,     \* destroy requests
    Owners,       \* writer owners
    Branches,     \* final branch names, prefix included
    Roots,        \* directories an administrator may configure as worktree root
    Workspace,    \* the source of a create that names no source Environment
    NoBranch, Users, NoOwner, NoRoot,   \* what a branch, a lease, a place is not
    MaxOutside    \* BOUND: how often somebody else, or a crash, interferes

ASSUME WorktreeAssumption ==
    /\ Trees \cap (Destroys \cup {Workspace, NoBranch, Users}) = {}
    /\ NoBranch # Users /\ NoOwner \notin Owners /\ NoRoot \notin Roots
    /\ MaxOutside \in Nat

Work == {"dirty", "ignored", "unpublished"}

VARIABLES
    source, branch,      \* each create's source Environment (or Workspace) and branch
    target, owner, force, retention,    \* each destroy's arguments
    settings, adopted,   \* configured root; its system Workspace is registered
    workspace,           \* the Workspace of the creates is in the state file
    record,              \* Environment and ManagedWorktree: "none", "present", "removed"
    lease,               \* the writer lease of each Environment
    place,               \* the root below which each worktree was placed
    dir,                 \* what lies there: "absent", "worktree" or "foreign"
    listed,              \* git's list of worktrees in the common directory
    head,                \* its branch: its "own" or some "other"
    work,                \* what its directory holds that a removal would lose
    maker,               \* who made each branch
    pc,                  \* how far each request got
    outside              \* interferences so far

requestVars == <<source, branch, target, owner, force, retention>>
stateVars == <<settings, adopted, workspace, record, lease>>
diskVars == <<place, dir, listed, head, work, maker>>
vars == <<requestVars, stateVars, diskVars, pc, outside>>

Requests == Trees \cup Destroys
Ended == {"created", "rolledBack", "refused", "failed", "destroyed", "crashed"}
------------------------------------------------------------------------------
Init ==
    /\ source \in [Trees -> Trees \cup {Workspace}] /\ branch \in [Trees -> Branches]
    /\ \A t \in Trees : source[t] # t
    /\ target \in [Destroys -> Trees] /\ owner \in [Destroys -> Owners]
    /\ force \in [Destroys -> BOOLEAN] /\ retention \in [Destroys -> BOOLEAN]
    /\ settings \in Roots /\ adopted \in BOOLEAN /\ workspace = TRUE
    /\ record = [t \in Trees |-> "none"]
    /\ lease = [t \in Trees |-> NoOwner]
    /\ place = [t \in Trees |-> NoRoot]
    /\ dir = [t \in Trees |-> "absent"]
    /\ listed = {}
    /\ head = [t \in Trees |-> "own"]
    /\ work = [t \in Trees |-> {}]
    /\ maker \in [Branches -> {NoBranch, Users}]
    /\ pc = [r \in Requests |-> "idle"]
    /\ outside = 0

Goto(r, from, to) == pc[r] = from /\ pc' = [pc EXCEPT ![r] = to]

\* git -C sourceRoot works: a Workspace's checkout is nobody's to destroy here.
SourceUsable(t) == source[t] # Workspace => dir[source[t]] = "worktree"

\* git refuses to delete a branch that a listed worktree has checked out.
CheckedOut(b) == \E t \in listed : branch[t] = b /\ head[t] = "own"

\* The worktree's directory goes with what it holds.
Delete(t) ==
    /\ dir' = [dir EXCEPT ![t] = "absent"]
    /\ work' = [work EXCEPT ![t] = {}]
------------------------------------------------------------------------------
(* createWithRetention.                                                    *)
\* The source is read and its base commit resolved.
BeginCreate(t) ==
    /\ workspace
    /\ source[t] # Workspace => record[source[t]] = "present"
    /\ SourceUsable(t)
    /\ Goto(t, "idle", "settling")
    /\ UNCHANGED <<requestVars, stateVars, diskVars, outside>>

\* ensureSettingsWorkspace loads the settings ...
EnsureSettingsWorkspace(t) ==
    /\ Goto(t, "settling", IF adopted THEN "naming" ELSE "adopting")
    /\ place' = [place EXCEPT ![t] = settings]
    /\ UNCHANGED <<requestVars, stateVars, outside, dir, listed, head, work, maker>>

\* Mutant: the root may change under recorded worktrees.
UpdateAnyTime(root) ==
    /\ settings' = root /\ adopted' = TRUE
    /\ UNCHANGED <<workspace, record, lease>>

UpdateSettings(root) ==
    /\ root = settings \/ \A t \in Trees : record[t] # "present"
    /\ settings' = root /\ adopted' = TRUE
    /\ UNCHANGED <<workspace, record, lease>>

\* ... and registers the root it read when it is not registered.
AdoptSettings(t) ==
    /\ Goto(t, "adopting", "naming")
    /\ UpdateSettings(place[t])
    /\ UNCHANGED <<requestVars, diskVars, outside>>

ValidateFinalBranch(t) ==
    /\ SourceUsable(t) /\ maker[branch[t]] = NoBranch
    /\ Goto(t, "naming", "adding")
    /\ UNCHANGED <<requestVars, stateVars, diskVars, outside>>

AddBranch(t) == maker' = [maker EXCEPT ![branch[t]] = t]

\* git worktree add -b
AddWorktree(t) ==
    /\ SourceUsable(t) /\ maker[branch[t]] = NoBranch
    /\ Goto(t, "adding", "added")
    /\ AddBranch(t)
    /\ dir' = [dir EXCEPT ![t] = "worktree"]
    /\ listed' = listed \cup {t}
    /\ UNCHANGED <<requestVars, stateVars, outside, place, head, work>>

\* Mutant: the rollback is armed before git worktree add has succeeded.
AddWorktreeFailsArmed(t) ==
    /\ Goto(t, "adding", "undoingWorktree")
    /\ UNCHANGED <<requestVars, stateVars, diskVars, outside>>

\* A failed or killed one: git makes the branch first and the worktree next,
\* and removes neither when it is killed.  The rollback is not armed yet.
AddWorktreeFails(t) ==
    /\ Goto(t, "adding", "failed")
    /\ \/ UNCHANGED <<dir, listed, maker>>
       \/ /\ SourceUsable(t) /\ maker[branch[t]] = NoBranch
          /\ AddBranch(t)
          /\ \/ UNCHANGED <<dir, listed>>
             \/ /\ dir' = [dir EXCEPT ![t] = "worktree"]
                /\ listed' = listed \cup {t}
    /\ UNCHANGED <<requestVars, stateVars, outside, place, head, work>>

\* applyDirtyMigration, or nothing to migrate.
ApplyDirtyMigration(t) ==
    /\ Goto(t, "added", "checking")
    /\ \E w \in SUBSET {"dirty"} : work' = [work EXCEPT ![t] = w]
    /\ UNCHANGED <<requestVars, stateVars, outside, place, dir, listed, head, maker>>

\* CreateManagedWithRetention reads the Workspace ...
GetWorkspace(t) ==
    /\ workspace
    /\ Goto(t, "checking", "recording")
    /\ UNCHANGED <<requestVars, stateVars, diskVars, outside>>

\* ... and later records, provided the source Environment is still there.
CreateManaged(t) ==
    /\ source[t] # Workspace => record[source[t]] = "present"
    /\ Goto(t, "recording", "created")
    /\ record' = [record EXCEPT ![t] = "present"]
    /\ UNCHANGED <<requestVars, diskVars, outside, settings, adopted, workspace, lease>>

\* Before the worktree exists an error ends the request; afterwards any error
\* (a migration conflict, a missing Workspace or source, a failed save) makes
\* the deferred function roll back.
CreateFails(t) ==
    /\ \/ pc[t] \in {"settling", "adopting", "naming"} /\ pc' = [pc EXCEPT ![t] = "refused"]
       \/ /\ pc[t] \in {"added", "checking", "recording"}
          /\ pc' = [pc EXCEPT ![t] = "undoingWorktree"]
    /\ UNCHANGED <<requestVars, stateVars, diskVars, outside>>

\* Mutant: without --force, which git refuses once changes were migrated.
UndoCleanWorktree(t) ==
    /\ Goto(t, "undoingWorktree", "undoingBranch")
    /\ IF SourceUsable(t) /\ t \in listed /\ work[t] = {}
       THEN Delete(t) /\ listed' = listed \ {t}
       ELSE UNCHANGED <<dir, work, listed>>
    /\ UNCHANGED <<requestVars, stateVars, outside, place, head, maker>>

\* The rollback: git worktree remove --force, git branch -D, os.RemoveAll.
UndoWorktree(t) ==
    /\ Goto(t, "undoingWorktree", "undoingBranch")
    /\ IF SourceUsable(t) /\ t \in listed
       THEN Delete(t) /\ listed' = listed \ {t}
       ELSE UNCHANGED <<dir, work, listed>>
    /\ UNCHANGED <<requestVars, stateVars, outside, place, head, maker>>

UndoBranch(t) ==
    /\ Goto(t, "undoingBranch", "undoingDirectory")
    /\ maker' = IF SourceUsable(t) /\ ~CheckedOut(branch[t])
                THEN [maker EXCEPT ![branch[t]] = NoBranch] ELSE maker
    /\ UNCHANGED <<requestVars, stateVars, outside, place, dir, listed, head, work>>

UndoDirectory(t) ==
    /\ Goto(t, "undoingDirectory", "rolledBack")
    /\ Delete(t)
    /\ UNCHANGED <<requestVars, stateVars, outside, place, listed, head, maker>>
------------------------------------------------------------------------------
(* destroy.                                                                *)
RequireWriter(d) ==
    /\ record[target[d]] = "present" /\ lease[target[d]] = owner[d]
    /\ Goto(d, "idle", "validating")
    /\ UNCHANGED <<requestVars, stateVars, diskVars, outside>>

\* ValidateEnvironment
Valid(t) ==
    /\ workspace /\ record[t] = "present" /\ place[t] = settings
    /\ dir[t] = "worktree" /\ head[t] = "own"

ValidateEnvironment(d) ==
    /\ Goto(d, "validating", IF Valid(target[d]) THEN "inspecting" ELSE "recovering")
    /\ Valid(target[d]) \/ (force[d] /\ retention[d])
    /\ UNCHANGED <<requestVars, stateVars, diskVars, outside>>

\* Mutant: whatever lies at the root is removed with the record.
RecoverByRemoving(d) ==
    LET t == target[d] IN
    /\ record[t] = "present" /\ place[t] = settings /\ dir[t] # "worktree"
    /\ Goto(d, "recovering", "detaching")
    /\ Delete(t)
    /\ UNCHANGED <<requestVars, stateVars, outside, place, listed, head, maker>>

\* Only the record goes when the worktree is missing or is none any more; a
\* worktree on another branch is removed.
ForcedRetentionCleanupRecovery(d) ==
    LET t == target[d] IN
    /\ record[t] = "present" /\ place[t] = settings
    /\ \/ dir[t] # "worktree" /\ Goto(d, "recovering", "detaching")
       \/ dir[t] = "worktree" /\ head[t] = "other" /\ Goto(d, "recovering", "removing")
    /\ UNCHANGED <<requestVars, stateVars, diskVars, outside>>

\* safety validates again and reads what a removal would lose; a retention
\* cleanup does not ask about publication.
Safety(d) ==
    /\ Valid(target[d])
    /\ force[d] \/ work[target[d]] \subseteq IF retention[d] THEN {"unpublished"} ELSE {}
    /\ Goto(d, "inspecting", "removing")
    /\ UNCHANGED <<requestVars, stateVars, diskVars, outside>>

\* Mutant: an error of git worktree remove does not end the request.
RemoveIgnoringErrors(d) ==
    LET t == target[d] IN
    /\ Goto(d, "removing", "unrecording")
    /\ IF t \in listed /\ dir[t] # "foreign" /\ (force[d] \/ "dirty" \notin work[t])
       THEN Delete(t) /\ listed' = listed \ {t}
       ELSE UNCHANGED <<dir, work, listed>>
    /\ UNCHANGED <<requestVars, stateVars, outside, place, head, maker>>

\* git worktree remove [--force]: without it git looks at tracked and at
\* untracked files, not at ignored ones.
RemoveWorktree(d) ==
    LET t == target[d] IN
    /\ t \in listed /\ dir[t] # "foreign"
    /\ force[d] \/ "dirty" \notin work[t]
    /\ Goto(d, "removing", "unrecording")
    /\ Delete(t)
    /\ listed' = listed \ {t}
    /\ UNCHANGED <<requestVars, stateVars, outside, place, head, maker>>

\* Killed in between, it has deleted some files, or all, and not unlisted it.
RemovalKilled(d) ==
    LET t == target[d] IN
    /\ t \in listed /\ dir[t] = "worktree"
    /\ force[d] \/ "dirty" \notin work[t]
    /\ Goto(d, "removing", "failed")
    /\ \E left \in {"absent", "foreign"} : dir' = [dir EXCEPT ![t] = left]
    /\ work' = [work EXCEPT ![t] = {}]
    /\ UNCHANGED <<requestVars, stateVars, outside, place, listed, head, maker>>

\* An error, a refusal or a cancelled context ends the request where it is.
DestroyFails(d) ==
    /\ pc[d] \in {"validating", "recovering", "inspecting", "removing", "unrecording", "detaching"}
    /\ pc' = [pc EXCEPT ![d] = "refused"]
    /\ UNCHANGED <<requestVars, stateVars, diskVars, outside>>

RemoveManaged(d) ==
    LET t == target[d] IN
    /\ record[t] = "present"
    /\ \/ Goto(d, "unrecording", "destroyed")
       \/ Goto(d, "detaching", "pruning")
    /\ record' = [record EXCEPT ![t] = "removed"]
    /\ lease' = [lease EXCEPT ![t] = NoOwner]
    /\ UNCHANGED <<requestVars, diskVars, outside, settings, adopted, workspace>>

\* git worktree prune unlists every worktree whose files are gone.
PruneWorktrees(d) ==
    /\ Goto(d, "pruning", "destroyed")
    /\ listed' = {t \in listed : dir[t] = "worktree"}
    /\ UNCHANGED <<requestVars, stateVars, outside, place, dir, head, work, maker>>
------------------------------------------------------------------------------
(* Everybody else.                                                         *)
Interferes == outside < MaxOutside /\ outside' = outside + 1

AdminUpdatesSettings ==
    /\ Interferes
    /\ \E root \in Roots : UpdateSettings(root)
    /\ UNCHANGED <<requestVars, diskVars, pc>>

\* workspace Remove: refused while an Environment refers to it.
RemoveWorkspace ==
    /\ Interferes
    /\ workspace /\ \A t \in Trees : record[t] # "present"
    /\ workspace' = FALSE
    /\ UNCHANGED <<requestVars, diskVars, pc, settings, adopted, record, lease>>

\* Leases come and go by WriterLease; the first grant is not an interference.
AcquireWriter(t, o) ==
    /\ record[t] = "present" /\ lease[t] = NoOwner
    /\ lease' = [lease EXCEPT ![t] = o]
    /\ UNCHANGED <<requestVars, diskVars, pc, outside, settings, adopted, workspace, record>>

LeaseEnds(t) ==
    /\ Interferes
    /\ lease[t] # NoOwner
    /\ lease' = [lease EXCEPT ![t] = NoOwner]
    /\ UNCHANGED <<requestVars, diskVars, pc, settings, adopted, workspace, record>>

\* A command, an agent or a human works in the worktree of an Environment.
WorkInside(t) ==
    /\ Interferes
    /\ record[t] = "present" /\ dir[t] = "worktree"
    /\ \E w \in SUBSET Work : work' = [work EXCEPT ![t] = w]
    /\ UNCHANGED <<requestVars, stateVars, pc, place, dir, listed, head, maker>>

SwitchBranch(t) ==
    /\ Interferes
    /\ record[t] = "present" /\ dir[t] = "worktree"
    /\ head' = [head EXCEPT ![t] = IF @ = "own" THEN "other" ELSE "own"]
    /\ UNCHANGED <<requestVars, stateVars, pc, place, dir, listed, work, maker>>

\* Somebody deletes the directory, or its .git file.
LoseWorktree(t) ==
    /\ Interferes
    /\ record[t] = "present" /\ dir[t] = "worktree"
    /\ \/ dir' = [dir EXCEPT ![t] = "foreign"] /\ UNCHANGED work
       \/ Delete(t)
    /\ UNCHANGED <<requestVars, stateVars, pc, place, listed, head, maker>>

UsersBranch(b) ==
    /\ Interferes
    /\ maker[b] = NoBranch
    /\ maker' = [maker EXCEPT ![b] = Users]
    /\ UNCHANGED <<requestVars, stateVars, pc, place, dir, listed, head, work>>

\* The Gateway, or the command line, ends with its requests where they are.
Crash ==
    /\ Interferes
    /\ pc' = [r \in Requests |-> IF pc[r] \in Ended \cup {"idle"} THEN pc[r] ELSE "crashed"]
    /\ UNCHANGED <<requestVars, stateVars, diskVars>>
------------------------------------------------------------------------------
Create(t) ==
    \/ BeginCreate(t) \/ EnsureSettingsWorkspace(t) \/ AdoptSettings(t)
    \/ ValidateFinalBranch(t) \/ AddWorktree(t) \/ AddWorktreeFails(t)
    \/ ApplyDirtyMigration(t) \/ GetWorkspace(t) \/ CreateManaged(t) \/ CreateFails(t)
    \/ UndoWorktree(t) \/ UndoBranch(t) \/ UndoDirectory(t)

Destroy(d) ==
    \/ RequireWriter(d) \/ ValidateEnvironment(d) \/ ForcedRetentionCleanupRecovery(d)
    \/ Safety(d) \/ RemoveWorktree(d) \/ RemovalKilled(d) \/ DestroyFails(d)
    \/ RemoveManaged(d) \/ PruneWorktrees(d)

Outside ==
    \/ AdminUpdatesSettings \/ RemoveWorkspace \/ Crash
    \/ \E b \in Branches : UsersBranch(b)
    \/ \E t \in Trees :
          \/ LeaseEnds(t) \/ WorkInside(t) \/ SwitchBranch(t) \/ LoseWorktree(t)
          \/ \E o \in Owners : AcquireWriter(t, o)

Next == (\E t \in Trees : Create(t)) \/ (\E d \in Destroys : Destroy(d)) \/ Outside

Spec == Init /\ [][Next]_vars
------------------------------------------------------------------------------
TypeOK ==
    /\ settings \in Roots /\ adopted \in BOOLEAN /\ workspace \in BOOLEAN
    /\ record \in [Trees -> {"none", "present", "removed"}]
    /\ lease \in [Trees -> Owners \cup {NoOwner}]
    /\ place \in [Trees -> Roots \cup {NoRoot}]
    /\ dir \in [Trees -> {"absent", "worktree", "foreign"}]
    /\ listed \subseteq Trees /\ head \in [Trees -> {"own", "other"}]
    /\ work \in [Trees -> SUBSET Work]
    /\ maker \in [Branches -> Trees \cup {NoBranch, Users}]
    /\ outside \in 0 .. MaxOutside
    /\ \A t \in Trees : record[t] # "present" => lease[t] = NoOwner

(* The branch of every Environment that was ever recorded is still there,  *)
(* also when it was destroyed and others race for its name: destroy keeps  *)
(* it, and a rollback deletes only the branch its own request made.        *)
RetainedBranchKept == \A t \in Trees : record[t] # "none" => maker[branch[t]] = t

(* No rollback deletes a branch that somebody else made.                   *)
UsersBranchesKept ==
    [][\A b \in Branches : maker[b] = Users => maker'[b] = Users]_vars

(* A rollback that ran to its end left neither directory nor branch nor an *)
(* entry in git's list, when the source it works in is a Workspace.        *)
LeavesNothing(t) == dir[t] = "absent" /\ maker[branch[t]] # t /\ t \notin listed
RollbackLeavesNothing ==
    \A t \in Trees : pc[t] = "rolledBack" /\ source[t] = Workspace => LeavesNothing(t)

(* A directory that is no worktree any more is never deleted as long as an *)
(* Environment is recorded for it: its contents are not ADM's.             *)
ForeignContentsKept ==
    [][\A t \in Trees : dir[t] = "foreign" /\ record[t] = "present" => dir'[t] = "foreign"]_vars

(* No record is removed while its worktree is still there: nothing that    *)
(* ADM made is forgotten by a destroy, whichever two of them race.         *)
DestroyedLeavesNoWorktree ==
    \A t \in Trees : record[t] = "removed" => dir[t] # "worktree"

RemovesNow(d) == pc[d] = "removing" /\ pc'[d] = "unrecording"

(* ForcedRetentionCleanupRecovery's comment, which holds for every destroy *)
(* at the moment it removes something: the root is inside the worktree     *)
(* root configured then.                                                   *)
RemovesOnlyInsideRoot ==
    [][\A d \in Destroys :
          RemovesNow(d) /\ dir[target[d]] = "worktree" => place[target[d]] = settings]_vars

==============================================================================
