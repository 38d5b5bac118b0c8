----------------------------- MODULE GuardedCalls -----------------------------
(***************************************************************************)
(* The calls that change one Environment, under its writer lease:          *)
(* internal/app/service.go (Write, Edit, Delete, Exec, RunVerifier,        *)
(* GitCommit), app/git_workflow.go (withGitWriter) and what they do to the *)
(* directory and its Git repository (internal/runtime).  Every call asks   *)
(* for the lease, which renews it, builds a Runtime with the policy of     *)
(* that moment, acts, and touches the lease.  Commands and Git mutations   *)
(* renew it by a heartbeat meanwhile and are canceled when that fails; the *)
(* file operations and GitCommit do not look at it until the end.          *)
(*                                                                         *)
(* The lease is seen through the clock of the process: the ticks it has    *)
(* left.  The directory is one file, as the number of the change that made *)
(* its contents, and the temporary files of the writes under way.          *)
(* BOUND: a cherry-pick or a merge brings in one commit.                   *)
(***************************************************************************)
EXTENDS ExecPolicy

CONSTANTS
    Calls,       \* BOUND: each is made once
    Owners,
    TTL,         \* writerLeaseTTL, in ticks
    MaxVersions, \* BOUND: changes of the file
    NoOwner

ASSUME LeaseAssumption == TTL \in Nat /\ TTL >= 3 /\ MaxVersions \in Nat /\ NoOwner \notin Owners

VARIABLES
    lease,  \* owner and ticks left; NoOwner when there is none
    calls,  \* the record of each call
    tree,   \* file and temps
    git,    \* index, head: contents; conflicts; op: what is in progress
    last    \* the number of the last change of the file

vars == <<policyVars, lease, calls, tree, git, last>>

Writes == {"write", "edit", "delete"}
\* Exec, and RunVerifier, which takes its saved command through the same steps.
Commands == {"exec"}
Mutations == {"pick", "merge", "continue", "abort", "mergeabort"}
Heartbeated == Commands \cup Mutations

New == [phase |-> "new", kind |-> "none", owner |-> NoOwner, exe |-> "none", verdict |-> "none",
        timer |-> 0, canceled |-> FALSE, seen |-> 0, lost |-> 0, lapsed |-> FALSE, barred |-> FALSE]
Over == [New EXCEPT !.phase = "over"]

\* A mutation: the heartbeat of a lease comes when the lease ends.
WholeLease == TTL

\* defaultWriterHeartbeatInterval
HeartbeatInterval == IF TTL \div 3 > 0 THEN TTL \div 3 ELSE 1

Holds(o) == lease.owner = o /\ lease.left > 0
Renewed(o) == [owner |-> o, left |-> TTL]

Set(c, r) == calls' = [calls EXCEPT ![c] = r]
GoesOn(c, phase) == Set(c, [calls[c] EXCEPT !.phase = phase])

\* What is left of a call that did its work: a canceled one reports its heartbeat.
Done(c) == IF calls[c].canceled THEN Over
           ELSE [New EXCEPT !.phase = "ended", !.kind = calls[c].kind, !.owner = calls[c].owner]
Acted(c) == Set(c, Done(c))

\* The heartbeat goroutine of c runs.
Beats(c) == calls[c].kind \in Heartbeated /\ calls[c].phase \in {"ready", "running"}

-----------------------------------------------------------------------------
(* The start and the end of every call. *)

\* A bare name on the block list is that of e, or a path on it leads where the
\* path e leads.
Barred(p, e) ==
    \/ \E b \in p.blocked \ Paths : Name(b) = Name(e)
    \/ e \in Paths /\ \E b \in p.blocked \cap Paths : Place(b) = Place(e)

\* RequireWriter; a refused call changes nothing.  seen and barred are history:
\* the file when the call came, and that its executable was blocked then.
RequireWriter(c, kind, o, e) ==
    /\ calls[c].phase = "new" /\ Holds(o)
    /\ lease' = Renewed(o)
    /\ Set(c, [New EXCEPT !.phase = "admitted", !.kind = kind, !.owner = o, !.exe = e,
                          !.seen = IF kind = "commit" THEN tree.file ELSE 0,
                          !.barred = kind \in Commands /\ Barred(policy, e)])
    /\ UNCHANGED <<policyVars, tree, git, last>>

\* Runtime; the policy it holds does not change afterwards, so what it will
\* say is chosen here.  It fails when the Environment is not valid.
Runtime(c) ==
    /\ calls[c].phase = "admitted"
    /\ \/ \E v \in IF calls[c].kind \in Commands THEN allowedExecutable(policy, calls[c].exe) ELSE {"none"} :
            /\ Set(c, [calls[c] EXCEPT !.phase = "ready", !.verdict = v, !.timer = 0])
            /\ IF calls[c].kind \in Commands /\ Bypasses(policy, calls[c].exe)
                 THEN RecordExecDenial(calls[c].exe) ELSE UNCHANGED denials
       \/ Set(c, Over) /\ UNCHANGED denials
    /\ UNCHANGED <<policy, changes, lease, tree, git, last>>

\* Touch: the lease may be gone, and the call reports a failure then although
\* its change was made.
Touch(c) ==
    /\ calls[c].phase = "ended"
    /\ lease' = IF Holds(calls[c].owner) THEN Renewed(calls[c].owner) ELSE lease
    /\ Set(c, Over)
    /\ UNCHANGED <<policyVars, tree, git, last>>

\* HeartbeatWriter, when the ticker of the call fires.
HeartbeatWriter(c) ==
    /\ Beats(c) /\ ~calls[c].canceled /\ calls[c].timer = HeartbeatInterval
    /\ IF Holds(calls[c].owner)
         THEN /\ lease' = Renewed(calls[c].owner)
              /\ Set(c, [calls[c] EXCEPT !.timer = 0, !.lost = 0])
         ELSE /\ Set(c, [calls[c] EXCEPT !.canceled = TRUE])
              /\ UNCHANGED lease
    /\ UNCHANGED <<policyVars, tree, git, last>>

-----------------------------------------------------------------------------
(* The file operations. *)

NewVersion == last < MaxVersions /\ last' = last + 1

\* Edit reads and counts, and refuses another count; it keeps what it read.
EditReads(c) ==
    /\ calls[c].phase = "ready" /\ calls[c].kind = "edit"
    /\ GoesOn(c, "read") \/ Set(c, Over)
    /\ UNCHANGED <<policyVars, lease, tree, git, last>>

\* atomicWrite: a temporary file beside the target ...
CreateTemp(c) ==
    /\ calls[c].phase = IF calls[c].kind = "edit" THEN "read" ELSE "ready"
    /\ calls[c].kind \in {"write", "edit"}
    /\ tree' = [tree EXCEPT !.temps = @ \cup {c}]
    /\ GoesOn(c, "temp")
    /\ UNCHANGED <<policyVars, lease, git, last>>

\* ... that is renamed over it, or removed when something fails.
Rename(c) ==
    /\ calls[c].phase = "temp"
    /\ \/ /\ NewVersion
          /\ tree' = [file |-> last', temps |-> tree.temps \ {c}]
          /\ Acted(c)
       \/ /\ tree' = [tree EXCEPT !.temps = @ \ {c}]
          /\ Set(c, Over) /\ UNCHANGED last
    /\ UNCHANGED <<policyVars, lease, git>>

Delete(c) ==
    /\ calls[c].phase = "ready" /\ calls[c].kind = "delete"
    /\ \/ /\ NewVersion
          /\ tree' = [tree EXCEPT !.file = last']
          /\ Acted(c)
       \/ Set(c, Over) /\ UNCHANGED <<tree, last>>
    /\ UNCHANGED <<policyVars, lease, git>>

-----------------------------------------------------------------------------
(* GitCommit. *)

Clean == tree = git.head /\ git.index = git.head /\ ~git.conflicts

\* gitChangedPaths and the checks before it.
GitChangedPaths(c) ==
    /\ calls[c].phase = "ready" /\ calls[c].kind = "commit"
    /\ (~Clean /\ GoesOn(c, "changed")) \/ Set(c, Over)
    /\ UNCHANGED <<policyVars, lease, tree, git, last>>

\* A mutation: what is staged already is taken for everything.
AddUnlessStaged ==
    git' = [git EXCEPT !.index = IF @ = git.head THEN tree ELSE @, !.conflicts = FALSE]

\* git add -A takes whatever the directory holds by then, conflicts and
\* temporary files included.
AddAll == git' = [git EXCEPT !.index = tree, !.conflicts = FALSE]

GitAdd(c) ==
    /\ calls[c].phase = "changed"
    /\ \/ AddAll /\ GoesOn(c, "added")
       \/ Set(c, Over) /\ UNCHANGED git
    /\ UNCHANGED <<policyVars, lease, tree, last>>

\* The staged diff and git commit; it concludes what is in progress.
GitCommit(c) ==
    /\ calls[c].phase = "added"
    /\ \/ /\ git.index # git.head /\ ~git.conflicts
          /\ git' = [git EXCEPT !.head = git.index, !.op = "none"]
          /\ Acted(c)
       \/ Set(c, Over) /\ UNCHANGED git
    /\ UNCHANGED <<policyVars, lease, tree, last>>

-----------------------------------------------------------------------------
(* Exec and RunVerifier.  A call that fails stops its heartbeat and is over. *)

ExecStarts(c) ==
    /\ calls[c].phase = "ready" /\ calls[c].kind \in Commands
    /\ ~calls[c].canceled /\ calls[c].verdict = "starts"
    /\ Set(c, [calls[c] EXCEPT !.phase = "running", !.exe = "none", !.verdict = "none"])
    /\ UNCHANGED <<policyVars, lease, tree, git, last>>

\* The error of a refusal is recorded, as a denial of the policy in c's Runtime.
ExecRefused(c) ==
    /\ calls[c].phase = "ready" /\ calls[c].kind \in Commands
    /\ calls[c].canceled \/ calls[c].verdict # "starts"
    /\ IF calls[c].verdict = "denied" THEN RecordExecDenial(calls[c].exe) ELSE UNCHANGED denials
    /\ Set(c, Over)
    /\ UNCHANGED <<policy, changes, lease, tree, git, last>>

\* It ends by itself, by its own timeout, or because it was canceled.
ExecEnds(c) ==
    /\ calls[c].phase = "running" /\ calls[c].kind \in Commands
    /\ Acted(c) \/ Set(c, Over)
    /\ UNCHANGED <<policyVars, lease, tree, git, last>>

-----------------------------------------------------------------------------
(* withGitWriter: the Git mutations. *)

OpOf(kind) == IF kind \in {"merge", "mergeabort"} THEN "merge" ELSE "pick"

\* requireGitClean; gitPseudoRefExists; gitConflictPaths.
GitChecksPass(kind) ==
    CASE kind \in {"pick", "merge"} -> Clean
      [] kind = "continue"          -> git.op = "pick" /\ ~git.conflicts
      [] OTHER                      -> git.op = OpOf(kind)

GitChecks(c) ==
    /\ calls[c].phase = "ready" /\ calls[c].kind \in Mutations
    /\ \/ GitChecksPass(calls[c].kind) /\ ~calls[c].canceled /\ GoesOn(c, "running")
       \/ Set(c, Over)
    /\ UNCHANGED <<policyVars, lease, tree, git, last>>

\* cherry-pick and merge: git refuses to overwrite what is not committed.
GitBringsIn(kind) ==
    /\ tree.file = git.head.file /\ git.index = git.head /\ git.op = "none"
    /\ NewVersion
    /\ tree' = [tree EXCEPT !.file = last']
    /\ \/ git' = [git EXCEPT !.index.file = last', !.head.file = last']
       \/ git' = [git EXCEPT !.conflicts = TRUE, !.op = OpOf(kind)]

GitContinues ==
    /\ git.op = "pick" /\ ~git.conflicts /\ git.index # git.head
    /\ git' = [git EXCEPT !.head = git.index, !.op = "none"]
    /\ UNCHANGED <<tree, last>>

\* The file is again what it was before the conflict; seen follows, because
\* what an abort gives up need not be committed any more.
GitAborts(kind) ==
    /\ git.op = OpOf(kind)
    /\ tree' = [tree EXCEPT !.file = git.head.file]
    /\ git' = [git EXCEPT !.index = git.head, !.conflicts = FALSE, !.op = "none"]
    /\ UNCHANGED last

GitActs(c) ==
    /\ calls[c].phase = "running" /\ calls[c].kind \in Mutations
    /\ \/ calls[c].kind \in {"pick", "merge"} /\ GitBringsIn(calls[c].kind) /\ Acted(c)
       \/ calls[c].kind = "continue" /\ GitContinues /\ Acted(c)
       \/ /\ calls[c].kind \in {"abort", "mergeabort"} /\ GitAborts(calls[c].kind)
          /\ calls' = [d \in Calls |->
                IF d = c THEN Done(c)
                ELSE IF calls[d].seen > git.head.file THEN [calls[d] EXCEPT !.seen = git.head.file]
                ELSE calls[d]]
       \/ Set(c, Over) /\ UNCHANGED <<tree, git, last>>
    /\ UNCHANGED <<policyVars, lease>>

-----------------------------------------------------------------------------
(* The others: owners who take and give up the lease, the administrator, the *)
(* user at work in the directory, and the clock.                             *)

AcquireWriter(o) ==
    /\ lease.left > 0 => lease.owner = o
    /\ lease' = Renewed(o)
    /\ UNCHANGED <<policyVars, calls, tree, git, last>>

\* By its owner, or by anyone with force.
ReleaseWriter ==
    /\ lease.owner # NoOwner
    /\ lease' = [owner |-> NoOwner, left |-> 0]
    /\ UNCHANGED <<policyVars, calls, tree, git, last>>

\* A barred call stays so as long as the block list matches.
Administrate ==
    /\ PolicyNext
    /\ calls' = [c \in Calls |->
          [calls[c] EXCEPT !.barred = @ /\ Barred(policy', calls[c].exe)]]
    /\ UNCHANGED <<lease, tree, git, last>>

\* A running command or the user changes the file, or stages it.
TreeChanges ==
    /\ \/ /\ NewVersion /\ tree' = [tree EXCEPT !.file = last'] /\ UNCHANGED git
       \/ git' = [git EXCEPT !.index = tree, !.conflicts = FALSE] /\ UNCHANGED <<tree, last>>
    /\ UNCHANGED <<policyVars, lease, calls>>

\* Timers are served when they are due, a canceled process is dead within a
\* tick, and a heartbeated call has its Runtime within one interval.
Prompt(c) ==
    calls[c].kind \in Heartbeated /\ calls[c].phase \in {"admitted", "ready", "running"}
       => ~calls[c].canceled /\ calls[c].timer < HeartbeatInterval

Tick ==
    /\ \A c \in Calls : Prompt(c)
    /\ lease.left > 0 \/ \E c \in Calls : calls[c].phase = "running"
    /\ lease' = [lease EXCEPT !.left = IF @ > 0 THEN @ - 1 ELSE 0]
    /\ calls' = [c \in Calls |->
          IF calls[c].kind \notin Heartbeated \/ calls[c].phase \in {"ended", "over"} THEN calls[c]
          ELSE [calls[c] EXCEPT
                  !.timer = @ + 1,
                  !.lost = IF calls[c].phase = "running" /\ ~Holds(calls[c].owner) THEN @ + 1 ELSE @,
                  !.lapsed = @ \/ (calls[c].phase = "running" /\ Holds(calls[c].owner) /\ lease.left = 1)]]
    /\ UNCHANGED <<policyVars, tree, git, last>>

Init ==
    /\ PolicyInit
    /\ lease = [owner |-> NoOwner, left |-> 0]
    /\ calls = [c \in Calls |-> New]
    /\ LET empty == [file |-> 0, temps |-> {}]
       IN  tree = empty /\ git = [index |-> empty, head |-> empty, conflicts |-> FALSE, op |-> "none"]
    /\ last = 0

Step(c) ==
    \/ \E o \in Owners :
         \/ \E kind \in Writes \cup {"commit"} \cup Mutations : RequireWriter(c, kind, o, "none")
         \/ \E kind \in Commands, e \in Executables : RequireWriter(c, kind, o, e)
    \/ Runtime(c) \/ HeartbeatWriter(c) \/ Touch(c)
    \/ EditReads(c) \/ CreateTemp(c) \/ Rename(c) \/ Delete(c)
    \/ GitChangedPaths(c) \/ GitAdd(c) \/ GitCommit(c)
    \/ ExecStarts(c) \/ ExecRefused(c) \/ ExecEnds(c)
    \/ GitChecks(c) \/ GitActs(c)

Next ==
    \/ \E c \in Calls : Step(c)
    \/ \E o \in Owners : AcquireWriter(o)
    \/ ReleaseWriter \/ Administrate \/ TreeChanges \/ Tick

Spec == Init /\ [][Next]_vars

-----------------------------------------------------------------------------
Phases == {"new", "admitted", "ready", "read", "temp", "changed", "added", "running", "ended", "over"}
Contents == [file : Nat, temps : SUBSET Calls]

CallRecords ==
    [phase : Phases, kind : Writes \cup {"none", "commit"} \cup Heartbeated,
     owner : Owners \cup {NoOwner}, exe : Executables \cup {"none"},
     verdict : {"none", "denied", "starts", "fails"}, timer : Nat, canceled : BOOLEAN,
     seen : Nat, lost : Nat, lapsed : BOOLEAN, barred : BOOLEAN]

TypeOK ==
    /\ policy \in [allowed : SUBSET Executables, blocked : SUBSET Executables, full : BOOLEAN]
    /\ lease \in [owner : Owners \cup {NoOwner}, left : 0 .. TTL]
    /\ calls \in [Calls -> CallRecords]
    /\ tree \in Contents /\ last \in Nat
    /\ git \in [index : Contents, head : Contents, conflicts : BOOLEAN, op : {"none", "pick", "merge"}]

Running(c) == calls[c].phase = "running"

\* A command or a Git mutation never sees its lease run out under it, and once
\* somebody took the lease away it runs for one heartbeat interval at most.
CommandsKeepLease ==
    \A c \in Calls : Running(c) => ~calls[c].lapsed /\ calls[c].lost <= HeartbeatInterval

\* A command asked for by a spelling the block list has matched ever since the
\* call came never runs, whatever the allow list says and with full
\* authorization too: a bare name matches every spelling with that base name, a
\* path the paths to the same place.  And no entry of the allow list is one the
\* administrator blocked, by the same path or by its base name.  It says nothing
\* of a file whose path is blocked and that is asked for by a bare name, or by a
\* path to which LookPath adds ".exe": the code lets that run.
BlockedStaysOut ==
    /\ \A c \in Calls : Running(c) => ~calls[c].barred
    /\ \A a \in policy.allowed, b \in policy.blocked :
         IF b \in Paths THEN b # a ELSE Name(b) # Name(a)

\* A commit that succeeds holds everything that was in the directory when the
\* call was made, or something newer, whoever else stages, commits, picks,
\* merges or aborts meanwhile.
CommitsWhatWasThere ==
    [][\A c \in Calls : calls[c].phase = "added" /\ calls'[c].phase = "ended"
          => git'.head.file >= calls[c].seen]_vars
===============================================================================
