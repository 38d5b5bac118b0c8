-------------------------- MODULE GuardedCallsProofs --------------------------
(***************************************************************************)
(* Proofs about GuardedCalls, for every number of calls and owners, every  *)
(* time to live of at least three ticks and every policy.                  *)
(***************************************************************************)
EXTENDS GuardedCalls, TLAPS

Kinds == Writes \cup {"none", "commit"} \cup Heartbeated
Verdicts == {"none", "denied", "starts", "fails"}
Leases == [owner : Owners \cup {NoOwner}, left : 0 .. TTL]
Gits == [index : Contents, head : Contents, conflicts : BOOLEAN, op : {"none", "pick", "merge"}]
Policies == [allowed : SUBSET Executables, blocked : SUBSET Executables, full : BOOLEAN]

-----------------------------------------------------------------------------
(* The records of the calls. *)

LEMMA RecordTypes ==
  /\ New \in CallRecords /\ Over \in CallRecords
  /\ \A r \in CallRecords, p \in Phases : [r EXCEPT !.phase = p] \in CallRecords
<1>1. New \in CallRecords
  BY DEF New, CallRecords, Phases, Writes, Heartbeated, Commands, Mutations
<1>2. ASSUME NEW r \in CallRecords, NEW p \in Phases PROVE [r EXCEPT !.phase = p] \in CallRecords
  BY DEF CallRecords
<1>3. Over \in CallRecords
  BY <1>1, <1>2 DEF Over, Phases
<1>4. QED
  BY <1>1, <1>2, <1>3

LEMMA EndedType ==
  ASSUME NEW r \in CallRecords, NEW kind \in Kinds, NEW o \in Owners \cup {NoOwner}
  PROVE  [r EXCEPT !.phase = "ended", !.kind = kind, !.owner = o] \in CallRecords
BY DEF CallRecords, Phases, Kinds

LEMMA AdmittedType ==
  ASSUME NEW r \in CallRecords, NEW kind \in Kinds, NEW o \in Owners,
         NEW e \in Executables \cup {"none"}, NEW n \in Nat, NEW x \in BOOLEAN
  PROVE  [r EXCEPT !.phase = "admitted", !.kind = kind, !.owner = o, !.exe = e,
                   !.seen = n, !.barred = x] \in CallRecords
<1>1. [r EXCEPT !.phase = "admitted", !.kind = kind, !.owner = o] \in CallRecords
  BY DEF CallRecords, Phases, Kinds
<1>2. ASSUME NEW s \in CallRecords PROVE [s EXCEPT !.exe = e, !.seen = n, !.barred = x] \in CallRecords
  BY DEF CallRecords
<1>3. QED
  BY <1>1, <1>2

LEMMA FieldTypes ==
  ASSUME NEW r \in CallRecords, NEW n \in Nat, NEW m \in Nat, NEW x \in BOOLEAN, NEW v \in Verdicts
  PROVE  /\ [r EXCEPT !.phase = "ready", !.verdict = v, !.timer = 0] \in CallRecords
         /\ [r EXCEPT !.phase = "running", !.exe = "none", !.verdict = "none"] \in CallRecords
         /\ [r EXCEPT !.timer = 0, !.lost = 0] \in CallRecords
         /\ [r EXCEPT !.canceled = TRUE] \in CallRecords
         /\ [r EXCEPT !.seen = n] \in CallRecords
         /\ [r EXCEPT !.barred = x] \in CallRecords
         /\ [r EXCEPT !.timer = m, !.lost = n, !.lapsed = x] \in CallRecords
<1>1. [r EXCEPT !.phase = "ready", !.verdict = v, !.timer = 0] \in CallRecords
  BY DEF CallRecords, Phases, Verdicts
<1>2. [r EXCEPT !.phase = "running", !.exe = "none", !.verdict = "none"] \in CallRecords
  BY DEF CallRecords, Phases
<1>3. [r EXCEPT !.timer = 0, !.lost = 0] \in CallRecords
  BY DEF CallRecords
<1>4. [r EXCEPT !.canceled = TRUE] \in CallRecords
  BY DEF CallRecords
<1>5. [r EXCEPT !.seen = n] \in CallRecords
  BY DEF CallRecords
<1>6. [r EXCEPT !.barred = x] \in CallRecords
  BY DEF CallRecords
<1>7. [r EXCEPT !.timer = m, !.lost = n, !.lapsed = x] \in CallRecords
  BY DEF CallRecords
<1>8. QED
  BY <1>1, <1>2, <1>3, <1>4, <1>5, <1>6, <1>7

LEMMA DoneType ==
  ASSUME NEW c, calls[c] \in CallRecords
  PROVE  Done(c) \in CallRecords
<1>1. calls[c].kind \in Kinds /\ calls[c].owner \in Owners \cup {NoOwner}
  BY DEF CallRecords, Kinds
<1>2. QED
  BY <1>1, RecordTypes, EndedType DEF Done

LEMMA SetType ==
  ASSUME calls \in [Calls -> CallRecords], NEW c \in Calls, NEW r \in CallRecords, Set(c, r)
  PROVE  calls' \in [Calls -> CallRecords]
BY DEF Set

\* The steps of a call keep the records of the calls well formed.
LEMMA StepTypes ==
  ASSUME TypeOK, NEW c \in Calls, Step(c)
  PROVE  calls' \in [Calls -> CallRecords]
<1>. USE DEF TypeOK
<1>0. calls[c] \in CallRecords /\ Done(c) \in CallRecords /\ Over \in CallRecords
  BY DoneType, RecordTypes
<1>1. ASSUME NEW kind \in Kinds, NEW o \in Owners, NEW e \in Executables \cup {"none"},
             RequireWriter(c, kind, o, e)
      PROVE  calls' \in [Calls -> CallRecords]
  <2>1. (IF kind = "commit" THEN tree.file ELSE 0) \in Nat
    BY DEF Contents
  <2>2. (kind \in Commands /\ Barred(policy, e)) \in BOOLEAN
    OBVIOUS
  <2>3. QED
    BY <1>1, <2>1, <2>2, RecordTypes, AdmittedType, SetType DEF RequireWriter
<1>2. CASE Runtime(c)
  <2>1. allowedExecutable(policy, calls[c].exe) \subseteq Verdicts /\ "none" \in Verdicts
    BY DEF allowedExecutable, Verdicts
  <2>2. QED
    BY <1>0, <1>2, <2>1, FieldTypes, SetType DEF Runtime
<1>3. CASE HeartbeatWriter(c)
  BY <1>0, <1>3, FieldTypes, SetType DEF HeartbeatWriter, Verdicts
<1>4. CASE ExecStarts(c)
  BY <1>0, <1>4, FieldTypes, SetType DEF ExecStarts, Verdicts
<1>5. CASE GitActs(c)
  <2>1. CASE Set(c, Done(c)) \/ Set(c, Over)
    BY <1>0, <2>1, SetType
  <2>2. CASE calls' = [d \in Calls |->
                IF d = c THEN Done(c)
                ELSE IF calls[d].seen > git.head.file THEN [calls[d] EXCEPT !.seen = git.head.file]
                ELSE calls[d]]
    <3>1. git.head.file \in Nat
      BY DEF Contents
    <3>2. ASSUME NEW d \in Calls PROVE [calls[d] EXCEPT !.seen = git.head.file] \in CallRecords
      BY <3>1, FieldTypes DEF Verdicts
    <3>3. QED
      BY <1>0, <2>2, <3>2
  <2>3. QED
    BY <1>5, <2>1, <2>2 DEF GitActs, Acted
<1>6. CASE Touch(c) \/ ExecRefused(c)
  BY <1>0, <1>6, SetType DEF Touch, ExecRefused
<1>7. CASE Rename(c) \/ Delete(c) \/ GitCommit(c) \/ ExecEnds(c)
  BY <1>0, <1>7, SetType DEF Rename, Delete, GitCommit, ExecEnds, Acted
<1>8. CASE EditReads(c) \/ CreateTemp(c) \/ GitChangedPaths(c) \/ GitAdd(c) \/ GitChecks(c)
  <2>1. \E r \in CallRecords : Set(c, r)
    BY <1>0, <1>8, RecordTypes DEF EditReads, CreateTemp, GitChangedPaths, GitAdd, GitChecks, GoesOn, Phases
  <2>2. QED
    BY <2>1, SetType
<1>9. QED
  BY <1>1, <1>2, <1>3, <1>4, <1>5, <1>6, <1>7, <1>8 DEF Step, Kinds, Heartbeated

LEMMA TickTypes ==
  ASSUME TypeOK, Tick
  PROVE  calls' \in [Calls -> CallRecords]
<1>1. ASSUME NEW d \in Calls
      PROVE  /\ calls[d].timer + 1 \in Nat
             /\ (IF calls[d].phase = "running" /\ ~Holds(calls[d].owner)
                   THEN calls[d].lost + 1 ELSE calls[d].lost) \in Nat
  BY DEF TypeOK, CallRecords
<1>2. ASSUME NEW d \in Calls
      PROVE  (calls[d].lapsed \/ (calls[d].phase = "running" /\ Holds(calls[d].owner) /\ lease.left = 1)) \in BOOLEAN
  OBVIOUS
<1>3. ASSUME NEW d \in Calls
      PROVE  /\ calls[d] \in CallRecords
             /\ [calls[d] EXCEPT
                  !.timer = @ + 1,
                  !.lost = IF calls[d].phase = "running" /\ ~Holds(calls[d].owner) THEN @ + 1 ELSE @,
                  !.lapsed = @ \/ (calls[d].phase = "running" /\ Holds(calls[d].owner) /\ lease.left = 1)]
                \in CallRecords
  BY <1>1, <1>2, FieldTypes DEF TypeOK, Verdicts
<1>4. QED
  BY <1>3 DEF Tick

-----------------------------------------------------------------------------
(* Type correctness. *)

LEMMA ContentTypes ==
  ASSUME NEW t \in Contents, NEW n \in Nat
  PROVE  [t EXCEPT !.file = n] \in Contents
BY DEF Contents

LEMMA GitTypes ==
  ASSUME NEW g \in Gits
  PROVE  /\ \A t \in Contents :
              /\ [g EXCEPT !.index = t, !.conflicts = FALSE] \in Gits
              /\ [g EXCEPT !.head = t, !.op = "none"] \in Gits
              /\ [g EXCEPT !.index = t, !.conflicts = FALSE, !.op = "none"] \in Gits
         /\ \A n \in Nat : [g EXCEPT !.index.file = n, !.head.file = n] \in Gits
         /\ \A op \in {"none", "pick", "merge"} : [g EXCEPT !.conflicts = TRUE, !.op = op] \in Gits
<1>1. ASSUME NEW t \in Contents
      PROVE  /\ [g EXCEPT !.index = t, !.conflicts = FALSE] \in Gits
             /\ [g EXCEPT !.head = t, !.op = "none"] \in Gits
             /\ [g EXCEPT !.index = t, !.conflicts = FALSE, !.op = "none"] \in Gits
  <2>1. [g EXCEPT !.index = t, !.conflicts = FALSE] \in Gits
    BY DEF Gits
  <2>2. [g EXCEPT !.head = t, !.op = "none"] \in Gits
    BY DEF Gits
  <2>3. [g EXCEPT !.index = t, !.conflicts = FALSE, !.op = "none"] \in Gits
    BY DEF Gits
  <2>4. QED
    BY <2>1, <2>2, <2>3
<1>2. ASSUME NEW n \in Nat PROVE [g EXCEPT !.index.file = n, !.head.file = n] \in Gits
  BY DEF Gits, Contents
<1>3. ASSUME NEW op \in {"none", "pick", "merge"} PROVE [g EXCEPT !.conflicts = TRUE, !.op = op] \in Gits
  BY DEF Gits
<1>4. QED
  BY <1>1, <1>2, <1>3

\* What the file operations and Git leave of the directory is well formed.
LEMMA TreeTypes ==
  ASSUME TypeOK, [Next]_vars
  PROVE  /\ tree' \in Contents /\ last' \in Nat
         /\ git' \in Gits
<1>. USE DEF TypeOK
<1>0. /\ tree \in Contents /\ git \in Gits /\ git.head \in Contents /\ git.index \in Contents
      /\ last + 1 \in Nat /\ git.head.file \in Nat
  BY DEF Gits, Contents
<1>8. /\ [tree EXCEPT !.file = last + 1] \in Contents
      /\ [tree EXCEPT !.file = git.head.file] \in Contents
  BY <1>0, ContentTypes
<1>9. /\ [git EXCEPT !.index = tree, !.conflicts = FALSE] \in Gits
      /\ [git EXCEPT !.head = git.index, !.op = "none"] \in Gits
      /\ [git EXCEPT !.index = git.head, !.conflicts = FALSE, !.op = "none"] \in Gits
      /\ [git EXCEPT !.index.file = last + 1, !.head.file = last + 1] \in Gits
      /\ \A op \in {"none", "pick", "merge"} : [git EXCEPT !.conflicts = TRUE, !.op = op] \in Gits
  BY <1>0, GitTypes
<1>1. ASSUME NEW c \in Calls, Step(c)
      PROVE  /\ tree' \in Contents /\ last' \in Nat
             /\ git' \in Gits
  <2>1. CASE CreateTemp(c)
    BY <1>0, <2>1 DEF CreateTemp, Contents
  <2>2. CASE Rename(c)
    BY <1>0, <2>2 DEF Rename, NewVersion, Contents
  <2>3. CASE Delete(c)
    BY <1>0, <1>8, <2>3 DEF Delete, NewVersion
  <2>4. CASE GitAdd(c)
    BY <1>0, <1>9, <2>4 DEF GitAdd, AddAll
  <2>5. CASE GitCommit(c)
    BY <1>0, <1>9, <2>5 DEF GitCommit
  <2>6. CASE GitActs(c)
    <3>1. CASE \E kind \in {"pick", "merge"} : GitBringsIn(kind)
      BY <1>0, <1>8, <1>9, <3>1 DEF GitBringsIn, NewVersion, OpOf
    <3>2. CASE GitContinues
      BY <1>0, <1>9, <3>2 DEF GitContinues
    <3>3. CASE \E kind \in {"abort", "mergeabort"} : GitAborts(kind)
      BY <1>0, <1>8, <1>9, <3>3 DEF GitAborts
    <3>4. CASE UNCHANGED <<tree, git, last>>
      BY <1>0, <3>4
    <3>5. QED
      BY <2>6, <3>1, <3>2, <3>3, <3>4 DEF GitActs
  <2>7. CASE UNCHANGED <<tree, git, last>>
    BY <1>0, <2>7
  <2>8. QED
    BY <1>1, <2>1, <2>2, <2>3, <2>4, <2>5, <2>6, <2>7
       DEF Step, RequireWriter, Runtime, HeartbeatWriter, Touch, EditReads, GitChangedPaths,
           ExecStarts, ExecRefused, ExecEnds, GitChecks
<1>2. CASE TreeChanges
  BY <1>0, <1>8, <1>9, <1>2 DEF TreeChanges, NewVersion
<1>3. CASE UNCHANGED <<tree, git, last>>
  BY <1>0, <1>3
<1>4. QED
  BY <1>1, <1>2, <1>3 DEF Next, AcquireWriter, ReleaseWriter, Administrate, Tick, vars

\* The lease is renewed, given up, counted down or left alone.
LEMMA LeaseTypes ==
  ASSUME TypeOK, [Next]_vars
  PROVE  lease' \in Leases
<1>. USE LeaseAssumption DEF TypeOK, Leases
<1>1. ASSUME NEW o \in Owners \cup {NoOwner} PROVE Renewed(o) \in Leases
  BY DEF Renewed
<1>2. ASSUME NEW c \in Calls, Step(c) PROVE lease' \in Leases
  <2>1. calls[c].owner \in Owners \cup {NoOwner}
    BY DEF CallRecords
  <2>2. lease' = lease \/ \E o \in Owners \cup {NoOwner} : lease' = Renewed(o)
    BY <1>2, <2>1
       DEF Step, RequireWriter, Runtime, HeartbeatWriter, Touch, EditReads, CreateTemp, Rename, Delete,
           GitChangedPaths, GitAdd, GitCommit, ExecStarts, ExecRefused, ExecEnds, GitChecks, GitActs
  <2>3. QED
    BY <1>1, <2>2
<1>3. CASE ReleaseWriter
  BY <1>3 DEF ReleaseWriter
<1>4. CASE Tick
  <2>1. (IF lease.left > 0 THEN lease.left - 1 ELSE 0) \in 0 .. TTL
    OBVIOUS
  <2>2. QED
    BY <1>4, <2>1 DEF Tick
<1>5. QED
  BY <1>1, <1>2, <1>3, <1>4 DEF Next, AcquireWriter, Administrate, TreeChanges, vars

LEMMA PolicyTypes ==
  ASSUME TypeOK, [Next]_vars
  PROVE  policy' \in Policies
<1>. USE DEF TypeOK
<1>1. CASE Administrate
  <2>1. ASSUME NEW e \in Executables,
               \/ AllowExecutable(e) \/ RemoveAllowedExecutable(e)
               \/ BlockExecutable(e) \/ RemoveBlockedExecutable(e)
        PROVE  policy' \in Policies
    <3>1. CASE AllowExecutable(e)
      BY <3>1 DEF AllowExecutable, Change, Policies
    <3>2. CASE RemoveAllowedExecutable(e)
      BY <3>2 DEF RemoveAllowedExecutable, Change, Policies
    <3>3. CASE BlockExecutable(e)
      BY <3>3 DEF BlockExecutable, Change, Policies
    <3>4. CASE RemoveBlockedExecutable(e)
      BY <3>4 DEF RemoveBlockedExecutable, Change, Policies
    <3>5. QED
      BY <2>1, <3>1, <3>2, <3>3, <3>4
  <2>2. CASE SetExecFullAuthorization
    BY <2>2 DEF SetExecFullAuthorization, Change, Policies
  <2>3. CASE ClearExecDenial
    BY <2>3 DEF ClearExecDenial, Policies
  <2>4. QED
    BY <1>1, <2>1, <2>2, <2>3 DEF Administrate, PolicyNext
<1>2. ASSUME NEW c \in Calls, Step(c) PROVE policy' = policy
  BY <1>2 DEF policyVars, Step, RequireWriter, Runtime, HeartbeatWriter, Touch, EditReads, CreateTemp,
              Rename, Delete, GitChangedPaths, GitAdd, GitCommit, ExecStarts, ExecRefused, ExecEnds,
              GitChecks, GitActs
<1>3. QED
  BY <1>1, <1>2 DEF Next, AcquireWriter, ReleaseWriter, TreeChanges, Tick, vars, policyVars, Policies

\* Type correctness: every state of the guarded calls is one the program can be
\* in, with each call at a place its kind of call goes through.
THEOREM TypeCorrect == Spec => []TypeOK
<1>1. Init => TypeOK
  <2>. HAVE Init
  <2>1. calls \in [Calls -> CallRecords]
    BY RecordTypes DEF Init
  <2>2. QED
    BY <2>1, LeaseAssumption, PolicyAssumption DEF Init, PolicyInit, TypeOK, Contents
<1>2. TypeOK /\ [Next]_vars => TypeOK'
  <2>. SUFFICES ASSUME TypeOK, [Next]_vars PROVE TypeOK'
    OBVIOUS
  <2>1. calls' \in [Calls -> CallRecords]
    <3>1. CASE \E c \in Calls : Step(c)
      BY <3>1, StepTypes
    <3>2. CASE Administrate
      BY <3>2, FieldTypes DEF Administrate, TypeOK, Verdicts
    <3>3. CASE Tick
      BY <3>3, TickTypes
    <3>4. QED
      BY <3>1, <3>2, <3>3 DEF Next, AcquireWriter, ReleaseWriter, TreeChanges, vars, TypeOK
  <2>2. QED
    BY <2>1, TreeTypes, LeaseTypes, PolicyTypes DEF TypeOK, Leases, Gits, Policies
<1>3. QED
  BY <1>1, <1>2, PTL DEF Spec

-----------------------------------------------------------------------------
(* Blocked executables.  That a barred call does not run is not inductive:  *)
(* it follows from what the policy said when the call got its Runtime.      *)

BarredOut(p, r) ==
    r.barred => /\ r.kind \in Commands /\ r.phase \in {"admitted", "ready"}
                /\ r.phase = "admitted" => Barred(p, r.exe)
                /\ r.phase = "ready" => r.verdict # "starts"

Clash(b, a) == IF b \in Paths THEN b = a ELSE Name(b) = Name(a)
ListsDisjoint == \A a \in policy.allowed, b \in policy.blocked : ~Clash(b, a)
BlockInv == ListsDisjoint /\ \A c \in Calls : BarredOut(policy, calls[c])

LEMMA SetOne ==
  ASSUME calls \in [Calls -> CallRecords], NEW c \in Calls, NEW r, Set(c, r)
  PROVE  calls'[c] = r /\ \A d \in Calls \ {c} : calls'[d] = calls[d]
BY DEF Set

\* No step of a call touches the record of another, but for what an abort
\* gives up; and the lease is renewed at most.
LEMMA StepOthers ==
  ASSUME TypeOK, NEW c \in Calls, Step(c)
  PROVE  /\ policy' = policy
         /\ lease' = lease \/ \E o \in Owners \cup {NoOwner} : lease' = Renewed(o)
         /\ \A d \in Calls \ {c} :
              calls'[d] = calls[d] \/ \E n \in Nat : calls'[d] = [calls[d] EXCEPT !.seen = n]
<1>. USE DEF TypeOK
<1>1. policy' = policy
  BY DEF policyVars, Step, RequireWriter, Runtime, HeartbeatWriter, Touch, EditReads, CreateTemp,
         Rename, Delete, GitChangedPaths, GitAdd, GitCommit, ExecStarts, ExecRefused, ExecEnds,
         GitChecks, GitActs
<1>2. lease' = lease \/ \E o \in Owners \cup {NoOwner} : lease' = Renewed(o)
  <2>1. calls[c].owner \in Owners \cup {NoOwner}
    BY DEF CallRecords
  <2>2. QED
    BY <2>1
       DEF Step, RequireWriter, Runtime, HeartbeatWriter, Touch, EditReads, CreateTemp, Rename, Delete,
           GitChangedPaths, GitAdd, GitCommit, ExecStarts, ExecRefused, ExecEnds, GitChecks, GitActs
<1>3. ASSUME NEW d \in Calls \ {c}
      PROVE  calls'[d] = calls[d] \/ \E n \in Nat : calls'[d] = [calls[d] EXCEPT !.seen = n]
  <2>1. CASE \E r : Set(c, r)
    BY <2>1, SetOne
  <2>2. CASE calls' = [x \in Calls |->
                IF x = c THEN Done(c)
                ELSE IF calls[x].seen > git.head.file THEN [calls[x] EXCEPT !.seen = git.head.file]
                ELSE calls[x]]
    <3>1. git.head.file \in Nat
      BY DEF Contents
    <3>2. QED
      BY <2>2, <3>1
  <2>3. QED
    BY <2>1, <2>2
       DEF Step, RequireWriter, Runtime, HeartbeatWriter, Touch, EditReads, CreateTemp, Rename, Delete,
           GitChangedPaths, GitAdd, GitCommit, ExecStarts, ExecRefused, ExecEnds, GitChecks, GitActs,
           GoesOn, Acted
<1>4. QED
  BY <1>1, <1>2, <1>3

\* What a step makes of the record of its call.
Admitted(k, o, e, n) ==
    [New EXCEPT !.phase = "admitted", !.kind = k, !.owner = o, !.exe = e, !.seen = n,
                !.barred = k \in Commands /\ Barred(policy, e)]
IsAdmitted(c) ==
    /\ lease'.left = TTL
    /\ \E k \in Kinds, o \in Owners, e \in Executables \cup {"none"}, n \in Nat :
         calls'[c] = Admitted(k, o, e, n)
IsReady(c) ==
    /\ calls[c].phase = "admitted" /\ lease' = lease
    /\ \E v \in Verdicts :
         /\ calls[c].kind \in Commands => v \in allowedExecutable(policy, calls[c].exe)
         /\ calls'[c] = [calls[c] EXCEPT !.phase = "ready", !.verdict = v, !.timer = 0]
IsRenewed(c) ==
    /\ Beats(c) /\ lease'.left = TTL
    /\ calls'[c] = [calls[c] EXCEPT !.timer = 0, !.lost = 0]
IsCanceled(c) ==
    /\ Beats(c) /\ lease' = lease
    /\ calls'[c] = [calls[c] EXCEPT !.canceled = TRUE]
IsRunning(c) ==
    /\ calls[c].phase = "ready" /\ lease' = lease
    /\ \/ /\ calls[c].kind \in Commands /\ calls[c].verdict = "starts"
          /\ calls'[c] = [calls[c] EXCEPT !.phase = "running", !.exe = "none", !.verdict = "none"]
       \/ /\ calls[c].kind \in Mutations
          /\ calls'[c] = [calls[c] EXCEPT !.phase = "running"]
GoesInside(c) ==
    /\ calls[c].kind \in Writes \cup {"commit"} \/ calls[c].phase = "changed"
    /\ \E p \in {"read", "temp", "changed", "added"} : calls'[c] = [calls[c] EXCEPT !.phase = p]
IsOver(c) ==
    \/ calls'[c] = Over
    \/ calls'[c] = [New EXCEPT !.phase = "ended", !.kind = calls[c].kind, !.owner = calls[c].owner]
Becomes(c) ==
    \/ IsAdmitted(c) \/ IsReady(c) \/ IsRenewed(c) \/ IsCanceled(c)
    \/ IsRunning(c) \/ GoesInside(c) \/ IsOver(c)

\* Every step of a call is of one of these kinds.
LEMMA StepSelf ==
  ASSUME TypeOK, NEW c \in Calls, Step(c)
  PROVE  Becomes(c)
<1>. USE DEF TypeOK
<1>0. \A r : Set(c, r) => calls'[c] = r
  BY SetOne
<1>1. /\ Acted(c) => IsOver(c)
      /\ Set(c, Over) => IsOver(c)
  BY <1>0 DEF Acted, Done, IsOver
<1>2. \A p : GoesOn(c, p) => calls'[c] = [calls[c] EXCEPT !.phase = p]
  BY <1>0 DEF GoesOn
<1>3. ASSUME NEW kind \in Kinds, NEW o \in Owners, NEW e \in Executables \cup {"none"},
             RequireWriter(c, kind, o, e)
      PROVE  IsAdmitted(c)
  <2>1. (IF kind = "commit" THEN tree.file ELSE 0) \in Nat
    BY DEF Contents
  <2>2. calls'[c] = Admitted(kind, o, e, IF kind = "commit" THEN tree.file ELSE 0)
    BY <1>0, <1>3 DEF RequireWriter, Admitted
  <2>3. lease'.left = TTL
    BY <1>3 DEF RequireWriter, Renewed
  <2>4. QED
    BY <2>1, <2>2, <2>3 DEF IsAdmitted
<1>4. CASE Runtime(c)
  <2>1. allowedExecutable(policy, calls[c].exe) \subseteq Verdicts /\ "none" \in Verdicts
    BY DEF allowedExecutable, Verdicts
  <2>2. ASSUME NEW v \in IF calls[c].kind \in Commands
                           THEN allowedExecutable(policy, calls[c].exe) ELSE {"none"},
               Set(c, [calls[c] EXCEPT !.phase = "ready", !.verdict = v, !.timer = 0])
        PROVE  IsReady(c)
    BY <1>0, <1>4, <2>1, <2>2 DEF Runtime, IsReady
  <2>3. QED
    BY <1>1, <1>4, <2>2 DEF Runtime, Becomes
<1>5. CASE HeartbeatWriter(c)
  <2>1. CASE Holds(calls[c].owner)
    <3>1. lease'.left = TTL
      BY <1>5, <2>1 DEF HeartbeatWriter, Renewed
    <3>2. calls'[c] = [calls[c] EXCEPT !.timer = 0, !.lost = 0]
      BY <1>0, <1>5, <2>1 DEF HeartbeatWriter
    <3>3. QED
      BY <1>5, <3>1, <3>2 DEF HeartbeatWriter, IsRenewed, Becomes
  <2>2. CASE ~Holds(calls[c].owner)
    <3>1. calls'[c] = [calls[c] EXCEPT !.canceled = TRUE]
      BY <1>0, <1>5, <2>2 DEF HeartbeatWriter
    <3>2. QED
      BY <1>5, <2>2, <3>1 DEF HeartbeatWriter, IsCanceled, Becomes
  <2>3. QED
    BY <2>1, <2>2
<1>6. CASE ExecStarts(c)
  <2>1. calls'[c] = [calls[c] EXCEPT !.phase = "running", !.exe = "none", !.verdict = "none"]
    BY <1>0, <1>6 DEF ExecStarts
  <2>2. QED
    BY <1>6, <2>1 DEF ExecStarts, IsRunning, Becomes
<1>7. CASE EditReads(c) \/ CreateTemp(c) \/ GitChangedPaths(c) \/ GitAdd(c)
  <2>1. GoesInside(c) \/ IsOver(c)
    BY <1>1, <1>2, <1>7 DEF EditReads, CreateTemp, GitChangedPaths, GitAdd, Writes, GoesInside
  <2>2. QED
    BY <2>1 DEF Becomes
<1>8. CASE Rename(c) \/ Delete(c) \/ GitCommit(c) \/ ExecEnds(c) \/ Touch(c) \/ ExecRefused(c)
  BY <1>1, <1>8 DEF Rename, Delete, GitCommit, ExecEnds, Touch, ExecRefused, Becomes
<1>9. CASE GitChecks(c)
  <2>1. IsRunning(c) \/ IsOver(c)
    BY <1>1, <1>2, <1>9 DEF GitChecks, IsRunning
  <2>2. QED
    BY <2>1 DEF Becomes
<1>10. CASE GitActs(c)
  <2>1. CASE Acted(c) \/ Set(c, Over)
    BY <1>1, <2>1 DEF Becomes
  <2>2. CASE calls' = [x \in Calls |->
                IF x = c THEN Done(c)
                ELSE IF calls[x].seen > git.head.file THEN [calls[x] EXCEPT !.seen = git.head.file]
                ELSE calls[x]]
    BY <2>2 DEF Done, IsOver, Becomes
  <2>3. QED
    BY <1>10, <2>1, <2>2 DEF GitActs
<1>11. ASSUME NEW kind \in Writes \cup {"commit"} \cup Mutations \cup Commands,
              NEW o \in Owners, NEW e \in Executables \cup {"none"}, RequireWriter(c, kind, o, e)
       PROVE  Becomes(c)
  BY <1>3, <1>11 DEF Kinds, Heartbeated, Becomes
<1>12. QED
  BY <1>4, <1>5, <1>6, <1>7, <1>8, <1>9, <1>10, <1>11 DEF Step

LEMMA BarredOutKept ==
  ASSUME TypeOK, BlockInv, NEW c \in Calls, Becomes(c), policy' = policy
  PROVE  BarredOut(policy, calls'[c])
<1>. USE DEF BarredOut
<1>0. calls[c] \in CallRecords /\ New \in CallRecords /\ BarredOut(policy, calls[c])
  BY RecordTypes DEF TypeOK, BlockInv
<1>1. CASE IsAdmitted(c)
  <2>1. PICK k \in Kinds, o \in Owners, e \in Executables \cup {"none"}, n \in Nat :
               calls'[c] = Admitted(k, o, e, n)
    BY <1>1 DEF IsAdmitted
  <2>2. /\ calls'[c].phase = "admitted" /\ calls'[c].kind = k /\ calls'[c].exe = e
        /\ calls'[c].barred = (k \in Commands /\ Barred(policy, e))
    BY <2>1 DEF Admitted, New
  <2>3. QED
    BY <2>2, Zenon
<1>2. CASE IsReady(c)
  <2>1. Barred(policy, calls[c].exe) => allowedExecutable(policy, calls[c].exe) = {"denied"}
    BY DEF Barred, allowedExecutable, IsBlockedExecutable, executablePolicyNameMatch, samePath
  <2>2. QED
    BY <1>0, <1>2, <2>1 DEF IsReady, CallRecords
<1>3. CASE IsRenewed(c) \/ IsCanceled(c)
  BY <1>0, <1>3 DEF IsRenewed, IsCanceled, CallRecords
<1>4. CASE IsRunning(c)
  BY <1>0, <1>4 DEF IsRunning, CallRecords, Commands, Mutations
<1>5. CASE GoesInside(c)
  BY <1>0, <1>5 DEF GoesInside, CallRecords, Commands, Writes
<1>6. CASE IsOver(c)
  BY <1>0, <1>6 DEF IsOver, Over, New, CallRecords
<1>7. QED
  BY <1>1, <1>2, <1>3, <1>4, <1>5, <1>6 DEF Becomes

\* What an administrator does to the lists keeps them disjoint.
LEMMA ListsKept ==
  ASSUME policy \in Policies, ListsDisjoint, PolicyNext
  PROVE  ListsDisjoint'
<1>. USE DEF Policies
<1>1. ASSUME NEW e \in Executables, AllowExecutable(e) PROVE ListsDisjoint'
  <2>1. policy'.allowed = policy.allowed \cup {e} /\ policy'.blocked = policy.blocked
    BY <1>1 DEF AllowExecutable, Change
  <2>2. \A b \in policy.blocked : ~Clash(b, e)
    BY <1>1 DEF AllowExecutable, executablePolicyMatches, Clash
  <2>3. QED
    BY <2>1, <2>2 DEF ListsDisjoint
<1>2. ASSUME NEW e \in Executables, RemoveAllowedExecutable(e) PROVE ListsDisjoint'
  <2>1. policy'.allowed = policy.allowed \ {e} /\ policy'.blocked = policy.blocked
    BY <1>2 DEF RemoveAllowedExecutable, Change
  <2>2. QED
    BY <2>1 DEF ListsDisjoint
<1>3. ASSUME NEW e \in Executables, BlockExecutable(e) PROVE ListsDisjoint'
  <2>1. /\ policy'.allowed = {a \in policy.allowed : ~Clash(e, a)}
        /\ policy'.blocked = policy.blocked \cup {e}
    BY <1>3 DEF BlockExecutable, Change, executablePolicyMatches, Clash
  <2>2. QED
    BY <2>1 DEF ListsDisjoint
<1>4. ASSUME NEW e \in Executables, RemoveBlockedExecutable(e) PROVE ListsDisjoint'
  <2>1. policy'.allowed = policy.allowed /\ policy'.blocked = policy.blocked \ {e}
    BY <1>4 DEF RemoveBlockedExecutable, Change
  <2>2. QED
    BY <2>1 DEF ListsDisjoint
<1>5. CASE SetExecFullAuthorization
  <2>1. policy'.allowed = policy.allowed /\ policy'.blocked = policy.blocked
    BY <1>5 DEF SetExecFullAuthorization, Change
  <2>2. QED
    BY <2>1 DEF ListsDisjoint
<1>6. CASE ClearExecDenial
  BY <1>6 DEF ClearExecDenial, ListsDisjoint
<1>7. QED
  BY <1>1, <1>2, <1>3, <1>4, <1>5, <1>6 DEF PolicyNext

\* A command asked for by a spelling that the block list has matched since the
\* call came never runs, and the allow list holds nothing an entry of the block
\* list was to keep off it, whatever administrators do to the two lists.
THEOREM BlockedOut == Spec => []BlockedStaysOut
<1>1. Init => BlockInv
  BY PolicyAssumption DEF Init, PolicyInit, BlockInv, ListsDisjoint, Clash, BarredOut, New
<1>2. TypeOK /\ BlockInv /\ [Next]_vars => BlockInv'
  <2>. SUFFICES ASSUME TypeOK, BlockInv, [Next]_vars PROVE BlockInv'
    OBVIOUS
  <2>1. ASSUME NEW c \in Calls, Step(c) PROVE BlockInv'
    <3>1. policy' = policy
      BY <2>1, StepOthers
    <3>2. BarredOut(policy, calls'[c])
      BY <2>1, <3>1, StepSelf, BarredOutKept
    <3>3. ASSUME NEW d \in Calls \ {c} PROVE BarredOut(policy, calls'[d])
      <4>1. calls'[d] = calls[d] \/ \E n \in Nat : calls'[d] = [calls[d] EXCEPT !.seen = n]
        BY <2>1, StepOthers
      <4>2. calls[d] \in CallRecords /\ BarredOut(policy, calls[d])
        BY DEF TypeOK, BlockInv
      <4>3. QED
        BY <4>1, <4>2 DEF BarredOut, CallRecords
    <3>4. \A d \in Calls : BarredOut(policy', calls'[d])
      BY <3>1, <3>2, <3>3
    <3>5. ListsDisjoint'
      BY <3>1 DEF BlockInv, ListsDisjoint
    <3>6. QED
      BY <3>4, <3>5 DEF BlockInv, BarredOut, Barred
  <2>2. CASE Administrate
    <3>1. ListsDisjoint'
      BY <2>2, ListsKept DEF Administrate, TypeOK, Policies, BlockInv
    <3>2. ASSUME NEW d \in Calls PROVE BarredOut(policy', calls'[d])
      <4>1. calls'[d] = [calls[d] EXCEPT !.barred = calls[d].barred /\ Barred(policy', calls[d].exe)]
        BY <2>2 DEF Administrate
      <4>2. calls[d] \in CallRecords /\ BarredOut(policy, calls[d])
        BY DEF TypeOK, BlockInv
      <4>3. QED
        BY <4>1, <4>2 DEF BarredOut, CallRecords
    <3>3. QED
      BY <3>1, <3>2 DEF BlockInv, BarredOut, Barred
  <2>3. CASE Tick
    <3>1. ASSUME NEW d \in Calls PROVE BarredOut(policy, calls'[d])
      <4>1. /\ calls[d] \in CallRecords /\ BarredOut(policy, calls[d])
            /\ \/ calls'[d] = calls[d]
               \/ \E x, y, z : calls'[d] = [calls[d] EXCEPT !.timer = x, !.lost = y, !.lapsed = z]
        BY <2>3 DEF Tick, TypeOK, BlockInv
      <4>2. QED
        BY <4>1 DEF BarredOut, CallRecords
    <3>2. QED
      BY <2>3, <3>1 DEF Tick, policyVars, BlockInv, ListsDisjoint, BarredOut, Barred
  <2>4. CASE UNCHANGED <<policy, calls>>
    BY <2>4 DEF BlockInv, ListsDisjoint, BarredOut, Barred
  <2>5. QED
    BY <2>1, <2>2, <2>3, <2>4 DEF Next, AcquireWriter, ReleaseWriter, TreeChanges, vars, policyVars
<1>3. TypeOK /\ BlockInv => BlockedStaysOut
  BY DEF BlockInv, ListsDisjoint, Clash, BlockedStaysOut, BarredOut, Running, TypeOK, CallRecords
<1>4. QED
  BY <1>1, <1>2, <1>3, TypeCorrect, PTL DEF Spec

-----------------------------------------------------------------------------
(* The lease under a running command.  A call renews it when it is admitted *)
(* and at every heartbeat, so what it has left, with what has passed since, *)
(* is the whole of it, or all but the one interval the Runtime took.        *)

Beating(r) == r.kind \in Heartbeated /\ r.phase \in {"admitted", "ready", "running"}
Slack(r) == IF r.phase = "admitted" THEN 0 ELSE HeartbeatInterval

InTime(l, r) ==
    /\ r.phase = "running" => r.kind \in Heartbeated
    /\ Beating(r) =>
         /\ r.timer <= HeartbeatInterval /\ ~r.lapsed /\ r.lost <= r.timer
         /\ r.phase # "running" => r.lost = 0
         /\ l.owner = r.owner /\ l.left > 0 /\ ~r.canceled => l.left + r.timer + Slack(r) >= TTL

LeaseInv == \A c \in Calls : InTime(lease, calls[c])

LEMMA IntervalFits ==
  HeartbeatInterval \in Nat /\ HeartbeatInterval >= 1 /\ 3 * HeartbeatInterval <= TTL
BY LeaseAssumption DEF HeartbeatInterval

LEMMA InTimeSelf ==
  ASSUME TypeOK, LeaseInv, NEW c \in Calls, Becomes(c)
  PROVE  InTime(lease', calls'[c])
<1>. USE LeaseAssumption, IntervalFits DEF InTime, Beating, Slack
<1>0. /\ calls[c] \in CallRecords /\ New \in CallRecords /\ InTime(lease, calls[c])
      /\ lease \in Leases
  BY RecordTypes DEF TypeOK, LeaseInv, Leases
<1>1. CASE IsAdmitted(c)
  <2>1. PICK k \in Kinds, o \in Owners, e \in Executables \cup {"none"}, n \in Nat :
               calls'[c] = Admitted(k, o, e, n)
    BY <1>1 DEF IsAdmitted
  <2>2. /\ calls'[c].phase = "admitted" /\ calls'[c].kind = k /\ calls'[c].timer = 0
        /\ calls'[c].lost = 0 /\ calls'[c].lapsed = FALSE
    BY <2>1 DEF Admitted, New
  <2>3. QED
    BY <1>1, <2>2 DEF IsAdmitted
<1>2. CASE IsReady(c)
  <2>1. /\ calls'[c].phase = "ready" /\ calls'[c].kind = calls[c].kind /\ calls'[c].timer = 0
        /\ calls'[c].lost = calls[c].lost /\ calls'[c].lapsed = calls[c].lapsed
        /\ calls'[c].owner = calls[c].owner /\ calls'[c].canceled = calls[c].canceled
    BY <1>0, <1>2 DEF IsReady, CallRecords
  <2>2. calls[c].timer \in Nat /\ calls[c].lost \in Nat /\ lease.left \in Nat
    BY <1>0 DEF CallRecords, Leases
  <2>3. lease' = lease /\ calls[c].phase = "admitted"
    BY <1>2 DEF IsReady
  <2>4. QED
    BY <1>0, <2>1, <2>2, <2>3
<1>3. CASE IsRenewed(c)
  <2>1. /\ calls'[c].phase = calls[c].phase /\ calls'[c].kind = calls[c].kind /\ calls'[c].timer = 0
        /\ calls'[c].lost = 0 /\ calls'[c].lapsed = calls[c].lapsed /\ lease'.left = TTL
    BY <1>0, <1>3 DEF IsRenewed, CallRecords
  <2>2. QED
    BY <1>0, <2>1
<1>4. CASE IsCanceled(c)
  <2>1. /\ calls'[c].phase = calls[c].phase /\ calls'[c].kind = calls[c].kind
        /\ calls'[c].timer = calls[c].timer /\ calls'[c].lost = calls[c].lost
        /\ calls'[c].lapsed = calls[c].lapsed /\ calls'[c].canceled = TRUE
    BY <1>0, <1>4 DEF IsCanceled, CallRecords
  <2>2. QED
    BY <1>0, <2>1
<1>5. CASE IsRunning(c)
  <2>1. /\ calls'[c].phase = "running" /\ calls'[c].kind = calls[c].kind
        /\ calls'[c].timer = calls[c].timer /\ calls'[c].lost = calls[c].lost
        /\ calls'[c].lapsed = calls[c].lapsed /\ calls'[c].canceled = calls[c].canceled
        /\ calls'[c].owner = calls[c].owner
    BY <1>0, <1>5 DEF IsRunning, CallRecords
  <2>2. /\ calls[c].phase = "ready" /\ lease' = lease
        /\ calls[c].kind \in Heartbeated
    BY <1>5 DEF IsRunning, Heartbeated
  <2>3. QED
    BY <1>0, <2>1, <2>2
<1>6. CASE GoesInside(c)
  BY <1>0, <1>6 DEF GoesInside, CallRecords
<1>7. CASE IsOver(c)
  <2>1. calls'[c].phase \in {"over", "ended"}
    BY <1>7 DEF IsOver, Over, New
  <2>2. QED
    BY <2>1
<1>8. QED
  BY <1>1, <1>2, <1>3, <1>4, <1>5, <1>6, <1>7 DEF Becomes

\* A call that takes no step does not mind another renewing the lease.
LEMMA InTimeOthers ==
  ASSUME NEW r \in CallRecords, NEW s, s = r \/ (\E n \in Nat : s = [r EXCEPT !.seen = n]) \/
             (\E x : s = [r EXCEPT !.barred = x]),
         NEW l, InTime(lease, r), l = lease \/ l.left \in {0, TTL}
  PROVE  InTime(l, s)
<1>. USE LeaseAssumption, IntervalFits DEF InTime, Beating, Slack
<1>1. /\ s.phase = r.phase /\ s.kind = r.kind /\ s.timer = r.timer /\ s.lost = r.lost
      /\ s.lapsed = r.lapsed /\ s.canceled = r.canceled /\ s.owner = r.owner
  BY DEF CallRecords
<1>2. r.timer \in Nat
  BY DEF CallRecords
<1>3. QED
  BY <1>1, <1>2

\* A tick that is not late for the heartbeat of r.
LEMMA InTimeTick ==
  ASSUME TypeOK, NEW c \in Calls, InTime(lease, calls[c]), Tick
  PROVE  InTime(lease', calls'[c])
<1>. USE LeaseAssumption, IntervalFits DEF InTime, Beating, Slack
<1>0. calls[c] \in CallRecords /\ lease \in Leases
  BY DEF TypeOK, Leases
<1>1. /\ lease'.left = (IF lease.left > 0 THEN lease.left - 1 ELSE 0)
      /\ lease'.owner = lease.owner
  BY <1>0 DEF Tick, Leases
<1>2. calls[c].timer \in Nat /\ calls[c].lost \in Nat /\ lease.left \in Nat
  BY <1>0 DEF CallRecords, Leases
<1>3. CASE calls[c].kind \notin Heartbeated \/ calls[c].phase \in {"ended", "over"}
  <2>1. calls'[c] = calls[c]
    BY <1>3 DEF Tick
  <2>2. QED
    BY <1>3, <2>1
<1>4. CASE Beating(calls[c])
  <2>1. ~calls[c].canceled /\ calls[c].timer < HeartbeatInterval
    BY <1>4 DEF Tick, Prompt
  <2>2. calls'[c] = [calls[c] EXCEPT
                  !.timer = @ + 1,
                  !.lost = IF calls[c].phase = "running" /\ ~Holds(calls[c].owner) THEN @ + 1 ELSE @,
                  !.lapsed = @ \/ (calls[c].phase = "running" /\ Holds(calls[c].owner) /\ lease.left = 1)]
    BY <1>4 DEF Tick
  <2>3. /\ calls'[c].phase = calls[c].phase /\ calls'[c].kind = calls[c].kind
        /\ calls'[c].timer = calls[c].timer + 1
        /\ calls'[c].lost = IF calls[c].phase = "running" /\ ~Holds(calls[c].owner)
                              THEN calls[c].lost + 1 ELSE calls[c].lost
        /\ calls'[c].canceled = calls[c].canceled /\ calls'[c].owner = calls[c].owner
    BY <1>0, <2>2 DEF CallRecords
  <2>4. Holds(calls[c].owner) => lease.left # 1
    BY <1>2, <1>4, <2>1 DEF Holds
  <2>5. calls'[c].lapsed = calls[c].lapsed
    BY <1>0, <2>2, <2>4 DEF CallRecords
  <2>6. QED
    BY <1>1, <1>2, <1>4, <2>1, <2>3, <2>5
<1>5. CASE calls[c].kind \in Heartbeated /\ ~Beating(calls[c]) /\ calls[c].phase \notin {"ended", "over"}
  <2>1. calls'[c].phase = calls[c].phase /\ calls'[c].kind = calls[c].kind
    BY <1>0, <1>5 DEF Tick, CallRecords
  <2>2. QED
    BY <1>5, <2>1
<1>6. QED
  BY <1>3, <1>4, <1>5

\* The lease of an owner never runs out under a command or a Git mutation of
\* his, and one whose lease was taken away runs for one heartbeat interval more
\* at most, however long it runs and whatever others do with the lease.
THEOREM LeaseKept == Spec => []CommandsKeepLease
<1>1. Init => LeaseInv
  BY DEF Init, LeaseInv, InTime, Beating, New
<1>2. TypeOK /\ LeaseInv /\ [Next]_vars => LeaseInv'
  <2>. SUFFICES ASSUME TypeOK, LeaseInv, [Next]_vars PROVE \A c \in Calls : InTime(lease', calls'[c])
    BY DEF LeaseInv, InTime, Beating, Slack
  <2>. TAKE c \in Calls
  <2>0. calls[c] \in CallRecords /\ InTime(lease, calls[c])
    BY DEF TypeOK, LeaseInv
  <2>1. ASSUME NEW d \in Calls, Step(d) PROVE InTime(lease', calls'[c])
    <3>1. CASE d = c
      BY <2>1, <3>1, StepSelf, InTimeSelf
    <3>2. CASE d # c
      <4>1. calls'[c] = calls[c] \/ \E n \in Nat : calls'[c] = [calls[c] EXCEPT !.seen = n]
        BY <2>1, <3>2, StepOthers
      <4>2. lease' = lease \/ lease'.left \in {0, TTL}
        BY <2>1, StepOthers DEF Renewed
      <4>3. QED
        BY <2>0, <4>1, <4>2, InTimeOthers
    <3>3. QED
      BY <3>1, <3>2
  <2>2. CASE Administrate
    <3>1. lease' = lease /\ \E x : calls'[c] = [calls[c] EXCEPT !.barred = x]
      BY <2>2 DEF Administrate
    <3>2. QED
      BY <2>0, <3>1, InTimeOthers
  <2>3. CASE Tick
    BY <2>0, <2>3, InTimeTick
  <2>4. CASE ReleaseWriter \/ \E o \in Owners : AcquireWriter(o)
    <3>1. calls' = calls /\ lease'.left \in {0, TTL}
      BY <2>4 DEF ReleaseWriter, AcquireWriter, Renewed
    <3>2. QED
      BY <2>0, <3>1, InTimeOthers
  <2>5. CASE UNCHANGED <<lease, calls>>
    BY <2>0, <2>5
  <2>6. QED
    BY <2>1, <2>2, <2>3, <2>4, <2>5 DEF Next, TreeChanges, vars
<1>3. TypeOK /\ LeaseInv => CommandsKeepLease
  <2>. SUFFICES ASSUME TypeOK, LeaseInv, NEW c \in Calls, Running(c)
                PROVE  ~calls[c].lapsed /\ calls[c].lost <= HeartbeatInterval
    BY DEF CommandsKeepLease
  <2>1. calls[c].timer \in Nat /\ calls[c].lost \in Nat
    BY DEF TypeOK, CallRecords
  <2>2. QED
    BY <2>1, IntervalFits DEF LeaseInv, InTime, Beating, Running
<1>4. QED
  BY <1>1, <1>2, <1>3, TypeCorrect, PTL DEF Spec

-----------------------------------------------------------------------------
(* What a commit holds.  A call never saw more than what the file is now,   *)
(* and between git add and git commit the index is no older than what it    *)
(* saw, whoever stages meanwhile.                                           *)

SeenBy(r) == r.seen <= tree.file /\ (r.phase = "added" => r.seen <= git.index.file)

SeenInv ==
    /\ tree.file <= last /\ git.index.file <= last /\ git.head.file <= last
    /\ \A c \in Calls : SeenBy(calls[c])

\* Nobody saw anything but the file as it is, and nobody staged.
SeenKept == \A d \in Calls :
    /\ calls'[d].seen \in {0, calls[d].seen, tree.file}
    /\ calls'[d].phase = "added" => calls[d].phase = "added" /\ calls'[d].seen = calls[d].seen

LEMMA OneSeenKept ==
  ASSUME TypeOK, NEW c \in Calls, NEW r, Set(c, r), r.seen \in {0, calls[c].seen, tree.file},
         r.phase # "added"
  PROVE  SeenKept
BY DEF TypeOK, Set, SeenKept

LEMMA NoneSeenKept == calls' = calls => SeenKept
BY DEF SeenKept

LEMMA OverSeen ==
  ASSUME NEW c
  PROVE  /\ Over.seen = 0 /\ Over.phase # "added"
         /\ Done(c).seen = 0 /\ Done(c).phase \in {"over", "ended"}
BY DEF Over, New, Done

LEMMA SameFileSeen ==
  ASSUME TypeOK, SeenInv, SeenKept, UNCHANGED <<git, last>>, tree'.file = tree.file
  PROVE  SeenInv'
BY DEF TypeOK, CallRecords, Contents, SeenInv, SeenBy, SeenKept

\* A change of the file, and what staging and committing make of it.
LEMMA NewerFileSeen ==
  ASSUME TypeOK, SeenInv, SeenKept, tree'.file = last', last' = last + 1,
         \/ git'.index.file = git.index.file /\ git'.head.file = git.head.file
         \/ git'.index.file = last' /\ git'.head.file = last'
  PROVE  SeenInv'
<1>1. last \in Nat /\ tree.file \in Nat /\ git.index.file \in Nat /\ git.head.file \in Nat
  BY DEF TypeOK, Contents
<1>2. /\ tree'.file <= last' /\ git'.index.file <= last' /\ git'.head.file <= last'
      /\ git'.index.file >= git.index.file
  BY <1>1 DEF SeenInv
<1>3. ASSUME NEW d \in Calls
      PROVE  /\ calls'[d].seen <= tree'.file
             /\ calls'[d].phase = "added" => calls'[d].seen <= git'.index.file
  <2>1. calls[d].seen \in Nat /\ calls[d].seen <= tree.file
    BY DEF TypeOK, CallRecords, SeenInv, SeenBy
  <2>2. calls[d].phase = "added" => calls[d].seen <= git.index.file
    BY DEF SeenInv, SeenBy
  <2>3. calls'[d].seen <= tree.file
    BY <1>1, <2>1 DEF SeenKept
  <2>4. calls'[d].seen \in Nat
    BY <1>1, <2>1 DEF SeenKept
  <2>5. QED
    BY <1>1, <1>2, <2>1, <2>2, <2>3, <2>4 DEF SeenInv, SeenKept
<1>4. QED
  BY <1>2, <1>3 DEF SeenInv, SeenBy

LEMMA StagedSeen ==
  ASSUME TypeOK, SeenInv, git'.index = tree, git'.head = git.head, UNCHANGED <<tree, last>>,
         \A d \in Calls : calls'[d].seen \in {0, calls[d].seen}
  PROVE  SeenInv'
BY DEF TypeOK, CallRecords, Contents, SeenInv, SeenBy

LEMMA CommittedSeen ==
  ASSUME TypeOK, SeenInv, SeenKept, git'.index = git.index, git'.head = git.index,
         UNCHANGED <<tree, last>>
  PROVE  SeenInv'
BY DEF TypeOK, CallRecords, Contents, SeenInv, SeenBy, SeenKept

LEMMA AbortSeen ==
  ASSUME TypeOK, SeenInv, NEW c \in Calls, NEW kind, GitAborts(kind),
         calls' = [d \in Calls |->
                IF d = c THEN Done(c)
                ELSE IF calls[d].seen > git.head.file THEN [calls[d] EXCEPT !.seen = git.head.file]
                ELSE calls[d]]
  PROVE  SeenInv'
<1>1. /\ tree'.file = git.head.file /\ git'.index = git.head /\ git'.head = git.head
      /\ last' = last /\ git.head.file \in Nat
  BY DEF GitAborts, TypeOK, Contents
<1>2. ASSUME NEW d \in Calls
      PROVE  calls'[d].seen <= git.head.file
  <2>1. calls[d] \in CallRecords
    BY DEF TypeOK
  <2>2. CASE d = c
    BY <1>1, <2>2, OverSeen
  <2>3. CASE d # c /\ calls[d].seen > git.head.file
    BY <1>1, <2>1, <2>3 DEF CallRecords
  <2>4. CASE d # c /\ ~(calls[d].seen > git.head.file)
    BY <1>1, <2>1, <2>4 DEF CallRecords
  <2>5. QED
    BY <2>2, <2>3, <2>4
<1>3. QED
  BY <1>1, <1>2 DEF SeenInv, SeenBy

LEMMA StepSeen ==
  ASSUME TypeOK, SeenInv, NEW c \in Calls, Step(c)
  PROVE  SeenInv'
<1>1. /\ \A p : p # "added" /\ GoesOn(c, p) => SeenKept
      /\ Set(c, Over) \/ Acted(c) => SeenKept
  <2>1. ASSUME NEW p, p # "added", GoesOn(c, p) PROVE SeenKept
    <3>1. calls[c] \in CallRecords
      BY DEF TypeOK
    <3>2. [calls[c] EXCEPT !.phase = p].phase = p /\ [calls[c] EXCEPT !.phase = p].seen = calls[c].seen
      BY <3>1 DEF CallRecords
    <3>3. QED
      BY <2>1, <3>2, OneSeenKept DEF GoesOn
  <2>2. QED
    BY <2>1, OneSeenKept, OverSeen DEF Acted
<1>2. ASSUME NEW kind, NEW o, NEW e, RequireWriter(c, kind, o, e)
      PROVE  SeenInv'
  <2>. DEFINE r == [New EXCEPT !.phase = "admitted", !.kind = kind, !.owner = o, !.exe = e,
                               !.seen = IF kind = "commit" THEN tree.file ELSE 0,
                               !.barred = kind \in Commands /\ Barred(policy, e)]
  <2>1. Set(c, r)
    BY <1>2 DEF RequireWriter
  <2>2. SeenKept
    <3>1. r.phase = "admitted" /\ r.seen = IF kind = "commit" THEN tree.file ELSE 0
      BY ZenonT(30) DEF New
    <3>. HIDE DEF r
    <3>2. QED
      BY <2>1, <3>1, OneSeenKept
  <2>3. QED
    BY <1>2, <2>2, SameFileSeen DEF RequireWriter
<1>3. CASE Runtime(c) \/ HeartbeatWriter(c) \/ ExecStarts(c)
  <2>1. SeenKept
    <3>1. CASE Set(c, Over)
      BY <1>1, <3>1
    <3>2. CASE \E v : Set(c, [calls[c] EXCEPT !.phase = "ready", !.verdict = v, !.timer = 0])
      BY <3>2, OneSeenKept DEF TypeOK, CallRecords
    <3>3. CASE HeartbeatWriter(c)
      <4>1. /\ calls[c] \in CallRecords /\ calls[c].phase # "added"
            /\ \/ Set(c, [calls[c] EXCEPT !.timer = 0, !.lost = 0])
               \/ Set(c, [calls[c] EXCEPT !.canceled = TRUE])
        BY <3>3 DEF HeartbeatWriter, Beats, TypeOK
      <4>2. QED
        BY <4>1, OneSeenKept DEF CallRecords
    <3>4. CASE ExecStarts(c)
      BY <3>4 DEF ExecStarts, Set, SeenKept, TypeOK, CallRecords
    <3>5. QED
      BY <1>3, <3>1, <3>2, <3>3, <3>4 DEF Runtime
  <2>2. QED
    BY <1>3, <2>1, SameFileSeen DEF Runtime, HeartbeatWriter, ExecStarts
<1>4. CASE \/ Touch(c) \/ EditReads(c) \/ CreateTemp(c) \/ GitChangedPaths(c)
           \/ ExecRefused(c) \/ ExecEnds(c) \/ GitChecks(c)
  <2>1. SeenKept
    BY <1>1, <1>4 DEF Touch, EditReads, CreateTemp, GitChangedPaths, ExecRefused, ExecEnds, GitChecks
  <2>2. UNCHANGED <<git, last>> /\ tree'.file = tree.file
    BY <1>4 DEF Touch, EditReads, CreateTemp, GitChangedPaths, ExecRefused, ExecEnds, GitChecks,
       TypeOK, Contents
  <2>3. QED
    BY <2>1, <2>2, SameFileSeen
<1>5. CASE Rename(c) \/ Delete(c)
  <2>1. SeenKept /\ UNCHANGED git
    BY <1>1, <1>5 DEF Rename, Delete
  <2>2. \/ tree'.file = tree.file /\ UNCHANGED last
        \/ tree'.file = last' /\ last' = last + 1
    BY <1>5 DEF Rename, Delete, NewVersion, TypeOK, Contents
  <2>3. QED
    BY <2>1, <2>2, SameFileSeen, NewerFileSeen
<1>6. CASE GitAdd(c)
  <2>1. CASE Set(c, Over) /\ UNCHANGED git
    BY <1>1, <1>6, <2>1, SameFileSeen DEF GitAdd
  <2>2. CASE AddAll /\ GoesOn(c, "added")
    <3>1. git'.index = tree /\ git'.head = git.head
      BY <2>2 DEF AddAll, TypeOK
    <3>2. \A d \in Calls : calls'[d].seen \in {0, calls[d].seen}
      BY <2>2 DEF GoesOn, Set, TypeOK, CallRecords
    <3>3. QED
      BY <1>6, <3>1, <3>2, StagedSeen DEF GitAdd
  <2>3. QED
    BY <1>6, <2>1, <2>2 DEF GitAdd
<1>7. CASE GitCommit(c)
  <2>1. CASE UNCHANGED git
    BY <1>1, <1>7, <2>1, SameFileSeen DEF GitCommit
  <2>2. CASE git' = [git EXCEPT !.head = git.index, !.op = "none"]
    <3>1. git'.index = git.index /\ git'.head = git.index
      BY <2>2 DEF TypeOK
    <3>2. QED
      BY <1>1, <1>7, <3>1, CommittedSeen DEF GitCommit
  <2>3. QED
    BY <1>7, <2>1, <2>2 DEF GitCommit
<1>8. CASE GitActs(c)
  <2>1. ASSUME NEW kind, GitBringsIn(kind), SeenKept PROVE SeenInv'
    <3>1. tree'.file = last' /\ last' = last + 1
      BY <2>1 DEF GitBringsIn, NewVersion, TypeOK, Contents
    <3>2. \/ git'.index.file = git.index.file /\ git'.head.file = git.head.file
          \/ git'.index.file = last' /\ git'.head.file = last'
      <4>1. /\ git \in [index : Contents, head : Contents, conflicts : BOOLEAN,
                          op : {"none", "pick", "merge"}]
            /\ git.index \in Contents /\ git.head \in Contents
        BY DEF TypeOK
      <4>2. CASE git' = [git EXCEPT !.index.file = last', !.head.file = last']
        <5>1. git'.index = [git.index EXCEPT !.file = last'] /\ git'.head = [git.head EXCEPT !.file = last']
          BY <4>1, <4>2
        <5>2. QED
          BY <4>1, <5>1 DEF Contents
      <4>3. CASE git' = [git EXCEPT !.conflicts = TRUE, !.op = OpOf(kind)]
        BY <4>1, <4>3
      <4>4. QED
        BY <2>1, <4>2, <4>3 DEF GitBringsIn
    <3>3. QED
      BY <2>1, <3>1, <3>2, NewerFileSeen
  <2>2. ASSUME GitContinues, SeenKept PROVE SeenInv'
    <3>1. git'.index = git.index /\ git'.head = git.index
      BY <2>2 DEF GitContinues, TypeOK
    <3>2. QED
      BY <2>2, <3>1, CommittedSeen DEF GitContinues
  <2>3. ASSUME Set(c, Over), UNCHANGED <<tree, git, last>> PROVE SeenInv'
    BY <1>1, <2>3, SameFileSeen
  <2>4. QED
    BY <1>1, <1>8, <2>1, <2>2, <2>3, AbortSeen DEF GitActs
<1>9. QED
  BY <1>2, <1>3, <1>4, <1>5, <1>6, <1>7, <1>8 DEF Step

LEMMA NextSeen ==
  ASSUME TypeOK, SeenInv, [Next]_vars
  PROVE  SeenInv'
<1>1. CASE \E c \in Calls : Step(c)
  BY <1>1, StepSeen
<1>2. CASE ReleaseWriter \/ (\E o \in Owners : AcquireWriter(o)) \/ UNCHANGED vars
  BY <1>2, NoneSeenKept, SameFileSeen DEF ReleaseWriter, AcquireWriter, vars
<1>3. CASE Administrate \/ Tick
  <2>1. SeenKept
    <3>1. CASE Administrate
      BY <3>1 DEF Administrate, SeenKept, TypeOK, CallRecords
    <3>2. CASE Tick
      <4>1. ASSUME NEW d \in Calls
            PROVE  calls'[d].seen = calls[d].seen /\ calls'[d].phase = calls[d].phase
        <5>1. /\ calls[d] \in CallRecords
              /\ \/ calls'[d] = calls[d]
                 \/ \E x, y, z : calls'[d] = [calls[d] EXCEPT !.timer = x, !.lost = y, !.lapsed = z]
          BY <3>2 DEF Tick, TypeOK
        <5>2. QED
          BY <5>1 DEF CallRecords
      <4>2. QED
        BY <4>1 DEF SeenKept
    <3>3. QED
      BY <1>3, <3>1, <3>2
  <2>2. QED
    BY <1>3, <2>1, SameFileSeen DEF Administrate, Tick
<1>4. CASE TreeChanges
  <2>1. CASE NewVersion /\ tree' = [tree EXCEPT !.file = last'] /\ UNCHANGED git
    BY <1>4, <2>1, NoneSeenKept, NewerFileSeen DEF TreeChanges, NewVersion, TypeOK, Contents
  <2>2. CASE git' = [git EXCEPT !.index = tree, !.conflicts = FALSE] /\ UNCHANGED <<tree, last>>
    <3>1. git'.index = tree /\ git'.head = git.head
      BY <2>2 DEF TypeOK
    <3>2. calls' = calls
      BY <1>4 DEF TreeChanges
    <3>3. QED
      BY <2>2, <3>1, <3>2, StagedSeen
  <2>3. QED
    BY <1>4, <2>1, <2>2 DEF TreeChanges
<1>5. QED
  BY <1>1, <1>2, <1>3, <1>4 DEF Next

\* Only the commit itself ends a call that has staged.
LEMMA OnlyCommitEnds ==
  ASSUME TypeOK, [Next]_vars, NEW c \in Calls, calls[c].phase = "added", calls'[c].phase = "ended"
  PROVE  git'.head = git.index
<1>1. ASSUME NEW d \in Calls, Step(d)
      PROVE  git'.head = git.index
  <2>1. d = c
    <3>1. SUFFICES ASSUME d # c PROVE FALSE
      OBVIOUS
    <3>2. calls'[c] = calls[c] \/ \E n \in Nat : calls'[c] = [calls[c] EXCEPT !.seen = n]
      BY <1>1, <3>1, StepOthers
    <3>3. QED
      BY <3>2 DEF TypeOK, CallRecords
  <2>2. Touch(c) \/ HeartbeatWriter(c) \/ GitCommit(c)
    BY <1>1, <2>1 DEF Step, RequireWriter, Runtime, EditReads, CreateTemp, Rename, Delete,
       GitChangedPaths, GitAdd, ExecStarts, ExecRefused, ExecEnds, GitChecks, GitActs
  <2>3. GitCommit(c)
    BY <2>2 DEF Touch, HeartbeatWriter, Beats
  <2>4. ~Set(c, Over)
    <3>1. Over.phase = "over"
      BY DEF Over, New
    <3>2. Set(c, Over) => calls'[c].phase = "over"
      BY <3>1 DEF TypeOK, Set
    <3>3. QED
      BY <3>2
  <2>5. QED
    BY <2>3, <2>4 DEF GitCommit, TypeOK
<1>2. ASSUME calls'[c].phase = calls[c].phase
      PROVE  FALSE
  BY <1>2
<1>3. CASE Administrate
  BY <1>2, <1>3 DEF Administrate, TypeOK, CallRecords
<1>4. CASE Tick
  <2>1. /\ calls[c] \in CallRecords
        /\ \/ calls'[c] = calls[c]
           \/ \E x, y, z : calls'[c] = [calls[c] EXCEPT !.timer = x, !.lost = y, !.lapsed = z]
    BY <1>4 DEF Tick, TypeOK
  <2>2. QED
    BY <1>2, <2>1 DEF CallRecords
<1>5. QED
  BY <1>1, <1>2, <1>3, <1>4 DEF Next, AcquireWriter, ReleaseWriter, TreeChanges, vars

\* A commit that succeeds holds what was in the directory when its call came,
\* or something newer, whoever stages, commits, picks, merges or aborts between
\* the look at the changed paths, git add and git commit.
THEOREM CommitsAll == Spec => CommitsWhatWasThere
<1>1. Init => SeenInv
  BY DEF Init, SeenInv, SeenBy, New
<1>2. TypeOK /\ SeenInv /\ [Next]_vars => SeenInv'
  BY NextSeen
<1>3. TypeOK /\ SeenInv /\ [Next]_vars
        => [\A c \in Calls : calls[c].phase = "added" /\ calls'[c].phase = "ended"
              => git'.head.file >= calls[c].seen]_vars
  <2>. SUFFICES ASSUME TypeOK, SeenInv, [Next]_vars, NEW c \in Calls,
                       calls[c].phase = "added", calls'[c].phase = "ended"
                PROVE  git'.head.file >= calls[c].seen
    OBVIOUS
  <2>1. git'.head = git.index
    BY OnlyCommitEnds
  <2>2. QED
    BY <2>1 DEF SeenInv, SeenBy, TypeOK, CallRecords, Contents
<1>4. QED
  BY <1>1, <1>2, <1>3, TypeCorrect, PTL DEF Spec, CommitsWhatWasThere

===============================================================================
