---------------------------- MODULE ProjectIndex ----------------------------
(***************************************************************************)
(* The source index of one Environment (internal/app index_store,          *)
(* index_jobs, index_auto, service; internal/gateway index_auto_watch).    *)
(* Everything is keyed by Environment identity and identities are never    *)
(* used again, so one Environment stands for all.                          *)
(*                                                                         *)
(* Threads are the requests and goroutines of a Gateway: analyses (of a    *)
(* request, a background job or a watch), queries, removals and changes of *)
(* the automatic-update setting.  Analyses and cleanups hold the index     *)
(* lock, queries share it.  Directories, files and the setting survive a   *)
(* restart; threads, locks, jobs and watches do not.                       *)
(***************************************************************************)
EXTENDS Naturals

CONSTANTS
    Threads,        \* requests and goroutines
    WatchThreads,   \* those that are watch goroutines
    Gens,           \* names of generation directories
    None,           \* no thread, no generation
    Surfaces,       \* who removes: "tool" drops the Environment, "web" does not
    MaxEdits,       \* changes of the source
    MaxFailures,    \* errors of the disk or the state file
    MaxRestarts     \* crashes, or stops and starts, of the Gateway

ASSUME IndexAssumption ==
    /\ None \notin Threads \cup Gens /\ WatchThreads \subseteq Threads
    /\ Surfaces \subseteq {"tool", "web"}
    /\ MaxEdits \in Nat /\ MaxFailures \in Nat /\ MaxRestarts \in Nat

VARIABLES
    exists,         \* the Environment has its record
    auto,           \* it is in AutoIndexEnvironmentIDs
    source,         \* version of its source files
    onDisk,         \* the generation directories
    older,          \* pairs of them, the first made before the second
    whole,          \* generations whose files are all written
    indexed,        \* the version of the source each generation describes
    pointer,        \* the generation current.json names
    holder,         \* who holds the index lock
    readers,        \* who shares it
    pc, role,       \* where each thread is, and on whose behalf
    from,           \* the version of the source an analysis began to scan
    gen,            \* the generation a thread stages or reads
    job,            \* state of the latest background job
    watcher,        \* the watch in o.indexWatchers
    cancelled,      \* watches whose context is cancelled
    events,         \* watches with file events not yet received
    dirty, queued,  \* the two flags of runAutoIndexWatch
    failures, restarts,
    abandoned       \* a cleanup was cut short by an error or a crash

diskVars == <<onDisk, older, whole, indexed, pointer>>
lockVars == <<holder, readers>>
threadVars == <<pc, role, from, gen>>
watchVars == <<watcher, cancelled, events, dirty, queued>>
boundVars == <<failures, restarts, abandoned>>
vars == <<exists, auto, source, diskVars, lockVars, threadVars, job, watchVars, boundVars>>

Cleaning == {"wantCleanup", "cleanDirectory", "cleanSetting"}
Setting == {"watchCheck", "watchInstall", "setGet", "setUpdate", "setStatus", "watchStop"}
------------------------------------------------------------------------------
Init ==
    /\ exists = TRUE /\ auto = FALSE /\ source = 0
    /\ onDisk = {} /\ older = {} /\ whole = {} /\ indexed = [g \in Gens |-> 0]
    /\ pointer = None
    /\ holder = None /\ readers = {}
    /\ pc = [t \in Threads |-> "idle"] /\ role = [t \in Threads |-> "request"]
    /\ from = [t \in Threads |-> 0] /\ gen = [t \in Threads |-> None]
    /\ job = "none"
    /\ watcher = None /\ cancelled = {} /\ events = {} /\ dirty = {} /\ queued = {}
    /\ failures = 0 /\ restarts = 0 /\ abandoned = FALSE

Goto(t, label) ==
    /\ pc' = [pc EXCEPT ![t] = label]
    /\ role' = IF label = "idle" THEN [role EXCEPT ![t] = "request"] ELSE role
Begin(t, label, as) ==
    /\ t \notin WatchThreads /\ pc[t] = "idle"
    /\ pc' = [pc EXCEPT ![t] = label] /\ role' = [role EXCEPT ![t] = as]

Unlock(t) == holder' = IF holder = t THEN None ELSE holder

\* Mutant: the lock is kept when the analysis fails.
ReturnsLocked(t, ok) ==
    /\ Goto(t, IF role[t] = "watch" THEN "loop" ELSE "idle")
    /\ job' = IF role[t] # "job" THEN job ELSE IF ok THEN "succeeded" ELSE "failed"
    /\ dirty' = IF ok THEN dirty \ {t} ELSE dirty
    /\ queued' = IF ~ok /\ role[t] = "watch" THEN queued \cup {t} ELSE queued
    /\ gen' = [gen EXCEPT ![t] = None] /\ from' = [from EXCEPT ![t] = 0]
    /\ holder' = IF ok THEN None ELSE holder
    /\ UNCHANGED <<exists, auto, source, readers, watcher, cancelled, events>>

\* Mutant: a watch whose analysis failed does not set its timer again.
ReturnsForGood(t, ok) ==
    /\ Goto(t, IF role[t] = "watch" THEN "loop" ELSE "idle")
    /\ job' = IF role[t] # "job" THEN job ELSE IF ok THEN "succeeded" ELSE "failed"
    /\ dirty' = IF ok THEN dirty \ {t} ELSE dirty
    /\ queued' = queued
    /\ gen' = [gen EXCEPT ![t] = None] /\ from' = [from EXCEPT ![t] = 0]
    /\ Unlock(t)
    /\ UNCHANGED <<exists, auto, source, readers, watcher, cancelled, events>>

\* The thread's call of AnalyzeProject has returned: a job records how it
\* ended, a watch goes back to its loop and tries again after a failure.
AnalysisReturns(t, ok) ==
    /\ Goto(t, IF role[t] = "watch" THEN "loop" ELSE "idle")
    /\ job' = IF role[t] # "job" THEN job ELSE IF ok THEN "succeeded" ELSE "failed"
    /\ dirty' = IF ok THEN dirty \ {t} ELSE dirty
    /\ queued' = IF ~ok /\ role[t] = "watch" THEN queued \cup {t} ELSE queued
    /\ gen' = [gen EXCEPT ![t] = None] /\ from' = [from EXCEPT ![t] = 0]
    /\ Unlock(t)
    /\ UNCHANGED <<exists, auto, source, readers, watcher, cancelled, events>>
------------------------------------------------------------------------------
(* Analysis: AnalyzeProjectWithProgress and projectIndexStore.publish. *)

RequestAnalysis(t) ==
    /\ Begin(t, "resolve", "request")
    /\ UNCHANGED <<exists, auto, source, diskVars, lockVars, from, gen, job, watchVars,
                   boundVars>>

\* A job that waits or runs is returned as it is; else a goroutine is started.
CanStartJob == exists /\ job \notin {"queued", "running"}
StartProjectIndexJob(t) ==
    /\ CanStartJob
    /\ Begin(t, "resolve", "job")
    /\ job' = "queued"
    /\ UNCHANGED <<exists, auto, source, diskVars, lockVars, from, gen, watchVars, boundVars>>

\* runProjectIndexJob marks the job running; Service.Runtime finds the record.
Resolve(t) ==
    /\ pc[t] = "resolve" /\ exists
    /\ Goto(t, "wantLock")
    /\ job' = IF role[t] = "job" THEN "running" ELSE job
    /\ UNCHANGED <<exists, auto, source, diskVars, lockVars, from, gen, watchVars,
                   boundVars>>

\* Mutant: an analysis does not wait for queries.
LockPastQueries(t) ==
    /\ pc[t] = "wantLock"
    /\ holder = None
    /\ holder' = t
    /\ Goto(t, "locked")
    /\ UNCHANGED <<exists, auto, source, diskVars, readers, from, gen, job, watchVars,
                   boundVars>>

LockIndex(t) ==
    /\ pc[t] = "wantLock"
    /\ holder = None /\ readers = {}
    /\ holder' = t
    /\ Goto(t, "locked")
    /\ UNCHANGED <<exists, auto, source, diskVars, readers, from, gen, job, watchVars,
                   boundVars>>

\* The Environment may have been removed while the lock was awaited.
\* Mutant: nobody looks.
NotAsked == TRUE
StillThere == exists
BeginScan(t) ==
    /\ pc[t] = "locked" /\ StillThere
    /\ from' = [from EXCEPT ![t] = source]
    /\ Goto(t, "scan")
    /\ UNCHANGED <<exists, auto, source, diskVars, lockVars, gen, job, watchVars,
                   boundVars>>

MakeDirectory(g) ==
    onDisk' = onDisk \cup {g} /\ older' = older \cup (onDisk \X {g})
KeepDirectories(kept) ==
    /\ onDisk' = onDisk \cap kept /\ older' = older \cap (kept \X kept)
    /\ whole' = whole \cap kept
    /\ indexed' = [g \in Gens |-> IF g \in kept THEN indexed[g] ELSE 0]

Unused == {g \in Gens \ onDisk : \A u \in Threads : gen[u] # g}

\* Mutant: current.json is renamed before the files are written.
PublishAndWrite(t) ==
    /\ pc[t] = "scan" /\ Unused # {}
    /\ LET g == CHOOSE h \in Unused : TRUE
       IN  /\ MakeDirectory(g) /\ pointer' = g
           /\ \E v \in from[t] .. source : indexed' = [indexed EXCEPT ![g] = v]
           /\ gen' = [gen EXCEPT ![t] = g]
    /\ Goto(t, "write")
    /\ UNCHANGED <<exists, auto, source, whole, lockVars, from, job, watchVars, boundVars>>

\* The scan saw each file at some moment since it began; publish makes a
\* directory of a new name for the result.
Stage(t) ==
    /\ pc[t] = "scan" /\ Unused # {}
    /\ LET g == CHOOSE h \in Unused : TRUE
       IN  /\ MakeDirectory(g)
           /\ \E v \in from[t] .. source : indexed' = [indexed EXCEPT ![g] = v]
           /\ gen' = [gen EXCEPT ![t] = g]
    /\ Goto(t, "write")
    /\ UNCHANGED <<exists, auto, source, whole, pointer, lockVars, from, job, watchVars,
                   boundVars>>

WriteFiles(t) ==
    /\ pc[t] = "write"
    /\ whole' = whole \cup {gen[t]}
    /\ Goto(t, "rename")
    /\ UNCHANGED <<exists, auto, source, onDisk, older, indexed, pointer, lockVars, from,
                   gen, job, watchVars, boundVars>>

RenamePointer(t) ==
    /\ pc[t] = "rename"
    /\ pointer' = gen[t]
    /\ Goto(t, "prune")
    /\ UNCHANGED <<exists, auto, source, onDisk, older, whole, indexed, lockVars, from,
                   gen, job, watchVars, boundVars>>

\* Of the other directories the newest one is retained.
Newest(dirs) == {h \in dirs : \A k \in dirs : <<h, k>> \notin older}
\* Mutant: only the published generation.
PublishedOnly(g) == {g}
Retained(g) == {g} \cup Newest(onDisk \ {g})
PruneGenerations(t) ==
    /\ pc[t] = "prune"
    /\ KeepDirectories(Retained(gen[t]))
    /\ UNCHANGED <<pointer, boundVars>>
    /\ AnalysisReturns(t, TRUE)

\* The record is gone, or the state file, the source or the disk fails.  A
\* directory that was being staged is removed again.
AnalyzeFails(t) ==
    /\ \/ /\ pc[t] \in {"resolve", "locked"} /\ ~exists
          /\ failures' = failures
       \/ /\ pc[t] \in {"resolve", "locked", "scan", "write", "rename"}
          /\ failures < MaxFailures /\ failures' = failures + 1
    /\ KeepDirectories(Gens \ {gen[t]})
    /\ UNCHANGED <<pointer, restarts, abandoned>>
    /\ AnalysisReturns(t, FALSE)
------------------------------------------------------------------------------
(* Queries: withIndex. *)

RequestQuery(t) ==
    /\ exists
    /\ Begin(t, "wantShared", "request")
    /\ UNCHANGED <<exists, auto, source, diskVars, lockVars, from, gen, job, watchVars,
                   boundVars>>

ShareLock(t) ==
    /\ pc[t] = "wantShared"
    /\ holder = None
    /\ readers' = readers \cup {t}
    /\ Goto(t, "shared")
    /\ UNCHANGED <<exists, auto, source, diskVars, holder, from, gen, job, watchVars,
                   boundVars>>

\* The query works on the generation current.json names now, if any.
OpenIndex(t) ==
    /\ pc[t] = "shared" /\ StillThere
    /\ gen' = [gen EXCEPT ![t] = pointer]
    /\ Goto(t, "reading")
    /\ UNCHANGED <<exists, auto, source, diskVars, lockVars, from, job, watchVars,
                   boundVars>>

Fresh(g) == g # None /\ indexed[g] = source

\* A query answers; a watch asked whether the index is fresh, and analyses
\* when it is not.
QueryReturns(t) ==
    /\ \/ pc[t] = "reading"
       \/ pc[t] = "shared" /\ ~StillThere
    /\ Goto(t, IF role[t] # "watch" THEN "idle"
               ELSE IF pc[t] = "reading" /\ Fresh(gen[t]) THEN "loop" ELSE "resolve")
    /\ readers' = readers \ {t}
    /\ gen' = [gen EXCEPT ![t] = None]
    /\ UNCHANGED <<exists, auto, source, diskVars, holder, from, job, watchVars,
                   boundVars>>
------------------------------------------------------------------------------
(* Removal of the Environment: Remove and CleanupProjectIndex. *)

StopWatch == watcher' = None /\ cancelled' = cancelled \cup ({watcher} \ {None})

RemoveEnvironment(t) ==
    /\ exists /\ exists' = FALSE
    /\ \E s \in Surfaces : Begin(t, "wantCleanup", s)
    /\ UNCHANGED <<auto, source, diskVars, lockVars, from, gen, job, watchVars, boundVars>>

LockForCleanup(t) ==
    /\ pc[t] = "wantCleanup"
    /\ holder = None /\ readers = {}
    /\ holder' = t
    /\ Goto(t, "cleanDirectory")
    /\ UNCHANGED <<exists, auto, source, diskVars, readers, from, gen, job, watchVars,
                   boundVars>>

RemoveDirectory(t) ==
    /\ pc[t] = "cleanDirectory"
    /\ KeepDirectories({}) /\ pointer' = None
    /\ Goto(t, "cleanSetting")
    /\ UNCHANGED <<exists, auto, source, lockVars, from, gen, job, watchVars,
                   boundVars>>

\* The administrative and agent tools go on to DropEnvironment.
RemoveAutoIndexID(t) ==
    /\ pc[t] = "cleanSetting"
    /\ auto' = FALSE
    /\ Unlock(t)
    /\ Goto(t, IF role[t] = "tool" THEN "drop" ELSE "idle")
    /\ UNCHANGED <<exists, source, diskVars, readers, from, gen, job, watchVars,
                   boundVars>>

\* An error of the cleanup is returned by the removal, which then drops nothing.
CleanupFails(t) ==
    /\ pc[t] \in Cleaning \ {"wantCleanup"}
    /\ failures < MaxFailures /\ failures' = failures + 1
    /\ abandoned' = TRUE
    /\ Unlock(t)
    /\ Goto(t, "idle")
    /\ UNCHANGED <<exists, auto, source, diskVars, readers, from, gen, job, watchVars,
                   restarts>>

\* DropEnvironment stops the watch and cleans up once more.
DropEnvironment(t) ==
    /\ pc[t] = "drop"
    /\ StopWatch
    /\ pc' = [pc EXCEPT ![t] = "wantCleanup"] /\ role' = [role EXCEPT ![t] = "dropped"]
    /\ UNCHANGED <<exists, auto, source, diskVars, lockVars, from, gen, job, events, dirty,
                   queued, boundVars>>
------------------------------------------------------------------------------
(* Automatic updates: SetAutoIndex, startAutoIndexWatch, SetIndexAuto. *)

SetAutoIndex(t) ==
    /\ exists
    /\ \/ Begin(t, "watchCheck", "enable")
       \/ Begin(t, "setGet", "disable")
    /\ UNCHANGED <<exists, auto, source, diskVars, lockVars, from, gen, job, watchVars,
                   boundVars>>

AfterStart(t) == IF role[t] = "enable" THEN "setGet" ELSE "idle"

\* An installed watch is kept; else the tree is walked, and watched from then on.
CheckWatch(t) ==
    /\ pc[t] = "watchCheck"
    /\ Goto(t, IF watcher # None THEN AfterStart(t)
               ELSE IF exists THEN "watchInstall" ELSE "idle")
    /\ UNCHANGED <<exists, auto, source, diskVars, lockVars, from, gen, job, watchVars,
                   boundVars>>

\* The goroutine starts with its timer set and no change seen.
InstallWatch(t) ==
    /\ pc[t] = "watchInstall" /\ watcher = None
    /\ \E w \in {u \in WatchThreads : pc[u] = "idle"} :
          /\ watcher' = w
          /\ pc' = [pc EXCEPT ![t] = AfterStart(t), ![w] = "loop"]
          /\ role' = [role EXCEPT ![w] = "watch", ![t] = IF @ = "restore" THEN "request" ELSE @]
          /\ queued' = queued \cup {w}
    /\ UNCHANGED <<exists, auto, source, diskVars, lockVars, from, gen, job, cancelled, events,
                   dirty, boundVars>>

\* The walk fails, or meets too many directories.
WalkFails(t) ==
    /\ pc[t] = "watchInstall"
    /\ failures < MaxFailures /\ failures' = failures + 1
    /\ Goto(t, "idle")
    /\ UNCHANGED <<exists, auto, source, diskVars, lockVars, from, gen, job, watchVars,
                   restarts, abandoned>>

KeepWatch(t) ==
    /\ pc[t] = "watchInstall" /\ watcher # None
    /\ Goto(t, AfterStart(t))
    /\ UNCHANGED <<exists, auto, source, diskVars, lockVars, from, gen, job, watchVars,
                   boundVars>>

GetForSetting(t) ==
    /\ pc[t] = "setGet" /\ exists
    /\ Goto(t, "setUpdate")
    /\ UNCHANGED <<exists, auto, source, diskVars, lockVars, from, gen, job, watchVars,
                   boundVars>>

\* The update of the state file does not look for the record again.
SetIndexAuto(t) ==
    /\ pc[t] = "setUpdate"
    /\ auto' = (role[t] = "enable")
    /\ Goto(t, "setStatus")
    /\ UNCHANGED <<exists, source, diskVars, lockVars, from, gen, job, watchVars,
                   boundVars>>

\* Mutant: a disable leaves the watch.
SettingIsAll(t) ==
    /\ pc[t] = "setStatus" /\ exists
    /\ Goto(t, "idle")
    /\ UNCHANGED <<exists, auto, source, diskVars, lockVars, from, gen, job, watchVars,
                   boundVars>>

SettingReturns(t) ==
    /\ pc[t] = "setStatus" /\ exists
    /\ Goto(t, IF role[t] = "disable" THEN "watchStop" ELSE "idle")
    /\ UNCHANGED <<exists, auto, source, diskVars, lockVars, from, gen, job, watchVars,
                   boundVars>>

\* An enable that fails stops the watch, a disable that fails leaves it.
SettingFails(t) ==
    /\ \/ pc[t] \in {"setGet", "setStatus"} /\ ~exists /\ failures' = failures
       \/ /\ pc[t] \in {"setGet", "setUpdate", "setStatus"}
          /\ failures < MaxFailures /\ failures' = failures + 1
    /\ IF role[t] = "enable" THEN StopWatch ELSE UNCHANGED <<watcher, cancelled>>
    /\ Goto(t, "idle")
    /\ UNCHANGED <<exists, auto, source, diskVars, lockVars, from, gen, job, events,
                   dirty, queued, restarts, abandoned>>

StopAutoIndexWatch(t) ==
    /\ pc[t] = "watchStop"
    /\ StopWatch
    /\ Goto(t, "idle")
    /\ UNCHANGED <<exists, auto, source, diskVars, lockVars, from, gen, job, events,
                   dirty, queued, boundVars>>
------------------------------------------------------------------------------
(* The watch goroutine: runAutoIndexWatch. *)

ReceiveEvents(t) ==
    /\ pc[t] = "loop" /\ t \in events
    /\ events' = events \ {t}
    /\ dirty' = dirty \cup {t} /\ queued' = queued \cup {t}
    /\ UNCHANGED <<exists, auto, source, diskVars, lockVars, threadVars, job, watcher,
                   cancelled, boundVars>>

\* A watch that saw no change first asks whether the index is fresh.
TimerFires(t) ==
    /\ pc[t] = "loop" /\ t \in queued
    /\ queued' = queued \ {t}
    /\ Goto(t, IF t \in dirty THEN "resolve" ELSE "wantShared")
    /\ UNCHANGED <<exists, auto, source, diskVars, lockVars, from, gen, job, watcher,
                   cancelled, events, dirty, boundVars>>

WatchEnds(t) ==
    /\ pc[t] = "loop" /\ t \in cancelled
    /\ cancelled' = cancelled \ {t} /\ events' = events \ {t}
    /\ dirty' = dirty \ {t} /\ queued' = queued \ {t}
    /\ Goto(t, "idle")
    /\ UNCHANGED <<exists, auto, source, diskVars, lockVars, from, gen, job, watcher,
                   boundVars>>
------------------------------------------------------------------------------
(* The source changes; the Gateway dies, or is stopped, and starts again. *)

EditSource ==
    /\ source < MaxEdits /\ source' = source + 1
    /\ events' = {t \in Threads : role[t] = "watch"}
    /\ UNCHANGED <<exists, auto, diskVars, lockVars, threadVars, job, watcher, cancelled,
                   dirty, queued, boundVars>>

\* restoreAutoIndexWatches runs in a goroutine of the new Gateway.
Restart ==
    /\ restarts < MaxRestarts /\ restarts' = restarts + 1
    /\ holder' = None /\ readers' = {}
    /\ \E r \in Threads \ WatchThreads :
          /\ pc' = [t \in Threads |-> IF t = r /\ auto THEN "watchCheck" ELSE "idle"]
          /\ role' = [t \in Threads |-> IF t = r /\ auto THEN "restore" ELSE "request"]
    /\ from' = [t \in Threads |-> 0] /\ gen' = [t \in Threads |-> None]
    /\ job' = "none"
    /\ watcher' = None /\ cancelled' = {} /\ events' = {} /\ dirty' = {} /\ queued' = {}
    /\ abandoned' = (abandoned \/ \E t \in Threads : pc[t] \in Cleaning)
    /\ UNCHANGED <<exists, auto, source, diskVars, failures>>
------------------------------------------------------------------------------
Request(t) ==
    \/ RequestAnalysis(t) \/ StartProjectIndexJob(t) \/ RequestQuery(t)
    \/ RemoveEnvironment(t) \/ SetAutoIndex(t)

Analyze(t) ==
    \/ Resolve(t) \/ LockIndex(t) \/ BeginScan(t) \/ Stage(t) \/ WriteFiles(t)
    \/ RenamePointer(t) \/ PruneGenerations(t) \/ AnalyzeFails(t)

Query(t) == ShareLock(t) \/ OpenIndex(t) \/ QueryReturns(t)

Cleanup(t) ==
    \/ LockForCleanup(t) \/ RemoveDirectory(t) \/ RemoveAutoIndexID(t) \/ CleanupFails(t)
    \/ DropEnvironment(t)

ChangeSetting(t) ==
    \/ CheckWatch(t) \/ InstallWatch(t) \/ WalkFails(t) \/ KeepWatch(t) \/ GetForSetting(t)
    \/ SetIndexAuto(t) \/ SettingReturns(t) \/ SettingFails(t) \/ StopAutoIndexWatch(t)

Watch(t) == ReceiveEvents(t) \/ TimerFires(t) \/ WatchEnds(t)

Run(t) == Analyze(t) \/ Query(t) \/ Cleanup(t) \/ ChangeSetting(t) \/ Watch(t)

TakeLock(t) == LockIndex(t) \/ ShareLock(t) \/ LockForCleanup(t)

Next == (\E t \in Threads : Request(t) \/ Run(t)) \/ EditSource \/ Restart

Spec == Init /\ [][Next]_vars

\* Started handlers and goroutines go on, and a lock that is free again and
\* again is granted.
FairSpec ==
    /\ Spec
    /\ \A t \in Threads : WF_vars(Run(t)) /\ SF_vars(TakeLock(t))
------------------------------------------------------------------------------
TypeOK ==
    /\ exists \in BOOLEAN /\ auto \in BOOLEAN /\ abandoned \in BOOLEAN
    /\ source \in 0 .. MaxEdits /\ failures \in 0 .. MaxFailures
    /\ restarts \in 0 .. MaxRestarts
    /\ onDisk \subseteq Gens /\ older \subseteq onDisk \X onDisk
    /\ whole \subseteq onDisk
    /\ indexed \in [Gens -> 0 .. MaxEdits]
    /\ pointer \in Gens \cup {None}
    /\ holder \in Threads \cup {None} /\ readers \subseteq Threads
    /\ pc \in [Threads -> Cleaning \cup Setting \cup
          {"idle", "resolve", "wantLock", "locked", "scan", "write", "rename", "prune",
           "wantShared", "shared", "reading", "drop", "loop"}]
    /\ role \in [Threads -> {"request", "job", "watch", "restore", "enable", "disable",
                             "tool", "web", "dropped"}]
    /\ from \in [Threads -> 0 .. MaxEdits] /\ gen \in [Threads -> Gens \cup {None}]
    /\ job \in {"none", "queued", "running", "succeeded", "failed"}
    /\ watcher \in Threads \cup {None}
    /\ \A S \in {cancelled, events, dirty, queued} : S \subseteq Threads

InFlight(labels) == \E t \in Threads : pc[t] \in labels

(* Whatever is interrupted, current.json names a generation that is on disk *)
(* with all of its files.                                                  *)
PublishedIsWhole == pointer # None => pointer \in onDisk \cap whole

(* The generation a query works on stays on disk, whole, until it returns, *)
(* however many refreshes and removals want the index meanwhile.           *)
QueriesSeeWholeGenerations ==
    \A t \in Threads : pc[t] = "reading" /\ gen[t] # None => gen[t] \in onDisk \cap whole

(* Once a removal has cleaned up, no analysis that waited or ran brings the *)
(* index directory back.                                                   *)
NoOrphanIndex ==
    ~exists /\ ~abandoned /\ ~InFlight(Cleaning) => onDisk = {}

(* Until the index is removed, a whole generation before the published one  *)
(* is kept once there was one.  Only while the Gateway lives: after a crash *)
(* the next refresh may retain the partial directory it left instead.       *)
HasPrevious == \E h \in whole : <<h, pointer>> \in older
PreviousRetained ==
    [][restarts = 0 /\ HasPrevious /\ pointer' # None => HasPrevious']_vars

(* When nobody is changing the setting, an existing Environment is watched  *)
(* only if automatic updates are on.                                       *)
WatchMatchesSetting ==
    exists /\ watcher # None /\ ~InFlight(Setting) => auto

(* ... whatever enables and disables raced, as long as none of them failed  *)
(* and no restore of the watches at a start of the Gateway was among them. *)
RacesKeepSetting == failures = 0 /\ restarts = 0 => WatchMatchesSetting

(* A background job ends, however long it waits for the index lock and even *)
(* when the Environment is removed meanwhile.                              *)
JobEnds == job \in {"queued", "running"} ~> job \notin {"queued", "running"}

(* While the Environment is watched, its index catches up with the source:  *)
(* no change made during an analysis, or before a failed one, is lost.     *)
WatchKeepsFresh ==
    exists /\ watcher # None ~> ~exists \/ watcher = None \/ Fresh(pointer)
==============================================================================
