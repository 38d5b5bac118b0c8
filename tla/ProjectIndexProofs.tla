-------------------------- MODULE ProjectIndexProofs --------------------------
(***************************************************************************)
(* Proofs about ProjectIndex, for any requests and watches, any names of   *)
(* generations, and any number of edits, failures and restarts.            *)
(***************************************************************************)
EXTENDS ProjectIndex, TLAPS

Labels == Cleaning \cup Setting \cup
  {"idle", "resolve", "wantLock", "locked", "scan", "write", "rename", "prune",
   "wantShared", "shared", "reading", "drop", "loop"}
Roles == {"request", "job", "watch", "restore", "enable", "disable", "tool", "web", "dropped"}

-----------------------------------------------------------------------------
(* Type correctness: the disk, the threads and the rest apart. *)

DiskTypes ==
  /\ onDisk \subseteq Gens /\ older \subseteq onDisk \X onDisk /\ whole \subseteq onDisk
  /\ indexed \in [Gens -> 0 .. MaxEdits] /\ pointer \in Gens \cup {None}
LockTypes == holder \in Threads \cup {None} /\ readers \subseteq Threads
PlaceTypes == pc \in [Threads -> Labels] /\ role \in [Threads -> Roles]
WorkTypes ==
  /\ from \in [Threads -> 0 .. MaxEdits] /\ gen \in [Threads -> Gens \cup {None}]
  /\ job \in {"none", "queued", "running", "succeeded", "failed"}
WatchTypes ==
  /\ watcher \in Threads \cup {None} /\ cancelled \subseteq Threads /\ events \subseteq Threads
  /\ dirty \subseteq Threads /\ queued \subseteq Threads
OtherTypes ==
  /\ exists \in BOOLEAN /\ auto \in BOOLEAN /\ abandoned \in BOOLEAN
  /\ source \in 0 .. MaxEdits /\ failures \in 0 .. MaxFailures /\ restarts \in 0 .. MaxRestarts

AllTypes == DiskTypes /\ LockTypes /\ PlaceTypes /\ WorkTypes /\ WatchTypes /\ OtherTypes

LEMMA TypeParts == (TypeOK <=> AllTypes) /\ (TypeOK' <=> AllTypes')
BY DEF AllTypes, TypeOK, DiskTypes, LockTypes, PlaceTypes, WorkTypes, WatchTypes, OtherTypes, Labels, Roles

LEMMA GotoTypes ==
  ASSUME PlaceTypes, NEW t \in Threads, NEW l \in Labels, Goto(t, l)
  PROVE  PlaceTypes'
BY DEF PlaceTypes, Goto, Roles

LEMMA BeginTypes ==
  ASSUME PlaceTypes, NEW t \in Threads, NEW l \in Labels, NEW r \in Roles, Begin(t, l, r)
  PROVE  PlaceTypes'
BY DEF PlaceTypes, Begin

LEMMA KeepTypes ==
  ASSUME DiskTypes, NEW kept, KeepDirectories(kept)
  PROVE  /\ onDisk' \subseteq Gens /\ older' \subseteq onDisk' \X onDisk' /\ whole' \subseteq onDisk'
         /\ indexed' \in [Gens -> 0 .. MaxEdits]
<1>1. 0 \in 0 .. MaxEdits
  BY IndexAssumption
<1>2. QED
  BY <1>1 DEF DiskTypes, KeepDirectories

\* Where every step of a thread goes.
LEMMA PlacesKept ==
  ASSUME PlaceTypes, NEW t \in Threads, Request(t) \/ Run(t)
  PROVE  PlaceTypes'
<1>. USE DEF Labels, Cleaning, Setting
<1>1. CASE Request(t)
  BY <1>1, BeginTypes, IndexAssumption
     DEF Request, RequestAnalysis, StartProjectIndexJob, RequestQuery, RemoveEnvironment,
         SetAutoIndex, Roles
<1>2. CASE Analyze(t)
  BY <1>2, GotoTypes
     DEF Analyze, Resolve, LockIndex, BeginScan, Stage, WriteFiles, RenamePointer,
         PruneGenerations, AnalyzeFails, AnalysisReturns
<1>3. CASE Query(t)
  BY <1>3, GotoTypes DEF Query, ShareLock, OpenIndex, QueryReturns
<1>4. CASE Cleanup(t)
  <2>1. CASE DropEnvironment(t)
    BY <2>1 DEF DropEnvironment, PlaceTypes, Roles
  <2>2. QED
    BY <1>4, <2>1, GotoTypes
       DEF Cleanup, LockForCleanup, RemoveDirectory, RemoveAutoIndexID, CleanupFails
<1>5. CASE ChangeSetting(t)
  <2>1. CASE InstallWatch(t)
    BY <2>1 DEF InstallWatch, AfterStart, PlaceTypes, Roles
  <2>2. QED
    BY <1>5, <2>1, GotoTypes
       DEF ChangeSetting, CheckWatch, AfterStart, WalkFails, KeepWatch, GetForSetting,
           SetIndexAuto, SettingReturns, SettingFails, StopAutoIndexWatch
<1>6. CASE Watch(t)
  BY <1>6, GotoTypes DEF Watch, ReceiveEvents, TimerFires, WatchEnds, threadVars, PlaceTypes
<1>7. QED
  BY <1>1, <1>2, <1>3, <1>4, <1>5, <1>6 DEF Run

LEMMA ReturnsTypes ==
  ASSUME WorkTypes, WatchTypes, LockTypes, NEW t \in Threads, NEW ok \in BOOLEAN,
         AnalysisReturns(t, ok)
  PROVE  WorkTypes' /\ WatchTypes' /\ LockTypes'
<1>1. 0 \in 0 .. MaxEdits
  BY IndexAssumption
<1>2. WorkTypes'
  BY <1>1 DEF AnalysisReturns, WorkTypes
<1>3. WatchTypes' /\ LockTypes'
  BY DEF AnalysisReturns, Unlock, WatchTypes, LockTypes
<1>4. QED
  BY <1>2, <1>3

LEMMA RequestTypes ==
  ASSUME DiskTypes, LockTypes, WorkTypes, WatchTypes, OtherTypes, NEW t \in Threads, Request(t)
  PROVE  DiskTypes' /\ LockTypes' /\ WorkTypes' /\ WatchTypes' /\ OtherTypes'
BY DEF Request, RequestAnalysis, StartProjectIndexJob, RequestQuery, RemoveEnvironment,
       SetAutoIndex, DiskTypes, LockTypes, WorkTypes, WatchTypes, OtherTypes, diskVars,
       lockVars, watchVars, boundVars

LEMMA AnalyzeTypes ==
  ASSUME DiskTypes, LockTypes, WorkTypes, WatchTypes, OtherTypes, NEW t \in Threads, Analyze(t),
         pc[t] = "write" => gen[t] \in onDisk
  PROVE  DiskTypes' /\ LockTypes' /\ WorkTypes' /\ WatchTypes' /\ OtherTypes'
<1>. USE DEF diskVars, lockVars, watchVars, boundVars
<1>1. CASE Resolve(t) \/ LockIndex(t) \/ BeginScan(t)
  BY <1>1 DEF Resolve, LockIndex, BeginScan, DiskTypes, LockTypes, WorkTypes, WatchTypes,
     OtherTypes
<1>2. CASE Stage(t)
  <2>1. PICK g \in Unused : MakeDirectory(g) /\ gen' = [gen EXCEPT ![t] = g]
    BY <1>2 DEF Stage
  <2>2. PICK v \in from[t] .. source : \E g2 \in Gens : indexed' = [indexed EXCEPT ![g2] = v]
    BY <1>2 DEF Stage, Unused
  <2>3. v \in 0 .. MaxEdits
    BY <2>2, IndexAssumption DEF WorkTypes, OtherTypes
  <2>4. indexed' \in [Gens -> 0 .. MaxEdits]
    BY <2>2, <2>3 DEF DiskTypes
  <2>5. DiskTypes'
    BY <1>2, <2>1, <2>4 DEF Stage, MakeDirectory, Unused, DiskTypes
  <2>6. WorkTypes'
    BY <1>2, <2>1 DEF Stage, Unused, WorkTypes
  <2>7. QED
    BY <1>2, <2>5, <2>6 DEF Stage, LockTypes, WatchTypes, OtherTypes
<1>3. CASE WriteFiles(t)
  BY <1>3 DEF WriteFiles, DiskTypes, LockTypes, WorkTypes, WatchTypes, OtherTypes
<1>4. CASE RenamePointer(t)
  BY <1>4 DEF RenamePointer, DiskTypes, LockTypes, WorkTypes, WatchTypes, OtherTypes
<1>5. CASE PruneGenerations(t)
  <2>1. DiskTypes' /\ OtherTypes'
    BY <1>5, KeepTypes DEF PruneGenerations, AnalysisReturns, DiskTypes, OtherTypes
  <2>2. QED
    BY <1>5, <2>1, ReturnsTypes DEF PruneGenerations
<1>6. CASE AnalyzeFails(t)
  <2>1. DiskTypes'
    BY <1>6, KeepTypes DEF AnalyzeFails, DiskTypes
  <2>2. OtherTypes'
    BY <1>6, IndexAssumption DEF AnalyzeFails, AnalysisReturns, OtherTypes
  <2>3. QED
    BY <1>6, <2>1, <2>2, ReturnsTypes DEF AnalyzeFails
<1>7. QED
  BY <1>1, <1>2, <1>3, <1>4, <1>5, <1>6 DEF Analyze

LEMMA OtherStepTypes ==
  ASSUME DiskTypes, LockTypes, WorkTypes, WatchTypes, OtherTypes, NEW t \in Threads,
         Query(t) \/ Cleanup(t) \/ ChangeSetting(t) \/ Watch(t)
  PROVE  DiskTypes' /\ LockTypes' /\ WorkTypes' /\ WatchTypes' /\ OtherTypes'
<1>. USE DEF diskVars, lockVars, watchVars, boundVars
<1>1. CASE Query(t)
  BY <1>1 DEF Query, ShareLock, OpenIndex, QueryReturns, DiskTypes, LockTypes, WorkTypes,
     WatchTypes, OtherTypes
<1>2. CASE Cleanup(t)
  <2>1. CASE RemoveDirectory(t)
    <3>1. DiskTypes'
      BY <2>1, KeepTypes DEF RemoveDirectory, DiskTypes
    <3>2. QED
      BY <2>1, <3>1 DEF RemoveDirectory, LockTypes, WorkTypes, WatchTypes, OtherTypes
  <2>2. CASE CleanupFails(t)
    BY <2>2, IndexAssumption
       DEF CleanupFails, Unlock, DiskTypes, LockTypes, WorkTypes, WatchTypes, OtherTypes
  <2>3. CASE LockForCleanup(t) \/ RemoveAutoIndexID(t) \/ DropEnvironment(t)
    BY <2>3 DEF LockForCleanup, RemoveAutoIndexID, DropEnvironment, StopWatch, Unlock,
       DiskTypes, LockTypes, WorkTypes, WatchTypes, OtherTypes
  <2>4. QED
    BY <1>2, <2>1, <2>2, <2>3 DEF Cleanup
<1>3. CASE ChangeSetting(t)
  <2>1. CASE WalkFails(t) \/ SettingFails(t)
    BY <2>1, IndexAssumption
       DEF WalkFails, SettingFails, StopWatch, DiskTypes, LockTypes, WorkTypes, WatchTypes,
           OtherTypes
  <2>2. CASE InstallWatch(t)
    BY <2>2, IndexAssumption
       DEF InstallWatch, DiskTypes, LockTypes, WorkTypes, WatchTypes, OtherTypes
  <2>3. CASE \/ CheckWatch(t) \/ KeepWatch(t) \/ GetForSetting(t) \/ SetIndexAuto(t)
             \/ SettingReturns(t) \/ StopAutoIndexWatch(t)
    BY <2>3 DEF CheckWatch, KeepWatch, GetForSetting, SetIndexAuto, SettingReturns,
       StopAutoIndexWatch, StopWatch, DiskTypes, LockTypes, WorkTypes, WatchTypes, OtherTypes
  <2>4. QED
    BY <1>3, <2>1, <2>2, <2>3 DEF ChangeSetting
<1>4. CASE Watch(t)
  BY <1>4 DEF Watch, ReceiveEvents, TimerFires, WatchEnds, threadVars, DiskTypes, LockTypes,
     WorkTypes, WatchTypes, OtherTypes
<1>5. QED
  BY <1>1, <1>2, <1>3, <1>4

LEMMA OutsideTypes ==
  ASSUME TypeOK, EditSource \/ Restart
  PROVE  TypeOK'
<1>. USE TypeParts DEF AllTypes
<1>0. AllTypes
  OBVIOUS
<1>1. CASE EditSource
  <2>1. source' \in 0 .. MaxEdits /\ events' \subseteq Threads
    BY <1>0, <1>1, IndexAssumption DEF EditSource, OtherTypes
  <2>2. QED
    BY <1>0, <1>1, <2>1
       DEF EditSource, DiskTypes, LockTypes, PlaceTypes, WorkTypes, WatchTypes, OtherTypes,
           diskVars, lockVars, threadVars, boundVars
<1>2. CASE Restart
  <2>1. restarts' \in 0 .. MaxRestarts /\ 0 \in 0 .. MaxEdits
    BY <1>0, <1>2, IndexAssumption DEF Restart, OtherTypes
  <2>2. PlaceTypes'
    BY <1>0, <1>2 DEF Restart, PlaceTypes, Labels, Roles, Setting
  <2>3. QED
    BY <1>0, <1>2, <2>1, <2>2
       DEF Restart, DiskTypes, LockTypes, WorkTypes, WatchTypes, OtherTypes, diskVars
<1>3. QED
  BY <1>1, <1>2

LEMMA TypesKept ==
  ASSUME TypeOK, \A t \in Threads : pc[t] = "write" => gen[t] \in onDisk, [Next]_vars
  PROVE  TypeOK'
<1>. USE TypeParts DEF AllTypes
<1>1. CASE UNCHANGED vars
  BY <1>1 DEF vars, TypeOK, diskVars, lockVars, threadVars, watchVars, boundVars
<1>2. ASSUME NEW t \in Threads, Request(t) \/ Run(t) PROVE TypeOK'
  BY <1>2, PlacesKept, RequestTypes, AnalyzeTypes, OtherStepTypes DEF Run
<1>3. QED
  BY <1>1, <1>2, OutsideTypes DEF Next

-----------------------------------------------------------------------------
(* The index lock and what it protects. *)

\* Where a thread has the lock, and where it shares it.
Locked == {"locked", "scan", "write", "rename", "prune", "cleanDirectory", "cleanSetting"}
Sharing == {"shared", "reading"}

LockInv ==
  /\ \A t \in Threads : pc[t] \in Locked <=> holder = t
  /\ \A t \in Threads : pc[t] \in Sharing <=> t \in readers
  /\ holder # None => readers = {}

\* The generation a thread has in hand.
StagedInv ==
  \A t \in Threads :
    /\ pc[t] \notin {"write", "rename", "prune", "reading"} => gen[t] = None
    /\ pc[t] \in {"write", "rename", "prune"} => gen[t] \in onDisk
    /\ pc[t] \in {"rename", "prune"} => gen[t] \in whole
    /\ pc[t] \in {"write", "rename"} => gen[t] # pointer
    /\ pc[t] \in {"prune", "reading"} => gen[t] = pointer

\* Once the record is gone, a removal has yet to clean up or nothing is left
\* and nobody stages anything.
RemovalInv ==
  ~exists /\ ~abandoned =>
    \/ \E t \in Threads : pc[t] \in {"wantCleanup", "cleanDirectory"}
    \/ onDisk = {} /\ \A t \in Threads : pc[t] \notin {"scan", "write", "rename", "prune"}

\* A directory is older than another or the other way round, and what an
\* analysis stages is the newest.
OrderInv ==
  /\ \A g, h \in Gens : <<g, h>> \in older => <<h, g>> \notin older
  /\ \A t \in Threads : pc[t] \in {"write", "rename", "prune"} =>
        \A h \in onDisk \ {gen[t]} : <<h, gen[t]>> \in older

IsStaged(h) == \E t \in Threads : pc[t] \in {"write", "rename"} /\ gen[t] = h

\* While the Gateway lives, only what is being staged is partial, and the
\* published generation is newer than all others but that one.
ChainInv ==
  restarts = 0 =>
    /\ \A h \in onDisk \ whole : IsStaged(h)
    /\ \A h \in onDisk : h = pointer \/ IsStaged(h) \/ <<h, pointer>> \in older
    /\ \A t \in Threads : pc[t] = "prune" /\ onDisk # {pointer} =>
          Newest(onDisk \ {pointer}) # {}

IndexInv ==
  TypeOK /\ LockInv /\ StagedInv /\ RemovalInv /\ OrderInv /\ ChainInv /\ PublishedIsWhole

\* Steps that leave the lock and the disk alone: no thread comes to or leaves a
\* place where it has the lock, shares it or is about to clean up.
Quiet ==
  /\ UNCHANGED <<exists, diskVars, lockVars, gen, restarts, abandoned>>
  /\ \A t \in Threads :
       \/ pc'[t] = pc[t]
       \/ pc[t] \notin Locked \cup Sharing \cup {"wantCleanup"} /\ pc'[t] \notin Locked \cup Sharing

LEMMA QuietKeeps ==
  ASSUME IndexInv, Quiet
  PROVE  LockInv' /\ StagedInv' /\ RemovalInv' /\ OrderInv' /\ ChainInv' /\ PublishedIsWhole'
<1>. USE DEF Quiet, IndexInv, Locked, Sharing, diskVars, lockVars
<1>1. LockInv'
  BY DEF LockInv
<1>2. StagedInv'
  BY DEF StagedInv
<1>3. RemovalInv'
  BY DEF RemovalInv
<1>4. OrderInv' /\ PublishedIsWhole'
  BY DEF OrderInv, PublishedIsWhole
<1>5. \A h : IsStaged(h) => IsStaged(h)'
  BY DEF IsStaged
<1>6. ChainInv'
  BY <1>5 DEF ChainInv, Newest
<1>7. QED
  BY <1>1, <1>2, <1>3, <1>4, <1>6

LEMMA QuietSteps ==
  ASSUME IndexInv, NEW t \in Threads,
         \/ RequestAnalysis(t) \/ StartProjectIndexJob(t) \/ RequestQuery(t) \/ SetAutoIndex(t)
         \/ Resolve(t) \/ DropEnvironment(t) \/ ChangeSetting(t) \/ Watch(t)
  PROVE  Quiet
<1>. USE DEF Locked, Sharing, boundVars
<1>0. pc \in [Threads -> Labels]
  BY TypeParts DEF IndexInv, AllTypes, PlaceTypes
<1>1. ASSUME NEW l \in Labels \ (Locked \cup Sharing), pc' = [pc EXCEPT ![t] = l],
             pc[t] \notin Locked \cup Sharing \cup {"wantCleanup"}
      PROVE  \A u \in Threads :
               \/ pc'[u] = pc[u]
               \/ pc[u] \notin Locked \cup Sharing \cup {"wantCleanup"}
                    /\ pc'[u] \notin Locked \cup Sharing
  BY <1>0, <1>1
<1>2. CASE RequestAnalysis(t) \/ StartProjectIndexJob(t) \/ RequestQuery(t) \/ SetAutoIndex(t)
  BY <1>0, <1>2
     DEF RequestAnalysis, StartProjectIndexJob, RequestQuery, SetAutoIndex, Begin, Quiet
<1>3. CASE Resolve(t) \/ DropEnvironment(t)
  BY <1>0, <1>3 DEF Resolve, DropEnvironment, Goto, Quiet
<1>4. CASE ChangeSetting(t)
  <2>1. CASE InstallWatch(t)
    BY <1>0, <2>1 DEF InstallWatch, AfterStart, Quiet
  <2>2. CASE CheckWatch(t) \/ WalkFails(t) \/ KeepWatch(t) \/ GetForSetting(t)
    BY <1>0, <2>2 DEF CheckWatch, WalkFails, KeepWatch, GetForSetting, AfterStart, Goto, Quiet
  <2>3. CASE SetIndexAuto(t) \/ SettingReturns(t) \/ SettingFails(t) \/ StopAutoIndexWatch(t)
    BY <1>0, <2>3
       DEF SetIndexAuto, SettingReturns, SettingFails, StopAutoIndexWatch, Goto, Quiet
  <2>4. QED
    BY <1>4, <2>1, <2>2, <2>3 DEF ChangeSetting
<1>5. CASE Watch(t)
  BY <1>0, <1>5 DEF Watch, ReceiveEvents, TimerFires, WatchEnds, Goto, Quiet, threadVars
<1>6. QED
  BY <1>2, <1>3, <1>4, <1>5

\* The lock is free for whoever takes it; only its holder gives it back.
LEMMA LockTakes ==
  ASSUME IndexInv, NEW t \in Threads, NEW l \in Locked, pc' = [pc EXCEPT ![t] = l],
         holder = None, readers = {}, holder' = t, readers' = readers
  PROVE  LockInv'
BY IndexAssumption, TypeParts
   DEF IndexInv, AllTypes, PlaceTypes, LockTypes, LockInv, Locked, Sharing

LEMMA LockStays ==
  ASSUME IndexInv, NEW t \in Threads, NEW l, pc' = [pc EXCEPT ![t] = l], UNCHANGED lockVars,
         pc[t] \in Locked <=> l \in Locked, pc[t] \in Sharing <=> l \in Sharing
  PROVE  LockInv'
BY TypeParts DEF IndexInv, AllTypes, PlaceTypes, LockInv, lockVars

LEMMA LockReleased ==
  ASSUME IndexInv, NEW t \in Threads, NEW l, pc' = [pc EXCEPT ![t] = l],
         l \notin Locked \cup Sharing, pc[t] \notin Sharing, Unlock(t), readers' = readers
  PROVE  LockInv'
BY IndexAssumption, TypeParts DEF IndexInv, AllTypes, PlaceTypes, LockTypes, LockInv, Unlock

LEMMA LockKept ==
  ASSUME IndexInv, NEW t \in Threads, Analyze(t) \/ Query(t) \/ Cleanup(t), ~Quiet
  PROVE  LockInv'
<1>. USE DEF Locked, Sharing
<1>0. ASSUME NEW l, Goto(t, l) PROVE pc' = [pc EXCEPT ![t] = l]
  BY <1>0 DEF Goto
<1>1. CASE LockIndex(t)
  BY <1>0, <1>1, LockTakes DEF LockIndex
<1>2. CASE LockForCleanup(t)
  BY <1>0, <1>2, LockTakes DEF LockForCleanup
<1>3. CASE BeginScan(t) \/ Stage(t) \/ WriteFiles(t) \/ RenamePointer(t)
  BY <1>0, <1>3, LockStays DEF BeginScan, Stage, WriteFiles, RenamePointer
<1>4. CASE PruneGenerations(t)
  BY <1>0, <1>4, LockReleased DEF PruneGenerations, AnalysisReturns
<1>5. CASE AnalyzeFails(t)
  BY <1>0, <1>5, LockReleased DEF AnalyzeFails, AnalysisReturns
<1>6. CASE ShareLock(t)
  BY <1>0, <1>6, TypeParts, IndexAssumption
     DEF ShareLock, IndexInv, AllTypes, PlaceTypes, LockTypes, LockInv
<1>7. CASE OpenIndex(t)
  BY <1>0, <1>7, LockStays DEF OpenIndex
<1>8. CASE QueryReturns(t)
  BY <1>0, <1>8, TypeParts
     DEF QueryReturns, IndexInv, AllTypes, PlaceTypes, LockTypes, LockInv
<1>9. CASE RemoveDirectory(t)
  BY <1>0, <1>9, LockStays DEF RemoveDirectory
<1>10. CASE RemoveAutoIndexID(t)
  BY <1>0, <1>10, LockReleased DEF RemoveAutoIndexID
<1>11. CASE CleanupFails(t)
  BY <1>0, <1>11, LockReleased DEF CleanupFails, Cleaning
<1>12. CASE Resolve(t) \/ DropEnvironment(t)
  BY <1>12, QuietSteps
<1>13. QED
  BY <1>1, <1>2, <1>3, <1>4, <1>5, <1>6, <1>7, <1>8, <1>9, <1>10, <1>11, <1>12
     DEF Analyze, Query, Cleanup

\* One thread at a time has the lock, and nobody reads meanwhile.
LEMMA Alone ==
  ASSUME IndexInv, NEW t \in Threads, pc[t] \in Locked
  PROVE  \A u \in Threads \ {t} : pc[u] \notin Locked \cup Sharing
BY IndexAssumption DEF IndexInv, LockInv

DiskInv == StagedInv /\ OrderInv /\ ChainInv /\ PublishedIsWhole

\* A thread that comes from and goes to a place where it stages nothing.
LEMMA DiskStill ==
  ASSUME IndexInv, NEW t \in Threads, NEW l, pc' = [pc EXCEPT ![t] = l],
         UNCHANGED <<onDisk, older, whole, pointer, restarts>>,
         pc[t] \notin {"write", "rename", "prune"}, l \notin {"write", "rename", "prune"},
         \A u \in Threads \ {t} : gen'[u] = gen[u],
         gen'[t] = IF l = "reading" THEN pointer ELSE None
  PROVE  DiskInv'
<1>0. pc \in [Threads -> Labels]
  BY TypeParts DEF IndexInv, AllTypes, PlaceTypes
<1>1. StagedInv'
  BY <1>0 DEF IndexInv, StagedInv
<1>2. OrderInv' /\ PublishedIsWhole'
  BY <1>0 DEF IndexInv, OrderInv, PublishedIsWhole
<1>3. \A h : IsStaged(h) => IsStaged(h)'
  BY <1>0 DEF IsStaged
<1>4. ChainInv'
  BY <1>0, <1>3 DEF IndexInv, ChainInv, Newest
<1>5. QED
  BY <1>1, <1>2, <1>4 DEF DiskInv

LEMMA StageKeeps ==
  ASSUME IndexInv, NEW t \in Threads, Stage(t)
  PROVE  DiskInv'
<1>. USE TypeParts DEF IndexInv, AllTypes, PlaceTypes, DiskTypes, WorkTypes
<1>1. PICK g \in Unused : MakeDirectory(g) /\ gen' = [gen EXCEPT ![t] = g]
  BY DEF Stage
<1>2. g \in Gens \ onDisk /\ g # pointer /\ g # None
  BY <1>1, IndexAssumption DEF Unused, PublishedIsWhole
<1>3. /\ pc[t] = "scan" /\ pc' = [pc EXCEPT ![t] = "write"]
      /\ UNCHANGED <<whole, pointer, restarts>>
  BY DEF Stage, Goto, boundVars
<1>4. \A u \in Threads \ {t} : pc[u] \notin {"write", "rename", "prune", "reading"}
  BY <1>3, Alone DEF Locked, Sharing
<1>5. /\ onDisk' = onDisk \cup {g} /\ older' = older \cup (onDisk \X {g})
      /\ gen'[t] = g /\ pc'[t] = "write"
      /\ \A u \in Threads \ {t} : pc'[u] = pc[u] /\ gen'[u] = gen[u]
  BY <1>1, <1>3 DEF MakeDirectory
<1>6. StagedInv'
  BY <1>2, <1>3, <1>4, <1>5 DEF StagedInv
<1>7. PublishedIsWhole'
  BY <1>3, <1>5 DEF PublishedIsWhole
<1>8. OrderInv'
  <2>1. ASSUME NEW h \in Gens, NEW k \in Gens, <<h, k>> \in older' PROVE <<k, h>> \notin older'
    <3>1. <<h, k>> \in older => k \in onDisk /\ h \in onDisk /\ <<k, h>> \notin older
      BY DEF OrderInv
    <3>2. QED
      BY <1>2, <1>5, <2>1, <3>1
  <2>2. \A h \in onDisk' \ {g} : <<h, g>> \in older'
    BY <1>5
  <2>3. QED
    BY <1>4, <1>5, <2>1, <2>2 DEF OrderInv
<1>9. ChainInv'
  <2>1. IsStaged(g)' /\ \A h : IsStaged(h) => IsStaged(h)'
    BY <1>3, <1>5 DEF IsStaged
  <2>2. QED
    BY <1>3, <1>4, <1>5, <2>1 DEF ChainInv
<1>10. QED
  BY <1>6, <1>7, <1>8, <1>9 DEF DiskInv

LEMMA PublishKeeps ==
  ASSUME IndexInv, NEW t \in Threads, WriteFiles(t) \/ RenamePointer(t)
  PROVE  DiskInv'
<1>. USE TypeParts DEF IndexInv, AllTypes, PlaceTypes, DiskTypes, WorkTypes
<1>0. /\ \A u \in Threads \ {t} : pc[u] \notin {"write", "rename", "prune", "reading"}
      /\ UNCHANGED <<onDisk, older, gen, restarts>>
      /\ \A u \in Threads \ {t} : pc'[u] = pc[u]
  <2>1. pc[t] \in Locked
    BY DEF WriteFiles, RenamePointer, Locked
  <2>2. QED
    BY <2>1, Alone DEF WriteFiles, RenamePointer, Goto, boundVars, Locked, Sharing
<1>1. CASE WriteFiles(t)
  <2>1. /\ pc[t] = "write" /\ pc'[t] = "rename" /\ whole' = whole \cup {gen[t]}
        /\ pointer' = pointer
    BY <1>1 DEF WriteFiles, Goto
  <2>2. StagedInv' /\ PublishedIsWhole' /\ OrderInv'
    BY <1>0, <2>1 DEF StagedInv, PublishedIsWhole, OrderInv
  <2>3. \A h : IsStaged(h) => IsStaged(h)'
    BY <1>0, <2>1 DEF IsStaged
  <2>4. ChainInv'
    BY <1>0, <2>1, <2>3 DEF ChainInv
  <2>5. QED
    BY <2>2, <2>4 DEF DiskInv
<1>2. CASE RenamePointer(t)
  <2>1. /\ pc[t] = "rename" /\ pc'[t] = "prune" /\ whole' = whole /\ pointer' = gen[t]
        /\ gen[t] \in onDisk \cap whole /\ gen[t] # pointer
    BY <1>2 DEF RenamePointer, Goto, StagedInv
  <2>2. StagedInv' /\ PublishedIsWhole' /\ OrderInv'
    BY <1>0, <2>1 DEF StagedInv, PublishedIsWhole, OrderInv
  <2>3. \A h \in onDisk \ {gen[t]} : <<h, gen[t]>> \in older /\ ~IsStaged(h)
    BY <1>0, <2>1 DEF OrderInv, IsStaged
  <2>4. ASSUME restarts = 0, onDisk # {gen[t]} PROVE Newest(onDisk \ {gen[t]}) # {}
    <3>1. PICK h \in onDisk \ {gen[t]} : TRUE
      BY <2>1, <2>4
    <3>2. \A k \in onDisk \ {gen[t]} : k = pointer \/ <<k, pointer>> \in older
      BY <2>3, <2>4 DEF ChainInv
    <3>3. pointer \in onDisk \ {gen[t]}
      BY <2>1, <3>1, <3>2 DEF PublishedIsWhole
    <3>4. pointer \in Newest(onDisk \ {gen[t]})
      BY <3>2, <3>3 DEF Newest, OrderInv
    <3>5. QED
      BY <3>4
  <2>5. ASSUME restarts = 0 PROVE onDisk \subseteq whole
    BY <2>1, <2>3, <2>5 DEF ChainInv
  <2>6. ChainInv'
    BY <1>0, <2>1, <2>3, <2>4, <2>5 DEF ChainInv, Newest
  <2>7. QED
    BY <2>2, <2>6 DEF DiskInv
<1>3. QED
  BY <1>1, <1>2

\* A thread that has the lock leaves the directories `kept'.
LEMMA KeepingKeeps ==
  ASSUME IndexInv, NEW t \in Threads, NEW l, NEW kept, KeepDirectories(kept),
         pc[t] \in Locked, pc' = [pc EXCEPT ![t] = l],
         l \notin {"write", "rename", "prune", "reading"},
         \A u \in Threads \ {t} : gen'[u] = gen[u], gen'[t] = None,
         pointer' \in {pointer, None}, restarts' = restarts,
         pointer' # None => pointer \in kept,
         restarts = 0 => \A h \in onDisk \cap kept : ~IsStaged(h) /\ pointer' = pointer
  PROVE  DiskInv'
<1>. USE TypeParts DEF IndexInv, AllTypes, PlaceTypes, DiskTypes, WorkTypes
<1>1. \A u \in Threads \ {t} : pc'[u] = pc[u]
                               /\ pc[u] \notin {"write", "rename", "prune", "reading"}
  BY Alone DEF Locked, Sharing
<1>2. /\ onDisk' = onDisk \cap kept /\ whole' = whole \cap kept
      /\ older' = older \cap (kept \X kept) /\ pc'[t] = l
  BY DEF KeepDirectories
<1>3. StagedInv'
  BY <1>1, <1>2 DEF StagedInv
<1>4. PublishedIsWhole'
  BY <1>2 DEF PublishedIsWhole
<1>5. OrderInv'
  BY <1>1, <1>2 DEF OrderInv
<1>6. ChainInv'
  <2>1. ASSUME restarts = 0, NEW h \in onDisk'
        PROVE  h \in whole' /\ (h = pointer' \/ <<h, pointer'>> \in older')
    <3>1. h \in onDisk \cap kept /\ ~IsStaged(h) /\ pointer' = pointer
      BY <1>2, <2>1
    <3>2. h \in whole /\ (h = pointer \/ <<h, pointer>> \in older)
      BY <2>1, <3>1 DEF ChainInv
    <3>3. pointer # None
      BY <3>1, <3>2, IndexAssumption
    <3>4. QED
      BY <1>2, <3>1, <3>2, <3>3
  <2>2. QED
    BY <1>1, <1>2, <2>1 DEF ChainInv
<1>7. QED
  BY <1>3, <1>4, <1>5, <1>6 DEF DiskInv

\* Who stages while a thread has the lock is that thread.
LEMMA StagedAlone ==
  ASSUME IndexInv, NEW t \in Threads, pc[t] \in Locked, NEW h, IsStaged(h)
  PROVE  h = gen[t] /\ pc[t] \in {"write", "rename"}
BY Alone DEF IsStaged, Locked

LEMMA AnalysisEndsKeeps ==
  ASSUME IndexInv, NEW t \in Threads, PruneGenerations(t) \/ AnalyzeFails(t)
  PROVE  DiskInv'
<1>. USE TypeParts DEF IndexInv, AllTypes, PlaceTypes, DiskTypes, WorkTypes
<1>0. /\ \E l \in {"loop", "idle"} : pc' = [pc EXCEPT ![t] = l]
      /\ gen' = [gen EXCEPT ![t] = None]
  BY DEF PruneGenerations, AnalyzeFails, AnalysisReturns, Goto
<1>1. CASE PruneGenerations(t)
  <2>1. /\ pc[t] = "prune" /\ KeepDirectories(Retained(gen[t]))
        /\ UNCHANGED <<pointer, restarts>> /\ gen[t] = pointer
    BY <1>1 DEF PruneGenerations, boundVars, StagedInv
  <2>2. pc[t] \in Locked /\ pointer \in Retained(gen[t]) /\ \A h : ~IsStaged(h)
    BY <2>1, StagedAlone DEF Locked, Retained
  <2>3. QED
    BY <1>0, <2>1, <2>2, KeepingKeeps
<1>2. CASE AnalyzeFails(t) /\ pc[t] \in {"write", "rename"}
  <2>1. KeepDirectories(Gens \ {gen[t]}) /\ UNCHANGED <<pointer, restarts>> /\ gen[t] # pointer
    BY <1>2 DEF AnalyzeFails, StagedInv
  <2>2. pc[t] \in Locked /\ \A h : IsStaged(h) => h = gen[t]
    BY <1>2, StagedAlone DEF Locked
  <2>3. QED
    BY <1>0, <2>1, <2>2, KeepingKeeps
<1>3. CASE AnalyzeFails(t) /\ pc[t] \notin {"write", "rename"}
  <2>1. /\ KeepDirectories(Gens \ {gen[t]}) /\ UNCHANGED <<pointer, restarts>>
        /\ pc[t] \in {"resolve", "locked", "scan"} /\ gen[t] = None
    BY <1>3 DEF AnalyzeFails, StagedInv
  <2>2. UNCHANGED <<onDisk, older, whole>>
    BY <2>1, IndexAssumption DEF KeepDirectories
  <2>3. QED
    BY <1>0, <2>1, <2>2, DiskStill
<1>4. QED
  BY <1>1, <1>2, <1>3

LEMMA DiskKept ==
  ASSUME IndexInv, NEW t \in Threads, Analyze(t) \/ Query(t) \/ Cleanup(t), ~Quiet
  PROVE  DiskInv'
<1>0. /\ pc[t] \notin {"write", "rename", "prune", "reading"} => gen[t] = None
      /\ \A v : gen' = [gen EXCEPT ![t] = v] =>
           gen'[t] = v /\ \A u \in Threads \ {t} : gen'[u] = gen[u]
  BY TypeParts DEF IndexInv, AllTypes, WorkTypes, StagedInv
<1>1. CASE LockIndex(t) \/ BeginScan(t)
  BY <1>0, <1>1, DiskStill DEF LockIndex, BeginScan, Goto, diskVars, boundVars
<1>2. CASE ShareLock(t) \/ LockForCleanup(t)
  BY <1>0, <1>2, DiskStill DEF ShareLock, LockForCleanup, Goto, diskVars, boundVars
<1>3. CASE RemoveAutoIndexID(t)
  BY <1>0, <1>3, DiskStill DEF RemoveAutoIndexID, Goto, diskVars, boundVars
<1>4. CASE CleanupFails(t)
  BY <1>0, <1>4, DiskStill DEF CleanupFails, Goto, Cleaning, diskVars
<1>5. CASE OpenIndex(t)
  <2>1. gen'[t] = pointer /\ \A u \in Threads \ {t} : gen'[u] = gen[u]
    BY <1>0, <1>5 DEF OpenIndex
  <2>2. QED
    BY <1>5, <2>1, DiskStill DEF OpenIndex, Goto, diskVars, boundVars
<1>6. CASE QueryReturns(t)
  <2>1. \E l \in {"idle", "loop", "resolve"} : pc' = [pc EXCEPT ![t] = l]
    BY <1>6 DEF QueryReturns, Goto
  <2>2. gen'[t] = None /\ \A u \in Threads \ {t} : gen'[u] = gen[u]
    BY <1>0, <1>6 DEF QueryReturns
  <2>3. QED
    BY <1>6, <2>1, <2>2, DiskStill DEF QueryReturns, diskVars, boundVars
<1>7. CASE RemoveDirectory(t)
  <2>1. /\ pc[t] = "cleanDirectory" /\ KeepDirectories({}) /\ pointer' = None
        /\ pc' = [pc EXCEPT ![t] = "cleanSetting"] /\ UNCHANGED <<gen, restarts>>
    BY <1>7 DEF RemoveDirectory, Goto, boundVars
  <2>2. QED
    BY <1>0, <2>1, KeepingKeeps DEF Locked
<1>8. QED
  BY <1>1, <1>2, <1>3, <1>4, <1>5, <1>6, <1>7, StageKeeps, PublishKeeps, AnalysisEndsKeeps,
     QuietSteps DEF Analyze, Query, Cleanup

\* What comes after a removal.
LEMMA RemovalKept ==
  ASSUME IndexInv, NEW t \in Threads, Analyze(t) \/ Query(t) \/ Cleanup(t), ~Quiet
  PROVE  RemovalInv'
<1>. USE TypeParts DEF IndexInv, AllTypes, PlaceTypes, DiskTypes
<1>0. ASSUME NEW l, Goto(t, l) PROVE pc'[t] = l /\ \A u \in Threads \ {t} : pc'[u] = pc[u]
  BY <1>0 DEF Goto
<1>1. CASE LockIndex(t) \/ BeginScan(t) \/ ShareLock(t) \/ OpenIndex(t) \/ QueryReturns(t)
  <2>1. UNCHANGED <<exists, abandoned, onDisk>>
    BY <1>1 DEF LockIndex, BeginScan, ShareLock, OpenIndex, QueryReturns, diskVars, boundVars
  <2>2. pc[t] \notin {"wantCleanup", "cleanDirectory"}
    BY <1>1 DEF LockIndex, BeginScan, ShareLock, OpenIndex, QueryReturns
  <2>3. pc'[t] \notin {"scan", "write", "rename", "prune"} \/ exists
    BY <1>0, <1>1
       DEF LockIndex, BeginScan, StillThere, ShareLock, OpenIndex, QueryReturns
  <2>4. \A u \in Threads \ {t} : pc'[u] = pc[u]
    BY <1>0, <1>1 DEF LockIndex, BeginScan, ShareLock, OpenIndex, QueryReturns
  <2>5. QED
    BY <2>1, <2>2, <2>3, <2>4 DEF RemovalInv
<1>2. CASE Stage(t) \/ WriteFiles(t) \/ RenamePointer(t) \/ PruneGenerations(t)
  <2>1. UNCHANGED <<exists, abandoned>> /\ pc[t] \in {"scan", "write", "rename", "prune"}
    BY <1>2 DEF Stage, WriteFiles, RenamePointer, PruneGenerations, AnalysisReturns, boundVars
  <2>2. \A u \in Threads \ {t} : pc'[u] = pc[u]
    BY <1>0, <1>2 DEF Stage, WriteFiles, RenamePointer, PruneGenerations, AnalysisReturns
  <2>3. QED
    BY <2>1, <2>2 DEF RemovalInv
<1>3. CASE AnalyzeFails(t)
  <2>1. /\ UNCHANGED <<exists, abandoned>> /\ onDisk' \subseteq onDisk
        /\ pc[t] \notin {"wantCleanup", "cleanDirectory"}
    BY <1>3 DEF AnalyzeFails, AnalysisReturns, KeepDirectories
  <2>2. pc'[t] \in {"loop", "idle"} /\ \A u \in Threads \ {t} : pc'[u] = pc[u]
    BY <1>0, <1>3 DEF AnalyzeFails, AnalysisReturns
  <2>3. QED
    BY <2>1, <2>2 DEF RemovalInv
<1>4. CASE LockForCleanup(t)
  BY <1>0, <1>4 DEF LockForCleanup, RemovalInv
<1>5. CASE RemoveDirectory(t)
  <2>1. /\ pc[t] = "cleanDirectory" /\ onDisk' = {} /\ pc'[t] = "cleanSetting"
        /\ \A u \in Threads \ {t} : pc'[u] = pc[u]
    BY <1>0, <1>5 DEF RemoveDirectory, KeepDirectories
  <2>2. QED
    BY <2>1, Alone DEF RemovalInv, Locked
<1>6. CASE RemoveAutoIndexID(t)
  <2>1. /\ UNCHANGED <<exists, abandoned, onDisk>> /\ pc[t] = "cleanSetting"
        /\ pc'[t] \in {"drop", "idle"} /\ \A u \in Threads \ {t} : pc'[u] = pc[u]
    BY <1>0, <1>6 DEF RemoveAutoIndexID, diskVars, boundVars
  <2>2. QED
    BY <2>1 DEF RemovalInv
<1>7. CASE CleanupFails(t)
  BY <1>7 DEF CleanupFails, RemovalInv
<1>8. CASE Resolve(t) \/ DropEnvironment(t)
  BY <1>8, QuietSteps
<1>9. QED
  BY <1>1, <1>2, <1>3, <1>4, <1>5, <1>6, <1>7, <1>8 DEF Analyze, Query, Cleanup

LEMMA IndexNext ==
  ASSUME IndexInv, [Next]_vars
  PROVE  IndexInv'
<1>0. TypeOK'
  BY TypesKept DEF IndexInv, StagedInv
<1>1. CASE Quiet
  BY <1>0, <1>1, QuietKeeps DEF IndexInv
<1>2. CASE UNCHANGED vars \/ EditSource
  <2>1. Quiet
    BY <1>2 DEF vars, EditSource, Quiet, threadVars, boundVars
  <2>2. QED
    BY <1>1, <2>1
<1>3. ASSUME NEW t \in Threads, RemoveEnvironment(t) PROVE IndexInv'
  <2>1. /\ exists' = FALSE /\ UNCHANGED <<diskVars, lockVars, gen, restarts, abandoned>>
        /\ pc[t] = "idle" /\ pc' = [pc EXCEPT ![t] = "wantCleanup"]
    BY <1>3 DEF RemoveEnvironment, Begin, boundVars
  <2>2. LockInv'
    BY <2>1, LockStays DEF Locked, Sharing
  <2>3. gen[t] = None
    BY <2>1 DEF IndexInv, StagedInv
  <2>4. DiskInv'
    BY <2>1, <2>3, DiskStill DEF diskVars
  <2>5. RemovalInv'
    BY <2>1, TypeParts DEF RemovalInv, IndexInv, AllTypes, PlaceTypes
  <2>6. QED
    BY <1>0, <2>2, <2>4, <2>5 DEF IndexInv, DiskInv
<1>4. ASSUME NEW t \in Threads, Request(t) \/ Run(t) PROVE IndexInv'
  <2>1. CASE Analyze(t) \/ Query(t) \/ Cleanup(t)
    BY <1>0, <1>1, <2>1, LockKept, DiskKept, RemovalKept DEF IndexInv, DiskInv
  <2>2. QED
    BY <1>1, <1>3, <1>4, <2>1, QuietSteps DEF Request, Run
<1>5. CASE Restart
  <2>1. /\ UNCHANGED <<exists, onDisk, older, whole, pointer>> /\ restarts' # 0
        /\ \A t \in Threads : pc'[t] \in {"watchCheck", "idle"} /\ gen'[t] = None
        /\ holder' = None /\ readers' = {}
        /\ abandoned' = (abandoned \/ \E t \in Threads : pc[t] \in Cleaning)
    BY <1>5, TypeParts DEF Restart, diskVars, IndexInv, AllTypes, OtherTypes
  <2>2. LockInv'
    BY <2>1, IndexAssumption DEF LockInv, Locked, Sharing
  <2>3. StagedInv' /\ OrderInv' /\ PublishedIsWhole'
    BY <2>1 DEF IndexInv, StagedInv, OrderInv, PublishedIsWhole
  <2>4. RemovalInv'
    BY <2>1 DEF IndexInv, RemovalInv, Cleaning
  <2>5. ChainInv'
    BY <2>1 DEF ChainInv
  <2>6. QED
    BY <1>0, <2>2, <2>3, <2>4, <2>5 DEF IndexInv
<1>6. QED
  BY <1>2, <1>4, <1>5 DEF Next

LEMMA IndexInvariant == Spec => []IndexInv
<1>1. Init => IndexInv
  <2>. SUFFICES ASSUME Init PROVE IndexInv
    OBVIOUS
  <2>1. TypeOK
    <3>1. 0 \in 0 .. MaxEdits /\ 0 \in 0 .. MaxFailures /\ 0 \in 0 .. MaxRestarts
      BY IndexAssumption
    <3>2. DiskTypes /\ LockTypes /\ WorkTypes
      BY <3>1 DEF Init, DiskTypes, LockTypes, WorkTypes
    <3>3. PlaceTypes /\ WatchTypes /\ OtherTypes
      BY <3>1 DEF Init, PlaceTypes, Labels, Roles, WatchTypes, OtherTypes
    <3>4. QED
      BY <3>2, <3>3, TypeParts DEF AllTypes
  <2>2. LockInv /\ StagedInv /\ RemovalInv /\ OrderInv /\ ChainInv /\ PublishedIsWhole
    BY IndexAssumption DEF Init, LockInv, Locked, Sharing, StagedInv, RemovalInv, OrderInv, ChainInv, PublishedIsWhole
  <2>3. QED
    BY <2>1, <2>2 DEF IndexInv
<1>2. IndexInv /\ [Next]_vars => IndexInv'
  BY IndexNext
<1>3. QED
  BY <1>1, <1>2, PTL DEF Spec

\* Every variable keeps its type.
THEOREM TypeCorrect == Spec => []TypeOK
<1>1. IndexInv => TypeOK
  BY DEF IndexInv
<1>2. QED
  BY <1>1, IndexInvariant, PTL

\* current.json names a generation that is on disk with all of its files.
THEOREM PublishedWhole == Spec => []PublishedIsWhole
<1>1. IndexInv => PublishedIsWhole
  BY DEF IndexInv
<1>2. QED
  BY <1>1, IndexInvariant, PTL

\* The generation a query works on stays on disk, whole, until it returns.
THEOREM QueriesSafe == Spec => []QueriesSeeWholeGenerations
<1>1. IndexInv => QueriesSeeWholeGenerations
  BY DEF IndexInv, StagedInv, PublishedIsWhole, QueriesSeeWholeGenerations
<1>2. QED
  BY <1>1, IndexInvariant, PTL

\* After a removal that cleaned up nothing of the index comes back.
THEOREM RemovedStaysRemoved == Spec => []NoOrphanIndex
<1>1. IndexInv => NoOrphanIndex
  BY DEF IndexInv, RemovalInv, NoOrphanIndex, InFlight, Cleaning
<1>2. QED
  BY <1>1, IndexInvariant, PTL

-----------------------------------------------------------------------------
(* The previous generation. *)

LEMMA PreviousStep ==
  ASSUME IndexInv, [Next]_vars, restarts = 0, HasPrevious, pointer' # None
  PROVE  HasPrevious'
<1>. USE TypeParts DEF IndexInv, AllTypes, DiskTypes
<1>0. PICK h \in whole : <<h, pointer>> \in older
  BY DEF HasPrevious
<1>1. CASE whole \subseteq whole' /\ older \subseteq older' /\ pointer' = pointer
  BY <1>0, <1>1 DEF HasPrevious
<1>2. ASSUME NEW t \in Threads, RenamePointer(t) PROVE HasPrevious'
  <2>1. /\ pc[t] = "rename" /\ pointer' = gen[t] /\ UNCHANGED <<older, whole>>
        /\ pointer \in onDisk \cap whole /\ gen[t] # pointer
    BY <1>0, <1>2, IndexAssumption DEF RenamePointer, StagedInv, PublishedIsWhole
  <2>2. <<pointer, gen[t]>> \in older
    BY <2>1 DEF OrderInv
  <2>3. QED
    BY <2>1, <2>2 DEF HasPrevious
<1>3. ASSUME NEW t \in Threads, PruneGenerations(t) PROVE HasPrevious'
  <2>1. /\ pc[t] = "prune" /\ pc[t] \in Locked /\ gen[t] = pointer /\ pointer' = pointer
        /\ KeepDirectories(Retained(pointer))
    BY <1>3 DEF PruneGenerations, StagedInv, Locked
  <2>2. h \in onDisk \ {pointer}
    BY <1>0 DEF OrderInv
  <2>3. PICK n \in Newest(onDisk \ {pointer}) : TRUE
    BY <2>1, <2>2 DEF ChainInv
  <2>4. n \in onDisk \ {pointer} /\ ~IsStaged(n)
    BY <2>1, <2>3, StagedAlone DEF Newest
  <2>5. n \in whole /\ <<n, pointer>> \in older
    BY <2>4 DEF ChainInv
  <2>6. n \in Retained(pointer) /\ pointer \in Retained(pointer)
    BY <2>3 DEF Retained
  <2>7. QED
    BY <2>1, <2>5, <2>6 DEF KeepDirectories, HasPrevious
<1>4. ASSUME NEW t \in Threads, AnalyzeFails(t) PROVE HasPrevious'
  <2>1. KeepDirectories(Gens \ {gen[t]}) /\ pointer' = pointer /\ gen[t] # pointer
    <3>1. pc[t] \notin {"prune", "reading"}
      BY <1>4 DEF AnalyzeFails
    <3>2. pointer # None
      BY <1>0, IndexAssumption
    <3>3. QED
      BY <1>4, <3>1, <3>2 DEF AnalyzeFails, StagedInv
  <2>2. h # gen[t]
    <3>1. CASE pc[t] \in {"write", "rename"}
      BY <1>0, <2>1, <3>1 DEF OrderInv
    <3>2. CASE pc[t] \notin {"write", "rename"}
      BY <1>0, <1>4, <3>2, IndexAssumption DEF AnalyzeFails, StagedInv
    <3>3. QED
      BY <3>1, <3>2
  <2>3. QED
    BY <1>0, <2>1, <2>2 DEF KeepDirectories, HasPrevious
<1>5. ASSUME NEW t \in Threads, RemoveDirectory(t) PROVE HasPrevious'
  BY <1>5 DEF RemoveDirectory
<1>6. ASSUME NEW t \in Threads, Request(t) \/ Run(t) PROVE HasPrevious'
  <2>1. CASE Quiet
    BY <1>1, <2>1 DEF Quiet, diskVars
  <2>2. CASE RemoveEnvironment(t) \/ LockIndex(t) \/ BeginScan(t) \/ Stage(t) \/ WriteFiles(t)
    BY <1>1, <2>2
       DEF RemoveEnvironment, LockIndex, BeginScan, Stage, WriteFiles, MakeDirectory, diskVars
  <2>3. CASE Query(t)
    BY <1>1, <2>3 DEF Query, ShareLock, OpenIndex, QueryReturns, diskVars
  <2>4. CASE LockForCleanup(t) \/ RemoveAutoIndexID(t) \/ CleanupFails(t)
    BY <1>1, <2>4 DEF LockForCleanup, RemoveAutoIndexID, CleanupFails, diskVars
  <2>5. QED
    BY <1>2, <1>3, <1>4, <1>5, <1>6, <2>1, <2>2, <2>3, <2>4, QuietSteps
       DEF Request, Run, Analyze, Cleanup
<1>7. CASE UNCHANGED vars \/ EditSource \/ Restart
  BY <1>1, <1>7 DEF vars, EditSource, Restart, diskVars
<1>8. QED
  BY <1>6, <1>7 DEF Next

\* Until the index is removed, a whole generation before the published one is
\* kept once there was one, as long as the Gateway lives.
THEOREM PreviousIsRetained == Spec => PreviousRetained
<1>1. IndexInv /\ [Next]_vars =>
        [restarts = 0 /\ HasPrevious /\ pointer' # None => HasPrevious']_vars
  BY PreviousStep
<1>2. QED
  BY <1>1, IndexInvariant, PTL DEF Spec, PreviousRetained

-----------------------------------------------------------------------------
(* The automatic-update setting and the watch. *)

\* On whose behalf a thread is at a step of a removal or of the setting.
RolesInv ==
  \A t \in Threads :
    /\ pc[t] \in Cleaning \cup {"drop"} => ~exists
    /\ pc[t] \in {"watchCheck", "watchInstall"} => role[t] = "enable" \/ restarts > 0
    /\ pc[t] \in {"setGet", "setUpdate", "setStatus"} => role[t] \in {"enable", "disable"}
    /\ pc[t] = "watchStop" => role[t] = "disable"

\* A request that has yet to turn the setting on, or to stop the watch.
Settles(t) ==
  \/ role[t] = "enable" /\ pc[t] \in {"setGet", "setUpdate"}
  \/ role[t] = "disable" /\ pc[t] \in {"setStatus", "watchStop"}

\* An Environment that is watched while updates are off is about to be settled.
SettingInv ==
  failures = 0 /\ restarts = 0 /\ exists /\ watcher # None /\ ~auto =>
    \E t \in Threads : Settles(t)

WatchInv == RolesInv /\ SettingInv

\* Only t moves.
Alters(t) == \A u \in Threads \ {t} : pc'[u] = pc[u] /\ role'[u] = role[u]

LEMMA MovesAlter ==
  ASSUME TypeOK, NEW t \in Threads
  PROVE  /\ \A l : Goto(t, l) =>
              Alters(t) /\ pc'[t] = l /\ (l # "idle" => role'[t] = role[t])
         /\ \A l, r : Begin(t, l, r) =>
              Alters(t) /\ pc'[t] = l /\ role'[t] = r /\ pc[t] = "idle"
BY TypeParts DEF AllTypes, PlaceTypes, Goto, Begin, Alters

LEMMA Elsewhere ==
  ASSUME WatchInv, NEW t \in Threads, Alters(t), pc[t] \notin Setting, pc'[t] \notin Setting,
         pc'[t] \in Cleaning \cup {"drop"} => ~exists',
         exists' => exists /\ auto' = auto /\ watcher' = watcher,
         failures' = 0 => failures = 0, restarts' = restarts
  PROVE  WatchInv'
<1>1. RolesInv'
  BY DEF WatchInv, RolesInv, Alters, Setting
<1>2. \A u \in Threads : Settles(u) => Settles(u)'
  BY DEF Settles, Alters, Setting
<1>3. SettingInv'
  BY <1>2 DEF WatchInv, SettingInv
<1>4. QED
  BY <1>1, <1>3 DEF WatchInv

LEMMA ElsewhereSteps ==
  ASSUME TypeOK, WatchInv, NEW t \in Threads,
         \/ RequestAnalysis(t) \/ StartProjectIndexJob(t) \/ RequestQuery(t)
         \/ RemoveEnvironment(t) \/ Analyze(t) \/ Query(t) \/ Cleanup(t) \/ Watch(t)
  PROVE  WatchInv'
<1>. USE TypeParts, MovesAlter
     DEF AllTypes, PlaceTypes, OtherTypes, Setting, Cleaning, watchVars, boundVars
<1>1. CASE RequestAnalysis(t) \/ StartProjectIndexJob(t) \/ RequestQuery(t)
  BY <1>1, Elsewhere DEF RequestAnalysis, StartProjectIndexJob, RequestQuery
<1>2. CASE RemoveEnvironment(t)
  BY <1>2, Elsewhere DEF RemoveEnvironment
<1>3. CASE Analyze(t)
  <2>1. CASE Resolve(t) \/ LockIndex(t) \/ BeginScan(t)
    BY <2>1, Elsewhere DEF Resolve, LockIndex, BeginScan
  <2>2. CASE Stage(t) \/ WriteFiles(t) \/ RenamePointer(t)
    BY <2>2, Elsewhere DEF Stage, WriteFiles, RenamePointer
  <2>3. CASE PruneGenerations(t) \/ AnalyzeFails(t)
    <3>1. /\ UNCHANGED <<exists, auto, watcher, restarts>>
          /\ failures' = 0 => failures = 0
          /\ pc[t] \notin Setting /\ \E l \in {"loop", "idle"} : Goto(t, l)
      BY <2>3 DEF PruneGenerations, AnalyzeFails, AnalysisReturns
    <3>2. QED
      BY <3>1, Elsewhere
  <2>4. QED
    BY <1>3, <2>1, <2>2, <2>3 DEF Analyze
<1>4. CASE Query(t)
  <2>1. CASE ShareLock(t) \/ OpenIndex(t)
    BY <2>1, Elsewhere DEF ShareLock, OpenIndex
  <2>2. CASE QueryReturns(t)
    <3>1. /\ UNCHANGED <<exists, auto, watcher, restarts, failures>> /\ pc[t] \notin Setting
          /\ \E l \in {"loop", "idle", "resolve"} : Goto(t, l)
      BY <2>2 DEF QueryReturns
    <3>2. QED
      BY <3>1, Elsewhere
  <2>3. QED
    BY <1>4, <2>1, <2>2 DEF Query
<1>5. CASE Cleanup(t)
  <2>1. ~exists /\ exists' = exists /\ pc[t] \notin Setting
    BY <1>5 DEF Cleanup, LockForCleanup, RemoveDirectory, RemoveAutoIndexID, CleanupFails,
       DropEnvironment, WatchInv, RolesInv
  <2>2. /\ Alters(t) /\ pc'[t] \notin Setting /\ restarts' = restarts
        /\ failures' = 0 => failures = 0
    BY <1>5 DEF Cleanup, LockForCleanup, RemoveDirectory, RemoveAutoIndexID, CleanupFails,
       DropEnvironment, Alters
  <2>3. QED
    BY <2>1, <2>2, Elsewhere
<1>6. CASE Watch(t)
  <2>1. CASE ReceiveEvents(t)
    BY <2>1, Elsewhere DEF ReceiveEvents, threadVars, Alters
  <2>2. CASE TimerFires(t) \/ WatchEnds(t)
    BY <2>2, Elsewhere DEF TimerFires, WatchEnds
  <2>3. QED
    BY <1>6, <2>1, <2>2 DEF Watch
<1>7. QED
  BY <1>1, <1>2, <1>3, <1>4, <1>5, <1>6

\* The steps of enables, disables and restores.
LEMMA SettingSteps ==
  ASSUME TypeOK, WatchInv, NEW t \in Threads, SetAutoIndex(t) \/ ChangeSetting(t)
  PROVE  WatchInv'
<1>. USE TypeParts, MovesAlter
     DEF AllTypes, PlaceTypes, OtherTypes, WatchTypes, Setting, Cleaning, watchVars, boundVars
<1>a. ASSUME Alters(t), exists' = exists, restarts' = restarts,
             pc[t] \in {"idle"} \cup Setting,
             \/ pc'[t] = "idle"
             \/ pc'[t] \in {"watchCheck", "watchInstall"} /\ (role'[t] = "enable" \/ restarts > 0)
             \/ pc'[t] \in {"setGet", "setUpdate", "setStatus"} /\ role'[t] \in {"enable", "disable"}
             \/ pc'[t] = "watchStop" /\ role'[t] = "disable"
      PROVE  RolesInv'
  BY <1>a DEF WatchInv, RolesInv, Alters
<1>b. ASSUME Alters(t), exists' = exists, auto' = auto \/ auto' = TRUE,
             watcher' \in {watcher, None}, restarts' = restarts, failures' = 0 => failures = 0,
             failures' = 0 /\ exists /\ watcher' # None /\ ~auto' /\ Settles(t) => Settles(t)'
      PROVE  SettingInv'
  <2>1. \A u \in Threads \ {t} : Settles(u) => Settles(u)'
    BY <1>b DEF Settles, Alters
  <2>2. QED
    BY <1>b, <2>1 DEF WatchInv, SettingInv
<1>0. /\ pc[t] \in {"watchCheck", "watchInstall"} => role[t] = "enable" \/ restarts > 0
      /\ pc[t] \in {"setGet", "setUpdate", "setStatus"} => role[t] \in {"enable", "disable"}
      /\ pc[t] = "watchStop" => role[t] = "disable"
  BY DEF WatchInv, RolesInv
<1>1. CASE SetAutoIndex(t)
  BY <1>a, <1>b, <1>1 DEF SetAutoIndex, Settles, WatchInv
<1>2. CASE CheckWatch(t)
  <2>1. /\ pc[t] = "watchCheck" /\ UNCHANGED <<exists, auto, watcher, failures, restarts>>
        /\ \/ Goto(t, "setGet") /\ role[t] = "enable"
           \/ Goto(t, "watchInstall")
           \/ Goto(t, "idle")
    BY <1>2 DEF CheckWatch, AfterStart
  <2>2. QED
    BY <1>0, <1>a, <1>b, <2>1 DEF Settles, WatchInv
<1>3. CASE InstallWatch(t)
  <2>1. PICK w \in {u \in WatchThreads : pc[u] = "idle"} :
          /\ watcher' = w
          /\ pc' = [pc EXCEPT ![t] = AfterStart(t), ![w] = "loop"]
          /\ role' = [role EXCEPT ![w] = "watch", ![t] = IF @ = "restore" THEN "request" ELSE @]
    BY <1>3 DEF InstallWatch
  <2>2. /\ w \in Threads /\ w # t /\ pc[t] = "watchInstall"
        /\ UNCHANGED <<exists, auto, failures, restarts>>
    BY <1>3, <2>1, IndexAssumption DEF InstallWatch
  <2>3. /\ \A u \in Threads \ {t, w} : pc'[u] = pc[u] /\ role'[u] = role[u]
        /\ pc'[w] = "loop"
        /\ role[t] = "enable" => pc'[t] = "setGet" /\ role'[t] = "enable"
        /\ role[t] # "enable" => pc'[t] = "idle"
    BY <2>1, <2>2 DEF AfterStart
  <2>4. RolesInv'
    BY <1>0, <2>2, <2>3 DEF WatchInv, RolesInv
  <2>5. SettingInv'
    BY <1>0, <2>2, <2>3 DEF SettingInv, Settles
  <2>6. QED
    BY <2>4, <2>5 DEF WatchInv
<1>4. CASE WalkFails(t)
  BY <1>a, <1>b, <1>4 DEF WalkFails, Settles, WatchInv
<1>5. CASE KeepWatch(t)
  <2>1. /\ pc[t] = "watchInstall" /\ UNCHANGED <<exists, auto, watcher, failures, restarts>>
        /\ \/ Goto(t, "setGet") /\ role[t] = "enable"
           \/ Goto(t, "idle")
    BY <1>5 DEF KeepWatch, AfterStart
  <2>2. QED
    BY <1>0, <1>a, <1>b, <2>1 DEF Settles, WatchInv
<1>6. CASE GetForSetting(t)
  BY <1>0, <1>a, <1>b, <1>6 DEF GetForSetting, Settles, WatchInv
<1>7. CASE SetIndexAuto(t)
  <2>1. /\ pc[t] = "setUpdate" /\ auto' = (role[t] = "enable") /\ Goto(t, "setStatus")
        /\ UNCHANGED <<exists, watcher, failures, restarts>>
    BY <1>7 DEF SetIndexAuto
  <2>2. RolesInv'
    BY <1>0, <1>a, <2>1
  <2>3. CASE role[t] = "enable"
    <3>1. auto'
      BY <2>1, <2>3
    <3>2. QED
      BY <2>2, <3>1 DEF SettingInv, WatchInv
  <2>4. CASE role[t] = "disable"
    <3>1. Settles(t)'
      BY <2>1, <2>4 DEF Settles
    <3>2. QED
      BY <2>2, <3>1 DEF SettingInv, WatchInv
  <2>5. QED
    BY <1>0, <2>1, <2>3, <2>4
<1>8. CASE SettingReturns(t)
  <2>1. /\ pc[t] = "setStatus" /\ UNCHANGED <<exists, auto, watcher, failures, restarts>>
        /\ \/ Goto(t, "watchStop") /\ role[t] = "disable"
           \/ Goto(t, "idle") /\ role[t] # "disable"
    BY <1>8 DEF SettingReturns
  <2>2. QED
    BY <1>0, <1>a, <1>b, <2>1 DEF Settles, WatchInv
<1>9. CASE SettingFails(t)
  <2>1. /\ pc[t] \in {"setGet", "setUpdate", "setStatus"} /\ Goto(t, "idle")
        /\ watcher' \in {watcher, None} /\ UNCHANGED <<exists, auto, restarts>>
        /\ failures' = 0 => failures = 0 /\ ~exists
    BY <1>9 DEF SettingFails, StopWatch
  <2>2. QED
    BY <1>a, <1>b, <2>1 DEF Settles, WatchInv
<1>10. CASE StopAutoIndexWatch(t)
  BY <1>a, <1>b, <1>10 DEF StopAutoIndexWatch, StopWatch, Settles, WatchInv
<1>11. QED
  BY <1>1, <1>2, <1>3, <1>4, <1>5, <1>6, <1>7, <1>8, <1>9, <1>10 DEF ChangeSetting

LEMMA WatchNext ==
  ASSUME TypeOK, WatchInv, [Next]_vars
  PROVE  WatchInv'
<1>1. CASE UNCHANGED vars \/ EditSource
  BY <1>1 DEF vars, EditSource, threadVars, watchVars, boundVars, WatchInv, RolesInv,
     SettingInv, Settles
<1>2. CASE Restart
  <2>1. /\ \A t \in Threads : pc'[t] \in {"watchCheck", "idle"}
        /\ restarts' > 0 /\ restarts' # 0
    BY <1>2, TypeParts DEF Restart, AllTypes, OtherTypes
  <2>2. QED
    BY <2>1 DEF WatchInv, RolesInv, SettingInv, Cleaning
<1>3. QED
  BY <1>1, <1>2, ElsewhereSteps, SettingSteps DEF Next, Request, Run

\* When nobody is changing the setting, an existing Environment is watched only
\* if automatic updates are on, whatever enables and disables raced.
THEOREM RacesKeep == Spec => []RacesKeepSetting
<1>1. Init => WatchInv
  BY DEF Init, WatchInv, RolesInv, SettingInv, Cleaning
<1>2. TypeOK /\ WatchInv /\ [Next]_vars => WatchInv'
  BY WatchNext
<1>3. WatchInv => RacesKeepSetting
  BY DEF WatchInv, SettingInv, Settles, RacesKeepSetting, WatchMatchesSetting, InFlight, Setting
<1>4. QED
  BY <1>1, <1>2, <1>3, TypeCorrect, PTL DEF Spec
=============================================================================
