-------------------------- MODULE EnvironmentProofs --------------------------
(***************************************************************************)
(* The two ways to lose an Environment, for every value of the constants:  *)
(* its writer lease taken by another (WriterLease), and its record or      *)
(* worktree removed by a cleanup (Retention).  The two components share no *)
(* variable here; each has its own specification and its own part.         *)
(*                                                                         *)
(* The lease, for any Environments, owners, directory forest and lease     *)
(* length.  RecordedLeasesExclusive together with LeaseTypeOK is           *)
(* inductive: the clock is no part of it, which is why setting the clock   *)
(* back cannot revive a second lease.                                      *)
(***************************************************************************)
EXTENDS WriterLease, Retention, TLAPS

LeaseIInv == LeaseTypeOK /\ RecordedLeasesExclusive

USE ConstantsAssumption

(* A lease that is live carries an expiry.                                 *)
LEMMA LiveIsDated == ASSUME NEW e \in Environments, Live(e) PROVE Dated(e)
  BY DEF Live, Dated, Expired

(* What is left of the records after a grant or a renewal: the target is   *)
(* the only dated lease among the Environments that overlap it.            *)
LEMMA WithLeaseExclusive ==
  ASSUME RecordedLeasesExclusive, NEW e \in Environments, NEW l,
         writer' = WithLease(e, l)
  PROVE  RecordedLeasesExclusive'
<1> SUFFICES ASSUME NEW f \in Environments, NEW g \in Environments, Dated(f)', Dated(g)', Overlap(f, g)
             PROVE  FALSE
  BY DEF RecordedLeasesExclusive, Overlap
<1>1. f # g /\ Overlap(g, f)
  BY DEF Overlap
<1>2. CASE f = e
  <2>1. writer'[g] = NoWriter
    BY <1>1, <1>2 DEF WithLease
  <2> QED BY <2>1 DEF Dated
<1>3. CASE g = e
  <2>1. writer'[f] = NoWriter
    BY <1>1, <1>3 DEF WithLease
  <2> QED BY <2>1 DEF Dated
<1>4. CASE f # e /\ g # e
  <2>1. writer'[f] = writer[f] /\ writer'[g] = writer[g]
    BY <1>4 DEF WithLease, Dated
  <2> QED BY <2>1 DEF Dated, RecordedLeasesExclusive
<1> QED BY <1>2, <1>3, <1>4

(* Dropping leases keeps the rest exclusive.                               *)
LEMMA DroppingExclusive ==
  ASSUME RecordedLeasesExclusive,
         \A f \in Environments : writer'[f] = writer[f] \/ writer'[f] = NoWriter
  PROVE  RecordedLeasesExclusive'
  BY DEF RecordedLeasesExclusive, Dated, Overlap

(* The lease a successful AcquireWriter or RequireWriter leaves behind.    *)
LEMMA GrantedLease ==
  ASSUME LeaseTypeOK, NEW e \in Environments, NEW o \in Writers, status[e] = "ready", NEW l \in Leases,
         writer' = WithLease(e, l), UNCHANGED <<status, now>>
  PROVE  LeaseTypeOK'
<1>1. writer' \in [Environments -> Leases \cup {NoWriter}]
  BY DEF LeaseTypeOK, WithLease
<1>2. \A f \in Environments : status'[f] # "ready" => writer'[f] = NoWriter
  BY DEF LeaseTypeOK, WithLease
<1> QED BY <1>1, <1>2 DEF LeaseTypeOK

(* The times a grant or a renewal writes are times of the clock's range.    *)
LEMMA TimesOfALease ==
  ASSUME LeaseTypeOK PROVE now + TTL \in Times /\ now \in Times
  BY DEF LeaseTypeOK, Times

(* renewWriter leaves a lease.                                             *)
LEMMA RenewedIsALease ==
  ASSUME LeaseTypeOK, NEW l \in Leases PROVE Renewed(l) \in Leases
  BY TimesOfALease DEF Renewed, Leases

(* A loaded state file records no lease with an expiry.                    *)
LEMMA LeaseInitially == LeaseInit => LeaseIInv
<1> SUFFICES ASSUME LeaseInit PROVE LeaseIInv
  OBVIOUS
<1>1. [owner : Writers, acquiredAt : {1}, expiresAt : {0}] \subseteq Leases
  BY DEF Leases, Times
<1>2. LeaseTypeOK
  BY <1>1 DEF LeaseInit, LeaseTypeOK
<1>3. \A e \in Environments : ~Dated(e)
  BY DEF LeaseInit, Dated
<1> QED BY <1>2, <1>3 DEF LeaseIInv, RecordedLeasesExclusive

(* No operation, and no move of the clock, breaks the invariant.           *)
LEMMA LeaseInductive == LeaseIInv /\ [LeaseNext]_leaseVars => LeaseIInv'
<1> SUFFICES ASSUME LeaseIInv, [LeaseNext]_leaseVars PROVE LeaseIInv'
  OBVIOUS
<1> USE DEF LeaseIInv
<1>1. ASSUME NEW e \in Environments, CreateWithRetention(e) \/ CreateManagedWithRetention(e)
      PROVE  LeaseIInv'
  <2>1. LeaseTypeOK'
    BY <1>1 DEF LeaseTypeOK, CreateWithRetention, CreateManagedWithRetention
  <2> QED
    BY <1>1, <2>1, DroppingExclusive DEF CreateWithRetention, CreateManagedWithRetention
<1>2. ASSUME NEW e \in Environments, NEW o \in Writers, AcquireWriter(e, o)
      PROVE  LeaseIInv'
  <2> DEFINE l == IF Live(e) THEN Renewed(writer[e])
                  ELSE [owner |-> o, acquiredAt |-> now, expiresAt |-> now + TTL]
  <2>1. l \in Leases
    <3>1. CASE Live(e)
      BY <3>1, RenewedIsALease DEF LeaseTypeOK, Live
    <3>2. CASE ~Live(e)
      BY <3>2, TimesOfALease DEF Leases
    <3> QED BY <3>1, <3>2
  <2>2. status[e] = "ready" /\ writer' = WithLease(e, l) /\ UNCHANGED <<status, now>>
    BY <1>2 DEF AcquireWriter
  <2> HIDE DEF l
  <2> QED BY <2>1, <2>2, GrantedLease, WithLeaseExclusive
<1>3. ASSUME NEW e \in Environments, NEW o \in Writers, RequireWriter(e, o)
      PROVE  LeaseIInv'
  <2>1. Renewed(writer[e]) \in Leases
    BY <1>3, RenewedIsALease DEF RequireWriter, Holds, Live, LeaseTypeOK
  <2>2. status[e] = "ready" /\ writer' = WithLease(e, Renewed(writer[e])) /\ UNCHANGED <<status, now>>
    BY <1>3 DEF RequireWriter
  <2> QED BY <2>1, <2>2, GrantedLease, WithLeaseExclusive
<1>4. ASSUME NEW e \in Environments, NEW o \in Writers, NEW force \in BOOLEAN, ReleaseWriter(e, o, force)
      PROVE  LeaseIInv'
  <2>1. LeaseTypeOK'
    BY <1>4 DEF LeaseTypeOK, ReleaseWriter
  <2>2. \A f \in Environments : writer'[f] = writer[f] \/ writer'[f] = NoWriter
    BY <1>4 DEF LeaseTypeOK, ReleaseWriter
  <2> QED BY <2>1, <2>2, DroppingExclusive
<1>5. ASSUME NEW e \in Environments, Remove(e) \/ RemoveManaged(e)
      PROVE  LeaseIInv'
  <2>1. LeaseTypeOK'
    BY <1>5 DEF LeaseTypeOK, Remove, RemoveManaged
  <2>2. \A f \in Environments : writer'[f] = writer[f] \/ writer'[f] = NoWriter
    BY <1>5 DEF LeaseTypeOK, Remove, RemoveManaged
  <2> QED BY <2>1, <2>2, DroppingExclusive
<1>6. CASE Tick
  <2>1. LeaseTypeOK'
    BY <1>6 DEF LeaseTypeOK, Tick
  <2> QED BY <1>6, <2>1, DroppingExclusive DEF Tick
<1>7. CASE SetClockBack
  <2>1. LeaseTypeOK'
    BY <1>7 DEF LeaseTypeOK, SetClockBack
  <2> QED BY <1>7, <2>1, DroppingExclusive DEF SetClockBack
<1>8. CASE UNCHANGED leaseVars
  BY <1>8 DEF leaseVars, LeaseTypeOK, RecordedLeasesExclusive, Dated, Overlap
<1> QED BY <1>1, <1>2, <1>3, <1>4, <1>5, <1>6, <1>7, <1>8 DEF LeaseNext

(* Every state the store reaches satisfies it.                             *)
LEMMA LeaseInvariance == LeaseSpec => []LeaseIInv
  BY LeaseInitially, LeaseInductive, PTL DEF LeaseSpec

(* Every record the store can hold is well formed, and only a ready        *)
(* Environment has a lease.                                                *)
THEOREM LeaseTypeCorrect == LeaseSpec => []LeaseTypeOK
<1>1. LeaseIInv => LeaseTypeOK
  BY DEF LeaseIInv
<1> QED BY <1>1, LeaseInvariance, PTL

(* Overlapping Environments never both record a lease with an expiry.      *)
THEOREM RecordsExclusive == LeaseSpec => []RecordedLeasesExclusive
<1>1. LeaseIInv => RecordedLeasesExclusive
  BY DEF LeaseIInv
<1> QED BY <1>1, LeaseInvariance, PTL

(* The contract's single writer: two live leases never reach one directory *)
(* (PRODUCT_CONTRACT ADM-CORE-005).                                        *)
THEOREM SingleWriterHolds == LeaseSpec => []SingleWriterPerDirectory
<1>1. LeaseIInv => SingleWriterPerDirectory
  <2> SUFFICES ASSUME LeaseIInv, NEW d \in Dirs, NEW e \in Environments, NEW f \in Environments,
                      <<Root[e], d>> \in Within, Live(e),
                      <<Root[f], d>> \in Within, Live(f), e # f
               PROVE  FALSE
    BY DEF SingleWriterPerDirectory
  <2>1. Overlap(e, f)
    BY ForestAssumption DEF Overlap
  <2>2. Dated(e) /\ Dated(f)
    BY LiveIsDated
  <2> QED BY <2>1, <2>2 DEF LeaseIInv, RecordedLeasesExclusive
<1> QED BY <1>1, LeaseInvariance, PTL

(* A step leaves a live lease to its owner, or ends it and gives nothing.  *)
THEOREM NotTakenOver == LeaseSpec => LiveLeaseNotTakenOver
<1>1. LeaseIInv /\ [LeaseNext]_leaseVars => [KeepsLiveLeases]_leaseVars
  <2> SUFFICES ASSUME LeaseIInv, LeaseNext, NEW e \in Environments, Live(e)
               PROVE  \/ /\ writer'[e] # NoWriter
                         /\ writer'[e].owner = writer[e].owner
                         /\ writer'[e].acquiredAt = writer[e].acquiredAt
                      \/ /\ writer'[e] = NoWriter
                         /\ \A f \in Environments \ {e} : writer'[f] = writer[f]
    BY DEF KeepsLiveLeases
  <2> USE DEF LeaseIInv
  <2>0. writer[e] \in Leases
    BY DEF LeaseTypeOK, Live
  <2>1. CASE writer' = writer
    BY <2>1 DEF Live
  <2>2. ASSUME NEW f \in Environments, NEW o \in Writers, AcquireWriter(f, o) \/ RequireWriter(f, o)
        PROVE  /\ writer'[e] # NoWriter
               /\ writer'[e].owner = writer[e].owner
               /\ writer'[e].acquiredAt = writer[e].acquiredAt
    <3>1. CASE e = f
      <4>1. writer'[e] = Renewed(writer[e])
        BY <2>2, <3>1 DEF AcquireWriter, RequireWriter, Holds, WithLease
      <4>2. Renewed(writer[e]) # NoWriter
        BY <2>0, RenewedIsALease
      <4> QED BY <2>0, <4>1, <4>2 DEF Renewed, Leases
    <3>2. CASE e # f
      <4>1. ~Overlap(f, e)
        BY <2>2 DEF AcquireWriter, RequireWriter, NoActiveOverlap
      <4>2. writer'[e] = writer[e]
        BY <2>2, <3>2, <4>1 DEF AcquireWriter, RequireWriter, WithLease
      <4> QED BY <4>2 DEF Live
    <3> QED BY <3>1, <3>2
  <2>3. ASSUME NEW f \in Environments, NEW o \in Writers, NEW force \in BOOLEAN, ReleaseWriter(f, o, force)
        PROVE  writer' = [writer EXCEPT ![f] = NoWriter]
    BY <2>3 DEF ReleaseWriter
  <2>4. ASSUME NEW f \in Environments, Remove(f) \/ RemoveManaged(f)
        PROVE  writer' = [writer EXCEPT ![f] = NoWriter]
    BY <2>4 DEF Remove, RemoveManaged
  <2>5. ASSUME NEW f \in Environments, writer' = [writer EXCEPT ![f] = NoWriter]
        PROVE  \/ writer'[e] = writer[e]
               \/ /\ writer'[e] = NoWriter
                  /\ \A g \in Environments \ {e} : writer'[g] = writer[g]
    BY <2>5 DEF LeaseTypeOK
  <2> QED
    BY <2>1, <2>2, <2>3, <2>4, <2>5
       DEF LeaseNext, CreateWithRetention, CreateManagedWithRetention, Tick, SetClockBack, Live
<1> QED BY <1>1, LeaseInvariance, PTL DEF LeaseSpec, LiveLeaseNotTakenOver

(* Exclusive records make exclusive grants: in a forest two roots that     *)
(* reach one directory are the same or one is below the other.             *)
LEMMA GrantsExclusive ==
  ASSUME LeaseTypeOK, RecordedLeasesExclusive PROVE Grants!Exclusive(Granted)
<1> SUFFICES ASSUME NEW g \in Granted, NEW h \in Granted, g # h,
                    NEW d \in Grants!Reach(g[1]), d \in Grants!Reach(h[1])
             PROVE  FALSE
  BY DEF Grants!Exclusive
<1>1. /\ g[1] \in Environments /\ Dated(g[1]) /\ writer[g[1]].owner = g[2]
      /\ h[1] \in Environments /\ Dated(h[1]) /\ writer[h[1]].owner = h[2]
      /\ g = <<g[1], g[2]>> /\ h = <<h[1], h[2]>>
  BY DEF Granted
<1>2. g[1] # h[1]
  BY <1>1
<1>3. d \in Dirs /\ <<Root[g[1]], d>> \in Within /\ <<Root[h[1]], d>> \in Within
  BY DEF Grants!Reach
<1>4. Overlap(g[1], h[1])
  BY <1>1, <1>2, <1>3, ForestAssumption DEF Overlap
<1> QED BY <1>1, <1>4 DEF RecordedLeasesExclusive

(* The lease implements the abstract single writer.                        *)
THEOREM Implements == LeaseSpec => ImplementsSingleWriter
<1>1. LeaseInit => Grants!Init
  BY DEF LeaseInit, Granted, Dated, Grants!Init
<1>2. LeaseIInv /\ LeaseIInv' /\ [LeaseNext]_leaseVars => [Grants!Next]_Granted
  <2> SUFFICES ASSUME LeaseIInv, LeaseIInv', [LeaseNext]_leaseVars PROVE Grants!Next \/ Granted' = Granted
    OBVIOUS
  <2> USE DEF LeaseIInv
  <2>0. Grants!Exclusive(Granted)'
    BY GrantsExclusive, PTL
  <2>1. CASE \A e \in Environments : Dated(e)' => Dated(e) /\ writer'[e].owner = writer[e].owner
    <3>1. Granted' \in SUBSET Granted
      BY <2>1 DEF Granted
    <3> QED BY <3>1 DEF Grants!Next, Grants!End
  <2>2. ASSUME NEW e \in Environments, NEW o \in Writers, AcquireWriter(e, o) \/ RequireWriter(e, o)
        PROVE  Grants!Next
    <3> DEFINE G == Granted' \ {<<e, o>>}
    <3>1. writer'[e].owner = o
      <4>1. CASE Live(e)
        BY <2>2, <4>1 DEF AcquireWriter, RequireWriter, Holds, WithLease, Renewed, LeaseTypeOK, Leases, Live
      <4>2. CASE ~Live(e)
        BY <2>2, <4>2 DEF AcquireWriter, RequireWriter, Holds, WithLease
      <4> QED BY <4>1, <4>2
    <3>2. Dated(e)'
      BY <2>2, ConstantsAssumption, TimesOfALease, RenewedIsALease
         DEF AcquireWriter, RequireWriter, Holds, WithLease, Renewed, Dated, LeaseTypeOK, Leases, Live
    <3>3. <<e, o>> \in Granted'
      BY <3>1, <3>2 DEF Granted
    <3>4. \A f \in Environments \ {e} : writer'[f] = writer[f] \/ writer'[f] = NoWriter
      BY <2>2 DEF AcquireWriter, RequireWriter, WithLease
    <3>5. G \in SUBSET Granted
      BY <3>1, <3>4 DEF Granted, Dated
    <3>6. Granted' = G \cup {<<e, o>>}
      BY <3>3
    <3>7. Grants!Grant(G, e, o)
      BY <2>0, <3>6 DEF Grants!Grant, Grants!Exclusive
    <3> QED BY <3>5, <3>7 DEF Grants!Next
  <2>3. ASSUME NEW e \in Environments, NEW o \in Writers, NEW force \in BOOLEAN, ReleaseWriter(e, o, force)
        PROVE  \A f \in Environments : Dated(f)' => writer'[f] = writer[f]
    BY <2>3 DEF ReleaseWriter, Dated, LeaseTypeOK
  <2>4. ASSUME NEW e \in Environments, Remove(e) \/ RemoveManaged(e)
        PROVE  \A f \in Environments : Dated(f)' => writer'[f] = writer[f]
    BY <2>4 DEF Remove, RemoveManaged, Dated, LeaseTypeOK
  <2>5. CASE writer' = writer
    BY <2>1, <2>5 DEF Dated
  <2>6. CASE \A f \in Environments : Dated(f)' => writer'[f] = writer[f]
    BY <2>1, <2>6 DEF Dated
  <2> QED
    BY <2>2, <2>3, <2>4, <2>5, <2>6
       DEF LeaseNext, CreateWithRetention, CreateManagedWithRetention, Tick, SetClockBack, leaseVars
<1> QED BY <1>1, <1>2, LeaseInvariance, PTL DEF LeaseSpec, ImplementsSingleWriter, Grants!Spec

-----------------------------------------------------------------------------
(***************************************************************************)
(* The registry under cleanups, for any Workspaces, Environments, catalogs *)
(* and owners, and any number of administrators' changes and cleanups.     *)
(* NoOrphanSkills is inductive by itself; that a cleanup removes only what *)
(* is unused needs TypeOK, and that nothing but executeRetentionCleanup    *)
(* takes a cleanup out of its Update.                                      *)
(***************************************************************************)
HIDE ConstantsAssumption

(* What administrators ask for, and what a state file holds at first, are   *)
(* retentions.                                                              *)
LEMMA RetentionTypes ==
  /\ Durable \in Retentions /\ FreshEntry \subseteq Retentions
  /\ \A P \in SUBSET Policies : Soon(P) \subseteq Retentions
  /\ \A o \in Owners, x \in Ages, a \in Envs \cup {None}, p \in Policies :
       Temporary(o, x, a, p) \in Retentions
<1>1. \A o \in Owners, x \in Ages, a \in Envs \cup {None}, p \in Policies :
        Temporary(o, x, a, p) \in Retentions
  BY DEF Retentions
<1>2. Durable \in Retentions
  BY DEF Retentions
<1>3. "later" \in Ages /\ "other" \in Policies
  BY DEF Ages, Policies
<1> HIDE DEF Retentions, Ages, Policies
<1>4. ASSUME NEW P \in SUBSET Policies, NEW r \in Soon(P) PROVE r \in Retentions
  BY <1>1, <1>3 DEF Soon
<1>5. \A r \in FreshEntry : r \in Retentions
  BY <1>1, <1>2, <1>3 DEF FreshEntry
<1> QED BY <1>1, <1>2, <1>4, <1>5

(* Those of the state file and of the operations, by policy.                *)
LEMMA SoonTypes ==
  /\ Soon({"ttl"}) \subseteq Retentions /\ Soon({"other"}) \subseteq Retentions
  /\ Soon({"ttl", "worktree"}) \subseteq Retentions
<1>1. {{"ttl"}, {"other"}, {"ttl", "worktree"}} \subseteq SUBSET Policies
  BY DEF Policies
<1> QED BY <1>1, RetentionTypes

(* Time makes a retention of a retention.                                   *)
LEMMA RipenType == ASSUME NEW r \in Retentions PROVE Ripen(r) \in Retentions
<1>1. CASE r = Durable
  BY <1>1 DEF Durable, Ripen, Retentions
<1>2. ASSUME NEW o \in Owners, NEW x \in Ages, NEW a \in Envs \cup {None}, NEW p \in Policies,
             r = Temporary(o, x, a, p)
      PROVE  Ripen(r) \in Retentions
  <2> DEFINE y == CASE x = "later" -> "past" [] x = "past" -> "long past" [] OTHER -> x
  <2>1. y \in Ages
    BY DEF Ages
  <2>2. Ripen(r) = Temporary(o, y, a, p)
    BY <1>2 DEF Ripen, Temporary
  <2> HIDE DEF y
  <2> QED BY <2>1, <2>2 DEF Retentions
<1> QED BY <1>1, <1>2 DEF Retentions

(* A state file of an earlier session.                                      *)
LEMMA Initially == Init => TypeOK /\ NoOrphanSkills
<1> SUFFICES ASSUME Init PROVE TypeOK /\ NoOrphanSkills
  OBVIOUS
<1> USE RetentionTypes, SoonTypes
<1>1. (\A e \in DOMAIN env : env[e] \in EnvRecords) /\ DOMAIN env = Envs
  BY DEF Init, EnvRecords
<1>2. \A m \in DOMAIN mcp : mcp[m] \in [default : BOOLEAN, ret : Retentions]
  BY DEF Init
<1>3. \A s \in DOMAIN source : source[s] \in [root : Roots, default : BOOLEAN, ret : Retentions]
  BY DEF Init
<1>4. \A k \in DOMAIN skill : skill[k] \in [default : BOOLEAN, ret : Retentions]
  BY DEF Init
<1>5. call \in Calls /\ sweep \in [Sweepers -> {Resting} \cup Sweeps]
  BY DEF Init, Calls
<1>6. TypeOK
  BY <1>1, <1>2, <1>3, <1>4, <1>5 DEF Init, TypeOK, RecordsOK, Skills
<1>7. NoOrphanSkills
  BY DEF Init, NoOrphanSkills, SourceOf
<1> QED BY <1>6, <1>7

(* What administrators do with Workspaces and Environments. *)
LEMMA EnvironmentTypes ==
  ASSUME RecordsOK, call \in Calls,
         \/ \E w \in Workspaces : AddWorkspace(w) \/ RemoveWorkspace(w)
         \/ \E e \in Envs, w \in Workspaces : SetWorkspace(e, w)
         \/ \E e \in Envs : RemoveEnvironment(e) \/ Lease(e)
         \/ CreateEnvironment \/ StoreSelection
  PROVE  RecordsOK' /\ call' \in Calls
<1> USE DEF RecordsOK
<1>1. ASSUME NEW w \in Workspaces, AddWorkspace(w)
      PROVE  RecordsOK' /\ call' \in Calls
  BY <1>1 DEF AddWorkspace, Put
<1>2. ASSUME NEW w \in Workspaces, RemoveWorkspace(w)
      PROVE  RecordsOK' /\ call' \in Calls
  BY <1>2 DEF RemoveWorkspace, Without
<1>3. ASSUME NEW e \in Envs, NEW w \in Workspaces, SetWorkspace(e, w)
      PROVE  RecordsOK' /\ call' \in Calls
  BY <1>3 DEF SetWorkspace, EnvRecords
<1>4. ASSUME NEW e \in Envs, RemoveEnvironment(e)
      PROVE  RecordsOK' /\ call' \in Calls
  BY <1>4 DEF RemoveEnvironment, Without
<1>5. ASSUME NEW e \in Envs, Lease(e)
      PROVE  RecordsOK' /\ call' \in Calls
  BY <1>5 DEF Lease, EnvRecords
<1>6. CASE CreateEnvironment
  <2>1. /\ call.e \in Envs /\ call.ws \in Workspaces /\ call.ret \in Retentions
        /\ call' \in Calls
    BY <1>6 DEF CreateEnvironment, Calls, Idle
  <2>2. newEnvironment(call.ws, call.ret) \in EnvRecords
    BY <2>1 DEF newEnvironment, EnvRecords, Defaults
  <2>3. env' = env \/ env' = Put(env, call.e, newEnvironment(call.ws, call.ret))
    BY <1>6 DEF CreateEnvironment
  <2> QED BY <1>6, <2>1, <2>2, <2>3 DEF CreateEnvironment, Put
<1>7. CASE StoreSelection
  <2>1. call.item \in Mcps \cup Skills /\ call' \in Calls
    BY <1>7 DEF StoreSelection, Calls, Idle
  <2>2. \A e \in DOMAIN env : Toggled(env[e].picks) \in SUBSET (Mcps \cup Skills)
    BY <2>1 DEF Toggled, EnvRecords
  <2>3. DOMAIN ws' = DOMAIN ws /\ DOMAIN env' = DOMAIN env
    BY <1>7 DEF StoreSelection
  <2>4. \A e \in DOMAIN env : env'[e] = env[e] \/ env'[e] = [env[e] EXCEPT !.picks = Toggled(@)]
    BY <1>7 DEF StoreSelection
  <2>5. \A e \in DOMAIN env : env'[e] \in EnvRecords
    BY <2>2, <2>4 DEF EnvRecords
  <2> QED BY <1>7, <2>1, <2>3, <2>5 DEF StoreSelection
<1> QED BY <1>1, <1>2, <1>3, <1>4, <1>5, <1>6, <1>7

(* What a handler reads before its Update. *)
LEMMA CallTypes ==
  ASSUME RecordsOK, call \in Calls,
         \/ \E e \in Envs, w \in Workspaces, r \in {Durable} \cup Soon({"ttl"}) : GetWorkspace(e, w, r)
         \/ \E x \in Mcps \cup Skills :
               \/ \E w \in DOMAIN ws : SetSelection("ws", w, x, x \notin ws[w])
               \/ \E e \in DOMAIN env : SetSelection("env", e, x, x \notin env[e].picks)
         \/ \E s \in Sources, found \in SUBSET Paths : DiscoverSource(s, found)
  PROVE  RecordsOK' /\ call' \in Calls
<1>1. records' = records
  BY DEF GetWorkspace, SetSelection, DiscoverSource
<1>2. RecordsOK'
  BY <1>1 DEF records, RecordsOK
<1>3. ASSUME NEW e \in Envs, NEW w \in Workspaces, NEW r \in {Durable} \cup Soon({"ttl"}),
             GetWorkspace(e, w, r)
      PROVE  call' \in Calls
  BY <1>3, RetentionTypes, SoonTypes DEF GetWorkspace, Calls
<1>4. ASSUME NEW place \in {"ws", "env"}, NEW i \in Workspaces \cup Envs,
             NEW x \in Mcps \cup Skills, NEW on \in BOOLEAN, SetSelection(place, i, x, on)
      PROVE  call' \in Calls
  BY <1>4 DEF SetSelection, Calls
<1>5. ASSUME NEW s \in Sources, NEW found \in SUBSET Paths, DiscoverSource(s, found)
      PROVE  call' \in Calls
  BY <1>5 DEF DiscoverSource, Calls, RecordsOK
<1>6. DOMAIN ws \subseteq Workspaces /\ DOMAIN env \subseteq Envs
  BY DEF RecordsOK
<1> QED BY <1>2, <1>3, <1>4, <1>5, <1>6

(* What administrators do with the catalogs. *)
LEMMA CatalogTypes ==
  ASSUME RecordsOK, call \in Calls,
         \/ \E m \in Mcps : \/ \E r \in FreshEntry : AddMCP(m, TRUE, r)
                            \/ \E d \in BOOLEAN : SetMCPDefault(m, d)
                            \/ RemoveMCP(m)
         \/ \E p \in {"error", "skip", "update"} : ApplyBatch(Mcps, TRUE, p)
         \/ \E k \in Skills : \/ AddSkill(k, TRUE) \/ \E d \in BOOLEAN : SetSkillDefault(k, d)
                              \/ RemoveSkill(k)
  PROVE  RecordsOK' /\ call' \in Calls
<1> USE DEF RecordsOK
<1>1. ASSUME NEW m \in Mcps, NEW r \in FreshEntry, AddMCP(m, TRUE, r)
      PROVE  RecordsOK' /\ call' \in Calls
  BY <1>1, RetentionTypes DEF AddMCP, Put
<1>2. ASSUME NEW m \in Mcps, NEW d \in BOOLEAN, SetMCPDefault(m, d)
      PROVE  RecordsOK' /\ call' \in Calls
  BY <1>2 DEF SetMCPDefault
<1>3. ASSUME NEW S, Deselect(S)
      PROVE  /\ DOMAIN ws' = DOMAIN ws /\ DOMAIN env' = DOMAIN env
             /\ \A e \in DOMAIN env : env'[e] \in EnvRecords
  BY <1>3 DEF Deselect, EnvRecords
<1>4. ASSUME NEW m \in Mcps, RemoveMCP(m)
      PROVE  RecordsOK' /\ call' \in Calls
  BY <1>3, <1>4 DEF RemoveMCP, Without
<1>5. ASSUME NEW p, ApplyBatch(Mcps, TRUE, p)
      PROVE  RecordsOK' /\ call' \in Calls
  BY <1>5, RetentionTypes DEF ApplyBatch
<1>6. ASSUME NEW k \in Skills, AddSkill(k, TRUE)
      PROVE  RecordsOK' /\ call' \in Calls
  BY <1>6, RetentionTypes DEF AddSkill, Put
<1>7. ASSUME NEW k \in Skills, NEW d \in BOOLEAN, SetSkillDefault(k, d)
      PROVE  RecordsOK' /\ call' \in Calls
  BY <1>7 DEF SetSkillDefault
<1>8. ASSUME NEW k \in Skills, RemoveSkill(k)
      PROVE  RecordsOK' /\ call' \in Calls
  BY <1>3, <1>8 DEF RemoveSkill, Without
<1> QED BY <1>1, <1>2, <1>4, <1>5, <1>6, <1>7, <1>8

(* What they do with the sources of Skills.                                 *)
LEMMA SourceTypes ==
  ASSUME RecordsOK, call \in Calls,
         \/ \E s \in Sources :
               \/ \E r \in Roots, d \in BOOLEAN :
                     \/ UpdateSkillSource(s, r, d)
                     \/ \E t \in FreshEntry : d /\ AddSkillSource(s, r, d, t)
               \/ RemoveSkillSource(s)
         \/ RefreshSkillSource
  PROVE  RecordsOK' /\ call' \in Calls
<1> USE DEF RecordsOK
<1>1. ASSUME NEW s \in Sources, NEW r \in Roots, NEW d \in BOOLEAN, UpdateSkillSource(s, r, d)
      PROVE  RecordsOK' /\ call' \in Calls
  BY <1>1 DEF UpdateSkillSource
<1>2. ASSUME NEW s \in Sources, NEW r \in Roots, NEW d \in BOOLEAN, NEW t \in FreshEntry,
             AddSkillSource(s, r, d, t)
      PROVE  RecordsOK' /\ call' \in Calls
  BY <1>2, RetentionTypes DEF AddSkillSource, Put
<1>3. ASSUME NEW S, Deselect(S)
      PROVE  /\ DOMAIN ws' = DOMAIN ws /\ DOMAIN env' = DOMAIN env
             /\ \A e \in DOMAIN env : env'[e] \in EnvRecords
  BY <1>3 DEF Deselect, EnvRecords
<1>4. ASSUME NEW s \in Sources, RemoveSkillSource(s)
      PROVE  RecordsOK' /\ call' \in Calls
  BY <1>3, <1>4 DEF RemoveSkillSource, Without
<1>5. CASE RefreshSkillSource
  <2>1. /\ call.s \in Sources /\ call.found \subseteq Paths
        /\ call.read \in [root : Roots, default : BOOLEAN, ret : Retentions]
        /\ call' \in Calls
    BY <1>5 DEF RefreshSkillSource, Calls, Idle
  <2>2. {call.s} \X call.found \subseteq Skills
    BY <2>1 DEF Skills
  <2> QED BY <1>5, <2>1, <2>2 DEF RefreshSkillSource
<1> QED BY <1>1, <1>2, <1>4, <1>5

(* What they do about how long a record is kept, and what time does to it. *)
LEMMA KeepingTypes ==
  ASSUME RecordsOK, call \in Calls,
         \/ \E x \in Resources : \/ PromoteResourceRetention(x)
                                 \/ \E r \in IF x[1] = "env" THEN Soon({"other"}) ELSE FreshEntry :
                                       MarkResourceTemporary(x, r)
         \/ \E e \in Envs, o \in Owners : PromoteTemporaryEnvironment(e, o)
         \/ \E o \in Owners : MigrateManagedWorktreeRetention(o)
         \/ TimePasses
  PROVE  RecordsOK' /\ call' \in Calls
<1> USE DEF RecordsOK
<1>1. ASSUME NEW kind \in {"env", "mcp", "source", "skill"}, NEW x, NEW r \in Retentions,
             Retain(kind, x, r)
      PROVE  RecordsOK'
  <2>1. CASE kind = "env"
    BY <1>1, <2>1 DEF Retain, EnvRecords
  <2>2. CASE kind = "mcp"
    BY <1>1, <2>2 DEF Retain
  <2>3. CASE kind = "source"
    BY <1>1, <2>3 DEF Retain
  <2>4. CASE kind = "skill"
    BY <1>1, <2>4 DEF Retain
  <2> QED BY <2>1, <2>2, <2>3, <2>4
<1>2. \A x \in Resources : x[1] \in {"env", "mcp", "source", "skill"}
  BY DEF Resources
<1>3. ASSUME NEW x \in Resources, PromoteResourceRetention(x)
      PROVE  RecordsOK' /\ call' \in Calls
  BY <1>1, <1>2, <1>3, RetentionTypes DEF PromoteResourceRetention
<1>4. ASSUME NEW x \in Resources, NEW r \in IF x[1] = "env" THEN Soon({"other"}) ELSE FreshEntry,
             MarkResourceTemporary(x, r)
      PROVE  RecordsOK' /\ call' \in Calls
  BY <1>1, <1>2, <1>4, RetentionTypes, SoonTypes DEF MarkResourceTemporary
<1>5. ASSUME NEW e \in Envs, NEW o \in Owners, PromoteTemporaryEnvironment(e, o)
      PROVE  RecordsOK' /\ call' \in Calls
  BY <1>1, <1>5, RetentionTypes DEF PromoteTemporaryEnvironment
<1>6. ASSUME NEW o \in Owners, MigrateManagedWorktreeRetention(o)
      PROVE  RecordsOK' /\ call' \in Calls
  <2>1. Temporary(o, "later", None, "worktree") \in Retentions
    BY RetentionTypes DEF Ages, Policies
  <2> QED BY <1>6, <2>1 DEF MigrateManagedWorktreeRetention, EnvRecords
<1>7. CASE TimePasses
  <2>1. \A e \in DOMAIN env : env'[e] \in EnvRecords
    BY <1>7, RipenType DEF TimePasses, EnvRecords
  <2> QED BY <1>7, <2>1, RipenType DEF TimePasses
<1> QED BY <1>3, <1>4, <1>5, <1>6, <1>7

(* Where a cleanup is: the steps that only move it. *)
SweepsOK == sweep \in [Sweepers -> {Resting} \cup Sweeps]

(* A cleanup that is not at rest has all its fields.                        *)
LEMMA ActiveSweep ==
  ASSUME SweepsOK, NEW t \in Sweepers, sweep[t].pc # "idle"
  PROVE  sweep[t] \in Sweeps
  BY DEF SweepsOK, Resting

(* A cleanup that goes on in a well-formed place leaves the others alone.   *)
LEMMA SweepMoves ==
  ASSUME SweepsOK, NEW t \in Sweepers, NEW s \in {Resting} \cup Sweeps,
         sweep' = [sweep EXCEPT ![t] = s]
  PROVE  SweepsOK'
  BY DEF SweepsOK

(* It ends, or goes to another phase.                                       *)
LEMMA StepMoves ==
  ASSUME SweepsOK, NEW t \in Sweepers, sweep[t] \in Sweeps,
         End(t) \/ \E pc \in {"update", "confirm", "destroy", "managed", "drop"} : Step(t, pc)
  PROVE  SweepsOK'
<1>1. ASSUME NEW pc \in {"update", "confirm", "destroy", "managed", "drop"}, Step(t, pc)
      PROVE  SweepsOK'
  <2> DEFINE s == [sweep[t] EXCEPT !.pc = pc]
  <2>1. s \in Sweeps
    BY DEF Sweeps
  <2>2. sweep' = [sweep EXCEPT ![t] = s]
    BY <1>1 DEF Step, SweepsOK
  <2> HIDE DEF s
  <2> QED BY <2>1, <2>2, SweepMoves
<1> QED BY <1>1, SweepMoves DEF End

(* What the records show are resources.                                     *)
LEMMA CoveredResources ==
  ASSUME RecordsOK PROVE Present \subseteq Resources
  BY DEF RecordsOK, Present, Resources

(* Reports and looks of a cleanup change no record.                         *)
LEMMA MovingTypes ==
  ASSUME TypeOK,
         \/ \E e \in Envs, o \in Owners : BeginOne(e, o)
         \/ \E S \in SUBSET Envs, kind \in {"stale", "stale forced"} : StaleManagedWorktreeCleanup(S, kind)
         \/ \E t \in Sweepers, kind \in {"all", "forced", "expired"} : Begin(t, kind)
         \/ \E t \in Sweepers : \/ Report(t) \/ RecheckRuntime(t) \/ WorktreesDone(t)
                                \/ \E e \in Envs : CheckWorktree(t, e)
  PROVE  SweepsOK' /\ UNCHANGED <<records, call, runtimeVars>>
<1> USE DEF TypeOK
<1>1. UNCHANGED <<records, call, runtimeVars>>
  BY DEF BeginOne, StaleManagedWorktreeCleanup, Begin, Report, RecheckRuntime, WorktreesDone,
         CheckWorktree, registryVars
<1>2. ASSUME NEW e \in Envs, NEW o \in Owners, BeginOne(e, o)
      PROVE  SweepsOK'
  BY <1>2 DEF BeginOne, SweepsOK, Sweeps
<1>3. ASSUME NEW S \in SUBSET Envs, NEW kind \in {"stale", "stale forced"},
             StaleManagedWorktreeCleanup(S, kind)
      PROVE  SweepsOK'
  <2>1. {e \in S : StaleCandidate(e, kind)} \in SUBSET (Resources \cup Envs)
    OBVIOUS
  <2> QED BY <1>3, <2>1 DEF StaleManagedWorktreeCleanup, SweepsOK, Sweeps
<1>4. ASSUME NEW t \in Sweepers, NEW kind \in {"all", "forced", "expired"}, Begin(t, kind)
      PROVE  SweepsOK'
  BY <1>4 DEF Begin, SweepsOK, Sweeps
<1>5. ASSUME NEW t \in Sweepers, Report(t)
      PROVE  SweepsOK'
  <2> DEFINE covered == Covered(sweep[t].kind, sweep[t].at)
             eligible == {x \in covered : Eligible(x, sweep[t].kind)}
             seen == eligible \cup {x \in covered : x[1] \in {"source", "skill"}}
             pc == IF sweep[t].kind = "one" THEN "recheck" ELSE "update"
  <2>1. covered \subseteq Present
    BY DEF Covered, Present
  <2>2. seen \in SUBSET (Resources \cup Envs)
    BY <2>1, CoveredResources
  <2>3. sweep[t] \in Sweeps
    BY <1>5, ActiveSweep DEF Report, SweepsOK
  <2>4. \/ sweep' = [sweep EXCEPT ![t] = Resting]
        \/ sweep' = [sweep EXCEPT ![t].seen = seen, ![t].pc = pc]
    BY <1>5 DEF Report, End
  <2> DEFINE s == [sweep[t] EXCEPT !.seen = seen, !.pc = pc]
  <2>5. s \in Sweeps
    <3> HIDE DEF seen
    <3> QED BY <2>2, <2>3 DEF Sweeps
  <2>6. sweep' = [sweep EXCEPT ![t] = Resting] \/ sweep' = [sweep EXCEPT ![t] = s]
    <3> HIDE DEF seen, pc
    <3> QED BY <2>4 DEF SweepsOK
  <2> HIDE DEF s
  <2> QED BY <2>5, <2>6, SweepMoves DEF SweepsOK
<1>6. ASSUME NEW t \in Sweepers, RecheckRuntime(t)
      PROVE  SweepsOK'
  <2>1. sweep[t] \in Sweeps
    BY <1>6, ActiveSweep DEF RecheckRuntime, SweepsOK
  <2> QED BY <1>6, <2>1, StepMoves DEF RecheckRuntime, SweepsOK
<1>7. ASSUME NEW t \in Sweepers, WorktreesDone(t)
      PROVE  SweepsOK'
  <2>1. sweep[t] \in Sweeps
    BY <1>7, ActiveSweep DEF WorktreesDone, SweepsOK
  <2> QED BY <1>7, <2>1, StepMoves DEF WorktreesDone, SweepsOK
<1>8. ASSUME NEW t \in Sweepers, NEW e \in Envs, CheckWorktree(t, e)
      PROVE  SweepsOK'
  <2>1. sweep[t] \in Sweeps
    BY <1>8, ActiveSweep DEF CheckWorktree, SweepsOK
  <2> DEFINE force == Forced(sweep[t].kind) \/ (sweep[t].kind = "stale forced" /\ Migrated(e))
  <2>2. \/ sweep' = [sweep EXCEPT ![t].pc = "acquire", ![t].at = e, ![t].force = force]
        \/ sweep' = [sweep EXCEPT ![t].seen = @ \ {e}]
    BY <1>8 DEF CheckWorktree
  <2>0. force \in BOOLEAN
    BY DEF Forced, Migrated
  <2> HIDE DEF force
  <2> DEFINE s == [sweep[t] EXCEPT !.pc = "acquire", !.at = e, !.force = force]
             r == [sweep[t] EXCEPT !.seen = @ \ {e}]
  <2>3. s \in Sweeps /\ r \in Sweeps
    BY <2>0, <2>1 DEF Sweeps
  <2>4. sweep' = [sweep EXCEPT ![t] = s] \/ sweep' = [sweep EXCEPT ![t] = r]
    BY <2>2 DEF SweepsOK
  <2> HIDE DEF s, r
  <2> QED BY <2>3, <2>4, SweepMoves DEF SweepsOK
<1> QED BY <1>1, <1>2, <1>3, <1>4, <1>5, <1>6, <1>7, <1>8

(* What a cleanup removes. *)
LEMMA RemovingTypes ==
  ASSUME RecordsOK, NEW S, removeRecords(S)
  PROVE  RecordsOK' /\ call' = call
  BY DEF removeRecords, RecordsOK, Without

(* The Updates of the cleanups.                                             *)
LEMMA CleanupTypes ==
  ASSUME TypeOK,
         \/ ResourceRetentionCleanup
         \/ \E t \in Sweepers : executeRetentionCleanup(t)
  PROVE  TypeOK'
<1> USE DEF TypeOK
<1>1. CASE ResourceRetentionCleanup
  <2>1. RecordsOK' /\ call' = call
    BY <1>1, RemovingTypes DEF ResourceRetentionCleanup
  <2> QED BY <1>1, <2>1 DEF ResourceRetentionCleanup, runtimeVars
<1>2. ASSUME NEW t \in Sweepers, executeRetentionCleanup(t)
      PROVE  TypeOK'
  <2> DEFINE removed == {x \in Present : StillSafe(t, x)}
             worktrees == {e \in Ids(sweep[t].seen, "env") : e \in DOMAIN env /\ env[e].managed}
             kind == IF sweep[t].kind = "all" THEN "mcp" ELSE "env"
             gone == Ids(removed, kind)
             pc == IF kind = "mcp" THEN "drop" ELSE "managed"
  <2>1. RecordsOK' /\ call' = call
    BY <1>2, RemovingTypes DEF executeRetentionCleanup
  <2>2. sweep[t] \in Sweeps
    BY <1>2, ActiveSweep DEF executeRetentionCleanup, SweepsOK
  <2>3. worktrees \in SUBSET (Resources \cup Envs)
    BY DEF RecordsOK
  <2>4. gone \in SUBSET (Envs \cup Mcps)
    <3>1. \A x \in Present : x[1] \in {"env", "mcp"} => x[2] \in Envs \cup Mcps
      BY DEF Present, RecordsOK
    <3> QED BY <3>1 DEF Ids
  <2>5. \/ sweep' = [sweep EXCEPT ![t] = Resting]
        \/ sweep' = [sweep EXCEPT ![t].pc = pc, ![t].seen = worktrees, ![t].gone = gone]
    BY <1>2 DEF executeRetentionCleanup, End
  <2> DEFINE s == [sweep[t] EXCEPT !.pc = pc, !.seen = worktrees, !.gone = gone]
  <2>6. SweepsOK'
    <3> HIDE DEF worktrees, gone
    <3>1. s \in Sweeps
      BY <2>2, <2>3, <2>4 DEF Sweeps
    <3>2. sweep' = [sweep EXCEPT ![t] = Resting] \/ sweep' = [sweep EXCEPT ![t] = s]
      <4> HIDE DEF pc
      <4> QED BY <2>5 DEF SweepsOK
    <3> HIDE DEF s
    <3> QED BY <3>1, <3>2, SweepMoves DEF SweepsOK
  <2> QED BY <1>2, <2>1, <2>6 DEF executeRetentionCleanup, runtimeVars, SweepsOK
<1> QED BY <1>1, <1>2

(* The worktrees, one after the other. *)
LEMMA WorktreeTypes ==
  ASSUME TypeOK, NEW t \in Sweepers,
         AcquireWorktree(t) \/ ConfirmWorktree(t) \/ DestroyWorktree(t) \/ Drop(t)
  PROVE  TypeOK'
<1> USE DEF TypeOK
<1>1. sweep[t] \in Sweeps
  BY ActiveSweep DEF AcquireWorktree, ConfirmWorktree, DestroyWorktree, Drop, SweepsOK
<1>2. ASSUME NEW pc \in {"confirm", "destroy", "managed"}, Step(t, pc) \/ Skip(t)
      PROVE  SweepsOK'
  <2> DEFINE s == [sweep[t] EXCEPT !.pc = "managed", !.seen = @ \ {sweep[t].at}, !.force = FALSE]
  <2>1. s \in Sweeps
    BY <1>1 DEF Sweeps
  <2>2. Skip(t) => sweep' = [sweep EXCEPT ![t] = s]
    BY DEF Skip, SweepsOK
  <2> HIDE DEF s
  <2> QED BY <1>1, <1>2, <2>1, <2>2, StepMoves, SweepMoves DEF SweepsOK
<1>3. ASSUME GiveBackWriter(t) \/ UNCHANGED env
      PROVE  DOMAIN env' = DOMAIN env /\ \A e \in DOMAIN env : env'[e] \in EnvRecords
  BY <1>3 DEF GiveBackWriter, EnvRecords, RecordsOK
<1>4. CASE AcquireWorktree(t)
  <2>1. DOMAIN env' = DOMAIN env /\ \A e \in DOMAIN env : env'[e] \in EnvRecords
    BY <1>4 DEF AcquireWorktree, EnvRecords, RecordsOK
  <2>2. RecordsOK' /\ call' = call
    BY <1>4, <2>1 DEF AcquireWorktree, RecordsOK
  <2>3. SweepsOK'
    BY <1>2, <1>4 DEF AcquireWorktree
  <2> QED BY <1>4, <2>2, <2>3 DEF AcquireWorktree, runtimeVars, SweepsOK
<1>5. CASE ConfirmWorktree(t)
  <2>1. DOMAIN env' = DOMAIN env /\ \A e \in DOMAIN env : env'[e] \in EnvRecords
    BY <1>3, <1>5 DEF ConfirmWorktree
  <2>2. RecordsOK' /\ call' = call
    BY <1>5, <2>1 DEF ConfirmWorktree, RecordsOK
  <2>3. SweepsOK'
    BY <1>2, <1>5 DEF ConfirmWorktree
  <2> QED BY <1>5, <2>2, <2>3 DEF ConfirmWorktree, runtimeVars, SweepsOK
<1>6. CASE DestroyWorktree(t)
  <2> DEFINE e == sweep[t].at
             pc == IF Stale(sweep[t].kind) THEN "drop" ELSE "managed"
             gone == IF sweep[t].kind = "all" THEN sweep[t].gone ELSE sweep[t].gone \cup {e}
             destroyed == [sweep EXCEPT ![t].pc = pc, ![t].seen = @ \ {e}, ![t].force = FALSE,
                                        ![t].gone = gone]
  <2>1. CASE /\ e \in DOMAIN env /\ env' = Without(env, {e})
             /\ tree' = [tree EXCEPT ![e] = "clean"] /\ sweep' = destroyed
    <3>1. RecordsOK' /\ call' = call
      BY <1>6, <2>1 DEF DestroyWorktree, RecordsOK, Without
    <3>2. gone \in SUBSET (Envs \cup Mcps) /\ pc \in {"drop", "managed"}
      BY <1>1, <2>1 DEF Sweeps, RecordsOK
    <3> DEFINE s == [sweep[t] EXCEPT !.pc = pc, !.seen = @ \ {e}, !.force = FALSE, !.gone = gone]
    <3>3. SweepsOK'
      <4> HIDE DEF gone, pc
      <4>1. s \in Sweeps
        BY <1>1, <3>2 DEF Sweeps
      <4>2. sweep' = [sweep EXCEPT ![t] = s]
        BY <2>1 DEF SweepsOK
      <4> HIDE DEF s
      <4> QED BY <4>1, <4>2, SweepMoves DEF SweepsOK
    <3>4. tree' \in [Envs -> {"clean", "dirty", "broken"}]
      BY <2>1
    <3> QED BY <1>6, <3>1, <3>3, <3>4 DEF DestroyWorktree, SweepsOK
  <2>2. CASE GiveBackWriter(t) /\ Skip(t) /\ UNCHANGED tree
    <3>1. RecordsOK' /\ call' = call
      BY <1>3, <1>6, <2>2 DEF DestroyWorktree, RecordsOK
    <3>2. SweepsOK'
      BY <1>2, <2>2
    <3> QED BY <1>6, <2>2, <3>1, <3>2 DEF DestroyWorktree, SweepsOK
  <2>3. ASSUME NEW recovers \in BOOLEAN, Destroyable(t, e, recovers), sweep[t] \in Sweeps,
               env' = Without(env, {e}), tree' = [tree EXCEPT ![e] = "clean"],
               sweep' = [sweep EXCEPT ![t].pc = IF Stale(sweep[t].kind) THEN "drop" ELSE "managed",
                           ![t].seen = @ \ {sweep[t].at}, ![t].force = FALSE,
                           ![t].gone = IF sweep[t].kind = "all" THEN @ ELSE @ \cup {sweep[t].at}]
        PROVE  TypeOK'
    <3>1. e \in DOMAIN env
      BY <2>3 DEF Destroyable
    <3>2. sweep' = destroyed
      BY <2>3 DEF SweepsOK
    <3> HIDE DEF destroyed
    <3> QED BY <2>1, <2>3, <3>1, <3>2
  <2> QED BY <1>1, <1>6, <2>2, <2>3 DEF DestroyWorktree
<1>7. CASE Drop(t)
  <2>1. RecordsOK' /\ call' = call
    BY <1>7 DEF Drop, registryVars, records, RecordsOK
  <2>2. session' \subseteq session /\ work' \subseteq work /\ tree' = tree
    BY <1>7 DEF Drop
  <2>3. \/ \E pc \in {"managed"} : Step(t, pc)
        \/ End(t)
        \/ sweep' = [sweep EXCEPT ![t].pc = "report", ![t].kind = "long past", ![t].gone = {}]
    BY <1>7 DEF Drop
  <2> DEFINE s == [sweep[t] EXCEPT !.pc = "report", !.kind = "long past", !.gone = {}]
  <2>4. SweepsOK'
    <3>1. s \in Sweeps
      BY <1>1 DEF Sweeps
    <3>2. CASE sweep' = [sweep EXCEPT ![t].pc = "report", ![t].kind = "long past", ![t].gone = {}]
      <4>1. sweep' = [sweep EXCEPT ![t] = s]
        BY <3>2 DEF SweepsOK
      <4> HIDE DEF s
      <4> QED BY <3>1, <4>1, SweepMoves DEF SweepsOK
    <3> QED BY <1>1, <1>2, <2>3, <3>2, StepMoves DEF SweepsOK
  <2> QED BY <2>1, <2>2, <2>4 DEF SweepsOK
<1> QED BY <1>4, <1>5, <1>6, <1>7

(* Every step keeps the types. *)
LEMMA TypesKept == TypeOK /\ [Next]_vars => TypeOK'
<1> SUFFICES ASSUME TypeOK, [Next]_vars PROVE TypeOK'
  OBVIOUS
<1>1. CASE Administer
  <2>1. UNCHANGED <<session, work, tree, sweep>>
    BY <1>1 DEF Administer, runtimeVars
  <2>2. RecordsOK' /\ call' \in Calls
    <3>1. RecordsOK /\ call \in Calls
      BY DEF TypeOK
    <3> QED BY <1>1, <3>1, EnvironmentTypes, CallTypes, CatalogTypes, SourceTypes, KeepingTypes
            DEF Administer
  <2> QED BY <2>1, <2>2 DEF TypeOK
<1>2. CASE \/ \E e \in Envs, o \in Owners : BeginOne(e, o)
           \/ \E S \in SUBSET Envs, kind \in {"stale", "stale forced"} : StaleManagedWorktreeCleanup(S, kind)
           \/ \E t \in Sweepers, kind \in {"all", "forced", "expired"} : Begin(t, kind)
           \/ \E t \in Sweepers : \/ Report(t) \/ RecheckRuntime(t) \/ WorktreesDone(t)
                                  \/ \E e \in Envs : CheckWorktree(t, e)
  <2>1. SweepsOK' /\ UNCHANGED <<records, call, runtimeVars>>
    BY <1>2, MovingTypes
  <2> QED BY <2>1 DEF TypeOK, RecordsOK, SweepsOK, records, runtimeVars
<1>3. CASE ResourceRetentionCleanup \/ \E t \in Sweepers : executeRetentionCleanup(t)
  BY <1>3, CleanupTypes
<1>4. CASE \E t \in Sweepers :
              AcquireWorktree(t) \/ ConfirmWorktree(t) \/ DestroyWorktree(t) \/ Drop(t)
  BY <1>4, WorktreeTypes
<1>5. ASSUME NEW e \in Envs, StartWork(e) \/ EndWork(e) \/ Soil(e) \/ Break(e)
      PROVE  TypeOK'
  <2>1. UNCHANGED <<records, call, session, sweep>>
    BY <1>5 DEF StartWork, EndWork, Soil, Break, registryVars
  <2>2. work' \subseteq Envs /\ tree' \in [Envs -> {"clean", "dirty", "broken"}]
    BY <1>5 DEF StartWork, EndWork, Soil, Break, TypeOK
  <2> QED BY <2>1, <2>2 DEF TypeOK, RecordsOK, records
<1>6. ASSUME NEW e \in Envs, NEW m \in Mcps, Connect(e, m)
      PROVE  TypeOK'
  <2>1. UNCHANGED <<records, call, work, tree, sweep>>
    BY <1>6 DEF Connect, registryVars
  <2>2. session' \subseteq Envs \X Mcps
    BY <1>6 DEF Connect, TypeOK
  <2> QED BY <2>1, <2>2 DEF TypeOK, RecordsOK, records
<1>7. CASE Prune
  <2>1. UNCHANGED <<records, call, work, tree, sweep>>
    BY <1>7 DEF Prune, registryVars
  <2>2. session' \subseteq session
    BY <1>7 DEF Prune
  <2> QED BY <2>1, <2>2 DEF TypeOK, RecordsOK, records
<1>8. CASE UNCHANGED vars
  BY <1>8 DEF vars, registryVars, records, runtimeVars, TypeOK, RecordsOK
<1> QED BY <1>1, <1>2, <1>3, <1>4, <1>5, <1>6, <1>7, <1>8 DEF Next, Clean

(* What removes a source removes its Skills, and what adds a Skill of a     *)
(* source finds the source in the same Update.                              *)
LEMMA OrphansKept == NoOrphanSkills /\ [Next]_vars => NoOrphanSkills'
<1> SUFFICES ASSUME NoOrphanSkills, [Next]_vars PROVE NoOrphanSkills'
  OBVIOUS
<1>1. CASE DOMAIN source \subseteq DOMAIN source' /\ DOMAIN skill' \subseteq DOMAIN skill
  BY <1>1 DEF NoOrphanSkills
<1>2. ASSUME NEW kind, NEW x, NEW r, Retain(kind, x, r), kind \in {"env", "mcp", "source", "skill"}
      PROVE  DOMAIN source \subseteq DOMAIN source' /\ DOMAIN skill' \subseteq DOMAIN skill
  BY <1>2 DEF Retain
<1>3. ASSUME NEW s \in Sources, NEW r, NEW d, NEW t, AddSkillSource(s, r, d, t)
      PROVE  DOMAIN source \subseteq DOMAIN source' /\ DOMAIN skill' \subseteq DOMAIN skill
  BY <1>3 DEF AddSkillSource, Put
<1>4. ASSUME NEW s \in Sources, NEW r, NEW d, UpdateSkillSource(s, r, d)
      PROVE  DOMAIN source \subseteq DOMAIN source' /\ DOMAIN skill' \subseteq DOMAIN skill
  BY <1>4 DEF UpdateSkillSource
<1>5. ASSUME NEW s \in Sources, RemoveSkillSource(s)
      PROVE  NoOrphanSkills'
  <2>1. DOMAIN source' = DOMAIN source \ {s} /\ DOMAIN skill' = DOMAIN skill \ SkillsOf(s)
    BY <1>5 DEF RemoveSkillSource, Without
  <2> QED BY <2>1 DEF NoOrphanSkills, SkillsOf
<1>6. CASE RefreshSkillSource
  <2>1. CASE call.s \in DOMAIN source
    <3>1. /\ DOMAIN source' = DOMAIN source
          /\ DOMAIN skill' = (DOMAIN skill \ SkillsOf(call.s)) \cup ({call.s} \X call.found)
      BY <1>6, <2>1 DEF RefreshSkillSource
    <3>2. \A k \in {call.s} \X call.found : SourceOf(k) \in {None, call.s}
      BY DEF SourceOf
    <3> QED BY <2>1, <3>1, <3>2 DEF NoOrphanSkills
  <2>2. CASE call.s \notin DOMAIN source
    BY <1>1, <1>6, <2>2 DEF RefreshSkillSource
  <2> QED BY <2>1, <2>2
<1>7. ASSUME NEW k \in Skills, AddSkill(k, TRUE)
      PROVE  NoOrphanSkills'
  <2>1. source' = source /\ DOMAIN skill' = DOMAIN skill \cup {k} /\ SourceOf(k) = None
    BY <1>7 DEF AddSkill, Put, SourceOf
  <2> QED BY <2>1 DEF NoOrphanSkills
<1>8. ASSUME NEW k \in Skills, RemoveSkill(k) \/ \E d \in BOOLEAN : SetSkillDefault(k, d)
      PROVE  DOMAIN source \subseteq DOMAIN source' /\ DOMAIN skill' \subseteq DOMAIN skill
  BY <1>8 DEF RemoveSkill, SetSkillDefault, Without
<1>9. CASE TimePasses
  BY <1>1, <1>9 DEF TimePasses
<1>10. CASE Administer
  <2>1. UNCHANGED <<source, skill>> =>
          DOMAIN source \subseteq DOMAIN source' /\ DOMAIN skill' \subseteq DOMAIN skill
    OBVIOUS
  <2>2. \A x \in Resources : x[1] \in {"env", "mcp", "source", "skill"}
    BY DEF Resources
  <2>3. ASSUME NEW x \in Resources,
               PromoteResourceRetention(x) \/ \E r : MarkResourceTemporary(x, r)
        PROVE  NoOrphanSkills'
    BY <1>1, <1>2, <2>2, <2>3 DEF PromoteResourceRetention, MarkResourceTemporary
  <2>4. ASSUME NEW e \in Envs, NEW o \in Owners, PromoteTemporaryEnvironment(e, o)
        PROVE  NoOrphanSkills'
    BY <1>1, <1>2, <2>4 DEF PromoteTemporaryEnvironment
  <2>5. CASE \/ \E w \in Workspaces : AddWorkspace(w) \/ RemoveWorkspace(w)
             \/ \E e \in Envs, w \in Workspaces : SetWorkspace(e, w)
             \/ \E e \in Envs : RemoveEnvironment(e) \/ Lease(e)
             \/ \E e \in Envs \ DOMAIN env, w \in Workspaces, r \in {Durable} \cup Soon({"ttl"}) : GetWorkspace(e, w, r)
             \/ \E x \in Mcps \cup Skills :
                   \/ \E w \in DOMAIN ws : SetSelection("ws", w, x, x \notin ws[w])
                   \/ \E e \in DOMAIN env : SetSelection("env", e, x, x \notin env[e].picks)
             \/ CreateEnvironment \/ StoreSelection
             \/ \E m \in Mcps : \/ \E r \in FreshEntry : AddMCP(m, TRUE, r)
                                \/ \E d \in BOOLEAN : SetMCPDefault(m, d)
                                \/ RemoveMCP(m)
             \/ \E p \in {"error", "skip", "update"} : ApplyBatch(Mcps, TRUE, p)
             \/ \E s \in Sources, found \in SUBSET Paths : DiscoverSource(s, found)
             \/ \E o \in Owners : MigrateManagedWorktreeRetention(o)
    <3>1. UNCHANGED <<source, skill>>
      BY <2>5 DEF AddWorkspace, RemoveWorkspace, SetWorkspace, RemoveEnvironment, Lease,
           GetWorkspace, SetSelection, CreateEnvironment, StoreSelection, AddMCP, SetMCPDefault,
           RemoveMCP, ApplyBatch, DiscoverSource, MigrateManagedWorktreeRetention, records
    <3> QED BY <1>1, <2>1, <3>1
  <2> QED BY <1>1, <1>3, <1>4, <1>5, <1>6, <1>7, <1>8, <1>9, <1>10, <2>3, <2>4, <2>5 DEF Administer
<1>11. ASSUME NEW S, S \subseteq Present, removeRecords(S)
       PROVE  NoOrphanSkills'
  <2>1. /\ DOMAIN source' = DOMAIN source \ Ids(S, "source")
        /\ \A k \in DOMAIN skill' : k \in DOMAIN skill /\ SourceOf(k) \notin Ids(S, "source")
    BY <1>11 DEF removeRecords, Without
  <2> QED BY <2>1 DEF NoOrphanSkills
<1>12. CASE ResourceRetentionCleanup
  BY <1>11, <1>12 DEF ResourceRetentionCleanup
<1>13. ASSUME NEW t \in Sweepers, executeRetentionCleanup(t)
       PROVE  NoOrphanSkills'
  BY <1>11, <1>13 DEF executeRetentionCleanup
<1>14. CASE \/ \E e \in Envs, o \in Owners : BeginOne(e, o)
            \/ \E S \in SUBSET Envs, kind \in {"stale", "stale forced"} : StaleManagedWorktreeCleanup(S, kind)
            \/ \E t \in Sweepers, kind \in {"all", "forced", "expired"} : Begin(t, kind)
            \/ \E t \in Sweepers : \/ Report(t) \/ RecheckRuntime(t) \/ WorktreesDone(t)
                                   \/ \E e \in Envs : CheckWorktree(t, e)
                                   \/ AcquireWorktree(t) \/ ConfirmWorktree(t)
                                   \/ DestroyWorktree(t) \/ Drop(t)
            \/ \E e \in Envs : StartWork(e) \/ EndWork(e) \/ Soil(e) \/ Break(e)
            \/ \E e \in Envs, m \in Mcps : Connect(e, m)
            \/ Prune
            \/ UNCHANGED vars
  <2>1. UNCHANGED <<source, skill>>
    BY <1>14 DEF BeginOne, StaleManagedWorktreeCleanup, Begin, Report, RecheckRuntime,
         WorktreesDone, CheckWorktree, AcquireWorktree, ConfirmWorktree, DestroyWorktree, Drop,
         StartWork, EndWork, Soil, Break, Connect, Prune, vars, registryVars, records
  <2> QED BY <1>1, <2>1
<1> QED BY <1>10, <1>12, <1>13, <1>14 DEF Next, Clean

(* Every record, handler and cleanup is well formed: in particular nothing a *)
(* cleanup decided from a report names a record of another kind.             *)
THEOREM TypeCorrect == Spec => []TypeOK
  BY Initially, TypesKept, PTL DEF Spec

(* A Skill of a source is there only while its source is: a refresh that     *)
(* read the source before it was removed stores nothing (RefreshSkillSource).*)
THEOREM SkillsHaveSources == Spec => []NoOrphanSkills
  BY Initially, OrphansKept, PTL DEF Spec

(* Only executeRetentionCleanup leaves the phase "update". *)
LEMMA OnlyTheUpdateLeaves ==
  ASSUME TypeOK, [Next]_vars, NEW t \in Sweepers,
         sweep[t].pc = "update", sweep'[t].pc # "update"
  PROVE  executeRetentionCleanup(t)
<1>1. ASSUME NEW u \in Sweepers, Clean(u), u # t
      PROVE  FALSE
  <2>1. sweep'[t] = sweep[t]
    BY <1>1 DEF Clean, Report, RecheckRuntime, executeRetentionCleanup, CheckWorktree,
         AcquireWorktree, ConfirmWorktree, DestroyWorktree, WorktreesDone, Drop, End, Step, Skip,
         TypeOK
  <2> QED BY <2>1
<1>2. CASE Clean(t)
  <2>1. \/ Report(t) \/ RecheckRuntime(t) \/ executeRetentionCleanup(t)
        \/ \E e \in Envs : CheckWorktree(t, e)
        \/ AcquireWorktree(t) \/ ConfirmWorktree(t) \/ DestroyWorktree(t)
        \/ WorktreesDone(t) \/ Drop(t)
    BY <1>2 DEF Clean
  <2> QED BY <2>1 DEF Report, RecheckRuntime, CheckWorktree, AcquireWorktree, ConfirmWorktree,
              DestroyWorktree, WorktreesDone, Drop
<1>3. CASE \/ \E e \in Envs, o \in Owners : BeginOne(e, o)
           \/ \E S \in SUBSET Envs, kind \in {"stale", "stale forced"} : StaleManagedWorktreeCleanup(S, kind)
           \/ \E u \in Sweepers, kind \in {"all", "forced", "expired"} : Begin(u, kind)
  <2>1. ASSUME NEW u \in Sweepers, NEW s, sweep[u] = Resting, sweep' = [sweep EXCEPT ![u] = s]
        PROVE  FALSE
    BY <2>1 DEF Resting, TypeOK
  <2>2. Admin \in Sweepers
    BY DEF Sweepers
  <2> QED BY <1>3, <2>1, <2>2 DEF BeginOne, StaleManagedWorktreeCleanup, Begin
<1>4. CASE UNCHANGED sweep
  BY <1>4
<1>5. CASE \/ Administer \/ ResourceRetentionCleanup \/ Prune \/ UNCHANGED vars
           \/ \E e \in Envs : StartWork(e) \/ EndWork(e) \/ Soil(e) \/ Break(e)
           \/ \E e \in Envs, m \in Mcps : Connect(e, m)
  BY <1>4, <1>5 DEF Administer, ResourceRetentionCleanup, Prune, StartWork, EndWork, Soil, Break, Connect, vars
<1> QED BY <1>1, <1>2, <1>3, <1>5 DEF Next

(* A cleanup's Update removes only what is expired, selected by nobody,      *)
(* attached to nothing and under no lease at that moment, however old the    *)
(* report it decided from (ResourceRetentionCleanupFromRuntimeReport).       *)
THEOREM CleanupsRemoveUnused == Spec => CleanupRemovesOnlyUnused
<1>1. ASSUME TypeOK, [Next]_vars, NEW t \in Sweepers,
             sweep[t].pc = "update", sweep'[t].pc # "update", NEW x \in Removed
      PROVE  Unused(x) \/ SourceRemoved(x)
  <2> DEFINE S == {y \in Present : StillSafe(t, y)}
  <2>1. executeRetentionCleanup(t)
    BY <1>1, OnlyTheUpdateLeaves
  <2>2. removeRecords(S)
    BY <2>1 DEF executeRetentionCleanup
  <2>3. x \in Present
    BY <1>1 DEF Removed
  <2>4. CASE x \in S
    <3>1. Lapsed(Retained(x)) /\ ~StaticallyBlocked(x) /\ (x[1] = "env" => Removable(x[2]))
      BY <2>4 DEF StillSafe
    <3>2. x[1] \in {"env", "mcp", "source", "skill"}
      BY <2>3 DEF Present
    <3>3. CASE x[1] = "env"
      BY <3>1, <3>3 DEF Unused, Removable
    <3>4. CASE x[1] = "mcp"
      BY <3>1, <3>4 DEF Unused, StaticallyBlocked, Retained
    <3>5. CASE x[1] = "source"
      BY <3>1, <3>5 DEF Unused, StaticallyBlocked, Retained
    <3>6. CASE x[1] = "skill"
      BY <3>1, <3>6 DEF Unused, StaticallyBlocked, Retained
    <3> QED BY <3>2, <3>3, <3>4, <3>5, <3>6
  <2>5. CASE x \notin S
    <3>1. PICK kind, i : x = <<kind, i>> /\ kind \in {"env", "mcp", "source", "skill"}
      BY <2>3 DEF Present
    <3>2. i \notin Ids(S, kind)
      BY <2>5, <3>1 DEF Ids, Present
    <3>3. /\ DOMAIN env' = DOMAIN env \ Ids(S, "env") /\ DOMAIN mcp' = DOMAIN mcp \ Ids(S, "mcp")
          /\ DOMAIN source' = DOMAIN source \ Ids(S, "source")
          /\ DOMAIN skill' = DOMAIN skill \ (Ids(S, "skill")
                \cup {k \in DOMAIN skill : SourceOf(k) \in Ids(S, "source")})
      BY <2>2 DEF removeRecords, Without
    <3>4. CASE kind # "skill"
      BY <1>1, <2>3, <3>1, <3>2, <3>3, <3>4 DEF Removed, Present
    <3>5. CASE kind = "skill"
      <4>1. i \in DOMAIN skill /\ i \notin DOMAIN skill'
        BY <1>1, <2>3, <3>1, <3>5 DEF Removed, Present
      <4>0. DOMAIN skill' = DOMAIN skill \ (Ids(S, "skill")
                  \cup {k \in DOMAIN skill : SourceOf(k) \in Ids(S, "source")})
        BY <3>3
      <4>2. SourceOf(i) \in Ids(S, "source")
        <5> HIDE DEF S
        <5> QED BY <3>2, <3>5, <4>0, <4>1
      <4>3. SourceOf(i) \in DOMAIN source /\ SourceOf(i) \notin DOMAIN source'
        BY <3>3, <4>2 DEF Ids, Present
      <4>4. <<"source", SourceOf(i)>> \in Removed
        BY <4>3 DEF Removed, Present
      <4>5. SourceOf(i) # None
        BY <1>1, <4>3, RegistryAssumption DEF TypeOK, RecordsOK
      <4> QED BY <3>1, <3>5, <4>4, <4>5 DEF SourceRemoved
    <3> QED BY <3>1, <3>4, <3>5
  <2> QED BY <2>4, <2>5
<1>2. TypeOK /\ [Next]_vars => [RemovesOnlyUnused]_vars
  BY <1>1 DEF RemovesOnlyUnused
<1> QED BY <1>2, TypeCorrect, PTL DEF Spec, CleanupRemovesOnlyUnused
==============================================================================
