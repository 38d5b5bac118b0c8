-------------------------- MODULE McpSessionsProofs --------------------------
(***************************************************************************)
(* Proofs about McpSessions, for every number of calls, background         *)
(* goroutines, sessions, definitions and credentials.                      *)
(***************************************************************************)
EXTENDS McpSessions, TLAPS

\* Drop, DropMatching and InvalidateChangedDesiredConfig: nothing changes, or
\* the key's state is forgotten; a first fingerprint is only noted.
Notes == /\ fingerprint' \in Configs \cup {NoVersion}
         /\ UNCHANGED <<closed, session, observation, inFlight, poolVars, gen, work>>
Forgets == ~closed /\ \E v \in Configs \cup {NoVersion} : Forget(v)

LEMMA DropCases ==
  ASSUME TypeOK
  PROVE  /\ Drop => (closed /\ Notes) \/ Forgets
         /\ DropMatching => (closed /\ Notes) \/ (~Known /\ Notes) \/ Forgets
         /\ \A v \in Configs \cup {NoVersion} :
              InvalidateChangedDesiredConfig(v) => Notes \/ Forgets
<1>1. Drop => (closed /\ Notes) \/ Forgets
  BY DEF Drop, Notes, Forgets, TypeOK, keyVars, poolVars
<1>2. DropMatching => (closed /\ Notes) \/ (~Known /\ Notes) \/ Forgets
  BY <1>1 DEF DropMatching, Notes, TypeOK, keyVars, poolVars
<1>3. ASSUME NEW v \in Configs \cup {NoVersion}, InvalidateChangedDesiredConfig(v)
      PROVE  Notes \/ Forgets
  BY <1>3 DEF InvalidateChangedDesiredConfig, Notes, Forgets, TypeOK, keyVars, poolVars
<1>4. QED
  BY <1>1, <1>2, <1>3

-----------------------------------------------------------------------------
(* Type correctness. *)

KeyTypes ==
  /\ closed \in BOOLEAN
  /\ session \in Sessions \cup {NoSession} /\ open \subseteq Sessions
  /\ observation \in {"none", "configured", "healthy", "error"}
  /\ inFlight \in BOOLEAN /\ fingerprint \in Configs \cup {NoVersion}
  /\ made \in [Sessions -> Versions]
  /\ gen \in [Threads -> Generations] /\ work \in [Threads -> Generations]

LEMMA CloseTypes ==
  ASSUME TypeOK, NEW s, CloseSession(s)
  PROVE  open' \subseteq Sessions /\ made' \in [Sessions -> Versions]
BY DEF TypeOK, CloseSession, NoRead, Versions

LEMMA DropTypes ==
  ASSUME TypeOK, Notes \/ Forgets
  PROVE  KeyTypes'
<1>1. CASE Notes
  BY <1>1 DEF Notes, KeyTypes, TypeOK, poolVars
<1>2. CASE Forgets
  <2>1. PICK v \in Configs \cup {NoVersion} : Forget(v)
    BY <1>2 DEF Forgets
  <2>2. open' \subseteq Sessions /\ made' \in [Sessions -> Versions]
    BY <2>1, CloseTypes DEF Forget
  <2>3. gen' \in [Threads -> Generations] /\ work' \in [Threads -> Generations]
    BY <2>1 DEF Forget, Staled, Generations, TypeOK
  <2>4. QED
    BY <2>1, <2>2, <2>3 DEF Forget, KeyTypes, TypeOK
<1>3. QED
  BY <1>1, <1>2

LEMMA ReturnTypes ==
  ASSUME TypeOK, NEW t \in Threads, Return(t)
  PROVE  /\ pc' = [pc EXCEPT ![t] = "idle"] \/ pc' = [pc EXCEPT ![t] = "ending"]
         /\ mode' = [mode EXCEPT ![t] = "none"] \/ mode' = mode
         /\ gen' = [gen EXCEPT ![t] = "none"]
         /\ held' = [held EXCEPT ![t] = NoSession]
         /\ read' \in [Threads \cup {Monitor} -> Versions]
<1>1. read' \in [Threads \cup {Monitor} -> Versions]
  BY DEF TypeOK, Return, NoRead, Versions
<1>2. QED
  BY <1>1 DEF TypeOK, Return

\* A goroutine's steps.
LEMMA AdvanceTypes ==
  ASSUME TypeOK, NEW t \in Threads, Advance(t)
  PROVE  TypeOK'
<1>. USE DEF TypeOK
<1>1. CASE RefreshDrops(t) \/ DropInactive(t) \/ CheckFingerprint(t)
  <2>1. read[t][1] \in Configs \cup {NoVersion}
    BY DEF Versions
  <2>2. Notes \/ Forgets
    BY <1>1, <2>1, DropCases DEF RefreshDrops, DropInactive, CheckFingerprint
  <2>3. KeyTypes'
    BY <2>2, DropTypes
  <2>4. read' \in [Threads \cup {Monitor} -> Versions]
    BY <1>1 DEF RefreshDrops, DropInactive, CheckFingerprint, NoRead, Versions
  <2>5. /\ \E l \in {"beginning", "reporting", "registering"} : pc' = [pc EXCEPT ![t] = l]
        /\ UNCHANGED <<desiredVars, mode, held, monitorVars>>
    BY <1>1 DEF RefreshDrops, DropInactive, CheckFingerprint, Goto
  <2>6. QED
    BY <2>3, <2>4, <2>5 DEF KeyTypes, desiredVars, monitorVars
<1>2. CASE BeginWork(t)
  <2>1. CASE closed \/ inFlight
    BY <1>2, <2>1 DEF BeginWork, desiredVars, poolVars, monitorVars
  <2>2. CASE ~(closed \/ inFlight)
    BY <1>2, <2>2 DEF BeginWork, Registered, Generations, desiredVars, poolVars, monitorVars
  <2>3. QED
    BY <2>1, <2>2
<1>3. CASE ReadDefinition(t)
  BY <1>3 DEF ReadDefinition, Goto, Versions, desiredVars, keyVars, poolVars, monitorVars
<1>4. CASE RegisterKey(t)
  <2>1. CASE Return(t)
    BY <1>4, <2>1, ReturnTypes
       DEF RegisterKey, Registered, Generations, desiredVars, poolVars, monitorVars
  <2>2. CASE ~Return(t)
    BY <1>4, <2>2
       DEF RegisterKey, Observe, Registered, Generations, desiredVars, poolVars, monitorVars
  <2>3. QED
    BY <2>1, <2>2
<1>5. CASE ResolveMCPActivation(t)
  <2>1. CASE Return(t)
    BY <1>5, <2>1, ReturnTypes
       DEF ResolveMCPActivation, Generations, desiredVars, keyVars, poolVars, monitorVars
  <2>2. CASE ~Return(t)
    <3>1. NoRead \in Versions /\ <<config, secret>> \in Versions
      BY DEF NoRead, Versions
    <3>2. QED
      BY <1>5, <2>2, <3>1
         DEF ResolveMCPActivation, desiredVars, keyVars, poolVars, monitorVars
  <2>3. QED
    BY <2>1, <2>2
<1>6. CASE ReportInactive(t)
  BY <1>6, ReturnTypes
     DEF ReportInactive, Observe, Generations, desiredVars, poolVars, monitorVars
<1>7. CASE LookUp(t)
  <2>1. CASE Return(t)
    BY <1>7, <2>1, ReturnTypes
       DEF LookUp, Generations, desiredVars, keyVars, poolVars, monitorVars
  <2>2. CASE ~Return(t)
    <3>1. NoRead \in Versions
      BY DEF NoRead, Versions
    <3>2. QED
      BY <1>7, <2>2, <3>1 DEF LookUp, desiredVars, keyVars, poolVars, monitorVars
  <2>3. QED
    BY <2>1, <2>2
<1>8. CASE Ping(t) \/ Use(t)
  BY <1>8 DEF Ping, Use, Answered, Goto, desiredVars, keyVars, poolVars, monitorVars
<1>9. CASE FailSession(t)
  <2>1. CASE Return(t) /\ UNCHANGED <<session, poolVars>>
    BY <1>9, <2>1, ReturnTypes
       DEF FailSession, Generations, desiredVars, poolVars, monitorVars
  <2>2. CASE session' = NoSession /\ CloseSession(session)
    <3>1. open' \subseteq Sessions /\ made' \in [Sessions -> Versions]
      BY <2>2, CloseTypes
    <3>2. CASE Return(t)
      BY <1>9, <2>2, <3>1, <3>2, ReturnTypes
         DEF FailSession, Generations, desiredVars, monitorVars
    <3>3. CASE ~Return(t)
      BY <1>9, <2>2, <3>1, <3>3 DEF FailSession, Generations, desiredVars, monitorVars
    <3>4. QED
      BY <3>2, <3>3
  <2>3. QED
    BY <1>9, <2>1, <2>2 DEF FailSession
<1>10. CASE Connect(t)
  BY <1>10 DEF Connect, Goto, NoRead, Versions, desiredVars, keyVars, monitorVars
<1>11. CASE ConnectFails(t)
  BY <1>11, CloseTypes DEF ConnectFails, NoRead, Versions, desiredVars, keyVars, monitorVars
<1>12. CASE RecordFailure(t)
  BY <1>12, ReturnTypes DEF RecordFailure, Generations, desiredVars, poolVars, monitorVars
<1>13. CASE InstallSession(t)
  <2>1. CASE CloseSession(held[t]) /\ Return(t) /\ UNCHANGED session
    BY <1>13, <2>1, ReturnTypes, CloseTypes
       DEF InstallSession, Generations, desiredVars, monitorVars
  <2>2. CASE /\ session' = held[t] /\ pc' = [pc EXCEPT ![t] = "healthy"]
             /\ UNCHANGED <<poolVars, mode, gen, held, read>>
    BY <1>13, <2>2 DEF InstallSession, desiredVars, poolVars, monitorVars
  <2>3. CASE /\ CloseSession(held[t])
             /\ held' = [held EXCEPT ![t] = session] /\ pc' = [pc EXCEPT ![t] = "healthy"]
             /\ UNCHANGED <<session, mode, gen, read>>
    BY <1>13, <2>3, CloseTypes DEF InstallSession, desiredVars, monitorVars
  <2>4. QED
    BY <1>13, <2>1, <2>2, <2>3 DEF InstallSession
<1>14. CASE RecordSuccess(t)
  <2>1. CASE Return(t)
    BY <1>14, <2>1, ReturnTypes
       DEF RecordSuccess, Observe, Generations, desiredVars, poolVars, monitorVars
  <2>2. CASE ~Return(t)
    BY <1>14, <2>2 DEF RecordSuccess, Observe, desiredVars, poolVars, monitorVars
  <2>3. QED
    BY <2>1, <2>2
<1>15. CASE EndWork(t)
  BY <1>15 DEF EndWork, Goto, Generations, desiredVars, poolVars, monitorVars
<1>16. QED
  BY <1>1, <1>2, <1>3, <1>4, <1>5, <1>6, <1>7, <1>8, <1>9, <1>10, <1>11, <1>12, <1>13, <1>14,
     <1>15 DEF Advance

\* What the administrator, the remote end and the owner's shutdown do.
Persisting ==
  \/ \E on, outOfBand \in BOOLEAN : SetEnvironmentMCP(on, outOfBand)
  \/ \E outOfBand \in BOOLEAN : UpdateMCPConfig(outOfBand) \/ RotateSecret(outOfBand)
Outside ==
  \/ Persisting \/ RemoteChanges \/ Close
  \/ \E d \in drops : HandlerDrops(d)
  \/ \E t \in Calls, m \in {"status", "use", "refresh"} : StartCall(t, m)
Monitoring == MonitorStep \/ \E w \in Workers : MonitorSpawns(w)

LEMMA PersistingPersists ==
  ASSUME Persisting
  PROVE  \E some \in SUBSET {"key", "matching"} : Persists(some)
<1>1. \A on, outOfBand \in BOOLEAN :
        SetEnvironmentMCP(on, outOfBand) => \E some \in SUBSET {"key", "matching"} : Persists(some)
  BY DEF SetEnvironmentMCP
<1>2. \A outOfBand \in BOOLEAN :
        UpdateMCPConfig(outOfBand) \/ RotateSecret(outOfBand)
          => \E some \in SUBSET {"key", "matching"} : Persists(some)
  BY DEF UpdateMCPConfig, RotateSecret
<1>3. QED
  BY <1>1, <1>2 DEF Persisting

LEMMA OutsideTypes ==
  ASSUME TypeOK, Outside
  PROVE  TypeOK'
<1>. USE DEF TypeOK
<1>0. Changed => changes' \in 0 .. MaxChanges
  BY SessionsAssumption DEF Changed
<1>1. CASE Persisting
  <2>1. PICK some \in SUBSET {"key", "matching"} : Persists(some)
    BY <1>1, PersistingPersists
  <2>2. enabled' \in BOOLEAN /\ config' \in Configs /\ secret' \in Secrets
    BY <1>1 DEF Persisting, SetEnvironmentMCP, UpdateMCPConfig, RotateSecret
  <2>3. since' \subseteq [enabled : BOOLEAN, config : Configs, secret : Secrets]
    BY <2>1, <2>2 DEF Persists, InForce
  <2>4. QED
    BY <1>0, <2>1, <2>2, <2>3 DEF Persists, keyVars, poolVars, threadVars, monitorVars
<1>4. CASE RemoteChanges
  BY <1>0, <1>4 DEF RemoteChanges, keyVars, poolVars, threadVars, monitorVars
<1>5. CASE Close
  BY <1>5, CloseTypes DEF Close, desiredVars, threadVars, monitorVars
<1>6. ASSUME NEW d \in drops, HandlerDrops(d) PROVE TypeOK'
  <2>1. Notes \/ Forgets
    BY <1>6, DropCases DEF HandlerDrops
  <2>2. since' \subseteq [enabled : BOOLEAN, config : Configs, secret : Secrets]
    BY <1>6 DEF HandlerDrops, InForce
  <2>3. QED
    BY <1>6, <2>1, <2>2, DropTypes DEF HandlerDrops, KeyTypes, monitorVars
<1>7. ASSUME NEW t \in Calls, NEW m \in {"status", "use", "refresh"}, StartCall(t, m)
      PROVE  TypeOK'
  <2>1. t \in Threads /\ \E l \in {"refreshing", "reading"} : pc' = [pc EXCEPT ![t] = l]
    BY <1>7 DEF StartCall, Goto, Threads
  <2>2. QED
    BY <1>7, <2>1 DEF StartCall, desiredVars, keyVars, poolVars, monitorVars
<1>8. QED
  BY <1>1, <1>4, <1>5, <1>6, <1>7 DEF Outside

LEMMA MonitoringTypes ==
  ASSUME TypeOK, Monitoring
  PROVE  TypeOK'
<1>. USE DEF TypeOK
<1>1. CASE MonitorReads
  BY <1>1 DEF MonitorReads, NoRead, Versions, desiredVars, keyVars, poolVars
<1>2. CASE MonitorChecks
  <2>1. read[Monitor][1] \in Configs \cup {NoVersion}
    BY DEF Versions
  <2>2. KeyTypes'
    BY <1>2, <2>1, DropCases, DropTypes DEF MonitorChecks
  <2>3. QED
    BY <1>2, <2>2 DEF MonitorChecks, KeyTypes, NoRead, Versions, desiredVars
<1>3. CASE MonitorSkips
  BY <1>3 DEF MonitorSkips, desiredVars, keyVars, poolVars, threadVars
<1>4. CASE PruneToDesired
  <2>1. Notes \/ Forgets
    BY <1>4, DropCases DEF PruneToDesired, Notes, keyVars, poolVars
  <2>2. QED
    BY <1>4, <2>1, DropTypes DEF PruneToDesired, KeyTypes, desiredVars
<1>5. ASSUME NEW w \in Workers, MonitorSpawns(w) PROVE TypeOK'
  BY <1>5 DEF MonitorSpawns, Goto, Threads, desiredVars, keyVars, poolVars
<1>6. QED
  BY <1>1, <1>2, <1>3, <1>4, <1>5 DEF Monitoring, MonitorStep

LEMMA NextCases ==
  ASSUME [Next]_vars
  PROVE  Outside \/ Monitoring \/ (\E t \in Threads : Advance(t)) \/ UNCHANGED vars
BY DEF Next, Outside, Persisting, Monitoring

\* Every variable keeps its type.
THEOREM TypeCorrect == Spec => []TypeOK
<1>1. Init => TypeOK
  <2>1. NoRead \in Versions
    BY DEF NoRead, Versions
  <2>2. SUFFICES ASSUME Init PROVE TypeOK
    OBVIOUS
  <2>3. /\ read \in [Threads \cup {Monitor} -> Versions] /\ made \in [Sessions -> Versions]
        /\ changes \in 0 .. MaxChanges
        /\ since \subseteq [enabled : BOOLEAN, config : Configs, secret : Secrets]
    BY <2>1, <2>2, SessionsAssumption DEF Init, InForce
  <2>4. QED
    BY <2>2, <2>3 DEF Init, TypeOK, Generations
<1>2. TypeOK /\ [Next]_vars => TypeOK'
  <2>. SUFFICES ASSUME TypeOK, [Next]_vars PROVE TypeOK'
    OBVIOUS
  <2>1. CASE UNCHANGED vars
    BY <2>1 DEF vars, TypeOK, desiredVars, keyVars, poolVars, threadVars, monitorVars
  <2>2. QED
    BY <2>1, NextCases, AdvanceTypes, OutsideTypes, MonitoringTypes
<1>3. QED
  BY <1>1, <1>2, PTL DEF Spec

-----------------------------------------------------------------------------
(* One work per generation.  The steps that matter forget the key, which    *)
(* makes every work stale at once, and begin or end a work.                 *)

LEMMA WorkKept ==
  ASSUME OneWorkPerGeneration, TypeOK, Notes \/ Forgets
  PROVE  OneWorkPerGeneration'
<1>1. CASE Notes
  BY <1>1 DEF Notes, OneWorkPerGeneration
<1>2. CASE Forgets
  BY <1>2 DEF Forgets, Forget, Staled, OneWorkPerGeneration, TypeOK
<1>3. QED
  BY <1>1, <1>2

LEMMA WorkStep ==
  ASSUME TypeOK, OneWorkPerGeneration, [Next]_vars
  PROVE  OneWorkPerGeneration'
<1>1. CASE UNCHANGED <<closed, inFlight, work>>
  BY <1>1 DEF OneWorkPerGeneration
<1>2. CASE Notes \/ Forgets
  BY <1>2, WorkKept DEF Notes
<1>3. ASSUME NEW t \in Threads, Advance(t) PROVE OneWorkPerGeneration'
  <2>1. CASE RefreshDrops(t) \/ DropInactive(t) \/ CheckFingerprint(t)
    <3>1. read[t][1] \in Configs \cup {NoVersion}
      BY DEF Versions, TypeOK
    <3>2. QED
      BY <1>2, <2>1, <3>1, DropCases DEF RefreshDrops, DropInactive, CheckFingerprint
  <2>2. CASE BeginWork(t)
    BY <2>2 DEF BeginWork, OneWorkPerGeneration, TypeOK
  <2>3. CASE EndWork(t)
    BY <2>3 DEF EndWork, OneWorkPerGeneration, TypeOK
  <2>4. CASE \/ ReadDefinition(t) \/ RegisterKey(t) \/ ResolveMCPActivation(t)
             \/ ReportInactive(t) \/ LookUp(t) \/ Ping(t) \/ Use(t) \/ FailSession(t)
             \/ Connect(t) \/ ConnectFails(t) \/ RecordFailure(t) \/ InstallSession(t)
             \/ RecordSuccess(t)
    BY <1>1, <2>4
       DEF ReadDefinition, RegisterKey, ResolveMCPActivation, ReportInactive, LookUp, Ping,
           Use, Answered, FailSession, Connect, ConnectFails, RecordFailure, InstallSession,
           RecordSuccess, keyVars
  <2>5. QED
    BY <1>3, <2>1, <2>2, <2>3, <2>4 DEF Advance
<1>4. CASE Outside
  <2>1. ASSUME NEW d \in drops, HandlerDrops(d) PROVE OneWorkPerGeneration'
    BY <1>2, <2>1, DropCases DEF HandlerDrops
  <2>2. CASE Close
    BY <2>2 DEF Close, OneWorkPerGeneration, threadVars
  <2>3. QED
    BY <1>1, <1>4, <2>1, <2>2, PersistingPersists
       DEF Outside, Persists, RemoteChanges, StartCall, keyVars, threadVars
<1>5. CASE Monitoring
  <2>1. CASE MonitorChecks
    <3>1. read[Monitor][1] \in Configs \cup {NoVersion}
      BY DEF Versions, TypeOK
    <3>2. QED
      BY <1>2, <2>1, <3>1, DropCases DEF MonitorChecks
  <2>2. CASE PruneToDesired
    BY <1>1, <1>2, <2>2, DropCases DEF PruneToDesired, keyVars
  <2>3. QED
    BY <1>1, <1>5, <2>1, <2>2
       DEF Monitoring, MonitorStep, MonitorReads, MonitorSkips, MonitorSpawns, keyVars,
           threadVars
<1>6. QED
  BY <1>1, <1>3, <1>4, <1>5, NextCases DEF vars, keyVars, threadVars

\* At most one probe or reconnect works in a generation, and the in-flight
\* flag is up exactly while it does.
THEOREM OneWork == Spec => []OneWorkPerGeneration
<1>1. Init => OneWorkPerGeneration
  BY DEF Init, OneWorkPerGeneration
<1>2. TypeOK /\ OneWorkPerGeneration /\ [Next]_vars => OneWorkPerGeneration'
  BY WorkStep
<1>3. QED
  BY <1>1, <1>2, TypeCorrect, PTL DEF Spec

-----------------------------------------------------------------------------
(* Who owns which session. *)

\* Where a goroutine has a session in hand.
Holding == {"pinging", "using", "healthy", "used", "probing"}

\* The key's session is open; a goroutine that probes the session it opened is
\* the only one to have it.
SessionsOwned ==
  /\ session \in open \cup {NoSession}
  /\ closed => session = NoSession
  /\ \A t \in Threads : pc[t] \notin Holding => held[t] = NoSession
  /\ \A t \in Threads : pc[t] = "probing" => held[t] \in open \ {session}
  /\ \A t, u \in Threads :
        pc[t] = "probing" /\ pc[u] = "probing" /\ t # u => held[t] # held[u]

OwnInv == TypeOK /\ SessionsOwned /\ NoSessionLeak

\* The key keeps its session, or the session is closed and forgotten.
KeepsOrCloses ==
  \/ closed' = closed /\ session' = session /\ open' = open
  \/ session' = NoSession /\ open' = open \ {session}

LEMMA DropKeepsOrCloses ==
  ASSUME Notes \/ Forgets
  PROVE  KeepsOrCloses
BY DEF Notes, Forgets, Forget, CloseSession, KeepsOrCloses, poolVars

\* A goroutine that goes from one place to another and opens nothing.
LEMMA OwnedMove ==
  ASSUME OwnInv, KeepsOrCloses, NEW t \in Threads, NEW l, NEW s,
         pc' = [pc EXCEPT ![t] = l], held' = [held EXCEPT ![t] = s],
         pc[t] # "probing", l # "probing", l \in Holding \/ s = NoSession
  PROVE  SessionsOwned' /\ NoSessionLeak'
<1>. USE DEF OwnInv, TypeOK
<1>1. \A u \in Threads : pc'[u] = "probing" => pc[u] = "probing" /\ u # t /\ held'[u] = held[u]
  OBVIOUS
<1>2. \A u \in Threads : pc[u] = "probing" => pc'[u] = "probing" /\ held'[u] = held[u]
  OBVIOUS
<1>3. session' \in open' \cup {NoSession} /\ (closed' => session' = NoSession)
  BY DEF KeepsOrCloses, SessionsOwned
<1>4. \A u \in Threads : pc'[u] \notin Holding => held'[u] = NoSession
  BY DEF SessionsOwned
<1>5. \A u \in Threads : pc'[u] = "probing" => held'[u] \in open' \ {session'}
  BY <1>1, SessionsAssumption DEF KeepsOrCloses, SessionsOwned
<1>6. NoSessionLeak'
  <2>1. \A s2 \in open' : s2 \in open /\ (s2 = session => s2 = session')
    BY DEF KeepsOrCloses
  <2>2. QED
    BY <1>2, <2>1 DEF NoSessionLeak
<1>7. QED
  BY <1>1, <1>3, <1>4, <1>5, <1>6 DEF SessionsOwned

LEMMA OwnedStill ==
  ASSUME OwnInv, KeepsOrCloses, UNCHANGED <<pc, held>>
  PROVE  SessionsOwned' /\ NoSessionLeak'
<1>1. session' \in open' \cup {NoSession} /\ (closed' => session' = NoSession)
  BY DEF OwnInv, KeepsOrCloses, SessionsOwned
<1>2. \A s \in open' : s \in open /\ (s = session => s = session')
  BY DEF KeepsOrCloses
<1>3. \A s \in open \ {session} : s \in open' \ {session'}
  BY SessionsAssumption DEF OwnInv, TypeOK, KeepsOrCloses
<1>4. SessionsOwned'
  BY <1>1, <1>3 DEF OwnInv, SessionsOwned
<1>5. NoSessionLeak'
  BY <1>2 DEF OwnInv, NoSessionLeak
<1>6. QED
  BY <1>4, <1>5

\* What a goroutine that returns does to its own state.
LEMMA ReturnMoves ==
  ASSUME TypeOK, NEW t \in Threads, Return(t)
  PROVE  \E l \in {"idle", "ending"} :
           pc' = [pc EXCEPT ![t] = l] /\ held' = [held EXCEPT ![t] = NoSession]
BY DEF TypeOK, Return

LEMMA OwnedAdvance ==
  ASSUME OwnInv, NEW t \in Threads, Advance(t)
  PROVE  SessionsOwned' /\ NoSessionLeak'
<1>. DEFINE Stays == held' = [held EXCEPT ![t] = held[t]]
<1>0. UNCHANGED held => Stays
  BY DEF OwnInv, TypeOK
<1>a. ASSUME KeepsOrCloses, Return(t), pc[t] # "probing" PROVE SessionsOwned' /\ NoSessionLeak'
  BY <1>a, OwnedMove, ReturnMoves DEF OwnInv
<1>b. ASSUME NEW l, pc' = [pc EXCEPT ![t] = l], UNCHANGED held, KeepsOrCloses,
             pc[t] # "probing", l # "probing", pc[t] \in Holding => l \in Holding
      PROVE  SessionsOwned' /\ NoSessionLeak'
  <2>1. l \in Holding \/ held[t] = NoSession
    BY <1>b DEF OwnInv, SessionsOwned
  <2>2. QED
    BY <1>0, <1>b, <2>1, OwnedMove
<1>1. CASE RefreshDrops(t) \/ DropInactive(t) \/ CheckFingerprint(t)
  <2>1. read[t][1] \in Configs \cup {NoVersion}
    BY DEF OwnInv, TypeOK, Versions
  <2>2. KeepsOrCloses
    BY <1>1, <2>1, DropCases, DropKeepsOrCloses
       DEF RefreshDrops, DropInactive, CheckFingerprint, OwnInv
  <2>3. QED
    BY <1>1, <2>2, <1>b DEF RefreshDrops, DropInactive, CheckFingerprint, Goto, Holding
<1>2. CASE BeginWork(t) \/ ReadDefinition(t) \/ EndWork(t) \/ Ping(t) \/ Use(t)
  <2>1. KeepsOrCloses
    BY <1>2 DEF BeginWork, ReadDefinition, EndWork, Ping, Use, Answered, KeepsOrCloses,
       keyVars, poolVars
  <2>2. QED
    BY <1>2, <2>1, <1>b
       DEF BeginWork, ReadDefinition, EndWork, Ping, Use, Answered, Goto, Holding
<1>3. CASE RegisterKey(t) \/ ResolveMCPActivation(t) \/ ReportInactive(t) \/ RecordFailure(t)
  <2>1. KeepsOrCloses /\ pc[t] # "probing" /\ pc[t] \notin Holding
    BY <1>3 DEF RegisterKey, ResolveMCPActivation, ReportInactive, RecordFailure,
       KeepsOrCloses, Holding, keyVars, poolVars
  <2>2. CASE Return(t)
    BY <2>1, <2>2, <1>a
  <2>3. CASE ~Return(t)
    BY <1>3, <2>1, <2>3, <1>b
       DEF RegisterKey, ResolveMCPActivation, ReportInactive, RecordFailure
  <2>4. QED
    BY <2>2, <2>3
<1>4. CASE LookUp(t)
  <2>1. KeepsOrCloses /\ pc[t] # "probing" /\ pc[t] \notin Holding
    BY <1>4 DEF LookUp, KeepsOrCloses, Holding, keyVars, poolVars
  <2>2. CASE pc' = [pc EXCEPT ![t] = "pinging"] /\ held' = [held EXCEPT ![t] = session]
    BY <2>1, <2>2, OwnedMove DEF Holding
  <2>3. QED
    BY <1>4, <1>a, <1>b, <2>1, <2>2 DEF LookUp
<1>5. CASE FailSession(t)
  <2>1. KeepsOrCloses /\ pc[t] # "probing"
    BY <1>5 DEF FailSession, KeepsOrCloses, CloseSession, poolVars
  <2>2. CASE pc' = [pc EXCEPT ![t] = "failing"] /\ held' = [held EXCEPT ![t] = NoSession]
    BY <2>1, <2>2, OwnedMove DEF Holding
  <2>3. QED
    BY <1>5, <1>a, <2>1, <2>2 DEF FailSession
<1>6. CASE RecordSuccess(t)
  <2>1. KeepsOrCloses /\ pc[t] # "probing"
    BY <1>6 DEF RecordSuccess, KeepsOrCloses, poolVars
  <2>2. QED
    BY <1>6, <2>1, <1>a, <1>b DEF RecordSuccess, Holding
<1>7. CASE Connect(t)
  <2>1. PICK s \in Sessions \ (open \cup {held[u] : u \in Threads}) :
          open' = open \cup {s} /\ held' = [held EXCEPT ![t] = s]
    BY <1>7 DEF Connect
  <2>2. pc[t] = "connecting" /\ pc' = [pc EXCEPT ![t] = "probing"] /\ UNCHANGED <<session, closed>>
    BY <1>7 DEF Connect, Goto, keyVars
  <2>3. s # session /\ \A u \in Threads : held[u] # s
    BY <2>1, SessionsAssumption DEF OwnInv, SessionsOwned
  <2>4. SessionsOwned'
    BY <2>1, <2>2, <2>3 DEF SessionsOwned, OwnInv, TypeOK, Holding
  <2>5. NoSessionLeak'
    BY <2>1, <2>2 DEF NoSessionLeak, OwnInv, TypeOK
  <2>6. QED
    BY <2>4, <2>5
<1>8. CASE ConnectFails(t)
  <2>1. /\ pc' = [pc EXCEPT ![t] = "failing"] /\ held' = [held EXCEPT ![t] = NoSession]
        /\ open' = open \ {held[t]} /\ UNCHANGED <<session, closed>>
        /\ pc[t] \in {"connecting", "probing"}
    BY <1>8 DEF ConnectFails, CloseSession, keyVars
  <2>2. held[t] # session \/ session = NoSession
    BY <2>1 DEF OwnInv, SessionsOwned, Holding
  <2>3. SessionsOwned'
    BY <2>1, <2>2, SessionsAssumption DEF SessionsOwned, OwnInv, TypeOK, Holding
  <2>4. NoSessionLeak'
    BY <2>1 DEF NoSessionLeak, OwnInv, TypeOK
  <2>5. QED
    BY <2>3, <2>4
<1>9. CASE InstallSession(t)
  <2>1. pc[t] = "probing" /\ UNCHANGED closed /\ held[t] \in open \ {session}
    BY <1>9 DEF InstallSession, OwnInv, SessionsOwned
  <2>2. CASE CloseSession(held[t]) /\ Return(t) /\ UNCHANGED session
    <3>1. PICK l \in {"idle", "ending"} :
            pc' = [pc EXCEPT ![t] = l] /\ held' = [held EXCEPT ![t] = NoSession]
      BY <2>2, ReturnMoves DEF OwnInv
    <3>2. QED
      BY <2>1, <2>2, <3>1 DEF CloseSession, SessionsOwned, NoSessionLeak, OwnInv, TypeOK, Holding
  <2>3. CASE /\ ~closed /\ session = NoSession /\ session' = held[t]
             /\ pc' = [pc EXCEPT ![t] = "healthy"] /\ UNCHANGED <<open, held>>
    <3>1. \A u \in Threads : pc'[u] = "probing" => held'[u] \in open' \ {session'}
      BY <2>1, <2>3 DEF SessionsOwned, OwnInv, TypeOK
    <3>2. SessionsOwned'
      BY <2>1, <2>3, <3>1 DEF SessionsOwned, OwnInv, TypeOK, Holding
    <3>3. NoSessionLeak'
      BY <2>1, <2>3, SessionsAssumption DEF NoSessionLeak, OwnInv, TypeOK
    <3>4. QED
      BY <3>2, <3>3
  <2>4. CASE /\ CloseSession(held[t]) /\ held' = [held EXCEPT ![t] = session]
             /\ pc' = [pc EXCEPT ![t] = "healthy"] /\ UNCHANGED session
    BY <2>1, <2>4 DEF CloseSession, SessionsOwned, NoSessionLeak, OwnInv, TypeOK, Holding
  <2>5. QED
    BY <1>9, <2>2, <2>3, <2>4 DEF InstallSession, poolVars
<1>10. QED
  BY <1>1, <1>2, <1>3, <1>4, <1>5, <1>6, <1>7, <1>8, <1>9 DEF Advance

LEMMA OwnedNext ==
  ASSUME OwnInv, [Next]_vars
  PROVE  SessionsOwned' /\ NoSessionLeak'
<1>1. CASE UNCHANGED <<closed, session, open, pc, held>>
  BY <1>1, OwnedStill DEF KeepsOrCloses
<1>2. CASE (Notes \/ Forgets) /\ UNCHANGED <<pc, held>>
  BY <1>2, OwnedStill, DropKeepsOrCloses
<1>3. CASE Outside
  <2>1. ASSUME NEW d \in drops, HandlerDrops(d) PROVE SessionsOwned' /\ NoSessionLeak'
    BY <1>2, <2>1, DropCases DEF HandlerDrops, OwnInv
  <2>2. CASE Close
    BY <2>2, OwnedStill DEF Close, CloseSession, KeepsOrCloses, threadVars
  <2>3. ASSUME NEW t \in Calls, NEW m \in {"status", "use", "refresh"}, StartCall(t, m)
        PROVE  SessionsOwned' /\ NoSessionLeak'
    <3>1. /\ t \in Threads /\ pc[t] = "idle" /\ UNCHANGED <<closed, session, open, held>>
          /\ \E l \in {"refreshing", "reading"} : pc' = [pc EXCEPT ![t] = l]
      BY <2>3 DEF StartCall, Goto, Threads, keyVars, poolVars
    <3>2. held[t] = NoSession /\ held' = [held EXCEPT ![t] = NoSession]
      BY <3>1 DEF OwnInv, TypeOK, SessionsOwned, Holding
    <3>3. QED
      BY <3>1, <3>2, OwnedMove DEF KeepsOrCloses
  <2>4. QED
    BY <1>1, <1>3, <2>1, <2>2, <2>3, PersistingPersists
       DEF Outside, Persists, RemoteChanges, keyVars, poolVars, threadVars
<1>4. CASE Monitoring
  <2>1. CASE MonitorChecks
    <3>1. read[Monitor][1] \in Configs \cup {NoVersion}
      BY DEF Versions, TypeOK, OwnInv
    <3>2. QED
      BY <1>2, <2>1, <3>1, DropCases DEF MonitorChecks, OwnInv
  <2>2. CASE PruneToDesired
    BY <1>1, <1>2, <2>2, DropCases DEF PruneToDesired, OwnInv, keyVars, poolVars
  <2>3. ASSUME NEW w \in Workers, MonitorSpawns(w) PROVE SessionsOwned' /\ NoSessionLeak'
    <3>1. /\ w \in Threads /\ pc[w] = "idle" /\ UNCHANGED <<closed, session, open, held>>
          /\ pc' = [pc EXCEPT ![w] = "beginning"]
      BY <2>3 DEF MonitorSpawns, Goto, Threads, keyVars, poolVars
    <3>2. held[w] = NoSession /\ held' = [held EXCEPT ![w] = NoSession]
      BY <3>1 DEF OwnInv, TypeOK, SessionsOwned, Holding
    <3>3. QED
      BY <3>1, <3>2, OwnedMove DEF KeepsOrCloses
  <2>4. QED
    BY <1>1, <1>4, <2>1, <2>2, <2>3
       DEF Monitoring, MonitorStep, MonitorReads, MonitorSkips, keyVars, poolVars, threadVars
<1>5. QED
  BY <1>1, <1>3, <1>4, OwnedAdvance, NextCases DEF vars, keyVars, poolVars, threadVars

LEMMA OwnInvariant == Spec => []OwnInv
<1>1. Init => SessionsOwned /\ NoSessionLeak
  BY DEF Init, SessionsOwned, NoSessionLeak
<1>2. OwnInv /\ [Next]_vars => (SessionsOwned /\ NoSessionLeak)'
  BY OwnedNext
<1>3. QED
  BY <1>1, <1>2, TypeCorrect, PTL DEF Spec, OwnInv

\* Every open session is the key's or is being probed by the goroutine that
\* opened it.
THEOREM NoLeak == Spec => []NoSessionLeak
<1>1. OwnInv => NoSessionLeak
  BY DEF OwnInv
<1>2. QED
  BY <1>1, OwnInvariant, PTL

-----------------------------------------------------------------------------
(* What a session was opened with, and whether it may still be installed. *)

\* A goroutine on its way to install a session, in a generation that is still
\* the key's; a background ping looks the session up and installs nothing.
Installing(t) ==
  /\ gen[t] = "current"
  /\ pc[t] \in {"looking", "connecting", "probing"}
  /\ pc[t] = "looking" => mode[t] # "ping"

\* The definition and credentials it has read, or opened its session with.
Seen(t) == IF pc[t] = "probing" THEN made[held[t]] ELSE read[t]

\* The drops of a handler find the key of whoever may install.
KnownWhileInstalling ==
  ~closed => \A t \in Threads :
    Installing(t) \/ (gen[t] = "current" /\ pc[t] = "resolving") => observation # "none"

\* What was opened, or is to be opened, under what has been in force since the
\* last drop.
Lasts(seen) ==
  /\ \E v \in since : v.enabled
  /\ \E v \in since : v.config = seen[1]
  /\ \E v \in since : v.secret = seen[2]

\* So is the key's session, and so is what would be installed.
InstallsLast ==
  ~closed =>
    /\ session # NoSession => Lasts(made[session])
    /\ \A t \in Threads : Installing(t) => Lasts(Seen(t))

FollowInv == InForce \in since /\ KnownWhileInstalling /\ InstallsLast

LEMMA FollowUnchanged ==
  ASSUME FollowInv, UNCHANGED <<pc, mode, gen, held, closed, session, made, observation>>,
         \A t \in Threads : read'[t] = read[t],
         since \subseteq since', InForce' \in since'
  PROVE  FollowInv'
BY DEF FollowInv, KnownWhileInstalling, InstallsLast, Lasts, InForce, Installing, Seen

\* Once the key is forgotten, nobody's generation is current.
LEMMA FollowForgets ==
  ASSUME TypeOK, Forgets, InForce' \in since'
  PROVE  FollowInv'
<1>1. session' = NoSession /\ \A t \in Threads : gen'[t] # "current"
  BY DEF Forgets, Forget, Staled, TypeOK
<1>2. QED
  BY <1>1 DEF FollowInv, KnownWhileInstalling, InstallsLast, Lasts, InForce, Installing

\* A goroutine that moves on, and not to where it would install something new.
LEMMA FollowMove ==
  ASSUME TypeOK, FollowInv, NEW t \in Threads,
         \A u \in Threads \ {t} :
           pc'[u] = pc[u] /\ mode'[u] = mode[u] /\ gen'[u] = gen[u] /\ held'[u] = held[u]
             /\ read'[u] = read[u],
         UNCHANGED <<closed, session, made, since, enabled, config, secret>>,
         observation' = observation \/ observation' # "none",
         ~Installing(t)', pc'[t] # "resolving"
  PROVE  FollowInv'
<1>1. \A u \in Threads : Installing(u)' => u # t /\ Installing(u) /\ Seen(u)' = Seen(u)
  BY DEF Installing, Seen
<1>2. KnownWhileInstalling'
  BY <1>1 DEF FollowInv, KnownWhileInstalling
<1>3. InstallsLast'
  BY <1>1 DEF FollowInv, InstallsLast, Lasts
<1>4. QED
  BY <1>2, <1>3 DEF FollowInv, InForce

LEMMA ReturnIdles ==
  ASSUME TypeOK, NEW t \in Threads, Return(t)
  PROVE  /\ pc'[t] \in {"idle", "ending"}
         /\ \A u \in Threads \ {t} :
              pc'[u] = pc[u] /\ mode'[u] = mode[u] /\ gen'[u] = gen[u] /\ held'[u] = held[u]
                /\ read'[u] = read[u]
BY DEF TypeOK, Return

LEMMA FollowAdvance ==
  ASSUME OwnInv, FollowInv, NEW t \in Threads, Advance(t)
  PROVE  FollowInv'
<1>. USE DEF OwnInv
<1>a. ASSUME Return(t), UNCHANGED <<closed, session, made, since, enabled, config, secret>>,
             observation' = observation \/ observation' # "none"
      PROVE  FollowInv'
  <2>1. ~Installing(t)' /\ pc'[t] # "resolving"
    BY <1>a, ReturnIdles DEF Installing
  <2>2. QED
    BY <1>a, <2>1, ReturnIdles, FollowMove
<1>b. ASSUME NEW l, pc' = [pc EXCEPT ![t] = l],
             l \notin {"looking", "connecting", "probing", "resolving"},
             UNCHANGED <<closed, session, made, since, enabled, config, secret>>,
             observation' = observation \/ observation' # "none",
             \A u \in Threads \ {t} :
               mode'[u] = mode[u] /\ gen'[u] = gen[u] /\ held'[u] = held[u] /\ read'[u] = read[u]
      PROVE  FollowInv'
  <2>1. ~Installing(t)' /\ pc'[t] # "resolving"
    BY <1>b DEF Installing, TypeOK
  <2>2. QED
    BY <1>b, <2>1, FollowMove DEF TypeOK
<1>1. CASE RefreshDrops(t) \/ DropInactive(t) \/ CheckFingerprint(t)
  <2>1. read[t][1] \in Configs \cup {NoVersion}
    BY DEF TypeOK, Versions
  <2>2. CASE Forgets
    <3>1. InForce' \in since'
      BY <1>1 DEF RefreshDrops, DropInactive, CheckFingerprint, desiredVars, FollowInv, InForce
    <3>2. QED
      BY <2>2, <3>1, FollowForgets
  <2>3. CASE Notes
    <3>1. UNCHANGED <<closed, session, made, since, enabled, config, secret, observation, gen, mode, held>>
      BY <1>1, <2>3
         DEF RefreshDrops, DropInactive, CheckFingerprint, Notes, desiredVars, poolVars
    <3>2. \E l \in {"beginning", "reporting", "registering"} : pc' = [pc EXCEPT ![t] = l]
      BY <1>1 DEF RefreshDrops, DropInactive, CheckFingerprint, Goto
    <3>3. \A u \in Threads \ {t} : read'[u] = read[u]
      BY <1>1 DEF RefreshDrops, DropInactive, CheckFingerprint, TypeOK
    <3>4. QED
      BY <3>1, <3>2, <3>3, <1>b
  <2>4. QED
    BY <1>1, <2>1, <2>2, <2>3, DropCases DEF RefreshDrops, DropInactive, CheckFingerprint
<1>2. CASE BeginWork(t)
  <2>1. /\ UNCHANGED <<closed, session, made, since, enabled, config, secret, gen, held, read>>
        /\ observation' = observation \/ observation' # "none"
        /\ \A u \in Threads \ {t} : mode'[u] = mode[u] /\ pc'[u] = pc[u]
    BY <1>2 DEF BeginWork, Registered, desiredVars, poolVars, TypeOK
  <2>2. ~Installing(t)' /\ pc'[t] # "resolving"
    BY <1>2 DEF BeginWork, Installing, TypeOK
  <2>3. QED
    BY <2>1, <2>2, FollowMove
<1>3. CASE ReadDefinition(t) \/ EndWork(t) \/ Ping(t) \/ Use(t)
  <2>1. \E l \in {"checking", "idle", "healthy", "used"} : pc' = [pc EXCEPT ![t] = l]
    BY <1>3 DEF ReadDefinition, EndWork, Ping, Use, Answered, Goto
  <2>2. UNCHANGED <<closed, session, made, since, enabled, config, secret, observation, gen, held>>
    BY <1>3 DEF ReadDefinition, EndWork, Ping, Use, Answered, desiredVars, keyVars, poolVars
  <2>3. \A u \in Threads \ {t} : mode'[u] = mode[u] /\ read'[u] = read[u]
    BY <1>3 DEF ReadDefinition, EndWork, Ping, Use, Answered, TypeOK
  <2>4. QED
    BY <2>1, <2>2, <2>3, <1>b
<1>4. CASE RegisterKey(t)
  <2>1. UNCHANGED <<closed, session, made, since, enabled, config, secret>>
    BY <1>4 DEF RegisterKey, desiredVars, poolVars
  <2>2. CASE /\ Return(t)
             /\ observation' \in {observation, IF closed THEN observation ELSE Registered}
    BY <1>a, <2>1, <2>2 DEF Registered
  <2>3. CASE /\ pc' = [pc EXCEPT ![t] = "resolving"] /\ gen' = [gen EXCEPT ![t] = "current"]
             /\ Observe(Registered) /\ UNCHANGED <<mode, held, read>>
    <3>1. closed \/ observation' # "none"
      BY <2>3 DEF Observe, Registered
    <3>2. \A u \in Threads : Installing(u)' => u # t /\ Installing(u) /\ Seen(u)' = Seen(u)
      BY <2>1, <2>3 DEF Installing, Seen, TypeOK
    <3>3. QED
      BY <2>1, <3>1, <3>2
         DEF FollowInv, KnownWhileInstalling, InstallsLast, Lasts, InForce
  <2>4. QED
    BY <1>4, <2>2, <2>3 DEF RegisterKey
<1>5. CASE ResolveMCPActivation(t)
  <2>1. UNCHANGED <<closed, session, made, since, enabled, config, secret, observation>>
    BY <1>5 DEF ResolveMCPActivation, desiredVars, keyVars, poolVars
  <2>2. CASE Return(t)
    BY <1>a, <2>1, <2>2
  <2>3. CASE /\ pc' = [pc EXCEPT ![t] = "dropping"]
             /\ read' = [read EXCEPT ![t] = NoRead] /\ UNCHANGED <<mode, gen, held>>
    BY <1>b, <2>1, <2>3 DEF TypeOK
  <2>4. CASE /\ enabled /\ pc' = [pc EXCEPT ![t] = "looking"]
             /\ read' = [read EXCEPT ![t] = <<config, secret>>] /\ UNCHANGED <<mode, gen, held>>
    <3>1. \A u \in Threads \ {t} : Installing(u)' => Installing(u) /\ Seen(u)' = Seen(u)
      BY <2>1, <2>4 DEF Installing, Seen, TypeOK
    <3>2. InForce \in since /\ InForce.enabled /\ InForce.config = config /\ InForce.secret = secret
      BY <2>4 DEF FollowInv, InForce
    <3>3. Seen(t)' = <<config, secret>>
      BY <2>4 DEF Seen, TypeOK
    <3>4. Lasts(Seen(t)')
      BY <3>2, <3>3 DEF Lasts
    <3>5. Installing(t)' => gen[t] = "current" /\ pc[t] = "resolving"
      BY <1>5, <2>4 DEF Installing, ResolveMCPActivation
    <3>6. \A u \in Threads : ~(gen'[u] = "current" /\ pc'[u] = "resolving")
                               \/ (gen[u] = "current" /\ pc[u] = "resolving")
      BY <2>4 DEF TypeOK
    <3>7. KnownWhileInstalling'
      BY <2>1, <3>1, <3>5, <3>6 DEF FollowInv, KnownWhileInstalling
    <3>8. InstallsLast'
      BY <2>1, <3>1, <3>4 DEF FollowInv, InstallsLast, Lasts
    <3>9. QED
      BY <2>1, <3>7, <3>8 DEF FollowInv, InForce
  <2>5. QED
    BY <1>5, <2>2, <2>3, <2>4 DEF ResolveMCPActivation
<1>6. CASE ReportInactive(t) \/ RecordFailure(t)
  BY <1>6, <1>a DEF ReportInactive, RecordFailure, Observe, desiredVars, poolVars
<1>7. CASE LookUp(t)
  <2>1. UNCHANGED <<closed, session, made, since, enabled, config, secret, observation>>
    BY <1>7 DEF LookUp, desiredVars, keyVars, poolVars
  <2>2. CASE Return(t)
    BY <1>a, <2>1, <2>2
  <2>3. CASE /\ pc' = [pc EXCEPT ![t] = "pinging"] /\ held' = [held EXCEPT ![t] = session]
             /\ read' = [read EXCEPT ![t] = NoRead] /\ UNCHANGED <<mode, gen>>
    BY <1>b, <2>1, <2>3 DEF TypeOK
  <2>4. CASE /\ mode[t] # "ping" /\ pc' = [pc EXCEPT ![t] = "connecting"]
             /\ UNCHANGED <<mode, gen, held, read>>
    <3>1. \A u \in Threads : Installing(u)' => Installing(u) /\ Seen(u)' = Seen(u)
      BY <1>7, <2>1, <2>4 DEF LookUp, Installing, Seen, TypeOK
    <3>2. \A u \in Threads : pc'[u] = "resolving" => pc[u] = "resolving"
      BY <2>4 DEF TypeOK
    <3>3. QED
      BY <2>1, <2>4, <3>1, <3>2
         DEF FollowInv, KnownWhileInstalling, InstallsLast, Lasts, InForce
  <2>5. QED
    BY <1>7, <2>2, <2>3, <2>4 DEF LookUp
<1>8. CASE FailSession(t)
  <2>1. UNCHANGED <<closed, since, enabled, config, secret, observation>>
    BY <1>8 DEF FailSession, desiredVars
  <2>2. CASE Return(t) /\ UNCHANGED <<session, poolVars>>
    BY <1>a, <2>1, <2>2 DEF poolVars
  <2>3. CASE /\ session' = NoSession /\ CloseSession(session)
             /\ pc' = [pc EXCEPT ![t] = "failing"] /\ held' = [held EXCEPT ![t] = NoSession]
             /\ gen' = [gen EXCEPT ![t] = "current"] /\ UNCHANGED <<mode, read>>
    <3>1. \A u \in Threads : Installing(u)' => Installing(u) /\ Seen(u)' = Seen(u)
      BY <2>3, SessionsAssumption
         DEF CloseSession, Installing, Seen, SessionsOwned, TypeOK
    <3>2. \A u \in Threads : pc'[u] = "resolving" => u # t /\ pc[u] = "resolving"
      BY <2>3 DEF TypeOK
    <3>3. QED
      BY <2>1, <2>3, <3>1, <3>2
         DEF FollowInv, KnownWhileInstalling, InstallsLast, Lasts, InForce, TypeOK
  <2>4. QED
    BY <1>8, <2>2, <2>3 DEF FailSession
<1>9. CASE Connect(t)
  <2>1. PICK s \in Sessions \ (open \cup {held[u] : u \in Threads}) :
          /\ made' = [made EXCEPT ![s] = read[t]] /\ held' = [held EXCEPT ![t] = s]
    BY <1>9 DEF Connect
  <2>2. /\ UNCHANGED <<closed, session, since, enabled, config, secret, observation, mode, gen>>
        /\ pc[t] = "connecting" /\ pc' = [pc EXCEPT ![t] = "probing"]
        /\ read' = [read EXCEPT ![t] = NoRead]
    BY <1>9 DEF Connect, Goto, desiredVars, keyVars
  <2>3. s # session /\ \A u \in Threads : held[u] # s
    BY <2>1, SessionsAssumption DEF SessionsOwned
  <2>4. \A u \in Threads : Installing(u)' => Installing(u) /\ Seen(u)' = Seen(u)
    <3>1. Seen(t)' = read[t] /\ Seen(t) = read[t]
      BY <2>1, <2>2 DEF Seen, TypeOK
    <3>2. ASSUME NEW u \in Threads, u # t PROVE Seen(u)' = Seen(u)
      <4>1. held'[u] = held[u] /\ pc'[u] = pc[u] /\ read'[u] = read[u] /\ held[u] # s
        BY <2>1, <2>2, <2>3, <3>2 DEF TypeOK
      <4>2. pc[u] = "probing" => made'[held[u]] = made[held[u]]
        BY <2>1, <4>1 DEF TypeOK, SessionsOwned
      <4>3. QED
        BY <4>1, <4>2 DEF Seen
    <3>3. QED
      BY <2>2, <3>1, <3>2 DEF Installing, TypeOK
  <2>5. session # NoSession => made'[session] = made[session]
    BY <2>1, <2>3 DEF TypeOK
  <2>6. \A u \in Threads : pc'[u] = "resolving" => pc[u] = "resolving"
    BY <2>2 DEF TypeOK
  <2>7. QED
    BY <2>2, <2>4, <2>5, <2>6
       DEF FollowInv, KnownWhileInstalling, InstallsLast, Lasts, InForce
<1>10. CASE ConnectFails(t) \/ InstallSession(t)
  <2>1. UNCHANGED <<closed, since, enabled, config, secret, observation>>
    BY <1>10 DEF ConnectFails, InstallSession, desiredVars, keyVars
  <2>2. ASSUME CloseSession(held[t]), UNCHANGED session, pc[t] \in {"connecting", "probing"},
               pc'[t] \notin {"looking", "connecting", "probing", "resolving"},
               \A u \in Threads \ {t} :
                 pc'[u] = pc[u] /\ mode'[u] = mode[u] /\ gen'[u] = gen[u] /\ held'[u] = held[u]
                   /\ read'[u] = read[u]
        PROVE  FollowInv'
    <3>1. \A u \in Threads \ {t} : pc[u] = "probing" => made'[held[u]] = made[held[u]]
      BY <2>2, SessionsAssumption DEF CloseSession, SessionsOwned, TypeOK, Holding
    <3>2. session # NoSession => made'[session] = made[session]
      BY <2>2, SessionsAssumption DEF CloseSession, SessionsOwned, TypeOK, Holding
    <3>3. \A u \in Threads : Installing(u)' => u # t /\ Installing(u) /\ Seen(u)' = Seen(u)
      BY <2>2, <3>1 DEF Installing, Seen
    <3>4. QED
      BY <2>1, <2>2, <3>2, <3>3
         DEF FollowInv, KnownWhileInstalling, InstallsLast, Lasts, InForce
  <2>3. CASE ConnectFails(t)
    BY <2>2, <2>3 DEF ConnectFails, keyVars, TypeOK
  <2>4. CASE InstallSession(t) /\ CloseSession(held[t]) /\ Return(t) /\ UNCHANGED session
    <3>1. pc[t] = "probing" /\ pc'[t] \in {"idle", "ending"}
      BY <2>4, ReturnIdles DEF InstallSession
    <3>2. QED
      BY <2>2, <2>4, <3>1, ReturnIdles
  <2>5. CASE /\ ~closed /\ gen[t] = "current" /\ session' = held[t] /\ pc[t] = "probing"
             /\ pc' = [pc EXCEPT ![t] = "healthy"]
             /\ UNCHANGED <<poolVars, mode, gen, held, read>>
    <3>1. Installing(t) /\ Seen(t) = made[held[t]]
      BY <2>5 DEF Installing, Seen
    <3>2. \A u \in Threads : Installing(u)' => Installing(u) /\ Seen(u)' = Seen(u)
      BY <2>5 DEF Installing, Seen, TypeOK, poolVars
    <3>3. \A u \in Threads : pc'[u] = "resolving" => pc[u] = "resolving"
      BY <2>5 DEF TypeOK
    <3>4. QED
      BY <2>1, <2>5, <3>1, <3>2, <3>3
         DEF FollowInv, KnownWhileInstalling, InstallsLast, Lasts, InForce, poolVars
  <2>6. CASE /\ InstallSession(t) /\ CloseSession(held[t])
             /\ held' = [held EXCEPT ![t] = session]
             /\ pc' = [pc EXCEPT ![t] = "healthy"] /\ UNCHANGED <<session, mode, gen, read>>
    BY <2>2, <2>6 DEF InstallSession, TypeOK
  <2>7. QED
    BY <1>10, <2>3, <2>4, <2>5, <2>6 DEF InstallSession
<1>11. CASE RecordSuccess(t)
  <2>1. /\ UNCHANGED <<closed, session, made, since, enabled, config, secret>>
        /\ observation' = observation \/ observation' # "none"
    BY <1>11 DEF RecordSuccess, Observe, desiredVars, poolVars
  <2>2. QED
    BY <1>11, <1>a, <1>b, <2>1 DEF RecordSuccess
<1>12. QED
  BY <1>1, <1>2, <1>3, <1>4, <1>5, <1>6, <1>7, <1>8, <1>9, <1>10, <1>11 DEF Advance

LEMMA FollowNext ==
  ASSUME OwnInv, FollowInv, [Next]_vars
  PROVE  FollowInv'
<1>1. CASE UNCHANGED vars
  BY <1>1, FollowUnchanged
     DEF FollowInv, InForce, vars, desiredVars, keyVars, poolVars, threadVars
<1>2. CASE Outside
  <2>1. CASE Persisting
    <3>1. /\ UNCHANGED <<keyVars, poolVars, threadVars>>
          /\ since \subseteq since' /\ InForce' \in since'
      BY <2>1, PersistingPersists DEF Persists
    <3>2. QED
      BY <3>1, FollowUnchanged DEF keyVars, poolVars, threadVars
  <2>2. CASE RemoteChanges
    <3>1. UNCHANGED <<keyVars, poolVars, threadVars, since, InForce>>
      BY <2>2 DEF RemoteChanges, InForce
    <3>2. QED
      BY <3>1, FollowUnchanged DEF keyVars, poolVars, threadVars, FollowInv
  <2>3. CASE Close
    BY <2>3 DEF Close, FollowInv, KnownWhileInstalling, InstallsLast, InForce, desiredVars
  <2>4. ASSUME NEW d \in drops, HandlerDrops(d) PROVE FollowInv'
    <3>1. /\ InForce' \in since' /\ UNCHANGED <<pc, mode, held, read>>
          /\ d = "key" \/ d = "matching"
      BY <2>4 DEF HandlerDrops, InForce, OwnInv, TypeOK
    <3>2. CASE Forgets
      BY <3>1, <3>2, FollowForgets DEF OwnInv
    <3>3. CASE closed /\ Notes
      BY <3>1, <3>3 DEF Notes, FollowInv, KnownWhileInstalling, InstallsLast
    <3>4. CASE ~closed /\ Notes /\ ~Known
      <4>1. session = NoSession /\ observation = "none"
        BY <3>4 DEF Known
      <4>2. \A t \in Threads : ~Installing(t)
        BY <3>4, <4>1 DEF FollowInv, KnownWhileInstalling
      <4>3. UNCHANGED <<closed, session, made, observation, gen>>
        BY <3>4 DEF Notes, poolVars
      <4>4. QED
        BY <3>1, <3>4, <4>1, <4>2, <4>3
           DEF FollowInv, KnownWhileInstalling, InstallsLast, Installing
    <3>5. QED
      BY <2>4, <3>1, <3>2, <3>3, <3>4, DropCases DEF HandlerDrops, OwnInv
  <2>5. ASSUME NEW t \in Calls, NEW m \in {"status", "use", "refresh"}, StartCall(t, m)
        PROVE  FollowInv'
    <3>1. /\ t \in Threads
          /\ UNCHANGED <<closed, session, made, since, enabled, config, secret, observation, gen, held,
                         read>>
      BY <2>5 DEF StartCall, Threads, desiredVars, keyVars, poolVars
    <3>2. /\ pc'[t] \in {"refreshing", "reading"}
          /\ \A u \in Threads \ {t} : pc'[u] = pc[u] /\ mode'[u] = mode[u]
      BY <2>5, <3>1 DEF StartCall, Goto, OwnInv, TypeOK
    <3>3. ~Installing(t)' /\ pc'[t] # "resolving"
      BY <3>2 DEF Installing
    <3>4. QED
      BY <3>1, <3>2, <3>3, FollowMove DEF OwnInv
  <2>6. QED
    BY <1>2, <2>1, <2>2, <2>3, <2>4, <2>5 DEF Outside
<1>3. CASE Monitoring
  <2>0. \A v : read' = [read EXCEPT ![Monitor] = v] => \A t \in Threads : read'[t] = read[t]
    BY SessionsAssumption DEF OwnInv, TypeOK, Threads, Monitor
  <2>1. CASE MonitorReads
    BY <2>0, <2>1, FollowUnchanged
       DEF MonitorReads, FollowInv, InForce, desiredVars, keyVars, poolVars
  <2>2. CASE MonitorChecks
    <3>1. read[Monitor][1] \in Configs \cup {NoVersion}
      BY DEF Versions, TypeOK, OwnInv
    <3>0. UNCHANGED since /\ InForce' \in since'
      BY <2>2 DEF MonitorChecks, desiredVars, InForce, FollowInv
    <3>2. CASE Forgets
      BY <3>0, <3>2, FollowForgets DEF OwnInv
    <3>3. CASE Notes
      BY <2>0, <2>2, <3>0, <3>3, FollowUnchanged DEF MonitorChecks, Notes, poolVars
    <3>4. QED
      BY <2>2, <3>1, <3>2, <3>3, DropCases DEF MonitorChecks, OwnInv
  <2>3. CASE MonitorSkips
    BY <2>3, FollowUnchanged
       DEF MonitorSkips, FollowInv, InForce, desiredVars, keyVars, poolVars, threadVars
  <2>4. CASE PruneToDesired
    <3>1. Notes \/ Forgets
      BY <2>4, DropCases DEF PruneToDesired, Notes, OwnInv, TypeOK, keyVars, poolVars
    <3>2. UNCHANGED since /\ InForce' \in since'
      BY <2>4 DEF PruneToDesired, desiredVars, InForce, FollowInv
    <3>3. CASE Notes
      BY <2>4, <3>2, <3>3, FollowUnchanged DEF PruneToDesired, Notes, poolVars
    <3>4. QED
      BY <3>1, <3>2, <3>3, FollowForgets DEF OwnInv
  <2>5. ASSUME NEW w \in Workers, MonitorSpawns(w) PROVE FollowInv'
    <3>1. /\ w \in Threads
          /\ UNCHANGED <<closed, session, made, since, enabled, config, secret, observation, gen, held,
                         read>>
      BY <2>5 DEF MonitorSpawns, Threads, desiredVars, keyVars, poolVars
    <3>2. /\ pc'[w] = "beginning"
          /\ \A u \in Threads \ {w} : pc'[u] = pc[u] /\ mode'[u] = mode[u]
      BY <2>5, <3>1 DEF MonitorSpawns, Goto, OwnInv, TypeOK
    <3>3. ~Installing(w)' /\ pc'[w] # "resolving"
      BY <3>2 DEF Installing
    <3>4. QED
      BY <3>1, <3>2, <3>3, FollowMove DEF OwnInv
  <2>6. QED
    BY <1>3, <2>1, <2>2, <2>3, <2>4, <2>5 DEF Monitoring, MonitorStep
<1>4. QED
  BY <1>1, <1>2, <1>3, FollowAdvance, NextCases

LEMMA FollowInvariant == Spec => [](OwnInv /\ FollowInv)
<1>1. Init => FollowInv
  BY DEF Init, FollowInv, KnownWhileInstalling, InstallsLast, Lasts, InForce, Installing
<1>2. OwnInv /\ FollowInv /\ [Next]_vars => FollowInv'
  BY FollowNext
<1>3. QED
  BY <1>1, <1>2, OwnInvariant, PTL DEF Spec

\* The key's session was opened under a selection, a definition and credentials
\* in force at the last drop of a handler or later: no connect that was on its
\* way brings back what was dropped.
THEOREM DroppedIsGone == Spec => []DroppedStaysGone
<1>1. OwnInv /\ FollowInv => DroppedStaysGone
  BY DEF OwnInv, SessionsOwned, FollowInv, InstallsLast, Lasts, DroppedStaysGone
<1>2. QED
  BY <1>1, FollowInvariant, PTL
=============================================================================
