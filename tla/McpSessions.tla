----------------------------- MODULE McpSessions -----------------------------
(***************************************************************************)
(* The session a Gateway's runtime owner keeps for one external MCP of one *)
(* Environment (internal/gateway runtime_owner, runtime_mcp_observation).  *)
(* Agent calls, the monitor's background probes and reconnects, drops and  *)
(* Close share it; o.mu is held for single map operations only, never      *)
(* across a connect, a ping or a call.                                     *)
(*                                                                         *)
(* o.generations[key] is only ever compared for equality, so it is not a   *)
(* number here: gen[t] and work[t] say whether the generation a goroutine  *)
(* captured is "current" or has become "stale".                            *)
(***************************************************************************)
EXTENDS Naturals, FiniteSets

CONSTANTS
    Calls,      \* Agent calls (Status, ListTools, CallTool, Refresh) at a time
    Workers,    \* background probe and reconnect goroutines at a time
    Sessions,   \* session identities, reused once closed and forgotten
    Configs,    \* versions of the MCP's definition
    Secrets,    \* versions of the credentials and variables it references
    NoSession,  \* nil
    NoVersion,  \* no fingerprint, nothing read
    MaxChanges  \* BOUND: changes of configuration and of the remote end

ASSUME SessionsAssumption ==
    /\ Calls \cap Workers = {} /\ "monitor" \notin Calls \cup Workers
    /\ NoSession \notin Sessions
    /\ NoVersion \notin Configs \cup Secrets
    /\ MaxChanges \in Nat

Threads == Calls \cup Workers

VARIABLES
    enabled,      \* the Environment selects the MCP
    config,       \* version of the persisted definition
    secret,       \* version of the credentials it references
    drops,        \* drops that running handlers still have to make
    up,           \* the remote end answers
    changes,      \* how often one of enabled, config, secret and up changed
    since,        \* history: what was in force since a handler's last drop
    closed,       \* o.closed
    session,      \* o.sessions[key]
    observation,  \* o.observations[key].State, or "none"
    inFlight,     \* o.inFlight[key]
    fingerprint,  \* o.desiredFingerprints[key]
    open,         \* sessions not closed yet
    made,         \* definition and credentials each session was opened with
    pc, mode,     \* where each goroutine is and what it is
    gen, work,    \* generation captured by registerKey and by beginWork
    held,         \* the session each goroutine works on
    read,         \* definition (and credentials) each goroutine has read
    monitor,      \* where the monitor is
    desired       \* whether the monitor saw the key enabled

desiredVars == <<enabled, config, secret, drops, up, changes, since>>
keyVars == <<closed, session, observation, inFlight, fingerprint>>
poolVars == <<open, made>>
threadVars == <<pc, mode, gen, work, held, read>>
monitorVars == <<monitor, desired>>
vars == <<desiredVars, keyVars, poolVars, threadVars, monitorVars>>

\* What an activation reads: the selection, the definition, the credentials.
InForce == [enabled |-> enabled, config |-> config, secret |-> secret]
NoRead == <<NoVersion, NoVersion>>
Monitor == "monitor"
------------------------------------------------------------------------------
Init ==
    /\ enabled \in BOOLEAN /\ config \in Configs /\ secret \in Secrets
    /\ drops = {} /\ up = TRUE /\ changes = 0 /\ since = {InForce}
    /\ closed = FALSE /\ session = NoSession /\ observation = "none"
    /\ inFlight = FALSE /\ fingerprint = NoVersion
    /\ open = {} /\ made = [s \in Sessions |-> NoRead]
    /\ pc = [t \in Threads |-> "idle"]
    /\ mode = [t \in Threads |-> "none"]
    /\ gen = [t \in Threads |-> "none"] /\ work = [t \in Threads |-> "none"]
    /\ held = [t \in Threads |-> NoSession]
    /\ read = [t \in Threads \cup {Monitor} |-> NoRead]
    /\ monitor = "asleep" /\ desired = FALSE

Goto(t, from, to) == pc[t] = from /\ pc' = [pc EXCEPT ![t] = to]

\* session.Close, which follows the unlock of o.mu.
CloseSession(s) ==
    /\ open' = open \ {s}
    /\ made' = [x \in Sessions |-> IF x = s THEN NoRead ELSE made[x]]

Staled(f) == [t \in Threads |-> IF f[t] = "current" THEN "stale" ELSE f[t]]

\* What drop, dropMatching and invalidateChangedDesiredConfig share: the key's
\* state goes, its generation moves on and its session is closed.
Forget(newFingerprint) ==
    /\ session' = NoSession
    /\ CloseSession(session)
    /\ observation' = "none"
    /\ inFlight' = FALSE
    /\ fingerprint' = newFingerprint
    /\ gen' = Staled(gen) /\ work' = Staled(work)
    /\ UNCHANGED closed

Drop == IF closed THEN UNCHANGED <<keyVars, poolVars, gen, work>> ELSE Forget(NoVersion)

\* dropMatching looks only at the keys one of its maps knows.
Known == session # NoSession \/ observation # "none" \/ fingerprint # NoVersion
DropMatching == IF Known THEN Drop ELSE UNCHANGED <<keyVars, poolVars, gen, work>>

InvalidateChangedDesiredConfig(v) ==
    \/ /\ closed \/ fingerprint = v
       /\ UNCHANGED <<keyVars, poolVars, gen, work>>
    \/ /\ ~closed /\ fingerprint = NoVersion
       /\ fingerprint' = v
       /\ UNCHANGED <<closed, session, observation, inFlight, poolVars, gen, work>>
    \/ /\ ~closed /\ fingerprint \notin {v, NoVersion}
       /\ Forget(v)

Observe(state) ==
    observation' = IF closed THEN observation ELSE state

Registered == IF observation = "none" THEN "configured" ELSE observation

Return(t) ==
    /\ pc' = [pc EXCEPT ![t] = IF work[t] = "none" THEN "idle" ELSE "ending"]
    /\ mode' = [mode EXCEPT ![t] = IF work[t] = "none" THEN "none" ELSE @]
    /\ gen' = [gen EXCEPT ![t] = "none"]
    /\ held' = [held EXCEPT ![t] = NoSession]
    /\ read' = [read EXCEPT ![t] = NoRead]
------------------------------------------------------------------------------
(* What the administrator, the remote end and the owner's shutdown do.     *)
Changed == changes < MaxChanges /\ changes' = changes + 1

\* A change of what is in force.  The handlers of the admin MCP drop the
\* sessions afterwards; the web console, the command line and another process
\* only change the store.
Persists(handlerDrops) ==
    /\ Changed
    /\ drops' = drops \cup handlerDrops
    /\ since' = since \cup {InForce'}
    /\ UNCHANGED <<up, keyVars, poolVars, threadVars, monitorVars>>

\* environment_mcp_set and workspace_mcp_set drop what they disable.
SetEnvironmentMCP(on, outOfBand) ==
    /\ enabled # on /\ enabled' = on
    /\ UNCHANGED <<config, secret>>
    /\ Persists(IF on \/ outOfBand THEN {} ELSE {"key"})

\* mcp_update drops the MCP's sessions.
UpdateMCPConfig(outOfBand) ==
    /\ \E v \in Configs \ {config} : config' = v
    /\ UNCHANGED <<enabled, secret>>
    /\ Persists(IF outOfBand THEN {} ELSE {"matching"})

\* secret_set and host_environment_refresh drop; the former only where headers
\* or variables name the secret, not where the endpoint does.
RotateSecret(outOfBand) ==
    /\ \E v \in Secrets \ {secret} : secret' = v
    /\ UNCHANGED <<enabled, config>>
    /\ Persists(IF outOfBand THEN {} ELSE {"matching"})

\* Owner.Drop, DropMCP and DropAllMCP of the handlers above.
HandlerDrops(d) ==
    /\ d \in drops /\ drops' = drops \ {d}
    /\ IF d = "key" THEN Drop ELSE DropMatching
    /\ since' = {InForce}
    /\ UNCHANGED <<enabled, config, secret, up, changes, monitorVars>>
    /\ UNCHANGED <<pc, mode, held, read>>

RemoteChanges ==
    /\ Changed
    /\ up' = ~up
    /\ UNCHANGED <<enabled, config, secret, drops, since, keyVars, poolVars, threadVars, monitorVars>>

Close ==
    /\ ~closed /\ closed' = TRUE
    /\ session' = NoSession
    /\ CloseSession(session)
    /\ observation' = "none" /\ inFlight' = FALSE /\ fingerprint' = NoVersion
    /\ UNCHANGED <<desiredVars, threadVars, monitorVars>>
------------------------------------------------------------------------------
(* ensureHealthySession, one step per critical section or remote exchange. *)
StartCall(t, m) ==
    /\ Goto(t, "idle", IF m = "refresh" THEN "refreshing" ELSE "reading")
    /\ mode' = [mode EXCEPT ![t] = m]
    /\ UNCHANGED <<desiredVars, keyVars, poolVars, gen, work, held, read, monitorVars>>

RefreshDrops(t) ==
    /\ Goto(t, "refreshing", "beginning")
    /\ Drop
    /\ UNCHANGED <<desiredVars, mode, held, read, monitorVars>>

BeginWork(t) ==
    /\ pc[t] = "beginning"
    /\ IF closed \/ inFlight
       THEN /\ pc' = [pc EXCEPT ![t] = "idle"]
            /\ mode' = [mode EXCEPT ![t] = "none"]
            /\ UNCHANGED <<inFlight, observation, work>>
       ELSE /\ pc' = [pc EXCEPT ![t] = IF mode[t] = "ping" THEN "looking" ELSE "reading"]
            /\ inFlight' = TRUE
            /\ observation' = Registered
            /\ work' = [work EXCEPT ![t] = "current"]
            /\ UNCHANGED mode
    /\ UNCHANGED <<desiredVars, closed, session, fingerprint, poolVars>>
    /\ UNCHANGED <<gen, held, read, monitorVars>>

ReadDefinition(t) ==
    /\ Goto(t, "reading", "checking")
    /\ read' = [read EXCEPT ![t] = <<config, NoVersion>>]
    /\ UNCHANGED <<desiredVars, keyVars, poolVars, mode, gen, work, held, monitorVars>>

CheckFingerprint(t) ==
    /\ Goto(t, "checking", "registering")
    /\ InvalidateChangedDesiredConfig(read[t][1])
    /\ read' = [read EXCEPT ![t] = NoRead]
    /\ UNCHANGED <<desiredVars, mode, held, monitorVars>>

\* A reconnect goes on only in the generation it began in; one that loses it
\* between its check and registerKey has registered the key all the same.
RegisterKey(t) ==
    /\ pc[t] = "registering"
    /\ IF mode[t] = "reconnect" /\ work[t] = "stale"
       THEN Return(t) /\ observation' \in {observation, IF closed THEN observation ELSE Registered}
       ELSE /\ pc' = [pc EXCEPT ![t] = "resolving"]
            /\ gen' = [gen EXCEPT ![t] = "current"]
            /\ Observe(Registered)
            /\ UNCHANGED <<mode, held, read>>
    /\ UNCHANGED <<desiredVars, closed, session, inFlight, fingerprint, poolVars>>
    /\ UNCHANGED <<work, monitorVars>>

Overtaken(t) == mode[t] = "reconnect" /\ gen[t] = "stale"

\* There is no activation for a disabled MCP, nor for one whose entry,
\* references or executable do not resolve.
ResolveMCPActivation(t) ==
    /\ pc[t] = "resolving"
    /\ \/ /\ Overtaken(t)
          /\ Return(t)
       \/ /\ ~Overtaken(t)
          /\ pc' = [pc EXCEPT ![t] = "dropping"]
          /\ read' = [read EXCEPT ![t] = NoRead]
          /\ UNCHANGED <<mode, gen, held>>
       \/ /\ ~Overtaken(t) /\ enabled
          /\ pc' = [pc EXCEPT ![t] = "looking"]
          /\ read' = [read EXCEPT ![t] = <<config, secret>>]
          /\ UNCHANGED <<mode, gen, held>>
    /\ UNCHANGED <<desiredVars, keyVars, poolVars, work, monitorVars>>

DropInactive(t) ==
    /\ Goto(t, "dropping", "reporting")
    /\ Drop
    /\ UNCHANGED <<desiredVars, mode, held, read, monitorVars>>

\* The state that came with the missing activation, which it was is left open;
\* "configured" stands for "disabled" too, which nothing here tells apart.
ReportInactive(t) ==
    /\ pc[t] = "reporting"
    /\ \E state \in {"configured", "error"} : Observe(state)
    /\ Return(t)
    /\ UNCHANGED <<desiredVars, closed, session, inFlight, fingerprint, poolVars>>
    /\ UNCHANGED <<work, monitorVars>>

LookUp(t) ==
    /\ pc[t] = "looking"
    /\ \/ /\ session # NoSession
          /\ pc' = [pc EXCEPT ![t] = "pinging"]
          /\ held' = [held EXCEPT ![t] = session]
          /\ read' = [read EXCEPT ![t] = NoRead]
          /\ UNCHANGED <<mode, gen>>
       \/ /\ session = NoSession
          /\ IF mode[t] = "ping" \/ Overtaken(t)
             THEN Return(t)
             ELSE pc' = [pc EXCEPT ![t] = "connecting"] /\ UNCHANGED <<mode, gen, held, read>>
    /\ UNCHANGED <<desiredVars, keyVars, poolVars, work, monitorVars>>

\* A call may fail at any time (its caller's context ends); a background
\* exchange fails when the remote end or the owner is gone.
Fails(t) == t \in Calls \/ ~up \/ closed \/ held[t] \notin open \cup {NoSession}

Answered(t, from, to) ==
    /\ up /\ held[t] \in open
    /\ Goto(t, from, to)
    /\ UNCHANGED <<desiredVars, keyVars, poolVars, mode, gen, work, held, read, monitorVars>>

Ping(t) == Answered(t, "pinging", "healthy")
Use(t) == Answered(t, "using", "used")

\* failSession takes whatever session the key has by then, in the generation
\* it has by then; a background ping only acts in its own generation.
FailSession(t) ==
    /\ pc[t] \in {"pinging", "using"} /\ Fails(t)
    /\ IF closed \/ (mode[t] = "ping" /\ work[t] = "stale")
       THEN Return(t) /\ UNCHANGED <<session, poolVars>>
       ELSE /\ session' = NoSession
            /\ CloseSession(session)
            /\ held' = [held EXCEPT ![t] = NoSession]
            /\ gen' = [gen EXCEPT ![t] = "current"]
            /\ pc' = [pc EXCEPT ![t] = "failing"]
            /\ UNCHANGED <<mode, read>>
    /\ UNCHANGED <<desiredVars, closed, observation, inFlight, fingerprint>>
    /\ UNCHANGED <<work, monitorVars>>

Connect(t) ==
    /\ up
    /\ \E s \in Sessions \ (open \cup {held[u] : u \in Threads}) :
          /\ open' = open \cup {s}
          /\ made' = [made EXCEPT ![s] = read[t]]
          /\ held' = [held EXCEPT ![t] = s]
    /\ Goto(t, "connecting", "probing")
    /\ read' = [read EXCEPT ![t] = NoRead]
    /\ UNCHANGED <<desiredVars, keyVars, mode, gen, work, monitorVars>>

\* The connect, the probe or the tool listing fails.
ConnectFails(t) ==
    /\ pc[t] \in {"connecting", "probing"} /\ Fails(t)
    /\ pc' = [pc EXCEPT ![t] = "failing"]
    /\ CloseSession(held[t])
    /\ held' = [held EXCEPT ![t] = NoSession]
    /\ read' = [read EXCEPT ![t] = NoRead]
    /\ UNCHANGED <<desiredVars, keyVars, mode, gen, work, monitorVars>>

RecordFailure(t) ==
    /\ pc[t] = "failing"
    /\ observation' = IF closed \/ gen[t] = "stale" THEN observation ELSE "error"
    /\ Return(t)
    /\ UNCHANGED <<desiredVars, closed, session, inFlight, fingerprint, poolVars>>
    /\ UNCHANGED <<work, monitorVars>>

\* Mutants: the last one to install wins; the generation is not compared; an
\* owner that was closed installs too.
InstallOver(t) ==
    /\ pc[t] = "probing"
    /\ IF closed \/ gen[t] = "stale"
       THEN CloseSession(held[t]) /\ Return(t) /\ UNCHANGED session
       ELSE /\ session' = held[t]
            /\ pc' = [pc EXCEPT ![t] = "healthy"]
            /\ UNCHANGED <<poolVars, mode, gen, held, read>>
    /\ UNCHANGED <<desiredVars, closed, observation, inFlight, fingerprint, work, monitorVars>>
InstallAnyGeneration(t) ==
    /\ pc[t] = "probing"
    /\ IF closed \/ session # NoSession
       THEN CloseSession(held[t]) /\ Return(t) /\ UNCHANGED session
       ELSE /\ session' = held[t]
            /\ pc' = [pc EXCEPT ![t] = "healthy"]
            /\ UNCHANGED <<poolVars, mode, gen, held, read>>
    /\ UNCHANGED <<desiredVars, closed, observation, inFlight, fingerprint, work, monitorVars>>
InstallAfterClose(t) ==
    /\ pc[t] = "probing"
    /\ IF gen[t] = "stale" \/ session # NoSession
       THEN CloseSession(held[t]) /\ Return(t) /\ UNCHANGED session
       ELSE /\ session' = held[t]
            /\ pc' = [pc EXCEPT ![t] = "healthy"]
            /\ UNCHANGED <<poolVars, mode, gen, held, read>>
    /\ UNCHANGED <<desiredVars, closed, observation, inFlight, fingerprint, work, monitorVars>>

\* installSession: the first one wins; in another generation, or after Close,
\* nobody does.
InstallSession(t) ==
    /\ pc[t] = "probing"
    /\ \/ /\ closed \/ gen[t] = "stale"
          /\ CloseSession(held[t])
          /\ Return(t)
          /\ UNCHANGED session
       \/ /\ ~closed /\ gen[t] = "current" /\ session = NoSession
          /\ session' = held[t]
          /\ pc' = [pc EXCEPT ![t] = "healthy"]
          /\ UNCHANGED <<poolVars, mode, gen, held, read>>
       \/ /\ ~closed /\ gen[t] = "current" /\ session # NoSession
          /\ CloseSession(held[t])
          /\ held' = [held EXCEPT ![t] = session]
          /\ pc' = [pc EXCEPT ![t] = "healthy"]
          /\ UNCHANGED <<session, mode, gen, read>>
    /\ UNCHANGED <<desiredVars, closed, observation, inFlight, fingerprint>>
    /\ UNCHANGED <<work, monitorVars>>

\* recordSuccess writes in the generation the key has by then; a background
\* ping only in its own.
RecordSuccess(t) ==
    /\ pc[t] \in {"healthy", "used"}
    /\ IF mode[t] = "ping" /\ work[t] = "stale" THEN UNCHANGED observation ELSE Observe("healthy")
    /\ IF mode[t] = "use" /\ pc[t] = "healthy"
       THEN pc' = [pc EXCEPT ![t] = "using"] /\ UNCHANGED <<mode, gen, held, read>>
       ELSE Return(t)
    /\ UNCHANGED <<desiredVars, closed, session, inFlight, fingerprint, poolVars>>
    /\ UNCHANGED <<work, monitorVars>>

\* Mutants: the flag is cleared in whatever generation; it is never cleared.
EndAnyWork(t) ==
    /\ Goto(t, "ending", "idle")
    /\ inFlight' = FALSE
    /\ work' = [work EXCEPT ![t] = "none"]
    /\ mode' = [mode EXCEPT ![t] = "none"]
    /\ UNCHANGED <<desiredVars, closed, session, observation, fingerprint, poolVars>>
    /\ UNCHANGED <<gen, held, read, monitorVars>>
EndWorkInFlight(t) ==
    /\ Goto(t, "ending", "idle")
    /\ work' = [work EXCEPT ![t] = "none"]
    /\ mode' = [mode EXCEPT ![t] = "none"]
    /\ UNCHANGED <<desiredVars, keyVars, poolVars, gen, held, read, monitorVars>>

EndWork(t) ==
    /\ Goto(t, "ending", "idle")
    /\ inFlight' = IF work[t] = "current" THEN FALSE ELSE inFlight
    /\ work' = [work EXCEPT ![t] = "none"]
    /\ mode' = [mode EXCEPT ![t] = "none"]
    /\ UNCHANGED <<desiredVars, closed, session, observation, fingerprint, poolVars>>
    /\ UNCHANGED <<gen, held, read, monitorVars>>
------------------------------------------------------------------------------
(* monitorOnce, and Reconcile, which only reads and prunes.                *)
MonitorReads ==
    /\ monitor = "asleep" /\ ~closed
    /\ monitor' = IF enabled THEN "checking" ELSE "pruning"
    /\ desired' = enabled
    /\ read' = [read EXCEPT ![Monitor] = IF enabled THEN <<config, NoVersion>> ELSE NoRead]
    /\ UNCHANGED <<desiredVars, keyVars, poolVars, pc, mode, gen, work, held>>

MonitorChecks ==
    /\ monitor = "checking" /\ monitor' = "looking"
    /\ InvalidateChangedDesiredConfig(read[Monitor][1])
    /\ read' = [read EXCEPT ![Monitor] = NoRead]
    /\ UNCHANGED <<desiredVars, pc, mode, held, desired>>

\* A session is pinged; a key that has none but was used is reconnected.
MonitorSpawns(w) ==
    /\ monitor = "looking" /\ monitor' = "pruning"
    /\ session # NoSession \/ observation # "none"
    /\ Goto(w, "idle", "beginning")
    /\ mode' = [mode EXCEPT ![w] = IF session # NoSession THEN "ping" ELSE "reconnect"]
    /\ UNCHANGED <<desiredVars, keyVars, poolVars, gen, work, held, read, desired>>

\* Nothing is due.
MonitorSkips ==
    /\ monitor = "looking" /\ monitor' = "pruning"
    /\ UNCHANGED <<desiredVars, keyVars, poolVars, threadVars, desired>>

\* activeMCPOperations[key] > 0
Active == \E t \in Calls : pc[t] # "idle" /\ mode[t] \in {"status", "use"}

\* Mutant: a connected key is kept.
PruneUnconnected ==
    /\ monitor = "pruning" /\ monitor' = "asleep"
    /\ IF ~desired /\ ~inFlight /\ ~Active /\ session = NoSession THEN DropMatching
       ELSE UNCHANGED <<keyVars, poolVars, gen, work>>
    /\ desired' = FALSE
    /\ UNCHANGED <<desiredVars, pc, mode, held, read>>

PruneToDesired ==
    /\ monitor = "pruning" /\ monitor' = "asleep"
    /\ IF ~desired /\ ~inFlight /\ ~Active THEN DropMatching
       ELSE UNCHANGED <<keyVars, poolVars, gen, work>>
    /\ desired' = FALSE
    /\ UNCHANGED <<desiredVars, pc, mode, held, read>>
------------------------------------------------------------------------------
Advance(t) ==
    \/ RefreshDrops(t) \/ BeginWork(t) \/ ReadDefinition(t) \/ CheckFingerprint(t)
    \/ RegisterKey(t) \/ ResolveMCPActivation(t) \/ DropInactive(t) \/ ReportInactive(t)
    \/ LookUp(t) \/ Ping(t) \/ Use(t) \/ FailSession(t) \/ Connect(t) \/ ConnectFails(t)
    \/ RecordFailure(t) \/ InstallSession(t) \/ RecordSuccess(t) \/ EndWork(t)

MonitorStep == MonitorReads \/ MonitorChecks \/ MonitorSkips \/ PruneToDesired

Next ==
    \/ \E on, outOfBand \in BOOLEAN : SetEnvironmentMCP(on, outOfBand)
    \/ \E outOfBand \in BOOLEAN : UpdateMCPConfig(outOfBand) \/ RotateSecret(outOfBand)
    \/ RemoteChanges \/ Close
    \/ \E d \in drops : HandlerDrops(d)
    \/ \E t \in Calls, m \in {"status", "use", "refresh"} : StartCall(t, m)
    \/ \E t \in Threads : Advance(t)
    \/ MonitorStep \/ \E w \in Workers : MonitorSpawns(w)

(* Handlers and goroutines run, the monitor's timer fires, and what it     *)
(* finds due again and again is spawned in the end.                        *)
Fairness ==
    /\ \A d \in {"key", "matching"} : WF_vars(HandlerDrops(d))
    /\ \A t \in Threads : WF_vars(Advance(t))
    /\ WF_vars(MonitorStep)
    /\ \A w \in Workers : SF_vars(MonitorSpawns(w))

Spec == Init /\ [][Next]_vars
FairSpec == Spec /\ Fairness
------------------------------------------------------------------------------
Versions == (Configs \cup {NoVersion}) \X (Secrets \cup {NoVersion})
Generations == {"none", "current", "stale"}

TypeOK ==
    /\ enabled \in BOOLEAN /\ config \in Configs /\ secret \in Secrets
    /\ changes \in 0 .. MaxChanges
    /\ since \subseteq [enabled : BOOLEAN, config : Configs, secret : Secrets]
    /\ drops \subseteq {"key", "matching"} /\ up \in BOOLEAN /\ closed \in BOOLEAN
    /\ session \in Sessions \cup {NoSession} /\ open \subseteq Sessions
    /\ observation \in {"none", "configured", "healthy", "error"}
    /\ inFlight \in BOOLEAN /\ fingerprint \in Configs \cup {NoVersion}
    /\ made \in [Sessions -> Versions]
    /\ pc \in [Threads ->
          {"idle", "refreshing", "beginning", "reading", "checking", "registering",
           "resolving", "dropping", "reporting", "looking", "pinging", "using",
           "connecting", "probing", "failing", "healthy", "used", "ending"}]
    /\ mode \in [Threads -> {"none", "status", "use", "refresh", "ping", "reconnect"}]
    /\ gen \in [Threads -> Generations] /\ work \in [Threads -> Generations]
    /\ held \in [Threads -> Sessions \cup {NoSession}]
    /\ read \in [Threads \cup {Monitor} -> Versions]
    /\ monitor \in {"asleep", "checking", "looking", "pruning"} /\ desired \in BOOLEAN

(* A session that is open is the key's or is being probed by the goroutine *)
(* that opened it: none is forgotten, on any of the failure paths, in lost *)
(* install races, by drops or by Close.                                    *)
NoSessionLeak ==
    \A s \in open :
        \/ s = session
        \/ \E t \in Threads : pc[t] = "probing" /\ held[t] = s

(* At most one probe or reconnect is at work in a generation (11-02), and  *)
(* the in-flight flag that stops others is up exactly while it is.         *)
OneWorkPerGeneration ==
    /\ \A t, u \in Threads : work[t] = "current" /\ work[u] = "current" => t = u
    /\ ~closed => (inFlight <=> \E t \in Threads : work[t] = "current")

(* What a handler's drop did away with stays away: the key's session was   *)
(* opened under a selection, a definition and credentials that were in     *)
(* force at the drop or came since, whatever was connecting meanwhile      *)
(* (secret_refresh.go).  Of a change without a drop nothing is promised    *)
(* here.                                                                   *)
DroppedStaysGone ==
    session # NoSession =>
        /\ \E v \in since : v.enabled
        /\ \E v \in since : v.config = made[session][1]
        /\ \E v \in since : v.secret = made[session][2]

(* An MCP that stays disabled has no session in the end, also when nothing *)
(* dropped it: the web console's change is found by the monitor's prune.   *)
DisabledIsClosed == <>[]~enabled => <>[](session = NoSession)

(* After Close every session is closed in the end.                         *)
CloseClosesSessions == closed ~> open = {}

(* A used MCP whose connection broke is connected again in the end.        *)
Reconnects ==
    (session = NoSession /\ observation = "error") ~>
        \/ session # NoSession \/ observation = "none"
        \/ ~up \/ ~enabled \/ closed
==============================================================================
