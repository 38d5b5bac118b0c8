------------------------------ MODULE Retention ------------------------------
(***************************************************************************)
(* Cleanup of temporary resources (app/resource_retention.go, gateway      *)
(* /resource_retention.go, temporary_environment.go) over the registry.    *)
(* A cleanup reports what is eligible, asks the runtime owner what is in   *)
(* use, removes records in one store.Update that decides again, destroys   *)
(* managed worktrees one by one under a lease of its own, and drops what   *)
(* the runtime still holds of the removed.  Agents, administrators and     *)
(* other cleanups run in between.                                          *)
(***************************************************************************)
EXTENDS Registry

CONSTANTS
    Monitor, Admin,  \* the Gateway's hourly cleanup; an administrator's
    MaxCleanups      \* BOUND: cleanups administrators ask for

ASSUME RetentionAssumption == MaxCleanups \in Nat /\ Monitor # Admin

Sweepers == {Monitor, Admin}

VARIABLES
    session,  \* o.sessions: keys <<Environment, MCP>>
    work,     \* Environments an operation, process, run or verifier runs in
    tree,     \* managed worktrees: uncommitted or ignored files, or broken
    sweep,    \* where each cleanup is
    cleanups  \* how many an administrator asked for

runtimeVars == <<session, work, tree>>
vars == <<registryVars, runtimeVars, sweep, cleanups>>

Ask == cleanups < MaxCleanups /\ cleanups' = cleanups + 1
Resting == [pc |-> "idle"]
Step(t, pc) == sweep' = [sweep EXCEPT ![t].pc = pc]
End(t) == sweep' = [sweep EXCEPT ![t] = Resting]

-----------------------------------------------------------------------------
(* What a report says. *)
Lapsed(r) == r.temporary /\ r.expires \in {"past", "long past"}

\* Environments' own selections only: what a Workspace selects does not count.
Selected(x) == \E e \in DOMAIN env : x \in env[e].picks
Attached(r) == r.attached \in DOMAIN env

Retained(x) == CASE x[1] = "env" -> env[x[2]].ret
                 [] x[1] = "mcp" -> mcp[x[2]].ret
                 [] x[1] = "source" -> source[x[2]].ret
                 [] x[1] = "skill" -> skill[x[2]].ret

Present == ({"env"} \X DOMAIN env) \cup ({"mcp"} \X DOMAIN mcp)
              \cup ({"source"} \X DOMAIN source) \cup ({"skill"} \X DOMAIN skill)

\* The blockers that the records show.
StaticallyBlocked(x) ==
    CASE x[1] = "env" -> env[x[2]].writer # None
      [] x[1] = "mcp" -> Selected(x[2]) \/ Attached(mcp[x[2]].ret)
      [] x[1] = "source" ->
            (\E k \in SkillsOf(x[2]) : Selected(k)) \/ Attached(source[x[2]].ret)
      [] x[1] = "skill" ->
            SourceOf(x[2]) # None \/ Selected(x[2]) \/ Attached(skill[x[2]].ret)

\* A mutation: idle sessions of an expired Environment count as well.
BlockedBySessions(x) ==
    CASE x[1] = "env" -> x[2] \in work \/ \E m \in Mcps : <<x[2], m>> \in session
      [] x[1] = "mcp" -> \E e \in Envs : <<e, x[2]>> \in session
      [] OTHER -> FALSE

\* Those the runtime owner adds; an expired Environment's idle sessions do
\* not count.
runtimeRetentionBlockers(x) ==
    CASE x[1] = "env" ->
            \/ x[2] \in work
            \/ /\ \E m \in Mcps : <<x[2], m>> \in session
               /\ x[2] \in DOMAIN env => ~Lapsed(env[x[2]].ret)
      [] x[1] = "mcp" -> \E e \in Envs : <<e, x[2]>> \in session
      [] OTHER -> FALSE

-----------------------------------------------------------------------------
(* A cleanup: "one" Environment of an owner, "all" resources, the "expired" *)
(* Environments, or the "long past" ones, forced, by the monitor; or the    *)
(* "stale" worktrees an administrator lists.                                *)
Forced(kind) == kind \in {"long past", "forced"}
Stale(kind) == kind \in {"stale", "stale forced"}

\* A managed worktree with changes is blocked unless the cleanup is forced; a
\* broken one unless it is to recover broken ones, and can.
enrichManagedWorktreeRetention(x, kind) ==
    /\ x[1] = "env" /\ env[x[2]].managed
    /\ \/ tree[x[2]] = "dirty" /\ ~Forced(kind)
       \/ tree[x[2]] = "broken" /\ kind # "forced"

Eligible(x, kind) ==
    /\ x \in Present /\ Lapsed(Retained(x))
    /\ ~StaticallyBlocked(x)
    /\ ~runtimeRetentionBlockers(x)
    /\ ~enrichManagedWorktreeRetention(x, kind)

\* The monitor's forced pass is for explicit time limits only.
Covered(kind, e) ==
    CASE kind = "one" -> {<<"env", e>>} \cap Present
      [] kind = "all" -> Present
      [] kind = "long past" ->
            {"env"} \X {d \in DOMAIN env :
                           env[d].ret.expires = "long past" /\ env[d].ret.policy = "ttl"}
      [] OTHER -> {"env"} \X {d \in DOMAIN env : Lapsed(env[d].ret)}

\* The owner is that of the record read before the report.
BeginOne(e, o) ==
    /\ Ask
    /\ sweep[Admin] = Resting
    /\ e \in DOMAIN env /\ env[e].ret.temporary /\ env[e].ret.owner = o
    /\ sweep' = [sweep EXCEPT ![Admin] =
                   [pc |-> "report", kind |-> "one", at |-> e, seen |-> {}, gone |-> {},
                    force |-> FALSE]]
    /\ UNCHANGED <<registryVars, runtimeVars>>

Begin(t, kind) ==
    /\ sweep[t] = Resting
    /\ IF kind = "expired" THEN t = Monitor /\ UNCHANGED cleanups ELSE t = Admin /\ Ask
    /\ sweep' = [sweep EXCEPT ![t] =
                   [pc |-> "report", kind |-> kind, at |-> None, seen |-> {}, gone |-> {},
                    force |-> FALSE]]
    /\ UNCHANGED <<registryVars, runtimeVars>>

\* seen: what is eligible, and every source and Skill the report covers.
Report(t) ==
    LET covered == Covered(sweep[t].kind, sweep[t].at)
        eligible == {x \in covered : Eligible(x, sweep[t].kind)}
    IN  /\ sweep[t].pc = "report"
        /\ IF sweep[t].kind = "one" /\ eligible = {} THEN End(t)
           ELSE sweep' = [sweep EXCEPT
                   ![t].seen = eligible \cup {x \in covered : x[1] \in {"source", "skill"}},
                   ![t].pc = IF sweep[t].kind = "one" THEN "recheck" ELSE "update"]
        /\ UNCHANGED <<registryVars, runtimeVars>>

\* The stale worktrees of durable Environments, and of those that the migration
\* made temporary, are listed and cleaned by hand; how long nobody was active is
\* left to the administrator, and no expiry is asked for.  Changes are only
\* given up by force, and only those of the latter.
Migrated(e) == env[e].ret.temporary /\ env[e].ret.policy = "worktree"
StaleCandidate(e, kind) ==
    /\ e \in DOMAIN env /\ env[e].managed /\ (env[e].ret.temporary => Migrated(e))
    /\ env[e].writer = None
    /\ tree[e] = "clean" \/ (tree[e] = "dirty" /\ kind = "stale forced" /\ Migrated(e))
    /\ ~runtimeRetentionBlockers(<<"env", e>>)

StaleManagedWorktreeCleanup(S, kind) ==
    /\ Ask
    /\ sweep[Admin] = Resting
    /\ sweep' = [sweep EXCEPT ![Admin] =
                   [pc |-> "managed", kind |-> kind, at |-> None,
                    seen |-> {e \in S : StaleCandidate(e, kind)}, gone |-> {}, force |-> FALSE]]
    /\ UNCHANGED <<registryVars, runtimeVars>>

RecheckRuntime(t) ==
    /\ sweep[t].pc = "recheck"
    /\ IF runtimeRetentionBlockers(<<"env", sweep[t].at>>) THEN End(t) ELSE Step(t, "update")
    /\ UNCHANGED <<registryVars, runtimeVars>>

\* A mutation: the report is believed.
ReportedSafe(t, x) ==
    /\ x \in sweep[t].seen \cap Present
    /\ x[1] \in {"source", "skill"} => Lapsed(Retained(x)) /\ ~StaticallyBlocked(x)
    /\ x[1] = "env" => ~env[x[2]].managed

\* The one Update: of what the report covers and found eligible, what still
\* is, by the records of now.  Skill sources and Skills need no runtime.
StillSafe(t, x) ==
    /\ x \in sweep[t].seen \cap Present
    /\ Lapsed(Retained(x)) /\ ~StaticallyBlocked(x)
    /\ x[1] = "env" => Removable(x[2])

Ids(S, kind) == {x[2] : x \in {y \in S : y[1] = kind}}

removeRecords(S) ==
    /\ env' = Without(env, Ids(S, "env"))
    /\ mcp' = Without(mcp, Ids(S, "mcp"))
    /\ source' = Without(source, Ids(S, "source"))
    /\ skill' = Without(skill, Ids(S, "skill")
                                 \cup {k \in DOMAIN skill : SourceOf(k) \in Ids(S, "source")})
    /\ UNCHANGED <<ws, call>>

\* An index that cannot be removed ends the cleanup before anything is dropped.
executeRetentionCleanup(t) ==
    LET removed == {x \in Present : StillSafe(t, x)}
        worktrees == {e \in Ids(sweep[t].seen, "env") : e \in DOMAIN env /\ env[e].managed}
        kind == IF sweep[t].kind = "all" THEN "mcp" ELSE "env"
    IN  /\ sweep[t].pc = "update"
        /\ removeRecords(removed)
        /\ \/ Ids(removed, "env") # {} /\ End(t)
           \/ sweep' = [sweep EXCEPT ![t].pc = IF kind = "mcp" THEN "drop" ELSE "managed",
                                     ![t].seen = worktrees, ![t].gone = Ids(removed, kind)]
        /\ UNCHANGED <<runtimeVars, changes>>

\* Without the Gateway only Skills and their sources can be removed.
ResourceRetentionCleanup ==
    /\ Ask
    /\ removeRecords({x \in Present : /\ x[1] \in {"source", "skill"}
                                      /\ Lapsed(Retained(x)) /\ ~StaticallyBlocked(x)})
    /\ UNCHANGED <<runtimeVars, changes, sweep>>

-----------------------------------------------------------------------------
(* cleanupManagedWorktreeRetention: one worktree after the other. *)
Skip(t) == sweep' = [sweep EXCEPT ![t].pc = "managed", ![t].seen = @ \ {sweep[t].at},
                                  ![t].force = FALSE]

CheckWorktree(t, e) ==
    /\ sweep[t].pc = "managed" /\ e \in sweep[t].seen
    /\ sweep' = IF IF Stale(sweep[t].kind) THEN StaleCandidate(e, sweep[t].kind)
                   ELSE /\ e \in DOMAIN env /\ env[e].managed /\ Lapsed(env[e].ret)
                        /\ ~runtimeRetentionBlockers(<<"env", e>>)
                THEN [sweep EXCEPT ![t].pc = "acquire", ![t].at = e, ![t].force =
                        Forced(sweep[t].kind) \/ (sweep[t].kind = "stale forced" /\ Migrated(e))]
                ELSE [sweep EXCEPT ![t].seen = @ \ {e}]
    /\ UNCHANGED <<registryVars, runtimeVars>>

AcquireWorktree(t) ==
    LET e == sweep[t].at
        free == e \in DOMAIN env /\ env[e].writer = None
    IN  /\ sweep[t].pc = "acquire"
        /\ env' = IF free THEN [env EXCEPT ![e].writer = t] ELSE env
        /\ IF free THEN Step(t, "confirm") ELSE Skip(t)
        /\ UNCHANGED <<ws, mcp, source, skill, call, changes, runtimeVars>>

GiveBackWriter(t) ==
    env' = [e \in DOMAIN env |-> IF e = sweep[t].at /\ env[e].writer = t
                                 THEN [env[e] EXCEPT !.writer = None] ELSE env[e]]

ConfirmWorktree(t) ==
    /\ sweep[t].pc = "confirm"
    /\ IF runtimeRetentionBlockers(<<"env", sweep[t].at>>)
       THEN GiveBackWriter(t) /\ Skip(t)
       ELSE Step(t, "destroy") /\ UNCHANGED env
    /\ UNCHANGED <<ws, mcp, source, skill, call, changes, runtimeVars>>

\* Destroy and DestroyForRetentionCleanup ask about the lease and, unless forced,
\* about changes again; a forced retention cleanup recovers a broken worktree,
\* which may fail, and the cleanup of stale ones looks whether it is broken
\* (ManagedWorktree models them in full).
Destroyable(t, e, recovers) ==
    /\ e \in DOMAIN env /\ env[e].writer = t
    /\ \/ tree[e] = "clean"
       \/ tree[e] = "dirty" /\ sweep[t].force
       \/ tree[e] = "broken" /\ Forced(sweep[t].kind) /\ recovers

DestroyWorktree(t) ==
    LET e == sweep[t].at
    IN  /\ sweep[t].pc = "destroy"
        /\ \E recovers \in BOOLEAN :
           IF Destroyable(t, e, recovers)
           THEN /\ env' = Without(env, {e})
                /\ sweep' = [sweep EXCEPT ![t].pc = IF Stale(sweep[t].kind) THEN "drop" ELSE "managed",
                               ![t].seen = @ \ {e}, ![t].force = FALSE,
                               ![t].gone = IF sweep[t].kind = "all" THEN @ ELSE @ \cup {e}]
                /\ tree' = [tree EXCEPT ![e] = "clean"]
           ELSE GiveBackWriter(t) /\ Skip(t) /\ UNCHANGED tree
        /\ UNCHANGED <<ws, mcp, source, skill, call, changes, session, work>>

WorktreesDone(t) ==
    /\ sweep[t].pc = "managed" /\ sweep[t].seen = {}
    /\ IF sweep[t].kind = "all" \/ Stale(sweep[t].kind) THEN End(t) ELSE Step(t, "drop")
    /\ UNCHANGED <<registryVars, runtimeVars>>

\* DropEnvironment and DropMCP; the monitor goes on with the forced pass.
Drop(t) ==
    /\ sweep[t].pc = "drop"
    /\ IF sweep[t].kind = "all"
       THEN /\ session' = {k \in session : k[2] \notin sweep[t].gone}
            /\ Step(t, "managed")
            /\ UNCHANGED work
       ELSE /\ session' = {k \in session : k[1] \notin sweep[t].gone}
            /\ work' = work \ sweep[t].gone
            /\ IF t = Monitor /\ sweep[t].kind = "expired"
               THEN sweep' = [sweep EXCEPT ![t].pc = "report", ![t].kind = "long past",
                                ![t].gone = {}]
               ELSE IF Stale(sweep[t].kind) THEN Step(t, "managed") ELSE End(t)
    /\ UNCHANGED <<registryVars, tree>>

-----------------------------------------------------------------------------
(* The runtime, as far as a cleanup sees it. *)
StartWork(e) ==
    /\ e \in DOMAIN env \ work
    /\ work' = work \cup {e}
    /\ UNCHANGED <<registryVars, session, tree, sweep, cleanups>>

Connect(e, m) ==
    /\ e \in work \cap DOMAIN env /\ m \in environmentView(e) \cap DOMAIN mcp
    /\ session' = session \cup {<<e, m>>}
    /\ UNCHANGED <<registryVars, work, tree, sweep, cleanups>>

EndWork(e) ==
    /\ e \in work
    /\ work' = work \ {e}
    /\ UNCHANGED <<registryVars, session, tree, sweep, cleanups>>

Soil(e) ==
    /\ e \in DOMAIN env /\ env[e].managed /\ env[e].writer = "agent"
    /\ tree[e] = "clean" /\ tree' = [tree EXCEPT ![e] = "dirty"]
    /\ UNCHANGED <<registryVars, session, work, sweep, cleanups>>

\* Its directory or its Git metadata is damaged or replaced.
Break(e) ==
    /\ Change
    /\ e \in DOMAIN env /\ env[e].managed
    /\ tree[e] # "broken" /\ tree' = [tree EXCEPT ![e] = "broken"]
    /\ UNCHANGED <<records, call, session, work, sweep, cleanups>>

\* monitorOnce: sessions nobody may have any more, and those an expired
\* Environment does not use, are closed.
Prune ==
    /\ session' = {k \in session :
                     \/ /\ k[1] \in DOMAIN env /\ ~Lapsed(env[k[1]].ret)
                        /\ k[2] \in environmentView(k[1]) \cap DOMAIN mcp
                     \/ k[1] \in work /\ (k[1] \in DOMAIN env => k[2] \in DOMAIN mcp)}
    /\ session' # session
    /\ UNCHANGED <<registryVars, work, tree, sweep, cleanups>>

-----------------------------------------------------------------------------
\* A state file of an earlier session.
Soon(policies) == {Temporary(o, "later", None, p) : o \in Owners, p \in policies}
Init ==
    /\ ws = [w \in Workspaces |-> {}]
    /\ env \in [Envs -> [ws : Workspaces, picks : {{}}, writer : {None}, managed : BOOLEAN,
                         ret : {Durable} \cup Soon({"ttl", "worktree"})]]
    /\ \A e \in Envs : env[e].ret.policy = "worktree" => env[e].managed
    /\ mcp \in [Mcps -> [default : {FALSE}, ret : Soon({"other"})]]
    /\ source \in [Sources -> [root : Roots, default : {FALSE}, ret : Soon({"other"})]]
    /\ skill \in [Sources \X Paths -> [default : {FALSE}, ret : Soon({"other"})]]
    /\ call = Idle
    /\ changes = 0 /\ cleanups = 0
    /\ session = {} /\ work = {} /\ tree = [e \in Envs |-> "clean"]
    /\ sweep = [t \in Sweepers |-> Resting]

\* What administrators and Agents ask for.
FreshEntry == {Durable} \cup {Temporary(o, "later", a, "other") :
                                o \in Owners, a \in Envs \cup {None}}

Administer ==
    /\ \/ \E w \in Workspaces : AddWorkspace(w) \/ RemoveWorkspace(w)
       \/ \E e \in Envs, w \in Workspaces : SetWorkspace(e, w)
       \/ \E e \in Envs : RemoveEnvironment(e) \/ Lease(e)
       \/ \E e \in Envs \ DOMAIN env, w \in Workspaces, r \in {Durable} \cup Soon({"ttl"}) :
             GetWorkspace(e, w, r)
       \/ \E x \in Mcps \cup Skills :
             \/ \E w \in DOMAIN ws : SetSelection("ws", w, x, x \notin ws[w])
             \/ \E e \in DOMAIN env : SetSelection("env", e, x, x \notin env[e].picks)
       \/ CreateEnvironment \/ StoreSelection \/ RefreshSkillSource
       \/ \E m \in Mcps : \/ \E r \in FreshEntry : AddMCP(m, TRUE, r)
                          \/ \E d \in BOOLEAN : SetMCPDefault(m, d)
                          \/ RemoveMCP(m)
       \/ \E p \in {"error", "skip", "update"} : ApplyBatch(Mcps, TRUE, p)
       \/ \E k \in Skills : \/ AddSkill(k, TRUE) \/ \E d \in BOOLEAN : SetSkillDefault(k, d)
                            \/ RemoveSkill(k)
       \/ \E s \in Sources :
             \/ \E r \in Roots, d \in BOOLEAN :
                   \/ UpdateSkillSource(s, r, d)
                   \/ \E t \in FreshEntry : d /\ AddSkillSource(s, r, d, t)
             \/ RemoveSkillSource(s)
             \/ \E found \in SUBSET Paths : DiscoverSource(s, found)
       \/ \E x \in Resources : \/ PromoteResourceRetention(x)
                               \/ \E r \in IF x[1] = "env" THEN Soon({"other"}) ELSE FreshEntry :
                                     MarkResourceTemporary(x, r)
       \/ \E e \in Envs, o \in Owners : PromoteTemporaryEnvironment(e, o)
       \/ \E o \in Owners : MigrateManagedWorktreeRetention(o)
       \/ TimePasses
    /\ UNCHANGED <<runtimeVars, sweep, cleanups>>

Clean(t) ==
  /\ UNCHANGED cleanups
  /\ \/ Report(t) \/ RecheckRuntime(t) \/ executeRetentionCleanup(t)
     \/ \E e \in Envs : CheckWorktree(t, e)
     \/ AcquireWorktree(t) \/ ConfirmWorktree(t) \/ DestroyWorktree(t)
     \/ WorktreesDone(t) \/ Drop(t)

Next ==
    \/ Administer
    \/ ResourceRetentionCleanup
    \/ \E e \in Envs, o \in Owners : BeginOne(e, o)
    \/ \E S \in SUBSET Envs, kind \in {"stale", "stale forced"} : StaleManagedWorktreeCleanup(S, kind)
    \/ \E t \in Sweepers, kind \in {"all", "forced", "expired"} : Begin(t, kind)
    \/ \E t \in Sweepers : Clean(t)
    \/ \E e \in Envs : StartWork(e) \/ EndWork(e) \/ Soil(e) \/ Break(e)
    \/ \E e \in Envs, m \in Mcps : Connect(e, m)
    \/ Prune

\* The Gateway's monitor has its own timer, and what it began it goes on with.
Fairness == WF_vars(Begin(Monitor, "expired") \/ Clean(Monitor))

Spec == Init /\ [][Next]_vars
FairSpec == Spec /\ Fairness

-----------------------------------------------------------------------------
Calls ==
    {Idle} \cup [kind : {"create"}, e : Envs, ws : Workspaces, ret : Retentions]
           \cup [kind : {"select"}, place : {"ws", "env"}, id : Workspaces \cup Envs,
                 item : Mcps \cup Skills, on : BOOLEAN]
           \cup [kind : {"refresh"}, s : Sources, found : SUBSET Paths,
                 read : [root : Roots, default : BOOLEAN, ret : Retentions]]
Sweeps ==
    [pc : {"report", "recheck", "update", "managed", "acquire", "confirm", "destroy", "drop"},
     kind : {"one", "all", "forced", "expired", "long past", "stale", "stale forced"},
     force : BOOLEAN,
     at : Envs \cup {None}, seen : SUBSET (Resources \cup Envs), gone : SUBSET (Envs \cup Mcps)]

EnvRecords ==
    [ws : Workspaces, picks : SUBSET (Mcps \cup Skills), ret : Retentions,
     writer : {None, "agent"} \cup Sweepers, managed : BOOLEAN]
RecordsOK ==
    /\ DOMAIN ws \subseteq Workspaces /\ DOMAIN env \subseteq Envs
    /\ \A e \in DOMAIN env : env[e] \in EnvRecords
    /\ DOMAIN mcp \subseteq Mcps /\ DOMAIN source \subseteq Sources /\ DOMAIN skill \subseteq Skills
    /\ \A m \in DOMAIN mcp : mcp[m] \in [default : BOOLEAN, ret : Retentions]
    /\ \A s \in DOMAIN source : source[s] \in [root : Roots, default : BOOLEAN, ret : Retentions]
    /\ \A k \in DOMAIN skill : skill[k] \in [default : BOOLEAN, ret : Retentions]
TypeOK ==
    /\ RecordsOK
    /\ call \in Calls /\ sweep \in [Sweepers -> {Resting} \cup Sweeps]
    /\ session \subseteq Envs \X Mcps /\ work \subseteq Envs
    /\ tree \in [Envs -> {"clean", "dirty", "broken"}]

(* A Skill of a source is there only while its source is, whatever refresh, *)
(* removal and cleanup run into each other (RefreshSkillSource,             *)
(* RemoveSkillSource, removeSkillSourceState).                              *)
NoOrphanSkills == \A k \in DOMAIN skill : SourceOf(k) = None \/ SourceOf(k) \in DOMAIN source

(* A cleanup's Update removes only what is temporary and past its expiry,   *)
(* selected by no Environment, attached to none, and under no lease, at     *)
(* that moment and not only in the report it decided from                   *)
(* (ResourceRetentionCleanupFromRuntimeReport).                             *)
Removed == {x \in Present :
              x[2] \notin CASE x[1] = "env" -> DOMAIN env' [] x[1] = "mcp" -> DOMAIN mcp'
                           [] x[1] = "source" -> DOMAIN source' [] x[1] = "skill" -> DOMAIN skill'}
Unused(x) ==
    /\ Lapsed(Retained(x))
    /\ x[1] = "env" => env[x[2]].writer \in {None} \cup Sweepers
    /\ x[1] # "env" => ~Attached(Retained(x))
    /\ x[1] = "source" => \A k \in SkillsOf(x[2]) : ~Selected(k)
    /\ x[1] \in {"mcp", "skill"} => ~Selected(x[2])
SourceRemoved(x) == x[1] = "skill" /\ SourceOf(x[2]) # None /\ <<"source", SourceOf(x[2])>> \in Removed
RemovesOnlyUnused ==
    (\E t \in Sweepers : sweep[t].pc = "update" /\ sweep'[t].pc # "update")
      => \A x \in Removed : Unused(x) \/ SourceRemoved(x)
CleanupRemovesOnlyUnused == [][RemovesOnlyUnused]_vars

(* An expired temporary Environment nobody works in does not stay for ever: *)
(* the monitor removes it, though sessions to MCPs may be left open and     *)
(* others clean up as well; one with changes only when an explicit limit is *)
(* long past (monitorExpiredTemporaryEnvironments).                         *)
Reclaimable(e) ==
    /\ e \in DOMAIN env /\ Lapsed(env[e].ret)
    /\ env[e].writer \in {None, Monitor} /\ e \notin work
    /\ env[e].managed \/ env[e].ws \in DOMAIN ws
    /\ tree[e] # "broken"
    /\ tree[e] = "dirty" => env[e].ret.expires = "long past" /\ env[e].ret.policy = "ttl"
ExpiredEnvironmentGoes == \A e \in Envs : ~<>[]Reclaimable(e)
=============================================================================
