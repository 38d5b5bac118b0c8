------------------------------ MODULE Registry -------------------------------
(***************************************************************************)
(* state.json: Workspaces, Environments, MCP definitions, Skill sources    *)
(* and Skills, what selects what, and the retention of each record         *)
(* (internal/store, catalog, workspace, environment, app/service.go).      *)
(*                                                                         *)
(* Every change is one store.Update under the store's mutex: one action.   *)
(* What a handler reads before its Update is in `call`, the one handler    *)
(* that is between its read and its Update.  An id is drawn at random, so  *)
(* one that was removed never comes back; here ids are reused, which only  *)
(* adds behaviours.  Names, configurations and paths are left out, except  *)
(* the root a Skill source reads.                                          *)
(***************************************************************************)
EXTENDS Naturals, FiniteSets

CONSTANTS
    Workspaces, Envs, Mcps, Sources,
    LooseSkills,  \* Skills added by name, of no source
    Paths,        \* paths of SKILL.md below a source's root
    Roots,        \* directories a source may read
    Owners,       \* owner ids of temporary resources
    None,
    MaxChanges    \* BOUND: changes administrators make (and damage done to worktrees)

ASSUME RegistryAssumption ==
    /\ MaxChanges \in Nat
    /\ None \notin Envs \cup Owners \cup Sources

\* StableID: a discovered Skill is known by its source and its path.
Skills == LooseSkills \cup (Sources \X Paths)
SourceOf(k) == IF k \in LooseSkills THEN None ELSE k[1]

Ages == {"never", "later", "past", "long past"}
\* temporary_environment_ttl, managed_worktree_temporary, any other text.
Policies == {"ttl", "worktree", "other"}
Durable == [temporary |-> FALSE, owner |-> None, expires |-> "never", attached |-> None,
            policy |-> "other"]
Temporary(o, x, a, p) ==
    [temporary |-> TRUE, owner |-> o, expires |-> x, attached |-> a, policy |-> p]
Retentions ==
    {Durable} \cup {Temporary(o, x, a, p) :
                      o \in Owners, x \in Ages, a \in Envs \cup {None}, p \in Policies}

VARIABLES
    ws,      \* state.Workspaces: what each selects
    env,     \* state.Environments: Workspace, selection, retention, lease, managed
    mcp,     \* state.MCPs: default inclusion and retention
    source,  \* state.SkillSources: root, default inclusion, retention
    skill,   \* state.Skills: default inclusion and retention
    call,    \* the handler between its read and its Update
    changes

records == <<ws, env, mcp, source, skill>>
registryVars == <<records, call, changes>>

Put(f, x, v) == [y \in DOMAIN f \cup {x} |-> IF y = x THEN v ELSE f[y]]
Without(f, S) == [y \in DOMAIN f \ S |-> f[y]]
Change == changes < MaxChanges /\ changes' = changes + 1
Idle == [kind |-> "idle"]

-----------------------------------------------------------------------------
(* Workspaces. *)
AddWorkspace(w) ==
    /\ Change
    /\ w \notin DOMAIN ws
    /\ ws' = Put(ws, w, {})
    /\ UNCHANGED <<env, mcp, source, skill, call>>

RemoveWorkspace(w) ==
    /\ Change
    /\ w \in DOMAIN ws
    /\ \A e \in DOMAIN env : env[e].ws # w
    /\ ws' = Without(ws, {w})
    /\ UNCHANGED <<env, mcp, source, skill, call>>

SetWorkspace(e, w) ==
    /\ Change
    /\ e \in DOMAIN env /\ ~env[e].managed /\ w \in DOMAIN ws
    /\ env' = [env EXCEPT ![e].ws = w]
    /\ UNCHANGED <<ws, mcp, source, skill, call>>

-----------------------------------------------------------------------------
(* Environments. *)
Defaults == {m \in DOMAIN mcp : mcp[m].default} \cup {k \in DOMAIN skill : skill[k].default}
newEnvironment(w, r) ==
    [ws |-> w, picks |-> Defaults, ret |-> r, writer |-> None, managed |-> FALSE]

\* The Workspace is looked up before the Update and not in it.
GetWorkspace(e, w, r) ==
    /\ Change
    /\ call = Idle /\ w \in DOMAIN ws
    /\ call' = [kind |-> "create", e |-> e, ws |-> w, ret |-> r]
    /\ UNCHANGED records

CreateEnvironment ==
    /\ call.kind = "create"
    /\ env' = IF call.e \in DOMAIN env THEN env
              ELSE Put(env, call.e, newEnvironment(call.ws, call.ret))
    /\ call' = Idle
    /\ UNCHANGED <<ws, mcp, source, skill, changes>>

\* Remove asks the host for a cleanup, for which it needs the Workspace.
Removable(e) ==
    ~env[e].managed /\ env[e].writer = None /\ env[e].ws \in DOMAIN ws

RemoveEnvironment(e) ==
    /\ Change
    /\ e \in DOMAIN env /\ Removable(e)
    /\ env' = Without(env, {e})
    /\ UNCHANGED <<ws, mcp, source, skill, call>>

\* What an Environment may use: its own selection and its Workspace's.
environmentView(e) ==
    env[e].picks \cup IF env[e].ws \in DOMAIN ws THEN ws[env[e].ws] ELSE {}

\* Whether the entry exists is asked before the Update; not asked to disable.
SetSelection(place, id, x, on) ==
    /\ Change
    /\ call = Idle
    /\ on => x \in DOMAIN mcp \cup DOMAIN skill
    /\ call' = [kind |-> "select", place |-> place, id |-> id, item |-> x, on |-> on]
    /\ UNCHANGED records

Toggled(S) == IF call.on THEN S \cup {call.item} ELSE S \ {call.item}
StoreSelection ==
    /\ call.kind = "select"
    /\ ws' = IF call.place = "ws" /\ call.id \in DOMAIN ws
             THEN [ws EXCEPT ![call.id] = Toggled(@)] ELSE ws
    /\ env' = IF call.place = "env" /\ call.id \in DOMAIN env
              THEN [env EXCEPT ![call.id].picks = Toggled(@)] ELSE env
    /\ call' = Idle
    /\ UNCHANGED <<mcp, source, skill, changes>>

-----------------------------------------------------------------------------
(* The catalogs.  Removing an entry by hand clears it everywhere. *)
Deselect(S) ==
    /\ ws' = [w \in DOMAIN ws |-> ws[w] \ S]
    /\ env' = [e \in DOMAIN env |-> [env[e] EXCEPT !.picks = @ \ S]]

AddMCP(m, d, r) ==
    /\ Change
    /\ m \notin DOMAIN mcp
    /\ mcp' = Put(mcp, m, [default |-> d, ret |-> r])
    /\ UNCHANGED <<ws, env, source, skill, call>>

SetMCPDefault(m, d) ==
    /\ Change
    /\ m \in DOMAIN mcp
    /\ mcp' = [mcp EXCEPT ![m].default = d]
    /\ UNCHANGED <<ws, env, source, skill, call>>

\* An import: all or nothing; an entry of that name is an error, is skipped,
\* or keeps its id and its retention.
ApplyBatch(S, d, policy) ==
    /\ Change
    /\ policy = "error" => S \cap DOMAIN mcp = {}
    /\ mcp' = [m \in DOMAIN mcp \cup S |->
                 IF m \notin DOMAIN mcp THEN [default |-> d, ret |-> Durable]
                 ELSE IF m \in S /\ policy = "update" THEN [mcp[m] EXCEPT !.default = d]
                 ELSE mcp[m]]
    /\ UNCHANGED <<ws, env, source, skill, call>>

RemoveMCP(m) ==
    /\ Change
    /\ m \in DOMAIN mcp
    /\ mcp' = Without(mcp, {m})
    /\ Deselect({m})
    /\ UNCHANGED <<source, skill, call>>

AddSkill(k, d) ==
    /\ Change
    /\ k \in LooseSkills \ DOMAIN skill
    /\ skill' = Put(skill, k, [default |-> d, ret |-> Durable])
    /\ UNCHANGED <<ws, env, mcp, source, call>>

SetSkillDefault(k, d) ==
    /\ Change
    /\ k \in DOMAIN skill
    /\ skill' = [skill EXCEPT ![k].default = d]
    /\ UNCHANGED <<ws, env, mcp, source, call>>

RemoveSkill(k) ==
    /\ Change
    /\ k \in DOMAIN skill
    /\ skill' = Without(skill, {k})
    /\ Deselect({k})
    /\ UNCHANGED <<mcp, source, call>>

SkillsOf(s) == {k \in DOMAIN skill : SourceOf(k) = s}
RootFree(s, r) == \A t \in DOMAIN source \ {s} : source[t].root # r

\* AddSkillRoot refreshes what it added and removes it again when that fails
\* or finds nothing: it is this action with the two that follow it.
AddSkillSource(s, r, d, t) ==
    /\ Change
    /\ s \notin DOMAIN source /\ RootFree(s, r)
    /\ source' = Put(source, s, [root |-> r, default |-> d, ret |-> t])
    /\ UNCHANGED <<ws, env, mcp, skill, call>>

UpdateSkillSource(s, r, d) ==
    /\ Change
    /\ s \in DOMAIN source /\ RootFree(s, r)
    /\ source' = [source EXCEPT ![s].root = r, ![s].default = d]
    /\ skill' = [k \in DOMAIN skill |->
                   IF SourceOf(k) = s THEN [skill[k] EXCEPT !.default = d] ELSE skill[k]]
    /\ UNCHANGED <<ws, env, mcp, call>>

RemoveSkillSource(s) ==
    /\ Change
    /\ s \in DOMAIN source
    /\ source' = Without(source, {s})
    /\ skill' = Without(skill, SkillsOf(s))
    /\ Deselect(SkillsOf(s))
    /\ UNCHANGED <<mcp, call>>

\* The source is read and its root walked before the Update.
DiscoverSource(s, found) ==
    /\ Change
    /\ call = Idle /\ s \in DOMAIN source
    /\ call' = [kind |-> "refresh", s |-> s, read |-> source[s], found |-> found]
    /\ UNCHANGED records

\* A mutation: whether the source is still there is not asked again.
RefreshGoneSource ==
    LET new == {call.s} \X call.found
    IN  /\ call.kind = "refresh"
        /\ source' = [s \in DOMAIN source |-> IF s = call.s THEN [source[s] EXCEPT
                          !.root = call.read.root, !.default = call.read.default] ELSE source[s]]
        /\ skill' = [k \in (DOMAIN skill \ SkillsOf(call.s)) \cup new |->
                       IF k \in new THEN [default |-> call.read.default, ret |-> call.read.ret]
                       ELSE skill[k]]
        /\ call' = Idle
        /\ UNCHANGED <<ws, env, mcp, changes>>

\* What was discovered replaces the source's Skills, and what was read then
\* is stored again; selections of a Skill that is gone are left.
RefreshSkillSource ==
    LET s == call.s
        new == {s} \X call.found
    IN  /\ call.kind = "refresh"
        /\ IF s \in DOMAIN source
           THEN /\ source' = [source EXCEPT ![s].root = call.read.root,
                                            ![s].default = call.read.default]
                /\ skill' = [k \in (DOMAIN skill \ SkillsOf(s)) \cup new |->
                              IF k \in new
                              THEN [default |-> call.read.default, ret |-> call.read.ret]
                              ELSE skill[k]]
           ELSE UNCHANGED <<source, skill>>
        /\ call' = Idle
        /\ UNCHANGED <<ws, env, mcp, changes>>

-----------------------------------------------------------------------------
(* Retention, as administrators set it. *)
Retain(kind, x, r) ==
    CASE kind = "env" -> /\ x \in DOMAIN env
                         /\ env' = [env EXCEPT ![x].ret = r]
                         /\ UNCHANGED <<ws, mcp, source, skill>>
      [] kind = "mcp" -> /\ x \in DOMAIN mcp
                         /\ mcp' = [mcp EXCEPT ![x].ret = r]
                         /\ UNCHANGED <<ws, env, source, skill>>
      [] kind = "source" ->
            /\ x \in DOMAIN source
            /\ source' = [source EXCEPT ![x].ret = r]
            /\ skill' = [k \in DOMAIN skill |->
                           IF SourceOf(k) = x THEN [skill[k] EXCEPT !.ret = r] ELSE skill[k]]
            /\ UNCHANGED <<ws, env, mcp>>
      [] kind = "skill" -> /\ x \in DOMAIN skill \cap LooseSkills
                           /\ skill' = [skill EXCEPT ![x].ret = r]
                           /\ UNCHANGED <<ws, env, mcp, source>>

Resources ==
    ({"env"} \X Envs) \cup ({"mcp"} \X Mcps) \cup ({"source"} \X Sources) \cup ({"skill"} \X Skills)

PromoteResourceRetention(x) ==
    /\ Change
    /\ x[1] = "env" /\ x[2] \in DOMAIN env => ~env[x[2]].managed
    /\ Retain(x[1], x[2], Durable)
    /\ UNCHANGED call

MarkResourceTemporary(x, r) ==
    /\ Change
    /\ r.temporary
    /\ r.attached \in DOMAIN env \cup {None}
    /\ Retain(x[1], x[2], r)
    /\ UNCHANGED call

\* What an Agent may do: only the owner, only a temporary Environment.
PromoteTemporaryEnvironment(e, o) ==
    /\ Change
    /\ e \in DOMAIN env
    /\ ~env[e].managed /\ env[e].ret.temporary /\ env[e].ret.owner = o
    /\ Retain("env", e, Durable)
    /\ UNCHANGED call

MigrateManagedWorktreeRetention(o) ==
    /\ Change
    /\ env' = [e \in DOMAIN env |->
                 IF env[e].managed /\ ~env[e].ret.temporary
                 THEN [env[e] EXCEPT !.ret = Temporary(o, "later", None, "worktree")] ELSE env[e]]
    /\ UNCHANGED <<ws, mcp, source, skill, call>>

\* Time goes on for one resource: its expiry passes, then the grace period.
Ripen(r) == IF ~r.temporary THEN r
            ELSE [r EXCEPT !.expires = CASE @ = "later" -> "past"
                                         [] @ = "past" -> "long past"
                                         [] OTHER -> @]
TimePasses ==
    /\ env' = [e \in DOMAIN env |-> [env[e] EXCEPT !.ret = Ripen(@)]]
    /\ mcp' = [m \in DOMAIN mcp |-> [mcp[m] EXCEPT !.ret = Ripen(@)]]
    /\ source' = [s \in DOMAIN source |-> [source[s] EXCEPT !.ret = Ripen(@)]]
    /\ skill' = [k \in DOMAIN skill |-> [skill[k] EXCEPT !.ret = Ripen(@)]]
    /\ UNCHANGED <<ws, call, changes>>

\* An Agent's lease, which WriterLease models in full.
Lease(e) ==
    /\ e \in DOMAIN env /\ env[e].writer \in {None, "agent"}
    /\ env' = [env EXCEPT ![e].writer = IF @ = None THEN "agent" ELSE None]
    /\ UNCHANGED <<ws, mcp, source, skill, call, changes>>
=============================================================================
