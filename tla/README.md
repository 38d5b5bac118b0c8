# A TLA+ model of ai-dev-manager

`ai-dev-manager` (ADM) keeps a registry of Workspaces and Environments for
coding agents, hands out one writer lease per physical directory, and runs a
Gateway process that executes agents' commands, dev processes and verifiers,
indexes projects and keeps sessions to external MCP servers. This directory
holds TLA+ modules of the parts of it where steps of several actors meet, TLC
configurations that check them on small instances, and proofs checked by TLAPS.

Contents: 1 inventory, 2 modules and their order, 3 each module and its code,
4 the runs and their bounds, 5 fairness, 6 what is proved, 7 where the code and
its documents differ, 8 what is not modelled.

## 1. Inventory

The components, the state each keeps, and what makes it correct. `PROJECT.json`
lists all of them with their files, modules and status; this section speaks of
those with state.

| component | state | operations | what makes it hard | what must hold |
|---|---|---|---|---|
| State store (`internal/store`) | one JSON file, a process mutex | `View`, `Update` | several processes, crash during save | an `Update` is all or nothing |
| Writer lease (`internal/environment`) | `env.Writer` of each Environment | create, acquire, heartbeat, require, touch, release, remove | expiry, a clock set back, roots that contain each other | one writer per physical directory |
| Guarded operations (`internal/app/service.go`, `git_workflow.go`) | policy, denials; the directory and its Git repository | `Write`, `Edit`, `Delete`, `Exec`, `RunVerifier`, `GitCommit`, the Git mutations | a lease asked before and touched after, a heartbeat meanwhile, other hands in the directory | no command outlives its lease for long, blocked executables stay out, commits lose nothing |
| Owned commands (`internal/gateway/runtime_*`) | maps of runs, processes, verifier runs | start, execute, heartbeat, cancel, drop, `Close` | requests, goroutines and drops race | no unreachable process, truthful end states |
| MCP sessions (`gateway/runtime_owner.go`, `runtime_mcp_observation.go`) | sessions, generations, observations, in-flight flags, fingerprints | calls, refresh, monitor, drop, reconcile, `Close` | connects outlive the change that makes them stale | no leak, nothing dropped comes back, a disabled one ends |
| Managed worktrees (`internal/isolation`) | git worktree, branch, Environment record, settings | create, destroy, update settings | many steps on disk and in the store, each may fail | rollback is complete, work is not lost |
| Project index (`app/index_*.go`, `gateway/index_auto_watch.go`) | jobs, generations, setting, watches | start, run, publish, query, cleanup | a job outlives its Environment, a crash falls between two files | whole generations, no orphan index |
| Catalog, Workspaces, selections (`internal/catalog`, `workspace`, `skill`) | records of the state file | single `Update`s, refresh of Skill sources | references between records, reads before an update | no dangling reference |
| Retention (`app/resource_retention.go`, `gateway/resource_retention.go`) | retention of records, temporary Environments | report, cleanup, promotion, migration | report and removal are apart | nothing in use is removed, what is unused goes |
| Gateway lifecycle (`gateway/lifecycle.go`, CLI, desktop) | processes, listen address | start, stop, restart, prepare an update | a client acts on what it saw before | nobody ends what it did not look at |
| Gateway service (`internal/gatewayservice`, `cli/gateway_service.go`) | systemd unit, access settings | install, uninstall, reconfigure, start, stop | each of several steps may fail | a failed installation is undone |
| Sandbox (`internal/sandbox`, `internal/desktop/sandbox_*`) | ACL entries, AppContainer profile, broker leases | prepare, borrow, run, give back, clean up | two processes, lost answers, crashes | a running command can traverse, nothing granted stays |
| Secrets, memory, verifier and skill records | files and records | single updates | - | inputs of the above |
| Desktop, CLI, web console, admin MCP | connection profiles, UI | adapters of the services | update while the Gateway runs | see the lifecycle |
| Runtime, host environment, project analysis, code intelligence | - | operating-system calls, parsing, queries | - | - |

Interactions. Every change of the state file is one `store.Update` under the
store's mutex. What runs under a lease (guarded operations, owned commands,
destroys) asks `RequireWriter` at its start and renews by `HeartbeatWriter` or
`Touch`. The runtime owner is told of removals by `DropEnvironment`,
`DropMatching` and `Reconcile`; nobody tells it of a lapsed lease, which its
heartbeats find. Retention asks the owner what is in use and then removes
records, worktrees and what the owner still holds. The removal of an Environment
also cleans the index and the sandbox access. Clients know a Gateway only
through `/healthz`, `/shutdown` and the process table.

## 2. The modules

In the order in which they were written: what most depends on comes first.

| module | extends / implements | status |
|---|---|---|
| `SingleWriter` | - | the abstract lease |
| `WriterLease`, `EnvironmentProofs` | implements `SingleWriter` | checked, proved |
| `OwnedRuns`, `OwnedRunsProofs` | uses what `WriterLease` grants | checked, safety proved |
| `McpSessions`, `McpSessionsProofs` | - | checked, safety proved |
| `ManagedWorktree`, `ManagedWorktreeProofs` | uses what `WriterLease` grants | checked, proved |
| `ProjectIndex`, `ProjectIndexProofs` | - | checked, safety proved |
| `Registry` | - | the state file: part of `Retention` |
| `Retention`, `EnvironmentProofs` | extends `Registry` | checked, proved |
| `GatewayProcess` | - | processes and clients: part of `GatewayService` |
| `GatewayService`, `GatewayServiceProofs` | extends `GatewayProcess` | checked, proved |
| `SandboxBroker` | - | host and broker: part of `SandboxAccess` |
| `SandboxAccess`, `SandboxAccessProofs` | extends `SandboxBroker` | checked, proved |
| `ExecPolicy` | - | lists and denials: part of `GuardedCalls` |
| `GuardedCalls`, `GuardedCallsProofs` | extends `ExecPolicy` | checked, proved |

`MC*.tla` instantiate them for TLC; each `.cfg` belongs to the run of its name.

What is left, in the order of what it would say: the state file on disk and other processes on it
(`store.go:43`); the configuration fingerprint of MCP sessions
(`runtime_owner.go:564`); MCP activation and health, the secret vault and the
import of configurations; the code-intelligence routes. The hazards without a
property in `PROJECT.json` say why each has none.

## 3. The modules and the code

Common to all: an action is what happens without another goroutine, process or
crash being able to come between; a handler that releases a mutex, waits or
calls another process is several actions, joined by a program counter. A refused
request that changes nothing is a stutter and no action. Each definition is
mapped to its lines in `PROJECT.json`.

### WriterLease and SingleWriter

`internal/environment/service.go`. `writer[e]` is `env.Writer`, `status[e]` is
whether the record is in the state file, `now` the wall clock `s.now()`. One
action is one `store.Update`. `WithLease` is what `activeWriterOverlap` leaves
behind, the expired leases it passed being cleared. `RequireWriter` is
`RequireWriter`, `HeartbeatWriter` and `Touch`, which renew the lease under the
same conditions. The clock may be set back, and a loaded state file may hold
leases without an expiry, as old versions wrote them.

`SingleWriter` says what a lease promises: a set of grants, never two that reach
one directory. `ImplementsSingleWriter` maps the recorded leases that carry an
expiry, live or not, to grants. Live ones alone would not do: when the clock is
set back a lease can come alive again, which in the abstract specification
would be a grant out of nothing.

### OwnedRuns

`internal/gateway/runtime_run.go`, `runtime_process.go`, `runtime_verifier.go`
and the maps of `runtime_owner.go`. A command goes through admission (writer
check), launch, observation, installation in the owner's map, execution and
settlement, each an action; `Kind` tells agent runs, dev processes and verifier
runs apart where their code differs. `registered` stands for the three maps,
`stopping` for the commands a drop or `Close` took from them and has yet to
cancel. The Environments share one physical root, so there is one `lease`; that
at most one is live is what `WriterLease` proves.

### McpSessions

`internal/gateway/runtime_owner.go`, `runtime_mcp_observation.go`, one session
key. A call or a worker reads the definition, registers its generation,
connects, probes and installs in separate steps, because `o.mu` is released
between them. `o.generations` is compared for equality only and appears as
"current" or "stale". Folded: `session.Close` into the step that takes the
session out, the two loads of `ResolveMCPActivation` into one, `markDesired`
into the monitor's step, and the check of the generation after a connect into
the installation. `Persists` is a change of what is in force; the handlers of the
admin MCP leave a drop due, the web console (`management/service.go:263-323`,
the refresh of the host environment at `:98`) and other processes none, nor does
`secret_set` for a secret that only an endpoint names. `since` is history: what
was in force at the last drop of a handler and after it. So `DroppedStaysGone`
says what a drop is for, and promises nothing of a change nobody drops for: a
session whose credentials the web console replaced stays until it breaks or is
refreshed. Only a disabled MCP is found by the monitor's prune
(`DisabledIsClosed`). An activation may fail to resolve at any time; that the
store itself cannot be read is left out. Not modelled: the reconnect policies
other than automatic.

### ManagedWorktree

`internal/isolation/service.go` with `CreateManagedWithRetention` and
`RemoveManaged` of `internal/environment`. `t` is a create request, its worktree
and its Environment at once, since identities are not reused. A create reads the
root, adds, migrates, looks up the Workspace and records, and unwinds with
`UndoWorktree`, `UndoBranch`, `UndoDirectory`; a destroy requires the lease,
validates (or recovers), checks, removes and unrecords. Git is external:
`worktree add -b` makes the branch before the directory, a killed command leaves
what it had done, `worktree remove` without `--force` refuses changed and
untracked files but not ignored ones, `branch -D` refuses a branch that is
checked out in a listed worktree, `prune` forgets worktrees without directory.
The several git reads of `safety` are one step; `CreateFails` and `DestroyFails`
stand for every error and cancelled context at their point, and the conflicts of
system Workspaces in `UpdateSettings` for one of these.

### ProjectIndex

`internal/app/index_store.go`, `index_jobs.go`, `index_auto.go`, the index parts
of `service.go`, and `internal/gateway/index_auto_watch.go`. Threads are
requests and goroutines. `holder` and `readers` are the index's `RWMutex`;
`onDisk`, `older` and `whole` are the generation directories, the order of their
modification times and those with all their files, `pointer` is `current.json`.
An analysis scans, stages, writes, renames the pointer and prunes in separate
steps, so a crash falls between any two. `Surfaces` tells the tool handler,
which calls `DropEnvironment` after a removal, from the web console, which does
not. `abandoned` is history: a cleanup was cut short, after which the code
promises nothing. Simplified: modification times order generations as they were
created; `RemoveAll` is one step; fsnotify delivers every event.

### Registry and Retention

`Registry` is the state file: `internal/store`, `catalog`, `workspace`,
`environment` and the selections of `app/service.go`. `ws`, `env`, `mcp`,
`source`, `skill` are partial functions from identities to records; a record is
reduced to what selects it, what it selects, its retention, lease and
parentage. `call` is a handler between what it read and its `Update` (a refresh
of a Skill source, a create that looked up its Workspace, a selection), so what
it read may be stale. Identities are reused, which only adds behaviours.

`Retention` runs cleanups over it: the Gateway's hourly monitor, and an
administrator who asks for all, forced, expired or stale worktrees. A cleanup
reports, asks the runtime owner for blockers (`session`, `work`), removes
records in one `Update` that decides again, then destroys the managed worktrees
one by one (`CheckWorktree`, `AcquireWorktree`, `ConfirmWorktree`,
`DestroyWorktree`), and drops what the owner still holds. Ages are ranks of the
expiry against the clock; `TimePasses` moves them. Of a policy the model keeps
what the code asks about: an explicit limit (`temporary_environment_ttl`), a
worktree the migration made temporary (`managed_worktree_temporary`), and any
other. Only the first is given up with its changes by the monitor's forced pass
(`Covered`), and only the second is cleaned with the stale worktrees of durable
Environments (`Migrated`). `tree` is what a cleanup sees of a worktree: clean,
with uncommitted or ignored files, or broken (`Break`); a broken one goes only
when an administrator forces a cleanup, and only if it can be recovered.

### GatewayProcess and GatewayService

`GatewayProcess` has the processes that may serve one address, of five kinds
(this version, another one, one without owner id, an old ADM whose health is not
recognized, another program), and the clients of `gateway/lifecycle.go`,
`cli.go`, `desktop/connection.go`, `desktop_runtime.go`, `update_manager.go` and
`update_gateway_wait_windows.go`. A client looks (`Inspect...`), then posts
`/shutdown`, waits, kills, dials or spawns, each a step of its own, knowing only
what it saw. A process that gave up the address may live on before it exits.

`GatewayService` adds the systemd unit (`gatewayservice/service_linux.go`) and
`cli/gateway_service.go`: `unit` is the file, what `daemon-reload` made of it,
enabled and run state; `saved` is what an installing client read before it
changed anything. An installation sets access, applies, reloads, enables, runs
and waits; the undo restores in the order of the code. systemd is external.
There are four unit files of ADM: the one being installed, and the one that was
there, which this program renders as it is, or otherwise (an earlier template,
or edited), or not at all, because the user, the address or the executable is
missing. `restoreGatewayService` parses the saved file and renders it again
(`Rendered`, `Restored`), where the rollbacks of `installPlatform` and
`reconfigurePlatform` write the saved bytes. The look with which both end may
fail although the service was started (`saved.unseen`): nothing but the access
settings is undone then. `service install` does not report what its undo failed
to do; for the model that is a failed undoing step all the same.
`unit.stirred` and `saved.warn` are histories: the main process ended on its own
since systemctl last acted; an undoing step failed.

### SandboxBroker and SandboxAccess

`SandboxBroker` is what the Windows strong sandbox writes on the host for one
Environment (`host`: ACL entries, the profile) and the elevated broker that
lends traversal of the directories above the root, counted per Workspace
(`desktop/sandbox_acl_broker_windows.go`). `SandboxAccess` has the commands
(`sandbox/executor.go`, `app/exec_sandbox.go`), the removal of the Environment
with the state store locked (`sandbox_environment_cleanup.go`), the desktop's
own preparation and cleanup, rebinding to another Workspace, broker requests
that nobody waits for any more (`late`), and crashes of the Gateway or the
broker. `happened` is history: which troubles occurred. A command is granted its
root, and reads the directory of its executable and those of its toolchain,
which may be any but a volume's or the user's own (`validateToolGrant`), so also
one that the broker lends (`LentTools`): the entry made there serves for
traversal, is inherited below (`Below`), and is revoked at the end of the
command together with the one the broker made, since both are of the same SID.
`lost` in a lease is history: the directories that may have gone that way. One
tool directory stands for all those of a command. Left out are the grant on the
Environment's runtime and cache root, which no cleanup revokes but which goes
with the directory (`sandbox_environment_cleanup.go:134-142`, `:155-170`), and
the `os.RemoveAll` of that directory.

### ExecPolicy and GuardedCalls

`ExecPolicy` is the allow list, the block list, full authorization and the
recorded denials, with the matching rules of `runtime.go` and `app/service.go`.
An executable is a spelling: a bare name or an absolute path, with `.exe` or
without; case alone makes no difference (on Unix it does where the Runtime
compares paths, which the model leaves out), and relative paths, which match
themselves only, are not in it. A bare name on the block list matches every
spelling with that base name; a path matches paths only, by where they lead in
the Runtime (`samePath`, links resolved) and by how they are spelled in the
application (`executablePolicyMatches`). An entry of the allow list allows
itself only. What `LookPath` makes of a spelling is compared with nothing, so a
file whose path is blocked still runs under its bare name, or by its path
without `.exe`: a test demands the former (`runtime_policy_test.go:75`), and
`BlockedStaysOut` promises nothing of either. To keep a program out, its bare
name has to be blocked. `GuardedCalls` is every call that changes an
Environment under its lease: `RequireWriter`, a `Runtime` built with the policy
of that moment, the work, and `Touch`. Commands and Git mutations have a
heartbeat goroutine, which cancels when the lease is lost; file operations do
not look at it until the end. The directory is one file, known by the number of
the change that made it, and the temporary files of `atomicWrite`; `git` is the
index, the head, conflicts and what is in progress. `seen`, `barred`, `lost` and
`lapsed` in a call's record are history for the properties.

## 4. The runs

Distinct states are those TLC finds with symmetry where the `.cfg` has it;
symmetry is used in runs without liveness only.

| run | instance | distinct states | properties |
|---|---|---|---|
| `WriterLease` | 4 Environments on 3 directories: above, two on the same, a managed one beside; 2 owners; TTL 2; clock 1..3 | 29,739 | `SingleWriterPerDirectory`, `LiveLeaseNotTakenOver`, `ImplementsSingleWriter` |
| `OwnedRuns` | an agent run and a dev process, 2 Environments, 2 owners | 1,137,368 | `NoUnreachableProcess`, `CloseStopsEveryProcess`, `CanceledRunEndsCanceled` |
| `OwnedRunsLive` | a dev process and a verifier run, 1 Environment, fairness | 104,797 | `CanceledRunFinishes`, `LostWriterStops`, `RemovedEnvironmentStops` |
| `McpSessions` | 1 call, 1 background worker, monitor, 2 sessions, 2 versions of definition and secret, 2 changes | 5,995,929 | `NoSessionLeak`, `OneWorkPerGeneration`, `DroppedStaysGone` |
| `McpSessionsLive` | 1 call, 1 worker, 1 change, fairness | 368,773 | `CloseClosesSessions`, `Reconnects`, `DisabledIsClosed` |
| `ManagedWorktree` | 2 creates, 2 destroys, 2 owners, 2 branches, 2 roots, 1 interference | 2,510,507 | `RetainedBranchKept`, `RollbackLeavesNothing`, `DestroyedLeavesNoWorktree`, `UsersBranchesKept`, `ForeignContentsKept`, `RemovesOnlyInsideRoot` |
| `ProjectIndex` | 2 request threads, 1 watch, 4 generations, 1 error, 1 restart | 1,262,260 | `PublishedIsWhole`, `QueriesSeeWholeGenerations`, `NoOrphanIndex`, `RacesKeepSetting`, `PreviousRetained` |
| `ProjectIndexLive` | 1 request thread, 1 watch, 3 generations, 2 edits, 1 error, fairness | 386,625 | `JobEnds`, `WatchKeepsFresh` |
| `Retention` | one of each record, one Skill path, 1 change or damage, 1 administrator's cleanup, the monitor, fairness | 1,032,536 | `NoOrphanSkills`, `CleanupRemovesOnlyUnused`, `ExpiredEnvironmentGoes` |
| `GatewayService` | 2 clients with one command each, 3 processes, 6 unit files | 5,781,454 | `FailedInstallRestores`, `SetupFindsNoOldGateway`, `EndsOnlyItsTarget` |
| `SandboxAccess` | 2 commands, 2 Workspaces one below the other, tools beside or in the upper one, 1 trouble | 5,177,766 | `RunningCanTraverse`, `RemovalLeavesNoAccess`, `RunsLeaveNoGrant` |
| `GuardedCalls` | 2 calls, 2 owners, TTL 3, 2 changes of the file, 1 change of the policy, a tool in four spellings, one a link with the name of a shell | 4,071,388 | `CommandsKeepLease`, `BlockedStaysOut`, `CommitsWhatWasThere` |

What they show, in words. *Leases*: two live leases never reach one directory;
a live one is not taken over. *Commands*: a live process can be found by
somebody who can stop it, `Close` tells all, an accepted cancel is reported as
one, and cancelled, unauthorized and orphaned commands end. *Sessions*: none is
open that nobody owns; one probe per generation; revoked and re-keyed
definitions have no old session once the drop that is due has run; broken ones
are reconnected. *Worktrees*: rollbacks are complete, destroys forget nothing,
and nobody's branch or directory goes that is not ADM's to remove. *Index*:
published generations are whole at every point of a crash, and stay while they
are read; removals are final; a watched index catches up. *Retention*: a removal
takes only what is unused at that moment, whatever the report said; an expired
Environment nobody works in goes, with its changes only when an explicit limit
is long past. *Gateway*: a failed installation is undone, unless only the look at
the started service failed; a setup finds no old process; clients end only what
they looked at. *Sandbox*: who runs can traverse all that no other command took
along with its tools; a removal and the end of runs leave nothing granted.
*Guarded calls*: a command keeps its lease or ends within a heartbeat interval;
what the block list matches stays out; a commit holds what was there when it was
asked for.

Every property has a mutant in `PROJECT.json`: a changed definition of the
model, as a plausible bug would change the code, under which TLC finds the
property violated by the same run.

Why the bounds are enough. *Leases*: overlap is a relation of two roots; two
Environments on one directory, one above and one beside give every case of it,
and a third lease to clear. A TTL of 2 in a clock of 3 lets a lease be granted,
renewed and expire, and come back when the clock is set back. *Commands*: they
share only the maps, the lease and `Close`; two of different kinds show each
order of a drop or `Close` against a start of another. *Sessions*: a call and a
worker are the two kinds of goroutine that install, and each race is of two; two
changes are needed to change and change back. *Worktrees*: a branch name is
contested by two creates, a worktree by two destroys, and one interference (a
user of git, a crash, a foreign directory) falls between any two of their steps.
*Index*: writers exclude each other, so a holder, a waiter and a watch give each
order; four generations are the published, the previous, the staged and one that
a crash left. *Retention*: each rule is of one record and what refers to it, and
one record of each kind has all references; the monitor and an administrator's
cleanup are the two that meet, and a change (damage to a worktree counts as one)
falls between any two of their steps; a worktree that the migration made
temporary is made so by the one change (`MCInit`), as the initial states that
hold one add nothing but a second change. *Gateway*: one client races one other;
three processes are the one that was there, its successor and one more of
another kind; the initial states are those in which one thing differs
(`MCInit`): a running service is disabled, or has a unit file that is not as
this program renders it; a service that is stopped, or not ADM's, stands beside
a Gateway, which may end first; without a unit file any kind of process may be
at the address. *Sandbox*: the broker's count matters from one to
two; the upper Workspace's directory may hold the tools and the lower one lies
below it, so both the entry that is taken and the one that was inherited occur; the
Environment begins in the upper one (`MCInit`) and can be moved to the lower;
with one trouble per behaviour each kind of it
falls at each point; that more do no harm to what is stated is what the proofs
add. *Guarded calls*: two calls of all kinds, against each other, the
administrator, the user and the clock; the spellings are one of each sort the
matches tell apart; at a TTL of 3 the heartbeat interval is 1
and the integer division of `defaultWriterHeartbeatInterval` is at its edge. All
bounds are CONSTANTS marked BOUND where they are declared.

Deadlock is checked except where the system of the instance really stops:
`OwnedRuns`, `OwnedRunsLive` and `ManagedWorktree` when all requests are done,
`Retention` and `GatewayService` when the bounded commands are used up, and
`SandboxAccess`, where the Gateway's lock order itself can stop it
(`environment/service.go:442` holds the store and wants the preparation lock
that `sandbox_environment_cleanup.go:90` holds while it wants the store; listed
as a hazard).

## 5. Fairness

Safety runs assume none. `OwnedRunsLive`: weak fairness of every started handler
and goroutine (the Go scheduler runs what is runnable), of the heartbeat (its
ticker fires), of `DropEnvironment` and of `Close` once begun (the handler is
running), and of the end of a process whose context is done (`exec.CommandContext`
kills it). No fairness of requests, of leases being granted or of commands
ending by themselves. `McpSessionsLive`: the same of handlers and goroutines, of
the monitor's timer, and strong fairness of its spawning a worker for a key that
it finds due again and again: it looks at every key in each round, and what
keeps a key from being due is a check interval or a backoff, both bounded.
`ProjectIndexLive`: weak fairness of threads, and strong fairness of taking the
index lock, because Go's `RWMutex` makes new readers wait behind a waiting
writer and readers be admitted after each writer. Edits and requests are free.
`Retention`: weak fairness of the monitor alone, which has a timer of its own;
`ExpiredEnvironmentGoes` then holds against whatever administrators and agents do.

Two assumptions about time are guards, not fairness. `Prompt` in
`GuardedCalls.Tick`: the clock does not pass a due timer, so heartbeats are
served when they are due, a cancelled process is dead within a tick and a
`Runtime` is built within one interval. Without it a process that is not
scheduled for a whole lease loses it, which the code cannot prevent. And a
command of the sandbox is not asked how long it takes.

## 6. What is proved

Each theorem holds for every value of the constants under the named assumptions
of the modules. Together they state every safety property of every run.

**`EnvironmentProofs`, the lease** (any Environments, owners, lease length and
clock range): `LeaseTypeCorrect`, `RecordsExclusive`, `SingleWriterHolds`, `NotTakenOver` and
`Implements` (the refinement of `SingleWriter`, step by step). Assumed:
`ConstantsAssumption` (types) and `ForestAssumption`, that the directories above
one directory are a chain, as paths are: the code compares roots, not
directories, and two roots that reach a common directory must be one below the
other. `SingleWriterPerDirectory` is not inductive: from two leases on one
directory of which one is expired, setting the clock back makes two live ones.
The invariant is `LeaseTypeOK /\ RecordedLeasesExclusive`, which does not mention the
clock and holds because a grant and every renewal clear the overlapping leases
they pass, all of them expired (`WithLeaseExclusive`).

**`EnvironmentProofs`, the cleanups** (any Workspaces, Environments, catalogs,
sources, owners, any number of changes and cleanups): `TypeCorrect`,
`SkillsHaveSources`, `CleanupsRemoveUnused`. `NoOrphanSkills` is inductive: every
Update that removes a source removes its Skills with it, and the only one that
adds a Skill of a source finds the source in the same Update (`OrphansKept`).
That a cleanup removes only what is unused at that moment needs `TypeOK`, which
covers what a handler read before its Update and what a cleanup has seen, and
that nothing but `executeRetentionCleanup` takes a cleanup out of its Update
(`OnlyTheUpdateLeaves`); the Skill that goes although it was not eligible itself
is one whose source goes in the same step. `RegistryAssumption` is used of it
only for this: no source is called `None`. One module holds both proofs, as the
two components share no variable and no name.

**`OwnedRunsProofs`** (any commands of any kinds): `TypeCorrect`,
`NoProcessUnreachable`, `CloseStops`, `TerminalIsDead`, `CanceledEndsCanceled`.
`NoUnreachableProcess` says nothing of a command whose process is yet to start,
so a step that starts one could break it; the invariant says of each command
where its process can be at all (`ProcessPlaced`), that an installed one is in a
map or on a list of commands to be stopped (`InstalledTracked`), and that the
cancelled context of the owner reaches also those whose start began before
`Close` (`ContextFollows`). A drop takes commands out of a map onto its list, and
off the list only once it cancelled them: `TakenKeepsTrack`, `CanceledKeepsTrack`.

**`McpSessionsProofs`** (any calls, workers, sessions, definitions, secrets):
`TypeCorrect`, `OneWork`, `NoLeak`, `DroppedIsGone`.
`OwnInv` adds to `NoSessionLeak` that the key's session is open, and that a
goroutine that probes the session it opened is the only one to have it
(`SessionsOwned`); without it an installation could close or forget another's.
`OneWork` needs no invariant but the types. For `DroppedIsGone`, `FollowInv` says
what a goroutine that is to install must have seen: as long as its generation is
current, what it read was in force at the last drop or since (`InstallsLast`),
and the key is known to `dropMatching` (`KnownWhileInstalling`). A drop forgets
the key and makes every generation stale; `DropCases` states this once for
`Drop`, `DropMatching` and the comparison of fingerprints.

**`ManagedWorktreeProofs`** (any creates, destroys, branches, roots,
interferences): `TypeCorrect`, `BranchesRetained`, `RollbacksComplete`,
`NothingForgotten`, `UsersBranchesSafe`, `ForeignContentsSafe`,
`RemovalsInsideRoot`. Whether a rollback deletes a branch of somebody else
depends on who made it when the rollback began: the invariant ties the branch to
its request from `git worktree add` to the end of the rollback (`OwnsBranch`) -
git deletes no branch that is checked out in a listed worktree, and nobody else
may add one of that name -, says how far a rollback has got (`RolledBack`), that
a record exists only of a finished create (`Recorded`), and that a destroy past
its removal has removed (`Destroying`).

**`ProjectIndexProofs`** (any threads, watches, generations, edits, failures,
restarts): `TypeCorrect`, `PublishedWhole`, `QueriesSafe`, `RemovedStaysRemoved`,
`PreviousIsRetained`, `RacesKeep`. `IndexInv` joins who has the lock (`LockInv`),
the generation each thread has in hand (`StagedInv`: what is written is not what
is published, what is about to be published is whole, what is read or pruned
around is published), what a removal has yet to do (`RemovalInv`), that ages are
an order of which the staged directory is the youngest (`OrderInv`), and that
while the Gateway lives only the staged one is partial and all others are older
than the published (`ChainInv`), from which the action property follows. The
setting has an invariant of its own, `WatchInv`: whoever left a watch without the
setting is still on its way to settle it.

**`GatewayServiceProofs`** (any clients and processes): `TypeCorrect`,
`SetupIsClear`, `EndsItsTarget`, `InstallRestores`. Assumed are
`ProcessAssumption` (finitely many PIDs that begin with 1; they are given out in
order) and `ServiceAssumption` ("none" is no file and nothing saved).
`SetupIsClear` rests on `KnowInv`: PIDs are born in order (`InOrder`), so those
above the number counted at the beginning of an update are younger (`Counted`),
and what a client looked at and took for a Gateway is no other program
(`SawGateways`), from which `EndsItsTarget` follows. `InstallRestores` rests on `RestoreInv`: the service
retries only after its main process ended on its own (`RetryStirred`), and of
each client, where in the installation or its undoing it can be (`Course`), and,
as long as nobody else changes the service, that it begins with a unit systemd
has loaded (`Found`) and what at each step is still, or again, as it was, or what rendering makes of it (`Restores`).

**`SandboxAccessProofs`** (any finite number of commands, any Workspaces and
troubles): `TypeCorrect`, `RemovalIsComplete`, `CommandsCanTraverse`,
`RunsCleanUp`. Assumed are `PlacesAssumption` (the Environment root is not above
itself, tool directories that are not lent go by another name than those that
are, and what lies below a directory below another lies below that one),
`RunsAssumption` and `TroubleAssumption`.
`RemovalInv` follows a cleanup that nobody disturbs from the entry to the
profile, and says that an entry without its profile comes from a noted command
only. `LentInv` counts: the directories of a lease that somebody has, or is counted to
have, are granted, and the broker counts as many as have it or owns nothing that
it could take away, because a restart forgets both; what a command took with its
tools is left out of it, and `LostInv` says that with a directory all below it
is, so that what is not lost does not depend on an inherited entry that may go.
`BoundInv` says that without
a rebinding under a command everybody uses the same lease. A trouble of one kind
happens at most once in a behaviour, which the proof uses of the lease that a
move leaks. `CalmInv` says that the count is exact, and who will take each entry
back, when nothing went wrong.

**`GuardedCallsProofs`** (any calls, owners, policies, any TTL of at least 3
ticks): `TypeCorrect`, `BlockedOut`, `LeaseKept`, `CommitsAll`. `BlockInv`: no
entry of the block list matches one of the allow list as the application
compares them, and a barred call has a verdict that does not start it; of the
base names and places nothing is assumed.
`LeaseInv`: what a call with a heartbeat has left of its lease, with what passed
since it was last renewed, is the whole of it, or all but the one interval that
building the `Runtime` took (`InTime`); `TTL >= 3` makes the interval at most a
third, and `Prompt` is the assumption on time of section 5. `SeenInv`: nobody saw anything
newer than the file, and from `git add` to `git commit` the index is no older
than what the call saw, whoever stages, commits, merges or aborts between;
`OnlyCommitEnds` makes the action property of it.

Proved although no run checks them, because a run would say less: the type
invariants, `RecordedLeasesExclusive` and `TerminalMeansDead`.

Only model-checked: all liveness (`OwnedRunsLive`, `McpSessionsLive`, `ProjectIndexLive`,
`ExpiredEnvironmentGoes`): the prover has no rule for fairness and ENABLED. That
the models' `Prompt` and their bounds (each trouble once, one cherry-pick of one
commit, one late broker request) describe the system is not proved but argued
where they are declared.

## 7. Where the code and its documents differ

No run expects a violation. The models contain behaviour a reader of the code or
its documents may not expect; no property is stated of it because none holds.

Differences from what a document or comment says:

- `executeVerifierRun` reads the cancel flag, unlocks, classifies, and settles on
  what it read: a cancel accepted meanwhile ends as succeeded or failed
  (`runtime_verifier.go:301`), where `21-02-PLAN.md:85` has it reach `canceled`.
- The rollback of a create runs git in its source. If the source is itself a
  managed worktree and is destroyed meanwhile, branch and worktree entry stay
  (`isolation/service.go:300`, `22-01-PLAN.md:54`).
- The watch restored at start can be installed after automatic updates were
  disabled (`index_auto_watch.go:46`, `server.go:2045`).
- `cli.go:2294` falls through to killing whoever listens after any failed stop,
  its comment speaks of "Very old local Gateways".
- The roll-back of a key rotation in the desktop always has an empty `OldKey`
  (`desktop/gateway_access.go:31`, comment at `:55`).
- `verifyIndexMetadata` misses files beyond `MaxFiles` (`php_call_query.go:79`).
- `docs/CODE_INTELLIGENCE_PROVIDER.md:302` on `attempted_provider` against
  `code_intelligence_route.go:216`.

Behaviour nothing promises otherwise:

- an owner's command runs on until its next heartbeat after the lease went to
  somebody else, so commands of two owners overlap (`runtime_run.go:355`);
- a definition changed and changed back while a call connects leaves a session
  of the replaced one (`runtime_owner.go:564`); a success recorded late reports
  a failed or disabled MCP healthy until the monitor looks
  (`runtime_mcp_observation.go:296`);
- a `git worktree add` that is killed leaves its branch, because the rollback is
  registered after it (`isolation/service.go:292`); a root changed during a
  create leaves a record outside it (`:264`); ignored files written after the
  safety check are deleted, and the lease may by then be another owner's
  (`:590`); a Workspace can be removed between the create's look at it and its
  record (`environment/service.go:138`);
- an enable overtaken by a removal stores the setting again
  (`index_auto.go:41`); after a crash the next refresh retains the partial
  directory instead of the previous generation (`index_store.go:143`);
- the temporary file of an atomic write is committed by a `git add -A` of another
  call (`runtime.go:1172`); two edits of one owner overwrite each other
  (`runtime.go:439`);
- a file whose path is blocked runs when it is asked for by its bare name or, on
  Windows, by its path without `.exe` (`runtime.go:911`, `:964`);
- an installation whose last look at the service fails reports an error and
  leaves the new service in place (`service_linux.go:141`, `:214`), and a unit
  file without user, address or executable is not restored once the new one ran
  (`cli/gateway_service.go:578`);
- a stop whose dial times out counts as stopped (`lifecycle.go:398`); the undo of
  an installation overwrites a concurrent rotation of keys
  (`cli/gateway_service.go:307`);
- a run revokes paths that another run of the Environment still uses, and with a
  tool directory above the root the traversal that was lent there
  (`executor.go:194`); after a lost leave and several rebindings a counted lease
  could be without its directories, which lies outside the model's one move;
- cleanup of retention does not call `DropEnvironment`
  (`gateway/resource_retention.go:328`), looks at the expiry once more before
  `AcquireWriter` only (`:392`), and ignores what a Workspace selects
  (`app/resource_retention.go:199`); a selection is checked for existence outside
  its `Update` (`app/service.go:229`).

## 8. Not modelled

`PROJECT.json` gives the reason for each component. Process launching, host
discovery, dotenv, source analysis and code intelligence are operating-system
calls, parsing and queries; the command line, desktop, admin MCP and most of the
web console translate requests to the services. Memory, secrets and verifier
records are single store updates: a rotation or a changed selection is an input
of `McpSessions`. The index lock is in-process only, as
`docs/ADM_NATIVE_INDEX.md` has one Gateway per state directory. The state store
is taken as atomic; its file, temporary and rename, and other processes that
change it, are left out. Of the service managers only systemd is modelled, of
the sandbox only the access on the host, and of the desktop's update only what
stops the Gateway.
