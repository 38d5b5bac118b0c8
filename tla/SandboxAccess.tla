----------------------------- MODULE SandboxAccess -----------------------------
(***************************************************************************)
(* Strongly sandboxed commands of one Environment on Windows: preparing    *)
(* the Environment's access (EnsureEnvironmentSandboxAccess), borrowing    *)
(* traversal from the broker, running under the AppContainer (Execute) and *)
(* giving everything back, against the removal of the Environment, which   *)
(* cleans up with the state store locked, the desktop, which prepares and  *)
(* cleans without the Gateway's mutex, and crashes of either process.      *)
(* The writer lease can come and go between any two steps here, so that a  *)
(* command may begin, and a removal find no lease, at any time.            *)
(***************************************************************************)
EXTENDS SandboxBroker

CONSTANTS
    Runs,     \* sandboxed commands and verifiers of the Environment
    None

ASSUME RunsAssumption == IsFiniteSet(Runs) /\ None \notin Workspaces

VARIABLES
    env,      \* the Environment in the store
    run,      \* the Gateway's commands
    gw,       \* who holds the store's mutex and sandboxEnvironmentPrepMu, and
              \* how far the removal is; alone: nobody else was at work while it
              \* cleaned up
    late,     \* a broker request whose answer nobody waits for; BOUND: one
    helper    \* the desktop's, or its elevated child's, operation

vars == <<host, broker, happened, env, run, gw, late, helper>>

NoRun == [pc |-> "idle", key |-> None, made |-> {}, created |-> FALSE]
NoGateway == [store |-> "free", prep |-> "free", rm |-> "idle", alone |-> TRUE]
NoCall == [op |-> "none", key |-> None]

TypeOK ==
    /\ host \in [acl : SUBSET Places, read : SUBSET LentTools, profile : BOOLEAN]
    /\ broker \in [Workspaces -> [refs : Nat, owned : SUBSET Dirs, lost : SUBSET Dirs]]
    /\ env \in [present : BOOLEAN, workspace : Workspaces]
    /\ run \in [Runs -> [pc : {"idle", "waiting", "locked", "prepared", "entering", "entered",
                               "profiled", "running", "revoking", "deleting",
                               "done", "leaving"},
                         key : Workspaces \cup {None}, made : SUBSET ({"root"} \cup Tools),
                         created : BOOLEAN]]
    /\ gw \in [store : {"free", "remove"}, prep : {"free", "remove"} \cup Runs,
               rm : {"idle", "locked", "cleaning", "deleting", "saving"},
               alone : BOOLEAN]
    /\ late \in [op : {"none", "enter", "leave"}, key : Workspaces \cup {None}]
    /\ helper \in {"idle", "prepare", "cleanup"}

Init ==
    /\ host = [acl |-> {}, read |-> {}, profile |-> FALSE]
    /\ broker = [w \in Workspaces |-> NoLease]
    /\ happened = {}
    /\ env \in [present : {TRUE}, workspace : Workspaces]
    /\ run = [r \in Runs |-> NoRun]
    /\ gw = NoGateway
    /\ late = NoCall
    /\ helper = "idle"

Go(r, pc) == run' = [run EXCEPT ![r].pc = pc]
End(r) == run' = [run EXCEPT ![r] = NoRun]
StoreFree == gw.store = "free"
SomeRunActive == late # NoCall \/ \E r \in Runs : run[r].pc # "idle"

-----------------------------------------------------------------------------
(* Preparing. *)

\* RequireWriter and Runtime: the Environment is read here, once.
PrepareSandboxExecution(r) ==
    /\ run[r].pc = "idle" /\ StoreFree /\ env.present
    /\ Go(r, "waiting")
    /\ UNCHANGED <<host, broker, happened, env, gw, late, helper>>

EnsureLocks(r) ==
    /\ run[r].pc = "waiting" /\ gw.prep = "free"
    /\ gw' = [gw EXCEPT !.prep = r]
    /\ Go(r, "locked")
    /\ UNCHANGED <<host, broker, happened, env, late, helper>>

\* With the mutex held, the Workspace is read from the store: of the
\* Environment as it was read before, whether it is still there or not.
EnsureEnvironmentSandboxAccess(r) ==
    /\ run[r].pc = "locked" /\ StoreFree
    /\ \/ host' = Prepared /\ Go(r, "prepared")
       \/ host' \in {host, EnsureProfile} /\ End(r)
    /\ gw' = [gw EXCEPT !.prep = "free"]
    /\ UNCHANGED <<broker, happened, env, late, helper>>

-----------------------------------------------------------------------------
(* Borrowing traversal: beginSandboxExecutionTraversal and the broker. *)
AskEnter(r) ==
    /\ run[r].pc = "prepared" /\ StoreFree
    /\ IF ~env.present THEN End(r)
       ELSE IF TraversalPaths(env.workspace) = {} THEN Go(r, "entered")
       ELSE run' = [run EXCEPT ![r].pc = "entering", ![r].key = env.workspace]
    /\ UNCHANGED <<host, broker, happened, env, gw, late, helper>>

BrokerEnters(r) ==
    /\ run[r].pc = "entering"
    /\ \/ EnterExecution(run[r].key, TRUE) /\ Go(r, "entered")
       \/ EnterExecution(run[r].key, FALSE) /\ End(r)
    /\ UNCHANGED <<env, gw, late, helper>>

\* validateSandboxACLBrokerRequest, or no broker to connect to.
BrokerRefuses(r) ==
    /\ \/ run[r].pc = "entering" /\ UNCHANGED happened
       \/ run[r].pc = "leaving" /\ Happens("lost")
    /\ End(r)
    /\ UNCHANGED <<host, broker, env, gw, late, helper>>

\* Five seconds or the caller's context: the request is with the broker.
RequestGivesUp(r, pc, op) ==
    /\ run[r].pc = pc /\ late = NoCall
    /\ late' = [op |-> op, key |-> run[r].key]
    /\ Happens("lost")
    /\ End(r)
    /\ UNCHANGED <<host, broker, env, gw, helper>>

BrokerServesLate ==
    /\ \/ late.op = "enter" /\ \E ok \in BOOLEAN : EnterExecution(late.key, ok)
       \/ late.op = "leave" /\ LeaveExecution(late.key)
    /\ late' = NoCall
    /\ UNCHANGED <<env, run, gw, helper>>

\* The path and the key are those of the Environment as it is by now.
AskLeave(r) ==
    /\ run[r].pc = "done"
    /\ IF run[r].key = None \/ ~env.present THEN End(r)
       ELSE run' = [run EXCEPT ![r].pc = "leaving", ![r].key = env.workspace]
    /\ UNCHANGED <<host, broker, happened, env, gw, late, helper>>

BrokerLeaves(r) ==
    /\ run[r].pc = "leaving"
    /\ LeaveExecution(run[r].key)
    /\ End(r)
    /\ UNCHANGED <<env, gw, late, helper>>

-----------------------------------------------------------------------------
(* Execute. *)
\* What fails before the deletion of a new profile is arranged leaves it.
ExecuteEnsuresProfile(r) ==
    /\ run[r].pc = "entered"
    /\ \/ /\ run' = [run EXCEPT ![r].pc = "profiled", ![r].created = ~host.profile]
          /\ host' = EnsureProfile
       \/ Go(r, "done") /\ host' \in {host, EnsureProfile}
    /\ UNCHANGED <<broker, happened, env, gw, late, helper>>

\* The root has an entry of a SID whose profile is gone.
NoteOrphan == Note("orphan", "root" \in host'.acl /\ ~host'.profile)

\* The root is written, the directory of the executable and those of the
\* toolchain read: any directories but the volume's and the user's own, so that
\* they may be lent ones.  BOUND: a command needs one of them.
Suffices(place) == IF place \in LentTools THEN Readable(place) ELSE Granted(place)

\* addGrant: what was there already is not recorded.  One that fails ends
\* the run, and the ones before it are revoked.
ExecuteGrants(r) ==
    /\ run[r].pc = "profiled"
    /\ \E wanted \in {{}, {"root"}} \cup {{"root", tool} : tool \in Tools} :
         LET made == {place \in wanted : ~Suffices(place)}
         IN  /\ run' = [run EXCEPT ![r].made = made,
                          ![r].pc = IF wanted \subseteq {"root"} THEN "revoking" ELSE "running"]
             /\ host' = [EnsurePaths(made) EXCEPT !.read = @ \cup (made \cap LentTools)]
             /\ NoteOrphan
    /\ UNCHANGED <<broker, env, gw, late, helper>>

\* What a lease holds below or at a tool directory may go with it.
LoseTo(places) ==
    [key \in Workspaces |->
        [broker[key] EXCEPT !.lost = @ \cup {place \in TraversalPaths(key) :
                                 \E tool \in places : place \in Reach(tool)}]]

\* The process ends, or its context does and the job object kills the tree.
ExecuteRevokes(r) ==
    /\ run[r].pc \in {"running", "revoking"}
    /\ \E stuck \in SUBSET run[r].made :
         /\ host' = RevokePaths(run[r].made \ stuck)
         /\ broker' = LoseTo((run[r].made \ stuck) \cap LentTools)
         /\ IF stuck = {} THEN UNCHANGED happened ELSE Happens("revoke")
    /\ Go(r, IF run[r].created THEN "deleting" ELSE "done")
    /\ UNCHANGED <<env, gw, late, helper>>

\* Only if this run made it.
ExecuteDeletesProfile(r) ==
    /\ run[r].pc = "deleting"
    /\ host' = DeleteProfile /\ NoteOrphan
    /\ Go(r, "done")
    /\ UNCHANGED <<broker, env, gw, late, helper>>

-----------------------------------------------------------------------------
(* The Environment. *)

\* SetWorkspace asks for no lease.
SetWorkspace ==
    /\ StoreFree /\ env.present
    /\ \E w \in Workspaces \ {env.workspace} : env' = [env EXCEPT !.workspace = w]
    /\ Happens(IF SomeRunActive THEN "rebind" ELSE "move")
    /\ UNCHANGED <<host, broker, run, gw, late, helper>>

\* Remove: everything up to its save is in one Update of the store.
RemoveBegins ==
    /\ gw.rm = "idle" /\ StoreFree /\ env.present
    /\ gw' = [gw EXCEPT !.store = "remove", !.rm = "locked"]
    /\ UNCHANGED <<host, broker, happened, env, run, late, helper>>

CleanupLocks ==
    /\ gw.rm = "locked" /\ gw.prep = "free"
    /\ gw' = [gw EXCEPT !.prep = "remove", !.rm = "cleaning",
                        !.alone = ~SomeRunActive /\ helper = "idle"]
    /\ UNCHANGED <<host, broker, happened, env, run, late, helper>>

\* A mutation: what the cleanup reports is not looked at.
CleanupIgnored(ok) == [gw EXCEPT !.prep = "free", !.rm = "saving"]

\* An error leaves the Environment in the store.
CleanupReturns(ok) ==
    IF ok THEN [gw EXCEPT !.prep = "free", !.rm = "saving"] ELSE NoGateway

\* The root's entry is revoked here, or by the broker when it takes an
\* administrator, and looked at again before the profile is deleted.
CleanupRevokes ==
    /\ gw.rm = "cleaning"
    /\ \/ ~ProfilePresent /\ gw' = CleanupReturns(TRUE) /\ UNCHANGED host
       \/ /\ ProfilePresent
          /\ host' = RevokePaths({"root"})
          /\ gw' = [gw EXCEPT !.rm = "deleting"]
       \/ ProfilePresent /\ gw' = CleanupReturns(FALSE) /\ UNCHANGED host
    /\ UNCHANGED <<broker, happened, env, run, late, helper>>

NoteOthers == Note("inside", ~gw.alone)

CleanupDeletesProfile ==
    /\ gw.rm = "deleting"
    /\ \/ host' = DeleteProfile /\ gw' = CleanupReturns(TRUE) /\ NoteOthers
       \/ UNCHANGED <<host, happened>> /\ gw' = CleanupReturns(FALSE)
    /\ UNCHANGED <<broker, env, run, late, helper>>

\* The Environment leaves the store, unless the file cannot be written.
RemoveSaves ==
    /\ gw.rm = "saving"
    /\ gw' = NoGateway
    /\ \/ env' = [env EXCEPT !.present = FALSE] /\ NoteOthers
       \/ UNCHANGED <<env, happened>>
    /\ UNCHANGED <<host, broker, run, late, helper>>

-----------------------------------------------------------------------------
(* The desktop, or its elevated child, in another process. *)
HelperReads(op) ==
    /\ helper = "idle" /\ env.present
    /\ helper' = op
    /\ gw' = [gw EXCEPT !.alone = gw.rm = "idle"]
    /\ Happens("desktop")
    /\ UNCHANGED <<host, broker, env, run, late>>

EnablePreparation ==
    /\ helper = "prepare"
    /\ host' \in {host, EnsureProfile, Prepared}
    /\ helper' = "idle"
    /\ UNCHANGED <<broker, happened, env, run, gw, late>>

CleanupPreparation ==
    /\ helper = "cleanup"
    /\ IF ProfilePresent
         THEN host' \in {host, RevokePaths({"root"}),
                         [RevokePaths({"root"}) EXCEPT !.profile = FALSE]}
         ELSE UNCHANGED host
    /\ helper' = "idle"
    /\ UNCHANGED <<broker, happened, env, run, gw, late>>

-----------------------------------------------------------------------------
(* Crashes.  The kernel kills a run with the Gateway; nothing is revoked. *)
Waits == [entering |-> "enter", leaving |-> "leave"]

GatewayCrashes ==
    /\ Happens("crash")
    /\ late' \in {late} \cup {[op |-> Waits[run[r].pc], key |-> run[r].key] :
                                r \in {q \in Runs : run[q].pc \in DOMAIN Waits}}
    /\ run' = [r \in Runs |-> NoRun]
    /\ gw' = NoGateway
    /\ UNCHANGED <<host, broker, env, helper>>

\* The boot task starts it again, with no leases.
BrokerCrashes ==
    /\ Happens("restart")
    /\ broker' = [w \in Workspaces |-> [NoLease EXCEPT !.lost = broker[w].lost]]
    /\ late' = NoCall
    /\ run' = [r \in Runs |-> IF run[r].pc \in DOMAIN Waits THEN NoRun ELSE run[r]]
    /\ UNCHANGED <<host, env, gw, helper>>

Next ==
    \/ \E r \in Runs :
         \/ PrepareSandboxExecution(r) \/ EnsureLocks(r)
         \/ EnsureEnvironmentSandboxAccess(r)
         \/ AskEnter(r) \/ BrokerEnters(r) \/ BrokerRefuses(r)
         \/ RequestGivesUp(r, "entering", "enter") \/ RequestGivesUp(r, "leaving", "leave")
         \/ AskLeave(r) \/ BrokerLeaves(r)
         \/ ExecuteEnsuresProfile(r) \/ ExecuteGrants(r)
         \/ ExecuteRevokes(r) \/ ExecuteDeletesProfile(r)
    \/ BrokerServesLate \/ SetWorkspace
    \/ RemoveBegins \/ CleanupLocks \/ CleanupRevokes \/ CleanupDeletesProfile
    \/ RemoveSaves
    \/ \E op \in {"prepare", "cleanup"} : HelperReads(op)
    \/ EnablePreparation \/ CleanupPreparation
    \/ GatewayCrashes \/ BrokerCrashes

Spec == Init /\ [][Next]_vars

-----------------------------------------------------------------------------
\* While a command may run, the directories it borrowed stay open to it,
\* whoever else leaves, times out, fails to revoke or restarts, as long as
\* the Environment is not bound to another Workspace under it.  One kind of
\* directory is the code's own exception: that of a tool, or below it.  The
\* first command that ends takes the entries that it made there for its tools,
\* and with them the one that was lent, or that the broker found there and did
\* not lend: nobody gives it back before the last command has left.
RunningCanTraverse ==
    "rebind" \notin happened =>
        \A r \in Runs : /\ run[r].pc \in {"entered", "profiled", "running"}
                        /\ run[r].key # None
                        => \A place \in TraversalPaths(run[r].key) \ broker[run[r].key].lost :
                             Traversable(place)

\* An Environment leaves the store only when neither its root's entry nor its
\* profile is left, however the cleanup failed before or crashed half way:
\* unless somebody else was at work on it during a cleanup, or a command
\* left the entry without the profile, which hides it.
RemovalLeavesNoAccess ==
    (~env.present /\ happened \cap {"inside", "orphan"} = {}) =>
        ~Granted("root") /\ ~ProfilePresent

\* When nothing runs and nothing failed, crashed or was rebound or removed
\* under a command, only the prepared root is left: the commands and the
\* broker took back all that they had granted.
RunsLeaveNoGrant ==
    (happened \cap (Faults \cup {"rebind", "inside"}) = {} /\ ~SomeRunActive)
        => host.acl \subseteq {"root"}

=============================================================================
