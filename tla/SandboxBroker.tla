----------------------------- MODULE SandboxBroker -----------------------------
(***************************************************************************)
(* What the Windows strong sandbox writes on the host for one Environment, *)
(* and the broker (an elevated process of its own) that lends traversal of *)
(* the directories above the Environment root while commands run:          *)
(* internal/sandbox/*_windows.go and desktop/sandbox_acl_broker_windows.go. *)
(* The AppContainer profile, and so its SID, is stable per Environment:    *)
(* every run of the Environment shares the entries made for that SID.      *)
(* BOUND: one Environment; a DACL is read, changed and written in a step.  *)
(***************************************************************************)
EXTENDS Naturals, FiniteSets

CONSTANTS
    Workspaces,       \* those whose directory contains the Environment root
    TraversalPaths(_),\* the directories from the Workspace down to the root
    Below(_),         \* those of them that lie below a directory
    LentTools,        \* those of them that hold executables and toolchains
    MaxTroubles       \* BOUND: troubles in one behaviour, each of another kind

ASSUME TroubleAssumption == MaxTroubles \in Nat

\* The Environment root is no directory above itself, and "tool" stands for the
\* tool directories that are not lent; one that is has a name of its own.
ASSUME PlacesAssumption ==
    /\ \A w \in Workspaces : TraversalPaths(w) \cap {"root", "tool"} = {}
    /\ LentTools \subseteq UNION {TraversalPaths(w) : w \in Workspaces}
    /\ \A high, middle, low \in UNION {TraversalPaths(w) : w \in Workspaces} :
         middle \in Below(high) /\ low \in Below(middle) => low \in Below(high)

VARIABLES
    host,     \* acl: where the SID has an entry of its own; read: the directories
              \* above the root where that lets it read, and is inherited below;
              \* profile: it exists
    broker,   \* Workspace -> refs and owned paths of its execution lease; lost: a
              \* history of the directories that a command took from under it
    happened  \* the kinds of troubles so far, and what was noted: a history

Dirs == UNION {TraversalPaths(w) : w \in Workspaces}
Places == {"root", "tool"} \cup Dirs
Tools == {"tool"} \cup LentTools
NoLease == [refs |-> 0, owned |-> {}, lost |-> {}]

Faults == {"revoke", "lost", "crash", "restart"}

Happens(trouble) ==
    /\ trouble \notin happened
    /\ Cardinality(happened \cap (Faults \cup {"rebind", "move", "desktop"})) < MaxTroubles
    /\ happened' = happened \cup {trouble}

Note(what, when) == happened' = IF when THEN happened \cup {what} ELSE happened

-----------------------------------------------------------------------------
(* The host. *)
Granted(place) == place \in host.acl

\* Inspect: a profile that cannot be derived hides the entries of its SID.  That
\* Windows derives the SID of an existing profile only is what the code assumes.
ProfilePresent == host.profile
HasAnyGrant == ProfilePresent /\ Granted("root")

EnsureProfile == [host EXCEPT !.profile = TRUE]
DeleteProfile == [host EXCEPT !.profile = FALSE]

\* An entry that was inherited will do for traversal.
Reach(place) == {place} \cup Below(place)
Readable(place) == \E tool \in host.read : place \in Reach(tool)
Traversable(place) == place \in host.acl \/ Readable(place)

\* Revoking takes all entries of the SID that a place has of its own.
EnsurePaths(places) == [host EXCEPT !.acl = @ \cup places]
RevokePaths(places) == [host EXCEPT !.acl = @ \ places, !.read = @ \ places]

\* prepareEnvironmentAccessPlatform: the profile, then the root.
Prepared == [host EXCEPT !.profile = TRUE, !.acl = @ \cup {"root"}]

-----------------------------------------------------------------------------
(* The broker's leases. *)

\* A mutation: a second command in the lease is not counted.
EnterUncounted(key) == [broker EXCEPT ![key].refs = 1]

EnterAgain(key) == [broker EXCEPT ![key].refs = @ + 1]

\* The first one in: paths that are not granted are, and then owned.  A
\* failure part of the way takes back everything the lease owns.  (After a
\* restart there may be others, which this one's leave will take them from.)
EnterFirst(key, ok) ==
    LET new == {place \in TraversalPaths(key) : ~Traversable(place)}
    IN  \/ /\ ok
           /\ host' = EnsurePaths(new)
           /\ broker' = [broker EXCEPT ![key] =
                            [refs |-> 1, owned |-> @.owned \cup new,
                             lost |-> IF "restart" \in happened THEN @.lost ELSE {}]]
           /\ UNCHANGED happened
        \/ /\ ~ok
           /\ \E got \in SUBSET new, stuck \in SUBSET TraversalPaths(key) :
                LET mine == broker[key].owned \cup got
                IN  /\ stuck \subseteq mine
                    /\ host' = [RevokePaths(mine \ stuck) EXCEPT !.acl = @ \cup (got \cap stuck)]
                    /\ IF stuck = {} THEN UNCHANGED happened ELSE Happens("revoke")
           /\ broker' = [broker EXCEPT ![key] = [NoLease EXCEPT !.lost = broker[key].lost]]

\* enterSandboxACLBrokerExecution.
EnterExecution(key, ok) ==
    IF broker[key].refs > 0
      THEN ok /\ broker' = EnterAgain(key) /\ UNCHANGED <<host, happened>>
      ELSE EnterFirst(key, ok)

\* The last one out: a path that cannot be revoked keeps the whole list for
\* the next one to try again.
LeaveLast(key) ==
    \E stuck \in SUBSET broker[key].owned :
      /\ host' = RevokePaths(broker[key].owned \ stuck)
      /\ broker' = [broker EXCEPT ![key].refs = 0,
                                  ![key].owned = IF stuck = {} THEN {} ELSE @]
      /\ IF stuck = {} THEN UNCHANGED happened ELSE Happens("revoke")

\* A mutation: the last one out is taken for one of several.
LeaveOffByOne(key) ==
    IF broker[key].refs > 0
      THEN broker' = [broker EXCEPT ![key].refs = @ - 1] /\ UNCHANGED <<host, happened>>
      ELSE LeaveLast(key)

\* leaveSandboxACLBrokerExecution; a lease it does not know is no error.
LeaveExecution(key) ==
    IF broker[key].refs > 1
      THEN broker' = [broker EXCEPT ![key].refs = @ - 1] /\ UNCHANGED <<host, happened>>
      ELSE LeaveLast(key)

=============================================================================
