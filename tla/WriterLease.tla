----------------------------- MODULE WriterLease -----------------------------
(***************************************************************************)
(* The writer lease of internal/environment: at most one owner may mutate  *)
(* a physical directory, although several Environments may be rooted in    *)
(* it, above it or below it.  Every action is one store.Update: the store  *)
(* mutex makes the whole read-modify-save atomic, and an Update whose      *)
(* function returns an error saves nothing, so a refused call is a stutter.*)
(*                                                                         *)
(* Times are those of the wall clock s.now(): it may be set back.  The     *)
(* zero time.Time is 0 and the clock starts at 1.                          *)
(***************************************************************************)
EXTENDS Integers

CONSTANTS
    Environments,      \* Environment identities (identity.New never repeats one)
    Managed,   \* those of them that back a managed worktree
    Writers,    \* writer owners, as the callers name themselves
    Dirs,      \* canonical directories
    Within,    \* pairs <<a, d>>: d is a or lies below a (pathutil.Within)
    Root,      \* the canonical root of each Environment, fixed at creation
    TTL,       \* lease time to live, in ticks
    MaxTime,   \* BOUND: the clock stays within 1 .. MaxTime
    NoWriter   \* env.Writer == nil

Times == 0 .. MaxTime + TTL
Leases == [owner : Writers, acquiredAt : Times, expiresAt : Times]

ASSUME ConstantsAssumption ==
    /\ Managed \subseteq Environments
    /\ Root \in [Environments -> Dirs]
    /\ TTL \in Nat \ {0}
    /\ MaxTime \in Nat \ {0}
    /\ NoWriter \notin Leases

\* Directories form a forest: the directories above a given one are a chain.
ASSUME ForestAssumption ==
    /\ Within \subseteq Dirs \X Dirs
    /\ \A d \in Dirs : <<d, d>> \in Within
    /\ \A a, b, d \in Dirs :
          <<a, d>> \in Within /\ <<b, d>> \in Within
             => <<a, b>> \in Within \/ <<b, a>> \in Within

VARIABLES
    status,    \* "fresh" (never created), "ready" or "removed"
    writer,    \* the recorded lease of each Environment
    now        \* the wall clock

leaseVars == <<status, writer, now>>

------------------------------------------------------------------------------
\* writerExpired: a lease without an expiry is expired whatever the clock says.
Expired(l) == l.expiresAt = 0 \/ now >= l.expiresAt

Live(e) == writer[e] # NoWriter /\ ~Expired(writer[e])

\* Mutants: only a root below the target's counts; only the same root counts.
OverlapBelow(e, f) == e # f /\ <<Root[e], Root[f]>> \in Within
OverlapSame(e, f) == e # f /\ Root[e] = Root[f]

\* writerRootsOverlap, between two different Environments of the state file.
Overlap(e, f) ==
    e # f /\ (<<Root[e], Root[f]>> \in Within \/ <<Root[f], Root[e]>> \in Within)

\* activeWriterOverlap finds no conflict ...
NoActiveOverlap(e) == \A f \in Environments : Overlap(e, f) => ~Live(f)

\* ... and has cleared the expired leases it passed; target gets lease l.
WithLease(e, l) ==
    [f \in Environments |-> IF f = e THEN l ELSE IF Overlap(e, f) THEN NoWriter ELSE writer[f]]

\* renewWriter
Renewed(l) == [l EXCEPT !.expiresAt = now + TTL]

Holds(e, o) == Live(e) /\ writer[e].owner = o

------------------------------------------------------------------------------
(* A state file of an older version may record leases without an expiry.   *)
LeaseInit ==
    /\ now = 1
    /\ status \in [Environments -> {"fresh", "ready"}]
    /\ writer \in [Environments -> {NoWriter} \cup [owner : Writers, acquiredAt : {1}, expiresAt : {0}]]
    /\ \A e \in Environments : status[e] = "fresh" => writer[e] = NoWriter

CreateWithRetention(e) ==
    /\ e \notin Managed /\ status[e] = "fresh"
    /\ status' = [status EXCEPT ![e] = "ready"]
    /\ UNCHANGED <<writer, now>>

CreateManagedWithRetention(e) ==
    /\ e \in Managed /\ status[e] = "fresh"
    /\ status' = [status EXCEPT ![e] = "ready"]
    /\ UNCHANGED <<writer, now>>

\* Mutant: a live lease of the target is given to whoever asks.
AcquireFromAnyone(e, o) ==
    /\ status[e] = "ready"
    /\ NoActiveOverlap(e)
    /\ writer' = WithLease(e, [owner |-> o, acquiredAt |-> now, expiresAt |-> now + TTL])
    /\ UNCHANGED <<status, now>>

\* An expired lease of the target is dropped first; a live one of the same
\* owner is renewed and keeps its acquisition time.
AcquireWriter(e, o) ==
    /\ status[e] = "ready"
    /\ Live(e) => writer[e].owner = o
    /\ NoActiveOverlap(e)
    /\ writer' = WithLease(e,
                    IF Live(e) THEN Renewed(writer[e])
                    ELSE [owner |-> o, acquiredAt |-> now, expiresAt |-> now + TTL])
    /\ UNCHANGED <<status, now>>

ReleaseWriter(e, o, force) ==
    /\ status[e] = "ready"
    /\ writer[e] # NoWriter
    /\ Live(e) => force \/ writer[e].owner = o
    /\ writer' = [writer EXCEPT ![e] = NoWriter]
    /\ UNCHANGED <<status, now>>

\* RequireWriter, HeartbeatWriter and Touch renew under the same guards.
RequireWriter(e, o) ==
    /\ status[e] = "ready"
    /\ Holds(e, o)
    /\ NoActiveOverlap(e)
    /\ writer' = WithLease(e, Renewed(writer[e]))
    /\ UNCHANGED <<status, now>>

Remove(e) ==
    /\ e \notin Managed /\ status[e] = "ready"
    /\ ~Live(e)
    /\ status' = [status EXCEPT ![e] = "removed"]
    /\ writer' = [writer EXCEPT ![e] = NoWriter]
    /\ UNCHANGED now

\* RemoveManaged looks at no lease: its callers did, some steps earlier.
RemoveManaged(e) ==
    /\ e \in Managed /\ status[e] = "ready"
    /\ status' = [status EXCEPT ![e] = "removed"]
    /\ writer' = [writer EXCEPT ![e] = NoWriter]
    /\ UNCHANGED now

Tick ==
    /\ now < MaxTime
    /\ now' = now + 1
    /\ UNCHANGED <<status, writer>>

SetClockBack ==
    /\ \E t \in 1 .. MaxTime : t < now /\ now' = t
    /\ UNCHANGED <<status, writer>>

LeaseNext ==
    \/ \E e \in Environments :
          \/ CreateWithRetention(e) \/ CreateManagedWithRetention(e)
          \/ Remove(e) \/ RemoveManaged(e)
          \/ \E o \in Writers :
                \/ AcquireWriter(e, o)
                \/ RequireWriter(e, o)
                \/ \E force \in BOOLEAN : ReleaseWriter(e, o, force)
    \/ Tick
    \/ SetClockBack

LeaseSpec == LeaseInit /\ [][LeaseNext]_leaseVars

------------------------------------------------------------------------------
(* Types; a lease is recorded only on an Environment of the state file.    *)
LeaseTypeOK ==
    /\ status \in [Environments -> {"fresh", "ready", "removed"}]
    /\ writer \in [Environments -> Leases \cup {NoWriter}]
    /\ now \in 1 .. MaxTime
    /\ \A e \in Environments : status[e] # "ready" => writer[e] = NoWriter

(* No directory lies below the roots of two Environments whose leases are  *)
(* both live, whoever owns them: the contract's single writer per physical *)
(* root (internal/environment activeWriterOverlap).                        *)
SingleWriterPerDirectory ==
    \A d \in Dirs, e, f \in Environments :
        /\ <<Root[e], d>> \in Within /\ Live(e)
        /\ <<Root[f], d>> \in Within /\ Live(f)
        => e = f

(* The strengthening that makes it inductive when the clock is set back:   *)
(* overlapping Environments never both *record* a lease with an expiry, so *)
(* no lease can come back to life next to another one.                     *)
Dated(e) == writer[e] # NoWriter /\ writer[e].expiresAt # 0
RecordedLeasesExclusive ==
    \A e, f \in Environments : Dated(e) /\ Dated(f) => ~Overlap(e, f)

(* A live lease is never replaced by another lease in one step, and never  *)
(* disappears in the step that gives a lease to another Environment: only  *)
(* a release or a removal of its own Environment ends it.                  *)
KeepsLiveLeases ==
    \A e \in Environments : Live(e) =>
        \/ /\ writer'[e] # NoWriter
           /\ writer'[e].owner = writer[e].owner
           /\ writer'[e].acquiredAt = writer[e].acquiredAt
        \/ /\ writer'[e] = NoWriter
           /\ \A f \in Environments \ {e} : writer'[f] = writer[f]

LiveLeaseNotTakenOver == [][KeepsLiveLeases]_leaseVars

\* The recorded leases with an expiry are the grants of the abstract writer.
Granted == {g \in Environments \X Writers : Dated(g[1]) /\ writer[g[1]].owner = g[2]}

Grants == INSTANCE SingleWriter WITH grants <- Granted

(* Every step of the lease, whatever the clock does, is a step of the      *)
(* abstract single writer or leaves its grants alone.                      *)
ImplementsSingleWriter == Grants!Spec
==============================================================================
