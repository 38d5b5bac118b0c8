------------------------------ MODULE ExecPolicy ------------------------------
(***************************************************************************)
(* Which executables the guarded commands may start: the allow list, the   *)
(* block list and full authorization of the state file, what an            *)
(* administrator does to them, and the record of the commands that were    *)
(* refused (internal/app/exec_*.go, app/service.go and the checks of       *)
(* internal/runtime).  A list is a set; of the denials the executables are *)
(* kept, and the usage statistics are left out.                            *)
(*                                                                         *)
(* An executable is what a policy or a call spells: a bare name or an      *)
(* absolute path, with ".exe" or without.  Spellings that differ in case   *)
(* only are one.  What LookPath makes of a spelling is not in the model,   *)
(* because no check of the code looks at it: the file a bare name leads to *)
(* is never compared with the paths of the block list.                     *)
(***************************************************************************)
EXTENDS Naturals

CONSTANTS
    Executables,  \* as a policy or a call may spell them
    Paths,        \* those that are absolute paths; the others are bare names
    Name(_),      \* the base name of each, without ".exe"
    Place(_),     \* of a path: where it leads once links are resolved
    Proxies,      \* the base names of shells, which dispatch any command
    StoredPolicy, \* the policy of the state file at the start
    MaxChanges    \* BOUND: changes of the policy by the administrator

ASSUME PolicyAssumption ==
    /\ Paths \subseteq Executables
    /\ StoredPolicy \in [allowed : SUBSET Executables, blocked : SUBSET Executables, full : BOOLEAN]
    /\ \A a \in StoredPolicy.allowed, b \in StoredPolicy.blocked :
         IF b \in Paths THEN b # a ELSE Name(b) # Name(a)
    /\ MaxChanges \in Nat

VARIABLES
    policy,   \* allowed, blocked: SUBSET Executables; full: full authorization
    denials,  \* the executables with a recorded denial or bypass
    changes   \* policy changes so far

policyVars == <<policy, denials, changes>>

-----------------------------------------------------------------------------
(* The checks of a Runtime, which holds the policy p it was made with.     *)

\* A mutation: a bare name does not reach the other spellings that end in it.
ExactNameMatch(entry, e) == entry = e

\* A bare name stands for itself and every path that ends in it, ".exe" or not.
executablePolicyNameMatch(entry, e) == Name(entry) = Name(e)

\* A path stands for the paths that lead to the same place, for no bare name.
samePath(entry, e) == e \in Paths /\ Place(entry) = Place(e)

IsBlockedExecutable(p, e) ==
    \E b \in p.blocked : IF b \in Paths THEN samePath(b, e) ELSE executablePolicyNameMatch(b, e)

isCommandProxyExecutable(e) == Name(e) \in Proxies

\* On the allow list a bare name stands for itself only.
Listed(p, e) == \E a \in p.allowed : IF a \in Paths THEN samePath(a, e) ELSE a = e

IsExplicitlyAllowed(p, e) == ~isCommandProxyExecutable(e) /\ Listed(p, e)

Bypasses(p, e) == p.full /\ ~IsBlockedExecutable(p, e) /\ ~IsExplicitlyAllowed(p, e)

\* What may come of asking for e.  "fails": it is not found, it cannot be
\* started or it is git worktree, which is ADM's own; nothing is recorded then.
allowedExecutable(p, e) ==
    IF \/ IsBlockedExecutable(p, e)
       \/ isCommandProxyExecutable(e) /\ ~p.full
       \/ ~Listed(p, e) /\ ~p.full
      THEN {"denied"} ELSE {"starts", "fails"}

-----------------------------------------------------------------------------
(* The administrator.  Each is one Store.Update.                           *)

\* The application's own match: as the Runtime's, but it compares paths as they
\* are spelled and follows no link.
executablePolicyMatches(entry, e) == IF entry \in Paths THEN entry = e ELSE Name(entry) = Name(e)

Change(p) ==
    /\ changes < MaxChanges /\ changes' = changes + 1
    /\ policy' = p

\* An entry of the block list that matches forbids it; its denial is cleared.
AllowExecutable(e) ==
    /\ ~ \E b \in policy.blocked : executablePolicyMatches(b, e)
    /\ Change([policy EXCEPT !.allowed = @ \cup {e}])
    /\ denials' = denials \ {e}

RemoveAllowedExecutable(e) ==
    /\ e \in policy.allowed
    /\ Change([policy EXCEPT !.allowed = @ \ {e}])
    /\ UNCHANGED denials

\* It takes everything it matches off the allow list.
BlockExecutable(e) ==
    /\ Change([policy EXCEPT !.allowed = {a \in @ : ~executablePolicyMatches(e, a)},
                             !.blocked = @ \cup {e}])
    /\ UNCHANGED denials

RemoveBlockedExecutable(e) ==
    /\ e \in policy.blocked
    /\ Change([policy EXCEPT !.blocked = @ \ {e}])
    /\ UNCHANGED denials

SetExecFullAuthorization ==
    /\ Change([policy EXCEPT !.full = ~@])
    /\ UNCHANGED denials

\* One of them, or all of them.
ClearExecDenial ==
    /\ denials # {}
    /\ \E cleared \in {denials} \cup {{e} : e \in denials} : denials' = denials \ cleared
    /\ UNCHANGED <<policy, changes>>

RecordExecDenial(e) == denials' = denials \cup {e}

PolicyInit ==
    /\ policy = StoredPolicy
    /\ denials = {} /\ changes = 0

PolicyNext ==
    \/ \E e \in Executables :
         \/ AllowExecutable(e) \/ RemoveAllowedExecutable(e)
         \/ BlockExecutable(e) \/ RemoveBlockedExecutable(e)
    \/ SetExecFullAuthorization
    \/ ClearExecDenial

===============================================================================
