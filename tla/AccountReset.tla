---------------------------- MODULE AccountReset ----------------------------
(***************************************************************************)
(* What the reset of an account promises to the pool: the account is given *)
(* out, used, taken back, and given out again only when nothing is left of *)
(* the lease before.  No build, attempts, nukes, timers or credentials.    *)
(* ResetBuild implements it from the side of the build, as long as only    *)
(* NotReady accounts are reset and a nuke's credentials end no later than  *)
(* the wait for it.  LeasePool implements it from the side of the handlers *)
(* and the queue, in every behaviour in which accounts and leases agree,   *)
(* what lags behind has caught up in time and an account comes back to the *)
(* pool with the last of its resets (LeasePoolProps, part three).          *)
(*                                                                         *)
(* What it leaves out is what the implementation does not promise: that    *)
(* nobody but the tenant makes anything in the account (credentials        *)
(* outlive their lease), and that a reset ever succeeds.                   *)
(***************************************************************************)
CONSTANTS Resources, NukeEnabled

VARIABLES
    status,    \* the account's status
    held,      \* what the tenant has made
    left,      \* what former tenants have left
    resetting  \* a reset is under way

promiseVars == <<status, held, left, resetting>>

Init ==
    /\ status \in {"Absent", "NotReady", "Ready"}
    /\ held = {}
    /\ left \in SUBSET Resources
    /\ status = "Ready" /\ NukeEnabled => left = {}
    /\ resetting = FALSE

\* An account comes to the pool with whatever it has.
Join ==
    /\ status = "Absent"
    /\ status' = "NotReady"
    /\ UNCHANGED <<held, left, resetting>>

CheckOut ==
    /\ status = "Ready"
    /\ status' = "Leased"
    /\ UNCHANGED <<held, left, resetting>>

Make(r) ==
    /\ status = "Leased"
    /\ r \notin held \cup left
    /\ held' = held \cup {r}
    /\ UNCHANGED <<status, left, resetting>>

TakeBack ==
    /\ status = "Leased"
    /\ status' = "NotReady"
    /\ left' = left \cup held
    /\ held' = {}
    /\ UNCHANGED resetting

\* An account that nobody holds is removed from the pool.
Retire ==
    /\ status \in {"NotReady", "Ready"}
    /\ status' = "Absent"
    /\ UNCHANGED <<held, left, resetting>>

\* An account that nobody holds is sent to be reset once more.
Recall ==
    /\ status = "Ready"
    /\ status' = "NotReady"
    /\ UNCHANGED <<held, left, resetting>>

\* Retiring asks for a last reset, too; what that finds is removed as well.
Begin ==
    /\ status \in {"Absent", "NotReady"}
    /\ ~resetting
    /\ resetting' = TRUE
    /\ UNCHANGED <<status, held, left>>

Remove(r) ==
    /\ resetting
    /\ r \in left
    /\ left' = left \ {r}
    /\ UNCHANGED <<status, held, resetting>>

GiveBack ==
    /\ resetting
    /\ status = "NotReady"
    /\ NukeEnabled => left = {}
    /\ status' = "Ready"
    /\ resetting' = FALSE
    /\ UNCHANGED <<held, left>>

GiveUp ==
    /\ resetting
    /\ resetting' = FALSE
    /\ UNCHANGED <<status, held, left>>

Next ==
    \/ Join \/ CheckOut \/ TakeBack \/ Recall \/ Retire
    \/ Begin \/ GiveBack \/ GiveUp
    \/ \E r \in Resources : Make(r) \/ Remove(r)

Spec == Init /\ [][Next]_promiseVars

-----------------------------------------------------------------------------

\* What the pool may rely on: a tenant finds nothing of a former one.
NothingInherited ==
    NukeEnabled /\ status \in {"Ready", "Leased"} => left = {}
=============================================================================
