--------------------------- MODULE PoolLifecycle ----------------------------
(***************************************************************************)
(* What the account pool promises, one record at a time: the life of an    *)
(* account and of a lease as docs/concepts.md tells it, without handlers,  *)
(* copies, stamps or messages.  LeasePool implements it as long as no two  *)
(* stamped writes fall into the same second.                               *)
(*                                                                         *)
(* What it leaves out is what the implementation does not promise: that an *)
(* account is Leased exactly while a lease on it is Active, that it is     *)
(* Ready only when clean, and that a Leased account is never removed.      *)
(***************************************************************************)
EXTENDS Naturals

CONSTANTS Accounts, Principals

VARIABLES
    status,    \* the status of each account; "Absent": not in the pool
    held,      \* held[a][p]: the last lease p had on a
    issued     \* number of leases granted so far

lifecycleVars == <<status, held, issued>>

NeverHeld == [id |-> 0, status |-> "None", reason |-> "None"]

Init ==
    /\ status \in [Accounts -> {"Absent", "Ready"}]
    /\ held = [a \in Accounts |-> [p \in Principals |-> NeverHeld]]
    /\ issued = 0

Move(a, from, to) ==
    /\ status[a] \in from
    /\ status' = [status EXCEPT ![a] = to]
    /\ UNCHANGED <<held, issued>>

Register(a) == Move(a, {"Absent"}, "NotReady")
Return(a)   == Move(a, {"NotReady"}, "Ready")
CheckOut(a) == Move(a, {"Ready"}, "Leased")
Reclaim(a)  == Move(a, {"Ready", "Leased"}, "NotReady")
Remove(a)   == Move(a, {"NotReady", "Ready", "Leased"}, "Absent")

\* A new lease takes the place of one that never was or that has ended.
Grant(a, p) ==
    /\ held[a][p].status # "Active"
    /\ issued' = issued + 1
    /\ held' = [held EXCEPT ![a][p] =
                  [id |-> issued + 1, status |-> "Active", reason |-> "Active"]]
    /\ UNCHANGED status

\* An active lease ends once, for one reason.
End(a, p, why) ==
    /\ held[a][p].status = "Active"
    /\ held' = [held EXCEPT ![a][p] =
                  [id |-> held[a][p].id, status |-> "Inactive", reason |-> why]]
    /\ UNCHANGED <<status, issued>>

Next ==
    \E a \in Accounts :
        \/ Register(a) \/ Return(a) \/ CheckOut(a) \/ Reclaim(a) \/ Remove(a)
        \/ \E p \in Principals :
             \/ Grant(a, p)
             \/ \E why \in {"Destroyed", "Expired"} : End(a, p, why)

Spec == Init /\ [][Next]_lifecycleVars
=============================================================================
