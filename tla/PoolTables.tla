----------------------------- MODULE PoolTables -----------------------------
(***************************************************************************)
(* The two DynamoDB tables every DCE handler works on, and the writes the  *)
(* handlers may make to them: the conditional puts of pkg/data (optimistic *)
(* locking on LastModifiedOn) and the conditional updates of pkg/db (a     *)
(* transition out of an expected status).                                  *)
(*                                                                         *)
(* LastModifiedOn is the wall clock in whole seconds.  A row that does not *)
(* exist has no LastModifiedOn; 0 stands for "no attribute", for a missing *)
(* row and for a nil *int64 alike, so that the two conditions the code     *)
(* builds (attribute_not_exists, or equality) are one comparison.          *)
(***************************************************************************)
EXTENDS Naturals, FiniteSets

CONSTANTS
    Accounts,      \* child AWS accounts the pool may hold
    Principals,    \* users leases are given to
    PageSize,      \* items DynamoDB examines for one call of List (LIMIT, 25)
    MaxNow,        \* bound: the last second of the clock
    MaxLeases,     \* bound: leases ever created
    SecondsApart,  \* TRUE: no two stamped writes fall into the same second
    Lags           \* TRUE: a read may return what a row was some time ago

ASSUME TablesAssumption ==
    /\ PageSize \in Nat \ {0}
    /\ MaxNow \in Nat
    /\ MaxLeases \in Nat
    /\ SecondsApart \in BOOLEAN
    /\ Lags \in BOOLEAN

VARIABLES
    account,   \* Accounts table, by Id
    lease,     \* Leases table, by AccountId and PrincipalId
    now,       \* time.Now().Unix()
    issued,    \* lease IDs handed out so far; uuid.New() never repeats one
    shownAccount,  \* what a replica or an index that lags behind still shows
    shownLease     \* of each row

tables == <<account, lease, now, issued>>
shown  == <<shownAccount, shownLease>>

AccountStatus == {"Absent", "NotReady", "Ready", "Leased"}
LeaseStatus   == {"None", "Active", "Inactive"}

\* Why a lease is in its status; "Expired" stands for the three reasons the
\* budget check gives (Expired, OverBudget, OverPrincipalBudget).
LeaseReason   == {"None", "Active", "Destroyed", "Expired"}

AccountRow == [status : AccountStatus, lastMod : Nat]
LeaseRow   == [id : Nat, status : LeaseStatus, reason : LeaseReason,
               lastMod : Nat]

NoAccount == [status |-> "Absent", lastMod |-> 0]
NoLease   == [id |-> 0, status |-> "None", reason |-> "None", lastMod |-> 0]

\* The pool starts with no lease and with accounts that are either unknown
\* or have come out of their first reset; what lags behind shows nothing yet.
TablesInit ==
    /\ account \in [Accounts -> {NoAccount, [status |-> "Ready", lastMod |-> 1]}]
    /\ lease = [a \in Accounts |-> [p \in Principals |-> NoLease]]
    /\ now = 1
    /\ issued = 0
    /\ shownAccount = [a \in Accounts |-> NoAccount]
    /\ shownLease = lease

-----------------------------------------------------------------------------

\* The seconds in which the next stamped write may happen.
Seconds == {t \in {now, now + 1} : t <= MaxNow /\ (SecondsApart => t > now)}

InPool(a) == account[a].status # "Absent"

Active(a, p) == lease[a][p].status = "Active"

\* What a read of a row may return.  GetItem and Query are not consistent
\* unless USE_CONSISTENT_READS says so (data.Account, data.Lease), and an
\* index never is.
AccountReads(a)  == {account[a]} \cup IF Lags THEN {shownAccount[a]} ELSE {}
LeaseReads(a, p) == {lease[a][p]} \cup IF Lags THEN {shownLease[a][p]} ELSE {}

\* What a query may see of the leases of a principal.
LeaseViews(p) ==
    {[a \in Accounts |-> IF a \in late THEN shownLease[a][p] ELSE lease[a][p]] :
        late \in SUBSET (IF Lags THEN Accounts ELSE {})}

\* data.Lease.List for a principal returns one page of the index
\* PrincipalIdLastModifiedOn, the latest records first; the filters (status,
\* account) are applied to that page.
Held(view) == {a \in Accounts : view[a].status # "None"}

FirstPages(view) ==
    {page \in SUBSET Held(view) :
        /\ \/ page = Held(view) /\ Cardinality(page) <= PageSize
           \/ Cardinality(page) = PageSize
        /\ \A a \in page, b \in Held(view) \ page :
            view[a].lastMod >= view[b].lastMod}

\* Mutant: the put only asks that a record to be updated exists.
AccountStillThere(a, prev) == InPool(a) <=> prev # 0

\* Mutant: a save that writes back the LastModifiedOn it read.
PutAccountUnstamped(a, status) ==
    /\ account' = [account EXCEPT ![a].status = status,
                                  ![a].lastMod = IF InPool(a) THEN @ ELSE now]
    /\ UNCHANGED <<lease, now, issued>>

\* The put of data.Account.Write under its condition on LastModifiedOn.
AccountUnchanged(a, prev) == account[a].lastMod = prev

PutAccount(a, status) ==
    \E t \in Seconds :
        /\ now' = t
        /\ account' = [account EXCEPT ![a] = [status |-> status, lastMod |-> t]]
        /\ UNCHANGED <<lease, issued>>

\* data.Account.Delete: no condition.
DeleteAccountRow(a) ==
    /\ account' = [account EXCEPT ![a] = NoAccount]
    /\ UNCHANGED <<lease, now, issued>>

\* Mutant: a lease is written without a condition.
LeaseUnchecked(a, p, prev) == prev \in Nat

\* The condition of data.Lease.Write.
LeaseUnchanged(a, p, prev) == lease[a][p].lastMod = prev

\* The put of a new lease record, with a fresh ID and the time of the write.
PutNewLease(a, p) ==
    /\ issued < MaxLeases
    /\ issued' = issued + 1
    /\ \E t \in Seconds :
        /\ now' = t
        /\ lease' = [lease EXCEPT ![a][p] =
                       [id |-> issued + 1, status |-> "Active",
                        reason |-> "Active", lastMod |-> t]]
    /\ UNCHANGED account

\* The put of lease.Service.Delete: the record it read, now Inactive, with the
\* LastModifiedOn it was read with.
PutDestroyedLease(a, p, id, stamp) ==
    /\ lease' = [lease EXCEPT ![a][p] =
                   [id |-> id, status |-> "Inactive",
                    reason |-> "Destroyed", lastMod |-> stamp]]
    /\ UNCHANGED <<account, now, issued>>

\* Mutant: the update sets the status and the reason only.
ExpireLeaseRowUnstamped(a, p) ==
    /\ lease' = [lease EXCEPT ![a][p].status = "Inactive", ![a][p].reason = "Expired"]
    /\ UNCHANGED <<account, now, issued>>

\* db.TransitionLeaseStatus(a, p, Active, Inactive, reason): an update of the
\* row in place, conditional on its status.
ExpireLeaseRow(a, p) ==
    \E t \in Seconds :
        /\ now' = t
        /\ lease' = [lease EXCEPT ![a][p] =
                       [id |-> lease[a][p].id, status |-> "Inactive",
                        reason |-> "Expired", lastMod |-> t]]
        /\ UNCHANGED <<account, issued>>

\* Mutant: the transition does not ask for the status it starts from.
TransitionFromAny(a, from, to) == from # to /\ PutAccount(a, to)

\* db.TransitionAccountStatus(a, from, to); a missing row has no status, so
\* the condition fails on it.
TransitionAccount(a, from, to) ==
    /\ account[a].status = from
    /\ PutAccount(a, to)

-----------------------------------------------------------------------------

\* Whatever lags behind catches up, row by row and at any time.
AccountCatchesUp(a) ==
    /\ Lags
    /\ shownAccount' = [shownAccount EXCEPT ![a] = account[a]]
    /\ UNCHANGED <<tables, shownLease>>

LeaseCatchesUp(a, p) ==
    /\ Lags
    /\ shownLease' = [shownLease EXCEPT ![a][p] = lease[a][p]]
    /\ UNCHANGED <<tables, shownAccount>>
=============================================================================
