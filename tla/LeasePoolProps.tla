-------------------------- MODULE LeasePoolProps ----------------------------
(***************************************************************************)
(* What the control plane of LeasePool does and does not guarantee.        *)
(*                                                                         *)
(* The first part holds in every environment (any interleaving, failures,  *)
(* duplicated and delayed messages), as long as no two stamped writes fall *)
(* into the same second.  The second part holds when the API is called one *)
(* call at a time and nothing fails.  The third part says what must go     *)
(* wrong before a tenant is nuked or is given an account that was not      *)
(* cleaned, whoever calls, fails or lags.  The fourth is what the          *)
(* documentation says and the code does not do.                            *)
(***************************************************************************)
EXTENDS LeasePool

-----------------------------------------------------------------------------
(* The argument of the optimistic lock *)

\* Workers that hold a copy of an account record they may write back.
HoldsRow(w) ==
    req[w].pc \in {"create.lookup", "create.check", "create.save",
                   "create.publish", "create.mark", "reset.save",
                   "add.again", "touch.save"}

\* Rows are stamped with a second that has been, and only rows that exist
\* carry a stamp or an ID.
RowsStamped ==
    /\ \A a \in Accounts :
        /\ account[a].lastMod <= now
        /\ account[a].lastMod = 0 <=> account[a].status = "Absent"
    /\ \A a \in Accounts, p \in Principals :
        /\ lease[a][p].lastMod <= now
        /\ lease[a][p].lastMod = 0 <=> lease[a][p].status = "None"
        /\ lease[a][p].id = 0 <=> lease[a][p].status = "None"
        /\ lease[a][p].id <= issued
        /\ lease[a][p].status = "Active" <=> lease[a][p].reason = "Active"

\* A copy of an account record that would pass the condition of a save says
\* what the table says: no handler can write back a status that has changed
\* since it read the account (account.Service.Save).
AccountCopiesCurrent ==
    \A w \in Workers : HoldsRow(w) =>
        /\ req[w].row.lastMod \in 1 .. now
        /\ AccountUnchanged(Acc(w), req[w].row.lastMod)
              => account[Acc(w)].status = req[w].row.status

\* The lease a DELETE has read is still in the table under the stamp it was
\* read with, unless another DELETE has already destroyed it: Delete leaves
\* LastModifiedOn as it was, so a second one passes the condition.  The
\* inactive lease a POST has read is still inactive under its stamp.
LeaseCopiesCurrent ==
    \A w \in Workers :
        /\ req[w].seen <= now
        /\ At(w, "delete.write") =>
            /\ req[w].seen > 0
            /\ LeaseUnchanged(Acc(w), Prin(w), req[w].seen)
                  => /\ lease[Acc(w)][Prin(w)].id = req[w].id
                     /\ lease[Acc(w)][Prin(w)].reason \in {"Active", "Destroyed"}
        /\ (req[w].pc \in {"create.check", "create.save"} /\ req[w].seen > 0) =>
            (LeaseUnchanged(Acc(w), Prin(w), req[w].seen)
                  => lease[Acc(w)][Prin(w)].status = "Inactive")

\* A handler that lists accounts starts from a Ready one.
ListedReady ==
    \A w \in Workers :
        req[w].pc \in CreatePCs => req[w].row.status = "Ready"

AddsNotReady ==
    \A w \in Workers : At(w, "add.again") => req[w].row.status = "NotReady"

\* The same of what a read that lags may return: a row read under the stamp
\* the table has says what the table says, except that a DELETE may have
\* destroyed the lease since.
AccountAsOf(a, row) ==
    /\ row.lastMod <= now
    /\ row.lastMod = 0 <=> row.status = "Absent"
    /\ AccountUnchanged(a, row.lastMod) => account[a].status = row.status

LeaseAsOf(a, p, row) ==
    /\ row.lastMod <= now
    /\ row.lastMod = 0 <=> row.status = "None"
    /\ LeaseUnchanged(a, p, row.lastMod) =>
        /\ lease[a][p].id = row.id
        /\ row.status = "Inactive" => lease[a][p].status = "Inactive"
        /\ row.status = "Active" => lease[a][p].reason \in {"Active", "Destroyed"}

ReplicasBehind ==
    \A a \in Accounts :
        /\ AccountAsOf(a, shownAccount[a])
        /\ \A p \in Principals : LeaseAsOf(a, p, shownLease[a][p])

\* The inductive invariant (with SecondsApart).
OptimisticLock ==
    /\ RowsStamped
    /\ ReplicasBehind
    /\ AccountCopiesCurrent
    /\ LeaseCopiesCurrent
    /\ ListedReady
    /\ AddsNotReady

-----------------------------------------------------------------------------
(* Guarantees in every environment *)

\* An account is checked out of the Ready pool only: a POST /leases whose
\* account was reset, leased or removed after it was listed never marks it
\* Leased (leases/create.go writes back the record it listed).
CheckedOutFromReady ==
    [][\A a \in Accounts :
         account'[a].status = "Leased" /\ account[a].status # "Leased"
            => account[a].status = "Ready"]_vars

\* A lease ends once: neither a second DELETE nor a late budget check brings
\* an ended lease back or changes the reason it ended for.
EndingIsFinal ==
    [][\A a \in Accounts, p \in Principals :
         lease[a][p].status = "Inactive" /\ lease'[a][p].id = lease[a][p].id
            => /\ lease'[a][p].status = "Inactive"
               /\ lease'[a][p].reason = lease[a][p].reason]_vars

\* A lease record is replaced by a new lease of the same principal on the
\* same account only after it has ended.
ActiveLeaseNotReplaced ==
    [][\A a \in Accounts, p \in Principals :
         lease'[a][p].id # lease[a][p].id => ~Active(a, p)]_vars

\* DELETE ends the lease it was asked to end and not a later one of the same
\* principal on the same account, however late its write comes.
DeleteEndsTheLeaseItRead ==
    [][\A w \in Workers :
         At(w, "delete.write") /\ req'[w].pc = "reset.get"
            => /\ lease[Acc(w)][Prin(w)].id = req[w].id
               /\ lease'[Acc(w)][Prin(w)].id = req[w].id]_vars

\* An account that was removed comes back by POST /accounts only; no save of
\* an old copy and no status transition recreates its record.
RemovedStaysRemoved ==
    [][\A a \in Accounts :
         ~InPool(a) /\ InPool(a)'
            => \E w \in Workers : At(w, "add.save") /\ Acc(w) = a]_vars

\* PUT /accounts and the policy refresh write back a whole record they read
\* earlier; a save that succeeds leaves the account's status as it is.  (The
\* error of a save that does not: "accounts has been modified since request
\* was made".)
TouchKeepsStatus ==
    [][\A w \in Workers :
         At(w, "touch.save") => account'[Acc(w)].status = account[Acc(w)].status
            \/ req'[w] = req[w]]_vars

\* Only a reset build makes an account Ready, and only out of NotReady: a
\* policy refresh or an account update never does, although both write back
\* a whole record they read earlier.
OnlyBuildsMakeReady ==
    [][\A a \in Accounts :
         account'[a].status = "Ready" /\ account[a].status # "Ready"
            => /\ account[a].status = "NotReady"
               /\ \E b \in Builders : build[b].acc = a /\ build[b].phase = "update"]_vars

-----------------------------------------------------------------------------
(* The abstract life of accounts and leases *)

LifeOfLease(row) == [id |-> row.id, status |-> row.status, reason |-> row.reason]

Lifecycle == INSTANCE PoolLifecycle WITH
    status <- [a \in Accounts |-> account[a].status],
    held   <- [a \in Accounts |-> [p \in Principals |-> LifeOfLease(lease[a][p])]]

\* Every step of every handler, build and message is a step in the life of one
\* account or of one lease, or changes neither.
RefinesLifecycle == Lifecycle!Spec

-----------------------------------------------------------------------------
(* Guarantees when calls come one at a time and nothing fails *)

Quiet == \A w \in Workers : Idle(w)

Tenanted(a) == \E p \in Principals : Active(a, p)

\* Between calls, an account is Leased exactly when someone holds an active
\* lease on it, nobody shares an account and nobody holds two.
PoolConsistent ==
    Quiet =>
        /\ \A a \in Accounts :
            account[a].status = "Leased" <=> \E p \in Principals : Active(a, p)
        /\ \A a, b \in Accounts, p, q \in Principals :
            Active(a, p) /\ Active(b, q) => (a = b <=> p = q)

\* A POST /leases between its two writes: the lease is there, its account not
\* yet marked.
Creating(w) == req[w].pc \in {"create.publish", "create.mark"}

\* An account somebody holds is Leased, or is Ready and the call that gives it
\* out is still to mark it.  The two tables are written by different calls of
\* several handlers, and DELETE /accounts looks at the account only
\* (leases/create.go, account.Service.Delete).
TablesAgree ==
    /\ \A a \in Accounts, p \in Principals : Active(a, p) =>
         \/ account[a].status = "Leased"
         \/ \E w \in Workers : Creating(w) /\ Acc(w) = a /\ Prin(w) = p
    /\ \A w \in Workers : Creating(w) =>
         Active(Acc(w), Prin(w)) /\ account[Acc(w)].status = "Ready"

-----------------------------------------------------------------------------
(* What has to go wrong first *)

\* What lags behind shows no account NotReady that has been reset since, and no
\* lease Active that has ended.
NothingShownTooLong ==
    \A a \in Accounts :
        /\ shownAccount[a].status = "NotReady" => account[a].status \notin {"Ready", "Leased"}
        /\ \A p \in Principals : shownLease[a][p].status = "Active" => Active(a, p)

\* A reset of the account has been asked for, or is about to be, and no build
\* has been started for it.
ResetPending(a) == a \in queue \/ \E w \in Workers : At(w, "reset.send") /\ Acc(w) = a

Resets(b, a) == build[b].phase # "idle" /\ build[b].acc = a

\* A build makes an account Ready only as the last reset of it: no other build
\* of it runs and no message for it is on the way.  process_reset_queue looks
\* at neither, and the sweep sends a message every time it finds an account
\* NotReady.
LastReset ==
    \A a \in Accounts :
        account[a].status = "NotReady" /\ account'[a].status = "Ready"
            => /\ ~ResetPending(a)
               /\ \A b, c \in Builders : Resets(b, a) /\ Resets(c, a) => b = c

GivenBackLast == [][LastReset]_vars

\* No two calls that have found a principal without an active lease are about
\* to save one for that principal.
SavesApart ==
    \A v, w \in Workers :
        At(v, "create.save") /\ At(w, "create.save") /\ Prin(v) = Prin(w) => v = w

-----------------------------------------------------------------------------
(* What is documented *)

\* docs/concepts.md on Ready: all of the resources have been cleaned.
ReadyIsClean ==
    \A a \in Accounts : account[a].status = "Ready" /\ a \in dirty
        => \E p \in Principals : Active(a, p)

\* docs/concepts.md on Reset: the lease is Inactive before the resources in
\* the account are deleted.
NukedOnlyAfterLeaseEnds ==
    [][\A b \in Builders :
         build[b].phase = "nuke" /\ build'[b].phase = "update"
            => ~ \E p \in Principals : Active(build[b].acc, p)]_vars

\* The reset of one account as AccountReset has it.  An account is given out
\* with its lease and taken back with it, whenever its own record follows.
\* All that is in an account counts as one thing.
GivenOut(a)  == IF Tenanted(a) THEN "Leased"
                ELSE IF account[a].status = "Leased" THEN "NotReady"
                ELSE account[a].status
HeldIn(a)    == IF Tenanted(a) THEN dirty \cap {a} ELSE {}
LeftIn(a)    == IF Tenanted(a) THEN {} ELSE dirty \cap {a}
Resetting(a) == \E b \in Builders : Resets(b, a)

AccountReset(a) == INSTANCE AccountReset WITH
    Resources <- {a}, status <- GivenOut(a), held <- HeldIn(a), left <- LeftIn(a),
    resetting <- Resetting(a)

\* Every step is, for every account, one of its reset or none of its business:
\* only what former tenants have left is removed, only during a reset, and an
\* account is given out again when nothing of it remains (docs/concepts.md on
\* Reset).
RefinesAccountReset ==
    /\ \A x \in Accounts : AccountReset(x)!Init
    /\ [][\A x \in Accounts : [AccountReset(x)!Next]_(AccountReset(x)!promiseVars)]_vars

\* docs/concepts.md on Rollback: a lease that could not be set up is made
\* Inactive, so between calls no lease is Active on an account that is still
\* in the pool.
FailedCreateRolledBack ==
    Quiet => \A a \in Accounts, p \in Principals :
        Active(a, p) => account[a].status # "Ready"

\* The comment in account.Service.Reset: a read that is not consistent may
\* have found a previous state, so the account is forced to NotReady.
StaleResetForced ==
    [][\A w \in Workers :
         At(w, "reset.save") /\ req'[w] # req[w] => account'[Acc(w)].status = "NotReady"]_vars

\* lease.Service.Create: checks if the principal already has an active lease.
OneLeaseEach ==
    \A a, b \in Accounts, p \in Principals : Active(a, p) /\ Active(b, p) => a = b

\* account.Service.Delete: deletes an account if it is not Leased.
LeasedNotRemoved ==
    [][\A a \in Accounts : account[a].status = "Leased" => InPool(a)']_vars

-----------------------------------------------------------------------------
(* Liveness *)

\* The sweep runs for ever; an account that is queued again and again gets a
\* build in the end, and of its builds some nuke succeeds and, of those, some
\* build finishes.
Fairness ==
    /\ \A a \in Accounts : WF_vars(PopulateResetQueue(a))
    /\ \A a \in Accounts :
        /\ SF_vars(\E b \in Builders : StartBuild(b, a))
        /\ SF_vars(\E b \in Builders : build[b].acc = a /\ Nuke(b))
        /\ SF_vars(\E b \in Builders : build[b].acc = a /\ FinishBuild(b))

FairSpec == Spec /\ Fairness

\* An account that has become NotReady does not stay so for ever, whatever
\* messages are lost and builds fail.
ResetCompletes ==
    \A a \in Accounts :
        account[a].status = "NotReady" ~> account[a].status # "NotReady"
=============================================================================
