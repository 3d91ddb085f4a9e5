------------------------- MODULE LeasePoolLockProofs -------------------------
(***************************************************************************)
(* Proofs that the optimistic lock of the Accounts and Leases tables does  *)
(* its work when no two stamped writes fall into the same second, and of   *)
(* what follows from it: the action properties of LeasePoolProps and the   *)
(* refinement of PoolLifecycle.                                            *)
(*                                                                         *)
(* The argument: a copy of a record that would pass the condition of a     *)
(* save agrees with the table (OptimisticLock).  Hence every step of every *)
(* handler is one of the few changes TableStep lists.  Such a change       *)
(* stamps the row it writes with a second no copy carries yet              *)
(* (TablesAdvance), so it makes every copy of the row fail its condition   *)
(* and OptimisticLock holds again.                                         *)
(***************************************************************************)
EXTENDS LeasePoolProofs

IInv == TypeOK /\ OptimisticLock

\* OptimisticLock, as far as it is about worker w.
WorkerOK(w) ==
    /\ HoldsRow(w) =>
        /\ req[w].row.lastMod \in 1 .. now
        /\ AccountUnchanged(Acc(w), req[w].row.lastMod)
              => account[Acc(w)].status = req[w].row.status
    /\ req[w].seen <= now
    /\ At(w, "delete.write") =>
        /\ req[w].seen > 0
        /\ LeaseUnchanged(Acc(w), Prin(w), req[w].seen)
              => /\ lease[Acc(w)][Prin(w)].id = req[w].id
                 /\ lease[Acc(w)][Prin(w)].reason \in {"Active", "Destroyed"}
    /\ (req[w].pc \in {"create.check", "create.save"} /\ req[w].seen > 0) =>
        (LeaseUnchanged(Acc(w), Prin(w), req[w].seen)
              => lease[Acc(w)][Prin(w)].status = "Inactive")
    /\ req[w].pc \in CreatePCs => req[w].row.status = "Ready"
    /\ At(w, "add.again") => req[w].row.status = "NotReady"

LEMMA LockByWorker ==
    OptimisticLock <=>
        RowsStamped /\ ReplicasBehind /\ \A w \in Workers : WorkerOK(w)
  BY DEF OptimisticLock, AccountCopiesCurrent, LeaseCopiesCurrent, ListedReady,
         AddsNotReady, WorkerOK

LEMMA LockByWorkerPrimed ==
    OptimisticLock' <=>
        RowsStamped' /\ ReplicasBehind' /\ \A w \in Workers : WorkerOK(w)'
  BY DEF OptimisticLock, AccountCopiesCurrent, LeaseCopiesCurrent, ListedReady,
         AddsNotReady, WorkerOK

-----------------------------------------------------------------------------
(* What a step may do to the tables *)

\* The changes of an account's status, with what makes them.
MayBecome(a, s) ==
    \/ s = account[a].status
    \/ /\ account[a].status = "Absent" /\ s = "NotReady"
       /\ \E w \in Workers : At(w, "add.save") /\ Acc(w) = a
    \/ account[a].status \in {"Ready", "Leased"} /\ s = "NotReady"
    \/ account[a].status = "Ready" /\ s = "Leased"
    \/ /\ account[a].status = "NotReady" /\ s = "Ready"
       /\ \E b \in Builders : build[b].acc = a /\ build[b].phase = "update"

AccountPut == \E a \in Accounts, s \in AccountStatus \ {"Absent"} :
                MayBecome(a, s) /\ PutAccount(a, s)
AccountDeleted == \E a \in Accounts : DeleteAccountRow(a)
LeasePut == \E a \in Accounts, p \in Principals : ~Active(a, p) /\ PutNewLease(a, p)
LeaseDestroyed ==
    \E a \in Accounts, p \in Principals :
        /\ lease[a][p].status # "None"
        /\ lease[a][p].reason \in {"Active", "Destroyed"}
        /\ PutDestroyedLease(a, p, lease[a][p].id, lease[a][p].lastMod)
LeaseExpired == \E a \in Accounts, p \in Principals : Active(a, p) /\ ExpireLeaseRow(a, p)

TableStep ==
    \/ UNCHANGED tables
    \/ AccountPut
    \/ AccountDeleted
    \/ LeasePut
    \/ LeaseDestroyed
    \/ LeaseExpired

\* A save of a copy, under the condition that the row is as it was read.
LEMMA SavedCopy ==
    ASSUME IInv, NEW w \in Workers, HoldsRow(w),
           AccountUnchanged(Acc(w), req[w].row.lastMod)
    PROVE  /\ Acc(w) \in Accounts
           /\ account[Acc(w)].status = req[w].row.status
           /\ account[Acc(w)].status # "Absent"
<1>1. Acc(w) \in Accounts
  BY WorkerTyped DEF HoldsRow, Idle, IInv
<1>2. WorkerOK(w) /\ RowsStamped
  BY LockByWorker DEF IInv
<1>3. now \in Nat
  BY TypeParts DEF IInv, TablesOK
<1>. QED
  BY <1>1, <1>2, <1>3 DEF WorkerOK, RowsStamped, AccountUnchanged

\* Every step of the system is a TableStep.
LEMMA EveryStep == ASSUME IInv, Next PROVE TableStep
<1>. USE DEF IInv
<1>1. ASSUME NEW w \in Workers, LeaseStep(w) PROVE TableStep
  <2>1. CASE SaveLease(w) /\ ~UNCHANGED tables
    <3>1. WorkerOK(w) /\ RowsStamped /\ TablesOK
      BY LockByWorker, TypeParts
    <3>2. Acc(w) \in Accounts /\ Prin(w) \in Principals /\ req[w].seen \in Nat
      BY <2>1, WorkerTyped DEF SaveLease, At, Idle, ForPrincipal, CreatePCs
    <3>3. PutNewLease(Acc(w), Prin(w)) /\ LeaseUnchanged(Acc(w), Prin(w), req[w].seen)
      BY <2>1 DEF SaveLease
    <3>4. ~Active(Acc(w), Prin(w))
      BY <2>1, <3>1, <3>2, <3>3
         DEF SaveLease, WorkerOK, RowsStamped, LeaseUnchanged, Active, At
    <3>. QED  BY <3>2, <3>3, <3>4 DEF TableStep, LeasePut
  <2>2. CASE MarkLeased(w) /\ ~UNCHANGED tables
    <3>1. /\ PutAccount(Acc(w), "Leased")
          /\ AccountUnchanged(Acc(w), req[w].row.lastMod)
          /\ At(w, "create.mark")
      BY <2>2 DEF MarkLeased
    <3>2. req[w].row.status = "Ready"
      BY <3>1, LockByWorker DEF WorkerOK, At, CreatePCs
    <3>3. account[Acc(w)].status = "Ready" /\ Acc(w) \in Accounts
      BY <3>1, <3>2, SavedCopy DEF HoldsRow, At
    <3>. QED  BY <3>1, <3>3 DEF TableStep, AccountPut, MayBecome, AccountStatus
  <2>3. CASE DestroyLease(w) /\ ~UNCHANGED tables
    <3>1. /\ PutDestroyedLease(Acc(w), Prin(w), req[w].id, req[w].seen)
          /\ LeaseUnchanged(Acc(w), Prin(w), req[w].seen)
          /\ At(w, "delete.write")
      BY <2>3 DEF DestroyLease
    <3>2. Acc(w) \in Accounts /\ Prin(w) \in Principals /\ req[w].seen \in Nat
      BY <3>1, WorkerTyped DEF At, Idle, ForPrincipal
    <3>3. WorkerOK(w) /\ RowsStamped
      BY LockByWorker
    <3>4. /\ lease[Acc(w)][Prin(w)].id = req[w].id
          /\ lease[Acc(w)][Prin(w)].lastMod = req[w].seen
          /\ lease[Acc(w)][Prin(w)].reason \in {"Active", "Destroyed"}
          /\ lease[Acc(w)][Prin(w)].status # "None"
      BY <3>1, <3>2, <3>3 DEF WorkerOK, RowsStamped, LeaseUnchanged
    <3>. QED  BY <3>1, <3>2, <3>4 DEF TableStep, LeaseDestroyed
  <2>4. CASE ResetSave(w) /\ ~UNCHANGED tables
    <3>1. /\ PutAccount(Acc(w), "NotReady")
          /\ AccountUnchanged(Acc(w), req[w].row.lastMod)
          /\ HoldsRow(w)
      BY <2>4 DEF ResetSave, HoldsRow, At
    <3>2. Acc(w) \in Accounts /\ account[Acc(w)].status # "Absent"
      BY <3>1, SavedCopy
    <3>3. account[Acc(w)].status \in AccountStatus
      BY <3>2, TypeParts DEF TablesOK, AccountRow
    <3>. QED
      BY <3>1, <3>2, <3>3 DEF TableStep, AccountPut, MayBecome, AccountStatus
  <2>5. CASE UNCHANGED tables
    BY <2>5 DEF TableStep
  <2>. QED
    BY <1>1, <2>1, <2>2, <2>3, <2>4, <2>5 DEF LeaseStep, CreateLease,
       LookupInactiveLease, CheckActiveLease, PublishLeaseCreate, DeleteLease,
       ResetGet, ResetSend
<1>2. ASSUME NEW w \in Workers, AccountStep(w) PROVE TableStep
  <2>1. CASE SaveNewAccount(w) /\ ~UNCHANGED tables
    <3>1. PutAccount(Acc(w), "NotReady") /\ At(w, "add.save")
      BY <2>1 DEF SaveNewAccount, PutAccount
    <3>2. Acc(w) \in Accounts
      BY <3>1, WorkerTyped DEF At, Idle
    <3>3. account[Acc(w)].status \in AccountStatus
      BY <3>2, TypeParts DEF TablesOK, AccountRow
    <3>. QED
      BY <3>1, <3>2, <3>3 DEF TableStep, AccountPut, MayBecome, AccountStatus
  <2>2. ASSUME NEW pc \in {"add.again", "touch.save"}, NEW next,
               SaveCopy(w, pc, next), ~UNCHANGED tables
        PROVE  TableStep
    <3>1. /\ PutAccount(Acc(w), req[w].row.status)
          /\ AccountUnchanged(Acc(w), req[w].row.lastMod)
          /\ HoldsRow(w)
      BY <2>2 DEF SaveCopy, HoldsRow, At
    <3>2. /\ Acc(w) \in Accounts
          /\ account[Acc(w)].status = req[w].row.status
          /\ account[Acc(w)].status # "Absent"
      BY <3>1, SavedCopy
    <3>3. account[Acc(w)].status \in AccountStatus
      BY <3>2, TypeParts DEF TablesOK, AccountRow
    <3>. QED
      BY <3>1, <3>2, <3>3 DEF TableStep, AccountPut, MayBecome
  <2>3. CASE RemoveAccount(w)
    <3>1. DeleteAccountRow(Acc(w)) /\ Acc(w) \in Accounts
      BY <2>3, WorkerTyped DEF RemoveAccount, At, Idle
    <3>. QED  BY <3>1 DEF TableStep, AccountDeleted
  <2>4. CASE UNCHANGED tables
    BY <2>4 DEF TableStep
  <2>. QED
    BY <1>2, <2>1, <2>2, <2>3, <2>4 DEF AccountStep, CreateAccount,
       SaveNewAccountAgain, UpdateAccount, UpdatePrincipalPolicy,
       SaveTouchedAccount, DeleteAccount
<1>3. ASSUME NEW w \in Workers, ExpireStep(w) \/ Fail(w) PROVE TableStep
  <2>1. CASE ExpireLease(w) /\ ~UNCHANGED tables
    <3>1. Acc(w) \in Accounts /\ Prin(w) \in Principals
      BY <2>1, WorkerTyped DEF ExpireLease, At, Idle, ForPrincipal, ExpirePCs
    <3>. QED  BY <2>1, <3>1 DEF ExpireLease, TableStep, LeaseExpired
  <2>2. CASE ExpireAccount(w) /\ ~UNCHANGED tables
    <3>1. Acc(w) \in Accounts
      BY <2>2, WorkerTyped DEF ExpireAccount, At, Idle
    <3>. QED
      BY <2>2, <3>1 DEF ExpireAccount, TransitionAccount, TableStep, AccountPut,
         MayBecome, AccountStatus
  <2>3. CASE UNCHANGED tables
    BY <2>3 DEF TableStep
  <2>. QED
    BY <1>3, <2>1, <2>2, <2>3 DEF ExpireStep, UpdateLeaseStatus, Fail
<1>4. ASSUME NEW b \in Builders, BuildStep(b) PROVE TableStep
  <2>1. CASE FinishBuild(b) /\ ~UNCHANGED tables
    <3>1. build[b].acc \in Accounts /\ build[b].phase = "update"
      BY <2>1, TypeParts DEF FinishBuild, BuildsOK, BuildOK
    <3>. QED
      BY <2>1, <3>1 DEF FinishBuild, TransitionAccount, TableStep, AccountPut,
         MayBecome, AccountStatus
  <2>2. CASE UNCHANGED tables
    BY <2>2 DEF TableStep
  <2>. QED
    BY <1>4, <2>1, <2>2 DEF BuildStep, StartBuild, Nuke, BuildFails
<1>5. ASSUME NEW a \in Accounts, EventStep(a) PROVE TableStep
  BY <1>5, EventStepTyped DEF TableStep, tables
<1>6. ASSUME NEW a \in Accounts, CatchUp(a) PROVE TableStep
  BY <1>6, CatchUpTyped DEF TableStep
<1>. QED
  BY <1>1, <1>2, <1>3, <1>4, <1>5, <1>6 DEF Next

-----------------------------------------------------------------------------
(* What such a step leaves true *)

\* A row that changes gets a stamp from the future, disappears, or is a lease
\* that a DELETE has destroyed under its old stamp.
TablesAdvance ==
    /\ now <= now'
    /\ now' \in Nat
    /\ \A a \in Accounts :
        \/ account'[a] = account[a]
        \/ account'[a].lastMod > now
        \/ account'[a] = NoAccount
    /\ \A a \in Accounts, p \in Principals :
        \/ lease'[a][p] = lease[a][p]
        \/ lease'[a][p].lastMod > now
        \/ /\ lease'[a][p].id = lease[a][p].id
           /\ lease'[a][p].lastMod = lease[a][p].lastMod
           /\ lease'[a][p].status = "Inactive"
           /\ lease'[a][p].reason = "Destroyed"

LEMMA SecondsFollow ==
    ASSUME SecondsApart, TablesOK, NEW t \in Seconds
    PROVE  t \in Nat /\ t = now + 1 /\ t > 0
  BY DEF Seconds, TablesOK

LEMMA Advance ==
    ASSUME SecondsApart, TablesOK, RowsStamped, TableStep
    PROVE  RowsStamped' /\ TablesAdvance
<1>. USE DEF RowsStamped, TablesAdvance, TablesOK
<1>1. CASE UNCHANGED tables
  BY <1>1 DEF tables
<1>2. ASSUME NEW a \in Accounts, NEW s \in AccountStatus \ {"Absent"}, PutAccount(a, s)
      PROVE  RowsStamped' /\ TablesAdvance
  <2>1. PICK t \in Seconds :
          /\ now' = t
          /\ account' = [account EXCEPT ![a] = [status |-> s, lastMod |-> t]]
          /\ UNCHANGED <<lease, issued>>
    BY <1>2 DEF PutAccount
  <2>2. t \in Nat /\ t = now + 1 /\ t > 0
    BY SecondsFollow
  <2>3. \A x \in Accounts : account'[x] = IF x = a THEN [status |-> s, lastMod |-> t]
                                                   ELSE account[x]
    BY <2>1
  <2>4. \A x \in Accounts : account[x].lastMod \in Nat
    BY DEF AccountRow
  <2>5. \A x \in Accounts, p \in Principals : lease[x][p].lastMod \in Nat
    BY DEF LeaseRow
  <2>. QED  BY <2>1, <2>2, <2>3, <2>4, <2>5
<1>3. ASSUME NEW a \in Accounts, DeleteAccountRow(a)
      PROVE  RowsStamped' /\ TablesAdvance
  <2>1. \A x \in Accounts : account'[x] = IF x = a THEN NoAccount ELSE account[x]
    BY <1>3 DEF DeleteAccountRow
  <2>. QED  BY <1>3, <2>1 DEF DeleteAccountRow, NoAccount
<1>4. ASSUME NEW a \in Accounts, NEW p \in Principals, PutNewLease(a, p)
      PROVE  RowsStamped' /\ TablesAdvance
  <2>1. PICK t \in Seconds :
          /\ now' = t
          /\ lease' = [lease EXCEPT ![a][p] =
                         [id |-> issued + 1, status |-> "Active",
                          reason |-> "Active", lastMod |-> t]]
    BY <1>4 DEF PutNewLease
  <2>2. t \in Nat /\ t = now + 1 /\ t > 0
    BY SecondsFollow
  <2>3. \A x \in Accounts, q \in Principals :
          lease'[x][q] = IF x = a /\ q = p
                           THEN [id |-> issued + 1, status |-> "Active",
                                 reason |-> "Active", lastMod |-> t]
                           ELSE lease[x][q]
    BY <2>1
  <2>4. \A x \in Accounts, q \in Principals :
          lease[x][q].lastMod \in Nat /\ lease[x][q].id \in Nat
    BY DEF LeaseRow
  <2>5. \A x \in Accounts : account[x].lastMod \in Nat
    BY DEF AccountRow
  <2>6. account' = account /\ issued' = issued + 1
    BY <1>4 DEF PutNewLease
  <2>. QED  BY <2>1, <2>2, <2>3, <2>4, <2>5, <2>6
<1>5. ASSUME NEW a \in Accounts, NEW p \in Principals,
             lease[a][p].status # "None",
             PutDestroyedLease(a, p, lease[a][p].id, lease[a][p].lastMod)
      PROVE  RowsStamped' /\ TablesAdvance
  <2>1. \A x \in Accounts, q \in Principals :
          lease'[x][q] = IF x = a /\ q = p
                           THEN [id |-> lease[a][p].id, status |-> "Inactive",
                                 reason |-> "Destroyed", lastMod |-> lease[a][p].lastMod]
                           ELSE lease[x][q]
    BY <1>5 DEF PutDestroyedLease
  <2>2. account' = account /\ issued' = issued /\ now' = now
    BY <1>5 DEF PutDestroyedLease
  <2>3. ASSUME NEW x \in Accounts, NEW q \in Principals
        PROVE  /\ lease'[x][q].id = lease[x][q].id
               /\ lease'[x][q].lastMod = lease[x][q].lastMod
               /\ \/ lease'[x][q] = lease[x][q]
                  \/ /\ lease[x][q].status # "None"
                     /\ lease'[x][q].status = "Inactive"
                     /\ lease'[x][q].reason = "Destroyed"
    BY <1>5, <2>1
  <2>4. TablesAdvance
    BY <2>2, <2>3
  <2>5. ASSUME NEW x \in Accounts, NEW q \in Principals
        PROVE  /\ lease'[x][q].lastMod <= now
               /\ lease'[x][q].lastMod = 0 <=> lease'[x][q].status = "None"
               /\ lease'[x][q].id = 0 <=> lease'[x][q].status = "None"
               /\ lease'[x][q].id <= issued
               /\ lease'[x][q].status = "Active" <=> lease'[x][q].reason = "Active"
    BY <2>3
  <2>6. RowsStamped'
    BY <2>2, <2>5
  <2>. QED  BY <2>4, <2>6
<1>6. ASSUME NEW a \in Accounts, NEW p \in Principals, Active(a, p),
             ExpireLeaseRow(a, p)
      PROVE  RowsStamped' /\ TablesAdvance
  <2>1. PICK t \in Seconds :
          /\ now' = t
          /\ lease' = [lease EXCEPT ![a][p] =
                         [id |-> lease[a][p].id, status |-> "Inactive",
                          reason |-> "Expired", lastMod |-> t]]
          /\ UNCHANGED <<account, issued>>
    BY <1>6 DEF ExpireLeaseRow
  <2>2. t \in Nat /\ t = now + 1 /\ t > 0
    BY SecondsFollow
  <2>3. \A x \in Accounts, q \in Principals :
          lease'[x][q] = IF x = a /\ q = p
                           THEN [id |-> lease[a][p].id, status |-> "Inactive",
                                 reason |-> "Expired", lastMod |-> t]
                           ELSE lease[x][q]
    BY <2>1
  <2>4. \A x \in Accounts, q \in Principals :
          lease[x][q].lastMod \in Nat /\ lease[x][q].id \in Nat
    BY DEF LeaseRow
  <2>5. \A x \in Accounts : account[x].lastMod \in Nat
    BY DEF AccountRow
  <2>. QED  BY <1>6, <2>1, <2>2, <2>3, <2>4, <2>5 DEF Active
<1>. QED
  BY <1>1, <1>2, <1>3, <1>4, <1>5, <1>6 DEF TableStep, AccountPut, AccountDeleted,
     LeasePut, LeaseDestroyed, LeaseExpired

-----------------------------------------------------------------------------
(* What reads may return *)

LEMMA RowAsOf ==
    ASSUME TypeOK, RowsStamped, NEW a \in Accounts
    PROVE  /\ AccountAsOf(a, account[a])
           /\ \A p \in Principals : LeaseAsOf(a, p, lease[a][p])
  BY TypeParts DEF TablesOK, LeaseRow, LeaseStatus, RowsStamped, AccountAsOf, LeaseAsOf

\* Whatever a read returns, from the table or from what lags behind it.
LEMMA ReadsAsOf ==
    ASSUME IInv, NEW a \in Accounts
    PROVE  /\ \A row \in AccountReads(a) : AccountAsOf(a, row)
           /\ \A p \in Principals : \A row \in LeaseReads(a, p) : LeaseAsOf(a, p, row)
           /\ \A p \in Principals : \A view \in LeaseViews(p) :
                LeaseAsOf(a, p, view[a])
<1>1. /\ AccountAsOf(a, account[a]) /\ AccountAsOf(a, shownAccount[a])
      /\ \A p \in Principals : /\ LeaseAsOf(a, p, lease[a][p])
                               /\ LeaseAsOf(a, p, shownLease[a][p])
  BY RowAsOf DEF IInv, OptimisticLock, ReplicasBehind
<1>2. \A row \in AccountReads(a) : row = account[a] \/ row = shownAccount[a]
  BY DEF AccountReads
<1>3. \A p \in Principals : \A row \in LeaseReads(a, p) :
        row = lease[a][p] \/ row = shownLease[a][p]
  BY DEF LeaseReads
<1>4. \A p \in Principals : \A view \in LeaseViews(p) :
        view[a] = lease[a][p] \/ view[a] = shownLease[a][p]
  BY DEF LeaseViews
<1>. QED  BY <1>1, <1>2, <1>3, <1>4

\* What has been read stays as it is said to be while the tables advance.
LEMMA AsOfKept ==
    ASSUME TypeOK, TablesAdvance, NEW a \in Accounts
    PROVE  /\ \A row \in AccountRow : AccountAsOf(a, row) => AccountAsOf(a, row)'
           /\ \A p \in Principals : \A row \in LeaseRow :
                LeaseAsOf(a, p, row) => LeaseAsOf(a, p, row)'
<1>1. now \in Nat /\ now' \in Nat /\ now <= now'
  BY TypeParts DEF TablesOK, TablesAdvance
<1>2. ASSUME NEW row \in AccountRow, AccountAsOf(a, row) PROVE AccountAsOf(a, row)'
  <2>1. row.lastMod \in Nat
    BY DEF AccountRow
  <2>2. \/ account'[a] = account[a]
        \/ account'[a].lastMod > now
        \/ account'[a] = NoAccount
    BY DEF TablesAdvance
  <2>. QED  BY <1>1, <1>2, <2>1, <2>2 DEF AccountAsOf, AccountUnchanged, NoAccount
<1>3. ASSUME NEW p \in Principals, NEW row \in LeaseRow, LeaseAsOf(a, p, row)
      PROVE  LeaseAsOf(a, p, row)'
  <2>1. row.lastMod \in Nat /\ row.status \in LeaseStatus
    BY DEF LeaseRow
  <2>2. \/ lease'[a][p] = lease[a][p]
        \/ lease'[a][p].lastMod > now
        \/ /\ lease'[a][p].id = lease[a][p].id
           /\ lease'[a][p].lastMod = lease[a][p].lastMod
           /\ lease'[a][p].status = "Inactive"
           /\ lease'[a][p].reason = "Destroyed"
    BY DEF TablesAdvance
  <2>. QED  BY <1>1, <1>3, <2>1, <2>2 DEF LeaseAsOf, LeaseUnchanged
<1>. QED  BY <1>2, <1>3

\* A step either leaves what lags behind as it is or lets a row of it catch up.
LEMMA ShownSteps ==
    ASSUME TypeOK, [Next]_vars, NEW a \in Accounts
    PROVE  /\ shownAccount'[a] \in {shownAccount[a], account[a]}
           /\ \A p \in Principals : shownLease'[a][p] \in {shownLease[a][p], lease[a][p]}
<1>1. CASE UNCHANGED shown
  BY <1>1 DEF shown
<1>2. ASSUME NEW x \in Accounts, CatchUp(x)
      PROVE  /\ shownAccount'[a] \in {shownAccount[a], account[a]}
             /\ \A p \in Principals :
                  shownLease'[a][p] \in {shownLease[a][p], lease[a][p]}
  BY <1>2, TypeParts DEF CatchUp, AccountCatchesUp, LeaseCatchesUp, ShownOK
<1>3. ASSUME NEW w \in Workers,
             LeaseStep(w) \/ AccountStep(w) \/ ExpireStep(w) \/ Fail(w)
      PROVE  UNCHANGED shown
  <2>1. CASE LeaseStep(w)
    BY <2>1 DEF LeaseStep, CreateLease, LookupInactiveLease, CheckActiveLease,
       SaveLease, PublishLeaseCreate, MarkLeased, DeleteLease, DestroyLease,
       ResetGet, ResetSave, ResetSend
  <2>2. CASE AccountStep(w)
    BY <2>2 DEF AccountStep, CreateAccount, SaveNewAccount, SaveNewAccountAgain,
       UpdateAccount, UpdatePrincipalPolicy, SaveTouchedAccount, DeleteAccount,
       RemoveAccount, SaveCopy
  <2>3. CASE ExpireStep(w) \/ Fail(w)
    BY <2>3 DEF ExpireStep, UpdateLeaseStatus, ExpireLease, ExpireAccount, Fail
  <2>. QED  BY <1>3, <2>1, <2>2, <2>3
<1>4. ASSUME NEW b \in Builders, BuildStep(b) PROVE UNCHANGED shown
  BY <1>4 DEF BuildStep, StartBuild, Nuke, BuildFails, FinishBuild
<1>5. ASSUME NEW x \in Accounts, EventStep(x) PROVE UNCHANGED shown
  BY <1>5, EventStepTyped
<1>. QED  BY <1>1, <1>2, <1>3, <1>4, <1>5 DEF Next, vars

LEMMA ReplicasKept ==
    ASSUME IInv, [Next]_vars, TablesAdvance
    PROVE  ReplicasBehind'
<1>1. ASSUME NEW a \in Accounts
      PROVE  /\ AccountAsOf(a, shownAccount[a])'
             /\ \A p \in Principals : LeaseAsOf(a, p, shownLease[a][p])'
  <2>1. /\ account[a] \in AccountRow /\ shownAccount[a] \in AccountRow
        /\ \A p \in Principals : lease[a][p] \in LeaseRow /\ shownLease[a][p] \in LeaseRow
    BY TypeParts DEF IInv, TablesOK, ShownOK
  <2>2. /\ AccountAsOf(a, account[a]) /\ AccountAsOf(a, shownAccount[a])
        /\ \A p \in Principals : /\ LeaseAsOf(a, p, lease[a][p])
                                 /\ LeaseAsOf(a, p, shownLease[a][p])
    BY RowAsOf DEF IInv, OptimisticLock, ReplicasBehind
  <2>3. AccountAsOf(a, shownAccount[a])'
    BY <2>1, <2>2, AsOfKept, ShownSteps DEF IInv, AccountAsOf, AccountUnchanged
  <2>4. ASSUME NEW p \in Principals PROVE LeaseAsOf(a, p, shownLease[a][p])'
    BY <2>1, <2>2, AsOfKept, ShownSteps DEF IInv, LeaseAsOf, LeaseUnchanged
  <2>. QED  BY <2>3, <2>4
<1>. QED  BY <1>1 DEF ReplicasBehind

-----------------------------------------------------------------------------
(* The copies of the workers *)

\* The worker has read nothing and has come to no place where more is expected
\* of what it has read.
GoesOn(w) ==
    /\ \A field \in {"acc", "prin", "row", "id", "seen"} :
        req'[w][field] = req[w][field]
    /\ HoldsRow(w)' => HoldsRow(w)
    /\ At(w, "delete.write")' => At(w, "delete.write")
    /\ req'[w].pc \in {"create.check", "create.save"}
          => req[w].pc \in {"create.check", "create.save"}
    /\ req'[w].pc \in CreatePCs => req[w].pc \in CreatePCs
    /\ At(w, "add.again")' => At(w, "add.again")

\* What a worker has read stays true of the tables while they advance.
LEMMA CopyKept ==
    ASSUME IInv, TablesAdvance, NEW w \in Workers, WorkerOK(w), GoesOn(w)
    PROVE  WorkerOK(w)'
<1>1. /\ now \in Nat
      /\ req[w].pc # "idle" => Acc(w) \in Accounts
      /\ ForPrincipal(req[w].pc) => Prin(w) \in Principals
      /\ req[w].row.lastMod \in Nat
      /\ req[w].seen \in Nat
  BY TypeParts DEF IInv, TablesOK, RequestsOK, RequestOK, Request, AccountRow, Acc,
     Prin, ForPrincipal
<1>2. /\ Acc(w)' = Acc(w) /\ Prin(w)' = Prin(w)
      /\ req'[w].row = req[w].row /\ req'[w].id = req[w].id
      /\ req'[w].seen = req[w].seen
  BY DEF Acc, Prin, GoesOn
<1>3. HoldsRow(w) =>
        /\ req[w].row.lastMod \in 1 .. now'
        /\ account'[Acc(w)].lastMod = req[w].row.lastMod
              => account'[Acc(w)].status = req[w].row.status
  <2>. SUFFICES ASSUME HoldsRow(w)
                PROVE  /\ req[w].row.lastMod \in 1 .. now'
                       /\ account'[Acc(w)].lastMod = req[w].row.lastMod
                             => account'[Acc(w)].status = req[w].row.status
    OBVIOUS
  <2>1. Acc(w) \in Accounts
    BY <1>1 DEF HoldsRow
  <2>2. \/ account'[Acc(w)] = account[Acc(w)]
        \/ account'[Acc(w)].lastMod > now
        \/ account'[Acc(w)].lastMod = 0
    BY <2>1 DEF TablesAdvance, NoAccount
  <2>3. /\ req[w].row.lastMod \in 1 .. now
        /\ account[Acc(w)].lastMod = req[w].row.lastMod
              => account[Acc(w)].status = req[w].row.status
    BY DEF WorkerOK, AccountUnchanged
  <2>. QED  BY <1>1, <2>2, <2>3 DEF TablesAdvance
<1>4. req[w].pc \in CreatePCs \cup {"delete.write"} =>
           \/ lease'[Acc(w)][Prin(w)] = lease[Acc(w)][Prin(w)]
           \/ lease'[Acc(w)][Prin(w)].lastMod > now
           \/ /\ lease'[Acc(w)][Prin(w)].id = lease[Acc(w)][Prin(w)].id
              /\ lease'[Acc(w)][Prin(w)].lastMod = lease[Acc(w)][Prin(w)].lastMod
              /\ lease'[Acc(w)][Prin(w)].status = "Inactive"
              /\ lease'[Acc(w)][Prin(w)].reason = "Destroyed"
  BY <1>1 DEF TablesAdvance, ForPrincipal, CreatePCs
<1>5. req[w].seen <= now'
  BY <1>1 DEF TablesAdvance, WorkerOK
<1>6. At(w, "delete.write") =>
        /\ req[w].seen > 0
        /\ lease'[Acc(w)][Prin(w)].lastMod = req[w].seen
              => /\ lease'[Acc(w)][Prin(w)].id = req[w].id
                 /\ lease'[Acc(w)][Prin(w)].reason \in {"Active", "Destroyed"}
  BY <1>1, <1>4 DEF At, WorkerOK, LeaseUnchanged
<1>7. (req[w].pc \in {"create.check", "create.save"} /\ req[w].seen > 0) =>
        (lease'[Acc(w)][Prin(w)].lastMod = req[w].seen
              => lease'[Acc(w)][Prin(w)].status = "Inactive")
  BY <1>1, <1>4 DEF WorkerOK, LeaseUnchanged, CreatePCs
<1>8. /\ req[w].pc \in CreatePCs => req[w].row.status = "Ready"
      /\ At(w, "add.again") => req[w].row.status = "NotReady"
  BY DEF WorkerOK
<1>. QED
  BY <1>2, <1>3, <1>5, <1>6, <1>7, <1>8
     DEF GoesOn, WorkerOK, AccountUnchanged, LeaseUnchanged, At

LEMMA BystanderKept ==
    ASSUME IInv, TablesAdvance, NEW w \in Workers, WorkerOK(w), req'[w] = req[w]
    PROVE  WorkerOK(w)'
  BY CopyKept DEF GoesOn, HoldsRow, At

\* A worker that has replied holds nothing.
LEMMA ReplyOK ==
    ASSUME IInv, TablesAdvance, NEW w \in Workers, Reply(w)
    PROVE  WorkerOK(w)'
<1>1. req'[w] = NoRequest
  BY TypeParts DEF IInv, Reply, RequestsOK
<1>. QED
  BY <1>1 DEF WorkerOK, HoldsRow, At, NoRequest, CreatePCs, TablesAdvance

\* A worker that goes on to pc without reading anything.
LEMMA GotoOK ==
    ASSUME IInv, TablesAdvance, NEW w \in Workers, WorkerOK(w), NEW pc, Goto(w, pc),
           \/ /\ pc \in {"create.publish", "create.mark"}
              /\ req[w].pc \in CreatePCs
           \/ pc = "create.save" /\ req[w].pc = "create.check"
           \/ pc \in {"reset.get", "reset.send", "expire.account"}
    PROVE  WorkerOK(w)'
<1>1. /\ req'[w].pc = pc
      /\ \A field \in {"acc", "prin", "row", "id", "seen"} :
            req'[w][field] = req[w][field]
  BY TypeParts DEF IInv, Goto, RequestsOK, Request
<1>2. GoesOn(w)
  BY <1>1 DEF GoesOn, HoldsRow, At, CreatePCs
<1>. QED  BY <1>2, CopyKept

\* A worker that begins by reading nothing it may write back.
LEMMA BeginOK ==
    ASSUME IInv, TablesAdvance, NEW w \in Workers, NEW h, NEW a, NEW p,
           NEW pc \in {"add.save", "remove.delete", "expire.lease"},
           Begin(w, h, pc, a, p)
    PROVE  WorkerOK(w)'
<1>1. req'[w].pc = pc /\ req'[w].seen = 0
  BY TypeParts DEF IInv, Begin, RequestsOK, NoRequest
<1>. QED
  BY <1>1 DEF WorkerOK, HoldsRow, At, CreatePCs, TablesAdvance

\* A worker that begins by reading the record of an account in the pool.
LEMMA BeginWithRowOK ==
    ASSUME IInv, UNCHANGED tables, NEW w \in Workers, NEW h, NEW a \in Accounts,
           NEW p, NEW pc \in {"create.lookup", "touch.save"},
           NEW row \in AccountReads(a), BeginWithRow(w, h, pc, a, p, row),
           row.status # "Absent",
           pc = "create.lookup" => row.status = "Ready"
    PROVE  WorkerOK(w)'
<1>1. /\ req'[w].pc = pc /\ req'[w].seen = 0 /\ req'[w].acc = a
      /\ req'[w].row = row
  BY TypeParts DEF IInv, BeginWithRow, RequestsOK, NoRequest
<1>2. row.lastMod \in 1 .. now /\ now \in Nat /\ AccountAsOf(a, row)
  BY TypeParts, ReadsTyped, ReadsAsOf DEF IInv, TablesOK, AccountRow, AccountAsOf
<1>3. account' = account /\ now' = now
  BY DEF tables
<1>. QED
  BY <1>1, <1>2, <1>3
     DEF WorkerOK, HoldsRow, At, CreatePCs, Acc, AccountAsOf, AccountUnchanged

-----------------------------------------------------------------------------
(* The acting worker *)

LEMMA LeaseWorkerOK ==
    ASSUME IInv, TablesAdvance, NEW w \in Workers, WorkerOK(w), LeaseStep(w)
    PROVE  WorkerOK(w)'
<1>1. ASSUME NEW p \in Principals, CreateLease(w, p) PROVE WorkerOK(w)'
  <2>1. PICK a \in Accounts : \E row \in AccountReads(a) :
          /\ row.status = "Ready"
          /\ BeginWithRow(w, "createLease", "create.lookup", a, p, row)
    BY <1>1 DEF CreateLease
  <2>2. PICK row \in AccountReads(a) :
          /\ row.status = "Ready"
          /\ BeginWithRow(w, "createLease", "create.lookup", a, p, row)
    BY <2>1
  <2>. QED  BY <1>1, <2>2, BeginWithRowOK DEF CreateLease
<1>2. CASE LookupInactiveLease(w)
  <2>. DEFINE r(view, page) ==
                [req[w] EXCEPT !.pc = "create.check",
                   !.seen = IF Acc(w) \in page /\ view[Acc(w)].status = "Inactive"
                              THEN view[Acc(w)].lastMod ELSE 0]
  <2>0. PICK view \in LeaseViews(Prin(w)) :
          \E page \in FirstPages(view) : req' = [req EXCEPT ![w] = r(view, page)]
    BY <1>2 DEF LookupInactiveLease
  <2>1. At(w, "create.lookup") /\ UNCHANGED tables
    BY <1>2 DEF LookupInactiveLease
  <2>. DEFINE old == view[Acc(w)]
  <2>2. /\ req'[w].pc = "create.check" /\ req'[w].row = req[w].row
        /\ req'[w].acc = req[w].acc /\ req'[w].prin = req[w].prin
        /\ \/ req'[w].seen = 0
           \/ req'[w].seen = old.lastMod /\ old.status = "Inactive"
    BY <2>0, TypeParts DEF IInv, RequestsOK, Request
  <2>3. Acc(w) \in Accounts /\ Prin(w) \in Principals
    BY <2>1, WorkerTyped DEF IInv, At, Idle, ForPrincipal, CreatePCs
  <2>4. /\ old.lastMod \in Nat /\ now \in Nat
        /\ LeaseAsOf(Acc(w), Prin(w), old)
    BY <2>0, <2>3, TypeParts, ReadsTyped, ReadsAsOf DEF IInv, TablesOK, LeaseRow
  <2>5. /\ req[w].row.lastMod \in 1 .. now
        /\ req[w].row.status = "Ready"
        /\ AccountUnchanged(Acc(w), req[w].row.lastMod)
             => account[Acc(w)].status = req[w].row.status
    BY <2>1 DEF WorkerOK, HoldsRow, At, CreatePCs
  <2>6. account' = account /\ lease' = lease /\ now' = now
    BY <2>1 DEF tables
  <2>. HIDE DEF old
  <2>7. (req'[w].seen > 0 /\ LeaseUnchanged(Acc(w), Prin(w), req'[w].seen))
           => lease[Acc(w)][Prin(w)].status = "Inactive"
    BY <2>2, <2>4 DEF LeaseAsOf
  <2>8. req'[w].seen <= now
    BY <2>2, <2>4 DEF LeaseAsOf
  <2>9. Acc(w)' = Acc(w) /\ Prin(w)' = Prin(w)
    BY <2>2 DEF Acc, Prin
  <2>. QED
    BY <2>2, <2>5, <2>6, <2>7, <2>8, <2>9 DEF WorkerOK, HoldsRow, At, CreatePCs,
       AccountUnchanged, LeaseUnchanged
<1>3. CASE CheckActiveLease(w)
  BY <1>3, GotoOK, ReplyOK DEF CheckActiveLease, At
<1>4. CASE SaveLease(w)
  BY <1>4, GotoOK, ReplyOK DEF SaveLease, At, CreatePCs
<1>5. CASE PublishLeaseCreate(w)
  BY <1>5, GotoOK DEF PublishLeaseCreate, At, CreatePCs
<1>6. CASE MarkLeased(w)
  BY <1>6, ReplyOK DEF MarkLeased
<1>7. ASSUME NEW a \in Accounts, NEW p \in Principals, DeleteLease(w, a, p)
      PROVE  WorkerOK(w)'
  <2>. DEFINE r(row) == [NoRequest EXCEPT !.pc = "delete.write", !.acc = a,
                           !.prin = p, !.id = row.id, !.seen = row.lastMod]
  <2>1. PICK row \in LeaseReads(a, p) :
          row.status = "Active" /\ req' = [req EXCEPT ![w] = r(row)]
    BY <1>7 DEF DeleteLease
  <2>a. req'[w] = r(row)
    BY <2>1, TypeParts DEF IInv, RequestsOK
  <2>2. /\ req'[w].pc = "delete.write" /\ req'[w].acc = a /\ req'[w].prin = p
        /\ req'[w].id = row.id /\ req'[w].seen = row.lastMod
    BY <2>a DEF NoRequest
  <2>3. row.lastMod \in Nat /\ LeaseAsOf(a, p, row)
    BY ReadsTyped, ReadsAsOf DEF IInv, LeaseRow
  <2>4. lease' = lease /\ now' = now
    BY <1>7 DEF DeleteLease, tables
  <2>. HIDE DEF r
  <2>5. Acc(w)' = a /\ Prin(w)' = p
    BY <2>2 DEF Acc, Prin
  <2>6. /\ ~HoldsRow(w)' /\ ~At(w, "add.again")' /\ req'[w].pc \notin CreatePCs
        /\ req'[w].pc \notin {"create.check", "create.save"}
    BY <2>2 DEF HoldsRow, At, CreatePCs
  <2>7. row.lastMod > 0 /\ row.lastMod <= now
    BY <2>1, <2>3 DEF LeaseAsOf
  <2>8. LeaseUnchanged(a, p, row.lastMod) =>
          /\ lease[a][p].id = row.id
          /\ lease[a][p].reason \in {"Active", "Destroyed"}
    BY <2>1, <2>3 DEF LeaseAsOf
  <2>. QED
    BY <2>2, <2>4, <2>5, <2>6, <2>7, <2>8 DEF WorkerOK, LeaseUnchanged
<1>8. CASE DestroyLease(w)
  BY <1>8, GotoOK, ReplyOK DEF DestroyLease
<1>9. CASE ResetGet(w)
  <2>. DEFINE r(row) == [req[w] EXCEPT !.pc = "reset.save", !.row = row]
  <2>1. CASE Reply(w)
    BY <2>1, ReplyOK
  <2>2. ASSUME NEW row \in AccountReads(Acc(w)), row.status # "Absent",
               req' = [req EXCEPT ![w] = r(row)]
        PROVE  WorkerOK(w)'
    <3>1. At(w, "reset.get") /\ UNCHANGED tables
      BY <1>9 DEF ResetGet
    <3>2. /\ req'[w].pc = "reset.save" /\ req'[w].row = row
          /\ req'[w].acc = req[w].acc /\ req'[w].seen = req[w].seen
      BY <2>2, TypeParts DEF IInv, RequestsOK, Request
    <3>3. Acc(w) \in Accounts
      BY <3>1, WorkerTyped DEF IInv, At, Idle
    <3>4. row.lastMod \in 1 .. now /\ AccountAsOf(Acc(w), row)
      BY <2>2, <3>3, TypeParts, ReadsTyped, ReadsAsOf
         DEF IInv, TablesOK, AccountRow, AccountAsOf
    <3>5. account' = account /\ now' = now
      BY <3>1 DEF tables
    <3>6. Acc(w)' = Acc(w)
      BY <3>2 DEF Acc
    <3>. HIDE DEF r
    <3>. QED
      BY <3>2, <3>4, <3>5, <3>6
         DEF WorkerOK, HoldsRow, At, CreatePCs, AccountUnchanged, AccountAsOf
  <2>. QED  BY <1>9, <2>1, <2>2 DEF ResetGet
<1>10. CASE ResetSave(w)
  BY <1>10, GotoOK, ReplyOK DEF ResetSave
<1>11. CASE ResetSend(w)
  BY <1>11, ReplyOK DEF ResetSend
<1>. QED
  BY <1>1, <1>2, <1>3, <1>4, <1>5, <1>6, <1>7, <1>8, <1>9, <1>10, <1>11 DEF LeaseStep

LEMMA AccountWorkerOK ==
    ASSUME SecondsApart, IInv, TablesAdvance, NEW w \in Workers, WorkerOK(w),
           AccountStep(w)
    PROVE  WorkerOK(w)'
<1>1. ASSUME NEW a \in Accounts, CreateAccount(w, a) PROVE WorkerOK(w)'
  BY <1>1, BeginOK DEF CreateAccount
<1>2. CASE SaveNewAccount(w)
  <2>1. CASE Reply(w)
    BY <2>1, ReplyOK
  <2>2. ASSUME NEW t \in Seconds,
               now' = t,
               account' = [account EXCEPT ![Acc(w)] = [status |-> "NotReady", lastMod |-> t]],
               req' = [req EXCEPT ![w] = [@ EXCEPT !.pc = "add.again",
                         !.row = [status |-> "NotReady", lastMod |-> t]]]
        PROVE  WorkerOK(w)'
    <3>1. /\ req'[w].pc = "add.again"
          /\ req'[w].row = [status |-> "NotReady", lastMod |-> t]
          /\ req'[w].acc = req[w].acc /\ req'[w].seen = req[w].seen
      BY <2>2, TypeParts DEF IInv, RequestsOK, Request
    <3>2. Acc(w) \in Accounts /\ req[w].seen \in Nat
      BY <1>2, WorkerTyped DEF IInv, SaveNewAccount, At, Idle
    <3>3. t \in Nat /\ t > 0 /\ t = now + 1 /\ now \in Nat
      BY SecondsFollow, TypeParts DEF IInv, TablesOK
    <3>4. account'[Acc(w)] = [status |-> "NotReady", lastMod |-> t]
      BY <2>2, <3>2, TypeParts DEF IInv, TablesOK
    <3>5. req[w].seen <= now /\ Acc(w)' = Acc(w)
      BY <3>1 DEF WorkerOK, Acc
    <3>. QED
      BY <2>2, <3>1, <3>2, <3>3, <3>4, <3>5
         DEF WorkerOK, HoldsRow, At, CreatePCs, AccountUnchanged
  <2>. QED  BY <1>2, <2>1, <2>2 DEF SaveNewAccount
<1>3. CASE SaveNewAccountAgain(w)
  BY <1>3, GotoOK, ReplyOK DEF SaveNewAccountAgain, SaveCopy
<1>4. ASSUME NEW a \in Accounts, UpdateAccount(w, a) PROVE WorkerOK(w)'
  BY <1>4, BeginWithRowOK DEF UpdateAccount
<1>5. ASSUME NEW a \in Accounts, UpdatePrincipalPolicy(w, a) PROVE WorkerOK(w)'
  BY <1>5, BeginWithRowOK DEF UpdatePrincipalPolicy
<1>6. CASE SaveTouchedAccount(w)
  BY <1>6, ReplyOK DEF SaveTouchedAccount, SaveCopy
<1>7. ASSUME NEW a \in Accounts, DeleteAccount(w, a) PROVE WorkerOK(w)'
  BY <1>7, BeginOK DEF DeleteAccount
<1>8. CASE RemoveAccount(w)
  BY <1>8, GotoOK DEF RemoveAccount
<1>. QED
  BY <1>1, <1>2, <1>3, <1>4, <1>5, <1>6, <1>7, <1>8 DEF AccountStep

LEMMA ExpireWorkerOK ==
    ASSUME IInv, TablesAdvance, NEW w \in Workers, WorkerOK(w),
           ExpireStep(w) \/ Fail(w)
    PROVE  WorkerOK(w)'
  BY BeginOK, GotoOK, ReplyOK
     DEF ExpireStep, UpdateLeaseStatus, ExpireLease, ExpireAccount, Fail

\* Each step is one worker's, or leaves all of them where they are.
LEMMA OneActs ==
    ASSUME IInv, Next
    PROVE  \/ UNCHANGED req
           \/ \E w \in Workers :
                /\ LeaseStep(w) \/ AccountStep(w) \/ ExpireStep(w) \/ Fail(w)
                /\ \A v \in Workers \ {w} : req'[v] = req[v]
<1>1. ASSUME NEW w \in Workers,
             LeaseStep(w) \/ AccountStep(w) \/ ExpireStep(w) \/ Fail(w)
      PROVE  \A v \in Workers \ {w} : req'[v] = req[v]
  <2>1. \E r : req' = [req EXCEPT ![w] = r]
    <3>1. ASSUME LeaseStep(w) PROVE \E r : req' = [req EXCEPT ![w] = r]
      BY <3>1 DEF LeaseStep, CreateLease, LookupInactiveLease, CheckActiveLease,
         SaveLease, PublishLeaseCreate, MarkLeased, DeleteLease, DestroyLease,
         ResetGet, ResetSave, ResetSend, BeginWithRow, Goto, Reply
    <3>2. ASSUME AccountStep(w) PROVE \E r : req' = [req EXCEPT ![w] = r]
      BY <3>2 DEF AccountStep, CreateAccount, SaveNewAccount, SaveNewAccountAgain,
         UpdateAccount, UpdatePrincipalPolicy, SaveTouchedAccount, DeleteAccount,
         RemoveAccount, SaveCopy, Begin, BeginWithRow, Goto, Reply
    <3>3. ASSUME ExpireStep(w) \/ Fail(w) PROVE \E r : req' = [req EXCEPT ![w] = r]
      BY <3>3 DEF ExpireStep, UpdateLeaseStatus, ExpireLease, ExpireAccount, Fail,
         Begin, Goto, Reply
    <3>. QED  BY <1>1, <3>1, <3>2, <3>3
  <2>. QED  BY <2>1, TypeParts DEF IInv, RequestsOK
<1>2. ASSUME NEW b \in Builders, BuildStep(b) PROVE UNCHANGED req
  BY <1>2 DEF BuildStep, StartBuild, Nuke, BuildFails, FinishBuild
<1>3. ASSUME NEW a \in Accounts, EventStep(a) \/ CatchUp(a) PROVE UNCHANGED req
  BY <1>3, EventStepTyped, CatchUpTyped DEF IInv
<1>. QED  BY <1>1, <1>2, <1>3 DEF Next

LEMMA LockNext == SecondsApart /\ IInv /\ [Next]_vars => IInv'
<1>. SUFFICES ASSUME SecondsApart, IInv, [Next]_vars PROVE IInv'
  OBVIOUS
<1>1. TypeOK'
  BY TypeNext DEF IInv
<1>2. RowsStamped /\ (\A w \in Workers : WorkerOK(w)) /\ TablesOK
  BY LockByWorker, TypeParts DEF IInv
<1>3. TableStep
  BY EveryStep DEF TableStep, vars
<1>4. RowsStamped' /\ TablesAdvance
  BY <1>2, <1>3, Advance
<1>5. \A w \in Workers : WorkerOK(w)'
  <2>1. CASE UNCHANGED req
    BY <1>2, <1>4, <2>1, BystanderKept
  <2>2. ASSUME NEW w \in Workers,
               LeaseStep(w) \/ AccountStep(w) \/ ExpireStep(w) \/ Fail(w),
               \A v \in Workers \ {w} : req'[v] = req[v]
        PROVE  \A v \in Workers : WorkerOK(v)'
    <3>1. WorkerOK(w)'
      BY <1>2, <1>4, <2>2, LeaseWorkerOK, AccountWorkerOK, ExpireWorkerOK
    <3>2. ASSUME NEW v \in Workers \ {w} PROVE WorkerOK(v)'
      BY <1>2, <1>4, <2>2, BystanderKept
    <3>. QED  BY <3>1, <3>2
  <2>. QED  BY <2>1, <2>2, OneActs DEF vars
<1>6. ReplicasBehind'
  BY <1>4, ReplicasKept
<1>. QED  BY <1>1, <1>4, <1>5, <1>6, LockByWorkerPrimed DEF IInv

LEMMA LockInit == Init => IInv
<1>. SUFFICES ASSUME Init PROVE OptimisticLock
  BY TypeInit DEF IInv
<1>1. RowsStamped
  BY DEF Init, TablesInit, RowsStamped, NoAccount, NoLease
<1>2. \A w \in Workers : WorkerOK(w)
  BY DEF Init, TablesInit, WorkerOK, HoldsRow, At, NoRequest, CreatePCs
<1>3. ReplicasBehind
  BY DEF Init, TablesInit, ReplicasBehind, AccountAsOf, LeaseAsOf, AccountUnchanged,
     LeaseUnchanged, NoAccount, NoLease
<1>. QED  BY <1>1, <1>2, <1>3, LockByWorker

\* If no two stamped writes fall into the same second, a copy of a record that
\* a handler may still write back agrees with the table, in every interleaving
\* and whatever fails.
THEOREM LockHolds == ASSUME SecondsApart PROVE Spec => []OptimisticLock
<1>1. IInv /\ [Next]_vars => IInv'
  BY LockNext
<1>2. IInv => OptimisticLock
  BY DEF IInv
<1>. QED  BY <1>1, <1>2, LockInit, PTL DEF Spec

-----------------------------------------------------------------------------
(* What follows for one account and one lease *)

LEMMA AccountEffect ==
    ASSUME IInv, TableStep, NEW a \in Accounts
    PROVE  \/ account'[a] = account[a]
           \/ account'[a] = NoAccount
           \/ account'[a].status # "Absent" /\ MayBecome(a, account'[a].status)
<1>. USE TypeParts DEF IInv, TablesOK
<1>1. CASE UNCHANGED account
  BY <1>1
<1>2. CASE AccountPut
  <2>1. PICK x \in Accounts, s \in AccountStatus \ {"Absent"} :
          MayBecome(x, s) /\ PutAccount(x, s)
    BY <1>2 DEF AccountPut
  <2>2. PICK t : account' = [account EXCEPT ![x] = [status |-> s, lastMod |-> t]]
    BY <2>1 DEF PutAccount
  <2>. QED  BY <2>1, <2>2
<1>3. CASE AccountDeleted
  BY <1>3 DEF AccountDeleted, DeleteAccountRow
<1>. QED
  BY <1>1, <1>2, <1>3 DEF TableStep, LeasePut, LeaseDestroyed, LeaseExpired, tables,
     PutNewLease, PutDestroyedLease, ExpireLeaseRow

LEMMA LeaseEffect ==
    ASSUME IInv, TableStep, NEW a \in Accounts, NEW p \in Principals
    PROVE  \/ lease'[a][p] = lease[a][p]
           \/ /\ ~Active(a, p)
              /\ lease'[a][p].id = issued + 1
           \/ /\ lease[a][p].reason \in {"Active", "Destroyed"}
              /\ lease'[a][p].id = lease[a][p].id
              /\ lease'[a][p].status = "Inactive"
              /\ lease'[a][p].reason = "Destroyed"
           \/ /\ Active(a, p)
              /\ lease'[a][p].id = lease[a][p].id
              /\ lease'[a][p].status = "Inactive"
              /\ lease'[a][p].reason = "Expired"
<1>. USE TypeParts DEF IInv, TablesOK
<1>1. CASE UNCHANGED lease
  BY <1>1
<1>2. CASE LeasePut
  <2>1. PICK x \in Accounts, q \in Principals : ~Active(x, q) /\ PutNewLease(x, q)
    BY <1>2 DEF LeasePut
  <2>2. PICK t : lease' = [lease EXCEPT ![x][q] =
                   [id |-> issued + 1, status |-> "Active",
                    reason |-> "Active", lastMod |-> t]]
    BY <2>1 DEF PutNewLease
  <2>. QED  BY <2>1, <2>2
<1>3. CASE LeaseDestroyed
  BY <1>3 DEF LeaseDestroyed, PutDestroyedLease
<1>4. CASE LeaseExpired
  <2>1. PICK x \in Accounts, q \in Principals : Active(x, q) /\ ExpireLeaseRow(x, q)
    BY <1>4 DEF LeaseExpired
  <2>2. PICK t : lease' = [lease EXCEPT ![x][q] =
                   [id |-> lease[x][q].id, status |-> "Inactive",
                    reason |-> "Expired", lastMod |-> t]]
    BY <2>1 DEF ExpireLeaseRow
  <2>. QED  BY <2>1, <2>2
<1>. QED
  BY <1>1, <1>2, <1>3, <1>4 DEF TableStep, AccountPut, AccountDeleted, tables,
     PutAccount, DeleteAccountRow

LEMMA TableStepOrStutter == IInv /\ [Next]_vars => TableStep
  BY EveryStep DEF TableStep, vars

\* An account is marked Leased only while it is Ready: no POST /leases checks
\* out an account that was reset, leased or removed after it was listed.
THEOREM CheckOutSafe == ASSUME SecondsApart PROVE Spec => CheckedOutFromReady
<1>1. IInv /\ [Next]_vars =>
        [\A a \in Accounts :
           account'[a].status = "Leased" /\ account[a].status # "Leased"
             => account[a].status = "Ready"]_vars
  BY TableStepOrStutter, AccountEffect DEF MayBecome, NoAccount
<1>. QED  BY <1>1, LockInit, LockNext, PTL DEF Spec, CheckedOutFromReady

\* An ended lease is not brought back and keeps the reason it ended for,
\* however DELETEs and budget checks of it interleave.
THEOREM EndingSafe == ASSUME SecondsApart PROVE Spec => EndingIsFinal
<1>1. IInv /\ [Next]_vars =>
        [\A a \in Accounts, p \in Principals :
           lease[a][p].status = "Inactive" /\ lease'[a][p].id = lease[a][p].id
             => /\ lease'[a][p].status = "Inactive"
                /\ lease'[a][p].reason = lease[a][p].reason]_vars
  <2>. SUFFICES ASSUME IInv, [Next]_vars, NEW a \in Accounts, NEW p \in Principals,
                       lease[a][p].status = "Inactive",
                       lease'[a][p].id = lease[a][p].id
                PROVE  /\ lease'[a][p].status = "Inactive"
                       /\ lease'[a][p].reason = lease[a][p].reason
    OBVIOUS
  <2>1. /\ lease[a][p].reason # "Active"
        /\ lease[a][p].id <= issued
        /\ lease[a][p].id \in Nat /\ issued \in Nat
    BY TypeParts DEF IInv, OptimisticLock, RowsStamped, TablesOK, LeaseRow
  <2>. QED  BY <2>1, TableStepOrStutter, LeaseEffect DEF Active
<1>. QED  BY <1>1, LockInit, LockNext, PTL DEF Spec, EndingIsFinal

\* A new lease takes the record of the principal's earlier lease on the account
\* only after that lease has ended.
THEOREM ReplaceSafe == ASSUME SecondsApart PROVE Spec => ActiveLeaseNotReplaced
<1>1. IInv /\ [Next]_vars =>
        [\A a \in Accounts, p \in Principals :
           lease'[a][p].id # lease[a][p].id => ~Active(a, p)]_vars
  BY TableStepOrStutter, LeaseEffect
<1>. QED  BY <1>1, LockInit, LockNext, PTL DEF Spec, ActiveLeaseNotReplaced

\* A removed account comes back only by the first save of a POST /accounts.
THEOREM RemoveSafe == ASSUME SecondsApart PROVE Spec => RemovedStaysRemoved
<1>1. IInv /\ [Next]_vars =>
        [\A a \in Accounts : ~InPool(a) /\ InPool(a)'
           => \E w \in Workers : At(w, "add.save") /\ Acc(w) = a]_vars
  BY TableStepOrStutter, AccountEffect DEF MayBecome, NoAccount, InPool
<1>. QED  BY <1>1, LockInit, LockNext, PTL DEF Spec, RemovedStaysRemoved

\* Only the end of a reset build makes an account Ready, and only a NotReady
\* one.
THEOREM ReadySafe == ASSUME SecondsApart PROVE Spec => OnlyBuildsMakeReady
<1>1. IInv /\ [Next]_vars =>
        [\A a \in Accounts :
           account'[a].status = "Ready" /\ account[a].status # "Ready"
             => /\ account[a].status = "NotReady"
                /\ \E b \in Builders : build[b].acc = a /\ build[b].phase = "update"]_vars
  BY TableStepOrStutter, AccountEffect DEF MayBecome, NoAccount
<1>. QED  BY <1>1, LockInit, LockNext, PTL DEF Spec, OnlyBuildsMakeReady

-----------------------------------------------------------------------------
(* What follows for one worker *)

\* A step that moves a worker is one of its own.
LEMMA OwnStep ==
    ASSUME IInv, [Next]_vars, NEW w \in Workers, req'[w] # req[w]
    PROVE  LeaseStep(w) \/ AccountStep(w) \/ ExpireStep(w) \/ Fail(w)
  BY OneActs DEF vars

\* DELETE ends the lease it read, not a later one of the same principal.
THEOREM DeleteSafe == ASSUME SecondsApart PROVE Spec => DeleteEndsTheLeaseItRead
<1>1. IInv /\ [Next]_vars =>
        [\A w \in Workers :
           At(w, "delete.write") /\ req'[w].pc = "reset.get"
             => /\ lease[Acc(w)][Prin(w)].id = req[w].id
                /\ lease'[Acc(w)][Prin(w)].id = req[w].id]_vars
  <2>. SUFFICES ASSUME IInv, [Next]_vars, NEW w \in Workers,
                       At(w, "delete.write"), req'[w].pc = "reset.get"
                PROVE  /\ lease[Acc(w)][Prin(w)].id = req[w].id
                       /\ lease'[Acc(w)][Prin(w)].id = req[w].id
    OBVIOUS
  <2>1. DestroyLease(w)
    <3>1. LeaseStep(w) \/ AccountStep(w) \/ ExpireStep(w) \/ Fail(w)
      BY OwnStep DEF At
    <3>2. ~Idle(w)
      BY DEF At, Idle
    <3>3. ~AccountStep(w) /\ ~ExpireStep(w)
      BY <3>2 DEF At, Idle, AccountStep, ExpireStep, CreateAccount, SaveNewAccount,
         SaveNewAccountAgain, UpdateAccount, UpdatePrincipalPolicy,
         SaveTouchedAccount, DeleteAccount, RemoveAccount, SaveCopy,
         UpdateLeaseStatus, ExpireLease, ExpireAccount, Begin, BeginWithRow
    <3>4. ~Fail(w)
      BY TypeParts DEF IInv, Fail, Reply, RequestsOK, NoRequest
    <3>. QED
      BY <3>1, <3>2, <3>3, <3>4 DEF At, Idle, LeaseStep, CreateLease,
         LookupInactiveLease, CheckActiveLease, SaveLease, PublishLeaseCreate,
         MarkLeased, DeleteLease, ResetGet, ResetSave, ResetSend, BeginWithRow
  <2>2. Acc(w) \in Accounts /\ Prin(w) \in Principals
    BY WorkerTyped DEF IInv, At, Idle, ForPrincipal
  <2>3. WorkerOK(w) /\ TablesOK
    BY LockByWorker, TypeParts DEF IInv
  <2>4. ~Reply(w)
    BY TypeParts DEF IInv, Reply, RequestsOK, NoRequest
  <2>. QED
    BY <2>1, <2>2, <2>3, <2>4 DEF DestroyLease, WorkerOK, PutDestroyedLease, TablesOK
<1>. QED  BY <1>1, LockInit, LockNext, PTL DEF Spec, DeleteEndsTheLeaseItRead

\* The whole-record saves of PUT /accounts and of the policy refresh never
\* change an account's status.
THEOREM TouchSafe == ASSUME SecondsApart PROVE Spec => TouchKeepsStatus
<1>1. IInv /\ [Next]_vars =>
        [\A w \in Workers :
           At(w, "touch.save") => account'[Acc(w)].status = account[Acc(w)].status
             \/ req'[w] = req[w]]_vars
  <2>. SUFFICES ASSUME IInv, [Next]_vars, NEW w \in Workers, At(w, "touch.save"),
                       req'[w] # req[w]
                PROVE  account'[Acc(w)].status = account[Acc(w)].status
    OBVIOUS
  <2>1. CASE UNCHANGED tables
    BY <2>1 DEF tables
  <2>2. CASE ~UNCHANGED tables
    <3>1. LeaseStep(w) \/ AccountStep(w) \/ ExpireStep(w) \/ Fail(w)
      BY OwnStep
    <3>2. ~LeaseStep(w) /\ ~ExpireStep(w) /\ ~Fail(w)
      BY <2>2 DEF At, Idle, LeaseStep, CreateLease, LookupInactiveLease,
         CheckActiveLease, SaveLease, PublishLeaseCreate, MarkLeased, DeleteLease,
         DestroyLease, ResetGet, ResetSave, ResetSend, ExpireStep,
         UpdateLeaseStatus, ExpireLease, ExpireAccount, Fail, Begin, BeginWithRow
    <3>3. SaveTouchedAccount(w)
      BY <3>1, <3>2 DEF At, Idle, AccountStep, CreateAccount, SaveNewAccount,
         SaveNewAccountAgain, UpdateAccount, UpdatePrincipalPolicy, DeleteAccount,
         RemoveAccount, SaveCopy, Begin, BeginWithRow
    <3>4. /\ PutAccount(Acc(w), req[w].row.status)
          /\ AccountUnchanged(Acc(w), req[w].row.lastMod)
          /\ HoldsRow(w)
      BY <2>2, <3>3 DEF SaveTouchedAccount, SaveCopy, HoldsRow, At
    <3>5. Acc(w) \in Accounts /\ account[Acc(w)].status = req[w].row.status
      BY <3>4, SavedCopy
    <3>6. account'[Acc(w)].status = req[w].row.status
      BY <3>4, <3>5, TypeParts DEF IInv, TablesOK, PutAccount
    <3>. QED  BY <3>5, <3>6
  <2>. QED  BY <2>1, <2>2
<1>. QED  BY <1>1, LockInit, LockNext, PTL DEF Spec, TouchKeepsStatus

-----------------------------------------------------------------------------
(* The refinement *)

LEMMA LifecycleInit == Init => Lifecycle!Init
  BY DEF Init, TablesInit, Lifecycle!Init, Lifecycle!NeverHeld, NoAccount, NoLease,
     LifeOfLease

LEMMA LifecycleNext ==
    ASSUME IInv, TableStep
    PROVE  [Lifecycle!Next]_(Lifecycle!lifecycleVars)
<1>. DEFINE status == [a \in Accounts |-> account[a].status]
            held == [a \in Accounts |->
                       [p \in Principals |-> LifeOfLease(lease[a][p])]]
<1>. USE TypeParts DEF IInv, TablesOK
<1>1. CASE UNCHANGED tables
  BY <1>1 DEF tables, Lifecycle!lifecycleVars, LifeOfLease
<1>2. ASSUME NEW a \in Accounts, NEW s \in AccountStatus \ {"Absent"},
             MayBecome(a, s), PutAccount(a, s)
      PROVE  [Lifecycle!Next]_(Lifecycle!lifecycleVars)
  <2>1. PICK t : account' = [account EXCEPT ![a] = [status |-> s, lastMod |-> t]]
    BY <1>2 DEF PutAccount
  <2>2. status' = [status EXCEPT ![a] = s]
    BY <2>1
  <2>3. held' = held /\ issued' = issued
    BY <1>2 DEF PutAccount, LifeOfLease
  <2>4. CASE s = account[a].status
    <3>1. status' = status
      BY <2>2, <2>4
    <3>. QED  BY <2>3, <3>1 DEF Lifecycle!lifecycleVars
  <2>5. CASE s # account[a].status
    <3>1. Lifecycle!Register(a) \/ Lifecycle!Return(a) \/ Lifecycle!CheckOut(a)
            \/ Lifecycle!Reclaim(a)
      BY <1>2, <2>2, <2>3, <2>5 DEF MayBecome, Lifecycle!Register, Lifecycle!Return,
         Lifecycle!CheckOut, Lifecycle!Reclaim, Lifecycle!Move
    <3>. QED  BY <3>1 DEF Lifecycle!Next
  <2>. QED  BY <2>4, <2>5
<1>3. ASSUME NEW a \in Accounts, DeleteAccountRow(a)
      PROVE  [Lifecycle!Next]_(Lifecycle!lifecycleVars)
  <2>1. status' = [status EXCEPT ![a] = "Absent"]
    BY <1>3 DEF DeleteAccountRow, NoAccount
  <2>2. held' = held /\ issued' = issued
    BY <1>3 DEF DeleteAccountRow, LifeOfLease
  <2>3. CASE account[a].status = "Absent"
    <3>1. status' = status
      BY <2>1, <2>3
    <3>. QED  BY <2>2, <3>1 DEF Lifecycle!lifecycleVars
  <2>4. CASE account[a].status # "Absent"
    <3>1. account[a].status \in {"NotReady", "Ready", "Leased"}
      BY <2>4 DEF AccountRow, AccountStatus
    <3>2. Lifecycle!Remove(a)
      BY <2>1, <2>2, <3>1 DEF Lifecycle!Remove, Lifecycle!Move
    <3>. QED  BY <3>2 DEF Lifecycle!Next
  <2>. QED  BY <2>3, <2>4
<1>4. ASSUME NEW a \in Accounts, NEW p \in Principals, ~Active(a, p), PutNewLease(a, p)
      PROVE  [Lifecycle!Next]_(Lifecycle!lifecycleVars)
  <2>. DEFINE new == [id |-> issued + 1, status |-> "Active", reason |-> "Active"]
  <2>1. PICK t : lease' = [lease EXCEPT ![a][p] =
                   [id |-> issued + 1, status |-> "Active",
                    reason |-> "Active", lastMod |-> t]]
    BY <1>4 DEF PutNewLease
  <2>2. held' = [held EXCEPT ![a][p] = new]
    BY <2>1 DEF LifeOfLease
  <2>3. status' = status /\ issued' = issued + 1
    BY <1>4 DEF PutNewLease
  <2>4. Lifecycle!Grant(a, p)
    BY <1>4, <2>2, <2>3 DEF Lifecycle!Grant, Active, LifeOfLease
  <2>. QED  BY <2>4 DEF Lifecycle!Next
<1>5. ASSUME NEW a \in Accounts, NEW p \in Principals,
             lease[a][p].status # "None",
             lease[a][p].reason \in {"Active", "Destroyed"},
             PutDestroyedLease(a, p, lease[a][p].id, lease[a][p].lastMod)
      PROVE  [Lifecycle!Next]_(Lifecycle!lifecycleVars)
  <2>. DEFINE new == [id |-> lease[a][p].id, status |-> "Inactive",
                      reason |-> "Destroyed"]
  <2>1. held' = [held EXCEPT ![a][p] = new]
    BY <1>5 DEF PutDestroyedLease, LifeOfLease
  <2>2. status' = status /\ issued' = issued
    BY <1>5 DEF PutDestroyedLease
  <2>3. CASE Active(a, p)
    <3>1. Lifecycle!End(a, p, "Destroyed")
      BY <2>1, <2>2, <2>3 DEF Lifecycle!End, Active, LifeOfLease
    <3>. QED  BY <3>1 DEF Lifecycle!Next
  <2>4. CASE ~Active(a, p)
    <3>1. LifeOfLease(lease[a][p]) = new
      BY <1>5, <2>4 DEF OptimisticLock, RowsStamped, Active, LifeOfLease, LeaseRow,
         LeaseStatus
    <3>2. \A x \in Accounts, q \in Principals :
            LifeOfLease(lease'[x][q]) = LifeOfLease(lease[x][q])
      BY <1>5, <3>1 DEF PutDestroyedLease, LifeOfLease
    <3>3. held' = held
      BY <3>2
    <3>. QED  BY <2>2, <3>3 DEF Lifecycle!lifecycleVars
  <2>. QED  BY <2>3, <2>4
<1>6. ASSUME NEW a \in Accounts, NEW p \in Principals, Active(a, p), ExpireLeaseRow(a, p)
      PROVE  [Lifecycle!Next]_(Lifecycle!lifecycleVars)
  <2>. DEFINE new == [id |-> lease[a][p].id, status |-> "Inactive",
                      reason |-> "Expired"]
  <2>1. PICK t : lease' = [lease EXCEPT ![a][p] =
                   [id |-> lease[a][p].id, status |-> "Inactive",
                    reason |-> "Expired", lastMod |-> t]]
    BY <1>6 DEF ExpireLeaseRow
  <2>2. held' = [held EXCEPT ![a][p] = new]
    BY <2>1 DEF LifeOfLease
  <2>3. status' = status /\ issued' = issued
    BY <1>6 DEF ExpireLeaseRow
  <2>4. Lifecycle!End(a, p, "Expired")
    BY <1>6, <2>2, <2>3 DEF Lifecycle!End, Active, LifeOfLease
  <2>. QED  BY <2>4 DEF Lifecycle!Next
<1>. QED
  BY <1>1, <1>2, <1>3, <1>4, <1>5, <1>6 DEF TableStep, AccountPut, AccountDeleted,
     LeasePut, LeaseDestroyed, LeaseExpired

\* The handlers, builds and messages together implement the life of accounts
\* and leases that PoolLifecycle describes.
THEOREM Refinement == ASSUME SecondsApart PROVE Spec => RefinesLifecycle
<1>1. IInv /\ [Next]_vars => [Lifecycle!Next]_(Lifecycle!lifecycleVars)
  BY TableStepOrStutter, LifecycleNext
<1>. QED
  BY <1>1, LifecycleInit, LockInit, LockNext, PTL
     DEF Spec, RefinesLifecycle, Lifecycle!Spec
=============================================================================
