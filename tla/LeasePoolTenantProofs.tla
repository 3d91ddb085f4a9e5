------------------------ MODULE LeasePoolTenantProofs ------------------------
(***************************************************************************)
(* Proofs of what protects a tenant, for any number of workers, builds,    *)
(* accounts and principals, and with every handler, failure, duplicate and *)
(* late message: a principal gets a second lease only from two creations   *)
(* that have both found none; a tenant is nuked, or is given an account    *)
(* that was not cleaned, only after one of three things has gone wrong     *)
(* that LeasePoolProps names (TablesAgree, NothingShownTooLong,            *)
(* GivenBackLast); and as long as none has, the handlers, the queue and    *)
(* the builds implement AccountReset.                                      *)
(*                                                                         *)
(* The three are conditions on a behaviour and not on its environment:     *)
(* none says what a build removes, what a tenant makes or who is nuked.    *)
(***************************************************************************)
EXTENDS LeasePoolLockProofs, FiniteSetTheorems

WorkerStep(w) == LeaseStep(w) \/ AccountStep(w) \/ ExpireStep(w) \/ Fail(w)

-----------------------------------------------------------------------------
(* What a step does to one account and to the leases *)

LEMMA LeasesAsBefore ==
    ASSUME UNCHANGED lease
    PROVE  /\ \A a, p : Active(a, p)' <=> Active(a, p)
           /\ \A a : Tenanted(a)' <=> Tenanted(a)
  BY DEF Active, Tenanted

\* What a put to the Accounts table leaves.
LEMMA Saved ==
    ASSUME TypeOK, NEW a \in Accounts, NEW s, PutAccount(a, s)
    PROVE  /\ lease' = lease
           /\ account'[a].status = s
           /\ \A b \in Accounts \ {a} : account'[b] = account[b]
  BY TypeParts DEF TablesOK, PutAccount

\* Where a worker is after each way to end or to begin an action.
LEMMA Replied ==
    ASSUME TypeOK, NEW w \in Workers, Reply(w)
    PROVE  req'[w].pc = "idle"
  BY TypeParts DEF RequestsOK, Reply, NoRequest

LEMMA Gone ==
    ASSUME TypeOK, NEW w \in Workers, NEW pc, Goto(w, pc)
    PROVE  /\ req'[w].pc = pc
           /\ Acc(w)' = Acc(w) /\ Prin(w)' = Prin(w)
  BY TypeParts DEF RequestsOK, Request, Goto, Acc, Prin

LEMMA Begun ==
    ASSUME TypeOK, NEW w \in Workers, NEW h, NEW pc, NEW a, NEW p, NEW row,
           Begin(w, h, pc, a, p) \/ BeginWithRow(w, h, pc, a, p, row)
    PROVE  req'[w].pc = pc
  BY TypeParts DEF RequestsOK, NoRequest, Begin, BeginWithRow

LEMMA WorkersLeaveBuilds ==
    ASSUME NEW w \in Workers, WorkerStep(w)
    PROVE  build' = build /\ dirty' = dirty
<1>1. CASE LeaseStep(w)
  BY <1>1 DEF LeaseStep, CreateLease, LookupInactiveLease, CheckActiveLease, SaveLease,
     PublishLeaseCreate, MarkLeased, DeleteLease, DestroyLease, ResetGet, ResetSave,
     ResetSend
<1>2. CASE AccountStep(w)
  BY <1>2 DEF AccountStep, CreateAccount, SaveNewAccount, SaveNewAccountAgain,
     UpdateAccount, UpdatePrincipalPolicy, SaveTouchedAccount, DeleteAccount,
     RemoveAccount, SaveCopy
<1>3. CASE ExpireStep(w) \/ Fail(w)
  BY <1>3 DEF ExpireStep, UpdateLeaseStatus, ExpireLease, ExpireAccount, Fail
<1>. QED  BY <1>1, <1>2, <1>3 DEF WorkerStep

\* What makes an account Leased or Ready.
Cause(a) ==
    \/ account'[a].status \in {account[a].status, "NotReady", "Absent"}
    \/ /\ account[a].status = "Ready" /\ account'[a].status = "Leased"
       /\ \E w \in Workers : At(w, "create.mark") /\ Acc(w) = a
    \/ /\ account[a].status = "NotReady" /\ account'[a].status = "Ready"
       /\ \E b \in Builders : FinishBuild(b) /\ build[b].acc = a

LEMMA LeaseStepCause ==
    ASSUME IInv, NEW w \in Workers, LeaseStep(w), NEW a \in Accounts
    PROVE  Cause(a)
<1>1. TypeOK /\ WorkerOK(w)
  BY LockByWorker DEF IInv
<1>2. CASE UNCHANGED account
  BY <1>2 DEF Cause
<1>3. CASE MarkLeased(w) /\ ~UNCHANGED tables
  <2>1. /\ At(w, "create.mark") /\ PutAccount(Acc(w), "Leased")
        /\ AccountUnchanged(Acc(w), req[w].row.lastMod)
    BY <1>3 DEF MarkLeased
  <2>2. Acc(w) \in Accounts /\ account[Acc(w)].status = "Ready"
    BY <1>1, <2>1, SavedCopy DEF HoldsRow, At, WorkerOK, CreatePCs
  <2>. QED  BY <1>1, <2>1, <2>2, Saved DEF Cause
<1>4. CASE ResetSave(w) /\ ~UNCHANGED tables
  <2>1. PutAccount(Acc(w), "NotReady") /\ Acc(w) \in Accounts
    BY <1>1, <1>4, WorkerTyped DEF ResetSave, At, Idle
  <2>. QED  BY <1>1, <2>1, Saved DEF Cause
<1>. QED
  BY <1>2, <1>3, <1>4 DEF LeaseStep, CreateLease, LookupInactiveLease,
     CheckActiveLease, SaveLease, PutNewLease, PublishLeaseCreate, MarkLeased,
     DeleteLease, DestroyLease, PutDestroyedLease, ResetGet, ResetSave, ResetSend, tables

LEMMA AccountStepCause ==
    ASSUME IInv, NEW w \in Workers, AccountStep(w), NEW a \in Accounts
    PROVE  Cause(a)
<1>1. TypeOK
  BY DEF IInv
<1>2. CASE UNCHANGED account
  BY <1>2 DEF Cause
<1>3. CASE SaveNewAccount(w) /\ ~UNCHANGED tables
  <2>1. PutAccount(Acc(w), "NotReady") /\ Acc(w) \in Accounts
    BY <1>1, <1>3, WorkerTyped DEF SaveNewAccount, PutAccount, At, Idle
  <2>. QED  BY <1>1, <2>1, Saved DEF Cause
<1>4. ASSUME NEW pc \in {"add.again", "touch.save"}, NEW next,
             SaveCopy(w, pc, next), ~UNCHANGED tables
      PROVE  Cause(a)
  <2>1. /\ PutAccount(Acc(w), req[w].row.status) /\ HoldsRow(w)
        /\ AccountUnchanged(Acc(w), req[w].row.lastMod)
    BY <1>4 DEF SaveCopy, HoldsRow, At
  <2>2. Acc(w) \in Accounts /\ account[Acc(w)].status = req[w].row.status
    BY <2>1, SavedCopy
  <2>. QED  BY <1>1, <2>1, <2>2, Saved DEF Cause
<1>5. CASE RemoveAccount(w)
  <2>1. DeleteAccountRow(Acc(w)) /\ Acc(w) \in Accounts
    BY <1>1, <1>5, WorkerTyped DEF RemoveAccount, At, Idle
  <2>. QED
    BY <1>1, <2>1, TypeParts DEF DeleteAccountRow, TablesOK, NoAccount, Cause
<1>. QED
  BY <1>2, <1>3, <1>4, <1>5 DEF AccountStep, CreateAccount, SaveNewAccount,
     SaveNewAccountAgain, UpdateAccount, UpdatePrincipalPolicy, SaveTouchedAccount,
     DeleteAccount, SaveCopy, tables

\* A status changes with the leases as they are, and for one of these causes.
LEMMA StatusChanges ==
    ASSUME IInv, Next, NEW a \in Accounts
    PROVE  /\ Cause(a)
           /\ account' # account => lease' = lease
<1>1. TypeOK
  BY DEF IInv
<1>2. account' # account => lease' = lease
  BY EveryStep DEF TableStep, tables, AccountPut, PutAccount, AccountDeleted,
     DeleteAccountRow, LeasePut, PutNewLease, LeaseDestroyed, PutDestroyedLease,
     LeaseExpired, ExpireLeaseRow
<1>3. ASSUME NEW w \in Workers, ExpireStep(w) \/ Fail(w) PROVE Cause(a)
  <2>1. CASE ExpireAccount(w) /\ ~UNCHANGED tables
    <3>1. PutAccount(Acc(w), "NotReady") /\ Acc(w) \in Accounts
      BY <1>1, <2>1, WorkerTyped DEF ExpireAccount, TransitionAccount, At, Idle
    <3>. QED  BY <1>1, <3>1, Saved DEF Cause
  <2>2. CASE UNCHANGED account
    BY <2>2 DEF Cause
  <2>. QED
    BY <1>3, <2>1, <2>2 DEF ExpireStep, UpdateLeaseStatus, ExpireLease,
       ExpireLeaseRow, ExpireAccount, Fail, tables
<1>4. ASSUME NEW b \in Builders, BuildStep(b) PROVE Cause(a)
  <2>1. CASE FinishBuild(b) /\ ~UNCHANGED tables
    <3>1. /\ account[build[b].acc].status = "NotReady"
          /\ PutAccount(build[b].acc, "Ready") /\ build[b].acc \in Accounts
      BY <1>1, <2>1, TypeParts DEF FinishBuild, TransitionAccount, BuildsOK, BuildOK
    <3>. QED  BY <1>1, <2>1, <3>1, Saved DEF Cause
  <2>2. CASE UNCHANGED account
    BY <2>2 DEF Cause
  <2>. QED
    BY <1>4, <2>1, <2>2 DEF BuildStep, StartBuild, Nuke, BuildFails, FinishBuild, tables
<1>5. ASSUME NEW x \in Accounts, EventStep(x) \/ CatchUp(x) PROVE Cause(a)
  BY <1>1, <1>5, EventStepTyped, CatchUpTyped DEF Cause, tables
<1>. QED
  BY <1>2, <1>3, <1>4, <1>5, LeaseStepCause, AccountStepCause DEF Next

\* Leases change one at a time: one is created, or some end under no creation
\* that is still to mark its account.
LEMMA LeaseChanges ==
    ASSUME IInv, Next, lease' # lease
    PROVE  /\ account' = account /\ build' = build /\ dirty' = dirty
           /\ \/ \E w \in Workers : /\ At(w, "create.save") /\ Goto(w, "create.publish")
                                    /\ PutNewLease(Acc(w), Prin(w))
              \/ /\ \A a \in Accounts, p \in Principals : Active(a, p)' => Active(a, p)
                 /\ \A w \in Workers : Creating(w) => req'[w] = req[w]
<1>1. TypeOK /\ TablesOK /\ RequestsOK
  BY TypeParts DEF IInv
<1>2. account' = account
  BY StatusChanges, EveryStep DEF TableStep, tables, AccountPut, PutAccount, AccountDeleted,
     DeleteAccountRow, LeasePut, PutNewLease, LeaseDestroyed, PutDestroyedLease,
     LeaseExpired, ExpireLeaseRow
<1>3. PICK w \in Workers : WorkerStep(w)
  <2>1. ASSUME NEW b \in Builders, BuildStep(b) PROVE lease' = lease
    BY <2>1 DEF BuildStep, StartBuild, Nuke, BuildFails, FinishBuild,
       TransitionAccount, PutAccount, tables
  <2>2. ASSUME NEW x \in Accounts, EventStep(x) \/ CatchUp(x) PROVE lease' = lease
    BY <1>1, <2>2, EventStepTyped, CatchUpTyped DEF tables
  <2>. QED  BY <2>1, <2>2 DEF Next, WorkerStep
<1>4. \/ SaveLease(w) \/ DestroyLease(w) \/ ExpireLease(w)
  <2>1. CASE LeaseStep(w)
    BY <2>1 DEF LeaseStep, CreateLease, LookupInactiveLease, CheckActiveLease,
       PublishLeaseCreate, MarkLeased, PutAccount, DeleteLease, ResetGet, ResetSave,
       ResetSend, tables
  <2>2. CASE AccountStep(w)
    BY <2>2 DEF AccountStep, CreateAccount, SaveNewAccount, SaveNewAccountAgain,
       UpdateAccount, UpdatePrincipalPolicy, SaveTouchedAccount, DeleteAccount,
       RemoveAccount, DeleteAccountRow, SaveCopy, PutAccount, tables
  <2>3. CASE ExpireStep(w) \/ Fail(w)
    BY <2>3 DEF ExpireStep, UpdateLeaseStatus, ExpireAccount, TransitionAccount,
       PutAccount, Fail, tables
  <2>. QED  BY <1>3, <2>1, <2>2, <2>3 DEF WorkerStep
<1>5. CASE SaveLease(w)
  BY <1>2, <1>3, <1>5, WorkersLeaveBuilds DEF SaveLease, tables
<1>6. ASSUME \/ /\ DestroyLease(w)
                /\ PutDestroyedLease(Acc(w), Prin(w), req[w].id, req[w].seen)
             \/ ExpireLease(w) /\ ExpireLeaseRow(Acc(w), Prin(w))
      PROVE  /\ \A a \in Accounts, p \in Principals : Active(a, p)' => Active(a, p)
             /\ \A v \in Workers : Creating(v) => req'[v] = req[v]
  <2>1. \A a \in Accounts, p \in Principals : Active(a, p)' => Active(a, p)
    BY <1>1, <1>6 DEF PutDestroyedLease, ExpireLeaseRow, TablesOK, Active
  <2>2. ~Creating(w) /\ \A v \in Workers \ {w} : req'[v] = req[v]
    BY <1>1, <1>6 DEF DestroyLease, ExpireLease, Creating, At, Goto, Reply, RequestsOK
  <2>. QED  BY <2>1, <2>2
<1>7. CASE DestroyLease(w) \/ ExpireLease(w)
  BY <1>2, <1>3, <1>6, <1>7, WorkersLeaveBuilds DEF DestroyLease, ExpireLease, tables
<1>. QED  BY <1>4, <1>5, <1>7

-----------------------------------------------------------------------------
(* One lease for each principal *)

\* An active lease is the latest record of its principal, so that the first
\* page of them always shows it, however small the page.
LatestIsActive ==
    \A a, b \in Accounts, p \in Principals :
        Active(a, p) /\ b # a => lease[b][p].lastMod < lease[a][p].lastMod

SaverSeesNone ==
    \A w \in Workers :
        At(w, "create.save") => \A a \in Accounts : ~Active(a, Prin(w))

\* The inductive invariant.
OneInv == IInv /\ OneLeaseEach /\ LatestIsActive /\ SaverSeesNone

\* The first page of the principal's leases shows an active one.
LEMMA PageShowsActive ==
    ASSUME OneInv, NEW a \in Accounts, NEW p \in Principals, Active(a, p),
           NEW page \in FirstPages([b \in Accounts |-> lease[b][p]])
    PROVE  a \in page
<1>. DEFINE view == [b \in Accounts |-> lease[b][p]]
<1>1. a \in Held(view)
  BY DEF Held, Active
<1>2. SUFFICES ASSUME a \notin page PROVE FALSE
  OBVIOUS
<1>3. Cardinality(page) = PageSize /\ page \subseteq Held(view)
  BY <1>1, <1>2 DEF FirstPages
<1>4. page # {}
  BY <1>3, FS_EmptySet, TablesAssumption
<1>5. PICK b \in page : TRUE
  BY <1>4
<1>6. b \in Accounts /\ b # a /\ lease[b][p].lastMod >= lease[a][p].lastMod
  BY <1>1, <1>2, <1>3, <1>5 DEF FirstPages, Held
<1>7. lease[b][p].lastMod < lease[a][p].lastMod
  BY <1>6 DEF OneInv, LatestIsActive
<1>8. lease[b][p].lastMod \in Nat /\ lease[a][p].lastMod \in Nat
  BY <1>6, TypeParts DEF OneInv, IInv, TablesOK, LeaseRow
<1>. QED  BY <1>6, <1>7, <1>8

\* A worker comes to the save by the check only, and not from another save.
LEMMA ComesToSave ==
    ASSUME IInv, Next, NEW w \in Workers, At(w, "create.save")', req'[w] # req[w]
    PROVE  CheckActiveLease(w) /\ Goto(w, "create.save")
<1>. USE DEF At
<1>1. TypeOK /\ RequestsOK
  BY TypeParts DEF IInv
<1>2. WorkerStep(w)
  BY OneActs DEF WorkerStep
<1>3. ~Reply(w) /\ \A pc : Goto(w, pc) => pc = "create.save"
  BY <1>1, Replied, Gone
<1>4. \A h, pc, a, p, row :
        Begin(w, h, pc, a, p) \/ BeginWithRow(w, h, pc, a, p, row) => pc = "create.save"
  BY <1>1, Begun
<1>5. CASE LeaseStep(w)
  <2>1. ~LookupInactiveLease(w) /\ ~ResetGet(w)
    BY <1>1, <1>3 DEF LookupInactiveLease, ResetGet, RequestsOK, Request
  <2>2. \A a, p : ~DeleteLease(w, a, p)
    BY <1>1 DEF DeleteLease, RequestsOK, NoRequest
  <2>3. \A p : ~CreateLease(w, p)
    BY <1>4 DEF CreateLease
  <2>4. ~SaveLease(w) /\ ~PublishLeaseCreate(w) /\ ~MarkLeased(w)
    BY <1>3 DEF SaveLease, PublishLeaseCreate, MarkLeased
  <2>5. ~DestroyLease(w) /\ ~ResetSave(w) /\ ~ResetSend(w)
    BY <1>3 DEF DestroyLease, ResetSave, ResetSend
  <2>6. CheckActiveLease(w)
    BY <1>5, <2>1, <2>2, <2>3, <2>4, <2>5 DEF LeaseStep
  <2>. QED  BY <1>3, <2>6 DEF CheckActiveLease
<1>6. ~AccountStep(w)
  <2>1. \A a : ~CreateAccount(w, a) /\ ~UpdateAccount(w, a)
    BY <1>4 DEF CreateAccount, UpdateAccount
  <2>2. \A a : ~UpdatePrincipalPolicy(w, a) /\ ~DeleteAccount(w, a)
    BY <1>4 DEF UpdatePrincipalPolicy, DeleteAccount
  <2>3. ~SaveNewAccount(w)
    <3>1. ASSUME NEW row PROVE req' # [req EXCEPT ![w] = [@ EXCEPT !.pc = "add.again", !.row = row]]
      BY <1>1 DEF RequestsOK, Request
    <3>. QED  BY <1>3, <3>1 DEF SaveNewAccount
  <2>4. ~SaveNewAccountAgain(w) /\ ~SaveTouchedAccount(w) /\ ~RemoveAccount(w)
    BY <1>3 DEF SaveNewAccountAgain, SaveTouchedAccount, SaveCopy, RemoveAccount
  <2>. QED  BY <2>1, <2>2, <2>3, <2>4 DEF AccountStep
<1>7. ~ExpireStep(w) /\ ~Fail(w)
  BY <1>3, <1>4 DEF ExpireStep, UpdateLeaseStatus, ExpireLease, ExpireAccount, Fail
<1>. QED  BY <1>2, <1>5, <1>6, <1>7 DEF WorkerStep

\* The check finds the active lease of the principal, if there is one.
LEMMA CheckFindsActive ==
    ASSUME ~Lags, OneInv, NEW w \in Workers, CheckActiveLease(w), Goto(w, "create.save")
    PROVE  \A a \in Accounts : ~Active(a, Prin(w))
<1>1. TypeOK /\ Prin(w) \in Principals
  BY WorkerTyped DEF OneInv, IInv, CheckActiveLease, ForPrincipal, CreatePCs, At, Idle
<1>2. LeaseViews(Prin(w)) = {[a \in Accounts |-> lease[a][Prin(w)]]}
  <2>1. SUBSET (IF Lags THEN Accounts ELSE {}) = {{}}
    OBVIOUS
  <2>2. LeaseViews(Prin(w)) = {[a \in Accounts |-> IF a \in late
                                                     THEN shownLease[a][Prin(w)]
                                                     ELSE lease[a][Prin(w)]] : late \in {{}}}
    BY <2>1 DEF LeaseViews
  <2>3. [a \in Accounts |-> IF a \in {} THEN shownLease[a][Prin(w)] ELSE lease[a][Prin(w)]]
          = [a \in Accounts |-> lease[a][Prin(w)]]
    OBVIOUS
  <2>. QED  BY <2>2, <2>3
<1>3. ~Reply(w)
  BY <1>1, Replied, Gone
<1>4. PICK view \in LeaseViews(Prin(w)) : \E page \in FirstPages(view) :
        ~ \E a \in page : view[a].status = "Active"
  BY <1>3 DEF CheckActiveLease
<1>5. PICK page \in FirstPages(view) : ~ \E a \in page : view[a].status = "Active"
  BY <1>4
<1>6. view = [a \in Accounts |-> lease[a][Prin(w)]]
  BY <1>2, <1>4
<1>7. ASSUME NEW a \in Accounts, Active(a, Prin(w)) PROVE FALSE
  <2>1. a \in page
    BY <1>1, <1>5, <1>6, <1>7, PageShowsActive
  <2>. QED  BY <1>5, <1>6, <1>7, <2>1 DEF Active
<1>. QED  BY <1>7

\* What a new lease leaves.
LEMMA LeasePutEffect ==
    ASSUME SecondsApart, IInv, NEW a \in Accounts, NEW p \in Principals, PutNewLease(a, p)
    PROVE  \A b \in Accounts, q \in Principals :
             IF b = a /\ q = p THEN Active(b, q)' /\ lease'[b][q].lastMod = now + 1
                               ELSE lease'[b][q] = lease[b][q]
<1>1. TablesOK
  BY TypeParts DEF IInv
<1>2. PICK t \in Seconds :
        lease' = [lease EXCEPT ![a][p] = [id |-> issued + 1, status |-> "Active",
                                          reason |-> "Active", lastMod |-> t]]
  BY DEF PutNewLease
<1>3. t = now + 1
  BY <1>1, SecondsFollow
<1>. QED  BY <1>1, <1>2, <1>3 DEF TablesOK, Active

LEMMA OneNext ==
    ASSUME SecondsApart, ~Lags, SavesApart, OneInv, Next PROVE OneInv'
<1>. USE DEF OneInv
<1>1. IInv'
  BY LockNext
<1>2. /\ TablesOK /\ TypeOK
      /\ \A a \in Accounts, p \in Principals :
           lease[a][p].lastMod \in Nat /\ lease[a][p].lastMod <= now
  BY TypeParts DEF IInv, TablesOK, LeaseRow, OptimisticLock, RowsStamped
<1>3. CASE lease' = lease
  <2>1. OneLeaseEach' /\ LatestIsActive'
    BY <1>3 DEF OneLeaseEach, LatestIsActive, Active
  <2>2. ASSUME NEW w \in Workers, At(w, "create.save")', NEW a \in Accounts
        PROVE  ~Active(a, Prin(w))'
    <3>1. CASE req'[w] = req[w]
      BY <1>3, <2>2, <3>1 DEF SaverSeesNone, At, Prin, Active
    <3>2. CASE CheckActiveLease(w) /\ Goto(w, "create.save")
      BY <1>2, <1>3, <3>2, CheckFindsActive, Gone DEF Active
    <3>. QED  BY <2>2, <3>1, <3>2, ComesToSave
  <2>. QED  BY <1>1, <2>1, <2>2 DEF SaverSeesNone
<1>4. ASSUME NEW w \in Workers, At(w, "create.save"), Goto(w, "create.publish"),
             PutNewLease(Acc(w), Prin(w))
      PROVE  OneInv'
  <2>1. Acc(w) \in Accounts /\ Prin(w) \in Principals
    BY <1>2, <1>4, WorkerTyped DEF At, Idle, ForPrincipal, CreatePCs
  <2>2. \A b \in Accounts, q \in Principals :
          IF b = Acc(w) /\ q = Prin(w)
            THEN Active(b, q)' /\ lease'[b][q].lastMod = now + 1
            ELSE lease'[b][q] = lease[b][q]
    BY <1>4, <2>1, LeasePutEffect
  <2>3. \A b \in Accounts : ~Active(b, Prin(w))
    BY <1>4 DEF SaverSeesNone
  <2>4. \A b \in Accounts, q \in Principals :
          Active(b, q)' <=> Active(b, q) \/ (b = Acc(w) /\ q = Prin(w))
    BY <2>2 DEF Active
  <2>5. OneLeaseEach'
    BY <2>3, <2>4 DEF OneLeaseEach
  <2>6. LatestIsActive'
    <3>1. SUFFICES ASSUME NEW a \in Accounts, NEW b \in Accounts \ {a},
                          NEW p \in Principals, Active(a, p)'
                   PROVE  lease'[b][p].lastMod < lease'[a][p].lastMod
      BY DEF LatestIsActive
    <3>2. CASE a = Acc(w) /\ p = Prin(w)
      BY <1>2, <2>2, <3>2 DEF TablesOK
    <3>3. CASE ~ (a = Acc(w) /\ p = Prin(w))
      <4>1. Active(a, p) /\ p # Prin(w)
        BY <2>3, <2>4, <3>1, <3>3
      <4>. QED  BY <2>2, <4>1 DEF LatestIsActive
    <3>. QED  BY <3>2, <3>3
  <2>7. ASSUME NEW v \in Workers, At(v, "create.save")', NEW a \in Accounts
        PROVE  ~Active(a, Prin(v))'
    <3>1. v # w
      BY <1>2, <1>4, <2>7, Gone DEF At
    <3>2. req'[v] = req[v]
      BY <1>4, <3>1 DEF Goto
    <3>3. Prin(v) # Prin(w) /\ At(v, "create.save")
      BY <1>4, <2>7, <3>1, <3>2 DEF SavesApart, At
    <3>4. ~Active(a, Prin(v)) /\ Prin(v)' = Prin(v) /\ Prin(v) \in Principals
      BY <1>2, <3>2, <3>3, WorkerTyped
         DEF SaverSeesNone, Prin, At, Idle, ForPrincipal, CreatePCs
    <3>. QED  BY <2>4, <3>3, <3>4 DEF Active
  <2>. QED  BY <1>1, <2>5, <2>6, <2>7 DEF SaverSeesNone
<1>5. CASE \A a \in Accounts, p \in Principals : Active(a, p)' => Active(a, p)
  <2>1. OneLeaseEach'
    BY <1>5 DEF OneLeaseEach
  <2>2. LatestIsActive'
    <3>1. SUFFICES ASSUME NEW a \in Accounts, NEW b \in Accounts \ {a},
                          NEW p \in Principals, Active(a, p)'
                   PROVE  lease'[b][p].lastMod < lease'[a][p].lastMod
      BY DEF LatestIsActive
    <3>2. Active(a, p) /\ ~Active(b, p)
      BY <1>5, <3>1 DEF OneLeaseEach
    <3>3. lease'[b][p].lastMod = lease[b][p].lastMod /\ lease'[a][p].lastMod = lease[a][p].lastMod
      <4>1. PICK x \in Accounts, q \in Principals :
              \/ lease' = lease
              \/ PutNewLease(x, q) /\ ~Active(x, q)
              \/ PutDestroyedLease(x, q, lease[x][q].id, lease[x][q].lastMod)
              \/ Active(x, q) /\ ExpireLeaseRow(x, q)
        BY <3>1, EveryStep DEF TableStep, tables, AccountPut, PutAccount, AccountDeleted,
           DeleteAccountRow, LeasePut, LeaseDestroyed, LeaseExpired
      <4>2. ~ (PutNewLease(x, q) /\ ~Active(x, q))
        BY <1>5, LeasePutEffect
      <4>3. ASSUME PutDestroyedLease(x, q, lease[x][q].id, lease[x][q].lastMod)
            PROVE  \A c \in Accounts : lease'[c][p].lastMod = lease[c][p].lastMod
        BY <1>2, <4>3 DEF PutDestroyedLease, TablesOK
      <4>4. ASSUME Active(x, q), ExpireLeaseRow(x, q)
            PROVE  lease'[a][p] = lease[a][p] /\ lease'[b][p] = lease[b][p]
        <5>1. ~Active(x, q)' /\ \A c \in Accounts, r \in Principals :
                 ~ (c = x /\ r = q) => lease'[c][r] = lease[c][r]
          BY <1>2, <4>4 DEF ExpireLeaseRow, TablesOK, Active
        <5>. QED  BY <3>1, <3>2, <4>4, <5>1
      <4>. QED  BY <4>1, <4>2, <4>3, <4>4
    <3>. QED  BY <3>2, <3>3 DEF LatestIsActive
  <2>3. ASSUME NEW w \in Workers, At(w, "create.save")', NEW a \in Accounts
        PROVE  ~Active(a, Prin(w))'
    <3>1. CASE req'[w] = req[w]
      <4>1. At(w, "create.save") /\ Prin(w)' = Prin(w) /\ Prin(w) \in Principals
        BY <1>2, <2>3, <3>1, WorkerTyped DEF At, Idle, ForPrincipal, CreatePCs, Prin
      <4>. QED  BY <1>5, <4>1 DEF SaverSeesNone, Active
    <3>2. CASE CheckActiveLease(w) /\ Goto(w, "create.save")
      BY <1>2, <3>2, CheckFindsActive, Gone DEF CheckActiveLease, tables, Active
    <3>. QED  BY <2>3, <3>1, <3>2, ComesToSave
  <2>. QED  BY <1>1, <2>1, <2>2, <2>3 DEF SaverSeesNone
<1>. QED  BY <1>3, <1>4, <1>5, LeaseChanges

LEMMA OneInit == Init => OneInv
  BY LockInit DEF Init, TablesInit, NoLease, NoRequest, OneInv, OneLeaseEach,
     LatestIsActive, SaverSeesNone, Active, At

\* With reads that are not behind, a principal comes to a second active lease
\* only by two calls that have each found none before either saved its own
\* (lease.Service.Create): the check reads but one page of the index, of any
\* size, and still misses no lease, because DELETE keeps the stamp of the record
\* and every other write takes a later one.
THEOREM SecondLeaseNeedsTwoSaves ==
    ASSUME SecondsApart, ~Lags PROVE Spec /\ []SavesApart => []OneLeaseEach
<1>1. OneInv /\ SavesApart /\ [Next]_vars => OneInv'
  <2>. SUFFICES ASSUME OneInv, UNCHANGED vars PROVE OneInv'
    BY OneNext
  <2>1. IInv'
    BY LockNext DEF OneInv
  <2>2. lease' = lease /\ req' = req
    BY DEF vars, tables
  <2>. QED
    BY <2>1, <2>2 DEF OneInv, OneLeaseEach, LatestIsActive, SaverSeesNone, Active, At, Prin
<1>2. OneInv => OneLeaseEach
  BY DEF OneInv
<1>. QED  BY <1>1, <1>2, OneInit, PTL DEF Spec

-----------------------------------------------------------------------------
(* Whom a reset may find *)

\* A reset of the account is under way, from the handler that is about to ask
\* for it to the build that does it.
Due(a) == ResetPending(a) \/ Resetting(a)

DueNotReady ==
    \A a \in Accounts : Due(a) => account[a].status \in {"NotReady", "Absent"}

\* A worker comes to the send with the account just saved NotReady or removed.
LEMMA ComesToSend ==
    ASSUME IInv, NEW w \in Workers, WorkerStep(w), At(w, "reset.send")'
    PROVE  /\ Acc(w)' = Acc(w) /\ Acc(w) \in Accounts
           /\ account'[Acc(w)].status \in {"NotReady", "Absent"}
<1>. USE DEF At
<1>1. TypeOK /\ RequestsOK /\ TablesOK /\ WorkerOK(w)
  BY TypeParts, LockByWorker DEF IInv
<1>2. ~Reply(w) /\ \A pc : Goto(w, pc) => pc = "reset.send" /\ Acc(w)' = Acc(w)
  BY <1>1, Replied, Gone
<1>3. \A h, pc, a, p, row :
        Begin(w, h, pc, a, p) \/ BeginWithRow(w, h, pc, a, p, row) => pc = "reset.send"
  BY <1>1, Begun
<1>4. CASE LeaseStep(w)
  <2>1. ~LookupInactiveLease(w) /\ ~ResetGet(w)
    BY <1>1, <1>2 DEF LookupInactiveLease, ResetGet, RequestsOK, Request
  <2>2. \A a, p : ~DeleteLease(w, a, p)
    BY <1>1 DEF DeleteLease, RequestsOK, NoRequest
  <2>3. \A p : ~CreateLease(w, p)
    BY <1>3 DEF CreateLease
  <2>4. ~CheckActiveLease(w) /\ ~SaveLease(w) /\ ~PublishLeaseCreate(w) /\ ~MarkLeased(w)
    BY <1>2 DEF CheckActiveLease, SaveLease, PublishLeaseCreate, MarkLeased
  <2>5. ~DestroyLease(w) /\ ~ResetSend(w)
    BY <1>2 DEF DestroyLease, ResetSend
  <2>6. ResetSave(w)
    BY <1>4, <2>1, <2>2, <2>3, <2>4, <2>5 DEF LeaseStep
  <2>7. PutAccount(Acc(w), "NotReady") /\ Goto(w, "reset.send") /\ Acc(w) \in Accounts
    BY <1>1, <1>2, <2>6, WorkerTyped DEF ResetSave, Idle
  <2>. QED  BY <1>1, <1>2, <2>7, Saved
<1>5. CASE AccountStep(w)
  <2>1. \A a : ~CreateAccount(w, a) /\ ~UpdateAccount(w, a)
    BY <1>3 DEF CreateAccount, UpdateAccount
  <2>2. \A a : ~UpdatePrincipalPolicy(w, a) /\ ~DeleteAccount(w, a)
    BY <1>3 DEF UpdatePrincipalPolicy, DeleteAccount
  <2>3. ~SaveNewAccount(w)
    <3>1. ASSUME NEW row PROVE req' # [req EXCEPT ![w] = [@ EXCEPT !.pc = "add.again", !.row = row]]
      BY <1>1 DEF RequestsOK, Request
    <3>. QED  BY <1>2, <3>1 DEF SaveNewAccount
  <2>4. ~SaveTouchedAccount(w)
    BY <1>2 DEF SaveTouchedAccount, SaveCopy
  <2>5. CASE SaveNewAccountAgain(w)
    <3>1. /\ PutAccount(Acc(w), req[w].row.status) /\ Goto(w, "reset.send")
          /\ Acc(w) \in Accounts /\ req[w].pc = "add.again"
      BY <1>1, <1>2, <2>5, WorkerTyped DEF SaveNewAccountAgain, SaveCopy, Idle
    <3>2. req[w].row.status = "NotReady"
      BY <1>1, <3>1 DEF WorkerOK
    <3>. QED  BY <1>1, <1>2, <3>1, <3>2, Saved
  <2>6. CASE RemoveAccount(w)
    <3>1. DeleteAccountRow(Acc(w)) /\ Goto(w, "reset.send") /\ Acc(w) \in Accounts
      BY <1>1, <2>6, WorkerTyped DEF RemoveAccount, Idle
    <3>. QED  BY <1>1, <1>2, <3>1 DEF DeleteAccountRow, TablesOK, NoAccount
  <2>. QED  BY <1>5, <2>1, <2>2, <2>3, <2>4, <2>5, <2>6 DEF AccountStep
<1>6. ~ExpireStep(w) /\ ~Fail(w)
  <2>1. \A a, p : ~UpdateLeaseStatus(w, a, p)
    BY <1>3 DEF UpdateLeaseStatus
  <2>2. ~ExpireLease(w)
    <3>1. ~Goto(w, "expire.account")
      BY <1>2
    <3>. QED  BY <3>1 DEF ExpireLease
  <2>3. ~ExpireAccount(w) /\ ~Fail(w)
    BY <1>2 DEF ExpireAccount, Fail
  <2>. QED  BY <2>1, <2>2, <2>3 DEF ExpireStep
<1>. QED  BY <1>4, <1>5, <1>6 DEF WorkerStep

\* A handler puts a message into the queue only from its send.
LEMMA HandlersSend ==
    ASSUME NEW w \in Workers, WorkerStep(w)
    PROVE  queue' = queue \/ (At(w, "reset.send") /\ queue' = queue \cup {Acc(w)})
<1>1. CASE LeaseStep(w)
  BY <1>1 DEF LeaseStep, CreateLease, LookupInactiveLease, CheckActiveLease, SaveLease,
     PublishLeaseCreate, MarkLeased, DeleteLease, DestroyLease, ResetGet, ResetSave,
     ResetSend, messages
<1>2. CASE AccountStep(w)
  BY <1>2 DEF AccountStep, CreateAccount, SaveNewAccount, SaveNewAccountAgain,
     UpdateAccount, UpdatePrincipalPolicy, SaveTouchedAccount, DeleteAccount,
     RemoveAccount, SaveCopy, messages
<1>3. CASE ExpireStep(w) \/ Fail(w)
  BY <1>3 DEF ExpireStep, UpdateLeaseStatus, ExpireLease, ExpireAccount, Fail, messages
<1>. QED  BY <1>1, <1>2, <1>3 DEF WorkerStep

\* Which builds run, which message they have taken and what they have removed.
LEMMA Builds ==
    ASSUME TypeOK, NEW b \in Builders, BuildStep(b)
    PROVE  /\ req' = req /\ lease' = lease
           /\ queue' \subseteq queue /\ dirty' \subseteq dirty
           /\ \A c \in Builders \ {b} : build'[c] = build[c]
           /\ \/ build'[b].phase = "idle" /\ dirty' = dirty
              \/ /\ build'[b].phase = "update" /\ build'[b].acc = build[b].acc
                 /\ build[b].phase = "nuke"
                 /\ dirty' = IF NukeEnabled THEN dirty \ {build[b].acc} ELSE dirty
              \/ /\ build'[b].phase = "nuke" /\ build'[b].acc \in queue
                 /\ build[b].phase = "idle" /\ dirty' = dirty
<1>1. BuildsOK /\ RestOK
  BY TypeParts
<1>2. ASSUME NEW a \in Accounts, StartBuild(b, a)
      PROVE  /\ req' = req /\ lease' = lease /\ queue' \subseteq queue /\ dirty' = dirty
             /\ \A c \in Builders \ {b} : build'[c] = build[c]
             /\ build'[b].phase = "nuke" /\ build'[b].acc \in queue
             /\ build[b].phase = "idle"
  <2>1. build' = [build EXCEPT ![b] = [phase |-> "nuke", acc |-> a]] /\ a \in queue
    BY <1>2 DEF StartBuild
  <2>2. queue' \subseteq queue
    BY <1>2 DEF StartBuild, Received
  <2>. QED  BY <1>1, <1>2, <2>1, <2>2 DEF StartBuild, BuildsOK, tables
<1>3. CASE Nuke(b)
  <2>1. /\ build' = [build EXCEPT ![b].phase = "update"] /\ build[b].phase = "nuke"
        /\ req' = req /\ lease' = lease /\ queue' = queue
        /\ dirty' = IF NukeEnabled THEN dirty \ {build[b].acc} ELSE dirty
    BY <1>3 DEF Nuke, messages, tables
  <2>2. /\ \A c \in Builders \ {b} : build'[c] = build[c]
        /\ build'[b].phase = "update" /\ build'[b].acc = build[b].acc
    BY <1>1, <2>1 DEF BuildsOK, Build
  <2>. QED  BY <2>1, <2>2
<1>4. CASE BuildFails(b) \/ FinishBuild(b)
  <2>1. /\ build' = [build EXCEPT ![b] = NoBuild]
        /\ req' = req /\ lease' = lease /\ queue' = queue /\ dirty' = dirty
    BY <1>4 DEF BuildFails, FinishBuild, TransitionAccount, PutAccount, messages, tables
  <2>2. /\ \A c \in Builders \ {b} : build'[c] = build[c]
        /\ build'[b].phase = "idle"
    BY <1>1, <2>1 DEF BuildsOK, NoBuild
  <2>. QED  BY <2>1, <2>2
<1>. QED  BY <1>2, <1>3, <1>4 DEF BuildStep

\* Events change no build and no table; a message for a reset comes of a sweep,
\* resources come of the tenant.
LEMMA Events ==
    ASSUME TypeOK, NothingShownTooLong, NEW x \in Accounts, EventStep(x)
    PROVE  /\ UNCHANGED <<account, lease, req, build>>
           /\ \/ queue' \subseteq queue
              \/ queue' = queue \cup {x} /\ account[x].status \in {"NotReady", "Absent"}
           /\ \/ dirty' = dirty
              \/ dirty' = dirty \cup {x} /\ Tenanted(x)
<1>1. UNCHANGED <<account, lease, req, build>>
  BY EventStepTyped DEF tables
<1>2. CASE PopulateResetQueue(x)
  <2>1. queue' = queue \cup {x} /\ dirty' = dirty
    BY <1>2 DEF PopulateResetQueue
  <2>2. account[x].status = "NotReady" \/ shownAccount[x].status = "NotReady"
    BY <1>2 DEF PopulateResetQueue, AccountReads
  <2>3. account[x].status \in AccountStatus
    BY TypeParts DEF TablesOK, AccountRow
  <2>. QED  BY <1>1, <2>1, <2>2, <2>3 DEF NothingShownTooLong, AccountStatus
<1>3. ASSUME NEW p \in Principals, UseAccount(x, p)
      PROVE  queue' = queue /\ dirty' = dirty \cup {x} /\ Tenanted(x)
  <2>1. Active(x, p)
    BY <1>3 DEF UseAccount, LeaseReads, NothingShownTooLong, Active
  <2>. QED  BY <1>3, <2>1 DEF UseAccount, messages, Tenanted
<1>. QED
  BY <1>1, <1>2, <1>3 DEF EventStep, IgnoreLeaseAdded, DeadLetter, FanOut, IgnoreLeaseStatus

\* A reset of an account begins with the account NotReady or gone.
LEMMA ComesDue ==
    ASSUME IInv, Next, NothingShownTooLong, NEW a \in Accounts, Due(a)', ~Due(a)
    PROVE  account'[a].status \in {"NotReady", "Absent"}
<1>1. TypeOK
  BY DEF IInv
<1>2. ASSUME NEW w \in Workers, WorkerStep(w)
      PROVE  account'[a].status \in {"NotReady", "Absent"}
  <2>1. queue' = queue \/ a \notin queue' \/ a \in queue
    BY <1>2, HandlersSend DEF Due, ResetPending
  <2>2. ResetPending(a)' /\ a \notin queue'
    BY <1>2, <2>1, WorkersLeaveBuilds DEF Due, ResetPending, Resetting, Resets
  <2>3. PICK v \in Workers : At(v, "reset.send")' /\ Acc(v)' = a
    BY <2>2 DEF ResetPending
  <2>4. req'[v] # req[v]
    BY <2>3 DEF Due, ResetPending, At, Acc
  <2>5. WorkerStep(v)
    BY <2>4, OneActs DEF WorkerStep
  <2>. QED  BY <2>3, <2>5, ComesToSend
<1>3. ASSUME NEW b \in Builders, BuildStep(b) PROVE FALSE
  <2>1. ~ResetPending(a)'
    BY <1>1, <1>3, Builds DEF Due, ResetPending, At, Acc
  <2>2. ~Resetting(a)'
    BY <1>1, <1>3, Builds DEF Due, ResetPending, Resetting, Resets
  <2>. QED  BY <2>1, <2>2 DEF Due
<1>4. ASSUME NEW x \in Accounts, EventStep(x)
      PROVE  account'[a].status \in {"NotReady", "Absent"}
  BY <1>1, <1>4, Events DEF Due, ResetPending, Resetting, Resets, At, Acc
<1>5. ASSUME NEW x \in Accounts, CatchUp(x) PROVE FALSE
  BY <1>1, <1>5, CatchUpTyped DEF Due, ResetPending, Resetting, Resets, At, Acc, messages
<1>. QED  BY <1>2, <1>3, <1>4, <1>5 DEF Next, WorkerStep

\* The build that makes an account Ready was the last of its resets.
LEMMA NothingDueAfter ==
    ASSUME TypeOK, LastReset, NEW b \in Builders, FinishBuild(b),
           NEW a \in Accounts, build[b].acc = a,
           account[a].status = "NotReady", account'[a].status = "Ready"
    PROVE  ~Due(a)'
<1>1. ~ResetPending(a) /\ \A c \in Builders : Resets(c, a) => c = b
  BY DEF LastReset, Resets, FinishBuild
<1>2. UNCHANGED <<req, queue>> /\ build' = [build EXCEPT ![b] = NoBuild]
  BY DEF FinishBuild, messages
<1>3. /\ build'[b].phase = "idle"
      /\ \A c \in Builders \ {b} : build'[c] = build[c]
  BY <1>2, TypeParts DEF BuildsOK, NoBuild
<1>4. \A c \in Builders : ~Resets(c, a)'
  BY <1>1, <1>3 DEF Resets
<1>5. ~ResetPending(a)'
  BY <1>1, <1>2 DEF ResetPending, At, Acc
<1>. QED  BY <1>4, <1>5 DEF Due, Resetting

LEMMA DueNext ==
    ASSUME IInv, Next, NothingShownTooLong, LastReset, DueNotReady PROVE DueNotReady'
<1>. SUFFICES ASSUME NEW a \in Accounts, Due(a)'
              PROVE  account'[a].status \in {"NotReady", "Absent"}
  BY DEF DueNotReady
<1>1. CASE ~Due(a)
  BY <1>1, ComesDue
<1>2. CASE Due(a)
  <2>1. account[a].status \in {"NotReady", "Absent"}
    BY <1>2 DEF DueNotReady
  <2>2. ASSUME NEW b \in Builders, FinishBuild(b), build[b].acc = a,
               account[a].status = "NotReady", account'[a].status = "Ready"
        PROVE  FALSE
    BY <2>2, NothingDueAfter DEF IInv
  <2>. QED  BY <2>1, <2>2, StatusChanges DEF Cause
<1>. QED  BY <1>1, <1>2

-----------------------------------------------------------------------------
(* What a tenant finds *)

\* The account is given out while it is Ready, and Leased when it is given back.
LEMMA TenantedStatus ==
    ASSUME TablesAgree, NEW a \in Accounts, Tenanted(a)
    PROVE  account[a].status \in {"Leased", "Ready"}
  BY DEF TablesAgree, Tenanted

\* Whoever is due for a reset has no tenant.
LEMMA DueUntenanted ==
    ASSUME TablesAgree, DueNotReady, NEW a \in Accounts, Due(a)
    PROVE  /\ ~Tenanted(a)
           /\ account[a].status \in {"Absent", "NotReady"}
           /\ GivenOut(a) = account[a].status
           /\ HeldIn(a) = {} /\ LeftIn(a) = dirty \cap {a}
<1>1. account[a].status \in {"Absent", "NotReady"} /\ ~Tenanted(a)
  BY TenantedStatus DEF DueNotReady
<1>. QED  BY <1>1 DEF GivenOut, HeldIn, LeftIn

\* The last tenant leaves an account that is marked Leased: otherwise the call
\* that gave it out would still be about to mark it, for a lease that has ended.
LEMMA LastTenantLeaves ==
    ASSUME IInv, Next, TablesAgree, TablesAgree', NEW a \in Accounts,
           Tenanted(a), ~Tenanted(a)'
    PROVE  account[a].status = "Leased"
<1>1. PICK p \in Principals : Active(a, p) /\ ~Active(a, p)'
  BY DEF Tenanted
<1>2. SUFFICES ASSUME NEW w \in Workers, Creating(w), Acc(w) = a, Prin(w) = p
               PROVE  FALSE
  BY <1>1 DEF TablesAgree
<1>3. lease' # lease
  BY <1>1 DEF Active
<1>4. TablesOK
  BY TypeParts DEF IInv
<1>5. ASSUME NEW v \in Workers, PutNewLease(Acc(v), Prin(v)) PROVE Active(a, p)'
  BY <1>1, <1>4, <1>5 DEF PutNewLease, TablesOK, Active
<1>6. req'[w] = req[w]
  BY <1>1, <1>2, <1>3, <1>5, LeaseChanges
<1>7. Creating(w)' /\ Acc(w)' = a /\ Prin(w)' = p
  BY <1>2, <1>6 DEF Creating, Acc, Prin
<1>8. \A v \in Workers : Creating(v)' => lease'[Acc(v)'][Prin(v)'].status = "Active"
  BY DEF TablesAgree, Active
<1>. QED  BY <1>1, <1>7, <1>8 DEF Active

\* A build that is through with its nuke has left nothing behind, and nothing
\* has been made since.
NukedClean == \A b \in Builders : build[b].phase = "update" => build[b].acc \notin dirty

\* The inductive invariant.
CleanInv == IInv /\ DueNotReady /\ NukedClean /\ ReadyIsClean

\* What an account without a tenant holds came to it with the tenant, or was
\* there before; nothing is made in an account that is due for a reset.
LEMMA GetsDirty ==
    ASSUME IInv, Next, TablesAgree, NothingShownTooLong, DueNotReady,
           NEW a \in Accounts, a \in dirty', a \notin dirty
    PROVE  Tenanted(a) /\ ~Due(a) /\ build' = build /\ lease' = lease
<1>1. TypeOK
  BY DEF IInv
<1>2. PICK x \in Accounts : EventStep(x)
  BY <1>1, WorkersLeaveBuilds, Builds, CatchUpTyped DEF Next, WorkerStep
<1>3. Tenanted(a) /\ build' = build /\ lease' = lease
  BY <1>1, <1>2, Events
<1>. QED  BY <1>3, DueUntenanted

LEMMA NukedCleanNext ==
    ASSUME NukeEnabled, IInv, Next, TablesAgree, NothingShownTooLong, DueNotReady,
           NukedClean
    PROVE  NukedClean'
<1>. SUFFICES ASSUME NEW b \in Builders, build'[b].phase = "update",
                     build'[b].acc \in dirty'
              PROVE  FALSE
  BY DEF NukedClean
<1>1. TypeOK
  BY DEF IInv
<1>2. CASE build'[b] = build[b]
  <2>1. build[b].acc \in Accounts /\ build[b].acc \notin dirty /\ build[b].phase = "update"
    BY <1>1, <1>2, TypeParts DEF NukedClean, BuildsOK, BuildOK
  <2>2. Due(build[b].acc)
    BY <2>1 DEF Due, Resetting, Resets
  <2>. QED  BY <1>2, <2>1, <2>2, GetsDirty
<1>3. CASE build'[b] # build[b]
  <2>1. BuildStep(b)
    BY <1>1, <1>3, WorkersLeaveBuilds, Builds, EventStepTyped, CatchUpTyped
       DEF Next, WorkerStep
  <2>2. build'[b].acc = build[b].acc /\ dirty' = dirty \ {build[b].acc}
    BY <1>1, <2>1, Builds
  <2>. QED  BY <2>2
<1>. QED  BY <1>2, <1>3

LEMMA ReadyCleanNext ==
    ASSUME CleanInv, Next, TablesAgree, TablesAgree', NothingShownTooLong
    PROVE  ReadyIsClean'
<1>. USE DEF CleanInv
<1>. SUFFICES ASSUME NEW a \in Accounts, account'[a].status = "Ready", a \in dirty',
                     ~Tenanted(a)'
              PROVE  FALSE
  BY DEF ReadyIsClean, Tenanted, Active
<1>1. CASE a \notin dirty
  <2>1. Tenanted(a) /\ lease' = lease
    BY <1>1, GetsDirty
  <2>. QED  BY <2>1, LeasesAsBefore
<1>2. CASE a \in dirty /\ account[a].status = "Ready"
  BY <1>2, LastTenantLeaves DEF ReadyIsClean, Tenanted
<1>3. CASE a \in dirty /\ account[a].status # "Ready"
  <2>1. PICK b \in Builders : FinishBuild(b) /\ build[b].acc = a
    BY <1>3, StatusChanges DEF Cause
  <2>. QED  BY <1>3, <2>1 DEF FinishBuild, NukedClean
<1>. QED  BY <1>2, <1>1, <1>3

LEMMA CleanNext ==
    ASSUME SecondsApart, NukeEnabled, CleanInv, [Next]_vars, [LastReset]_vars,
           TablesAgree, TablesAgree', NothingShownTooLong
    PROVE  CleanInv'
<1>1. IInv'
  BY LockNext DEF CleanInv
<1>2. CASE UNCHANGED vars
  BY <1>1, <1>2 DEF vars, messages, tables, CleanInv, DueNotReady, NukedClean,
     ReadyIsClean, Due, ResetPending, Resetting, Resets, At, Acc, Active
<1>3. CASE Next /\ ~UNCHANGED vars
  BY <1>1, <1>3, DueNext, NukedCleanNext, ReadyCleanNext DEF CleanInv
<1>. QED  BY <1>2, <1>3

LEMMA DueInit == Init => DueNotReady
  BY DEF Init, DueNotReady, Due, ResetPending, Resetting, Resets, At, NoRequest, NoBuild

LEMMA CleanInit == Init => CleanInv
  BY LockInit, DueInit DEF Init, CleanInv, NukedClean, ReadyIsClean, NoBuild

\* An account is Ready and dirty only after accounts and leases have disagreed,
\* or a read has shown what was long over, or a build has made the account Ready
\* while another reset of it was on the way: no other order of handlers, builds,
\* messages, crashes and late reads leads there, whatever their number.
THEOREM ReadyAccountsAreClean ==
    ASSUME SecondsApart, NukeEnabled
    PROVE  Spec /\ []TablesAgree /\ []NothingShownTooLong /\ GivenBackLast
             => []ReadyIsClean
<1>1. CleanInv /\ [Next]_vars /\ [LastReset]_vars /\ TablesAgree /\ TablesAgree'
        /\ NothingShownTooLong => CleanInv'
  BY CleanNext
<1>2. CleanInv => ReadyIsClean
  BY DEF CleanInv
<1>. QED  BY <1>1, <1>2, CleanInit, PTL DEF Spec, GivenBackLast

\* A build nukes an account that somebody holds only after one of the same three
\* has gone wrong.
THEOREM TenantsAreNotNuked ==
    ASSUME SecondsApart
    PROVE  Spec /\ []TablesAgree /\ []NothingShownTooLong /\ GivenBackLast
             => NukedOnlyAfterLeaseEnds
<1>. DEFINE DueInv == IInv /\ DueNotReady
<1>1. DueInv /\ [Next]_vars /\ [LastReset]_vars /\ NothingShownTooLong => DueInv'
  <2>. SUFFICES ASSUME DueInv, UNCHANGED vars PROVE DueNotReady'
    BY LockNext, DueNext
  <2>. QED
    BY DEF vars, messages, tables, DueNotReady, Due, ResetPending, Resetting, Resets, At, Acc
<1>2. DueInv /\ TablesAgree =>
        [\A b \in Builders :
           build[b].phase = "nuke" /\ build'[b].phase = "update"
             => ~ \E p \in Principals : Active(build[b].acc, p)]_vars
  <2>. SUFFICES ASSUME DueInv, TablesAgree, NEW b \in Builders, build[b].phase = "nuke"
                PROVE  ~Tenanted(build[b].acc)
    BY DEF Tenanted
  <2>1. build[b].acc \in Accounts
    BY TypeParts DEF IInv, BuildsOK, BuildOK
  <2>2. Due(build[b].acc)
    BY DEF Due, Resetting, Resets
  <2>. QED  BY <2>1, <2>2, DueUntenanted
<1>3. Init => DueInv
  BY LockInit, DueInit
<1>. QED  BY <1>1, <1>2, <1>3, PTL DEF Spec, GivenBackLast, NukedOnlyAfterLeaseEnds

-----------------------------------------------------------------------------
(* The reset of one account as AccountReset has it *)

Unseen(a) == UNCHANGED <<GivenOut(a), HeldIn(a), LeftIn(a), Resetting(a)>>

\* A step that leaves all that the reset of account a is about.
LEMMA NoneOfItsBusiness ==
    ASSUME NEW a \in Accounts,
           Tenanted(a)' <=> Tenanted(a), account'[a].status = account[a].status,
           a \in dirty' <=> a \in dirty, Resetting(a)' <=> Resetting(a)
    PROVE  Unseen(a)
<1>1. dirty' \cap {a} = dirty \cap {a}
  OBVIOUS
<1>. QED  BY <1>1 DEF Unseen, GivenOut, HeldIn, LeftIn, Resetting

\* An account's status changes under no tenant, except when the call that gave
\* it out marks it.
LEMMA StatusStepPromised ==
    ASSUME IInv, Next, TablesAgree, TablesAgree', UNCHANGED <<build, dirty>>,
           NEW a \in Accounts, account'[a].status # account[a].status
    PROVE  AccountReset(a)!Next \/ Unseen(a)
<1>1. TypeOK /\ account[a].status \in AccountStatus
  BY TypeParts DEF IInv, TablesOK, AccountRow
<1>2. lease' = lease /\ (Tenanted(a)' <=> Tenanted(a))
  BY StatusChanges, LeasesAsBefore
<1>3. UNCHANGED Resetting(a)
  BY DEF Resetting, Resets
<1>4. CASE account'[a].status \in {"NotReady", "Absent"}
  <2>1. ~Tenanted(a)' /\ ~Tenanted(a)
    BY <1>2, <1>4 DEF TablesAgree, Tenanted
  <2>2. /\ UNCHANGED <<HeldIn(a), LeftIn(a)>>
        /\ GivenOut(a) = IF account[a].status = "Leased" THEN "NotReady"
                                                         ELSE account[a].status
        /\ GivenOut(a)' = account'[a].status
    BY <1>4, <2>1 DEF GivenOut, HeldIn, LeftIn
  <2>3. CASE account'[a].status = "Absent"
    <3>1. GivenOut(a) \in {"NotReady", "Ready"} /\ GivenOut(a)' = "Absent"
      BY <1>1, <2>2, <2>3 DEF AccountStatus
    <3>2. AccountReset(a)!Retire
      BY <1>3, <2>2, <3>1 DEF AccountReset!Retire
    <3>. QED  BY <3>2 DEF AccountReset!Next
  <2>4. CASE account'[a].status = "NotReady" /\ account[a].status = "Absent"
    <3>1. AccountReset(a)!Join
      BY <1>3, <2>2, <2>4 DEF AccountReset!Join
    <3>. QED  BY <3>1 DEF AccountReset!Next
  <2>5. CASE account'[a].status = "NotReady" /\ account[a].status = "Ready"
    <3>1. AccountReset(a)!Recall
      BY <1>3, <2>2, <2>5 DEF AccountReset!Recall
    <3>. QED  BY <3>1 DEF AccountReset!Next
  <2>6. CASE account'[a].status = "NotReady" /\ account[a].status = "Leased"
    BY <1>3, <2>2, <2>6 DEF Unseen
  <2>. QED  BY <1>1, <1>4, <2>3, <2>4, <2>5, <2>6 DEF AccountStatus
<1>5. CASE account'[a].status = "Leased" /\ \E w \in Workers : At(w, "create.mark") /\ Acc(w) = a
  <2>1. Tenanted(a) /\ Tenanted(a)'
    <3>1. PICK w \in Workers : At(w, "create.mark") /\ Acc(w) = a
      BY <1>5
    <3>2. Active(a, Prin(w)) /\ Prin(w) \in Principals
      BY <1>1, <3>1, WorkerTyped
         DEF TablesAgree, Creating, At, Idle, ForPrincipal, CreatePCs
    <3>. QED  BY <1>2, <3>2 DEF Tenanted
  <2>. QED  BY <1>3, <2>1 DEF Unseen, GivenOut, HeldIn, LeftIn
<1>6. ASSUME NEW b \in Builders, FinishBuild(b) PROVE FALSE
  <2>1. build'[b] = NoBuild /\ build[b].phase = "update"
    BY <1>1, <1>6, TypeParts DEF FinishBuild, BuildsOK
  <2>. QED  BY <2>1 DEF NoBuild
<1>. QED  BY <1>4, <1>5, <1>6, StatusChanges DEF Cause

\* A lease is given out with a Ready account, and the last one of an account is
\* taken back from a Leased one.
LEMMA LeaseStepPromised ==
    ASSUME SecondsApart, NukeEnabled, CleanInv, Next, TablesAgree, TablesAgree',
           lease' # lease, NEW a \in Accounts
    PROVE  AccountReset(a)!Next \/ Unseen(a)
<1>1. /\ TypeOK /\ IInv
      /\ UNCHANGED <<account, build, dirty>>
  BY LeaseChanges DEF CleanInv, IInv
<1>2. UNCHANGED Resetting(a)
  BY <1>1 DEF Resetting, Resets
<1>3. CASE Tenanted(a)' <=> Tenanted(a)
  BY <1>1, <1>2, <1>3, NoneOfItsBusiness
<1>4. CASE ~Tenanted(a) /\ Tenanted(a)'
  <2>1. PICK w \in Workers : /\ At(w, "create.save") /\ Goto(w, "create.publish")
                             /\ PutNewLease(Acc(w), Prin(w))
    BY <1>1, <1>4, LeaseChanges DEF Tenanted
  <2>2. Acc(w) \in Accounts /\ Prin(w) \in Principals
    BY <1>1, <2>1, WorkerTyped DEF At, Idle, ForPrincipal, CreatePCs
  <2>3. Acc(w) = a
    BY <1>1, <1>4, <2>1, <2>2, LeasePutEffect DEF Tenanted, Active
  <2>4. Creating(w)' /\ Acc(w)' = a
    BY <1>1, <2>1, <2>3, Gone DEF Creating
  <2>5. account'[a].status = "Ready"
    BY <2>4 DEF TablesAgree
  <2>6. account[a].status = "Ready" /\ a \notin dirty
    BY <1>1, <1>4, <2>5 DEF CleanInv, ReadyIsClean, Tenanted
  <2>7. /\ GivenOut(a) = "Ready" /\ GivenOut(a)' = "Leased"
        /\ UNCHANGED <<HeldIn(a), LeftIn(a)>>
    BY <1>1, <1>4, <2>6 DEF GivenOut, HeldIn, LeftIn
  <2>8. AccountReset(a)!CheckOut
    BY <1>2, <2>7 DEF AccountReset!CheckOut
  <2>. QED  BY <2>8 DEF AccountReset!Next
<1>5. CASE Tenanted(a) /\ ~Tenanted(a)'
  <2>1. account[a].status = "Leased" /\ account'[a].status = "Leased"
    BY <1>1, <1>5, LastTenantLeaves
  <2>2. /\ GivenOut(a) = "Leased" /\ GivenOut(a)' = "NotReady"
        /\ HeldIn(a)' = {} /\ LeftIn(a)' = LeftIn(a) \cup HeldIn(a)
    BY <1>1, <1>5, <2>1 DEF GivenOut, HeldIn, LeftIn
  <2>3. AccountReset(a)!TakeBack
    BY <1>2, <2>2 DEF AccountReset!TakeBack
  <2>. QED  BY <2>3 DEF AccountReset!Next
<1>. QED  BY <1>3, <1>4, <1>5

\* Builds: any number of them are the reset of one account, from the start of
\* the first to the end of the last.
LEMMA BuildStepPromised ==
    ASSUME NukeEnabled, CleanInv, TablesAgree, LastReset, NEW b \in Builders,
           BuildStep(b), NEW a \in Accounts
    PROVE  AccountReset(a)!Next \/ Unseen(a)
<1>0. TypeOK /\ TablesOK /\ BuildsOK /\ IInv /\ DueNotReady
  BY TypeParts DEF CleanInv, IInv
<1>1. lease' = lease /\ (Tenanted(a)' <=> Tenanted(a))
  BY <1>0, Builds, LeasesAsBefore
<1>3. ASSUME NEW x \in Accounts, StartBuild(b, x)
      PROVE  AccountReset(a)!Next \/ Unseen(a)
  <2>1. /\ account' = account /\ dirty' = dirty
        /\ x \in queue /\ build[b].phase = "idle"
        /\ build' = [build EXCEPT ![b] = [phase |-> "nuke", acc |-> x]]
    BY <1>3 DEF StartBuild, tables
  <2>2. /\ \A c \in Builders \ {b} : build'[c] = build[c]
        /\ build'[b] = [phase |-> "nuke", acc |-> x]
    BY <1>0, <2>1 DEF BuildsOK
  <2>3. CASE a # x \/ Resetting(a)
    <3>1. Resetting(a)' <=> Resetting(a)
      BY <2>1, <2>2, <2>3 DEF Resetting, Resets
    <3>. QED  BY <1>1, <2>1, <3>1, NoneOfItsBusiness
  <2>4. CASE a = x /\ ~Resetting(a)
    <3>1. Due(a)
      BY <2>1, <2>4 DEF Due, ResetPending
    <3>2. GivenOut(a) \in {"Absent", "NotReady"}
      BY <1>0, <3>1, DueUntenanted
    <3>3. Resetting(a) = FALSE /\ Resetting(a)' = TRUE
      BY <2>2, <2>4 DEF Resetting, Resets
    <3>4. UNCHANGED <<GivenOut(a), HeldIn(a), LeftIn(a)>>
      BY <1>1, <2>1 DEF GivenOut, HeldIn, LeftIn
    <3>5. AccountReset(a)!Begin
      BY <3>2, <3>3, <3>4 DEF AccountReset!Begin
    <3>. QED  BY <3>5 DEF AccountReset!Next
  <2>. QED  BY <2>3, <2>4
<1>4. CASE Nuke(b)
  <2>1. /\ account' = account /\ dirty' = dirty \ {build[b].acc}
        /\ build[b].phase = "nuke"
        /\ build' = [build EXCEPT ![b].phase = "update"]
    BY <1>4 DEF Nuke, tables
  <2>2. /\ \A c \in Builders \ {b} : build'[c] = build[c]
        /\ build'[b].phase = "update" /\ build'[b].acc = build[b].acc
    BY <1>0, <2>1 DEF BuildsOK, Build
  <2>3. Resetting(a)' <=> Resetting(a)
    BY <2>1, <2>2 DEF Resetting, Resets
  <2>4. CASE a # build[b].acc \/ a \notin dirty
    <3>1. a \in dirty' <=> a \in dirty
      BY <2>1, <2>4
    <3>. QED  BY <1>1, <2>1, <2>3, <3>1, NoneOfItsBusiness
  <2>5. CASE a = build[b].acc /\ a \in dirty
    <3>1. Resetting(a) /\ Due(a)
      BY <2>1, <2>5 DEF Resetting, Resets, Due
    <3>2. ~Tenanted(a) /\ HeldIn(a) = {} /\ LeftIn(a) = {a}
      BY <1>0, <2>5, <3>1, DueUntenanted
    <3>3. GivenOut(a)' = GivenOut(a) /\ HeldIn(a)' = HeldIn(a) /\ LeftIn(a)' = {}
      BY <1>1, <2>1, <2>5, <3>2 DEF GivenOut, HeldIn, LeftIn
    <3>4. Resetting(a)' = Resetting(a)
      BY <2>3 DEF Resetting
    <3>5. AccountReset(a)!Remove(a)
      BY <3>1, <3>2, <3>3, <3>4 DEF AccountReset!Remove
    <3>. QED  BY <3>5 DEF AccountReset!Next
  <2>. QED  BY <2>4, <2>5
<1>5. CASE (BuildFails(b) \/ FinishBuild(b)) /\ (a # build[b].acc \/ UNCHANGED tables)
  <2>1. /\ build[b].phase # "idle" /\ dirty' = dirty
        /\ build' = [build EXCEPT ![b] = NoBuild]
        /\ build[b].acc \in Accounts
    BY <1>0, <1>5 DEF BuildFails, FinishBuild, BuildsOK, BuildOK
  <2>2. /\ \A c \in Builders \ {b} : build'[c] = build[c]
        /\ build'[b].phase = "idle"
    BY <1>0, <2>1 DEF BuildsOK, NoBuild
  <2>3. account'[a] = account[a]
    BY <1>0, <1>5, <2>1, Saved DEF BuildFails, FinishBuild, TransitionAccount, tables
  <2>4. CASE Resetting(a)' <=> Resetting(a)
    BY <1>1, <2>1, <2>3, <2>4, NoneOfItsBusiness
  <2>5. CASE ~(Resetting(a)' <=> Resetting(a))
    <3>1. Resetting(a) = TRUE /\ Resetting(a)' = FALSE
      BY <2>1, <2>2, <2>5 DEF Resetting, Resets
    <3>2. UNCHANGED <<GivenOut(a), HeldIn(a), LeftIn(a)>>
      BY <1>1, <2>1, <2>3 DEF GivenOut, HeldIn, LeftIn
    <3>3. AccountReset(a)!GiveUp
      BY <3>1, <3>2 DEF AccountReset!GiveUp
    <3>. QED  BY <3>3 DEF AccountReset!Next
  <2>. QED  BY <2>4, <2>5
<1>6. CASE FinishBuild(b) /\ a = build[b].acc /\ ~UNCHANGED tables
  <2>1. /\ build[b].phase = "update" /\ dirty' = dirty
        /\ account[a].status = "NotReady" /\ account'[a].status = "Ready"
    BY <1>0, <1>6, Saved DEF FinishBuild, TransitionAccount
  <2>2. Resetting(a) = TRUE /\ Due(a) /\ a \notin dirty
    BY <1>6, <2>1 DEF Resetting, Resets, Due, CleanInv, NukedClean
  <2>3. ~Tenanted(a) /\ GivenOut(a) = "NotReady" /\ HeldIn(a) = {} /\ LeftIn(a) = {}
    BY <1>0, <2>1, <2>2, DueUntenanted
  <2>4. GivenOut(a)' = "Ready" /\ HeldIn(a)' = {} /\ LeftIn(a)' = {}
    BY <1>1, <2>1, <2>2, <2>3 DEF GivenOut, HeldIn, LeftIn
  <2>5. Resetting(a)' = FALSE
    BY <1>0, <1>6, <2>1, NothingDueAfter DEF Due, Resetting
  <2>6. AccountReset(a)!GiveBack
    BY <2>2, <2>3, <2>4, <2>5 DEF AccountReset!GiveBack
  <2>. QED  BY <2>6 DEF AccountReset!Next
<1>. QED  BY <1>3, <1>4, <1>5, <1>6 DEF BuildStep, BuildFails

\* Only the tenant makes anything in an account.
LEMMA EventStepPromised ==
    ASSUME CleanInv, NothingShownTooLong, NEW x \in Accounts, EventStep(x),
           NEW a \in Accounts
    PROVE  AccountReset(a)!Next \/ Unseen(a)
<1>1. UNCHANGED <<account, lease, build>>
  BY Events DEF CleanInv, IInv
<1>2. (Tenanted(a)' <=> Tenanted(a)) /\ UNCHANGED Resetting(a)
  BY <1>1, LeasesAsBefore DEF Resetting, Resets
<1>3. CASE a \in dirty' <=> a \in dirty
  BY <1>1, <1>2, <1>3, NoneOfItsBusiness
<1>4. CASE ~(a \in dirty' <=> a \in dirty)
  <2>1. a \notin dirty /\ a \in dirty' /\ Tenanted(a)
    BY <1>4, Events DEF CleanInv, IInv
  <2>2. /\ GivenOut(a) = "Leased" /\ GivenOut(a)' = GivenOut(a)
        /\ HeldIn(a) = {} /\ LeftIn(a) = {}
        /\ HeldIn(a)' = {a} /\ LeftIn(a)' = {}
    BY <1>2, <2>1 DEF GivenOut, HeldIn, LeftIn
  <2>3. AccountReset(a)!Make(a)
    BY <1>2, <2>2 DEF AccountReset!Make
  <2>. QED  BY <2>3 DEF AccountReset!Next
<1>. QED  BY <1>3, <1>4

\* RefinesAccountReset says of all accounts together that AccountReset holds of
\* each: TLC takes the one form, the other is the refinement as it is usually
\* written.
LEMMA PromiseOfEach ==
    ASSUME NEW a \in Accounts PROVE RefinesAccountReset => AccountReset(a)!Spec
<1>1. (\A x \in Accounts : AccountReset(x)!Init) => AccountReset(a)!Init
  OBVIOUS
<1>2. [\A x \in Accounts : [AccountReset(x)!Next]_(AccountReset(x)!promiseVars)]_vars
        => [AccountReset(a)!Next]_(AccountReset(a)!promiseVars)
  <2>. SUFFICES ASSUME UNCHANGED vars
                PROVE  UNCHANGED (AccountReset(a)!promiseVars)
    OBVIOUS
  <2>1. lease' = lease /\ account' = account /\ dirty' = dirty /\ build' = build
    BY DEF vars, tables
  <2>. QED
    BY <2>1 DEF AccountReset!promiseVars, GivenOut, HeldIn, LeftIn, Resetting, Resets,
       Tenanted, Active
<1>. QED
  BY <1>1, <1>2, PTL DEF RefinesAccountReset, AccountReset!Spec

LEMMA StepPromised ==
    ASSUME SecondsApart, NukeEnabled, CleanInv, Next, TablesAgree, TablesAgree',
           NothingShownTooLong, LastReset, NEW a \in Accounts
    PROVE  AccountReset(a)!Next \/ Unseen(a)
<1>1. TypeOK /\ IInv
  BY DEF CleanInv, IInv
<1>2. ASSUME NEW w \in Workers, WorkerStep(w)
      PROVE  AccountReset(a)!Next \/ Unseen(a)
  <2>1. UNCHANGED <<build, dirty>>
    BY <1>2, WorkersLeaveBuilds
  <2>2. CASE lease' = lease /\ account'[a].status = account[a].status
    BY <2>1, <2>2, LeasesAsBefore, NoneOfItsBusiness DEF Resetting, Resets
  <2>. QED  BY <1>1, <2>1, <2>2, StatusStepPromised, LeaseStepPromised
<1>3. ASSUME NEW x \in Accounts, CatchUp(x) PROVE Unseen(a)
  <2>1. UNCHANGED <<account, lease, build, dirty>>
    BY <1>1, <1>3, CatchUpTyped DEF tables
  <2>. QED  BY <2>1, LeasesAsBefore, NoneOfItsBusiness DEF Resetting, Resets
<1>. QED  BY <1>2, <1>3, BuildStepPromised, EventStepPromised DEF Next, WorkerStep

\* As long as accounts and leases agree, nothing is shown too long and an account
\* is given back with the last of its resets, what the handlers, the queue and
\* the builds do to any one account is what AccountReset promises, with any
\* interleaving, crash, lost or repeated message and late read.
THEOREM ResetsKeepTheirPromise ==
    ASSUME SecondsApart, NukeEnabled
    PROVE  Spec /\ []TablesAgree /\ []NothingShownTooLong /\ GivenBackLast
             => RefinesAccountReset
<1>1. Init => \A x \in Accounts : AccountReset(x)!Init
  <2>. SUFFICES ASSUME Init, NEW a \in Accounts PROVE AccountReset(a)!Init
    OBVIOUS
  <2>1. ~Tenanted(a) /\ ~Resetting(a) /\ dirty = {}
    BY DEF Init, TablesInit, NoLease, NoBuild, Tenanted, Active, Resetting, Resets
  <2>2. account[a].status \in {"Absent", "Ready"}
    BY DEF Init, TablesInit, NoAccount
  <2>3. /\ GivenOut(a) \in {"Absent", "Ready"} /\ HeldIn(a) = {} /\ LeftIn(a) = {}
        /\ Resetting(a) = FALSE
    BY <2>1, <2>2 DEF GivenOut, HeldIn, LeftIn, Resetting
  <2>. QED  BY <2>3 DEF AccountReset!Init
<1>2. CleanInv /\ [Next]_vars /\ [LastReset]_vars /\ TablesAgree /\ TablesAgree'
        /\ NothingShownTooLong => CleanInv'
  BY CleanNext
<1>3. CleanInv /\ [Next]_vars /\ [LastReset]_vars /\ TablesAgree /\ TablesAgree'
        /\ NothingShownTooLong =>
        [\A x \in Accounts : [AccountReset(x)!Next]_(AccountReset(x)!promiseVars)]_vars
  <2>. SUFFICES ASSUME CleanInv, Next, LastReset, TablesAgree, TablesAgree',
                       NothingShownTooLong, NEW a \in Accounts
                PROVE  AccountReset(a)!Next \/ Unseen(a)
    BY DEF AccountReset!promiseVars, Unseen
  <2>. QED  BY StepPromised
<1>. QED  BY <1>1, <1>2, <1>3, CleanInit, PTL DEF Spec, GivenBackLast, RefinesAccountReset
=============================================================================
