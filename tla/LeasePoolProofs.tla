--------------------------- MODULE LeasePoolProofs ---------------------------
(***************************************************************************)
(* Proofs, for any accounts, principals, workers and builders, of what     *)
(* LeasePoolProps states about every environment.                          *)
(***************************************************************************)
EXTENDS LeasePoolProps, TLAPS

-----------------------------------------------------------------------------
(* Types *)

TablesOK ==
    /\ account \in [Accounts -> AccountRow]
    /\ lease \in [Accounts -> [Principals -> LeaseRow]]
    /\ now \in Nat
    /\ issued \in Nat

ShownOK ==
    /\ shownAccount \in [Accounts -> AccountRow]
    /\ shownLease \in [Accounts -> [Principals -> LeaseRow]]

RequestOK(r) ==
    /\ r \in Request
    /\ r.pc # "idle" => r.acc \in Accounts
    /\ r.pc \in CreatePCs \cup ExpirePCs \cup {"delete.write"}
          => r.prin \in Principals

BuildOK(r) == r \in Build /\ (r.phase # "idle" => r.acc \in Accounts)

RequestsOK == /\ req \in [Workers -> Request]
              /\ \A w \in Workers : RequestOK(req[w])
BuildsOK   == /\ build \in [Builders -> Build]
              /\ \A b \in Builders : BuildOK(build[b])
RestOK     == /\ queue \in SUBSET Accounts
              /\ granted \in SUBSET Accounts
              /\ invoked \in SUBSET (Accounts \X Principals)
              /\ dirty \in SUBSET Accounts

\* TypeOK in the parts the actions change separately.
LEMMA TypeParts ==
    TypeOK <=> TablesOK /\ ShownOK /\ RequestsOK /\ BuildsOK /\ RestOK
  BY DEF TypeOK, TablesOK, ShownOK, RequestsOK, RequestOK, BuildsOK, BuildOK, RestOK

LEMMA TypePartsPrimed ==
    TypeOK' <=> TablesOK' /\ ShownOK' /\ RequestsOK' /\ BuildsOK' /\ RestOK'
  BY DEF TypeOK, TablesOK, ShownOK, RequestsOK, RequestOK, BuildsOK, BuildOK, RestOK

\* Whatever a read returns is a row.
LEMMA ReadsTyped ==
    ASSUME TypeOK, NEW a \in Accounts
    PROVE  /\ \A row \in AccountReads(a) : row \in AccountRow
           /\ \A p \in Principals : \A row \in LeaseReads(a, p) : row \in LeaseRow
           /\ \A p \in Principals : \A view \in LeaseViews(p) : view[a] \in LeaseRow
  BY TypeParts DEF TablesOK, ShownOK, AccountReads, LeaseReads, LeaseViews

\* Every write to the tables keeps them well-typed.
LEMMA TablesTyped ==
    ASSUME TablesOK,
           \/ UNCHANGED tables
           \/ \E a \in Accounts, s \in AccountStatus : PutAccount(a, s)
           \/ \E a \in Accounts : DeleteAccountRow(a)
           \/ \E a \in Accounts, p \in Principals : PutNewLease(a, p)
           \/ \E a \in Accounts, p \in Principals, id, stamp \in Nat :
                PutDestroyedLease(a, p, id, stamp)
           \/ \E a \in Accounts, p \in Principals : ExpireLeaseRow(a, p)
    PROVE  TablesOK'
<1>1. CASE UNCHANGED tables
  BY <1>1 DEF TablesOK, tables
<1>2. ASSUME NEW a \in Accounts, NEW s \in AccountStatus, PutAccount(a, s)
      PROVE  TablesOK'
  BY <1>2 DEF TablesOK, PutAccount, Seconds, AccountRow
<1>3. ASSUME NEW a \in Accounts, DeleteAccountRow(a)
      PROVE  TablesOK'
  BY <1>3 DEF TablesOK, DeleteAccountRow, AccountRow, AccountStatus, NoAccount
<1>4. ASSUME NEW a \in Accounts, NEW p \in Principals, PutNewLease(a, p)
      PROVE  TablesOK'
  BY <1>4 DEF TablesOK, PutNewLease, Seconds, LeaseRow, LeaseStatus, LeaseReason
<1>5. ASSUME NEW a \in Accounts, NEW p \in Principals, NEW id \in Nat,
             NEW stamp \in Nat, PutDestroyedLease(a, p, id, stamp)
      PROVE  TablesOK'
  BY <1>5 DEF TablesOK, PutDestroyedLease, LeaseRow, LeaseStatus, LeaseReason
<1>6. ASSUME NEW a \in Accounts, NEW p \in Principals, ExpireLeaseRow(a, p)
      PROVE  TablesOK'
  BY <1>6 DEF TablesOK, ExpireLeaseRow, Seconds, LeaseRow, LeaseStatus, LeaseReason
<1>7. QED
  BY <1>1, <1>2, <1>3, <1>4, <1>5, <1>6

\* A step of a worker changes its own request only.
LEMMA RequestsTyped ==
    ASSUME RequestsOK, NEW w \in Workers, NEW r, RequestOK(r),
           req' = [req EXCEPT ![w] = r]
    PROVE  RequestsOK'
  BY DEF RequestsOK, RequestOK

LEMMA BuildsTyped ==
    ASSUME BuildsOK, NEW b \in Builders, NEW r, BuildOK(r),
           build' = [build EXCEPT ![b] = r]
    PROVE  BuildsOK'
  BY DEF BuildsOK, BuildOK

LEMMA IdleTyped == RequestOK(NoRequest) /\ BuildOK(NoBuild)
  BY DEF RequestOK, BuildOK, NoRequest, NoBuild, Request, Build, PCs, AccountRow,
         AccountStatus, NoAccount, CreatePCs, ExpirePCs

\* Handlers that work for a principal.
ForPrincipal(pc) == pc \in CreatePCs \cup ExpirePCs \cup {"delete.write"}

LEMMA BeginTyped ==
    ASSUME TypeOK, NEW w \in Workers, NEW h, NEW pc \in PCs, NEW a \in Accounts,
           NEW p \in Principals \cup {None}, ForPrincipal(pc) => p \in Principals,
           NEW row \in AccountRow,
           Begin(w, h, pc, a, p) \/ BeginWithRow(w, h, pc, a, p, row)
    PROVE  RequestsOK'
<1>. DEFINE r0 == [NoRequest EXCEPT !.pc = pc, !.acc = a, !.prin = p]
            r1 == [NoRequest EXCEPT !.pc = pc, !.acc = a, !.prin = p,
                                    !.row = row]
<1>1. RequestOK(r0) /\ RequestOK(r1)
  BY TypeParts DEF RequestOK, NoRequest, Request, NoAccount, AccountRow,
     AccountStatus, TablesOK, ForPrincipal
<1>2. \/ req' = [req EXCEPT ![w] = r0]
      \/ req' = [req EXCEPT ![w] = r1]
  BY DEF Begin, BeginWithRow
<1>. HIDE DEF r0, r1
<1>. QED  BY <1>1, <1>2, RequestsTyped, TypeParts

LEMMA GotoTyped ==
    ASSUME TypeOK, NEW w \in Workers, ~Idle(w), NEW pc \in PCs,
           ForPrincipal(pc) => Prin(w) \in Principals, Goto(w, pc)
    PROVE  RequestsOK'
<1>. DEFINE r == [req[w] EXCEPT !.pc = pc]
<1>1. RequestOK(r)
  BY TypeParts DEF RequestsOK, RequestOK, Request, ForPrincipal, Idle, Prin
<1>2. req' = [req EXCEPT ![w] = r]
  BY DEF Goto
<1>. HIDE DEF r
<1>. QED  BY <1>1, <1>2, RequestsTyped, TypeParts

LEMMA ReplyTyped ==
    ASSUME TypeOK, NEW w \in Workers, Reply(w)
    PROVE  RequestsOK'
  BY IdleTyped, RequestsTyped, TypeParts DEF Reply

LEMMA WorkerTyped ==
    ASSUME TypeOK, NEW w \in Workers, ~Idle(w)
    PROVE  /\ Acc(w) \in Accounts
           /\ ForPrincipal(req[w].pc) => Prin(w) \in Principals
           /\ req[w].row \in AccountRow
           /\ req[w].row.status \in AccountStatus
           /\ req[w].id \in Nat
           /\ req[w].seen \in Nat
  BY TypeParts DEF RequestsOK, RequestOK, Request, Acc, Prin, ForPrincipal,
     Idle, AccountRow

-----------------------------------------------------------------------------

\* Steps of POST and DELETE /leases are well-typed.
LEMMA LeaseStepTyped ==
    ASSUME TypeOK, NEW w \in Workers, LeaseStep(w)
    PROVE  TypeOK'
<1>. USE TypeParts, TypePartsPrimed, TablesTyped, WorkerTyped
     DEF PCs, CreatePCs, DeletePCs, AccountPCs, ExpirePCs, ForPrincipal, messages, shown, ShownOK,
         BuildsOK, RestOK, At, Idle
<1>1. ASSUME NEW p \in Principals, CreateLease(w, p) PROVE TypeOK'
  <2>0. PICK a \in Accounts : \E row \in AccountReads(a) :
          BeginWithRow(w, "createLease", "create.lookup", a, p, row)
    BY <1>1 DEF CreateLease
  <2>1. PICK row \in AccountReads(a) :
          BeginWithRow(w, "createLease", "create.lookup", a, p, row)
    BY <2>0
  <2>2. RequestsOK'
    BY <2>1, BeginTyped, ReadsTyped
  <2>. QED  BY <1>1, <2>2 DEF CreateLease
<1>2. CASE LookupInactiveLease(w)
  <2>. DEFINE r(view, page) ==
                [req[w] EXCEPT !.pc = "create.check",
                   !.seen = IF Acc(w) \in page /\ view[Acc(w)].status = "Inactive"
                              THEN view[Acc(w)].lastMod ELSE 0]
  <2>0. PICK view \in LeaseViews(Prin(w)) :
          \E page \in FirstPages(view) : req' = [req EXCEPT ![w] = r(view, page)]
    BY <1>2 DEF LookupInactiveLease
  <2>1. view[Acc(w)] \in LeaseRow
    BY <1>2, <2>0, ReadsTyped DEF LookupInactiveLease
  <2>2. ASSUME NEW page PROVE RequestOK(r(view, page))
    <3>1. req[w] \in Request /\ RequestOK(req[w])
      BY DEF RequestsOK
    <3>2. view[Acc(w)].lastMod \in Nat
      BY <2>1 DEF LeaseRow
    <3>3. req[w].pc = "create.lookup"
      BY <1>2 DEF LookupInactiveLease, At
    <3>. QED  BY <3>1, <3>2, <3>3 DEF RequestOK, Request, PCs, CreatePCs
  <2>. HIDE DEF r
  <2>. QED  BY <1>2, <2>0, <2>2, RequestsTyped DEF LookupInactiveLease
<1>3. CASE CheckActiveLease(w)
  <2>1. Goto(w, "create.save") \/ Reply(w)
    BY <1>3 DEF CheckActiveLease
  <2>2. RequestsOK'
    BY <1>3, <2>1, GotoTyped, ReplyTyped DEF CheckActiveLease
  <2>. QED  BY <1>3, <2>2 DEF CheckActiveLease
<1>4. CASE SaveLease(w)
  <2>1. Goto(w, "create.publish") \/ Reply(w)
    BY <1>4 DEF SaveLease
  <2>2. RequestsOK'
    BY <1>4, <2>1, GotoTyped, ReplyTyped DEF SaveLease
  <2>3. TablesOK'
    BY <1>4 DEF SaveLease
  <2>. QED  BY <1>4, <2>2, <2>3 DEF SaveLease
<1>5. CASE PublishLeaseCreate(w)
  <2>1. RequestsOK'
    BY <1>5, GotoTyped DEF PublishLeaseCreate
  <2>. QED  BY <1>5, <2>1 DEF PublishLeaseCreate, tables
<1>6. CASE MarkLeased(w)
  BY <1>6, ReplyTyped DEF MarkLeased, AccountStatus
<1>7. ASSUME NEW a \in Accounts, NEW p \in Principals, DeleteLease(w, a, p)
      PROVE  TypeOK'
  <2>. DEFINE r(row) == [NoRequest EXCEPT !.pc = "delete.write", !.acc = a,
                           !.prin = p, !.id = row.id, !.seen = row.lastMod]
  <2>0. PICK row \in LeaseReads(a, p) : req' = [req EXCEPT ![w] = r(row)]
    BY <1>7 DEF DeleteLease
  <2>1. RequestOK(r(row))
    <3>1. row \in LeaseRow
      BY <2>0, ReadsTyped
    <3>2. NoRequest \in Request
      BY IdleTyped DEF RequestOK
    <3>. QED  BY <3>1, <3>2 DEF RequestOK, Request, LeaseRow
  <2>2. req' = [req EXCEPT ![w] = r(row)]
    BY <2>0
  <2>. HIDE DEF r
  <2>. QED  BY <1>7, <2>1, <2>2, RequestsTyped DEF DeleteLease
<1>8. CASE DestroyLease(w)
  BY <1>8, GotoTyped, ReplyTyped DEF DestroyLease
<1>9. CASE ResetGet(w)
  <2>. DEFINE r(row) == [req[w] EXCEPT !.pc = "reset.save", !.row = row]
  <2>1. CASE Reply(w)
    BY <1>9, <2>1, ReplyTyped DEF ResetGet
  <2>2. ASSUME NEW row \in AccountReads(Acc(w)), req' = [req EXCEPT ![w] = r(row)]
        PROVE  TypeOK'
    <3>1. row \in AccountRow
      BY <1>9, ReadsTyped DEF ResetGet
    <3>2. RequestOK(r(row))
      <4>1. req[w] \in Request /\ RequestOK(req[w]) /\ req[w].pc = "reset.get"
        BY <1>9 DEF ResetGet, RequestsOK, At
      <4>. QED  BY <3>1, <4>1 DEF RequestOK, Request, PCs, CreatePCs, ExpirePCs
    <3>. HIDE DEF r
    <3>. QED  BY <1>9, <2>2, <3>2, RequestsTyped DEF ResetGet
  <2>. QED  BY <1>9, <2>1, <2>2 DEF ResetGet
<1>10. CASE ResetSave(w)
  BY <1>10, GotoTyped, ReplyTyped DEF ResetSave, AccountStatus, ExpirePCs
<1>11. CASE ResetSend(w)
  BY <1>11, ReplyTyped DEF ResetSend, tables
<1>. QED
  BY <1>1, <1>2, <1>3, <1>4, <1>5, <1>6, <1>7, <1>8, <1>9, <1>10, <1>11 DEF LeaseStep

\* Steps of POST, PUT and DELETE /accounts and of the policy refresh are
\* well-typed.
LEMMA AccountStepTyped ==
    ASSUME TypeOK, NEW w \in Workers, AccountStep(w)
    PROVE  TypeOK'
<1>. USE TypeParts, TypePartsPrimed, TablesTyped, WorkerTyped
     DEF PCs, CreatePCs, DeletePCs, AccountPCs, ExpirePCs, ForPrincipal, messages,
         shown, ShownOK, BuildsOK, RestOK, At, Idle
<1>1. ASSUME NEW a \in Accounts, CreateAccount(w, a) PROVE TypeOK'
  <2>1. RequestsOK'
    BY <1>1, BeginTyped, IdleTyped DEF CreateAccount, RequestOK, Request
  <2>. QED  BY <1>1, <2>1 DEF CreateAccount
<1>2. CASE SaveNewAccount(w)
  <2>1. CASE Reply(w) /\ UNCHANGED tables
    BY <1>2, <2>1, ReplyTyped DEF SaveNewAccount
  <2>2. ASSUME NEW t \in Seconds,
               now' = t,
               account' = [account EXCEPT ![Acc(w)] = [status |-> "NotReady", lastMod |-> t]],
               req' = [req EXCEPT ![w] = [@ EXCEPT !.pc = "add.again",
                         !.row = [status |-> "NotReady", lastMod |-> t]]],
               UNCHANGED <<lease, issued>>
        PROVE  TypeOK'
    <3>. DEFINE r == [req[w] EXCEPT !.pc = "add.again",
                        !.row = [status |-> "NotReady", lastMod |-> t]]
    <3>1. PutAccount(Acc(w), "NotReady")
      BY <2>2 DEF PutAccount
    <3>2. RequestOK(r)
      <4>1. [status |-> "NotReady", lastMod |-> t] \in AccountRow
        BY DEF Seconds, TablesOK, AccountRow, AccountStatus
      <4>2. RequestOK(req[w]) /\ req[w].acc \in Accounts
        BY <1>2 DEF SaveNewAccount, RequestsOK, Acc
      <4>. QED  BY <4>1, <4>2 DEF RequestOK, Request
    <3>3. req' = [req EXCEPT ![w] = r]
      BY <2>2
    <3>. HIDE DEF r
    <3>4. RequestsOK'
      BY <3>2, <3>3, RequestsTyped
    <3>. QED  BY <1>2, <3>1, <3>4 DEF SaveNewAccount, AccountStatus
  <2>. QED  BY <1>2, <2>1, <2>2 DEF SaveNewAccount
<1>3. CASE SaveNewAccountAgain(w)
  <2>1. Goto(w, "reset.send") \/ Reply(w)
    BY <1>3 DEF SaveNewAccountAgain, SaveCopy
  <2>2. RequestsOK'
    BY <1>3, <2>1, GotoTyped, ReplyTyped DEF SaveNewAccountAgain, SaveCopy
  <2>. QED  BY <1>3, <2>2 DEF SaveNewAccountAgain, SaveCopy
<1>4. ASSUME NEW a \in Accounts, UpdateAccount(w, a) PROVE TypeOK'
  <2>1. PICK row \in AccountReads(a) :
          BeginWithRow(w, "updateAccount", "touch.save", a, None, row)
    BY <1>4 DEF UpdateAccount
  <2>2. RequestsOK'
    BY <2>1, BeginTyped, ReadsTyped
  <2>. QED  BY <1>4, <2>2 DEF UpdateAccount
<1>5. ASSUME NEW a \in Accounts, UpdatePrincipalPolicy(w, a) PROVE TypeOK'
  <2>1. PICK row \in AccountReads(a) :
          BeginWithRow(w, "updatePrincipalPolicy", "touch.save", a, None, row)
    BY <1>5 DEF UpdatePrincipalPolicy
  <2>2. RequestsOK'
    BY <2>1, BeginTyped, ReadsTyped
  <2>. QED  BY <1>5, <2>2 DEF UpdatePrincipalPolicy, Received, tables
<1>6. CASE SaveTouchedAccount(w)
  BY <1>6, ReplyTyped DEF SaveTouchedAccount, SaveCopy
<1>7. ASSUME NEW a \in Accounts, DeleteAccount(w, a) PROVE TypeOK'
  <2>1. RequestsOK'
    BY <1>7, BeginTyped, IdleTyped DEF DeleteAccount, RequestOK, Request
  <2>. QED  BY <1>7, <2>1 DEF DeleteAccount
<1>8. CASE RemoveAccount(w)
  BY <1>8, GotoTyped DEF RemoveAccount
<1>. QED
  BY <1>1, <1>2, <1>3, <1>4, <1>5, <1>6, <1>7, <1>8 DEF AccountStep

\* Steps of the budget and expiration check, and failures, are well-typed.
LEMMA ExpireStepTyped ==
    ASSUME TypeOK, NEW w \in Workers, ExpireStep(w) \/ Fail(w)
    PROVE  TypeOK'
<1>. USE TypeParts, TypePartsPrimed, TablesTyped, WorkerTyped
     DEF PCs, CreatePCs, DeletePCs, AccountPCs, ExpirePCs, ForPrincipal, messages,
         shown, ShownOK, BuildsOK, RestOK, At, Idle
<1>1. ASSUME NEW a \in Accounts, NEW p \in Principals, UpdateLeaseStatus(w, a, p)
      PROVE  TypeOK'
  <2>1. RequestsOK'
    BY <1>1, BeginTyped, IdleTyped DEF UpdateLeaseStatus, RequestOK, Request
  <2>. QED  BY <1>1, <2>1 DEF UpdateLeaseStatus, Received
<1>2. CASE ExpireLease(w)
  BY <1>2, GotoTyped DEF ExpireLease
<1>3. CASE ExpireAccount(w)
  <2>1. UNCHANGED tables \/ PutAccount(Acc(w), "NotReady")
    BY <1>3 DEF ExpireAccount, TransitionAccount
  <2>. QED  BY <1>3, <2>1, ReplyTyped DEF ExpireAccount, AccountStatus
<1>4. CASE Fail(w)
  BY <1>4, ReplyTyped DEF Fail
<1>. QED  BY <1>1, <1>2, <1>3, <1>4 DEF ExpireStep

\* Steps of the reset builds are well-typed.
LEMMA BuildStepTyped ==
    ASSUME TypeOK, NEW b \in Builders, BuildStep(b)
    PROVE  TypeOK'
<1>. USE TypeParts, TypePartsPrimed, TablesTyped, IdleTyped
     DEF messages, shown, ShownOK, RequestsOK, RestOK
<1>1. ASSUME NEW a \in Accounts, StartBuild(b, a) PROVE TypeOK'
  <2>1. BuildOK([phase |-> "nuke", acc |-> a])
    BY DEF BuildOK, Build
  <2>2. BuildsOK'
    BY <1>1, <2>1, BuildsTyped DEF StartBuild
  <2>. QED  BY <1>1, <2>2 DEF StartBuild, Received
<1>2. CASE Nuke(b)
  <2>. DEFINE r == [build[b] EXCEPT !.phase = "update"]
  <2>1. BuildOK(r) /\ build' = [build EXCEPT ![b] = r]
    BY <1>2 DEF Nuke, BuildsOK, BuildOK, Build
  <2>. HIDE DEF r
  <2>2. BuildsOK'
    BY <2>1, BuildsTyped
  <2>. QED  BY <1>2, <2>2 DEF Nuke
<1>3. CASE BuildFails(b)
  BY <1>3, BuildsTyped DEF BuildFails
<1>4. CASE FinishBuild(b)
  <2>1. UNCHANGED tables \/ PutAccount(build[b].acc, "Ready")
    BY <1>4 DEF FinishBuild, TransitionAccount
  <2>2. build[b].acc \in Accounts
    BY <1>4 DEF FinishBuild, BuildsOK, BuildOK
  <2>3. BuildsOK'
    BY <1>4, BuildsTyped DEF FinishBuild
  <2>. QED  BY <1>4, <2>1, <2>2, <2>3 DEF FinishBuild, AccountStatus
<1>. QED  BY <1>1, <1>2, <1>3, <1>4 DEF BuildStep

\* Events and uses of an account change the messages and what is dirty.
LEMMA EventStepTyped ==
    ASSUME TypeOK, NEW a \in Accounts, EventStep(a)
    PROVE  TypeOK' /\ UNCHANGED <<tables, shown, req, build>>
<1>1. UNCHANGED <<tables, shown, req, build>>
  BY DEF EventStep, IgnoreLeaseAdded, PopulateResetQueue, DeadLetter, FanOut,
         IgnoreLeaseStatus, UseAccount, messages
<1>2. RestOK'
  <2>. USE TypeParts DEF messages, RestOK
  <2>1. CASE IgnoreLeaseAdded(a) \/ PopulateResetQueue(a) \/ DeadLetter(a)
    BY <2>1 DEF IgnoreLeaseAdded, PopulateResetQueue, DeadLetter
  <2>2. ASSUME NEW p \in Principals,
               FanOut(a, p) \/ IgnoreLeaseStatus(a, p) \/ UseAccount(a, p)
        PROVE  RestOK'
    BY <2>2 DEF FanOut, IgnoreLeaseStatus, UseAccount
  <2>. QED  BY <2>1, <2>2 DEF EventStep
<1>. QED
  BY <1>1, <1>2, TypeParts, TypePartsPrimed, TablesTyped
     DEF shown, ShownOK, RequestsOK, BuildsOK

\* What lags behind catches up with rows.
LEMMA CatchUpTyped ==
    ASSUME TypeOK, NEW a \in Accounts, CatchUp(a)
    PROVE  TypeOK' /\ UNCHANGED <<tables, req, messages, build, dirty>>
<1>1. UNCHANGED <<tables, req, messages, build, dirty>>
  BY DEF CatchUp, AccountCatchesUp, LeaseCatchesUp
<1>2. ShownOK'
  <2>1. TablesOK /\ ShownOK
    BY TypeParts
  <2>2. CASE AccountCatchesUp(a)
    BY <2>1, <2>2 DEF AccountCatchesUp, TablesOK, ShownOK
  <2>3. ASSUME NEW p \in Principals, LeaseCatchesUp(a, p) PROVE ShownOK'
    BY <2>1, <2>3 DEF LeaseCatchesUp, TablesOK, ShownOK
  <2>. QED  BY <2>2, <2>3 DEF CatchUp
<1>. QED
  BY <1>1, <1>2, TypeParts, TypePartsPrimed, TablesTyped
     DEF messages, RequestsOK, BuildsOK, RestOK

LEMMA TypeInit == Init => TypeOK
<1>. SUFFICES ASSUME Init PROVE TypeOK
  OBVIOUS
<1>1. TablesOK
  BY DEF Init, TablesInit, TablesOK, AccountRow, AccountStatus, NoAccount,
         LeaseRow, LeaseStatus, LeaseReason, NoLease
<1>2. ShownOK
  BY <1>1 DEF Init, TablesInit, TablesOK, ShownOK, AccountRow, AccountStatus, NoAccount
<1>3. RequestsOK /\ BuildsOK /\ RestOK
  BY IdleTyped DEF Init, RequestsOK, RequestOK, BuildsOK, BuildOK, RestOK
<1>. QED  BY <1>1, <1>2, <1>3, TypeParts

LEMMA TypeNext == TypeOK /\ [Next]_vars => TypeOK'
<1>. SUFFICES ASSUME TypeOK, [Next]_vars PROVE TypeOK'
  OBVIOUS
<1>1. CASE UNCHANGED vars
  BY <1>1, TypeParts, TypePartsPrimed, TablesTyped
     DEF vars, shown, ShownOK, messages, RequestsOK, BuildsOK, RestOK
<1>2. CASE Next
  BY <1>2, LeaseStepTyped, AccountStepTyped, ExpireStepTyped, BuildStepTyped,
     EventStepTyped, CatchUpTyped DEF Next
<1>. QED  BY <1>1, <1>2

\* Whatever is lost, repeated, delayed or interleaved, the tables, messages and
\* handlers hold only what TypeOK says; in particular a handler that goes on
\* after a failed call still knows its account and its principal.
THEOREM TypeCorrect == Spec => []TypeOK
  BY TypeInit, TypeNext, PTL DEF Spec
=============================================================================
