----------------------------- MODULE LeasePool ------------------------------
(***************************************************************************)
(* The control plane of DCE: the API handlers (leases, accounts) and the   *)
(* asynchronous lambdas (update_lease_status, update_principal_policy,     *)
(* populate_reset_queue, process_reset_queue) and CodeBuild reset builds   *)
(* that share the Accounts and Leases tables.                              *)
(*                                                                         *)
(* A handler is a sequence of calls to AWS; each call that reads or writes *)
(* shared state is one action, and the calls of different handlers         *)
(* interleave.  What a handler has read so far is in req[w].               *)
(***************************************************************************)
EXTENDS PoolTables

CONSTANTS
    Workers,       \* concurrent executions of API and event lambdas
    Builders,      \* concurrent CodeBuild runs
    Handlers,      \* the handlers the environment invokes
    Faults,        \* TRUE: an AWS call may fail or a lambda may die
    AtLeastOnce,   \* TRUE: queues and events may deliver more than once
    NukeEnabled,   \* RESET_NUKE_TOGGLE
    None           \* no account, no principal

HandlerNames == {"createLease", "deleteLease", "createAccount",
                 "updateAccount", "deleteAccount", "updatePrincipalPolicy",
                 "updateLeaseStatus", "populateResetQueue", "leaseAuth"}

ASSUME PoolAssumption ==
    /\ Handlers \subseteq HandlerNames
    /\ Faults \in BOOLEAN
    /\ AtLeastOnce \in BOOLEAN
    /\ NukeEnabled \in BOOLEAN
    /\ None \notin Accounts \cup Principals

VARIABLES
    req,       \* what each worker is doing and has read
    queue,     \* accounts with a message in the account-reset SQS queue
    granted,   \* accounts with a lease-added notification in flight
    invoked,   \* leases with an update_lease_status invocation in flight
    build,     \* what each CodeBuild run is doing
    dirty      \* accounts holding resources made since they were last nuked

messages == <<queue, granted, invoked>>
vars == <<tables, shown, req, messages, build, dirty>>

-----------------------------------------------------------------------------

\* Where a worker stands: the call it makes next.
CreatePCs  == {"create.lookup", "create.check", "create.save",
               "create.publish", "create.mark"}
DeletePCs  == {"delete.write", "reset.get", "reset.save", "reset.send"}
AccountPCs == {"add.save", "add.again", "touch.save", "remove.delete"}
ExpirePCs  == {"expire.lease", "expire.account"}
PCs == {"idle"} \cup CreatePCs \cup DeletePCs \cup AccountPCs \cup ExpirePCs

\* acc, prin: the account and the principal worked on; row: the copy of the
\* account record the handler will write back; id: the lease it is ending;
\* seen: the LastModifiedOn of the lease record it read (0: none).
Request == [pc : PCs, acc : Accounts \cup {None}, prin : Principals \cup {None},
            row : AccountRow, id : Nat, seen : Nat]
Build   == [phase : {"idle", "nuke", "update"}, acc : Accounts \cup {None}]

NoRequest == [pc |-> "idle", acc |-> None, prin |-> None,
              row |-> NoAccount, id |-> 0, seen |-> 0]
NoBuild   == [phase |-> "idle", acc |-> None]

TypeOK ==
    /\ account \in [Accounts -> AccountRow]
    /\ lease \in [Accounts -> [Principals -> LeaseRow]]
    /\ now \in Nat
    /\ issued \in Nat
    /\ req \in [Workers -> Request]
    /\ queue \in SUBSET Accounts
    /\ granted \in SUBSET Accounts
    /\ invoked \in SUBSET (Accounts \X Principals)
    /\ build \in [Builders -> Build]
    /\ dirty \in SUBSET Accounts
    /\ shownAccount \in [Accounts -> AccountRow]
    /\ shownLease \in [Accounts -> [Principals -> LeaseRow]]
    /\ \A w \in Workers :
        /\ req[w].pc # "idle" => req[w].acc \in Accounts
        /\ req[w].pc \in CreatePCs \cup ExpirePCs \cup {"delete.write"}
              => req[w].prin \in Principals
    /\ \A b \in Builders : build[b].phase # "idle" => build[b].acc \in Accounts

Init ==
    /\ TablesInit
    /\ req = [w \in Workers |-> NoRequest]
    /\ queue = {}
    /\ granted = {}
    /\ invoked = {}
    /\ build = [b \in Builders |-> NoBuild]
    /\ dirty = {}

-----------------------------------------------------------------------------

Idle(w)     == req[w].pc = "idle"
At(w, pc)   == req[w].pc = pc
Acc(w)      == req[w].acc
Prin(w)     == req[w].prin

Goto(w, pc) == req' = [req EXCEPT ![w] = [@ EXCEPT !.pc = pc]]
Reply(w)    == req' = [req EXCEPT ![w] = NoRequest]

\* A worker picks up a call or an event.
Begin(w, handler, pc, a, p) ==
    /\ handler \in Handlers
    /\ Idle(w)
    /\ req' = [req EXCEPT ![w] = [NoRequest EXCEPT !.pc = pc, !.acc = a, !.prin = p]]

\* A worker picks up a call on account a and begins by reading its record.
BeginWithRow(w, handler, pc, a, p, row) ==
    /\ handler \in Handlers
    /\ Idle(w)
    /\ req' = [req EXCEPT ![w] = [NoRequest EXCEPT !.pc = pc, !.acc = a,
                                  !.prin = p, !.row = row]]

\* What is left in flight of a set of messages once m has been received:
\* nothing of it, or, under at-least-once delivery, another copy.
Received(set, m) == {set \ {m}} \cup IF AtLeastOnce THEN {set} ELSE {}

-----------------------------------------------------------------------------
(* POST /leases *)

\* List the Ready accounts and take the first; the order within a partition
\* of the AccountStatus index is DynamoDB's.
CreateLease(w, p) ==
    \E a \in Accounts : \E row \in AccountReads(a) :
        /\ row.status = "Ready"
        /\ BeginWithRow(w, "createLease", "create.lookup", a, p, row)
        /\ UNCHANGED <<tables, messages, build, dirty, shown>>

\* Find the principal's earlier, inactive lease on this account and take its
\* LastModifiedOn as the one to write over.
LookupInactiveLease(w) ==
    /\ At(w, "create.lookup")
    /\ \E view \in LeaseViews(Prin(w)) : \E page \in FirstPages(view) :
         req' = [req EXCEPT ![w] = [@ EXCEPT !.pc = "create.check",
                   !.seen = IF Acc(w) \in page /\ view[Acc(w)].status = "Inactive"
                              THEN view[Acc(w)].lastMod ELSE 0]]
    /\ UNCHANGED <<tables, messages, build, dirty, shown>>

\* A principal with an active lease gets no other.
CheckActiveLease(w) ==
    /\ At(w, "create.check")
    /\ \E view \in LeaseViews(Prin(w)) : \E page \in FirstPages(view) :
         IF \E a \in page : view[a].status = "Active"
           THEN Reply(w)
           ELSE Goto(w, "create.save")
    /\ UNCHANGED <<tables, messages, build, dirty, shown>>

SaveLease(w) ==
    /\ At(w, "create.save")
    /\ \/ /\ LeaseUnchanged(Acc(w), Prin(w), req[w].seen)
          /\ PutNewLease(Acc(w), Prin(w))
          /\ Goto(w, "create.publish")
       \/ /\ ~LeaseUnchanged(Acc(w), Prin(w), req[w].seen)
          /\ Reply(w)
          /\ UNCHANGED tables
    /\ UNCHANGED <<messages, build, dirty, shown>>

PublishLeaseCreate(w) ==
    /\ At(w, "create.publish")
    /\ granted' = granted \cup {Acc(w)}
    /\ Goto(w, "create.mark")
    /\ UNCHANGED <<tables, queue, invoked, build, dirty, shown>>

\* Mutant: the save is checked against the record just read again.
MarkLeasedWhateverListed(w) ==
    /\ At(w, "create.mark")
    /\ InPool(Acc(w))
    /\ PutAccount(Acc(w), "Leased")
    /\ Reply(w)
    /\ UNCHANGED <<messages, build, dirty, shown>>

\* AccountService.Update merges the record that was listed, its old
\* LastModifiedOn included, over a fresh read and saves the result; so what
\* is written, and the condition, are those of the listed record.  The fresh
\* read only has to find the account.
MarkLeased(w) ==
    /\ At(w, "create.mark")
    /\ \/ /\ AccountUnchanged(Acc(w), req[w].row.lastMod)
          /\ PutAccount(Acc(w), "Leased")
       \/ /\ \/ ~AccountUnchanged(Acc(w), req[w].row.lastMod)
             \/ \E row \in AccountReads(Acc(w)) : row.status = "Absent"
          /\ UNCHANGED tables
    /\ Reply(w)
    /\ UNCHANGED <<messages, build, dirty, shown>>

-----------------------------------------------------------------------------
(* DELETE /leases and DELETE /leases/{id} *)

DeleteLease(w, a, p) ==
    /\ "deleteLease" \in Handlers
    /\ Idle(w)
    /\ \E row \in LeaseReads(a, p) :
         /\ row.status = "Active"
         /\ req' = [req EXCEPT ![w] =
                      [NoRequest EXCEPT !.pc = "delete.write", !.acc = a, !.prin = p,
                         !.id = row.id, !.seen = row.lastMod]]
    /\ UNCHANGED <<tables, messages, build, dirty, shown>>

\* Mutant: the write asks for an Active lease, not for the one that was read.
DestroyLeaseIfActive(w) ==
    /\ At(w, "delete.write")
    /\ Active(Acc(w), Prin(w))
    /\ PutDestroyedLease(Acc(w), Prin(w), req[w].id, req[w].seen)
    /\ Goto(w, "reset.get")
    /\ UNCHANGED <<messages, build, dirty, shown>>

\* The record goes back with the LastModifiedOn it was read with.
DestroyLease(w) ==
    /\ At(w, "delete.write")
    /\ \/ /\ LeaseUnchanged(Acc(w), Prin(w), req[w].seen)
          /\ PutDestroyedLease(Acc(w), Prin(w), req[w].id, req[w].seen)
          /\ Goto(w, "reset.get")
       \/ /\ ~LeaseUnchanged(Acc(w), Prin(w), req[w].seen)
          /\ Reply(w)
          /\ UNCHANGED tables
    /\ UNCHANGED <<messages, build, dirty, shown>>

\* account.Service.Reset: read the account ...
ResetGet(w) ==
    /\ At(w, "reset.get")
    /\ \E row \in AccountReads(Acc(w)) :
         IF row.status # "Absent"
           THEN req' = [req EXCEPT ![w] = [@ EXCEPT !.pc = "reset.save", !.row = row]]
           ELSE Reply(w)
    /\ UNCHANGED <<tables, messages, build, dirty, shown>>

\* Mutant: the record is saved as it was read ("It will not change the
\* status", says the comment on Reset).
ResetSaveAsRead(w) ==
    /\ At(w, "reset.save")
    /\ AccountUnchanged(Acc(w), req[w].row.lastMod)
    /\ PutAccount(Acc(w), req[w].row.status)
    /\ Goto(w, "reset.send")
    /\ UNCHANGED <<messages, build, dirty, shown>>

\* ... force it to NotReady whatever its status was ...
ResetSave(w) ==
    /\ At(w, "reset.save")
    /\ \/ /\ AccountUnchanged(Acc(w), req[w].row.lastMod)
          /\ PutAccount(Acc(w), "NotReady")
          /\ Goto(w, "reset.send")
       \/ /\ ~AccountUnchanged(Acc(w), req[w].row.lastMod)
          /\ Reply(w)
          /\ UNCHANGED tables
    /\ UNCHANGED <<messages, build, dirty, shown>>

\* ... and ask for a reset.
ResetSend(w) ==
    /\ At(w, "reset.send")
    /\ queue' = queue \cup {Acc(w)}
    /\ Reply(w)
    /\ UNCHANGED <<tables, granted, invoked, build, dirty, shown>>

-----------------------------------------------------------------------------
(* POST, PUT and DELETE /accounts, and the policy refresh *)

CreateAccount(w, a) ==
    /\ \E row \in AccountReads(a) : row.status = "Absent"
    /\ Begin(w, "createAccount", "add.save", a, None)
    /\ UNCHANGED <<tables, messages, build, dirty, shown>>

\* The first save is made by UpsertPrincipalAccess, which has set the policy
\* hash of the new record.
SaveNewAccount(w) ==
    /\ At(w, "add.save")
    /\ \/ \E t \in Seconds :
            /\ AccountUnchanged(Acc(w), req[w].row.lastMod)
            /\ now' = t
            /\ LET new == [status |-> "NotReady", lastMod |-> t] IN
               /\ account' = [account EXCEPT ![Acc(w)] = new]
               /\ req' = [req EXCEPT ![w] = [@ EXCEPT !.pc = "add.again", !.row = new]]
            /\ UNCHANGED <<lease, issued>>
       \/ /\ ~AccountUnchanged(Acc(w), req[w].row.lastMod)
          /\ Reply(w)
          /\ UNCHANGED tables
    /\ UNCHANGED <<messages, build, dirty, shown>>

\* Save the record held in req[w] again, under the LastModifiedOn it has.
SaveCopy(w, pc, next) ==
    /\ At(w, pc)
    /\ \/ /\ AccountUnchanged(Acc(w), req[w].row.lastMod)
          /\ PutAccount(Acc(w), req[w].row.status)
          /\ next
       \/ /\ ~AccountUnchanged(Acc(w), req[w].row.lastMod)
          /\ Reply(w)
          /\ UNCHANGED tables
    /\ UNCHANGED <<messages, build, dirty, shown>>

SaveNewAccountAgain(w) == SaveCopy(w, "add.again", Goto(w, "reset.send"))

\* PUT /accounts changes the role and the metadata only.
UpdateAccount(w, a) ==
    /\ \E row \in AccountReads(a) :
         /\ row.status # "Absent"
         /\ BeginWithRow(w, "updateAccount", "touch.save", a, None, row)
    /\ UNCHANGED <<tables, messages, build, dirty, shown>>

\* A lease was added: read the account; the policy hash has changed, so the
\* whole record is going to be saved.
UpdatePrincipalPolicy(w, a) ==
    /\ a \in granted
    /\ \E row \in AccountReads(a) :
         /\ row.status # "Absent"
         /\ BeginWithRow(w, "updatePrincipalPolicy", "touch.save", a, None, row)
    /\ granted' \in Received(granted, a)
    /\ UNCHANGED <<tables, queue, invoked, build, dirty, shown>>

SaveTouchedAccount(w) == SaveCopy(w, "touch.save", Reply(w))

\* The hash matches, or the account cannot be read any more.
IgnoreLeaseAdded(a) ==
    /\ a \in granted
    /\ granted' = granted \ {a}
    /\ UNCHANGED <<tables, req, queue, invoked, build, dirty, shown>>

\* Mutant: a Leased account may be removed.
DeleteAccountAnyway(w, a) ==
    /\ \E row \in AccountReads(a) : row.status # "Absent"
    /\ Begin(w, "deleteAccount", "remove.delete", a, None)
    /\ UNCHANGED <<tables, messages, build, dirty, shown>>

\* The record is checked not to be Leased when it is read ...
DeleteAccount(w, a) ==
    /\ \E row \in AccountReads(a) : row.status \notin {"Absent", "Leased"}
    /\ Begin(w, "deleteAccount", "remove.delete", a, None)
    /\ UNCHANGED <<tables, messages, build, dirty, shown>>

\* ... and deleted without a condition; then access is removed and the
\* account queued for a last reset.
RemoveAccount(w) ==
    /\ At(w, "remove.delete")
    /\ DeleteAccountRow(Acc(w))
    /\ Goto(w, "reset.send")
    /\ UNCHANGED <<messages, build, dirty, shown>>

-----------------------------------------------------------------------------
(* The budget and expiration check *)

\* fan_out_update_lease_status invokes the check asynchronously for a lease it
\* listed as Active.
FanOut(a, p) ==
    /\ "updateLeaseStatus" \in Handlers
    /\ \E row \in LeaseReads(a, p) : row.status = "Active"
    /\ invoked' = invoked \cup {<<a, p>>}
    /\ UNCHANGED <<tables, req, queue, granted, build, dirty, shown>>

\* The invocation runs, some time later, on the lease as it was listed, and
\* finds it expired or over a budget.
UpdateLeaseStatus(w, a, p) ==
    /\ <<a, p>> \in invoked
    /\ \E row \in AccountReads(a) : row.status # "Absent"
    /\ Begin(w, "updateLeaseStatus", "expire.lease", a, p)
    /\ invoked' \in Received(invoked, <<a, p>>)
    /\ UNCHANGED <<tables, queue, granted, build, dirty, shown>>

\* Neither expired nor over budget, or the account does not exist.
IgnoreLeaseStatus(a, p) ==
    /\ <<a, p>> \in invoked
    /\ invoked' = invoked \ {<<a, p>>}
    /\ UNCHANGED <<tables, req, queue, granted, build, dirty, shown>>

\* A failed transition, for whatever reason, is remembered as an error and the
\* handler goes on to the account.
ExpireLease(w) ==
    /\ At(w, "expire.lease")
    /\ \/ /\ Active(Acc(w), Prin(w))
          /\ ExpireLeaseRow(Acc(w), Prin(w))
       \/ /\ Faults \/ ~Active(Acc(w), Prin(w))
          /\ UNCHANGED tables
    /\ Goto(w, "expire.account")
    /\ UNCHANGED <<messages, build, dirty, shown>>

ExpireAccount(w) ==
    /\ At(w, "expire.account")
    /\ \/ TransitionAccount(Acc(w), "Leased", "NotReady")
       \/ /\ account[Acc(w)].status # "Leased"
          /\ UNCHANGED tables
    /\ Reply(w)
    /\ UNCHANGED <<messages, build, dirty, shown>>

-----------------------------------------------------------------------------
(* Failures *)

\* An AWS call returns an error or the lambda dies; nothing is undone.
Fail(w) ==
    /\ Faults
    /\ ~Idle(w)
    /\ Reply(w)
    /\ UNCHANGED <<tables, messages, build, dirty, shown>>

-----------------------------------------------------------------------------
(* Resets *)

\* Mutant: the sweep lists the accounts of another status.
PopulateReady(a) ==
    /\ "populateResetQueue" \in Handlers
    /\ \E row \in AccountReads(a) : row.status = "Ready"
    /\ queue' = queue \cup {a}
    /\ UNCHANGED <<tables, req, granted, invoked, build, dirty, shown>>

\* The six-hourly sweep sends a message for an account it listed as NotReady.
PopulateResetQueue(a) ==
    /\ "populateResetQueue" \in Handlers
    /\ \E row \in AccountReads(a) : row.status = "NotReady"
    /\ queue' = queue \cup {a}
    /\ UNCHANGED <<tables, req, granted, invoked, build, dirty, shown>>

\* Mutant: the build is started without the RESET_ACCOUNT variable.
StartBuildOfNothing(b, a) ==
    /\ a \in queue
    /\ build[b].phase = "idle"
    /\ build' = [build EXCEPT ![b].phase = "nuke"]
    /\ queue' \in Received(queue, a)
    /\ UNCHANGED <<tables, req, granted, invoked, dirty, shown>>

\* Mutant: the message stays in the queue after the build was started.
StartBuildAgain(b, a) ==
    /\ a \in queue
    /\ build[b].phase = "idle"
    /\ build' = [build EXCEPT ![b] = [phase |-> "nuke", acc |-> a]]
    /\ UNCHANGED <<tables, req, messages, dirty, shown>>

\* process_reset_queue starts a build for whatever account a message names.
StartBuild(b, a) ==
    /\ a \in queue
    /\ build[b].phase = "idle"
    /\ build' = [build EXCEPT ![b] = [phase |-> "nuke", acc |-> a]]
    /\ queue' \in Received(queue, a)
    /\ UNCHANGED <<tables, req, granted, invoked, dirty, shown>>

\* After too many receives the message goes to the dead-letter queue.
DeadLetter(a) ==
    /\ Faults
    /\ a \in queue
    /\ queue' = queue \ {a}
    /\ UNCHANGED <<tables, req, granted, invoked, build, dirty, shown>>

\* Mutant: an error of the nuke is not passed on.
NukeIgnoringErrors(b) ==
    /\ build[b].phase = "nuke"
    /\ dirty' \in {dirty, dirty \ {build[b].acc}}
    /\ build' = [build EXCEPT ![b].phase = "update"]
    /\ UNCHANGED <<tables, req, messages, shown>>

\* nukeAccount returned without an error; with the toggle off it is not called.
Nuke(b) ==
    /\ build[b].phase = "nuke"
    /\ dirty' = IF NukeEnabled THEN dirty \ {build[b].acc} ELSE dirty
    /\ build' = [build EXCEPT ![b].phase = "update"]
    /\ UNCHANGED <<tables, req, messages, shown>>

\* All attempts failed, or the build was killed or timed out.
BuildFails(b) ==
    /\ Faults
    /\ build[b].phase # "idle"
    /\ build' = [build EXCEPT ![b] = NoBuild]
    /\ UNCHANGED <<tables, req, messages, dirty, shown>>

\* updateDBPostReset: a transition error is ignored.
FinishBuild(b) ==
    /\ build[b].phase = "update"
    /\ \/ TransitionAccount(build[b].acc, "NotReady", "Ready")
       \/ /\ account[build[b].acc].status # "NotReady"
          /\ UNCHANGED tables
    /\ build' = [build EXCEPT ![b] = NoBuild]
    /\ UNCHANGED <<req, messages, dirty, shown>>

-----------------------------------------------------------------------------

\* The principal of an active lease logs in and creates resources;
\* lease_auth asks for nothing but the lease to be Active.
UseAccount(a, p) ==
    /\ "leaseAuth" \in Handlers
    /\ \E row \in LeaseReads(a, p) : row.status = "Active"
    /\ dirty' = dirty \cup {a}
    /\ UNCHANGED <<tables, req, messages, build, shown>>

-----------------------------------------------------------------------------

LeaseStep(w) ==
    \/ \E p \in Principals : CreateLease(w, p)
    \/ LookupInactiveLease(w)
    \/ CheckActiveLease(w)
    \/ SaveLease(w)
    \/ PublishLeaseCreate(w)
    \/ MarkLeased(w)
    \/ \E a \in Accounts, p \in Principals : DeleteLease(w, a, p)
    \/ DestroyLease(w)
    \/ ResetGet(w)
    \/ ResetSave(w)
    \/ ResetSend(w)

AccountStep(w) ==
    \/ \E a \in Accounts : CreateAccount(w, a)
    \/ SaveNewAccount(w)
    \/ SaveNewAccountAgain(w)
    \/ \E a \in Accounts : UpdateAccount(w, a)
    \/ \E a \in Accounts : UpdatePrincipalPolicy(w, a)
    \/ SaveTouchedAccount(w)
    \/ \E a \in Accounts : DeleteAccount(w, a)
    \/ RemoveAccount(w)

ExpireStep(w) ==
    \/ \E a \in Accounts, p \in Principals : UpdateLeaseStatus(w, a, p)
    \/ ExpireLease(w)
    \/ ExpireAccount(w)

BuildStep(b) ==
    \/ \E a \in Accounts : StartBuild(b, a)
    \/ Nuke(b)
    \/ BuildFails(b)
    \/ FinishBuild(b)

EventStep(a) ==
    \/ IgnoreLeaseAdded(a)
    \/ PopulateResetQueue(a)
    \/ DeadLetter(a)
    \/ \E p \in Principals : FanOut(a, p) \/ IgnoreLeaseStatus(a, p) \/ UseAccount(a, p)

CatchUp(a) ==
    /\ \/ AccountCatchesUp(a)
       \/ \E p \in Principals : LeaseCatchesUp(a, p)
    /\ UNCHANGED <<req, messages, build, dirty>>

Next ==
    \/ \E w \in Workers : LeaseStep(w) \/ AccountStep(w) \/ ExpireStep(w) \/ Fail(w)
    \/ \E b \in Builders : BuildStep(b)
    \/ \E a \in Accounts : EventStep(a) \/ CatchUp(a)

Spec == Init /\ [][Next]_vars
=============================================================================
