----------------------------- MODULE PageSweep ------------------------------
(***************************************************************************)
(* The two scheduled sweeps over a status index: populate_reset_queue      *)
(* sends a reset message for every NotReady account, and                   *)
(* fan_out_update_lease_status invokes the budget check for every Active   *)
(* lease.  Both go through the ListPages of a service, which asks DynamoDB *)
(* for one page after another while other handlers move records in and     *)
(* out of the index.                                                       *)
(*                                                                         *)
(* A record is its place in the index, so that "after the last evaluated   *)
(* key" is an order on numbers.                                            *)
(***************************************************************************)
EXTENDS Naturals, FiniteSets

CONSTANTS
    Places,    \* places in the index; 0 is the nil start key
    PageSize,  \* LIMIT
    Sweep,     \* which of the two sweeps
    Faults     \* TRUE: an AWS call may fail

ASSUME SweepAssumption ==
    /\ Places \subseteq Nat \ {0}
    /\ PageSize \in Nat \ {0}
    /\ Sweep \in {"populateResetQueue", "fanOut"}
    /\ Faults \in BOOLEAN

VARIABLES
    listed,    \* records that have the status the sweep asks for
    pc,        \* where the lambda is
    next,      \* query.NextID, or query.NextAccountID and NextPrincipalID
    page,      \* records of the current page still to be handled
    sent,      \* records the sweep has sent a message for
    errs,      \* records whose message could not be sent
    stayed     \* records that have been listed ever since the sweep began

vars == <<listed, pc, next, page, sent, errs, stayed>>

TypeOK ==
    /\ listed \in SUBSET Places
    /\ pc \in {"idle", "list", "send", "done", "failed"}
    /\ next \in Places \cup {0}
    /\ page \in SUBSET Places
    /\ sent \in SUBSET Places
    /\ errs \in SUBSET Places
    /\ stayed \in SUBSET Places

Init ==
    /\ listed \in SUBSET Places
    /\ pc = "idle"
    /\ next = 0
    /\ page = {}
    /\ sent = {}
    /\ errs = {}
    /\ stayed = {}

-----------------------------------------------------------------------------

Running == pc \in {"list", "send"}

\* The schedule fires.
Start ==
    /\ ~Running
    /\ pc' = "list"
    /\ next' = 0
    /\ page' = {}
    /\ sent' = {}
    /\ errs' = {}
    /\ stayed' = listed
    /\ UNCHANGED listed

After(k) == {r \in listed : r > k}

\* Mutant: the page begins with the last record of the one before.
PagesFrom(k) ==
    {p \in SUBSET {r \in listed : r >= k} :
        /\ p = {r \in listed : r >= k} \/ Cardinality(p) = PageSize
        /\ Cardinality(p) <= PageSize
        /\ \A r \in p, q \in {s \in listed : s >= k} \ p : r < q}

\* What a query may return: the first records after the start key, a full
\* page or all there are.
PagesAfter(k) ==
    {p \in SUBSET After(k) :
        /\ p = After(k) \/ Cardinality(p) = PageSize
        /\ Cardinality(p) <= PageSize
        /\ \A r \in p, q \in After(k) \ p : r < q}

\* Mutant: the key to go on from is that of the record after the page.
ListPageAndNext ==
    /\ pc = "list"
    /\ \E p \in PagesAfter(next) :
        /\ page' = p
        /\ \/ p = After(next) /\ next' = 0
           \/ /\ Cardinality(p) = PageSize
              /\ next' \in {r + 1 : r \in {s \in p : \A q \in p : q <= s}}
    /\ pc' = "send"
    /\ UNCHANGED <<listed, sent, errs, stayed>>

\* A full page comes with its last record as the key to go on from; DynamoDB
\* may give it even when nothing is left.
ListPage ==
    /\ pc = "list"
    /\ \E p \in PagesAfter(next) :
        /\ page' = p
        /\ \/ p = After(next) /\ next' = 0
           \/ /\ Cardinality(p) = PageSize
              /\ next' \in {r \in p : \A q \in p : q <= r}
    /\ pc' = "send"
    /\ UNCHANGED <<listed, sent, errs, stayed>>

\* The query fails, so ListPages and the handler return its error; or the
\* lambda is killed.
Abort ==
    /\ Faults
    /\ Running
    /\ pc' = "failed"
    /\ UNCHANGED <<listed, next, page, sent, errs, stayed>>

First(p) == {r \in p : \A q \in p : r <= q}

\* eventSvc.AccountReset or lambda.Invoke for one record of the page.
Send(r) ==
    /\ pc = "send"
    /\ r \in First(page)
    /\ page' = page \ {r}
    /\ sent' = sent \cup {r}
    /\ UNCHANGED <<listed, pc, next, errs, stayed>>

\* Mutant: a failed send ends the page.
SendFailsReturns(r) ==
    /\ Faults
    /\ pc = "send"
    /\ r \in First(page)
    /\ page' = {}
    /\ errs' = errs \cup {r}
    /\ UNCHANGED <<listed, pc, next, sent, stayed>>

\* A failed send is remembered and the sweep goes on.
SendFails(r) ==
    /\ Faults
    /\ pc = "send"
    /\ r \in First(page)
    /\ page' = page \ {r}
    /\ errs' = errs \cup {r}
    /\ UNCHANGED <<listed, pc, next, sent, stayed>>

\* Mutant: the loop goes on for as long as the page was not empty.
MorePagesWhateverNext == Sweep = "populateResetQueue" /\ sent \cup errs # {}

\* account.Service.ListPages goes on while there is a NextID;
\* lease.Service.ListPages only if the query names a principal, which that of
\* the fan-out does not.
MorePages == Sweep = "populateResetQueue" /\ next # 0

NextPage ==
    /\ pc = "send"
    /\ page = {}
    /\ pc' = IF MorePages THEN "list" ELSE "done"
    /\ UNCHANGED <<listed, next, page, sent, errs, stayed>>

-----------------------------------------------------------------------------
(* Other handlers *)

Enter(r) ==
    /\ r \notin listed
    /\ listed' = listed \cup {r}
    /\ UNCHANGED <<pc, next, page, sent, errs, stayed>>

Leave(r) ==
    /\ r \in listed
    /\ listed' = listed \ {r}
    /\ stayed' = stayed \ {r}
    /\ UNCHANGED <<pc, next, page, sent, errs>>

-----------------------------------------------------------------------------

SweepStep ==
    \/ ListPage
    \/ \E r \in Places : Send(r) \/ SendFails(r)
    \/ NextPage

Next ==
    \/ Start
    \/ SweepStep
    \/ Abort
    \/ \E r \in Places : Enter(r) \/ Leave(r)

Spec == Init /\ [][Next]_vars

\* A lambda that has been started runs on.
FairSpec == Spec /\ WF_vars(SweepStep)

-----------------------------------------------------------------------------
(* Properties *)

\* Every record that had the status from the beginning of a sweep to its end
\* has been sent a message, or its failure has been recorded, whatever else
\* came and went while the sweep ran: populate_reset_queue forgets no account
\* that waits for its reset.
SweepComplete == pc = "done" => stayed \subseteq sent \cup errs

\* A sweep handles no record twice, not even one that leaves the index and
\* comes back: the start key only moves on.
HandledAtMostOnce ==
    [][pc = "send" /\ pc' = "send" =>
         \A r \in page \ page' : r \notin sent \cup errs]_vars

\* The places that pages to come may hold.
Ahead == {r \in Places : r > next /\ (pc = "list" \/ (pc = "send" /\ MorePages))}

\* A bound on the steps a sweep has left, whatever the index holds.
StepsLeft ==
    IF ~Running THEN 0
    ELSE 3 * Cardinality(Ahead) + Cardinality(page)
           + IF pc = "list" THEN 2 ELSE IF MorePages THEN 3 ELSE 1

\* Each of its steps brings a sweep nearer to its end, and no record that comes
\* or goes takes it further away: ListPages can neither go round in circles nor
\* be held up for ever by accounts that keep coming in.
SweepAdvances ==
    [][Running => /\ StepsLeft' <= StepsLeft
                  /\ SweepStep => StepsLeft' < StepsLeft]_vars

\* A sweep comes to an end, also while records keep coming in behind the ones
\* it has handled.
SweepEnds == Running ~> ~Running
=============================================================================
