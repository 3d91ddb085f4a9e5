----------------------------- MODULE UsageQuery -----------------------------
(***************************************************************************)
(* GetUsageByDateRange and GetUsageByPrincipal of pkg/usage: one query per *)
(* day of a range, while the budget checks of other leases put records for *)
(* today.  The spend of a lease and of a principal is the sum of what they *)
(* return.                                                                 *)
(*                                                                         *)
(* A record is <<day, user>>: the Usage table has one for a principal and  *)
(* a day.  DynamoDB answers a query in pages; the order of the users of a  *)
(* day is that of numbers, 0 stands for an empty LastEvaluatedKey.         *)
(***************************************************************************)
EXTENDS Naturals, FiniteSets

CONSTANTS
    Users,     \* principals
    Me,        \* the principal GetUsageByPrincipal asks for
    Today,     \* the last day that has records
    PageSize,  \* records of one answer (1 MB of them)
    Faults     \* TRUE: a query may fail

ASSUME UsageAssumption ==
    /\ Users \subseteq Nat \ {0}
    /\ Me \in Users
    /\ Today \in Nat \ {0}
    /\ PageSize \in Nat \ {0}
    /\ Faults \in BOOLEAN

Days == 1 .. Today

VARIABLES
    usage,   \* the records of the Usage table
    call,    \* the call being answered
    from,    \* usageStartDate: the day to ask for next
    to,      \* usageEndDate
    resp,    \* LastEvaluatedKey of the answer the loop looks at
    output,  \* how often each record has been collected (2: twice or more)
    before   \* the records there were when the call began

vars == <<usage, call, from, to, resp, output, before>>

Records == Days \X Users

Calls == {"none", "byDateRange", "byPrincipal", "paging", "returned", "failed"}

TypeOK ==
    /\ usage \in SUBSET Records
    /\ call \in Calls
    /\ from \in 1 .. Today + 1
    /\ to \in 0 .. Today
    /\ resp \in Users \cup {0}
    /\ output \in [Records -> 0 .. 2]
    /\ before \in SUBSET Records

Init ==
    /\ usage \in SUBSET Records
    /\ call = "none"
    /\ from = 1
    /\ to = 0
    /\ resp = 0
    /\ output = [r \in Records |-> 0]
    /\ before = {}

-----------------------------------------------------------------------------

Answered == call \in {"none", "returned", "failed"}

Collect(rs) ==
    output' = [r \in Records |->
                 IF r \in rs /\ output[r] < 2 THEN output[r] + 1 ELSE output[r]]

\* A range that ends before it begins has no usage: nil is returned.  The
\* spend of a lease asks for the days from its start to yesterday.
GetUsageByDateRange(s, e) ==
    /\ Answered
    /\ call' = IF e < s THEN "returned" ELSE "byDateRange"
    /\ from' = s
    /\ to' = e
    /\ resp' = 0
    /\ output' = [r \in Records |-> 0]
    /\ before' = {r \in usage : r[1] \in s .. e}
    /\ UNCHANGED usage

\* The end of the range is today.
GetUsageByPrincipal(s) ==
    /\ Answered
    /\ call' = "byPrincipal"
    /\ from' = s
    /\ to' = Today
    /\ resp' = 0
    /\ output' = [r \in Records |-> 0]
    /\ before' = {r \in usage : r[1] \in s .. Today /\ r[2] = Me}
    /\ UNCHANGED usage

\* What DynamoDB may answer to a query for day d after user k: the records rs
\* and the LastEvaluatedKey last.
Rest(d, k) == {r \in usage : r[1] = d /\ r[2] > k}

IsAnswer(d, k, rs, last) ==
    \/ last = 0 /\ rs = Rest(d, k) /\ Cardinality(rs) <= PageSize
    \/ /\ Cardinality(rs) = PageSize
       /\ <<d, last>> \in rs
       /\ \A r \in rs, q \in Rest(d, k) \ rs : r[2] <= last /\ last < q[2]

\* Mutant: the loop does not go on to the next day.
StepStays(then) ==
    /\ from' = from
    /\ call' = IF to < from + 1 THEN "returned" ELSE then

\* Mutant: the loop stops before the last day.
StepBefore(then) ==
    /\ from' = from + 1
    /\ call' = IF from + 1 < to THEN then ELSE "returned"

\* Mutant: the loop goes on to the day after the last.
StepPast(then) ==
    /\ from' = from + 1
    /\ call' = IF to < from THEN "returned" ELSE then

\* usageStartDate.AddDate(0, 0, 1), and on with the loop unless it is past
\* the end.
Step(then) ==
    /\ from' = from + 1
    /\ call' = IF to < from + 1 THEN "returned" ELSE then

\* The first query of a day.
QueryDay ==
    /\ call = "byDateRange"
    /\ \E rs \in SUBSET Rest(from, 0), last \in Users \cup {0} :
        /\ IsAnswer(from, 0, rs, last)
        /\ Collect(rs)
        /\ resp' = last
        /\ IF last # 0
             THEN call' = "paging" /\ UNCHANGED from
             ELSE Step("byDateRange")
    /\ UNCHANGED <<usage, to, before>>

\* The loop over the other pages of a day declares a resp of its own: what
\* the loop looks at, and asks to go on from, stays that of the first page.
QueryNextPage ==
    /\ call = "paging"
    /\ \E rs \in SUBSET Rest(from, resp), last \in Users \cup {0} :
        /\ IsAnswer(from, resp, rs, last)
        /\ Collect(rs)
    /\ UNCHANGED <<usage, call, from, to, resp, before>>

\* One GetItem a day.
GetDay ==
    /\ call = "byPrincipal"
    /\ Collect({r \in usage : r = <<from, Me>>})
    /\ Step("byPrincipal")
    /\ UNCHANGED <<usage, to, resp, before>>

QueryFails ==
    /\ Faults
    /\ ~Answered
    /\ call' = "failed"
    /\ UNCHANGED <<usage, from, to, resp, output, before>>

\* A budget check puts today's record of its principal, whether there is one
\* already or not.
PutUsage(u) ==
    /\ usage' = usage \cup {<<Today, u>>}
    /\ UNCHANGED <<call, from, to, resp, output, before>>

-----------------------------------------------------------------------------

ReadStep == QueryDay \/ QueryNextPage \/ GetDay

Next ==
    \/ \E s \in Days :
        \/ \E e \in 0 .. Today : GetUsageByDateRange(s, e)
        \/ GetUsageByPrincipal(s)
    \/ ReadStep
    \/ QueryFails
    \/ \E u \in Users : PutUsage(u)

Spec == Init /\ [][Next]_vars

\* A lambda that has called goes on with the call.
FairSpec == Spec /\ WF_vars(ReadStep)

-----------------------------------------------------------------------------
(* Properties *)

\* A call that returns has collected every record of its range that there was
\* when it began, and none twice: what the spend is the sum of
\* (update_lease_status/spend.go, leases/create.go).
QueryComplete ==
    call = "returned" =>
        /\ \A r \in before : output[r] = 1
        /\ \A r \in Records : output[r] <= 1

\* A day whose records fill an answer, so that it may have to be continued.
PageFull(d) == Cardinality({r \in usage : r[1] = d}) >= PageSize

\* A call passes one day of its range with every read, unless the day's records
\* fill an answer: nothing else, and no record put meanwhile, can hold up the
\* spend of a lease or a principal.
DaysPass ==
    [][ReadStep => \/ from' = from + 1 /\ from <= to
                   \/ from' = from /\ PageFull(from)]_vars

\* A call for a range of days is answered while every day's records fit into
\* one answer.  A day that has more is asked for again and again, as the loop
\* over its pages looks at the first answer only (GetUsageByDateRange).
QueryEnds == ~Answered ~> Answered \/ \E d \in Days : PageFull(d)
=============================================================================
