---------------------------- MODULE BudgetCheck -----------------------------
(***************************************************************************)
(* The budget and expiration check (update_lease_status): what a lease and *)
(* its principal have spent, from Cost Explorer for today and from the     *)
(* Usage table for the days before; the decision; the end of the lease;    *)
(* the mail.  The Usage table has one record for a principal and a day,    *)
(* which names one account.                                                *)
(*                                                                         *)
(* Time is counted in days.  LeasePool has the same handler with a free    *)
(* decision, and the account's side of the end of a lease.                 *)
(***************************************************************************)
EXTENDS Integers, FiniteSetsExt

CONSTANTS
    Accounts, Principals,
    Checkers,         \* concurrent executions of the check
    None,             \* no account
    LastDay,          \* bound: the last day
    MaxCost,          \* bound: what all accounts cost in all
    MaxInvoked,       \* bound: invocations in flight
    CostDelay,        \* days after which a day's cost is final
    Length,           \* days until a lease expires
    Period,           \* days of a principal's budget period
    Budget,           \* BudgetAmount of every lease
    PrincipalBudget,  \* PRINCIPAL_BUDGET_AMOUNT
    Percentiles,      \* BUDGET_NOTIFICATION_THRESHOLD_PERCENTILES
    Faults,           \* TRUE: an AWS call may fail or the lambda may die
    LateChecks,       \* TRUE: an invocation may outlast its lease
    Lag               \* TRUE: a query may miss the last write of today

ASSUME BudgetAssumption ==
    /\ None \notin Accounts /\ IsFiniteSet(Accounts)
    /\ LastDay \in Nat \ {0}
    /\ {MaxCost, MaxInvoked, CostDelay, Length, Budget, PrincipalBudget} \subseteq Nat
    /\ Period \in Nat \ {0}
    /\ Percentiles \subseteq Nat /\ IsFiniteSet(Percentiles)
    /\ {Faults, LateChecks, Lag} \subseteq BOOLEAN

Days == 1 .. LastDay

VARIABLES
    day,      \* today
    bill,     \* bill[a][d]: what account a has cost by the end of day d
    lease,    \* the active leases, as the day each began (0: not active)
    usage,    \* the Usage table
    stale,    \* today's records as they were before their last write
    invoked,  \* invocations in flight, with the lease as it was listed
    check,    \* what each execution is doing and has added up
    stored    \* the greatest cost put for a principal, an account and a day,
              \* since the principal last leased the account

env == <<day, bill>>
vars == <<env, lease, usage, stale, invoked, check, stored>>

Record == [acc : Accounts \cup {None}, cost : Nat]
NoUsage == [acc |-> None, cost |-> 0]

PCs == {"idle", "cost", "put", "lease", "principal", "expire", "mail"}
Reasons == {"Active", "Expired", "OverBudget", "OverPrincipalBudget"}

\* acc, prin, start: the lease as it was listed; day, today: the day and its
\* cost according to Cost Explorer; put: the cost has been stored; next, last:
\* the days to be read from the Usage table; spend, pspend: the sums so far.
Check == [pc : PCs, acc : Accounts \cup {None}, prin : Principals \cup {None},
          start : 0 .. LastDay, day : 0 .. LastDay, today : Nat, put : BOOLEAN,
          next : 0 .. LastDay + 1, last : 0 .. LastDay,
          spend : Nat, pspend : Nat, reason : Reasons]

NoCheck == [pc |-> "idle", acc |-> None, prin |-> None, start |-> 0, day |-> 0,
            today |-> 0, put |-> FALSE, next |-> 0, last |-> 0,
            spend |-> 0, pspend |-> 0, reason |-> "Active"]

TypeOK ==
    /\ day \in Days
    /\ bill \in [Accounts -> [0 .. LastDay -> Nat]]
    /\ lease \in [Accounts -> [Principals -> 0 .. LastDay]]
    /\ usage \in [Days -> [Principals -> Record]]
    /\ stale \in [Principals -> Record]
    /\ invoked \in SUBSET (Accounts \X Principals \X Days)
    /\ check \in [Checkers -> Check]
    /\ stored \in [Principals -> [Accounts -> [Days -> Nat]]]

Init ==
    /\ day = 1
    /\ bill = [a \in Accounts |-> [d \in 0 .. LastDay |-> 0]]
    /\ lease = [a \in Accounts |-> [p \in Principals |-> 0]]
    /\ usage = [d \in Days |-> [p \in Principals |-> NoUsage]]
    /\ stale = [p \in Principals |-> NoUsage]
    /\ invoked = {}
    /\ check = [w \in Checkers |-> NoCheck]
    /\ stored = [p \in Principals |-> [a \in Accounts |-> [d \in Days |-> 0]]]

-----------------------------------------------------------------------------

\* Mutant: the interval is given the wrong way round.
CostBackwards(a, d) == bill[a][d - 1] - bill[a][d]

\* What Cost Explorer says account a has cost on day d.
Cost(a, d) == bill[a][d] - bill[a][d - 1]

\* The first day of the principal's budget period that day d is in.
PeriodStart(d) == d - ((d - 1) % Period)

\* What all accounts cost; what the records of this period say of a principal.
TotalBill == MapThenSumSet(LAMBDA b : bill[b][LastDay], Accounts)
PrincipalSpent(p) ==
    MapThenSumSet(LAMBDA d : usage[d][p].cost, PeriodStart(day) .. day)

Active(a, p) == lease[a][p] # 0

Max2(m, n) == IF m > n THEN m ELSE n

-----------------------------------------------------------------------------
(* The world: days pass, accounts cost money, leases come and go *)

NextDay ==
    /\ day < LastDay
    /\ day' = day + 1
    /\ stale' = [p \in Principals |-> NoUsage]
    /\ UNCHANGED <<bill, lease, usage, invoked, check, stored>>

\* An account costs money, whoever holds it; the cost is known some time later.
Spend(a, d) ==
    /\ d <= day
    /\ day <= d + CostDelay
    /\ TotalBill < MaxCost
    /\ bill' = [bill EXCEPT ![a] =
                  [e \in 0 .. LastDay |-> IF e >= d THEN @[e] + 1 ELSE @[e]]]
    /\ UNCHANGED <<day, lease, usage, stale, invoked, check, stored>>

\* POST /leases refuses a principal whose records of the period are over the
\* budget; a principal has one active lease and an account one tenant.
CreateLease(a, p) ==
    /\ \A q \in Principals : ~Active(a, q)
    /\ \A b \in Accounts : ~Active(b, p)
    /\ PrincipalSpent(p) <= PrincipalBudget
    /\ lease' = [lease EXCEPT ![a][p] = day]
    /\ stored' = [stored EXCEPT ![p][a][day] = 0]
    /\ UNCHANGED <<env, usage, stale, invoked, check>>

DeleteLease(a, p) ==
    /\ Active(a, p)
    /\ lease' = [lease EXCEPT ![a][p] = 0]
    /\ UNCHANGED <<env, usage, stale, invoked, check, stored>>

FanOut(a, p) ==
    /\ Active(a, p)
    /\ Cardinality(invoked) < MaxInvoked
    /\ invoked' = invoked \cup {<<a, p, lease[a][p]>>}
    /\ UNCHANGED <<env, lease, usage, stale, check, stored>>

-----------------------------------------------------------------------------
(* The check *)

At(w, pc) == check[w].pc = pc
Done(w)   == check' = [check EXCEPT ![w] = NoCheck]

\* GetAccount, and the role in the account is assumed.
Begin(w, a, p, s) ==
    /\ At(w, "idle")
    /\ <<a, p, s>> \in invoked
    /\ LateChecks \/ lease[a][p] = s
    /\ invoked' = invoked \ {<<a, p, s>>}
    /\ check' = [check EXCEPT ![w] = [NoCheck EXCEPT !.pc = "cost", !.acc = a,
                                        !.prin = p, !.start = s]]
    /\ UNCHANGED <<env, lease, usage, stale, stored>>

\* Without late checks: the lease was ended before its invocation ran.
Discard(a, p, s) ==
    /\ ~LateChecks
    /\ <<a, p, s>> \in invoked
    /\ lease[a][p] # s
    /\ invoked' = invoked \ {<<a, p, s>>}
    /\ UNCHANGED <<env, lease, usage, stale, check, stored>>

\* CalculateTotalSpend of today.
CalculateTotalSpend(w) ==
    /\ At(w, "cost")
    /\ check' = [check EXCEPT ![w] = [@ EXCEPT !.pc = "put", !.day = day,
                                        !.today = Cost(check[w].acc, day)]]
    /\ UNCHANGED <<env, lease, usage, stale, invoked, stored>>

\* Mutant: a record that exists already is kept.
PutUsageOnce(w) ==
    LET c == check[w] IN
    /\ At(w, "put")
    /\ usage' = IF usage[c.day][c.prin] = NoUsage
                  THEN [usage EXCEPT ![c.day][c.prin] = [acc |-> c.acc, cost |-> c.today]]
                  ELSE usage
    /\ check' = [check EXCEPT ![w] = [@ EXCEPT !.pc = "lease", !.put = TRUE,
                                        !.next = c.start, !.spend = c.today]]
    /\ stored' = [stored EXCEPT ![c.prin][c.acc][c.day] = Max2(@, c.today)]
    /\ UNCHANGED <<env, lease, stale, invoked>>

\* The one record of the principal and the day is replaced, whatever account
\* it was for; the spend begins with the cost of today.
PutUsage(w) ==
    LET c == check[w] IN
    /\ At(w, "put")
    /\ usage' = [usage EXCEPT ![c.day][c.prin] = [acc |-> c.acc, cost |-> c.today]]
    /\ stale' = IF c.day = day
                  THEN [stale EXCEPT ![c.prin] = usage[day][c.prin]] ELSE stale
    /\ check' = [check EXCEPT ![w] = [@ EXCEPT !.pc = "lease", !.put = TRUE,
                                        !.next = c.start, !.spend = c.today]]
    /\ stored' = [stored EXCEPT ![c.prin][c.acc][c.day] = Max2(@, c.today)]
    /\ UNCHANGED <<env, lease, invoked>>

\* An error here is not an error: the spend of the lease is 0 and no day of it
\* is read.
PutUsageFails(w) ==
    /\ Faults
    /\ At(w, "put")
    /\ check' = [check EXCEPT ![w] = [@ EXCEPT !.pc = "lease", !.next = check[w].day]]
    /\ UNCHANGED <<env, lease, usage, stale, invoked, stored>>

\* What a query may find for a principal and a day.
Found(d, p) == {usage[d][p]} \cup IF Lag /\ d = day THEN {stale[p]} ELSE {}

\* Mutant: the days to be read end today.
AddLeaseDayToday(w) ==
    LET c == check[w] IN
    /\ At(w, "lease")
    /\ c.next <= c.day
    /\ \E r \in Found(c.next, c.prin) :
         check' = [check EXCEPT ![w] =
                     [c EXCEPT !.next = c.next + 1,
                        !.spend = c.spend + IF r.acc = c.acc THEN r.cost ELSE 0]]
    /\ UNCHANGED <<env, lease, usage, stale, invoked, stored>>

\* The lease's days from its start to yesterday, those of its account only.
AddLeaseDay(w) ==
    LET c == check[w] IN
    /\ At(w, "lease")
    /\ c.next < c.day
    /\ \E r \in Found(c.next, c.prin) :
         check' = [check EXCEPT ![w] =
                     [c EXCEPT !.next = c.next + 1,
                        !.spend = c.spend + IF r.acc = c.acc THEN r.cost ELSE 0]]
    /\ UNCHANGED <<env, lease, usage, stale, invoked, stored>>

\* calculatePrincipalSpend asks for the time again.
BeginPrincipalSpend(w) ==
    /\ At(w, "lease")
    /\ check[w].next >= check[w].day
    /\ check' = [check EXCEPT ![w] = [@ EXCEPT !.pc = "principal", !.last = day,
                                        !.next = PeriodStart(day)]]
    /\ UNCHANGED <<env, lease, usage, stale, invoked, stored>>

\* Mutant: as of the lease, the records of its account only.
AddPrincipalDayOfAccount(w) ==
    LET c == check[w] IN
    /\ At(w, "principal")
    /\ c.next <= c.last
    /\ \E r \in Found(c.next, c.prin) :
         check' = [check EXCEPT ![w] =
                     [c EXCEPT !.next = c.next + 1,
                        !.pspend = c.pspend + IF r.acc = c.acc THEN r.cost ELSE 0]]
    /\ UNCHANGED <<env, lease, usage, stale, invoked, stored>>

\* Every record of the principal counts, today's as the table has it.
AddPrincipalDay(w) ==
    LET c == check[w] IN
    /\ At(w, "principal")
    /\ c.next <= c.last
    /\ \E r \in Found(c.next, c.prin) :
         check' = [check EXCEPT ![w] = [c EXCEPT !.next = c.next + 1,
                                                 !.pspend = c.pspend + r.cost]]
    /\ UNCHANGED <<env, lease, usage, stale, invoked, stored>>

ExpiresOn(s) == s + Length

\* Mutant: a lease lives on through its last day.
ReasonLate(c) ==
    IF day > ExpiresOn(c.start) THEN "Expired"
    ELSE IF c.spend > Budget THEN "OverBudget"
    ELSE IF c.pspend > PrincipalBudget THEN "OverPrincipalBudget"
    ELSE "Active"

\* isLeaseExpired: the first reason that applies.
Reason(c) ==
    IF day >= ExpiresOn(c.start) THEN "Expired"
    ELSE IF c.spend > Budget THEN "OverBudget"
    ELSE IF c.pspend > PrincipalBudget THEN "OverPrincipalBudget"
    ELSE "Active"

Decide(w) ==
    /\ At(w, "principal")
    /\ check[w].next > check[w].last
    /\ LET reason == Reason(check[w]) IN
       check' = [check EXCEPT ![w] =
                   [@ EXCEPT !.reason = reason,
                      !.pc = IF reason = "Active" THEN "mail" ELSE "expire"]]
    /\ UNCHANGED <<env, lease, usage, stale, invoked, stored>>

\* TransitionLeaseStatus asks for an active lease only, not for the one that
\* was listed; when there is none the error is deferred and the mail sent.
ExpireLease(w) ==
    /\ At(w, "expire")
    /\ lease' = [lease EXCEPT ![check[w].acc][check[w].prin] = 0]
    /\ check' = [check EXCEPT ![w] = [@ EXCEPT !.pc = "mail"]]
    /\ UNCHANGED <<env, usage, stale, invoked, stored>>

ExpireLeaseFails(w) ==
    /\ Faults
    /\ At(w, "expire")
    /\ check' = [check EXCEPT ![w] = [@ EXCEPT !.pc = "mail"]]
    /\ UNCHANGED <<env, lease, usage, stale, invoked, stored>>

\* determineThresholdPercentile: the highest one reached (0: none).
Threshold(budget, spend) ==
    Max({0} \cup {t \in Percentiles : 100 * spend >= budget * t})

\* Mutant: what the principal has spent is left out.
MailPercentileOfLease(c) == Threshold(Budget, c.spend)

\* The mail tells of the lease's budget if that has reached a threshold, else
\* of what the principal has spent, measured by the lease's budget too.
MailPercentile(c) ==
    IF Threshold(Budget, c.spend) > 0
      THEN Threshold(Budget, c.spend)
      ELSE Threshold(Budget, c.pspend)

\* sendBudgetNotificationEmail; whether it arrives is nobody's concern.
SendMail(w) ==
    /\ At(w, "mail")
    /\ Done(w)
    /\ UNCHANGED <<env, lease, usage, stale, invoked, stored>>

\* An error ends the check (log.Fatalf); Lambda may invoke it again.
Fail(w) ==
    /\ Faults
    /\ ~At(w, "idle")
    /\ Done(w)
    /\ invoked' \in {invoked, invoked \cup
                       {<<check[w].acc, check[w].prin, check[w].start>>}}
    /\ UNCHANGED <<env, lease, usage, stale, stored>>

-----------------------------------------------------------------------------

CheckStep(w) ==
    \/ CalculateTotalSpend(w)
    \/ PutUsage(w) \/ PutUsageFails(w)
    \/ AddLeaseDay(w)
    \/ BeginPrincipalSpend(w) \/ AddPrincipalDay(w)
    \/ Decide(w)
    \/ ExpireLease(w) \/ ExpireLeaseFails(w)
    \/ SendMail(w)
    \/ Fail(w)

LeaseStep(a, p) ==
    \/ CreateLease(a, p)
    \/ DeleteLease(a, p)
    \/ FanOut(a, p)
    \/ \E s \in Days : Discard(a, p, s) \/ \E w \in Checkers : Begin(w, a, p, s)

Next ==
    \/ NextDay
    \/ \E a \in Accounts, d \in Days : Spend(a, d)
    \/ \E a \in Accounts, p \in Principals : LeaseStep(a, p)
    \/ \E w \in Checkers : CheckStep(w)

Spec == Init /\ [][Next]_vars
=============================================================================
