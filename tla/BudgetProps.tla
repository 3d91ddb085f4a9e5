---------------------------- MODULE BudgetProps -----------------------------
(* What the budget check of BudgetCheck does and does not guarantee. *)
EXTENDS BudgetCheck

\* A check has added up what the lease has spent.
LeaseAdded(c) == c.pc \in {"principal", "expire", "mail"}

\* A check has let the lease go on.
GoesOn(c) == c.pc = "mail" /\ c.reason = "Active"

\* No lease is charged more than its account has cost since the day the lease
\* began, as of what is known now: whatever fails, overlaps, comes late or is
\* overwritten, the days are disjoint, today is not counted twice, and no other
\* account's cost is taken for this one's (calculateLeaseSpend).
SpendNotOverstated ==
    \A w \in Checkers : LeaseAdded(check[w]) /\ check[w].put =>
        check[w].spend <=
          bill[check[w].acc][check[w].day] - bill[check[w].acc][check[w].start - 1]

\* What checks have stored for a principal on an account of some days, and
\* between two days.
KnownOf(p, a, days) == MapThenSumSet(LAMBDA d : stored[p][a][d], days)
Known(p, a, s, e)   == KnownOf(p, a, s .. e)

\* A lease goes on only if what the checks of this principal and account have
\* seen it cost since its start is within its budget: that there is one record
\* for a principal and a day, that today's is not read back and that leases on
\* other accounts overwrite it does no harm to the budget of a lease.  A check
\* that could not store today's cost lets the lease go on (spend.go:68).
LeaseBudgetHolds ==
    \A w \in Checkers : LET c == check[w] IN
        GoesOn(c) /\ c.put => Known(c.prin, c.acc, c.start, c.day) <= Budget

\* No two checks of one principal are under way at once.
ChecksApart ==
    \A v, w \in Checkers :
        v # w /\ check[v].pc # "idle" /\ check[w].pc # "idle"
            => check[v].prin # check[w].prin

\* The principal's budget limits what it spends over all its leases of the
\* period, as far as the checks have seen it (docs/howto.md, "Budgets and Lease
\* Periods").
PrincipalBudgetHolds ==
    \A w \in Checkers : LET c == check[w] IN
        GoesOn(c) /\ c.put =>
          MapThenSumSet(LAMBDA a : Known(c.prin, a, PeriodStart(c.last), c.last),
                        Accounts) <= PrincipalBudget

\* What has been stored of a day is still there: no lease's cost was put in the
\* place of another's.
NothingLost(p, d) == \A a \in Accounts : stored[p][a][d] # 0 => usage[d][p].acc = a

\* The last day of which a check is sure to have read what was stored: a read of
\* today may be behind.
LastSure(c) == IF Lag THEN c.last - 1 ELSE c.last

\* The principal's budget does limit what the checks have seen it spend over all
\* its leases on the days of the period of which nothing was lost: whatever
\* accounts it has had, whatever failed, and although each check adds up the
\* records of the days anew (calculatePrincipalSpend).
PrincipalBudgetUnlessLost ==
    \A w \in Checkers : LET c == check[w] IN
        GoesOn(c) =>
          LET intact == {d \in PeriodStart(c.last) .. LastSure(c) : NothingLost(c.prin, d)}
          IN MapThenSumSet(LAMBDA a : KnownOf(c.prin, a, intact), Accounts) <= PrincipalBudget

\* A lease that is ended for a budget is told of in a mail, provided the
\* principal's budget is no smaller than the lease's: the thresholds of both
\* are taken of the lease's budget (sendBudgetNotificationEmail).
EndedIsTold ==
    \A w \in Checkers : LET c == check[w] IN
        /\ c.pc = "mail"
        /\ c.reason \in {"OverBudget", "OverPrincipalBudget"}
        /\ Budget <= PrincipalBudget
        => MailPercentile(c) > 0

\* The fan-out runs every few hours (SF, as the bound on invocations may hold it
\* up in the model); an invocation is taken up; no call fails
\* for ever.
Fairness ==
    /\ \A a \in Accounts, p \in Principals :
        /\ SF_vars(FanOut(a, p))
        /\ \A s \in Days : WF_vars(Discard(a, p, s))
                           /\ SF_vars(\E w \in Checkers : Begin(w, a, p, s))
    /\ \A w \in Checkers :
        /\ SF_vars(CalculateTotalSpend(w))
        /\ SF_vars(PutUsage(w))
        /\ \A d \in Days : /\ SF_vars(check[w].next = d /\ AddLeaseDay(w))
                           /\ SF_vars(check[w].next = d /\ AddPrincipalDay(w))
        /\ SF_vars(BeginPrincipalSpend(w))
        /\ SF_vars(Decide(w))
        /\ SF_vars(ExpireLease(w))
        /\ WF_vars(SendMail(w))

FairSpec == Spec /\ Fairness

\* A lease that has reached the day it expires on ends, although an error of
\* the cost query or the usage table stops the whole check, expiry included
\* (lambdaHandler).
ExpiredLeaseEnds ==
    \A a \in Accounts, p \in Principals :
        (Active(a, p) /\ day >= ExpiresOn(lease[a][p])) ~> ~Active(a, p)
=============================================================================
