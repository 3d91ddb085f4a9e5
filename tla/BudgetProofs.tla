---------------------------- MODULE BudgetProofs ----------------------------
(***************************************************************************)
(* Theorems about BudgetCheck, for any accounts, principals, executions,   *)
(* days and budgets, with every failure, overlap and delay the             *)
(* specification has, unless a theorem says otherwise.                     *)
(*                                                                         *)
(* SpendNotOverstated: bills only grow, so a record never says more than   *)
(* its account's bill for that day (UsageWithinBill); a check that has     *)
(* read the days before c.next has added up no more than the bill of those *)
(* days and of today (CheckWithinBill).                                    *)
(*                                                                         *)
(* EndedIsTold: the sums a decision was taken from are still those the     *)
(* mail is written from (ReasonsHold).                                     *)
(*                                                                         *)
(* LeaseBudgetHolds: what was stored of an active lease's days is still in *)
(* the table, under the name of its account (LeaseRecorded), and a check   *)
(* has added up no less than was stored of the days it has read (Covered). *)
(*                                                                         *)
(* PrincipalBudgetHolds, if no record is taken over by another account's:  *)
(* what was stored of any account is in the table (RecordsCover), and a    *)
(* check has added up no less than the records it has read (Counted).      *)
(***************************************************************************)
EXTENDS BudgetProps, FiniteSetTheorems, TLAPS

\* A lease began on a day that has come.
LeasesBegun ==
    /\ \A a \in Accounts, p \in Principals : lease[a][p] <= day
    /\ \A a \in Accounts, p \in Principals, s \in Days :
          <<a, p, s>> \in invoked => s <= day

\* What an account has cost by the end of a day includes the days before.
BillGrows ==
    \A a \in Accounts : \A d, e \in 0 .. LastDay : d <= e => bill[a][d] <= bill[a][e]

\* A record says no more than its account has cost on its day.
UsageWithinBill ==
    \A d \in Days, p \in Principals :
        usage[d][p].acc # None => usage[d][p].cost <= Cost(usage[d][p].acc, d)

\* What a check has read of a lease so far.
WithinBill(c) ==
    /\ c.pc # "idle" => c.acc \in Accounts /\ c.prin \in Principals /\ c.start \in 1 .. day
    /\ c.pc \in {"put", "lease", "principal", "expire", "mail"}
          => /\ c.day \in c.start .. day
             /\ c.today <= Cost(c.acc, c.day)
    /\ c.pc \in {"cost", "put"} => ~c.put
    /\ c.pc = "principal" => c.next \in 1 .. LastDay + 1
    /\ c.pc = "lease" =>
          /\ c.next \in c.start .. c.day
          /\ c.put => c.spend <= Cost(c.acc, c.day)
                                   + (bill[c.acc][c.next - 1] - bill[c.acc][c.start - 1])
    /\ LeaseAdded(c) /\ c.put =>
          c.spend <= bill[c.acc][c.day] - bill[c.acc][c.start - 1]

CheckWithinBill == \A w \in Checkers : WithinBill(check[w])

IInv ==
    /\ TypeOK
    /\ LeasesBegun
    /\ BillGrows
    /\ UsageWithinBill
    /\ CheckWithinBill

\* What an account has cost between two days is not taken back.
SpansGrow ==
    \A b \in Accounts : \A x, y \in 0 .. LastDay :
        x <= y => bill[b][y] - bill[b][x] <= bill'[b][y] - bill'[b][x]

-----------------------------------------------------------------------------

\* The numbers among the constants.
LEMMA Numbers == /\ LastDay \in Nat /\ 1 <= LastDay
                 /\ Period \in Nat /\ 1 <= Period
<1> QED  BY BudgetAssumption

\* A period begins no later than any day in it.
LEMMA PeriodStartInDays ==
    ASSUME NEW d \in Days
    PROVE  PeriodStart(d) \in 1 .. d
<1>1. (d - 1) % Period \in 0 .. (Period - 1)  BY Numbers, SMT DEF Days
<1>2. d - 1 < Period => (d - 1) % Period = d - 1  BY Numbers, SMT DEF Days
<1> QED  BY <1>1, <1>2, Numbers, SMT DEF PeriodStart, Days

\* The invariant holds when the system is first used.
LEMMA InitInv == Init => IInv
<1> SUFFICES ASSUME Init PROVE IInv  OBVIOUS
<1>1. TypeOK
  BY Numbers DEF Init, TypeOK, Days, NoUsage, Record, NoCheck, Check, PCs, Reasons
<1>2. LeasesBegun  BY Numbers DEF Init, LeasesBegun, Days
<1>3. BillGrows  BY DEF Init, BillGrows
<1>4. UsageWithinBill  BY DEF Init, UsageWithinBill, NoUsage
<1>5. CheckWithinBill
  BY DEF Init, CheckWithinBill, WithinBill, NoCheck, LeaseAdded
<1> QED  BY <1>1, <1>2, <1>3, <1>4, <1>5 DEF IInv

\* Costs that become known only add to what was spent between two days.
LEMMA SpendGrows ==
    ASSUME TypeOK, BillGrows, NEW a \in Accounts, NEW d \in Days, Spend(a, d)
    PROVE  bill' \in [Accounts -> [0 .. LastDay -> Nat]] /\ SpansGrow
<1>0. bill \in [Accounts -> [0 .. LastDay -> Nat]]  BY DEF TypeOK
<1>1. bill' = [bill EXCEPT ![a] = [e \in 0 .. LastDay |->
                   IF e >= d THEN bill[a][e] + 1 ELSE bill[a][e]]]
  BY <1>0 DEF Spend
<1>2. ASSUME NEW e \in 0 .. LastDay
      PROVE  bill[a][e] \in Nat /\ bill[a][e] + 1 \in Nat
  <2>1. bill[a][e] \in Nat  BY <1>0
  <2> QED  BY <2>1
<1>3. [e \in 0 .. LastDay |-> IF e >= d THEN bill[a][e] + 1 ELSE bill[a][e]]
        \in [0 .. LastDay -> Nat]
  BY <1>2
<1>4. bill' \in [Accounts -> [0 .. LastDay -> Nat]]  BY <1>0, <1>1, <1>3
<1>5. ASSUME NEW b \in Accounts, NEW x \in 0 .. LastDay, NEW y \in 0 .. LastDay, x <= y
      PROVE  bill[b][y] - bill[b][x] <= bill'[b][y] - bill'[b][x]
  <2>1. bill[b][x] \in Nat /\ bill[b][y] \in Nat  BY <1>0
  <2>2. CASE b # a  BY <1>0, <1>1, <2>1, <2>2
  <2>3. CASE b = a
    <3>1. /\ bill'[a][x] = IF x >= d THEN bill[a][x] + 1 ELSE bill[a][x]
          /\ bill'[a][y] = IF y >= d THEN bill[a][y] + 1 ELSE bill[a][y]
      BY <1>1 DEF TypeOK
    <3> QED  BY <2>1, <2>3, <3>1, <1>5 DEF Days
  <2> QED  BY <2>2, <2>3
<1> QED  BY <1>4, <1>5 DEF SpansGrow

\* The part of WithinBill that speaks of the world survives what only makes
\* the day later and the bill longer.
LEMMA WorldMoves ==
    ASSUME IInv, TypeOK', SpansGrow, day <= day',
           UNCHANGED <<lease, usage, invoked, check>>
    PROVE  LeasesBegun' /\ BillGrows' /\ UsageWithinBill' /\ CheckWithinBill'
<1>0. \A a \in Accounts : \A d \in 0 .. LastDay : bill[a][d] \in Nat /\ bill'[a][d] \in Nat
  <2>1. bill \in [Accounts -> [0 .. LastDay -> Nat]]  BY DEF IInv, TypeOK
  <2>2. bill' \in [Accounts -> [0 .. LastDay -> Nat]]  BY DEF TypeOK
  <2> QED  BY <2>1, <2>2
<1>1. LeasesBegun'
  <2>1. \A a \in Accounts, p \in Principals : lease[a][p] \in Nat  BY DEF IInv, TypeOK
  <2>2. day \in Nat /\ day' \in Nat  BY Numbers DEF IInv, TypeOK, Days
  <2>3. \A a \in Accounts, p \in Principals : lease[a][p] <= day'
    BY <2>1, <2>2 DEF IInv, LeasesBegun
  <2>4. \A a \in Accounts, p \in Principals, s \in Days :
          <<a, p, s>> \in invoked => s <= day'
    BY <2>2, Numbers DEF IInv, LeasesBegun, Days
  <2> QED  BY <2>3, <2>4 DEF LeasesBegun
<1>2. BillGrows'
  <2> SUFFICES ASSUME NEW a \in Accounts, NEW d \in 0 .. LastDay, NEW e \in 0 .. LastDay,
                      d <= e
               PROVE  bill'[a][d] <= bill'[a][e]
    BY DEF BillGrows
  <2>1. bill[a][e] - bill[a][d] <= bill'[a][e] - bill'[a][d]  BY DEF SpansGrow
  <2>2. bill[a][d] <= bill[a][e]  BY DEF IInv, BillGrows
  <2>3. /\ bill[a][d] \in Nat /\ bill[a][e] \in Nat
        /\ bill'[a][d] \in Nat /\ bill'[a][e] \in Nat
    BY <1>0
  <2> QED  BY <2>1, <2>2, <2>3
<1>3. \A a \in Accounts, d \in Days : /\ Cost(a, d) \in Int /\ Cost(a, d)' \in Int
                                      /\ Cost(a, d) <= Cost(a, d)'
  <2> SUFFICES ASSUME NEW a \in Accounts, NEW d \in Days
               PROVE  /\ Cost(a, d) \in Int /\ Cost(a, d)' \in Int
                      /\ Cost(a, d) <= Cost(a, d)'
    OBVIOUS
  <2>1. d \in 0 .. LastDay /\ d - 1 \in 0 .. LastDay /\ d - 1 <= d  BY Numbers DEF Days
  <2>3. bill[a][d] - bill[a][d - 1] <= bill'[a][d] - bill'[a][d - 1]  BY <2>1 DEF SpansGrow
  <2>2. /\ bill[a][d] \in Nat /\ bill[a][d - 1] \in Nat
        /\ bill'[a][d] \in Nat /\ bill'[a][d - 1] \in Nat
    BY <1>0, <2>1
  <2> QED  BY <2>2, <2>3 DEF Cost
<1>4. UsageWithinBill'
  <2> SUFFICES ASSUME NEW d \in Days, NEW p \in Principals, usage[d][p].acc # None
               PROVE  usage[d][p].cost <= Cost(usage[d][p].acc, d)'
    BY DEF UsageWithinBill
  <2>1. usage[d][p] \in Record  BY DEF IInv, TypeOK
  <2>2. usage[d][p].acc \in Accounts /\ usage[d][p].cost \in Nat  BY <2>1 DEF Record
  <2>3. usage[d][p].cost <= Cost(usage[d][p].acc, d)  BY DEF IInv, UsageWithinBill
  <2>4. Cost(usage[d][p].acc, d)' = bill'[usage[d][p].acc][d] - bill'[usage[d][p].acc][d - 1]
    BY DEF Cost
  <2>5. \A a \in Accounts : usage[d][p].cost <= Cost(a, d) => usage[d][p].cost <= Cost(a, d)'
    BY <1>3, <2>2
  <2>6. \A a \in Accounts : usage[d][p].cost <= Cost(a, d)
                   => usage[d][p].cost <= bill'[a][d] - bill'[a][d - 1]
    BY <2>5 DEF Cost
  <2> QED  BY <2>2, <2>3, <2>4, <2>6
<1>5. CheckWithinBill'
  <2> SUFFICES ASSUME NEW w \in Checkers PROVE WithinBill(check[w])'
    BY DEF CheckWithinBill
  <2> DEFINE c == check[w]
  <2>1. c \in Check /\ WithinBill(c) /\ check' = check
    BY DEF IInv, TypeOK, CheckWithinBill
  <2>2. c.pc # "idle" => c.acc \in Accounts /\ c.prin \in Principals /\ c.start \in 1 .. day'
    BY <2>1, Numbers DEF WithinBill, IInv, TypeOK, Days
  <2>3. ASSUME c.pc \in {"put", "lease", "principal", "expire", "mail"}
        PROVE  /\ c.day \in c.start .. day' /\ c.day \in Days
               /\ c.today <= bill'[c.acc][c.day] - bill'[c.acc][c.day - 1]
    <3>1. c.acc \in Accounts /\ c.start \in 1 .. day /\ c.day \in c.start .. day /\ day \in Days
      BY <2>1, <2>3 DEF WithinBill, IInv, TypeOK
    <3>2. c.day \in Days  BY <3>1, Numbers DEF Days
    <3>3. c.today \in Nat  BY <2>1 DEF Check
    <3>4. c.today <= Cost(c.acc, c.day)  BY <2>1, <2>3 DEF WithinBill
    <3>5. Cost(c.acc, c.day) <= bill'[c.acc][c.day] - bill'[c.acc][c.day - 1]
      BY <1>3, <3>1, <3>2 DEF Cost
    <3>6. Cost(c.acc, c.day) \in Int /\ bill'[c.acc][c.day] - bill'[c.acc][c.day - 1] \in Int
      BY <1>3, <3>1, <3>2 DEF Cost
    <3>7. c.day \in c.start .. day'  BY <3>1, Numbers DEF IInv, TypeOK, Days
    <3>8. c.today <= bill'[c.acc][c.day] - bill'[c.acc][c.day - 1]
      <4> HIDE DEF c
      <4> QED  BY <3>3, <3>4, <3>5, <3>6
    <3> QED  BY <3>2, <3>7, <3>8
  <2>4. ASSUME c.pc = "lease", c.put
        PROVE  c.spend <= (bill'[c.acc][c.day] - bill'[c.acc][c.day - 1])
                            + (bill'[c.acc][c.next - 1] - bill'[c.acc][c.start - 1])
    <3>0. day \in Days /\ bill \in [Accounts -> [0 .. LastDay -> Nat]]
      BY DEF IInv, TypeOK
    <3>1. /\ c.acc \in Accounts /\ c.start \in 1 .. day /\ c.day \in c.start .. day
          /\ c.next \in c.start .. c.day /\ day \in Days
          /\ c.spend <= Cost(c.acc, c.day)
                          + (bill[c.acc][c.next - 1] - bill[c.acc][c.start - 1])
      BY <2>1, <2>4, <3>0 DEF WithinBill
    <3>2. /\ c.day \in 0 .. LastDay /\ c.day - 1 \in 0 .. LastDay /\ c.day - 1 <= c.day
          /\ c.next - 1 \in 0 .. LastDay /\ c.start - 1 \in 0 .. LastDay
          /\ c.start - 1 <= c.next - 1
      BY <3>1, Numbers DEF Days
    <3>3. bill[c.acc][c.day] - bill[c.acc][c.day - 1]
            <= bill'[c.acc][c.day] - bill'[c.acc][c.day - 1]
      BY <3>1, <3>2 DEF SpansGrow
    <3>4. bill[c.acc][c.next - 1] - bill[c.acc][c.start - 1]
            <= bill'[c.acc][c.next - 1] - bill'[c.acc][c.start - 1]
      BY <3>1, <3>2 DEF SpansGrow
    <3>5. \A x \in 0 .. LastDay : bill[c.acc][x] \in Nat /\ bill'[c.acc][x] \in Nat
      BY <1>0, <3>1
    <3>6. c.spend \in Nat  BY <2>1 DEF Check
    <3>7. c.spend <= (bill[c.acc][c.day] - bill[c.acc][c.day - 1])
                       + (bill[c.acc][c.next - 1] - bill[c.acc][c.start - 1])
      BY <3>1 DEF Cost
    <3>8. /\ bill[c.acc][c.day] \in Nat /\ bill[c.acc][c.day - 1] \in Nat
          /\ bill'[c.acc][c.day] \in Nat /\ bill'[c.acc][c.day - 1] \in Nat
          /\ bill[c.acc][c.next - 1] \in Nat /\ bill[c.acc][c.start - 1] \in Nat
          /\ bill'[c.acc][c.next - 1] \in Nat /\ bill'[c.acc][c.start - 1] \in Nat
      BY <3>2, <3>5
    <3> HIDE DEF c
    <3> QED  BY <3>3, <3>4, <3>6, <3>7, <3>8
  <2>5. ASSUME LeaseAdded(c), c.put
        PROVE  c.spend <= bill'[c.acc][c.day] - bill'[c.acc][c.start - 1]
    <3>1. /\ c.acc \in Accounts /\ c.start \in 1 .. day /\ c.day \in c.start .. day
          /\ day \in Days
          /\ c.spend <= bill[c.acc][c.day] - bill[c.acc][c.start - 1]
      BY <2>1, <2>5 DEF WithinBill, LeaseAdded, IInv, TypeOK
    <3>2. c.day \in 0 .. LastDay /\ c.start - 1 \in 0 .. LastDay /\ c.start - 1 <= c.day
      BY <3>1, Numbers DEF Days
    <3>3. bill[c.acc][c.day] - bill[c.acc][c.start - 1]
            <= bill'[c.acc][c.day] - bill'[c.acc][c.start - 1]
      BY <3>1, <3>2 DEF SpansGrow
    <3>4. \A x \in 0 .. LastDay : bill[c.acc][x] \in Nat /\ bill'[c.acc][x] \in Nat
      BY <1>0, <3>1
    <3>5. c.spend \in Nat  BY <2>1 DEF Check
    <3> HIDE DEF c
    <3> QED  BY <3>1, <3>2, <3>3, <3>4, <3>5
  <2>6. c.pc = "lease" => c.next \in c.start .. c.day  BY <2>1 DEF WithinBill
  <2>7. check'[w] = c  BY <2>1
  <2>8. /\ c.pc \in {"cost", "put"} => ~c.put
        /\ c.pc = "principal" => c.next \in 1 .. LastDay + 1
    BY <2>1 DEF WithinBill
  <2> HIDE DEF c
  <2> QED  BY <2>2, <2>3, <2>4, <2>5, <2>6, <2>7, <2>8 DEF WithinBill, LeaseAdded, Cost
<1> QED  BY <1>1, <1>2, <1>4, <1>5

\* A step of one execution that leaves the world alone need only be looked at
\* for its own record.
LEMMA CheckMoves ==
    ASSUME IInv, NEW w \in Checkers, NEW r \in Check, WithinBill(r),
           check' = [check EXCEPT ![w] = r], UNCHANGED env
    PROVE  check' \in [Checkers -> Check] /\ CheckWithinBill'
<1>1. check \in [Checkers -> Check]  BY DEF IInv, TypeOK
<1>2. ASSUME NEW v \in Checkers PROVE WithinBill(check[v])'
  <2>1. WithinBill(check'[v])
    <3>1. CASE v = w  BY <1>1, <3>1
    <3>2. CASE v # w  BY <1>1, <3>2 DEF IInv, CheckWithinBill
    <3> QED  BY <3>1, <3>2
  <2>2. bill' = bill /\ day' = day  BY DEF env
  <2> HIDE DEF WithinBill
  <2> QED  BY <2>1, <2>2 DEF WithinBill, Cost, LeaseAdded
<1> QED  BY <1>1, <1>2 DEF CheckWithinBill

\* What is known of an execution.
LEMMA CheckFacts ==
    ASSUME IInv, NEW w \in Checkers
    PROVE  check[w] \in Check /\ WithinBill(check[w]) /\ day \in Days
BY DEF IInv, TypeOK, CheckWithinBill

\* A day's cost is what the bill grew by.
LEMMA CostIsNat ==
    ASSUME IInv, NEW a \in Accounts, NEW d \in Days
    PROVE  /\ Cost(a, d) \in Nat
           /\ d \in 0 .. LastDay /\ d - 1 \in 0 .. LastDay
           /\ bill[a][d] \in Nat /\ bill[a][d - 1] \in Nat
<1>1. d \in 0 .. LastDay /\ d - 1 \in 0 .. LastDay /\ d - 1 <= d  BY Numbers DEF Days
<1>2. bill[a][d - 1] <= bill[a][d]  BY <1>1 DEF IInv, BillGrows
<1>3. bill[a][d] \in Nat /\ bill[a][d - 1] \in Nat  BY <1>1 DEF IInv, TypeOK
<1> QED  BY <1>1, <1>2, <1>3 DEF Cost

\* The rest of the invariant, when only the record of an execution changes.
LEMMA OnlyCheckMoves ==
    ASSUME IInv, NEW w \in Checkers, NEW r \in Check, WithinBill(r),
           check' = [check EXCEPT ![w] = r],
           UNCHANGED <<env, lease, usage, stale, invoked, stored>>
    PROVE  IInv'
<1>1. check' \in [Checkers -> Check] /\ CheckWithinBill'  BY CheckMoves DEF env
<1>2. TypeOK'  BY <1>1 DEF IInv, TypeOK, env
<1>3. LeasesBegun' /\ BillGrows' /\ UsageWithinBill'
  BY DEF IInv, LeasesBegun, BillGrows, UsageWithinBill, Cost, env
<1> QED  BY <1>1, <1>2, <1>3 DEF IInv

-----------------------------------------------------------------------------

LEMMA CalculateTotalSpendInv ==
    ASSUME IInv, NEW w \in Checkers, CalculateTotalSpend(w)
    PROVE  IInv'
<1> DEFINE c == check[w]
           r == [c EXCEPT !.pc = "put", !.day = day, !.today = Cost(c.acc, day)]
<1>1. c \in Check /\ WithinBill(c) /\ day \in Days /\ c.pc = "cost"
  BY CheckFacts DEF CalculateTotalSpend, At
<1>2. c.acc \in Accounts /\ c.prin \in Principals /\ c.start \in 1 .. day /\ ~c.put
  BY <1>1 DEF WithinBill
<1>3. Cost(c.acc, day) \in Nat /\ day \in 0 .. LastDay  BY <1>1, <1>2, CostIsNat
<1>4. r \in Check  BY <1>1, <1>3 DEF Check, PCs
<1>5. /\ r.pc = "put" /\ r.acc = c.acc /\ r.prin = c.prin /\ r.start = c.start
      /\ r.day = day /\ r.today = Cost(c.acc, day) /\ r.put = c.put
  BY <1>1 DEF Check
<1>6. WithinBill(r)
  <2> HIDE DEF r, c
  <2>1. day \in c.start .. day  BY <1>1, <1>2, Numbers DEF Days
  <2> QED  BY <1>2, <1>3, <1>5, <2>1 DEF WithinBill, LeaseAdded
<1>7. check' = [check EXCEPT ![w] = r]
  BY DEF CalculateTotalSpend
<1> HIDE DEF r
<1> QED  BY <1>4, <1>6, <1>7, OnlyCheckMoves DEF CalculateTotalSpend

LEMMA PutUsageInv ==
    ASSUME IInv, NEW w \in Checkers, PutUsage(w)
    PROVE  IInv'
<1> DEFINE c == check[w]
           u == [acc |-> c.acc, cost |-> c.today]
           r == [c EXCEPT !.pc = "lease", !.put = TRUE, !.next = c.start, !.spend = c.today]
<1>1. c \in Check /\ WithinBill(c) /\ day \in Days /\ c.pc = "put"
  BY CheckFacts DEF PutUsage, At
<1>2. /\ c.acc \in Accounts /\ c.prin \in Principals /\ c.start \in 1 .. day
      /\ c.day \in c.start .. day /\ c.today <= Cost(c.acc, c.day)
  BY <1>1 DEF WithinBill
<1>3. c.today \in Nat /\ c.start \in 0 .. LastDay  BY <1>1 DEF Check
<1>4. c.day \in Days /\ c.start \in Days  BY <1>1, <1>2, Numbers DEF Days
<1>5. r \in Check
  <2>1. c.start \in 0 .. LastDay + 1  BY <1>3, Numbers
  <2> QED  BY <1>1, <1>3, <2>1 DEF Check, PCs
<1>6. /\ r.pc = "lease" /\ r.acc = c.acc /\ r.prin = c.prin /\ r.start = c.start
      /\ r.day = c.day /\ r.today = c.today /\ r.put /\ r.next = c.start
      /\ r.spend = c.today
  BY <1>1 DEF Check
<1>7. WithinBill(r)
  <2>1. c.start \in c.start .. c.day  BY <1>2, <1>4, Numbers DEF Days
  <2>2. Cost(c.acc, c.day) \in Nat /\ bill[c.acc][c.start - 1] \in Nat
    BY <1>2, <1>4, CostIsNat
  <2>3. c.today <= Cost(c.acc, c.day)
                     + (bill[c.acc][c.start - 1] - bill[c.acc][c.start - 1])
    <3> HIDE DEF c
    <3> QED  BY <1>2, <1>3, <2>2
  <2> HIDE DEF r, c
  <2> QED  BY <1>2, <1>6, <2>1, <2>3 DEF WithinBill, LeaseAdded
<1>8. check' = [check EXCEPT ![w] = r]  BY DEF PutUsage
<1>9. u \in Record /\ u.acc = c.acc /\ u.cost = c.today  BY <1>2, <1>3 DEF Record
<1>10. /\ usage' = [usage EXCEPT ![c.day][c.prin] = u]
       /\ usage' \in [Days -> [Principals -> Record]]
  <2>1. usage' = [usage EXCEPT ![c.day][c.prin] = u]  BY DEF PutUsage
  <2>2. usage \in [Days -> [Principals -> Record]] /\ u \in Record
    BY <1>9 DEF IInv, TypeOK
  <2>3. [usage[c.day] EXCEPT ![c.prin] = u] \in [Principals -> Record]
    <3>1. usage[c.day] \in [Principals -> Record]  BY <1>4, <2>2
    <3> HIDE DEF u, c
    <3> QED  BY <1>2, <2>2, <3>1
  <2> HIDE DEF u, c
  <2> QED  BY <1>2, <1>4, <2>1, <2>2, <2>3
<1>11. stale' \in [Principals -> Record]
  <2>1. usage[day][c.prin] \in Record  BY <1>1, <1>2 DEF IInv, TypeOK
  <2> QED  BY <2>1, <1>2 DEF PutUsage, IInv, TypeOK
<1>12. stored' \in [Principals -> [Accounts -> [Days -> Nat]]]
  <2> DEFINE x == stored[c.prin][c.acc][c.day]
  <2>1. x \in Nat  BY <1>2, <1>4 DEF IInv, TypeOK
  <2>2. Max2(x, c.today) \in Nat  BY <2>1, <1>3 DEF Max2
  <2>3. stored' = [stored EXCEPT ![c.prin][c.acc][c.day] = Max2(x, c.today)]
    BY DEF PutUsage
  <2> DEFINE m == Max2(x, c.today)
  <2>4. m \in Nat /\ stored' = [stored EXCEPT ![c.prin][c.acc][c.day] = m]
    BY <2>2, <2>3
  <2> HIDE DEF m, x
  <2> QED  BY <1>2, <1>4, <2>4 DEF IInv, TypeOK
<1>13. UNCHANGED <<day, bill, lease, invoked>>  BY DEF PutUsage, env
<1> HIDE DEF r
<1>14. check' \in [Checkers -> Check] /\ CheckWithinBill'
  BY <1>5, <1>7, <1>8, <1>13, CheckMoves DEF env
<1>15. TypeOK'
  BY <1>10, <1>11, <1>12, <1>13, <1>14 DEF IInv, TypeOK
<1>16. LeasesBegun' /\ BillGrows'
  BY <1>13 DEF IInv, LeasesBegun, BillGrows
<1>17. UsageWithinBill'
  <2> SUFFICES ASSUME NEW d \in Days, NEW p \in Principals, usage'[d][p].acc # None
               PROVE  usage'[d][p].cost <= Cost(usage'[d][p].acc, d)
    BY <1>13 DEF UsageWithinBill, Cost
  <2>1. usage \in [Days -> [Principals -> Record]]  BY DEF IInv, TypeOK
  <2>2. CASE d = c.day /\ p = c.prin
    <3>1. usage'[d][p] = u  BY <1>10, <1>2, <1>4, <2>1, <2>2
    <3> QED  BY <3>1, <1>2, <1>9, <2>2
  <2>3. CASE ~(d = c.day /\ p = c.prin)
    <3>1. usage'[d][p] = usage[d][p]  BY <1>10, <1>2, <1>4, <2>1, <2>3
    <3> QED  BY <3>1 DEF IInv, UsageWithinBill
  <2> QED  BY <2>2, <2>3
<1> QED  BY <1>14, <1>15, <1>16, <1>17 DEF IInv

LEMMA PutUsageFailsInv ==
    ASSUME IInv, NEW w \in Checkers, PutUsageFails(w)
    PROVE  IInv'
<1> DEFINE c == check[w]
           r == [c EXCEPT !.pc = "lease", !.next = c.day]
<1>1. c \in Check /\ WithinBill(c) /\ day \in Days /\ c.pc = "put"
  BY CheckFacts DEF PutUsageFails, At
<1>2. /\ c.acc \in Accounts /\ c.prin \in Principals /\ c.start \in 1 .. day
      /\ c.day \in c.start .. day /\ c.today <= Cost(c.acc, c.day) /\ ~c.put
  BY <1>1 DEF WithinBill
<1>3. c.day \in 0 .. LastDay + 1 /\ c.day \in c.start .. c.day
  BY <1>1, <1>2, Numbers DEF Days
<1>4. r \in Check  BY <1>1, <1>3 DEF Check, PCs
<1>5. /\ r.pc = "lease" /\ r.acc = c.acc /\ r.prin = c.prin /\ r.start = c.start
      /\ r.day = c.day /\ r.today = c.today /\ ~r.put /\ r.next = c.day
  BY <1>1, <1>2 DEF Check
<1>6. WithinBill(r)
  <2> HIDE DEF r, c
  <2> QED  BY <1>2, <1>3, <1>5 DEF WithinBill, LeaseAdded
<1>7. check' = [check EXCEPT ![w] = r]  BY DEF PutUsageFails
<1> HIDE DEF r
<1> QED  BY <1>4, <1>6, <1>7, OnlyCheckMoves DEF PutUsageFails

\* A day that is read adds at most what the account cost on it.
LEMMA AddLeaseDayInv ==
    ASSUME IInv, NEW w \in Checkers, AddLeaseDay(w)
    PROVE  IInv'
<1> DEFINE c == check[w]
           f == usage[c.next][c.prin]
           n == c.spend + IF f.acc = c.acc THEN f.cost ELSE 0
           r == [c EXCEPT !.next = c.next + 1, !.spend = n]
<1>1. c \in Check /\ WithinBill(c) /\ day \in Days /\ c.pc = "lease" /\ c.next < c.day
  BY CheckFacts DEF AddLeaseDay, At
<1>2. /\ c.acc \in Accounts /\ c.prin \in Principals /\ c.start \in 1 .. day
      /\ c.day \in c.start .. day /\ c.today <= Cost(c.acc, c.day)
      /\ c.next \in c.start .. c.day
      /\ c.put => c.spend <= Cost(c.acc, c.day)
                               + (bill[c.acc][c.next - 1] - bill[c.acc][c.start - 1])
  BY <1>1 DEF WithinBill
<1>3. /\ c.next \in Days /\ c.day \in Days /\ c.start \in Days /\ c.next # day
      /\ c.next + 1 \in c.start .. c.day /\ c.next + 1 \in 0 .. LastDay + 1
      /\ c.next + 1 - 1 = c.next
  <2> HIDE DEF c
  <2> QED  BY <1>1, <1>2, Numbers DEF Days
<1>4. Found(c.next, c.prin) = {f}  BY <1>3 DEF Found
<1>5. check' = [check EXCEPT ![w] = r]
  <2> DEFINE R(x) == [c EXCEPT !.next = c.next + 1,
                        !.spend = c.spend + IF x.acc = c.acc THEN x.cost ELSE 0]
  <2>1. PICK x \in Found(c.next, c.prin) : check' = [check EXCEPT ![w] = R(x)]
    BY DEF AddLeaseDay
  <2>2. x = f  BY <1>4
  <2>3. R(f) = r  OBVIOUS
  <2> HIDE DEF R, f, r
  <2> QED  BY <2>1, <2>2, <2>3
<1>6. f \in Record /\ c.spend \in Nat  BY <1>1, <1>2, <1>3 DEF IInv, TypeOK, Check
<1>7. f.cost \in Nat /\ n \in Nat  BY <1>6 DEF Record
<1>8. f.acc = c.acc => f.cost <= bill[c.acc][c.next] - bill[c.acc][c.next - 1]
  <2>1. c.acc # None  BY <1>2, BudgetAssumption
  <2> QED  BY <1>2, <1>3, <2>1 DEF IInv, UsageWithinBill, Cost
<1>9. /\ Cost(c.acc, c.day) \in Nat /\ bill[c.acc][c.start - 1] \in Nat
      /\ bill[c.acc][c.next] \in Nat /\ bill[c.acc][c.next - 1] \in Nat
      /\ Cost(c.acc, c.next) \in Nat
  BY <1>2, <1>3, CostIsNat
<1>10. c.put => n <= Cost(c.acc, c.day) + (bill[c.acc][c.next] - bill[c.acc][c.start - 1])
  <2>1. bill[c.acc][c.next - 1] <= bill[c.acc][c.next]  BY <1>9 DEF Cost
  <2>2. CASE f.acc = c.acc
    <3>1. n = c.spend + f.cost  BY <2>2
    <3> HIDE DEF n, f, c
    <3> QED  BY <1>2, <1>6, <1>7, <1>8, <1>9, <2>2, <3>1
  <2>3. CASE f.acc # c.acc
    <3>1. n = c.spend  BY <2>3, <1>6
    <3> HIDE DEF n, f, c
    <3> QED  BY <1>2, <1>6, <1>7, <1>9, <2>1, <3>1
  <2> QED  BY <2>2, <2>3
<1>11. r \in Check
  <2> HIDE DEF n
  <2> QED  BY <1>1, <1>3, <1>7 DEF Check
<1>12. /\ r.pc = "lease" /\ r.acc = c.acc /\ r.prin = c.prin /\ r.start = c.start
       /\ r.day = c.day /\ r.today = c.today /\ r.put = c.put
       /\ r.next = c.next + 1 /\ r.spend = n /\ r.next - 1 = c.next
  <2> HIDE DEF n
  <2> QED  BY <1>1, <1>3 DEF Check
<1>13. WithinBill(r)
  <2> HIDE DEF r, n, f, c
  <2>1. bill[r.acc][r.next - 1] = bill[c.acc][c.next]  BY <1>12
  <2> QED  BY <1>2, <1>3, <1>10, <1>12, <2>1 DEF WithinBill, LeaseAdded
<1> HIDE DEF r
<1> QED  BY <1>5, <1>11, <1>13, OnlyCheckMoves DEF AddLeaseDay

LEMMA BeginPrincipalSpendInv ==
    ASSUME IInv, NEW w \in Checkers, BeginPrincipalSpend(w)
    PROVE  IInv'
<1> DEFINE c == check[w]
           r == [c EXCEPT !.pc = "principal", !.last = day, !.next = PeriodStart(day)]
<1>1. c \in Check /\ WithinBill(c) /\ day \in Days /\ c.pc = "lease" /\ c.next >= c.day
  BY CheckFacts DEF BeginPrincipalSpend, At
<1>2. /\ c.acc \in Accounts /\ c.prin \in Principals /\ c.start \in 1 .. day
      /\ c.day \in c.start .. day /\ c.today <= Cost(c.acc, c.day)
      /\ c.next \in c.start .. c.day
      /\ c.put => c.spend <= Cost(c.acc, c.day)
                               + (bill[c.acc][c.next - 1] - bill[c.acc][c.start - 1])
  BY <1>1 DEF WithinBill
<1>3. c.next = c.day /\ c.day \in Days /\ c.start \in Days
  <2> HIDE DEF c
  <2> QED  BY <1>1, <1>2, Numbers DEF Days
<1>4. c.put => c.spend <= bill[c.acc][c.day] - bill[c.acc][c.start - 1]
  <2>1. /\ bill[c.acc][c.day] \in Nat /\ bill[c.acc][c.day - 1] \in Nat
        /\ bill[c.acc][c.start - 1] \in Nat /\ c.spend \in Nat
    BY <1>1, <1>2, <1>3, CostIsNat DEF Check
  <2>2. c.put => c.spend <= (bill[c.acc][c.day] - bill[c.acc][c.day - 1])
                             + (bill[c.acc][c.day - 1] - bill[c.acc][c.start - 1])
    BY <1>2, <1>3 DEF Cost
  <2> HIDE DEF c
  <2> QED  BY <2>1, <2>2
<1>5. /\ PeriodStart(day) \in 1 .. LastDay + 1 /\ PeriodStart(day) \in 0 .. LastDay + 1
      /\ day \in 0 .. LastDay
  BY <1>1, PeriodStartInDays, Numbers DEF Days
<1>6. r \in Check  BY <1>1, <1>5 DEF Check, PCs
<1>7. /\ r.pc = "principal" /\ r.acc = c.acc /\ r.prin = c.prin /\ r.start = c.start
      /\ r.day = c.day /\ r.today = c.today /\ r.put = c.put
      /\ r.next = PeriodStart(day) /\ r.spend = c.spend
  BY <1>1 DEF Check
<1>8. WithinBill(r)
  <2> HIDE DEF r, c
  <2> QED  BY <1>2, <1>4, <1>5, <1>7 DEF WithinBill, LeaseAdded
<1>9. check' = [check EXCEPT ![w] = r]  BY DEF BeginPrincipalSpend
<1> HIDE DEF r
<1> QED  BY <1>6, <1>8, <1>9, OnlyCheckMoves DEF BeginPrincipalSpend

LEMMA AddPrincipalDayInv ==
    ASSUME IInv, NEW w \in Checkers, AddPrincipalDay(w)
    PROVE  IInv'
<1> DEFINE c == check[w]
<1>1. /\ c \in Check /\ WithinBill(c) /\ day \in Days
      /\ c.pc = "principal" /\ c.next <= c.last
  BY CheckFacts DEF AddPrincipalDay, At
<1>2. /\ c.acc \in Accounts /\ c.prin \in Principals /\ c.start \in 1 .. day
      /\ c.day \in c.start .. day /\ c.today <= Cost(c.acc, c.day)
      /\ c.next \in 1 .. LastDay + 1
      /\ c.put => c.spend <= bill[c.acc][c.day] - bill[c.acc][c.start - 1]
  BY <1>1 DEF WithinBill, LeaseAdded
<1>3. /\ c.next \in Days /\ c.next + 1 \in 1 .. LastDay + 1
      /\ c.next + 1 \in 0 .. LastDay + 1
  <2>1. c.last \in 0 .. LastDay  BY <1>1 DEF Check
  <2> HIDE DEF c
  <2> QED  BY <1>1, <1>2, <2>1, Numbers DEF Days
<1>4. PICK x \in Found(c.next, c.prin) :
        check' = [check EXCEPT ![w] = [c EXCEPT !.next = c.next + 1,
                                                !.pspend = c.pspend + x.cost]]
  BY DEF AddPrincipalDay
<1>5. x \in Record
  BY <1>2, <1>3 DEF Found, IInv, TypeOK
<1>6. c.pspend + x.cost \in Nat  BY <1>1, <1>5 DEF Check, Record
<1> DEFINE r == [c EXCEPT !.next = c.next + 1, !.pspend = c.pspend + x.cost]
<1>7. r \in Check  BY <1>1, <1>3, <1>6 DEF Check
<1>8. /\ r.pc = "principal" /\ r.acc = c.acc /\ r.prin = c.prin /\ r.start = c.start
      /\ r.day = c.day /\ r.today = c.today /\ r.put = c.put
      /\ r.next = c.next + 1 /\ r.spend = c.spend
  BY <1>1 DEF Check
<1>9. WithinBill(r)
  <2> HIDE DEF r, c
  <2> QED  BY <1>2, <1>3, <1>8 DEF WithinBill, LeaseAdded
<1>10. check' = [check EXCEPT ![w] = r]  BY <1>4
<1> HIDE DEF r
<1> QED  BY <1>7, <1>9, <1>10, OnlyCheckMoves DEF AddPrincipalDay

LEMMA DecideInv ==
    ASSUME IInv, NEW w \in Checkers, Decide(w)
    PROVE  IInv'
<1> DEFINE c == check[w]
           x == Reason(c)
           r == [c EXCEPT !.reason = x, !.pc = IF x = "Active" THEN "mail" ELSE "expire"]
<1>1. c \in Check /\ WithinBill(c) /\ day \in Days /\ c.pc = "principal"
  BY CheckFacts DEF Decide, At
<1>2. /\ c.acc \in Accounts /\ c.prin \in Principals /\ c.start \in 1 .. day
      /\ c.day \in c.start .. day /\ c.today <= Cost(c.acc, c.day)
      /\ c.put => c.spend <= bill[c.acc][c.day] - bill[c.acc][c.start - 1]
  BY <1>1 DEF WithinBill, LeaseAdded
<1>3. x \in Reasons  BY DEF Reason, Reasons
<1>7. check' = [check EXCEPT ![w] = r]  BY DEF Decide
<1> HIDE DEF x
<1>4. r \in Check  BY <1>1, <1>3 DEF Check, PCs
<1>5. /\ r.pc \in {"mail", "expire"} /\ r.acc = c.acc /\ r.prin = c.prin
      /\ r.start = c.start /\ r.day = c.day /\ r.today = c.today /\ r.put = c.put
      /\ r.spend = c.spend
  BY <1>1 DEF Check
<1>6. WithinBill(r)
  <2> HIDE DEF r, c
  <2> QED  BY <1>2, <1>5 DEF WithinBill, LeaseAdded
<1> HIDE DEF r
<1> QED  BY <1>4, <1>6, <1>7, OnlyCheckMoves DEF Decide

\* The end of a lease, or the attempt, is not the check's own account.
LEMMA ToMail ==
    ASSUME IInv, NEW w \in Checkers, At(w, "expire")
    PROVE  LET r == [check[w] EXCEPT !.pc = "mail"] IN r \in Check /\ WithinBill(r)
<1> DEFINE c == check[w]
           r == [c EXCEPT !.pc = "mail"]
<1>1. c \in Check /\ WithinBill(c) /\ c.pc = "expire"  BY CheckFacts DEF At
<1>2. /\ c.acc \in Accounts /\ c.prin \in Principals /\ c.start \in 1 .. day
      /\ c.day \in c.start .. day /\ c.today <= Cost(c.acc, c.day)
      /\ c.put => c.spend <= bill[c.acc][c.day] - bill[c.acc][c.start - 1]
  BY <1>1 DEF WithinBill, LeaseAdded
<1>3. r \in Check  BY <1>1 DEF Check, PCs
<1>4. /\ r.pc = "mail" /\ r.acc = c.acc /\ r.prin = c.prin
      /\ r.start = c.start /\ r.day = c.day /\ r.today = c.today /\ r.put = c.put
      /\ r.spend = c.spend
  BY <1>1 DEF Check
<1>5. WithinBill(r)
  <2> HIDE DEF r, c
  <2> QED  BY <1>2, <1>4 DEF WithinBill, LeaseAdded
<1> QED  BY <1>3, <1>5

LEMMA ExpireLeaseFailsInv ==
    ASSUME IInv, NEW w \in Checkers, ExpireLeaseFails(w)
    PROVE  IInv'
<1> DEFINE r == [check[w] EXCEPT !.pc = "mail"]
<1>1. r \in Check /\ WithinBill(r)  BY ToMail DEF ExpireLeaseFails
<1>2. check' = [check EXCEPT ![w] = r]  BY DEF ExpireLeaseFails
<1> HIDE DEF r
<1> QED  BY <1>1, <1>2, OnlyCheckMoves DEF ExpireLeaseFails

\* The fields of TypeOK and the invariant that a change of the leases or the
\* invocations leaves alone.
LEMMA LeasesMove ==
    ASSUME IInv, UNCHANGED <<env, usage>>, stale' = stale,
           lease' \in [Accounts -> [Principals -> 0 .. LastDay]],
           invoked' \in SUBSET (Accounts \X Principals \X Days),
           check' \in [Checkers -> Check], CheckWithinBill',
           stored' \in [Principals -> [Accounts -> [Days -> Nat]]],
           LeasesBegun'
    PROVE  IInv'
<1>1. TypeOK'  BY DEF IInv, TypeOK, env
<1>2. BillGrows' /\ UsageWithinBill'
  BY DEF IInv, BillGrows, UsageWithinBill, Cost, env
<1> QED  BY <1>1, <1>2 DEF IInv

LEMMA ExpireLeaseInv ==
    ASSUME IInv, NEW w \in Checkers, ExpireLease(w)
    PROVE  IInv'
<1> DEFINE r == [check[w] EXCEPT !.pc = "mail"]
<1>1. r \in Check /\ WithinBill(r)  BY ToMail DEF ExpireLease
<1>2. check' = [check EXCEPT ![w] = r]  BY DEF ExpireLease
<1> HIDE DEF r
<1>3. check' \in [Checkers -> Check] /\ CheckWithinBill'
  BY <1>1, <1>2, CheckMoves DEF ExpireLease
<1>4. lease' = [lease EXCEPT ![check[w].acc][check[w].prin] = 0]  BY DEF ExpireLease
<1>5. lease \in [Accounts -> [Principals -> 0 .. LastDay]] /\ 0 \in 0 .. LastDay
  BY Numbers DEF IInv, TypeOK
<1>6. lease' \in [Accounts -> [Principals -> 0 .. LastDay]]  BY <1>4, <1>5
<1>7. UNCHANGED <<day, bill, usage, stale, invoked, stored>>  BY DEF ExpireLease, env
<1>8. LeasesBegun'
  <2>1. ASSUME NEW a \in Accounts, NEW p \in Principals PROVE lease'[a][p] <= day
    <3>1. lease'[a][p] = 0 \/ lease'[a][p] = lease[a][p]  BY <1>4, <1>5
    <3>2. lease[a][p] <= day /\ day \in Nat /\ 0 <= day
      BY Numbers DEF IInv, LeasesBegun, TypeOK, Days
    <3> QED  BY <3>1, <3>2
  <2> QED  BY <1>7, <2>1 DEF IInv, LeasesBegun
<1> QED  BY <1>3, <1>6, <1>7, <1>8, LeasesMove DEF IInv, TypeOK, env

\* The end of a check, with the invocation possibly given back.
LEMMA DoneInv ==
    ASSUME IInv, NEW w \in Checkers, Done(w), ~At(w, "idle"),
           invoked' \in {invoked, invoked \cup
                           {<<check[w].acc, check[w].prin, check[w].start>>}},
           UNCHANGED <<env, lease, usage, stale, stored>>
    PROVE  IInv'
<1> DEFINE c == check[w]
<1>1. NoCheck \in Check
  BY Numbers DEF NoCheck, Check, PCs, Reasons
<1>2. WithinBill(NoCheck)  BY DEF WithinBill, NoCheck, LeaseAdded
<1>3. check' \in [Checkers -> Check] /\ CheckWithinBill'
  <2> HIDE DEF NoCheck
  <2> QED  BY <1>1, <1>2, CheckMoves DEF Done
<1>4. c.acc \in Accounts /\ c.prin \in Principals /\ c.start \in 1 .. day /\ day \in Days
  BY CheckFacts DEF At, WithinBill
<1>5. c.start \in Days /\ c.start <= day  BY <1>4, Numbers DEF Days
<1>6. invoked' \in SUBSET (Accounts \X Principals \X Days)
  BY <1>4, <1>5 DEF IInv, TypeOK
<1>7. LeasesBegun'
  <2>1. ASSUME NEW a \in Accounts, NEW p \in Principals, NEW s \in Days,
               <<a, p, s>> \in invoked'
        PROVE  s <= day
    <3>1. <<a, p, s>> \in invoked \/ s = c.start  BY <2>1
    <3> QED  BY <3>1, <1>5 DEF IInv, LeasesBegun
  <2> QED  BY <2>1 DEF IInv, LeasesBegun, env
<1> QED  BY <1>3, <1>6, <1>7, LeasesMove DEF IInv, TypeOK, env

LEMMA CheckStepInv ==
    ASSUME IInv, NEW w \in Checkers, CheckStep(w)
    PROVE  IInv'
<1>1. CASE CalculateTotalSpend(w)  BY <1>1, CalculateTotalSpendInv
<1>2. CASE PutUsage(w)  BY <1>2, PutUsageInv
<1>3. CASE PutUsageFails(w)  BY <1>3, PutUsageFailsInv
<1>4. CASE AddLeaseDay(w)  BY <1>4, AddLeaseDayInv
<1>5. CASE BeginPrincipalSpend(w)  BY <1>5, BeginPrincipalSpendInv
<1>6. CASE AddPrincipalDay(w)  BY <1>6, AddPrincipalDayInv
<1>7. CASE Decide(w)  BY <1>7, DecideInv
<1>8. CASE ExpireLease(w)  BY <1>8, ExpireLeaseInv
<1>9. CASE ExpireLeaseFails(w)  BY <1>9, ExpireLeaseFailsInv
<1>10. CASE SendMail(w)
  <2>1. ~At(w, "idle")  BY <1>10 DEF SendMail, At
  <2> QED  BY <1>10, <2>1, DoneInv DEF SendMail
<1>11. CASE Fail(w)  BY <1>11, DoneInv DEF Fail
<1> QED
  BY <1>1, <1>2, <1>3, <1>4, <1>5, <1>6, <1>7, <1>8, <1>9, <1>10, <1>11
  DEF CheckStep

-----------------------------------------------------------------------------

LEMMA CreateLeaseInv ==
    ASSUME IInv, NEW a \in Accounts, NEW p \in Principals, CreateLease(a, p)
    PROVE  IInv'
<1>1. /\ lease' = [lease EXCEPT ![a][p] = day]
      /\ stored' = [stored EXCEPT ![p][a][day] = 0]
      /\ UNCHANGED <<env, usage, stale, invoked, check>>
  BY DEF CreateLease
<1>2. day \in Days /\ day \in 0 .. LastDay /\ day <= day  BY Numbers DEF IInv, TypeOK, Days
<1>3. lease' \in [Accounts -> [Principals -> 0 .. LastDay]]
  BY <1>1, <1>2 DEF IInv, TypeOK
<1>4. stored' \in [Principals -> [Accounts -> [Days -> Nat]]]
  BY <1>1, <1>2 DEF IInv, TypeOK
<1>5. CheckWithinBill'
  BY <1>1 DEF IInv, CheckWithinBill, WithinBill, Cost, LeaseAdded, env
<1>6. LeasesBegun'
  <2>1. ASSUME NEW b \in Accounts, NEW q \in Principals PROVE lease'[b][q] <= day
    <3>1. lease'[b][q] = day \/ lease'[b][q] = lease[b][q]  BY <1>1 DEF IInv, TypeOK
    <3> QED  BY <3>1, <1>2 DEF IInv, LeasesBegun
  <2> QED  BY <1>1, <2>1 DEF IInv, LeasesBegun, env
<1> QED  BY <1>1, <1>3, <1>4, <1>5, <1>6, LeasesMove DEF IInv, TypeOK

LEMMA DeleteLeaseInv ==
    ASSUME IInv, NEW a \in Accounts, NEW p \in Principals, DeleteLease(a, p)
    PROVE  IInv'
<1>1. /\ lease' = [lease EXCEPT ![a][p] = 0]
      /\ UNCHANGED <<env, usage, stale, invoked, check, stored>>
  BY DEF DeleteLease
<1>2. 0 \in 0 .. LastDay /\ 0 <= day  BY Numbers DEF IInv, TypeOK, Days
<1>3. lease' \in [Accounts -> [Principals -> 0 .. LastDay]]
  BY <1>1, <1>2 DEF IInv, TypeOK
<1>4. CheckWithinBill'
  BY <1>1 DEF IInv, CheckWithinBill, WithinBill, Cost, LeaseAdded, env
<1>5. LeasesBegun'
  <2>1. ASSUME NEW b \in Accounts, NEW q \in Principals PROVE lease'[b][q] <= day
    <3>1. lease'[b][q] = 0 \/ lease'[b][q] = lease[b][q]  BY <1>1 DEF IInv, TypeOK
    <3> QED  BY <3>1, <1>2 DEF IInv, LeasesBegun
  <2> QED  BY <1>1, <2>1 DEF IInv, LeasesBegun, env
<1> QED  BY <1>1, <1>3, <1>4, <1>5, LeasesMove DEF IInv, TypeOK

LEMMA FanOutInv ==
    ASSUME IInv, NEW a \in Accounts, NEW p \in Principals, FanOut(a, p)
    PROVE  IInv'
<1>1. /\ invoked' = invoked \cup {<<a, p, lease[a][p]>>} /\ lease[a][p] # 0
      /\ UNCHANGED <<env, lease, usage, stale, check, stored>>
  BY DEF FanOut, Active
<1>2. lease[a][p] \in Days /\ lease[a][p] <= day
  BY <1>1, Numbers DEF IInv, TypeOK, LeasesBegun, Days
<1>3. invoked' \in SUBSET (Accounts \X Principals \X Days)
  BY <1>1, <1>2 DEF IInv, TypeOK
<1>4. CheckWithinBill'
  BY <1>1 DEF IInv, CheckWithinBill, WithinBill, Cost, LeaseAdded, env
<1>5. LeasesBegun'
  <2>1. ASSUME NEW b \in Accounts, NEW q \in Principals, NEW s \in Days,
               <<b, q, s>> \in invoked'
        PROVE  s <= day
    <3>1. <<b, q, s>> \in invoked \/ s = lease[a][p]  BY <1>1, <2>1
    <3> QED  BY <3>1, <1>2 DEF IInv, LeasesBegun
  <2> QED  BY <1>1, <2>1 DEF IInv, LeasesBegun, env
<1> QED  BY <1>1, <1>3, <1>4, <1>5, LeasesMove DEF IInv, TypeOK

\* An invocation leaves the set when a check begins with it, or it is dropped.
LEMMA InvokedShrinks ==
    ASSUME IInv, invoked' \subseteq invoked, lease' = lease, day' = day
    PROVE  LeasesBegun' /\ invoked' \in SUBSET (Accounts \X Principals \X Days)
<1>1. LeasesBegun'
  <2>1. ASSUME NEW b \in Accounts, NEW q \in Principals, NEW s \in Days,
               <<b, q, s>> \in invoked'
        PROVE  s <= day
    BY <2>1 DEF IInv, LeasesBegun
  <2> QED  BY <2>1 DEF IInv, LeasesBegun
<1> QED  BY <1>1 DEF IInv, TypeOK

LEMMA DiscardInv ==
    ASSUME IInv, NEW a \in Accounts, NEW p \in Principals, NEW s \in Days,
           Discard(a, p, s)
    PROVE  IInv'
<1>1. invoked' \subseteq invoked /\ UNCHANGED <<env, lease, usage, stale, check, stored>>
  BY DEF Discard
<1>2. CheckWithinBill'
  BY <1>1 DEF IInv, CheckWithinBill, WithinBill, Cost, LeaseAdded, env
<1> QED  BY <1>1, <1>2, InvokedShrinks, LeasesMove DEF IInv, TypeOK, env

LEMMA BeginInv ==
    ASSUME IInv, NEW w \in Checkers, NEW a \in Accounts, NEW p \in Principals,
           NEW s \in Days, Begin(w, a, p, s)
    PROVE  IInv'
<1> DEFINE r == [NoCheck EXCEPT !.pc = "cost", !.acc = a, !.prin = p, !.start = s]
<1>1. /\ <<a, p, s>> \in invoked /\ invoked' \subseteq invoked
      /\ check' = [check EXCEPT ![w] = r]
      /\ UNCHANGED <<env, lease, usage, stale, stored>>
  BY DEF Begin
<1>2. s <= day /\ day \in Days  BY <1>1 DEF IInv, TypeOK, LeasesBegun
<1>3. s \in 1 .. day /\ s \in 0 .. LastDay  BY <1>2, Numbers DEF Days
<1>4. r \in Check
  <2>1. NoCheck \in Check  BY Numbers DEF NoCheck, Check, PCs, Reasons
  <2> HIDE DEF NoCheck
  <2> QED  BY <1>3, <2>1 DEF Check, PCs
<1>5. r.pc = "cost" /\ r.acc = a /\ r.prin = p /\ r.start = s /\ ~r.put
  BY DEF NoCheck
<1> HIDE DEF r
<1>6. WithinBill(r)  BY <1>3, <1>5 DEF WithinBill, LeaseAdded
<1>7. check' \in [Checkers -> Check] /\ CheckWithinBill'
  BY <1>1, <1>4, <1>6, CheckMoves
<1> QED  BY <1>1, <1>7, InvokedShrinks, LeasesMove DEF IInv, TypeOK, env

-----------------------------------------------------------------------------

LEMMA NextDayInv ==
    ASSUME IInv, NextDay
    PROVE  IInv'
<1>1. /\ day < LastDay /\ day' = day + 1 /\ stale' = [p \in Principals |-> NoUsage]
      /\ UNCHANGED <<bill, lease, usage, invoked, check, stored>>
  BY DEF NextDay
<1>2. day' \in Days /\ day <= day'  BY <1>1, Numbers DEF IInv, TypeOK, Days
<1>3. NoUsage \in Record  BY DEF NoUsage, Record
<1>4. TypeOK'  BY <1>1, <1>2, <1>3 DEF IInv, TypeOK
<1>5. SpansGrow
  <2> SUFFICES ASSUME NEW b \in Accounts, NEW x \in 0 .. LastDay, NEW y \in 0 .. LastDay
               PROVE  bill[b][y] - bill[b][x] <= bill'[b][y] - bill'[b][x]
    BY DEF SpansGrow
  <2>1. bill[b][x] \in Nat /\ bill[b][y] \in Nat  BY DEF IInv, TypeOK
  <2> QED  BY <1>1, <2>1
<1> QED  BY <1>1, <1>2, <1>4, <1>5, WorldMoves DEF IInv

LEMMA SpendInv ==
    ASSUME IInv, NEW a \in Accounts, NEW d \in Days, Spend(a, d)
    PROVE  IInv'
<1>1. bill' \in [Accounts -> [0 .. LastDay -> Nat]] /\ SpansGrow
  BY SpendGrows DEF IInv
<1>2. UNCHANGED <<day, lease, usage, stale, invoked, check, stored>>  BY DEF Spend
<1>3. TypeOK'  BY <1>1, <1>2 DEF IInv, TypeOK
<1>4. day <= day'  BY <1>2, Numbers DEF IInv, TypeOK, Days
<1> QED  BY <1>1, <1>2, <1>3, <1>4, WorldMoves DEF IInv

LEMMA NextInv == IInv /\ [Next]_vars => IInv'
<1> SUFFICES ASSUME IInv, [Next]_vars PROVE IInv'  OBVIOUS
<1>1. CASE NextDay  BY <1>1, NextDayInv
<1>2. ASSUME NEW a \in Accounts, NEW d \in Days, Spend(a, d) PROVE IInv'
  BY <1>2, SpendInv
<1>3. ASSUME NEW a \in Accounts, NEW p \in Principals, LeaseStep(a, p) PROVE IInv'
  <2>1. CASE CreateLease(a, p)  BY <2>1, CreateLeaseInv
  <2>2. CASE DeleteLease(a, p)  BY <2>2, DeleteLeaseInv
  <2>3. CASE FanOut(a, p)  BY <2>3, FanOutInv
  <2>4. ASSUME NEW s \in Days, Discard(a, p, s) PROVE IInv'  BY <2>4, DiscardInv
  <2>5. ASSUME NEW s \in Days, NEW w \in Checkers, Begin(w, a, p, s) PROVE IInv'
    BY <2>5, BeginInv
  <2> QED  BY <1>3, <2>1, <2>2, <2>3, <2>4, <2>5 DEF LeaseStep
<1>4. ASSUME NEW w \in Checkers, CheckStep(w) PROVE IInv'  BY <1>4, CheckStepInv
<1>5. CASE UNCHANGED vars
  <2>1. UNCHANGED <<day, bill, lease, usage, stale, invoked, check, stored>>
    BY <1>5 DEF vars, env
  <2>2. TypeOK'  BY <2>1 DEF IInv, TypeOK
  <2>3. LeasesBegun' /\ BillGrows' /\ UsageWithinBill'
    BY <2>1 DEF IInv, LeasesBegun, BillGrows, UsageWithinBill, Cost
  <2>4. CheckWithinBill'
    BY <2>1 DEF IInv, CheckWithinBill, WithinBill, Cost, LeaseAdded
  <2> QED  BY <2>2, <2>3, <2>4 DEF IInv
<1> QED  BY <1>1, <1>2, <1>3, <1>4, <1>5 DEF Next

-----------------------------------------------------------------------------

\* The variables keep their types, whatever fails, overlaps or comes late: no
\* cost, record or sum is ever negative (the code keeps floats).
THEOREM TypeCorrect == Spec => []TypeOK
<1>1. IInv => TypeOK  BY DEF IInv
<1> QED  BY InitInv, NextInv, <1>1, PTL DEF Spec

\* No lease is charged more than its account has cost since the lease began,
\* for any number of accounts, principals, executions and days.
THEOREM NotOverstated == Spec => []SpendNotOverstated
<1>1. IInv => SpendNotOverstated
  BY DEF IInv, CheckWithinBill, WithinBill, SpendNotOverstated
<1> QED  BY InitInv, NextInv, <1>1, PTL DEF Spec

-----------------------------------------------------------------------------
(* The greatest number and the sum of a finite set, by its smallest         *)
(* counterexample among the subsets                                         *)

\* Of the subsets of a finite set, a family that has any has a smallest one.
LEMMA SmallestSubset ==
    ASSUME NEW S, IsFiniteSet(S), NEW F \in SUBSET SUBSET S, F # {}
    PROVE  \E U \in F : IsFiniteSet(U) /\ \A V \in SUBSET U : V # U => V \notin F
<1>1. IsWellFoundedOn(StrictSubsetOrdering(S), SUBSET S)
  BY FS_StrictSubsetOrderingWellFounded, FS_FiniteSubsetsOfFinite
<1>2. PICK U \in F : \A V \in F : ~ (<<V, U>> \in StrictSubsetOrdering(S))
  BY <1>1, WFMin
<1>3. IsFiniteSet(U)  BY FS_Subset
<1>4. ASSUME NEW V \in SUBSET U, V # U, V \in F PROVE FALSE
  BY <1>2, <1>4 DEF StrictSubsetOrdering
<1> QED  BY <1>3, <1>4

\* A finite set of numbers has a greatest one, and Max is that.
LEMMA MaxOfFinite ==
    ASSUME NEW S \in SUBSET Int, IsFiniteSet(S), S # {}
    PROVE  Max(S) \in S /\ \A x \in S : x <= Max(S)
<1> DEFINE F == {U \in SUBSET S : U # {} /\ ~ \E m \in U : \A x \in U : x <= m}
<1>1. S \notin F
  <2> SUFFICES ASSUME F # {} PROVE FALSE  OBVIOUS
  <2>1. PICK U \in F : \A V \in SUBSET U : V # U => V \notin F
    <3> HIDE DEF F
    <3>1. F \in SUBSET SUBSET S  BY DEF F
    <3> QED  BY <3>1, SmallestSubset
  <2>2. PICK x \in U : TRUE  OBVIOUS
  <2>3. CASE U \ {x} = {}
    <3>1. U = {x}  BY <2>2, <2>3
    <3> QED  BY <3>1
  <2>4. CASE U \ {x} # {}
    <3>1. PICK m \in U \ {x} : \A y \in U \ {x} : y <= m  BY <2>1, <2>4
    <3>2. m \in Int /\ x \in Int /\ \A y \in U : y \in Int  BY <3>1
    <3>3. \A y \in U : y <= IF x <= m THEN m ELSE x  BY <3>1, <3>2
    <3> QED  BY <3>1, <3>3
  <2> QED  BY <2>3, <2>4
<1>2. \E m \in S : \A x \in S : m >= x  BY <1>1
<1>3. Max(S) \in S /\ \A x \in S : Max(S) >= x  BY <1>2 DEF Max
<1> QED  BY <1>3

\* g[T] is the sum of f over T, added up in the order the fold takes.
Adds(g, f, S) ==
    g = [T \in SUBSET S |-> IF T = {} THEN 0
            ELSE f[CHOOSE x \in T : TRUE] + g[T \ {CHOOSE x \in T : TRUE}]]

\* The member the fold takes out of a set.
Some(T) == CHOOSE x \in T : TRUE

\* The sum as BudgetProps writes it, of a function.
SumOver(f, S) == MapThenSumSet(LAMBDA x : f[x], S)

\* A set of natural numbers has a least one.
LEMMA LeastNat ==
    ASSUME NEW N \in SUBSET Nat, N # {}
    PROVE  \E n \in N : \A m \in N : n <= m
<1>1. PICK n \in N : \A m \in N : ~ (<<m, n>> \in OpToRel(<, Nat))
  BY NatLessThanWellFounded, WFMin
<1>2. \A m \in N : ~ (m < n)  BY <1>1 DEF OpToRel
<1> QED  BY <1>2

\* There is such a function.
LEMMA AddsExists ==
    ASSUME NEW f, NEW S, IsFiniteSet(S)
    PROVE  \E g : Adds(g, f, S)
<1> DEFINE D(n) == {T \in SUBSET S : Cardinality(T) <= n}
           Ok(g, n) == g = [T \in D(n) |-> IF T = {} THEN 0
                              ELSE f[Some(T)] + g[T \ {Some(T)}]]
           N == {n \in Nat : ~ \E g : Ok(g, n)}
<1>0. \A T \in SUBSET S : Cardinality(T) \in Nat /\ IsFiniteSet(T)
  BY FS_Subset, FS_CardinalityType
<1>1. N = {}
  <2> SUFFICES ASSUME N # {} PROVE FALSE  OBVIOUS
  <2>1. PICK n \in N : \A m \in N : n <= m
    <3>1. N \in SUBSET Nat  OBVIOUS
    <3> HIDE DEF N
    <3> QED  BY <3>1, LeastNat
  <2>2. CASE n = 0
    <3>1. D(0) = {{}}
      <4>1. \A T \in SUBSET S : Cardinality(T) <= 0 <=> T = {}
        BY <1>0, FS_EmptySet
      <4> QED  BY <4>1
    <3>2. Ok([T \in D(0) |-> 0], 0)  BY <3>1
    <3> QED  BY <2>2, <3>2
  <2>3. CASE n # 0
    <3>1. n - 1 \in Nat /\ n - 1 \notin N
      <4>1. n \in Nat  OBVIOUS
      <4> HIDE DEF N
      <4> QED  BY <2>1, <2>3, <4>1
    <3>2. PICK g : Ok(g, n - 1)  BY <3>1
    <3> DEFINE h == [T \in D(n) |-> IF T = {} THEN 0
                       ELSE f[Some(T)] + g[T \ {Some(T)}]]
    <3>3. ASSUME NEW T \in D(n), T # {}
          PROVE  /\ T \ {Some(T)} \in D(n - 1)
                 /\ h[T \ {Some(T)}] = g[T \ {Some(T)}]
      <4> DEFINE U == T \ {Some(T)}
      <4>1. Some(T) \in T  BY <3>3 DEF Some
      <4>2. Cardinality(U) = Cardinality(T) - 1  BY <1>0, <4>1, FS_RemoveElement
      <4>3. U \in D(n - 1) /\ U \in D(n)  BY <1>0, <4>2
      <4>4. g[U] = IF U = {} THEN 0 ELSE f[Some(U)] + g[U \ {Some(U)}]
        BY <3>2, <4>3
      <4> QED  BY <4>3, <4>4
    <3>4. Ok(h, n)
      <4>1. \A T \in D(n) : (IF T = {} THEN 0 ELSE f[Some(T)] + g[T \ {Some(T)}])
                             = (IF T = {} THEN 0 ELSE f[Some(T)] + h[T \ {Some(T)}])
        BY <3>3
      <4> QED  BY <4>1
    <3> QED  BY <2>1, <3>4
  <2> QED  BY <2>2, <2>3
<1>2. Cardinality(S) \in Nat  BY <1>0
<1>3. PICK g : Ok(g, Cardinality(S))  BY <1>1, <1>2
<1>4. D(Cardinality(S)) = SUBSET S  BY FS_Subset
<1>5. Adds(g, f, S)  BY <1>3, <1>4 DEF Adds, Some
<1> QED  BY <1>5

\* The sum is what such a function says.
LEMMA SumIsAFold ==
    ASSUME NEW f, NEW S, IsFiniteSet(S)
    PROVE  \E g : Adds(g, f, S) /\ SumOver(f, S) = g[S]
<1>1. MapThenSumSet(LAMBDA x : f[x], S) = (CHOOSE g : Adds(g, f, S))[S]
  BY DEF MapThenSumSet, MapThenFoldSet, Adds
<1> QED  BY <1>1, AddsExists DEF SumOver

\* What such a function says of a set of numbers: the sum of no number is 0,
\* and the order in which numbers are taken out does not matter.
LEMMA AddsFacts ==
    ASSUME NEW S, IsFiniteSet(S), NEW f, \A x \in S : f[x] \in Int,
           NEW g, Adds(g, f, S)
    PROVE  /\ g[{}] = 0
           /\ \A T \in SUBSET S : g[T] \in Int
           /\ \A T \in SUBSET S : \A x \in T : g[T] = f[x] + g[T \ {x}]
<1>1. g[{}] = 0  BY DEF Adds
<1>2. ASSUME NEW T \in SUBSET S, T # {}
      PROVE  Some(T) \in T /\ g[T] = f[Some(T)] + g[T \ {Some(T)}]
  BY <1>2 DEF Adds, Some
<1> DEFINE F == {T \in SUBSET S : ~ (/\ g[T] \in Int
                                    /\ \A x \in T : g[T] = f[x] + g[T \ {x}])}
<1>3. F = {}
  <2> SUFFICES ASSUME F # {} PROVE FALSE  OBVIOUS
  <2>1. PICK T \in F : \A V \in SUBSET T : V # T => V \notin F
    <3>1. F \in SUBSET SUBSET S  OBVIOUS
    <3> HIDE DEF F
    <3> QED  BY <3>1, SmallestSubset
  <2>2. ASSUME NEW x \in T
        PROVE  /\ g[T \ {x}] \in Int
               /\ \A y \in T \ {x} : g[T \ {x}] = f[y] + g[(T \ {x}) \ {y}]
    <3>1. T \ {x} \in SUBSET T /\ T \ {x} # T /\ T \ {x} \in SUBSET S  BY <2>2
    <3>2. T \ {x} \notin F
      <4> HIDE DEF F
      <4> QED  BY <2>1, <3>1
    <3> QED  BY <3>1, <3>2
  <2>3. T # {}
    <3> SUFFICES ASSUME T = {} PROVE FALSE  OBVIOUS
    <3>1. g[T] = 0 /\ \A x \in T : FALSE  BY <1>1
    <3>2. ~ (g[T] \in Int /\ \A x \in T : g[T] = f[x] + g[T \ {x}])  OBVIOUS
    <3> QED  BY <3>1, <3>2
  <2> DEFINE c == Some(T)
  <2>4. c \in T /\ g[T] = f[c] + g[T \ {c}]  BY <1>2, <2>3
  <2> HIDE DEF c
  <2>5. g[T] \in Int
    <3>1. f[c] \in Int /\ g[T \ {c}] \in Int  BY <2>2, <2>4
    <3> HIDE DEF F
    <3> QED  BY <2>4, <3>1
  <2>6. ASSUME NEW x \in T, x # c PROVE g[T] = f[x] + g[T \ {x}]
    <3>1. g[T \ {c}] = f[x] + g[(T \ {c}) \ {x}]  BY <2>2, <2>4, <2>6
    <3>2. g[T \ {x}] = f[c] + g[(T \ {x}) \ {c}]  BY <2>2, <2>4, <2>6
    <3>3. (T \ {c}) \ {x} = (T \ {x}) \ {c}  OBVIOUS
    <3>4. f[x] \in Int /\ f[c] \in Int /\ g[T \ {c}] \in Int /\ g[T \ {x}] \in Int
      BY <2>2, <2>4
    <3>5. g[T \ {c}] - f[x] = g[T \ {x}] - f[c]
      <4>1. (T \ {c}) \ {x} \in SUBSET S  OBVIOUS
      <4>2. g[(T \ {c}) \ {x}] \in Int
        <5>1. (T \ {c}) \ {x} \in SUBSET T /\ (T \ {c}) \ {x} # T  BY <2>4
        <5>2. (T \ {c}) \ {x} \notin F
          <6> HIDE DEF F
          <6> QED  BY <2>1, <5>1
        <5> QED  BY <4>1, <5>2
      <4> DEFINE r == g[(T \ {c}) \ {x}]
      <4>3. g[T \ {c}] = f[x] + r /\ g[T \ {x}] = f[c] + r /\ r \in Int
        BY <3>1, <3>2, <3>3, <4>2
      <4> HIDE DEF r, F
      <4> QED  BY <3>4, <4>3
    <3> QED  BY <2>4, <3>4, <3>5
  <2> QED  BY <2>4, <2>5, <2>6
<1> QED  BY <1>1, <1>3

\* What is used of sums: any number may be taken out first.
LEMMA SumFacts ==
    ASSUME NEW S, IsFiniteSet(S), NEW f, \A x \in S : f[x] \in Int
    PROVE  /\ SumOver(f, {}) = 0
           /\ SumOver(f, S) \in Int
           /\ \A x \in S : SumOver(f, S) = f[x] + SumOver(f, S \ {x})
<1>1. PICK g : Adds(g, f, S) /\ SumOver(f, S) = g[S]  BY SumIsAFold
<1>2. PICK e : Adds(e, f, {}) /\ SumOver(f, {}) = e[{}]
  BY FS_EmptySet, SumIsAFold
<1>3. SumOver(f, {}) = 0  BY <1>2 DEF Adds
<1>4. ASSUME NEW T \in SUBSET S PROVE SumOver(f, T) = g[T]
  <2>1. IsFiniteSet(T)  BY FS_Subset
  <2>2. PICK h : Adds(h, f, T) /\ SumOver(f, T) = h[T]  BY <2>1, SumIsAFold
  <2> DEFINE F == {U \in SUBSET T : h[U] # g[U]}
  <2>3. F = {}
    <3> SUFFICES ASSUME F # {} PROVE FALSE  OBVIOUS
    <3>1. PICK U \in F : \A V \in SUBSET U : V # U => V \notin F
      <4>1. F \in SUBSET SUBSET T  OBVIOUS
      <4> HIDE DEF F
      <4> QED  BY <2>1, <4>1, SmallestSubset
    <3>2. U \in SUBSET T /\ U \in SUBSET S /\ h[U] # g[U]  OBVIOUS
    <3>3. g[{}] = 0 /\ h[{}] = 0  BY <1>1, <2>2 DEF Adds
    <3>4. U # {}  BY <3>2, <3>3
    <3> DEFINE c == CHOOSE x \in U : TRUE
    <3>5. c \in U  BY <3>4
    <3>6. g[U] = f[c] + g[U \ {c}] /\ h[U] = f[c] + h[U \ {c}]
      BY <1>1, <2>2, <3>2, <3>4 DEF Adds
    <3> HIDE DEF c
    <3>7. h[U \ {c}] = g[U \ {c}]  BY <3>1, <3>2, <3>5
    <3> QED  BY <3>2, <3>6, <3>7
  <2> QED  BY <2>2, <2>3
<1>5. /\ \A T \in SUBSET S : g[T] \in Int
      /\ \A T \in SUBSET S : \A x \in T : g[T] = f[x] + g[T \ {x}]
  <2>1. Adds(g, f, S)  BY <1>1
  <2> QED  BY <2>1, AddsFacts
<1>6. S \in SUBSET S /\ \A x \in S : S \ {x} \in SUBSET S  OBVIOUS
<1> QED  BY <1>1, <1>3, <1>4, <1>5, <1>6

\* A sum of greater numbers is greater.
LEMMA SumGrows ==
    ASSUME NEW S, IsFiniteSet(S), NEW f, NEW h,
           \A x \in S : f[x] \in Int /\ h[x] \in Int /\ f[x] <= h[x]
    PROVE  SumOver(f, S) <= SumOver(h, S)
<1> DEFINE F == {T \in SUBSET S : ~ (SumOver(f, T) <= SumOver(h, T))}
<1>1. F = {}
  <2> SUFFICES ASSUME F # {} PROVE FALSE  OBVIOUS
  <2>1. PICK T \in F : IsFiniteSet(T) /\ \A V \in SUBSET T : V # T => V \notin F
    <3>1. F \in SUBSET SUBSET S  OBVIOUS
    <3> HIDE DEF F
    <3> QED  BY <3>1, SmallestSubset
  <2>2. T \in SUBSET S /\ ~ (SumOver(f, T) <= SumOver(h, T))  OBVIOUS
  <2>3. SumOver(f, {}) = 0 /\ SumOver(h, {}) = 0  BY SumFacts
  <2>4. T # {}  BY <2>2, <2>3
  <2>5. PICK x \in T : TRUE  BY <2>4
  <2>6. T \ {x} \in SUBSET T /\ T \ {x} # T /\ T \ {x} \in SUBSET S  BY <2>2, <2>5
  <2>7. SumOver(f, T \ {x}) <= SumOver(h, T \ {x})  BY <2>1, <2>6
  <2>8. IsFiniteSet(T \ {x})  BY <2>1, FS_RemoveElement
  <2>9. /\ SumOver(f, T) = f[x] + SumOver(f, T \ {x})
        /\ SumOver(h, T) = h[x] + SumOver(h, T \ {x})
        /\ SumOver(f, T \ {x}) \in Int /\ SumOver(h, T \ {x}) \in Int
    <3>1. \A y \in T : f[y] \in Int /\ h[y] \in Int  BY <2>2
    <3>2. \A y \in T \ {x} : f[y] \in Int /\ h[y] \in Int  BY <3>1
    <3>3. IsFiniteSet(T) /\ x \in T  BY <2>1, <2>5
    <3> HIDE DEF F
    <3>4. SumOver(f, T) = f[x] + SumOver(f, T \ {x})  BY <3>1, <3>3, SumFacts
    <3>5. SumOver(h, T) = h[x] + SumOver(h, T \ {x})  BY <3>1, <3>3, SumFacts
    <3>6. SumOver(f, T \ {x}) \in Int  BY <2>8, <3>2, SumFacts
    <3>7. SumOver(h, T \ {x}) \in Int  BY <2>8, <3>2, SumFacts
    <3> QED  BY <3>4, <3>5, <3>6, <3>7
  <2>10. f[x] \in Int /\ h[x] \in Int /\ f[x] <= h[x]  BY <2>2, <2>5
  <2> HIDE DEF F
  <2> QED  BY <2>2, <2>7, <2>9, <2>10
<1> QED  BY <1>1

-----------------------------------------------------------------------------
(* The mail *)

\* Why a check has come to its decision.  The sums are not touched any more
\* when it is taken.
ReasonHolds(c) ==
    c.pc \in {"expire", "mail"} =>
        /\ c.reason = "Active" =>
              c.pc = "mail" /\ c.spend <= Budget /\ c.pspend <= PrincipalBudget
        /\ c.reason = "OverBudget" => c.spend > Budget
        /\ c.reason = "OverPrincipalBudget" => c.pspend > PrincipalBudget

ReasonsHold == \A w \in Checkers : ReasonHolds(check[w])

\* What the steps of an execution may do to its own record.
LEMMA ChecksGoOn ==
    ASSUME TypeOK, Next, NEW w \in Checkers
    PROVE  \/ check'[w] = check[w]
           \/ check'[w].pc \notin {"expire", "mail"}
           \/ Decide(w)
           \/ check[w].pc = "expire" /\ check'[w] = [check[w] EXCEPT !.pc = "mail"]
<1>1. CASE NextDay  BY <1>1 DEF NextDay
<1>2. ASSUME NEW a \in Accounts, NEW d \in Days, Spend(a, d)
      PROVE  check'[w] = check[w]
  BY <1>2 DEF Spend
<1>3. ASSUME NEW a \in Accounts, NEW p \in Principals, LeaseStep(a, p)
      PROVE  check'[w] = check[w] \/ check'[w].pc \notin {"expire", "mail"}
  <2>1. CASE CreateLease(a, p) \/ DeleteLease(a, p) \/ FanOut(a, p)
             \/ \E s \in Days : Discard(a, p, s)
    BY <2>1 DEF CreateLease, DeleteLease, FanOut, Discard
  <2>2. ASSUME NEW s \in Days, NEW v \in Checkers, Begin(v, a, p, s)
        PROVE  check'[w] = check[w] \/ check'[w].pc \notin {"expire", "mail"}
    <3>1. check' = [check EXCEPT ![v] = [NoCheck EXCEPT !.pc = "cost", !.acc = a,
                                           !.prin = p, !.start = s]]
      BY <2>2 DEF Begin
    <3> QED  BY <3>1 DEF TypeOK, NoCheck
  <2> QED  BY <1>3, <2>1, <2>2 DEF LeaseStep
<1>4. ASSUME NEW v \in Checkers, CheckStep(v)
      PROVE  \/ check'[w] = check[w]
             \/ check'[w].pc \notin {"expire", "mail"}
             \/ Decide(w)
             \/ check[w].pc = "expire" /\ check'[w] = [check[w] EXCEPT !.pc = "mail"]
  <2>0. check[v] \in Check /\ check \in [Checkers -> Check]  BY DEF TypeOK
  <2>1. CASE CalculateTotalSpend(v)
    <3>1. check' = [check EXCEPT ![v] = [check[v] EXCEPT !.pc = "put", !.day = day,
                                           !.today = Cost(check[v].acc, day)]]
      BY <2>1 DEF CalculateTotalSpend
    <3> QED  BY <2>0, <3>1 DEF Check
  <2>2. CASE PutUsage(v) \/ PutUsageFails(v)
    <3>1. ASSUME PutUsage(v)
          PROVE  check' = [check EXCEPT ![v] = [check[v] EXCEPT !.pc = "lease", !.put = TRUE,
                             !.next = check[v].start, !.spend = check[v].today]]
      BY <3>1 DEF PutUsage
    <3>2. ASSUME PutUsageFails(v)
          PROVE  check' = [check EXCEPT ![v] = [check[v] EXCEPT !.pc = "lease",
                             !.next = check[v].day]]
      BY <3>2 DEF PutUsageFails
    <3>3. w # v => check'[w] = check[w]  BY <2>0, <2>2, <3>1, <3>2
    <3>4. check'[v].pc = "lease"
      <4>1. CASE PutUsage(v)  BY <2>0, <3>1, <4>1 DEF Check
      <4>2. CASE PutUsageFails(v)  BY <2>0, <3>2, <4>2 DEF Check
      <4> QED  BY <2>2, <4>1, <4>2
    <3> QED  BY <3>3, <3>4
  <2>3. CASE AddLeaseDay(v) \/ BeginPrincipalSpend(v) \/ AddPrincipalDay(v)
    <3>1. ASSUME AddLeaseDay(v)
          PROVE  (w # v => check'[w] = check[w]) /\ check'[v].pc = "lease"
      <4>1. PICK n : check' = [check EXCEPT ![v] = [check[v] EXCEPT
                                !.next = check[v].next + 1, !.spend = n]]
        BY <3>1 DEF AddLeaseDay
      <4>2. check[v].pc = "lease"  BY <3>1 DEF AddLeaseDay, At
      <4> QED  BY <2>0, <4>1, <4>2 DEF Check
    <3>2. ASSUME BeginPrincipalSpend(v)
          PROVE  (w # v => check'[w] = check[w]) /\ check'[v].pc = "principal"
      <4>1. check' = [check EXCEPT ![v] = [check[v] EXCEPT !.pc = "principal", !.last = day,
                                             !.next = PeriodStart(day)]]
        BY <3>2 DEF BeginPrincipalSpend
      <4> QED  BY <2>0, <4>1 DEF Check
    <3>3. ASSUME AddPrincipalDay(v)
          PROVE  (w # v => check'[w] = check[w]) /\ check'[v].pc = "principal"
      <4>1. PICK n : check' = [check EXCEPT ![v] = [check[v] EXCEPT
                                !.next = check[v].next + 1, !.pspend = n]]
        BY <3>3 DEF AddPrincipalDay
      <4>2. check[v].pc = "principal"  BY <3>3 DEF AddPrincipalDay, At
      <4> QED  BY <2>0, <4>1, <4>2 DEF Check
    <3> QED  BY <2>3, <3>1, <3>2, <3>3
  <2>4. CASE Decide(v)
    <3>1. w # v => check'[w] = check[w]
      <4>1. PICK x, y : check' = [check EXCEPT ![v] = [check[v] EXCEPT !.reason = x, !.pc = y]]
        BY <2>4 DEF Decide
      <4> QED  BY <2>0, <4>1
    <3> QED  BY <2>4, <3>1
  <2>5. CASE ExpireLease(v) \/ ExpireLeaseFails(v)
    <3>1. check[v].pc = "expire" /\ check' = [check EXCEPT ![v] = [check[v] EXCEPT !.pc = "mail"]]
      BY <2>5 DEF ExpireLease, ExpireLeaseFails, At
    <3> QED  BY <2>0, <3>1
  <2>6. CASE SendMail(v) \/ Fail(v)
    <3>1. check' = [check EXCEPT ![v] = NoCheck]  BY <2>6 DEF SendMail, Fail, Done
    <3> QED  BY <2>0, <3>1 DEF NoCheck
  <2> QED  BY <1>4, <2>1, <2>2, <2>3, <2>4, <2>5, <2>6 DEF CheckStep
<1> QED  BY <1>1, <1>2, <1>3, <1>4 DEF Next

\* The reason of a decision remains true of what the check has added up.
LEMMA ReasonsInv ==
    /\ Init => ReasonsHold
    /\ TypeOK /\ ReasonsHold /\ [Next]_vars => ReasonsHold'
<1>1. ASSUME Init PROVE ReasonsHold
  BY <1>1 DEF Init, ReasonsHold, ReasonHolds, NoCheck
<1>2. ASSUME TypeOK, ReasonsHold, Next, NEW w \in Checkers
      PROVE  ReasonHolds(check'[w])
  <2> DEFINE c == check[w]
  <2>1. c \in Check /\ ReasonHolds(c)  BY <1>2 DEF TypeOK, ReasonsHold
  <2>2. CASE check'[w] = c  BY <2>1, <2>2
  <2>3. CASE check'[w].pc \notin {"expire", "mail"}  BY <2>3 DEF ReasonHolds
  <2>4. CASE Decide(w)
    <3> DEFINE x == Reason(c)
    <3>1. check' = [check EXCEPT ![w] = [c EXCEPT !.reason = x,
                       !.pc = IF x = "Active" THEN "mail" ELSE "expire"]]
      BY <2>4 DEF Decide
    <3>2. /\ check'[w].reason = x /\ check'[w].pc = (IF x = "Active" THEN "mail" ELSE "expire")
          /\ check'[w].spend = c.spend /\ check'[w].pspend = c.pspend
      <4> HIDE DEF x
      <4> QED  BY <1>2, <2>1, <3>1 DEF TypeOK, Check
    <3>3. /\ x = "Active" => c.spend <= Budget /\ c.pspend <= PrincipalBudget
          /\ x = "OverBudget" => c.spend > Budget
          /\ x = "OverPrincipalBudget" => c.pspend > PrincipalBudget
      <4>1. /\ c.spend \in Nat /\ Budget \in Nat
            /\ c.pspend \in Nat /\ PrincipalBudget \in Nat
        BY <2>1, BudgetAssumption DEF Check
      <4> QED  BY <4>1 DEF Reason
    <3> HIDE DEF x, c
    <3> QED  BY <3>2, <3>3 DEF ReasonHolds
  <2>5. CASE c.pc = "expire" /\ check'[w] = [c EXCEPT !.pc = "mail"]
    <3>1. /\ check'[w].reason = c.reason /\ check'[w].pc = "mail"
          /\ check'[w].spend = c.spend /\ check'[w].pspend = c.pspend
      BY <2>1, <2>5 DEF Check
    <3> HIDE DEF c
    <3> QED  BY <2>1, <2>5, <3>1 DEF ReasonHolds
  <2> QED  BY <1>2, <2>2, <2>3, <2>4, <2>5, ChecksGoOn
<1>3. ASSUME TypeOK, ReasonsHold, Next PROVE ReasonsHold'
  BY <1>2, <1>3 DEF ReasonsHold, ReasonHolds
<1>4. ASSUME ReasonsHold, UNCHANGED vars PROVE ReasonsHold'
  BY <1>4 DEF ReasonsHold, ReasonHolds, vars
<1> QED  BY <1>1, <1>3, <1>4

\* A budget that is exceeded has reached every threshold up to the whole of it.
LEMMA OverIsToldOf ==
    ASSUME NEW budget \in Nat, NEW spend \in Nat, spend > budget,
           NEW t \in Percentiles, t \in 1 .. 100
    PROVE  Threshold(budget, spend) > 0
<1> DEFINE S == {0} \cup {u \in Percentiles : 100 * spend >= budget * u}
<1>1. S \in SUBSET Int
  <2>1. S \subseteq {0} \cup Percentiles  OBVIOUS
  <2>2. {0} \cup Percentiles \subseteq Int  BY BudgetAssumption
  <2> QED  BY <2>1, <2>2, Zenon
<1>2. IsFiniteSet(S)
  <2>1. {u \in Percentiles : 100 * spend >= budget * u} \in SUBSET Percentiles  OBVIOUS
  <2>2. IsFiniteSet({u \in Percentiles : 100 * spend >= budget * u})
    BY <2>1, BudgetAssumption, FS_Subset
  <2> QED  BY <2>2, FS_AddElement
<1>3. budget * t <= 100 * budget  OBVIOUS
<1>4. 100 * spend >= budget * t  BY <1>3
<1>5. t \in S  BY <1>4
<1>6. Max(S) \in Int /\ t <= Max(S)
  <2> HIDE DEF S
  <2> QED  BY <1>1, <1>2, <1>5, MaxOfFinite
<1> QED  BY <1>6 DEF Threshold

\* Whoever loses a lease for a budget is told so in a mail, if one of the
\* thresholds is no more than the whole budget (variables.tf:146 has 75 and 100)
\* and the principal's budget no smaller than the lease's.
THEOREM EndedToldOf ==
    ASSUME \E t \in Percentiles : t \in 1 .. 100
    PROVE  Spec => []EndedIsTold
<1>1. TypeOK /\ ReasonsHold => EndedIsTold
  <2> SUFFICES ASSUME TypeOK, ReasonsHold, NEW w \in Checkers,
                      check[w].pc = "mail",
                      check[w].reason \in {"OverBudget", "OverPrincipalBudget"},
                      Budget <= PrincipalBudget
               PROVE  MailPercentile(check[w]) > 0
    BY DEF EndedIsTold
  <2> DEFINE c == check[w]
  <2>1. c \in Check /\ ReasonHolds(c)  BY DEF TypeOK, ReasonsHold
  <2>2. c.spend \in Nat /\ c.pspend \in Nat /\ Budget \in Nat /\ PrincipalBudget \in Nat
    BY <2>1, BudgetAssumption DEF Check
  <2>3. c.spend > Budget \/ c.pspend > Budget
    <3> HIDE DEF c
    <3>1. c.pc = "mail" /\ c.reason \in {"OverBudget", "OverPrincipalBudget"}  BY DEF c
    <3> QED  BY <2>1, <2>2, <3>1 DEF ReasonHolds
  <2>4. Threshold(Budget, c.spend) > 0 \/ Threshold(Budget, c.pspend) > 0
    <3> HIDE DEF c
    <3> QED  BY <2>2, <2>3, OverIsToldOf
  <2> QED  BY <2>4 DEF MailPercentile
<1>2. IInv => TypeOK  BY DEF IInv
<1> QED  BY InitInv, NextInv, ReasonsInv, <1>1, <1>2, PTL DEF Spec

-----------------------------------------------------------------------------
(* The budget of a lease *)

\* Nothing is stored for a day to come, nor more than a day has cost.
StoredInPast ==
    \A p \in Principals, a \in Accounts, d \in Days : d > day => stored[p][a][d] = 0

StoredWithinBill ==
    \A p \in Principals, a \in Accounts, d \in Days : stored[p][a][d] <= Cost(a, d)

\* A principal has one active lease.
OneLease == \A a, b \in Accounts, p \in Principals : Active(a, p) /\ Active(b, p) => a = b

\* What checks have stored for an account from day s on is still in the table.
Recorded(p, a, s) ==
    \A d \in Days : d >= s =>
        \/ stored[p][a][d] = 0
        \/ usage[d][p].acc = a /\ stored[p][a][d] <= usage[d][p].cost

\* The records of the days of an active lease are those of its account.
LeaseRecorded ==
    \A a \in Accounts, p \in Principals : Active(a, p) => Recorded(p, a, lease[a][p])

\* No check has come to another lease of the principal yet.
OthersUnseen(c) ==
    \A a \in Accounts \ {c.acc} : Active(a, c.prin) =>
        \A d \in Days : d >= lease[a][c.prin] => stored[c.prin][a][d] = 0

\* The sum of what has been stored on the days from s to e.
Seen(c, s, e) == SumOver(stored[c.prin][c.acc], s .. e)

\* What a check has added up covers what has been stored of the days it has
\* read, and of today; the days it has not read yet are in the table.
Covered(c) ==
    /\ c.pc \in {"cost", "put", "lease"} => Recorded(c.prin, c.acc, c.start)
    /\ c.pc \in {"cost", "put"} => OthersUnseen(c)
    /\ c.pc = "put" => stored[c.prin][c.acc][c.day] <= c.today
    /\ c.pc = "lease" /\ c.put =>
          Seen(c, c.start, c.next - 1) + stored[c.prin][c.acc][c.day] <= c.spend
    /\ LeaseAdded(c) /\ c.put => Seen(c, c.start, c.day) <= c.spend

ChecksCovered == \A w \in Checkers : Covered(check[w])

SeenInv ==
    /\ StoredInPast
    /\ StoredWithinBill
    /\ OneLease
    /\ LeaseRecorded
    /\ ChecksCovered

-----------------------------------------------------------------------------

\* The sum of the property is the sum of the lemmas.
LEMMA KnownIsSeen ==
    ASSUME NEW p, NEW a, NEW s, NEW e
    PROVE  Known(p, a, s, e) = SumOver(stored[p][a], s .. e)
BY DEF Known, KnownOf, SumOver

\* The sum over some days, one day after the other.
LEMMA SumOfDays ==
    ASSUME NEW s \in Int, NEW e \in Int, NEW f, \A d \in s .. e : f[d] \in Int
    PROVE  /\ SumOver(f, s .. e) \in Int
           /\ e < s => SumOver(f, s .. e) = 0
           /\ s <= e => SumOver(f, s .. e) = SumOver(f, s .. (e - 1)) + f[e]
<1>1. IsFiniteSet(s .. e)  BY FS_Interval
<1>2. /\ SumOver(f, {}) = 0
      /\ SumOver(f, s .. e) \in Int
      /\ \A d \in s .. e : SumOver(f, s .. e) = f[d] + SumOver(f, (s .. e) \ {d})
  BY <1>1, SumFacts
<1>3. e < s => s .. e = {}  OBVIOUS
<1>4. ASSUME s <= e
      PROVE  SumOver(f, s .. e) = SumOver(f, s .. (e - 1)) + f[e]
  <2>1. e \in s .. e /\ (s .. e) \ {e} = s .. (e - 1)  BY <1>4
  <2>2. \A d \in s .. (e - 1) : f[d] \in Int  OBVIOUS
  <2>3. SumOver(f, s .. (e - 1)) \in Int
    <3>1. IsFiniteSet(s .. (e - 1))  BY FS_Interval
    <3> QED  BY <2>2, <3>1, SumFacts
  <2>4. SumOver(f, s .. e) = f[e] + SumOver(f, s .. (e - 1))  BY <1>2, <2>1
  <2>5. f[e] \in Int  BY <2>1
  <2> QED  BY <2>3, <2>4, <2>5
<1> QED  BY <1>2, <1>3, <1>4

\* A step of one execution leaves the others covered.
LEMMA OwnRecord ==
    ASSUME TypeOK, ChecksCovered, NEW w \in Checkers, NEW r,
           check' = [check EXCEPT ![w] = r], Covered(r)
    PROVE  \A v \in Checkers : Covered(check'[v])
<1> TAKE v \in Checkers
<1>1. CASE v = w  BY <1>1 DEF TypeOK
<1>2. CASE v # w
  <2>1. check'[v] = check[v]  BY <1>2 DEF TypeOK
  <2> QED  BY <2>1 DEF ChecksCovered
<1> QED  BY <1>1, <1>2

\* What an execution that is not idle has to do with.
LEMMA Busy ==
    ASSUME IInv, NEW w \in Checkers
    PROVE  /\ check[w] \in Check
           /\ check[w].pc # "idle" =>
                 /\ check[w].acc \in Accounts /\ check[w].prin \in Principals
                 /\ check[w].start \in Days /\ check[w].start <= day
           /\ check[w].pc \in {"put", "lease", "principal", "expire", "mail"} =>
                 /\ check[w].day \in Days /\ check[w].start <= check[w].day
                 /\ check[w].day <= day
<1> DEFINE c == check[w]
<1>1. c \in Check /\ WithinBill(c) /\ day \in Days  BY CheckFacts
<1>2. c.pc # "idle" => c.acc \in Accounts /\ c.prin \in Principals /\ c.start \in 1 .. day
  BY <1>1 DEF WithinBill
<1>3. c.pc \in {"put", "lease", "principal", "expire", "mail"} => c.day \in c.start .. day
  BY <1>1 DEF WithinBill
<1>4. c.day \in 0 .. LastDay /\ c.start \in 0 .. LastDay  BY <1>1 DEF Check
<1> HIDE DEF c
<1>5. c.pc # "idle" => c.start \in Days /\ c.start <= day
  BY <1>1, <1>2, <1>4, Numbers DEF Days
<1>6. c.pc \in {"put", "lease", "principal", "expire", "mail"} =>
         c.day \in Days /\ c.start <= c.day /\ c.day <= day
  BY <1>1, <1>2, <1>3, <1>4, Numbers DEF Days
<1> QED  BY <1>1, <1>2, <1>5, <1>6 DEF c

\* Steps that leave the records alone, and end leases if anything.
LEMMA RecordsStay ==
    ASSUME IInv, IInv', SeenInv, UNCHANGED <<usage, stored>>, day <= day',
           \A a \in Accounts, d \in Days : Cost(a, d) <= Cost(a, d)',
           \A a \in Accounts, p \in Principals : lease'[a][p] \in {0, lease[a][p]},
           \A v \in Checkers : Covered(check'[v])
    PROVE  SeenInv'
<1>1. StoredInPast'
  <2>1. day \in Int /\ day' \in Int /\ \A d \in Days : d \in Int
    BY Numbers DEF IInv, TypeOK, Days
  <2> QED  BY <2>1 DEF SeenInv, StoredInPast
<1>2. StoredWithinBill'
  <2> SUFFICES ASSUME NEW p \in Principals, NEW a \in Accounts, NEW d \in Days
               PROVE  stored[p][a][d] <= Cost(a, d)'
    BY DEF StoredWithinBill
  <2>1. stored[p][a][d] <= Cost(a, d)  BY DEF SeenInv, StoredWithinBill
  <2>2. Cost(a, d) <= Cost(a, d)'  OBVIOUS
  <2>3. stored[p][a][d] \in Int  BY DEF IInv, TypeOK
  <2>4. Cost(a, d) \in Int  BY CostIsNat
  <2>5. Cost(a, d)' \in Int
    <3>1. d \in 0 .. LastDay /\ d - 1 \in 0 .. LastDay  BY Numbers DEF Days
    <3>2. bill' \in [Accounts -> [0 .. LastDay -> Nat]]  BY DEF IInv, TypeOK
    <3>3. bill'[a][d] \in Nat /\ bill'[a][d - 1] \in Nat  BY <3>1, <3>2
    <3> QED  BY <3>3 DEF Cost
  <2> QED  BY <2>1, <2>2, <2>3, <2>4, <2>5
<1>3. \A a \in Accounts, p \in Principals :
        Active(a, p)' => Active(a, p) /\ lease'[a][p] = lease[a][p]
  BY DEF Active
<1>4. OneLease'  BY <1>3 DEF SeenInv, OneLease
<1>5. LeaseRecorded'  BY <1>3 DEF SeenInv, LeaseRecorded, Recorded
<1>6. ASSUME NEW v \in Checkers PROVE Covered(check[v])'
  <2> DEFINE c == check'[v]
  <2>1. Covered(c)  OBVIOUS
  <2>2. c.pc # "idle" => c.prin \in Principals
    <3>1. WithinBill(check[v])'  BY DEF IInv, CheckWithinBill
    <3> QED  BY <3>1 DEF WithinBill
  <2> HIDE DEF c
  <2>3. c.pc \in {"cost", "put", "lease"} =>
             \A d \in Days : d >= c.start =>
                \/ stored'[c.prin][c.acc][d] = 0
                \/ usage'[d][c.prin].acc = c.acc /\ stored'[c.prin][c.acc][d] <= usage'[d][c.prin].cost
    BY <2>1 DEF Covered, Recorded
  <2>4. c.pc \in {"cost", "put"} =>
          \A a \in Accounts \ {c.acc} : lease'[a][c.prin] # 0 =>
             \A d \in Days : d >= lease'[a][c.prin] => stored'[c.prin][a][d] = 0
    <3>1. c.pc \in {"cost", "put"} => OthersUnseen(c)  BY <2>1 DEF Covered
    <3>2. c.pc \in {"cost", "put"} => \A a \in Accounts \ {c.acc} :
             lease'[a][c.prin] # 0 => /\ lease[a][c.prin] # 0
                                      /\ lease'[a][c.prin] = lease[a][c.prin]
      BY <2>2
    <3>3. UNCHANGED stored  OBVIOUS
    <3> QED  BY <3>1, <3>2, <3>3 DEF OthersUnseen, Active
  <2>5. /\ c.pc = "put" => stored'[c.prin][c.acc][c.day] <= c.today
        /\ c.pc = "lease" /\ c.put =>
             SumOver(stored'[c.prin][c.acc], c.start .. (c.next - 1))
               + stored'[c.prin][c.acc][c.day] <= c.spend
        /\ c.pc \in {"principal", "expire", "mail"} /\ c.put =>
             SumOver(stored'[c.prin][c.acc], c.start .. c.day) <= c.spend
    BY <2>1 DEF Covered, Seen, LeaseAdded
  <2>6. c = check'[v]  BY DEF c
  <2> QED
    BY <2>3, <2>4, <2>5, <2>6, Zenon
    DEF Covered, Recorded, OthersUnseen, Active, Seen, LeaseAdded
<1> QED  BY <1>1, <1>2, <1>4, <1>5, <1>6 DEF SeenInv, ChecksCovered

\* A record of an execution that is done has nothing to say.
LEMMA NothingToCover ==
    ASSUME NEW r, r.pc = "idle"
    PROVE  Covered(r)
BY DEF Covered, LeaseAdded

\* Steps that only change what an execution has read.
LEMMA OwnStep ==
    ASSUME IInv, IInv', SeenInv, NEW w \in Checkers, NEW r, Covered(r),
           check' = [check EXCEPT ![w] = r], UNCHANGED <<env, lease, usage, stored>>
    PROVE  SeenInv'
<1>1. \A v \in Checkers : Covered(check'[v])
  <2>1. TypeOK /\ ChecksCovered  BY DEF IInv, SeenInv
  <2> QED  BY <2>1, OwnRecord
<1>2. \A a \in Accounts, d \in Days : Cost(a, d) <= Cost(a, d)'
  <2> TAKE a \in Accounts, d \in Days
  <2>1. Cost(a, d)' = Cost(a, d)  BY DEF Cost, env
  <2>2. Cost(a, d) \in Nat  BY CostIsNat
  <2> QED  BY <2>1, <2>2
<1>3. day <= day'
  <2>1. day \in Nat  BY Numbers DEF IInv, TypeOK, Days
  <2> QED  BY <2>1 DEF env
<1>4. \A a \in Accounts, p \in Principals : lease'[a][p] \in {0, lease[a][p]}
  OBVIOUS
<1>5. UNCHANGED <<usage, stored>>  OBVIOUS
<1> QED  BY <1>1, <1>2, <1>3, <1>4, <1>5, RecordsStay

\* Today's cost is no less than any check has stored for today.
LEMMA CalculateTotalSpendSeen ==
    ASSUME IInv, IInv', SeenInv, NEW w \in Checkers, CalculateTotalSpend(w)
    PROVE  SeenInv'
<1> DEFINE c == check[w]
           r == [c EXCEPT !.pc = "put", !.day = day, !.today = Cost(c.acc, day)]
<1>1. c.pc = "cost" /\ check' = [check EXCEPT ![w] = r]
      /\ UNCHANGED <<env, lease, usage, stored>>
  BY CheckFacts DEF CalculateTotalSpend, At
<1>2. c \in Check /\ c.acc \in Accounts /\ c.prin \in Principals /\ day \in Days
  BY <1>1, Busy, CheckFacts
<1>3. Covered(c)  BY DEF SeenInv, ChecksCovered
<1>4. stored[c.prin][c.acc][day] <= Cost(c.acc, day)
  BY <1>2 DEF SeenInv, StoredWithinBill
<1> HIDE DEF c
<1>5. /\ r.pc = "put" /\ r.day = day /\ r.today = Cost(c.acc, day)
      /\ r.acc = c.acc /\ r.prin = c.prin /\ r.start = c.start
  BY <1>2 DEF Check
<1> HIDE DEF r
<1>6. Recorded(r.prin, r.acc, r.start)  BY <1>1, <1>3, <1>5 DEF Covered
<1>7. OthersUnseen(r)
  <2>1. OthersUnseen(c)  BY <1>1, <1>3 DEF Covered
  <2> QED  BY <1>5, <2>1 DEF OthersUnseen
<1>8. Covered(r)  BY <1>4, <1>5, <1>6, <1>7 DEF Covered, LeaseAdded
<1> QED  BY <1>1, <1>8, OwnStep

\* A check that could not store today's cost covers nothing, and need not.
LEMMA PutUsageFailsSeen ==
    ASSUME IInv, IInv', SeenInv, NEW w \in Checkers, PutUsageFails(w)
    PROVE  SeenInv'
<1> DEFINE c == check[w]
           r == [c EXCEPT !.pc = "lease", !.next = c.day]
<1>1. c.pc = "put" /\ check' = [check EXCEPT ![w] = r]
      /\ UNCHANGED <<env, lease, usage, stored>>
  BY CheckFacts DEF PutUsageFails, At
<1>2. c \in Check /\ ~c.put  BY <1>1, CheckFacts DEF WithinBill
<1>3. Covered(c)  BY DEF SeenInv, ChecksCovered
<1> HIDE DEF c
<1>4. /\ r.pc = "lease" /\ ~r.put
      /\ r.acc = c.acc /\ r.prin = c.prin /\ r.start = c.start
  BY <1>2 DEF Check
<1> HIDE DEF r
<1>5. Recorded(r.prin, r.acc, r.start)  BY <1>1, <1>3, <1>4 DEF Covered
<1>6. Covered(r)  BY <1>4, <1>5 DEF Covered, LeaseAdded
<1> QED  BY <1>1, <1>6, OwnStep

\* What has been stored in the days of a lease can be added up.
LEMMA SeenFacts ==
    ASSUME IInv, NEW c, c.prin \in Principals, c.acc \in Accounts,
           NEW s \in Days, NEW e \in Days
    PROVE  /\ Seen(c, s, e) \in Int
           /\ Seen(c, s, s - 1) = 0
           /\ s <= e => /\ Seen(c, s, e - 1) \in Int
                        /\ Seen(c, s, e) = Seen(c, s, e - 1) + stored[c.prin][c.acc][e]
<1> DEFINE f == stored[c.prin][c.acc]
<1>1. \A d \in Days : f[d] \in Int  BY DEF IInv, TypeOK
<1>2. s \in Int /\ e \in Int /\ s - 1 \in Int /\ e - 1 \in Int
      /\ s .. e \subseteq Days /\ s .. (e - 1) \subseteq Days /\ s .. (s - 1) = {}
  BY Numbers DEF Days
<1> HIDE DEF f
<1>3. SumOver(f, s .. e) \in Int
      /\ (s <= e => SumOver(f, s .. e) = SumOver(f, s .. (e - 1)) + f[e])
  BY <1>1, <1>2, SumOfDays
<1>4. SumOver(f, s .. (e - 1)) \in Int  BY <1>1, <1>2, SumOfDays
<1>5. SumOver(f, s .. (s - 1)) = 0
  <2>1. s - 1 < s /\ \A d \in s .. (s - 1) : f[d] \in Int  BY <1>2
  <2> QED  BY <1>2, <2>1, SumOfDays
<1> QED  BY <1>3, <1>4, <1>5 DEF Seen, f

\* A day of the lease is read: its record is the one that was stored, as it is
\* not today's.
LEMMA AddLeaseDaySeen ==
    ASSUME IInv, IInv', SeenInv, NEW w \in Checkers, AddLeaseDay(w)
    PROVE  SeenInv'
<1> DEFINE c == check[w]
           f == usage[c.next][c.prin]
           n == c.spend + IF f.acc = c.acc THEN f.cost ELSE 0
           r == [c EXCEPT !.next = c.next + 1, !.spend = n]
<1>0. At(w, "lease") /\ c.next < c.day  BY DEF AddLeaseDay
<1>1. /\ c \in Check /\ c.pc = "lease" /\ c.prin \in Principals /\ c.acc \in Accounts
      /\ c.start \in Days /\ c.day \in Days /\ c.day <= day
      /\ c.next \in c.start .. c.day /\ WithinBill(c)
  BY <1>0, Busy, CheckFacts DEF At, WithinBill
<1>2. Covered(c)  BY DEF SeenInv, ChecksCovered
<1>3. c.next # day /\ c.next \in Days /\ c.start <= c.next
  <2> HIDE DEF c
  <2> QED  BY <1>0, <1>1, CheckFacts, Numbers DEF Days
<1>4. check' = [check EXCEPT ![w] = r] /\ UNCHANGED <<env, lease, usage, stored>>
  BY <1>3 DEF AddLeaseDay, Found
<1>5. f \in Record /\ f.cost \in Nat
  <2>1. f \in Record  BY <1>1, <1>3 DEF IInv, TypeOK
  <2> QED  BY <2>1 DEF Record
<1>6. \/ stored[c.prin][c.acc][c.next] = 0
      \/ f.acc = c.acc /\ stored[c.prin][c.acc][c.next] <= f.cost
  <2>1. Recorded(c.prin, c.acc, c.start)  BY <1>1, <1>2 DEF Covered
  <2> QED  BY <1>3, <2>1 DEF Recorded
<1>7. c.put => Seen(c, c.start, c.next - 1) + stored[c.prin][c.acc][c.day] <= c.spend
  BY <1>1, <1>2 DEF Covered
<1>8. /\ Seen(c, c.start, c.next - 1) \in Int
      /\ Seen(c, c.start, c.next) = Seen(c, c.start, c.next - 1) + stored[c.prin][c.acc][c.next]
  BY <1>1, <1>3, SeenFacts
<1>9. stored[c.prin][c.acc][c.next] \in Nat /\ stored[c.prin][c.acc][c.day] \in Nat
      /\ c.spend \in Nat /\ c.next + 1 - 1 = c.next
  <2>0. stored \in [Principals -> [Accounts -> [Days -> Nat]]]  BY DEF IInv, TypeOK
  <2>1. stored[c.prin][c.acc] \in [Days -> Nat]  BY <1>1, <2>0
  <2>2. c.spend \in Nat  BY <1>1 DEF Check
  <2>3. c.next + 1 - 1 = c.next
    <3> HIDE DEF c
    <3> QED  BY <1>3, Numbers DEF Days
  <2> QED  BY <1>1, <1>3, <2>1, <2>2, <2>3
<1> HIDE DEF c
<1>10. c.put => Seen(c, c.start, c.next) + stored[c.prin][c.acc][c.day] <= n
  <2> HIDE DEF f
  <2> QED  BY <1>5, <1>6, <1>7, <1>8, <1>9
<1> HIDE DEF n
<1>11. /\ r.pc = "lease" /\ r.put = c.put /\ r.acc = c.acc /\ r.prin = c.prin
       /\ r.start = c.start /\ r.day = c.day /\ r.next = c.next + 1 /\ r.spend = n
  BY <1>1 DEF Check
<1> HIDE DEF r
<1>12. r.put => Seen(r, r.start, r.next - 1) + stored[r.prin][r.acc][r.day] <= r.spend
  <2>1. r.next - 1 = c.next
    <3>1. c.next \in Int  BY <1>3, Numbers DEF Days
    <3>2. r.next = c.next + 1  BY <1>11
    <3> QED  BY <3>1, <3>2
  <2>2. SumOver(stored[r.prin][r.acc], r.start .. (r.next - 1)) = Seen(c, c.start, c.next)
    BY <1>11, <2>1 DEF Seen
  <2>3. Seen(r, r.start, r.next - 1) = Seen(c, c.start, c.next)  BY <2>2 DEF Seen
  <2> QED  BY <1>10, <1>11, <2>3
<1>13. Recorded(r.prin, r.acc, r.start)  BY <1>1, <1>2, <1>11 DEF Covered
<1>14. Covered(r)  BY <1>11, <1>12, <1>13 DEF Covered, LeaseAdded
<1> QED  BY <1>4, <1>14, OwnStep DEF c

\* The days before today have been read, and today was counted first.
LEMMA BeginPrincipalSpendSeen ==
    ASSUME IInv, IInv', SeenInv, NEW w \in Checkers, BeginPrincipalSpend(w)
    PROVE  SeenInv'
<1> DEFINE c == check[w]
           r == [c EXCEPT !.pc = "principal", !.last = day, !.next = PeriodStart(day)]
<1>0. c.pc = "lease" /\ c.next >= c.day /\ check' = [check EXCEPT ![w] = r]
      /\ UNCHANGED <<env, lease, usage, stored>>
  BY CheckFacts DEF BeginPrincipalSpend, At
<1>1. /\ c \in Check /\ c.prin \in Principals /\ c.acc \in Accounts
      /\ c.start \in Days /\ c.day \in Days /\ c.start <= c.day
      /\ c.next \in c.start .. c.day
  BY <1>0, Busy, CheckFacts DEF WithinBill
<1>2. Covered(c)  BY DEF SeenInv, ChecksCovered
<1> HIDE DEF c
<1>3. c.next = c.day  BY <1>0, <1>1, Numbers DEF Days
<1>4. c.put => Seen(c, c.start, c.day - 1) + stored[c.prin][c.acc][c.day] <= c.spend
  BY <1>0, <1>2, <1>3 DEF Covered
<1>5. Seen(c, c.start, c.day) = Seen(c, c.start, c.day - 1) + stored[c.prin][c.acc][c.day]
  BY <1>1, SeenFacts
<1>6. /\ r.pc = "principal" /\ r.put = c.put /\ r.acc = c.acc /\ r.prin = c.prin
      /\ r.start = c.start /\ r.day = c.day /\ r.spend = c.spend
  BY <1>1 DEF Check
<1> HIDE DEF r
<1>7. r.put => Seen(r, r.start, r.day) <= r.spend  BY <1>4, <1>5, <1>6 DEF Seen
<1>8. Covered(r)  BY <1>6, <1>7 DEF Covered
<1> QED  BY <1>0, <1>8, OwnStep DEF c

\* What has been added up of the lease is not touched again.
LEMMA AddedStays ==
    ASSUME IInv, SeenInv, NEW w \in Checkers, LeaseAdded(check[w]),
           NEW r, r.pc \in {"principal", "expire", "mail"}, r.put = check[w].put,
           r.acc = check[w].acc, r.prin = check[w].prin, r.start = check[w].start,
           r.day = check[w].day, r.spend = check[w].spend
    PROVE  Covered(r)
<1>1. Covered(check[w])  BY DEF SeenInv, ChecksCovered
<1>2. check[w].put => Seen(check[w], check[w].start, check[w].day) <= check[w].spend
  BY <1>1 DEF Covered
<1>3. r.put => Seen(r, r.start, r.day) <= r.spend  BY <1>2 DEF Seen
<1> QED  BY <1>3 DEF Covered

\* The principal's days are added up on their own.
LEMMA AddPrincipalDaySeen ==
    ASSUME IInv, IInv', SeenInv, NEW w \in Checkers, AddPrincipalDay(w)
    PROVE  SeenInv'
<1> DEFINE c == check[w]
<1>1. PICK f \in Found(c.next, c.prin) :
        check' = [check EXCEPT ![w] = [c EXCEPT !.next = c.next + 1,
                                                !.pspend = c.pspend + f.cost]]
  BY DEF AddPrincipalDay
<1> DEFINE r == [c EXCEPT !.next = c.next + 1, !.pspend = c.pspend + f.cost]
<1>2. c.pc = "principal" /\ c \in Check /\ UNCHANGED <<env, lease, usage, stored>>
  BY CheckFacts DEF AddPrincipalDay, At
<1>3. /\ r.pc = "principal" /\ r.put = c.put /\ r.acc = c.acc /\ r.prin = c.prin
      /\ r.start = c.start /\ r.day = c.day /\ r.spend = c.spend
  <2> HIDE DEF c
  <2> QED  BY <1>2 DEF Check
<1> HIDE DEF r
<1>4. Covered(r)  BY <1>2, <1>3, AddedStays DEF LeaseAdded
<1> QED  BY <1>1, <1>2, <1>4, OwnStep DEF r

\* The decision changes no sum.
LEMMA DecideSeen ==
    ASSUME IInv, IInv', SeenInv, NEW w \in Checkers, Decide(w)
    PROVE  SeenInv'
<1> DEFINE c == check[w]
           x == Reason(c)
           r == [c EXCEPT !.reason = x, !.pc = IF x = "Active" THEN "mail" ELSE "expire"]
<1>1. /\ c.pc = "principal" /\ c \in Check /\ check' = [check EXCEPT ![w] = r]
      /\ UNCHANGED <<env, lease, usage, stored>>
  BY CheckFacts DEF Decide, At
<1>2. /\ r.pc \in {"expire", "mail"} /\ r.put = c.put /\ r.acc = c.acc /\ r.prin = c.prin
      /\ r.start = c.start /\ r.day = c.day /\ r.spend = c.spend
  <2> HIDE DEF c, x
  <2> QED  BY <1>1 DEF Check
<1> HIDE DEF r
<1>3. Covered(r)  BY <1>1, <1>2, AddedStays DEF LeaseAdded
<1> QED  BY <1>1, <1>3, OwnStep

\* Steps after which an execution has its mail to send.
LEMMA ToMailCovered ==
    ASSUME IInv, SeenInv, NEW w \in Checkers, At(w, "expire")
    PROVE  Covered([check[w] EXCEPT !.pc = "mail"])
<1> DEFINE c == check[w]
           r == [c EXCEPT !.pc = "mail"]
<1>1. c.pc = "expire" /\ c \in Check  BY CheckFacts DEF At
<1>2. /\ r.pc = "mail" /\ r.put = c.put /\ r.acc = c.acc /\ r.prin = c.prin
      /\ r.start = c.start /\ r.day = c.day /\ r.spend = c.spend
  <2> HIDE DEF c
  <2> QED  BY <1>1 DEF Check
<1> HIDE DEF r
<1>3. Covered(r)  BY <1>1, <1>2, AddedStays DEF LeaseAdded
<1> QED  BY <1>3 DEF r

\* The lease ends, or not, and the mail is due.
LEMMA ExpireLeaseSeen ==
    ASSUME IInv, IInv', SeenInv, NEW w \in Checkers, ExpireLease(w) \/ ExpireLeaseFails(w)
    PROVE  SeenInv'
<1> DEFINE c == check[w]
           r == [c EXCEPT !.pc = "mail"]
<1>1. At(w, "expire") /\ check' = [check EXCEPT ![w] = r]
      /\ UNCHANGED <<env, usage, stored>>
  BY DEF ExpireLease, ExpireLeaseFails
<1>2. Covered(r)  BY <1>1, ToMailCovered
<1>3. \A v \in Checkers : Covered(check'[v])
  <2>1. TypeOK /\ ChecksCovered  BY DEF IInv, SeenInv
  <2> HIDE DEF r
  <2> QED  BY <1>1, <1>2, <2>1, OwnRecord
<1>4. \A a \in Accounts, p \in Principals : lease'[a][p] \in {0, lease[a][p]}
  <2>1. CASE lease' = lease  BY <2>1
  <2>2. CASE lease' = [lease EXCEPT ![c.acc][c.prin] = 0]
    <3>1. lease \in [Accounts -> [Principals -> 0 .. LastDay]]  BY DEF IInv, TypeOK
    <3> HIDE DEF c
    <3> QED  BY <2>2, <3>1
  <2> QED  BY <2>1, <2>2 DEF ExpireLease, ExpireLeaseFails
<1>5. \A a \in Accounts, d \in Days : Cost(a, d) <= Cost(a, d)'
  <2> TAKE a \in Accounts, d \in Days
  <2>1. Cost(a, d)' = Cost(a, d)  BY <1>1 DEF Cost, env
  <2>2. Cost(a, d) \in Nat  BY CostIsNat
  <2> QED  BY <2>1, <2>2
<1>6. day <= day'
  <2>1. day \in Nat  BY Numbers DEF IInv, TypeOK, Days
  <2> QED  BY <1>1, <2>1 DEF env
<1> QED  BY <1>1, <1>3, <1>4, <1>5, <1>6, RecordsStay

\* The check is over.
LEMMA DoneSeen ==
    ASSUME IInv, IInv', SeenInv, NEW w \in Checkers, Done(w),
           UNCHANGED <<env, lease, usage, stored>>
    PROVE  SeenInv'
<1>1. Covered(NoCheck)  BY NothingToCover DEF NoCheck
<1>2. check' = [check EXCEPT ![w] = NoCheck]  BY DEF Done
<1> QED  BY <1>1, <1>2, OwnStep

\* An invocation that comes while its lease lives finds the table in order.
LEMMA BeginSeen ==
    ASSUME ~LateChecks, IInv, IInv', SeenInv, NEW w \in Checkers, NEW a \in Accounts,
           NEW p \in Principals, NEW s \in Days, Begin(w, a, p, s)
    PROVE  SeenInv'
<1> DEFINE r == [NoCheck EXCEPT !.pc = "cost", !.acc = a, !.prin = p, !.start = s]
<1>1. lease[a][p] = s /\ check' = [check EXCEPT ![w] = r]
      /\ UNCHANGED <<env, lease, usage, stored>>
  BY DEF Begin
<1>2. r.pc = "cost" /\ r.acc = a /\ r.prin = p /\ r.start = s /\ r.put = FALSE
  BY DEF NoCheck
<1> HIDE DEF r
<1>3. Active(a, p)  BY <1>1, Numbers DEF Active, Days
<1>4. Recorded(p, a, s)  BY <1>1, <1>3 DEF SeenInv, LeaseRecorded
<1>5. OthersUnseen(r)
  <2>1. \A b \in Accounts : Active(b, p) => b = a  BY <1>3 DEF SeenInv, OneLease
  <2> QED  BY <1>2, <2>1 DEF OthersUnseen
<1>6. Covered(r)  BY <1>2, <1>4, <1>5 DEF Covered, LeaseAdded
<1> QED  BY <1>1, <1>6, OwnStep

\* Steps of the world: the day comes, costs become known, leases are ended
\* and listed.
LEMMA WorldSeen ==
    ASSUME IInv, IInv', SeenInv,
           \/ NextDay
           \/ \E a \in Accounts, d \in Days : Spend(a, d)
           \/ \E a \in Accounts, p \in Principals :
                DeleteLease(a, p) \/ FanOut(a, p) \/ \E s \in Days : Discard(a, p, s)
    PROVE  SeenInv'
<1>1. UNCHANGED <<usage, stored, check>>
  BY DEF NextDay, Spend, DeleteLease, FanOut, Discard
<1>2. \A v \in Checkers : Covered(check'[v])  BY <1>1 DEF SeenInv, ChecksCovered
<1>3. day <= day'
  <2>1. day \in Nat  BY Numbers DEF IInv, TypeOK, Days
  <2>2. day' \in {day, day + 1}  BY DEF NextDay, Spend, DeleteLease, FanOut, Discard, env
  <2> QED  BY <2>1, <2>2
<1>4. \A a \in Accounts, p \in Principals : lease'[a][p] \in {0, lease[a][p]}
  <2>1. CASE UNCHANGED lease  BY <2>1
  <2>2. ASSUME NEW a \in Accounts, NEW p \in Principals, DeleteLease(a, p)
        PROVE  \A b \in Accounts, q \in Principals : lease'[b][q] \in {0, lease[b][q]}
    <3>1. lease \in [Accounts -> [Principals -> 0 .. LastDay]]  BY DEF IInv, TypeOK
    <3>2. lease' = [lease EXCEPT ![a][p] = 0]  BY <2>2 DEF DeleteLease
    <3> QED  BY <3>1, <3>2
  <2> QED  BY <2>1, <2>2 DEF NextDay, Spend, FanOut, Discard
<1>5. \A a \in Accounts, d \in Days : Cost(a, d) <= Cost(a, d)'
  <2> SUFFICES ASSUME NEW a \in Accounts, NEW d \in Days
               PROVE  Cost(a, d) <= Cost(a, d)'
    OBVIOUS
  <2>1. Cost(a, d) \in Nat /\ d \in 0 .. LastDay /\ d - 1 \in 0 .. LastDay  BY CostIsNat
  <2>2. CASE UNCHANGED bill
    <3>1. Cost(a, d)' = Cost(a, d)  BY <2>2 DEF Cost
    <3> QED  BY <2>1, <3>1
  <2>3. ASSUME NEW b \in Accounts, NEW e \in Days, Spend(b, e)
        PROVE  Cost(a, d) <= Cost(a, d)'
    <3>1. SpansGrow  BY <2>3, SpendGrows DEF IInv
    <3>2. d - 1 <= d  BY <2>1
    <3> QED  BY <2>1, <3>1, <3>2 DEF SpansGrow, Cost
  <2> QED  BY <2>2, <2>3 DEF NextDay, DeleteLease, FanOut, Discard, env
<1> QED  BY <1>1, <1>2, <1>3, <1>4, <1>5, RecordsStay

\* What a sum over the days of a lease comes to when nothing is added to what
\* it is over.
LEMMA SeenFalls ==
    ASSUME NEW f, NEW h, \A d \in Days : f[d] \in Nat /\ h[d] \in Nat /\ h[d] <= f[d],
           NEW s \in Days, NEW e \in 0 .. LastDay
    PROVE  /\ SumOver(h, s .. e) <= SumOver(f, s .. e)
           /\ SumOver(h, s .. e) \in Int /\ SumOver(f, s .. e) \in Int
<1>1. s \in Int /\ e \in Int /\ s .. e \subseteq Days /\ IsFiniteSet(s .. e)
  BY Numbers, FS_Interval DEF Days
<1>2. \A d \in s .. e : f[d] \in Int /\ h[d] \in Int /\ h[d] <= f[d]  BY <1>1
<1>3. SumOver(h, s .. e) <= SumOver(f, s .. e)  BY <1>1, <1>2, SumGrows
<1>4. SumOver(h, s .. e) \in Int /\ SumOver(f, s .. e) \in Int  BY <1>1, <1>2, SumOfDays
<1> QED  BY <1>3, <1>4

\* A new lease of an account begins with nothing stored for it.
LEMMA CreateLeaseSeen ==
    ASSUME IInv, IInv', SeenInv, NEW a \in Accounts, NEW p \in Principals,
           CreateLease(a, p)
    PROVE  SeenInv'
<1>1. /\ lease' = [lease EXCEPT ![a][p] = day]
      /\ stored' = [stored EXCEPT ![p][a][day] = 0]
      /\ UNCHANGED <<day, bill, usage, check>>
      /\ \A b \in Accounts : ~Active(b, p)
  BY DEF CreateLease, env
<1>2. /\ lease \in [Accounts -> [Principals -> 0 .. LastDay]]
      /\ stored \in [Principals -> [Accounts -> [Days -> Nat]]]
      /\ day \in Days /\ day \in Nat
  <2>1. TypeOK  BY DEF IInv
  <2>2. day \in Nat  BY <2>1, Numbers DEF TypeOK, Days
  <2> QED  BY <2>1, <2>2 DEF TypeOK
<1>3. \A b \in Accounts, q \in Principals :
        lease'[b][q] = IF b = a /\ q = p THEN day ELSE lease[b][q]
  BY <1>1, <1>2
<1>4. \A q \in Principals, b \in Accounts, d \in Days :
        stored'[q][b][d] = IF q = p /\ b = a /\ d = day THEN 0 ELSE stored[q][b][d]
  BY <1>1, <1>2
<1>5. \A q \in Principals, b \in Accounts, d \in Days :
        /\ stored[q][b][d] \in Nat /\ stored'[q][b][d] \in Nat
        /\ stored'[q][b][d] <= stored[q][b][d]
        /\ stored'[q][b][d] \in {0, stored[q][b][d]}
  BY <1>2, <1>4
<1>6. \A d \in Days : d >= day => stored'[p][a][d] = 0
  <2> SUFFICES ASSUME NEW d \in Days, d >= day PROVE stored'[p][a][d] = 0  OBVIOUS
  <2>1. CASE d = day  BY <1>4, <2>1
  <2>2. CASE d # day
    <3>1. d > day  BY <1>2, <2>2, Numbers DEF Days
    <3> QED  BY <1>5, <3>1 DEF SeenInv, StoredInPast
  <2> QED  BY <2>1, <2>2
<1>7. \A b \in Accounts, q \in Principals :
        lease'[b][q] # 0 => (b = a /\ q = p) \/ (q # p /\ lease[b][q] # 0)
  BY <1>1, <1>3 DEF Active
<1>8. StoredInPast'  BY <1>1, <1>5 DEF SeenInv, StoredInPast
<1>9. StoredWithinBill'
  <2> SUFFICES ASSUME NEW q \in Principals, NEW b \in Accounts, NEW d \in Days
               PROVE  stored'[q][b][d] <= Cost(b, d)'
    BY DEF StoredWithinBill
  <2>1. stored[q][b][d] <= Cost(b, d) /\ Cost(b, d) \in Nat
    BY CostIsNat DEF SeenInv, StoredWithinBill
  <2>2. Cost(b, d)' = Cost(b, d)  BY <1>1 DEF Cost
  <2> QED  BY <1>5, <2>1, <2>2
<1>10. OneLease'
  <2>1. \A b, e \in Accounts, q \in Principals :
          lease[b][q] # 0 /\ lease[e][q] # 0 => b = e
    BY DEF SeenInv, OneLease, Active
  <2> QED  BY <1>7, <2>1 DEF OneLease, Active
<1>11. LeaseRecorded'
  <2> SUFFICES ASSUME NEW b \in Accounts, NEW q \in Principals, lease'[b][q] # 0,
                      NEW d \in Days, d >= lease'[b][q]
               PROVE  \/ stored'[q][b][d] = 0
                      \/ usage[d][q].acc = b /\ stored'[q][b][d] <= usage[d][q].cost
    BY <1>1 DEF LeaseRecorded, Recorded, Active
  <2>1. CASE b = a /\ q = p  BY <1>3, <1>6, <2>1
  <2>2. CASE q # p /\ lease[b][q] # 0
    <3>1. lease'[b][q] = lease[b][q] /\ stored'[q][b][d] = stored[q][b][d]
      BY <1>3, <1>4, <2>2
    <3> QED  BY <2>2, <3>1 DEF SeenInv, LeaseRecorded, Recorded, Active
  <2> QED  BY <1>7, <2>1, <2>2
<1>12. ASSUME NEW v \in Checkers PROVE Covered(check[v])'
  <2> DEFINE c == check[v]
  <2>1. check'[v] = c  BY <1>1
  <2>2. Covered(c)  BY DEF SeenInv, ChecksCovered
  <2>3. c \in Check /\ (c.pc # "idle" => c.acc \in Accounts /\ c.prin \in Principals
                                         /\ c.start \in Days)
        /\ (c.pc \in {"put", "lease", "principal", "expire", "mail"} => c.day \in Days)
    BY Busy
  <2>4. c.pc = "lease" => c.next \in c.start .. c.day
    BY CheckFacts DEF WithinBill
  <2> HIDE DEF c
  <2>5. CASE c.pc = "idle"  BY <2>1, <2>5 DEF Covered, LeaseAdded
  <2>6. CASE c.pc # "idle"
    <3> DEFINE f == stored[c.prin][c.acc]
               h == stored'[c.prin][c.acc]
    <3>1. \A d \in Days : /\ f[d] \in Nat /\ h[d] \in Nat /\ h[d] <= f[d]
                          /\ h[d] \in {0, f[d]}
      BY <1>5, <2>3, <2>6
    <3>2. c.pc \in {"cost", "put", "lease"} =>
            \A d \in Days : d >= c.start =>
               h[d] = 0 \/ (usage'[d][c.prin].acc = c.acc /\ h[d] <= usage'[d][c.prin].cost)
      <4>1. c.pc \in {"cost", "put", "lease"} =>
              \A d \in Days : d >= c.start =>
                 f[d] = 0 \/ (usage[d][c.prin].acc = c.acc /\ f[d] <= usage[d][c.prin].cost)
        BY <2>2 DEF Covered, Recorded
      <4>2. UNCHANGED usage  BY <1>1
      <4> HIDE DEF f, h
      <4> QED  BY <3>1, <4>1, <4>2
    <3>3. c.pc \in {"cost", "put"} =>
            \A b \in Accounts \ {c.acc} : lease'[b][c.prin] # 0 =>
               \A d \in Days : d >= lease'[b][c.prin] => stored'[c.prin][b][d] = 0
      <4> SUFFICES ASSUME c.pc \in {"cost", "put"}, NEW b \in Accounts \ {c.acc},
                          lease'[b][c.prin] # 0, NEW d \in Days, d >= lease'[b][c.prin]
                   PROVE  stored'[c.prin][b][d] = 0
        OBVIOUS
      <4>1. CASE b = a /\ c.prin = p  BY <1>3, <1>6, <4>1
      <4>2. CASE c.prin # p /\ lease[b][c.prin] # 0
        <5>1. OthersUnseen(c)  BY <2>2 DEF Covered
        <5>2. lease'[b][c.prin] = lease[b][c.prin]  BY <1>3, <2>3, <2>6, <4>2
        <5>3. stored[c.prin][b][d] = 0  BY <4>2, <5>1, <5>2 DEF OthersUnseen, Active
        <5> QED  BY <1>5, <2>3, <2>6, <5>3
      <4> QED  BY <1>7, <2>3, <2>6, <4>1, <4>2
    <3>4. c.pc = "put" => h[c.day] <= c.today
      <4>1. c.pc = "put" => f[c.day] <= c.today  BY <2>2 DEF Covered
      <4>2. c.today \in Nat  BY <2>3 DEF Check
      <4> HIDE DEF f, h
      <4> QED  BY <2>3, <3>1, <4>1, <4>2
    <3>5. c.pc = "lease" /\ c.put => SumOver(h, c.start .. (c.next - 1)) + h[c.day] <= c.spend
      <4> SUFFICES ASSUME c.pc = "lease", c.put
                   PROVE  SumOver(h, c.start .. (c.next - 1)) + h[c.day] <= c.spend
        OBVIOUS
      <4>1. SumOver(f, c.start .. (c.next - 1)) + f[c.day] <= c.spend
        BY <2>2 DEF Covered, Seen
      <4>2. c.spend \in Nat  BY <2>3 DEF Check
      <4>3. c.next - 1 \in 0 .. LastDay /\ c.start \in Days /\ c.day \in Days
        BY <2>3, <2>4, Numbers DEF Days
      <4> HIDE DEF f, h
      <4>4. /\ SumOver(h, c.start .. (c.next - 1)) <= SumOver(f, c.start .. (c.next - 1))
            /\ SumOver(h, c.start .. (c.next - 1)) \in Int
            /\ SumOver(f, c.start .. (c.next - 1)) \in Int
        BY <3>1, <4>3, SeenFalls
      <4>5. f[c.day] \in Nat /\ h[c.day] \in Nat /\ h[c.day] <= f[c.day]  BY <3>1, <4>3
      <4> QED  BY <4>1, <4>2, <4>4, <4>5
    <3>6. c.pc \in {"principal", "expire", "mail"} /\ c.put =>
             SumOver(h, c.start .. c.day) <= c.spend
      <4> SUFFICES ASSUME c.pc \in {"principal", "expire", "mail"}, c.put
                   PROVE  SumOver(h, c.start .. c.day) <= c.spend
        OBVIOUS
      <4>1. SumOver(f, c.start .. c.day) <= c.spend
        BY <2>2 DEF Covered, Seen, LeaseAdded
      <4>2. c.spend \in Nat  BY <2>3 DEF Check
      <4>3. c.day \in 0 .. LastDay /\ c.start \in Days  BY <2>3, Numbers DEF Days
      <4> HIDE DEF f, h
      <4>4. /\ SumOver(h, c.start .. c.day) <= SumOver(f, c.start .. c.day)
            /\ SumOver(h, c.start .. c.day) \in Int
            /\ SumOver(f, c.start .. c.day) \in Int
        BY <3>1, <4>3, SeenFalls
      <4> QED  BY <4>1, <4>2, <4>4
    <3> QED
      BY <2>1, <3>2, <3>3, <3>4, <3>5, <3>6, Zenon
      DEF Covered, Recorded, OthersUnseen, Active, Seen, LeaseAdded
  <2> QED  BY <2>5, <2>6
<1> QED  BY <1>8, <1>9, <1>10, <1>11, <1>12 DEF SeenInv, ChecksCovered

\* A check stores the cost of its lease and nobody else's: no other check of
\* the principal is under way to be told something different.
LEMMA PutUsageSeen ==
    ASSUME IInv, IInv', SeenInv, ChecksApart, NEW w \in Checkers, PutUsage(w)
    PROVE  SeenInv'
<1> DEFINE c == check[w]
           u == [acc |-> c.acc, cost |-> c.today]
           r == [c EXCEPT !.pc = "lease", !.put = TRUE, !.next = c.start, !.spend = c.today]
<1>1. /\ c.pc = "put"
      /\ usage' = [usage EXCEPT ![c.day][c.prin] = u]
      /\ check' = [check EXCEPT ![w] = r]
      /\ stored' = [stored EXCEPT ![c.prin][c.acc][c.day] =
                      Max2(stored[c.prin][c.acc][c.day], c.today)]
      /\ UNCHANGED <<day, bill, lease>>
  BY DEF PutUsage, At, env
<1>2. /\ c \in Check /\ c.acc \in Accounts /\ c.prin \in Principals
      /\ c.start \in Days /\ c.day \in Days /\ c.day <= day /\ c.start <= c.day
  BY <1>1, Busy
<1>3. c.today \in Nat /\ c.today <= Cost(c.acc, c.day)
  BY <1>1, CheckFacts DEF Check, WithinBill
<1>4. Covered(c)  BY DEF SeenInv, ChecksCovered
<1>5. stored[c.prin][c.acc][c.day] <= c.today  BY <1>1, <1>4 DEF Covered
<1>6. /\ lease \in [Accounts -> [Principals -> 0 .. LastDay]]
      /\ stored \in [Principals -> [Accounts -> [Days -> Nat]]]
      /\ usage \in [Days -> [Principals -> Record]]
      /\ check \in [Checkers -> Check]
      /\ day \in Days
  BY DEF IInv, TypeOK
<1>7. Max2(stored[c.prin][c.acc][c.day], c.today) = c.today
  <2>1. stored[c.prin][c.acc][c.day] \in Nat  BY <1>2, <1>6
  <2> HIDE DEF c
  <2> QED  BY <1>3, <1>5, <2>1 DEF Max2
<1>8. u.acc = c.acc /\ u.cost = c.today  OBVIOUS
<1> HIDE DEF u
<1>9. \A d \in Days, q \in Principals :
        usage'[d][q] = IF d = c.day /\ q = c.prin THEN u ELSE usage[d][q]
  BY <1>1, <1>2, <1>6
<1>10. \A q \in Principals, b \in Accounts, d \in Days :
         stored'[q][b][d] = IF q = c.prin /\ b = c.acc /\ d = c.day THEN c.today
                            ELSE stored[q][b][d]
  <2>1. stored' = [stored EXCEPT ![c.prin][c.acc][c.day] = c.today]  BY <1>1, <1>7
  <2> HIDE DEF c
  <2> QED  BY <1>2, <1>6, <2>1
<1>11. StoredInPast'
  <2> SUFFICES ASSUME NEW q \in Principals, NEW b \in Accounts, NEW d \in Days, d > day
               PROVE  stored'[q][b][d] = 0
    BY <1>1 DEF StoredInPast
  <2>1. d # c.day
    <3> HIDE DEF c
    <3> QED  BY <1>2, <1>6, Numbers DEF Days
  <2> QED  BY <1>10, <2>1 DEF SeenInv, StoredInPast
<1>12. StoredWithinBill'
  <2> SUFFICES ASSUME NEW q \in Principals, NEW b \in Accounts, NEW d \in Days
               PROVE  stored'[q][b][d] <= Cost(b, d)'
    BY DEF StoredWithinBill
  <2>1. stored[q][b][d] <= Cost(b, d)  BY DEF SeenInv, StoredWithinBill
  <2>2. Cost(b, d)' = Cost(b, d)  BY <1>1 DEF Cost
  <2> HIDE DEF c
  <2> QED  BY <1>3, <1>10, <2>1, <2>2
<1>13. OneLease'  BY <1>1 DEF SeenInv, OneLease, Active
<1>14. \* The records of the check's own lease are in order, ...
       ASSUME NEW s, Recorded(c.prin, c.acc, s)
       PROVE  \A d \in Days : d >= s =>
                \/ stored'[c.prin][c.acc][d] = 0
                \/ usage'[d][c.prin].acc = c.acc /\ stored'[c.prin][c.acc][d] <= usage'[d][c.prin].cost
  <2> SUFFICES ASSUME NEW d \in Days, d >= s
               PROVE  \/ stored'[c.prin][c.acc][d] = 0
                      \/ usage'[d][c.prin].acc = c.acc /\ stored'[c.prin][c.acc][d] <= usage'[d][c.prin].cost
    OBVIOUS
  <2> HIDE DEF c
  <2>1. CASE d = c.day
    <3>1. stored'[c.prin][c.acc][d] = c.today /\ usage'[d][c.prin] = u
      BY <1>2, <1>9, <1>10, <2>1
    <3> QED  BY <1>3, <1>8, <3>1
  <2>2. CASE d # c.day
    <3>1. stored'[c.prin][c.acc][d] = stored[c.prin][c.acc][d]
          /\ usage'[d][c.prin] = usage[d][c.prin]
      BY <1>2, <1>9, <1>10, <2>2
    <3> QED  BY <1>14, <3>1 DEF Recorded
  <2> QED  BY <2>1, <2>2
<1>15. \* ... as are those of other principals,
       \A q \in Principals : q # c.prin =>
         /\ stored'[q] = stored[q]
         /\ \A d \in Days : usage'[d][q] = usage[d][q]
  <2> SUFFICES ASSUME NEW q \in Principals, q # c.prin
               PROVE  stored'[q] = stored[q] /\ \A d \in Days : usage'[d][q] = usage[d][q]
    OBVIOUS
  <2> HIDE DEF c
  <2>1. stored'[q] = stored[q]  BY <1>1, <1>6
  <2> QED  BY <1>9, <2>1
<1>16. LeaseRecorded'
  <2> SUFFICES ASSUME NEW b \in Accounts, NEW q \in Principals, lease[b][q] # 0,
                      NEW d \in Days, d >= lease[b][q]
               PROVE  \/ stored'[q][b][d] = 0
                      \/ usage'[d][q].acc = b /\ stored'[q][b][d] <= usage'[d][q].cost
    BY <1>1 DEF LeaseRecorded, Recorded, Active
  <2>1. Recorded(q, b, lease[b][q])  BY DEF SeenInv, LeaseRecorded, Active
  <2> HIDE DEF c
  <2>2. CASE q # c.prin  BY <1>15, <2>1, <2>2 DEF Recorded
  <2>3. CASE q = c.prin /\ b = c.acc  BY <1>14, <2>1, <2>3
  <2>4. CASE q = c.prin /\ b # c.acc
    <3>1. OthersUnseen(c)  BY <1>1, <1>4 DEF Covered
    <3>2. stored[q][b][d] = 0  BY <2>4, <3>1 DEF OthersUnseen, Active
    <3> QED  BY <1>10, <2>4, <3>2
  <2> QED  BY <2>2, <2>3, <2>4
<1>17. ASSUME NEW v \in Checkers PROVE Covered(check[v])'
  <2>1. CASE v = w
    <3>1. /\ r.pc = "lease" /\ r.put = TRUE /\ r.acc = c.acc /\ r.prin = c.prin
          /\ r.start = c.start /\ r.day = c.day /\ r.next = c.start /\ r.spend = c.today
      <4> HIDE DEF c
      <4> QED  BY <1>2 DEF Check
    <3>2. check'[v] = r  BY <1>1, <1>6, <2>1
    <3>3. Recorded(c.prin, c.acc, c.start)  BY <1>1, <1>4 DEF Covered
    <3> HIDE DEF c, r
    <3> DEFINE h == stored'[r.prin][r.acc]
    <3>4. \A d \in Days : d >= r.start =>
            h[d] = 0 \/ (usage'[d][r.prin].acc = r.acc /\ h[d] <= usage'[d][r.prin].cost)
      BY <1>14, <3>1, <3>3
    <3>5. h[r.day] = c.today  BY <1>2, <1>10, <3>1
    <3>6. SumOver(h, r.start .. (r.next - 1)) = 0
      <4>1. c.start - 1 < c.start /\ c.start \in Int /\ c.start - 1 \in Int
            /\ c.start .. (c.start - 1) = {}
        BY <1>2, Numbers DEF Days
      <4> HIDE DEF h
      <4>2. SumOver(h, c.start .. (c.start - 1)) = 0  BY <4>1, SumOfDays
      <4> QED  BY <3>1, <4>2
    <3>7. SumOver(h, r.start .. (r.next - 1)) + h[r.day] <= r.spend
      <4> HIDE DEF h
      <4> QED  BY <1>3, <3>1, <3>5, <3>6
    <3> QED
      BY <3>1, <3>2, <3>4, <3>7, Zenon
      DEF Covered, Recorded, OthersUnseen, Active, Seen, LeaseAdded
  <2>2. CASE v # w
    <3> DEFINE x == check[v]
    <3>1. check'[v] = x  BY <1>1, <1>6, <2>2
    <3>2. Covered(x)  BY DEF SeenInv, ChecksCovered
    <3>3. CASE x.pc = "idle"  BY <3>1, <3>3 DEF Covered, LeaseAdded
    <3>4. CASE x.pc # "idle"
      <4>1. x.prin # c.prin /\ x.prin \in Principals
        BY <1>1, <2>2, <3>4, Busy DEF ChecksApart
      <4>2. stored'[x.prin] = stored[x.prin]
            /\ \A d \in Days : usage'[d][x.prin] = usage[d][x.prin]
        BY <1>15, <4>1
      <4> HIDE DEF x, c
      <4>3. x.pc \in {"cost", "put", "lease"} =>
              \A d \in Days : d >= x.start =>
                 \/ stored'[x.prin][x.acc][d] = 0
                 \/ usage'[d][x.prin].acc = x.acc
                    /\ stored'[x.prin][x.acc][d] <= usage'[d][x.prin].cost
        <5>1. x.pc \in {"cost", "put", "lease"} => Recorded(x.prin, x.acc, x.start)
          BY <3>2 DEF Covered
        <5> QED  BY <4>2, <5>1 DEF Recorded
      <4>4. x.pc \in {"cost", "put"} =>
              \A b \in Accounts \ {x.acc} : lease'[b][x.prin] # 0 =>
                 \A d \in Days : d >= lease'[b][x.prin] => stored'[x.prin][b][d] = 0
        <5>1. x.pc \in {"cost", "put"} => OthersUnseen(x)  BY <3>2 DEF Covered
        <5> QED  BY <1>1, <4>2, <5>1 DEF OthersUnseen, Active
      <4>5. /\ x.pc = "put" => stored'[x.prin][x.acc][x.day] <= x.today
            /\ x.pc = "lease" /\ x.put =>
                 SumOver(stored'[x.prin][x.acc], x.start .. (x.next - 1))
                   + stored'[x.prin][x.acc][x.day] <= x.spend
            /\ x.pc \in {"principal", "expire", "mail"} /\ x.put =>
                 SumOver(stored'[x.prin][x.acc], x.start .. x.day) <= x.spend
        BY <3>2, <4>2 DEF Covered, Seen, LeaseAdded
      <4> QED
        BY <3>1, <4>3, <4>4, <4>5, Zenon
        DEF Covered, Recorded, OthersUnseen, Active, Seen, LeaseAdded
    <3> QED  BY <3>3, <3>4
  <2> QED  BY <2>1, <2>2
<1> QED  BY <1>11, <1>12, <1>13, <1>16, <1>17 DEF SeenInv, ChecksCovered

\* Nothing is stored and nothing leased when the system is first used.
LEMMA InitSeen == Init => SeenInv
<1> SUFFICES ASSUME Init PROVE SeenInv  OBVIOUS
<1>1. StoredInPast  BY DEF Init, StoredInPast
<1>2. StoredWithinBill
  <2> SUFFICES ASSUME NEW p \in Principals, NEW a \in Accounts, NEW d \in Days
               PROVE  stored[p][a][d] <= Cost(a, d)
    BY DEF StoredWithinBill
  <2>1. Cost(a, d) \in Nat  BY InitInv, CostIsNat
  <2>2. stored[p][a][d] = 0  BY DEF Init
  <2> QED  BY <2>1, <2>2
<1>3. OneLease /\ LeaseRecorded  BY DEF Init, OneLease, LeaseRecorded, Active
<1>4. ChecksCovered
  <2> SUFFICES ASSUME NEW w \in Checkers PROVE Covered(check[w])  BY DEF ChecksCovered
  <2>1. check[w].pc = "idle"  BY DEF Init, NoCheck
  <2> QED  BY <2>1, NothingToCover
<1> QED  BY <1>1, <1>2, <1>3, <1>4 DEF SeenInv

\* The invariant is kept by every step, as long as no invocation outlasts its
\* lease and no two checks of a principal overlap.
LEMMA NextSeen ==
    ASSUME ~LateChecks
    PROVE  IInv /\ IInv' /\ SeenInv /\ ChecksApart /\ [Next]_vars => SeenInv'
<1> SUFFICES ASSUME IInv, IInv', SeenInv, ChecksApart, [Next]_vars PROVE SeenInv'
  OBVIOUS
<1>1. CASE NextDay  BY <1>1, WorldSeen
<1>2. ASSUME NEW a \in Accounts, NEW d \in Days, Spend(a, d) PROVE SeenInv'
  BY <1>2, WorldSeen
<1>3. ASSUME NEW a \in Accounts, NEW p \in Principals, LeaseStep(a, p) PROVE SeenInv'
  <2>1. CASE CreateLease(a, p)  BY <2>1, CreateLeaseSeen
  <2>2. CASE DeleteLease(a, p) \/ FanOut(a, p) \/ \E s \in Days : Discard(a, p, s)
    BY <2>2, WorldSeen
  <2>3. ASSUME NEW s \in Days, NEW w \in Checkers, Begin(w, a, p, s) PROVE SeenInv'
    BY <2>3, BeginSeen
  <2> QED  BY <1>3, <2>1, <2>2, <2>3 DEF LeaseStep
<1>4. ASSUME NEW w \in Checkers, CheckStep(w) PROVE SeenInv'
  <2>1. CASE CalculateTotalSpend(w)  BY <2>1, CalculateTotalSpendSeen
  <2>2. CASE PutUsage(w)  BY <2>2, PutUsageSeen
  <2>3. CASE PutUsageFails(w)  BY <2>3, PutUsageFailsSeen
  <2>4. CASE AddLeaseDay(w)  BY <2>4, AddLeaseDaySeen
  <2>5. CASE BeginPrincipalSpend(w)  BY <2>5, BeginPrincipalSpendSeen
  <2>6. CASE AddPrincipalDay(w)  BY <2>6, AddPrincipalDaySeen
  <2>7. CASE Decide(w)  BY <2>7, DecideSeen
  <2>8. CASE ExpireLease(w) \/ ExpireLeaseFails(w)  BY <2>8, ExpireLeaseSeen
  <2>9. CASE SendMail(w)  BY <2>9, DoneSeen DEF SendMail
  <2>10. CASE Fail(w)  BY <2>10, DoneSeen DEF Fail
  <2> QED
    BY <1>4, <2>1, <2>2, <2>3, <2>4, <2>5, <2>6, <2>7, <2>8, <2>9, <2>10 DEF CheckStep
<1>5. CASE UNCHANGED vars
  <2>1. UNCHANGED <<day, bill, lease, usage, stored, check>>  BY <1>5 DEF vars, env
  <2>2. \A v \in Checkers : Covered(check'[v])  BY <2>1 DEF SeenInv, ChecksCovered
  <2>3. \A a \in Accounts, d \in Days : Cost(a, d) <= Cost(a, d)'
    <3> TAKE a \in Accounts, d \in Days
    <3>1. Cost(a, d)' = Cost(a, d)  BY <2>1 DEF Cost
    <3>2. Cost(a, d) \in Nat  BY CostIsNat
    <3> QED  BY <3>1, <3>2
  <2>4. day <= day'
    <3>1. day \in Nat  BY Numbers DEF IInv, TypeOK, Days
    <3> QED  BY <2>1, <3>1
  <2> QED  BY <2>1, <2>2, <2>3, <2>4, RecordsStay
<1> QED  BY <1>1, <1>2, <1>3, <1>4, <1>5 DEF Next

\* A check that lets a lease go on has added up what has been stored of it.
LEMMA SeenSuffices == IInv /\ ReasonsHold /\ SeenInv => LeaseBudgetHolds
<1> SUFFICES ASSUME IInv, ReasonsHold, SeenInv, NEW w \in Checkers,
                    GoesOn(check[w]), check[w].put
             PROVE  Known(check[w].prin, check[w].acc, check[w].start, check[w].day) <= Budget
  BY DEF LeaseBudgetHolds
<1> DEFINE c == check[w]
<1>1. c.pc = "mail" /\ c.reason = "Active"  BY DEF GoesOn
<1>2. c \in Check /\ c.acc \in Accounts /\ c.prin \in Principals
      /\ c.start \in Days /\ c.day \in Days
  BY <1>1, Busy
<1>3. c.spend <= Budget  BY <1>1 DEF ReasonsHold, ReasonHolds
<1>4. Seen(c, c.start, c.day) <= c.spend
  BY <1>1 DEF SeenInv, ChecksCovered, Covered, LeaseAdded
<1> HIDE DEF c
<1>5. c.spend \in Nat /\ Budget \in Nat  BY <1>2, BudgetAssumption DEF Check
<1>6. Seen(c, c.start, c.day) \in Int  BY <1>2, SeenFacts
<1>7. Known(c.prin, c.acc, c.start, c.day) = Seen(c, c.start, c.day)
  BY KnownIsSeen DEF Seen
<1> QED  BY <1>3, <1>4, <1>5, <1>6, <1>7 DEF c

\* A lease goes on only if what the checks of its principal and account have
\* seen it cost is within its budget, for any accounts, principals, executions,
\* days, costs and failures: provided that no invocation is taken up after its
\* lease has ended, and no two checks of one principal overlap.  Checks of
\* different principals may overlap as they like.
THEOREM LeaseBudget ==
    ASSUME ~LateChecks
    PROVE  Spec /\ []ChecksApart => []LeaseBudgetHolds
<1>1. Spec => []IInv
  BY InitInv, NextInv, PTL DEF Spec
<1>2. Spec => []ReasonsHold
  <2>1. IInv => TypeOK  BY DEF IInv
  <2> QED  BY <1>1, <2>1, ReasonsInv, PTL DEF Spec
<1>3. Spec /\ []ChecksApart => []SeenInv
  BY <1>1, InitSeen, NextSeen, PTL DEF Spec
<1> QED  BY <1>1, <1>2, <1>3, SeenSuffices, PTL

\* With one execution at a time the second condition is met of itself.
THEOREM LeaseBudgetOneChecker ==
    ASSUME ~LateChecks, NEW w, Checkers = {w}
    PROVE  Spec => []LeaseBudgetHolds
<1>1. ChecksApart  BY DEF ChecksApart
<1>2. []ChecksApart  BY <1>1, PTL
<1> QED  BY <1>2, LeaseBudget, PTL

-----------------------------------------------------------------------------
(* The budget of a principal *)

\* The costs in table u on the days of a principal.
Costs(u, p) == [d \in Days |-> u[d][p].cost]

\* What has been stored of the account a record names is in the record.
RecordsCover ==
    \A p \in Principals, a \in Accounts, d \in Days :
        usage[d][p].acc = a => stored[p][a][d] <= usage[d][p].cost

\* What has been stored has left a record, of whatever account.
StoredOnRecord ==
    \A p \in Principals, a \in Accounts, d \in Days :
        stored[p][a][d] # 0 => usage[d][p].acc # None

\* The principal's days are read up to one that has come.
LastPast ==
    \A w \in Checkers : LeaseAdded(check[w]) =>
        check[w].last \in Days /\ check[w].last <= day

\* The last of the days that a check has read for sure.
Upto(c) == IF c.next > c.last THEN LastSure(c) ELSE c.next - 1

\* What a check has added up of its principal covers the records it has read,
\* in a table u with s stored: those of the other checks do not change them.
Counted(c, u, s) ==
    /\ c.pc = "put" => s[c.prin][c.acc][c.day] <= c.today
    /\ c.pc = "principal" =>
          /\ c.next \in PeriodStart(c.last) .. c.last + 1
          /\ SumOver(Costs(u, c.prin), PeriodStart(c.last) .. Upto(c)) <= c.pspend
    /\ c.pc \in {"expire", "mail"} =>
          SumOver(Costs(u, c.prin), PeriodStart(c.last) .. LastSure(c)) <= c.pspend

ChecksCounted == \A w \in Checkers : Counted(check[w], usage, stored)

PrincipalInv ==
    /\ StoredWithinBill
    /\ RecordsCover
    /\ StoredOnRecord
    /\ LastPast
    /\ ChecksCounted

-----------------------------------------------------------------------------

\* The sum of sums is the sum of the sums.
LEMMA SumAdds ==
    ASSUME NEW S, IsFiniteSet(S), NEW f, NEW g, NEW h,
           \A x \in S : f[x] \in Int /\ g[x] \in Int /\ h[x] = f[x] + g[x]
    PROVE  SumOver(h, S) = SumOver(f, S) + SumOver(g, S)
<1> DEFINE F == {T \in SUBSET S : SumOver(h, T) # SumOver(f, T) + SumOver(g, T)}
<1>1. F = {}
  <2> SUFFICES ASSUME F # {} PROVE FALSE  OBVIOUS
  <2>1. PICK T \in F : IsFiniteSet(T) /\ \A V \in SUBSET T : V # T => V \notin F
    <3>1. F \in SUBSET SUBSET S  OBVIOUS
    <3> HIDE DEF F
    <3> QED  BY <3>1, SmallestSubset
  <2>2. T \in SUBSET S /\ SumOver(h, T) # SumOver(f, T) + SumOver(g, T)  OBVIOUS
  <2>3. SumOver(f, {}) = 0 /\ SumOver(g, {}) = 0 /\ SumOver(h, {}) = 0
    BY FS_EmptySet, SumFacts
  <2>4. T # {}
    <3> SUFFICES ASSUME T = {} PROVE FALSE  OBVIOUS
    <3> HIDE DEF F
    <3>1. SumOver(h, {}) # SumOver(f, {}) + SumOver(g, {})  BY <2>2
    <3> QED  BY <2>3, <3>1
  <2>5. PICK x \in T : TRUE  BY <2>4
  <2>6. T \ {x} \in SUBSET T /\ T \ {x} # T /\ T \ {x} \in SUBSET S  BY <2>2, <2>5
  <2>7. SumOver(h, T \ {x}) = SumOver(f, T \ {x}) + SumOver(g, T \ {x})
    BY <2>1, <2>6
  <2>8. IsFiniteSet(T \ {x})  BY <2>1, FS_RemoveElement
  <2>9. \A y \in T : f[y] \in Int /\ g[y] \in Int /\ h[y] \in Int  BY <2>2
  <2>10. /\ SumOver(f, T) = f[x] + SumOver(f, T \ {x})
         /\ SumOver(g, T) = g[x] + SumOver(g, T \ {x})
         /\ SumOver(h, T) = h[x] + SumOver(h, T \ {x})
         /\ SumOver(f, T \ {x}) \in Int /\ SumOver(g, T \ {x}) \in Int
    <3>1. \A y \in T \ {x} : f[y] \in Int /\ g[y] \in Int  BY <2>9
    <3> HIDE DEF F
    <3> QED  BY <2>1, <2>5, <2>8, <2>9, <3>1, SumFacts
  <2>11. f[x] \in Int /\ g[x] \in Int /\ h[x] = f[x] + g[x]  BY <2>2, <2>5
  <2> HIDE DEF F
  <2> QED  BY <2>2, <2>7, <2>10, <2>11
<1> QED  BY <1>1

\* The more numbers are added, none negative, the greater the sum.
LEMMA SumOfMore ==
    ASSUME NEW T, IsFiniteSet(T), NEW S \in SUBSET T, NEW f, \A x \in T : f[x] \in Nat
    PROVE  SumOver(f, S) <= SumOver(f, T)
<1> DEFINE F == {U \in SUBSET T : ~ (SumOver(f, U \cap S) <= SumOver(f, U))}
<1>1. F = {}
  <2> SUFFICES ASSUME F # {} PROVE FALSE  OBVIOUS
  <2>1. PICK U \in F : IsFiniteSet(U) /\ \A V \in SUBSET U : V # U => V \notin F
    <3>1. F \in SUBSET SUBSET T  OBVIOUS
    <3> HIDE DEF F
    <3> QED  BY <3>1, SmallestSubset
  <2>2. U \in SUBSET T /\ ~ (SumOver(f, U \cap S) <= SumOver(f, U))  OBVIOUS
  <2>3. U # {}
    <3> SUFFICES ASSUME U = {} PROVE FALSE  OBVIOUS
    <3>1. U \cap S = {} /\ U = {}  OBVIOUS
    <3>2. SumOver(f, {}) = 0  BY FS_EmptySet, SumFacts
    <3> QED  BY <2>2, <3>1, <3>2
  <2>4. PICK x \in U : TRUE  BY <2>3
  <2>5. U \ {x} \in SUBSET U /\ U \ {x} # U /\ U \ {x} \in SUBSET T  BY <2>2, <2>4
  <2>6. SumOver(f, (U \ {x}) \cap S) <= SumOver(f, U \ {x})  BY <2>1, <2>5
  <2>7. /\ IsFiniteSet(U \ {x}) /\ IsFiniteSet(U \cap S) /\ IsFiniteSet((U \ {x}) \cap S)
        /\ \A y \in U : f[y] \in Nat
    BY <2>1, <2>2, FS_Subset, FS_RemoveElement
  <2> HIDE DEF F
  <2>8. SumOver(f, U) = f[x] + SumOver(f, U \ {x}) /\ SumOver(f, U \ {x}) \in Int
    <3>1. \A y \in U : f[y] \in Int  BY <2>7
    <3> QED  BY <2>1, <2>4, <2>7, <3>1, SumFacts
  <2>9. SumOver(f, (U \ {x}) \cap S) \in Int
    <3>1. \A y \in (U \ {x}) \cap S : f[y] \in Int  BY <2>7
    <3> QED  BY <2>7, <3>1, SumFacts
  <2>10. \/ U \cap S = (U \ {x}) \cap S
         \/ SumOver(f, U \cap S) = f[x] + SumOver(f, (U \ {x}) \cap S)
    <3>1. CASE x \notin S  BY <3>1
    <3>2. CASE x \in S
      <4>1. x \in U \cap S /\ (U \cap S) \ {x} = (U \ {x}) \cap S  BY <2>4, <3>2
      <4>2. \A y \in U \cap S : f[y] \in Int  BY <2>7
      <4> QED  BY <2>7, <4>1, <4>2, SumFacts
    <3> QED  BY <3>1, <3>2
  <2>11. f[x] \in Nat  BY <2>4, <2>7
  <2> QED  BY <2>2, <2>6, <2>8, <2>9, <2>10, <2>11
<1>2. T \in SUBSET T /\ T \notin F  BY <1>1
<1>3. SumOver(f, T \cap S) <= SumOver(f, T)  BY <1>2
<1>4. T \cap S = S  OBVIOUS
<1> QED  BY <1>3, <1>4

LEMMA KnownOfIsSum ==
    ASSUME NEW p, NEW a, NEW D
    PROVE  KnownOf(p, a, D) = SumOver(stored[p][a], D)
BY DEF KnownOf, SumOver

\* On a day only one account's cost is in the record: what has been stored of
\* all accounts, of days of which nothing was lost, is no more than the records
\* say.
LEMMA AccountsWithinRecords ==
    ASSUME IInv, RecordsCover, NEW p \in Principals,
           NEW D \in SUBSET Days, \A d \in D : NothingLost(p, d)
    PROVE  SumOver([a \in Accounts |-> KnownOf(p, a, D)], Accounts)
             <= SumOver(Costs(usage, p), D)
<1> DEFINE k == [a \in Accounts |-> KnownOf(p, a, D)]
           \* The records that name one of the accounts in T.
           R(T) == [d \in Days |-> IF usage[d][p].acc \in T THEN usage[d][p].cost ELSE 0]
           F == {T \in SUBSET Accounts : ~ (SumOver(k, T) <= SumOver(R(T), D))}
<1>1. D \subseteq Days /\ IsFiniteSet(D)
  <2>1. IsFiniteSet(Days)  BY FS_Interval, Numbers DEF Days
  <2> QED  BY <2>1, FS_Subset
<1>2. \A d \in Days : usage[d][p] \in Record /\ usage[d][p].cost \in Nat
  BY DEF IInv, TypeOK, Record
<1>3. \A a \in Accounts, d \in Days : stored[p][a][d] \in Nat  BY DEF IInv, TypeOK
<1>4. ASSUME NEW T, NEW d \in D PROVE R(T)[d] \in Int
  BY <1>1, <1>2
<1>5. ASSUME NEW a \in Accounts
      PROVE  k[a] \in Int /\ k[a] <= SumOver(R({a}), D)
  <2> DEFINE f == stored[p][a]
  <2>1. k[a] = SumOver(f, D)  BY KnownOfIsSum
  <2>2. ASSUME NEW d \in D PROVE f[d] \in Int /\ R({a})[d] \in Int /\ f[d] <= R({a})[d]
    <3>1. d \in Days  BY <1>1
    <3>2. f[d] \in Nat /\ usage[d][p].cost \in Nat  BY <1>2, <1>3, <3>1
    <3>3. f[d] # 0 => usage[d][p].acc = a /\ f[d] <= usage[d][p].cost
      BY <3>1 DEF RecordsCover, NothingLost
    <3>4. R({a})[d] = IF usage[d][p].acc = a THEN usage[d][p].cost ELSE 0
      BY <3>1
    <3> HIDE DEF f, R
    <3> QED  BY <3>2, <3>3, <3>4
  <2> HIDE DEF f, R, k
  <2>3. SumOver(f, D) <= SumOver(R({a}), D)  BY <1>1, <2>2, SumGrows
  <2>4. SumOver(f, D) \in Int  BY <1>1, <2>2, SumFacts
  <2> QED  BY <2>1, <2>3, <2>4
<1>6. F = {}
  <2> SUFFICES ASSUME F # {} PROVE FALSE  OBVIOUS
  <2>1. PICK T \in F : IsFiniteSet(T) /\ \A V \in SUBSET T : V # T => V \notin F
    <3>1. F \in SUBSET SUBSET Accounts  OBVIOUS
    <3> HIDE DEF F
    <3> QED  BY <3>1, SmallestSubset, BudgetAssumption
  <2>2. T \in SUBSET Accounts /\ ~ (SumOver(k, T) <= SumOver(R(T), D))  OBVIOUS
  <2>3. T # {}
    <3> SUFFICES ASSUME T = {} PROVE FALSE  OBVIOUS
    <3> HIDE DEF F, k
    <3>1. SumOver(k, {}) = 0  BY FS_EmptySet, SumFacts
    <3>2. \A d \in D : R({})[d] = 0  BY <1>1
    <3> DEFINE z == R({})
    <3> HIDE DEF z, R
    <3>4. \A d \in D : z[d] \in Int /\ z[d] = z[d] + z[d]  BY <3>2 DEF z
    <3>5. SumOver(z, D) = SumOver(z, D) + SumOver(z, D)  BY <1>1, <3>4, SumAdds
    <3>6. SumOver(z, D) \in Int  BY <1>1, <3>4, SumFacts
    <3>7. SumOver(z, D) = 0
      <4> DEFINE n == SumOver(z, D)
      <4>1. n \in Int /\ n = n + n  BY <3>5, <3>6
      <4> HIDE DEF n
      <4>2. n = 0  BY <4>1
      <4> QED  BY <4>2 DEF n
    <3> QED  BY <2>2, <3>1, <3>7 DEF z
  <2>4. PICK a \in T : TRUE  BY <2>3
  <2>5. T \ {a} \in SUBSET T /\ T \ {a} # T /\ T \ {a} \in SUBSET Accounts  BY <2>2, <2>4
  <2>6. SumOver(k, T \ {a}) <= SumOver(R(T \ {a}), D)  BY <2>1, <2>5
  <2>7. SumOver(R(T), D) = SumOver(R(T \ {a}), D) + SumOver(R({a}), D)
    <3>1. ASSUME NEW d \in D
          PROVE  /\ R(T \ {a})[d] \in Int /\ R({a})[d] \in Int
                 /\ R(T)[d] = R(T \ {a})[d] + R({a})[d]
      <4>1. d \in Days /\ usage[d][p].cost \in Nat  BY <1>1, <1>2
      <4>2. usage[d][p].acc \in T <=> (usage[d][p].acc \in T \ {a} \/ usage[d][p].acc = a)
        BY <2>4
      <4>3. /\ R(T)[d] = IF usage[d][p].acc \in T THEN usage[d][p].cost ELSE 0
            /\ R(T \ {a})[d] = IF usage[d][p].acc \in T \ {a} THEN usage[d][p].cost ELSE 0
            /\ R({a})[d] = IF usage[d][p].acc = a THEN usage[d][p].cost ELSE 0
        BY <4>1
      <4>4. ~ (usage[d][p].acc \in T \ {a} /\ usage[d][p].acc = a)  OBVIOUS
      <4> HIDE DEF F, R, k
      <4> QED  BY <4>1, <4>2, <4>3, <4>4
    <3> HIDE DEF F, R, k
    <3> QED  BY <1>1, <3>1, SumAdds
  <2>8. \A x \in T : k[x] \in Int
    <3> HIDE DEF k, F, R
    <3> QED  BY <1>5, <2>2
  <2>9. /\ SumOver(k, T) = k[a] + SumOver(k, T \ {a})
        /\ SumOver(k, T \ {a}) \in Int
    <3>1. IsFiniteSet(T \ {a})  BY <2>1, FS_RemoveElement
    <3> HIDE DEF k, F, R
    <3> QED  BY <2>1, <2>4, <2>8, <3>1, SumFacts
  <2>10. SumOver(R(T \ {a}), D) \in Int /\ SumOver(R({a}), D) \in Int
    <3>1. \A d \in D : R(T \ {a})[d] \in Int /\ R({a})[d] \in Int  BY <1>4
    <3> HIDE DEF k, F, R
    <3> QED  BY <1>1, <3>1, SumFacts
  <2>11. k[a] \in Int /\ k[a] <= SumOver(R({a}), D)  BY <1>5, <2>2, <2>4
  <2> HIDE DEF k, F, R
  <2> QED  BY <2>2, <2>6, <2>7, <2>9, <2>10, <2>11
<1>7. SumOver(k, Accounts) <= SumOver(R(Accounts), D)
  <2>1. Accounts \in SUBSET Accounts /\ Accounts \notin F  BY <1>6
  <2> QED  BY <2>1
<1>8. SumOver(R(Accounts), D) <= SumOver(Costs(usage, p), D)
  <2>1. ASSUME NEW d \in D
        PROVE  /\ R(Accounts)[d] \in Int /\ Costs(usage, p)[d] \in Int
               /\ R(Accounts)[d] <= Costs(usage, p)[d]
    <3>1. d \in Days /\ usage[d][p].cost \in Nat  BY <1>1, <1>2
    <3> QED  BY <3>1 DEF Costs
  <2> HIDE DEF k, F, R
  <2> QED  BY <1>1, <2>1, SumGrows
<1>9. SumOver(k, Accounts) \in Int
  <2>1. \A a \in Accounts : k[a] \in Int
    <3> HIDE DEF k
    <3> QED  BY <1>5
  <2> HIDE DEF k
  <2> QED  BY <2>1, SumFacts, BudgetAssumption
<1>10. SumOver(R(Accounts), D) \in Int /\ SumOver(Costs(usage, p), D) \in Int
  <2>1. \A d \in D : R(Accounts)[d] \in Int /\ Costs(usage, p)[d] \in Int
    BY <1>1, <1>2 DEF Costs
  <2> HIDE DEF R, k, F
  <2> QED  BY <1>1, <2>1, SumFacts
<1> HIDE DEF R, F
<1> QED  BY <1>7, <1>8, <1>9, <1>10

\* A lease that comes or goes leaves the day and the bill alone.
LEMMA LeasesLeaveTheWorld ==
    ASSUME NEW a \in Accounts, NEW p \in Principals, LeaseStep(a, p)
    PROVE  UNCHANGED env
<1>1. CASE CreateLease(a, p)  BY <1>1 DEF CreateLease
<1>2. CASE DeleteLease(a, p)  BY <1>2 DEF DeleteLease
<1>3. CASE FanOut(a, p)  BY <1>3 DEF FanOut
<1>4. ASSUME NEW s \in Days, Discard(a, p, s) PROVE UNCHANGED env  BY <1>4 DEF Discard
<1>5. ASSUME NEW s \in Days, NEW w \in Checkers, Begin(w, a, p, s) PROVE UNCHANGED env
  BY <1>5 DEF Begin
<1> QED  BY <1>1, <1>2, <1>3, <1>4, <1>5 DEF LeaseStep

\* So does a check, which writes no other execution's record than its own.
LEMMA ChecksLeaveTheWorld ==
    ASSUME NEW w \in Checkers, CheckStep(w)
    PROVE  UNCHANGED env /\ \E r : check' = [check EXCEPT ![w] = r]
<1>1. CASE CalculateTotalSpend(w)  BY <1>1 DEF CalculateTotalSpend
<1>2. CASE PutUsage(w)  BY <1>2 DEF PutUsage
<1>3. CASE PutUsageFails(w)  BY <1>3 DEF PutUsageFails
<1>4. CASE AddLeaseDay(w)  BY <1>4 DEF AddLeaseDay
<1>5. CASE BeginPrincipalSpend(w)  BY <1>5 DEF BeginPrincipalSpend
<1>6. CASE AddPrincipalDay(w)  BY <1>6 DEF AddPrincipalDay
<1>7. CASE Decide(w)  BY <1>7 DEF Decide
<1>8. CASE ExpireLease(w)  BY <1>8 DEF ExpireLease
<1>9. CASE ExpireLeaseFails(w)  BY <1>9 DEF ExpireLeaseFails
<1>10. CASE SendMail(w)  BY <1>10 DEF SendMail, Done
<1>11. CASE Fail(w)  BY <1>11 DEF Fail, Done
<1> QED
  BY <1>1, <1>2, <1>3, <1>4, <1>5, <1>6, <1>7, <1>8, <1>9, <1>10, <1>11 DEF CheckStep

\* Bills only grow.
LEMMA CostGrows ==
    ASSUME IInv, [Next]_vars, NEW a \in Accounts, NEW d \in Days
    PROVE  Cost(a, d) \in Int /\ Cost(a, d)' \in Int /\ Cost(a, d) <= Cost(a, d)'
<1>1. Cost(a, d) \in Nat /\ d \in 0 .. LastDay /\ d - 1 \in 0 .. LastDay  BY CostIsNat
<1>2. IInv'  BY NextInv
<1>3. Cost(a, d)' \in Int
  <2>1. bill' \in [Accounts -> [0 .. LastDay -> Nat]]  BY <1>2 DEF IInv, TypeOK
  <2>2. bill'[a][d] \in Nat /\ bill'[a][d - 1] \in Nat  BY <1>1, <2>1
  <2> QED  BY <2>2 DEF Cost
<1>4. CASE UNCHANGED bill
  <2>1. Cost(a, d)' = Cost(a, d)  BY <1>4 DEF Cost
  <2> QED  BY <1>1, <2>1
<1>5. ASSUME NEW b \in Accounts, NEW e \in Days, Spend(b, e)
      PROVE  Cost(a, d) <= Cost(a, d)'
  <2>1. SpansGrow  BY <1>5, SpendGrows DEF IInv
  <2>2. d - 1 <= d  BY <1>1
  <2> QED  BY <1>1, <2>1, <2>2 DEF SpansGrow, Cost
<1>6. UNCHANGED bill \/ \E b \in Accounts, e \in Days : Spend(b, e)
  <2>1. NextDay => UNCHANGED bill  BY DEF NextDay
  <2>2. UNCHANGED vars => UNCHANGED bill  BY DEF vars, env
  <2> QED  BY <2>1, <2>2, LeasesLeaveTheWorld, ChecksLeaveTheWorld DEF Next, env
<1> QED  BY <1>1, <1>3, <1>4, <1>5, <1>6

\* What has been stored stays within the bill when nothing is stored, or a new
\* lease starts from nothing, or what is stored is.
LEMMA StoredStays ==
    ASSUME IInv, [Next]_vars, StoredWithinBill,
           \A p \in Principals, a \in Accounts, d \in Days :
               \/ stored'[p][a][d] = stored[p][a][d]
               \/ stored'[p][a][d] = 0
               \/ stored'[p][a][d] <= Cost(a, d)
    PROVE  StoredWithinBill'
<1> SUFFICES ASSUME NEW p \in Principals, NEW a \in Accounts, NEW d \in Days
             PROVE  stored'[p][a][d] <= Cost(a, d)'
  BY DEF StoredWithinBill
<1>1. Cost(a, d) \in Nat /\ Cost(a, d)' \in Int /\ Cost(a, d) <= Cost(a, d)'
  BY CostGrows, CostIsNat
<1>2. IInv'  BY NextInv
<1>3. stored[p][a][d] \in Nat /\ stored'[p][a][d] \in Nat  BY <1>2 DEF IInv, TypeOK
<1>4. stored[p][a][d] <= Cost(a, d)  BY DEF StoredWithinBill
<1> DEFINE x == Cost(a, d)'
<1> HIDE DEF x
<1>5. x \in Int /\ Cost(a, d) <= x  BY <1>1 DEF x
<1>6. \/ stored'[p][a][d] = stored[p][a][d]
      \/ stored'[p][a][d] = 0
      \/ stored'[p][a][d] <= Cost(a, d)
  OBVIOUS
<1>7. stored'[p][a][d] <= x  BY <1>1, <1>3, <1>4, <1>5, <1>6
<1> QED  BY <1>7 DEF x

\* The last of a principal's days is the day on which they were first asked for.
LEMMA LastStays ==
    ASSUME IInv, [Next]_vars, LastPast
    PROVE  LastPast'
<1>1. check \in [Checkers -> Check] /\ day \in Days /\ day' \in Days /\ day <= day'
  <2>1. day' = day \/ day' = day + 1
    <3>1. NextDay => day' = day + 1  BY DEF NextDay
    <3>2. \A a \in Accounts, d \in Days : Spend(a, d) => day' = day  BY DEF Spend
    <3>3. UNCHANGED vars => day' = day  BY DEF vars, env
    <3> QED
      BY <3>1, <3>2, <3>3, LeasesLeaveTheWorld, ChecksLeaveTheWorld DEF Next, env
  <2>2. IInv'  BY NextInv
  <2> QED  BY <2>1, <2>2, Numbers DEF IInv, TypeOK, Days
<1>2. ASSUME NEW w \in Checkers
      PROVE  \/ ~LeaseAdded(check'[w])
             \/ check'[w].last = day
             \/ check'[w].last = check[w].last /\ LeaseAdded(check[w])
  <2>1. CASE check'[w] = check[w]  BY <2>1
  <2>2. CASE BeginPrincipalSpend(w)
    BY <1>1, <2>2 DEF BeginPrincipalSpend, Check
  <2>3. CASE AddPrincipalDay(w) \/ Decide(w) \/ ExpireLease(w) \/ ExpireLeaseFails(w)
    <3>1. LeaseAdded(check[w])
      BY <2>3 DEF AddPrincipalDay, Decide, ExpireLease, ExpireLeaseFails, At, LeaseAdded
    <3>2. check'[w].last = check[w].last
      BY <1>1, <2>3 DEF AddPrincipalDay, Decide, ExpireLease, ExpireLeaseFails, Check
    <3> QED  BY <3>1, <3>2
  <2>4. CASE \/ CalculateTotalSpend(w) \/ PutUsage(w) \/ PutUsageFails(w)
             \/ AddLeaseDay(w) \/ SendMail(w) \/ Fail(w)
             \/ \E a \in Accounts, p \in Principals, d \in Days : Begin(w, a, p, d)
    <3>1. CASE CalculateTotalSpend(w)
      BY <1>1, <3>1 DEF CalculateTotalSpend, Check, LeaseAdded
    <3>2. CASE PutUsage(w)
      BY <1>1, <3>2 DEF PutUsage, Check, LeaseAdded
    <3>3. CASE PutUsageFails(w)
      BY <1>1, <3>3 DEF PutUsageFails, Check, LeaseAdded
    <3>4. CASE AddLeaseDay(w)
      BY <1>1, <3>4 DEF AddLeaseDay, At, Check, LeaseAdded
    <3>5. CASE SendMail(w) \/ Fail(w)
      BY <1>1, <3>5 DEF SendMail, Fail, Done, NoCheck, LeaseAdded
    <3>6. CASE \E a \in Accounts, p \in Principals, d \in Days : Begin(w, a, p, d)
      BY <1>1, <3>6 DEF Begin, NoCheck, LeaseAdded
    <3> QED  BY <2>4, <3>1, <3>2, <3>3, <3>4, <3>5, <3>6
  <2>5. \/ check'[w] = check[w]
        \/ CheckStep(w)
        \/ \E a \in Accounts, p \in Principals, d \in Days : Begin(w, a, p, d)
    <3>1. ASSUME NEW v \in Checkers, v # w, CheckStep(v) PROVE check'[w] = check[w]
      <4>1. PICK r : check' = [check EXCEPT ![v] = r]  BY <3>1, ChecksLeaveTheWorld
      <4> QED  BY <1>1, <3>1, <4>1
    <3>2. ASSUME NEW a \in Accounts, NEW p \in Principals, LeaseStep(a, p)
          PROVE  check'[w] = check[w] \/ \E d \in Days : Begin(w, a, p, d)
      BY <1>1, <3>2 DEF LeaseStep, CreateLease, DeleteLease, FanOut, Discard, Begin
    <3>3. UNCHANGED vars \/ NextDay \/ (\E a \in Accounts, d \in Days : Spend(a, d))
            => check'[w] = check[w]
      BY DEF vars, NextDay, Spend
    <3> QED  BY <3>1, <3>2, <3>3 DEF Next
  <2> QED  BY <2>1, <2>2, <2>3, <2>4, <2>5 DEF CheckStep
<1> SUFFICES ASSUME NEW w \in Checkers, LeaseAdded(check'[w])
             PROVE  check'[w].last \in Days /\ check'[w].last <= day'
  BY DEF LastPast, LeaseAdded
<1>3. CASE check'[w].last = day  BY <1>1, <1>3
<1>4. CASE check'[w].last = check[w].last /\ LeaseAdded(check[w])
  <2>1. check[w].last \in Days /\ check[w].last <= day  BY <1>4 DEF LastPast
  <2> QED  BY <1>1, <1>4, <2>1, Numbers DEF Days
<1> QED  BY <1>2, <1>3, <1>4

\* Steps that leave the records alone need only be looked at for what an
\* execution has counted.
LEMMA CountStep ==
    ASSUME IInv, [Next]_vars, PrincipalInv, UNCHANGED <<usage, stored>>,
           NEW w \in Checkers, NEW r, Counted(r, usage, stored),
           check' = [check EXCEPT ![w] = r]
    PROVE  PrincipalInv'
<1>1. StoredWithinBill'  BY StoredStays DEF PrincipalInv
<1>2. RecordsCover' /\ StoredOnRecord' /\ LastPast'
  BY LastStays DEF PrincipalInv, RecordsCover, StoredOnRecord
<1>3. ASSUME NEW v \in Checkers PROVE Counted(check'[v], usage', stored')
  <2>1. usage' = usage /\ stored' = stored /\ check \in [Checkers -> Check]
    BY DEF IInv, TypeOK
  <2>2. check'[v] \in {r, check[v]}  BY <2>1
  <2>3. Counted(check[v], usage, stored)  BY DEF PrincipalInv, ChecksCounted
  <2> QED  BY <2>1, <2>2, <2>3
<1>4. ChecksCounted'  BY <1>3 DEF ChecksCounted
<1> QED  BY <1>1, <1>2, <1>4 DEF PrincipalInv

\* Before the principal's days are read there is nothing to have counted.
LEMMA NotCountedYet ==
    ASSUME NEW r, r.pc \in {"idle", "cost", "lease"}, NEW u, NEW s
    PROVE  Counted(r, u, s)
BY DEF Counted

\* The sum of a principal's records.
LEMMA CostsFacts ==
    ASSUME IInv, NEW p \in Principals, NEW s \in Days, NEW e \in 0 .. LastDay
    PROVE  /\ SumOver(Costs(usage, p), s .. e) \in Int
           /\ SumOver(Costs(usage, p), s .. (s - 1)) = 0
           /\ s <= e => SumOver(Costs(usage, p), s .. e) =
                          SumOver(Costs(usage, p), s .. (e - 1)) + usage[e][p].cost
<1> DEFINE f == Costs(usage, p)
<1>1. \A d \in Days : f[d] = usage[d][p].cost /\ f[d] \in Int
  BY DEF Costs, IInv, TypeOK, Record
<1>2. /\ s \in Int /\ e \in Int /\ s - 1 \in Int /\ s - 1 < s
      /\ s .. e \subseteq Days /\ s .. (s - 1) = {} /\ (s <= e => e \in Days)
  BY Numbers DEF Days
<1> HIDE DEF f
<1>3. /\ SumOver(f, s .. e) \in Int
      /\ s <= e => SumOver(f, s .. e) = SumOver(f, s .. (e - 1)) + f[e]
  BY <1>1, <1>2, SumOfDays
<1>4. SumOver(f, s .. (s - 1)) = 0  BY <1>2, SumOfDays
<1> QED  BY <1>1, <1>2, <1>3, <1>4 DEF f

\* Cost Explorer knows of all that has been stored.
LEMMA CalculateTotalSpendCounted ==
    ASSUME IInv, [Next]_vars, PrincipalInv, NEW w \in Checkers, CalculateTotalSpend(w)
    PROVE  PrincipalInv'
<1> DEFINE c == check[w]
           r == [c EXCEPT !.pc = "put", !.day = day, !.today = Cost(c.acc, day)]
<1>1. /\ c.pc = "cost" /\ check' = [check EXCEPT ![w] = r]
      /\ UNCHANGED <<usage, stored>>
  BY CheckFacts DEF CalculateTotalSpend, At
<1>2. c \in Check /\ c.acc \in Accounts /\ c.prin \in Principals /\ day \in Days
  BY <1>1, Busy, CheckFacts
<1>3. stored[c.prin][c.acc][day] <= Cost(c.acc, day)
  BY <1>2 DEF PrincipalInv, StoredWithinBill
<1> HIDE DEF c
<1>4. /\ r.pc = "put" /\ r.day = day /\ r.today = Cost(c.acc, day)
      /\ r.acc = c.acc /\ r.prin = c.prin
  BY <1>2 DEF Check
<1> HIDE DEF r
<1>5. Counted(r, usage, stored)  BY <1>3, <1>4 DEF Counted
<1> QED  BY <1>1, <1>5, CountStep

\* The period begins; no record has been read.
LEMMA BeginPrincipalSpendCounted ==
    ASSUME IInv, [Next]_vars, PrincipalInv, NEW w \in Checkers, BeginPrincipalSpend(w)
    PROVE  PrincipalInv'
<1> DEFINE c == check[w]
           r == [c EXCEPT !.pc = "principal", !.last = day, !.next = PeriodStart(day)]
<1>1. /\ c.pc = "lease" /\ check' = [check EXCEPT ![w] = r]
      /\ UNCHANGED <<usage, stored>>
  BY CheckFacts DEF BeginPrincipalSpend, At
<1>2. c \in Check /\ c.prin \in Principals /\ day \in Days  BY <1>1, Busy, CheckFacts
<1> HIDE DEF c
<1>3. /\ r.pc = "principal" /\ r.last = day /\ r.next = PeriodStart(day)
      /\ r.prin = c.prin /\ r.pspend = c.pspend /\ c.pspend \in Nat
  BY <1>2 DEF Check
<1> HIDE DEF r
<1>4. PeriodStart(day) \in 1 .. day  BY <1>2, PeriodStartInDays
<1>5. PeriodStart(day) \in Days /\ PeriodStart(day) \in PeriodStart(day) .. day + 1
      /\ 0 \in 0 .. LastDay
  BY <1>2, <1>4, Numbers DEF Days
<1>6. SumOver(Costs(usage, c.prin), PeriodStart(day) .. (PeriodStart(day) - 1)) = 0
  BY <1>2, <1>5, CostsFacts
<1>7. Upto(r) = PeriodStart(day) - 1
  <2>1. ~ (PeriodStart(day) > day)  BY <1>2, <1>4, Numbers DEF Days
  <2> QED  BY <1>3, <2>1 DEF Upto
<1>8. Counted(r, usage, stored)  BY <1>2, <1>3, <1>5, <1>6, <1>7 DEF Counted
<1> QED  BY <1>1, <1>8, CountStep

\* A day's record is added; if it is today's, and may be behind, it need not be
\* what the table has.
LEMMA AddPrincipalDayCounted ==
    ASSUME IInv, [Next]_vars, PrincipalInv, NEW w \in Checkers, AddPrincipalDay(w)
    PROVE  PrincipalInv'
<1> DEFINE c == check[w]
           s == PeriodStart(c.last)
<1>1. PICK f \in Found(c.next, c.prin) :
        check' = [check EXCEPT ![w] = [c EXCEPT !.next = c.next + 1,
                                                !.pspend = c.pspend + f.cost]]
  BY DEF AddPrincipalDay
<1> DEFINE n == c.pspend + f.cost
           r == [c EXCEPT !.next = c.next + 1, !.pspend = n]
<1>2. /\ c.pc = "principal" /\ c.next <= c.last
      /\ check' = [check EXCEPT ![w] = r]
      /\ UNCHANGED <<usage, stored>>
  BY <1>1 DEF AddPrincipalDay, At
<1>3. c \in Check /\ c.prin \in Principals /\ day \in Days  BY <1>2, Busy, CheckFacts
<1>4. /\ c.last \in Days /\ c.last <= day /\ c.next \in s .. c.last + 1
      /\ SumOver(Costs(usage, c.prin), s .. Upto(c)) <= c.pspend
  BY <1>2 DEF PrincipalInv, ChecksCounted, Counted, LastPast, LeaseAdded
<1>5. s \in 1 .. c.last  BY <1>4, PeriodStartInDays
<1> HIDE DEF c, s
<1>6. /\ s \in Days /\ c.next \in Days /\ c.next \in 0 .. LastDay /\ s <= c.next
      /\ c.next + 1 \in s .. c.last + 1 /\ c.next + 1 - 1 = c.next
      /\ c.next - 1 \in 0 .. LastDay
  <2> DEFINE x == c.next
             l == c.last
  <2>1. l \in 1 .. LastDay /\ s \in 1 .. l /\ x \in s .. l + 1 /\ x <= l
    BY <1>2, <1>4, <1>5 DEF Days
  <2> HIDE DEF x, l
  <2>2. /\ s \in 1 .. LastDay /\ x \in 1 .. LastDay /\ x \in 0 .. LastDay /\ s <= x
        /\ x + 1 \in s .. l + 1 /\ x + 1 - 1 = x /\ x - 1 \in 0 .. LastDay
    BY <2>1, Numbers
  <2> QED  BY <2>2 DEF x, l, Days
<1>7. Upto(c) = c.next - 1
  <2>1. ~ (c.next > c.last)  BY <1>2, <1>4, <1>6, Numbers DEF Days
  <2> QED  BY <2>1 DEF Upto
<1>8. /\ SumOver(Costs(usage, c.prin), s .. c.next) =
           SumOver(Costs(usage, c.prin), s .. (c.next - 1)) + usage[c.next][c.prin].cost
      /\ SumOver(Costs(usage, c.prin), s .. (c.next - 1)) \in Int
  BY <1>3, <1>6, CostsFacts
<1>9. f.cost \in Nat /\ c.pspend \in Nat
  <2>1. usage[c.next][c.prin] \in Record /\ stale[c.prin] \in Record
    BY <1>3, <1>6 DEF IInv, TypeOK
  <2>2. f \in Record  BY <2>1 DEF Found
  <2> QED  BY <1>3, <2>2 DEF Record, Check
<1>10. /\ r.pc = "principal" /\ r.last = c.last /\ r.next = c.next + 1
       /\ r.prin = c.prin /\ r.pspend = n
  BY <1>2, <1>3 DEF Check
<1>11. n \in Nat /\ c.pspend <= n /\ n = c.pspend + f.cost  BY <1>9
<1> HIDE DEF r, n
<1>12. SumOver(Costs(usage, c.prin), s .. Upto(r)) <= n
  <2>1. CASE Lag /\ c.next = c.last
    <3>1. Upto(r) = c.next - 1
      <4>1. c.next + 1 > c.last  BY <1>6, <2>1, Numbers DEF Days
      <4> QED  BY <1>10, <2>1, <4>1 DEF Upto, LastSure
    <3> QED  BY <1>4, <1>7, <1>8, <1>9, <1>11, <3>1
  <2>2. CASE ~ (Lag /\ c.next = c.last)
    <3>1. f = usage[c.next][c.prin]
      <4>1. ~Lag \/ c.next # day  BY <1>2, <1>3, <1>4, <1>6, <2>2, Numbers DEF Days
      <4> QED  BY <4>1 DEF Found
    <3>2. Upto(r) = c.next
      <4>1. CASE c.next + 1 > c.last
        <5>1. c.next = c.last  BY <1>2, <1>4, <1>6, <4>1, Numbers DEF Days
        <5> QED  BY <1>10, <2>2, <4>1, <5>1 DEF Upto, LastSure
      <4>2. CASE ~ (c.next + 1 > c.last)
        BY <1>6, <1>10, <4>2 DEF Upto
      <4> QED  BY <4>1, <4>2
    <3> QED  BY <1>4, <1>7, <1>8, <1>9, <1>11, <3>1, <3>2
  <2> QED  BY <2>1, <2>2
<1>13. Counted(r, usage, stored)  BY <1>6, <1>10, <1>12 DEF Counted, s
<1> QED  BY <1>2, <1>13, CountStep

\* The decision is taken when the last day has been read.
LEMMA DecideCounted ==
    ASSUME IInv, [Next]_vars, PrincipalInv, NEW w \in Checkers, Decide(w)
    PROVE  PrincipalInv'
<1> DEFINE c == check[w]
           x == Reason(c)
           r == [c EXCEPT !.reason = x, !.pc = IF x = "Active" THEN "mail" ELSE "expire"]
           s == PeriodStart(c.last)
<1>1. /\ c.pc = "principal" /\ c.next > c.last /\ check' = [check EXCEPT ![w] = r]
      /\ UNCHANGED <<usage, stored>>
  BY DEF Decide, At
<1>2. c \in Check /\ Counted(c, usage, stored)
  BY CheckFacts DEF PrincipalInv, ChecksCounted
<1>3. SumOver(Costs(usage, c.prin), s .. Upto(c)) <= c.pspend
  BY <1>1, <1>2 DEF Counted
<1> HIDE DEF c, s, x
<1>4. Upto(c) = LastSure(c)  BY <1>1 DEF Upto
<1>5. /\ r.pc \in {"expire", "mail"} /\ r.last = c.last
      /\ r.prin = c.prin /\ r.pspend = c.pspend
  BY <1>2 DEF Check
<1> HIDE DEF r
<1>6. LastSure(r) = LastSure(c)  BY <1>5 DEF LastSure
<1>7. Counted(r, usage, stored)  BY <1>3, <1>4, <1>5, <1>6 DEF Counted, s
<1> QED  BY <1>1, <1>7, CountStep

\* The lease ends, or not; what has been counted stays.
LEMMA ExpireLeaseCounted ==
    ASSUME IInv, [Next]_vars, PrincipalInv, NEW w \in Checkers,
           ExpireLease(w) \/ ExpireLeaseFails(w)
    PROVE  PrincipalInv'
<1> DEFINE c == check[w]
           r == [c EXCEPT !.pc = "mail"]
<1>1. /\ c.pc = "expire" /\ check' = [check EXCEPT ![w] = r]
      /\ UNCHANGED <<usage, stored>>
  BY DEF ExpireLease, ExpireLeaseFails, At
<1>2. c \in Check /\ Counted(c, usage, stored)
  BY CheckFacts DEF PrincipalInv, ChecksCounted
<1> HIDE DEF c
<1>3. r.pc = "mail" /\ r.last = c.last /\ r.prin = c.prin /\ r.pspend = c.pspend
  BY <1>2 DEF Check
<1> HIDE DEF r
<1>4. Counted(r, usage, stored)  BY <1>1, <1>2, <1>3 DEF Counted, LastSure
<1> QED  BY <1>1, <1>4, CountStep

\* The steps of an execution that have nothing to do with the principal.
LEMMA OtherStepsCounted ==
    ASSUME IInv, [Next]_vars, PrincipalInv, NEW w \in Checkers,
           \/ PutUsageFails(w) \/ AddLeaseDay(w) \/ SendMail(w) \/ Fail(w)
           \/ \E a \in Accounts, p \in Principals, s \in Days : Begin(w, a, p, s)
    PROVE  PrincipalInv'
<1>1. check[w] \in Check /\ UNCHANGED <<usage, stored>>
  BY CheckFacts DEF PutUsageFails, AddLeaseDay, SendMail, Fail, Begin
<1>2. CASE PutUsageFails(w) \/ AddLeaseDay(w)
  <2>0. check \in [Checkers -> Check]  BY DEF IInv, TypeOK
  <2>1. check' = [check EXCEPT ![w] = check'[w]] /\ check'[w].pc = "lease"
    <3>1. CASE PutUsageFails(w)
      <4>1. check' = [check EXCEPT ![w] = [check[w] EXCEPT !.pc = "lease", !.next = check[w].day]]
        BY <3>1 DEF PutUsageFails
      <4> QED  BY <1>1, <2>0, <4>1 DEF Check
    <3>2. CASE AddLeaseDay(w)
      <4>1. PICK n : check' = [check EXCEPT ![w] = [check[w] EXCEPT
                                !.next = check[w].next + 1, !.spend = n]]
        BY <3>2 DEF AddLeaseDay
      <4>2. check[w].pc = "lease"  BY <3>2 DEF AddLeaseDay, At
      <4> QED  BY <1>1, <2>0, <4>1, <4>2 DEF Check
    <3> QED  BY <1>2, <3>1, <3>2
  <2>2. Counted(check'[w], usage, stored)  BY <2>1, NotCountedYet
  <2> DEFINE r == check'[w]
  <2>3. Counted(r, usage, stored) /\ check' = [check EXCEPT ![w] = r]  BY <2>1, <2>2
  <2> HIDE DEF r
  <2> QED  BY <1>1, <2>3, CountStep
<1>3. CASE SendMail(w) \/ Fail(w)
  <2>1. check' = [check EXCEPT ![w] = NoCheck]  BY <1>3 DEF SendMail, Fail, Done
  <2>2. NoCheck.pc = "idle"  BY DEF NoCheck
  <2> DEFINE r == NoCheck
  <2>3. Counted(r, usage, stored) /\ check' = [check EXCEPT ![w] = r]
    BY <2>1, <2>2, NotCountedYet
  <2> HIDE DEF r
  <2> QED  BY <1>1, <2>3, CountStep
<1>4. ASSUME NEW a \in Accounts, NEW p \in Principals, NEW s \in Days, Begin(w, a, p, s)
      PROVE  PrincipalInv'
  <2> DEFINE r == [NoCheck EXCEPT !.pc = "cost", !.acc = a, !.prin = p, !.start = s]
  <2>1. check' = [check EXCEPT ![w] = r]  BY <1>4 DEF Begin
  <2>2. r.pc = "cost"  BY DEF NoCheck
  <2> HIDE DEF r
  <2>3. Counted(r, usage, stored)  BY <2>2, NotCountedYet
  <2> QED  BY <1>1, <2>1, <2>3, CountStep
<1> QED  BY <1>2, <1>3, <1>4

\* The cost that is stored is in the record, whatever account it named before.
LEMMA PutUsageCounted ==
    ASSUME IInv, [Next]_vars, PrincipalInv, ChecksApart, NEW w \in Checkers, PutUsage(w)
    PROVE  PrincipalInv'
<1> DEFINE c == check[w]
           u == [acc |-> c.acc, cost |-> c.today]
           r == [c EXCEPT !.pc = "lease", !.put = TRUE, !.next = c.start, !.spend = c.today]
<1>1. /\ c.pc = "put"
      /\ usage' = [usage EXCEPT ![c.day][c.prin] = u]
      /\ check' = [check EXCEPT ![w] = r]
      /\ stored' = [stored EXCEPT ![c.prin][c.acc][c.day] =
                      Max2(stored[c.prin][c.acc][c.day], c.today)]
  BY DEF PutUsage, At
<1>2. /\ c \in Check /\ c.acc \in Accounts /\ c.prin \in Principals /\ c.day \in Days
      /\ c.today \in Nat /\ c.today <= Cost(c.acc, c.day)
  BY <1>1, Busy, CheckFacts DEF Check, WithinBill
<1>3. stored[c.prin][c.acc][c.day] <= c.today
  BY <1>1 DEF PrincipalInv, ChecksCounted, Counted
<1>4. /\ stored \in [Principals -> [Accounts -> [Days -> Nat]]]
      /\ usage \in [Days -> [Principals -> Record]]
      /\ check \in [Checkers -> Check]
  BY DEF IInv, TypeOK
<1>5. Max2(stored[c.prin][c.acc][c.day], c.today) = c.today
  <2>1. stored[c.prin][c.acc][c.day] \in Nat  BY <1>2, <1>4
  <2> HIDE DEF c
  <2> QED  BY <1>2, <1>3, <2>1 DEF Max2
<1>6. u.acc = c.acc /\ u.cost = c.today  OBVIOUS
<1>7. r.pc = "lease"
  <2> HIDE DEF c
  <2> QED  BY <1>2 DEF Check
<1> HIDE DEF u, r
<1>8. \A d \in Days, q \in Principals :
        usage'[d][q] = IF d = c.day /\ q = c.prin THEN u ELSE usage[d][q]
  BY <1>1, <1>2, <1>4
<1>9. \A q \in Principals, b \in Accounts, d \in Days :
        stored'[q][b][d] = IF q = c.prin /\ b = c.acc /\ d = c.day THEN c.today
                           ELSE stored[q][b][d]
  <2>1. stored' = [stored EXCEPT ![c.prin][c.acc][c.day] = c.today]  BY <1>1, <1>5
  <2> HIDE DEF c
  <2> QED  BY <1>2, <1>4, <2>1
<1>10. StoredWithinBill'
  <2>1. \A q \in Principals, b \in Accounts, d \in Days :
          stored'[q][b][d] = stored[q][b][d] \/ stored'[q][b][d] <= Cost(b, d)
    <3> HIDE DEF c
    <3> QED  BY <1>2, <1>9
  <2> QED  BY <2>1, StoredStays DEF PrincipalInv
<1>11. RecordsCover' /\ StoredOnRecord'
  <2> SUFFICES ASSUME NEW q \in Principals, NEW b \in Accounts, NEW d \in Days
               PROVE  /\ usage'[d][q].acc = b => stored'[q][b][d] <= usage'[d][q].cost
                      /\ stored'[q][b][d] # 0 => usage'[d][q].acc # None
    BY DEF RecordsCover, StoredOnRecord
  <2> HIDE DEF c
  <2>1. CASE q = c.prin /\ d = c.day
    <3>1. usage'[d][q] = u /\ (b = c.acc => stored'[q][b][d] = c.today)
      BY <1>8, <1>9, <2>1
    <3>2. u.acc = c.acc /\ u.acc # None /\ u.cost = c.today
      BY <1>2, <1>6, BudgetAssumption
    <3> QED  BY <1>2, <3>1, <3>2
  <2>2. CASE ~ (q = c.prin /\ d = c.day)
    <3>1. stored'[q][b][d] = stored[q][b][d] /\ usage'[d][q] = usage[d][q]
      BY <1>8, <1>9, <2>2
    <3> QED  BY <3>1 DEF PrincipalInv, RecordsCover, StoredOnRecord
  <2> QED  BY <2>1, <2>2
<1>12. ASSUME NEW v \in Checkers PROVE Counted(check'[v], usage', stored')
  <2>1. CASE v = w
    <3>1. check'[v] = r  BY <1>1, <1>4, <2>1
    <3> QED  BY <1>7, <3>1, NotCountedYet
  <2>2. CASE v # w
    <3> DEFINE x == check[v]
    <3>1. check'[v] = x  BY <1>1, <1>4, <2>2
    <3>2. Counted(x, usage, stored)  BY DEF PrincipalInv, ChecksCounted
    <3>3. CASE x.pc = "idle"  BY <3>1, <3>3, NotCountedYet
    <3>4. CASE x.pc # "idle"
      <4>1. x.prin # c.prin /\ x.prin \in Principals
        BY <1>1, <2>2, <3>4, Busy DEF ChecksApart
      <4>2. stored'[x.prin] = stored[x.prin]  BY <1>1, <1>4, <4>1
      <4>3. Costs(usage', x.prin) = Costs(usage, x.prin)
        <5>1. \A d \in Days : usage'[d][x.prin] = usage[d][x.prin]  BY <1>8, <4>1
        <5> QED  BY <5>1 DEF Costs
      <4> HIDE DEF x, c
      <4>4. Counted(x, usage', stored')  BY <3>2, <4>2, <4>3 DEF Counted
      <4> QED  BY <3>1, <4>4
    <3> QED  BY <3>3, <3>4
  <2> QED  BY <2>1, <2>2
<1>13. ChecksCounted'  BY <1>12 DEF ChecksCounted
<1>14. LastPast'  BY LastStays DEF PrincipalInv
<1> QED  BY <1>10, <1>11, <1>13, <1>14 DEF PrincipalInv

\* A new lease starts with nothing stored for it.
LEMMA CreateLeaseCounted ==
    ASSUME IInv, [Next]_vars, PrincipalInv, NEW a \in Accounts, NEW p \in Principals,
           CreateLease(a, p)
    PROVE  PrincipalInv'
<1>1. stored' = [stored EXCEPT ![p][a][day] = 0] /\ UNCHANGED <<usage, check>>
  BY DEF CreateLease
<1>2. stored \in [Principals -> [Accounts -> [Days -> Nat]]]  BY DEF IInv, TypeOK
<1>3. \A q \in Principals, b \in Accounts, d \in Days :
        stored'[q][b][d] = stored[q][b][d] \/ stored'[q][b][d] = 0
  BY <1>1, <1>2
<1>4. StoredWithinBill'  BY <1>3, StoredStays DEF PrincipalInv
<1>5. RecordsCover' /\ StoredOnRecord'
  <2> SUFFICES ASSUME NEW q \in Principals, NEW b \in Accounts, NEW d \in Days
               PROVE  /\ usage[d][q].acc = b => stored'[q][b][d] <= usage[d][q].cost
                      /\ stored'[q][b][d] # 0 => usage[d][q].acc # None
    BY <1>1 DEF RecordsCover, StoredOnRecord
  <2>1. stored'[q][b][d] = stored[q][b][d] \/ stored'[q][b][d] = 0  BY <1>3
  <2>2. usage[d][q].cost \in Nat
    <3>1. usage[d][q] \in Record  BY DEF IInv, TypeOK
    <3> QED  BY <3>1 DEF Record
  <2> QED  BY <2>1, <2>2 DEF PrincipalInv, RecordsCover, StoredOnRecord
<1>6. ASSUME NEW v \in Checkers PROVE Counted(check'[v], usage', stored')
  <2> DEFINE c == check[v]
  <2>1. Counted(c, usage, stored)  BY DEF PrincipalInv, ChecksCounted
  <2>2. c.pc = "put" => c.acc \in Accounts /\ c.prin \in Principals /\ c.day \in Days
                        /\ c.today \in Nat
    BY Busy DEF Check
  <2> HIDE DEF c
  <2>3. c.pc = "put" => stored'[c.prin][c.acc][c.day] <= c.today
    <3>1. c.pc = "put" => stored[c.prin][c.acc][c.day] <= c.today  BY <2>1 DEF Counted
    <3>2. c.pc = "put" => stored'[c.prin][c.acc][c.day] \in {0, stored[c.prin][c.acc][c.day]}
      BY <1>3, <2>2
    <3> QED  BY <2>2, <3>1, <3>2
  <2>4. Counted(c, usage, stored')  BY <2>1, <2>3 DEF Counted
  <2> QED  BY <1>1, <2>4 DEF c
<1>7. ChecksCounted'  BY <1>6 DEF ChecksCounted
<1>8. LastPast'  BY LastStays DEF PrincipalInv
<1> QED  BY <1>4, <1>5, <1>7, <1>8 DEF PrincipalInv

\* Steps that touch neither records nor executions.
LEMMA WorldCounted ==
    ASSUME IInv, [Next]_vars, PrincipalInv, UNCHANGED <<usage, stored, check>>
    PROVE  PrincipalInv'
<1>1. StoredWithinBill'  BY StoredStays DEF PrincipalInv
<1>2. RecordsCover' /\ StoredOnRecord' /\ LastPast' /\ ChecksCounted'
  BY LastStays DEF PrincipalInv, RecordsCover, StoredOnRecord, ChecksCounted
<1> QED  BY <1>1, <1>2 DEF PrincipalInv

LEMMA InitCounted == Init => PrincipalInv
<1> SUFFICES ASSUME Init PROVE PrincipalInv  OBVIOUS
<1>1. StoredWithinBill  BY InitSeen DEF SeenInv
<1>2. RecordsCover /\ StoredOnRecord
  BY DEF Init, NoUsage, RecordsCover, StoredOnRecord
<1>3. LastPast /\ ChecksCounted
  <2> SUFFICES ASSUME NEW w \in Checkers
               PROVE  ~LeaseAdded(check[w]) /\ Counted(check[w], usage, stored)
    BY DEF LastPast, ChecksCounted
  <2>1. check[w].pc = "idle"  BY DEF Init, NoCheck
  <2> QED  BY <2>1, NotCountedYet DEF LeaseAdded
<1> QED  BY <1>1, <1>2, <1>3 DEF PrincipalInv

LEMMA NextCounted == IInv /\ PrincipalInv /\ ChecksApart /\ [Next]_vars => PrincipalInv'
<1> SUFFICES ASSUME IInv, PrincipalInv, ChecksApart, [Next]_vars PROVE PrincipalInv'
  OBVIOUS
<1>1. CASE UNCHANGED <<usage, stored, check>>  BY <1>1, WorldCounted
<1>2. CASE Next
  <2>1. CASE NextDay \/ \E a \in Accounts, d \in Days : Spend(a, d)
    BY <1>1, <2>1 DEF NextDay, Spend
  <2>2. ASSUME NEW a \in Accounts, NEW p \in Principals, LeaseStep(a, p)
        PROVE  PrincipalInv'
    <3>1. CASE CreateLease(a, p)  BY <3>1, CreateLeaseCounted
    <3>2. CASE DeleteLease(a, p) \/ FanOut(a, p) \/ \E s \in Days : Discard(a, p, s)
      BY <1>1, <3>2 DEF DeleteLease, FanOut, Discard
    <3>3. ASSUME NEW s \in Days, NEW w \in Checkers, Begin(w, a, p, s) PROVE PrincipalInv'
      BY <3>3, OtherStepsCounted
    <3> QED  BY <2>2, <3>1, <3>2, <3>3 DEF LeaseStep
  <2>3. ASSUME NEW w \in Checkers, CheckStep(w) PROVE PrincipalInv'
    <3>1. CASE CalculateTotalSpend(w)  BY <3>1, CalculateTotalSpendCounted
    <3>2. CASE PutUsage(w)  BY <3>2, PutUsageCounted
    <3>3. CASE BeginPrincipalSpend(w)  BY <3>3, BeginPrincipalSpendCounted
    <3>4. CASE AddPrincipalDay(w)  BY <3>4, AddPrincipalDayCounted
    <3>5. CASE Decide(w)  BY <3>5, DecideCounted
    <3>6. CASE ExpireLease(w) \/ ExpireLeaseFails(w)  BY <3>6, ExpireLeaseCounted
    <3>7. CASE PutUsageFails(w) \/ AddLeaseDay(w) \/ SendMail(w) \/ Fail(w)
      BY <3>7, OtherStepsCounted
    <3> QED  BY <2>3, <3>1, <3>2, <3>3, <3>4, <3>5, <3>6, <3>7 DEF CheckStep
  <2> QED  BY <1>2, <2>1, <2>2, <2>3 DEF Next
<1> QED  BY <1>1, <1>2 DEF vars

\* The sum over the accounts in the property is that of the lemmas.
LEMMA AllKnown ==
    ASSUME NEW p, NEW D
    PROVE  MapThenSumSet(LAMBDA a : KnownOf(p, a, D), Accounts)
             = SumOver([a \in Accounts |-> KnownOf(p, a, D)], Accounts)
<1> DEFINE k == [a \in Accounts |-> KnownOf(p, a, D)]
           K(g) == g = [T \in SUBSET Accounts |-> IF T = {} THEN 0
                     ELSE KnownOf(p, CHOOSE x \in T : TRUE, D)
                            + g[T \ {CHOOSE x \in T : TRUE}]]
<1>1. MapThenSumSet(LAMBDA a : KnownOf(p, a, D), Accounts) = (CHOOSE g : K(g))[Accounts]
  BY DEF MapThenSumSet, MapThenFoldSet
<1>2. SumOver(k, Accounts) = (CHOOSE g : Adds(g, k, Accounts))[Accounts]
  <2> HIDE DEF k
  <2> QED  BY DEF SumOver, MapThenSumSet, MapThenFoldSet, Adds
<1>3. ASSUME NEW g PROVE K(g) <=> Adds(g, k, Accounts)
  <2>1. \A T \in SUBSET Accounts : T # {} =>
          KnownOf(p, CHOOSE x \in T : TRUE, D) = k[CHOOSE x \in T : TRUE]
    OBVIOUS
  <2> HIDE DEF k
  <2> QED  BY <2>1, Zenon DEF Adds
<1> HIDE DEF k, K
<1>4. (CHOOSE g : K(g)) = (CHOOSE g : Adds(g, k, Accounts))  BY <1>3, Zenon
<1> QED  BY <1>1, <1>2, <1>4 DEF k

\* A check that lets a lease go on has counted what has been stored of all
\* accounts of the principal on the days of which nothing was lost.
LEMMA CountedSuffices == IInv /\ ReasonsHold /\ PrincipalInv => PrincipalBudgetUnlessLost
<1> SUFFICES ASSUME IInv, ReasonsHold, PrincipalInv, NEW w \in Checkers, GoesOn(check[w])
             PROVE  LET c == check[w]
                        intact == {d \in PeriodStart(c.last) .. LastSure(c) :
                                      NothingLost(c.prin, d)}
                    IN MapThenSumSet(LAMBDA a : KnownOf(c.prin, a, intact), Accounts)
                         <= PrincipalBudget
  BY DEF PrincipalBudgetUnlessLost
<1> DEFINE c == check[w]
           s == PeriodStart(c.last)
           e == LastSure(c)
           D == {d \in s .. e : NothingLost(c.prin, d)}
           k == [a \in Accounts |-> KnownOf(c.prin, a, D)]
           f == Costs(usage, c.prin)
<1>1. c.pc = "mail" /\ c.reason = "Active"  BY DEF GoesOn
<1>2. c \in Check /\ c.prin \in Principals  BY <1>1, Busy
<1>3. c.pspend <= PrincipalBudget /\ c.pspend \in Nat /\ PrincipalBudget \in Nat
  BY <1>1, <1>2, BudgetAssumption DEF ReasonsHold, ReasonHolds, Check
<1>4. c.last \in Days /\ SumOver(f, s .. e) <= c.pspend
  BY <1>1 DEF PrincipalInv, LastPast, LeaseAdded, ChecksCounted, Counted
<1>5. s .. e \subseteq Days /\ IsFiniteSet(s .. e)
  <2>1. s \in 1 .. c.last  BY <1>4, PeriodStartInDays
  <2>2. e \in {c.last, c.last - 1}  BY DEF LastSure
  <2> HIDE DEF s, e
  <2>3. s \in Int /\ e \in Int /\ s .. e \subseteq Days
    BY <1>4, <2>1, <2>2, Numbers DEF Days
  <2> QED  BY <2>3, FS_Interval
<1>6. D \subseteq Days /\ IsFiniteSet(D) /\ \A d \in D : NothingLost(c.prin, d)
  BY <1>5, FS_Subset
<1>7. \A d \in Days : f[d] \in Nat
  BY <1>2 DEF Costs, IInv, TypeOK, Record
<1>8. SumOver(k, Accounts) <= SumOver(f, D)
  <2> HIDE DEF D
  <2> QED  BY <1>2, <1>6, AccountsWithinRecords DEF PrincipalInv
<1>9. SumOver(f, D) <= SumOver(f, s .. e) /\ SumOver(f, D) \in Int /\ SumOver(f, s .. e) \in Int
  <2>1. D \subseteq s .. e  OBVIOUS
  <2> HIDE DEF D, f, s, e
  <2>2. \A d \in s .. e : f[d] \in Nat /\ f[d] \in Int  BY <1>5, <1>7
  <2>3. \A d \in D : f[d] \in Int  BY <2>1, <2>2
  <2> QED  BY <1>5, <1>6, <2>1, <2>2, <2>3, SumOfMore, SumFacts
<1>10. SumOver(k, Accounts) \in Int
  <2>1. ASSUME NEW a \in Accounts PROVE k[a] \in Int
    <3>1. k[a] = SumOver(stored[c.prin][a], D)  BY KnownOfIsSum
    <3>2. \A d \in D : stored[c.prin][a][d] \in Int
      <4>1. D \subseteq Days  BY <1>6
      <4> HIDE DEF D
      <4> QED  BY <1>2, <4>1 DEF IInv, TypeOK
    <3> QED  BY <1>6, <3>1, <3>2, SumFacts
  <2> HIDE DEF k
  <2> QED  BY <2>1, SumFacts, BudgetAssumption
<1>11. MapThenSumSet(LAMBDA a : KnownOf(c.prin, a, D), Accounts) = SumOver(k, Accounts)
  <2> HIDE DEF D
  <2> QED  BY AllKnown
<1>12. SumOver(k, Accounts) <= PrincipalBudget
  <2> HIDE DEF k, c, s, e, D, f
  <2> QED  BY <1>3, <1>4, <1>8, <1>9, <1>10
<1> QED  BY <1>11, <1>12

\* On the days of the period of which no record was taken over by another
\* account's, the principal's budget limits what the checks have seen it spend
\* over all its leases, for any accounts, principals, executions, days and
\* costs, for late and failing checks and, but for today, for reads that are
\* behind: provided no two checks of a principal overlap.  So the one record for
\* a principal and a day is what defeats the budget.
THEOREM PrincipalBudgetUnless ==
    Spec /\ []ChecksApart => []PrincipalBudgetUnlessLost
<1>1. Spec => []IInv
  BY InitInv, NextInv, PTL DEF Spec
<1>2. Spec => []ReasonsHold
  <2>1. IInv => TypeOK  BY DEF IInv
  <2> QED  BY <1>1, <2>1, ReasonsInv, PTL DEF Spec
<1>3. Spec /\ []ChecksApart => []PrincipalInv
  BY <1>1, InitCounted, NextCounted, PTL DEF Spec
<1> QED  BY <1>1, <1>2, <1>3, CountedSuffices, PTL

\* A principal that has one account only cannot lose a record: its budget holds,
\* if reads are consistent too.
THEOREM PrincipalBudgetOneAccount ==
    ASSUME ~Lag, NEW x, Accounts = {x}, NEW v, Checkers = {v}
    PROVE  Spec => []PrincipalBudgetHolds
<1>1. []ChecksApart
  <2>1. ChecksApart  BY DEF ChecksApart
  <2> QED  BY <2>1, PTL
<1>2. IInv /\ PrincipalInv /\ PrincipalBudgetUnlessLost => PrincipalBudgetHolds
  <2> SUFFICES ASSUME IInv, PrincipalInv, PrincipalBudgetUnlessLost, NEW w \in Checkers,
                      GoesOn(check[w])
               PROVE  MapThenSumSet(LAMBDA a : Known(check[w].prin, a,
                                          PeriodStart(check[w].last), check[w].last),
                                    Accounts) <= PrincipalBudget
    BY DEF PrincipalBudgetHolds
  <2> DEFINE c == check[w]
             D == PeriodStart(c.last) .. LastSure(c)
             intact == {d \in D : NothingLost(c.prin, d)}
  <2>1. c.pc = "mail" /\ LastSure(c) = c.last  BY DEF GoesOn, LastSure
  <2>2. c.prin \in Principals  BY <2>1, Busy
  <2>3. c.last \in Days  BY <2>1 DEF PrincipalInv, LastPast, LeaseAdded
  <2>4. D \subseteq Days
    <3>1. PeriodStart(c.last) \in 1 .. c.last  BY <2>3, PeriodStartInDays
    <3> DEFINE s == PeriodStart(c.last)
    <3>2. s \in 1 .. c.last  BY <3>1
    <3> HIDE DEF s, c
    <3>3. s .. c.last \subseteq Days  BY <2>3, <3>2, Numbers DEF Days
    <3> QED  BY <2>1, <3>3 DEF s
  <2>5. ASSUME NEW d \in D PROVE NothingLost(c.prin, d)
    <3>1. d \in Days  BY <2>4
    <3>2. usage[d][c.prin].acc \in {x, None}  BY <2>2, <3>1 DEF IInv, TypeOK, Record
    <3>3. \A a \in Accounts : stored[c.prin][a][d] # 0 => usage[d][c.prin].acc # None
      BY <2>2, <3>1 DEF PrincipalInv, StoredOnRecord
    <3> HIDE DEF c, D
    <3> QED  BY <3>2, <3>3 DEF NothingLost
  <2>6. intact = D  BY <2>5
  <2>7. MapThenSumSet(LAMBDA a : KnownOf(c.prin, a, intact), Accounts) <= PrincipalBudget
    BY DEF PrincipalBudgetUnlessLost
  <2> DEFINE k(days) == [a \in Accounts |-> KnownOf(c.prin, a, days)]
             whole == PeriodStart(c.last) .. c.last
  <2>8. MapThenSumSet(LAMBDA a : KnownOf(c.prin, a, intact), Accounts)
          = SumOver(k(intact), Accounts)
    <3> HIDE DEF intact
    <3> QED  BY AllKnown
  <2>9. intact = whole  BY <2>1, <2>6
  <2>10. MapThenSumSet(LAMBDA a : KnownOf(c.prin, a, whole), Accounts)
           = SumOver(k(whole), Accounts)
    <3> HIDE DEF whole
    <3> QED  BY AllKnown
  <2>11. SumOver(k(whole), Accounts) <= PrincipalBudget
    <3>1. SumOver(k(intact), Accounts) <= PrincipalBudget  BY <2>7, <2>8
    <3> HIDE DEF intact, whole, k
    <3> QED  BY <2>9, <3>1
  <2>12. MapThenSumSet(LAMBDA a : KnownOf(c.prin, a, whole), Accounts) <= PrincipalBudget
    BY <2>10, <2>11
  <2> QED  BY <2>12 DEF Known
<1>3. Spec => []IInv  BY InitInv, NextInv, PTL DEF Spec
<1>4. Spec /\ []ChecksApart => []PrincipalInv
  BY <1>3, InitCounted, NextCounted, PTL DEF Spec
<1> QED  BY <1>1, <1>2, <1>3, <1>4, PrincipalBudgetUnless, PTL
=============================================================================
