-------------------------- MODULE UsageQueryProofs --------------------------
(***************************************************************************)
(* What the usage queries return when they return, for any number of days, *)
(* principals and records.                                                 *)
(***************************************************************************)
EXTENDS UsageQuery, FiniteSetTheorems, TLAPS

Looping == call \in {"byDateRange", "byPrincipal"}

\* At the head of the day loop, the records of the days before this one have
\* been collected once and those of the other days not at all; what has to be
\* collected is still in the table and lies within the range.
UpToToday ==
    Looping =>
        /\ from <= to
        /\ before \subseteq usage
        /\ \A r \in before : r[1] <= to
        /\ call = "byPrincipal" => \A r \in before : r[2] = Me
        /\ \A r \in before : r[1] < from => output[r] = 1
        /\ \A r \in Records : output[r] <= 1 /\ (r[1] >= from => output[r] = 0)

IInv == TypeOK /\ UpToToday /\ QueryComplete

-----------------------------------------------------------------------------

LEMMA CollectType ==
    ASSUME TypeOK, NEW rs, Collect(rs)
    PROVE  output' \in [Records -> 0 .. 2]
BY DEF TypeOK, Collect

LEMMA InitInv == Init => IInv
<1> SUFFICES ASSUME Init PROVE IInv
  OBVIOUS
<1> USE UsageAssumption
<1>1. TypeOK
  BY DEF Init, TypeOK, Calls, Days, Records
<1> QED
  BY <1>1 DEF Init, IInv, UpToToday, QueryComplete, Looping

\* A call begins with nothing collected.
LEMMA CallStep ==
    ASSUME TypeOK, NEW s \in Days,
           (\E e \in 0 .. Today : GetUsageByDateRange(s, e)) \/ GetUsageByPrincipal(s)
    PROVE  IInv'
<1> USE UsageAssumption DEF Days
<1>1. CASE \E e \in 0 .. Today : GetUsageByDateRange(s, e)
  <2>1. PICK e \in 0 .. Today : GetUsageByDateRange(s, e)
    BY <1>1
  <2>2. TypeOK'
    BY <2>1 DEF TypeOK, GetUsageByDateRange, Calls, Records
  <2>3. UpToToday'
    BY <2>1 DEF TypeOK, GetUsageByDateRange, UpToToday, Looping, Records
  <2>4. call' = "returned" => before' = {}
    BY <2>1 DEF GetUsageByDateRange
  <2>5. QueryComplete'
    BY <2>1, <2>4 DEF GetUsageByDateRange, QueryComplete, Records
  <2> QED
    BY <2>2, <2>3, <2>5 DEF IInv
<1>2. CASE GetUsageByPrincipal(s)
  <2>1. TypeOK'
    BY <1>2 DEF TypeOK, GetUsageByPrincipal, Calls, Records
  <2>2. UpToToday'
    BY <1>2 DEF TypeOK, GetUsageByPrincipal, UpToToday, Looping, Records
  <2>3. QueryComplete'
    BY <1>2 DEF GetUsageByPrincipal, QueryComplete
  <2> QED
    BY <2>1, <2>2, <2>3 DEF IInv
<1> QED
  BY <1>1, <1>2

\* One turn of the day loop, whichever records of the day were asked for: it
\* collects some records of this day, among them all that have to be.
LEMMA DayStep ==
    ASSUME IInv, Looping, NEW rs \in SUBSET usage, Collect(rs), Step(call),
           \A r \in rs : r[1] = from,
           \A r \in before : r[1] = from => r \in rs,
           UNCHANGED <<usage, to, before>>
    PROVE  UpToToday' /\ QueryComplete' /\ from' \in 1 .. Today + 1
<1> USE UsageAssumption DEF IInv, TypeOK, Days
<1>1. from \in Nat /\ to \in Nat /\ from <= to /\ from' = from + 1
  BY DEF UpToToday, Step
<1>2. ASSUME NEW r \in Records
      PROVE  /\ r[1] \in Nat
             /\ output'[r] <= 1
             /\ r[1] >= from' => output'[r] = 0
             /\ r \in before /\ r[1] < from' => output'[r] = 1
  <2>1. r[1] \in Nat
    BY DEF Records
  <2>2. output'[r] = IF r \in rs /\ output[r] < 2 THEN output[r] + 1 ELSE output[r]
    BY DEF Collect
  <2>3. /\ output[r] \in 0 .. 2 /\ output[r] <= 1
        /\ r[1] >= from => output[r] = 0
        /\ r \in before /\ r[1] < from => output[r] = 1
    BY DEF UpToToday
  <2>4. CASE r \in rs
    BY <1>1, <2>1, <2>2, <2>3, <2>4
  <2>5. CASE r \notin rs
    BY <1>1, <2>1, <2>2, <2>3, <2>5
  <2> QED
    BY <2>1, <2>4, <2>5
<1>3. \A r \in before : r \in Records /\ r[1] <= to
  BY DEF UpToToday
<1>4. UpToToday'
  <2> SUFFICES ASSUME Looping' PROVE UpToToday'
    BY DEF UpToToday
  <2>1. call' = call /\ from' <= to
    BY <1>1 DEF Step, Looping
  <2>2. before' \subseteq usage' /\ (call' = "byPrincipal" => \A r \in before' : r[2] = Me)
    BY <2>1 DEF UpToToday
  <2> QED
    BY <1>2, <1>3, <2>1, <2>2 DEF UpToToday
<1>5. QueryComplete'
  <2> SUFFICES ASSUME call' = "returned" PROVE QueryComplete'
    BY DEF QueryComplete
  <2>1. to < from'
    BY <1>1 DEF Step, Looping
  <2>2. \A r \in before : r[1] < from'
    BY <1>1, <1>2, <1>3, <2>1
  <2> QED
    BY <1>2, <1>3, <2>2 DEF QueryComplete
<1> QED
  BY <1>1, <1>4, <1>5

LEMMA QueryDayStep ==
    ASSUME IInv, QueryDay
    PROVE  IInv'
<1> USE UsageAssumption
<1>1. PICK rs \in SUBSET Rest(from, 0), last \in Users \cup {0} :
        /\ IsAnswer(from, 0, rs, last)
        /\ Collect(rs)
        /\ resp' = last
        /\ IF last # 0 THEN call' = "paging" /\ UNCHANGED from
                       ELSE Step("byDateRange")
  BY DEF QueryDay
<1>2. output' \in [Records -> 0 .. 2]
  BY <1>1, CollectType DEF IInv
<1>3. CASE last # 0
  <2>1. call' = "paging" /\ from' = from
    BY <1>1, <1>3
  <2>2. TypeOK'
    BY <1>1, <1>2, <2>1 DEF IInv, TypeOK, QueryDay, Calls
  <2> QED
    BY <2>1, <2>2 DEF IInv, UpToToday, QueryComplete, Looping
<1>4. CASE last = 0
  <2>1. Step(call) /\ Looping
    BY <1>1, <1>4 DEF QueryDay, Looping
  <2>2. rs = Rest(from, 0)
    <3>1. <<from, 0>> \notin rs
      BY <1>1 DEF Rest
    <3> QED
      BY <1>1, <1>4, <3>1 DEF IsAnswer
  <2>3. rs \in SUBSET usage /\ \A r \in rs : r[1] = from
    BY <2>2 DEF Rest
  <2>4. \A r \in before : r[1] = from => r \in rs
    <3>1. \A r \in before : r \in usage /\ r[2] \in Users
      BY <2>1 DEF IInv, TypeOK, UpToToday, Records
    <3>2. \A u \in Users : u > 0
      OBVIOUS
    <3> QED
      BY <2>2, <3>1, <3>2 DEF Rest
  <2>5. UpToToday' /\ QueryComplete' /\ from' \in 1 .. Today + 1
    BY <1>1, <2>1, <2>3, <2>4, DayStep DEF QueryDay
  <2>6. TypeOK'
    BY <1>1, <1>2, <1>4, <2>1, <2>5 DEF IInv, TypeOK, QueryDay, Step, Calls
  <2> QED
    BY <2>5, <2>6 DEF IInv
<1> QED
  BY <1>3, <1>4

LEMMA GetDayStep ==
    ASSUME IInv, GetDay
    PROVE  IInv'
<1> DEFINE rs == {r \in usage : r = <<from, Me>>}
<1>1. Collect(rs) /\ Step(call) /\ Looping /\ UNCHANGED <<usage, to, resp, before>>
  BY DEF GetDay, Looping
<1>2. rs \in SUBSET usage /\ \A r \in rs : r[1] = from
  OBVIOUS
<1>3. \A r \in before : r[1] = from => r \in rs
  <2>1. \A r \in before : r \in usage /\ r \in Days \X Users /\ r[2] = Me
    BY <1>1 DEF IInv, TypeOK, UpToToday, Records, GetDay
  <2> QED
    BY <2>1
<1>4. UpToToday' /\ QueryComplete' /\ from' \in 1 .. Today + 1
  <2> HIDE DEF rs
  <2> QED
    BY <1>1, <1>2, <1>3, DayStep
<1>5. output' \in [Records -> 0 .. 2]
  BY <1>1, CollectType DEF IInv
<1>6. TypeOK'
  BY <1>1, <1>4, <1>5 DEF IInv, TypeOK, Step, Looping, Calls
<1> QED
  BY <1>4, <1>6 DEF IInv

\* The loop over the other pages collects again and again, and never returns.
LEMMA NextPageStep ==
    ASSUME IInv, QueryNextPage
    PROVE  IInv'
<1>1. PICK rs : Collect(rs)
  BY DEF QueryNextPage
<1>2. output' \in [Records -> 0 .. 2]
  BY <1>1, CollectType DEF IInv
<1>3. call = "paging" /\ UNCHANGED <<usage, call, from, to, resp, before>>
  BY DEF QueryNextPage
<1>4. TypeOK'
  BY <1>2, <1>3 DEF IInv, TypeOK
<1> QED
  BY <1>3, <1>4 DEF IInv, UpToToday, QueryComplete, Looping

LEMMA OtherStep ==
    ASSUME IInv, QueryFails \/ (\E u \in Users : PutUsage(u)) \/ UNCHANGED vars
    PROVE  IInv'
<1> USE UsageAssumption DEF IInv
<1>1. CASE QueryFails
  BY <1>1 DEF QueryFails, TypeOK, UpToToday, QueryComplete, Looping, Calls
<1>2. CASE \E u \in Users : PutUsage(u)
  <2>1. /\ usage \subseteq usage' /\ usage' \in SUBSET Records
        /\ UNCHANGED <<call, from, to, resp, output, before>>
    BY <1>2 DEF PutUsage, TypeOK, Records, Days
  <2> QED
    BY <2>1 DEF TypeOK, UpToToday, QueryComplete, Looping
<1>3. CASE UNCHANGED vars
  BY <1>3 DEF vars, TypeOK, UpToToday, QueryComplete, Looping
<1> QED
  BY <1>1, <1>2, <1>3

LEMMA UsageInvariant == Spec => []IInv
<1>1. IInv /\ [Next]_vars => IInv'
  BY CallStep, QueryDayStep, GetDayStep, NextPageStep, OtherStep
     DEF Next, ReadStep, IInv
<1> QED
  BY <1>1, InitInv, PTL DEF Spec

-----------------------------------------------------------------------------

\* Type correctness.
THEOREM UsageTypeCorrect == Spec => []TypeOK
BY UsageInvariant, PTL DEF IInv

\* A usage query that returns has every record of its range, each once.
THEOREM UsageReturnedComplete == Spec => []QueryComplete
BY UsageInvariant, PTL DEF IInv

-----------------------------------------------------------------------------
(* A call passes its days *)

\* A day whose records are read again has a full answer.
PagingIsFull == call = "paging" => PageFull(from)

LEMMA DayIsFinite ==
    ASSUME IsFiniteSet(Users), NEW V \in SUBSET Records, NEW d
    PROVE  /\ IsFiniteSet({r \in V : r[1] = d})
           /\ Cardinality({r \in V : r[1] = d}) \in Nat
<1>1. IsFiniteSet(Records)
  <2>1. IsFiniteSet(1 .. Today)
    BY UsageAssumption, FS_Interval
  <2> QED
    BY <2>1, FS_Product DEF Records, Days
<1>2. {r \in V : r[1] = d} \in SUBSET Records
  OBVIOUS
<1>3. IsFiniteSet({r \in V : r[1] = d})
  BY <1>1, <1>2, FS_Subset
<1> QED
  BY <1>3, FS_CardinalityType

\* An answer that comes with a key is a full one.
LEMMA KeyMeansFull ==
    ASSUME TypeOK, IsFiniteSet(Users), NEW d, NEW last \in Users \cup {0}, last # 0,
           NEW rs \in SUBSET Rest(d, 0), IsAnswer(d, 0, rs, last)
    PROVE  PageFull(d)
<1> DEFINE R == {r \in usage : r[1] = d}
<1>1. Cardinality(rs) = PageSize
  BY DEF IsAnswer
<1>2. rs \in SUBSET R
  BY DEF Rest
<1>3. IsFiniteSet(R)
  BY DayIsFinite DEF TypeOK
<1>4. PageSize <= Cardinality(R)
  BY <1>1, <1>2, <1>3, FS_Subset
<1>5. PageSize \in Nat /\ Cardinality(R) \in Nat
  BY <1>3, UsageAssumption, FS_CardinalityType
<1> HIDE DEF R
<1>6. Cardinality(R) >= PageSize
  BY <1>4, <1>5
<1> QED
  BY <1>6 DEF R, PageFull

\* More records do not make a day any less full.
LEMMA FullStaysFull ==
    ASSUME TypeOK, TypeOK', IsFiniteSet(Users), usage \subseteq usage',
           NEW d \in Nat, PageFull(d)
    PROVE  Cardinality({r \in usage' : r[1] = d}) >= PageSize
<1> DEFINE R == {r \in usage : r[1] = d}
           S == {r \in usage' : r[1] = d}
<1>1. R \in SUBSET S
  OBVIOUS
<1>2. IsFiniteSet(S) /\ Cardinality(S) \in Nat
  BY DayIsFinite DEF TypeOK
<1>3. Cardinality(R) \in Nat /\ Cardinality(R) >= PageSize
  BY DayIsFinite DEF PageFull, TypeOK
<1>4. Cardinality(R) <= Cardinality(S)
  BY <1>1, <1>2, FS_Subset
<1>5. PageSize \in Nat
  BY UsageAssumption
<1> HIDE DEF R, S
<1>6. Cardinality(S) >= PageSize
  BY <1>2, <1>3, <1>4, <1>5
<1> QED
  BY <1>6 DEF S

LEMMA PagingStep ==
    ASSUME IInv, IInv', PagingIsFull, [Next]_vars, IsFiniteSet(Users)
    PROVE  PagingIsFull'
<1>0. TypeOK /\ TypeOK' /\ from \in Nat
  BY DEF IInv, TypeOK
<1>1. CASE QueryDay
  <2> SUFFICES ASSUME call' = "paging" PROVE PageFull(from)'
    BY DEF PagingIsFull
  <2>1. PICK rs \in SUBSET Rest(from, 0), last \in Users \cup {0} :
          /\ IsAnswer(from, 0, rs, last)
          /\ IF last # 0 THEN call' = "paging" /\ UNCHANGED from
                         ELSE Step("byDateRange")
    BY <1>1 DEF QueryDay
  <2>2. last # 0 /\ from' = from /\ usage' = usage
    BY <1>1, <2>1 DEF QueryDay, Step
  <2>3. PageFull(from)
    BY <1>0, <2>1, <2>2, KeyMeansFull
  <2> QED
    BY <2>2, <2>3 DEF PageFull
<1>2. CASE QueryNextPage
  BY <1>2 DEF QueryNextPage, PagingIsFull, PageFull
<1>3. CASE GetDay
  BY <1>3 DEF GetDay, Step, PagingIsFull
<1>4. CASE QueryFails
  BY <1>4 DEF QueryFails, PagingIsFull
<1>5. ASSUME NEW u \in Users, PutUsage(u)
      PROVE  PagingIsFull'
  <2>1. usage \subseteq usage' /\ UNCHANGED <<call, from>>
    BY <1>5 DEF PutUsage
  <2> SUFFICES ASSUME call = "paging" PROVE PageFull(from)'
    BY <2>1 DEF PagingIsFull
  <2>2. Cardinality({r \in usage' : r[1] = from}) >= PageSize
    BY <1>0, <2>1, FullStaysFull DEF PagingIsFull
  <2> QED
    BY <2>1, <2>2 DEF PageFull
<1>6. ASSUME NEW s \in Days,
             (\E e \in 0 .. Today : GetUsageByDateRange(s, e)) \/ GetUsageByPrincipal(s)
      PROVE  PagingIsFull'
  BY <1>6 DEF GetUsageByDateRange, GetUsageByPrincipal, PagingIsFull
<1>7. CASE UNCHANGED vars
  BY <1>7 DEF vars, PagingIsFull, PageFull
<1> QED
  BY <1>1, <1>2, <1>3, <1>4, <1>5, <1>6, <1>7 DEF Next, ReadStep

\* A read of a call passes a day of its range, unless that day's records fill an
\* answer.  A call has finitely many days, so it can be held up by such a day
\* only; that it reads on is what QueryEnds adds under fairness.
THEOREM OnlyFullDaysHoldUp ==
    ASSUME IsFiniteSet(Users)
    PROVE  Spec => DaysPass
<1>1. Spec => [](IInv /\ PagingIsFull)
  <2>1. Init => PagingIsFull
    BY DEF Init, PagingIsFull
  <2> QED
    BY <2>1, PagingStep, UsageInvariant, PTL DEF Spec
<1>2. IInv /\ PagingIsFull /\ [Next]_vars =>
        [ReadStep => \/ from' = from + 1 /\ from <= to
                     \/ from' = from /\ PageFull(from)]_vars
  <2> SUFFICES ASSUME IInv, PagingIsFull, ReadStep
               PROVE  \/ from' = from + 1 /\ from <= to
                      \/ from' = from /\ PageFull(from)
    OBVIOUS
  <2>1. CASE QueryDay
    <3>1. PICK rs \in SUBSET Rest(from, 0), last \in Users \cup {0} :
            /\ IsAnswer(from, 0, rs, last)
            /\ IF last # 0 THEN call' = "paging" /\ UNCHANGED from
                           ELSE Step("byDateRange")
      BY <2>1 DEF QueryDay
    <3>2. CASE last # 0
      BY <3>1, <3>2, KeyMeansFull DEF IInv
    <3>3. CASE last = 0
      BY <2>1, <3>1, <3>3 DEF QueryDay, Step, IInv, UpToToday, Looping
    <3> QED
      BY <3>2, <3>3
  <2>2. CASE QueryNextPage
    BY <2>2 DEF QueryNextPage, PagingIsFull
  <2>3. CASE GetDay
    BY <2>3 DEF GetDay, Step, IInv, UpToToday, Looping
  <2> QED
    BY <2>1, <2>2, <2>3 DEF ReadStep
<1> QED
  BY <1>1, <1>2, PTL DEF Spec, DaysPass
=============================================================================
