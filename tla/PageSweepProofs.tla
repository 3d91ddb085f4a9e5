-------------------------- MODULE PageSweepProofs ---------------------------
(***************************************************************************)
(* A sweep of populate_reset_queue forgets no record and handles none      *)
(* twice, for any number of records, any page size and any changes of the  *)
(* index meanwhile.                                                        *)
(***************************************************************************)
EXTENDS PageSweep, FiniteSetTheorems, TLAPS

Handled == sent \cup errs

\* What has been handled lies before the start key, and before what is left
\* of the page; the start key is the end of the page.
KeyMovesOn ==
    /\ pc = "list" => \A r \in Handled : r <= next
    /\ pc = "send" => \A r \in Handled, q \in page : r < q
    /\ pc = "send" /\ next # 0 => \A r \in Handled \cup page : r <= next

\* Of the records that stayed, those before the start key have been handled
\* or are left of the page; with no start key, that is all of them once a
\* page has been read.
NothingSkipped ==
    /\ stayed \subseteq listed
    /\ pc = "list" => \A r \in stayed : r <= next => r \in Handled
    /\ pc = "send" => \A r \in stayed : next = 0 \/ r <= next => r \in Handled \cup page

IInv == TypeOK /\ KeyMovesOn /\ NothingSkipped

-----------------------------------------------------------------------------

\* Type correctness, for both sweeps.
THEOREM SweepTypeCorrect == Spec => []TypeOK
<1>1. Init => TypeOK
  BY DEF Init, TypeOK
<1>2. TypeOK /\ [Next]_vars => TypeOK'
  <2> SUFFICES ASSUME TypeOK, [Next]_vars
               PROVE  TypeOK'
    OBVIOUS
  <2> USE SweepAssumption DEF TypeOK
  <2>1. CASE Start
    BY <2>1 DEF Start
  <2>2. CASE ListPage
    BY <2>2 DEF ListPage, PagesAfter, After
  <2>3. ASSUME NEW r \in Places, Send(r) \/ SendFails(r)
        PROVE  TypeOK'
    BY <2>3 DEF Send, SendFails
  <2>4. CASE NextPage
    BY <2>4 DEF NextPage
  <2>5. CASE Abort
    BY <2>5 DEF Abort
  <2>6. ASSUME NEW r \in Places, Enter(r) \/ Leave(r)
        PROVE  TypeOK'
    BY <2>6 DEF Enter, Leave
  <2>7. CASE UNCHANGED vars
    BY <2>7 DEF vars
  <2> QED
    BY <2>1, <2>2, <2>3, <2>4, <2>5, <2>6, <2>7 DEF Next, SweepStep
<1> QED
  BY <1>1, <1>2, PTL DEF Spec

-----------------------------------------------------------------------------

\* A page holds every record listed after the start key up to its own last
\* one, and all of them if it comes without a key to go on from.
LEMMA PageTaken ==
    ASSUME TypeOK, ListPage
    PROVE  /\ page' \subseteq After(next)
           /\ next' = 0 => page' = After(next)
           /\ next' # 0 => \A r \in page' : r <= next'
           /\ next' # 0 => \A r \in After(next) : r <= next' => r \in page'
<1>1. PICK p \in PagesAfter(next) :
        /\ page' = p
        /\ \/ p = After(next) /\ next' = 0
           \/ /\ Cardinality(p) = PageSize
              /\ next' \in {r \in p : \A q \in p : q <= r}
  BY DEF ListPage
<1>2. p \subseteq After(next) /\ \A r \in p, q \in After(next) \ p : r < q
  BY <1>1 DEF PagesAfter
<1>3. After(next) \subseteq Nat \ {0}
  BY SweepAssumption DEF After, TypeOK
<1>4. CASE p = After(next) /\ next' = 0
  BY <1>1, <1>4
<1>5. CASE next' \in {r \in p : \A q \in p : q <= r}
  <2>1. next' \in p /\ next' \in Nat \ {0}
    BY <1>2, <1>3, <1>5
  <2>2. ASSUME NEW r \in After(next), r <= next', r \notin p
        PROVE  FALSE
    <3>1. next' < r
      BY <1>2, <2>1, <2>2
    <3> QED
      BY <1>3, <2>1, <2>2, <3>1
  <2> QED
    BY <1>1, <1>2, <1>5, <2>1, <2>2
<1> QED
  BY <1>1, <1>4, <1>5

LEMMA KeyStep ==
    ASSUME TypeOK, KeyMovesOn, [Next]_vars
    PROVE  KeyMovesOn'
<1> USE SweepAssumption DEF TypeOK, KeyMovesOn, Handled
<1>1. CASE Start
  BY <1>1 DEF Start
<1>2. CASE ListPage
  <2>1. UNCHANGED Handled /\ pc' = "send" /\ \A r \in Handled : r <= next
    BY <1>2 DEF ListPage
  <2>2. \A q \in page' : q \in Places /\ q > next
    BY <1>2, PageTaken DEF After
  <2>3. ASSUME NEW r \in Handled, NEW q \in page'
        PROVE  r \in Nat /\ q \in Nat /\ r < q
    <3>1. q \in Nat
      BY <2>2
    <3>2. r \in Nat /\ next \in Nat
      OBVIOUS
    <3>3. r <= next /\ next < q
      BY <2>1, <2>2
    <3> QED
      BY <3>1, <3>2, <3>3
  <2>4. ASSUME next' # 0
        PROVE  \A r \in Handled \cup page' : r <= next'
    <3>1. next' \in page' /\ \A q \in page' : q <= next'
      BY <1>2, <2>4 DEF ListPage
    <3>2. ASSUME NEW r \in Handled
          PROVE  r <= next'
      BY <2>3, <3>1
    <3> QED
      BY <3>1, <3>2
  <2> QED
    BY <2>1, <2>3, <2>4
<1>3. ASSUME NEW r \in Places, Send(r) \/ SendFails(r)
      PROVE  KeyMovesOn'
  <2>1. /\ pc = "send" /\ UNCHANGED <<pc, next>>
        /\ r \in page /\ page' = page \ {r}
        /\ Handled' = Handled \cup {r}
        /\ \A q \in page : r <= q
    BY <1>3 DEF Send, SendFails, First
  <2>2. \A q \in page' : r < q
    BY <2>1
  <2> QED
    BY <2>1, <2>2
<1>4. CASE NextPage
  BY <1>4 DEF NextPage, MorePages
<1>5. CASE Abort
  BY <1>5 DEF Abort
<1>6. ASSUME NEW r \in Places, Enter(r) \/ Leave(r)
      PROVE  KeyMovesOn'
  BY <1>6 DEF Enter, Leave
<1>7. CASE UNCHANGED vars
  BY <1>7 DEF vars
<1> QED
  BY <1>1, <1>2, <1>3, <1>4, <1>5, <1>6, <1>7 DEF Next, SweepStep

LEMMA SkipStep ==
    ASSUME TypeOK, NothingSkipped, [Next]_vars
    PROVE  NothingSkipped'
<1> USE SweepAssumption DEF TypeOK, NothingSkipped, Handled
<1>1. CASE Start
  BY <1>1 DEF Start
<1>2. CASE ListPage
  <2>1. /\ UNCHANGED <<listed, sent, errs, stayed>>
        /\ pc = "list" /\ pc' = "send"
    BY <1>2 DEF ListPage
  <2>2. ASSUME NEW r \in stayed, next' = 0 \/ r <= next', r \notin Handled
        PROVE  r \in page'
    <3>1. r \in After(next)
      BY <2>1, <2>2 DEF After
    <3> QED
      BY <1>2, <2>2, <3>1, PageTaken
  <2> QED
    BY <2>1, <2>2
<1>3. ASSUME NEW r \in Places, Send(r) \/ SendFails(r)
      PROVE  NothingSkipped'
  BY <1>3 DEF Send, SendFails
<1>4. CASE NextPage
  BY <1>4 DEF NextPage, MorePages
<1>5. CASE Abort
  BY <1>5 DEF Abort
<1>6. ASSUME NEW r \in Places, Enter(r) \/ Leave(r)
      PROVE  NothingSkipped'
  BY <1>6 DEF Enter, Leave
<1>7. CASE UNCHANGED vars
  BY <1>7 DEF vars
<1> QED
  BY <1>1, <1>2, <1>3, <1>4, <1>5, <1>6, <1>7 DEF Next, SweepStep

\* When the sweep of the accounts ends, no record that was listed all along
\* has been forgotten.
LEMMA DoneStep ==
    ASSUME Sweep = "populateResetQueue", TypeOK, NothingSkipped,
           SweepComplete, [Next]_vars
    PROVE  SweepComplete'
<1> USE DEF TypeOK, NothingSkipped, SweepComplete, Handled
<1>1. CASE NextPage
  BY <1>1 DEF NextPage, MorePages
<1>2. CASE Start
  BY <1>2 DEF Start
<1>3. CASE ListPage \/ Abort
  BY <1>3 DEF ListPage, Abort
<1>4. ASSUME NEW r \in Places, Send(r) \/ SendFails(r) \/ Enter(r) \/ Leave(r)
      PROVE  SweepComplete'
  BY <1>4 DEF Send, SendFails, Enter, Leave
<1>5. CASE UNCHANGED vars
  BY <1>5 DEF vars
<1> QED
  BY <1>1, <1>2, <1>3, <1>4, <1>5 DEF Next, SweepStep

LEMMA SweepInvariant == Spec => []IInv
<1>1. Init => KeyMovesOn /\ NothingSkipped
  BY DEF Init, KeyMovesOn, NothingSkipped
<1>2. TypeOK /\ KeyMovesOn /\ [Next]_vars => KeyMovesOn'
  BY KeyStep
<1>3. TypeOK /\ NothingSkipped /\ [Next]_vars => NothingSkipped'
  BY SkipStep
<1> QED
  BY <1>1, <1>2, <1>3, SweepTypeCorrect, PTL DEF Spec, IInv

-----------------------------------------------------------------------------

\* populate_reset_queue sends a message, or records a failure, for every
\* account that was NotReady from the beginning of the sweep to its end.
THEOREM AccountSweepComplete ==
    ASSUME Sweep = "populateResetQueue"
    PROVE  Spec => []SweepComplete
<1>1. Init => SweepComplete
  BY DEF Init, SweepComplete
<1>2. IInv /\ SweepComplete /\ [Next]_vars => SweepComplete'
  BY DoneStep DEF IInv
<1> QED
  BY <1>1, <1>2, SweepInvariant, PTL DEF Spec

\* Neither sweep handles a record twice.
THEOREM NoneHandledTwice == Spec => HandledAtMostOnce
<1>1. IInv /\ [Next]_vars =>
        [pc = "send" /\ pc' = "send" =>
           \A r \in page \ page' : r \notin sent \cup errs]_vars
  <2> SUFFICES ASSUME IInv, pc = "send", NEW r \in page, r \in Handled
               PROVE  FALSE
    BY DEF Handled
  <2>1. r \in Nat /\ r < r
    BY SweepAssumption DEF IInv, TypeOK, KeyMovesOn
  <2> QED
    BY <2>1
<1> QED
  BY <1>1, SweepInvariant, PTL DEF Spec, HandledAtMostOnce

-----------------------------------------------------------------------------
(* A sweep comes nearer to its end *)

\* The page is empty when the next one is asked for.
PageHandled == pc = "list" => page = {}

LEMMA PagesAreHandled == Spec => [](TypeOK /\ PageHandled)
<1>1. Init => PageHandled
  BY DEF Init, PageHandled
<1>2. PageHandled /\ [Next]_vars => PageHandled'
  BY DEF PageHandled, Next, SweepStep, Start, ListPage, Send, SendFails, NextPage, Abort,
         Enter, Leave, vars
<1> QED
  BY <1>1, <1>2, SweepTypeCorrect, PTL DEF Spec

\* What StepsLeft counts.
LEMMA Counted ==
    ASSUME TypeOK, IsFiniteSet(Places)
    PROVE  /\ IsFiniteSet(Ahead) /\ Cardinality(Ahead) \in Nat
           /\ IsFiniteSet(page) /\ Cardinality(page) \in Nat
<1>1. Ahead \in SUBSET Places /\ page \in SUBSET Places
  BY DEF Ahead, TypeOK
<1>2. IsFiniteSet(Ahead) /\ IsFiniteSet(page)
  BY <1>1, FS_Subset
<1> QED
  BY <1>2, FS_CardinalityType

\* What a page takes is no longer ahead, and there is something on a page that
\* others follow.
LEMMA PageTakesFromAhead ==
    ASSUME TypeOK, TypeOK', PageHandled, ListPage, IsFiniteSet(Places)
    PROVE  /\ Cardinality(Ahead') + Cardinality(page') <= Cardinality(Ahead)
           /\ MorePages' => Cardinality(page') >= 1
<1>1. pc = "list" /\ pc' = "send" /\ next \in Nat /\ next' \in Nat
  BY SweepAssumption DEF ListPage, TypeOK
<1>2. page' \subseteq After(next) /\ (next' # 0 => \A r \in page' : r <= next')
  BY PageTaken
<1>3. \A r \in Places : r \in Nat
  BY SweepAssumption
<1>4. page' \subseteq Ahead
  BY <1>1, <1>2 DEF After, Ahead, TypeOK
<1>5. MorePages' => next' # 0 /\ next' \in page' /\ next < next'
  <2>1. MorePages' => next' # 0
    BY DEF MorePages
  <2>2. next' # 0 => next' \in page'
    BY DEF ListPage
  <2> QED
    BY <1>2, <2>1, <2>2 DEF After
<1>6. Ahead' \subseteq Ahead /\ Ahead' \cap page' = {}
  <2>1. CASE ~MorePages'
    BY <1>1, <2>1 DEF Ahead
  <2>2. CASE MorePages'
    <3>1. \A r \in Ahead' : r \in Places /\ r \in Nat /\ r > next'
      BY <1>3 DEF Ahead
    <3>2. ASSUME NEW r \in Ahead'
          PROVE  r \in Ahead /\ r \notin page'
      <4>1. r > next /\ ~(r <= next')
        BY <1>1, <1>5, <2>2, <3>1
      <4> QED
        BY <1>1, <1>2, <1>5, <2>2, <3>1, <4>1 DEF Ahead
    <3> QED
      BY <3>2
  <2> QED
    BY <2>1, <2>2
<1>7. /\ IsFiniteSet(Ahead) /\ IsFiniteSet(Ahead') /\ IsFiniteSet(page')
      /\ Cardinality(Ahead) \in Nat /\ Cardinality(Ahead') \in Nat
      /\ Cardinality(page') \in Nat
  <2>1. IsFiniteSet(Ahead)
    BY Counted
  <2>2. IsFiniteSet(Ahead') /\ IsFiniteSet(page')
    BY <1>4, <1>6, <2>1, FS_Subset
  <2> QED
    BY <2>1, <2>2, FS_CardinalityType
<1>8. Cardinality(Ahead' \cup page') = Cardinality(Ahead') + Cardinality(page')
  <2>1. Cardinality(Ahead' \cap page') = 0
    BY <1>6, FS_EmptySet
  <2>2. Cardinality(Ahead' \cup page')
          = Cardinality(Ahead') + Cardinality(page') - Cardinality(Ahead' \cap page')
    BY <1>7, FS_Union
  <2> QED
    BY <1>7, <2>1, <2>2
<1>9. Cardinality(Ahead' \cup page') <= Cardinality(Ahead)
  <2>1. Ahead' \cup page' \in SUBSET Ahead
    BY <1>4, <1>6
  <2> QED
    BY <1>7, <2>1, FS_Subset
<1>10. MorePages' => Cardinality(page') >= 1
  <2> SUFFICES ASSUME MorePages' PROVE Cardinality(page') >= 1
    OBVIOUS
  <2>1. Cardinality(page') # 0
    BY <1>5, <1>7, FS_EmptySet
  <2> QED
    BY <1>7, <2>1
<1> QED
  BY <1>8, <1>9, <1>10

\* Every step of a sweep over a finite index brings it nearer to its end; from
\* its start it has at most 3 * Cardinality(Places) + 2.  That it takes its
\* steps is what SweepEnds adds under fairness.
THEOREM EveryPageAdvances ==
    ASSUME IsFiniteSet(Places)
    PROVE  Spec => SweepAdvances
<1>1. TypeOK /\ TypeOK' /\ PageHandled /\ [Next]_vars =>
        [Running => /\ StepsLeft' <= StepsLeft
                    /\ SweepStep => StepsLeft' < StepsLeft]_vars
  <2> SUFFICES ASSUME TypeOK, TypeOK', PageHandled, Next, Running
               PROVE  /\ StepsLeft' <= StepsLeft
                      /\ SweepStep => StepsLeft' < StepsLeft
    OBVIOUS
  <2> DEFINE a == Cardinality(Ahead)
             b == Cardinality(Ahead)'
             m == Cardinality(page)
             n == Cardinality(page)'
  <2>1. a \in Nat /\ m \in Nat /\ IsFiniteSet(page)
    BY Counted
  <2>2. b \in Nat /\ n \in Nat
    <3>1. IsFiniteSet(Ahead') /\ IsFiniteSet(page')
      <4>1. Ahead' \in SUBSET Places /\ page' \in SUBSET Places
        BY DEF Ahead, TypeOK
      <4> QED
        BY <4>1, FS_Subset
    <3> QED
      BY <3>1, FS_CardinalityType
  <2>3. StepsLeft = 3 * a + m + (IF pc = "list" THEN 2 ELSE IF MorePages THEN 3 ELSE 1)
    BY DEF StepsLeft
  <2>4. StepsLeft' = IF ~Running' THEN 0
                     ELSE 3 * b + n + (IF pc' = "list" THEN 2 ELSE IF MorePages' THEN 3 ELSE 1)
    BY DEF StepsLeft
  <2>5. CASE ListPage
    <3>1. pc = "list" /\ pc' = "send" /\ m = 0
      BY <2>5, FS_EmptySet DEF ListPage, PageHandled
    <3>2. b + n <= a /\ (MorePages' => n >= 1)
      BY <2>5, PageTakesFromAhead
    <3> HIDE DEF a, b, m, n
    <3> QED
      BY <2>1, <2>2, <2>3, <2>4, <3>1, <3>2 DEF Running
  <2>6. ASSUME NEW r \in Places, Send(r) \/ SendFails(r)
        PROVE  StepsLeft' < StepsLeft
    <3>1. pc = "send" /\ r \in page /\ page' = page \ {r} /\ UNCHANGED <<pc, next>>
      BY <2>6 DEF Send, SendFails, First
    <3>2. MorePages' = MorePages
      BY <3>1 DEF MorePages
    <3>3. b = a
      BY <3>1, <3>2 DEF Ahead
    <3>4. n = m - 1
      BY <2>1, <3>1, FS_RemoveElement
    <3> HIDE DEF a, b, m, n
    <3> QED
      BY <2>1, <2>2, <2>3, <2>4, <3>1, <3>2, <3>3, <3>4 DEF Running
  <2>7. CASE NextPage
    <3>1. /\ pc = "send" /\ pc' = IF MorePages THEN "list" ELSE "done"
          /\ UNCHANGED <<next, page>>
      BY <2>7 DEF NextPage
    <3>2. n = m
      BY <3>1
    <3>3. MorePages => b = a
      BY <3>1 DEF Ahead
    <3> HIDE DEF a, b, m, n
    <3> QED
      BY <2>1, <2>2, <2>3, <2>4, <3>1, <3>2, <3>3 DEF Running
  <2>8. CASE Abort
    <3>1. ~Running' /\ pc' = "failed"
      BY <2>8 DEF Abort, Running
    <3>2. ~SweepStep
      BY <3>1 DEF SweepStep, ListPage, Send, SendFails, NextPage, Running
    <3> HIDE DEF a, b, m, n
    <3> QED
      BY <2>1, <2>3, <2>4, <3>1, <3>2
  <2>9. ASSUME NEW r \in Places, Enter(r) \/ Leave(r)
        PROVE  StepsLeft' <= StepsLeft /\ ~SweepStep
    <3>1. UNCHANGED <<pc, next, page>> /\ listed' # listed
      BY <2>9 DEF Enter, Leave
    <3>2. ~SweepStep
      BY <3>1 DEF SweepStep, ListPage, Send, SendFails, NextPage
    <3>3. MorePages' = MorePages
      BY <3>1 DEF MorePages
    <3>4. b = a /\ n = m
      BY <3>1, <3>3 DEF Ahead
    <3> HIDE DEF a, b, m, n
    <3> QED
      BY <2>1, <2>2, <2>3, <2>4, <3>1, <3>2, <3>3, <3>4 DEF Running
  <2>10. ~Start
    BY DEF Start
  <2>11. ASSUME SweepStep PROVE StepsLeft' < StepsLeft
    BY <2>5, <2>6, <2>7, <2>11 DEF SweepStep
  <2>12. StepsLeft' < StepsLeft => StepsLeft' <= StepsLeft
    <3> HIDE DEF a, b, m, n
    <3> QED
      BY <2>1, <2>2, <2>3, <2>4
  <2> QED
    BY <2>8, <2>9, <2>10, <2>11, <2>12 DEF Next
<1> QED
  BY <1>1, PagesAreHandled, PTL DEF Spec, SweepAdvances
=============================================================================
