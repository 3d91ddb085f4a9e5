-------------------------- MODULE ResetBuildProofs --------------------------
(***************************************************************************)
(* Theorems about ResetBuild, for any resources, number of attempts,       *)
(* time-out and life of credentials, with every failure the specification  *)
(* has.                                                                    *)
(*                                                                         *)
(* The argument: as credentials live no longer than the wait for a nuke,   *)
(* only the nuke of the current attempt can reach the account (Access); a  *)
(* build started on a NotReady account keeps it NotReady until its update  *)
(* (Resetting), so that nothing of a lease is added to what a scan has     *)
(* found (OldFound), and a nuke that succeeds leaves nothing of it.  With  *)
(* that every step is one of AccountReset or none of its business.         *)
(***************************************************************************)
EXTENDS ResetBuild, TLAPS

\* Only the nuke that is waited for can still do something.
Access ==
    \A i \in 1 .. Attempts :
        Working(i) /\ HasAccess(i) => phase = "run" /\ i = attempt

\* The account is not given to anyone while it is reset.
Resetting == InReset => status = "NotReady"

\* What a lease has left has been found by every scan of this build.
OldFound ==
    InReset => \A i \in 1 .. Attempts : nuke[i].step \in {"remove", "ok"} =>
        \A r \in Resources : made[r] = "old" => r \in nuke[i].found

\* A nuke that has succeeded has removed all it found.
DoneFound ==
    \A i \in 1 .. Attempts : nuke[i].step = "ok" => nuke[i].found = {}

\* Nothing runs between builds.
IdleIsQuiet == phase = "idle" => \A i \in 1 .. Attempts : nuke[i].step = "none"

\* Nothing of a lease is left when the account is given back.
Clean ==
    phase = "update" \/ status = "Ready" => \A r \in Resources : made[r] # "old"

\* What the tenant made, and the tenant's credentials, are of an active lease.
Tenants ==
    /\ \A r \in Resources : made[r] = "tenant" => status = "Leased"
    /\ session["tenant"] > 0 => status = "Leased"
    /\ login = "tenant" => status = "Leased"

IInv ==
    /\ TypeOK
    /\ DoneFound /\ IdleIsQuiet /\ Tenants
    /\ SessionLength <= NukeTimeout => Access
    /\ ~Duplicates => Resetting /\ (NukeEnabled => OldFound /\ Clean)

-----------------------------------------------------------------------------

\* The numbers among the constants.
LEMMA Numbers == /\ Attempts \in Nat /\ 1 <= Attempts
                 /\ NukeTimeout \in Nat /\ SessionLength \in Nat
                 /\ Longest \in Nat /\ NukeTimeout <= Longest /\ SessionLength <= Longest
BY ResetAssumption DEF Longest

\* The invariant holds when the account is added.
LEMMA InitInv == Init => IInv
<1> SUFFICES ASSUME Init PROVE IInv  OBVIOUS
<1>1. NoNuke \in Nuke /\ NoNuke.step = "none"  BY Numbers DEF NoNuke, Nuke, Steps
<1>2. TypeOK
  BY <1>1, Numbers DEF Init, TypeOK, Parties, Phases
<1>3. \A i \in 1 .. Attempts : nuke[i].step = "none"  BY <1>1 DEF Init
<1>4. DoneFound /\ IdleIsQuiet /\ Access
  BY <1>3 DEF DoneFound, IdleIsQuiet, Access, Working
<1>5. Tenants /\ Resetting /\ OldFound /\ Clean
  BY DEF Init, Tenants, Resetting, OldFound, Clean, InReset, Parties
<1> QED  BY <1>2, <1>4, <1>5 DEF IInv

\* The parts of the invariant about the build, when only the account changes.
LEMMA AccountMoves ==
    ASSUME IInv, UNCHANGED build
    PROVE  /\ DoneFound' /\ IdleIsQuiet'
           /\ SessionLength <= NukeTimeout => Access'
BY DEF IInv, DoneFound, IdleIsQuiet, Access, Working, HasAccess, build

LEMMA CreateLeaseInv == ASSUME IInv, CreateLease PROVE IInv'
<1>1. /\ status = "Ready" /\ status' = "Leased"
      /\ UNCHANGED <<made, session, login, phase, attempt, nuke>>
  BY DEF CreateLease, build
<1>2. TypeOK'  BY <1>1 DEF IInv, TypeOK
<1>3. Tenants'  BY <1>1 DEF IInv, Tenants
<1>4. ~Duplicates => Resetting' /\ (NukeEnabled => OldFound' /\ Clean')
  BY <1>1 DEF IInv, Resetting, OldFound, Clean, InReset
<1> QED  BY <1>1, <1>2, <1>3, <1>4, AccountMoves DEF IInv, build

\* The build cannot be in the middle of a reset, so what becomes old is found
\* by the scans to come.
LEMMA EndLeaseInv == ASSUME IInv, EndLease PROVE IInv'
<1>1. /\ status = "Leased" /\ status' = "NotReady"
      /\ made' = [r \in Resources |-> IF made[r] = "tenant" THEN "old" ELSE made[r]]
      /\ UNCHANGED <<phase, attempt, nuke>>
  BY DEF EndLease, build
<1>2. TypeOK'
  <2>1. made' \in [Resources -> {"none", "tenant", "old", "late"}]
    BY <1>1 DEF IInv, TypeOK
  <2>2. session' \in [Parties -> 0 .. SessionLength]
    BY Numbers DEF EndLease, IInv, TypeOK, Parties
  <2>3. login' \in Parties \cup {"none"}
    BY DEF EndLease, IInv, TypeOK, Parties
  <2> QED  BY <1>1, <2>1, <2>2, <2>3 DEF IInv, TypeOK
<1>3. Tenants'
  <2>1. \A r \in Resources : made'[r] # "tenant"  BY <1>1
  <2>2. session'["tenant"] = 0  BY DEF EndLease, IInv, TypeOK, Parties
  <2>3. login' # "tenant"  BY DEF EndLease
  <2> QED  BY <2>1, <2>2, <2>3 DEF Tenants
<1>4. ~Duplicates => Resetting' /\ (NukeEnabled => OldFound' /\ Clean')
  BY <1>1 DEF IInv, Resetting, OldFound, Clean, InReset
<1> QED  BY <1>1, <1>2, <1>3, <1>4, AccountMoves DEF IInv, build

LEMMA FindLeaseInv == ASSUME IInv, FindLease PROVE IInv'
<1>1. /\ status = "Leased" /\ login' = "tenant"
      /\ UNCHANGED <<status, made, session, phase, attempt, nuke>>
  BY DEF FindLease, build
<1>2. TypeOK'  BY <1>1 DEF IInv, TypeOK, Parties
<1>3. Tenants'  BY <1>1 DEF IInv, Tenants
<1>4. ~Duplicates => Resetting' /\ (NukeEnabled => OldFound' /\ Clean')
  BY <1>1 DEF IInv, Resetting, OldFound, Clean, InReset
<1> QED  BY <1>1, <1>2, <1>3, <1>4, AccountMoves DEF IInv, build

LEMMA AssumePrincipalRoleInv == ASSUME IInv, AssumePrincipalRole PROVE IInv'
<1>1. /\ login # "none" /\ login' = "none"
      /\ session' = [session EXCEPT ![login] = SessionLength]
      /\ UNCHANGED <<status, made, phase, attempt, nuke>>
  BY DEF AssumePrincipalRole, build
<1>2. TypeOK'  BY <1>1, Numbers DEF IInv, TypeOK, Parties
<1>3. Tenants'  BY <1>1 DEF IInv, TypeOK, Tenants, Parties
<1>4. ~Duplicates => Resetting' /\ (NukeEnabled => OldFound' /\ Clean')
  BY <1>1 DEF IInv, Resetting, OldFound, Clean, InReset
<1> QED  BY <1>1, <1>2, <1>3, <1>4, AccountMoves DEF IInv, build

LEMMA LoginFailsInv == ASSUME IInv, LoginFails PROVE IInv'
<1>1. /\ login' = "none"
      /\ UNCHANGED <<status, made, session, phase, attempt, nuke>>
  BY DEF LoginFails, build
<1>2. TypeOK'  BY <1>1 DEF IInv, TypeOK, Parties
<1>3. Tenants'  BY <1>1 DEF IInv, Tenants
<1>4. ~Duplicates => Resetting' /\ (NukeEnabled => OldFound' /\ Clean')
  BY <1>1 DEF IInv, Resetting, OldFound, Clean, InReset
<1> QED  BY <1>1, <1>2, <1>3, <1>4, AccountMoves DEF IInv, build

LEMMA UseAccountInv ==
    ASSUME IInv, NEW u \in Parties, NEW r \in Resources, UseAccount(u, r)
    PROVE  IInv'
<1>1. /\ session[u] > 0
      /\ made' = [made EXCEPT ![r] = IF u = "tenant" THEN "tenant" ELSE "late"]
      /\ UNCHANGED <<status, session, login, phase, attempt, nuke>>
  BY DEF UseAccount, build
<1>2. TypeOK'  BY <1>1 DEF IInv, TypeOK
<1>3. \A x \in Resources : made'[x] = made[x] \/ (x = r /\ made'[x] \in {"tenant", "late"})
  BY <1>1 DEF IInv, TypeOK
<1>4. made'[r] = "tenant" => status = "Leased"
  BY <1>1 DEF IInv, TypeOK, Tenants
<1>5. Tenants'  BY <1>1, <1>3, <1>4 DEF IInv, Tenants
<1>6. ~Duplicates => Resetting' /\ (NukeEnabled => OldFound' /\ Clean')
  BY <1>1, <1>3 DEF IInv, Resetting, OldFound, Clean, InReset
<1> QED  BY <1>1, <1>2, <1>5, <1>6, AccountMoves DEF IInv, build

-----------------------------------------------------------------------------

LEMMA ScanInv == ASSUME IInv, NEW i \in 1 .. Attempts, Scan(i) PROVE IInv'
<1> DEFINE all == {r \in Resources : made[r] # "none"}
           n == [nuke[i] EXCEPT !.step = "remove", !.found = all]
<1>1. /\ nuke[i].step = "scan" /\ nuke' = [nuke EXCEPT ![i] = n]
      /\ UNCHANGED <<status, made, session, login, phase, attempt>>
  BY DEF Scan, IInv, TypeOK, account
<1>2. nuke \in [1 .. Attempts -> Nuke] /\ nuke[i] \in Nuke  BY DEF IInv, TypeOK
<1>3. /\ n \in Nuke /\ n.step = "remove" /\ n.found = all /\ n.age = nuke[i].age
  BY <1>2 DEF Nuke, Steps
<1> HIDE DEF n
<1>4. \A j \in 1 .. Attempts : nuke'[j] = IF j = i THEN n ELSE nuke[j]
  BY <1>1, <1>2
<1>5. TypeOK'  BY <1>1, <1>2, <1>3 DEF IInv, TypeOK
<1>6. DoneFound'  BY <1>3, <1>4 DEF IInv, DoneFound
<1>7. IdleIsQuiet' /\ Tenants'  BY <1>1 DEF IInv, IdleIsQuiet, Tenants
<1>8. SessionLength <= NukeTimeout => Access'
  BY <1>1, <1>3, <1>4 DEF IInv, Access, Working, HasAccess
<1>9. ~Duplicates => Resetting' /\ (NukeEnabled => OldFound' /\ Clean')
  BY <1>1, <1>3, <1>4 DEF IInv, Resetting, OldFound, Clean, InReset
<1> QED  BY <1>5, <1>6, <1>7, <1>8, <1>9 DEF IInv

LEMMA RemoveInv ==
    ASSUME IInv, NEW i \in 1 .. Attempts, NEW r \in Resources, Remove(i, r)
    PROVE  IInv'
<1> DEFINE n == [nuke[i] EXCEPT !.found = nuke[i].found \ {r}]
<1>1. /\ nuke[i].step = "remove" /\ nuke' = [nuke EXCEPT ![i] = n]
      /\ made' = [made EXCEPT ![r] = "none"]
      /\ UNCHANGED <<status, session, login, phase, attempt>>
  BY DEF Remove, IInv, TypeOK
<1>2. nuke \in [1 .. Attempts -> Nuke] /\ nuke[i] \in Nuke  BY DEF IInv, TypeOK
<1>3. /\ n \in Nuke /\ n.step = "remove" /\ n.found = nuke[i].found \ {r}
      /\ n.age = nuke[i].age
  BY <1>1, <1>2 DEF Nuke
<1> HIDE DEF n
<1>4. \A j \in 1 .. Attempts : nuke'[j] = IF j = i THEN n ELSE nuke[j]
  BY <1>1, <1>2
<1>5. \A x \in Resources : made'[x] = IF x = r THEN "none" ELSE made[x]
  BY <1>1 DEF IInv, TypeOK
<1>6. TypeOK'  BY <1>1, <1>2, <1>3 DEF IInv, TypeOK
<1>7. DoneFound'  BY <1>3, <1>4 DEF IInv, DoneFound
<1>8. IdleIsQuiet' /\ Tenants'  BY <1>1, <1>5 DEF IInv, IdleIsQuiet, Tenants
<1>9. SessionLength <= NukeTimeout => Access'
  BY <1>1, <1>3, <1>4 DEF IInv, Access, Working, HasAccess
<1>10. ~Duplicates => Resetting' /\ (NukeEnabled => OldFound' /\ Clean')
  BY <1>1, <1>3, <1>4, <1>5 DEF IInv, Resetting, OldFound, Clean, InReset
<1> QED  BY <1>6, <1>7, <1>8, <1>9, <1>10 DEF IInv

\* A nuke that ends does nothing more.
LEMMA NukeEndsInv ==
    ASSUME IInv, NEW i \in 1 .. Attempts, NukeSucceeds(i) \/ NukeFails(i)
    PROVE  IInv'
<1>1. PICK x \in {"ok", "failed"} :
        /\ Working(i)
        /\ nuke' = [nuke EXCEPT ![i] = [nuke[i] EXCEPT !.step = x]]
        /\ x = "ok" => nuke[i].step = "remove" /\ nuke[i].found = {}
        /\ UNCHANGED <<status, made, session, login, phase, attempt>>
  BY DEF NukeSucceeds, NukeFails, Working, account
<1> DEFINE m == [nuke[i] EXCEPT !.step = x]
<1>2. nuke \in [1 .. Attempts -> Nuke] /\ nuke[i] \in Nuke  BY DEF IInv, TypeOK
<1>3. /\ m \in Nuke /\ m.step = x /\ m.found = nuke[i].found
  BY <1>1, <1>2 DEF Nuke, Steps
<1>4. nuke' = [nuke EXCEPT ![i] = m]  BY <1>1
<1> HIDE DEF m
<1>5. \A j \in 1 .. Attempts : nuke'[j] = IF j = i THEN m ELSE nuke[j]
  BY <1>4, <1>2
<1>6. TypeOK'  BY <1>1, <1>2, <1>3, <1>4 DEF IInv, TypeOK
<1>7. DoneFound'  BY <1>1, <1>3, <1>5 DEF IInv, DoneFound
<1>8. IdleIsQuiet' /\ Tenants'
  BY <1>1 DEF IInv, IdleIsQuiet, Tenants, Working
<1>9. SessionLength <= NukeTimeout => Access'
  BY <1>1, <1>3, <1>5 DEF IInv, Access, Working, HasAccess
<1>10. ~Duplicates => Resetting' /\ (NukeEnabled => OldFound' /\ Clean')
  BY <1>1, <1>3, <1>5 DEF IInv, Resetting, OldFound, Clean, InReset
<1> QED  BY <1>6, <1>7, <1>8, <1>9, <1>10 DEF IInv

-----------------------------------------------------------------------------

\* The end of the process, from anywhere: the account stays as it is.
LEMMA ExitInv ==
    ASSUME IInv, Exit, UNCHANGED account
    PROVE  IInv'
<1>1. /\ phase' = "idle" /\ attempt' = 1
      /\ UNCHANGED <<status, made, session, login>>
  BY DEF Exit, account
<1>2. NoNuke \in Nuke /\ NoNuke.step = "none"  BY Numbers DEF NoNuke, Nuke, Steps
<1>3. nuke' \in [1 .. Attempts -> Nuke] /\ \A i \in 1 .. Attempts : nuke'[i].step = "none"
  BY <1>2 DEF Exit
<1>4. 1 \in 1 .. Attempts  BY Numbers
<1>5. TypeOK'  BY <1>1, <1>3, <1>4 DEF IInv, TypeOK, Phases
<1>6. DoneFound' /\ IdleIsQuiet' /\ Access'
  BY <1>3 DEF DoneFound, IdleIsQuiet, Access, Working
<1>7. Tenants'  BY <1>1 DEF IInv, Tenants
<1>8. ~Duplicates => Resetting' /\ (NukeEnabled => OldFound' /\ Clean')
  BY <1>1 DEF IInv, Resetting, OldFound, Clean, InReset
<1> QED  BY <1>5, <1>6, <1>7, <1>8 DEF IInv

\* The next attempt finds the account as the last one left it; the nuke of the
\* last one has ended or has no access any more.
LEMMA RetryInv ==
    ASSUME IInv, phase \in {"attempt", "run"}, Retry, UNCHANGED account,
           SessionLength <= NukeTimeout /\ phase = "run"
             => ~(Working(attempt) /\ HasAccess(attempt))
    PROVE  IInv'
<1>1. CASE ~(attempt < Attempts)  BY <1>1, ExitInv DEF Retry
<1>2. CASE attempt < Attempts
  <2>1. /\ phase' = "attempt" /\ attempt' = attempt + 1 /\ nuke' = nuke
        /\ UNCHANGED <<status, made, session, login>>
    BY <1>2 DEF Retry, account
  <2>2. attempt' \in 1 .. Attempts  BY <1>2, <2>1, Numbers DEF IInv, TypeOK
  <2>3. TypeOK'  BY <2>1, <2>2 DEF IInv, TypeOK, Phases
  <2>4. DoneFound' /\ IdleIsQuiet' /\ Tenants'
    BY <2>1 DEF IInv, DoneFound, IdleIsQuiet, Tenants
  <2>5. SessionLength <= NukeTimeout => Access'
    BY <2>1 DEF IInv, Access, Working, HasAccess
  <2>6. ~Duplicates => Resetting' /\ (NukeEnabled => OldFound' /\ Clean')
    BY <2>1 DEF IInv, Resetting, OldFound, Clean, InReset
  <2> QED  BY <2>3, <2>4, <2>5, <2>6 DEF IInv
<1> QED  BY <1>1, <1>2

LEMMA StartBuildInv == ASSUME IInv, StartBuild PROVE IInv'
<1>1. /\ phase = "idle"
      /\ (status = "NotReady" \/ Duplicates)
      /\ phase' = IF NukeEnabled THEN "attempt" ELSE "update"
      /\ UNCHANGED <<status, made, session, login, attempt, nuke>>
  BY DEF StartBuild, account
<1>2. \A i \in 1 .. Attempts : nuke[i].step = "none"  BY <1>1 DEF IInv, IdleIsQuiet
<1>3. TypeOK'  BY <1>1 DEF IInv, TypeOK, Phases
<1>4. DoneFound' /\ IdleIsQuiet' /\ Tenants' /\ Access'
  BY <1>1, <1>2 DEF IInv, DoneFound, IdleIsQuiet, Tenants, Access, Working
<1>5. ~Duplicates => Resetting' /\ (NukeEnabled => OldFound' /\ Clean')
  BY <1>1, <1>2 DEF IInv, Resetting, OldFound, Clean, InReset
<1> QED  BY <1>3, <1>4, <1>5 DEF IInv

LEMMA NewNukerInv == ASSUME IInv, NewNuker PROVE IInv'
<1> DEFINE n == [NoNuke EXCEPT !.step = "scan"]
<1>1. /\ phase = "attempt" /\ phase' = "run" /\ nuke' = [nuke EXCEPT ![attempt] = n]
      /\ UNCHANGED <<status, made, session, login, attempt>>
  BY DEF NewNuker, account
<1>2. nuke \in [1 .. Attempts -> Nuke] /\ attempt \in 1 .. Attempts  BY DEF IInv, TypeOK
<1>3. n \in Nuke /\ n.step = "scan"  BY Numbers DEF NoNuke, Nuke, Steps
<1> HIDE DEF n
<1>4. \A j \in 1 .. Attempts : nuke'[j] = IF j = attempt THEN n ELSE nuke[j]
  BY <1>1, <1>2
<1>5. TypeOK'  BY <1>1, <1>2, <1>3 DEF IInv, TypeOK, Phases
<1>6. DoneFound' /\ IdleIsQuiet' /\ Tenants'
  BY <1>1, <1>3, <1>4 DEF IInv, DoneFound, IdleIsQuiet, Tenants
<1>7. SessionLength <= NukeTimeout => Access'
  BY <1>1, <1>4 DEF IInv, Access, Working, HasAccess
<1>8. ~Duplicates => Resetting' /\ (NukeEnabled => OldFound' /\ Clean')
  BY <1>1, <1>3, <1>4 DEF IInv, Resetting, OldFound, Clean, InReset
<1> QED  BY <1>5, <1>6, <1>7, <1>8 DEF IInv

LEMMA NukeAccountInv == ASSUME IInv, NukeAccount PROVE IInv'
<1>1. /\ phase = "run" /\ nuke[attempt].step \in {"ok", "failed"}
      /\ UNCHANGED <<status, made, session, login>>
  BY DEF NukeAccount, account
<1>2. attempt \in 1 .. Attempts  BY DEF IInv, TypeOK
<1>3. CASE nuke[attempt].step = "ok"
  <2>1. phase' = "update" /\ UNCHANGED <<attempt, nuke>>  BY <1>3 DEF NukeAccount
  <2>2. nuke[attempt].found = {}  BY <1>2, <1>3 DEF IInv, DoneFound
  <2>3. TypeOK'  BY <1>1, <2>1 DEF IInv, TypeOK, Phases
  <2>4. DoneFound' /\ IdleIsQuiet' /\ Tenants'
    BY <1>1, <2>1 DEF IInv, DoneFound, IdleIsQuiet, Tenants
  <2>5. SessionLength <= NukeTimeout => Access'
    BY <1>3, <2>1 DEF IInv, Access, Working, HasAccess
  <2>6. ~Duplicates => Resetting' /\ (NukeEnabled => OldFound' /\ Clean')
    BY <1>1, <1>2, <1>3, <2>1, <2>2 DEF IInv, Resetting, OldFound, Clean, InReset
  <2> QED  BY <2>3, <2>4, <2>5, <2>6 DEF IInv
<1>4. CASE nuke[attempt].step # "ok"
  <2>1. Retry  BY <1>4 DEF NukeAccount
  <2>2. ~Working(attempt)  BY <1>1 DEF Working
  <2> QED  BY <1>1, <2>1, <2>2, RetryInv DEF account
<1> QED  BY <1>3, <1>4

\* When the wait is over the credentials have expired.
LEMMA TimeOutInv == ASSUME IInv, TimeOut PROVE IInv'
<1>1. phase = "run" /\ nuke[attempt].age >= NukeTimeout /\ Retry /\ UNCHANGED account
  BY DEF TimeOut, TimedOut
<1>2. nuke[attempt].age \in Nat  BY Numbers DEF IInv, TypeOK, Nuke
<1>3. SessionLength <= NukeTimeout => ~HasAccess(attempt)
  BY <1>1, <1>2, Numbers DEF HasAccess
<1> QED  BY <1>1, <1>3, RetryInv

LEMMA UpdateDBPostResetInv == ASSUME IInv, UpdateDBPostReset PROVE IInv'
<1>1. /\ phase = "update" /\ phase' = "publish"
      /\ status' = IF status = "NotReady" THEN "Ready" ELSE status
      /\ UNCHANGED <<made, session, login, attempt, nuke>>
  BY DEF UpdateDBPostReset
<1>2. TypeOK'  BY <1>1 DEF IInv, TypeOK, Phases
<1>3. DoneFound' /\ IdleIsQuiet' /\ Tenants'
  BY <1>1 DEF IInv, DoneFound, IdleIsQuiet, Tenants
<1>4. SessionLength <= NukeTimeout => Access'
  BY <1>1 DEF IInv, Access, Working, HasAccess
<1>5. ~Duplicates => Resetting' /\ (NukeEnabled => OldFound' /\ Clean')
  BY <1>1 DEF IInv, Resetting, OldFound, Clean, InReset
<1> QED  BY <1>2, <1>3, <1>4, <1>5 DEF IInv

\* Nothing becomes accessible by the passing of time.
LEMMA TickInv == ASSUME IInv, Tick PROVE IInv'
<1>1. UNCHANGED <<status, made, login, phase, attempt>>  BY DEF Tick
<1>2. session \in [Parties -> 0 .. SessionLength] /\ nuke \in [1 .. Attempts -> Nuke]
  BY DEF IInv, TypeOK
<1>3. /\ session' \in [Parties -> 0 .. SessionLength]
      /\ \A u \in Parties : session'[u] > 0 => session[u] > 0
  BY <1>2, Numbers DEF Tick
<1>4. ASSUME NEW n \in Nuke
      PROVE  /\ Older(n) \in Nuke /\ Older(n).step = n.step /\ Older(n).found = n.found
             /\ Older(n).age >= n.age
  <2>1. n.age \in 0 .. Longest  BY DEF Nuke
  <2>2. CASE n.age < Longest
    <3>1. Older(n) = [n EXCEPT !.age = n.age + 1]  BY <2>2 DEF Older
    <3>2. n.age + 1 \in 0 .. Longest /\ n.age + 1 >= n.age  BY <2>1, <2>2, Numbers
    <3> QED  BY <3>1, <3>2 DEF Nuke
  <2>3. CASE ~(n.age < Longest)  BY <2>1, <2>3, Numbers DEF Older
  <2> QED  BY <2>2, <2>3
<1>5. ASSUME NEW i \in 1 .. Attempts
      PROVE  /\ nuke'[i] \in Nuke /\ nuke'[i].step = nuke[i].step
             /\ nuke'[i].found = nuke[i].found /\ nuke'[i].age >= nuke[i].age
             /\ nuke'[i].age \in Nat /\ nuke[i].age \in Nat
  <2>1. nuke[i] \in Nuke  BY <1>2
  <2>2. nuke'[i] = nuke[i] \/ nuke'[i] = Older(nuke[i])  BY DEF Tick
  <2>3. \A n \in Nuke : n.age \in Nat  BY Numbers DEF Nuke
  <2>4. nuke[i].age >= nuke[i].age  BY <2>1, <2>3
  <2> QED  BY <1>4, <2>1, <2>2, <2>3, <2>4
<1>6. nuke' \in [1 .. Attempts -> Nuke]
  <2>1. nuke' = [i \in 1 .. Attempts |-> nuke'[i]]  BY DEF Tick
  <2> QED  BY <1>5, <2>1
<1>7. TypeOK'  BY <1>1, <1>3, <1>6 DEF IInv, TypeOK
<1>8. DoneFound' /\ IdleIsQuiet'  BY <1>1, <1>5 DEF IInv, DoneFound, IdleIsQuiet
<1>9. Tenants'
  <2>1. "tenant" \in Parties  BY DEF Parties
  <2> QED  BY <1>1, <1>3, <2>1 DEF IInv, Tenants
<1>10. SessionLength <= NukeTimeout => Access'
  <2> SUFFICES ASSUME Access, NEW i \in 1 .. Attempts, Working(i)', HasAccess(i)'
               PROVE  phase = "run" /\ i = attempt
    BY <1>1 DEF IInv, Access
  <2>1. Working(i) /\ HasAccess(i)  BY <1>5, Numbers DEF Working, HasAccess
  <2> QED  BY <2>1 DEF Access
<1>11. ~Duplicates => Resetting' /\ (NukeEnabled => OldFound' /\ Clean')
  BY <1>1, <1>5 DEF IInv, Resetting, OldFound, Clean, InReset
<1> QED  BY <1>7, <1>8, <1>9, <1>10, <1>11 DEF IInv

LEMMA NextInv == IInv /\ [Next]_vars => IInv'
<1> SUFFICES ASSUME IInv, [Next]_vars PROVE IInv'  OBVIOUS
<1>1. CASE AccountStep
  BY <1>1, CreateLeaseInv, EndLeaseInv, FindLeaseInv, AssumePrincipalRoleInv,
     LoginFailsInv, UseAccountInv
  DEF AccountStep
<1>2. ASSUME NEW i \in 1 .. Attempts, NukeStep(i) PROVE IInv'
  BY <1>2, ScanInv, RemoveInv, NukeEndsInv DEF NukeStep
<1>3. CASE BuildStep
  <2>1. CASE NewNukerFails  BY <2>1, RetryInv DEF NewNukerFails
  <2>2. CASE Publish \/ BuildDies  BY <2>2, ExitInv DEF Publish, BuildDies
  <2> QED
    BY <1>3, <2>1, <2>2, StartBuildInv, NewNukerInv, NukeAccountInv, TimeOutInv,
       UpdateDBPostResetInv
    DEF BuildStep
<1>4. CASE Tick  BY <1>4, TickInv
<1>5. CASE UNCHANGED vars
  <2>1. UNCHANGED <<status, made, session, login, phase, attempt, nuke>>
    BY <1>5 DEF vars, account, build
  <2>2. TypeOK' /\ Tenants'  BY <2>1 DEF IInv, TypeOK, Tenants
  <2>3. ~Duplicates => Resetting' /\ (NukeEnabled => OldFound' /\ Clean')
    BY <2>1 DEF IInv, Resetting, OldFound, Clean, InReset
  <2> QED  BY <2>1, <2>2, <2>3, AccountMoves DEF IInv, build
<1> QED  BY <1>1, <1>2, <1>3, <1>4, <1>5 DEF Next

-----------------------------------------------------------------------------

\* The variables keep their types; attempts stay within retry.Do's.
THEOREM TypeCorrect == Spec => []TypeOK
<1>1. IInv => TypeOK  BY DEF IInv
<1> QED  BY InitInv, NextInv, <1>1, PTL DEF Spec

\* If credentials do not outlive the time-out, no two nukes of a build work on
\* the account at a time.
THEOREM OneNuke ==
    ASSUME SessionLength <= NukeTimeout
    PROVE  Spec => []OneNukeAtATime
<1>1. IInv => OneNukeAtATime  BY DEF IInv, Access, OneNukeAtATime
<1> QED  BY InitInv, NextInv, <1>1, PTL DEF Spec

\* If, besides, builds start on NotReady accounts only, no nuke ever removes
\* what the tenant of the account has made.
THEOREM Spared ==
    ASSUME SessionLength <= NukeTimeout, ~Duplicates
    PROVE  Spec => TenantSpared
<1>1. IInv /\ [Next]_vars
        => [\A r \in Resources : made[r] = "tenant" => made'[r] # "none"]_vars
  <2> SUFFICES ASSUME IInv, Next, NEW r \in Resources, made[r] = "tenant"
               PROVE  made'[r] # "none"
    BY DEF vars
  <2>1. CASE AccountStep
    BY <2>1 DEF AccountStep, CreateLease, EndLease, FindLease, AssumePrincipalRole,
                LoginFails, UseAccount, IInv, TypeOK
  <2>2. ASSUME NEW i \in 1 .. Attempts, NukeStep(i) PROVE made'[r] # "none"
    <3>1. CASE \E x \in Resources : Remove(i, x)
      <4>1. Working(i) /\ HasAccess(i)  BY <3>1 DEF Remove, Working
      <4>2. status = "NotReady"
        BY <4>1 DEF IInv, Access, Resetting, InReset
      <4> QED  BY <4>2 DEF IInv, Tenants
    <3>2. CASE Scan(i) \/ NukeSucceeds(i) \/ NukeFails(i)
      BY <3>2 DEF Scan, NukeSucceeds, NukeFails, account
    <3> QED  BY <2>2, <3>1, <3>2 DEF NukeStep
  <2>3. CASE BuildStep \/ Tick
    BY <2>3 DEF BuildStep, StartBuild, NewNuker, NewNukerFails, NukeAccount, TimeOut,
                UpdateDBPostReset, Publish, BuildDies, Tick, account
  <2> QED  BY <2>1, <2>2, <2>3 DEF Next
<1> QED  BY InitInv, NextInv, <1>1, PTL DEF Spec, TenantSpared

\* If builds start on NotReady accounts only, a Ready account holds nothing of
\* former leases but what was made after they ended.
THEOREM ReadyOnlyLate ==
    ASSUME ~Duplicates
    PROVE  Spec => []ReadyHoldsOnlyLate
<1>1. IInv => ReadyHoldsOnlyLate
  <2> SUFFICES ASSUME IInv, NukeEnabled, status = "Ready", NEW r \in Resources
               PROVE  made[r] \in {"none", "late"}
    BY DEF ReadyHoldsOnlyLate
  <2>1. made[r] \in {"none", "tenant", "old", "late"}  BY DEF IInv, TypeOK
  <2>2. made[r] # "tenant"  BY DEF IInv, Tenants
  <2>3. made[r] # "old"  BY DEF IInv, Clean
  <2> QED  BY <2>1, <2>2, <2>3
<1> QED  BY InitInv, NextInv, <1>1, PTL DEF Spec

-----------------------------------------------------------------------------
(* The promise *)

\* What AccountReset calls held and left.
Held == {r \in Resources : made[r] = "tenant"}
Left == {r \in Resources : made[r] = "old"}

\* What the promise speaks of.
LEMMA PromiseVars == Promise!promiseVars = <<status, Held, Left, InReset>>
BY DEF Promise!promiseVars, Held, Left

\* An account that is added may have anything in it that a reset removes.
LEMMA PromiseInit == Init => Promise!Init
BY DEF Init, Promise!Init, InReset

\* The pool's steps.
LEMMA PromiseAccount ==
    ASSUME IInv, ~Duplicates, AccountStep
    PROVE  Promise!Next \/ UNCHANGED <<status, Held, Left, InReset>>
<1>1. InReset' = InReset
  BY DEF AccountStep, CreateLease, EndLease, FindLease, AssumePrincipalRole, LoginFails,
         UseAccount, InReset, build
<1>2. CASE CreateLease
  <2>1. Promise!CheckOut
    BY <1>1, <1>2 DEF CreateLease, Promise!CheckOut
  <2> QED  BY <2>1 DEF Promise!Next
<1>3. CASE EndLease
  <2>1. \A r \in Resources : /\ made'[r] # "tenant"
                             /\ made'[r] = "old" <=> made[r] \in {"old", "tenant"}
    BY <1>3 DEF EndLease, IInv, TypeOK
  <2>2. Held' = {} /\ Left' = Left \cup Held  BY <2>1 DEF Held, Left
  <2>3. Promise!TakeBack
    BY <1>1, <1>3, <2>2 DEF EndLease, Promise!TakeBack, Held, Left
  <2> QED  BY <2>3 DEF Promise!Next
<1>4. CASE FindLease \/ AssumePrincipalRole \/ LoginFails
  BY <1>1, <1>4 DEF FindLease, AssumePrincipalRole, LoginFails, Held, Left
<1>5. ASSUME NEW u \in Parties, NEW r \in Resources, UseAccount(u, r)
      PROVE  Promise!Next \/ UNCHANGED <<status, Held, Left, InReset>>
  <2>1. /\ session[u] > 0 /\ made[r] = "none" /\ UNCHANGED status
        /\ made' = [made EXCEPT ![r] = IF u = "tenant" THEN "tenant" ELSE "late"]
    BY <1>5 DEF UseAccount
  <2>2. made \in [Resources -> {"none", "tenant", "old", "late"}]  BY DEF IInv, TypeOK
  <2>3. CASE u = "tenant"
    <3>1. status = "Leased"  BY <2>1, <2>3 DEF IInv, Tenants
    <3>2. Held' = Held \cup {r} /\ Left' = Left /\ r \notin Held \cup Left
      BY <2>1, <2>2, <2>3 DEF Held, Left
    <3>3. Promise!Make(r)
      BY <1>1, <2>1, <3>1, <3>2 DEF Promise!Make, Held, Left
    <3> QED  BY <3>3 DEF Promise!Next
  <2>4. CASE u # "tenant"
    <3>1. Held' = Held /\ Left' = Left  BY <2>1, <2>2, <2>4 DEF Held, Left
    <3> QED  BY <1>1, <2>1, <3>1
  <2> QED  BY <2>3, <2>4
<1> QED  BY <1>2, <1>3, <1>4, <1>5 DEF AccountStep

\* A nuke removes one thing at a time, during the reset, of former tenants.
LEMMA PromiseNuke ==
    ASSUME IInv, SessionLength <= NukeTimeout, ~Duplicates,
           NEW i \in 1 .. Attempts, NukeStep(i)
    PROVE  Promise!Next \/ UNCHANGED <<status, Held, Left, InReset>>
<1>1. CASE Scan(i) \/ NukeSucceeds(i) \/ NukeFails(i)
  BY <1>1 DEF Scan, NukeSucceeds, NukeFails, account, Held, Left, InReset
<1>2. ASSUME NEW r \in Resources, Remove(i, r)
      PROVE  Promise!Next \/ UNCHANGED <<status, Held, Left, InReset>>
  <2>1. made' = [made EXCEPT ![r] = "none"] /\ UNCHANGED <<status, phase>>
    BY <1>2 DEF Remove
  <2>2. made \in [Resources -> {"none", "tenant", "old", "late"}]  BY DEF IInv, TypeOK
  <2>3. Working(i) /\ HasAccess(i)  BY <1>2 DEF Remove, Working
  <2>4. InReset /\ status = "NotReady" /\ InReset'
    BY <2>1, <2>3 DEF IInv, Access, Resetting, InReset
  <2>5. made[r] # "tenant"  BY <2>4 DEF IInv, Tenants
  <2>6. Held' = Held /\ Left' = Left \ {r}  BY <2>1, <2>2, <2>5 DEF Held, Left
  <2>7. CASE r \in Left
    <3>1. Promise!Remove(r)
      BY <2>1, <2>4, <2>6, <2>7 DEF Promise!Remove, Held, Left
    <3> QED  BY <3>1 DEF Promise!Next
  <2>8. CASE r \notin Left
    <3>1. Left' = Left  BY <2>6, <2>8
    <3> QED  BY <2>1, <2>4, <2>6, <3>1
  <2> QED  BY <2>7, <2>8
<1> QED  BY <1>1, <1>2 DEF NukeStep

\* The build's own steps: it begins, goes on, gives the account back or ends.
LEMMA PromiseBuild ==
    ASSUME IInv, ~Duplicates, BuildStep
    PROVE  Promise!Next \/ UNCHANGED <<status, Held, Left, InReset>>
<1>1. UNCHANGED made
  BY DEF BuildStep, StartBuild, NewNuker, NewNukerFails, NukeAccount, TimeOut,
         UpdateDBPostReset, Publish, BuildDies, account
<1>2. Held' = Held /\ Left' = Left  BY <1>1 DEF Held, Left
<1>3. CASE StartBuild
  <2>1. status = "NotReady" /\ phase = "idle" /\ phase' \in {"attempt", "update"}
        /\ UNCHANGED status
    BY <1>3 DEF StartBuild, account
  <2>2. Promise!Begin  BY <1>2, <2>1 DEF Promise!Begin, InReset, Held, Left
  <2> QED  BY <2>2 DEF Promise!Next
<1>4. CASE UpdateDBPostReset
  <2>1. phase = "update" /\ phase' = "publish" /\ status = "NotReady" /\ status' = "Ready"
    BY <1>4 DEF UpdateDBPostReset, IInv, Resetting, InReset
  <2>2. NukeEnabled => Left = {}  BY <2>1 DEF IInv, Clean, Left
  <2>3. Promise!GiveBack
    BY <1>2, <2>1, <2>2 DEF Promise!GiveBack, InReset, Held, Left
  <2> QED  BY <2>3 DEF Promise!Next
<1>5. ASSUME UNCHANGED status, phase \in {"attempt", "run", "update", "publish"},
             phase' \in {"attempt", "run", "update", "idle"},
             phase = "publish" => phase' = "idle"
      PROVE  Promise!Next \/ UNCHANGED <<status, Held, Left, InReset>>
  <2>1. CASE InReset' = InReset  BY <1>2, <1>5, <2>1
  <2>2. CASE InReset' # InReset
    <3>1. InReset /\ ~InReset'  BY <1>5, <2>2 DEF InReset
    <3>2. Promise!GiveUp  BY <1>2, <1>5, <3>1 DEF Promise!GiveUp, Held, Left
    <3> QED  BY <3>2 DEF Promise!Next
  <2> QED  BY <2>1, <2>2
<1>6. CASE NewNuker \/ NewNukerFails \/ NukeAccount \/ TimeOut
  <2>1. phase \in {"attempt", "run"} /\ phase' \in {"attempt", "run", "update", "idle"}
        /\ UNCHANGED status
    BY <1>6 DEF NewNuker, NewNukerFails, NukeAccount, TimeOut, Retry, Exit, account
  <2> QED  BY <1>5, <2>1
<1>7. CASE Publish \/ BuildDies
  <2>1. phase \in {"attempt", "run", "update", "publish"} /\ phase' = "idle"
        /\ UNCHANGED status
    BY <1>7 DEF Publish, BuildDies, Exit, account, IInv, TypeOK, Phases
  <2> QED  BY <1>5, <2>1
<1> QED  BY <1>3, <1>4, <1>6, <1>7 DEF BuildStep

\* If a nuke's credentials end no later than the wait for it and only NotReady
\* accounts are reset, the build implements the reset as the pool sees it,
\* for any resources and number of attempts, whatever fails, times out or
\* outlives its lease.
THEOREM Refinement ==
    ASSUME SessionLength <= NukeTimeout, ~Duplicates
    PROVE  Spec => RefinesAccountReset
<1>1. IInv /\ [Next]_vars => [Promise!Next]_(Promise!promiseVars)
  <2> SUFFICES ASSUME IInv, [Next]_vars
               PROVE  Promise!Next \/ UNCHANGED <<status, Held, Left, InReset>>
    BY PromiseVars DEF Promise!promiseVars, Held, Left
  <2>1. CASE Tick  BY <2>1 DEF Tick, Held, Left, InReset
  <2>2. CASE UNCHANGED vars  BY <2>2 DEF vars, account, build, Held, Left, InReset
  <2> QED  BY <2>1, <2>2, PromiseAccount, PromiseNuke, PromiseBuild DEF Next
<1> QED  BY <1>1, PromiseInit, InitInv, NextInv, PTL DEF Spec, RefinesAccountReset, Promise!Spec

\* What the promise is worth to a tenant follows from AccountReset alone.
LEMMA PromiseIsWorth == Promise!Spec => []Promise!NothingInherited
<1> USE DEF Promise!NothingInherited
<1>1. Promise!Init => Promise!NothingInherited
  BY DEF Promise!Init
<1>2. Promise!NothingInherited /\ [Promise!Next]_(Promise!promiseVars)
        => Promise!NothingInherited'
  <2> SUFFICES ASSUME Promise!NothingInherited, [Promise!Next]_(Promise!promiseVars),
                      NukeEnabled, status' \in {"Ready", "Leased"}
               PROVE  Left' = {}
    BY DEF Left
  <2>0. status \in {"Ready", "Leased"} => Left = {}
    BY DEF Left
  <2>1. CASE UNCHANGED Promise!promiseVars
    <3>1. status' = status /\ Left' = Left
      BY <2>1, PromiseVars DEF Promise!promiseVars, Left
    <3> QED  BY <2>0, <3>1
  <2>2. CASE Promise!Join \/ Promise!TakeBack \/ Promise!Recall \/ Promise!Retire
    <3>1. status' \notin {"Ready", "Leased"}
      BY <2>2 DEF Promise!Join, Promise!TakeBack, Promise!Recall, Promise!Retire
    <3> QED  BY <3>1
  <2>3. CASE Promise!CheckOut
    <3>1. status = "Ready" /\ Left' = Left  BY <2>3 DEF Promise!CheckOut, Left
    <3> QED  BY <2>0, <3>1
  <2>4. CASE Promise!Begin
    <3>1. status' = status /\ Left' = Left  BY <2>4 DEF Promise!Begin, Left
    <3> QED  BY <2>0, <3>1
  <2>5. CASE Promise!GiveUp
    <3>1. status' = status /\ Left' = Left  BY <2>5 DEF Promise!GiveUp, Left
    <3> QED  BY <2>0, <3>1
  <2>6. CASE Promise!GiveBack
    <3>1. Left = {} /\ Left' = Left  BY <2>6 DEF Promise!GiveBack, Left
    <3> QED  BY <3>1
  <2>7. ASSUME NEW r \in Resources, Promise!Make(r) PROVE Left' = {}
    <3>1. status' = status /\ Left' = Left  BY <2>7 DEF Promise!Make, Left
    <3> QED  BY <2>0, <3>1
  <2>8. ASSUME NEW r \in Resources, Promise!Remove(r) PROVE Left' = {}
    <3>1. status' = status /\ Left' = Left \ {r}  BY <2>8 DEF Promise!Remove, Left
    <3> QED  BY <2>0, <3>1
  <2> QED
    BY <2>1, <2>2, <2>3, <2>4, <2>5, <2>6, <2>7, <2>8 DEF Promise!Next
<1> QED  BY <1>1, <1>2, PTL DEF Promise!Spec

\* So no tenant finds anything a former one has left, for any resources and
\* number of attempts, by way of the refinement.
THEOREM NobodyInherits ==
    ASSUME SessionLength <= NukeTimeout, ~Duplicates
    PROVE  Spec => []TenantFindsNothing
BY Refinement, PromiseIsWorth, PTL DEF RefinesAccountReset, TenantFindsNothing
=============================================================================
