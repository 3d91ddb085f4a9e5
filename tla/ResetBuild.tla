----------------------------- MODULE ResetBuild -----------------------------
(***************************************************************************)
(* The reset of one account, seen from inside: the build's process with    *)
(* its attempts and their time-out, the nuke that each attempt starts and  *)
(* leaves behind, and the credentials by which tenants (POST               *)
(* /leases/{id}/auth) and nukes act on the account until they expire.      *)
(*                                                                         *)
(* LeasePool has the tables, the queue and overlapping builds, and takes   *)
(* the nuke as one step.  Here one build runs at a time.                   *)
(***************************************************************************)
EXTENDS Integers

CONSTANTS
    Resources,      \* what tenants can make in the account
    Attempts,       \* retry.Attempts(3)
    NukeTimeout,    \* 60 minutes, in the ticks of the clock
    SessionLength,  \* an hour: AssumeRole without a duration
    NukeEnabled,    \* RESET_NUKE_TOGGLE
    Faults,         \* TRUE: calls fail and the build may die
    Duplicates      \* TRUE: a build may start on an account that is not NotReady

ASSUME ResetAssumption ==
    /\ Attempts \in Nat \ {0}
    /\ NukeTimeout \in Nat
    /\ SessionLength \in Nat
    /\ NukeEnabled \in BOOLEAN /\ Faults \in BOOLEAN /\ Duplicates \in BOOLEAN

VARIABLES
    status,   \* the account's status
    made,     \* in which time each resource was made, if it exists
    session,  \* how long credentials of the tenant and of former ones last
    login,    \* POST /leases/{id}/auth has found whose lease active
    phase,    \* the build's process
    attempt,  \* retry.Do
    nuke      \* the nuke started by each attempt

account == <<status, made, session, login>>
build   == <<phase, attempt, nuke>>
vars    == <<account, build>>

Parties == {"tenant", "former"}
Phases  == {"idle", "attempt", "run", "update", "publish"}
Steps   == {"none", "scan", "remove", "ok", "failed"}

Longest == IF NukeTimeout > SessionLength THEN NukeTimeout ELSE SessionLength

\* found: what the scan has found and is still to be removed; age: how long ago
\* the nuke's role was assumed, and the nuke started.
Nuke == [step : Steps, found : SUBSET Resources, age : 0 .. Longest]
NoNuke == [step |-> "none", found |-> {}, age |-> 0]

TypeOK ==
    /\ status \in {"Ready", "Leased", "NotReady"}
    /\ made \in [Resources -> {"none", "tenant", "old", "late"}]
    /\ session \in [Parties -> 0 .. SessionLength]
    /\ login \in Parties \cup {"none"}
    /\ phase \in Phases
    /\ attempt \in 1 .. Attempts
    /\ nuke \in [1 .. Attempts -> Nuke]

\* An account as it is added to the pool, with anything in it.
Init ==
    /\ status = "NotReady"
    /\ made \in [Resources -> {"none", "old"}]
    /\ session = [u \in Parties |-> 0]
    /\ login = "none"
    /\ phase = "idle"
    /\ attempt = 1
    /\ nuke = [i \in 1 .. Attempts |-> NoNuke]

-----------------------------------------------------------------------------
(* Leases and logins *)

CreateLease ==
    /\ status = "Ready"
    /\ status' = "Leased"
    /\ UNCHANGED <<made, session, login, build>>

\* The lease is deleted or expires; its credentials stay what they are.
EndLease ==
    /\ status = "Leased"
    /\ status' = "NotReady"
    /\ made' = [r \in Resources |-> IF made[r] = "tenant" THEN "old" ELSE made[r]]
    /\ session' = [session EXCEPT !["tenant"] = 0,
                     !["former"] = IF session["tenant"] > session["former"]
                                     THEN session["tenant"] ELSE session["former"]]
    /\ login' = IF login = "tenant" THEN "former" ELSE login
    /\ UNCHANGED build

\* GetLeaseByID says that the lease is active ...
FindLease ==
    /\ status = "Leased"
    /\ login = "none"
    /\ login' = "tenant"
    /\ UNCHANGED <<status, made, session, build>>

\* ... and the role is assumed, whatever has become of the lease.
AssumePrincipalRole ==
    /\ login # "none"
    /\ session' = [session EXCEPT ![login] = SessionLength]
    /\ login' = "none"
    /\ UNCHANGED <<status, made, build>>

LoginFails ==
    /\ Faults
    /\ login # "none"
    /\ login' = "none"
    /\ UNCHANGED <<status, made, session, build>>

UseAccount(u, r) ==
    /\ session[u] > 0
    /\ made[r] = "none"
    /\ made' = [made EXCEPT ![r] = IF u = "tenant" THEN "tenant" ELSE "late"]
    /\ UNCHANGED <<status, session, login, build>>

-----------------------------------------------------------------------------
(* The nuke: a goroutine of its own *)

Working(i) == nuke[i].step \in {"scan", "remove"}
HasAccess(i) == nuke[i].age < SessionLength

\* Everything that may be removed is found.
Scan(i) ==
    /\ nuke[i].step = "scan"
    /\ HasAccess(i)
    /\ nuke' = [nuke EXCEPT ![i].step = "remove",
                            ![i].found = {r \in Resources : made[r] # "none"}]
    /\ UNCHANGED <<account, phase, attempt>>

Remove(i, r) ==
    /\ nuke[i].step = "remove"
    /\ HasAccess(i)
    /\ r \in nuke[i].found
    /\ made' = [made EXCEPT ![r] = "none"]
    /\ nuke' = [nuke EXCEPT ![i].found = @ \ {r}]
    /\ UNCHANGED <<status, session, login, phase, attempt>>

NukeSucceeds(i) ==
    /\ nuke[i].step = "remove"
    /\ nuke[i].found = {}
    /\ nuke' = [nuke EXCEPT ![i].step = "ok"]
    /\ UNCHANGED <<account, phase, attempt>>

\* Something cannot be removed, or no longer.
NukeFails(i) ==
    /\ Working(i)
    /\ Faults \/ ~HasAccess(i)
    /\ nuke' = [nuke EXCEPT ![i].step = "failed"]
    /\ UNCHANGED <<account, phase, attempt>>

-----------------------------------------------------------------------------
(* The build *)

StartBuild ==
    /\ phase = "idle"
    /\ status = "NotReady" \/ Duplicates
    /\ phase' = IF NukeEnabled THEN "attempt" ELSE "update"
    /\ UNCHANGED <<account, attempt, nuke>>

\* Mutant: what the attempts have started goes on.
ExitOnly == phase' = "idle" /\ attempt' = 1 /\ UNCHANGED nuke

\* The process ends and its goroutines with it.
Exit ==
    /\ phase' = "idle"
    /\ attempt' = 1
    /\ nuke' = [i \in 1 .. Attempts |-> NoNuke]

\* Mutant: one attempt too many.
RetryOnceMore ==
    IF attempt <= Attempts
      THEN phase' = "attempt" /\ attempt' = attempt + 1 /\ UNCHANGED nuke
      ELSE Exit

\* retry.Do after an attempt that failed; after the last one, log.Fatalf.
Retry ==
    IF attempt < Attempts
      THEN phase' = "attempt" /\ attempt' = attempt + 1 /\ UNCHANGED nuke
      ELSE Exit

\* NewNuker assumes the admin role, and the goroutine is started.
NewNuker ==
    /\ phase = "attempt"
    /\ phase' = "run"
    /\ nuke' = [nuke EXCEPT ![attempt] = [NoNuke EXCEPT !.step = "scan"]]
    /\ UNCHANGED <<account, attempt>>

NewNukerFails ==
    /\ Faults
    /\ phase = "attempt"
    /\ Retry
    /\ UNCHANGED account

\* Mutant: the nuke's error is not passed on.
NukeAccountIgnoringErrors ==
    /\ phase = "run"
    /\ nuke[attempt].step \in {"ok", "failed"}
    /\ phase' = "update"
    /\ UNCHANGED <<account, attempt, nuke>>

\* The attempt's own channel answers.
NukeAccount ==
    /\ phase = "run"
    /\ nuke[attempt].step \in {"ok", "failed"}
    /\ IF nuke[attempt].step = "ok"
         THEN phase' = "update" /\ UNCHANGED <<attempt, nuke>>
         ELSE Retry
    /\ UNCHANGED account

\* Mutant: half the time is given.
HalfTimedOut(i) == 2 * nuke[i].age >= NukeTimeout

\* Mutant: the timer never fires.
NeverTimedOut(i) == nuke[i].age > Longest

TimedOut(i) == nuke[i].age >= NukeTimeout

\* Mutant: a nuke that took too long is taken for done.
TimeOutDone ==
    /\ phase = "run"
    /\ TimedOut(attempt)
    /\ phase' = "update"
    /\ UNCHANGED <<account, attempt, nuke>>

\* The timer fires first, or as well; the goroutine is not stopped.
TimeOut ==
    /\ phase = "run"
    /\ TimedOut(attempt)
    /\ Retry
    /\ UNCHANGED account

\* updateDBPostReset: an account that is not NotReady is left as it is.
UpdateDBPostReset ==
    /\ phase = "update"
    /\ status' = IF status = "NotReady" THEN "Ready" ELSE status
    /\ phase' = "publish"
    /\ UNCHANGED <<made, session, login, attempt, nuke>>

\* The topic is told, or not, and main returns.
Publish ==
    /\ phase = "publish"
    /\ Exit
    /\ UNCHANGED account

\* An error elsewhere, or CodeBuild stops the build.
BuildDies ==
    /\ Faults
    /\ phase # "idle"
    /\ Exit
    /\ UNCHANGED account

-----------------------------------------------------------------------------

Older(n) == IF n.age < Longest THEN [n EXCEPT !.age = @ + 1] ELSE n

\* Time passes for every credential and timer.
Tick ==
    /\ session' = [u \in Parties |-> IF session[u] > 0 THEN session[u] - 1 ELSE 0]
    /\ nuke' = [i \in 1 .. Attempts |->
                  IF nuke[i].step = "none" THEN nuke[i] ELSE Older(nuke[i])]
    /\ UNCHANGED <<status, made, login, phase, attempt>>

AccountStep ==
    \/ CreateLease \/ EndLease
    \/ FindLease \/ AssumePrincipalRole \/ LoginFails
    \/ \E u \in Parties, r \in Resources : UseAccount(u, r)

NukeStep(i) ==
    \/ Scan(i)
    \/ \E r \in Resources : Remove(i, r)
    \/ NukeSucceeds(i)
    \/ NukeFails(i)

BuildStep ==
    \/ StartBuild
    \/ NewNuker \/ NewNukerFails
    \/ NukeAccount \/ TimeOut
    \/ UpdateDBPostReset \/ Publish
    \/ BuildDies

Next ==
    \/ AccountStep
    \/ \E i \in 1 .. Attempts : NukeStep(i)
    \/ BuildStep
    \/ Tick

Spec == Init /\ [][Next]_vars

-----------------------------------------------------------------------------
(* What a reset guarantees *)

\* The credentials of a nuke expire no later than the wait for it ends, so an
\* attempt that timed out cannot touch the account while the next one works on
\* it, although its goroutine still runs (NukeAccount).
OneNukeAtATime ==
    \A i, j \in 1 .. Attempts :
        Working(i) /\ HasAccess(i) /\ Working(j) /\ HasAccess(j) => i = j

\* What the tenant of an account has made is never removed by the reset for the
\* lease before, although a goroutine left behind by an attempt that timed out
\* outlives the account's return to the pool.
TenantSpared ==
    [][\A r \in Resources : made[r] = "tenant" => made'[r] # "none"]_vars

\* A Ready account holds nothing of former leases but what was made with
\* credentials that had outlived their lease: a nuke that failed or timed out
\* is never taken for one that succeeded.
ReadyHoldsOnlyLate ==
    NukeEnabled /\ status = "Ready" =>
        \A r \in Resources : made[r] \in {"none", "late"}

\* The account is being reset.
InReset == phase \in {"attempt", "run", "update"}

Promise == INSTANCE AccountReset WITH
    held      <- {r \in Resources : made[r] = "tenant"},
    left      <- {r \in Resources : made[r] = "old"},
    resetting <- InReset

\* The build, its attempts and the nukes they leave behind do together what the
\* pool takes a reset for: only what former tenants have left is removed, only
\* while the account is NotReady and being reset, and the account is given back
\* when nothing of it remains (nukeAccount, updateDBPostReset).
RefinesAccountReset == Promise!Spec

\* So nothing a former tenant has left is there when the account is given out,
\* nor appears while it is leased (reset/main.go, updateDBPostReset).
TenantFindsNothing == Promise!NothingInherited

\* Time passes, and the build's process is not kept from its next step; of the
\* nukes nothing is assumed.
Fairness ==
    /\ WF_vars(Tick)
    /\ WF_vars(NewNuker) /\ WF_vars(NukeAccount) /\ WF_vars(TimeOut)
    /\ WF_vars(UpdateDBPostReset) /\ WF_vars(Publish)

FairSpec == Spec /\ Fairness

\* A build ends, even if no nuke ever comes to an end: after three attempts of
\* an hour at most, and the account can be queued again (nukeAccount).
BuildEnds == phase # "idle" ~> phase = "idle"
=============================================================================
