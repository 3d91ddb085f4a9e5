----------------------- MODULE PrincipalAccessProofs ------------------------
(***************************************************************************)
(* For any number of executions the types are right, the policy always has *)
(* its default version, and pruning leaves room for the version that is    *)
(* created next.  For executions that come one at a time, the hash in the  *)
(* record never hides that the policy is out of date.                      *)
(***************************************************************************)
EXTENDS PrincipalAccess, FiniteSetTheorems, TLAPS

Places == 1 .. Len(versions)

\* The versions of a policy have IDs of their own, and one is the default.
VersionsOK ==
    /\ \A i, j \in Places : versions[i].id = versions[j].id => i = j
    /\ versions # <<>> => \E i \in Places : versions[i].id = default

\* The documents of the default version: one, or none without a policy.
InForce == {versions[i].doc : i \in {j \in Places : versions[j].id = default}}

-----------------------------------------------------------------------------

LEMMA IdsAreNumbers == Ids \subseteq Nat \ {0} /\ 1 \in Ids
<1>1. Cardinality(Workers) \in Nat
  BY FS_CardinalityType, AccessAssumption
<1> QED
  BY <1>1, AccessAssumption DEF Ids

LEMMA VersionFields ==
    ASSUME versions \in Seq(Version)
    PROVE  \A i \in 1 .. Len(versions) :
               versions[i].id \in Ids /\ versions[i].doc \in Templates
<1>1. \A i \in 1 .. Len(versions) : versions[i] \in Version
  OBVIOUS
<1> QED
  BY <1>1 DEF Version

LEMMA OneInForce ==
    ASSUME VersionsOK, NEW k \in Places, versions[k].id = default
    PROVE  InForce = {versions[k].doc}
BY DEF VersionsOK, InForce

\* Deleting a version leaves the others, the default among them.
LEMMA VersionRemoved ==
    ASSUME TypeOK, VersionsOK, NEW v, Deletable(v), RemoveVersion(v), default' = default
    PROVE  /\ versions' \in Seq(Version)
           /\ Len(versions') = Len(versions) - 1
           /\ Len(versions') \in 1 .. Limit - 1
           /\ VersionsOK'
           /\ InForce' = InForce
<1>1. PICK i \in Places :
        /\ versions[i].id = v
        /\ versions' = [j \in 1 .. Len(versions) - 1 |->
                          versions[IF j < i THEN j ELSE j + 1]]
  BY DEF RemoveVersion, Places
<1>2. versions \in Seq(Version) /\ Len(versions) \in Nat /\ Len(versions) <= Limit
  BY DEF TypeOK
<1>3. v # default /\ versions # <<>>
  BY DEF Deletable, VersionIds
<1>4. PICK k \in Places : versions[k].id = default
  BY <1>3 DEF VersionsOK
<1>5. i # k /\ Len(versions) >= 2
  BY <1>1, <1>2, <1>3, <1>4 DEF Places
<1> DEFINE n == Len(versions) - 1
           f == [j \in 1 .. n |-> versions[IF j < i THEN j ELSE j + 1]]
<1>6. n \in Nat /\ n >= 1 /\ \A j \in 1 .. n : (IF j < i THEN j ELSE j + 1) \in Places
  BY <1>1, <1>2, <1>5 DEF Places
<1>7. \A j \in Places : versions[j] \in Version
  BY <1>2 DEF Places
<1>8. f \in [1 .. n -> Version]
  BY <1>6, <1>7
<1>9. f \in Seq(Version) /\ Len(f) = n
  BY <1>6, <1>8
<1>10. versions' = f
  BY <1>1
<1>11. Len(versions') = n /\ Places' = 1 .. n
  BY <1>9, <1>10 DEF Places
<1>12. \A j \in 1 .. n : versions'[j] = versions[IF j < i THEN j ELSE j + 1]
  BY <1>10
<1>13. \A d : versions[k].doc = d =>
          \E j \in 1 .. n : versions'[j].id = default /\ versions'[j].doc = d
  <2>1. CASE k < i
    BY <1>1, <1>2, <1>4, <1>12, <2>1 DEF Places
  <2>2. CASE k > i
    <3>1. k - 1 \in 1 .. n /\ ~(k - 1 < i) /\ (k - 1) + 1 = k
      BY <1>1, <1>2, <1>4, <2>2 DEF Places
    <3> QED
      BY <1>4, <1>12, <3>1
  <2> QED
    BY <1>1, <1>2, <1>4, <1>5, <2>1, <2>2 DEF Places
<1>14. InForce = {versions[k].doc}
  BY <1>4, OneInForce
<1>16. \A j, m \in 1 .. n : versions'[j].id = versions'[m].id => j = m
  <2> SUFFICES ASSUME NEW j \in 1 .. n, NEW m \in 1 .. n, versions'[j].id = versions'[m].id
               PROVE  j = m
    OBVIOUS
  <2> DEFINE at(x) == IF x < i THEN x ELSE x + 1
  <2>1. versions[at(j)].id = versions[at(m)].id /\ at(j) \in Places /\ at(m) \in Places
    BY <1>6, <1>12
  <2>2. at(j) = at(m)
    BY <2>1 DEF VersionsOK
  <2> QED
    BY <2>2, <1>1, <1>2 DEF Places
<1>17. PICK m \in 1 .. n : versions'[m].id = default /\ versions'[m].doc = versions[k].doc
  BY <1>13
<1>18. VersionsOK'
  BY <1>11, <1>16, <1>17 DEF VersionsOK
<1>19. \A j \in 1 .. n : versions'[j].id = default => j = m
  BY <1>16, <1>17
<1>20. InForce' = {versions[k].doc}
  BY <1>11, <1>17, <1>19 DEF InForce
<1> QED
  BY <1>2, <1>5, <1>9, <1>10, <1>11, <1>14, <1>18, <1>20, AccessAssumption

\* A version that is created becomes the default, beside the others.
LEMMA VersionCreated ==
    ASSUME TypeOK, VersionsOK, NEW d \in Templates, NEW v \in FreshIds,
           Len(versions) < Limit,
           versions' = Append(versions, [id |-> v, doc |-> d]), default' = v
    PROVE  /\ versions' \in Seq(Version)
           /\ Len(versions') = Len(versions) + 1
           /\ versions' # <<>>
           /\ VersionsOK'
           /\ InForce' = {d}
<1> DEFINE new == [id |-> v, doc |-> d]
           n   == Len(versions)
<1>1. versions \in Seq(Version) /\ n \in Nat
  BY DEF TypeOK
<1>2. v \in Ids /\ new \in Version
  BY DEF FreshIds, Version
<1>3. /\ versions' \in Seq(Version)
      /\ Len(versions') = n + 1
      /\ versions'[n + 1] = new
      /\ \A i \in 1 .. n : versions'[i] = versions[i]
  BY <1>1, <1>2
<1>4. Places' = 1 .. n + 1 /\ n + 1 \in Places'
  BY <1>1, <1>3 DEF Places
<1>5. \A i \in 1 .. n : versions[i].id # v
  BY <1>1 DEF FreshIds, VersionIds
<1>6. \A i, j \in 1 .. n + 1 : versions'[i].id = versions'[j].id => i = j
  <2> SUFFICES ASSUME NEW i \in 1 .. n + 1, NEW j \in 1 .. n + 1,
                      versions'[i].id = versions'[j].id
               PROVE  i = j
    OBVIOUS
  <2>1. CASE i \in 1 .. n /\ j \in 1 .. n
    BY <1>3, <2>1 DEF VersionsOK, Places
  <2>2. CASE i = n + 1 \/ j = n + 1
    BY <1>1, <1>3, <1>5, <2>2
  <2> QED
    BY <1>1, <2>1, <2>2
<1>7. versions'[n + 1].id = default' /\ versions'[n + 1].doc = d
  BY <1>3
<1>8. VersionsOK'
  BY <1>4, <1>6, <1>7 DEF VersionsOK
<1>9. InForce' = {d}
  BY <1>1, <1>4, <1>6, <1>7 DEF InForce
<1> QED
  BY <1>1, <1>3, <1>8, <1>9
-----------------------------------------------------------------------------
(* What a worker's request may become. *)

LEMMA RequestSet ==
    ASSUME req \in [Workers -> Request], NEW w \in Workers, NEW r \in Request,
           req' = [req EXCEPT ![w] = r]
    PROVE  req' \in [Workers -> Request]
OBVIOUS

LEMMA NoRequestIsRequest == NoRequest \in Request /\ NoRow \in Row
BY DEF NoRequest, NoRow, Request, Row, PCs, Rendered, UpsertPCs

LEMMA Replied ==
    ASSUME req \in [Workers -> Request], NEW w \in Workers, Reply(w)
    PROVE  req' \in [Workers -> Request]
BY NoRequestIsRequest, RequestSet DEF Reply

LEMMA Went ==
    ASSUME req \in [Workers -> Request], NEW w \in Workers, NEW pc \in PCs,
           pc \in Rendered => req[w].doc \in Templates, Goto(w, pc)
    PROVE  req' \in [Workers -> Request]
<1>1. [req[w] EXCEPT !.pc = pc] \in Request
  BY DEF Request
<1> QED
  BY <1>1, RequestSet DEF Goto

LEMMA OutdatedRequests ==
    ASSUME req \in [Workers -> Request]
    PROVE  Outdated \in [Workers -> Request]
<1>1. \A w \in Workers : [req[w] EXCEPT !.current = FALSE] \in Request
  BY DEF Request
<1> QED
  BY <1>1 DEF Outdated

LEMMA RenderedDoc ==
    ASSUME req \in [Workers -> Request], NEW w \in Workers, req[w].pc \in Rendered
    PROVE  req[w].doc \in Templates
BY DEF Request

LEMMA PlacesOfRequest ==
    /\ Rendered = {"policy", "list", "prune", "version", "attach", "reattach",
                   "save", "saveAgain"}
    /\ PCs = Rendered \cup {"idle", "role", "build", "removeRow", "detach",
                            "listAll", "deleteAll", "deleteRole"}
BY DEF Rendered, UpsertPCs, RemovePCs, PCs

-----------------------------------------------------------------------------

\* What holds of the record and the versions whatever overlaps.
RecordOK ==
    template \in Templates /\ row \in Row /\ role \in BOOLEAN /\ attached \in BOOLEAN

PolicyOK ==
    /\ versions \in Seq(Version)
    /\ Len(versions) <= Limit
    /\ default \in Ids \cup {0}
    /\ default = 0 <=> versions = <<>>
    /\ VersionsOK

RequestsOK == req \in [Workers -> Request]

IInv == RecordOK /\ PolicyOK /\ RequestsOK

LEMMA IInvIsTypeOK == IInv => TypeOK /\ VersionsOK
BY DEF IInv, RecordOK, PolicyOK, RequestsOK, TypeOK

LEMMA PolicyKept ==
    ASSUME PolicyOK, UNCHANGED <<versions, default>>
    PROVE  PolicyOK' /\ InForce' = InForce
BY DEF PolicyOK, VersionsOK, InForce, Places

LEMMA RecordKept ==
    ASSUME RecordOK, UNCHANGED <<template, row, role, attached>>
    PROVE  RecordOK'
BY DEF RecordOK

\* A version is deleted that is not the default.
LEMMA PolicyAfterRemoval ==
    ASSUME IInv, NEW v, Deletable(v), RemoveVersion(v), default' = default
    PROVE  /\ PolicyOK' /\ Len(versions') \in 1 .. Limit - 1
           /\ InForce' = InForce /\ versions' # <<>>
<1>1. /\ versions' \in Seq(Version) /\ Len(versions') \in 1 .. Limit - 1
      /\ VersionsOK' /\ InForce' = InForce
  BY IInvIsTypeOK, VersionRemoved
<1>2. versions # <<>> /\ versions' # <<>> /\ Len(versions') <= Limit
  BY <1>1, AccessAssumption DEF Deletable, VersionIds
<1> QED
  BY <1>1, <1>2 DEF IInv, PolicyOK

LEMMA UpsertKeepsIInv ==
    ASSUME IInv, NEW w \in Workers, Upsert(w)
    PROVE  IInv'
<1> USE PlacesOfRequest
<1>a. RecordOK /\ PolicyOK /\ RequestsOK /\ req \in [Workers -> Request]
  BY DEF IInv, RequestsOK
<1>b. req[w] \in Request /\ row \in Row /\ template \in Templates
  BY <1>a DEF RecordOK
<1>1. CASE CreateAccount(w) \/ UpdatePrincipalPolicy(w)
  <2>1. [NoRequest EXCEPT !.pc = "role"] \in Request
    BY DEF NoRequest, NoRow, Request, Row
  <2>2. [NoRequest EXCEPT !.pc = "role", !.copy = row, !.current = TRUE] \in Request
    BY <1>b DEF NoRequest, NoRow, Request
  <2>3. RequestsOK'
    BY <1>1, <1>a, <2>1, <2>2, RequestSet
    DEF CreateAccount, UpdatePrincipalPolicy, RequestsOK
  <2> QED
    BY <1>1, <1>a, <2>3, PolicyKept, RecordKept
    DEF CreateAccount, UpdatePrincipalPolicy, iam, IInv
<1>2. CASE MergeRole(w)
  <2>1. RequestsOK'
    BY <1>2, <1>a, Went DEF MergeRole, RequestsOK
  <2>2. RecordOK'
    BY <1>2, <1>a DEF MergeRole, RecordOK
  <2> QED
    BY <1>2, <1>a, <2>1, <2>2, PolicyKept DEF MergeRole, IInv
<1>3. CASE BuildPolicy(w)
  <2>1. PICK pc \in PCs :
          req' = [req EXCEPT ![w] = [@ EXCEPT !.doc = template, !.pc = pc]]
    BY <1>3 DEF BuildPolicy
  <2>2. [req[w] EXCEPT !.doc = template, !.pc = pc] \in Request
    BY <1>b DEF Request
  <2>3. RequestsOK'
    BY <1>a, <2>1, <2>2, RequestSet DEF RequestsOK
  <2> QED
    BY <1>3, <1>a, <2>3, PolicyKept, RecordKept DEF BuildPolicy, iam, IInv
<1>4. CASE CreatePolicy(w)
  <2>1. req[w].doc \in Templates
    BY <1>4, <1>a, RenderedDoc DEF CreatePolicy, At
  <2>2. RequestsOK' /\ RecordOK'
    BY <1>4, <1>a, <2>1, Went, RecordKept DEF CreatePolicy, RequestsOK
  <2>3. CASE versions = <<>>
    <3>1. versions' = <<[id |-> 1, doc |-> req[w].doc]>> /\ default' = 1
      BY <1>4, <2>3 DEF CreatePolicy
    <3>2. [id |-> 1, doc |-> req[w].doc] \in Version
      BY <2>1, IdsAreNumbers DEF Version
    <3>3. versions' \in Seq(Version) /\ Len(versions') = 1 /\ versions'[1].id = 1
      BY <3>1, <3>2
    <3>4. VersionsOK'
      BY <3>1, <3>3 DEF VersionsOK, Places
    <3>5. PolicyOK'
      BY <3>1, <3>3, <3>4, AccessAssumption, IdsAreNumbers DEF PolicyOK
    <3> QED
      BY <2>2, <3>5 DEF IInv
  <2>4. CASE versions # <<>>
    BY <1>4, <2>4, <1>a, <2>2, PolicyKept DEF CreatePolicy, IInv
  <2> QED
    BY <2>3, <2>4
<1>5. CASE ListPolicyVersions(w)
  <2>1. Oldest \subseteq Ids
    <3>1. \A i \in 1 .. Len(versions) : versions[i].id \in Ids
      BY <1>a, VersionFields DEF PolicyOK
    <3> QED
      BY <3>1 DEF Oldest
  <2>2. req[w].doc \in Templates
    BY <1>5, <1>a, RenderedDoc DEF ListPolicyVersions, At
  <2>3. ASSUME NEW D \in SUBSET Ids, NEW pc \in {"version", "prune"}
        PROVE  [req[w] EXCEPT !.doomed = D, !.pc = pc] \in Request
    BY <1>b, <2>2 DEF Request
  <2>4. ASSUME versions = <<>> PROVE RequestsOK'
    BY <1>5, <2>4, <1>a, Replied DEF ListPolicyVersions, RequestsOK
  <2>5. ASSUME versions # <<>> PROVE RequestsOK'
    <3> DEFINE D  == IF Prune(Len(versions)) THEN Oldest ELSE {}
               pc == IF D = {} THEN "version" ELSE "prune"
    <3>1. D \in SUBSET Ids /\ pc \in {"version", "prune"}
      BY <2>1
    <3>2. req' = [req EXCEPT ![w] = [req[w] EXCEPT !.doomed = D, !.pc = pc]]
      BY <1>5, <2>5 DEF ListPolicyVersions
    <3> HIDE DEF D, pc
    <3> QED
      BY <3>1, <3>2, <2>3, <1>a, RequestSet DEF RequestsOK
  <2>6. RequestsOK'
    BY <2>4, <2>5
  <2> QED
    BY <1>5, <1>a, <2>6, PolicyKept, RecordKept DEF ListPolicyVersions, iam, IInv
<1>6. CASE DeletePolicyVersion(w)
  <2>1. PICK v \in req[w].doomed :
          \/ /\ Deletable(v)
             /\ RemoveVersion(v)
             /\ req' = [req EXCEPT ![w] = [@ EXCEPT !.pc = "version", !.doomed = {}]]
          \/ /\ ~Deletable(v)
             /\ Reply(w)
             /\ UNCHANGED versions
    BY <1>6 DEF DeletePolicyVersion
  <2>2. UNCHANGED <<template, row, role, default, attached>> /\ At(w, "prune")
    BY <1>6 DEF DeletePolicyVersion
  <2>3. CASE Deletable(v) /\ RemoveVersion(v)
    <3>1. PolicyOK'
      BY <2>2, <2>3, PolicyAfterRemoval
    <3>2. req[w].doc \in Templates
      BY <2>2, <1>a, RenderedDoc DEF At
    <3>3. [req[w] EXCEPT !.pc = "version", !.doomed = {}] \in Request
      BY <1>b, <3>2 DEF Request
    <3>4. RequestsOK'
      BY <2>1, <2>3, <3>3, <1>a, RequestSet DEF RequestsOK
    <3> QED
      BY <3>1, <3>4, <2>2, <1>a, RecordKept DEF IInv
  <2>4. CASE ~Deletable(v)
    BY <2>1, <2>2, <2>4, <1>a, Replied, PolicyKept, RecordKept DEF IInv, RequestsOK
  <2> QED
    BY <2>1, <2>3, <2>4
<1>7. CASE CreatePolicyVersion(w)
  <2>1. CASE Reply(w) /\ UNCHANGED <<versions, default, template, row, role, attached>>
    BY <2>1, <1>a, Replied, PolicyKept, RecordKept DEF IInv, RequestsOK
  <2>2. CASE ~(Reply(w) /\ UNCHANGED <<versions, default, template, row, role, attached>>)
    <3> DEFINE v == CHOOSE i \in FreshIds : TRUE
    <3>1. /\ FreshIds # {} /\ Len(versions) < Limit
          /\ versions' = Append(versions, [id |-> v, doc |-> req[w].doc])
          /\ default' = v
          /\ Goto(w, "attach")
          /\ UNCHANGED <<template, row, role, attached>>
      BY <1>7, <2>2 DEF CreatePolicyVersion
    <3>2. v \in FreshIds
      BY <3>1
    <3>3. req[w].doc \in Templates
      BY <1>7, <1>a, RenderedDoc DEF CreatePolicyVersion, At
    <3> HIDE DEF v
    <3>4. /\ versions' \in Seq(Version) /\ Len(versions') = Len(versions) + 1
          /\ versions' # <<>> /\ VersionsOK'
      BY <3>1, <3>2, <3>3, IInvIsTypeOK, VersionCreated
    <3>5. Len(versions') <= Limit /\ default' \in Ids /\ default' # 0
      BY <3>1, <3>2, <3>4, <1>a, IdsAreNumbers, AccessAssumption DEF FreshIds, PolicyOK
    <3>6. PolicyOK'
      BY <3>4, <3>5 DEF PolicyOK
    <3> QED
      BY <3>1, <3>3, <3>6, <1>a, Went, RecordKept DEF IInv, RequestsOK
  <2> QED
    BY <2>1, <2>2
<1>8. CASE AttachNewPolicy(w) \/ AttachOldPolicy(w)
  <2>1. At(w, "attach") \/ At(w, "reattach")
    BY <1>8 DEF AttachNewPolicy, AttachOldPolicy, AttachRolePolicy
  <2>2. req[w].doc \in Templates
    BY <2>1, <1>a, RenderedDoc DEF At
  <2>3. RequestsOK'
    BY <1>8, <1>a, <2>2, Went, Replied
    DEF AttachNewPolicy, AttachOldPolicy, AttachRolePolicy, RequestsOK
  <2>4. RecordOK'
    BY <1>8, <1>a DEF AttachNewPolicy, AttachOldPolicy, AttachRolePolicy, RecordOK
  <2> QED
    BY <1>8, <1>a, <2>3, <2>4, PolicyKept
    DEF AttachNewPolicy, AttachOldPolicy, AttachRolePolicy, IInv
<1>9. CASE SaveRow(w)
  <2>1. PolicyOK'
    BY <1>9, <1>a, PolicyKept DEF SaveRow, iam
  <2>2. req[w].doc \in Templates
    BY <1>9, <1>a, RenderedDoc DEF SaveRow, At
  <2>3. CASE Reply(w) /\ UNCHANGED row
    BY <1>9, <2>1, <2>3, <1>a, Replied, RecordKept DEF SaveRow, iam, IInv, RequestsOK
  <2>4. CASE ~(Reply(w) /\ UNCHANGED row)
    <3> DEFINE r == IF req[w].copy.exists THEN NoRequest
                    ELSE [req[w] EXCEPT !.pc = "saveAgain", !.copy = row',
                                        !.current = TRUE]
    <3>1. /\ row' = [exists |-> TRUE, hash |-> req[w].doc]
          /\ req' = [Outdated EXCEPT ![w] = r]
      BY <1>9, <2>4 DEF SaveRow
    <3>2. row' \in Row
      BY <3>1, <2>2 DEF Row
    <3>3. [req[w] EXCEPT !.pc = "saveAgain", !.copy = row', !.current = TRUE] \in Request
      BY <1>b, <2>2, <3>2 DEF Request
    <3>4. r \in Request
      BY <3>3, NoRequestIsRequest
    <3> HIDE DEF r
    <3>5. RequestsOK'
      BY <3>1, <3>4, <1>a, OutdatedRequests DEF RequestsOK
    <3>6. RecordOK'
      BY <1>9, <1>a, <3>2 DEF SaveRow, iam, RecordOK
    <3> QED
      BY <2>1, <3>5, <3>6 DEF IInv
  <2> QED
    BY <2>3, <2>4
<1>10. CASE SaveRowAgain(w)
  <2>1. PolicyOK'
    BY <1>10, <1>a, PolicyKept DEF SaveRowAgain, iam
  <2>2. CASE Reply(w) /\ UNCHANGED row
    BY <1>10, <2>1, <2>2, <1>a, Replied, RecordKept
    DEF SaveRowAgain, iam, IInv, RequestsOK
  <2>3. CASE ~(Reply(w) /\ UNCHANGED row)
    <3>1. row' = req[w].copy /\ req' = [Outdated EXCEPT ![w] = NoRequest]
      BY <1>10, <2>3 DEF SaveRowAgain
    <3>2. row' \in Row
      BY <3>1, <1>b DEF Request
    <3>3. RequestsOK'
      BY <3>1, <1>a, OutdatedRequests, NoRequestIsRequest DEF RequestsOK
    <3>4. RecordOK'
      BY <1>10, <1>a, <3>2 DEF SaveRowAgain, iam, RecordOK
    <3> QED
      BY <2>1, <3>3, <3>4 DEF IInv
  <2> QED
    BY <2>2, <2>3
<1> QED
  BY <1>1, <1>2, <1>3, <1>4, <1>5, <1>6, <1>7, <1>8, <1>9, <1>10 DEF Upsert

LEMMA TakeDownKeepsIInv ==
    ASSUME IInv, NEW w \in Workers, TakeDown(w)
    PROVE  IInv'
<1> USE PlacesOfRequest
<1>a. RecordOK /\ PolicyOK /\ RequestsOK /\ req \in [Workers -> Request]
  BY DEF IInv, RequestsOK
<1>b. req[w] \in Request
  BY <1>a
<1>1. CASE DeleteAccount(w)
  <2>1. [NoRequest EXCEPT !.pc = "removeRow"] \in Request
    BY DEF NoRequest, NoRow, Request, Row
  <2>2. RequestsOK'
    BY <1>1, <1>a, <2>1, RequestSet DEF DeleteAccount, RequestsOK
  <2> QED
    BY <1>1, <1>a, <2>2, PolicyKept, RecordKept DEF DeleteAccount, iam, IInv
<1>2. CASE RemoveRow(w)
  <2>1. [NoRequest EXCEPT !.pc = "detach"] \in Request
    BY DEF NoRequest, NoRow, Request, Row
  <2>2. RequestsOK'
    BY <1>2, <1>a, <2>1, OutdatedRequests DEF RemoveRow, RequestsOK
  <2>3. RecordOK'
    BY <1>2, <1>a, NoRequestIsRequest DEF RemoveRow, iam, RecordOK
  <2> QED
    BY <1>2, <1>a, <2>2, <2>3, PolicyKept DEF RemoveRow, iam, IInv
<1>3. CASE DetachRolePolicy(w)
  <2>1. RequestsOK'
    BY <1>3, <1>a, Went DEF DetachRolePolicy, RequestsOK
  <2>2. RecordOK'
    BY <1>3, <1>a DEF DetachRolePolicy, RecordOK
  <2> QED
    BY <1>3, <1>a, <2>1, <2>2, PolicyKept DEF DetachRolePolicy, IInv
<1>4. CASE ListAllVersions(w)
  <2>1. VersionIds \ {default} \in SUBSET Ids
    <3>1. \A i \in 1 .. Len(versions) : versions[i].id \in Ids
      BY <1>a, VersionFields DEF PolicyOK
    <3> QED
      BY <3>1 DEF VersionIds
  <2>2. [req[w] EXCEPT !.pc = "deleteAll", !.doomed = VersionIds \ {default}] \in Request
    BY <1>b, <2>1 DEF Request
  <2>3. RequestsOK'
    BY <1>4, <1>a, <2>2, RequestSet, Replied DEF ListAllVersions, RequestsOK
  <2> QED
    BY <1>4, <1>a, <2>3, PolicyKept, RecordKept DEF ListAllVersions, iam, IInv
<1>5. CASE DeleteOtherVersion(w)
  <2>1. PICK v \in req[w].doomed :
          \/ /\ Deletable(v)
             /\ RemoveVersion(v)
             /\ req' = [req EXCEPT ![w].doomed = @ \ {v}]
          \/ /\ ~Deletable(v)
             /\ Reply(w)
             /\ UNCHANGED versions
    BY <1>5 DEF DeleteOtherVersion
  <2>2. UNCHANGED <<template, row, role, default, attached>> /\ At(w, "deleteAll")
    BY <1>5 DEF DeleteOtherVersion
  <2>3. CASE Deletable(v) /\ RemoveVersion(v)
    <3>1. PolicyOK'
      BY <2>2, <2>3, PolicyAfterRemoval
    <3> DEFINE r == [req[w] EXCEPT !.doomed = @ \ {v}]
    <3>2. r \in Request
      BY <1>b DEF Request
    <3>a. req' = [req EXCEPT ![w] = r]
      BY <2>1, <2>3
    <3> HIDE DEF r
    <3>3. RequestsOK'
      BY <3>a, <3>2, <1>a, RequestSet DEF RequestsOK
    <3> QED
      BY <3>1, <3>3, <2>2, <1>a, RecordKept DEF IInv
  <2>4. CASE ~Deletable(v)
    BY <2>1, <2>2, <2>4, <1>a, Replied, PolicyKept, RecordKept DEF IInv, RequestsOK
  <2> QED
    BY <2>1, <2>3, <2>4
<1>6. CASE DeletePolicy(w)
  <2>1. RequestsOK' /\ RecordOK'
    BY <1>6, <1>a, Went, Replied, RecordKept DEF DeletePolicy, RequestsOK
  <2>2. PolicyOK'
    <3>1. CASE versions' = <<>> /\ default' = 0
      BY <3>1, AccessAssumption DEF PolicyOK, VersionsOK, Places
    <3> QED
      BY <1>6, <1>a, <3>1, PolicyKept DEF DeletePolicy
  <2> QED
    BY <2>1, <2>2 DEF IInv
<1>7. CASE DeleteRole(w)
  <2>1. RequestsOK'
    BY <1>7, <1>a, Replied DEF DeleteRole, RequestsOK
  <2>2. RecordOK'
    BY <1>7, <1>a DEF DeleteRole, RecordOK
  <2> QED
    BY <1>7, <1>a, <2>1, <2>2, PolicyKept DEF DeleteRole, IInv
<1> QED
  BY <1>1, <1>2, <1>3, <1>4, <1>5, <1>6, <1>7 DEF TakeDown

LEMMA OthersKeepIInv ==
    ASSUME IInv,
           \/ \E w \in Workers : Fail(w)
           \/ \E t \in Templates : UploadTemplate(t)
           \/ TouchRow
           \/ UNCHANGED vars
    PROVE  IInv'
<1>a. RecordOK /\ PolicyOK /\ RequestsOK /\ req \in [Workers -> Request]
  BY DEF IInv, RequestsOK
<1>1. ASSUME NEW w \in Workers, Fail(w) PROVE IInv'
  BY <1>1, <1>a, Replied, PolicyKept, RecordKept DEF Fail, iam, IInv, RequestsOK
<1>2. ASSUME NEW t \in Templates, UploadTemplate(t) PROVE IInv'
  BY <1>2, <1>a, PolicyKept DEF UploadTemplate, iam, IInv, RecordOK, RequestsOK
<1>3. CASE TouchRow
  BY <1>3, <1>a, OutdatedRequests, PolicyKept, RecordKept
  DEF TouchRow, iam, IInv, RequestsOK
<1>4. CASE UNCHANGED vars
  BY <1>4, <1>a, PolicyKept, RecordKept DEF vars, iam, IInv, RequestsOK
<1> QED
  BY <1>1, <1>2, <1>3, <1>4

LEMMA AccessInvariant == Spec => []IInv
<1>1. Init => IInv
  <2> SUFFICES ASSUME Init PROVE IInv
    OBVIOUS
  <2>1. RecordOK
    <3>1. 1 \in Templates
      BY AccessAssumption DEF Templates
    <3> QED
      BY <3>1, NoRequestIsRequest, Zenon DEF Init, RecordOK
  <2>2. PolicyOK
    BY AccessAssumption DEF Init, PolicyOK, VersionsOK, Places
  <2>3. RequestsOK
    BY NoRequestIsRequest DEF Init, RequestsOK
  <2> QED
    BY <2>1, <2>2, <2>3 DEF IInv
<1>2. IInv /\ [Next]_vars => IInv'
  BY UpsertKeepsIInv, TakeDownKeepsIInv, OthersKeepIInv DEF Next
<1> QED
  BY <1>1, <1>2, PTL DEF Spec

\* The policy never has more versions than IAM keeps, one of them is the
\* default as long as there is a policy, and every call of an upsert after the
\* rendering has a document at hand, whatever overlaps and whatever fails.
THEOREM AccessTypeCorrect == Spec => []TypeOK
BY AccessInvariant, IInvIsTypeOK, PTL

-----------------------------------------------------------------------------
(* Room for a version, whatever overlaps. *)

\* If there is a version beside the default one, there is an oldest one.
LEMMA OldestExists ==
    ASSUME IInv, versions # <<>>, Oldest = {}
    PROVE  Len(versions) = 1
<1>1. versions \in Seq(Version) /\ Len(versions) \in Nat /\ Len(versions) >= 1
  BY DEF IInv, PolicyOK
<1>2. \A j \in Places :
        versions[j].id = default \/ \E k \in 1 .. j - 1 : versions[k].id # default
  BY DEF Oldest, Places
<1>3. versions[1].id = default
  BY <1>1, <1>2 DEF Places
<1>4. ~(Len(versions) >= 2)
  <2> SUFFICES ASSUME Len(versions) >= 2 PROVE FALSE
    OBVIOUS
  <2>1. versions[2].id = default
    BY <1>1, <1>2, <1>3 DEF Places
  <2> QED
    BY <1>1, <1>3, <2>1 DEF IInv, PolicyOK, VersionsOK, Places
<1> DEFINE n == Len(versions)
<1>5. n \in Nat /\ n >= 1 /\ ~(n >= 2)
  BY <1>1, <1>4
<1> HIDE DEF n
<1>6. n = 1
  BY <1>5
<1> QED
  BY <1>6 DEF n

LEMMA GoneTo ==
    ASSUME req \in [Workers -> Request], NEW w \in Workers, NEW pc, Goto(w, pc)
    PROVE  req'[w].pc = pc /\ req'[w].doc = req[w].doc
<1>1. req[w] \in Request /\ req'[w] = [req[w] EXCEPT !.pc = pc]
  BY DEF Goto
<1> QED
  BY <1>1 DEF Request

\* An execution is about to create a version once it has found room, or has
\* made it.
LEMMA ComesToVersion ==
    ASSUME IInv, Next, NEW w \in Workers, ~At(w, "version"), At(w, "version")'
    PROVE  HasRoom'
<1> USE PlacesOfRequest DEF At, Idle
<1>a. RequestsOK /\ req \in [Workers -> Request] /\ PolicyOK
  BY DEF IInv, RequestsOK
<1>1. \A u \in Workers : Upsert(u) \/ TakeDown(u) \/ Fail(u) =>
        \/ req' = Outdated
        \/ \E r : req' = [req EXCEPT ![u] = r]
        \/ \E r : req' = [Outdated EXCEPT ![u] = r]
  BY DEF Upsert, TakeDown, CreateAccount, UpdatePrincipalPolicy, MergeRole,
     BuildPolicy, CreatePolicy, ListPolicyVersions, DeletePolicyVersion,
     CreatePolicyVersion, AttachNewPolicy, AttachOldPolicy, AttachRolePolicy,
     SaveRow, SaveRowAgain, DeleteAccount, RemoveRow, DetachRolePolicy,
     ListAllVersions, DeleteOtherVersion, DeletePolicy, DeleteRole, Fail, Goto, Reply
<1>2. Outdated[w].pc = req[w].pc
  <2>1. Outdated[w] = [req[w] EXCEPT !.current = FALSE] /\ req[w] \in Request
    BY <1>a DEF Outdated
  <2> QED
    BY <2>1 DEF Request
<1>3. Upsert(w) \/ TakeDown(w) \/ Fail(w)
  <2>1. ASSUME NEW u \in Workers, Upsert(u) \/ TakeDown(u) \/ Fail(u), u # w
        PROVE  FALSE
    <3>1. Outdated \in [Workers -> Request]
      BY <1>a, OutdatedRequests
    <3> QED
      BY <1>a, <1>1, <1>2, <2>1, <3>1
  <2>2. ~TouchRow /\ \A t \in Templates : ~UploadTemplate(t)
    BY <1>2 DEF TouchRow, UploadTemplate
  <2> QED
    BY <2>1, <2>2 DEF Next
<1>4. CASE ListPolicyVersions(w)
  <2> DEFINE doomed == IF Prune(Len(versions)) THEN Oldest ELSE {}
             pc     == IF doomed = {} THEN "version" ELSE "prune"
  <2>1. ~Reply(w)
    BY <1>a DEF Reply, NoRequest
  <2>2. /\ versions # <<>> /\ versions' = versions
        /\ req' = [req EXCEPT ![w] = [@ EXCEPT !.doomed = doomed, !.pc = pc]]
    BY <1>4, <2>1 DEF ListPolicyVersions, iam
  <2>3. doomed = {}
    <3>1. req[w] \in Request /\ req'[w] = [req[w] EXCEPT !.doomed = doomed, !.pc = pc]
      BY <1>a, <2>2
    <3>2. pc = "version"
      BY <3>1 DEF Request
    <3> QED
      BY <3>2
  <2>4. Len(versions) \in Nat /\ Len(versions) >= 1
    BY <1>a, <2>2 DEF PolicyOK
  <2>5. CASE Prune(Len(versions))
    <3>1. Oldest = {}
      BY <2>3, <2>5
    <3>2. Len(versions) = 1
      BY <2>2, <3>1, OldestExists
    <3> QED
      BY <2>2, <3>2, AccessAssumption DEF HasRoom
  <2>6. CASE ~Prune(Len(versions))
    BY <2>2, <2>4, <2>6, AccessAssumption DEF Prune, HasRoom
  <2> QED
    BY <2>5, <2>6
<1>5. CASE DeletePolicyVersion(w)
  <2>1. ~Reply(w)
    BY <1>a DEF Reply, NoRequest
  <2>2. PICK v \in req[w].doomed : Deletable(v) /\ RemoveVersion(v)
    BY <1>5, <2>1 DEF DeletePolicyVersion
  <2>3. Len(versions') \in 1 .. Limit - 1
    BY <1>5, <2>2, PolicyAfterRemoval DEF DeletePolicyVersion
  <2> QED
    BY <2>3 DEF HasRoom
<1>b. \A r : req' = [req EXCEPT ![w] = r] => r.pc = "version"
  BY <1>a
<1>6. ~Reply(w)
  BY <1>b DEF Reply, NoRequest
<1>7. ASSUME NEW pc \in PCs \ {"version"}, Goto(w, pc) PROVE FALSE
  BY <1>7, <1>a, GoneTo
<1>8. CASE Upsert(w)
  <2>1. req[w] \in Request /\ Outdated \in [Workers -> Request]
    BY <1>a, OutdatedRequests
  <2>2. ~CreateAccount(w) /\ ~UpdatePrincipalPolicy(w)
    <3>1. /\ [NoRequest EXCEPT !.pc = "role"].pc = "role"
          /\ [NoRequest EXCEPT !.pc = "role", !.copy = row, !.current = TRUE].pc = "role"
      BY DEF NoRequest
    <3> QED
      BY <1>b, <3>1 DEF CreateAccount, UpdatePrincipalPolicy
  <2>3. ~BuildPolicy(w)
    <3>1. ASSUME NEW pc PROVE [req[w] EXCEPT !.doc = template, !.pc = pc].pc = pc
      BY <2>1 DEF Request
    <3> DEFINE pc == IF req[w].copy.hash = template THEN "reattach" ELSE "policy"
    <3>2. pc # "version"
      OBVIOUS
    <3> HIDE DEF pc
    <3>3. req' # [req EXCEPT ![w] = [req[w] EXCEPT !.doc = template, !.pc = pc]]
      BY <1>b, <3>1, <3>2
    <3> QED
      BY <3>3 DEF BuildPolicy, pc
  <2>4. ~SaveRow(w)
    <3>1. /\ NoRequest.pc = "idle"
          /\ [req[w] EXCEPT !.pc = "saveAgain", !.copy = row', !.current = TRUE].pc
               = "saveAgain"
      BY <2>1 DEF NoRequest, Request
    <3>2. ASSUME NEW r, req' = [Outdated EXCEPT ![w] = r] PROVE req'[w] = r
      BY <2>1, <3>2
    <3>3. \A r \in {NoRequest,
                    [req[w] EXCEPT !.pc = "saveAgain", !.copy = row', !.current = TRUE]} :
            req' # [Outdated EXCEPT ![w] = r]
      BY <3>1, <3>2
    <3> QED
      BY <1>6, <3>3 DEF SaveRow
  <2>5. ~SaveRowAgain(w)
    BY <1>6, <1>a, <2>1 DEF SaveRowAgain, NoRequest
  <2>6. ~MergeRole(w) /\ ~CreatePolicy(w) /\ ~CreatePolicyVersion(w)
    BY <1>6, <1>7 DEF MergeRole, CreatePolicy, CreatePolicyVersion
  <2>7. ~AttachNewPolicy(w) /\ ~AttachOldPolicy(w)
    BY <1>6, <1>7 DEF AttachNewPolicy, AttachOldPolicy, AttachRolePolicy
  <2> QED
    BY <1>4, <1>5, <1>8, <2>2, <2>3, <2>4, <2>5, <2>6, <2>7 DEF Upsert
<1>9. CASE TakeDown(w)
  <2>1. req[w] \in Request /\ Outdated \in [Workers -> Request]
    BY <1>a, OutdatedRequests
  <2>2. ~DeleteAccount(w) /\ ~RemoveRow(w)
    BY <1>a, <2>1 DEF DeleteAccount, RemoveRow, NoRequest
  <2>3. ~ListAllVersions(w)
    <3>1. ASSUME NEW D PROVE [req[w] EXCEPT !.pc = "deleteAll", !.doomed = D].pc = "deleteAll"
      BY <2>1 DEF Request
    <3> QED
      BY <1>6, <1>b, <3>1 DEF ListAllVersions
  <2>4. ~DeleteOtherVersion(w)
    <3>1. ASSUME NEW D PROVE [req[w] EXCEPT !.doomed = D].pc = req[w].pc
      BY <2>1 DEF Request
    <3>2. req[w].pc # "version"
      OBVIOUS
    <3>3. ASSUME NEW D, req' = [req EXCEPT ![w] = [req[w] EXCEPT !.doomed = D]]
          PROVE  FALSE
      <4>1. [req[w] EXCEPT !.doomed = D].pc = "version"
        BY <1>b, <3>3, Zenon
      <4> QED
        BY <3>1, <3>2, <4>1
    <3>4. ASSUME NEW v, req' = [req EXCEPT ![w].doomed = @ \ {v}] PROVE FALSE
      <4>1. req' = [req EXCEPT ![w] = [req[w] EXCEPT !.doomed = req[w].doomed \ {v}]]
        BY <3>4, Zenon
      <4> QED
        BY <3>3, <4>1, Zenon
    <3> QED
      BY <1>6, <3>4 DEF DeleteOtherVersion
  <2>5. ~DetachRolePolicy(w) /\ ~DeletePolicy(w) /\ ~DeleteRole(w)
    BY <1>6, <1>7 DEF DetachRolePolicy, DeletePolicy, DeleteRole
  <2> QED
    BY <1>9, <2>2, <2>3, <2>4, <2>5 DEF TakeDown
<1> QED
  BY <1>3, <1>6, <1>8, <1>9 DEF Fail

\* What a step does to the number of versions, and who does it.
LEMMA RoomTaken ==
    ASSUME IInv, Next, HasRoom, ~HasRoom'
    PROVE  \E v \in Workers :
               \/ At(v, "version") /\ At(v, "attach")'
               \/ At(v, "deleteAll") /\ At(v, "deleteRole")'
<1> USE PlacesOfRequest DEF At
<1>a. req \in [Workers -> Request] /\ versions # <<>>
  BY DEF IInv, RequestsOK, HasRoom
<1>1. ASSUME NEW v \in Workers, CreatePolicyVersion(v), ~UNCHANGED versions
      PROVE  At(v, "version") /\ At(v, "attach")'
  BY <1>1, <1>a, GoneTo DEF CreatePolicyVersion
<1>2. ASSUME NEW v \in Workers, DeletePolicy(v), ~UNCHANGED versions
      PROVE  At(v, "deleteAll") /\ At(v, "deleteRole")'
  BY <1>2, <1>a, GoneTo DEF DeletePolicy
<1>3. ASSUME NEW v \in Workers, DeletePolicyVersion(v) \/ DeleteOtherVersion(v),
             ~UNCHANGED versions
      PROVE  FALSE
  <2>1. PICK x \in req[v].doomed :
          Deletable(x) /\ RemoveVersion(x) /\ default' = default
    BY <1>3 DEF DeletePolicyVersion, DeleteOtherVersion
  <2>2. Len(versions') \in 1 .. Limit - 1
    BY <2>1, PolicyAfterRemoval
  <2> QED
    BY <2>2 DEF HasRoom
<1>4. CASE UNCHANGED versions
  BY <1>4 DEF HasRoom
<1> QED
  BY <1>a, <1>1, <1>2, <1>3, <1>4
  DEF Next, Upsert, TakeDown, CreateAccount, UpdatePrincipalPolicy, MergeRole,
      BuildPolicy, CreatePolicy, ListPolicyVersions, AttachNewPolicy, AttachOldPolicy,
      AttachRolePolicy, SaveRow, SaveRowAgain, DeleteAccount, RemoveRow,
      DetachRolePolicy, ListAllVersions, DeleteRole, Fail, UploadTemplate, TouchRow, iam

\* Whatever executions overlap, die or find the template changed: pruning has
\* left room when the version is to be created, and only a version that another
\* execution has created since, or the removal of the policy, takes it away.
THEOREM RoomAfterPruning == Spec => RoomForVersion
<1>1. IInv /\ [Next]_vars =>
        [\A w \in Workers :
           /\ ~At(w, "version") /\ At(w, "version")' => HasRoom'
           /\ At(w, "version") /\ At(w, "version")' /\ HasRoom /\ ~HasRoom' =>
                \E v \in Workers \ {w} :
                    \/ At(v, "version") /\ At(v, "attach")'
                    \/ At(v, "deleteAll") /\ At(v, "deleteRole")']_vars
  <2> SUFFICES ASSUME IInv, Next, NEW w \in Workers
               PROVE  /\ ~At(w, "version") /\ At(w, "version")' => HasRoom'
                      /\ At(w, "version") /\ At(w, "version")' /\ HasRoom /\ ~HasRoom' =>
                           \E v \in Workers \ {w} :
                               \/ At(v, "version") /\ At(v, "attach")'
                               \/ At(v, "deleteAll") /\ At(v, "deleteRole")'
    OBVIOUS
  <2>1. ~At(w, "version") /\ At(w, "version")' => HasRoom'
    BY ComesToVersion
  <2>2. ASSUME At(w, "version"), At(w, "version")', HasRoom, ~HasRoom'
        PROVE  \E v \in Workers \ {w} :
                   \/ At(v, "version") /\ At(v, "attach")'
                   \/ At(v, "deleteAll") /\ At(v, "deleteRole")'
    BY <2>2, RoomTaken DEF At
  <2> QED
    BY <2>1, <2>2
<1> QED
  BY <1>1, AccessInvariant, PTL DEF Spec, RoomForVersion
-----------------------------------------------------------------------------
(***************************************************************************)
(* One execution at a time, and templates that do not come back: the hash  *)
(* in the record never hides that the policy is out of date.  Without the  *)
(* first assumption two refreshes that overlap leave another policy in     *)
(* force than the one whose hash is in the record; without the second a    *)
(* save that fails and a template that comes back do.                      *)
(***************************************************************************)

\* An account in the pool has its role and its policy.
Complete == row.exists => role /\ attached /\ versions # <<>>

\* The policy in force is not older than the record says, nor newer than the
\* template.
NotBehind ==
    \A d \in InForce : d <= template /\ (row.exists => row.hash <= d)

\* What an execution has at hand agrees with the record and the policy.
AtHand ==
    \A w \in Workers :
        /\ req[w].pc \in Rendered =>
              req[w].doc <= template /\ (row.exists => row.hash <= req[w].doc)
        /\ At(w, "attach") \/ At(w, "save") => req[w].doc \in InForce
        /\ At(w, "save") => role /\ attached
        /\ At(w, "saveAgain") => req[w].copy = row
        /\ req[w].pc \in RemovePCs \ {"removeRow"} => ~row.exists

SInv == Complete /\ NotBehind /\ AtHand

-----------------------------------------------------------------------------

LEMMA NaturalNumbers ==
    ASSUME IInv
    PROVE  /\ template \in Nat /\ row.hash \in Nat
           /\ InForce \subseteq Templates /\ Templates \subseteq Nat
<1>1. Templates \subseteq Nat
  BY AccessAssumption DEF Templates
<1>2. row.hash \in Templates \cup {0} /\ template \in Templates
  BY DEF IInv, RecordOK, Row
<1>3. InForce \subseteq Templates
  BY VersionFields DEF IInv, PolicyOK, InForce, Places
<1>4. template \in Nat
  BY <1>1, <1>2
<1>5. row.hash \in Nat
  <2>1. CASE row.hash = 0
    BY <2>1
  <2>2. CASE row.hash \in Templates
    BY <1>1, <2>2
  <2> QED
    BY <1>2, <2>1, <2>2
<1> QED
  BY <1>1, <1>3, <1>4, <1>5

LEMMA NaturalHashes ==
    ASSUME IInv, NEW w \in Workers
    PROVE  /\ template \in Nat /\ row.hash \in Nat
           /\ req[w].doc \in Nat
           /\ InForce \subseteq Templates /\ Templates \subseteq Nat
<1>1. req[w].doc \in Templates \cup {0}
  BY DEF IInv, RequestsOK, Request
<1> QED
  BY <1>1, NaturalNumbers

LEMMA SomethingInForce ==
    ASSUME IInv, versions # <<>>
    PROVE  InForce # {}
<1>1. PICK i \in Places : versions[i].id = default
  BY DEF IInv, PolicyOK, VersionsOK
<1> QED
  BY <1>1 DEF InForce

\* What changes neither the record nor the policy keeps them in step.
LEMMA PolicyUntouched ==
    ASSUME IInv, SInv, UNCHANGED <<row, template, versions, default>>,
           role => role', attached => attached'
    PROVE  Complete' /\ NotBehind' /\ InForce' = InForce
BY PolicyKept DEF IInv, SInv, Complete, NotBehind

LEMMA UpsertKeepsSInv ==
    ASSUME NEW w, Workers = {w}, IInv, SInv, Upsert(w)
    PROVE  SInv'
<1> USE PlacesOfRequest DEF At, Idle
<1>a. w \in Workers /\ \A u \in Workers : u = w
  OBVIOUS
<1>b. Complete /\ NotBehind /\ AtHand /\ req \in [Workers -> Request]
  BY DEF SInv, IInv, RequestsOK
<1>n. /\ template \in Nat /\ row.hash \in Nat /\ req[w].doc \in Nat
      /\ InForce \subseteq Nat
  BY <1>a, NaturalHashes
<1>1. CASE CreateAccount(w) \/ UpdatePrincipalPolicy(w)
  <2>1. req'[w].pc = "role"
    <3>1. CASE CreateAccount(w)
      BY <3>1, <1>a, <1>b DEF CreateAccount, NoRequest
    <3>2. CASE UpdatePrincipalPolicy(w)
      BY <3>2, <1>a, <1>b DEF UpdatePrincipalPolicy, NoRequest
    <3> QED
      BY <1>1, <3>1, <3>2
  <2>2. AtHand'
    BY <1>a, <2>1 DEF AtHand, RemovePCs
  <2> QED
    BY <1>1, <2>2, PolicyUntouched DEF CreateAccount, UpdatePrincipalPolicy, iam, SInv
<1>2. CASE MergeRole(w)
  <2>1. req'[w].pc = "build"
    BY <1>2, <1>a, <1>b DEF MergeRole, Goto
  <2>2. AtHand'
    BY <1>a, <2>1 DEF AtHand, RemovePCs
  <2> QED
    BY <1>2, <2>2, PolicyUntouched DEF MergeRole, SInv
<1>3. CASE BuildPolicy(w)
  <2>1. req'[w].pc \in {"policy", "reattach"} /\ req'[w].doc = template
    BY <1>3, <1>a, <1>b DEF BuildPolicy
  <2>2. row.exists => row.hash <= template
    <3> SUFFICES ASSUME row.exists PROVE row.hash <= template
      OBVIOUS
    <3>1. PICK d \in InForce : TRUE
      BY <1>b, SomethingInForce DEF Complete
    <3> QED
      BY <3>1, <1>b, <1>n DEF NotBehind
  <2>3. AtHand'
    BY <1>3, <1>a, <1>n, <2>1, <2>2 DEF BuildPolicy, AtHand, RemovePCs
  <2> QED
    BY <1>3, <2>3, PolicyUntouched DEF BuildPolicy, iam, SInv
<1>4. CASE CreatePolicy(w)
  <2>1. CASE versions = <<>>
    <3>1. ~row.exists /\ row' = row
      BY <1>4, <1>b, <2>1 DEF CreatePolicy, Complete
    <3>2. versions' = <<[id |-> 1, doc |-> req[w].doc]>> /\ default' = 1
      BY <1>4, <2>1 DEF CreatePolicy
    <3>3. Len(versions') = 1 /\ versions'[1] = [id |-> 1, doc |-> req[w].doc]
      BY <3>2
    <3>4. InForce' = {req[w].doc}
      BY <3>2, <3>3 DEF InForce, Places
    <3>5. req'[w].pc = "attach" /\ req'[w].doc = req[w].doc
      BY <1>4, <1>a, <1>b, <2>1, GoneTo DEF CreatePolicy
    <3>6. req[w].doc <= template /\ template' = template
      BY <1>4, <1>a, <1>b DEF CreatePolicy, AtHand
    <3>7. NotBehind'
      BY <3>1, <3>4, <3>6 DEF NotBehind
    <3>8. AtHand'
      BY <1>a, <3>1, <3>4, <3>5, <3>6 DEF AtHand, RemovePCs
    <3> QED
      BY <3>1, <3>7, <3>8 DEF SInv, Complete
  <2>2. CASE versions # <<>>
    <3>1. req'[w].pc = "list" /\ req'[w].doc = req[w].doc
      BY <1>4, <1>a, <1>b, <2>2, GoneTo DEF CreatePolicy
    <3>2. AtHand'
      BY <1>4, <1>a, <1>b, <3>1 DEF CreatePolicy, AtHand, RemovePCs
    <3> QED
      BY <1>4, <2>2, <3>2, PolicyUntouched DEF CreatePolicy, SInv
  <2> QED
    BY <2>1, <2>2
<1>5. CASE ListPolicyVersions(w)
  <2>1. Complete' /\ NotBehind' /\ UNCHANGED <<row, template, versions>>
    BY <1>5, PolicyUntouched DEF ListPolicyVersions, iam
  <2>2. CASE versions = <<>>
    <3>1. req'[w].pc = "idle"
      BY <1>5, <1>a, <1>b, <2>2 DEF ListPolicyVersions, Reply, NoRequest
    <3> QED
      BY <1>a, <2>1, <3>1 DEF SInv, AtHand, RemovePCs
  <2>3. CASE versions # <<>>
    <3> DEFINE D  == IF Prune(Len(versions)) THEN Oldest ELSE {}
               pc == IF D = {} THEN "version" ELSE "prune"
    <3>1. req' = [req EXCEPT ![w] = [req[w] EXCEPT !.doomed = D, !.pc = pc]]
      BY <1>5, <2>3 DEF ListPolicyVersions
    <3>2. pc \in {"version", "prune"}
      OBVIOUS
    <3> HIDE DEF D, pc
    <3>3. req'[w].pc = pc /\ req'[w].doc = req[w].doc
      BY <1>a, <1>b, <3>1 DEF Request
    <3>4. AtHand'
      BY <1>5, <1>a, <1>b, <2>1, <3>2, <3>3
      DEF ListPolicyVersions, AtHand, RemovePCs
    <3> QED
      BY <2>1, <3>4 DEF SInv
  <2> QED
    BY <2>2, <2>3
<1>6. CASE DeletePolicyVersion(w)
  <2>1. PICK v \in req[w].doomed :
          \/ /\ Deletable(v)
             /\ RemoveVersion(v)
             /\ req' = [req EXCEPT ![w] = [@ EXCEPT !.pc = "version", !.doomed = {}]]
          \/ /\ ~Deletable(v)
             /\ Reply(w)
             /\ UNCHANGED versions
    BY <1>6 DEF DeletePolicyVersion
  <2>2. UNCHANGED <<template, row, role, default, attached>> /\ At(w, "prune")
    BY <1>6 DEF DeletePolicyVersion
  <2>3. CASE Deletable(v) /\ RemoveVersion(v)
    <3>1. versions' # <<>> /\ InForce' = InForce
      BY <2>2, <2>3, PolicyAfterRemoval
    <3>2. req'[w].pc = "version" /\ req'[w].doc = req[w].doc
      <4>1. /\ req[w] \in Request
            /\ req'[w] = [req[w] EXCEPT !.pc = "version", !.doomed = {}]
        BY <1>a, <1>b, <2>1, <2>3
      <4> QED
        BY <4>1 DEF Request
    <3>3. AtHand'
      BY <1>a, <1>b, <2>2, <3>1, <3>2 DEF AtHand, RemovePCs
    <3> QED
      BY <1>b, <2>2, <3>1, <3>3 DEF SInv, Complete, NotBehind
  <2>4. CASE ~Deletable(v)
    <3>1. req'[w].pc = "idle"
      BY <1>a, <1>b, <2>1, <2>4 DEF Reply, NoRequest
    <3>2. AtHand'
      BY <1>a, <3>1 DEF AtHand, RemovePCs
    <3> QED
      BY <2>1, <2>2, <2>4, <3>2, PolicyUntouched DEF SInv
  <2> QED
    BY <2>1, <2>3, <2>4
<1>7. CASE CreatePolicyVersion(w)
  <2>1. CASE Reply(w) /\ UNCHANGED <<versions, default, template, row, role, attached>>
    <3>1. req'[w].pc = "idle"
      BY <1>a, <1>b, <2>1 DEF Reply, NoRequest
    <3>2. AtHand'
      BY <1>a, <3>1 DEF AtHand, RemovePCs
    <3> QED
      BY <2>1, <3>2, PolicyUntouched DEF SInv
  <2>2. CASE ~(Reply(w) /\ UNCHANGED <<versions, default, template, row, role, attached>>)
    <3> DEFINE v == CHOOSE i \in FreshIds : TRUE
    <3>1. /\ FreshIds # {} /\ Len(versions) < Limit
          /\ versions' = Append(versions, [id |-> v, doc |-> req[w].doc])
          /\ default' = v
          /\ Goto(w, "attach")
          /\ UNCHANGED <<template, row, role, attached>>
      BY <1>7, <2>2 DEF CreatePolicyVersion
    <3>2. v \in FreshIds
      BY <3>1
    <3>3. req[w].doc \in Templates
      BY <1>7, <1>a, <1>b, RenderedDoc DEF CreatePolicyVersion
    <3> HIDE DEF v
    <3>4. versions' # <<>> /\ InForce' = {req[w].doc}
      BY <3>1, <3>2, <3>3, IInvIsTypeOK, VersionCreated
    <3>5. req[w].doc <= template /\ (row.exists => row.hash <= req[w].doc)
      BY <1>7, <1>a, <1>b DEF CreatePolicyVersion, AtHand
    <3>6. req'[w].pc = "attach" /\ req'[w].doc = req[w].doc
      BY <1>a, <1>b, <3>1, GoneTo
    <3>7. AtHand'
      BY <1>a, <3>1, <3>4, <3>5, <3>6 DEF AtHand, RemovePCs
    <3>8. NotBehind'
      BY <3>1, <3>4, <3>5 DEF NotBehind
    <3> QED
      BY <1>b, <3>1, <3>4, <3>7, <3>8 DEF SInv, Complete
  <2> QED
    BY <2>1, <2>2
<1>8. CASE AttachNewPolicy(w) \/ AttachOldPolicy(w)
  <2>1. UNCHANGED <<template, row, role, versions, default>>
    BY <1>8 DEF AttachNewPolicy, AttachOldPolicy, AttachRolePolicy
  <2>2. attached => attached'
    BY <1>8, Zenon DEF AttachNewPolicy, AttachOldPolicy, AttachRolePolicy
  <2>3. Complete' /\ NotBehind' /\ InForce' = InForce
    BY <2>1, <2>2, PolicyUntouched
  <2>4. CASE Reply(w)
    <3>1. req'[w].pc = "idle"
      BY <1>a, <1>b, <2>4 DEF Reply, NoRequest
    <3> QED
      BY <1>a, <2>3, <3>1 DEF SInv, AtHand, RemovePCs
  <2>5. CASE ~Reply(w)
    <3>1. At(w, "attach") /\ Goto(w, "save") /\ role /\ attached'
      BY <1>8, <2>5 DEF AttachNewPolicy, AttachOldPolicy, AttachRolePolicy
    <3>2. req'[w].pc = "save" /\ req'[w].doc = req[w].doc
      BY <1>a, <1>b, <3>1, GoneTo
    <3>3. AtHand'
      BY <1>a, <1>b, <2>1, <2>3, <3>1, <3>2 DEF AtHand, RemovePCs
    <3> QED
      BY <2>3, <3>3 DEF SInv
  <2> QED
    BY <2>4, <2>5
<1>9. CASE SaveRow(w)
  <2>1. CASE Reply(w) /\ UNCHANGED row
    <3>1. req'[w].pc = "idle"
      BY <1>a, <1>b, <2>1 DEF Reply, NoRequest
    <3>2. AtHand'
      BY <1>a, <3>1 DEF AtHand, RemovePCs
    <3> QED
      BY <1>9, <2>1, <3>2, PolicyUntouched DEF SaveRow, iam, SInv
  <2>2. CASE ~(Reply(w) /\ UNCHANGED row)
    <3>1. /\ row' = [exists |-> TRUE, hash |-> req[w].doc]
          /\ UNCHANGED <<template, role, versions, default, attached>>
      BY <1>9, <2>2 DEF SaveRow, iam
    <3>2. /\ req'[w].pc \in {"idle", "saveAgain"}
          /\ req'[w].pc = "saveAgain" =>
                req'[w].copy = row' /\ req'[w].doc = req[w].doc
      <4>1. req' = [Outdated EXCEPT ![w] =
                      IF req[w].copy.exists THEN NoRequest
                      ELSE [req[w] EXCEPT !.pc = "saveAgain", !.copy = row',
                                          !.current = TRUE]]
        BY <1>9, <2>2 DEF SaveRow
      <4>2. req'[w] = IF req[w].copy.exists THEN NoRequest
                      ELSE [req[w] EXCEPT !.pc = "saveAgain", !.copy = row',
                                          !.current = TRUE]
        BY <4>1, <1>a, <1>b, OutdatedRequests
      <4>3. CASE req[w].copy.exists
        BY <4>2, <4>3 DEF NoRequest
      <4>4. CASE ~req[w].copy.exists
        <5>1. req'[w] = [req[w] EXCEPT !.pc = "saveAgain", !.copy = row',
                                       !.current = TRUE]
          BY <4>2, <4>4
        <5>2. req[w] \in Request
          BY <1>a, <1>b
        <5> QED
          BY <5>1, <5>2 DEF Request
      <4> QED
        BY <4>3, <4>4
    <3>3. /\ role /\ attached /\ req[w].doc \in InForce /\ req[w].doc <= template
      BY <1>9, <1>a, <1>b DEF SaveRow, AtHand
    <3>4. PICK k \in Places : versions[k].id = default /\ versions[k].doc = req[w].doc
      BY <3>3 DEF InForce
    <3>5. InForce = {req[w].doc}
      BY <3>4, OneInForce DEF IInv, PolicyOK
    <3>6. InForce' = InForce
      BY <3>1, PolicyKept DEF IInv
    <3>7. Complete'
      BY <3>1, <3>3, <3>4 DEF Complete, Places, IInv, PolicyOK
    <3>8. NotBehind'
      BY <1>n, <3>1, <3>3, <3>5, <3>6 DEF NotBehind
    <3>9. AtHand'
      BY <1>a, <1>n, <3>1, <3>2, <3>3 DEF AtHand, RemovePCs
    <3> QED
      BY <3>7, <3>8, <3>9 DEF SInv
  <2> QED
    BY <2>1, <2>2
<1>10. CASE SaveRowAgain(w)
  <2>1. row' = row /\ UNCHANGED iam /\ template' = template
    BY <1>10, <1>a, <1>b DEF SaveRowAgain, AtHand
  <2>2. req'[w].pc = "idle"
    BY <1>10, <1>a, <1>b, OutdatedRequests DEF SaveRowAgain, Reply, NoRequest
  <2>3. AtHand'
    BY <1>a, <2>2 DEF AtHand, RemovePCs
  <2> QED
    BY <2>1, <2>3, PolicyUntouched DEF iam, SInv
<1> QED
  BY <1>1, <1>2, <1>3, <1>4, <1>5, <1>6, <1>7, <1>8, <1>9, <1>10 DEF Upsert

LEMMA TakeDownKeepsSInv ==
    ASSUME NEW w, Workers = {w}, IInv, SInv, TakeDown(w)
    PROVE  SInv'
<1> USE PlacesOfRequest DEF At, Idle
<1>a. w \in Workers /\ \A u \in Workers : u = w
  OBVIOUS
<1>b. Complete /\ NotBehind /\ AtHand /\ req \in [Workers -> Request]
  BY DEF SInv, IInv, RequestsOK
<1>1. CASE DeleteAccount(w)
  <2>1. req'[w].pc = "removeRow"
    BY <1>1, <1>a, <1>b DEF DeleteAccount, NoRequest
  <2>2. AtHand'
    BY <1>a, <2>1 DEF AtHand
  <2> QED
    BY <1>1, <2>2, PolicyUntouched DEF DeleteAccount, iam, SInv
<1>2. CASE RemoveRow(w)
  <2>1. req'[w].pc = "detach"
    BY <1>2, <1>a, <1>b, OutdatedRequests DEF RemoveRow, NoRequest
  <2>2. ~row'.exists /\ template' = template /\ InForce' = InForce
    BY <1>2, PolicyKept DEF RemoveRow, NoRow, iam, IInv
  <2>3. AtHand'
    BY <1>a, <2>1, <2>2 DEF AtHand
  <2> QED
    BY <1>b, <2>2, <2>3 DEF SInv, Complete, NotBehind
<1>3. CASE ~row.exists /\ row' = row /\ template' = template
  <2>1. NotBehind' /\ AtHand'
    <3>1. CASE DetachRolePolicy(w)
      <4>1. req'[w].pc = "listAll"
        BY <3>1, <1>a, <1>b DEF DetachRolePolicy, Goto
      <4>2. InForce' = InForce
        BY <3>1, PolicyKept DEF DetachRolePolicy, IInv
      <4> QED
        BY <1>3, <1>a, <1>b, <4>1, <4>2 DEF AtHand, NotBehind
    <3>2. CASE ListAllVersions(w)
      <4>1. req'[w].pc \in {"idle", "deleteAll"}
        <5>1. CASE Reply(w)
          BY <1>a, <1>b, <5>1 DEF Reply, NoRequest
        <5>2. CASE ~Reply(w)
          <6>1. /\ req[w] \in Request
                /\ req'[w] = [req[w] EXCEPT !.pc = "deleteAll",
                                            !.doomed = VersionIds \ {default}]
            BY <3>2, <1>a, <1>b, <5>2 DEF ListAllVersions
          <6> QED
            BY <6>1 DEF Request
        <5> QED
          BY <5>1, <5>2
      <4>2. InForce' = InForce
        BY <3>2, PolicyKept DEF ListAllVersions, IInv, iam
      <4> QED
        BY <1>3, <1>a, <1>b, <4>1, <4>2 DEF AtHand, NotBehind
    <3>3. CASE DeleteOtherVersion(w)
      <4>1. PICK v \in req[w].doomed :
              \/ /\ Deletable(v)
                 /\ RemoveVersion(v)
                 /\ req' = [req EXCEPT ![w].doomed = @ \ {v}]
              \/ /\ ~Deletable(v)
                 /\ Reply(w)
                 /\ UNCHANGED versions
        BY <3>3 DEF DeleteOtherVersion
      <4>2. default' = default /\ At(w, "deleteAll")
        BY <3>3 DEF DeleteOtherVersion
      <4>3. InForce' = InForce
        <5>1. CASE Deletable(v) /\ RemoveVersion(v)
          BY <4>2, <5>1, PolicyAfterRemoval
        <5>2. CASE UNCHANGED versions
          BY <4>2, <5>2, PolicyKept DEF IInv
        <5> QED
          BY <4>1, <5>1, <5>2
      <4>4. req'[w].pc \in {"idle", "deleteAll"}
        <5>1. CASE Reply(w)
          BY <1>a, <1>b, <5>1 DEF Reply, NoRequest
        <5>2. CASE req' = [req EXCEPT ![w].doomed = @ \ {v}]
          BY <1>a, <1>b, <4>2, <5>2 DEF Request
        <5> QED
          BY <4>1, <5>1, <5>2
      <4> QED
        BY <1>3, <1>a, <1>b, <4>3, <4>4 DEF AtHand, NotBehind
    <3>4. CASE DeletePolicy(w)
      <4>1. req'[w].pc \in {"idle", "deleteRole"}
        <5>1. CASE Reply(w)
          BY <1>a, <1>b, <5>1 DEF Reply, NoRequest
        <5>2. CASE Goto(w, "deleteRole")
          BY <1>a, <1>b, <5>2, GoneTo
        <5> QED
          BY <3>4, <5>1, <5>2 DEF DeletePolicy
      <4>2. InForce' = InForce \/ InForce' = {}
        <5>1. CASE versions' = <<>>
          BY <5>1 DEF InForce, Places
        <5>2. CASE UNCHANGED <<versions, default>>
          BY <5>2, PolicyKept DEF IInv
        <5> QED
          BY <3>4, <5>1, <5>2 DEF DeletePolicy
      <4> QED
        BY <1>3, <1>a, <1>b, <4>1, <4>2 DEF AtHand, NotBehind
    <3>5. CASE DeleteRole(w)
      <4>1. req'[w].pc = "idle"
        BY <3>5, <1>a, <1>b DEF DeleteRole, Reply, NoRequest
      <4>2. InForce' = InForce
        BY <3>5, PolicyKept DEF DeleteRole, IInv
      <4> QED
        BY <1>3, <1>a, <1>b, <4>1, <4>2 DEF AtHand, NotBehind
    <3>6. CASE DeleteAccount(w) \/ RemoveRow(w)
      BY <1>3, <1>2, <3>6 DEF DeleteAccount, SInv
    <3> QED
      BY <3>1, <3>2, <3>3, <3>4, <3>5, <3>6 DEF TakeDown
  <2> QED
    BY <1>3, <2>1 DEF SInv, Complete
<1>4. \/ ~row.exists /\ row' = row /\ template' = template
      \/ DeleteAccount(w)
      \/ RemoveRow(w)
  <2>1. CASE DetachRolePolicy(w)
    BY <2>1, <1>a, <1>b DEF DetachRolePolicy, AtHand, RemovePCs
  <2>2. CASE ListAllVersions(w)
    BY <2>2, <1>a, <1>b DEF ListAllVersions, AtHand, RemovePCs
  <2>3. CASE DeleteOtherVersion(w)
    BY <2>3, <1>a, <1>b DEF DeleteOtherVersion, AtHand, RemovePCs
  <2>4. CASE DeletePolicy(w)
    BY <2>4, <1>a, <1>b DEF DeletePolicy, AtHand, RemovePCs
  <2>5. CASE DeleteRole(w)
    BY <2>5, <1>a, <1>b DEF DeleteRole, AtHand, RemovePCs
  <2> QED
    BY <2>1, <2>2, <2>3, <2>4, <2>5 DEF TakeDown
<1> QED
  BY <1>1, <1>2, <1>3, <1>4

LEMMA OthersKeepSInv ==
    ASSUME NEW w, Workers = {w}, ~Reverts, IInv, SInv,
           \/ Fail(w)
           \/ \E t \in Templates : UploadTemplate(t)
           \/ TouchRow
           \/ UNCHANGED vars
    PROVE  SInv'
<1> USE PlacesOfRequest DEF At, Idle
<1>a. w \in Workers /\ \A u \in Workers : u = w
  OBVIOUS
<1>b. Complete /\ NotBehind /\ AtHand /\ req \in [Workers -> Request]
  BY DEF SInv, IInv, RequestsOK
<1>n. /\ template \in Nat /\ row.hash \in Nat /\ req[w].doc \in Nat
      /\ InForce \subseteq Templates /\ Templates \subseteq Nat
  BY <1>a, NaturalHashes
<1>1. CASE Fail(w)
  <2>1. req'[w].pc = "idle"
    BY <1>1, <1>a, <1>b DEF Fail, Reply, NoRequest
  <2>2. AtHand'
    BY <1>a, <2>1 DEF AtHand, RemovePCs
  <2> QED
    BY <1>1, <2>2, PolicyUntouched DEF Fail, iam, SInv
<1>2. ASSUME NEW t \in Templates, UploadTemplate(t) PROVE SInv'
  <2>1. template' = t /\ template < t /\ t \in Nat /\ UNCHANGED <<row, iam, req>>
    BY <1>2, <1>n DEF UploadTemplate
  <2>2. InForce' = InForce
    BY <2>1, PolicyKept DEF iam, IInv
  <2>3. \A d \in Nat : d <= template => d <= template'
    BY <2>1, <1>n
  <2>4. NotBehind'
    BY <1>b, <1>n, <2>1, <2>2, <2>3 DEF NotBehind
  <2>5. AtHand'
    BY <1>a, <1>b, <1>n, <2>1, <2>2, <2>3 DEF AtHand, iam
  <2> QED
    BY <1>b, <2>1, <2>4, <2>5 DEF SInv, Complete, iam
<1>3. CASE TouchRow
  <2>1. req' = Outdated /\ UNCHANGED <<template, row, iam>>
    BY <1>3 DEF TouchRow
  <2>2. /\ req'[w].pc = req[w].pc /\ req'[w].doc = req[w].doc
        /\ req'[w].copy = req[w].copy
    <3>1. req[w] \in Request /\ req'[w] = [req[w] EXCEPT !.current = FALSE]
      BY <1>a, <1>b, <2>1 DEF Outdated
    <3> QED
      BY <3>1 DEF Request
  <2>3. InForce' = InForce
    BY <2>1, PolicyKept DEF iam, IInv
  <2>4. AtHand'
    BY <1>a, <1>b, <2>1, <2>2, <2>3 DEF AtHand, iam
  <2> QED
    BY <2>1, <2>4, PolicyUntouched DEF iam, SInv
<1>4. CASE UNCHANGED vars
  <2>1. InForce' = InForce
    BY <1>4, PolicyKept DEF vars, iam, IInv
  <2> QED
    BY <1>4, <1>b, <2>1 DEF vars, iam, SInv, Complete, NotBehind, AtHand
<1> QED
  BY <1>1, <1>2, <1>3, <1>4

LEMMA SyncInvariant ==
    ASSUME \E w : Workers = {w}, ~Reverts
    PROVE  Spec => [](IInv /\ SInv)
<1>1. PICK w : Workers = {w}
  OBVIOUS
<1>2. Init => SInv
  <2> SUFFICES ASSUME Init PROVE SInv
    OBVIOUS
  <2>1. ~row.exists /\ InForce = {}
    BY DEF Init, NoRow, InForce, Places
  <2>2. \A u \in Workers : req[u].pc = "idle"
    BY DEF Init, NoRequest
  <2> QED
    BY <2>1, <2>2, PlacesOfRequest DEF SInv, Complete, NotBehind, AtHand, At, RemovePCs
<1>3. IInv /\ SInv /\ [Next]_vars => SInv'
  BY <1>1, UpsertKeepsSInv, TakeDownKeepsSInv, OthersKeepSInv DEF Next
<1> QED
  BY <1>2, <1>3, AccessInvariant, PTL DEF Spec

\* With one execution at a time and no template that comes back, a record
\* whose hash is the template's belongs to an account that has its role, with
\* the policy of that template attached: MergePolicy is right to skip it.
THEOREM HashInSync ==
    ASSUME \E w : Workers = {w}, ~Reverts
    PROVE  Spec => []HashMeansInSync
<1>1. IInv /\ SInv => HashMeansInSync
  <2> SUFFICES ASSUME IInv, SInv, row.exists, row.hash = template
               PROVE  InSync
    BY DEF HashMeansInSync
  <2>1. role /\ attached /\ versions # <<>>
    BY DEF SInv, Complete
  <2>2. PICK k \in Places : versions[k].id = default
    BY <2>1 DEF IInv, PolicyOK, VersionsOK
  <2>3. versions[k].doc \in InForce
    BY <2>2 DEF InForce
  <2>4. versions[k].doc <= template /\ template <= versions[k].doc
    BY <2>3 DEF SInv, NotBehind
  <2>5. versions[k].doc \in Nat /\ template \in Nat
    BY <2>3, NaturalNumbers
  <2> QED
    BY <2>1, <2>2, <2>4, <2>5 DEF InSync, Places
<1> QED
  BY <1>1, SyncInvariant, PTL
=============================================================================
