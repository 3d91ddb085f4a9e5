-------------------------- MODULE PrincipalAccess ---------------------------
(***************************************************************************)
(* What pkg/accountmanager keeps in the IAM of one child account: the      *)
(* principal's role, the principal's policy in up to five versions, and    *)
(* the attachment of the one to the other.  POST /accounts sets them up,   *)
(* update_principal_policy brings them up to date whenever a lease was     *)
(* added, DELETE /accounts removes them.  The account's record remembers   *)
(* the hash of the template the policy was made from, so that a refresh    *)
(* that has nothing to do can be skipped.                                  *)
(*                                                                         *)
(* A template, the policy rendered from it and its hash are one number.    *)
(* LastModifiedOn is the flag "current" of a copy: nobody has written the  *)
(* record since it was read (LeasePoolLockProofs shows when it tells).     *)
(***************************************************************************)
EXTENDS Naturals, Sequences, FiniteSets

CONSTANTS
    Workers,      \* concurrent executions
    Limit,        \* versions IAM keeps of a policy (5)
    MaxTemplate,  \* bound: templates ever uploaded
    Reverts,      \* TRUE: an earlier template may be uploaded again
    Faults        \* TRUE: an AWS call may fail or a lambda may die

ASSUME AccessAssumption ==
    /\ IsFiniteSet(Workers)
    /\ Limit \in Nat \ {0, 1}
    /\ MaxTemplate \in Nat \ {0}
    /\ Reverts \in BOOLEAN
    /\ Faults \in BOOLEAN

VARIABLES
    template,  \* the object S3BucketName/S3PolicyKey
    row,       \* the account's record
    role,      \* the principal's role exists
    versions,  \* the versions of the principal's policy, oldest first
    default,   \* the default version; 0: there is no policy
    attached,  \* the policy is attached to the role
    req        \* what each worker is doing and has read

iam  == <<role, versions, default, attached>>
vars == <<template, row, iam, req>>

Templates == 1 .. MaxTemplate

\* Version IDs: enough that an ID is not used again while somebody knows it.
Ids == 1 .. Limit + Cardinality(Workers)

UpsertPCs == {"role", "build", "policy", "list", "prune", "version",
              "attach", "reattach", "save", "saveAgain"}
RemovePCs == {"removeRow", "detach", "listAll", "deleteAll", "deleteRole"}

Row     == [exists : BOOLEAN, hash : Templates \cup {0}]
Version == [id : Ids, doc : Templates]

PCs == {"idle"} \cup UpsertPCs \cup RemovePCs

\* The calls of an upsert that come after the policy was rendered.
Rendered == UpsertPCs \ {"role", "build"}

\* copy, current: the record as it was read, and whether that is still the
\* record; doc: the policy to be set; doomed: versions to be deleted.
Request ==
    {r \in [pc : PCs, copy : Row, current : BOOLEAN, doc : Templates \cup {0},
            doomed : SUBSET Ids] : r.pc \in Rendered => r.doc \in Templates}

NoRow     == [exists |-> FALSE, hash |-> 0]
NoRequest == [pc |-> "idle", copy |-> NoRow, current |-> FALSE, doc |-> 0,
              doomed |-> {}]

TypeOK ==
    /\ template \in Templates
    /\ row \in Row
    /\ role \in BOOLEAN
    /\ versions \in Seq(Version)
    /\ Len(versions) <= Limit
    /\ default \in Ids \cup {0}
    /\ default = 0 <=> versions = <<>>
    /\ attached \in BOOLEAN
    /\ req \in [Workers -> Request]

Init ==
    /\ template = 1
    /\ row = NoRow
    /\ role = FALSE
    /\ versions = <<>>
    /\ default = 0
    /\ attached = FALSE
    /\ req = [w \in Workers |-> NoRequest]

-----------------------------------------------------------------------------

Idle(w)     == req[w].pc = "idle"
At(w, pc)   == req[w].pc = pc
Goto(w, pc) == req' = [req EXCEPT ![w] = [@ EXCEPT !.pc = pc]]
Reply(w)    == req' = [req EXCEPT ![w] = NoRequest]

\* The record is written: the copies everybody else holds are old.
Outdated == [w \in Workers |-> [req[w] EXCEPT !.current = FALSE]]

\* The condition of the conditional put of the record.
RowUnchanged(w) == IF req[w].copy.exists THEN req[w].current ELSE ~row.exists

VersionIds == {versions[i].id : i \in 1 .. Len(versions)}

\* An administrator deploys another policy template.
UploadTemplate(t) ==
    /\ t # template
    /\ Reverts \/ t > template
    /\ template' = t
    /\ UNCHANGED <<row, iam, req>>

\* Any other handler saves the account's record (LeasePool); the hash goes
\* back as it was read.
TouchRow ==
    /\ row.exists
    /\ req' = Outdated
    /\ UNCHANGED <<template, row, iam>>

-----------------------------------------------------------------------------
(* account.Service.UpsertPrincipalAccess *)

\* POST /accounts, for an account that is not in the pool.
CreateAccount(w) ==
    /\ Idle(w)
    /\ ~row.exists
    /\ req' = [req EXCEPT ![w] = [NoRequest EXCEPT !.pc = "role"]]
    /\ UNCHANGED <<template, row, iam>>

\* A lease was added on the account.
UpdatePrincipalPolicy(w) ==
    /\ Idle(w)
    /\ row.exists
    /\ req' = [req EXCEPT ![w] = [NoRequest EXCEPT !.pc = "role", !.copy = row,
                                                   !.current = TRUE]]
    /\ UNCHANGED <<template, row, iam>>

\* "Already exists" is ignored.
MergeRole(w) ==
    /\ At(w, "role")
    /\ role' = TRUE
    /\ Goto(w, "build")
    /\ UNCHANGED <<template, row, versions, default, attached>>

\* Mutant: a policy that was made once is not made again.
BuildPolicyOnce(w) ==
    /\ At(w, "build")
    /\ req' = [req EXCEPT ![w] = [@ EXCEPT !.doc = template,
                 !.pc = IF req[w].copy.hash # 0 THEN "reattach" ELSE "policy"]]
    /\ UNCHANGED <<template, row, iam>>

\* Mutant: the rendered policy is not kept.
BuildPolicyAndDrop(w) ==
    /\ At(w, "build")
    /\ Goto(w, IF req[w].copy.hash = template THEN "reattach" ELSE "policy")
    /\ UNCHANGED <<template, row, iam>>

\* Render the template; if its hash is the record's, there is nothing to do
\* but to attach.
BuildPolicy(w) ==
    /\ At(w, "build")
    /\ req' = [req EXCEPT ![w] = [@ EXCEPT !.doc = template,
                 !.pc = IF req[w].copy.hash = template THEN "reattach" ELSE "policy"]]
    /\ UNCHANGED <<template, row, iam>>

CreatePolicy(w) ==
    /\ At(w, "policy")
    /\ \/ /\ versions = <<>>
          /\ versions' = <<[id |-> 1, doc |-> req[w].doc]>>
          /\ default' = 1
          /\ Goto(w, "attach")
       \/ /\ versions # <<>>
          /\ Goto(w, "list")
          /\ UNCHANGED <<versions, default>>
    /\ UNCHANGED <<template, row, role, attached>>

\* The version created first of those that are not the default.
Oldest ==
    {versions[i].id : i \in {j \in 1 .. Len(versions) :
        /\ versions[j].id # default
        /\ \A k \in 1 .. j - 1 : versions[k].id = default}}

\* Mutant: pruning starts one version too late.
PruneLate(n) == ~(n <= Limit /\ n > 1)

\* When versions are pruned ("if at 5 versions").
Prune(n) == ~(n < Limit /\ n > 1)

ListPolicyVersions(w) ==
    /\ At(w, "list")
    /\ \/ /\ versions = <<>>
          /\ Reply(w)
       \/ /\ versions # <<>>
          /\ LET doomed == IF Prune(Len(versions)) THEN Oldest ELSE {} IN
             req' = [req EXCEPT ![w] = [@ EXCEPT !.doomed = doomed,
                       !.pc = IF doomed = {} THEN "version" ELSE "prune"]]
    /\ UNCHANGED <<template, row, iam>>

\* IAM does not delete a version that is gone, nor the default one.
Deletable(v) == v \in VersionIds \ {default}

RemoveVersion(v) ==
    \E i \in 1 .. Len(versions) :
        /\ versions[i].id = v
        /\ versions' = [j \in 1 .. Len(versions) - 1 |->
                          versions[IF j < i THEN j ELSE j + 1]]

DeletePolicyVersion(w) ==
    /\ At(w, "prune")
    /\ \E v \in req[w].doomed :
        \/ /\ Deletable(v)
           /\ RemoveVersion(v)
           /\ req' = [req EXCEPT ![w] = [@ EXCEPT !.pc = "version", !.doomed = {}]]
        \/ /\ ~Deletable(v)
           /\ Reply(w)
           /\ UNCHANGED versions
    /\ UNCHANGED <<template, row, role, default, attached>>

\* IDs nobody knows of; Ids is large enough for there always to be one.
FreshIds ==
    Ids \ (VersionIds \cup UNION {req[w].doomed : w \in Workers})

\* Mutant: the new version is not made the default (SetAsDefault).
CreatePolicyVersionOnly(w) ==
    /\ At(w, "version")
    /\ versions # <<>>
    /\ Len(versions) < Limit
    /\ LET v == CHOOSE i \in FreshIds : TRUE
       IN versions' = Append(versions, [id |-> v, doc |-> req[w].doc])
    /\ Goto(w, "attach")
    /\ UNCHANGED <<template, row, role, default, attached>>

\* The hash is set in the copy even when this fails, but a copy that goes
\* with an error is not saved.
CreatePolicyVersion(w) ==
    /\ At(w, "version")
    /\ \/ /\ versions # <<>>
          /\ Len(versions) < Limit
          /\ FreshIds # {}
          /\ LET v == CHOOSE i \in FreshIds : TRUE IN
             /\ versions' = Append(versions, [id |-> v, doc |-> req[w].doc])
             /\ default' = v
          /\ Goto(w, "attach")
       \/ /\ versions = <<>> \/ Len(versions) >= Limit
          /\ Reply(w)
          /\ UNCHANGED <<versions, default>>
    /\ UNCHANGED <<template, row, role, attached>>

\* A policy or a role that is gone is an error.
AttachRolePolicy(w, pc, next) ==
    /\ At(w, pc)
    /\ \/ /\ role /\ versions # <<>>
          /\ attached' = TRUE
          /\ next
       \/ /\ ~(role /\ versions # <<>>)
          /\ Reply(w)
          /\ UNCHANGED attached
    /\ UNCHANGED <<template, row, role, versions, default>>

AttachNewPolicy(w) == AttachRolePolicy(w, "attach", Goto(w, "save"))
AttachOldPolicy(w) == AttachRolePolicy(w, "reattach", Reply(w))

\* The hash has changed: save the record.  Create saves a new one again.
SaveRow(w) ==
    /\ At(w, "save")
    /\ \/ /\ RowUnchanged(w)
          /\ row' = [exists |-> TRUE, hash |-> req[w].doc]
          /\ req' = [Outdated EXCEPT ![w] =
                       IF req[w].copy.exists THEN NoRequest
                       ELSE [req[w] EXCEPT !.pc = "saveAgain", !.copy = row',
                                           !.current = TRUE]]
       \/ /\ ~RowUnchanged(w)
          /\ Reply(w)
          /\ UNCHANGED row
    /\ UNCHANGED <<template, iam>>

SaveRowAgain(w) ==
    /\ At(w, "saveAgain")
    /\ \/ /\ RowUnchanged(w)
          /\ row' = req[w].copy
          /\ req' = [Outdated EXCEPT ![w] = NoRequest]
       \/ /\ ~RowUnchanged(w)
          /\ Reply(w)
          /\ UNCHANGED row
    /\ UNCHANGED <<template, iam>>

-----------------------------------------------------------------------------
(* account.Service.Delete and DeletePrincipalAccess *)

DeleteAccount(w) ==
    /\ Idle(w)
    /\ row.exists
    /\ req' = [req EXCEPT ![w] = [NoRequest EXCEPT !.pc = "removeRow"]]
    /\ UNCHANGED <<template, row, iam>>

RemoveRow(w) ==
    /\ At(w, "removeRow")
    /\ row' = NoRow
    /\ req' = [Outdated EXCEPT ![w] = [NoRequest EXCEPT !.pc = "detach"]]
    /\ UNCHANGED <<template, iam>>

\* "No such entity" is ignored ...
DetachRolePolicy(w) ==
    /\ At(w, "detach")
    /\ attached' = FALSE
    /\ Goto(w, "listAll")
    /\ UNCHANGED <<template, row, role, versions, default>>

\* ... here it is not.
ListAllVersions(w) ==
    /\ At(w, "listAll")
    /\ \/ /\ versions = <<>>
          /\ Reply(w)
       \/ /\ versions # <<>>
          /\ req' = [req EXCEPT ![w] = [@ EXCEPT !.pc = "deleteAll",
                                                 !.doomed = VersionIds \ {default}]]
    /\ UNCHANGED <<template, row, iam>>

DeleteOtherVersion(w) ==
    /\ At(w, "deleteAll")
    /\ \E v \in req[w].doomed :
        \/ /\ Deletable(v)
           /\ RemoveVersion(v)
           /\ req' = [req EXCEPT ![w].doomed = @ \ {v}]
        \/ /\ ~Deletable(v)
           /\ Reply(w)
           /\ UNCHANGED versions
    /\ UNCHANGED <<template, row, role, default, attached>>

\* IAM keeps a policy that is attached or has further versions.
DeletePolicy(w) ==
    /\ At(w, "deleteAll")
    /\ req[w].doomed = {}
    /\ \/ /\ ~attached /\ Len(versions) <= 1
          /\ versions' = <<>>
          /\ default' = 0
          /\ Goto(w, "deleteRole")
       \/ /\ attached \/ Len(versions) > 1
          /\ Reply(w)
          /\ UNCHANGED <<versions, default>>
    /\ UNCHANGED <<template, row, role, attached>>

\* IAM keeps a role that has a policy attached.
DeleteRole(w) ==
    /\ At(w, "deleteRole")
    /\ role' = (role /\ attached)
    /\ Reply(w)
    /\ UNCHANGED <<template, row, versions, default, attached>>

-----------------------------------------------------------------------------

\* An AWS call fails or the lambda dies; nothing is undone.
Fail(w) ==
    /\ Faults
    /\ ~Idle(w)
    /\ Reply(w)
    /\ UNCHANGED <<template, row, iam>>

Upsert(w) ==
    \/ CreateAccount(w) \/ UpdatePrincipalPolicy(w)
    \/ MergeRole(w) \/ BuildPolicy(w) \/ CreatePolicy(w)
    \/ ListPolicyVersions(w) \/ DeletePolicyVersion(w) \/ CreatePolicyVersion(w)
    \/ AttachNewPolicy(w) \/ AttachOldPolicy(w)
    \/ SaveRow(w) \/ SaveRowAgain(w)

TakeDown(w) ==
    \/ DeleteAccount(w) \/ RemoveRow(w) \/ DetachRolePolicy(w)
    \/ ListAllVersions(w) \/ DeleteOtherVersion(w)
    \/ DeletePolicy(w) \/ DeleteRole(w)

Next ==
    \/ \E w \in Workers : Upsert(w) \/ TakeDown(w) \/ Fail(w)
    \/ \E t \in Templates : UploadTemplate(t)
    \/ TouchRow

Spec == Init /\ [][Next]_vars

\* An execution goes on or dies.  Leases go on being added, and a call to AWS
\* that is made again and again succeeds now and then.
Fairness ==
    \A w \in Workers :
        /\ WF_vars(~Idle(w) /\ (Upsert(w) \/ TakeDown(w) \/ Fail(w)))
        /\ SF_vars(UpdatePrincipalPolicy(w))
        /\ SF_vars(MergeRole(w))
        /\ SF_vars(BuildPolicy(w))
        /\ SF_vars(CreatePolicy(w))
        /\ SF_vars(ListPolicyVersions(w))
        /\ SF_vars(DeletePolicyVersion(w))
        /\ SF_vars(CreatePolicyVersion(w))
        /\ SF_vars(AttachNewPolicy(w))
        /\ SF_vars(AttachOldPolicy(w))

FairSpec == Spec /\ Fairness

-----------------------------------------------------------------------------
(* Properties *)

Quiet == \A w \in Workers : Idle(w)

\* The principal has the role, with the policy of the present template.
InSync ==
    /\ role /\ attached
    /\ \E i \in 1 .. Len(versions) :
        versions[i].id = default /\ versions[i].doc = template

\* The record never says that nothing is to be done when something is:
\* MergePolicy skips a policy whose hash is the record's.
HashMeansInSync ==
    Quiet /\ row.exists /\ row.hash = template => InSync

\* The policy is in being and takes one more version.
HasRoom == Len(versions) \in 1 .. Limit - 1

\* However many refreshes and removals overlap: prunePolicyVersions leaves room
\* for the version that is created next, whatever has been created since it
\* listed them; and between pruning and creating, only the version another
\* execution has created or the removal of the policy takes that room away.
RoomForVersion ==
    [][\A w \in Workers :
         /\ ~At(w, "version") /\ At(w, "version")' => HasRoom'
         /\ At(w, "version") /\ At(w, "version")' /\ HasRoom /\ ~HasRoom' =>
              \E v \in Workers \ {w} :
                  \/ At(v, "version") /\ At(v, "attach")'
                  \/ At(v, "deleteAll") /\ At(v, "deleteRole")']_vars

\* When no further template comes, the account's principal gets the policy of
\* the last one and keeps it, whatever refreshes die half way.
RefreshCatchesUp == <>[](row.exists => InSync)
=============================================================================
