# A TLA+ model of the DCE control plane

DCE (Disposable Cloud Environment) leases child AWS accounts to users for a
limited time and budget. This directory holds TLA+ modules that model the part
of it that has to be right when things happen at the same time or fail half
way: the pool of accounts, the leases on them, the resets between two leases,
the scheduled sweeps, the budget check and what it is computed from, and the
reset of an account seen from inside. TLC checks the modules on small instances;
TLAPS proves most safety properties for every value of the constants.

All of DCE is stateless functions (Go lambdas and one CodeBuild program) around
two DynamoDB tables. There is no process to be in the wrong state; what can go
wrong lies between two calls to AWS, when another function runs. So the models
make one action of each call that reads or writes shared state, and let the
calls of different executions interleave.

## 1. Inventory

Paths are relative to `src/`.

| Component | State | Operations | Hard because |
|---|---|---|---|
| **Leases API** `cmd/lambda/leases`, `pkg/lease` | Leases table, Accounts table | create (list Ready accounts, find the old lease, check for an active one, save, publish, mark the account Leased), delete (write Inactive, reset the account), get, list | five to six calls with nothing that undoes the earlier ones; copies read early are written late |
| **Accounts API** `cmd/lambda/accounts`, `pkg/account` | Accounts table, the child account's IAM | create, update, delete, reset, get, list | whole records are read, changed and written back; delete checks a copy |
| **Account and Lease tables** `pkg/data` | rows with `LastModifiedOn` | conditional put, unconditional delete, one-page queries | optimistic locking with whole seconds; filter after limit |
| **Old database layer** `pkg/db` | the same rows | `TransitionLeaseStatus`, `TransitionAccountStatus` (conditional on the status) | two ways of locking on one table |
| **Budget and expiry check** `cmd/lambda/update_lease_status` | both tables, Usage table | cost of today, spend of lease and principal, end lease and checkout, mail | invoked asynchronously with a copy of the lease, perhaps twice, perhaps late |
| **Lease status fan-out** `cmd/lambda/fan_out_update_lease_status` | - | pages through the active leases, invokes the check for each | paging while leases come and go |
| **Reset queue** `cmd/lambda/populate_reset_queue`, `process_reset_queue`, `modules/reset.tf` | SQS queue and dead-letter queue | six-hourly sweep of NotReady accounts, start of a build per message | at-least-once delivery, several messages for one account |
| **Reset build** `cmd/codebuild/reset`, `pkg/reset` | CodeBuild run | nuke with retries and time-out, NotReady -> Ready, publish | builds of one account overlap; hours pass inside a build |
| **Principal policy refresh** `cmd/lambda/update_principal_policy`, `pkg/accountmanager` | IAM policy and its versions, the hash in the account's row | on "lease added": merge role, policy, attachment, save the account | saves the whole row that it read before the IAM calls |
| **Usage cache** `pkg/usage` | Usage table, one record per principal and day | put, queries by range and by principal | one query per day, each in pages |
| **Spend calculation** `update_lease_status/spend.go`, `pkg/budget` | Usage table | cost per day, sums | day boundaries, errors turned into 0, one record for all leases of a principal on a day |
| **Budget notification** `update_lease_status/notification.go`, `pkg/email` | - | choice of a threshold, mail | two budgets, one mail |
| **Events** `pkg/event` | SNS, SQS | publish to the publishers of an event | stops at the first that fails |
| **Lease login** `cmd/lambda/lease_auth` | STS sessions | hand out credentials for an active lease | sessions outlive the lease |
| Usage API, users and roles, pool metrics, credentials page, configuration, role manager, helpers, Terraform | none of their own | reads, checks, wiring | - |

How they interact: API handlers call the account and lease services, which
write the tables. `POST /leases` publishes *lease added*, which triggers the
policy refresh. `DELETE /leases`, `POST` and `DELETE /accounts` and the sweep
put a message in the reset queue; `process_reset_queue` starts a build for each
message; the build moves the account to Ready. The fan-out lists Active leases
and invokes the budget check, which ends leases and takes accounts out of
Leased. The check asks Cost Explorer for today's cost, puts it into the Usage
table and reads the days before from there; `POST /leases` reads the same table.
No component calls back; they meet in the rows of the tables, and in the child
account itself, where tenants and nukes work with credentials that outlive what
they were given for.

What would make each of them correct:

- *Accounts and leases*: an account is checked out of the Ready pool only, and
  once; a lease ends once; an active lease is not overwritten; a removed account
  stays removed; nobody writes back a status that has changed since it was read.
- *Between calls*: an account is Leased exactly while someone holds an active
  lease on it; a Ready account is clean.
- *Reset*: a NotReady account becomes Ready in the end; an account is not nuked
  under a new lease; only a build makes it Ready.
- *Sweeps*: each record that has the status all along is handled, once.
- *Usage queries*: what is returned is complete and counted once, and something
  is returned.
- *Principal access*: the policy in force is that of the template whenever the
  record's hash says so; there is room for a new version; a refresh that died is
  made good by the next one.
- *Spend*: a lease is charged what its account has cost since it began, no more;
  it ends when that is over its budget and when its time is up; the principal's
  budget covers all its leases; a lease that is ended for a budget is told of.
- *Nuke*: one at a time, never under a new tenant; an attempt that failed or
  timed out is not taken for one that succeeded; a build ends.

`PROJECT.json` has the full list of components and of hazards with their lines.

## 2. The modules

| Module | What it is |
|---|---|
| `PoolTables` | the Accounts and Leases tables, the clock, the writes the code may make |
| `LeasePool` | every handler, build and message on these tables (extends `PoolTables`) |
| `PoolLifecycle` | the abstract specification: the life of one account and one lease |
| `LeasePoolProps` | the properties of `LeasePool`, its refinement of `PoolLifecycle` and of `AccountReset`, fairness |
| `MCLeasePool` | the instances for TLC |
| `LeasePoolProofs`, `LeasePoolLockProofs`, `LeasePoolTenantProofs` | theorems about `LeasePool` |
| `PageSweep`, `PageSweepProofs` | the two sweeps, and theorems |
| `UsageQuery`, `UsageQueryProofs` | the usage queries, and theorems |
| `BudgetCheck` | the budget and expiry check: spend, decision, end, mail |
| `BudgetProps`, `MCBudgetCheck` | its properties and fairness; its instance for TLC |
| `BudgetProofs` | theorems about it |
| `AccountReset` | the abstract specification: what a reset promises to the pool |
| `ResetBuild`, `ResetBuildProofs` | the reset of one account from inside, and theorems |
| `PrincipalAccess` | role, policy versions and policy hash of one account |
| `PrincipalAccessProofs` | theorems about it |

An operator whose comment begins with "Mutant:" is a plausible bug in the
definition that follows it. It is not part of the model; it is put in that
definition's place to see that the property it belongs to notices.

### PoolTables and LeasePool

State and code:

| Variable | In the code |
|---|---|
| `account[a]` | the row of the Accounts table: status and `LastModifiedOn` |
| `lease[a][p]` | the row of the Leases table under AccountId, PrincipalId: ID, status, reason, `LastModifiedOn` |
| `shownAccount[a]`, `shownLease[a][p]` | what a replica or an index that is behind still shows of these rows |
| `now`, `issued` | `time.Now().Unix()`, lease IDs (`uuid.New()`) |
| `req[w]` | one execution of a handler: where it stands and the copies it has read |
| `queue`, `granted`, `invoked` | messages in the reset queue, *lease added* notifications, asynchronous invocations of the budget check |
| `build[b]` | a CodeBuild run |
| `dirty` | accounts with resources made since they were last nuked |

A row's `lastMod` is 0 when the row does not exist, and a nil `LastModifiedOn`
in a request is 0 too. So `attribute_not_exists(...)` and `LastModifiedOn =
:prev` are both `account[a].lastMod = prev`.

Actions and code, in the order of the calls:

- `POST /leases`: `CreateLease` (list Ready accounts, take the first),
  `LookupInactiveLease` and `CheckActiveLease` (each sees one page),
  `SaveLease`, `PublishLeaseCreate`, `MarkLeased`. `account.Service.Update`
  merges the listed record, old `LastModifiedOn` included, over a fresh read, so
  what is written and the condition are those of the listed record.
- `DELETE /leases`: `DeleteLease`, `DestroyLease` (keeps the old
  `LastModifiedOn`), `ResetGet`, `ResetSave`, `ResetSend`.
- `POST /accounts`: `CreateAccount`, `SaveNewAccount` (inside
  `UpsertPrincipalAccess`), `SaveNewAccountAgain`, `ResetSend`.
- `PUT /accounts` and the policy refresh: `UpdateAccount` or
  `UpdatePrincipalPolicy` (the read), `SaveTouchedAccount`.
- `DELETE /accounts`: `DeleteAccount` (the check), `RemoveAccount`, `ResetSend`.
- budget check: `FanOut`, `UpdateLeaseStatus`, `ExpireLease`, `ExpireAccount`;
  `IgnoreLeaseStatus` when the lease goes on.
- resets: `PopulateResetQueue`, `StartBuild`, `DeadLetter`, `Nuke`,
  `BuildFails`, `FinishBuild`.
- `UseAccount`: a principal logs in (`lease_auth`) and makes resources.
- `Fail`: an AWS call returns an error or the execution dies; the handler stops
  where it is and nothing is undone. That is what the code does with an error
  everywhere but in `ExpireLease`, which goes on to the account.

Abstractions, each of which a reader should keep in mind:

- A stamp is taken at the time of its write. In the code `time.Now()` comes a
  few instructions earlier.
- `SecondsApart = TRUE` lets no two stamped writes fall into the same second.
  The lock needs that, and the code does not see to it: `LastModifiedOn` has
  whole seconds. With `SecondsApart = FALSE` in `pool_all.cfg` TLC finds
  `TouchKeepsStatus` violated, by a policy refresh that read the account before
  it was leased and saves it in the same second, although
  `pkg/data/account.go:69` says it is refused. `pool_liveness` does without it.
- A read and what follows it are separate actions, so every read may be old by
  the time it is used. With `Lags = TRUE` it may be old when it is made: a
  read returns the row or what `shownAccount`, `shownLease` has of it, and a
  query may see some rows late and others not. Each of these catches up with the
  table by itself, at any time (`CatchUp`). One such copy stands for all replicas
  and indexes of a row. The code sets `ConsistentRead` from
  `USE_CONSISTENT_READS`, false unless set, which no Terraform file does; reads
  of an index cannot be consistent whatever it says. So `Lags = FALSE` is a
  behaviour of DynamoDB in which nothing happens to be behind; the runs
  that ask about interleaving take it. Lagging reads are in `pool_liveness` and in
  every theorem about the pool but `SecondLeaseNeedsTwoSaves`; `pool_all` with both
  would be too large for TLC.
- Whether a lease has expired or is over a budget is a free choice, and its
  three reasons are one, "Expired". `BudgetCheck` has the decision.
- The nuke is one step. `ResetBuild` has what happens inside. That the two agree,
  while one reset of an account is under way, is `RefinesAccountReset` of both
  modules: they implement the same `AccountReset`.
- Validation, authorisation and the principal's budget rule only decide whether
  a call is refused; a refused call is a call that is not made.
- A query by status may return its accounts in any order, as the order within an
  index partition is DynamoDB's.
- The pool starts with accounts that are unknown or have had their first reset.

### PoolLifecycle

An account moves Absent -> NotReady -> Ready -> Leased -> NotReady and may be
taken back from Ready or removed at any time; a lease is granted in the place of
none or of an ended one and ends once. No handlers, copies, stamps or messages.
`LeasePoolProps!RefinesLifecycle` says that `LeasePool` implements it, with the
statuses and the leases (without stamps) as the refinement mapping. What the
abstract specification leaves out is what the code does not promise: that an
account is Leased exactly while a lease on it is active, and clean when Ready.

### PageSweep

`Sweep` selects between `populate_reset_queue` and
`fan_out_update_lease_status`. `Start` is the schedule; `ListPage` asks for a
page and keeps the last evaluated key in `next`; `Send` and `SendFails` handle
one record; `NextPage` decides whether to go on. The account service goes on
while there is a key; the lease service goes on only if the query names a
principal, which the fan-out's does not (`MorePages`). `Enter` and `Leave` are
the other handlers moving records in and out of the index. `stayed` remembers
the records that never left, which are the ones a sweep owes.

A record is its place in the index. The order of an index is fixed while a
sweep runs: a record that is updated leaves and enters.

### UsageQuery

`GetUsageByDateRange` asks for a day at a time, and for further pages of a day
in an inner loop; `GetUsageByPrincipal` asks for one record a day. `PutUsage` is
the budget check of another lease writing today's record. `before` remembers
what was in the table when the call began. The inner loop declares a `resp` of
its own (`usage.go:88`), so its condition and its start key are those of the
first page for ever: `QueryNextPage` leaves `resp` and `call` as they are.

### BudgetCheck

`update_lease_status` with the Usage table and the bills of the accounts. Time
is counted in days, as Cost Explorer and the Usage table do.

| Variable | In the code |
|---|---|
| `day`, `bill[a][d]` | the date; what account `a` has cost by the end of day `d` |
| `lease[a][p]` | the Leases table: the day an active lease began (`LeaseStatusModifiedOn`), 0 if none |
| `usage[d][p]` | the Usage table, keyed by `StartDate` and `PrincipalId`: account and cost |
| `stale` | what a read that is not consistent may still find of today |
| `invoked`, `check[w]` | invocations with the listed lease; executions of the lambda with their sums |
| `stored` | remembers the greatest cost that was put for a principal, an account and a day since the lease began |

An execution does `Begin` (look-ups), `CalculateTotalSpend` (Cost Explorer, of
today, the whole day), `PutUsage` or `PutUsageFails`, `AddLeaseDay` for each
day from the lease's first to yesterday, `BeginPrincipalSpend` (asks for the time
again), `AddPrincipalDay` for each day of the period including today, `Decide`,
`ExpireLease` or `ExpireLeaseFails`, `SendMail`. `Fail` ends it anywhere, and
Lambda may invoke it once more.

- One read of a day is one action; its pages are `UsageQuery`'s matter.
- Amounts are whole numbers. Sums of floats are not exact, which no property
  depends on.
- `CreateLease` takes the checks of `POST /leases` in one step: an account with
  one tenant, a principal with one lease (`LeasePool` has what interleaving does
  to these) and a principal that is not over its budget.
- `stored` starts at 0 when the principal leases the account again on a day: the
  cost of the earlier lease is part of what the account has cost that day, and
  is counted by Cost Explorer with it.
- `Spend` adds to a day up to `CostDelay` days later.
- A period is `Period` days counted from the first; weeks from Sunday and
  calendar months (`getBeginningOfCurrentBillingPeriod`) are such periods.
  `docs/howto.md:654` says that only WEEKLY is supported; any other value is
  taken for monthly.
- Records are kept longer than a period and a lease last (`USAGE_TTL`, thirty
  days by default): none vanishes in the model.

### ResetBuild

The reset of one account: the CodeBuild process (`phase`, `attempt`), the nuke
that each attempt starts (`nuke[i]`, a goroutine), the account's `status`, the
resources in it and who `made` them, and the `session`s of the tenant and of
`former` tenants.

- `StartBuild`, `NewNuker` (assumes the admin role, starts the goroutine),
  `NukeAccount` (the channel answers), `TimeOut`, `UpdateDBPostReset`,
  `Publish`. After a failed attempt `Retry`; after the third the process ends
  (`Exit`), and so do the goroutines it has started.
- `Scan`, `Remove`, `NukeSucceeds`, `NukeFails`: a nuke by itself, which no
  one stops when its attempt has timed out.
- `FindLease`, `AssumePrincipalRole`: `POST /leases/{id}/auth`. The lease may end
  between the two; the credentials last `SessionLength` whatever happens.
- `Tick`: time passes for sessions and timers, at any moment. An hour is two
  ticks.

Assumptions about what is not in `src/`: a scan of aws-nuke finds all that may
be removed; credentials from `AssumeRole` without a duration last an hour, which
is the length of the wait in `NukeAccount`; the role is assumed when the wait
begins (in the code it is somewhat earlier, so the credentials end earlier); a
call that is in flight when they end is not looked at. One build at a time
works on the account: overlapping builds are in `LeasePool`.

A resource is "tenant" while the lease it was made under is active, then "old";
"late" is what is made with credentials of a lease that has ended.

### AccountReset

The same account as the pool sees it: it is given out, used, taken back, and
given out again when nothing of its former tenants is left. No attempts, nukes,
timers or sessions. `ResetBuild!RefinesAccountReset` says that `ResetBuild`
implements it: `held` is what is "tenant", `left` what is "old", and
`resetting` that the build is between its first attempt and the update of the
account. `LeasePoolProps!RefinesAccountReset` says that, for each account, so do
the handlers, the queue and the builds of `LeasePool`: the account is given out
and taken back with its lease (`GivenOut`; the row follows some calls later), what is
`dirty` is `held` under a lease and `left` without one, and `resetting` that some
build has the account. It does so where the tables agree, nothing is shown too long
and an account is made Ready by the last of its resets (section 4); `pool_serial`
meets all three. `AccountReset` has the three steps a build does not see: an
account joins the pool (`Join`), one that nobody holds is removed, which asks for a last
reset (`Retire`), and a Ready one is sent to be reset once more (`Recall`), as a second
`DELETE` of the same lease does that reads the account when it is Ready again. TLC takes no
property quantified over instances, so it is written as the conjunction of what
they say of the initial states and of each step; `PromiseOfEach` proves that
`AccountReset(a)!Spec` follows for every account. The abstract specification leaves out what the code does not promise:
that nobody makes anything with credentials of a lease that has ended ("late"
maps to nothing), and that a reset succeeds.

### PrincipalAccess

One child account: its row in the Accounts table (`row`, as far as existence and
`PrincipalPolicyHash` go), the role, the policy's `versions` with the `default`
one, the attachment, and the template in S3. `LeasePool` has the same handlers
as one read and one save of the row; this module has the calls to IAM between
the two.

- `POST /accounts` (`CreateAccount`) and the refresh (`UpdatePrincipalPolicy`)
  run `UpsertPrincipalAccess`: `MergeRole`, `BuildPolicy` (render, compare the
  hash), `CreatePolicy`, `ListPolicyVersions` and `DeletePolicyVersion`
  (`prunePolicyVersions`), `CreatePolicyVersion`, `AttachNewPolicy` or, when the
  hash was equal, `AttachOldPolicy`, `SaveRow` when the hash has changed, and
  `SaveRowAgain` for a new account.
- `DELETE /accounts` (`DeleteAccount`): `RemoveRow`, `DetachRolePolicy`,
  `ListAllVersions`, `DeleteOtherVersion`, `DeletePolicy`, `DeleteRole`. That the
  account is not Leased is left to `LeasePool`.
- `Fail` as above. What IAM refuses is in the actions: a version beyond the
  limit, the deletion of a version that is gone or the default, of a policy
  that is attached or has other versions, of a role with a policy attached.

A template, its ETag (the hash) and the policy rendered from it are one number,
later ones greater. `Reverts = FALSE` means that a template that was replaced
does not come back. The condition of the row's save is the flag `current` of a
copy rather than a stamp; that a stamp does what the flag does is what
`LockHolds` says for writes in different seconds.

## 3. What the runs show

| Run | Question | Instance |
|---|---|---|
| `pool_all` | Do the optimistic lock and the transitions protect every row, and is every step one of `PoolLifecycle`? | all handlers, 1 account, 1 principal, 2 executions, 2 builds, faults, duplicates; without logins |
| `pool_serial` | Is the pool consistent between calls and do its tables agree within them, is it clean, and is no account nuked under a tenant, when calls come one at a time, nothing fails and each reset has one message, and does it implement `AccountReset` then? | 2 accounts, 2 principals, pages of 1, 2 builds |
| `pool_liveness` | Does every NotReady account get out of that status? | all handlers, writes in one second, lagging reads, faults, duplicates, 1 execution, 1 build |
| `sweep_accounts` | Does the reset sweep forget none, repeat none, get on with every step whatever comes in, and end? | 4 records, pages of 2, faults |
| `usage_pages` | Is what a usage query returns complete, and does it return? | 3 days, 2 users, pages of 2, faults |
| `access_serial` | Does the account's hash tell the truth, is there room for a version after pruning, do refreshes catch up? | 1 execution at a time, 4 versions, 2 templates, faults |
| `budget_checks` | Is a lease charged what is its own, ended when over its budget or its principal's on the days nothing was lost of, and told of? | 2 accounts, 1 principal, 3 days, 1 check at a time, faults, lagging reads |
| `budget_expiry` | Does a lease whose time is up end? | 1 account, 2 days, late checks, faults, lagging reads |
| `reset_build` | Does one nuke at a time work, spare the tenant and leave nothing, does the build end, and does it implement `AccountReset`? | 2 resources, 3 attempts, faults |
| `doc_rollback` | *docs/concepts.md:94-97*: a failed creation is rolled back. **It is not.** | policy refresh beside a creation |
| `doc_principal_budget` | *docs/howto.md:645*: a principal cannot get round a budget with several leases. **It can.** | 2 accounts, 1 principal, no faults, no lag |
| `doc_sweep_leases` | *pkg/lease/service.go:270*: the function runs on each page. **On the first.** | more leases than a page |

**Bounds.** `MaxNow` bounds the stamped writes of a behaviour, `MaxLeases` the
leases. Every property of `pool_all` speaks of one row, and is broken by at most
two executions and four stamped writes (each mutant is found within them): a
copy is read, another execution writes once or twice, the copy is written. With
`MaxNow = 5` an account can be leased, reset, made Ready and touched, and a
second lease on it created and ended, beside a copy from the first. It has
no `"leaseAuth"`, as none of its properties speaks of what an account holds. In
`pool_liveness` writes do not move the clock on, so `MaxNow` does not bound them;
its two seconds are an old stamp and a new one. Two builds on one account would
only be two chances to reset it. Two
principals on one account meet only in the account's row; `pool_serial` has two
of each, which is needed for "nobody holds two". Pages of one record make the
filter-after-limit case happen with two accounts. Two builds are needed for a
build to be late; two pages and one record more for a sweep to go wrong between
pages; three days for first, middle and last. A limit of four versions has the three
cases of the pruning (one version, some, all of them), which five would repeat;
two templates make a version old. Three days are a first, a middle and a last
day of a lease that lives two, and two accounts are what a principal needs to
overwrite its own record; a cost of 2 is over a budget of 1, a cost of 1 is not.
Two resources are one removed and one left when a nuke stops; three attempts are
those of the code. The theorems of section 4 have no
bounds on accounts, principals, executions, builds, pages, versions, templates,
days, costs, resources or attempts.

**Symmetry.** Accounts, principals, executions and builds are interchangeable
and the safety runs use that; the run with fairness does not.

**Deadlock** is checked where time, duplicates or the sweeps always leave
something to do. `pool_serial` and the `doc_` runs of the pool restrict the
handlers and bound the clock, so that a behaviour may be complete: every account
removed or leased to a principal who does nothing, no message, no seconds left.
The budget runs stop on the last day when all money is spent. `reset_build` can
always tick.

**Fairness**, and why it may be assumed:

- `pool_liveness`: weak fairness of the sweep for each account (a CloudWatch
  schedule that fires every six hours and goes over all NotReady accounts, which
  is `SweepComplete`); strong fairness, per account, of starting a build, of a
  nuke that succeeds and of a build that finishes. Builds fail, messages are
  lost, and both may happen any number of times; the assumption is that an
  account whose reset is tried again and again is not refused for ever. The
  property then shows that nothing in the pool's own logic loses an account: the
  check of an expired lease queues no message, and a lost message is not
  repeated, but the sweep makes up for both. Nothing is assumed of the handlers;
  they may die anywhere.
- `PageSweep`, `UsageQuery`: weak fairness of the running lambda's own steps: it
  is a synchronous loop and each call to AWS returns, with an answer or an
  error. Nothing is assumed of the environment.
- `budget_expiry`: the fan-out invokes a check for an active lease again and
  again (a CloudWatch schedule, every six hours by default), an invocation is
  taken up, and no call to AWS is refused for ever, for each day that is read.
  Strong fairness, as a check that dies disables them. That the fan-out comes to
  every lease is assumed here; `doc_sweep_leases` shows that it does not, beyond
  a page. Nothing is assumed of days passing or money being spent.
- `reset_build`: time passes, and the build's process takes its next step: it is
  one thread that waits for a channel or a timer. Nothing is assumed of the
  nukes, which may neither end nor fail for ever.
- `access_serial`: weak fairness of an execution that has begun (it goes on or
  dies) and strong fairness of each call of a refresh: leases go on being added,
  and a call to AWS that is made again and again is not refused for ever.
  Nothing is assumed of accounts being added or removed, nor of templates.

### What the violations mean

`doc_rollback`: after *lease added* is published the policy refresh may save the
account before `MarkLeased` does. The creation returns an error, the lease stays
Active, the account stays Ready and may be leased to somebody else.
`doc_sweep_leases`: leases beyond the first page are never checked for budget or
expiry.
`doc_principal_budget`: a principal leases an account, spends, is checked, gives
the lease up and takes another account on the same day. The check of the second
lease puts its cost in the place of the first's. The budget of a single lease is
not affected (`LeaseBudgetHolds`), as today's cost is never read back, and the
day's record is again that of the account whose check came last. Nothing else
is behind it: on the days of which no record was replaced so, the principal's
budget limits what the checks have seen of all its leases
(`PrincipalBudgetUnlessLost`, in `budget_checks` and proved). As its sum is taken
from the records, today's too, today is left out where reads may be behind; the
budget of a lease does not need that.

### What holds only for one call at a time

These properties pass in the runs named and are false beyond them. Those of
`pool_serial` also need reads that are not behind. Each is a
disagreement with the documentation or a comment; the change to the cfg that
shows it is given. Before a tenant is nuked, a Ready account is dirty, a reset breaks its
promise or a principal gets a second lease, something has to go wrong that section 4
names and proves to be needed, with calls, failures and messages unrestricted.

- `NukedOnlyAfterLeaseEnds` (`pool_serial`), against `docs/concepts.md:23-28`:
  a reset message is sent by `DELETE /leases` and again by the sweep;
  a build for the second nukes the account when it has been made Ready by the
  first and leased. The same overlap makes an account Ready before it is clean.
  `Handlers <- ResetHandlers`, two accounts, one principal, two builds. The
  sweep is not even needed: an account that is removed and added again gets a
  message from each of the two calls, which is why `SerialHandlers` leaves
  `createAccount` out. `RefinesAccountReset` (of the pool) and `ReadyIsClean` are
  false with it.
- `PoolConsistent` (`pool_serial`), against the meaning of Leased in
  `docs/concepts.md:44-46`: a budget check that runs after its lease was deleted,
  and after the account was reset and leased again, takes the account of the next
  tenant out of Leased, as `update_lease_status/main.go:267` asks for nothing but
  the status. Add `"updateLeaseStatus"` to `SerialHandlers`.
- `PoolConsistent`, with `Lags = TRUE`, one call at a time
  (`Handlers <- LeaseHandlers`, `Workers <- OneWorker`), breaks in two ways.
  Against `pkg/account/service.go:291-293` ("because of inconsistent reads we are
  going to force the status to NotReady"): `DELETE /leases` ends the lease and
  reads the account from a replica that has not seen it leased. The record goes
  back as NotReady under the stamp of that earlier state, the save is refused,
  and no message is sent. The account stays Leased with no lease on it; neither
  the sweep, which lists NotReady accounts, nor another DELETE, which wants an
  active lease, gets it back. One account, property `StaleResetForced`.
  Against `pkg/lease/service.go:223` ("Check if principal already has an active
  lease"): the index by principal does not show the first lease yet, and a
  second POST gives the principal another account. Two accounts, invariant
  `OneLeaseEach`; with two executions no lag is needed.
- `TablesAgree` (`pool_serial`), against `pkg/account/service.go:199`: the
  check is made on a copy and the delete of the row has no condition, so an
  account leased in between is removed. `Handlers <- RemoveHandlers`,
  `Workers <- TwoWorkers`, property `LeasedNotRemoved`.
- `HashMeansInSync` (`access_serial`), against `pkg/account/service.go:304`: two
  leases are added on an account one after the other, and the template changes
  between the two refreshes' renderings. The refresh that rendered the new
  template finishes first and saves its hash; the other one then creates its
  version, of the old template, as the default, and its save is refused. From
  then on every refresh compares the new template's hash with the record's and
  leaves the old policy in force. `Workers = {w1, w2}`, `Limit = 5`,
  `Faults = FALSE`. With `Reverts = TRUE` the same comes about without an
  overlap: a version is created, the save of its hash fails, and the template
  the record names comes back.
- `QueryEnds` (`usage_pages`), against `pkg/usage/usage.go:60`: a call is
  answered unless some day fills a page. A day with more records than an answer
  holds (1 MB) makes the check run until it times out. Leave out the second
  disjunct, with `PageSize = 1`. `DaysPass` has the same exception.
- `LeaseBudgetHolds` (`budget_checks`): with `LateChecks = TRUE` a check of a
  lease that has ended puts its record over that of the same day of the
  principal's next lease, and the cost of that day is gone for good. With two
  checks of one principal at a time the property says more than the code can
  know: another check has just stored more. Without late checks, and with checks
  of one principal apart, it is proved (`LeaseBudget`); checks of different
  principals may overlap. `SpendNotOverstated` holds, and is proved, in all
  these cases.
- `PrincipalBudgetUnlessLost` (`budget_checks`): with two checks of one principal
  at a time it says more than the code can know, as `LeaseBudgetHolds` does. It
  holds with `LateChecks = TRUE`.
- `OneNukeAtATime`, `TenantSpared`, `RefinesAccountReset` (`reset_build`), and `TenantFindsNothing`
  as far as it follows from the refinement: they rest on two numbers that are set
  in different places. With `SessionLength = 3`, above
  `NukeTimeout = 2`, an attempt that timed out works on beside the next one.
  And a build for a second message (`Duplicates = TRUE`) removes what a tenant
  has made, as above.

Three more disagreements were met and have no run: the comment at
`update_lease_status/main.go:241-244` says the account of an expired lease is
pushed to the reset queue, and nothing is sent (it waits for the sweep, see
`pool_liveness`); and `leases/create.go:90` expects one match where the filter is
applied after the limit, so that an ended lease further back than a page is not
found and the new one is refused; and the mail's thresholds and its "over budget"
(`notification.go:42`, `:152`) measure the principal's spend by the lease's
budget, so that a principal's budget below the lease's ends a lease of which no
mail may tell (`EndedIsTold` assumes it is not below).

## 4. What is proved

TLAPS checks these for every choice of the constants the modules allow, that is
under the named assumptions `TablesAssumption`, `PoolAssumption`,
`SweepAssumption`, `UsageAssumption`, `AccessAssumption`, `BudgetAssumption`,
`ResetAssumption` and, where the theorem says so, `SecondsApart`, one execution at
a time, a relation of two constants, or that something has not happened in the
behaviour.

- `LeasePoolProofs`: `TypeCorrect`. One lemma per group of actions; `TypeOK` is
  inductive as it stands because it says which fields of a request are set at
  which call.
- `LeasePoolLockProofs`: `LockHolds`, and from it every action property of
  `pool_all` and the refinement.
  - The inductive invariant is `IInv == TypeOK /\ OptimisticLock`. None of the
    action properties can be shown from the type alone: `MarkLeased` writes
    "Leased" over whatever the row holds, and that it was "Ready" follows only
    from *a copy that passes the condition says what the row says*
    (`AccountCopiesCurrent`) and *a creation starts from a Ready account*
    (`ListedReady`).
  - A row that changes gets a stamp later than every stamp there is
    (`RowsStamped`, `SecondsApart`), so no copy passes the condition any more.
    The exceptions are what makes the invariant its shape: `DELETE /leases`
    writes the stamp it read, so a second DELETE passes, and what it finds is
    the same lease, already Destroyed (`LeaseCopiesCurrent`); and a removed row
    has stamp 0, which no copy carries.
  - The proof first shows that any step changes the tables in one of a few ways
    (`TableStep`), that each keeps stamps growing (`TablesAdvance`), and then
    goes over the copies once instead of once per action.
  - `Lags` is not assumed away: a row that is behind is a copy like any other
    (`ReplicasBehind`), so whatever a handler takes from it and passes the
    condition with is what the table says (`ReadsAsOf`).
- `LeasePoolTenantProofs`: what has to happen before a principal holds two leases,
  a tenant is nuked, or an account is given out that was not cleaned. Any number of
  workers, builds, accounts and principals; every handler, the budget check, the sweep
  and `POST /accounts` among them; failures, duplicates and late messages. What is
  assumed, beside `SecondsApart`, is of a behaviour and not of who calls:
  - `TablesAgree`: an account with an active lease is Leased, or Ready with the
    creation that is to mark it still at work. It ends with a creation that fails
    between its two writes, a removal that races one, a policy refresh between
    them, and a late budget check.
  - `NothingShownTooLong`: no replica or index shows an account NotReady that has been
    reset since, or a lease active that has ended.
  - `GivenBackLast`: when a build makes an account Ready, no other build of the account
    runs and no message for it is on the way. It ends with a second message, which
    the sweep does send.
  - `SavesApart`: no two creations for one principal stand before their save at once.

  Nothing in `src/` sees to these four, and section 3 shows behaviours without the
  first, the third and the fourth. The theorems say that nothing else has to be looked
  for. None of the four mentions a nuke, or what an account holds.
  - `SecondLeaseNeedsTwoSaves` (`OneLeaseEach`), under `SavesApart` and `~Lags`. The
    inductive invariant `OneInv` adds to `IInv` that an active lease is the latest
    record of its principal (`LatestIsActive`), which is why one page of any size
    shows it and which needs the clock, and that a creation before its save is for a
    principal that holds nothing (`SaverSeesNone`).
  - `TenantsAreNotNuked` (`NukedOnlyAfterLeaseEnds`). A status changes in few ways
    (`Cause`), and an account that is due for a reset, because a message is on the way
    or about to be or a build has it, is NotReady or removed (`DueNotReady`): it leaves
    NotReady only with the last of its resets. So what a build nukes is not Leased and
    not Ready, and by `TablesAgree` nobody holds it.
  - `ReadyAccountsAreClean` (`ReadyIsClean`), if the nuke is enabled. `CleanInv` adds
    that what a build has nuked stays clean until the build has updated the account
    (`NukedClean`): only a login can make something in it, which wants a lease that is
    active or shown as such (`GetsDirty`). That an account whose last lease ends is not
    Ready then is `LastTenantLeaves`.
  - `ResetsKeepTheirPromise` (`RefinesAccountReset`) needs no more than `CleanInv`.
    There is a lemma for each part of `Next`, which names the step of `AccountReset`
    or shows that the four mapped expressions stay (`Unseen`). `SaveLease` is the step
    that gives the account out, not `MarkLeased`, and the one that ends the lease takes
    it back. An account may have many builds, and only the last to end ends the reset.
- `PageSweepProofs`: `SweepTypeCorrect`; `AccountSweepComplete`, from *what
  stayed and lies before the key has been handled or failed or is on the page*
  (`NothingSkipped`) and *the key moves on* (`KeyMovesOn`); `NoneHandledTwice`.
  `AccountSweepComplete` assumes the account sweep: for the other it is false.
  `EveryPageAdvances` (`SweepAdvances`) is the half of `SweepEnds` that needs no
  fairness. `StepsLeft` counts the places pages to come may hold and what is left
  of the page; it counts places and not records, so that what enters the index
  does not raise it. A page takes its records from the places ahead
  (`PageTakesFromAhead`), and is empty while the next one is asked for
  (`PagesAreHandled`). Assumed is a finite index.
- `UsageQueryProofs`: `UsageTypeCorrect`; `UsageReturnedComplete`, from *all
  records of the days already passed are collected, once* (`UpToToday`).
  `OnlyFullDaysHoldUp` (`DaysPass`) is the half of `QueryEnds` that needs no
  fairness: a call reads a day again only while it is in the loop over further
  pages, and it is there only for a day that fills an answer (`PagingIsFull`),
  which records put meanwhile do not change (`FullStaysFull`). Assumed is a finite
  set of principals. `DaysPass` is proved and in no run; what TLC checks is `QueryEnds`.
- `PrincipalAccessProofs`: `AccessTypeCorrect`, for any number of overlapping
  executions. The inductive invariant adds that the versions have IDs of their
  own and that one of them is the default (`VersionsOK`); `VersionRemoved` and
  `VersionCreated` are the lemmas on the sequence of versions.
  `RoomAfterPruning` (`RoomForVersion`) has no hypotheses: any number of executions
  create, prune and remove versions of one policy. That an execution comes to create a
  version with room for it needs that a policy of several versions has one that may be
  deleted (`OldestExists`, `GoneTo`, `ComesToVersion`); that only another execution takes the room away is `RoomTaken`.
  `HashInSync` is under `\E w : Workers = {w}` and `~Reverts`, and false without
  either (section 3). Its inductive invariant `SInv` says:
  an account in the pool has role, policy and attachment (`Complete`); *hash of
  the record <= template of the policy in force <= template* (`NotBehind`), which
  makes a hash equal to the template's tell the truth whatever failed between
  the version and the save; and what an execution has at hand agrees with both
  (`AtHand`).

- `BudgetProofs`: `TypeCorrect`, and `NotOverstated`, for any number of
  overlapping, late and failing checks and lagging reads. The property says
  nothing of what is in the table, so the inductive invariant `IInv` adds: what an
  account has cost by a day includes the days before (`BillGrows`); a record says
  no more than its account has cost on its day (`UsageWithinBill`), which stays
  true because bills only grow; and a check that has read the days before `next`
  has added up no more than those days and today have cost (`WithinBill`). That
  the days read end before the day asked of Cost Explorer keeps the two apart.
  - `EndedToldOf`: a lease ended for a budget is told of, if one of the thresholds
    is between 1 and 100 (`modules/variables.tf:146` has 75 and 100) and the
    principal's budget is no smaller than the lease's. From *the reason a check
    gives is what its sums say* (`ReasonsHold`) and the greatest threshold
    reached being at least that one (`MaxOfFinite`).
  - `LeaseBudget`: `LeaseBudgetHolds`, if `~LateChecks` and no two checks of one
    principal overlap (`[]ChecksApart`, which one execution at a time sees to:
    `LeaseBudgetOneChecker`). Reads may lag and any call fail. The property speaks
    of what was `stored` and the check adds up what is in the table, so `SeenInv`
    relates the two: nothing is stored of a day to come (`StoredInPast`) or above
    what the account has cost (`StoredWithinBill`); a principal holds one lease
    (`OneLease`); what was stored of a lease that is active is still in the table
    (`LeaseRecorded`); and what a check has added up covers what was stored of the
    days it has read and of today (`ChecksCovered`). A check may outlive its lease,
    and its record may then take the place of one of the principal's next lease:
    that this does no harm is `OthersUnseen`, no check having come to the next
    lease while this one is under way.
  - `PrincipalBudgetUnless`: `PrincipalBudgetUnlessLost`, if checks of one
    principal are apart; late checks, failures and lagging reads are allowed.
    `PrincipalInv`: what has been stored of the account a record names is in the
    record (`RecordsCover`); where something was stored there is a record
    (`StoredOnRecord`); the days asked for are past (`LastPast`); and what a check
    has added up covers the records of the days it has passed, but for one that
    may be behind (`Counted`). The property sums what was stored over accounts and
    days, the check sums the records over days only: where nothing was lost only
    one account has stored anything of a day, and `AccountsWithinRecords` turns
    one sum into the other. The property looks at some of the days the check has
    added up, which `SumOfMore` allows for. `PrincipalBudgetOneAccount` is the case
    of one account, one execution and reads that are not behind: nothing can be
    lost, and `PrincipalBudgetHolds` is true.
  - The lemmas on sums and maxima (`SumFacts`, `SumGrows`, `SumAdds`,
    `SumOfMore`, `MaxOfFinite`) are needed for sets of any size. In place of an induction each
    takes the set of counterexamples among the subsets of a finite set and a
    smallest member of it (`SmallestSubset`, from strict inclusion being well
    founded), takes an element away, and finds a smaller one.
- `ResetBuildProofs`: `TypeCorrect`; `OneNuke`, if `SessionLength <= NukeTimeout`;
  `Spared`, if also `~Duplicates`; `ReadyOnlyLate`, if `~Duplicates`. The inductive
  invariant `IInv` says: only the nuke that is waited for can reach the account
  (`Access`); the account is not given to anyone while it is reset (`Resetting`);
  what a lease has left was found by every scan of the build (`OldFound`), and a
  nuke that succeeded has removed what it found (`DoneFound`), so nothing is left
  when the account is given back (`Clean`); and what is a tenant's is of an active
  lease (`Tenants`).
  `Refinement`, if `SessionLength <= NukeTimeout` and `~Duplicates`: every step of
  `ResetBuild` is one of `AccountReset` or leaves `status`, `held`, `left` and
  `resetting` as they are. The steps that need the invariant are a nuke's
  `Remove` (it must come inside the reset and take what is "old") and
  `UpdateDBPostReset` (nothing "old" may be left).
  `NobodyInherits` (`TenantFindsNothing`) shows what the abstract specification is
  good for: that a tenant finds nothing a former one has left is shown of
  `AccountReset` alone (`PromiseIsWorth`), whose every step keeps it, and
  `Refinement` carries it over to the build. No run checks it beside
  `RefinesAccountReset`, from which it follows.

Only model-checked: everything with fairness (`ResetCompletes`, `SweepEnds`,
`QueryEnds`, `RefreshCatchesUp`, `ExpiredLeaseEnds`, `BuildEnds`), which this
prover does not do. Of `SweepEnds` and `QueryEnds` what is left to TLC is that
the steps are taken: `EveryPageAdvances` and `OnlyFullDaysHoldUp` prove that they
lead to the end. `PoolConsistent` and `TablesAgree` are left to TLC as well: they
are about calls that come one at a time and do not fail, and a theorem that assumed
as much would leave out everything that can break them. Every other safety property of
a passing run is the subject of a theorem. Those about `LeaseBudgetHolds`,
`PrincipalBudgetUnlessLost`, `EndedIsTold`, the three documented properties of the
pool, and the properties of `reset_build` have the hypotheses said above, which the
runs meet.

## 5. The plan

Done: `PoolTables`, `LeasePool`, `PoolLifecycle`, `PageSweep`, `UsageQuery`,
`PrincipalAccess`, `BudgetCheck`, `ResetBuild`, in that order because the tables
are what everything else meets in.

Then the reads that are behind their table, across `PoolTables`, `LeasePool` and
the proofs about it; the budgets of a lease and of a principal, proved; and
`AccountReset`, the specification that `ResetBuild` and, as long as none of three
named things has happened, `LeasePool` implement.

Left is what would be a refinement of what is there: several lagging copies of a
row instead of one, which could show a row going back and forth between reads;
and overlapping checks under `LeaseBudgetHolds`, which needs a statement of what
the code may know when two checks store at once.

## 6. What is not modelled

Users and roles, the Usage API, pool metrics, the credentials page, the
configuration and the role manager hold no state that changes. The contents of
mails, policies and nuke configurations, ARNs and tokens are data no property
speaks of. `OrphanAccount`, `UpsertLease`, `PutAccount` and
`UpdateAccountPrincipalPolicyHash` of `pkg/db` have no caller among the
handlers. `GetUsage` lists records for the API. Templates and the sending of
mails are output. IAM, STS, Cost Explorer, DynamoDB, SQS, CodeBuild and aws-nuke
are modelled only as the code uses them. The credentials page has a script that
runs in one user's browser (`public/main.js`): it starts a sign-in and asks for
credentials straight after (`:12-14`), and whether the token is there by then is
decided inside the vendored Cognito SDK; nothing of it is shared with the pool.
`PROJECT.json` gives the reason for each component.

## 7. Running it

    tlc -workers 2 -config pool_all.cfg MCLeasePool
    tlc -config sweep_accounts.cfg PageSweep
    tlc -workers 2 -config budget_checks.cfg MCBudgetCheck
    tlc -config reset_build.cfg ResetBuild
    tlapm LeasePoolLockProofs.tla

`PROJECT.json` lists every run with its module, what maps to which lines, and
for each property a bug that breaks it.
