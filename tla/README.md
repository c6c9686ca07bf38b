# Formal models of the MalSpy backend

The repository is the backend of a website scanner: a Django REST API, Celery
workers with a Redis broker and a beat scheduler, and a PostgreSQL database.
The modules in this directory model its core logic, TLC checks them on small
instances, and TLAPS proves the theorems that matter most for every instance.
Every definition is translated from the source; the repository has no tests and
hardly a comment, so the statements of intent are its error messages, its log
lines, its constraints and its schedule.

## 1. The system

| component | state it keeps | operations | who it talks to |
|---|---|---|---|
| Scan pipeline (`apps/scans/services.py`, `tasks.py`) | `Scan` rows, `Organization.scan_quota_used`, `quota_reset_at`, result cache, browser lock | create_scan, create_public_scan, trigger_scan, process_scan_result, run_browser_scan, cleanup_stale_scans, reset_monthly_quota | domains and alerts (calls), Celery (messages), Redis (cache, locks) |
| Alerts (`apps/alerts`) | `Alert` rows, unique while open | generate from scan, from browser, from agent, auto-resolve, resolve, bulk resolve, purge | called by the pipeline and by agents |
| Domains (`apps/domains`) | `Domain` rows, quota per plan, scan schedule, TLS state | create, update, delete, status from scan, dispatch_scheduled_scans, trigger_scheduled_scan, check_tls_expiry | creates scans, plan from billing |
| Billing, Stripe (`apps/billing/services.py`, `views.py`) | `Subscription`, `Organization.plan`, `Payment`, `ProcessedWebhookEvent`, `LedgerEntry` | upgrade, cancel, webhook events | Stripe; sets the plan that the quotas read |
| Billing, Cashfree (`apps/billing/cashfree_service.py`) | `Payment` orders and the same tables | create order, payment success, failure, refund webhooks | Cashfree |
| Agents (`apps/agents`) | `ServerAgent` rows, heartbeat, token | create, authenticate, report, revoke, health check | alerts |
| API keys (`apps/api_keys`) | hashed keys, revoked or expired | create, revoke, authenticate | plan feature flags |
| Accounts (`apps/accounts`) | users, organisations, memberships, tokens | register, verify, reset password, invite, remove, erase | everything by foreign key |
| Signature caches (`scanner.py`, `apps/agents/services.py`, `apps/superadmin/views.py`) | `MalwareSignature` rows, the compiled list and the agents' list in Redis, a lock | edit the table, load a list, expire | scanners and agents read the lists |
| Scanners (`scanner.py`, `browser_scanner.py`, `ssl_checker.py`, `whois_checker.py`) | none | run checks on a site | called by the pipeline |
| Superadmin, core, settings | throttles, audit log, purge | reads, PATCH of an organisation, retention | all tables |

What makes it hard to get right:

* **Concurrency.** Each request is one transaction at READ COMMITTED
  (`ATOMIC_REQUESTS`); a task commits every statement by itself. Only the
  organisation's row lock (`select_for_update`) orders requests.
* **Delivery.** `acks_late` and `reject_on_worker_lost`: the message of a lost
  worker comes back, so a task may run twice, from the start, on a row that has
  moved on. A hard time limit acknowledges the message instead, and a retry that
  cannot be published is dropped.
* **Commit hooks.** A task is published after the commit; a process that dies in
  between has committed a row that no message names.
* **Time.** Soft and hard time limits, a lock and a cache with a lifetime, daily
  jobs that read ids in one statement and update them in the next.

## 2. Modules and how they correspond to the code

| module | models | state |
|---|---|---|
| `ScanPipeline` | create_scan, create_public_scan, trigger_scan, process_scan_result, run_browser_scan, cleanup_stale_scans, reset_monthly_quota | `scan`, `org`: the rows; `unpublished`: commits whose hook has not run; `queue`, `worker`: Celery; `cache`, `browserLock`: Redis; `cleanup`, `resetting`: what a beat job has read |
| `ScanAdmission` | what the scan API promises an organisation; the abstract specification of `ScanPipeline` | `used`, `limit`, `admitted`, `waiting` |
| `Alerts` | generate_alerts_from_scan, generate_browser_alerts, check_tls_expiry, the auto-resolution, resolve and bulk resolve | `alert`, `domain`: the rows; `run`: executions of the tasks that raise alerts |
| `Agents` | AgentService, IsAgentJWT, check_agent_health | `agent`: the rows; `lock`: the organisation's row lock; `request`; `selected`: what the health check has read |
| `Domains` | create_domain, update_domain, delete_domain, update_status_from_scan, trigger_scheduled_scan, dispatch_scheduled_scans | `domain`, `scan`: the rows; `lock`, `request`; `run`: executions of process_scan_result between their save and the domain's update; `trigger`: the task's message or execution |
| `QuotaGate` | what the creation of rows under a quota of the plan promises; the abstract specification of `Agents` and of `Domains` | `live`, `spent`, `limit`, `returned` |
| `Billing` | upgrade_plan, cancel_subscription, the Stripe events, and Cashfree's create_order, confirmation, failure and refund | `plan`, `used`, `offered`: the organisation and the plans; `sub`, `payment`, `processed`, `booked`, `returned`: the rows; `lock`; `request`: a transaction and what it has read |
| `PaymentOrders` | what billing promises about an order; the abstract specification of the orders in `Billing` | `status`, `plan`, `booked`, `granted`, `repaid`, `returned` |
| `Accounts` | registration, verification, login, refresh, logout, password reset, members, erasure, API keys, the superadmin's changes of users and organisations | `user`, `org`, `token`, `session`, `key`: the rows; `link`: links in the cache; `request`: a request and what it has read |
| `Signatures` | _load_active_signatures, get_active_signatures, the superadmin's changes of signatures | `row`, `updatedAt`: the table; `compiled`, `served`, `lock`: the cache; `scan`, `agent`: who is loading a list, and the list; `matched`, `answered`: the list last used |
| `ScanPipelineProofs`, `ScanRowsProofs` | theorems about `ScanPipeline` | |
| `AlertsProofs`, `AgentsProofs`, `DomainsProofs`, `BillingProofs`, `AccountsProofs`, `SignaturesProofs` | theorems about the module of that name | |
| `MC*` | instances for TLC | |

The granularity is the same everywhere and follows the transaction modes of the
code. A *request* runs in one transaction (`ATOMIC_REQUESTS`): its writes become
visible together, when it commits, so they are one action; what it read before
without a lock is an action of its own, because another request may commit in
between. `select_for_update` on the organisation is a variable (`lock` in
`Agents`, `Domains` and `Billing`) or, where nothing else that matters happens
between the lock and the commit (`ScanPipeline`), one atomic action. A *task* runs
in autocommit mode: each statement, cache write and message is an action, and a
worker may be lost between any two of them. A *beat job* that reads ids in one
statement and updates them in the next is two actions. In `Accounts` a permission
is checked at the write; a read of the cache or of the table and what is done with
it are two actions in `Signatures`.

In `ScanPipeline` a `scan` row of status "draft" is a request between its cache
read and its commit. `worker[w]` holds the message being executed, the statement
it is at, and the copy of the row it read, from which `scan.save(update_fields)`
writes.

Some variables are history: no guard of the code's actions reads them.
`org.period` and `org.ceiling` (the widest quota of the period), `losses` (how often a
worker was lost at a scan), `given` of a scan in `Domains` (what executions have
saved as its verdict), the field `judged` of a scan (what process_scan_result has
found, "again" once it has run to its verdict twice) and its flags `api`, `browser` and
`billed` in `ScanPipeline`; in `Alerts` which
alerts existed and which were resolved when a run started; in `Agents` the agents
refused although their token was valid; `reactivated` in `Domains`, a PATCH has
switched an inactive domain on again; `strayed` in `Billing`, an event of an older
subscription has parted the plan from the current one; `uses` and `raced` in
`Accounts`, the passwords set with a token and the users verified behind the back
of a registration; `overran` in `Signatures`, a load has outlived its lock.
`made`, `changes` and `faults` count what a bound limits.

`LedgerAnswers` in `Billing` says what becomes of `LedgerEntry.save`. `{FALSE}` is
the code of this commit: `save` refuses a row that has a primary key, a new row has
one from the start (a UUID default), so it always raises and the transaction is
rolled back. With `{TRUE, FALSE}` the save may succeed as well, which lets
TLC and TLAPS say something about the rest of the handlers; the theorems hold of
any of these values.

A scan of `Domains` may run again at any moment. trigger_scan and process_scan_result ask
for no status, so a message that comes back restarts a completed or failed scan, or
writes its verdict anew, beside an execution that is still at work; time limits, last
retries and the cleanup fail scans that have one. A verdict is therefore that of an
execution (`run`), which keeps its own copy of the row and of what it has found.

`NoPlan` is an organisation whose plan is null: staff may clear it, and the deletion of a
plan does (SET_NULL). Before the lock create_domain refuses such an organisation
(`PlanWithDomains`); under the lock it asks the quota of a plan only (`DomainLimit`), and
so lets in without limit when the plan was taken away in between.

The components meet in these places. `ScanPipeline` sees a domain only through
its name and through `DeleteDomain`, which soft-deletes scans; `Domains` sees a
scan only through its state and verdict; `Alerts` takes any verdict in any order.
The plan changes of `ScanPipeline`, `Domains` and `Agents` are those of `Billing`
(`UpgradeCommit`, `ConfirmCommit`, the Stripe events) and of staff on the admin
site; `UseMore` and `UseLess` of `Billing` stand for the creations and deletions of
`Domains` and `Agents`, which take the same row lock. Each module leaves the
others' steps free, which allows more behaviours than the composition has, so what
it shows holds of the composition.

## 3. What the runs check

| run | instance | properties |
|---|---|---|
| `lifecycle` | two scans of one domain, two workers, one retry, browser scans, clean verdicts | `TypeOK`, `OneQueued`, `CompletedHasEvidence`, `BrowserExclusive`, `OneCarrier`, `CompletedStays` |
| `quota` | two scans, one worker, two plans, a quota reset, one plan change | `QuotaRespected`, `QuotaAccounted`, `ImplementsAdmission` |
| `settle` | one scan, one worker, two lost workers, one retry, fairness | `BrowserFindingKept`, `ScansSettle` |
| `alerts_race` | two runs, two conditions, two users, a domain deleted and purged | `TypeOK`, `OneOpenAlert`, `FindingsReported`, `ResolutionFinal` |
| `agents_life` | two agents, two requests, two plans, one plan change, fairness | `TypeOK`, `RevokedForGood`, `ImplementsQuotaGate`, `SilentRetired` |
| `domains_life` | two rows, two names, two requests, one scan with two executions, a plan with room for one domain or none, two plan changes | `TypeOK`, `OwnVerdict`, `ImplementsQuotaGate`, `DeletedForGood`, `StatusFromScans` |
| `billing_life` | two transactions, two orders paid three times (once with a wrong amount), one refund, three Stripe events about one subscription, two plans, two subscription rows, a ledger that may refuse | `TypeOK`, `PlanOfCurrent`, `PlanMovesWithSubscription`, `DowngradeFits`, `ImplementsOrders` |
| `accounts_life` | three users, two organisations, two keys with a limit of one, one session, one reset token, two requests, seven operations | `TypeOK`, `OwnerBelongs`, `ResetOnce`, `KeysWithinLimit`, `VerifiedKept`, `RevokedForever` |
| `signatures_life` | one static row, two server rows for an agents' list of one, one scan, two agents, two changes, one fault, fairness | `TypeOK`, `ScansNeverBlind`, `OneLoader`, `CachesConverge`, `AgentsServed` |

The bounds are small because the hazards are races of two: two requests on one
lock, two scans of one domain, a task and a beat job, a task and its own
redelivery, two reports of one payment, two uses of one token. Two of each actor
therefore reach them, and two plans with different quotas and prices reach both
sides of every boundary. A third payment attempt gives an order a repeated report,
a report of a wrong amount and a report for another order at once. Seven
operations are enough in `Accounts` for the longest story its properties tell
(register, verify, invite, remove, erase, with another request in flight). The agents'
list holds at most 500 rows in the code (`ServerLimit`) and one in the instance, where a
second active row is therefore beyond it. The instance of
`Domains` has two constraints besides: at most two requests, executions and tasks are at
work at once (`TwoAtWork`), and a behaviour has plan changes or scans (`PlansOrScans`).
Rows whose pattern does not compile occur in the theorems only. Workers, scans, runs,
users, requests and rows are interchangeable, so the instances use symmetry,
except where a liveness property is checked. `MaxLosses`, `MaxPeriods`,
`MaxPlanChanges`, `MaxSubs`, `MaxUsed`, `MaxOperations`, `MaxChanges` and
`MaxFaults` only cut behaviours off. `CHECK_DEADLOCK FALSE` is set where the
system may really come to rest: all identities used, nothing in flight.

Fairness. `ScanPipeline` assumes that workers keep taking and running tasks (each
has a time limit), that a hook of a living process runs, that time passes and
that the daily cleanup runs; nothing is assumed of requests, errors, lock and
cache expiry, or the quota reset. `Agents` assumes that the health check, which
beat starts every five minutes, is executed; `Domains` the same of the dispatch,
and that tasks run. `Billing` (only in `billing_paid`) assumes that a transaction
that has begun ends, that one which can commit again and again is not aborted for
ever, and that Cashfree repeats the report of a payment until it is taken.
`Signatures` assumes that cache entries and the lock, all of which have a
lifetime, expire, that a scan which has begun and is not lost goes on, and that
agents, which ask periodically, keep asking; nothing of edits and faults, which
are bounded.

### Where the code does not do what it says

Each of these runs ends in a counterexample.

| run | what happens |
|---|---|
| `conflict` (`OneInFlight`) | trigger_scan sets "scanning" whatever the row says. The message of a scan that the cleanup failed puts it in flight beside its successor, although a second request is answered "This domain is already being scanned." |
| `billing_paid` (`PaidOrdersSettle`) | Every confirmation of an order ends in the refused `LedgerEntry.save` and is rolled back, so a paid order stays pending however often Cashfree reports it, although the handler's last words are "Payment processed successfully". |
| `accounts_reset` (`ResetEndsSessions`) | A password reset blacklists the user's OutstandingTokens and counts them as "tokens_blacklisted". A token that a refresh has issued is not among them: it stays good after the password has changed. |

These statements of intent fail in a few steps as well. The modules state them, TLC
refutes them when asked, and no run is kept for each:

* `CleanupFailsStale` (`ScanPipeline`): cleanup_stale_scans fails the ids it read,
  also a scan completed in between, and reports it as stale.
* `ResolvedByLaterScan` (`Alerts`): a clean scan resolves every open malware alert
  of the domain, also one raised after the scan was over.
* `UniqueActiveAlertPerType` (`Alerts`): nulls are distinct in the unique index, so
  two scans of a site that is not monitored leave two open alerts of one type.
* `PlanRequired` (`Domains`): create_domain refuses an organisation without a plan with
  "Domain monitoring requires a paid plan." before it takes the lock; under the lock it
  skips the quota when the plan is null. A plan taken away in between lets the domain in,
  and without limit.
* `ReportsAccepted` (`Agents`): authentication makes an agent active, and a report
  asks for the transition from active to active, which is not allowed: every report
  is refused.
* `ScheduledAgain` (`Domains`): next_scan_at is null from the start and nothing sets
  it, so the dispatch never selects a domain.

These can be read off the modules:

* A PATCH that read an active domain may switch it on again after another request
  switched it off and a third filled the quota: `CreatesWithinQuota` excepts it. A
  domain switched off is found by neither PATCH nor DELETE, and its name stays
  taken. A browser scan that finds malware flags the scan, not the domain. An older
  clean verdict may replace a newer finding, since the executions of scans of a domain
  write its status in the order they finish; a domain may so show a verdict that its
  scan's row no longer has, or that of a scan which has failed since.
* The query for the creator of a scan (tasks.py:347) runs after run_browser_scan was
  queued. When it fails, process_scan_result is retried beside the browser task, and
  writes malware_detected from its own checks: a flag that the browser has raised
  meanwhile is lost, which `BrowserFindingKept` excepts (`judged` is "again"). The same
  happens when a lost worker's process_scan_result is delivered again.
* A broker that accepted process_scan_result and lost its answer makes trigger_scan retry
  although the message is queued. `OneCarrier` and `CompletedStays` except it: for the
  model it is a worker lost right after `TriggerPublish`. create_scan's force_fresh, which
  skips the cache, is set by no caller.
* `connect_signature_signals` is never called: a change of the signatures reaches
  neither cache before it expires, which is why `CachesConverge` needs the expiry.
  Agents never get more than the 500 active server signatures changed last: what
  `CachesConverge` and `AgentsServed` state is that list (`Latest`), not the table.
  An agent that finds the list's lock taken is given an empty list. A load that outlives
  the lock deletes the one another request has taken: `OneLoader` excepts it.
* ApiKeyAuthentication does not ask whether the creator of a key is still active: after
  deactivation or erasure the key goes on acting for the user (`Authenticated`).
* A Cashfree event is recorded before it is examined: one of a wrong amount, or the
  failed report of a refund that succeeds later, is never looked at again. An
  attempt that failed closes the order, and a later payment of it is refused.
* create_order asks for `organization.users`, which does not exist, when a real
  gateway is configured. A paid upgrade through Stripe would leave a subscription
  of status "pending", which the check constraint excludes. Events of an older
  Stripe subscription change the plan beside the current one: `PlanOfCurrent`
  excepts them, and `PlanMovesWithSubscription` allows that the end of any subscription
  not yet cancelled, current or not, takes the plan.
* An address that was invited and not verified can be registered: the invited user
  is deleted with the organisation it belongs to, if it is its owner's. Somebody
  invited is never sent a verification link. A registration that has read a user as
  unverified deletes it although it was verified meanwhile: `VerifiedKept` excepts
  it.

## 4. What is proved

TLAPS proves these theorems for all values of the constants that satisfy the
`ConstantsAssumption` of the module: any sets of organisations, rows, names, users,
requests, workers and plans (finite where a cardinality is taken), any quota that is
a natural or -1, any bound on retries, losses, changes and operations.

| theorem | states |
|---|---|
| `ScanPipelineProofs`: `TypeCorrect` | `Spec => []TypeOK` |
| `QuotaNeverExceeded` | `Spec => []QuotaRespected` |
| `ScanRowsProofs`: `RowsCorrect` | `Spec => []RowInv` |
| `EvidenceAlways` | `Spec => []CompletedHasEvidence` |
| `NeverTwoQueued` | `Spec => []OneQueued` |
| `UseIsCounted` | `Spec => []QuotaAccounted` |
| `OneBrowserScan` | `Spec => []BrowserExclusive` |
| `OneCarrierKept` | `Spec => []OneCarrier` |
| `FindingKept` | `Spec => []BrowserFindingKept` |
| `CompletedStaysSo` | `Spec => CompletedStays` |
| `AdmissionImplemented` | `Spec => ImplementsAdmission` |
| `AlertsProofs`: `AlertsTypeCorrect` | `Spec => []TypeOK` |
| `OneOpenAlertEver` | `Spec => []OneOpenAlert` |
| `NothingLost` | `Spec => []FindingsReported` |
| `ResolvedForGood` | `Spec => ResolutionFinal` |
| `AgentsProofs`: `AgentsTypeCorrect` | `Spec => []TypeOK` |
| `RevokedStays` | `Spec => RevokedForGood` |
| `AgentQuotaKept` | `Spec => GrowsWithinQuota` |
| `AgentsGate` | `Spec => ImplementsQuotaGate` |
| `DomainsProofs`: `DomainsTypeCorrect` | `Spec => []TypeOK` |
| `VerdictIsOwn` | `Spec => []OwnVerdict` |
| `DomainQuotaKept` | `Spec => CreatesWithinQuota` |
| `DeletedStays` | `Spec => DeletedForGood` |
| `StatusComesFromScans` | `Spec => StatusFromScans` |
| `DomainsGate` | `Spec => ImplementsQuotaGate` |
| `BillingProofs`: `BillingTypeCorrect` | `Spec => []TypeOK` |
| `PlanIsCurrent` | `Spec => []PlanOfCurrent` |
| `PlanMoves` | `Spec => PlanMovesWithSubscription` |
| `DowngradeChecked` | `Spec => DowngradeFits` |
| `OrdersImplemented` | `Spec => ImplementsOrders` |
| `AccountsProofs`: `AccountsTypeCorrect` | `Spec => []TypeOK` |
| `OwnersStay` | `Spec => []OwnerBelongs` |
| `TokenUsedOnce` | `Spec => []ResetOnce` |
| `KeyLimitKept` | `Spec => []KeysWithinLimit` |
| `VerifiedStay` | `Spec => VerifiedKept` |
| `RevokedStays` | `Spec => RevokedForever` |
| `SignaturesProofs`: `SignaturesTypeCorrect` | `Spec => []TypeOK` |
| `NeverBlind` | `Spec => []ScansNeverBlind` |
| `LockAdmitsOne` | `Spec => []OneLoader` |

**Scan pipeline.** `QuotaRespected` is not inductive: a plan change raises the
ceiling, and nothing in it says that the present plan is below the ceiling.
`QuotaInv` adds that, and then each step either leaves the organisation alone,
charges it below its plan's quota, starts a period (use and ceiling start anew), or
changes the plan (the ceiling only widens). The others rest on `RowInv`: every
hook, message, running task and selected id refers to a committed scan; a message
or execution of process_scan_result refers to a scan that has an API result; a
draft has not been charged or completed. Without it, a task at an arbitrary state
could complete any row. The proof first classifies each step's effect on each row
(`RowStepLemma`: kept, drafted, or committed by its own request) and on the messages
(`JobStepLemma`: where each new one comes from); the invariants then follow from the
classification alone, and none of the later proofs looks at the twenty-odd actions
again. `OneQueued` follows because only a commit makes a scan wait, and it checks
the others first; `QuotaAccounted` because only a commit changes what is charged in
the current period, by one in the count and one in the row.
`CompletedHasEvidence` says where a verdict comes from, and needs the cache for it:
`EvidenceInv` adds that a cached list is of a name some scan of which has an API result,
and that a draft which hit the cache is of such a name (a scan keeps its name and its
API result, so the witness stays good when the entry expires).
`OneBrowserScan` rests on `BrowserInv`: whoever browses for an organisation holds its
lock, alone (a lock expires only when its holder is gone: its lifetime of 300 seconds
exceeds the task's time limit of 180). Each step keeps, takes,
leaves or expires locks, and `RowInv` adds that the scan which is browsed is
committed, so that its organisation no longer changes.
`OneCarrier` and `CompletedStays` have one inductive invariant,
`CarrierInv`, about each scan at which no worker was lost. Its carriers are its hook, its
messages and the tasks working on it, those of the browser scan aside. There is at most
one, and at most one copy of its message (`Single`); none of a completed scan is for
trigger_scan (`Spared`). Neither is inductive alone: no late trigger_scan reaches a
completed scan because there is no second task, and that because the publication of
process_scan_result is the last thing trigger_scan does that may fail. (An error behind
the hand-over to the browser repeats process_scan_result, which is then the only carrier:
the browser task is none.) `CarrierStep` says what a step may do to a scan:
leave it alone or take a carrier away, commit it, or let one carrier take over from
another; every action is shown to be one of these for every scan, or to lose a worker
at it.
`BrowserFindingKept` rests on `FindingInv`: a browser task, and a message for one, follows
a verdict (`JudgedFirst`), and what it read of a scan judged once is still in the row
(`CopyTrue`). For that the proof classifies again what a step writes of the verdict
(`FindingSteps`) and which tasks run behind one (`LateStep`); that no other browser
task writes the row meanwhile is `BrowserInv`.
`AdmissionImplemented` maps
the rows to the abstract state: a commit is an admission, on demand or scheduled, a
reset is a `Renew`, a plan change a `ChangeLimit`, and every other step is a `Leave`,
which takes scans off the queue, or a stutter.

**Alerts.** `AlertsInv` is `TypeOK`, `OneOpenAlert` and three parts. `Running`: a run
is only where its kind can be. `Unraised`: before its insert a run has raised no
alert, so that an insert never writes over a row. `Answering`: each finding of a run
is still to be checked or inserted, or has an alert that was not resolved when the run
began, and what was resolved then still is. `Answering` is `FindingsReported` carried
back through the run: at the check because an open alert was not resolved before, at
the insert because a conflict means that another run's alert is open. `AlertSteps`
classifies what a step does to an alert (kept, resolved, or raised where the unique
index allows it), from which `OneOpenAlert` and `ResolutionFinal` follow without a
look at the actions.

**Agents.** `AgentsInv` adds to the types that a request which authenticates or
reports has an agent, and `Locking`: a request between the lock and the insertion
holds the organisation's lock, and as long as it does, what it counted still is
below the quota. `Locking` is what the row lock is for: a plan change and another
insertion wait for it, and nothing else makes an agent current (`CurrentShrinks`).
`RevokedStays` follows from a classification of the steps (`RowSteps`) by what they
do to a row's status. `AgentsGate` combines them: the row of an insertion was never
used, and by `Locking` there is room for it, which makes it an `Admit` of `QuotaGate`; a
plan change is a `ChangeLimit`; in every other step the current agents can only become
fewer (`Leave`). `GrowsWithinQuota` speaks of numbers of agents only; the gate, which
the run checks, also of identities: one that has left does not come back.

**Domains.** `DomainsInv` is `TypeOK`, `OwnVerdict`, a `Locking` like the one of
`Agents` (but for `reactivated`), and what ties copies to rows: a request has read a
row of the table (`Reading`); an execution works on a scan that exists, has its verdict
among those the scan was given, and has selected a domain of the scan's name
(`Settling`); a scan that has been published or judged exists (`Publishing`); a task has
created a scan of its domain's name (`Triggering`), a linked scan exists (`Linking`), a
row that does not exist shows nothing (`Blank`). Names of rows never change and what a
scan was given only grows, which is why the copies stay good whatever becomes of the
scan's state.
`DomainsGate` is the refinement of `QuotaGate` again. What differs is PATCH, which takes
no lock: when it switches a domain on that was switched off since it was read
(`SwitchesOn`), that is a `Return`, after which the gate lets in without room; every
other save, of a PATCH, a deletion, a scan or a task, takes domains away or none.

**Billing.** `PlanMoves` says where a change of the plan comes from: a subscription that
becomes active in the same step, or one that becomes cancelled and leaves the free plan.
`BillingInv` is `TypeOK`, `PlanOfCurrent`, `Confirming` (a transaction
that confirms an order holds its row, alone, while it is pending), `Locking` (what a
plan change has checked holds until it commits) and `OrdersOpen` (an open order has
booked and granted nothing; what is returned was recorded). `Confirming` and
`OrdersOpen` are what makes each commit a `Complete` of `PaymentOrders`: the
refinement maps the rows to the abstract state, and every other step to `Place`,
`Fail`, `Return` or a stutter. `PlanInv` adds `Selected`, that a cancellation has
selected rows that exist. A new subscription takes the least free number, which
exists by well-founded induction on the naturals (lemma `Least`).

**Accounts.** `AccountsInv` is `TypeOK`, `OwnerBelongs`, `KeysWithinLimit` and what
requests in flight rely on: `Racing`, a user that became verified behind a
registration's back is in `raced`; `Resetting`, whoever is about to set a password
holds a token that is still valid, alone, and a valid token was never used;
`Counting`, whoever is about to store a key has counted fewer than the limit and is
the only one of its organisation. The last two are what the two row locks are for.

**Signatures.** `SignaturesInv` is `TypeOK`, `NothingBlind` (no list that is stored
or about to be stored for scanners is empty), `ListRead` (a request that is about to
store or to answer holds a list) and `Holding` (until a load outlives the lock,
whoever loads holds it, alone). `OneLoader` excepts an overrun load, because then the
first request deletes the lock of the second.

## 5. What is only model-checked, and what is not modelled

Only checked by TLC: liveness (`ScansSettle`, `SilentRetired`, `CachesConverge`,
`AgentsServed`), which TLAPS does not reach. Every safety property of a passing run is a
theorem; `GrowsWithinQuota` and `CreatesWithinQuota` are only proved, since the runs
check `ImplementsQuotaGate`, which is stronger.

Not modelled:

* The scanners: pattern matching, network and browser I/O. Their verdict is a free
  choice of the pipeline.
* In billing: `expire_trial`, which nothing calls; `check_plan_expiry`, which selects
  by a plan_expires_at that nothing sets; the reconciliation, which only reports;
  `initiate_refund`, which changes no row and reserves nothing; the responses that
  views keep per idempotency key; invoices and other reads.
* In accounts: profile and settings fields, superadmins as users.
* In the pipeline: a database outage at a task's first statement; the purge that
  deletes old scans; `rescan` and `delete_scan`, which no URL reaches; the blacklist
  verdict, which takes the same path as the malware one.
* In alerts: severities other than critical; the alert of an accepted agent report,
  since no report is accepted.
* Message texts, e-mails, Slack, PDF reports, audit entries (their failures are caught
  and change nothing else), throttle counters, telemetry and the superadmin's reads.

`Alerts`, `Agents`, `Domains` and `Billing` model one organisation: every query of
theirs filters by organisation.
