---------------------------- MODULE ScanPipeline ----------------------------
(***************************************************************************)
(* The scan pipeline: a request admits a scan under the organisation's     *)
(* monthly quota, Celery carries it through trigger_scan,                  *)
(* process_scan_result and run_browser_scan with at-least-once delivery,   *)
(* and two beat jobs (cleanup_stale_scans, reset_monthly_quota) work on    *)
(* the same rows from the side.                                            *)
(*                                                                         *)
(* A request is two steps, its cache read and its commit, because nothing  *)
(* orders the read with the rest; a committed row waits for its on_commit  *)
(* hook.  A task is one step per database write, cache write or enqueue,   *)
(* so a worker may be lost between any two of them.                        *)
(***************************************************************************)
EXTENDS Integers, FiniteSets

CONSTANTS
    Orgs,            \* organisations
    NoOrg,           \* the null foreign key of a public scan
    Names,           \* domain names that can be scanned
    Scans,           \* identities of scan rows
    Workers,         \* Celery worker processes
    Plans,           \* plan slugs
    NoPlan,          \* the null foreign key of an organisation without a plan
    Quota,           \* Plan.scan_quota, -1 = unlimited
    BrowserPlans,    \* plans with browser_scan_enabled
    ScheduledPlans,  \* plans with scheduled_scans
    Verdicts,        \* verdicts a scanner may return: TRUE = bad
    MaxRetries,      \* max_retries of trigger_scan and process_scan_result
    MaxBrowserRetries, \* max_retries of run_browser_scan
    MaxLosses,       \* bound: worker processes lost at a scan
    MaxPeriods,      \* bound: quota periods of an organisation
    MaxPlanChanges   \* bound: plan changes in a behaviour

Unlimited == -1

ASSUME ConstantsAssumption ==
    /\ NoOrg \notin Orgs /\ NoPlan \notin Plans
    /\ IsFiniteSet(Scans) /\ Names # {}
    /\ Quota \in [Plans -> Nat \cup {Unlimited}]
    /\ BrowserPlans \subseteq Plans /\ ScheduledPlans \subseteq Plans
    /\ "none" \notin Plans /\ "public" \notin Plans
    /\ FALSE \in Verdicts /\ Verdicts \subseteq BOOLEAN
    /\ MaxRetries \in Nat /\ MaxBrowserRetries \in 0..MaxRetries
    /\ MaxLosses \in Nat
    /\ MaxPeriods \in Nat /\ MaxPlanChanges \in Nat

VARIABLES
    org,          \* organisation rows; period and ceiling are history only
    scan,         \* scan rows; "draft" is a request that has not committed;
                  \* judged is history only: what process_scan_result has found
    unpublished,  \* committed scans whose on_commit hook has not run
    cache,        \* cached Layer 1 verdict of a plan slug and a domain name
    queue,        \* messages in the broker, with multiplicity
    worker,       \* what each worker process is executing
    browserLock,  \* organisations whose browser_scan_lock key exists
    cleanup,      \* ids cleanup_stale_scans has read and not yet updated
    resetting,    \* ids reset_monthly_quota has read and not yet updated
    losses,       \* history: how often a worker was lost at a scan
    planChanges

vars == <<org, scan, unpublished, cache, queue, worker, browserLock,
          cleanup, resetting, losses, planChanges>>
beat  == <<cleanup, resetting>>
count == <<losses, planChanges>>

-----------------------------------------------------------------------------
(* Types *)

Slugs == Plans \cup {"free", "public"}

Job ==
    [task: {"trigger", "browser"}, scan: Scans, tries: 0..MaxRetries, slug: {"none"}]
        \cup [task: {"process"}, scan: Scans, tries: 0..MaxRetries, slug: Slugs]

NoJob == [task |-> "none", scan |-> "none", tries |-> 0, slug |-> "none"]

\* What a task reads of the scan and its organisation before it starts.
Snapshot == [slug: Slugs, browser: BOOLEAN, malware: BOOLEAN]

Steps == {"fetch", "publish", "check", "cache", "chain", "mail",
          "browse", "unlock", "ack"}

Idle == [pc |-> "idle", job |-> NoJob,
         seen |-> [slug |-> "free", browser |-> FALSE, malware |-> FALSE]]

Busy == [pc: Steps, job: Job, seen: Snapshot]

Statuses == {"none", "draft", "queued", "scanning", "completed", "failed"}

ScanRow ==
    [status: Statuses, owner: Orgs \cup {NoOrg}, name: Names, scheduled: BOOLEAN,
     billed: Nat, cached: BOOLEAN, api: BOOLEAN,
     judged: {"never", "clean", "malware", "again"},
     malware: BOOLEAN, browser: BOOLEAN, stale: BOOLEAN, deleted: BOOLEAN]

OrgRow ==
    [plan: Plans \cup {NoPlan}, used: Nat, resetAt: {"null", "future", "past"},
     period: Nat \ {0}, ceiling: Nat \cup {Unlimited}]

\* The type invariant.
TypeOK ==
    /\ org \in [Orgs -> OrgRow]
    /\ scan \in [Scans -> ScanRow]
    /\ unpublished \subseteq Scans
    /\ cache \in [Slugs \X Names -> {"miss", "clean", "malware"}]
    /\ queue \in [Job -> Nat]
    /\ worker \in [Workers -> Busy \cup {Idle}]
    /\ browserLock \subseteq Orgs
    /\ cleanup \subseteq Scans
    /\ resetting \subseteq Orgs
    /\ losses \in [Scans -> 0..MaxLosses]
    /\ planChanges \in 0..MaxPlanChanges

-----------------------------------------------------------------------------
(* Reading the tables *)

QuotaOf(p) == IF p = NoPlan THEN 0 ELSE Quota[p]

\* The larger of two quotas.
Wider(a, b) == IF Unlimited \in {a, b} THEN Unlimited ELSE IF a >= b THEN a ELSE b

\* The cache slug of an organisation; a public scan uses "public".
Slug(o) ==
    IF o = NoOrg THEN "public" ELSE IF org[o].plan = NoPlan THEN "free" ELSE org[o].plan

InFlight == {"queued", "scanning"}

Committed(s) == scan[s].status \notin {"none", "draft"}

\* Mutant of BeingScanned: a queued scan is overlooked.
BeingScannedByWorker(o, n) ==
    \E s \in Scans : /\ scan[s].owner = o /\ scan[s].name = n
                     /\ scan[s].status = "scanning" /\ ~scan[s].deleted

\* Rows of an owner and a name that the conflict check finds.
BeingScanned(o, n) ==
    \E s \in Scans : /\ scan[s].owner = o /\ scan[s].name = n
                     /\ scan[s].status \in InFlight
                     /\ ~scan[s].deleted

\* Mutant of HasQuota: off by one at the limit.
HasQuotaAtLimit(o) ==
    /\ org[o].plan # NoPlan
    /\ \/ QuotaOf(org[o].plan) = Unlimited
       \/ org[o].used <= QuotaOf(org[o].plan)

HasQuota(o) ==
    /\ org[o].plan # NoPlan
    /\ \/ QuotaOf(org[o].plan) = Unlimited
       \/ org[o].used < QuotaOf(org[o].plan)

\* enterprise results are never cached: their time to live is 0.
CachedResult(k, n) == IF k = "enterprise" THEN "miss" ELSE cache[<<k, n>>]

Blank == [status |-> "none", owner |-> NoOrg, name |-> CHOOSE n \in Names : TRUE,
          scheduled |-> FALSE, billed |-> 0, cached |-> FALSE, api |-> FALSE,
          judged |-> "never", malware |-> FALSE, browser |-> FALSE,
          stale |-> FALSE, deleted |-> FALSE]

Send(j) == queue' = [queue EXCEPT ![j] = @ + 1]

\* Row s becomes r; every write of the code sets updated_at.
Save(s, r) == scan' = [scan EXCEPT ![s] = [r EXCEPT !.stale = FALSE]]

Failed(s) == [scan[s] EXCEPT !.status = "failed"]

NewJob(task, s) == [task |-> task, scan |-> s, tries |-> 0, slug |-> "none"]

Init ==
    /\ \E plan \in [Orgs -> Plans \cup {NoPlan}], at \in [Orgs -> {"null", "future"}] :
         org = [o \in Orgs |-> [plan |-> plan[o], used |-> 0, resetAt |-> at[o],
                               period |-> 1, ceiling |-> QuotaOf(plan[o])]]
    /\ scan = [s \in Scans |-> Blank]
    /\ unpublished = {}
    /\ cache = [e \in Slugs \X Names |-> "miss"]
    /\ queue = [j \in Job |-> 0]
    /\ worker = [w \in Workers |-> Idle]
    /\ browserLock = {} /\ cleanup = {} /\ resetting = {}
    /\ losses = [s \in Scans |-> 0] /\ planChanges = 0

-----------------------------------------------------------------------------
(* Web requests and the scheduled task: create_scan, create_public_scan *)

\* create_scan up to its transaction: the plan slug and the cache are read.  (No caller
\* sets force_fresh, which would skip the cache.)
CreateBegin(s, o, n, scheduled) ==
    /\ scan[s].status = "none"
    /\ scheduled => org[o].plan \in ScheduledPlans
    /\ LET hit == CachedResult(Slug(o), n) IN
         Save(s, [Blank EXCEPT !.status = "draft", !.owner = o, !.name = n,
                               !.scheduled = scheduled, !.cached = (hit # "miss"),
                               !.malware = (hit = "malware")])
    /\ UNCHANGED <<org, unpublished, cache, queue, worker, browserLock, beat, count>>

\* create_public_scan: an in-flight scan of the domain is returned instead of a new one.
PublicBegin(s, n) ==
    /\ scan[s].status = "none"
    /\ LET hit == CachedResult("public", n) IN
         /\ hit = "miss" => ~BeingScanned(NoOrg, n)
         /\ Save(s, [Blank EXCEPT !.status = "draft", !.name = n,
                                  !.cached = (hit # "miss"), !.malware = (hit = "malware")])
    /\ UNCHANGED <<org, unpublished, cache, queue, worker, browserLock, beat, count>>

\* check_and_increment_scan_quota under the organisation's row lock.
Admissible(s) ==
    LET o == scan[s].owner IN
    /\ ~BeingScanned(o, scan[s].name)
    /\ scan[s].scheduled \/ HasQuota(o)

\* The row as inserted: what the cache gave, or queued for the workers.
Inserted(s, period) ==
    [scan[s] EXCEPT !.status = IF scan[s].cached THEN "completed" ELSE "queued",
                    !.billed = period]

\* Mutant of Charged: a scheduled scan is charged for too.
ChargedAlways(o, scheduled) ==
    [org[o] EXCEPT !.used = @ + 1, !.resetAt = IF @ = "null" THEN "future" ELSE @]

\* The organisation as the quota check leaves it.
Charged(o, scheduled) ==
    [org[o] EXCEPT !.used = IF scheduled THEN @ ELSE @ + 1,
                   !.resetAt = IF @ = "null" THEN "future" ELSE @]

CreateCommit(s) ==
    LET o == scan[s].owner IN
    /\ scan[s].status = "draft" /\ o # NoOrg
    /\ Admissible(s)
    /\ org' = [org EXCEPT ![o] = Charged(o, scan[s].scheduled)]
    /\ Save(s, Inserted(s, IF scan[s].scheduled THEN 0 ELSE org[o].period))
    /\ unpublished' = IF scan[s].cached THEN unpublished ELSE unpublished \cup {s}
    /\ UNCHANGED <<cache, queue, worker, browserLock, beat, count>>

\* CONFLICT, QUOTA_EXCEEDED or no plan: the transaction leaves nothing behind.
CreateRejected(s) ==
    /\ scan[s].status = "draft" /\ scan[s].owner # NoOrg
    /\ ~Admissible(s)
    /\ Save(s, Blank)
    /\ UNCHANGED <<org, unpublished, cache, queue, worker, browserLock, beat, count>>

PublicCommit(s) ==
    /\ scan[s].status = "draft" /\ scan[s].owner = NoOrg
    /\ Save(s, Inserted(s, 0))
    /\ unpublished' = IF scan[s].cached THEN unpublished ELSE unpublished \cup {s}
    /\ UNCHANGED <<org, cache, queue, worker, browserLock, beat, count>>

\* The on_commit hook: _trigger_scan_task publishes the task.
Publish(s) ==
    /\ s \in unpublished
    /\ unpublished' = unpublished \ {s}
    /\ Send(NewJob("trigger", s))
    /\ UNCHANGED <<org, scan, cache, worker, browserLock, beat, count>>

\* The broker is unreachable: the scan is failed at once.
PublishFails(s) ==
    /\ s \in unpublished
    /\ unpublished' = unpublished \ {s}
    /\ Save(s, Failed(s))
    /\ UNCHANGED <<org, cache, queue, worker, browserLock, beat, count>>

\* The web process dies between the commit and its hook.
PublishLost(s) ==
    /\ s \in unpublished
    /\ unpublished' = unpublished \ {s}
    /\ UNCHANGED <<org, scan, cache, queue, worker, browserLock, beat, count>>

\* delete_domain soft-deletes every scan of the name.
DeleteDomain(o, n) ==
    LET gone == {s \in Scans : /\ scan[s].owner = o /\ scan[s].name = n
                               /\ Committed(s) /\ ~scan[s].deleted} IN
    /\ gone # {}
    /\ scan' = [s \in Scans |-> IF s \in gone
                                THEN [scan[s] EXCEPT !.deleted = TRUE, !.stale = FALSE]
                                ELSE scan[s]]
    /\ UNCHANGED <<org, unpublished, cache, queue, worker, browserLock, beat, count>>

-----------------------------------------------------------------------------
(* Celery tasks *)

ScanOf(w) == worker[w].job.scan

At(w, task, steps) == worker[w].job.task = task /\ worker[w].pc \in steps

Goto(w, pc) == worker' = [worker EXCEPT ![w].pc = pc]

\* The task is over and its message acknowledged.
Finish(w) == worker' = [worker EXCEPT ![w] = Idle]

\* Worker w takes message j from the broker and enters the task at pc.
Receive(w, j, pc) ==
    /\ worker[w] = Idle
    /\ queue[j] > 0
    /\ queue' = [queue EXCEPT ![j] = @ - 1]
    /\ worker' = [worker EXCEPT ![w] =
                    [pc |-> pc, job |-> j,
                     seen |-> LET o == scan[j.scan].owner IN
                              [slug |-> Slug(o),
                               browser |-> o # NoOrg /\ org[o].plan \in BrowserPlans,
                               malware |-> scan[j.scan].malware]]]

\* self.retry, unless the broker refuses it too; after the last try the scan fails.
RetryOrFail(w, max) ==
    LET j == worker[w].job IN
    \/ /\ j.tries < max
       /\ Send([j EXCEPT !.tries = @ + 1])
       /\ UNCHANGED scan
    \/ /\ j.tries < max
       /\ UNCHANGED <<queue, scan>>
    \/ /\ j.tries >= max
       /\ Save(j.scan, Failed(j.scan))
       /\ UNCHANGED queue

\* trigger_scan takes the row whatever its status is.
TriggerBegin(w, j) ==
    /\ j.task = "trigger"
    /\ Receive(w, j, "fetch")
    /\ Save(j.scan, [scan[j.scan] EXCEPT !.status = "scanning"])
    /\ UNCHANGED <<org, unpublished, cache, browserLock, beat, count>>

\* The external API answered: its result is saved, and the status again with it.
TriggerFetched(w) ==
    /\ At(w, "trigger", {"fetch"})
    /\ Save(ScanOf(w), [scan[ScanOf(w)] EXCEPT !.status = "scanning", !.api = TRUE])
    /\ Goto(w, "publish")
    /\ UNCHANGED <<org, unpublished, cache, queue, browserLock, beat, count>>

\* Mutant of TriggerPublish: the next task is queued before the API has answered.
TriggerPublishEarly(w) ==
    /\ At(w, "trigger", {"fetch", "publish"})
    /\ Send([task |-> "process", scan |-> ScanOf(w), tries |-> 0,
             slug |-> worker[w].seen.slug])
    /\ Goto(w, "ack")
    /\ UNCHANGED <<org, scan, unpublished, cache, browserLock, beat, count>>

TriggerPublish(w) ==
    /\ At(w, "trigger", {"publish"})
    /\ Send([task |-> "process", scan |-> ScanOf(w), tries |-> 0,
             slug |-> worker[w].seen.slug])
    /\ Goto(w, "ack")
    /\ UNCHANGED <<org, scan, unpublished, cache, browserLock, beat, count>>

\* A private address, a refused or timed-out API call, or, until the message is
\* acknowledged, the soft time limit.
TriggerRejected(w) ==
    /\ At(w, "trigger", {"fetch", "publish", "ack"})
    /\ Save(ScanOf(w), Failed(ScanOf(w)))
    /\ Finish(w)
    /\ UNCHANGED <<org, unpublished, cache, queue, browserLock, beat, count>>

\* Mutant of TriggerError: an error after the next task was queued is retried as well.
TriggerErrorLate(w) ==
    /\ At(w, "trigger", {"fetch", "publish", "ack"})
    /\ RetryOrFail(w, MaxRetries)
    /\ Finish(w)
    /\ UNCHANGED <<org, unpublished, cache, browserLock, beat, count>>

\* Mutant of TriggerError: the retry is queued and the task goes on.
TriggerErrorGoesOn(w) ==
    /\ At(w, "trigger", {"fetch", "publish"})
    /\ RetryOrFail(w, MaxRetries)
    /\ UNCHANGED <<org, unpublished, cache, worker, browserLock, beat, count>>

\* An API server error, or the broker unreachable for the next task.  (A broker that took the
\* next message and lost its answer looks like a worker lost right after TriggerPublish.)
TriggerError(w) ==
    /\ At(w, "trigger", {"fetch", "publish"})
    /\ RetryOrFail(w, MaxRetries)
    /\ Finish(w)
    /\ UNCHANGED <<org, unpublished, cache, browserLock, beat, count>>

ProcessBegin(w, j) ==
    /\ j.task = "process"
    /\ Receive(w, j, "check")
    /\ UNCHANGED <<org, scan, unpublished, cache, browserLock, beat, count>>

\* The history of row s after process_scan_result found bad.
Judged(s, bad) ==
    IF scan[s].judged # "never" THEN "again" ELSE IF bad THEN "malware" ELSE "clean"

\* The checks ran (one that raised counts as clean) and the scan is completed.
ProcessChecked(w) ==
    /\ At(w, "process", {"check"})
    /\ \E bad \in Verdicts :
         /\ Save(ScanOf(w), [scan[ScanOf(w)] EXCEPT !.status = "completed", !.malware = bad,
                                                   !.judged = Judged(ScanOf(w), bad)])
         /\ worker' = [worker EXCEPT ![w] = [@ EXCEPT !.pc = "cache", !.seen.malware = bad]]
    /\ UNCHANGED <<org, unpublished, cache, queue, browserLock, beat, count>>

\* The Layer 1 verdict is cached; a failed cache write is only logged.
ProcessCached(w) ==
    LET k == worker[w].job.slug IN
    /\ At(w, "process", {"cache"})
    /\ \/ /\ k # "enterprise"
          /\ cache' = [cache EXCEPT ![<<k, scan[ScanOf(w)].name>>] =
                          IF worker[w].seen.malware THEN "malware" ELSE "clean"]
       \/ UNCHANGED cache
    /\ Goto(w, "chain")
    /\ UNCHANGED <<org, scan, unpublished, queue, browserLock, beat, count>>

ProcessChain(w) ==
    /\ At(w, "process", {"chain"})
    /\ IF worker[w].seen.browser
       THEN Send(NewJob("browser", ScanOf(w)))
       ELSE UNCHANGED queue
    /\ Goto(w, "mail")
    /\ UNCHANGED <<org, scan, unpublished, cache, browserLock, beat, count>>

\* The creator of the scan is read from the database and mailed, or not.
ProcessMail(w) ==
    /\ At(w, "process", {"mail"})
    /\ Goto(w, "ack")
    /\ UNCHANGED <<org, scan, unpublished, cache, queue, browserLock, beat, count>>

\* The completing save, the enqueue of the browser scan, or the query for the scan's creator
\* raised: the task is retried, in the last case beside a browser scan already queued.
ProcessError(w) ==
    /\ \/ At(w, "process", {"check"})
       \/ At(w, "process", {"chain"}) /\ worker[w].seen.browser
       \/ At(w, "process", {"mail"}) /\ scan[ScanOf(w)].owner # NoOrg
    /\ RetryOrFail(w, MaxRetries)
    /\ Finish(w)
    /\ UNCHANGED <<org, unpublished, cache, browserLock, beat, count>>

\* The soft time limit fails the scan, completed or not.
ProcessSoftLimit(w) ==
    /\ At(w, "process", {"check", "cache", "chain", "mail", "ack"})
    /\ Save(ScanOf(w), Failed(ScanOf(w)))
    /\ Finish(w)
    /\ UNCHANGED <<org, unpublished, cache, queue, browserLock, beat, count>>

\* Mutant of LockFree: the result of cache.add is ignored.
LockFreeIgnored(o) == TRUE

\* cache.add(lock_key) succeeds.
LockFree(o) == o \notin browserLock

\* run_browser_scan starts only with the organisation's lock.
BrowserBegin(w, j) ==
    /\ j.task = "browser"
    /\ scan[j.scan].owner \in Orgs /\ LockFree(scan[j.scan].owner)
    /\ Receive(w, j, "browse")
    /\ browserLock' = browserLock \cup {scan[j.scan].owner}
    /\ UNCHANGED <<org, scan, unpublished, cache, beat, count>>

\* Another browser scan of the organisation runs: this one is dropped, not retried.
BrowserSkip(w, j) ==
    /\ j.task = "browser"
    /\ worker[w] = Idle
    /\ queue[j] > 0
    /\ ~LockFree(scan[j.scan].owner)
    /\ queue' = [queue EXCEPT ![j] = @ - 1]
    /\ UNCHANGED <<org, scan, unpublished, cache, worker, browserLock, beat, count>>

\* Mutant of AfterBrowser: the finding is stored without raising the flag.
AfterBrowserUnflagged(seen, found) == seen

\* malware_detected as the task writes it back: what it read, or its own finding.
AfterBrowser(seen, found) == seen \/ found

BrowserSave(w) ==
    /\ At(w, "browser", {"browse"})
    /\ \E found \in Verdicts :
         Save(ScanOf(w), [scan[ScanOf(w)] EXCEPT
                            !.browser = found,
                            !.malware = AfterBrowser(worker[w].seen.malware, found)])
    /\ Goto(w, "unlock")
    /\ UNCHANGED <<org, unpublished, cache, queue, browserLock, beat, count>>

BrowserEnd(w) ==
    /\ At(w, "browser", {"unlock"})
    /\ Finish(w)
    /\ browserLock' = browserLock \ {scan[ScanOf(w)].owner}
    /\ UNCHANGED <<org, scan, unpublished, cache, queue, beat, count>>

\* The browser run raised: retried, or after the last try given up with an error result.
BrowserError(w) ==
    LET j == worker[w].job IN
    /\ At(w, "browser", {"browse"})
    /\ \/ /\ j.tries < MaxBrowserRetries
          /\ \/ Send([j EXCEPT !.tries = @ + 1])
             \/ UNCHANGED queue
          /\ UNCHANGED scan
       \/ /\ j.tries >= MaxBrowserRetries
          /\ Save(j.scan, [scan[j.scan] EXCEPT !.browser = FALSE])
          /\ UNCHANGED queue
    /\ Finish(w)
    /\ browserLock' = browserLock \ {scan[j.scan].owner}
    /\ UNCHANGED <<org, unpublished, cache, beat, count>>

\* The soft time limit replaces the result by an error, even one already saved.
BrowserSoftLimit(w) ==
    /\ At(w, "browser", {"browse", "unlock"})
    /\ Save(ScanOf(w), [scan[ScanOf(w)] EXCEPT !.browser = FALSE])
    /\ Finish(w)
    /\ browserLock' = browserLock \ {scan[ScanOf(w)].owner}
    /\ UNCHANGED <<org, unpublished, cache, queue, beat, count>>

\* The last step of trigger_scan and process_scan_result.
Acknowledge(w) ==
    /\ worker[w].pc = "ack"
    /\ Finish(w)
    /\ UNCHANGED <<org, scan, unpublished, cache, queue, browserLock, beat, count>>

\* The process dies: the broker delivers the unacknowledged message again.
WorkerLost(w) ==
    /\ worker[w] # Idle
    /\ losses[ScanOf(w)] < MaxLosses
    /\ losses' = [losses EXCEPT ![ScanOf(w)] = @ + 1]
    /\ Send(worker[w].job)
    /\ Finish(w)
    /\ UNCHANGED <<org, scan, unpublished, cache, browserLock, beat, planChanges>>

\* The hard time limit kills the task; Celery acknowledges the message.
HardTimeLimit(w) ==
    /\ worker[w] # Idle
    /\ Finish(w)
    /\ UNCHANGED <<org, scan, unpublished, cache, queue, browserLock, beat, count>>

-----------------------------------------------------------------------------
(* Beat jobs and time *)

\* updated_at passes 15 minutes.  trigger_scan writes the row when it starts and is
\* killed after 5 minutes, so a row it works on cannot get there.
GrowStale(s) ==
    /\ scan[s].status \in InFlight /\ ~scan[s].stale
    /\ \A w \in Workers : ~(ScanOf(w) = s /\ At(w, "trigger", Steps))
    /\ scan' = [scan EXCEPT ![s] = [@ EXCEPT !.stale = TRUE]]
    /\ UNCHANGED <<org, unpublished, cache, queue, worker, browserLock, beat, count>>

\* Mutant of Stale: a scan stuck in "scanning" is overlooked.
StaleQueued(s) == scan[s].status = "queued" /\ scan[s].stale

\* What cleanup_stale_scans selects.
Stale(s) == scan[s].status \in InFlight /\ scan[s].stale

CleanupSelect ==
    /\ cleanup = {}
    /\ cleanup' = {s \in Scans : Stale(s)}
    /\ cleanup' # {}
    /\ UNCHANGED <<org, scan, unpublished, cache, queue, worker, browserLock, resetting, count>>

\* The selected ids are failed by id: their status is not looked at again.
CleanupFail ==
    /\ cleanup # {}
    /\ scan' = [s \in Scans |-> IF s \in cleanup
                                THEN [Failed(s) EXCEPT !.stale = FALSE]
                                ELSE scan[s]]
    /\ cleanup' = {}
    /\ UNCHANGED <<org, unpublished, cache, queue, worker, browserLock, resetting, count>>

\* quota_reset_at is reached.
MonthPasses(o) ==
    /\ org[o].resetAt = "future" /\ org[o].period < MaxPeriods
    /\ org' = [org EXCEPT ![o].resetAt = "past"]
    /\ UNCHANGED <<scan, unpublished, cache, queue, worker, browserLock, beat, count>>

ResetSelect ==
    /\ resetting = {}
    /\ resetting' = {o \in Orgs : org[o].resetAt = "past"}
    /\ resetting' # {}
    /\ UNCHANGED <<org, scan, unpublished, cache, queue, worker, browserLock, cleanup, count>>

\* Mutant of Renewed: the quota is deducted instead of the usage cleared.
RenewedByDeduction(r) == [r EXCEPT !.used = @ - QuotaOf(r.plan), !.resetAt = "future",
                                   !.period = @ + 1, !.ceiling = QuotaOf(r.plan)]

\* An organisation at the start of a quota period.
Renewed(r) == [r EXCEPT !.used = 0, !.resetAt = "future", !.period = @ + 1,
                        !.ceiling = QuotaOf(r.plan)]

ResetUpdate ==
    /\ resetting # {}
    /\ org' = [o \in Orgs |-> IF o \in resetting THEN Renewed(org[o]) ELSE org[o]]
    /\ resetting' = {}
    /\ UNCHANGED <<scan, unpublished, cache, queue, worker, browserLock, cleanup, count>>

\* The job's last statement takes the organisations that never had a reset date.
ResetNull ==
    LET fresh == {o \in Orgs : org[o].resetAt = "null"} IN
    /\ fresh # {} /\ resetting = {}
    /\ org' = [o \in Orgs |-> IF o \in fresh THEN Renewed(org[o]) ELSE org[o]]
    /\ UNCHANGED <<scan, unpublished, cache, queue, worker, browserLock, beat, count>>

\* Billing or staff (the admin site) gives the organisation another plan.
ChangePlan(o, p) ==
    /\ planChanges < MaxPlanChanges /\ org[o].plan # p
    /\ planChanges' = planChanges + 1
    /\ org' = [org EXCEPT ![o].plan = p, ![o].ceiling = Wider(@, QuotaOf(p))]
    /\ UNCHANGED <<scan, unpublished, cache, queue, worker, browserLock, beat, losses>>

CacheExpires(e) ==
    /\ cache[e] # "miss"
    /\ cache' = [cache EXCEPT ![e] = "miss"]
    /\ UNCHANGED <<org, scan, unpublished, queue, worker, browserLock, beat, count>>

\* The 300 s lock outlives the 180 s limit of its task: it expires only when the holder is gone.
LockExpires(o) ==
    /\ o \in browserLock
    /\ \A w \in Workers : ~(At(w, "browser", Steps) /\ scan[ScanOf(w)].owner = o)
    /\ browserLock' = browserLock \ {o}
    /\ UNCHANGED <<org, scan, unpublished, cache, queue, worker, beat, count>>

-----------------------------------------------------------------------------
Request ==
    \/ \E s \in Scans, o \in Orgs, n \in Names :
          \E scheduled \in BOOLEAN : CreateBegin(s, o, n, scheduled)
    \/ \E s \in Scans, n \in Names : PublicBegin(s, n)
    \/ \E s \in Scans : CreateCommit(s) \/ CreateRejected(s) \/ PublicCommit(s)
    \/ \E s \in Scans : Publish(s) \/ PublishFails(s) \/ PublishLost(s)
    \/ \E o \in Orgs, n \in Names : DeleteDomain(o, n)

Deliver(w) ==
    \E j \in Job : TriggerBegin(w, j) \/ ProcessBegin(w, j)
                    \/ BrowserBegin(w, j) \/ BrowserSkip(w, j)

Run(w) ==
    \/ TriggerFetched(w) \/ TriggerPublish(w) \/ TriggerRejected(w) \/ TriggerError(w)
    \/ ProcessChecked(w) \/ ProcessCached(w) \/ ProcessChain(w) \/ ProcessMail(w)
    \/ ProcessError(w) \/ ProcessSoftLimit(w)
    \/ BrowserSave(w) \/ BrowserEnd(w) \/ BrowserError(w) \/ BrowserSoftLimit(w)
    \/ Acknowledge(w)

Beat ==
    \/ \E s \in Scans : GrowStale(s)
    \/ CleanupSelect \/ CleanupFail
    \/ \E o \in Orgs : MonthPasses(o) \/ LockExpires(o)
    \/ ResetSelect \/ ResetUpdate \/ ResetNull
    \/ \E e \in Slugs \X Names : CacheExpires(e)

Next ==
    \/ Request
    \/ \E w \in Workers : Deliver(w) \/ Run(w) \/ WorkerLost(w) \/ HardTimeLimit(w)
    \/ Beat
    \/ \E o \in Orgs, p \in Plans \cup {NoPlan} : ChangePlan(o, p)

Spec == Init /\ [][Next]_vars

(***************************************************************************)
(* Fairness.  Celery workers keep taking and running tasks (every task has *)
(* a time limit), the web process runs its hooks, time passes, and beat    *)
(* starts cleanup_stale_scans daily.  Nothing is assumed of requests, of   *)
(* errors, of the lock and cache expiries, or of the quota reset.          *)
(***************************************************************************)
Fairness ==
    /\ \A w \in Workers : WF_vars(Deliver(w)) /\ WF_vars(Run(w))
    /\ \A s \in Scans : WF_vars(Publish(s)) /\ WF_vars(GrowStale(s))
    /\ WF_vars(CleanupSelect) /\ WF_vars(CleanupFail)

FairSpec == Spec /\ Fairness

-----------------------------------------------------------------------------
(* Properties *)

\* Two scans of one organisation and one domain never wait in the queue together:
\* requests racing through create_scan are serialised by the organisation's row lock
\* and the second one sees the first one's row.
OneQueued ==
    \A s, t \in Scans :
        /\ scan[s].owner \in Orgs /\ scan[s].owner = scan[t].owner
        /\ scan[s].name = scan[t].name
        /\ scan[s].status = "queued" /\ scan[t].status = "queued"
        /\ ~scan[s].deleted /\ ~scan[t].deleted
        => s = t

\* An organisation never uses more scans in a quota period than the widest plan it
\* held in that period allows, whatever requests, plan changes and resets interleave.
QuotaRespected ==
    \A o \in Orgs : org[o].ceiling = Unlimited \/ org[o].used <= org[o].ceiling

\* scan_quota_used is the number of on-demand scans admitted in the current period:
\* no interleaving of a request with the quota reset loses or repeats a charge.
QuotaAccounted ==
    \A o \in Orgs :
        org[o].used = Cardinality({s \in Scans : /\ scan[s].owner = o
                                                /\ scan[s].billed = org[o].period})

\* A scan is only ever reported completed on the strength of an API result: its own, or,
\* through the cache, that of a scan of the same domain name, however the tasks are
\* redelivered, retried or failed and however cache entries are written and expire.
CompletedHasEvidence ==
    \A s \in Scans :
        scan[s].status = "completed" =>
            \/ scan[s].api
            \/ scan[s].cached /\ \E t \in Scans : scan[t].api /\ scan[t].name = scan[s].name

\* One organisation has at most one browser scan running: the cache lock excludes,
\* and it is not released by a task that did not get it.
BrowserExclusive ==
    \A v, w \in Workers :
        /\ At(v, "browser", Steps) /\ At(w, "browser", Steps)
        /\ scan[ScanOf(v)].owner = scan[ScanOf(w)].owner
        => v = w

\* A task that is executed and not only waiting for its acknowledgement.
Working(w) == worker[w] # Idle /\ worker[w].pc # "ack"

\* A job of the chain that brings a scan to its verdict; the browser scan only adds to it.
Carries(j) == j.task # "browser"

\* What may still bring scan s to its verdict: its hook, a message, a running task.
Carriers(s) ==
    (IF s \in unpublished THEN {<<"hook", s>>} ELSE {})
        \cup {<<"message", j>> : j \in {j \in Job : Carries(j) /\ j.scan = s /\ queue[j] > 0}}
        \cup {<<"worker", w>> : w \in {w \in Workers : /\ Working(w) /\ ScanOf(w) = s
                                                      /\ Carries(worker[w].job)}}

\* There is one carrier at most, and one copy of its message.
Single(s) ==
    /\ \A a, b \in Carriers(s) : a = b
    /\ \A j \in Job : Carries(j) /\ j.scan = s => queue[j] <= 1

\* A scan on its way to a verdict is in one pair of hands: through hooks, hand-overs, retries
\* and errors its trigger_scan and process_scan_result never run or wait side by side.  (A
\* browser scan may be under way meanwhile: an error after it was queued repeats
\* process_scan_result.  And the message of a lost worker is delivered again, perhaps beside
\* what the worker had already sent.)
OneCarrier == \A s \in Scans : losses[s] = 0 => Single(s)

\* While process_scan_result has judged a scan only once, the scan is flagged if either
\* scanner found malware: no browser task that saves the copy of the row it read minutes
\* before takes the flag back, whatever is retried, redelivered, timed out or given up.
\* (Judged again, after an error behind the hand-over or a lost worker, the flag is that of
\* the new verdict: process_scan_result does not look at the browser's finding.)
BrowserFindingKept ==
    \A s \in Scans :
        /\ scan[s].judged # "again"
        /\ scan[s].judged = "malware" \/ scan[s].browser
        => scan[s].malware

\* A scan that was reported completed is not put back to work: whatever is retried, timed
\* out, repeated or cleaned up, no late trigger_scan reaches it.  (After a worker was lost at the
\* scan, the redelivered trigger_scan may.)
CompletedStays ==
    [][\A s \in Scans : losses[s] = 0 /\ scan[s].status = "completed"
                           => scan'[s].status \in {"completed", "failed"}]_vars

\* Every scan comes to rest: after finitely many worker losses no scan stays queued or
\* scanning for ever, whichever hook, task or message was lost.
ScansSettle == <>[](\A s \in Scans : scan[s].status \notin InFlight)

\* What the CONFLICT answer "This domain is already being scanned." promises: an
\* organisation has at most one scan of a domain in flight.
OneInFlight ==
    \A s, t \in Scans :
        /\ scan[s].owner \in Orgs /\ scan[s].owner = scan[t].owner
        /\ scan[s].name = scan[t].name
        /\ scan[s].status \in InFlight /\ scan[t].status \in InFlight
        /\ ~scan[s].deleted /\ ~scan[t].deleted
        => s = t

\* What the log line of cleanup_stale_scans says of the scans it fails: they are stale.
CleanupFailsStale ==
    [][cleanup # {} /\ cleanup' = {} => \A s \in cleanup : scan[s].status \in InFlight]_vars

-----------------------------------------------------------------------------
(* Refinement: the pipeline implements ScanAdmission. *)

Waiting ==
    {s \in Scans : scan[s].owner \in Orgs /\ scan[s].status = "queued" /\ ~scan[s].deleted}

Admission == INSTANCE ScanAdmission WITH
    used <- [o \in Orgs |-> org[o].used],
    limit <- [o \in Orgs |-> QuotaOf(org[o].plan)],
    admitted <- {s \in Scans : Committed(s) /\ scan[s].owner \in Orgs},
    waiting <- {[scan |-> s, org |-> scan[s].owner, name |-> scan[s].name] : s \in Waiting}

\* Seen from an organisation, the two-step requests, the task queue and the beat jobs
\* behave like atomic admissions: one charge each, within the quota, one scan waiting
\* per domain, and none admitted twice.
ImplementsAdmission == Admission!Spec
=============================================================================
