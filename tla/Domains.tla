------------------------------- MODULE Domains --------------------------------
(***************************************************************************)
(* The monitored domains of one organisation: creation under the plan's    *)
(* quota, changes and deletion by concurrent requests, the status that     *)
(* finished scans write, and scans on schedule.                            *)
(*                                                                         *)
(* A request is one step per statement whose order with others matters.    *)
(* Creation holds the organisation's row lock; PATCH and DELETE hold none: *)
(* they read the domain and save it later.  Scans are seen from here only: *)
(* how one is admitted and run is in ScanPipeline.                         *)
(***************************************************************************)
EXTENDS Integers, FiniteSets

CONSTANTS
    Domains,        \* identities of Domain rows
    Names,          \* domain names
    Scans,          \* identities of Scan rows
    Runs,           \* executions of process_scan_result
    Requests,       \* requests in flight
    Nobody,         \* no request, no domain, no scan
    Plans,          \* plans the organisation may hold
    NoPlan,         \* organisation.plan is null
    DomainQuota,    \* Plan.domain_quota, -1 = unlimited
    ScheduledPlans, \* plans with scheduled_scans
    Findings,       \* what a scan may find, a set of subsets of Flags
    MaxPlanChanges  \* bound: plan changes in a behaviour

Unlimited == -1

Flags == {"malware", "blacklisted"}

ASSUME ConstantsAssumption ==
    /\ IsFiniteSet(Domains) /\ Names # {}
    /\ Nobody \notin Requests \cup Domains \cup Scans
    /\ NoPlan \notin Plans
    /\ DomainQuota \in [Plans -> Nat \cup {Unlimited}]
    /\ ScheduledPlans \subseteq Plans
    /\ Findings \subseteq SUBSET Flags
    /\ MaxPlanChanges \in Nat

VARIABLES
    plan, planChanges,  \* the organisation row
    lock,        \* the request that holds the organisation's row lock
    domain,      \* Domain rows
    request,     \* what each request is doing
    scan,        \* Scan rows
    run,         \* executions of process_scan_result from their save to the domain's update
    trigger,     \* trigger_scheduled_scan: at most one message or execution per domain
    reactivated  \* history: a PATCH has switched an inactive domain on

vars == <<plan, planChanges, lock, domain, request, scan, run, trigger, reactivated>>

org == <<plan, planChanges>>

DomainRow == [state: {"none", "live", "deleted"}, active: BOOLEAN, name: Names,
              status: {"unknown", "clean", "infected", "blacklisted"},
              lastScan: Scans \cup {Nobody}, nextScanAt: {"null", "past"}]

\* A scan completed from a cached verdict is "cached": no task has a message for it.
\* published: trigger_scan has sent process_scan_result on its way, for good, since a message
\* may be delivered again.  given: history, what the executions have found and saved.
ScanRow == [state: {"none", "cached", "queued", "scanning", "completed", "failed"},
            name: Names, published: BOOLEAN, given: SUBSET Findings, deleted: BOOLEAN]

\* An execution keeps its own copy of the scan, with what it has found.
RunState == [pc: {"none", "completed", "selected"}, scan: Scans \cup {Nobody},
             found: Findings \cup {{}}, domain: Domains \cup {Nobody}]

AnyName == CHOOSE n \in Names : TRUE

NoDomain == [state |-> "none", active |-> FALSE, name |-> AnyName, status |-> "unknown",
             lastScan |-> Nobody, nextScanAt |-> "null"]

NoScan == [state |-> "none", name |-> AnyName, published |-> FALSE, given |-> {},
           deleted |-> FALSE]

NoRun == [pc |-> "none", scan |-> Nobody, found |-> {}, domain |-> Nobody]

\* row is the copy of the domain that a PATCH has read and will save.
RequestState ==
    [pc: {"idle", "checked", "locked", "counted", "read"},
     op: {"none", "create", "activate", "deactivate", "delete"},
     domain: Domains \cup {Nobody}, name: Names, row: DomainRow]

Idle == [pc |-> "idle", op |-> "none", domain |-> Nobody, name |-> AnyName, row |-> NoDomain]

TriggerState == [pc: {"none", "queued", "read", "created"}, scan: Scans \cup {Nobody}]

NoTrigger == [pc |-> "none", scan |-> Nobody]

\* The type invariant.
TypeOK ==
    /\ plan \in Plans \cup {NoPlan} /\ planChanges \in 0..MaxPlanChanges
    /\ lock \in Requests \cup {Nobody}
    /\ domain \in [Domains -> DomainRow]
    /\ request \in [Requests -> RequestState]
    /\ scan \in [Scans -> ScanRow]
    /\ run \in [Runs -> RunState]
    /\ trigger \in [Domains -> TriggerState]
    /\ reactivated \in BOOLEAN

Init ==
    /\ plan \in Plans \cup {NoPlan} /\ planChanges = 0
    /\ lock = Nobody
    /\ domain = [d \in Domains |-> NoDomain]
    /\ request = [q \in Requests |-> Idle]
    /\ scan = [s \in Scans |-> NoScan]
    /\ run = [r \in Runs |-> NoRun]
    /\ trigger = [d \in Domains |-> NoTrigger]
    /\ reactivated = FALSE

Live == {d \in Domains : domain[d].state = "live"}

Monitored == {d \in Live : domain[d].active}

-----------------------------------------------------------------------------
(* create_domain *)

\* A plan with a domain quota: what create_domain and update_domain ask for, of the
\* organisation as the request has read it.
PlanWithDomains == plan # NoPlan /\ DomainQuota[plan] # 0

CreateCheck(q, n) ==
    /\ request[q].pc = "idle"
    /\ PlanWithDomains
    /\ request' = [request EXCEPT ![q] = [Idle EXCEPT !.pc = "checked", !.op = "create",
                                                      !.name = n]]
    /\ UNCHANGED <<org, lock, domain, scan, run, trigger, reactivated>>

\* Mutant of OrgLockFree: the organisation is read without select_for_update.
OrgLockNotTaken == TRUE

OrgLockFree == lock = Nobody

\* The organisation is read again, and locked.
CreateLock(q) ==
    /\ request[q].pc = "checked"
    /\ OrgLockFree
    /\ lock' = q
    /\ request' = [request EXCEPT ![q].pc = "locked"]
    /\ UNCHANGED <<org, domain, scan, run, trigger, reactivated>>

\* Under the lock the quota is asked of a plan only: a plan that was taken away since the
\* check leaves no limit.
DomainLimit == IF plan = NoPlan THEN Unlimited ELSE DomainQuota[plan]

HasDomainQuota == DomainLimit = Unlimited \/ Cardinality(Monitored) < DomainLimit

\* The request is over and its transaction, if it has one, ended.
End(q) ==
    /\ request' = [request EXCEPT ![q] = Idle]
    /\ lock' = IF lock = q THEN Nobody ELSE lock

\* The monitored domains are counted, or the request is refused.
CreateCount(q) ==
    /\ request[q].pc = "locked"
    /\ \/ /\ HasDomainQuota
          /\ request' = [request EXCEPT ![q].pc = "counted"]
          /\ UNCHANGED lock
       \/ ~HasDomainQuota /\ End(q)
    /\ UNCHANGED <<org, domain, scan, run, trigger, reactivated>>

NameTaken(n) == \E d \in Live : domain[d].name = n

Created(n) == [NoDomain EXCEPT !.state = "live", !.active = TRUE, !.name = n]

\* The row is committed; then _trigger_initial_scan publishes a message, or cannot.
CreateInsert(q, d) ==
    LET n == request[q].name IN
    /\ request[q].pc = "counted"
    /\ domain[d].state = "none" /\ ~NameTaken(n)
    /\ domain' = [domain EXCEPT ![d] = Created(n)]
    /\ \/ trigger' = [trigger EXCEPT ![d].pc = "queued"]
       \/ UNCHANGED trigger
    /\ End(q)
    /\ UNCHANGED <<org, scan, run, reactivated>>

\* The name is taken, also by an inactive domain, or the request fails otherwise.
CreateRefused(q) ==
    /\ request[q].pc \in {"checked", "counted"}
    /\ End(q)
    /\ UNCHANGED <<org, domain, scan, run, trigger, reactivated>>

-----------------------------------------------------------------------------
(* PATCH and DELETE of DomainDetailView *)

\* The copy that is saved later; DELETE saves deleted_at alone and needs none.
Kept(op, row) == IF op = "delete" THEN NoDomain ELSE row

\* get_object of the view finds active domains only; get_domain of the service reads the
\* same row again and minds its deletion only, so the two reads are one step here.
\* update_domain asks for a plan with a domain quota; delete_domain does not.
Read(q, d, op) ==
    /\ request[q].pc = "idle"
    /\ d \in Monitored
    /\ op # "delete" => PlanWithDomains
    /\ request' = [request EXCEPT ![q] = [Idle EXCEPT !.pc = "read", !.op = op, !.domain = d,
                                                      !.row = Kept(op, domain[d])]]
    /\ UNCHANGED <<org, lock, domain, scan, run, trigger, reactivated>>

\* Mutant of Patched: save() without update_fields writes the whole copy.
PatchedWhole(row, copy, active) == [copy EXCEPT !.active = active]

\* save(update_fields=...) writes the fields of the request only.
Patched(row, copy, active) == [row EXCEPT !.active = active]

PatchSave(q) ==
    LET d      == request[q].domain
        active == request[q].op = "activate" IN
    /\ request[q].pc = "read" /\ request[q].op # "delete"
    /\ domain' = [domain EXCEPT ![d] = Patched(@, request[q].row, active)]
    /\ reactivated' = (reactivated \/ (active /\ d \in Live /\ ~domain[d].active))
    /\ End(q)
    /\ UNCHANGED <<org, scan, run, trigger>>

\* delete_domain: the domain and every scan of its name are soft-deleted together.
DeleteSave(q) ==
    LET d == request[q].domain IN
    /\ request[q].pc = "read" /\ request[q].op = "delete"
    /\ domain' = [domain EXCEPT ![d].state = "deleted"]
    /\ scan' = [s \in Scans |->
                   IF scan[s].state # "none" /\ scan[s].name = domain[d].name
                   THEN [scan[s] EXCEPT !.deleted = TRUE] ELSE scan[s]]
    /\ End(q)
    /\ UNCHANGED <<org, run, trigger, reactivated>>

-----------------------------------------------------------------------------
(* Scans and the status they leave *)

InFlight(s) == scan[s].state \in {"queued", "scanning"}

BeingScanned(n) == \E s \in Scans : InFlight(s) /\ scan[s].name = n /\ ~scan[s].deleted

\* create_scan, refused while a scan of the name is in flight: a new scan waits in the
\* queue, or is completed at once from a cached verdict.
CreateScan(s, n) ==
    /\ scan[s].state = "none"
    /\ ~BeingScanned(n)
    /\ \E state \in {"queued", "cached"} :
         scan' = [scan EXCEPT ![s] = [NoScan EXCEPT !.state = state, !.name = n]]

\* DomainScanView, or a scan of the name by any user.
UserScan(s, n) ==
    /\ CreateScan(s, n)
    /\ UNCHANGED <<org, lock, domain, request, run, trigger, reactivated>>

\* trigger_scan saves "scanning" when it starts and with the API's answer, when it also
\* publishes process_scan_result.  It asks for no status: a message that comes back puts a
\* scan to work again that is completed or has failed.
ScanStarts(s) ==
    /\ scan[s].state \notin {"none", "cached"}
    /\ \E published \in {scan[s].published, TRUE} :
         scan' = [scan EXCEPT ![s].state = "scanning", ![s].published = published]
    /\ UNCHANGED <<org, lock, domain, request, run, trigger, reactivated>>

\* Soft time limits and last retries of both tasks, and the cleanup of stale scans, which
\* fails by id the scans it has selected: a scan may have its verdict by then.
ScanFails(s) ==
    /\ scan[s].state \in {"queued", "scanning", "completed"}
    /\ scan' = [scan EXCEPT ![s].state = "failed"]
    /\ UNCHANGED <<org, lock, domain, request, run, trigger, reactivated>>

\* process_scan_result saves what it has found, whatever the scan's status: a retry, a
\* redelivery or a message published again runs it once more on a scan with a verdict, also
\* beside an execution that is still at work.
RunCompletes(r, s) ==
    /\ run[r].pc = "none" /\ scan[s].published
    /\ \E found \in Findings :
         /\ scan' = [scan EXCEPT ![s].state = "completed", ![s].given = @ \cup {found}]
         /\ run' = [run EXCEPT ![r] = [NoRun EXCEPT !.pc = "completed", !.scan = s,
                                                    !.found = found]]
    /\ UNCHANGED <<org, lock, domain, request, trigger, reactivated>>

\* Mutant of Matching: any monitored domain of the organisation.
MatchingAny(n) == Monitored

Matching(n) == {d \in Monitored : domain[d].name = n}

\* process_scan_result looks for the monitored domain of the scan's name.
StatusSelect(r) ==
    /\ run[r].pc = "completed"
    /\ \/ \E d \in Matching(scan[run[r].scan].name) :
            run' = [run EXCEPT ![r].pc = "selected", ![r].domain = d]
       \/ Matching(scan[run[r].scan].name) = {} /\ run' = [run EXCEPT ![r] = NoRun]
    /\ UNCHANGED <<org, lock, domain, request, scan, trigger, reactivated>>

\* Mutant of StatusFrom: the alert's name for the finding, not one of last_status.
StatusFromAlert(found) == IF "malware" \in found THEN "malware_detected" ELSE "clean"

StatusFrom(found) == IF "malware" \in found THEN "infected"
                     ELSE IF "blacklisted" \in found THEN "blacklisted" ELSE "clean"

\* update_status_from_scan writes the verdict of the execution's own copy, by primary key,
\* whatever became of the rows.
StatusUpdate(r) ==
    /\ run[r].pc = "selected"
    /\ domain' = [domain EXCEPT ![run[r].domain].status = StatusFrom(run[r].found),
                                ![run[r].domain].lastScan = run[r].scan]
    /\ run' = [run EXCEPT ![r] = NoRun]
    /\ UNCHANGED <<org, lock, request, scan, trigger, reactivated>>

\* The worker is lost, a time limit strikes or a statement fails before the update; what
\* comes back of the message is another execution.
StatusLost(r) ==
    /\ run[r].pc # "none"
    /\ run' = [run EXCEPT ![r] = NoRun]
    /\ UNCHANGED <<org, lock, domain, request, scan, trigger, reactivated>>

-----------------------------------------------------------------------------
(* trigger_scheduled_scan and dispatch_scheduled_scans *)

\* The domain is monitored and its plan has scheduled scans, or the task returns.
TriggerRead(d) ==
    /\ trigger[d].pc = "queued"
    /\ trigger' = [trigger EXCEPT ![d].pc =
                      IF d \in Monitored /\ plan \in ScheduledPlans THEN "read" ELSE "none"]
    /\ UNCHANGED <<org, lock, domain, request, scan, run, reactivated>>

\* create_scan; when it is refused or fails the task is retried, at last given up.
TriggerScan(d) ==
    /\ trigger[d].pc = "read"
    /\ \/ \E s \in Scans :
            /\ CreateScan(s, domain[d].name)
            /\ trigger' = [trigger EXCEPT ![d] = [pc |-> "created", scan |-> s]]
       \/ \E pc \in {"queued", "none"} :
            trigger' = [trigger EXCEPT ![d].pc = pc] /\ UNCHANGED scan
    /\ UNCHANGED <<org, lock, domain, request, run, reactivated>>

\* save(update_fields=["last_scan", "updated_at"]).
TriggerSave(d) ==
    /\ trigger[d].pc = "created"
    /\ domain' = [domain EXCEPT ![d].lastScan = trigger[d].scan]
    /\ trigger' = [trigger EXCEPT ![d] = NoTrigger]
    /\ UNCHANGED <<org, lock, request, scan, run, reactivated>>

\* acks_late: the message of a lost worker comes back.
TriggerLost(d) ==
    /\ trigger[d].pc \in {"read", "created"}
    /\ trigger' = [trigger EXCEPT ![d] = [NoTrigger EXCEPT !.pc = "queued"]]
    /\ UNCHANGED <<org, lock, domain, request, scan, run, reactivated>>

\* next_scan_at <= now: false of the null that creation leaves and nothing replaces.
Due == {d \in Monitored : domain[d].nextScanAt = "past" /\ plan \in ScheduledPlans}

\* dispatch_scheduled_scans, which beat starts every 5 minutes.
Dispatch ==
    /\ trigger' = [d \in Domains |-> IF d \in Due /\ trigger[d].pc = "none"
                                     THEN [NoTrigger EXCEPT !.pc = "queued"]
                                     ELSE trigger[d]]
    /\ UNCHANGED <<org, lock, domain, request, scan, run, reactivated>>

\* The plan is changed or taken away; the update waits for the row lock.
ChangePlan(p) ==
    /\ lock = Nobody /\ planChanges < MaxPlanChanges /\ p # plan
    /\ plan' = p /\ planChanges' = planChanges + 1
    /\ UNCHANGED <<lock, domain, request, scan, run, trigger, reactivated>>

-----------------------------------------------------------------------------
RequestStep(q) ==
    \/ \E n \in Names : CreateCheck(q, n)
    \/ CreateLock(q) \/ CreateCount(q) \/ CreateRefused(q)
    \/ \E d \in Domains :
         \/ CreateInsert(q, d)
         \/ \E op \in {"activate", "deactivate", "delete"} : Read(q, d, op)
    \/ PatchSave(q) \/ DeleteSave(q)

TriggerStep(d) == TriggerRead(d) \/ TriggerScan(d) \/ TriggerSave(d)

ScanStep(s) == ScanStarts(s) \/ ScanFails(s) \/ \E r \in Runs : RunCompletes(r, s)

RunStep(r) == StatusSelect(r) \/ StatusUpdate(r)

Next ==
    \/ \E q \in Requests : RequestStep(q)
    \/ \E s \in Scans : ScanStep(s) \/ \E n \in Names : UserScan(s, n)
    \/ \E r \in Runs : RunStep(r) \/ StatusLost(r)
    \/ \E d \in Domains : TriggerStep(d) \/ TriggerLost(d)
    \/ Dispatch
    \/ \E p \in Plans \cup {NoPlan} : ChangePlan(p)

Spec == Init /\ [][Next]_vars

\* Beat starts the dispatch every 5 minutes and the workers run the tasks; nothing is assumed of the
\* requests, of their order or of losses.
FairSpec ==
    /\ Spec
    /\ WF_vars(Dispatch)
    /\ \A d \in Domains : WF_vars(TriggerStep(d))
    /\ \A s \in Scans : WF_vars(InFlight(s) /\ ScanStep(s))
    /\ \A r \in Runs : WF_vars(RunStep(r))

-----------------------------------------------------------------------------
(* Properties *)

\* A domain is only created within the quota of the plan held at that moment, however
\* many requests create domains at once -- until a PATCH that saw its domain active
\* switches it on again after another one had switched it off: PATCH takes no lock and
\* knows no quota.  An organisation whose plan was taken away has no limit.
CreatesWithinQuota ==
    [][(\E d \in Domains : domain[d].state = "none" /\ domain'[d].state = "live")
          => \/ reactivated \/ DomainLimit = Unlimited
             \/ Cardinality(Monitored') <= DomainLimit]_vars

\* What create_domain tells a client it refuses, "Domain monitoring requires a paid plan.":
\* a domain is created only while the organisation holds a plan with domains.
PlanRequired ==
    [][(\E d \in Domains : domain[d].state = "none" /\ domain'[d].state = "live")
          => PlanWithDomains]_vars

\* A deleted domain is never monitored again: no PATCH that read it before, no finished
\* scan and no scheduled task brings it back.
DeletedForGood ==
    [][\A d \in Domains : domain[d].state = "deleted" => domain'[d].state = "deleted"]_vars

\* The status of a domain is only replaced by the verdict of an execution that has selected
\* the domain: no request or task saves an older status over it.
StatusFromScans ==
    [][\A d \in Domains : domain'[d].status # domain[d].status =>
          \E r \in Runs : /\ run[r].pc = "selected" /\ run[r].domain = d
                          /\ domain'[d].status = StatusFrom(run[r].found)]_vars

\* What a domain shows comes from scans of its own name: the scan it links to, and a
\* scan one execution of which saved the verdict that its status says, although a scan
\* may be run again, and failed, after that.
OwnVerdict ==
    \A d \in Domains :
        /\ domain[d].lastScan # Nobody => scan[domain[d].lastScan].name = domain[d].name
        /\ domain[d].status # "unknown" =>
              \E s \in Scans : /\ scan[s].name = domain[d].name
                               /\ \E found \in scan[s].given :
                                     domain[d].status = StatusFrom(found)

\* What the field frequency, "daily" by default, promises: a domain that stays monitored
\* under a plan with scheduled scans is scheduled again and again.
ScheduledAgain ==
    \A d \in Domains : <>[](d \in Monitored /\ plan \in ScheduledPlans)
                          => []<>(trigger[d].pc = "queued")

-----------------------------------------------------------------------------
(* Refinement: the monitored domains implement QuotaGate. *)

Gate == INSTANCE QuotaGate WITH
    Items <- Domains,
    live <- Monitored,
    spent <- {d \in Domains : domain[d].state # "none"},
    limit <- DomainLimit,
    returned <- reactivated

\* Creations in several statements, saves of old copies, scans and scheduled tasks look like
\* a gate: a domain gets in once, while there is room under the plan of that moment, and past
\* the gate only as a PATCH that read it while it was monitored switches it on again.  The
\* gate is open while the organisation has no plan: create_domain has asked for one, but
\* before the lock.
ImplementsQuotaGate == Gate!Spec
=============================================================================
