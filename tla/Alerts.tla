-------------------------------- MODULE Alerts --------------------------------
(***************************************************************************)
(* The alerts of one organisation (every query of the code filters by      *)
(* organisation, so two organisations never meet).  A run is one execution *)
(* of a task that raises alerts: the alert part of process_scan_result or  *)
(* of run_browser_scan, or check_tls_expiry at one domain.  Tasks run in   *)
(* autocommit mode, so a run is one step per statement or per atomic       *)
(* block, and runs, users and domain changes interleave between them.      *)
(*                                                                         *)
(* A run raises at most one alert per type, which identifies an alert row  *)
(* by the run and the type.  A redelivered or retried task is another run. *)
(***************************************************************************)
EXTENDS Integers, FiniteSets

CONSTANTS
    Sites,       \* domain names that are scanned
    Domains,     \* identities of Domain rows
    NoDomain,    \* the null foreign key of an alert
    Users,       \* users of the organisation
    Runs,        \* executions of tasks that raise alerts
    Conditions   \* alert types for which the scans may find a reason

AlertTypes == {"malware_detected", "blacklisted", "tls_expiring", "missing_headers"}

\* The alerts a clean scan resolves.
AutoResolved == {"malware_detected", "blacklisted"}

ASSUME ConstantsAssumption ==
    /\ NoDomain \notin Domains
    /\ Conditions \subseteq AlertTypes
    /\ IsFiniteSet(Runs)
    /\ "nobody" \notin Users /\ "clean scan" \notin Users
    /\ Sites # {}

VARIABLES
    domain,   \* Domain rows: the name and where the row is in its life
    alert,    \* Alert rows
    run       \* what each run is doing

vars == <<domain, alert, run>>

Alerts == Runs \X AlertTypes

Order == [malware_detected |-> 1, blacklisted |-> 2, tls_expiring |-> 3,
          missing_headers |-> 4]

DomainRow == [name: Sites, state: {"none", "live", "deleted", "purged"}]

\* site is the domain name of the scan that raised the alert; critical is the severity.
AlertRow == [state: {"none", "open", "resolved"}, domain: Domains \cup {NoDomain},
             site: Sites, critical: BOOLEAN, by: Users \cup {"nobody", "clean scan"}]

\* known and settled are history: the alerts that existed, and those resolved already,
\* when the run started.  failed says that the run lost its insert to a database error.
RunState ==
    [kind: {"none", "scan", "browser", "tls"},
     pc: {"new", "look", "check", "insert", "resolve", "get", "create", "refetch",
          "update", "done", "dead"},
     site: Sites, domain: Domains \cup {NoDomain},
     reasons: SUBSET AlertTypes, todo: SUBSET AlertTypes, fresh: SUBSET AlertTypes,
     target: Alerts \cup {<<>>}, failed: BOOLEAN,
     known: SUBSET Alerts, settled: SUBSET Alerts]

\* The type invariant.
TypeOK ==
    /\ domain \in [Domains -> DomainRow]
    /\ alert \in [Alerts -> AlertRow]
    /\ run \in [Runs -> RunState]

AnySite == CHOOSE s \in Sites : TRUE

NewRun == [kind |-> "none", pc |-> "new", site |-> AnySite, domain |-> NoDomain,
           reasons |-> {}, todo |-> {}, fresh |-> {}, target |-> <<>>,
           failed |-> FALSE, known |-> {}, settled |-> {}]

NoAlert == [state |-> "none", domain |-> NoDomain, site |-> AnySite,
            critical |-> FALSE, by |-> "nobody"]

Init ==
    /\ domain = [d \in Domains |-> [name |-> AnySite, state |-> "none"]]
    /\ alert = [a \in Alerts |-> NoAlert]
    /\ run = [r \in Runs |-> NewRun]

-----------------------------------------------------------------------------
(* Reading the tables *)

Live(d) == domain[d].state = "live"

\* Foreign key of the monitored domain with this name, or null.
DomainObj(s) ==
    IF \E d \in Domains : Live(d) /\ domain[d].name = s
    THEN CHOOSE d \in Domains : Live(d) /\ domain[d].name = s
    ELSE NoDomain

OpenAlerts(d, t) ==
    {a \in Alerts : alert[a].state = "open" /\ alert[a].domain = d /\ a[2] = t}

\* A null domain is matched like any other value here ...
OpenAlertExists(d, t) == OpenAlerts(d, t) # {}

\* Mutant of Conflicts: the table has no partial unique index.
ConflictsNever(d, t) == FALSE

\* ... but nulls are distinct in the unique index unique_active_alert_per_type.
Conflicts(d, t) == d # NoDomain /\ OpenAlertExists(d, t)

First(types) == CHOOSE t \in types : \A u \in types : Order[t] <= Order[u]

\* Mutant of Row: the alert is given the domain's name for its foreign key.
RowByName(r, critical) == [state |-> "open", domain |-> run[r].site, site |-> run[r].site,
                           critical |-> critical, by |-> "nobody"]

Row(r, critical) == [state |-> "open", domain |-> run[r].domain, site |-> run[r].site,
                     critical |-> critical, by |-> "nobody"]

ResolvedBy(a, who) == [alert[a] EXCEPT !.state = "resolved", !.by = who]

Existing == {a \in Alerts : alert[a].state # "none"}
Settled  == {a \in Alerts : alert[a].state = "resolved"}

-----------------------------------------------------------------------------
(* A run *)

At(r, kinds, pc) == run[r].kind \in kinds /\ run[r].pc = pc

Goto(r, pc) == run' = [run EXCEPT ![r].pc = pc]

Start(r, k, s, reasons, pc, d) ==
    /\ run[r].pc = "new"
    /\ run' = [run EXCEPT ![r] = [NewRun EXCEPT
                  !.kind = k, !.pc = pc, !.site = s, !.reasons = reasons, !.domain = d,
                  !.known = Existing, !.settled = Settled]]
    /\ UNCHANGED <<domain, alert>>

\* process_scan_result has completed a scan of site s and calls generate_alerts_from_scan.
ScanStart(r, s, reasons) == Start(r, "scan", s, reasons, "look", NoDomain)

\* run_browser_scan has saved a finding; without one generate_browser_alerts returns at once.
BrowserStart(r, s) == Start(r, "browser", s, {"malware_detected"}, "look", NoDomain)

\* _get_domain_obj.
Look(r) ==
    /\ At(r, {"scan", "browser"}, "look")
    /\ run' = [run EXCEPT ![r] = [@ EXCEPT !.domain = DomainObj(run[r].site),
                                           !.todo = run[r].reasons, !.pc = "check"]]
    /\ UNCHANGED <<domain, alert>>

\* One _open_alert_exists query per reason, in the order of the code.
ScanCheck(r) ==
    LET t == First(run[r].todo) IN
    /\ At(r, {"scan"}, "check") /\ run[r].todo # {}
    /\ run' = [run EXCEPT
                  ![r].todo = @ \ {t},
                  ![r].fresh = IF OpenAlertExists(run[r].domain, t) THEN @ ELSE @ \cup {t}]
    /\ UNCHANGED <<domain, alert>>

ReadyToInsert(r) == At(r, {"scan"}, "check") /\ run[r].todo = {} /\ run[r].fresh # {}

\* Mutant of Stored: one conflict aborts the whole insert (and is logged).
StoredAllOrNothing(r) ==
    IF \E t \in run[r].fresh : Conflicts(run[r].domain, t) THEN {} ELSE run[r].fresh

\* bulk_create with ignore_conflicts: the types whose rows are stored.
Stored(r) == {t \in run[r].fresh : ~Conflicts(run[r].domain, t)}

ScanInsert(r) ==
    /\ ReadyToInsert(r)
    /\ alert' = [a \in Alerts |-> IF a[1] = r /\ a[2] \in Stored(r)
                                  THEN Row(r, a[2] \in AutoResolved)
                                  ELSE alert[a]]
    /\ Goto(r, "resolve")
    /\ UNCHANGED domain

\* The insert raised: logged, and the function goes on.
ScanInsertFails(r) ==
    /\ ReadyToInsert(r)
    /\ run' = [run EXCEPT ![r] = [@ EXCEPT !.failed = TRUE, !.pc = "resolve"]]
    /\ UNCHANGED <<domain, alert>>

\* Neither malware nor a blacklist entry, and a monitored domain.
CleanScan(r) == run[r].reasons \cap AutoResolved = {} /\ run[r].domain # NoDomain

\* What _auto_resolve_clean_alerts updates.
CleanlyResolved(r) ==
    {a \in Alerts : /\ alert[a].state = "open"
                    /\ alert[a].domain = run[r].domain
                    /\ a[2] \in AutoResolved}

ScanResolve(r) ==
    /\ \/ At(r, {"scan"}, "resolve")
       \/ At(r, {"scan"}, "check") /\ run[r].todo = {} /\ run[r].fresh = {}
    /\ alert' = [a \in Alerts |-> IF CleanScan(r) /\ a \in CleanlyResolved(r)
                                  THEN ResolvedBy(a, "clean scan")
                                  ELSE alert[a]]
    /\ Goto(r, "done")
    /\ UNCHANGED domain

\* generate_browser_alerts: return if an alert is open.
BrowserCheck(r) ==
    /\ At(r, {"browser"}, "check")
    /\ Goto(r, IF OpenAlertExists(run[r].domain, "malware_detected") THEN "done"
                                                                     ELSE "insert")
    /\ UNCHANGED <<domain, alert>>

\* A row that conflicts is refused, which is logged.
BrowserInsert(r) ==
    /\ At(r, {"browser"}, "insert")
    /\ alert' = IF Conflicts(run[r].domain, "malware_detected") THEN alert
                ELSE [alert EXCEPT ![<<r, "malware_detected">>] = Row(r, TRUE)]
    /\ Goto(r, "done")
    /\ UNCHANGED domain

BrowserInsertFails(r) ==
    /\ At(r, {"browser"}, "insert")
    /\ run' = [run EXCEPT ![r] = [@ EXCEPT !.failed = TRUE, !.pc = "done"]]
    /\ UNCHANGED <<domain, alert>>

-----------------------------------------------------------------------------
(* check_tls_expiry at one domain whose certificate is about to expire *)

TlsStart(r, d) ==
    /\ Live(d)
    /\ Start(r, "tls", domain[d].name, {"tls_expiring"}, "get", d)

\* The get of get_or_create, and again after a conflict: no lock is taken.
TlsGet(r) ==
    /\ run[r].pc \in {"get", "refetch"}
    /\ IF OpenAlertExists(run[r].domain, "tls_expiring")
       THEN \E a \in OpenAlerts(run[r].domain, "tls_expiring") :
              run' = [run EXCEPT ![r] = [@ EXCEPT !.target = a, !.pc = "update"]]
       ELSE Goto(r, IF run[r].pc = "get" THEN "create" ELSE "done")
    /\ UNCHANGED <<domain, alert>>

TlsCreate(r) ==
    /\ At(r, {"tls"}, "create")
    /\ \/ /\ ~Conflicts(run[r].domain, "tls_expiring")
          /\ \E critical \in BOOLEAN :
               alert' = [alert EXCEPT ![<<r, "tls_expiring">>] = Row(r, critical)]
          /\ Goto(r, "done")
       \/ /\ Conflicts(run[r].domain, "tls_expiring")
          /\ Goto(r, "refetch")
          /\ UNCHANGED alert
    /\ UNCHANGED domain

\* update_fields: severity and texts only, whatever happened to the row since it was read.
Refreshed(row, critical) == [row EXCEPT !.critical = critical]

TlsUpdate(r) ==
    /\ At(r, {"tls"}, "update")
    /\ \E critical \in BOOLEAN :
         alert' = [alert EXCEPT ![run[r].target] = Refreshed(@, critical)]
    /\ Goto(r, "done")
    /\ UNCHANGED domain

\* The worker is killed or lost, or the statement fails and the error is logged.
RunDies(r) ==
    /\ run[r].pc \notin {"new", "done", "dead"}
    /\ Goto(r, "dead")
    /\ UNCHANGED <<domain, alert>>

-----------------------------------------------------------------------------
(* Users *)

\* resolve_alert, under the row's lock; a resolved alert is returned unchanged.
ResolveAlert(u, a) ==
    /\ alert[a].state = "open"
    /\ alert' = [alert EXCEPT ![a] = ResolvedBy(a, u)]
    /\ UNCHANGED <<domain, run>>

\* Mutant of Resolvable: bulk_resolve updates every selected row.
ResolvableAny(ids) == {a \in ids : alert[a].state # "none"}

Resolvable(ids) == {a \in ids : alert[a].state = "open"}

\* bulk_resolve_alerts on the ids a user selected.
BulkResolve(u, ids) ==
    /\ Resolvable(ids) # {}
    /\ alert' = [a \in Alerts |-> IF a \in Resolvable(ids) THEN ResolvedBy(a, u)
                                                          ELSE alert[a]]
    /\ UNCHANGED <<domain, run>>

\* create_domain: a new row; a live one of that name is refused.
Monitor(d, s) ==
    /\ domain[d].state = "none"
    /\ DomainObj(s) = NoDomain
    /\ domain' = [domain EXCEPT ![d] = [name |-> s, state |-> "live"]]
    /\ UNCHANGED <<alert, run>>

\* delete_domain soft-deletes the row; its alerts keep pointing at it.
DeleteDomain(d) ==
    /\ Live(d)
    /\ domain' = [domain EXCEPT ![d].state = "deleted"]
    /\ UNCHANGED <<alert, run>>

\* purge_expired_data, 90 days later (no task lives that long): SET_NULL on the alerts.
PurgeDomain(d) ==
    /\ domain[d].state = "deleted"
    /\ \A r \in Runs : run[r].domain = d => run[r].pc \in {"done", "dead"}
    /\ domain' = [domain EXCEPT ![d].state = "purged"]
    /\ alert' = [a \in Alerts |-> IF alert[a].domain = d
                                  THEN [alert[a] EXCEPT !.domain = NoDomain]
                                  ELSE alert[a]]
    /\ UNCHANGED run

-----------------------------------------------------------------------------
Begin(r) ==
    \/ \E s \in Sites, reasons \in SUBSET Conditions : ScanStart(r, s, reasons)
    \/ \E s \in Sites : BrowserStart(r, s)
    \/ \E d \in Domains : TlsStart(r, d)

Step(r) ==
    \/ Look(r)
    \/ ScanCheck(r) \/ ScanInsert(r) \/ ScanInsertFails(r) \/ ScanResolve(r)
    \/ BrowserCheck(r) \/ BrowserInsert(r) \/ BrowserInsertFails(r)
    \/ TlsGet(r) \/ TlsCreate(r) \/ TlsUpdate(r)
    \/ RunDies(r)

People ==
    \/ \E u \in Users, a \in Alerts : ResolveAlert(u, a)
    \/ \E u \in Users, ids \in SUBSET Existing : BulkResolve(u, ids)
    \/ \E d \in Domains, s \in Sites : Monitor(d, s)
    \/ \E d \in Domains : DeleteDomain(d) \/ PurgeDomain(d)

Next == (\E r \in Runs : Begin(r) \/ Step(r)) \/ People

Spec == Init /\ [][Next]_vars

-----------------------------------------------------------------------------
(* Properties *)

\* A monitored domain has at most one open alert of a type: two runs that both found
\* none open are kept apart by the unique index, on every path that inserts.
OneOpenAlert ==
    \A a, b \in Alerts :
        /\ alert[a].state = "open" /\ alert[b].state = "open"
        /\ alert[a].domain = alert[b].domain /\ alert[a].domain # NoDomain
        /\ a[2] = b[2]
        => a = b

\* What a scan of a monitored domain found is not lost: when its alert part is over,
\* each finding has an alert that was open at some moment since it started, its own or
\* one that another run raised first (unless its insert failed or the worker died).
FindingsReported ==
    \A r \in Runs :
        /\ run[r].pc \in {"resolve", "done"} /\ ~run[r].failed
        /\ run[r].domain # NoDomain /\ domain[run[r].domain].state # "purged"
        /\ run[r].kind \in {"scan", "browser"}
        => \A t \in run[r].reasons :
             \E a \in Alerts : /\ a[2] = t
                               /\ alert[a].state # "none"
                               /\ alert[a].domain = run[r].domain
                               /\ a \notin run[r].settled

\* A resolution is final: a resolved alert never opens again and keeps the one who
\* resolved it first, whatever was read from the row before it was resolved.
ResolutionFinal ==
    [][\A a \in Alerts : alert[a].state = "resolved" =>
          alert'[a].state = "resolved" /\ alert'[a].by = alert[a].by]_vars

\* What the note "Auto-resolved: clean scan completed." says of an alert: the clean scan
\* completed after the alert had been raised.
ResolvedByLaterScan ==
    [][\A r \in Runs, a \in Alerts :
          /\ run[r].kind = "scan" /\ run[r].pc # "done" /\ run'[r].pc = "done"
          /\ alert[a].state = "open" /\ alert'[a].by = "clean scan"
          => a \in run[r].known]_vars

\* What the name of the constraint unique_active_alert_per_type says, of every alert.
UniqueActiveAlertPerType ==
    \A a, b \in Alerts :
        /\ alert[a].state = "open" /\ alert[b].state = "open"
        /\ alert[a].domain = alert[b].domain
        /\ a[2] = b[2]
        => a = b
=============================================================================
