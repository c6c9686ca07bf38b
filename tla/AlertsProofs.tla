----------------------------- MODULE AlertsProofs -----------------------------
(***************************************************************************)
(* Theorems about Alerts, for every set of sites, domains, users and runs: *)
(* the type invariant, that a monitored domain has one open alert of a     *)
(* type, that a resolution is final, and that no finding of a monitored    *)
(* domain is lost.                                                         *)
(***************************************************************************)
EXTENDS Alerts, TLAPS

\* Where a run of each kind may be.
PcOf(kind) ==
    CASE kind = "none"    -> {"new"}
      [] kind = "scan"    -> {"look", "check", "resolve", "done", "dead"}
      [] kind = "browser" -> {"look", "check", "insert", "done", "dead"}
      [] kind = "tls"     -> {"get", "create", "refetch", "update", "done", "dead"}

\* Before its insert a run has raised no alert.
Before == {"new", "look", "check", "insert", "get", "create", "refetch"}

Unraised ==
    \A r \in Runs : run[r].pc \in Before => \A t \in AlertTypes : alert[<<r, t>>].state = "none"

\* What was resolved when a run started still is, and is none of its own alerts.
SettledBefore(r, row) == \A a \in row.settled : alert[a].state = "resolved" /\ a[1] # r

\* An alert of type t of domain d, not among those of S.
ReportedAt(d, S, t) ==
    \E a \in Alerts : /\ a[2] = t /\ alert[a].state # "none" /\ alert[a].domain = d
                      /\ a \notin S

\* The findings a run still has to check or to insert.
Pending(row) ==
    IF row.kind = "scan" /\ row.pc = "check" THEN row.todo \cup row.fresh
    ELSE IF row.kind = "browser" /\ row.pc \in {"check", "insert"} THEN row.reasons
    ELSE {}

\* A run of a monitored domain that is not purged.
Reporting(row) ==
    /\ row.kind \in {"scan", "browser"} /\ row.pc \in {"check", "insert", "resolve", "done"}
    /\ ~row.failed
    /\ row.domain # NoDomain /\ domain[row.domain].state # "purged"

\* Each finding is still to be dealt with, or is reported.
Answered(row) ==
    Reporting(row) => \A t \in row.reasons :
                         t \in Pending(row) \/ ReportedAt(row.domain, row.settled, t)

\* A browser scan raises alerts of one type.
WellRun(row) ==
    row.pc \in PcOf(row.kind) /\ (row.kind = "browser" => row.reasons = {"malware_detected"})

\* The inductive invariant.
Running == \A r \in Runs : WellRun(run[r])

Answering == \A r \in Runs : SettledBefore(r, run[r]) /\ Answered(run[r])

AlertsInv == TypeOK /\ Running /\ Unraised /\ Answering /\ OneOpenAlert

-----------------------------------------------------------------------------
(* Helpers *)

LEMMA AnySiteType == AnySite \in Sites
  BY ConstantsAssumption DEF AnySite

LEMMA BlankTypes ==
  /\ NoAlert \in AlertRow /\ NoAlert.state = "none"
  /\ NewRun \in RunState /\ NewRun.kind = "none" /\ NewRun.pc = "new" /\ NewRun.settled = {}
  <1>1. NoAlert \in AlertRow /\ NoAlert.state = "none"
    BY AnySiteType DEF NoAlert, AlertRow
  <1>2. NewRun \in RunState /\ NewRun.kind = "none" /\ NewRun.pc = "new" /\ NewRun.settled = {}
    BY AnySiteType DEF NewRun, RunState
  <1> QED
    BY <1>1, <1>2

\* The alert rows are the pairs of a run and a type.
LEMMA AlertPairs ==
  /\ \A r \in Runs, t \in AlertTypes : <<r, t>> \in Alerts
  /\ \A a \in Alerts : a[1] \in Runs /\ a[2] \in AlertTypes /\ a = <<a[1], a[2]>>
  BY DEF Alerts

\* The code's order of the checks has a first among any reasons.
LEMMA FirstType ==
  ASSUME NEW types \in SUBSET AlertTypes, types # {}
  PROVE  First(types) \in types
<1>1. \E t \in types : \A u \in types : Order[t] <= Order[u]
  <2> USE DEF AlertTypes, Order
  <2>1. CASE "malware_detected" \in types
    BY <2>1
  <2>2. CASE "malware_detected" \notin types /\ "blacklisted" \in types
    BY <2>2
  <2>3. CASE "malware_detected" \notin types /\ "blacklisted" \notin types /\ "tls_expiring" \in types
    BY <2>3
  <2>4. CASE types = {"missing_headers"}
    BY <2>4
  <2> QED
    BY <2>1, <2>2, <2>3, <2>4
<1> QED
  BY <1>1 DEF First

LEMMA DomainObjType == ASSUME NEW s PROVE DomainObj(s) \in Domains \cup {NoDomain}
  BY DEF DomainObj

-----------------------------------------------------------------------------
(* What the steps do to the alerts *)

\* Whether and by whom the alert is resolved stays; it may lose a purged domain.
AlertKept(a) ==
    /\ alert'[a].state = alert[a].state /\ alert'[a].by = alert[a].by
    /\ \/ alert'[a].domain = alert[a].domain
       \/ alert'[a].domain = NoDomain /\ alert[a].domain \in Domains
          /\ domain'[alert[a].domain].state = "purged"

AlertResolved(a) ==
    /\ alert[a].state = "open" /\ alert'[a].state = "resolved"
    /\ alert'[a].domain = alert[a].domain

\* The run raises the alert; the unique index has let it.
AlertRaised(a) ==
    /\ alert[a].state = "none" /\ alert'[a].state = "open"
    /\ alert'[a].domain = run[a[1]].domain
    /\ ~Conflicts(run[a[1]].domain, a[2])
    /\ run'[a[1]] # run[a[1]] /\ run'[a[1]].pc \in {"resolve", "done"}

AlertStep(a) == AlertKept(a) \/ AlertResolved(a) \/ AlertRaised(a)

\* Only one run raises alerts at a time.
OneRaises == \A a, b \in Alerts : AlertRaised(a) /\ AlertRaised(b) => a[1] = b[1]

\* Alerts raised by r, all of the same kind.
Raises(r, types, row) ==
    /\ \A a \in Alerts : alert'[a] = IF a[1] = r /\ a[2] \in types THEN row[a] ELSE alert[a]
    /\ \A a \in Alerts : /\ row[a] \in AlertRow /\ row[a].state = "open"
                         /\ row[a].domain = run[r].domain
    /\ \A t \in types : ~Conflicts(run[r].domain, t)
    /\ run[r].pc \in Before
    /\ run'[r].pc \in {"resolve", "done"} /\ \A q \in Runs : q # r => run'[q] = run[q]

LEMMA RaiseSteps ==
  ASSUME AlertsInv, NEW r \in Runs, NEW types, NEW row, Raises(r, types, row),
         alert' = [a \in Alerts |-> alert'[a]]
  PROVE  /\ alert' \in [Alerts -> AlertRow] /\ \A a \in Alerts : AlertStep(a)
         /\ OneRaises
<1>1. alert \in [Alerts -> AlertRow]
  BY DEF AlertsInv, TypeOK
<1>2. alert' \in [Alerts -> AlertRow]
  <2>1. \A a \in Alerts : alert'[a] \in AlertRow
    BY <1>1 DEF Raises
  <2> QED
    BY <2>1
<1>3. ASSUME NEW a \in Alerts, ~(a[1] = r /\ a[2] \in types) PROVE AlertKept(a)
  BY <1>3 DEF Raises, AlertKept
<1>4. ASSUME NEW a \in Alerts, a[1] = r, a[2] \in types PROVE AlertRaised(a)
  <2>1. alert[a].state = "none"
    BY <1>4, AlertPairs DEF AlertsInv, Unraised, Raises
  <2>2. run'[a[1]] # run[a[1]]
    BY <1>4 DEF Raises, Before
  <2> QED
    BY <1>4, <2>1, <2>2 DEF Raises, AlertRaised
<1>5. OneRaises
  BY DEF OneRaises, AlertRaised, Raises
<1> QED
  BY <1>2, <1>3, <1>4, <1>5 DEF AlertStep

LEMMA RowType ==
  ASSUME TypeOK, NEW r \in Runs, NEW critical \in BOOLEAN
  PROVE  /\ Row(r, critical) \in AlertRow /\ Row(r, critical).state = "open"
         /\ Row(r, critical).domain = run[r].domain
<1>1. run[r].domain \in Domains \cup {NoDomain} /\ run[r].site \in Sites
  BY DEF TypeOK, RunState
<1> QED
  BY <1>1 DEF Row, AlertRow

LEMMA ScanInsertRaises ==
  ASSUME AlertsInv, NEW r \in Runs, ScanInsert(r)
  PROVE  /\ alert' \in [Alerts -> AlertRow] /\ \A a \in Alerts : AlertStep(a)
         /\ OneRaises
<1> DEFINE row == [a \in Alerts |-> Row(r, a[2] \in AutoResolved)]
<1>1. TypeOK /\ run \in [Runs -> RunState]
  BY DEF AlertsInv, TypeOK
<1>2. \A a \in Alerts : /\ row[a] \in AlertRow /\ row[a].state = "open"
                        /\ row[a].domain = run[r].domain
  <2>1. ASSUME NEW a \in Alerts
        PROVE  row[a] \in AlertRow /\ row[a].state = "open" /\ row[a].domain = run[r].domain
    <3> PICK c : c = (a[2] \in AutoResolved)
      OBVIOUS
    <3>1. row[a] = Row(r, c) /\ c \in BOOLEAN
      OBVIOUS
    <3> QED
      BY <1>1, <3>1, RowType
  <2> QED
    BY <2>1
<1>3. \A a \in Alerts : alert'[a] = IF a[1] = r /\ a[2] \in Stored(r) THEN row[a] ELSE alert[a]
  BY DEF ScanInsert
<1>4. alert' = [a \in Alerts |-> alert'[a]]
  BY DEF ScanInsert
<1>5. \A t \in Stored(r) : ~Conflicts(run[r].domain, t)
  BY DEF Stored
<1>6. run[r].pc \in Before
  BY DEF ScanInsert, ReadyToInsert, At, Before
<1>7. run'[r].pc \in {"resolve", "done"} /\ \A q \in Runs : q # r => run'[q] = run[q]
  BY <1>1 DEF ScanInsert, Goto, RunState
<1> HIDE DEF row
<1>8. Raises(r, Stored(r), row)
  BY <1>2, <1>3, <1>5, <1>6, <1>7 DEF Raises
<1> PICK types : types = Stored(r)
  OBVIOUS
<1> QED
  BY <1>4, <1>8, RaiseSteps

\* The insert of one row by a run.
LEMMA OneInsertRaises ==
  ASSUME AlertsInv, NEW r \in Runs, NEW t \in AlertTypes, NEW critical \in BOOLEAN,
         alert' = [alert EXCEPT ![<<r, t>>] = Row(r, critical)], Goto(r, "done"),
         ~Conflicts(run[r].domain, t), run[r].pc \in Before
  PROVE  /\ alert' \in [Alerts -> AlertRow] /\ \A a \in Alerts : AlertStep(a)
         /\ OneRaises
<1> DEFINE row == [a \in Alerts |-> Row(r, critical)]
<1>1. TypeOK /\ run \in [Runs -> RunState] /\ alert \in [Alerts -> AlertRow]
  BY DEF AlertsInv, TypeOK
<1>2. \A a \in Alerts : /\ row[a] \in AlertRow /\ row[a].state = "open"
                        /\ row[a].domain = run[r].domain
  BY <1>1, RowType
<1>3. \A a \in Alerts : (a = <<r, t>>) <=> (a[1] = r /\ a[2] \in {t})
  BY AlertPairs
<1>4. \A a \in Alerts : alert'[a] = IF a[1] = r /\ a[2] \in {t} THEN row[a] ELSE alert[a]
  BY <1>1, <1>3
<1>5. alert' = [a \in Alerts |-> alert'[a]]
  BY <1>1
<1>6. run'[r].pc \in {"resolve", "done"} /\ \A q \in Runs : q # r => run'[q] = run[q]
  BY <1>1 DEF Goto, RunState
<1> HIDE DEF row
<1>7. Raises(r, {t}, row)
  BY <1>2, <1>4, <1>6 DEF Raises
<1> QED
  BY <1>5, <1>7, RaiseSteps

LEMMA ResolvedType ==
  ASSUME TypeOK, NEW a \in Alerts, NEW who \in Users \cup {"nobody", "clean scan"}
  PROVE  /\ ResolvedBy(a, who) \in AlertRow /\ ResolvedBy(a, who).state = "resolved"
         /\ ResolvedBy(a, who).domain = alert[a].domain
<1>1. alert[a] \in AlertRow
  BY DEF TypeOK
<1> QED
  BY <1>1 DEF ResolvedBy, AlertRow

\* Open alerts are resolved, the others stay.
LEMMA ResolveSteps ==
  ASSUME AlertsInv, NEW who \in Users \cup {"nobody", "clean scan"},
         alert' = [a \in Alerts |-> alert'[a]],
         \A a \in Alerts : \/ alert'[a] = alert[a]
                           \/ alert[a].state = "open" /\ alert'[a] = ResolvedBy(a, who)
  PROVE  /\ alert' \in [Alerts -> AlertRow]
         /\ \A a \in Alerts : AlertKept(a) \/ AlertResolved(a)
<1>1. TypeOK /\ alert \in [Alerts -> AlertRow]
  BY DEF AlertsInv, TypeOK
<1>2. \A a \in Alerts : alert'[a] \in AlertRow /\ (AlertKept(a) \/ AlertResolved(a))
  BY <1>1, ResolvedType DEF AlertKept, AlertResolved
<1> QED
  BY <1>2

LEMMA ResolvingSteps ==
  ASSUME AlertsInv,
         \/ \E r \in Runs : ScanResolve(r)
         \/ \E u \in Users, b \in Alerts : ResolveAlert(u, b)
         \/ \E u \in Users, ids \in SUBSET Existing : BulkResolve(u, ids)
  PROVE  /\ alert' \in [Alerts -> AlertRow]
         /\ \A a \in Alerts : AlertKept(a) \/ AlertResolved(a)
<1> DEFINE Resolves(who) ==
      /\ alert' = [a \in Alerts |-> alert'[a]]
      /\ \A a \in Alerts : \/ alert'[a] = alert[a]
                           \/ alert[a].state = "open" /\ alert'[a] = ResolvedBy(a, who)
<1>1. ASSUME NEW r \in Runs, ScanResolve(r) PROVE Resolves("clean scan")
  BY <1>1 DEF ScanResolve, CleanlyResolved
<1>2. ASSUME NEW u \in Users, NEW b \in Alerts, ResolveAlert(u, b) PROVE Resolves(u)
  BY <1>2 DEF ResolveAlert, AlertsInv, TypeOK
<1>3. ASSUME NEW u \in Users, NEW ids \in SUBSET Existing, BulkResolve(u, ids) PROVE Resolves(u)
  BY <1>3 DEF BulkResolve, Resolvable
<1>4. \E who \in Users \cup {"nobody", "clean scan"} : Resolves(who)
  BY <1>1, <1>2, <1>3
<1> PICK who \in Users \cup {"nobody", "clean scan"} : Resolves(who)
  BY <1>4
<1>5. alert' = [a \in Alerts |-> alert'[a]]
  OBVIOUS
<1>6. \A a \in Alerts : \/ alert'[a] = alert[a]
                        \/ alert[a].state = "open" /\ alert'[a] = ResolvedBy(a, who)
  OBVIOUS
<1> HIDE DEF Resolves
<1> QED
  BY <1>5, <1>6, ResolveSteps

LEMMA TlsUpdateStep ==
  ASSUME AlertsInv, NEW r \in Runs, TlsUpdate(r)
  PROVE  alert' \in [Alerts -> AlertRow] /\ \A a \in Alerts : AlertKept(a)
<1>1. alert \in [Alerts -> AlertRow]
  BY DEF AlertsInv, TypeOK
<1>2. PICK critical \in BOOLEAN : alert' = [alert EXCEPT ![run[r].target] = Refreshed(@, critical)]
  BY DEF TlsUpdate
<1>3. ASSUME NEW a \in Alerts
      PROVE  /\ Refreshed(alert[a], critical) \in AlertRow
             /\ Refreshed(alert[a], critical).state = alert[a].state
             /\ Refreshed(alert[a], critical).by = alert[a].by
             /\ Refreshed(alert[a], critical).domain = alert[a].domain
  BY <1>1 DEF Refreshed, AlertRow
<1>4. \A a \in Alerts : alert'[a] = alert[a] \/ alert'[a] = Refreshed(alert[a], critical)
  BY <1>1, <1>2
<1>5. alert' = [a \in Alerts |-> alert'[a]]
  BY <1>1, <1>2
<1>6. \A a \in Alerts : alert'[a] \in AlertRow /\ AlertKept(a)
  BY <1>1, <1>3, <1>4 DEF AlertKept
<1> QED
  BY <1>5, <1>6

LEMMA PurgeStep ==
  ASSUME AlertsInv, NEW d \in Domains, PurgeDomain(d)
  PROVE  alert' \in [Alerts -> AlertRow] /\ \A a \in Alerts : AlertKept(a)
<1>1. alert \in [Alerts -> AlertRow] /\ domain'[d].state = "purged"
  BY DEF AlertsInv, TypeOK, PurgeDomain, DomainRow
<1>2. ASSUME NEW a \in Alerts
      PROVE  /\ [alert[a] EXCEPT !.domain = NoDomain] \in AlertRow
             /\ [alert[a] EXCEPT !.domain = NoDomain].state = alert[a].state
             /\ [alert[a] EXCEPT !.domain = NoDomain].by = alert[a].by
             /\ [alert[a] EXCEPT !.domain = NoDomain].domain = NoDomain
  BY <1>1 DEF AlertRow
<1>3. \A a \in Alerts : \/ alert'[a] = alert[a]
                        \/ alert[a].domain = d /\ alert'[a] = [alert[a] EXCEPT !.domain = NoDomain]
  <2>1. alert' = [a \in Alerts |-> IF alert[a].domain = d
                                   THEN [alert[a] EXCEPT !.domain = NoDomain] ELSE alert[a]]
    BY DEF PurgeDomain
  <2>2. ASSUME NEW a \in Alerts, alert[a].domain = d
        PROVE  alert'[a] = [alert[a] EXCEPT !.domain = NoDomain]
    BY <2>1, <2>2
  <2>3. ASSUME NEW a \in Alerts, alert[a].domain # d PROVE alert'[a] = alert[a]
    BY <2>1, <2>3
  <2> QED
    BY <2>2, <2>3
<1>4. alert' = [a \in Alerts |-> alert'[a]]
  BY DEF PurgeDomain
<1>5. \A a \in Alerts : alert'[a] \in AlertRow /\ AlertKept(a)
  BY <1>1, <1>2, <1>3 DEF AlertKept
<1> QED
  BY <1>4, <1>5

LEMMA AlertSteps ==
  ASSUME AlertsInv, [Next]_vars
  PROVE  /\ alert' \in [Alerts -> AlertRow] /\ \A a \in Alerts : AlertStep(a)
         /\ OneRaises
<1> DEFINE Goal == /\ alert' \in [Alerts -> AlertRow] /\ \A a \in Alerts : AlertStep(a)
                   /\ OneRaises
<1>1. ASSUME UNCHANGED alert PROVE Goal
  BY <1>1 DEF AlertsInv, TypeOK, AlertStep, AlertKept, OneRaises, AlertRaised
<1>2. ASSUME alert' \in [Alerts -> AlertRow], \A a \in Alerts : AlertKept(a) \/ AlertResolved(a)
      PROVE  Goal
  BY <1>2 DEF AlertStep, AlertKept, AlertResolved, OneRaises, AlertRaised
<1>3. ASSUME NEW r \in Runs, ScanInsert(r) PROVE Goal
  BY <1>3, ScanInsertRaises
<1>4. ASSUME NEW r \in Runs, BrowserInsert(r) PROVE Goal
  <2>1. run[r].pc \in Before /\ "malware_detected" \in AlertTypes /\ Goto(r, "done")
    BY <1>4 DEF BrowserInsert, At, Before, AlertTypes
  <2>2. CASE Conflicts(run[r].domain, "malware_detected")
    BY <1>1, <1>4, <2>2 DEF BrowserInsert
  <2>3. CASE ~Conflicts(run[r].domain, "malware_detected")
    <3>1. alert' = [alert EXCEPT ![<<r, "malware_detected">>] = Row(r, TRUE)]
      BY <1>4, <2>3 DEF BrowserInsert
    <3> QED
      BY <2>1, <2>3, <3>1, OneInsertRaises
  <2> QED
    BY <2>2, <2>3
<1>5. ASSUME NEW r \in Runs, TlsCreate(r) PROVE Goal
  <2>1. run[r].pc \in Before /\ "tls_expiring" \in AlertTypes
    BY <1>5 DEF TlsCreate, At, Before, AlertTypes
  <2>2. CASE UNCHANGED alert
    BY <1>1, <2>2
  <2>3. ASSUME NEW critical \in BOOLEAN, ~Conflicts(run[r].domain, "tls_expiring"),
               alert' = [alert EXCEPT ![<<r, "tls_expiring">>] = Row(r, critical)],
               Goto(r, "done")
        PROVE  Goal
    BY <2>1, <2>3, OneInsertRaises
  <2> QED
    BY <1>5, <2>2, <2>3 DEF TlsCreate
<1>6. ASSUME \/ \E r \in Runs : ScanResolve(r)
             \/ \E u \in Users, b \in Alerts : ResolveAlert(u, b)
             \/ \E u \in Users, ids \in SUBSET Existing : BulkResolve(u, ids)
      PROVE  Goal
  BY <1>2, <1>6, ResolvingSteps
<1>7. ASSUME \/ \E r \in Runs : TlsUpdate(r)
             \/ \E d \in Domains : PurgeDomain(d)
      PROVE  Goal
  BY <1>2, <1>7, TlsUpdateStep, PurgeStep
<1>8. ASSUME \/ \E r \in Runs :
                  \/ Begin(r) \/ Look(r) \/ ScanCheck(r) \/ ScanInsertFails(r)
                  \/ BrowserCheck(r) \/ BrowserInsertFails(r) \/ TlsGet(r) \/ RunDies(r)
             \/ \E d \in Domains : DeleteDomain(d) \/ \E s \in Sites : Monitor(d, s)
             \/ UNCHANGED vars
      PROVE  UNCHANGED alert
  BY <1>8 DEF Begin, ScanStart, BrowserStart, TlsStart, Start, Look, ScanCheck, ScanInsertFails,
              BrowserCheck, BrowserInsertFails, TlsGet, RunDies, DeleteDomain, Monitor, vars
<1> HIDE DEF Goal
<1>9. Goal
  BY <1>1, <1>3, <1>4, <1>5, <1>6, <1>7, <1>8 DEF Next, Step, People
<1> QED
  BY <1>9 DEF Goal

-----------------------------------------------------------------------------
(* What is reported stays reported *)

LEMMA DomainSteps ==
  ASSUME AlertsInv, [Next]_vars
  PROVE  /\ domain' \in [Domains -> DomainRow]
         /\ \A d \in Domains : domain[d].state = "purged" => domain'[d].state = "purged"
<1>1. domain \in [Domains -> DomainRow]
  BY DEF AlertsInv, TypeOK
<1>2. CASE UNCHANGED domain
  BY <1>1, <1>2
<1>3. CASE \E d \in Domains : PurgeDomain(d) \/ DeleteDomain(d) \/ \E s \in Sites : Monitor(d, s)
  BY <1>1, <1>3 DEF PurgeDomain, DeleteDomain, Monitor, Live, DomainRow
<1>4. ASSUME \/ \E r \in Runs : Begin(r) \/ Step(r)
             \/ \E u \in Users, a \in Alerts : ResolveAlert(u, a)
             \/ \E u \in Users, ids \in SUBSET Existing : BulkResolve(u, ids)
             \/ UNCHANGED vars
      PROVE  UNCHANGED domain
  BY <1>4 DEF Begin, ScanStart, BrowserStart, TlsStart, Start, Step, Look, ScanCheck, ScanInsert,
              ScanInsertFails, ScanResolve, BrowserCheck, BrowserInsert, BrowserInsertFails,
              TlsGet, TlsCreate, TlsUpdate, RunDies, ResolveAlert, BulkResolve, vars
<1> QED
  BY <1>2, <1>3, <1>4 DEF Next, People

LEMMA ReportedStays ==
  ASSUME AlertsInv, [Next]_vars, NEW d \in Domains, domain'[d].state # "purged",
         NEW S, NEW t, ReportedAt(d, S, t)
  PROVE  ReportedAt(d, S, t)'
<1>1. PICK a \in Alerts : /\ a[2] = t /\ alert[a].state # "none" /\ alert[a].domain = d
                         /\ a \notin S
  BY DEF ReportedAt
<1>2. alert'[a].state # "none" /\ alert'[a].domain = d
  BY <1>1, AlertSteps DEF AlertStep, AlertKept, AlertResolved, AlertRaised
<1> QED
  BY <1>1, <1>2 DEF ReportedAt

LEMMA ResolvedStays ==
  ASSUME AlertsInv, [Next]_vars, NEW a \in Alerts, alert[a].state = "resolved"
  PROVE  alert'[a].state = "resolved" /\ alert'[a].by = alert[a].by
  BY AlertSteps DEF AlertStep, AlertKept, AlertResolved, AlertRaised

\* What is asked of the run that a step moves: its new row keeps the invariant.
Moved(r, row) ==
    /\ run' = [run EXCEPT ![r] = row] /\ row \in RunState
    /\ WellRun(row)
    /\ row.pc \in Before => run[r].pc \in Before /\ UNCHANGED alert
    /\ row.settled = run[r].settled \/ (row.settled = Settled /\ run[r].pc = "new")
    /\ Answered(row)'

\* A run that goes on keeps what it is about.
Continues(r, row) ==
    /\ run' = [run EXCEPT ![r] = row] /\ row \in RunState
    /\ row.kind = run[r].kind /\ row.reasons = run[r].reasons /\ row.settled = run[r].settled

LEMMA PcTypes ==
  ASSUME NEW r \in Runs, AlertsInv
  PROVE  /\ run[r].kind = "scan" => run[r].pc \in {"look", "check", "resolve", "done", "dead"}
         /\ run[r].kind = "browser" => run[r].pc \in {"look", "check", "insert", "done", "dead"}
         /\ run[r].kind = "tls" =>
               run[r].pc \in {"get", "create", "refetch", "update", "done", "dead"}
         /\ run[r].kind = "none" => run[r].pc = "new"
         /\ run[r].kind \in {"none", "scan", "browser", "tls"}
<1>1. run[r].pc \in PcOf(run[r].kind) /\ run[r].kind \in {"none", "scan", "browser", "tls"}
  BY DEF AlertsInv, Running, WellRun, TypeOK, RunState
<1>2. /\ PcOf("none") = {"new"} /\ PcOf("scan") = {"look", "check", "resolve", "done", "dead"}
      /\ PcOf("browser") = {"look", "check", "insert", "done", "dead"}
      /\ PcOf("tls") = {"get", "create", "refetch", "update", "done", "dead"}
  BY DEF PcOf
<1> QED
  BY <1>1, <1>2

LEMMA GotoRow ==
  ASSUME AlertsInv, NEW r \in Runs, NEW pc, Goto(r, pc),
         pc \in {"insert", "resolve", "create", "refetch", "done", "dead"}
  PROVE  \E row : /\ Continues(r, row) /\ row.pc = pc /\ row.domain = run[r].domain
                  /\ row.todo = run[r].todo /\ row.fresh = run[r].fresh
                  /\ row.failed = run[r].failed
<1> DEFINE row == [run[r] EXCEPT !.pc = pc]
<1>1. run' = [run EXCEPT ![r] = row] /\ run[r] \in RunState
  BY DEF Goto, AlertsInv, TypeOK
<1>2. row \in RunState
  BY <1>1 DEF RunState
<1>3. /\ row.kind = run[r].kind /\ row.reasons = run[r].reasons /\ row.settled = run[r].settled
      /\ row.pc = pc /\ row.domain = run[r].domain /\ row.todo = run[r].todo
      /\ row.fresh = run[r].fresh
  BY <1>1 DEF RunState
<1>4. row.failed = run[r].failed
  BY <1>1 DEF RunState
<1> HIDE DEF row
<1> QED
  BY <1>1, <1>2, <1>3, <1>4 DEF Continues

\* An alert that is open counts as reported for every run.
LEMMA OpenIsReported ==
  ASSUME AlertsInv, NEW r \in Runs, NEW t, OpenAlertExists(run[r].domain, t)
  PROVE  ReportedAt(run[r].domain, run[r].settled, t)
  BY DEF OpenAlertExists, OpenAlerts, ReportedAt, AlertsInv, Answering, SettledBefore

\* What a run has dealt with stays dealt with as it goes on.
LEMMA Carried ==
  ASSUME AlertsInv, [Next]_vars, NEW r \in Runs, NEW row, Continues(r, row),
         row.domain = run[r].domain, Reporting(row)', NEW t, t \in row.reasons,
         \/ ReportedAt(run[r].domain, run[r].settled, t)
         \/ Reporting(run[r]) /\ t \notin Pending(run[r])
  PROVE  ReportedAt(row.domain, row.settled, t)'
<1> PICK d, S : d = run[r].domain /\ S = run[r].settled
  OBVIOUS
<1>1. d = row.domain /\ S = row.settled /\ row.reasons = run[r].reasons
  BY DEF Continues
<1>2. d \in Domains /\ domain'[d].state # "purged"
  BY <1>1 DEF Reporting, AlertsInv, TypeOK, RunState
<1>3. ReportedAt(d, S, t)
  BY <1>1 DEF AlertsInv, Answering, Answered
<1>4. ReportedAt(d, S, t)'
  BY <1>2, <1>3, ReportedStays
<1> QED
  BY <1>1, <1>4

\* What a run reports of its own, or finds open, when its insert is over.
LEMMA Inserted ==
  ASSUME AlertsInv, [Next]_vars, NEW r \in Runs, NEW row, Continues(r, row),
         row.domain = run[r].domain, Reporting(row)', NEW t \in AlertTypes, t \in row.reasons,
         \/ Conflicts(run[r].domain, t)
         \/ alert'[<<r, t>>].state = "open" /\ alert'[<<r, t>>].domain = run[r].domain
  PROVE  ReportedAt(row.domain, row.settled, t)'
<1>1. CASE Conflicts(run[r].domain, t)
  <2>1. ReportedAt(run[r].domain, run[r].settled, t)
    BY <1>1, OpenIsReported DEF Conflicts
  <2> QED
    BY <2>1, Carried
<1>2. CASE alert'[<<r, t>>].state = "open" /\ alert'[<<r, t>>].domain = run[r].domain
  <2> PICK a : a = <<r, t>>
    OBVIOUS
  <2>1. a \in Alerts /\ a[1] = r /\ a[2] = t
    BY AlertPairs
  <2>2. a \notin row.settled
    BY <2>1 DEF AlertsInv, Answering, SettledBefore, Continues
  <2> QED
    BY <1>2, <2>1, <2>2 DEF ReportedAt
<1> QED
  BY <1>1, <1>2

-----------------------------------------------------------------------------
(* The steps of the runs *)

LEMMA StartMoved ==
  ASSUME AlertsInv, NEW r \in Runs, Begin(r)
  PROVE  \E row : Moved(r, row)
<1>1. ASSUME NEW k \in {"scan", "browser", "tls"}, NEW s \in Sites, NEW reasons \in SUBSET AlertTypes,
             NEW pc \in {"look", "get"}, NEW d \in Domains \cup {NoDomain},
             Start(r, k, s, reasons, pc, d), pc \in PcOf(k),
             k = "browser" => reasons = {"malware_detected"}
      PROVE  \E row : Moved(r, row)
  <2> PICK row : row = [NewRun EXCEPT !.kind = k, !.pc = pc, !.site = s, !.reasons = reasons,
                                      !.domain = d, !.known = Existing, !.settled = Settled]
    OBVIOUS
  <2>1. Existing \in SUBSET Alerts /\ Settled \in SUBSET Alerts
    BY DEF Existing, Settled
  <2>2. /\ row \in RunState /\ row.kind = k /\ row.pc = pc /\ row.reasons = reasons
        /\ row.settled = Settled
    BY <2>1, BlankTypes DEF RunState
  <2>3. run' = [run EXCEPT ![r] = row] /\ run[r].pc = "new" /\ UNCHANGED alert
    BY <1>1 DEF Start
  <2>4. WellRun(row)
    BY <1>1, <2>2 DEF WellRun
  <2>5. Answered(row)'
    BY <2>2 DEF Answered, Reporting
  <2> QED
    BY <2>2, <2>3, <2>4, <2>5 DEF Moved, Before
<1>2. ASSUME NEW s \in Sites, NEW reasons \in SUBSET Conditions, ScanStart(r, s, reasons)
      PROVE  \E row : Moved(r, row)
  <2>1. reasons \in SUBSET AlertTypes /\ "look" \in PcOf("scan")
    BY ConstantsAssumption DEF PcOf
  <2> QED
    BY <1>1, <1>2, <2>1 DEF ScanStart
<1>3. ASSUME NEW s \in Sites, BrowserStart(r, s) PROVE \E row : Moved(r, row)
  <2>1. {"malware_detected"} \in SUBSET AlertTypes /\ "look" \in PcOf("browser")
    BY DEF PcOf, AlertTypes
  <2> QED
    BY <1>1, <1>3, <2>1 DEF BrowserStart
<1>4. ASSUME NEW d \in Domains, TlsStart(r, d) PROVE \E row : Moved(r, row)
  <2>1. /\ {"tls_expiring"} \in SUBSET AlertTypes /\ "get" \in PcOf("tls")
        /\ domain[d].name \in Sites
    BY DEF PcOf, AlertTypes, AlertsInv, TypeOK, DomainRow
  <2> QED
    BY <1>1, <1>4, <2>1 DEF TlsStart
<1> QED
  BY <1>2, <1>3, <1>4 DEF Begin

\* A run that goes on is well formed where its kind may be.
LEMMA ContinuesWell ==
  ASSUME AlertsInv, NEW r \in Runs, NEW row, Continues(r, row), row.pc \in PcOf(run[r].kind)
  PROVE  WellRun(row)
  BY DEF Continues, WellRun, AlertsInv, Running

LEMMA LookMoved ==
  ASSUME AlertsInv, NEW r \in Runs, Look(r)
  PROVE  \E row : Moved(r, row)
<1> PICK row : row = [run[r] EXCEPT !.domain = DomainObj(run[r].site), !.todo = run[r].reasons,
                                    !.pc = "check"]
  OBVIOUS
<1>1. /\ run[r] \in RunState /\ run' = [run EXCEPT ![r] = row] /\ UNCHANGED alert
      /\ run[r].kind \in {"scan", "browser"} /\ run[r].pc = "look"
  BY DEF Look, At, AlertsInv, TypeOK
<1>2. row \in RunState
  BY <1>1, DomainObjType DEF RunState
<1>3. /\ row.kind = run[r].kind /\ row.reasons = run[r].reasons /\ row.settled = run[r].settled
      /\ row.todo = run[r].reasons /\ row.pc = "check"
  BY <1>1 DEF RunState
<1>4. Continues(r, row)
  BY <1>1, <1>2, <1>3 DEF Continues
<1>5. "check" \in PcOf("scan") /\ "check" \in PcOf("browser")
  BY DEF PcOf
<1>6. WellRun(row)
  BY <1>1, <1>3, <1>4, <1>5, ContinuesWell
<1>7. Answered(row)'
  BY <1>1, <1>3 DEF Answered, Pending
<1>8. Moved(r, row)
  BY <1>1, <1>2, <1>3, <1>6, <1>7 DEF Moved, Before
<1> QED
  BY <1>8

LEMMA ScanCheckMoved ==
  ASSUME AlertsInv, [Next]_vars, NEW r \in Runs, ScanCheck(r)
  PROVE  \E row : Moved(r, row)
<1> DEFINE t0 == First(run[r].todo)
           fresh == IF OpenAlertExists(run[r].domain, t0) THEN run[r].fresh
                                                          ELSE run[r].fresh \cup {t0}
<1> PICK row : row = [run[r] EXCEPT !.todo = run[r].todo \ {t0}, !.fresh = fresh]
  OBVIOUS
<1>1. /\ run[r] \in RunState /\ run' = [run EXCEPT ![r] = row] /\ UNCHANGED alert
      /\ run[r].kind = "scan" /\ run[r].pc = "check" /\ run[r].todo # {}
  <2>1. run[r] \in RunState
    BY DEF AlertsInv, TypeOK
  <2>2. UNCHANGED alert /\ run[r].kind = "scan" /\ run[r].pc = "check" /\ run[r].todo # {}
    BY DEF ScanCheck, At
  <2>3. run' = [run EXCEPT ![r] = row]
    <3>1. run \in [Runs -> RunState]
      BY DEF AlertsInv, TypeOK
    <3>2. run' = [run EXCEPT ![r].todo = run[r].todo \ {t0}, ![r].fresh = fresh]
      BY DEF ScanCheck
    <3> QED
      BY <3>1, <3>2 DEF RunState
  <2> QED
    BY <2>1, <2>2, <2>3
<1>2. run[r].todo \in SUBSET AlertTypes /\ run[r].fresh \in SUBSET AlertTypes
  BY <1>1 DEF RunState
<1>3. t0 \in run[r].todo
  BY <1>1, <1>2, FirstType
<1>4. fresh \in SUBSET AlertTypes
  BY <1>2, <1>3
<1>5. row \in RunState
  BY <1>1, <1>2, <1>4 DEF RunState
<1>6. /\ row.kind = run[r].kind /\ row.reasons = run[r].reasons /\ row.settled = run[r].settled
      /\ row.todo = run[r].todo \ {t0} /\ row.fresh = fresh /\ row.pc = "check"
      /\ row.domain = run[r].domain
  BY <1>1 DEF RunState
<1>7. row.failed = run[r].failed
  BY <1>1 DEF RunState
<1>8. Continues(r, row)
  BY <1>1, <1>5, <1>6 DEF Continues
<1>9. WellRun(row)
  <2>1. "check" \in PcOf("scan")
    BY DEF PcOf
  <2> QED
    BY <1>1, <1>6, <1>8, <2>1, ContinuesWell
<1>10. ASSUME Reporting(row)', NEW t, t \in row.reasons, t \notin Pending(row)
       PROVE  ReportedAt(row.domain, row.settled, t)'
  <2>1. CASE t = t0 /\ OpenAlertExists(run[r].domain, t0)
    <3>1. ReportedAt(run[r].domain, run[r].settled, t)
      BY <2>1, OpenIsReported
    <3> QED
      BY <1>6, <1>8, <1>10, <3>1, Carried
  <2>2. CASE ~(t = t0 /\ OpenAlertExists(run[r].domain, t0))
    <3>1. t \notin Pending(run[r])
      BY <1>1, <1>6, <1>10, <2>2 DEF Pending
    <3>2. Reporting(run[r])
      <4>1. row.domain \in Domains /\ domain'[row.domain].state # "purged"
        BY <1>10, <1>5 DEF Reporting, RunState
      <4>2. domain[row.domain].state # "purged"
        BY <4>1, DomainSteps
      <4> QED
        BY <1>1, <1>6, <1>7, <1>10, <4>2 DEF Reporting
    <3> QED
      BY <1>6, <1>8, <1>10, <3>1, <3>2, Carried
  <2> QED
    BY <2>1, <2>2
<1>11. Answered(row)'
  BY <1>10 DEF Answered, Pending
<1>12. Moved(r, row)
  BY <1>1, <1>5, <1>6, <1>9, <1>11 DEF Moved, Before
<1> QED
  BY <1>12

\* What is left to show of a run that goes on to a place behind its insert.
LEMMA BehindMoved ==
  ASSUME AlertsInv, NEW r \in Runs, NEW row, Continues(r, row), row.pc \notin Before,
         row.pc \in PcOf(run[r].kind), Answered(row)'
  PROVE  Moved(r, row)
<1>1. WellRun(row)
  BY ContinuesWell
<1> QED
  BY <1>1 DEF Continues, Moved

\* Before its insert a scan or a browser scan that is reporting was so in the state before.
LEMMA ReportingBefore ==
  ASSUME AlertsInv, [Next]_vars, NEW r \in Runs, NEW row, Continues(r, row),
         row.domain = run[r].domain, row.failed = run[r].failed, Reporting(row)',
         run[r].pc \in {"check", "insert", "resolve", "done"}
  PROVE  Reporting(run[r])
<1>1. row.domain \in Domains /\ domain'[row.domain].state # "purged"
  BY DEF Reporting, Continues, RunState
<1>2. domain[row.domain].state # "purged"
  BY <1>1, DomainSteps
<1> QED
  BY <1>2 DEF Reporting, Continues

LEMMA ScanInsertMoved ==
  ASSUME AlertsInv, [Next]_vars, NEW r \in Runs, ScanInsert(r)
  PROVE  \E row : Moved(r, row)
<1>1. /\ run[r].kind = "scan" /\ run[r].pc = "check" /\ run[r].todo = {}
      /\ Goto(r, "resolve") /\ "resolve" \in PcOf("scan") /\ run[r] \in RunState
  BY DEF ScanInsert, ReadyToInsert, At, PcOf, AlertsInv, TypeOK
<1>2. PICK row : /\ Continues(r, row) /\ row.pc = "resolve" /\ row.domain = run[r].domain
                 /\ row.fresh = run[r].fresh /\ row.failed = run[r].failed
  BY <1>1, GotoRow
<1>3. ASSUME Reporting(row)', NEW t, t \in row.reasons
      PROVE  ReportedAt(row.domain, row.settled, t)'
  <2>1. t \in AlertTypes
    BY <1>1, <1>2, <1>3 DEF Continues, RunState
  <2>2. CASE t \in run[r].fresh
    <3>1. \/ Conflicts(run[r].domain, t)
          \/ alert'[<<r, t>>].state = "open" /\ alert'[<<r, t>>].domain = run[r].domain
      <4>1. CASE t \in Stored(r)
        <5> PICK a : a = <<r, t>>
          OBVIOUS
        <5>1. a \in Alerts /\ a[1] = r /\ a[2] = t
          BY <2>1, AlertPairs
        <5>2. alert'[a] = Row(r, a[2] \in AutoResolved)
          BY <4>1, <5>1 DEF ScanInsert
        <5> PICK c : c = (a[2] \in AutoResolved)
          OBVIOUS
        <5>3. alert'[a] = Row(r, c)
          BY <5>2
        <5>4. alert'[a].state = "open" /\ alert'[a].domain = run[r].domain
          BY <5>3 DEF Row
        <5> QED
          BY <5>4
      <4>2. CASE t \notin Stored(r)
        BY <2>2, <4>2 DEF Stored
      <4> QED
        BY <4>1, <4>2
    <3> QED
      BY <1>2, <1>3, <2>1, <3>1, Inserted
  <2>3. CASE t \notin run[r].fresh
    <3>1. t \notin Pending(run[r])
      BY <1>1, <2>3 DEF Pending
    <3>2. Reporting(run[r])
      BY <1>1, <1>2, <1>3, ReportingBefore
    <3> QED
      BY <1>2, <1>3, <3>1, <3>2, Carried
  <2> QED
    BY <2>2, <2>3
<1>4. Answered(row)'
  BY <1>3 DEF Answered
<1>5. Moved(r, row)
  BY <1>1, <1>2, <1>4, BehindMoved DEF Before
<1> QED
  BY <1>5

LEMMA ScanResolveMoved ==
  ASSUME AlertsInv, [Next]_vars, NEW r \in Runs, ScanResolve(r)
  PROVE  \E row : Moved(r, row)
<1>1. /\ run[r].kind = "scan"
      /\ \/ run[r].pc = "resolve"
         \/ run[r].pc = "check" /\ run[r].todo = {} /\ run[r].fresh = {}
      /\ Goto(r, "done") /\ "done" \in PcOf("scan")
  BY DEF ScanResolve, At, PcOf
<1>2. PICK row : /\ Continues(r, row) /\ row.pc = "done" /\ row.domain = run[r].domain
                 /\ row.failed = run[r].failed
  BY <1>1, GotoRow
<1>3. ASSUME Reporting(row)', NEW t, t \in row.reasons
      PROVE  ReportedAt(row.domain, row.settled, t)'
  <2>1. t \notin Pending(run[r])
    BY <1>1 DEF Pending
  <2>2. Reporting(run[r])
    BY <1>1, <1>2, <1>3, ReportingBefore
  <2> QED
    BY <1>2, <1>3, <2>1, <2>2, Carried
<1>4. Answered(row)'
  BY <1>3 DEF Answered
<1>5. Moved(r, row)
  BY <1>1, <1>2, <1>4, BehindMoved DEF Before
<1> QED
  BY <1>5

LEMMA BrowserCheckMoved ==
  ASSUME AlertsInv, [Next]_vars, NEW r \in Runs, BrowserCheck(r)
  PROVE  \E row : Moved(r, row)
<1>1. /\ run[r].kind = "browser" /\ run[r].pc = "check" /\ UNCHANGED alert
      /\ run[r].reasons = {"malware_detected"}
      /\ "done" \in PcOf("browser") /\ "insert" \in PcOf("browser")
  BY DEF BrowserCheck, At, PcOf, AlertsInv, Running, WellRun
<1>2. CASE OpenAlertExists(run[r].domain, "malware_detected")
  <2>1. Goto(r, "done")
    BY <1>2 DEF BrowserCheck
  <2>2. PICK row : /\ Continues(r, row) /\ row.pc = "done" /\ row.domain = run[r].domain
                   /\ row.failed = run[r].failed
    BY <2>1, GotoRow
  <2>3. ASSUME Reporting(row)', NEW t, t \in row.reasons
        PROVE  ReportedAt(row.domain, row.settled, t)'
    <3>1. t = "malware_detected"
      BY <1>1, <2>2, <2>3 DEF Continues
    <3>2. ReportedAt(run[r].domain, run[r].settled, t)
      BY <1>2, <3>1, OpenIsReported
    <3> QED
      BY <2>2, <2>3, <3>2, Carried
  <2>4. Answered(row)'
    BY <2>3 DEF Answered
  <2>5. Moved(r, row)
    BY <1>1, <2>2, <2>4, BehindMoved DEF Before
  <2> QED
    BY <2>5
<1>3. CASE ~OpenAlertExists(run[r].domain, "malware_detected")
  <2>1. Goto(r, "insert")
    BY <1>3 DEF BrowserCheck
  <2>2. PICK row : Continues(r, row) /\ row.pc = "insert" /\ row.domain = run[r].domain
    BY <2>1, GotoRow
  <2>3. WellRun(row)
    BY <1>1, <2>2, ContinuesWell
  <2>4. Answered(row)'
    BY <1>1, <2>2 DEF Answered, Pending, Continues
  <2>5. Moved(r, row)
    BY <1>1, <2>2, <2>3, <2>4 DEF Moved, Continues, Before
  <2> QED
    BY <2>5
<1> QED
  BY <1>2, <1>3

LEMMA BrowserInsertMoved ==
  ASSUME AlertsInv, [Next]_vars, NEW r \in Runs, BrowserInsert(r)
  PROVE  \E row : Moved(r, row)
<1>1. /\ run[r].kind = "browser" /\ run[r].pc = "insert"
      /\ run[r].reasons = {"malware_detected"}
      /\ Goto(r, "done") /\ "done" \in PcOf("browser")
  BY DEF BrowserInsert, At, PcOf, AlertsInv, Running, WellRun
<1>2. PICK row : Continues(r, row) /\ row.pc = "done" /\ row.domain = run[r].domain
  BY <1>1, GotoRow
<1>3. ASSUME Reporting(row)', NEW t, t \in row.reasons
      PROVE  ReportedAt(row.domain, row.settled, t)'
  <2>1. t = "malware_detected" /\ t \in AlertTypes
    BY <1>1, <1>2, <1>3 DEF Continues, AlertTypes
  <2>2. \/ Conflicts(run[r].domain, t)
        \/ alert'[<<r, t>>].state = "open" /\ alert'[<<r, t>>].domain = run[r].domain
    <3>1. CASE ~Conflicts(run[r].domain, t)
      <4>1. alert' = [alert EXCEPT ![<<r, t>>] = Row(r, TRUE)]
        BY <2>1, <3>1 DEF BrowserInsert
      <4>2. <<r, t>> \in Alerts /\ alert \in [Alerts -> AlertRow]
        BY <2>1, AlertPairs DEF AlertsInv, TypeOK
      <4>3. alert'[<<r, t>>] = Row(r, TRUE)
        BY <4>1, <4>2
      <4> QED
        BY <4>3 DEF Row
    <3> QED
      BY <3>1
  <2> QED
    BY <1>2, <1>3, <2>1, <2>2, Inserted
<1>4. Answered(row)'
  BY <1>3 DEF Answered
<1>5. Moved(r, row)
  BY <1>1, <1>2, <1>4, BehindMoved DEF Before
<1> QED
  BY <1>5

\* A run whose insert failed, or that has died, need not report.
LEMMA FailedMoved ==
  ASSUME AlertsInv, NEW r \in Runs,
         ScanInsertFails(r) \/ BrowserInsertFails(r) \/ RunDies(r)
  PROVE  \E row : Moved(r, row)
<1>1. ASSUME NEW pc \in {"resolve", "done"}, pc \in PcOf(run[r].kind),
             run' = [run EXCEPT ![r] = [@ EXCEPT !.failed = TRUE, !.pc = pc]]
      PROVE  \E row : Moved(r, row)
  <2> PICK row : row = [run[r] EXCEPT !.failed = TRUE, !.pc = pc]
    OBVIOUS
  <2>1. run[r] \in RunState /\ run' = [run EXCEPT ![r] = row]
    BY <1>1 DEF AlertsInv, TypeOK
  <2>2. /\ row \in RunState /\ row.kind = run[r].kind /\ row.reasons = run[r].reasons
        /\ row.settled = run[r].settled /\ row.pc = pc
    BY <2>1 DEF RunState
  <2>3. row.failed
    BY <2>1 DEF RunState
  <2>4. Answered(row)'
    BY <2>3 DEF Answered, Reporting
  <2>5. Moved(r, row)
    BY <1>1, <2>1, <2>2, <2>4, BehindMoved DEF Continues, Before
  <2> QED
    BY <2>5
<1>2. CASE ScanInsertFails(r)
  <2>1. "resolve" \in PcOf(run[r].kind)
    BY <1>2 DEF ScanInsertFails, ReadyToInsert, At, PcOf
  <2> QED
    BY <1>1, <1>2, <2>1 DEF ScanInsertFails
<1>3. CASE BrowserInsertFails(r)
  <2>1. "done" \in PcOf(run[r].kind)
    BY <1>3 DEF BrowserInsertFails, At, PcOf
  <2> QED
    BY <1>1, <1>3, <2>1 DEF BrowserInsertFails
<1>4. CASE RunDies(r)
  <2>1. Goto(r, "dead") /\ "dead" \in PcOf(run[r].kind)
    BY <1>4, PcTypes DEF RunDies, PcOf
  <2>2. PICK row : Continues(r, row) /\ row.pc = "dead"
    BY <2>1, GotoRow
  <2>3. Answered(row)'
    BY <2>2 DEF Answered, Reporting
  <2>4. Moved(r, row)
    BY <2>1, <2>2, <2>3, BehindMoved DEF Before
  <2> QED
    BY <2>4
<1> QED
  BY <1>2, <1>3, <1>4

\* check_tls_expiry reports on no scan.
LEMMA TlsMoved ==
  ASSUME AlertsInv, NEW r \in Runs, TlsGet(r) \/ TlsCreate(r) \/ TlsUpdate(r)
  PROVE  \E row : Moved(r, row)
<1>1. run[r].kind = "tls" /\ run[r].pc \in {"get", "create", "refetch", "update"}
  <2>1. CASE TlsGet(r)
    BY <2>1, PcTypes DEF TlsGet
  <2>2. CASE TlsCreate(r) \/ TlsUpdate(r)
    BY <2>2 DEF TlsCreate, TlsUpdate, At
  <2> QED
    BY <2>1, <2>2
<1>2. PcOf("tls") = {"get", "create", "refetch", "update", "done", "dead"}
  BY DEF PcOf
<1>3. ASSUME NEW row, Continues(r, row), row.pc \in {"create", "refetch", "update", "done"},
             row.pc \in Before => run[r].pc \in Before /\ UNCHANGED alert
      PROVE  \E q : Moved(r, q)
  <2>1. WellRun(row)
    BY <1>1, <1>2, <1>3, ContinuesWell
  <2>2. Answered(row)'
    BY <1>1, <1>3 DEF Answered, Reporting, Continues
  <2>3. Moved(r, row)
    BY <1>3, <2>1, <2>2 DEF Moved, Continues
  <2> QED
    BY <2>3
<1>4. ASSUME NEW pc \in {"create", "refetch", "done"}, Goto(r, pc),
             pc # "done" => run[r].pc \in Before /\ UNCHANGED alert
      PROVE  \E q : Moved(r, q)
  <2>1. PICK row : Continues(r, row) /\ row.pc = pc
    BY <1>4, GotoRow
  <2> QED
    BY <1>3, <1>4, <2>1 DEF Before
<1>5. ASSUME NEW a \in Alerts, run' = [run EXCEPT ![r] = [@ EXCEPT !.target = a, !.pc = "update"]]
      PROVE  \E q : Moved(r, q)
  <2> PICK row : row = [run[r] EXCEPT !.target = a, !.pc = "update"]
    OBVIOUS
  <2>1. run[r] \in RunState /\ run' = [run EXCEPT ![r] = row]
    BY <1>5 DEF AlertsInv, TypeOK
  <2>2. /\ row \in RunState /\ row.kind = run[r].kind /\ row.reasons = run[r].reasons
        /\ row.settled = run[r].settled /\ row.pc = "update"
    BY <2>1 DEF RunState
  <2> QED
    BY <1>3, <2>1, <2>2 DEF Continues, Before
<1>6. CASE TlsGet(r)
  <2>1. \/ \E a \in Alerts : run' = [run EXCEPT ![r] = [@ EXCEPT !.target = a, !.pc = "update"]]
        \/ Goto(r, "create") \/ Goto(r, "done")
    BY <1>6 DEF TlsGet, OpenAlerts
  <2>2. run[r].pc \in Before /\ UNCHANGED alert
    BY <1>6 DEF TlsGet, Before
  <2> QED
    BY <1>4, <1>5, <2>1, <2>2
<1>7. CASE TlsCreate(r)
  <2>1. run[r].pc \in Before /\ (Goto(r, "done") \/ (Goto(r, "refetch") /\ UNCHANGED alert))
    BY <1>7 DEF TlsCreate, At, Before
  <2> QED
    BY <1>4, <2>1
<1>8. CASE TlsUpdate(r)
  BY <1>4, <1>8 DEF TlsUpdate
<1> QED
  BY <1>6, <1>7, <1>8

LEMMA RunSteps ==
  ASSUME AlertsInv, [Next]_vars
  PROVE  UNCHANGED run \/ \E r \in Runs : \E row : Moved(r, row)
<1>1. ASSUME NEW r \in Runs, Begin(r) \/ Step(r) PROVE \E row : Moved(r, row)
  BY <1>1, StartMoved, LookMoved, ScanCheckMoved, ScanInsertMoved, ScanResolveMoved,
     BrowserCheckMoved, BrowserInsertMoved, FailedMoved, TlsMoved DEF Step
<1>2. ASSUME People \/ UNCHANGED vars PROVE UNCHANGED run
  BY <1>2 DEF People, ResolveAlert, BulkResolve, Monitor, DeleteDomain, PurgeDomain, vars
<1> QED
  BY <1>1, <1>2 DEF Next

-----------------------------------------------------------------------------
(* The invariant *)

LEMMA InvInit == Init => AlertsInv
<1> SUFFICES ASSUME Init PROVE AlertsInv
  OBVIOUS
<1>1. TypeOK
  <2>1. [name |-> AnySite, state |-> "none"] \in DomainRow
    BY AnySiteType DEF DomainRow
  <2> QED
    BY <2>1, BlankTypes DEF Init, TypeOK
<1>2. Running
  BY BlankTypes DEF Init, Running, WellRun, PcOf
<1>3. Unraised /\ OneOpenAlert
  BY BlankTypes, AlertPairs DEF Init, Unraised, OneOpenAlert
<1>4. Answering
  BY BlankTypes DEF Init, Answering, SettledBefore, Answered, Reporting
<1> QED
  BY <1>1, <1>2, <1>3, <1>4 DEF AlertsInv

\* The other runs, and what has been settled before them.
LEMMA OthersAnswered ==
  ASSUME AlertsInv, [Next]_vars, NEW r \in Runs, run'[r] = run[r]
  PROVE  Answered(run[r])' /\ SettledBefore(r, run[r])'
<1> PICK row : row = run[r]
  OBVIOUS
<1>1. row \in RunState /\ Answered(row) /\ SettledBefore(r, row)
  BY DEF AlertsInv, TypeOK, Answering
<1>2. SettledBefore(r, row)'
  <2>1. row.settled \subseteq Alerts
    BY <1>1 DEF RunState
  <2> QED
    BY <1>1, <2>1, ResolvedStays DEF SettledBefore
<1>3. ASSUME Reporting(row)', NEW t \in row.reasons, t \notin Pending(row)
      PROVE  ReportedAt(row.domain, row.settled, t)'
  <2> PICK d, S : d = row.domain /\ S = row.settled
    OBVIOUS
  <2>1. d \in Domains /\ domain'[d].state # "purged"
    BY <1>1, <1>3 DEF Reporting, RunState
  <2>2. domain[d].state # "purged"
    BY <2>1, DomainSteps
  <2>3. ReportedAt(d, S, t)
    BY <1>1, <1>3, <2>2 DEF Answered, Reporting
  <2>4. ReportedAt(d, S, t)'
    BY <2>1, <2>3, ReportedStays
  <2> QED
    BY <2>4
<1>4. Answered(row)'
  BY <1>3 DEF Answered, Pending
<1> QED
  BY <1>2, <1>4

\* A run that a step moves: its alerts and what it has reported.
LEMMA MovedKeeps ==
  ASSUME AlertsInv, [Next]_vars, NEW r \in Runs, NEW row, Moved(r, row)
  PROVE  /\ run' \in [Runs -> RunState] /\ run'[r] = row
         /\ \A q \in Runs : q # r => run'[q] = run[q]
         /\ Running' /\ Unraised' /\ Answering'
<1>1. run \in [Runs -> RunState] /\ row \in RunState /\ run' = [run EXCEPT ![r] = row]
  BY DEF AlertsInv, TypeOK, Moved
<1>2. /\ run' \in [Runs -> RunState] /\ run'[r] = row
      /\ \A q \in Runs : q # r => run'[q] = run[q]
  BY <1>1
<1>3. Running'
  BY <1>2 DEF Running, WellRun, AlertsInv, Moved
<1>4. Unraised'
  <2>1. ASSUME NEW q \in Runs, run'[q].pc \in Before, NEW t \in AlertTypes
        PROVE  alert'[<<q, t>>].state = "none"
    <3>1. <<q, t>> \in Alerts /\ <<q, t>>[1] = q
      BY AlertPairs
    <3>2. run[q].pc \in Before
      BY <1>2, <2>1 DEF Moved
    <3>3. alert[<<q, t>>].state = "none"
      BY <3>2 DEF AlertsInv, Unraised
    <3>4. CASE q = r
      BY <1>2, <2>1, <3>3, <3>4 DEF Moved
    <3>5. CASE q # r
      <4>1. run'[q] = run[q]
        BY <1>2, <3>5
      <4> QED
        BY <3>1, <3>3, <4>1, AlertSteps DEF AlertStep, AlertKept, AlertResolved, AlertRaised
    <3> QED
      BY <3>4, <3>5
  <2> QED
    BY <2>1 DEF Unraised
<1>5. SettledBefore(r, row)'
  <2>1. CASE row.settled = run[r].settled
    <3>1. row.settled \subseteq Alerts /\ SettledBefore(r, run[r])
      BY <1>1, <2>1 DEF RunState, AlertsInv, Answering
    <3> QED
      BY <2>1, <3>1, ResolvedStays DEF SettledBefore
  <2>2. CASE row.settled = Settled /\ run[r].pc = "new"
    <3>1. \A t \in AlertTypes : alert[<<r, t>>].state = "none"
      BY <2>2 DEF AlertsInv, Unraised, Before
    <3>2. \A a \in Alerts : a[1] = r => alert[a].state = "none"
      BY <3>1, AlertPairs
    <3>3. \A a \in row.settled : a \in Alerts /\ alert[a].state = "resolved" /\ a[1] # r
      BY <2>2, <3>2 DEF Settled
    <3> QED
      BY <3>3, ResolvedStays DEF SettledBefore
  <2> QED
    BY <2>1, <2>2 DEF Moved
<1>6. Answering'
  <2>1. ASSUME NEW q \in Runs, q # r PROVE SettledBefore(q, run[q])' /\ Answered(run[q])'
    BY <1>2, <2>1, OthersAnswered
  <2>2. SettledBefore(r, run[r])' /\ Answered(run[r])'
    BY <1>2, <1>5 DEF Moved, SettledBefore, Answered, Reporting, Pending, ReportedAt
  <2> QED
    BY <2>1, <2>2 DEF Answering
<1> QED
  BY <1>2, <1>3, <1>4, <1>6

\* The index lets a run raise an alert only where none of the type is open.
LEMMA OneOpenStep ==
  ASSUME AlertsInv, [Next]_vars
  PROVE  OneOpenAlert'
<1>1. ASSUME NEW a \in Alerts, NEW b \in Alerts,
             alert'[a].state = "open", alert'[b].state = "open",
             alert'[a].domain = alert'[b].domain, alert'[a].domain # NoDomain, a[2] = b[2]
      PROVE  a = b
  <2>1. ASSUME NEW c \in Alerts, alert'[c].state = "open", alert'[c].domain # NoDomain
        PROVE  \/ alert[c].state = "open" /\ alert'[c].domain = alert[c].domain
               \/ AlertRaised(c)
    BY <2>1, AlertSteps DEF AlertStep, AlertKept, AlertResolved
  <2>2. ASSUME NEW c \in Alerts, NEW e \in Alerts, c[2] = e[2],
               alert[c].state = "open", alert'[c].domain = alert[c].domain, AlertRaised(e),
               alert'[c].domain = alert'[e].domain, alert'[c].domain # NoDomain
        PROVE  FALSE
    BY <2>2 DEF AlertRaised, Conflicts, OpenAlertExists, OpenAlerts
  <2>3. CASE AlertRaised(a) /\ AlertRaised(b)
    <3>1. a[1] = b[1]
      BY <2>3, AlertSteps DEF OneRaises
    <3> QED
      BY <1>1, <3>1, AlertPairs
  <2>4. CASE ~AlertRaised(a) /\ ~AlertRaised(b)
    <3>1. /\ alert[a].state = "open" /\ alert'[a].domain = alert[a].domain
          /\ alert[b].state = "open" /\ alert'[b].domain = alert[b].domain
      BY <1>1, <2>1, <2>4
    <3>2. OneOpenAlert
      BY DEF AlertsInv
    <3> QED
      BY <1>1, <3>1, <3>2 DEF OneOpenAlert
  <2>5. CASE AlertRaised(a) /\ ~AlertRaised(b)
    BY <1>1, <2>1, <2>2, <2>5
  <2>6. CASE ~AlertRaised(a) /\ AlertRaised(b)
    BY <1>1, <2>1, <2>2, <2>6
  <2> QED
    BY <2>3, <2>4, <2>5, <2>6
<1> QED
  BY <1>1 DEF OneOpenAlert

LEMMA InvStep == AlertsInv /\ [Next]_vars => AlertsInv'
<1> SUFFICES ASSUME AlertsInv, [Next]_vars PROVE AlertsInv'
  OBVIOUS
<1>1. run' \in [Runs -> RunState] /\ Running' /\ Unraised' /\ Answering'
  <2>1. CASE UNCHANGED run
    <3>1. run' \in [Runs -> RunState] /\ Running'
      BY <2>1 DEF AlertsInv, TypeOK, Running, WellRun
    <3>2. Unraised'
      <4>1. ASSUME NEW q \in Runs, run'[q].pc \in Before, NEW t \in AlertTypes
            PROVE  alert'[<<q, t>>].state = "none"
        <5>1. <<q, t>> \in Alerts /\ <<q, t>>[1] = q
          BY AlertPairs
        <5>2. alert[<<q, t>>].state = "none" /\ run'[q] = run[q]
          BY <2>1, <4>1 DEF AlertsInv, Unraised
        <5> QED
          BY <5>1, <5>2, AlertSteps DEF AlertStep, AlertKept, AlertResolved, AlertRaised
      <4> QED
        BY <4>1 DEF Unraised
    <3>3. Answering'
      BY <2>1, OthersAnswered DEF Answering
    <3> QED
      BY <3>1, <3>2, <3>3
  <2>2. ASSUME NEW r \in Runs, NEW row, Moved(r, row)
        PROVE  run' \in [Runs -> RunState] /\ Running' /\ Unraised' /\ Answering'
    BY <2>2, MovedKeeps
  <2> QED
    BY <2>1, <2>2, RunSteps
<1>2. alert' \in [Alerts -> AlertRow] /\ domain' \in [Domains -> DomainRow]
  BY AlertSteps, DomainSteps
<1>3. TypeOK'
  BY <1>1, <1>2 DEF TypeOK
<1> QED
  BY <1>1, <1>3, OneOpenStep DEF AlertsInv

-----------------------------------------------------------------------------
(* Theorems *)

\* Every alert, domain and run stays of its type, whatever tasks, users and the purge of
\* old domains do in between.
THEOREM AlertsTypeCorrect == Spec => []TypeOK
<1>1. AlertsInv => TypeOK
  BY DEF AlertsInv
<1> QED
  BY InvInit, InvStep, <1>1, PTL DEF Spec

\* bulk_create, the insert of a browser alert and get_or_create never leave a monitored
\* domain with two open alerts of a type, however many runs have found none open.
THEOREM OneOpenAlertEver == Spec => []OneOpenAlert
<1>1. AlertsInv => OneOpenAlert
  BY DEF AlertsInv
<1> QED
  BY InvInit, InvStep, <1>1, PTL DEF Spec

\* What a scan or a browser scan of a monitored domain found has an alert when its alert
\* part is over, its own or that of the run that came first.
THEOREM NothingLost == Spec => []FindingsReported
<1>1. AlertsInv => FindingsReported
  <2> SUFFICES ASSUME AlertsInv, NEW r \in Runs,
                      run[r].pc \in {"resolve", "done"}, ~run[r].failed,
                      run[r].domain # NoDomain, domain[run[r].domain].state # "purged",
                      run[r].kind \in {"scan", "browser"}, NEW t \in run[r].reasons
               PROVE  \E a \in Alerts : /\ a[2] = t /\ alert[a].state # "none"
                                        /\ alert[a].domain = run[r].domain
                                        /\ a \notin run[r].settled
    BY DEF FindingsReported
  <2>1. Reporting(run[r]) /\ t \notin Pending(run[r])
    BY DEF Reporting, Pending
  <2>2. ReportedAt(run[r].domain, run[r].settled, t)
    BY <2>1 DEF AlertsInv, Answering, Answered
  <2> QED
    BY <2>2 DEF ReportedAt
<1> QED
  BY InvInit, InvStep, <1>1, PTL DEF Spec

\* resolve_alert, bulk_resolve and the auto-resolution never touch a resolved alert, and a
\* TLS check that read it while it was open does not open it again.
THEOREM ResolvedForGood == Spec => ResolutionFinal
<1>1. AlertsInv /\ [Next]_vars =>
        [\A a \in Alerts : alert[a].state = "resolved" =>
            alert'[a].state = "resolved" /\ alert'[a].by = alert[a].by]_vars
  BY ResolvedStays
<1> QED
  BY InvInit, InvStep, <1>1, PTL DEF Spec, ResolutionFinal
=============================================================================
