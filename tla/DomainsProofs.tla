---------------------------- MODULE DomainsProofs -----------------------------
(***************************************************************************)
(* Theorems about Domains, for every set of domains, names, scans,         *)
(* requests and plans: the type invariant, that creation stays within the  *)
(* quota, that a deletion is final, that a domain shows verdicts of scans  *)
(* of its own name only, and that the domains implement QuotaGate.         *)
(***************************************************************************)
EXTENDS Domains, FiniteSetTheorems, TLAPS

\* A request that creates holds the organisation's lock; what it counted is still below
\* the quota, but for a PATCH that switched a domain on again.
Locking ==
    \A q \in Requests :
        /\ request[q].pc \in {"locked", "counted"} => lock = q
        /\ request[q].pc = "counted" => reactivated \/ HasDomainQuota

\* A request that has read a domain has read one of the table.
Reading ==
    \A q \in Requests : request[q].pc = "read" =>
        request[q].domain \in Domains /\ domain[request[q].domain].state # "none"

\* An execution works on a scan that exists and has its verdict among those saved; the
\* domain it has selected has the scan's name.
Settling ==
    \A r \in Runs : run[r].pc # "none" =>
        /\ run[r].scan \in Scans /\ scan[run[r].scan].state # "none"
        /\ run[r].found \in scan[run[r].scan].given
        /\ run[r].pc = "selected" =>
              /\ run[r].domain \in Domains /\ domain[run[r].domain].state # "none"
              /\ scan[run[r].scan].name = domain[run[r].domain].name

\* A scan that process_scan_result is to run, or has run, exists.
Publishing ==
    \A s \in Scans : scan[s].published \/ scan[s].given # {} => scan[s].state # "none"

\* A task that runs has read its domain; the scan it has created is one of that name.
Triggering ==
    \A d \in Domains :
        /\ trigger[d].pc \in {"read", "created"} => domain[d].state # "none"
        /\ trigger[d].pc = "created" =>
              /\ trigger[d].scan \in Scans /\ scan[trigger[d].scan].state # "none"
              /\ scan[trigger[d].scan].name = domain[d].name

\* The scan a domain links to exists.
Linking == \A d \in Domains : domain[d].lastScan # Nobody => scan[domain[d].lastScan].state # "none"

\* A row that does not exist yet shows nothing.
Blank == \A d \in Domains : domain[d].state = "none" => domain[d].status = "unknown"

\* The inductive invariant.
DomainsInv ==
    /\ TypeOK /\ Locking /\ Reading /\ Settling /\ Publishing /\ Triggering /\ Linking /\ Blank
    /\ OwnVerdict

-----------------------------------------------------------------------------
(* Rows at rest *)

LEMMA AnyNameType == AnyName \in Names
  BY ConstantsAssumption DEF AnyName

LEMMA BlankTypes ==
  /\ NoDomain \in DomainRow /\ NoDomain.state = "none" /\ NoDomain.lastScan = Nobody
  /\ NoDomain.status = "unknown" /\ NoDomain.active = FALSE
  /\ NoScan \in ScanRow /\ NoScan.state = "none" /\ ~NoScan.published /\ NoScan.given = {}
  /\ NoRun \in RunState /\ NoRun.pc = "none"
  /\ NoTrigger \in TriggerState /\ NoTrigger.pc = "none"
  BY AnyNameType DEF NoDomain, DomainRow, NoScan, ScanRow, NoRun, RunState, NoTrigger, TriggerState

LEMMA IdleType == Idle \in RequestState /\ Idle.pc = "idle"
  BY BlankTypes, AnyNameType DEF Idle, RequestState

LEMMA CreatedType ==
  ASSUME NEW n \in Names
  PROVE  /\ Created(n) \in DomainRow /\ Created(n).state = "live" /\ Created(n).name = n
         /\ Created(n).lastScan = Nobody /\ Created(n).status = "unknown"
  BY BlankTypes DEF Created, DomainRow

LEMMA FiniteMonitored == IsFiniteSet(Monitored) /\ Cardinality(Monitored) \in Nat
<1>1. Monitored \subseteq Domains
  BY DEF Monitored, Live
<1> QED
  BY <1>1, ConstantsAssumption, FS_Subset, FS_CardinalityType

-----------------------------------------------------------------------------
(* The quota in force *)

LEMMA LimitType ==
  ASSUME TypeOK
  PROVE  DomainLimit \in Nat \cup {Unlimited}
  BY ConstantsAssumption DEF TypeOK, DomainLimit

-----------------------------------------------------------------------------
(* What the steps do to the rows of the domains *)

\* The row keeps what it shows; it may be switched on or off, or deleted.
RowKept(d) ==
    /\ domain'[d].name = domain[d].name /\ domain'[d].status = domain[d].status
    /\ domain'[d].lastScan = domain[d].lastScan
    /\ \/ domain'[d].state = domain[d].state
       \/ domain[d].state # "none" /\ domain'[d].state = "deleted"

\* The row is created.
RowBorn(d) ==
    /\ domain[d].state = "none" /\ domain'[d].state = "live"
    /\ domain'[d].lastScan = Nobody /\ domain'[d].status = "unknown"
    /\ \E q \in Requests : CreateInsert(q, d)

\* An execution writes its verdict.
RowJudged(d) ==
    /\ domain'[d].name = domain[d].name /\ domain'[d].state = domain[d].state
    /\ \E r \in Runs : /\ run[r].pc = "selected" /\ run[r].domain = d
                      /\ domain'[d].status = StatusFrom(run[r].found)
                      /\ domain'[d].lastScan = run[r].scan

\* The task links the scan it has created.
RowLinked(d) ==
    /\ domain'[d].name = domain[d].name /\ domain'[d].state = domain[d].state
    /\ domain'[d].status = domain[d].status
    /\ trigger[d].pc = "created" /\ domain'[d].lastScan = trigger[d].scan

RowStep(d) == RowKept(d) \/ RowBorn(d) \/ RowJudged(d) \/ RowLinked(d)

\* What the steps do to the row of a scan: once created it keeps its name and every verdict
\* that was saved.
ScanKept(s) ==
    scan[s].state # "none" =>
        /\ scan'[s].state # "none" /\ scan'[s].name = scan[s].name
        /\ scan[s].given \subseteq scan'[s].given

LEMMA InsertRows ==
  ASSUME DomainsInv, NEW q \in Requests, NEW b \in Domains, CreateInsert(q, b)
  PROVE  domain' \in [Domains -> DomainRow] /\ \A d \in Domains : RowStep(d)
<1>1. domain \in [Domains -> DomainRow] /\ request[q].name \in Names
  BY DEF DomainsInv, TypeOK, RequestState
<1> PICK n \in Names : n = request[q].name
  BY <1>1
<1>2. domain[b].state = "none" /\ domain' = [domain EXCEPT ![b] = Created(n)]
  BY DEF CreateInsert
<1>3. domain' \in [Domains -> DomainRow]
  BY <1>1, <1>2, CreatedType
<1>4. ASSUME NEW d \in Domains PROVE RowStep(d)
  <2>1. CASE d = b
    BY <1>1, <1>2, <2>1, CreatedType DEF RowStep, RowBorn
  <2>2. CASE d # b
    BY <1>1, <1>2, <2>2 DEF RowStep, RowKept
  <2> QED
    BY <2>1, <2>2
<1> QED
  BY <1>3, <1>4

LEMMA PatchRows ==
  ASSUME DomainsInv, NEW q \in Requests, PatchSave(q)
  PROVE  /\ domain' \in [Domains -> DomainRow] /\ \A d \in Domains : RowKept(d)
         /\ \A d \in Domains : domain'[d].state = domain[d].state
<1> PICK b, a : b = request[q].domain /\ a = (request[q].op = "activate")
  OBVIOUS
<1>1. domain \in [Domains -> DomainRow] /\ b \in Domains /\ a \in BOOLEAN
  BY DEF DomainsInv, TypeOK, Reading, PatchSave
<1> DEFINE row == [domain[b] EXCEPT !.active = a]
<1>2. domain' = [domain EXCEPT ![b] = row]
  BY DEF PatchSave, Patched
<1>3. /\ row.name = domain[b].name /\ row.status = domain[b].status
      /\ row.lastScan = domain[b].lastScan /\ row.state = domain[b].state
      /\ row \in DomainRow
  BY <1>1 DEF DomainRow
<1> HIDE DEF row
<1>4. domain' \in [Domains -> DomainRow] /\ domain'[b] = row
  BY <1>1, <1>2, <1>3
<1>5. \A d \in Domains : d # b => domain'[d] = domain[d]
  BY <1>1, <1>2
<1> QED
  BY <1>3, <1>4, <1>5 DEF RowKept

LEMMA DeleteRows ==
  ASSUME DomainsInv, NEW q \in Requests, DeleteSave(q)
  PROVE  /\ domain' \in [Domains -> DomainRow] /\ \A d \in Domains : RowKept(d)
<1> PICK b : b = request[q].domain
  OBVIOUS
<1>1. domain \in [Domains -> DomainRow] /\ b \in Domains /\ domain[b].state # "none"
  BY DEF DomainsInv, TypeOK, Reading, DeleteSave
<1> QED
  BY <1>1 DEF DeleteSave, DomainRow, RowKept

LEMMA StatusRows ==
  ASSUME DomainsInv, NEW r \in Runs, StatusUpdate(r)
  PROVE  domain' \in [Domains -> DomainRow] /\ \A d \in Domains : RowKept(d) \/ RowJudged(d)
<1> PICK b, v, s : b = run[r].domain /\ v = StatusFrom(run[r].found) /\ s = run[r].scan
  OBVIOUS
<1> DEFINE row == [domain[b] EXCEPT !.status = v, !.lastScan = s]
<1>1. /\ domain \in [Domains -> DomainRow] /\ b \in Domains /\ s \in Scans
      /\ run[r].pc = "selected" /\ v \in {"infected", "blacklisted", "clean"}
  BY DEF DomainsInv, TypeOK, Settling, StatusUpdate, StatusFrom
<1>2. domain' = [domain EXCEPT ![b] = row]
  BY <1>1 DEF StatusUpdate
<1>3. /\ row \in DomainRow /\ row.name = domain[b].name /\ row.state = domain[b].state
      /\ row.status = v /\ row.lastScan = s
  <2>1. domain[b] \in DomainRow
    BY <1>1
  <2>2. row \in DomainRow
    BY <1>1, <2>1 DEF DomainRow
  <2>3. /\ row.name = domain[b].name /\ row.state = domain[b].state
        /\ row.status = v /\ row.lastScan = s
    BY <2>1 DEF DomainRow
  <2> QED
    BY <2>2, <2>3
<1> HIDE DEF row
<1>4. domain' \in [Domains -> DomainRow]
  BY <1>1, <1>2, <1>3
<1>5. RowJudged(b)
  BY <1>1, <1>2, <1>3 DEF RowJudged
<1>6. \A d \in Domains : d # b => RowKept(d)
  BY <1>1, <1>2 DEF RowKept
<1> QED
  BY <1>4, <1>5, <1>6

LEMMA LinkRows ==
  ASSUME DomainsInv, NEW b \in Domains, TriggerSave(b)
  PROVE  domain' \in [Domains -> DomainRow] /\ \A d \in Domains : RowKept(d) \/ RowLinked(d)
<1>1. /\ domain \in [Domains -> DomainRow] /\ trigger[b].scan \in Scans
      /\ trigger[b].pc = "created"
      /\ domain' = [domain EXCEPT ![b].lastScan = trigger[b].scan]
  BY DEF DomainsInv, TypeOK, Triggering, TriggerSave
<1> QED
  BY <1>1 DEF RowKept, RowLinked, DomainRow

\* Every other step leaves the rows of the domains alone.
LEMMA RowsAlone ==
  ASSUME \/ \E q \in Requests :
              \/ \E n \in Names : CreateCheck(q, n)
              \/ CreateLock(q) \/ CreateCount(q) \/ CreateRefused(q)
              \/ \E d \in Domains, op \in {"activate", "deactivate", "delete"} : Read(q, d, op)
         \/ \E s \in Scans : ScanStep(s) \/ \E n \in Names : UserScan(s, n)
         \/ \E r \in Runs : StatusSelect(r) \/ StatusLost(r)
         \/ \E d \in Domains : TriggerRead(d) \/ TriggerScan(d) \/ TriggerLost(d)
         \/ Dispatch \/ \E p \in Plans \cup {NoPlan} : ChangePlan(p)
         \/ UNCHANGED vars
  PROVE  UNCHANGED <<domain, reactivated>>
  BY DEF CreateCheck, CreateLock, CreateCount, CreateRefused, Read, ScanStep, ScanStarts,
         ScanFails, RunCompletes, UserScan, StatusSelect, StatusLost, TriggerRead, TriggerScan,
         TriggerLost, Dispatch, ChangePlan, vars

LEMMA RowSteps ==
  ASSUME DomainsInv, [Next]_vars
  PROVE  domain' \in [Domains -> DomainRow] /\ \A d \in Domains : RowStep(d)
<1>1. CASE UNCHANGED domain
  BY <1>1 DEF DomainsInv, TypeOK, RowStep, RowKept
<1>2. CASE \E q \in Requests : \/ \E d \in Domains : CreateInsert(q, d)
                               \/ PatchSave(q) \/ DeleteSave(q)
  BY <1>2, InsertRows, PatchRows, DeleteRows DEF RowStep
<1>3. CASE \E r \in Runs : StatusUpdate(r)
  BY <1>3, StatusRows DEF RowStep
<1>4. CASE \E d \in Domains : TriggerSave(d)
  BY <1>4, LinkRows DEF RowStep
<1> QED
  BY <1>1, <1>2, <1>3, <1>4, RowsAlone DEF Next, RequestStep, RunStep, TriggerStep

-----------------------------------------------------------------------------
(* What the steps do to the rows of the scans *)

\* A scan is created for a name.
LEMMA CreateScanRows ==
  ASSUME TypeOK, NEW s \in Scans, NEW n \in Names, CreateScan(s, n)
  PROVE  /\ scan' \in [Scans -> ScanRow] /\ \A r \in Scans : ScanKept(r)
         /\ scan'[s].name = n /\ scan'[s].state # "none"
         /\ \A r \in Scans : r # s => scan'[r] = scan[r]
<1>1. scan \in [Scans -> ScanRow] /\ scan[s].state = "none"
  BY DEF TypeOK, CreateScan
<1>2. PICK state \in {"queued", "cached"} :
         scan' = [scan EXCEPT ![s] = [NoScan EXCEPT !.state = state, !.name = n]]
  BY DEF CreateScan
<1>3. PICK row : row = [NoScan EXCEPT !.state = state, !.name = n]
  OBVIOUS
<1>4. row \in ScanRow /\ row.name = n /\ row.state # "none"
  BY <1>3, BlankTypes DEF ScanRow
<1> QED
  BY <1>1, <1>2, <1>3, <1>4 DEF ScanKept

\* trigger_scan, process_scan_result and the cleanup write a scan that exists.
ScanMoved(s, row) ==
    /\ row \in ScanRow /\ row.name = scan[s].name /\ row.state # "none"
    /\ scan[s].given \subseteq row.given

LEMMA ScanOwnSteps ==
  ASSUME DomainsInv, NEW s \in Scans, ScanStep(s)
  PROVE  \E row : scan' = [scan EXCEPT ![s] = row] /\ ScanMoved(s, row)
<1>1. scan \in [Scans -> ScanRow] /\ scan[s] \in ScanRow
  BY DEF DomainsInv, TypeOK
<1>2. CASE ScanStarts(s)
  <2>1. PICK published \in {scan[s].published, TRUE} :
           scan' = [scan EXCEPT ![s] = [scan[s] EXCEPT !.state = "scanning",
                                                       !.published = published]]
    BY <1>1, <1>2 DEF ScanStarts
  <2>2. ScanMoved(s, [scan[s] EXCEPT !.state = "scanning", !.published = published])
    BY <1>1, <2>1 DEF ScanMoved, ScanRow
  <2> QED
    BY <2>1, <2>2
<1>3. CASE ScanFails(s)
  <2>1. scan' = [scan EXCEPT ![s] = [scan[s] EXCEPT !.state = "failed"]]
    BY <1>1, <1>3 DEF ScanFails
  <2>2. ScanMoved(s, [scan[s] EXCEPT !.state = "failed"])
    BY <1>1 DEF ScanMoved, ScanRow
  <2> QED
    BY <2>1, <2>2
<1>4. CASE \E r \in Runs : RunCompletes(r, s)
  <2>1. PICK found \in Findings :
           scan' = [scan EXCEPT ![s] = [scan[s] EXCEPT !.state = "completed",
                                                       !.given = scan[s].given \cup {found}]]
    BY <1>1, <1>4 DEF RunCompletes
  <2>2. ScanMoved(s, [scan[s] EXCEPT !.state = "completed",
                                     !.given = scan[s].given \cup {found}])
    <3> DEFINE row == [scan[s] EXCEPT !.state = "completed", !.given = scan[s].given \cup {found}]
    <3>1. /\ row.name = scan[s].name /\ row.state = "completed"
          /\ row.given = scan[s].given \cup {found}
      BY <1>1 DEF ScanRow
    <3>2. scan[s].given \cup {found} \in SUBSET Findings
      BY <1>1, <2>1 DEF ScanRow
    <3>3. row \in ScanRow
      BY <1>1, <3>2 DEF ScanRow
    <3> QED
      BY <3>1, <3>3 DEF ScanMoved
  <2> QED
    BY <2>1, <2>2
<1> QED
  BY <1>2, <1>3, <1>4 DEF ScanStep

LEMMA DeleteScans ==
  ASSUME DomainsInv, NEW q \in Requests, DeleteSave(q)
  PROVE  /\ scan' \in [Scans -> ScanRow] /\ \A s \in Scans : ScanKept(s)
         /\ \A s \in Scans : /\ scan'[s].state = scan[s].state
                            /\ scan'[s].published = scan[s].published
                            /\ scan'[s].given = scan[s].given
<1>1. scan \in [Scans -> ScanRow]
  BY DEF DomainsInv, TypeOK
<1>2. \A s \in Scans : scan'[s] = scan[s] \/ scan'[s] = [scan[s] EXCEPT !.deleted = TRUE]
  BY DEF DeleteSave
<1>3. \A s \in Scans :
         /\ [scan[s] EXCEPT !.deleted = TRUE] \in ScanRow
         /\ [scan[s] EXCEPT !.deleted = TRUE].state = scan[s].state
         /\ [scan[s] EXCEPT !.deleted = TRUE].name = scan[s].name
         /\ [scan[s] EXCEPT !.deleted = TRUE].published = scan[s].published
         /\ [scan[s] EXCEPT !.deleted = TRUE].given = scan[s].given
  BY <1>1 DEF ScanRow
<1>4. DOMAIN scan' = Scans /\ scan' = [s \in Scans |-> scan'[s]]
  BY DEF DeleteSave
<1>5. \A s \in Scans : /\ scan'[s] \in ScanRow /\ scan'[s].state = scan[s].state
                      /\ scan'[s].name = scan[s].name /\ scan'[s].given = scan[s].given
                      /\ scan'[s].published = scan[s].published
  BY <1>1, <1>2, <1>3
<1> QED
  BY <1>4, <1>5 DEF ScanKept

LEMMA ScanSteps ==
  ASSUME DomainsInv, [Next]_vars
  PROVE  /\ scan' \in [Scans -> ScanRow] /\ \A s \in Scans : ScanKept(s)
         /\ Publishing'
<1> DEFINE Goal == /\ scan' \in [Scans -> ScanRow] /\ \A s \in Scans : ScanKept(s)
                   /\ Publishing'
<1>1. /\ scan \in [Scans -> ScanRow] /\ TypeOK
      /\ \A s \in Scans : scan[s].published \/ scan[s].given # {} => scan[s].state # "none"
  BY DEF DomainsInv, TypeOK, Publishing
<1>2. ASSUME UNCHANGED scan PROVE Goal
  BY <1>1, <1>2 DEF ScanKept, Publishing
<1>3. ASSUME NEW s \in Scans, NEW n \in Names, CreateScan(s, n) PROVE Goal
  BY <1>1, <1>3, CreateScanRows DEF Publishing
<1>4. ASSUME NEW q \in Requests, DeleteSave(q) PROVE Goal
  BY <1>1, <1>4, DeleteScans DEF Publishing
<1>5. ASSUME NEW s \in Scans, ScanStep(s) PROVE Goal
  <2>1. PICK row : scan' = [scan EXCEPT ![s] = row] /\ ScanMoved(s, row)
    BY <1>5, ScanOwnSteps
  <2> QED
    BY <1>1, <2>1 DEF ScanMoved, ScanKept, Publishing
<1>6. ASSUME \/ \E q \in Requests :
                  \/ \E n \in Names : CreateCheck(q, n)
                  \/ CreateLock(q) \/ CreateCount(q) \/ CreateRefused(q) \/ PatchSave(q)
                  \/ \E d \in Domains : \/ CreateInsert(q, d)
                                        \/ \E op \in {"activate", "deactivate", "delete"} : Read(q, d, op)
             \/ \E r \in Runs : RunStep(r) \/ StatusLost(r)
             \/ \E d \in Domains : TriggerRead(d) \/ TriggerLost(d) \/ TriggerSave(d)
             \/ Dispatch \/ (\E p \in Plans \cup {NoPlan} : ChangePlan(p)) \/ UNCHANGED vars
      PROVE  UNCHANGED scan
  BY <1>6 DEF CreateCheck, CreateLock, CreateCount, CreateRefused, PatchSave, CreateInsert, Read,
              RunStep, StatusSelect, StatusUpdate, StatusLost, TriggerRead, TriggerLost,
              TriggerSave, Dispatch, ChangePlan, vars
<1>7. ASSUME NEW d \in Domains, TriggerScan(d)
      PROVE  (\E s \in Scans, n \in Names : CreateScan(s, n)) \/ UNCHANGED scan
  <2>1. domain[d].name \in Names
    BY DEF DomainsInv, TypeOK, DomainRow
  <2> QED
    BY <1>7, <2>1 DEF TriggerScan
<1> HIDE DEF Goal
<1>8. Goal
  BY <1>2, <1>3, <1>4, <1>5, <1>6, <1>7 DEF Next, RequestStep, TriggerStep, UserScan
<1> QED
  BY <1>8 DEF Goal

-----------------------------------------------------------------------------
(* The executions of process_scan_result *)

\* An execution at work has just saved its verdict, or is the one it was, with the domain it
\* had selected or a monitored one of the scan's name.
RunFresh(r) ==
    run'[r].pc # "none" =>
        \/ /\ run'[r].pc = "completed" /\ run'[r].scan \in Scans
           /\ scan[run'[r].scan].published
           /\ run'[r].found \in scan'[run'[r].scan].given
        \/ /\ run[r].pc # "none" /\ run'[r].scan = run[r].scan /\ run'[r].found = run[r].found
           /\ run'[r].pc = "selected" =>
                 \/ run[r].pc = "selected" /\ run'[r].domain = run[r].domain
                 \/ run'[r].domain \in Matching(scan[run[r].scan].name)

LEMMA RunSteps ==
  ASSUME DomainsInv, [Next]_vars
  PROVE  run' \in [Runs -> RunState] /\ \A r \in Runs : RunFresh(r)
<1> DEFINE Goal == run' \in [Runs -> RunState] /\ \A r \in Runs : RunFresh(r)
<1>1. run \in [Runs -> RunState] /\ scan \in [Scans -> ScanRow]
  BY DEF DomainsInv, TypeOK
<1>2. ASSUME UNCHANGED run PROVE Goal
  BY <1>1, <1>2 DEF RunFresh
<1>3. ASSUME NEW r \in Runs, NEW s \in Scans, RunCompletes(r, s) PROVE Goal
  <2>1. PICK found \in Findings :
          /\ scan' = [scan EXCEPT ![s] = [scan[s] EXCEPT !.state = "completed",
                                                         !.given = scan[s].given \cup {found}]]
          /\ run' = [run EXCEPT ![r] = [NoRun EXCEPT !.pc = "completed", !.scan = s,
                                                     !.found = found]]
    BY <1>1, <1>3 DEF RunCompletes
  <2> PICK state : state = [NoRun EXCEPT !.pc = "completed", !.scan = s, !.found = found]
    OBVIOUS
  <2>2. state \in RunState /\ state.pc = "completed" /\ state.scan = s /\ state.found = found
    BY BlankTypes DEF RunState
  <2>3. found \in scan'[s].given
    BY <1>1, <2>1 DEF ScanRow
  <2> QED
    BY <1>1, <1>3, <2>1, <2>2, <2>3 DEF RunFresh, RunCompletes
<1>4. ASSUME NEW r \in Runs, StatusUpdate(r) \/ StatusLost(r) PROVE Goal
  BY <1>1, <1>4, BlankTypes DEF StatusUpdate, StatusLost, RunFresh
<1>5. ASSUME NEW r \in Runs, StatusSelect(r) PROVE Goal
  <2>1. CASE run' = [run EXCEPT ![r] = NoRun]
    BY <1>1, <2>1, BlankTypes DEF RunFresh
  <2>2. ASSUME NEW d \in Matching(scan[run[r].scan].name),
               run' = [run EXCEPT ![r] = [run[r] EXCEPT !.pc = "selected", !.domain = d]]
        PROVE  Goal
    <3> PICK state : state = [run[r] EXCEPT !.pc = "selected", !.domain = d]
      OBVIOUS
    <3>1. d \in Domains
      BY DEF Matching, Monitored, Live
    <3>2. /\ state \in RunState /\ state.pc = "selected" /\ state.domain = d
          /\ state.scan = run[r].scan /\ state.found = run[r].found
      BY <1>1, <3>1 DEF RunState
    <3> QED
      BY <1>1, <1>5, <2>2, <3>2 DEF RunFresh, StatusSelect
  <2> QED
    BY <1>1, <1>5, <2>1, <2>2 DEF StatusSelect
<1>6. ASSUME \/ \E q \in Requests : RequestStep(q)
             \/ \E s \in Scans :
                  ScanStarts(s) \/ ScanFails(s) \/ \E n \in Names : UserScan(s, n)
             \/ \E d \in Domains : TriggerStep(d) \/ TriggerLost(d)
             \/ Dispatch \/ (\E p \in Plans \cup {NoPlan} : ChangePlan(p)) \/ UNCHANGED vars
      PROVE  UNCHANGED run
  BY <1>6 DEF RequestStep, CreateCheck, CreateLock, CreateCount, CreateRefused, CreateInsert,
              Read, PatchSave, DeleteSave, ScanStarts, ScanFails, UserScan, TriggerStep,
              TriggerRead, TriggerScan, TriggerSave, TriggerLost, Dispatch, ChangePlan, vars
<1> HIDE DEF Goal
<1>7. Goal
  BY <1>2, <1>3, <1>4, <1>5, <1>6 DEF Next, ScanStep, RunStep
<1> QED
  BY <1>7 DEF Goal

-----------------------------------------------------------------------------
(* The requests *)

LEMMA EndStep ==
  ASSUME TypeOK, NEW q \in Requests, End(q)
  PROVE  /\ request' \in [Requests -> RequestState] /\ lock' \in Requests \cup {Nobody}
         /\ request'[q].pc = "idle" /\ \A r \in Requests : r # q => request'[r] = request[r]
         /\ lock' = IF lock = q THEN Nobody ELSE lock
  BY IdleType DEF TypeOK, End

\* A request that has read a domain had done so before, or just reads a monitored one.
ReadFresh(q) ==
    request'[q].pc = "read" =>
        \/ request[q].pc = "read" /\ request'[q].domain = request[q].domain
        \/ request'[q].domain \in Monitored /\ UNCHANGED domain

\* Locking of one request.
LockedBy(q) ==
    /\ request[q].pc \in {"locked", "counted"} => lock = q
    /\ request[q].pc = "counted" => reactivated \/ HasDomainQuota

LEMMA CreateCheckStep ==
  ASSUME DomainsInv, NEW q \in Requests, NEW n \in Names, CreateCheck(q, n)
  PROVE  /\ request' \in [Requests -> RequestState] /\ lock' \in Requests \cup {Nobody}
         /\ \A r \in Requests : ReadFresh(r) /\ LockedBy(r)'
<1> DEFINE state == [Idle EXCEPT !.pc = "checked", !.op = "create", !.name = n]
<1>1. state \in RequestState /\ state.pc = "checked"
  BY IdleType DEF RequestState
<1>2. /\ request' = [request EXCEPT ![q] = state] /\ UNCHANGED <<plan, lock, domain, reactivated>>
      /\ request \in [Requests -> RequestState] /\ lock \in Requests \cup {Nobody}
  BY DEF CreateCheck, DomainsInv, TypeOK, org
<1> HIDE DEF state
<1>3. HasDomainQuota' = HasDomainQuota
  BY <1>2 DEF HasDomainQuota, DomainLimit, Monitored, Live
<1> QED
  BY <1>1, <1>2, <1>3 DEF ReadFresh, LockedBy, DomainsInv, Locking

LEMMA CreateLockStep ==
  ASSUME DomainsInv, NEW q \in Requests, CreateLock(q)
  PROVE  /\ request' \in [Requests -> RequestState] /\ lock' \in Requests \cup {Nobody}
         /\ \A r \in Requests : ReadFresh(r) /\ LockedBy(r)'
<1>1. /\ request' = [request EXCEPT ![q].pc = "locked"] /\ lock = Nobody /\ lock' = q
      /\ request \in [Requests -> RequestState]
  BY DEF CreateLock, OrgLockFree, DomainsInv, TypeOK
<1>2. /\ request' \in [Requests -> RequestState] /\ request'[q].pc = "locked"
      /\ \A r \in Requests : r # q => request'[r] = request[r]
  BY <1>1 DEF RequestState
<1>3. \A r \in Requests : request[r].pc \notin {"locked", "counted"}
  BY <1>1, ConstantsAssumption DEF DomainsInv, Locking
<1> QED
  BY <1>1, <1>2, <1>3 DEF ReadFresh, LockedBy

LEMMA CreateCountStep ==
  ASSUME DomainsInv, NEW q \in Requests, CreateCount(q)
  PROVE  /\ request' \in [Requests -> RequestState] /\ lock' \in Requests \cup {Nobody}
         /\ \A r \in Requests : ReadFresh(r) /\ LockedBy(r)'
<1>1. /\ request \in [Requests -> RequestState] /\ lock \in Requests \cup {Nobody} /\ lock = q
      /\ TypeOK
  BY DEF CreateCount, DomainsInv, TypeOK, Locking
<1>2. HasDomainQuota' = HasDomainQuota
  BY DEF CreateCount, HasDomainQuota, DomainLimit, org, Monitored, Live
<1>3. CASE HasDomainQuota /\ request' = [request EXCEPT ![q].pc = "counted"] /\ UNCHANGED lock
  <2>1. /\ request' \in [Requests -> RequestState] /\ request'[q].pc = "counted"
        /\ \A r \in Requests : r # q => request'[r] = request[r]
    BY <1>1, <1>3 DEF RequestState
  <2> QED
    BY <1>1, <1>2, <1>3, <2>1 DEF ReadFresh, LockedBy, DomainsInv, Locking
<1>4. CASE End(q)
  BY <1>1, <1>4, EndStep, ConstantsAssumption DEF ReadFresh, LockedBy, DomainsInv, Locking
<1> QED
  BY <1>3, <1>4 DEF CreateCount

\* A request that ends leaves those of the others, and what they have counted, as they are.
KeepsRoom(q) ==
    \/ request[q].pc = "counted"
    \/ reactivated'
    \/ reactivated' = reactivated /\ (HasDomainQuota => HasDomainQuota')

LEMMA EndKeeps ==
  ASSUME DomainsInv, NEW q \in Requests, End(q), KeepsRoom(q)
  PROVE  /\ request' \in [Requests -> RequestState] /\ lock' \in Requests \cup {Nobody}
         /\ \A r \in Requests : ReadFresh(r) /\ LockedBy(r)'
<1>1. TypeOK
  BY DEF DomainsInv
<1>2. /\ request' \in [Requests -> RequestState] /\ lock' \in Requests \cup {Nobody}
      /\ request'[q].pc = "idle" /\ \A r \in Requests : r # q => request'[r] = request[r]
      /\ lock' = IF lock = q THEN Nobody ELSE lock
  BY <1>1, EndStep
<1>3. \A r \in Requests : r # q => LockedBy(r)'
  BY <1>2 DEF LockedBy, KeepsRoom, DomainsInv, Locking
<1> QED
  BY <1>2, <1>3 DEF ReadFresh, LockedBy

\* A quota that leaves room leaves it while no domain is switched on.
LEMMA RoomStays ==
  ASSUME DomainsInv, Monitored' \subseteq Monitored, UNCHANGED plan, HasDomainQuota
  PROVE  HasDomainQuota'
<1> PICK old, new : old = Monitored /\ new = Monitored'
  OBVIOUS
<1>1. Cardinality(new) <= Cardinality(old) /\ Cardinality(old) \in Nat /\ Cardinality(new) \in Nat
  BY FiniteMonitored, FS_Subset, FS_CardinalityType
<1>2. DomainLimit' = DomainLimit
  BY DEF DomainLimit
<1>3. CASE DomainLimit = Unlimited
  BY <1>2, <1>3 DEF HasDomainQuota
<1>4. CASE DomainLimit # Unlimited
  <2>1. Cardinality(old) < DomainLimit
    BY <1>4 DEF HasDomainQuota
  <2>2. Cardinality(new) < DomainLimit
    <3>1. DomainLimit \in Nat
      BY <1>4, LimitType DEF DomainsInv
    <3> QED
      BY <1>1, <2>1, <3>1
  <2> QED
    BY <1>2, <2>2 DEF HasDomainQuota
<1> QED
  BY <1>3, <1>4

\* The PATCH switches on a domain that another request has switched off since it was read.
SwitchesOn(q) ==
    LET d == request[q].domain IN
    request[q].op = "activate" /\ d \in Live /\ ~domain[d].active

LEMMA PatchShrinks ==
  ASSUME DomainsInv, NEW q \in Requests, PatchSave(q), ~SwitchesOn(q)
  PROVE  Monitored' \subseteq Monitored
<1>1. domain \in [Domains -> DomainRow]
  BY DEF DomainsInv, TypeOK
<1> PICK b, a : b = request[q].domain /\ a = (request[q].op = "activate")
  OBVIOUS
<1>2. a => b \notin Live \/ domain[b].active
  BY DEF SwitchesOn
<1>3. ASSUME NEW d \in Monitored' PROVE d \in Monitored
  <2>1. domain[d].state = "live"
    BY <1>3, PatchRows DEF Monitored, Live
  <2>2. CASE d = b
    <3>1. domain'[d] = [domain[d] EXCEPT !.active = a]
      BY <1>1, <1>3, <2>2 DEF PatchSave, Patched, Monitored, Live
    <3>2. a
      BY <1>1, <1>3, <3>1 DEF Monitored, Live, DomainRow
    <3> QED
      BY <1>2, <1>3, <2>1, <2>2, <3>2 DEF Monitored, Live
  <2>3. CASE d # b
    BY <1>1, <1>3, <2>1, <2>3 DEF PatchSave, Monitored, Live
  <2> QED
    BY <2>2, <2>3
<1> QED
  BY <1>3

\* The verdict of a scan and the link to one leave alone which domains are monitored.
LEMMA SavesKeepMonitored ==
  ASSUME DomainsInv,
         (\E r \in Runs : StatusUpdate(r)) \/ (\E d \in Domains : TriggerSave(d))
  PROVE  Monitored' \subseteq Monitored
<1>1. domain \in [Domains -> DomainRow]
  BY DEF DomainsInv, TypeOK
<1>2. ASSUME NEW d \in Domains
      PROVE  domain'[d].state = domain[d].state /\ domain'[d].active = domain[d].active
  <2>1. domain[d] \in DomainRow
    BY <1>1
  <2>2. ASSUME NEW r \in Runs, StatusUpdate(r)
        PROVE  domain'[d].state = domain[d].state /\ domain'[d].active = domain[d].active
    <3>1. CASE d = run[r].domain
      <4>1. domain'[d] = [domain[d] EXCEPT !.status = StatusFrom(run[r].found),
                                           !.lastScan = run[r].scan]
        BY <1>1, <2>2, <3>1 DEF StatusUpdate
      <4> QED
        BY <2>1, <4>1 DEF DomainRow
    <3>2. CASE d # run[r].domain
      BY <1>1, <2>2, <3>2 DEF StatusUpdate
    <3> QED
      BY <3>1, <3>2
  <2>3. ASSUME NEW b \in Domains, TriggerSave(b)
        PROVE  domain'[d].state = domain[d].state /\ domain'[d].active = domain[d].active
    <3>1. CASE d = b
      <4>1. domain'[d] = [domain[d] EXCEPT !.lastScan = trigger[b].scan]
        BY <1>1, <2>3, <3>1 DEF TriggerSave
      <4> QED
        BY <2>1, <4>1 DEF DomainRow
    <3>2. CASE d # b
      BY <1>1, <2>3, <3>2 DEF TriggerSave
    <3> QED
      BY <3>1, <3>2
  <2> QED
    BY <2>2, <2>3
<1> QED
  BY <1>2 DEF Monitored, Live

LEMMA RequestSteps ==
  ASSUME DomainsInv, [Next]_vars
  PROVE  /\ request' \in [Requests -> RequestState] /\ lock' \in Requests \cup {Nobody}
         /\ \A r \in Requests : ReadFresh(r) /\ LockedBy(r)'
<1> DEFINE Goal == /\ request' \in [Requests -> RequestState] /\ lock' \in Requests \cup {Nobody}
                   /\ \A r \in Requests : ReadFresh(r) /\ LockedBy(r)'
<1>1. /\ request \in [Requests -> RequestState] /\ lock \in Requests \cup {Nobody}
      /\ domain \in [Domains -> DomainRow]
      /\ \A r \in Requests : LockedBy(r)
  BY DEF DomainsInv, TypeOK, Locking, LockedBy
<1>2. ASSUME UNCHANGED <<request, lock, plan, reactivated>>, Monitored' \subseteq Monitored
      PROVE  Goal
  BY <1>1, <1>2, RoomStays DEF ReadFresh, LockedBy
<1>3. ASSUME NEW q \in Requests, \/ \E n \in Names : CreateCheck(q, n)
                                \/ CreateLock(q) \/ CreateCount(q) \/ CreateRefused(q)
                                \/ \E d \in Domains : CreateInsert(q, d)
      PROVE  Goal
  <2>1. CASE \E n \in Names : CreateCheck(q, n)
    BY <2>1, CreateCheckStep
  <2>2. CASE CreateLock(q) \/ CreateCount(q)
    BY <2>2, CreateLockStep, CreateCountStep
  <2>3. CASE CreateRefused(q) \/ \E d \in Domains : CreateInsert(q, d)
    <3>1. CASE CreateRefused(q)
      <4>1. End(q) /\ UNCHANGED <<plan, domain, reactivated>>
        BY <3>1 DEF CreateRefused, org
      <4>2. KeepsRoom(q)
        BY <4>1 DEF KeepsRoom, HasDomainQuota, DomainLimit, Monitored, Live
      <4> QED
        BY <4>1, <4>2, EndKeeps
    <3>2. CASE \E d \in Domains : CreateInsert(q, d)
      <4>1. End(q) /\ KeepsRoom(q)
        BY <3>2 DEF CreateInsert, KeepsRoom
      <4> QED
        BY <4>1, EndKeeps
    <3> QED
      BY <2>3, <3>1, <3>2
  <2> QED
    BY <1>3, <2>1, <2>2, <2>3
<1>4. ASSUME NEW q \in Requests, NEW d \in Domains, NEW op \in {"activate", "deactivate", "delete"},
             Read(q, d, op)
      PROVE  Goal
  <2> DEFINE state == [Idle EXCEPT !.pc = "read", !.op = op, !.domain = d,
                                   !.row = Kept(op, domain[d])]
  <2>1. Kept(op, domain[d]) \in DomainRow
    BY <1>1, BlankTypes DEF Kept
  <2>2. state \in RequestState /\ state.pc = "read" /\ state.domain = d
    BY <2>1, IdleType DEF RequestState
  <2>3. /\ request' = [request EXCEPT ![q] = state] /\ UNCHANGED <<plan, lock, domain, reactivated>>
        /\ d \in Monitored
    BY <1>4 DEF Read, org
  <2> HIDE DEF state
  <2>4. HasDomainQuota' = HasDomainQuota
    BY <2>3 DEF HasDomainQuota, DomainLimit, Monitored, Live
  <2> QED
    BY <1>1, <2>2, <2>3, <2>4 DEF ReadFresh, LockedBy
<1>5. ASSUME NEW q \in Requests, DeleteSave(q) PROVE Goal
  <2>1. Monitored' \subseteq Monitored /\ UNCHANGED <<plan, reactivated>> /\ End(q)
    BY <1>1, <1>5 DEF DeleteSave, Monitored, Live, org, DomainRow
  <2>2. KeepsRoom(q)
    BY <2>1, RoomStays DEF KeepsRoom
  <2> QED
    BY <2>1, <2>2, EndKeeps
<1>6. ASSUME NEW q \in Requests, PatchSave(q) PROVE Goal
  <2>1. End(q) /\ UNCHANGED plan /\ (reactivated => reactivated')
    BY <1>6 DEF PatchSave, org
  <2>2. ASSUME ~reactivated' PROVE Monitored' \subseteq Monitored
    <3>1. ~SwitchesOn(q)
      BY <1>6, <2>2 DEF PatchSave, SwitchesOn
    <3> QED
      BY <1>6, <3>1, PatchShrinks
  <2>3. ASSUME ~reactivated' PROVE reactivated' = reactivated
    BY <1>6, <2>1, <2>3 DEF DomainsInv, TypeOK, PatchSave
  <2>4. KeepsRoom(q)
    BY <2>1, <2>2, <2>3, RoomStays DEF KeepsRoom
  <2> QED
    BY <2>1, <2>4, EndKeeps
<1>7. ASSUME NEW p \in Plans \cup {NoPlan}, ChangePlan(p) PROVE Goal
  <2>1. \A r \in Requests : request[r].pc \notin {"locked", "counted"}
    BY <1>1, <1>7, ConstantsAssumption DEF ChangePlan, LockedBy
  <2> QED
    BY <1>1, <1>7, <2>1 DEF ChangePlan, ReadFresh, LockedBy
<1>8. ASSUME \/ \E r \in Runs : StatusUpdate(r)
             \/ \E d \in Domains : TriggerSave(d)
      PROVE  UNCHANGED <<request, lock, plan, reactivated>> /\ Monitored' \subseteq Monitored
  <2>1. UNCHANGED <<request, lock, plan, reactivated>>
    BY <1>8 DEF StatusUpdate, TriggerSave, org
  <2> QED
    BY <1>8, <2>1, SavesKeepMonitored
<1>9. ASSUME \/ \E s \in Scans : ScanStep(s) \/ \E n \in Names : UserScan(s, n)
             \/ \E r \in Runs : StatusSelect(r) \/ StatusLost(r)
             \/ \E d \in Domains : TriggerRead(d) \/ TriggerScan(d) \/ TriggerLost(d)
             \/ Dispatch \/ UNCHANGED vars
      PROVE  UNCHANGED <<request, lock, plan, reactivated>> /\ Monitored' \subseteq Monitored
  <2>1. UNCHANGED <<request, lock, plan, reactivated, domain>>
    BY <1>9 DEF ScanStep, ScanStarts, ScanFails, RunCompletes, StatusSelect, StatusLost, UserScan,
                TriggerRead, TriggerScan, TriggerLost, Dispatch, org, vars
  <2> QED
    BY <2>1 DEF Monitored, Live
<1> HIDE DEF Goal
<1>10. Goal
  BY <1>2, <1>3, <1>4, <1>5, <1>6, <1>7, <1>8, <1>9
     DEF Next, RequestStep, RunStep, TriggerStep
<1> QED
  BY <1>10 DEF Goal

-----------------------------------------------------------------------------
(* The tasks that scan a domain *)

\* A task that has read its domain or created a scan had done so before, or does it now.
TriggerFresh(d) ==
    /\ trigger'[d].pc = "read" => trigger[d].pc = "read" \/ d \in Monitored
    /\ trigger'[d].pc = "created" =>
          \/ trigger'[d] = trigger[d]
          \/ /\ trigger[d].pc = "read" /\ UNCHANGED domain /\ trigger'[d].scan \in Scans
             /\ scan'[trigger'[d].scan].state # "none"
             /\ scan'[trigger'[d].scan].name = domain[d].name

LEMMA TriggerSteps ==
  ASSUME DomainsInv, [Next]_vars
  PROVE  trigger' \in [Domains -> TriggerState] /\ \A d \in Domains : TriggerFresh(d)
<1> DEFINE Goal == /\ trigger' \in [Domains -> TriggerState]
                   /\ \A d \in Domains : TriggerFresh(d)
<1>1. /\ trigger \in [Domains -> TriggerState] /\ domain \in [Domains -> DomainRow]
      /\ scan \in [Scans -> ScanRow] /\ TypeOK
  BY DEF DomainsInv, TypeOK
<1>2. ASSUME UNCHANGED trigger PROVE Goal
  BY <1>1, <1>2 DEF TriggerFresh
<1>3. ASSUME NEW q \in Requests, NEW d \in Domains, CreateInsert(q, d) PROVE Goal
  BY <1>1, <1>3 DEF CreateInsert, TriggerFresh, TriggerState
<1>4. ASSUME NEW d \in Domains, TriggerRead(d) PROVE Goal
  BY <1>1, <1>4 DEF TriggerRead, TriggerFresh, TriggerState
<1>5. ASSUME NEW d \in Domains, TriggerScan(d) PROVE Goal
  <2>1. CASE \E s \in Scans : /\ CreateScan(s, domain[d].name)
                             /\ trigger' = [trigger EXCEPT ![d] = [pc |-> "created", scan |-> s]]
    <3> PICK s \in Scans : /\ CreateScan(s, domain[d].name)
                           /\ trigger' = [trigger EXCEPT ![d] = [pc |-> "created", scan |-> s]]
      BY <2>1
    <3>1. domain[d].name \in Names
      BY <1>1 DEF DomainRow
    <3>2. scan'[s].name = domain[d].name /\ scan'[s].state # "none"
      BY <1>1, <3>1, CreateScanRows
    <3>3. trigger[d].pc = "read" /\ UNCHANGED domain
      BY <1>5 DEF TriggerScan
    <3> QED
      BY <1>1, <3>2, <3>3 DEF TriggerFresh, TriggerState
  <2>2. CASE \E pc \in {"queued", "none"} : trigger' = [trigger EXCEPT ![d].pc = pc]
    BY <1>1, <2>2 DEF TriggerFresh, TriggerState
  <2> QED
    BY <1>5, <2>1, <2>2 DEF TriggerScan
<1>6. ASSUME NEW d \in Domains, TriggerSave(d) \/ TriggerLost(d) PROVE Goal
  <2>1. [NoTrigger EXCEPT !.pc = "queued"] \in TriggerState
    BY BlankTypes DEF TriggerState
  <2>2. [NoTrigger EXCEPT !.pc = "queued"].pc = "queued"
    BY BlankTypes DEF TriggerState
  <2> QED
    BY <1>1, <1>6, <2>1, <2>2, BlankTypes DEF TriggerSave, TriggerLost, TriggerFresh
<1>7. ASSUME Dispatch PROVE Goal
  <2>1. [NoTrigger EXCEPT !.pc = "queued"] \in TriggerState
    BY BlankTypes DEF TriggerState
  <2>2. [NoTrigger EXCEPT !.pc = "queued"].pc = "queued"
    BY BlankTypes DEF TriggerState
  <2> QED
    BY <1>1, <1>7, <2>1, <2>2 DEF Dispatch, TriggerFresh
<1>8. ASSUME \/ \E q \in Requests :
                  \/ \E n \in Names : CreateCheck(q, n)
                  \/ CreateLock(q) \/ CreateCount(q) \/ CreateRefused(q)
                  \/ PatchSave(q) \/ DeleteSave(q)
                  \/ \E d \in Domains, op \in {"activate", "deactivate", "delete"} : Read(q, d, op)
             \/ \E s \in Scans : ScanStep(s) \/ \E n \in Names : UserScan(s, n)
             \/ \E r \in Runs : RunStep(r) \/ StatusLost(r)
             \/ (\E p \in Plans \cup {NoPlan} : ChangePlan(p)) \/ UNCHANGED vars
      PROVE  UNCHANGED trigger
  BY <1>8 DEF CreateCheck, CreateLock, CreateCount, CreateRefused, PatchSave, DeleteSave, Read,
              ScanStep, ScanStarts, ScanFails, RunCompletes, UserScan, RunStep, StatusSelect,
              StatusUpdate, StatusLost, ChangePlan, vars
<1> HIDE DEF Goal
<1>9. Goal
  BY <1>2, <1>3, <1>4, <1>5, <1>6, <1>7, <1>8 DEF Next, RequestStep, RunStep, TriggerStep
<1> QED
  BY <1>9 DEF Goal

-----------------------------------------------------------------------------
(* The invariant *)

LEMMA InvInit == Init => DomainsInv
<1> SUFFICES ASSUME Init PROVE DomainsInv
  OBVIOUS
<1>1. TypeOK
  <2>1. /\ domain \in [Domains -> DomainRow] /\ request \in [Requests -> RequestState]
        /\ scan \in [Scans -> ScanRow] /\ run \in [Runs -> RunState]
        /\ trigger \in [Domains -> TriggerState]
    BY BlankTypes, IdleType DEF Init
  <2>2. plan \in Plans \cup {NoPlan} /\ planChanges \in 0..MaxPlanChanges /\ lock \in Requests \cup {Nobody}
    BY ConstantsAssumption DEF Init
  <2>3. reactivated \in BOOLEAN
    BY DEF Init
  <2> QED
    BY <2>1, <2>2, <2>3 DEF TypeOK
<1> QED
  BY <1>1, BlankTypes, IdleType
     DEF Init, DomainsInv, Locking, Reading, Settling, Publishing, Triggering, Linking, Blank,
         OwnVerdict

LEMMA InvStep == DomainsInv /\ [Next]_vars => DomainsInv'
<1> SUFFICES ASSUME DomainsInv, [Next]_vars PROVE DomainsInv'
  OBVIOUS
<1>1. /\ domain' \in [Domains -> DomainRow] /\ \A d \in Domains : RowStep(d)
      /\ scan' \in [Scans -> ScanRow] /\ \A s \in Scans : ScanKept(s)
      /\ run' \in [Runs -> RunState] /\ \A r \in Runs : RunFresh(r)
      /\ request' \in [Requests -> RequestState] /\ lock' \in Requests \cup {Nobody}
      /\ \A q \in Requests : ReadFresh(q) /\ LockedBy(q)'
      /\ trigger' \in [Domains -> TriggerState] /\ \A d \in Domains : TriggerFresh(d)
  BY RowSteps, ScanSteps, RunSteps, RequestSteps, TriggerSteps
<1>2. \A d \in Domains : domain[d].state # "none" =>
                           domain'[d].state # "none" /\ domain'[d].name = domain[d].name
  BY <1>1 DEF RowStep, RowKept, RowBorn, RowJudged, RowLinked
<1>3. plan' \in Plans \cup {NoPlan} /\ planChanges' \in 0..MaxPlanChanges
  <2>1. ASSUME NEW p \in Plans \cup {NoPlan}, ChangePlan(p)
        PROVE  plan' \in Plans \cup {NoPlan} /\ planChanges' \in 0..MaxPlanChanges
    BY <2>1, ConstantsAssumption DEF ChangePlan, DomainsInv, TypeOK
  <2>2. ASSUME ~ \E p \in Plans \cup {NoPlan} : ChangePlan(p)
        PROVE  UNCHANGED <<plan, planChanges>>
    BY <2>2 DEF Next, RequestStep, ScanStep, RunStep, TriggerStep, CreateCheck, CreateLock,
                CreateCount, CreateRefused, CreateInsert, PatchSave, DeleteSave, Read, ScanStarts,
                ScanFails, RunCompletes, StatusSelect, StatusUpdate, StatusLost, UserScan,
                TriggerRead, TriggerScan, TriggerSave, TriggerLost, Dispatch, org, vars
  <2> QED
    BY <2>1, <2>2 DEF DomainsInv, TypeOK
<1>4. reactivated' \in BOOLEAN
  <2>1. CASE UNCHANGED reactivated
    BY <2>1 DEF DomainsInv, TypeOK
  <2>2. CASE \E q \in Requests : PatchSave(q)
    BY <2>2 DEF PatchSave
  <2> QED
    BY <2>1, <2>2, RowsAlone
       DEF Next, RequestStep, RunStep, TriggerStep, CreateInsert, DeleteSave, StatusUpdate,
           TriggerSave
<1>5. TypeOK'
  BY <1>1, <1>3, <1>4 DEF TypeOK
<1>6. Locking'
  BY <1>1 DEF Locking, LockedBy
<1>7. Reading'
  BY <1>1, <1>2 DEF Reading, ReadFresh, DomainsInv, Monitored, Live
<1>8. Settling'
  <2> SUFFICES ASSUME NEW r \in Runs, run'[r].pc # "none"
               PROVE  /\ run'[r].scan \in Scans /\ scan'[run'[r].scan].state # "none"
                      /\ run'[r].found \in scan'[run'[r].scan].given
                      /\ run'[r].pc = "selected" =>
                            /\ run'[r].domain \in Domains
                            /\ domain'[run'[r].domain].state # "none"
                            /\ scan'[run'[r].scan].name = domain'[run'[r].domain].name
    BY DEF Settling
  <2> PICK s, d, f : s = run'[r].scan /\ d = run'[r].domain /\ f = run'[r].found
    OBVIOUS
  <2>1. CASE /\ run'[r].pc = "completed" /\ s \in Scans /\ scan[s].published
             /\ f \in scan'[s].given
    BY <1>1, <2>1 DEF ScanKept, DomainsInv, Publishing
  <2>2. CASE /\ run[r].pc # "none" /\ s = run[r].scan /\ f = run[r].found
             /\ run'[r].pc = "selected" =>
                   \/ run[r].pc = "selected" /\ d = run[r].domain
                   \/ d \in Matching(scan[run[r].scan].name)
    <3>1. s \in Scans /\ scan[s].state # "none" /\ f \in scan[s].given
      BY <2>2 DEF DomainsInv, Settling
    <3>2. scan'[s].state # "none" /\ scan'[s].name = scan[s].name /\ f \in scan'[s].given
      BY <1>1, <3>1 DEF ScanKept
    <3>3. ASSUME run'[r].pc = "selected"
          PROVE  /\ d \in Domains /\ domain[d].state # "none"
                 /\ scan[s].name = domain[d].name
      <4>1. CASE run[r].pc = "selected" /\ d = run[r].domain
        BY <2>2, <4>1 DEF DomainsInv, Settling
      <4>2. CASE d \in Matching(scan[run[r].scan].name)
        BY <2>2, <4>2 DEF Matching, Monitored, Live
      <4> QED
        BY <2>2, <3>3, <4>1, <4>2
    <3> QED
      BY <1>2, <3>1, <3>2, <3>3
  <2> QED
    BY <1>1, <2>1, <2>2 DEF RunFresh
<1>9. Triggering'
  <2>1. ASSUME NEW d \in Domains, trigger'[d].pc \in {"read", "created"}
        PROVE  domain'[d].state # "none"
    BY <1>1, <1>2, <2>1 DEF TriggerFresh, DomainsInv, Triggering, Monitored, Live
  <2>2. ASSUME NEW d \in Domains, trigger'[d].pc = "created"
        PROVE  /\ trigger'[d].scan \in Scans /\ scan'[trigger'[d].scan].state # "none"
               /\ scan'[trigger'[d].scan].name = domain'[d].name
    <3>1. CASE trigger'[d] = trigger[d]
      <4> PICK s : s = trigger[d].scan
        OBVIOUS
      <4>1. /\ s \in Scans /\ scan[s].state # "none" /\ scan[s].name = domain[d].name
            /\ domain[d].state # "none"
        BY <2>2, <3>1 DEF DomainsInv, Triggering
      <4> QED
        BY <1>1, <1>2, <3>1, <4>1 DEF ScanKept
    <3>2. CASE trigger'[d] # trigger[d]
      BY <1>1, <2>2, <3>2 DEF TriggerFresh
    <3> QED
      BY <3>1, <3>2
  <2> QED
    BY <2>1, <2>2 DEF Triggering
<1>10. \A d \in Domains : domain'[d].lastScan # Nobody =>
          /\ scan'[domain'[d].lastScan].state # "none"
          /\ scan'[domain'[d].lastScan].name = domain'[d].name
  <2>1. ASSUME NEW d \in Domains, domain'[d].lastScan # Nobody
        PROVE  /\ scan'[domain'[d].lastScan].state # "none"
               /\ scan'[domain'[d].lastScan].name = domain'[d].name
    <3> PICK s : s = domain'[d].lastScan
      OBVIOUS
    <3>1. s \in Scans
      BY <1>1, <2>1 DEF DomainRow
    <3>2. scan[s].state # "none" /\ scan[s].name = domain[d].name /\ domain'[d].name = domain[d].name
      <4>1. CASE RowKept(d)
        BY <2>1, <4>1 DEF RowKept, DomainsInv, Linking, OwnVerdict
      <4>2. CASE RowJudged(d)
        BY <4>2 DEF RowJudged, DomainsInv, Settling
      <4>3. CASE RowLinked(d)
        BY <4>3 DEF RowLinked, DomainsInv, Triggering
      <4> QED
        BY <1>1, <2>1, <4>1, <4>2, <4>3 DEF RowStep, RowBorn
    <3> QED
      BY <1>1, <3>1, <3>2 DEF ScanKept
  <2> QED
    BY <2>1
<1>11. \A d \in Domains : domain'[d].status # "unknown" =>
          \E s \in Scans : /\ scan'[s].name = domain'[d].name
                           /\ \E found \in scan'[s].given :
                                 domain'[d].status = StatusFrom(found)
  <2> SUFFICES ASSUME NEW d \in Domains, domain'[d].status # "unknown"
               PROVE  \E s \in Scans : /\ scan'[s].name = domain'[d].name
                                       /\ \E found \in scan'[s].given :
                                             domain'[d].status = StatusFrom(found)
    OBVIOUS
  <2>1. \E s \in Scans : /\ scan[s].name = domain'[d].name
                         /\ \E found \in scan[s].given : domain'[d].status = StatusFrom(found)
    <3>1. CASE RowKept(d) \/ RowLinked(d)
      BY <3>1 DEF RowKept, RowLinked, DomainsInv, OwnVerdict
    <3>2. CASE RowJudged(d)
      BY <3>2 DEF RowJudged, DomainsInv, Settling
    <3> QED
      BY <1>1, <3>1, <3>2 DEF RowStep, RowBorn
  <2> PICK s \in Scans : /\ scan[s].name = domain'[d].name
                         /\ \E found \in scan[s].given : domain'[d].status = StatusFrom(found)
    BY <2>1
  <2> PICK found \in scan[s].given : domain'[d].status = StatusFrom(found)
    OBVIOUS
  <2>2. scan[s].state # "none"
    BY DEF DomainsInv, Publishing
  <2>3. scan'[s].name = scan[s].name /\ found \in scan'[s].given
    BY <1>1, <2>2 DEF ScanKept
  <2> QED
    BY <2>3
<1>12. Blank'
  BY <1>1 DEF Blank, RowStep, RowKept, RowBorn, RowJudged, RowLinked, DomainsInv, Settling, Triggering
<1> QED
  BY <1>1, <1>5, <1>6, <1>7, <1>8, <1>9, <1>10, <1>11, <1>12, ScanSteps
     DEF DomainsInv, Linking, OwnVerdict

-----------------------------------------------------------------------------
(* Theorems *)

\* Every state that requests, scans and scheduled tasks reach is well typed.
THEOREM DomainsTypeCorrect == Spec => []TypeOK
<1>1. DomainsInv => TypeOK
  BY DEF DomainsInv
<1> QED
  BY InvInit, InvStep, <1>1, PTL DEF Spec

\* update_status_from_scan and trigger_scheduled_scan: a domain links to scans of its own
\* name and shows a verdict that an execution for one of them saved, although scans are run
\* again and failed after they had one.
THEOREM VerdictIsOwn == Spec => []OwnVerdict
<1>1. DomainsInv => OwnVerdict
  BY DEF DomainsInv
<1> QED
  BY InvInit, InvStep, <1>1, PTL DEF Spec

\* create_domain under the row lock stays within the plan's quota, however many requests
\* create -- until a PATCH has switched on a domain that another request had switched off, and
\* but for an organisation whose plan was taken away, which has none.
THEOREM DomainQuotaKept == Spec => CreatesWithinQuota
<1> DEFINE Within == (\E d \in Domains : domain[d].state = "none" /\ domain'[d].state = "live")
                       => \/ reactivated \/ DomainLimit = Unlimited
                          \/ Cardinality(Monitored') <= DomainLimit
<1>1. ASSUME DomainsInv, [Next]_vars PROVE Within
  <2> SUFFICES ASSUME NEW d \in Domains, domain[d].state = "none", domain'[d].state = "live",
                      ~reactivated, DomainLimit # Unlimited
               PROVE  Cardinality(Monitored') <= DomainLimit
    OBVIOUS
  <2>1. RowBorn(d)
    BY <1>1, RowSteps DEF RowStep, RowKept, RowJudged, RowLinked
  <2>2. PICK q \in Requests : CreateInsert(q, d)
    BY <2>1 DEF RowBorn
  <2>3. Cardinality(Monitored) < DomainLimit /\ DomainLimit \in Nat
    BY <1>1, <2>2, LimitType DEF CreateInsert, DomainsInv, Locking, HasDomainQuota
  <2> PICK old, new : old = Monitored /\ new = Monitored'
    OBVIOUS
  <2>4. new \subseteq old \cup {d}
    <3>1. \A b \in Domains : b # d => domain'[b] = domain[b]
      BY <1>1, <2>2 DEF CreateInsert, DomainsInv, TypeOK
    <3>2. \A b \in new : b \in old \/ b = d
      BY <3>1 DEF Monitored, Live
    <3> QED
      BY <3>2
  <2>5. IsFiniteSet(old) /\ Cardinality(old) \in Nat
    BY FiniteMonitored
  <2>6. /\ IsFiniteSet(old \cup {d}) /\ Cardinality(old \cup {d}) <= Cardinality(old) + 1
        /\ Cardinality(old \cup {d}) \in Nat
    <3>1. /\ IsFiniteSet(old \cup {d})
          /\ Cardinality(old \cup {d}) = IF d \in old THEN Cardinality(old) ELSE Cardinality(old) + 1
      BY <2>5, FS_AddElement
    <3> QED
      BY <2>5, <3>1
  <2>7. Cardinality(new) <= Cardinality(old \cup {d}) /\ Cardinality(new) \in Nat
    BY <2>4, <2>6, FS_Subset, FS_CardinalityType
  <2> QED
    BY <2>3, <2>5, <2>6, <2>7
<1> QED
  BY InvInit, InvStep, <1>1, PTL DEF Spec, CreatesWithinQuota

\* delete_domain is final: no save of a copy that was read before brings the row back.
THEOREM DeletedStays == Spec => DeletedForGood
<1> DEFINE Stays == \A d \in Domains : domain[d].state = "deleted" => domain'[d].state = "deleted"
<1>1. ASSUME DomainsInv, [Next]_vars PROVE Stays
  BY <1>1, RowSteps DEF RowStep, RowKept, RowBorn, RowJudged, RowLinked
<1> QED
  BY InvInit, InvStep, <1>1, PTL DEF Spec, DeletedForGood

\* A domain's status changes only as update_status_from_scan writes the verdict of an
\* execution that has selected it: no other save replaces it.
THEOREM StatusComesFromScans == Spec => StatusFromScans
<1> DEFINE From == \A d \in Domains : domain'[d].status # domain[d].status =>
                      \E r \in Runs : /\ run[r].pc = "selected" /\ run[r].domain = d
                                      /\ domain'[d].status = StatusFrom(run[r].found)
<1>1. ASSUME DomainsInv, [Next]_vars PROVE From
  BY <1>1, RowSteps DEF RowStep, RowKept, RowBorn, RowJudged, RowLinked, DomainsInv, Blank
<1> QED
  BY InvInit, InvStep, <1>1, PTL DEF Spec, StatusFromScans

-----------------------------------------------------------------------------
(* The refinement: every step of the domains is a step of the gate, or a stutter. *)

Spent == {d \in Domains : domain[d].state # "none"}

\* The gate counts as create_domain does.
LEMMA SameCount == \A S : Gate!Cardinality(S) = Cardinality(S)
  BY DEF Cardinality, Gate!Cardinality

\* Only an insertion makes a row.
LEMMA SpentKept ==
  ASSUME DomainsInv, [Next]_vars, ~ \E q \in Requests, d \in Domains : CreateInsert(q, d)
  PROVE  UNCHANGED Spent
<1>1. \A d \in Domains : RowKept(d) \/ RowJudged(d) \/ RowLinked(d)
  BY RowSteps DEF RowStep, RowBorn
<1> QED
  BY <1>1 DEF Spent, RowKept, RowJudged, RowLinked

\* An insertion is an admission: the row is new, and what the request counted under the
\* lock still is below the quota, or a domain has been switched on past it.
LEMMA InsertAdmits ==
  ASSUME DomainsInv, NEW q \in Requests, NEW d \in Domains, CreateInsert(q, d)
  PROVE  Gate!Admit(d)
<1>1. domain \in [Domains -> DomainRow] /\ request[q].name \in Names
  BY DEF DomainsInv, TypeOK, RequestState
<1>2. Gate!HasRoom \/ reactivated
  BY SameCount DEF CreateInsert, DomainsInv, Locking, HasDomainQuota, Unlimited, Gate!HasRoom
<1> PICK new : new = Created(request[q].name)
  OBVIOUS
<1>3. new.state = "live" /\ new.active
  BY DEF Created, NoDomain
<1>4. /\ domain[d].state = "none" /\ domain'[d] = new
      /\ \A b \in Domains : b # d => domain'[b] = domain[b]
  BY <1>1 DEF CreateInsert
<1>5. Monitored' = Monitored \cup {d}
  BY <1>3, <1>4 DEF Monitored, Live
<1>6. Spent' = Spent \cup {d}
  BY <1>3, <1>4 DEF Spent
<1>7. UNCHANGED <<plan, reactivated>>
  BY DEF CreateInsert, org
<1> QED
  BY <1>2, <1>4, <1>5, <1>6, <1>7 DEF Spent, DomainLimit, Gate!Admit

\* A PATCH that switches a domain on again brings it back past the gate.
LEMMA PatchReturns ==
  ASSUME DomainsInv, [Next]_vars, NEW q \in Requests, PatchSave(q), SwitchesOn(q)
  PROVE  Gate!Return(request[q].domain)
<1>1. domain \in [Domains -> DomainRow]
  BY DEF DomainsInv, TypeOK
<1> PICK d : d = request[q].domain
  OBVIOUS
<1>2. d \in Domains /\ domain[d].state = "live" /\ ~domain[d].active
  BY DEF SwitchesOn, Live
<1>3. domain'[d] = [domain[d] EXCEPT !.active = TRUE]
  BY <1>1, <1>2 DEF PatchSave, Patched, SwitchesOn
<1>4. domain'[d].state = "live" /\ domain'[d].active
  BY <1>1, <1>2, <1>3 DEF DomainRow
<1>5. \A b \in Domains : b # d => domain'[b] = domain[b]
  BY <1>1 DEF PatchSave
<1>6. Monitored' = Monitored \cup {d}
  BY <1>2, <1>4, <1>5 DEF Monitored, Live
<1>7. UNCHANGED Spent
  BY <1>2, <1>4, <1>5 DEF Spent
<1>8. UNCHANGED plan /\ reactivated'
  BY DEF PatchSave, SwitchesOn, org
<1>9. d \in Spent \ Monitored
  BY <1>2 DEF Spent, Monitored
<1> QED
  BY <1>6, <1>7, <1>8, <1>9 DEF Spent, DomainLimit, Gate!Return

\* Every other step but a change of the plan lets domains leave, or nothing.
LEMMA OthersLeave ==
  ASSUME DomainsInv, [Next]_vars,
         ~ \E q \in Requests, d \in Domains : CreateInsert(q, d),
         ~ \E q \in Requests : PatchSave(q) /\ SwitchesOn(q),
         ~ \E p \in Plans \cup {NoPlan} : ChangePlan(p)
  PROVE  Gate!Leave
<1> DEFINE Goal == Monitored' \subseteq Monitored /\ UNCHANGED <<plan, reactivated>>
<1>1. domain \in [Domains -> DomainRow] /\ reactivated \in BOOLEAN
  BY DEF DomainsInv, TypeOK
<1>2. ASSUME NEW q \in Requests, PatchSave(q) PROVE Goal
  <2>1. ~SwitchesOn(q)
    BY <1>2
  <2>2. UNCHANGED <<plan, reactivated>>
    BY <1>1, <1>2, <2>1 DEF PatchSave, SwitchesOn, org
  <2> QED
    BY <1>2, <2>1, <2>2, PatchShrinks
<1>3. ASSUME NEW q \in Requests, DeleteSave(q) PROVE Goal
  BY <1>1, <1>3 DEF DeleteSave, Monitored, Live, org, DomainRow
<1>4. ASSUME \/ \E r \in Runs : StatusUpdate(r)
             \/ \E d \in Domains : TriggerSave(d)
      PROVE  Goal
  <2>1. UNCHANGED <<plan, reactivated>>
    BY <1>4 DEF StatusUpdate, TriggerSave, org
  <2> QED
    BY <1>4, <2>1, SavesKeepMonitored
<1>5. ASSUME \/ \E q \in Requests :
                  \/ \E n \in Names : CreateCheck(q, n)
                  \/ CreateLock(q) \/ CreateCount(q) \/ CreateRefused(q)
                  \/ \E d \in Domains, op \in {"activate", "deactivate", "delete"} : Read(q, d, op)
             \/ \E s \in Scans : ScanStep(s) \/ \E n \in Names : UserScan(s, n)
             \/ \E r \in Runs : StatusSelect(r) \/ StatusLost(r)
             \/ \E d \in Domains : TriggerRead(d) \/ TriggerScan(d) \/ TriggerLost(d)
             \/ Dispatch \/ UNCHANGED vars
      PROVE  Goal
  <2>1. UNCHANGED <<plan, reactivated, domain>>
    BY <1>5 DEF CreateCheck, CreateLock, CreateCount, CreateRefused, Read, ScanStep, ScanStarts,
                ScanFails, RunCompletes, StatusSelect, StatusLost, UserScan, TriggerRead,
                TriggerScan, TriggerLost, Dispatch, org, vars
  <2> QED
    BY <2>1 DEF Monitored, Live
<1> HIDE DEF Goal
<1>6. Goal
  BY <1>2, <1>3, <1>4, <1>5 DEF Next, RequestStep, RunStep, TriggerStep
<1> QED
  BY <1>6, SpentKept DEF Goal, Spent, DomainLimit, Gate!Leave

LEMMA PlanLimits ==
  ASSUME plan \in Plans \cup {NoPlan}
  PROVE  DomainLimit \in Gate!Limits
  BY ConstantsAssumption DEF DomainLimit, Gate!Limits, Unlimited

\* Creations under the organisation's lock, changes and deletions without one, scans and
\* scheduled tasks implement the gate: a domain is let in once and only while there is
\* room, without limit while the plan is taken away, and comes back only as a PATCH switches
\* it on again.
THEOREM DomainsGate == Spec => ImplementsQuotaGate
<1>1. Init => Gate!Init
  BY PlanLimits, BlankTypes DEF Init, Monitored, Live, Gate!Init
<1>2. DomainsInv /\ [Next]_vars => [Gate!Next]_(Gate!vars)
  <2> SUFFICES ASSUME DomainsInv, [Next]_vars PROVE Gate!Next
    OBVIOUS
  <2>1. CASE \E q \in Requests, d \in Domains : CreateInsert(q, d)
    BY <2>1, InsertAdmits DEF Gate!Next
  <2>2. CASE \E q \in Requests : PatchSave(q) /\ SwitchesOn(q)
    <3> PICK q \in Requests : PatchSave(q) /\ SwitchesOn(q)
      BY <2>2
    <3>1. request[q].domain \in Domains
      BY DEF SwitchesOn, Live
    <3> QED
      BY <3>1, PatchReturns DEF Gate!Next
  <2>3. CASE \E p \in Plans \cup {NoPlan} : ChangePlan(p)
    <3>1. DomainLimit' \in Gate!Limits
      BY <2>3, ConstantsAssumption DEF ChangePlan, DomainLimit, Gate!Limits, Unlimited
    <3> QED
      BY <2>3, <3>1 DEF ChangePlan, Monitored, Live, Gate!ChangeLimit, Gate!Next
  <2>4. CASE ~ \/ \E q \in Requests, d \in Domains : CreateInsert(q, d)
               \/ \E q \in Requests : PatchSave(q) /\ SwitchesOn(q)
               \/ \E p \in Plans \cup {NoPlan} : ChangePlan(p)
    BY <2>4, OthersLeave DEF Gate!Next
  <2> QED
    BY <2>1, <2>2, <2>3, <2>4
<1> QED
  BY InvInit, InvStep, <1>1, <1>2, PTL DEF Spec, ImplementsQuotaGate, Gate!Spec
=============================================================================
