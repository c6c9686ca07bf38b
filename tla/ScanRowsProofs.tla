-------------------------- MODULE ScanRowsProofs --------------------------
(***************************************************************************)
(* Theorems about the rows of ScanPipeline.  Every hook, message, task and *)
(* cleanup refers to a committed row, so what a step writes is summed up   *)
(* row by row (RowStep), and the invariants follow from that summary.      *)
(***************************************************************************)
EXTENDS ScanPipelineProofs

USE ConstantsAssumption

\* Whoever may still write a row refers to a committed one.
JobsOnRows ==
    /\ \A s \in unpublished \cup cleanup : Committed(s)
    /\ \A j \in Job : queue[j] > 0 => Committed(j.scan)
    /\ \A w \in Workers : worker[w] # Idle => Committed(ScanOf(w))

\* process_scan_result is only ever asked for a scan with an API result.
JobsHaveEvidence ==
    /\ \A j \in Job : queue[j] > 0 /\ j.task = "process" => scan[j.scan].api
    /\ \A w \in Workers :
         At(w, "process", Steps) \/ At(w, "trigger", {"publish"}) => scan[ScanOf(w)].api

\* A row that no request has committed carries nothing.
DraftsEmpty ==
    \A s \in Scans : ~Committed(s) =>
        /\ scan[s].billed = 0 /\ ~scan[s].api /\ ~scan[s].browser /\ ~scan[s].deleted
        /\ scan[s].status # "completed"

RowInv == JobsOnRows /\ JobsHaveEvidence /\ DraftsEmpty

\* A committed row is written by the pipeline or a beat job.
Keeps(s) ==
    /\ Committed(s) /\ Committed(s)'
    /\ scan'[s].owner = scan[s].owner /\ scan'[s].name = scan[s].name
    /\ scan'[s].billed = scan[s].billed /\ scan'[s].cached = scan[s].cached
    /\ scan[s].deleted => scan'[s].deleted
    /\ scan[s].api => scan'[s].api
    /\ scan'[s].status = "queued" => scan[s].status = "queued"
    /\ scan'[s].status = "completed" => scan[s].status = "completed" \/ scan[s].api

\* A request is drafted or rejected.
Drafts(s) ==
    /\ ~Committed(s) /\ ~Committed(s)'
    /\ scan'[s].billed = 0 /\ ~scan'[s].api /\ ~scan'[s].browser /\ ~scan'[s].deleted
    /\ scan'[s].status # "completed"
    /\ scan'[s].cached => \E k \in Slugs : cache[<<k, scan'[s].name>>] # "miss"

RowStep(s) ==
    scan'[s] = scan[s] \/ Keeps(s) \/ Drafts(s) \/ CreateCommit(s) \/ PublicCommit(s)

RowSteps == \A s \in Scans : RowStep(s)

-----------------------------------------------------------------------------
(* Every step is a RowStep of every row *)

\* Row r is a committed row s as the pipeline may leave it.
Continues(s, r) ==
    /\ r.owner = scan[s].owner /\ r.name = scan[s].name /\ r.billed = scan[s].billed
    /\ r.cached = scan[s].cached /\ r.deleted = scan[s].deleted
    /\ scan[s].api => r.api
    /\ r.status = "queued" => scan[s].status = "queued"
    /\ r.status = "completed" => scan[s].status = "completed" \/ scan[s].api
    /\ r.status \notin {"none", "draft"}

LEMMA SaveKeeps ==
  ASSUME TypeOK, NEW s \in Scans, Committed(s), NEW r \in ScanRow, Save(s, r), Continues(s, r)
  PROVE  RowSteps
<1>1. scan'[s] = [r EXCEPT !.stale = FALSE] /\ \A t \in Scans \ {s} : scan'[t] = scan[t]
  BY DEF TypeOK, Save
<1>2. /\ scan'[s].owner = r.owner /\ scan'[s].name = r.name /\ scan'[s].billed = r.billed
      /\ scan'[s].cached = r.cached /\ scan'[s].deleted = r.deleted
      /\ scan'[s].api = r.api /\ scan'[s].status = r.status
  BY <1>1 DEF ScanRow
<1>3. Keeps(s)
  BY <1>2 DEF Continues, Keeps, Committed
<1>4. QED  BY <1>1, <1>3 DEF RowStep, RowSteps

LEMMA SameRows == ASSUME UNCHANGED scan PROVE RowSteps
  BY DEF RowStep, RowSteps

LEMMA FailKeeps ==
  ASSUME TypeOK, NEW s \in Scans, Committed(s), Save(s, Failed(s))
  PROVE  RowSteps
<1>1. scan[s] \in ScanRow /\ Failed(s) \in ScanRow
  BY FailedType DEF TypeOK
<1>2. Continues(s, Failed(s))
  BY <1>1 DEF Continues, Failed, ScanRow
<1>3. QED  BY <1>1, <1>2, SaveKeeps

\* The rows that the tasks save, by the fields they set.
TaskWrites(s, f, m) ==
    {[scan[s] EXCEPT !.status = "scanning"],
     [scan[s] EXCEPT !.status = "scanning", !.api = TRUE],
     [scan[s] EXCEPT !.browser = f],
     [scan[s] EXCEPT !.browser = f, !.malware = m]}

LEMMA WriteKeeps ==
  ASSUME TypeOK, NEW s \in Scans, Committed(s), NEW f \in BOOLEAN, NEW m \in BOOLEAN,
         NEW r \in TaskWrites(s, f, m), Save(s, r)
  PROVE  RowSteps
<1>1. scan[s] \in ScanRow /\ scan[s].status \notin {"none", "draft"}
  BY DEF TypeOK, Committed
<1>2. r \in ScanRow /\ Continues(s, r)
  <2>1. CASE r = [scan[s] EXCEPT !.status = "scanning"]
    BY <1>1, <2>1 DEF ScanRow, Statuses, Continues
  <2>2. CASE r = [scan[s] EXCEPT !.status = "scanning", !.api = TRUE]
    BY <1>1, <2>2 DEF ScanRow, Statuses, Continues
  <2>3. CASE r = [scan[s] EXCEPT !.browser = f]
    BY <1>1, <2>3 DEF ScanRow, Continues
  <2>4. CASE r = [scan[s] EXCEPT !.browser = f, !.malware = m]
    BY <1>1, <2>4 DEF ScanRow, Continues
  <2>5. QED  BY <2>1, <2>2, <2>3, <2>4 DEF TaskWrites
<1>3. QED  BY <1>2, SaveKeeps

\* A request that is drafted or rejected.
LEMMA SaveDrafts ==
  ASSUME TypeOK, NEW s \in Scans, ~Committed(s), NEW r \in ScanRow, Save(s, r),
         r.status \in {"none", "draft"}, r.billed = 0, ~r.api, ~r.browser, ~r.deleted,
         r.cached => \E k \in Slugs : cache[<<k, r.name>>] # "miss"
  PROVE  RowSteps
<1>1. scan'[s] = [r EXCEPT !.stale = FALSE] /\ \A t \in Scans \ {s} : scan'[t] = scan[t]
  BY DEF TypeOK, Save
<1>2. /\ scan'[s].status = r.status /\ scan'[s].billed = r.billed
      /\ scan'[s].api = r.api /\ scan'[s].browser = r.browser /\ scan'[s].deleted = r.deleted
      /\ scan'[s].cached = r.cached /\ scan'[s].name = r.name
  BY <1>1 DEF ScanRow
<1>3. Drafts(s)
  BY <1>2 DEF Drafts, Committed
<1>4. QED  BY <1>1, <1>3 DEF RowStep, RowSteps

LEMMA BlankFields ==
  ASSUME NEW n, NEW c, NEW m
  PROVE  /\ \A o, scheduled :
              LET r == [Blank EXCEPT !.status = "draft", !.owner = o, !.name = n,
                                     !.scheduled = scheduled, !.cached = c, !.malware = m]
              IN /\ r.status = "draft" /\ r.billed = 0 /\ ~r.api /\ ~r.browser /\ ~r.deleted
                 /\ r.cached = c /\ r.name = n
         /\ LET r == [Blank EXCEPT !.status = "draft", !.name = n, !.cached = c, !.malware = m]
            IN /\ r.status = "draft" /\ r.billed = 0 /\ ~r.api /\ ~r.browser /\ ~r.deleted
               /\ r.cached = c /\ r.name = n
         /\ Blank.status = "none" /\ Blank.billed = 0 /\ ~Blank.api /\ ~Blank.browser
         /\ ~Blank.deleted /\ ~Blank.cached
  BY DEF Blank

LEMMA CommitRows ==
  ASSUME TypeOK, NEW s \in Scans, CreateCommit(s) \/ PublicCommit(s)
  PROVE  \A t \in Scans \ {s} : scan'[t] = scan[t]
  BY DEF TypeOK, CreateCommit, PublicCommit, Save

LEMMA RequestRows == ASSUME TypeOK, RowInv, Request PROVE RowSteps
<1>1. ASSUME NEW s \in Scans, NEW o \in Orgs, NEW n \in Names,
             NEW scheduled \in BOOLEAN, CreateBegin(s, o, n, scheduled)
      PROVE  RowSteps
  <2> DEFINE hit == CachedResult(Slug(o), n)
             r == [Blank EXCEPT !.status = "draft", !.owner = o, !.name = n,
                                !.scheduled = scheduled, !.cached = (hit # "miss"),
                                !.malware = (hit = "malware")]
  <2>1. r \in ScanRow
    BY BlankDraft
  <2>2. /\ r.status = "draft" /\ r.billed = 0 /\ ~r.api /\ ~r.browser /\ ~r.deleted
        /\ r.cached = (hit # "miss") /\ r.name = n
    BY BlankFields
  <2>3. Save(s, r) /\ ~Committed(s)
    BY <1>1 DEF CreateBegin, Committed
  <2>5. r.cached => \E k \in Slugs : cache[<<k, r.name>>] # "miss"
    BY <2>2, SlugType DEF CachedResult
  <2> HIDE DEF r
  <2>4. QED  BY <2>1, <2>2, <2>3, <2>5, SaveDrafts
<1>2. ASSUME NEW s \in Scans, NEW n \in Names, PublicBegin(s, n)
      PROVE  RowSteps
  <2> DEFINE hit == CachedResult("public", n)
             r == [Blank EXCEPT !.status = "draft", !.name = n,
                                !.cached = (hit # "miss"), !.malware = (hit = "malware")]
  <2>1. r \in ScanRow
    BY BlankDraft
  <2>2. /\ r.status = "draft" /\ r.billed = 0 /\ ~r.api /\ ~r.browser /\ ~r.deleted
        /\ r.cached = (hit # "miss") /\ r.name = n
    BY BlankFields
  <2>3. Save(s, r) /\ ~Committed(s)
    BY <1>2 DEF PublicBegin, Committed
  <2>5. r.cached => \E k \in Slugs : cache[<<k, r.name>>] # "miss"
    BY <2>2 DEF CachedResult, Slugs
  <2> HIDE DEF r
  <2>4. QED  BY <2>1, <2>2, <2>3, <2>5, SaveDrafts
<1>3. ASSUME NEW s \in Scans, CreateCommit(s) \/ PublicCommit(s)  PROVE RowSteps
  BY <1>3, CommitRows DEF RowSteps, RowStep
<1>4. ASSUME NEW s \in Scans, CreateRejected(s)  PROVE RowSteps
  BY <1>4, BlankFields, BlankType, SaveDrafts DEF CreateRejected, Committed
<1>5. ASSUME NEW s \in Scans, PublishFails(s)  PROVE RowSteps
  BY <1>5, FailKeeps DEF PublishFails, RowInv, JobsOnRows
<1>6. ASSUME NEW s \in Scans, Publish(s) \/ PublishLost(s)  PROVE RowSteps
  BY <1>6, SameRows DEF Publish, PublishLost
<1>7. ASSUME NEW o \in Orgs, NEW n \in Names, DeleteDomain(o, n)  PROVE RowSteps
  <2> SUFFICES ASSUME NEW t \in Scans PROVE RowStep(t)
    BY DEF RowSteps
  <2>1. scan[t] \in ScanRow
    BY DEF TypeOK
  <2>2. CASE scan'[t] = scan[t]
    BY <2>2 DEF RowStep
  <2>3. CASE Committed(t) /\ scan'[t] = [scan[t] EXCEPT !.deleted = TRUE, !.stale = FALSE]
    <3>1. /\ scan'[t].owner = scan[t].owner /\ scan'[t].name = scan[t].name
          /\ scan'[t].billed = scan[t].billed /\ scan'[t].cached = scan[t].cached
          /\ scan'[t].deleted /\ scan'[t].api = scan[t].api /\ scan'[t].status = scan[t].status
      BY <2>1, <2>3 DEF ScanRow
    <3>2. QED  BY <2>3, <3>1 DEF RowStep, Keeps, Committed
  <2>4. QED  BY <1>7, <2>2, <2>3 DEF DeleteDomain
<1>8. QED  BY <1>1, <1>2, <1>3, <1>4, <1>5, <1>6, <1>7 DEF Request

LEMMA DeliverRows ==
  ASSUME TypeOK, RowInv, NEW w \in Workers, Deliver(w)  PROVE RowSteps
<1>1. ASSUME NEW j \in Job, TriggerBegin(w, j)  PROVE RowSteps
  <2>1. j.scan \in Scans /\ Committed(j.scan)
    BY <1>1 DEF TriggerBegin, Receive, RowInv, JobsOnRows, Job
  <2> DEFINE r == [scan[j.scan] EXCEPT !.status = "scanning"]
  <2>2. Save(j.scan, r)
    BY <1>1 DEF TriggerBegin
  <2>3. QED  BY <2>1, <2>2, WriteKeeps DEF TaskWrites
<1>2. ASSUME NEW j \in Job, ProcessBegin(w, j) \/ BrowserBegin(w, j) \/ BrowserSkip(w, j)
      PROVE  RowSteps
  BY <1>2, SameRows DEF ProcessBegin, BrowserBegin, BrowserSkip
<1>3. QED  BY <1>1, <1>2 DEF Deliver

LEMMA RunRows ==
  ASSUME TypeOK, RowInv, NEW w \in Workers, Run(w)  PROVE RowSteps
<1> DEFINE s == ScanOf(w)
<1>1. worker[w] # Idle
  BY RunBusy
<1>2. worker[w] \in Busy /\ s \in Scans /\ Committed(s)
  BY <1>1, BusyWorker DEF RowInv, JobsOnRows
<1>3. scan[s] \in ScanRow
  BY <1>2 DEF TypeOK
<1>4. CASE TriggerFetched(w)
  <2> DEFINE r == [scan[s] EXCEPT !.status = "scanning", !.api = TRUE]
  <2>1. Save(s, r)
    BY <1>4 DEF TriggerFetched
  <2>2. QED  BY <1>2, <2>1, WriteKeeps DEF TaskWrites
<1>5. CASE TriggerPublish(w) \/ ProcessCached(w) \/ ProcessChain(w) \/ ProcessMail(w)
           \/ BrowserEnd(w) \/ Acknowledge(w)
  BY <1>5, SameRows
  DEF TriggerPublish, ProcessCached, ProcessChain, ProcessMail, BrowserEnd, Acknowledge
<1>6. CASE TriggerRejected(w) \/ ProcessSoftLimit(w)
  BY <1>2, <1>6, FailKeeps DEF TriggerRejected, ProcessSoftLimit
<1>7. CASE TriggerError(w) \/ ProcessError(w)
  <2>1. RetryOrFail(w, MaxRetries)
    BY <1>7 DEF TriggerError, ProcessError
  <2>2. UNCHANGED scan \/ Save(s, Failed(s))
    BY <2>1 DEF RetryOrFail, ScanOf
  <2>3. QED  BY <1>2, <2>2, SameRows, FailKeeps
<1>8. CASE ProcessChecked(w)
  <2>1. PICK bad \in Verdicts :
          Save(s, [scan[s] EXCEPT !.status = "completed", !.malware = bad,
                                  !.judged = Judged(s, bad)])
    BY <1>8 DEF ProcessChecked
  <2> DEFINE r == [scan[s] EXCEPT !.status = "completed", !.malware = bad,
                                  !.judged = Judged(s, bad)]
  <2>2. scan[s].api
    BY <1>8 DEF ProcessChecked, RowInv, JobsHaveEvidence, At, Steps
  <2>3. bad \in BOOLEAN
    BY ConstantsAssumption
  <2>4. r \in ScanRow
    <3> HIDE DEF s
    <3> QED  BY <1>2, <1>3, <2>3, JudgedRow
  <2>5. /\ r.status = "completed" /\ r.api = scan[s].api
        /\ r.owner = scan[s].owner /\ r.name = scan[s].name
        /\ r.billed = scan[s].billed /\ r.cached = scan[s].cached
        /\ r.deleted = scan[s].deleted
    <3> HIDE DEF s
    <3> QED  BY <1>3 DEF ScanRow
  <2>6. Save(s, r)
    BY <2>1
  <2> HIDE DEF r
  <2>7. Continues(s, r)
    BY <2>2, <2>5 DEF Continues
  <2>8. QED  BY <1>2, <2>4, <2>6, <2>7, SaveKeeps
<1>9. CASE BrowserSave(w)
  <2>1. PICK found \in Verdicts :
          Save(s, [scan[s] EXCEPT !.browser = found,
                                  !.malware = AfterBrowser(worker[w].seen.malware, found)])
    BY <1>9 DEF BrowserSave
  <2> DEFINE m == AfterBrowser(worker[w].seen.malware, found)
             r == [scan[s] EXCEPT !.browser = found, !.malware = m]
  <2>2. m \in BOOLEAN
    BY DEF AfterBrowser
  <2> HIDE DEF m
  <2>3. Save(s, r)
    BY <2>1 DEF m
  <2>4. QED  BY <1>2, <2>2, <2>3, WriteKeeps DEF TaskWrites
<1>10. CASE BrowserError(w) \/ BrowserSoftLimit(w)
  <2> DEFINE r == [scan[s] EXCEPT !.browser = FALSE]
  <2>1. UNCHANGED scan \/ Save(s, r)
    BY <1>10 DEF BrowserError, BrowserSoftLimit, ScanOf
  <2>2. QED  BY <1>2, <2>1, SameRows, WriteKeeps DEF TaskWrites
<1>11. QED
  BY <1>4, <1>5, <1>6, <1>7, <1>8, <1>9, <1>10 DEF Run

LEMMA StaleKeeps ==
  ASSUME TypeOK, NEW t \in Scans, Committed(t), NEW f \in BOOLEAN,
         \/ scan'[t] = [scan[t] EXCEPT !.stale = f]
         \/ scan'[t] = [scan[t] EXCEPT !.status = "failed", !.stale = f]
  PROVE  RowStep(t)
<1>1. scan[t] \in ScanRow
  BY DEF TypeOK
<1>2. /\ scan'[t].owner = scan[t].owner /\ scan'[t].name = scan[t].name
      /\ scan'[t].billed = scan[t].billed /\ scan'[t].cached = scan[t].cached
      /\ scan'[t].deleted = scan[t].deleted /\ scan'[t].api = scan[t].api
      /\ scan'[t].status \in {"failed", scan[t].status}
  <2>1. CASE scan'[t] = [scan[t] EXCEPT !.stale = f]
    BY <1>1, <2>1 DEF ScanRow
  <2>2. CASE scan'[t] = [scan[t] EXCEPT !.status = "failed", !.stale = f]
    BY <1>1, <2>2 DEF ScanRow
  <2>3. QED  BY <2>1, <2>2
<1>3. QED  BY <1>2 DEF RowStep, Keeps, Committed

LEMMA BeatRows == ASSUME TypeOK, RowInv, Beat  PROVE RowSteps
<1>1. ASSUME NEW s \in Scans, GrowStale(s)  PROVE RowSteps
  <2>1. Committed(s) /\ scan'[s] = [scan[s] EXCEPT !.stale = TRUE]
    BY <1>1 DEF GrowStale, Committed, InFlight, TypeOK
  <2>2. \A t \in Scans \ {s} : scan'[t] = scan[t]
    BY <1>1 DEF GrowStale, TypeOK
  <2>3. RowStep(s)
    BY <2>1, StaleKeeps
  <2>4. QED  BY <2>2, <2>3 DEF RowSteps, RowStep
<1>2. CASE CleanupFail
  <2> SUFFICES ASSUME NEW t \in Scans PROVE RowStep(t)
    BY DEF RowSteps
  <2>1. CASE t \in cleanup
    <3>1. Committed(t)
      BY <2>1 DEF RowInv, JobsOnRows
    <3>2. scan'[t] = [scan[t] EXCEPT !.status = "failed", !.stale = FALSE]
      BY <1>2, <2>1 DEF CleanupFail, Failed
    <3>3. QED  BY <3>1, <3>2, StaleKeeps
  <2>2. CASE t \notin cleanup
    BY <1>2, <2>2 DEF CleanupFail, RowStep
  <2>3. QED  BY <2>1, <2>2
<1>3. CASE UNCHANGED scan
  BY <1>3, SameRows
<1>4. QED
  BY <1>1, <1>2, <1>3 DEF Beat, CleanupSelect, MonthPasses, LockExpires, ResetSelect,
     ResetUpdate, ResetNull, CacheExpires

LEMMA RowStepLemma == ASSUME TypeOK, RowInv, [Next]_vars  PROVE RowSteps
<1>1. CASE UNCHANGED scan
  BY <1>1, SameRows
<1>2. ASSUME NEW w \in Workers, WorkerLost(w) \/ HardTimeLimit(w)  PROVE UNCHANGED scan
  BY <1>2 DEF WorkerLost, HardTimeLimit
<1>3. ASSUME NEW o, NEW p, ChangePlan(o, p)  PROVE UNCHANGED scan
  BY <1>3 DEF ChangePlan
<1>4. QED
  BY <1>1, <1>2, <1>3, RequestRows, DeliverRows, RunRows, BeatRows DEF Next, vars

-----------------------------------------------------------------------------
(* Every step is a JobStep: where messages, running tasks and hooks come from *)

\* A worker that may ask for process_scan_result.
Asks(w) == At(w, "process", Steps) \/ At(w, "trigger", {"publish"})

MessageStep(j) ==
    queue'[j] > 0 =>
        \/ queue[j] > 0
        \/ j.task = "trigger" /\ j.scan \in unpublished
        \/ \E w \in Workers : /\ worker[w] # Idle /\ j.scan = ScanOf(w)
                              /\ j.task = "process" => Asks(w)

WorkerStep(w) ==
    worker'[w] # Idle =>
        \/ worker'[w] = worker[w]
        \/ /\ worker[w] # Idle /\ worker'[w].job = worker[w].job
           /\ worker'[w].pc = "publish" => scan'[ScanOf(w)].api
        \/ \E j \in Job : queue[j] > 0 /\ worker'[w].job = j /\ worker'[w].pc # "publish"

HookStep == \A s \in unpublished' \cup cleanup' : s \in unpublished \cup cleanup \/ Committed(s)'

JobStep ==
    /\ \A j \in Job : MessageStep(j)
    /\ \A w \in Workers : WorkerStep(w)
    /\ HookStep

LEMMA SendStep ==
  ASSUME TypeOK, NEW j \in Job, Send(j),
         \/ j.task = "trigger" /\ j.scan \in unpublished
         \/ \E w \in Workers : /\ worker[w] # Idle /\ j.scan = ScanOf(w)
                               /\ j.task = "process" => Asks(w)
  PROVE  \A i \in Job : MessageStep(i)
  BY DEF TypeOK, Send, MessageStep

LEMMA FinishStep ==
  ASSUME TypeOK, NEW w \in Workers, Finish(w)  PROVE \A v \in Workers : WorkerStep(v)
  BY DEF TypeOK, Finish, WorkerStep

LEMMA GotoStep ==
  ASSUME TypeOK, NEW w \in Workers, worker[w] # Idle, NEW pc, Goto(w, pc),
         pc = "publish" => scan'[ScanOf(w)].api
  PROVE  \A v \in Workers : WorkerStep(v)
<1>1. /\ \A v \in Workers \ {w} : worker'[v] = worker[v]
      /\ worker'[w].job = worker[w].job /\ worker'[w].pc = pc
  BY BusyWorker DEF TypeOK, Goto, Busy
<1>2. QED  BY <1>1 DEF WorkerStep

LEMMA ReceiveStep ==
  ASSUME TypeOK, NEW w \in Workers, NEW j \in Job, NEW pc \in {"fetch", "check", "browse"},
         Receive(w, j, pc)
  PROVE  /\ \A v \in Workers : WorkerStep(v)
         /\ \A i \in Job : MessageStep(i)
<1>1. /\ \A v \in Workers \ {w} : worker'[v] = worker[v]
      /\ worker'[w].job = j /\ worker'[w].pc = pc /\ queue[j] > 0
  BY DEF TypeOK, Receive
<1>2. \A i \in Job : queue'[i] > 0 => queue[i] > 0
  BY DEF TypeOK, Receive
<1>3. QED  BY <1>1, <1>2 DEF WorkerStep, MessageStep

LEMMA SameJobs ==
  /\ UNCHANGED queue => \A j \in Job : MessageStep(j)
  /\ UNCHANGED worker => \A w \in Workers : WorkerStep(w)
  /\ UNCHANGED <<unpublished, cleanup>> => HookStep
  BY DEF MessageStep, WorkerStep, HookStep

LEMMA CommitHooks ==
  ASSUME TypeOK, NEW s \in Scans, CreateCommit(s) \/ PublicCommit(s)
  PROVE  Committed(s)'
<1>1. PICK n : Save(s, Inserted(s, n))
  BY DEF CreateCommit, PublicCommit
<1>2. scan'[s] = [Inserted(s, n) EXCEPT !.stale = FALSE] /\ scan[s] \in ScanRow
  BY <1>1 DEF TypeOK, Save
<1>3. CASE scan[s].cached
  BY <1>2, <1>3 DEF Inserted, Committed, ScanRow
<1>4. CASE ~scan[s].cached
  BY <1>2, <1>4 DEF Inserted, Committed, ScanRow
<1>5. QED  BY <1>3, <1>4

LEMMA RequestJobs == ASSUME TypeOK, Request  PROVE JobStep
<1> USE DEF JobStep
<1>1. ASSUME NEW s \in Scans, CreateCommit(s) \/ PublicCommit(s)  PROVE JobStep
  <2>1. HookStep
    BY <1>1, CommitHooks DEF CreateCommit, PublicCommit, HookStep, beat
  <2>2. UNCHANGED <<queue, worker>>
    BY <1>1 DEF CreateCommit, PublicCommit
  <2>3. QED  BY <2>1, <2>2, SameJobs
<1>2. ASSUME NEW s \in Scans, Publish(s)  PROVE JobStep
  <2>1. NewJob("trigger", s).task = "trigger" /\ NewJob("trigger", s).scan = s
    BY DEF NewJob
  <2>2. \A j \in Job : MessageStep(j)
    BY <1>2, <2>1, NewJobType, SendStep DEF Publish
  <2>3. QED  BY <1>2, <2>2, SameJobs DEF Publish, HookStep, beat
<1>3. ASSUME NEW s \in Scans, PublishFails(s) \/ PublishLost(s)  PROVE JobStep
  BY <1>3, SameJobs DEF PublishFails, PublishLost, HookStep, beat
<1>4. CASE UNCHANGED <<queue, worker, unpublished, cleanup>>
  BY <1>4, SameJobs
<1>5. QED
  BY <1>1, <1>2, <1>3, <1>4
  DEF Request, CreateBegin, PublicBegin, CreateRejected, DeleteDomain, beat

LEMMA DeliverJobs ==
  ASSUME TypeOK, NEW w \in Workers, Deliver(w)  PROVE JobStep
<1>1. ASSUME NEW j \in Job, TriggerBegin(w, j) \/ ProcessBegin(w, j) \/ BrowserBegin(w, j)
      PROVE  JobStep
  BY <1>1, ReceiveStep, SameJobs DEF TriggerBegin, ProcessBegin, BrowserBegin, JobStep, beat
<1>2. ASSUME NEW j \in Job, BrowserSkip(w, j)  PROVE JobStep
  <2>1. \A i \in Job : MessageStep(i)
    BY <1>2 DEF TypeOK, BrowserSkip, MessageStep
  <2>2. QED  BY <1>2, <2>1, SameJobs DEF BrowserSkip, JobStep, beat
<1>3. QED  BY <1>1, <1>2 DEF Deliver

LEMMA RunJobs ==
  ASSUME TypeOK, NEW w \in Workers, Run(w)  PROVE JobStep
<1> USE DEF JobStep
<1>1. worker[w] # Idle /\ worker[w] \in Busy /\ worker[w].job \in Job /\ ScanOf(w) \in Scans
  BY RunBusy, BusyWorker
<1>2. UNCHANGED <<unpublished, cleanup>>
  BY DEF Run, TriggerFetched, TriggerPublish, TriggerRejected, TriggerError,
     ProcessChecked, ProcessCached, ProcessChain, ProcessMail, ProcessError, ProcessSoftLimit,
     BrowserSave, BrowserEnd, BrowserError, BrowserSoftLimit, Acknowledge, beat
<1>3. CASE TriggerFetched(w)
  <2>1. scan'[ScanOf(w)].api
    BY <1>1, <1>3 DEF TypeOK, TriggerFetched, Save, ScanRow
  <2>2. QED  BY <1>1, <1>2, <1>3, <2>1, GotoStep, SameJobs DEF TriggerFetched
<1>4. CASE TriggerPublish(w)
  <2> DEFINE j == [task |-> "process", scan |-> ScanOf(w), tries |-> 0,
                   slug |-> worker[w].seen.slug]
  <2>1. j \in Job /\ j.task = "process" /\ j.scan = ScanOf(w)
    BY <1>1 DEF Job, Busy, Snapshot
  <2>2. Send(j) /\ Asks(w) /\ Goto(w, "ack")
    BY <1>4 DEF TriggerPublish, Asks
  <2> HIDE DEF j
  <2>3. \A i \in Job : MessageStep(i)
    BY <1>1, <2>1, <2>2, SendStep
  <2>4. QED  BY <1>1, <1>2, <2>2, <2>3, GotoStep, SameJobs
<1>5. CASE ProcessChain(w)
  <2>1. NewJob("browser", ScanOf(w)).task = "browser"
        /\ NewJob("browser", ScanOf(w)).scan = ScanOf(w)
    BY DEF NewJob
  <2>2. \A i \in Job : MessageStep(i)
    BY <1>1, <1>5, <2>1, NewJobType, SendStep, SameJobs DEF ProcessChain
  <2>3. QED  BY <1>1, <1>2, <1>5, <2>2, GotoStep, SameJobs DEF ProcessChain
<1>6. ASSUME NEW j \in Job, j = [worker[w].job EXCEPT !.tries = @ + 1], Send(j),
             worker[w].job.task = "process" => Asks(w)
      PROVE  \A i \in Job : MessageStep(i)
  <2>1. j.task = worker[w].job.task /\ j.scan = ScanOf(w)
    BY <1>1, <1>6 DEF Job, ScanOf
  <2>2. QED  BY <1>1, <1>6, <2>1, SendStep
<1>7. CASE TriggerError(w) \/ ProcessError(w) \/ BrowserError(w)
  <2>1. worker[w].job.task = "process" => Asks(w)
    BY <1>7 DEF TriggerError, ProcessError, BrowserError, At, Asks, Steps
  <2>2. \/ UNCHANGED queue
        \/ /\ worker[w].job.tries < MaxRetries \/ worker[w].job.tries < MaxBrowserRetries
           /\ Send([worker[w].job EXCEPT !.tries = @ + 1])
    BY <1>7 DEF TriggerError, ProcessError, BrowserError, RetryOrFail
  <2>3. \A i \in Job : MessageStep(i)
    BY <1>1, <1>6, <2>1, <2>2, RetryJob, SameJobs
  <2>4. QED
    BY <1>2, <1>7, <2>3, FinishStep, SameJobs DEF TriggerError, ProcessError, BrowserError
<1>8. CASE TriggerRejected(w) \/ ProcessSoftLimit(w) \/ BrowserEnd(w) \/ BrowserSoftLimit(w)
           \/ Acknowledge(w)
  BY <1>2, <1>8, FinishStep, SameJobs
  DEF TriggerRejected, ProcessSoftLimit, BrowserEnd, BrowserSoftLimit, Acknowledge
<1>9. CASE ProcessChecked(w)
  <2>1. PICK bad \in Verdicts :
          worker' = [worker EXCEPT ![w] = [@ EXCEPT !.pc = "cache", !.seen.malware = bad]]
    BY <1>9 DEF ProcessChecked
  <2>2. worker'[w].job = worker[w].job /\ worker'[w].pc = "cache"
    BY <1>1, <2>1 DEF TypeOK, Busy
  <2>3. \A v \in Workers : WorkerStep(v)
    BY <1>1, <2>1, <2>2 DEF TypeOK, WorkerStep
  <2>4. QED  BY <1>2, <1>9, <2>3, SameJobs DEF ProcessChecked
<1>10. CASE ProcessCached(w) \/ ProcessMail(w) \/ BrowserSave(w)
  BY <1>1, <1>2, <1>10, GotoStep, SameJobs DEF ProcessCached, ProcessMail, BrowserSave
<1>11. QED
  BY <1>3, <1>4, <1>5, <1>7, <1>8, <1>9, <1>10 DEF Run

LEMMA LossJobs ==
  ASSUME TypeOK, NEW w \in Workers, WorkerLost(w) \/ HardTimeLimit(w)  PROVE JobStep
<1>1. worker[w] # Idle /\ worker[w] \in Busy /\ worker[w].job \in Job
  BY BusyWorker DEF WorkerLost, HardTimeLimit
<1>2. CASE WorkerLost(w)
  <2>1. worker[w].job.task = "process" => Asks(w)
    BY <1>1 DEF Busy, Asks, At
  <2>2. \A i \in Job : MessageStep(i)
    BY <1>1, <1>2, <2>1, SendStep DEF WorkerLost, ScanOf
  <2>3. QED  BY <1>2, <2>2, FinishStep, SameJobs DEF WorkerLost, JobStep, beat
<1>3. CASE HardTimeLimit(w)
  BY <1>3, FinishStep, SameJobs DEF HardTimeLimit, JobStep, beat
<1>4. QED  BY <1>2, <1>3

LEMMA BeatJobs == ASSUME TypeOK, Beat  PROVE JobStep
<1> USE DEF JobStep
<1>1. CASE CleanupSelect
  <2>1. \A s \in cleanup' : Committed(s)'
    BY <1>1 DEF CleanupSelect, Stale, InFlight, Committed
  <2>2. QED  BY <1>1, <2>1, SameJobs DEF CleanupSelect, HookStep
<1>2. CASE CleanupFail
  BY <1>2, SameJobs DEF CleanupFail, HookStep
<1>3. CASE UNCHANGED <<queue, worker, unpublished, cleanup>>
  BY <1>3, SameJobs
<1>4. QED
  BY <1>1, <1>2, <1>3 DEF Beat, GrowStale, MonthPasses, LockExpires, ResetSelect,
     ResetUpdate, ResetNull, CacheExpires, beat

LEMMA JobStepLemma == ASSUME TypeOK, [Next]_vars  PROVE JobStep
<1>1. CASE UNCHANGED vars
  BY <1>1, SameJobs DEF vars, JobStep
<1>2. ASSUME NEW o, NEW p, ChangePlan(o, p)  PROVE JobStep
  BY <1>2, SameJobs DEF ChangePlan, JobStep, beat
<1>3. QED
  BY <1>1, <1>2, RequestJobs, DeliverJobs, RunJobs, LossJobs, BeatJobs DEF Next

-----------------------------------------------------------------------------
(* The invariant of rows and jobs is inductive *)

\* A committed row stays one, and keeps its owner and its API result.
LEMMA CommittedStays ==
  ASSUME TypeOK, RowSteps, NEW s \in Scans, Committed(s)
  PROVE  /\ Committed(s)'
         /\ scan'[s].owner = scan[s].owner /\ scan'[s].name = scan[s].name
         /\ scan[s].api => scan'[s].api
<1>1. ~CreateCommit(s) /\ ~PublicCommit(s) /\ ~Drafts(s)
  BY DEF Committed, CreateCommit, PublicCommit, Drafts
<1>2. QED  BY <1>1 DEF RowSteps, RowStep, Keeps, Committed

LEMMA RowInit == Init => RowInv
<1> SUFFICES ASSUME Init PROVE RowInv
  OBVIOUS
<1>1. \A j \in Job : ~(queue[j] > 0)
  BY DEF Init
<1>2. \A w \in Workers : worker[w] = Idle
  BY DEF Init
<1>3. \A w \in Workers : ~At(w, "process", Steps) /\ ~At(w, "trigger", {"publish"})
  BY <1>2 DEF At, Idle, NoJob
<1>4. \A s \in Scans : /\ scan[s].billed = 0 /\ ~scan[s].api /\ ~scan[s].browser
                       /\ ~scan[s].deleted /\ scan[s].status = "none"
  BY DEF Init, Blank
<1>5. QED
  BY <1>1, <1>2, <1>3, <1>4 DEF Init, RowInv, JobsOnRows, JobsHaveEvidence, DraftsEmpty

LEMMA RowInvStep == ASSUME TypeOK, RowInv, [Next]_vars  PROVE RowInv'
<1>1. RowSteps /\ JobStep
  BY RowStepLemma, JobStepLemma
<1>2. \A s \in Scans : Committed(s) =>
          /\ Committed(s)'
          /\ scan[s].api => scan'[s].api
  BY <1>1, CommittedStays
<1>3. \A j \in Job : j.scan \in Scans
  BY DEF Job
<1>4. \A w \in Workers : worker[w] # Idle => ScanOf(w) \in Scans /\ worker[w].job \in Job
  BY BusyWorker
<1>5. \A w \in Workers : Asks(w) => worker[w] # Idle /\ scan[ScanOf(w)].api
  BY AtBusy DEF Asks, RowInv, JobsHaveEvidence
<1>6. JobsOnRows'
  <2>1. \A s \in unpublished' \cup cleanup' : Committed(s)'
    BY <1>1, <1>2 DEF JobStep, HookStep, RowInv, JobsOnRows, TypeOK, Committed
  <2>2. ASSUME NEW j \in Job, queue'[j] > 0  PROVE Committed(j.scan)'
    <3>1. Committed(j.scan)
      BY <1>1, <2>2 DEF JobStep, MessageStep, RowInv, JobsOnRows
    <3>2. QED  BY <1>2, <1>3, <3>1 DEF Committed
  <2>3. ASSUME NEW w \in Workers, worker'[w] # Idle  PROVE  Committed(ScanOf(w))'
    <3>1. \/ worker[w] # Idle /\ worker'[w].job = worker[w].job
          \/ \E j \in Job : queue[j] > 0 /\ worker'[w].job = j
      BY <1>1, <2>3 DEF JobStep, WorkerStep
    <3>2. CASE worker[w] # Idle /\ worker'[w].job = worker[w].job
      BY <1>2, <1>4, <3>2 DEF RowInv, JobsOnRows, ScanOf, Committed
    <3>3. ASSUME NEW j \in Job, queue[j] > 0, worker'[w].job = j
          PROVE  Committed(ScanOf(w))'
      <4>1. Committed(j.scan)
        BY <3>3 DEF RowInv, JobsOnRows
      <4>2. scan'[j.scan].status \notin {"none", "draft"}
        BY <1>2, <1>3, <4>1 DEF Committed
      <4>3. QED  BY <3>3, <4>2 DEF Committed, ScanOf
    <3>4. QED  BY <3>1, <3>2, <3>3
  <2>4. QED  BY <2>1, <2>2, <2>3 DEF JobsOnRows, ScanOf, Committed
<1>7. JobsHaveEvidence'
  <2>1. ASSUME NEW j \in Job, queue'[j] > 0, j.task = "process"  PROVE scan'[j.scan].api
    <3>1. Committed(j.scan) /\ scan[j.scan].api
      BY <1>1, <1>5, <2>1 DEF JobStep, MessageStep, RowInv, JobsOnRows, JobsHaveEvidence
    <3>2. QED  BY <1>2, <1>3, <3>1 DEF Committed
  <2>2. ASSUME NEW w \in Workers,
               \/ worker'[w].job.task = "process" /\ worker'[w].pc \in Steps
               \/ worker'[w].job.task = "trigger" /\ worker'[w].pc = "publish"
        PROVE  scan'[worker'[w].job.scan].api
    <3>1. worker'[w] # Idle
      BY <2>2 DEF Idle, NoJob
    <3>2. CASE worker'[w] = worker[w]
      <4>1. Asks(w)
        BY <2>2, <3>2 DEF Asks, At
      <4>2. Committed(ScanOf(w)) /\ scan[ScanOf(w)].api /\ ScanOf(w) \in Scans
        BY <1>4, <1>5, <4>1 DEF RowInv, JobsOnRows
      <4>3. QED  BY <1>2, <3>2, <4>2 DEF ScanOf, Committed
    <3>3. CASE /\ worker[w] # Idle /\ worker'[w].job = worker[w].job
               /\ worker'[w].pc = "publish" => scan'[ScanOf(w)].api
      <4>1. CASE worker'[w].pc = "publish"
        BY <3>3, <4>1 DEF ScanOf
      <4>2. CASE worker'[w].pc # "publish"
        <5>1. At(w, "process", Steps)
          BY <2>2, <3>3, <4>2, BusyWorker DEF At, Busy
        <5>2. Committed(ScanOf(w)) /\ scan[ScanOf(w)].api /\ ScanOf(w) \in Scans
          BY <1>4, <1>5, <3>3, <5>1 DEF RowInv, JobsOnRows, Asks
        <5>3. QED  BY <1>2, <3>3, <5>2 DEF ScanOf, Committed
      <4>3. QED  BY <4>1, <4>2
    <3>4. ASSUME NEW j \in Job, queue[j] > 0, worker'[w].job = j, worker'[w].pc # "publish"
          PROVE  scan'[worker'[w].job.scan].api
      <4>1. Committed(j.scan) /\ scan[j.scan].api
        BY <2>2, <3>4 DEF RowInv, JobsOnRows, JobsHaveEvidence
      <4>2. QED  BY <1>2, <1>3, <3>4, <4>1 DEF Committed
    <3>5. QED  BY <1>1, <3>1, <3>2, <3>3, <3>4 DEF JobStep, WorkerStep
  <2>3. QED  BY <2>1, <2>2 DEF JobsHaveEvidence, At, ScanOf
<1>8. DraftsEmpty'
  <2> SUFFICES ASSUME NEW s \in Scans, ~Committed(s)'
               PROVE  /\ scan'[s].billed = 0 /\ ~scan'[s].api /\ ~scan'[s].browser
                      /\ ~scan'[s].deleted /\ scan'[s].status # "completed"
    BY DEF DraftsEmpty
  <2>1. CASE scan'[s] = scan[s]
    BY <2>1 DEF RowInv, DraftsEmpty, Committed
  <2>2. ~Keeps(s) /\ ~CreateCommit(s) /\ ~PublicCommit(s)
    BY CommitHooks DEF Keeps
  <2>3. QED  BY <1>1, <2>1, <2>2 DEF RowSteps, RowStep, Drafts
<1>9. QED  BY <1>6, <1>7, <1>8 DEF RowInv

\* Whatever message is lost, repeated or late, it names a committed scan, and a
\* process_scan_result one names a scan whose API result is saved.
THEOREM RowsCorrect == Spec => []RowInv
  BY RowInit, RowInvStep, TypeCorrect, PTL DEF Spec

-----------------------------------------------------------------------------
(* What follows for the rows *)

\* There is an API result for the domain name.
Evidenced(n) == \E t \in Scans : scan[t].api /\ scan[t].name = n

\* The cache and what was read from it rest on API results of the domain name.
EvidenceInv ==
    /\ \A k \in Slugs, n \in Names : cache[<<k, n>>] # "miss" => Evidenced(n)
    /\ \A s \in Scans : scan[s].cached => Evidenced(scan[s].name)
    /\ \A s \in Scans : scan[s].status = "completed" => scan[s].api \/ scan[s].cached

\* process_scan_result alone fills the cache.
LEMMA CacheStep ==
  ASSUME TypeOK, [Next]_vars, NEW k \in Slugs, NEW n \in Names,
         cache'[<<k, n>>] # "miss", cache[<<k, n>>] = "miss"
  PROVE  \E w \in Workers : At(w, "process", {"cache"}) /\ scan[ScanOf(w)].name = n
<1>1. ASSUME NEW w \in Workers, ProcessCached(w)
      PROVE  At(w, "process", {"cache"}) /\ scan[ScanOf(w)].name = n
  <2>1. PICK e, r : e = <<worker[w].job.slug, scan[ScanOf(w)].name>>
                    /\ cache' = [cache EXCEPT ![e] = r]
    BY <1>1 DEF ProcessCached
  <2>2. e = <<k, n>>
    BY <2>1 DEF TypeOK
  <2> QED
    BY <1>1, <2>1, <2>2 DEF ProcessCached
<1>2. ASSUME NEW e \in Slugs \X Names, CacheExpires(e) PROVE FALSE
  BY <1>2 DEF CacheExpires, TypeOK
<1>3. ~UNCHANGED cache
  OBVIOUS
<1>4. ASSUME NEW w \in Workers, Deliver(w) \/ Run(w) \/ WorkerLost(w) \/ HardTimeLimit(w)
      PROVE  ProcessCached(w)
  BY <1>3, <1>4 DEF Deliver, TriggerBegin, ProcessBegin, BrowserBegin, BrowserSkip, Run,
     TriggerFetched, TriggerPublish, TriggerRejected, TriggerError, ProcessChecked,
     ProcessChain, ProcessMail, ProcessError, ProcessSoftLimit, BrowserSave, BrowserEnd,
     BrowserError, BrowserSoftLimit, Acknowledge, WorkerLost, HardTimeLimit
<1>5. ~Request /\ (Beat => \E e \in Slugs \X Names : CacheExpires(e))
  BY <1>3 DEF Request, CreateBegin, PublicBegin, CreateCommit, CreateRejected, PublicCommit,
     Publish, PublishFails, PublishLost, DeleteDomain, Beat, GrowStale, CleanupSelect,
     CleanupFail, MonthPasses, LockExpires, ResetSelect, ResetUpdate, ResetNull
<1> QED
  BY <1>1, <1>2, <1>3, <1>4, <1>5 DEF Next, ChangePlan, vars

LEMMA EvidenceStep ==
  ASSUME TypeOK, RowInv, EvidenceInv, [Next]_vars
  PROVE  EvidenceInv'
<1>1. RowSteps
  BY RowStepLemma
<1>2. ASSUME NEW n, Evidenced(n) PROVE Evidenced(n)'
  <2>1. PICK t \in Scans : scan[t].api /\ scan[t].name = n
    BY <1>2 DEF Evidenced
  <2>2. Committed(t)
    BY <2>1 DEF RowInv, DraftsEmpty
  <2> QED
    BY <1>1, <2>1, <2>2, CommittedStays DEF Evidenced
<1>3. ASSUME NEW k \in Slugs, NEW n \in Names, cache'[<<k, n>>] # "miss"
      PROVE  Evidenced(n)'
  <2>1. CASE cache[<<k, n>>] # "miss"
    BY <1>2, <2>1 DEF EvidenceInv
  <2>2. ASSUME NEW w \in Workers, At(w, "process", {"cache"}), scan[ScanOf(w)].name = n
        PROVE  Evidenced(n)'
    <3>1. scan[ScanOf(w)].api /\ ScanOf(w) \in Scans
      BY <2>2, AtBusy, BusyWorker DEF RowInv, JobsHaveEvidence, At, Steps
    <3> QED
      BY <1>2, <2>2, <3>1 DEF Evidenced
  <2> QED
    BY <1>3, <2>1, <2>2, CacheStep
<1>4. ASSUME NEW s \in Scans, NEW n, n = scan'[s].name
      PROVE  /\ scan'[s].cached => Evidenced(n)'
             /\ scan'[s].status = "completed" => scan'[s].api \/ scan'[s].cached
  <2>1. RowStep(s)
    BY <1>1 DEF RowSteps
  <2>2. CASE scan'[s] = scan[s]
    BY <1>2, <1>4, <2>2 DEF EvidenceInv
  <2>3. CASE Keeps(s)
    BY <1>2, <1>4, <2>3 DEF Keeps, EvidenceInv
  <2>4. CASE Drafts(s)
    <3>1. n \in Names
      BY <1>4, TypeStep DEF TypeOK, ScanRow
    <3> QED
      BY <1>2, <1>4, <2>4, <3>1 DEF Drafts, EvidenceInv
  <2>5. CASE CreateCommit(s) \/ PublicCommit(s)
    <3>1. PICK p : Save(s, Inserted(s, p))
      BY <2>5 DEF CreateCommit, PublicCommit
    <3>2. scan'[s] = [Inserted(s, p) EXCEPT !.stale = FALSE] /\ scan[s] \in ScanRow
      BY <3>1 DEF TypeOK, Save
    <3>3. /\ scan'[s].name = scan[s].name /\ scan'[s].cached = scan[s].cached
          /\ scan'[s].status = IF scan[s].cached THEN "completed" ELSE "queued"
      BY <3>2 DEF Inserted, ScanRow
    <3> QED
      BY <1>2, <1>4, <3>3 DEF EvidenceInv
  <2> QED
    BY <2>1, <2>2, <2>3, <2>4, <2>5 DEF RowStep
<1> QED
  BY <1>3, <1>4 DEF EvidenceInv, Evidenced

\* A verdict travels from the API result of one scan through the cache to a later one of the
\* same name and plan: no redelivery, retry or race completes a scan that has no such source.
THEOREM EvidenceAlways == Spec => []CompletedHasEvidence
<1>1. Init => EvidenceInv
  BY DEF Init, Blank, EvidenceInv
<1>2. EvidenceInv => CompletedHasEvidence
  BY DEF EvidenceInv, Evidenced, CompletedHasEvidence
<1>3. QED  BY <1>1, <1>2, EvidenceStep, RowsCorrect, TypeCorrect, PTL DEF Spec

\* A scan that waits has waited before, unless a request has just admitted it.
LEMMA WaitsOn ==
  ASSUME TypeOK, RowInv, [Next]_vars, NEW x \in Scans, x \in Waiting', ~CreateCommit(x)
  PROVE  x \in Waiting /\ scan'[x].owner = scan[x].owner /\ scan'[x].name = scan[x].name
<1>1. RowStep(x)
  BY RowStepLemma DEF RowSteps
<1>2. ~Drafts(x)
  BY DEF Waiting, Drafts, Committed
<1>3. ~PublicCommit(x)
  <2> SUFFICES ASSUME PublicCommit(x) PROVE FALSE
    OBVIOUS
  <2>1. scan[x].owner = NoOrg /\ scan'[x] = [Inserted(x, 0) EXCEPT !.stale = FALSE]
        /\ scan[x] \in ScanRow
    BY DEF PublicCommit, TypeOK, Save
  <2>2. scan'[x].owner = NoOrg
    BY <2>1 DEF Inserted, ScanRow
  <2>3. QED  BY <2>2 DEF Waiting
<1>4. CASE scan'[x] = scan[x]
  BY <1>4 DEF Waiting
<1>5. CASE Keeps(x)
  BY <1>5 DEF Waiting, Keeps, TypeOK, ScanRow
<1>6. QED  BY <1>1, <1>2, <1>3, <1>4, <1>5 DEF RowStep

LEMMA QueuedStep ==
  ASSUME TypeOK, RowInv, OneQueued, [Next]_vars  PROVE OneQueued'
<1> DEFINE Q(s) == scan[s].status = "queued" /\ ~scan[s].deleted /\ scan[s].owner \in Orgs
           QN(s) == scan'[s].status = "queued" /\ ~scan'[s].deleted /\ scan'[s].owner \in Orgs
<1> SUFFICES ASSUME NEW s \in Scans, NEW t \in Scans, s # t, QN(s), QN(t),
                    scan'[s].owner = scan'[t].owner, scan'[s].name = scan'[t].name
             PROVE  FALSE
  BY DEF OneQueued
<1>1. ASSUME NEW x \in Scans, QN(x), ~CreateCommit(x)
      PROVE  Q(x) /\ scan'[x].owner = scan[x].owner /\ scan'[x].name = scan[x].name
  BY <1>1, WaitsOn DEF Waiting
<1>2. ASSUME NEW x \in Scans, NEW y \in Scans, x # y, CreateCommit(x), QN(x), QN(y),
             scan'[x].owner = scan'[y].owner, scan'[x].name = scan'[y].name
      PROVE  FALSE
  <2>1. scan'[y] = scan[y]
    BY <1>2, CommitRows
  <2>2. scan'[x].owner = scan[x].owner /\ scan'[x].name = scan[x].name
    <3>1. PICK n : Save(x, Inserted(x, n))
      BY <1>2 DEF CreateCommit
    <3>2. scan'[x] = [Inserted(x, n) EXCEPT !.stale = FALSE] /\ scan[x] \in ScanRow
      BY <3>1 DEF TypeOK, Save
    <3>3. QED  BY <3>2 DEF Inserted, ScanRow
  <2>3. ~BeingScanned(scan[x].owner, scan[x].name)
    BY <1>2 DEF CreateCommit, Admissible
  <2>4. QED  BY <1>2, <2>1, <2>2, <2>3 DEF BeingScanned, InFlight
<1>3. ~CreateCommit(s) /\ ~CreateCommit(t)
  BY <1>2
<1>4. QED  BY <1>1, <1>3 DEF OneQueued

\* For any number of concurrent requests, two scans of an organisation's domain never wait
\* in the queue together.
THEOREM NeverTwoQueued == Spec => []OneQueued
<1>1. Init => OneQueued
  BY DEF Init, Blank, OneQueued
<1>2. QED  BY <1>1, QueuedStep, RowsCorrect, TypeCorrect, PTL DEF Spec

-----------------------------------------------------------------------------
(* The charges: used counts the rows billed in the organisation's current period *)

BilledIn(o, p) == {s \in Scans : scan[s].owner = o /\ scan[s].billed = p}

AccountInv ==
    /\ \A o \in Orgs : org[o].used = Cardinality(BilledIn(o, org[o].period))
    /\ \A s \in Scans : scan[s].owner \in Orgs => scan[s].billed <= org[scan[s].owner].period

\* A row that no CreateCommit touches is billed as before.
LEMMA SameBilling ==
  ASSUME TypeOK, RowInv, [Next]_vars, NEW s \in Scans, ~CreateCommit(s)
  PROVE  \/ scan'[s].owner = scan[s].owner /\ scan'[s].billed = scan[s].billed
         \/ scan[s].billed = 0 /\ scan'[s].billed = 0
<1>1. RowStep(s)
  BY RowStepLemma DEF RowSteps
<1>2. CASE Drafts(s)
  BY <1>2 DEF Drafts, RowInv, DraftsEmpty
<1>3. CASE PublicCommit(s)
  <2>1. ~Committed(s) /\ scan[s] \in ScanRow
        /\ scan'[s] = [Inserted(s, 0) EXCEPT !.stale = FALSE]
    BY <1>3 DEF PublicCommit, Committed, TypeOK, Save
  <2>2. scan'[s].billed = 0
    BY <2>1 DEF Inserted, ScanRow
  <2>3. QED  BY <2>1, <2>2 DEF RowInv, DraftsEmpty
<1>4. QED  BY <1>1, <1>2, <1>3 DEF RowStep, Keeps

\* The row that CreateCommit inserts.
LEMMA CommitBilling ==
  ASSUME TypeOK, RowInv, NEW s \in Scans, CreateCommit(s)
  PROVE  /\ scan'[s].owner = scan[s].owner /\ scan[s].billed = 0
         /\ scan[s].scheduled => scan'[s].billed = 0
         /\ ~scan[s].scheduled => scan'[s].billed = org[scan[s].owner].period
<1>1. ~Committed(s)
  BY DEF CreateCommit, Committed
<1>2. PICK n : /\ Save(s, Inserted(s, n))
               /\ scan[s].scheduled => n = 0
               /\ ~scan[s].scheduled => n = org[scan[s].owner].period
  BY DEF CreateCommit
<1>3. scan'[s] = [Inserted(s, n) EXCEPT !.stale = FALSE] /\ scan[s] \in ScanRow
  BY <1>2 DEF TypeOK, Save
<1>4. scan'[s].owner = scan[s].owner /\ scan'[s].billed = n
  BY <1>3 DEF Inserted, ScanRow
<1>5. QED  BY <1>1, <1>2, <1>4 DEF RowInv, DraftsEmpty

LEMMA AccountStep ==
  ASSUME TypeOK, RowInv, AccountInv, [Next]_vars  PROVE AccountInv'
<1>1. \A o \in Orgs : /\ org[o].used \in Nat /\ org[o].period \in Nat \ {0}
                      /\ org[o] \in OrgRow
  BY DEF TypeOK, OrgRow
<1>2. \A s \in Scans : scan[s].billed \in Nat /\ scan[s].scheduled \in BOOLEAN
  BY DEF TypeOK, ScanRow
<1>3. \A o \in Orgs, p \in Nat : IsFiniteSet(BilledIn(o, p))
  BY FS_Subset DEF BilledIn
<1>4. ASSUME NEW s \in Scans, CreateCommit(s)  PROVE AccountInv'
  <2> DEFINE q == scan[s].owner
  <2>1. /\ q \in Orgs
        /\ org' = [org EXCEPT ![q] = Charged(q, scan[s].scheduled)]
        /\ \A t \in Scans \ {s} : scan'[t] = scan[t]
    BY <1>4, CreateCommitRows, CommitRows
  <2>2. /\ org'[q].used = IF scan[s].scheduled THEN org[q].used ELSE org[q].used + 1
        /\ org'[q].period = org[q].period
        /\ \A o \in Orgs \ {q} : org'[o] = org[o]
    BY <1>2, <2>1, ChargedFields DEF TypeOK
  <2>3. /\ scan'[s].owner = q /\ scan[s].billed = 0
        /\ scan[s].scheduled => scan'[s].billed = 0
        /\ ~scan[s].scheduled => scan'[s].billed = org[q].period
    BY <1>4, CommitBilling
  <2> HIDE DEF q
  <2>4. ASSUME NEW o \in Orgs
        PROVE  org'[o].used = Cardinality({t \in Scans : /\ scan'[t].owner = o
                                                        /\ scan'[t].billed = org'[o].period})
    <3> DEFINE B == BilledIn(o, org[o].period)
               BN == {t \in Scans : scan'[t].owner = o /\ scan'[t].billed = org'[o].period}
    <3>1. org'[o].period = org[o].period /\ org[o].period \in Nat \ {0}
      BY <1>1, <2>2
    <3>2. CASE o = q /\ ~scan[s].scheduled
      <4>1. s \notin B /\ BN = B \cup {s}
        BY <1>1, <2>1, <2>3, <3>1, <3>2 DEF BilledIn
      <4>2. IsFiniteSet(B)
        BY <1>3, <3>1
      <4>3. Cardinality(B \cup {s}) = Cardinality(B) + 1
        BY <4>1, <4>2, FS_AddElement
      <4>4. org'[o].used = org[o].used + 1
        BY <2>2, <3>2
      <4>5. QED  BY <4>1, <4>3, <4>4 DEF AccountInv
    <3>3. CASE o # q \/ scan[s].scheduled
      <4>1. BN = B
        BY <1>1, <2>1, <2>3, <3>1, <3>3 DEF BilledIn
      <4>2. org'[o].used = org[o].used
        BY <1>2, <2>2, <3>3
      <4>3. QED  BY <4>1, <4>2 DEF AccountInv
    <3>4. QED  BY <1>2, <3>2, <3>3
  <2>5. ASSUME NEW t \in Scans, scan'[t].owner \in Orgs
        PROVE  scan'[t].billed <= org'[scan'[t].owner].period
    <3>1. \A o \in Orgs : org'[o].period = org[o].period
      BY <2>2
    <3>2. CASE t = s
      BY <1>1, <1>2, <2>1, <2>3, <3>1, <3>2
    <3>3. CASE t # s
      BY <2>1, <2>5, <3>1, <3>3 DEF AccountInv
    <3>4. QED  BY <3>2, <3>3
  <2>6. QED  BY <2>4, <2>5 DEF AccountInv, BilledIn
<1>5. ASSUME \A s \in Scans : ~CreateCommit(s)  PROVE AccountInv'
  <2>1. \A s \in Scans :
          \/ scan'[s].owner = scan[s].owner /\ scan'[s].billed = scan[s].billed
          \/ scan[s].billed = 0 /\ scan'[s].billed = 0
    BY <1>5, SameBilling
  <2>2. ASSUME NEW o \in Orgs
        PROVE  \/ org'[o].used = org[o].used /\ org'[o].period = org[o].period
               \/ org'[o].used = 0 /\ org'[o].period = org[o].period + 1
    BY <1>1, <1>5, OrgSteps, RenewedFields DEF OrgStep
  <2>3. ASSUME NEW o \in Orgs
        PROVE  org'[o].used = Cardinality({t \in Scans : /\ scan'[t].owner = o
                                                        /\ scan'[t].billed = org'[o].period})
    <3> DEFINE B == BilledIn(o, org[o].period)
               BN == {t \in Scans : scan'[t].owner = o /\ scan'[t].billed = org'[o].period}
    <3>1. CASE org'[o].used = org[o].used /\ org'[o].period = org[o].period
      <4>1. BN = B
        BY <1>1, <2>1, <3>1 DEF BilledIn
      <4>2. QED  BY <3>1, <4>1 DEF AccountInv
    <3>2. CASE org'[o].used = 0 /\ org'[o].period = org[o].period + 1
      <4>1. ASSUME NEW t \in Scans, scan'[t].owner = o, scan'[t].billed = org'[o].period
            PROVE  FALSE
        <5>1. org[o].period \in Nat /\ scan[t].billed \in Nat
          BY <1>1, <1>2
        <5>2. scan[t].owner = o /\ scan[t].billed = org[o].period + 1
          BY <2>1, <3>2, <4>1, <5>1
        <5>3. scan[t].billed <= org[o].period
          BY <5>2 DEF AccountInv
        <5>4. QED  BY <5>1, <5>2, <5>3
      <4>2. BN = {}
        BY <4>1
      <4>3. QED  BY <3>2, <4>2, FS_EmptySet
    <3>3. QED  BY <2>2, <3>1, <3>2
  <2>4. ASSUME NEW t \in Scans, scan'[t].owner \in Orgs
        PROVE  scan'[t].billed <= org'[scan'[t].owner].period
    <3> DEFINE o == scan'[t].owner
    <3>1. org'[o].period \in Nat /\ org[o].period \in Nat /\ org[o].period <= org'[o].period
      BY <1>1, <2>2, <2>4
    <3>2. CASE scan'[t].billed = 0
      BY <3>1, <3>2
    <3>3. CASE scan'[t].owner = scan[t].owner /\ scan'[t].billed = scan[t].billed
      <4>1. scan[t].billed <= org[o].period /\ scan[t].billed \in Nat
        BY <1>2, <2>4, <3>3 DEF AccountInv
      <4>2. QED  BY <3>1, <3>3, <4>1
    <3>4. QED  BY <2>1, <3>2, <3>3
  <2>5. QED  BY <2>3, <2>4 DEF AccountInv, BilledIn
<1>6. QED  BY <1>4, <1>5

\* For any interleaving of requests with plan changes and the two statements of the quota
\* reset, scan_quota_used is the number of scans billed in the current period.
THEOREM UseIsCounted == Spec => []QuotaAccounted
<1>1. Init => AccountInv
  <2> SUFFICES ASSUME Init PROVE AccountInv
    OBVIOUS
  <2>1. \A s \in Scans : scan[s].billed = 0 /\ scan[s].owner = NoOrg
    BY DEF Init, Blank
  <2>2. \A o \in Orgs : org[o].used = 0 /\ org[o].period = 1
    BY DEF Init
  <2>3. \A o \in Orgs : BilledIn(o, org[o].period) = {}
    BY <2>1, <2>2 DEF BilledIn
  <2>4. QED  BY <2>1, <2>2, <2>3, FS_EmptySet DEF AccountInv
<1>2. AccountInv => QuotaAccounted
  BY DEF AccountInv, QuotaAccounted, BilledIn
<1>3. QED  BY <1>1, <1>2, AccountStep, RowsCorrect, TypeCorrect, PTL DEF Spec

-----------------------------------------------------------------------------
(* The lock of the browser scans *)

Browses(w) == At(w, "browser", Steps)

\* The owner of the scan that worker w is at.
Owner(w) == scan[ScanOf(w)].owner

\* The scan a browsing worker examines was being examined by it before the step.
StillBrowses(w) == Browses(w)' => Browses(w) /\ worker'[w].job = worker[w].job

\* Either nobody is let in and nobody let out ...
LockKept == (\A w \in Workers : StillBrowses(w)) /\ UNCHANGED browserLock

\* ... or a worker gets the free lock of an organisation ...
LockTaken ==
    \E v \in Workers, j \in Job :
        /\ queue[j] > 0 /\ scan[j.scan].owner \notin browserLock
        /\ browserLock' = browserLock \cup {scan[j.scan].owner}
        /\ worker'[v].job = j
        /\ \A w \in Workers \ {v} : StillBrowses(w)

\* ... or one that browses leaves it ...
LockLeft ==
    \E v \in Workers :
        /\ Browses(v) /\ ~Browses(v)'
        /\ browserLock' = browserLock \ {Owner(v)}
        /\ \A w \in Workers : StillBrowses(w)

\* ... or it expires while nobody needs it.
LockExpired ==
    \E o \in Orgs :
        /\ \A w \in Workers : ~(Browses(w) /\ Owner(w) = o)
        /\ browserLock' = browserLock \ {o}
        /\ \A w \in Workers : StillBrowses(w)

LockStep == LockKept \/ LockTaken \/ LockLeft \/ LockExpired

\* Whoever browses holds the lock of the scan's organisation, alone.
Held  == \A w \in Workers : Browses(w) => Owner(w) \in browserLock
Alone == \A v, w \in Workers : Browses(v) /\ Browses(w) /\ Owner(v) = Owner(w) => v = w

BrowserInv == Held /\ Alone

LEMMA IdleBrowses == ASSUME NEW w \in Workers, worker[w] = Idle PROVE ~Browses(w)
  BY DEF Browses, At, Idle, NoJob

LEMMA SameBrowses ==
  ASSUME NEW w \in Workers, worker'[w] = worker[w] PROVE StillBrowses(w)
  BY DEF StillBrowses, Browses, At

LEMMA FinishBrowses ==
  ASSUME TypeOK, NEW w \in Workers, Finish(w)
  PROVE  ~Browses(w)' /\ \A v \in Workers : StillBrowses(v)
<1>1. worker'[w] = Idle /\ \A v \in Workers \ {w} : worker'[v] = worker[v]
  BY DEF TypeOK, Finish
<1>2. ~Browses(w)'
  BY <1>1 DEF Browses, At, Idle, NoJob
<1> QED
  BY <1>1, <1>2, SameBrowses DEF StillBrowses

\* A task that goes on stays with its message.
LEMMA GoingOnBrowses ==
  ASSUME TypeOK, NEW w \in Workers, worker[w] # Idle,
         worker'[w].job = worker[w].job, \A v \in Workers \ {w} : worker'[v] = worker[v]
  PROVE  \A v \in Workers : StillBrowses(v)
<1>1. StillBrowses(w)
  BY BusyWorker DEF StillBrowses, Browses, At, Busy
<1> QED
  BY <1>1, SameBrowses

LEMMA GotoBrowses ==
  ASSUME TypeOK, NEW w \in Workers, worker[w] # Idle, NEW pc, Goto(w, pc)
  PROVE  \A v \in Workers : StillBrowses(v)
<1>1. worker'[w].job = worker[w].job /\ \A v \in Workers \ {w} : worker'[v] = worker[v]
  BY BusyWorker DEF TypeOK, Goto, Busy
<1> QED
  BY <1>1, GoingOnBrowses

LEMMA ReceiveBrowses ==
  ASSUME TypeOK, NEW w \in Workers, NEW j \in Job, NEW pc, Receive(w, j, pc)
  PROVE  /\ worker'[w].job = j /\ queue[j] > 0
         /\ \A v \in Workers \ {w} : StillBrowses(v)
         /\ j.task # "browser" => \A v \in Workers : StillBrowses(v)
<1>1. worker'[w].job = j /\ queue[j] > 0 /\ \A v \in Workers \ {w} : worker'[v] = worker[v]
  BY DEF TypeOK, Receive
<1>2. j.task # "browser" => StillBrowses(w)
  BY <1>1 DEF StillBrowses, Browses, At
<1> QED
  BY <1>1, <1>2, SameBrowses

LEMMA DeliverLock == ASSUME TypeOK, NEW w \in Workers, Deliver(w) PROVE LockStep
<1>1. PICK j \in Job : \/ TriggerBegin(w, j) \/ ProcessBegin(w, j)
                       \/ BrowserBegin(w, j) \/ BrowserSkip(w, j)
  BY DEF Deliver
<1>2. CASE TriggerBegin(w, j) \/ ProcessBegin(w, j)
  BY <1>2, ReceiveBrowses DEF TriggerBegin, ProcessBegin, LockKept, LockStep
<1>3. CASE BrowserBegin(w, j)
  BY <1>3, ReceiveBrowses DEF BrowserBegin, LockFree, LockTaken, LockStep
<1>4. CASE BrowserSkip(w, j)
  BY <1>4, SameBrowses DEF BrowserSkip, LockKept, LockStep
<1> QED
  BY <1>1, <1>2, <1>3, <1>4

LEMMA RunLock == ASSUME TypeOK, NEW w \in Workers, Run(w) PROVE LockStep
<1>1. worker[w] # Idle /\ worker[w] \in Busy
  BY RunBusy, BusyWorker
<1>2. CASE BrowserEnd(w) \/ BrowserError(w) \/ BrowserSoftLimit(w)
  <2>1. Finish(w) /\ Browses(w) /\ browserLock' = browserLock \ {Owner(w)}
    BY <1>2 DEF BrowserEnd, BrowserError, BrowserSoftLimit, Browses, At, Steps, Owner, ScanOf
  <2> QED
    BY <2>1, FinishBrowses DEF LockLeft, LockStep
<1>3. CASE \/ TriggerRejected(w) \/ TriggerError(w) \/ ProcessError(w) \/ ProcessSoftLimit(w)
           \/ Acknowledge(w)
  BY <1>3, FinishBrowses
  DEF TriggerRejected, TriggerError, ProcessError, ProcessSoftLimit, Acknowledge, LockKept,
      LockStep
<1>4. CASE \/ TriggerFetched(w) \/ TriggerPublish(w) \/ ProcessCached(w) \/ ProcessChain(w)
           \/ ProcessMail(w) \/ BrowserSave(w)
  BY <1>1, <1>4, GotoBrowses
  DEF TriggerFetched, TriggerPublish, ProcessCached, ProcessChain, ProcessMail, BrowserSave,
      LockKept, LockStep
<1>5. CASE ProcessChecked(w)
  <2>1. PICK bad \in Verdicts :
          worker' = [worker EXCEPT ![w] = [@ EXCEPT !.pc = "cache", !.seen.malware = bad]]
    BY <1>5 DEF ProcessChecked
  <2>2. worker'[w].job = worker[w].job /\ \A v \in Workers \ {w} : worker'[v] = worker[v]
    BY <1>1, <2>1 DEF TypeOK, Busy
  <2> QED
    BY <1>1, <1>5, <2>2, GoingOnBrowses DEF ProcessChecked, LockKept, LockStep
<1> QED
  BY <1>2, <1>3, <1>4, <1>5 DEF Run

LEMMA LockStepLemma == ASSUME TypeOK, [Next]_vars PROVE LockStep
<1>1. CASE UNCHANGED <<worker, browserLock>>
  BY <1>1, SameBrowses DEF LockKept, LockStep
<1>2. ASSUME NEW w \in Workers, WorkerLost(w) \/ HardTimeLimit(w) PROVE LockStep
  BY <1>2, FinishBrowses DEF WorkerLost, HardTimeLimit, LockKept, LockStep
<1>3. ASSUME NEW o \in Orgs, LockExpires(o) PROVE LockStep
  BY <1>3, SameBrowses DEF LockExpires, LockExpired, LockStep, Browses, Owner
<1>4. ASSUME Request \/ UNCHANGED vars \/ \E o \in Orgs, p \in Plans \cup {NoPlan} : ChangePlan(o, p)
      PROVE  UNCHANGED <<worker, browserLock>>
  BY <1>4 DEF Request, CreateBegin, PublicBegin, CreateCommit, CreateRejected, PublicCommit,
     Publish, PublishFails, PublishLost, DeleteDomain, ChangePlan, vars
<1>5. ASSUME Beat PROVE UNCHANGED <<worker, browserLock>> \/ \E o \in Orgs : LockExpires(o)
  BY <1>5 DEF Beat, GrowStale, CleanupSelect, CleanupFail, MonthPasses, ResetSelect,
     ResetUpdate, ResetNull, CacheExpires
<1> QED
  BY <1>1, <1>2, <1>3, <1>4, <1>5, DeliverLock, RunLock DEF Next

\* Nothing but its own step lets a worker in, and the scan it examines keeps its owner.
LEMMA BrowserStep ==
  ASSUME TypeOK, RowInv, BrowserInv, [Next]_vars
  PROVE  BrowserInv'
<1>1. LockStep /\ RowSteps
  BY LockStepLemma, RowStepLemma
<1>2. ASSUME NEW w \in Workers, Browses(w), Browses(w)', StillBrowses(w)
      PROVE  Owner(w)' = Owner(w)
  <2>1. worker[w] # Idle
    BY <1>2, IdleBrowses
  <2>2. ScanOf(w) \in Scans /\ Committed(ScanOf(w))
    BY <2>1, BusyWorker DEF RowInv, JobsOnRows
  <2>3. ScanOf(w)' = ScanOf(w)
    BY <1>2 DEF StillBrowses, ScanOf
  <2> QED
    BY <1>1, <2>2, <2>3, CommittedStays DEF Owner
<1>3. ASSUME NEW w \in Workers, Browses(w)', StillBrowses(w)
      PROVE  Browses(w) /\ Owner(w)' = Owner(w) /\ Owner(w) \in browserLock
  <2>1. Browses(w)
    BY <1>3 DEF StillBrowses
  <2> QED
    BY <1>2, <1>3, <2>1 DEF BrowserInv, Held
<1>4. ASSUME NEW v \in Workers, NEW w \in Workers, Browses(v)', Browses(w)',
             StillBrowses(v), StillBrowses(w), Owner(v)' = Owner(w)'
      PROVE  v = w
  <2>1. /\ Browses(v) /\ Owner(v)' = Owner(v)
        /\ Browses(w) /\ Owner(w)' = Owner(w)
    BY <1>3, <1>4
  <2>2. Owner(v) = Owner(w)
    BY <1>4, <2>1
  <2> QED
    BY <2>1, <2>2 DEF BrowserInv, Alone
<1>5. CASE LockKept
  BY <1>3, <1>4, <1>5 DEF LockKept, BrowserInv, Held, Alone
<1>6. CASE LockTaken
  <2>1. PICK v \in Workers, j \in Job :
          /\ queue[j] > 0 /\ scan[j.scan].owner \notin browserLock
          /\ browserLock' = browserLock \cup {scan[j.scan].owner}
          /\ worker'[v].job = j
          /\ \A w \in Workers \ {v} : StillBrowses(w)
    BY <1>6 DEF LockTaken
  <2>2. Owner(v)' = scan[j.scan].owner
    <3>1. j.scan \in Scans /\ Committed(j.scan)
      BY <2>1 DEF Job, RowInv, JobsOnRows
    <3> QED
      BY <1>1, <2>1, <3>1, CommittedStays DEF Owner, ScanOf
  <2>3. ASSUME NEW w \in Workers \ {v}, Browses(w)'
        PROVE  Owner(w)' \in browserLock /\ Owner(w)' # Owner(v)'
    BY <1>3, <2>1, <2>2, <2>3
  <2>4. Held'
    BY <2>1, <2>2, <2>3 DEF Held
  <2>5. Alone'
    BY <1>4, <2>1, <2>3 DEF Alone
  <2> QED
    BY <2>4, <2>5 DEF BrowserInv
<1>7. CASE LockLeft
  <2>1. PICK v \in Workers :
          /\ Browses(v) /\ ~Browses(v)'
          /\ browserLock' = browserLock \ {Owner(v)}
          /\ \A w \in Workers : StillBrowses(w)
    BY <1>7 DEF LockLeft
  <2>2. ASSUME NEW w \in Workers, Browses(w)' PROVE Owner(w)' \in browserLock'
    <3>1. Browses(w) /\ Owner(w)' = Owner(w) /\ Owner(w) \in browserLock /\ w # v
      BY <1>3, <2>1, <2>2
    <3>2. Owner(w) # Owner(v)
      BY <2>1, <3>1 DEF BrowserInv, Alone
    <3> QED
      BY <2>1, <3>1, <3>2
  <2> QED
    BY <1>4, <2>1, <2>2 DEF BrowserInv, Held, Alone
<1>8. CASE LockExpired
  <2>1. PICK o \in Orgs :
          /\ \A w \in Workers : ~(Browses(w) /\ Owner(w) = o)
          /\ browserLock' = browserLock \ {o}
          /\ \A w \in Workers : StillBrowses(w)
    BY <1>8 DEF LockExpired
  <2>2. ASSUME NEW w \in Workers, Browses(w)' PROVE Owner(w)' \in browserLock'
    BY <1>3, <2>1, <2>2
  <2> QED
    BY <1>4, <2>1, <2>2 DEF BrowserInv, Held, Alone
<1> QED
  BY <1>1, <1>5, <1>6, <1>7, <1>8 DEF LockStep

LEMMA BrowserInvariant == Spec => []BrowserInv
<1>1. Init => BrowserInv
  <2> SUFFICES ASSUME Init PROVE BrowserInv
    OBVIOUS
  <2>1. \A w \in Workers : ~Browses(w)
    BY IdleBrowses DEF Init
  <2> QED
    BY <2>1 DEF BrowserInv, Held, Alone
<1> QED
  BY <1>1, BrowserStep, RowsCorrect, TypeCorrect, PTL DEF Spec

\* cache.add of the lock key and its deletion by whoever got it: an organisation has one
\* browser scan running, though locks are left behind by lost workers and expire.
THEOREM OneBrowserScan == Spec => []BrowserExclusive
<1>1. BrowserInv => BrowserExclusive
  BY DEF BrowserInv, Alone, BrowserExclusive, Browses, Owner
<1> QED
  BY <1>1, BrowserInvariant, PTL

-----------------------------------------------------------------------------
(* One carrier: what a step leaves, starts or hands over at a scan *)

\* Worker w is a carrier of scan s.
Hand(w, s) == Working(w) /\ ScanOf(w) = s /\ Carries(worker[w].job)

\* The task a carrier is for.
Stage(a) == CASE a[1] = "hook"    -> "trigger"
              [] a[1] = "message" -> a[2].task
              [] OTHER            -> worker[a[2]].job.task

\* Nothing will put a completed scan back to work.
Spared(s) == scan[s].status = "completed" => \A a \in Carriers(s) : Stage(a) # "trigger"

Calm(s) == Single(s) /\ Spared(s)

CarrierInv == \A s \in Scans : losses[s] = 0 => Calm(s)

\* A step does not complete row s.
Rests(s) == scan'[s].status = "completed" => scan[s].status = "completed"

\* A step leaves scan s alone, or only takes a carrier from it ...
Still(s) ==
    /\ \A a \in Carriers(s)' : a \in Carriers(s) /\ Stage(a)' = Stage(a)
    /\ \A j \in Job : Carries(j) /\ j.scan = s => queue'[j] <= queue[j]
    /\ Rests(s)

\* ... or commits it ...
Starts(s) ==
    /\ Carriers(s) = {} /\ Carriers(s)' \subseteq {<<"hook", s>>}
    /\ \A j \in Job : Carries(j) /\ j.scan = s => queue'[j] = queue[j]
    /\ scan'[s].status = "completed" => Carriers(s)' = {}

\* ... or carrier b takes over from a ...
Passes(s, a, b) ==
    /\ a \in Carriers(s)
    /\ Carriers(s)' \subseteq (Carriers(s) \ {a}) \cup {b}
    /\ \A j \in Job : Carries(j) /\ j.scan = s => queue'[j] <= 1
    /\ scan'[s].status = "completed" => Stage(b)' # "trigger"

\* ... or a worker is lost at it.
CarrierStep(s) ==
    \/ Still(s) \/ Starts(s) \/ \E a, b : Passes(s, a, b)
    \/ losses'[s] # 0

LEMMA CarrierKinds ==
  ASSUME NEW s, NEW a
  PROVE  a \in Carriers(s) <=>
           \/ a = <<"hook", s>> /\ s \in unpublished
           \/ \E j \in Job : /\ a = <<"message", j>> /\ Carries(j) /\ j.scan = s
                             /\ queue[j] > 0
           \/ \E w \in Workers : a = <<"worker", w>> /\ Hand(w, s)
  BY DEF Carriers, Hand

LEMMA CarrierStepKeeps ==
  ASSUME NEW s \in Scans, Calm(s), TypeOK, TypeOK', CarrierStep(s), losses'[s] = 0
  PROVE  Calm(s)'
<1>1. Single(s) /\ Spared(s)
  BY DEF Calm
<1>2. \A j \in Job : queue[j] \in Nat /\ queue'[j] \in Nat
  BY DEF TypeOK
<1>3. CASE Still(s)
  <2>1. Single(s)'
    <3>1. ASSUME NEW j \in Job, Carries(j), j.scan = s PROVE queue'[j] <= 1
      <4>1. queue'[j] <= queue[j] /\ queue[j] <= 1
        BY <1>1, <1>3, <3>1 DEF Still, Single
      <4> QED  BY <1>2, <4>1
    <3> QED  BY <1>1, <1>3, <3>1 DEF Still, Single, Carries
  <2>2. Spared(s)'
    BY <1>1, <1>3 DEF Still, Rests, Spared
  <2> QED  BY <2>1, <2>2 DEF Calm
<1>4. CASE Starts(s)
  BY <1>1, <1>4 DEF Starts, Single, Spared, Calm, Carries
<1>5. ASSUME NEW a, NEW b, Passes(s, a, b) PROVE Calm(s)'
  <2>1. Carriers(s)' \subseteq {b}
    BY <1>1, <1>5 DEF Passes, Single
  <2> QED  BY <1>5, <2>1 DEF Passes, Single, Spared, Calm, Carries
<1> QED  BY <1>3, <1>4, <1>5 DEF CarrierStep

\* A scan whose row, messages and workers a step leaves alone, or only takes away.
LEMMA StillStep ==
  ASSUME NEW s \in Scans, s \in unpublished' => s \in unpublished,
         \A j \in Job : Carries(j) /\ j.scan = s =>
            queue[j] \in Nat /\ queue'[j] \in Nat /\ queue'[j] <= queue[j],
         \A w \in Workers : Hand(w, s)' => worker'[w] = worker[w],
         Rests(s)
  PROVE  Still(s)
<1>1. ASSUME NEW a \in Carriers(s)'
      PROVE  a \in Carriers(s) /\ Stage(a)' = Stage(a)
  <2>1. CASE a = <<"hook", s>> /\ s \in unpublished'
    BY <2>1, CarrierKinds DEF Stage
  <2>2. ASSUME NEW j \in Job, a = <<"message", j>>, Carries(j), j.scan = s, queue'[j] > 0
        PROVE  a \in Carriers(s) /\ Stage(a)' = Stage(a)
    <3>1. queue[j] > 0
      BY <2>2
    <3> QED  BY <2>2, <3>1, CarrierKinds DEF Stage
  <2>3. ASSUME NEW w \in Workers, a = <<"worker", w>>, Hand(w, s)'
        PROVE  a \in Carriers(s) /\ Stage(a)' = Stage(a)
    <3>1. worker'[w] = worker[w]
      BY <2>3
    <3>2. Hand(w, s)
      BY <2>3, <3>1 DEF Hand, Working, ScanOf, Carries
    <3>3. a \in Carriers(s)
      BY <2>3, <3>2, CarrierKinds
    <3>4. Stage(a)' = Stage(a)
      BY <2>3, <3>1 DEF Stage
    <3> QED  BY <3>3, <3>4
  <2> QED  BY <2>1, <2>2, <2>3 DEF Carriers, Hand, Carries
<1> QED  BY <1>1 DEF Still

\* The worker at a scan sends the next message for it, and does nothing more.
LEMMA SentOn ==
  ASSUME TypeOK, NEW w \in Workers, NEW s, Hand(w, s), Single(s),
         NEW j \in Job, j.scan = s, Carries(j), Send(j), UNCHANGED unpublished, ~Working(w)',
         \A v \in Workers \ {w} : worker'[v] = worker[v]
  PROVE  /\ <<"worker", w>> \in Carriers(s)
         /\ Carriers(s)' \subseteq (Carriers(s) \ {<<"worker", w>>}) \cup {<<"message", j>>}
         /\ \A i \in Job : Carries(i) /\ i.scan = s => queue'[i] <= 1
<1>1. <<"worker", w>> \in Carriers(s)
  BY CarrierKinds
<1>2. queue[j] = 0
  <2> SUFFICES ASSUME queue[j] > 0 PROVE FALSE
    BY DEF TypeOK
  <2>1. <<"message", j>> \in Carriers(s)
    BY CarrierKinds
  <2>2. <<"message", j>> # <<"worker", w>>
    OBVIOUS
  <2> QED  BY <1>1, <2>1, <2>2 DEF Single
<1>3. queue'[j] = 1 /\ \A i \in Job \ {j} : queue'[i] = queue[i]
  BY <1>2 DEF TypeOK, Send
<1>4. ASSUME NEW a \in Carriers(s)', a # <<"message", j>>
      PROVE  a \in Carriers(s) \ {<<"worker", w>>}
  <2>1. CASE a = <<"hook", s>> /\ s \in unpublished'
    BY <2>1, CarrierKinds
  <2>2. ASSUME NEW i \in Job, a = <<"message", i>>, Carries(i), i.scan = s, queue'[i] > 0
        PROVE  a \in Carriers(s) \ {<<"worker", w>>}
    <3>1. queue[i] > 0
      BY <1>3, <1>4, <2>2
    <3> QED  BY <2>2, <3>1, CarrierKinds
  <2>3. ASSUME NEW v \in Workers, a = <<"worker", v>>, Hand(v, s)'
        PROVE  a \in Carriers(s) \ {<<"worker", w>>}
    <3>1. v # w /\ worker'[v] = worker[v]
      BY <2>3 DEF Hand
    <3>2. Hand(v, s)
      BY <2>3, <3>1 DEF Hand, Working, ScanOf, Carries
    <3>3. <<"worker", v>> # <<"worker", w>>
      BY <3>1
    <3> QED  BY <2>3, <3>2, <3>3, CarrierKinds
  <2> QED  BY <2>1, <2>2, <2>3 DEF Carriers, Hand, Carries
<1>5. \A i \in Job : Carries(i) /\ i.scan = s => queue'[i] <= 1
  BY <1>3 DEF Single
<1> QED  BY <1>1, <1>4, <1>5

\* The worker at a scan goes on with its task.
LEMMA GoesOn ==
  ASSUME TypeOK, NEW w \in Workers, NEW s, Hand(w, s), Single(s), UNCHANGED unpublished,
         \A i \in Job : Carries(i) => queue'[i] = queue[i],
         \A v \in Workers \ {w} : worker'[v] = worker[v]
  PROVE  /\ <<"worker", w>> \in Carriers(s)
         /\ Carriers(s)' \subseteq (Carriers(s) \ {<<"worker", w>>}) \cup {<<"worker", w>>}
         /\ \A i \in Job : Carries(i) /\ i.scan = s => queue'[i] <= 1
<1>1. <<"worker", w>> \in Carriers(s)
  BY CarrierKinds
<1>2. ASSUME NEW a \in Carriers(s)', a # <<"worker", w>>
      PROVE  a \in Carriers(s)
  <2>1. CASE a = <<"hook", s>> /\ s \in unpublished'
    BY <2>1, CarrierKinds
  <2>2. ASSUME NEW i \in Job, a = <<"message", i>>, Carries(i), i.scan = s, queue'[i] > 0
        PROVE  a \in Carriers(s)
    BY <2>2, CarrierKinds
  <2>3. ASSUME NEW v \in Workers, a = <<"worker", v>>, Hand(v, s)'
        PROVE  a \in Carriers(s)
    <3>1. worker'[v] = worker[v]
      BY <1>2, <2>3
    <3>2. Hand(v, s)
      BY <2>3, <3>1 DEF Hand, Working, ScanOf, Carries
    <3> QED  BY <2>3, <3>2, CarrierKinds
  <2> QED  BY <2>1, <2>2, <2>3 DEF Carriers, Hand, Carries
<1> QED  BY <1>1, <1>2 DEF Single

\* A worker takes the message of a scan.
LEMMA TakenUp ==
  ASSUME TypeOK, NEW w \in Workers, NEW j \in Job, NEW s, s = j.scan, Carries(j), NEW pc,
         Receive(w, j, pc), UNCHANGED unpublished, Single(s)
  PROVE  /\ <<"message", j>> \in Carriers(s)
         /\ Carriers(s)' \subseteq (Carriers(s) \ {<<"message", j>>}) \cup {<<"worker", w>>}
         /\ \A i \in Job : Carries(i) /\ i.scan = s => queue'[i] <= 1
<1>1. /\ queue[j] > 0 /\ queue'[j] = queue[j] - 1 /\ \A i \in Job \ {j} : queue'[i] = queue[i]
      /\ \A v \in Workers \ {w} : worker'[v] = worker[v]
      /\ \A i \in Job : queue[i] \in Nat
  BY DEF Receive, TypeOK
<1>2. <<"message", j>> \in Carriers(s)
  BY <1>1, CarrierKinds
<1>3. \A i \in Job : Carries(i) /\ i.scan = s => queue[i] <= 1
  BY DEF Single
<1>4. queue'[j] = 0
  BY <1>1, <1>3
<1>5. ASSUME NEW a \in Carriers(s)', a # <<"worker", w>>
      PROVE  a \in Carriers(s) \ {<<"message", j>>}
  <2>1. CASE a = <<"hook", s>> /\ s \in unpublished'
    BY <2>1, CarrierKinds
  <2>2. ASSUME NEW i \in Job, a = <<"message", i>>, Carries(i), i.scan = s, queue'[i] > 0
        PROVE  a \in Carriers(s) \ {<<"message", j>>}
    <3>1. i # j
      BY <1>4, <2>2
    <3>2. queue[i] > 0 /\ <<"message", i>> # <<"message", j>>
      BY <1>1, <2>2, <3>1
    <3> QED  BY <2>2, <3>2, CarrierKinds
  <2>3. ASSUME NEW v \in Workers, a = <<"worker", v>>, Hand(v, s)'
        PROVE  a \in Carriers(s) \ {<<"message", j>>}
    <3>1. worker'[v] = worker[v]
      BY <1>1, <1>5, <2>3
    <3>2. Hand(v, s)
      BY <2>3, <3>1 DEF Hand, Working, ScanOf, Carries
    <3> QED  BY <2>3, <3>2, CarrierKinds
  <2> QED  BY <2>1, <2>2, <2>3 DEF Carriers, Hand, Carries
<1>6. \A i \in Job : Carries(i) /\ i.scan = s => queue'[i] <= 1
  BY <1>1, <1>3, <1>4
<1> QED  BY <1>2, <1>5, <1>6

\* What a worker or a message at a scan says of its row.
LEMMA CarrierRow ==
  ASSUME NEW s, NEW a \in Carriers(s), Calm(s)
  PROVE  scan[s].status = "completed" => Stage(a) # "trigger"
  BY DEF Calm, Spared

\* The task of a worker ends and nothing follows it.
LEMMA EndsThere ==
  ASSUME TypeOK, NEW w \in Workers, NEW s \in Scans, Finish(w),
         UNCHANGED <<unpublished, queue>>, Rests(s)
  PROVE  Still(s)
<1>1. \A v \in Workers : worker'[v] = worker[v] \/ ~Working(v)'
  BY DEF TypeOK, Finish, Working
<1> QED
  BY <1>1, StillStep DEF TypeOK, Hand

\* A task sends the next message, its own again included.
LEMMA HandsOver ==
  ASSUME TypeOK, NEW w \in Workers, NEW s \in Scans, Hand(w, s), Calm(s),
         NEW j \in Job, j.scan = s, Carries(j),
         j.task = "trigger" => worker[w].job.task = "trigger",
         Send(j), UNCHANGED <<unpublished, scan>>, Finish(w) \/ Goto(w, "ack")
  PROVE  CarrierStep(s)
<1> DEFINE a == <<"worker", w>>
           b == <<"message", j>>
<1>1. ~Working(w)' /\ \A v \in Workers \ {w} : worker'[v] = worker[v]
  BY BusyWorker DEF TypeOK, Finish, Goto, Working, Busy, Hand
<1>2. /\ a \in Carriers(s)
      /\ Carriers(s)' \subseteq (Carriers(s) \ {a}) \cup {b}
      /\ \A i \in Job : Carries(i) /\ i.scan = s => queue'[i] <= 1
  BY <1>1, SentOn DEF Calm
<1>3. Stage(a) = worker[w].job.task /\ Stage(b)' = j.task
  BY DEF Stage
<1>4. scan'[s].status = "completed" => Stage(b)' # "trigger"
  BY <1>2, <1>3, CarrierRow
<1> QED
  BY <1>2, <1>4 DEF CarrierStep, Passes

\* A task takes its next step.
LEMMA KeepsOn ==
  ASSUME TypeOK, NEW w \in Workers, NEW s \in Scans, Hand(w, s), Calm(s),
         UNCHANGED unpublished, \A i \in Job : Carries(i) => queue'[i] = queue[i],
         \A v \in Workers \ {w} : worker'[v] = worker[v],
         scan'[s].status = "completed" => worker'[w].job.task # "trigger"
  PROVE  CarrierStep(s)
<1> DEFINE a == <<"worker", w>>
<1>1. /\ a \in Carriers(s)
      /\ Carriers(s)' \subseteq (Carriers(s) \ {a}) \cup {a}
      /\ \A i \in Job : Carries(i) /\ i.scan = s => queue'[i] <= 1
  BY GoesOn DEF Calm
<1>2. Stage(a)' = worker'[w].job.task
  BY DEF Stage
<1> QED
  BY <1>1, <1>2 DEF CarrierStep, Passes

\* A task begins.
LEMMA TakesOver ==
  ASSUME TypeOK, NEW w \in Workers, NEW j \in Job, NEW s \in Scans, s = j.scan, Calm(s),
         Carries(j), NEW pc, Receive(w, j, pc), UNCHANGED unpublished, Rests(s)
  PROVE  CarrierStep(s)
<1> DEFINE a == <<"message", j>>
           b == <<"worker", w>>
<1>1. /\ a \in Carriers(s)
      /\ Carriers(s)' \subseteq (Carriers(s) \ {a}) \cup {b}
      /\ \A i \in Job : Carries(i) /\ i.scan = s => queue'[i] <= 1
  BY TakenUp DEF Calm
<1>2. worker'[w].job = j
  BY DEF TypeOK, Receive
<1>3. Stage(a) = j.task /\ Stage(b)' = j.task
  BY <1>2 DEF Stage
<1>4. scan'[s].status = "completed" => Stage(b)' # "trigger"
  BY <1>1, <1>3, CarrierRow DEF Rests
<1> QED
  BY <1>1, <1>4 DEF CarrierStep, Passes

LEMMA ProcessJob ==
  ASSUME NEW s \in Scans, NEW k \in Slugs
  PROVE  LET j == [task |-> "process", scan |-> s, tries |-> 0, slug |-> k]
         IN  j \in Job /\ j.task = "process" /\ j.scan = s /\ Carries(j)
  BY DEF Job, Carries

\* A task touches nothing of the scans it is not about.
LEMMA RunElsewhere ==
  ASSUME TypeOK, NEW w \in Workers, Run(w), NEW s \in Scans, s # ScanOf(w)
  PROVE  Still(s)
<1>1. worker[w] \in Busy /\ worker[w].job \in Job /\ ScanOf(w) \in Scans
  BY RunBusy, BusyWorker
<1>2. UNCHANGED unpublished
  BY DEF Run, TriggerFetched, TriggerPublish, TriggerRejected, TriggerError,
     ProcessChecked, ProcessCached, ProcessChain, ProcessMail, ProcessError, ProcessSoftLimit,
     BrowserSave, BrowserEnd, BrowserError, BrowserSoftLimit, Acknowledge
<1>3. scan'[s] = scan[s]
  BY <1>1 DEF TypeOK, Run, TriggerFetched, TriggerPublish, TriggerRejected, TriggerError,
     ProcessChecked, ProcessCached, ProcessChain, ProcessMail, ProcessError, ProcessSoftLimit,
     BrowserSave, BrowserEnd, BrowserError, BrowserSoftLimit, Acknowledge, RetryOrFail, Save,
     ScanOf
<1>4. ASSUME NEW j \in Job, j.scan = s PROVE queue'[j] = queue[j]
  <2>1. ASSUME NEW i \in Job, Send(i), i.scan = ScanOf(w) PROVE queue'[j] = queue[j]
    BY <1>4, <2>1 DEF TypeOK, Send
  <2>2. ASSUME worker[w].job.tries < MaxRetries \/ worker[w].job.tries < MaxBrowserRetries
        PROVE  /\ [worker[w].job EXCEPT !.tries = @ + 1] \in Job
               /\ [worker[w].job EXCEPT !.tries = @ + 1].scan = ScanOf(w)
    BY <1>1, <2>2, RetryJob DEF ScanOf, Job
  <2>3. CASE TriggerPublish(w)
    <3> DEFINE i == [task |-> "process", scan |-> ScanOf(w), tries |-> 0,
                     slug |-> worker[w].seen.slug]
    <3>1. worker[w].seen.slug \in Slugs
      BY <1>1 DEF Busy, Snapshot
    <3>2. i \in Job /\ i.scan = ScanOf(w)
      BY <1>1, <3>1, ProcessJob
    <3>3. Send(i)
      BY <2>3 DEF TriggerPublish
    <3> QED
      BY <2>1, <3>2, <3>3
  <2>4. CASE ProcessChain(w)
    <3>1. NewJob("browser", ScanOf(w)) \in Job /\ NewJob("browser", ScanOf(w)).scan = ScanOf(w)
      BY <1>1, NewJobType DEF NewJob
    <3> QED
      BY <2>1, <2>4, <3>1 DEF ProcessChain
  <2>5. CASE TriggerError(w) \/ ProcessError(w) \/ BrowserError(w)
    <3>1. \/ UNCHANGED queue
          \/ /\ worker[w].job.tries < MaxRetries \/ worker[w].job.tries < MaxBrowserRetries
             /\ Send([worker[w].job EXCEPT !.tries = @ + 1])
      BY <2>5 DEF TriggerError, ProcessError, BrowserError, RetryOrFail
    <3> QED
      BY <2>1, <2>2, <3>1
  <2> QED
    BY <2>3, <2>4, <2>5 DEF Run, TriggerFetched, TriggerRejected, ProcessChecked,
       ProcessCached, ProcessMail, ProcessSoftLimit, BrowserSave, BrowserEnd, BrowserSoftLimit, Acknowledge
<1>5. \A v \in Workers \ {w} : worker'[v] = worker[v]
  BY DEF TypeOK, Run, TriggerFetched, TriggerPublish, TriggerRejected, TriggerError,
     ProcessChecked, ProcessCached, ProcessChain, ProcessMail, ProcessError, ProcessSoftLimit,
     BrowserSave, BrowserEnd, BrowserError, BrowserSoftLimit, Acknowledge, Goto, Finish
<1>6. worker'[w] = Idle \/ worker'[w].job = worker[w].job
  <2>1. CASE ProcessChecked(w)
    BY <1>1, <2>1 DEF TypeOK, Busy, ProcessChecked
  <2>2. ASSUME NEW pc, Goto(w, pc) PROVE worker'[w].job = worker[w].job
    BY <1>1, <2>2 DEF TypeOK, Busy, Goto
  <2>3. Finish(w) => worker'[w] = Idle
    BY DEF TypeOK, Finish
  <2> QED
    BY <2>1, <2>2, <2>3 DEF Run, TriggerFetched, TriggerPublish, TriggerRejected,
       TriggerError, ProcessCached, ProcessChain, ProcessMail, ProcessError, ProcessSoftLimit,
       BrowserSave, BrowserEnd, BrowserError, BrowserSoftLimit, Acknowledge
<1>7. \A v \in Workers : Hand(v, s)' => worker'[v] = worker[v]
  BY <1>5, <1>6 DEF Hand, Working, ScanOf
<1>8. Rests(s)
  BY <1>3 DEF Rests
<1> QED
  BY <1>2, <1>4, <1>7, <1>8, StillStep DEF TypeOK

\* A field of the row that Save writes.
LEMMA SavedRow ==
  ASSUME TypeOK, NEW s \in Scans, NEW r \in ScanRow, Save(s, r)
  PROVE  /\ scan'[s].status = r.status /\ scan'[s].browser = r.browser
         /\ scan'[s].malware = r.malware /\ scan'[s].judged = r.judged
  BY DEF TypeOK, Save, ScanRow

LEMMA FailRests ==
  ASSUME TypeOK, NEW s \in Scans, Save(s, Failed(s))  PROVE Rests(s)
<1>1. Failed(s) \in ScanRow /\ scan[s] \in ScanRow
  BY FailedType DEF TypeOK
<1>2. Failed(s).status = "failed"
  BY <1>1 DEF Failed, ScanRow
<1> QED
  BY <1>1, <1>2, SavedRow DEF Rests

\* A retry sends the task's message again; the last failure fails the scan.
LEMMA RetryCarries ==
  ASSUME TypeOK, NEW w \in Workers, NEW s \in Scans, Hand(w, s), Calm(s),
         RetryOrFail(w, MaxRetries), Finish(w), UNCHANGED unpublished
  PROVE  CarrierStep(s)
<1>1. worker[w] # Idle /\ worker[w].job \in Job /\ s = ScanOf(w)
  BY BusyWorker DEF Hand, Working
<1>2. CASE worker[w].job.tries < MaxRetries /\ Send([worker[w].job EXCEPT !.tries = @ + 1])
           /\ UNCHANGED scan
  <2> DEFINE j == [worker[w].job EXCEPT !.tries = @ + 1]
  <2>1. j \in Job
    BY <1>1, <1>2, RetryJob
  <2>2. j.scan = s /\ j.task = worker[w].job.task
    BY <1>1 DEF Job, ScanOf
  <2>3. Carries(j)
    BY <2>2 DEF Hand, Carries
  <2> HIDE DEF j
  <2> QED
    BY <1>2, <2>1, <2>2, <2>3, HandsOver DEF j
<1>3. CASE UNCHANGED <<queue, scan>>
  BY <1>3, EndsThere DEF CarrierStep, Rests
<1>4. CASE Save(s, Failed(s)) /\ UNCHANGED queue
  BY <1>4, FailRests, EndsThere DEF CarrierStep
<1> QED
  BY <1>1, <1>2, <1>3, <1>4 DEF RetryOrFail, ScanOf

\* A browser task carries nothing, completes nothing and hands over to nobody but itself.
LEMMA BrowserStill ==
  ASSUME TypeOK, NEW w \in Workers, Run(w), worker[w].job.task = "browser",
         NEW s \in Scans, s = ScanOf(w)
  PROVE  Still(s)
<1>1. worker[w] # Idle /\ worker[w] \in Busy /\ worker[w].job \in Job /\ scan[s] \in ScanRow
  BY RunBusy, BusyWorker DEF TypeOK
<1>2. \/ BrowserSave(w) \/ BrowserEnd(w) \/ BrowserError(w) \/ BrowserSoftLimit(w)
      \/ Acknowledge(w)
  BY DEF Run, TriggerFetched, TriggerPublish, TriggerRejected, TriggerError, ProcessChecked,
     ProcessCached, ProcessChain, ProcessMail, ProcessError, ProcessSoftLimit, At
<1>3. UNCHANGED unpublished
  BY <1>2 DEF BrowserSave, BrowserEnd, BrowserError, BrowserSoftLimit, Acknowledge
<1>4. \A j \in Job : Carries(j) => queue'[j] = queue[j]
  <2>1. UNCHANGED queue \/ (/\ worker[w].job.tries < MaxBrowserRetries
                            /\ Send([worker[w].job EXCEPT !.tries = @ + 1]))
    BY <1>2 DEF BrowserSave, BrowserEnd, BrowserError, BrowserSoftLimit, Acknowledge
  <2>2. CASE /\ worker[w].job.tries < MaxBrowserRetries
             /\ Send([worker[w].job EXCEPT !.tries = @ + 1])
    <3> DEFINE i == [worker[w].job EXCEPT !.tries = @ + 1]
    <3>1. i \in Job /\ i.task = "browser"
      BY <1>1, <2>2, RetryJob DEF Job
    <3>2. Send(i)
      BY <2>2
    <3> HIDE DEF i
    <3> QED
      BY <3>1, <3>2 DEF TypeOK, Send, Carries
  <2> QED
    BY <2>1, <2>2
<1>5. \A v \in Workers : Hand(v, s)' => worker'[v] = worker[v]
  <2>1. \/ Finish(w) \/ Goto(w, "unlock")
    BY <1>2 DEF BrowserSave, BrowserEnd, BrowserError, BrowserSoftLimit, Acknowledge
  <2>2. CASE Finish(w)
    BY <2>2 DEF TypeOK, Finish, Hand, Working
  <2>3. CASE Goto(w, "unlock")
    <3>1. worker'[w].job = worker[w].job /\ \A v \in Workers \ {w} : worker'[v] = worker[v]
      BY <1>1, <2>3 DEF TypeOK, Goto, Busy
    <3> QED
      BY <3>1 DEF Hand, Carries
  <2> QED
    BY <2>1, <2>2, <2>3
<1>6. Rests(s)
  <2>1. ASSUME NEW f, NEW m, NEW r,
               r \in {[scan[s] EXCEPT !.browser = f], [scan[s] EXCEPT !.browser = f, !.malware = m]},
               Save(s, r)
        PROVE  scan'[s].status = scan[s].status
    <3>1. scan'[s] = [r EXCEPT !.stale = FALSE]
      BY <2>1 DEF TypeOK, Save
    <3>2. CASE r = [scan[s] EXCEPT !.browser = f]
      BY <1>1, <3>1, <3>2 DEF ScanRow
    <3>3. CASE r = [scan[s] EXCEPT !.browser = f, !.malware = m]
      BY <1>1, <3>1, <3>3 DEF ScanRow
    <3> QED
      BY <2>1, <3>2, <3>3
  <2>2. CASE BrowserSave(w)
    <3>1. PICK found \in Verdicts :
            Save(s, [scan[s] EXCEPT !.browser = found,
                                    !.malware = AfterBrowser(worker[w].seen.malware, found)])
      BY <2>2 DEF BrowserSave
    <3> QED
      BY <2>1, <3>1 DEF Rests
  <2>3. CASE Save(s, [scan[s] EXCEPT !.browser = FALSE])
    BY <2>1, <2>3 DEF Rests
  <2>4. CASE UNCHANGED scan
    BY <2>4 DEF Rests
  <2> QED
    BY <1>2, <2>2, <2>3, <2>4 DEF BrowserEnd, BrowserError, BrowserSoftLimit, Acknowledge, ScanOf
<1> QED
  BY <1>3, <1>4, <1>5, <1>6, StillStep DEF TypeOK

\* A task is the carrier of its scan, and hands over to one.
LEMMA RunCarries ==
  ASSUME TypeOK, NEW w \in Workers, Run(w), NEW s \in Scans, s = ScanOf(w), Calm(s)
  PROVE  CarrierStep(s)
<1>1. worker[w] # Idle /\ worker[w] \in Busy /\ worker[w].job \in Job
  BY RunBusy, BusyWorker
<1>2. scan[s] \in ScanRow
  BY DEF TypeOK
<1>3. UNCHANGED unpublished
  BY DEF Run, TriggerFetched, TriggerPublish, TriggerRejected, TriggerError,
     ProcessChecked, ProcessCached, ProcessChain, ProcessMail, ProcessError, ProcessSoftLimit,
     BrowserSave, BrowserEnd, BrowserError, BrowserSoftLimit, Acknowledge
<1>4. ASSUME NEW task \in {"trigger", "process"}, NEW S, At(w, task, S), "ack" \notin S
      PROVE  Hand(w, s) /\ worker[w].job.task = task
  BY <1>1, <1>4 DEF Hand, Working, Carries, At
<1>5. ASSUME NEW pc, Goto(w, pc), pc \in Steps
      PROVE  /\ \A v \in Workers \ {w} : worker'[v] = worker[v]
             /\ worker'[w].job = worker[w].job
  BY <1>1, <1>5 DEF TypeOK, Goto, Busy
<1>6. CASE worker[w].job.task = "browser"
  BY <1>6, BrowserStill DEF CarrierStep
<1>7. CASE TriggerFetched(w)
  <2> DEFINE r == [scan[s] EXCEPT !.status = "scanning", !.api = TRUE]
  <2>1. r \in ScanRow /\ r.status = "scanning"
    BY <1>2 DEF ScanRow, Statuses
  <2>2. Save(s, r) /\ Hand(w, s) /\ UNCHANGED queue /\ Goto(w, "publish")
    BY <1>4, <1>7 DEF TriggerFetched
  <2> HIDE DEF r
  <2>3. scan'[s].status = "scanning"
    BY <2>1, <2>2, SavedRow
  <2> QED
    BY <1>3, <1>5, <2>2, <2>3, KeepsOn DEF Steps
<1>8. CASE TriggerPublish(w)
  <2> DEFINE j == [task |-> "process", scan |-> s, tries |-> 0, slug |-> worker[w].seen.slug]
  <2>1. worker[w].seen.slug \in Slugs
    BY <1>1 DEF Busy, Snapshot
  <2>2. j \in Job /\ j.task = "process" /\ j.scan = s /\ Carries(j)
    BY <2>1, ProcessJob
  <2>3. Send(j) /\ Hand(w, s) /\ UNCHANGED scan /\ Goto(w, "ack")
    BY <1>4, <1>8 DEF TriggerPublish
  <2> HIDE DEF j
  <2> QED
    BY <1>3, <2>2, <2>3, HandsOver
<1>9. CASE TriggerRejected(w) \/ ProcessSoftLimit(w)
  BY <1>3, <1>9, FailRests, EndsThere DEF TriggerRejected, ProcessSoftLimit, CarrierStep
<1>10. CASE TriggerError(w)
  BY <1>3, <1>4, <1>10, RetryCarries DEF TriggerError
<1>11. CASE ProcessError(w)
  BY <1>3, <1>4, <1>11, RetryCarries DEF ProcessError
<1>12. CASE ProcessChecked(w)
  <2>1. PICK bad \in Verdicts :
          worker' = [worker EXCEPT ![w] = [@ EXCEPT !.pc = "cache", !.seen.malware = bad]]
    BY <1>12 DEF ProcessChecked
  <2>2. Hand(w, s) /\ UNCHANGED queue /\ worker[w].job.task = "process"
    BY <1>4, <1>12 DEF ProcessChecked
  <2>3. worker'[w].job = worker[w].job /\ \A v \in Workers \ {w} : worker'[v] = worker[v]
    BY <1>1, <2>1 DEF TypeOK, Busy
  <2> QED
    BY <1>3, <2>2, <2>3, KeepsOn
<1>13. CASE ProcessCached(w) \/ ProcessMail(w)
  <2>1. /\ Hand(w, s) /\ worker[w].job.task = "process" /\ UNCHANGED queue
        /\ Goto(w, "chain") \/ Goto(w, "ack")
    BY <1>4, <1>13 DEF ProcessCached, ProcessMail
  <2> QED
    BY <1>3, <1>5, <2>1, KeepsOn DEF Steps
<1>14. CASE ProcessChain(w)
  <2>1. Hand(w, s) /\ worker[w].job.task = "process" /\ Goto(w, "mail")
    BY <1>4, <1>14 DEF ProcessChain
  <2>2. \A i \in Job : Carries(i) => queue'[i] = queue[i]
    <3>1. CASE Send(NewJob("browser", s))
      BY <3>1, NewJobType DEF TypeOK, Send, NewJob, Carries
    <3> QED
      BY <1>14, <3>1 DEF ProcessChain
  <2> QED
    BY <1>3, <1>5, <2>1, <2>2, KeepsOn DEF Steps
<1>15. CASE Acknowledge(w)
  BY <1>15, EndsThere DEF Acknowledge, CarrierStep, Rests
<1> QED
  BY <1>6, <1>7, <1>8, <1>9, <1>10, <1>11, <1>12, <1>13, <1>14, <1>15
  DEF Run, BrowserSave, BrowserEnd, BrowserError, BrowserSoftLimit, At

\* The delivery of a message: the worker takes over from it.
LEMMA DeliverCarries ==
  ASSUME TypeOK, NEW w \in Workers, Deliver(w), NEW s \in Scans, Calm(s)
  PROVE  CarrierStep(s)
<1>1. ASSUME NEW j \in Job, NEW pc, Receive(w, j, pc), ~(Carries(j) /\ j.scan = s),
             UNCHANGED unpublished, Rests(s)
      PROVE  Still(s)
  <2>1. /\ \A i \in Job : queue[i] \in Nat /\ (i # j => queue'[i] = queue[i])
        /\ \A v \in Workers \ {w} : worker'[v] = worker[v]
        /\ worker'[w].job = j
    BY <1>1 DEF TypeOK, Receive
  <2>2. \A v \in Workers : Hand(v, s)' => worker'[v] = worker[v]
    BY <1>1, <2>1 DEF Hand, ScanOf, Carries
  <2> QED
    BY <1>1, <2>1, <2>2, StillStep
<1>2. ASSUME NEW j \in Job, TriggerBegin(w, j) PROVE CarrierStep(s)
  <2> DEFINE r == [scan[j.scan] EXCEPT !.status = "scanning"]
  <2>1. j.scan \in Scans /\ scan[j.scan] \in ScanRow
    BY DEF TypeOK, Job
  <2>2. r \in ScanRow /\ r.status = "scanning"
    BY <2>1 DEF ScanRow, Statuses
  <2>3. /\ Receive(w, j, "fetch") /\ UNCHANGED unpublished /\ Save(j.scan, r)
        /\ Carries(j)
    BY <1>2 DEF TriggerBegin, Carries
  <2> HIDE DEF r
  <2>4. Rests(s)
    <3>1. CASE j.scan = s
      BY <2>1, <2>2, <2>3, <3>1, SavedRow DEF Rests
    <3>2. CASE j.scan # s
      BY <2>3, <3>2 DEF TypeOK, Save, Rests
    <3> QED
      BY <3>1, <3>2
  <2> QED
    BY <1>1, <2>3, <2>4, TakesOver DEF CarrierStep
<1>3. ASSUME NEW j \in Job, ProcessBegin(w, j) \/ BrowserBegin(w, j) PROVE CarrierStep(s)
  <2>1. UNCHANGED <<unpublished, scan>> /\ \E pc : Receive(w, j, pc)
    BY <1>3 DEF ProcessBegin, BrowserBegin
  <2>2. Rests(s)
    BY <2>1 DEF Rests
  <2> QED
    BY <1>1, <2>1, <2>2, TakesOver DEF CarrierStep
<1>4. ASSUME NEW j \in Job, BrowserSkip(w, j) PROVE Still(s)
  <2>1. \A i \in Job : queue[i] \in Nat /\ queue'[i] \in Nat /\ queue'[i] <= queue[i]
    BY <1>4 DEF TypeOK, BrowserSkip
  <2> QED
    BY <1>4, <2>1, StillStep DEF BrowserSkip, Rests
<1> QED
  BY <1>2, <1>3, <1>4 DEF Deliver, CarrierStep

\* A row that the workers and the queue know nothing of.
LEMMA NoCarriers ==
  ASSUME RowInv, NEW s \in Scans, ~Committed(s)
  PROVE  Carriers(s) = {}
  BY CarrierKinds DEF RowInv, JobsOnRows, Hand, Working

\* A request: a commit is the start of a scan, its hook sends the first message.
LEMMA RequestCarries ==
  ASSUME TypeOK, RowInv, Request, NEW s \in Scans, Calm(s)
  PROVE  CarrierStep(s)
<1>1. ASSUME UNCHANGED <<queue, worker>>, s \in unpublished' => s \in unpublished, Rests(s)
      PROVE  Still(s)
  BY <1>1, StillStep DEF TypeOK
<1>2. ASSUME NEW r \in Scans, NEW row \in ScanRow, Save(r, row), row.status # "completed"
      PROVE  Rests(s)
  BY <1>2, SavedRow DEF Rests, Save, TypeOK
<1>3. ASSUME NEW r \in Scans, CreateCommit(r) \/ PublicCommit(r) PROVE CarrierStep(s)
  <2>1. ~Committed(r) /\ UNCHANGED <<queue, worker>>
    BY <1>3 DEF CreateCommit, PublicCommit, Committed
  <2>2. /\ scan[r].cached => unpublished' = unpublished
        /\ unpublished' \subseteq unpublished \cup {r}
    BY <1>3 DEF CreateCommit, PublicCommit
  <2>3. CASE r # s
    <3>1. scan'[s] = scan[s]
      BY <1>3, <2>3, CommitRows
    <3> QED
      BY <1>1, <2>1, <2>2, <2>3, <3>1 DEF Rests, CarrierStep
  <2>4. CASE r = s
    <3>1. PICK p : Save(s, Inserted(s, p))
      BY <1>3, <2>4 DEF CreateCommit, PublicCommit
    <3>2. scan'[s] = [Inserted(s, p) EXCEPT !.stale = FALSE] /\ scan[s] \in ScanRow
      BY <3>1 DEF TypeOK, Save
    <3>3. scan'[s].status = IF scan[s].cached THEN "completed" ELSE "queued"
      BY <3>2 DEF Inserted, ScanRow
    <3>4. Carriers(s)' \subseteq Carriers(s) \cup (IF s \in unpublished' THEN {<<"hook", s>>} ELSE {})
      BY <2>1 DEF Carriers, Working, ScanOf, Carries
    <3>5. Carriers(s) = {}
      BY <2>1, <2>4, NoCarriers
    <3>6. s \notin unpublished
      BY <2>1, <2>4 DEF RowInv, JobsOnRows
    <3>7. scan'[s].status = "completed" => s \notin unpublished'
      BY <2>2, <3>3, <3>6
    <3> QED
      BY <2>1, <3>3, <3>4, <3>5, <3>7 DEF CarrierStep, Starts
  <2> QED
    BY <2>3, <2>4
<1>4. ASSUME NEW r \in Scans, Publish(r) PROVE CarrierStep(s)
  <2> DEFINE j == NewJob("trigger", r)
             a == <<"hook", s>>
             b == <<"message", j>>
  <2>1. j \in Job /\ j.scan = r /\ j.task = "trigger" /\ Carries(j)
    BY NewJobType DEF NewJob, Carries
  <2>2. Send(j) /\ UNCHANGED <<scan, worker>> /\ r \in unpublished
        /\ unpublished' = unpublished \ {r}
    BY <1>4 DEF Publish
  <2> HIDE DEF j
  <2>3. \A i \in Job : i # j => queue'[i] = queue[i]
    BY <2>1, <2>2 DEF TypeOK, Send
  <2>4. CASE r # s
    BY <2>1, <2>2, <2>3, <2>4, StillStep DEF CarrierStep, Rests, TypeOK, Hand
  <2>5. CASE r = s
    <3>1. a \in Carriers(s)
      BY <2>2, <2>5, CarrierKinds
    <3>2. queue[j] = 0
      <4> SUFFICES ASSUME queue[j] > 0 PROVE FALSE
        BY <2>1 DEF TypeOK
      <4>1. b \in Carriers(s)
        BY <2>1, <2>5, CarrierKinds
      <4> QED
        BY <3>1, <4>1 DEF Calm, Single
    <3>3. queue'[j] = 1
      BY <2>1, <2>2, <3>2 DEF TypeOK, Send
    <3>4. \A i \in Job : Carries(i) /\ i.scan = s => queue'[i] <= 1
      BY <2>3, <3>3 DEF Calm, Single
    <3>5. ASSUME NEW c \in Carriers(s)', c # b PROVE c \in Carriers(s) \ {a}
      <4>1. c # a
        BY <2>2, <2>5 DEF Carriers
      <4>2. CASE c = <<"hook", s>> /\ s \in unpublished'
        BY <4>1, <4>2
      <4>3. ASSUME NEW i \in Job, c = <<"message", i>>, Carries(i), i.scan = s, queue'[i] > 0
            PROVE  c \in Carriers(s)
        <5>1. queue[i] > 0
          BY <2>3, <3>5, <4>3
        <5> QED
          BY <4>3, <5>1, CarrierKinds
      <4>4. ASSUME NEW w \in Workers, c = <<"worker", w>>, Hand(w, s)'
            PROVE  c \in Carriers(s)
        <5>1. Hand(w, s)
          BY <2>2, <4>4 DEF Hand, Working, ScanOf, Carries
        <5> QED
          BY <4>4, <5>1, CarrierKinds
      <4> QED
        BY <4>1, <4>2, <4>3, <4>4 DEF Carriers, Hand, Carries
    <3>6. Stage(a) = "trigger"
      BY DEF Stage
    <3>7. scan'[s].status # "completed"
      BY <2>2, <3>1, <3>6, CarrierRow
    <3> QED
      BY <3>1, <3>4, <3>5, <3>7 DEF CarrierStep, Passes
  <2> QED
    BY <2>4, <2>5
<1>5. ASSUME NEW r \in Scans, PublishFails(r) PROVE Still(s)
  <2>1. Rests(s)
    BY <1>5, FailRests DEF PublishFails, Rests, Save, TypeOK
  <2> QED
    BY <1>1, <1>5, <2>1 DEF PublishFails
<1>6. ASSUME NEW r \in Scans, PublishLost(r) PROVE Still(s)
  BY <1>1, <1>6 DEF PublishLost, Rests
<1>7. ASSUME NEW o \in Orgs, NEW n \in Names, DeleteDomain(o, n) PROVE Still(s)
  <2>1. scan'[s] \in {scan[s], [scan[s] EXCEPT !.deleted = TRUE, !.stale = FALSE]}
    BY <1>7 DEF DeleteDomain
  <2>2. scan[s] \in ScanRow
    BY DEF TypeOK
  <2>3. scan'[s].status = scan[s].status
    BY <2>1, <2>2 DEF ScanRow
  <2> QED
    BY <1>1, <1>7, <2>3 DEF DeleteDomain, Rests
<1>8. ASSUME NEW r \in Scans, CreateRejected(r) PROVE Still(s)
  BY <1>1, <1>2, <1>8, BlankType, BlankFields DEF CreateRejected
<1>9. ASSUME NEW r \in Scans, NEW o \in Orgs, NEW n \in Names, NEW scheduled \in BOOLEAN,
             CreateBegin(r, o, n, scheduled)
      PROVE  Still(s)
  <2> DEFINE hit == CachedResult(Slug(o), n)
             row == [Blank EXCEPT !.status = "draft", !.owner = o, !.name = n,
                                  !.scheduled = scheduled, !.cached = (hit # "miss"),
                                  !.malware = (hit = "malware")]
  <2>1. row \in ScanRow
    BY BlankDraft
  <2>2. row.status = "draft"
    BY BlankFields
  <2>3. Save(r, row) /\ UNCHANGED <<queue, worker, unpublished>>
    BY <1>9 DEF CreateBegin
  <2> HIDE DEF row
  <2>4. Rests(s)
    BY <1>2, <2>1, <2>2, <2>3
  <2> QED
    BY <1>1, <2>3, <2>4
<1>10. ASSUME NEW r \in Scans, NEW n \in Names, PublicBegin(r, n) PROVE Still(s)
  <2> DEFINE hit == CachedResult("public", n)
             row == [Blank EXCEPT !.status = "draft", !.name = n,
                                  !.cached = (hit # "miss"), !.malware = (hit = "malware")]
  <2>1. row \in ScanRow
    BY BlankDraft
  <2>2. row.status = "draft"
    BY BlankFields
  <2>3. Save(r, row) /\ UNCHANGED <<queue, worker, unpublished>>
    BY <1>10 DEF PublicBegin
  <2> HIDE DEF row
  <2>4. Rests(s)
    BY <1>2, <2>1, <2>2, <2>3
  <2> QED
    BY <1>1, <2>3, <2>4
<1> QED
  BY <1>3, <1>4, <1>5, <1>6, <1>7, <1>8, <1>9, <1>10 DEF Request, CarrierStep

\* Beat jobs and time touch no carrier.
LEMMA BeatCarries ==
  ASSUME TypeOK, Beat, NEW s \in Scans
  PROVE  Still(s)
<1>1. UNCHANGED <<queue, worker, unpublished>>
  BY DEF Beat, GrowStale, CleanupSelect, CleanupFail, MonthPasses, LockExpires, ResetSelect,
     ResetUpdate, ResetNull, CacheExpires
<1>2. scan[s] \in ScanRow
  BY DEF TypeOK
<1>3. \/ scan'[s] = scan[s]
      \/ scan'[s] = [scan[s] EXCEPT !.stale = TRUE]
      \/ scan'[s] = [Failed(s) EXCEPT !.stale = FALSE]
  BY DEF TypeOK, Beat, GrowStale, CleanupSelect, CleanupFail, MonthPasses, LockExpires,
     ResetSelect, ResetUpdate, ResetNull, CacheExpires
<1>4. Rests(s)
  <2>1. CASE scan'[s] = scan[s]
    BY <2>1 DEF Rests
  <2>2. CASE scan'[s] = [scan[s] EXCEPT !.stale = TRUE]
    BY <1>2, <2>2 DEF Rests, ScanRow
  <2>3. CASE scan'[s] = [Failed(s) EXCEPT !.stale = FALSE]
    BY <1>2, <2>3 DEF Rests, Failed, ScanRow
  <2> QED
    BY <1>3, <2>1, <2>2, <2>3
<1> QED
  BY <1>1, <1>4, StillStep DEF TypeOK

\* A worker that dies or is killed: the scan it was at, or no other, is affected.
LEMMA LossCarries ==
  ASSUME TypeOK, NEW w \in Workers, WorkerLost(w) \/ HardTimeLimit(w), NEW s \in Scans
  PROVE  CarrierStep(s)
<1>1. CASE HardTimeLimit(w)
  BY <1>1, EndsThere DEF HardTimeLimit, CarrierStep, Rests
<1>2. CASE WorkerLost(w) /\ ScanOf(w) = s
  BY <1>2 DEF WorkerLost, TypeOK, CarrierStep
<1>3. CASE WorkerLost(w) /\ ScanOf(w) # s
  <2>1. worker[w].job \in Job /\ worker[w].job.scan # s
    BY <1>3, BusyWorker DEF WorkerLost, ScanOf
  <2>2. \A j \in Job : j.scan = s => queue'[j] = queue[j]
    BY <1>3, <2>1 DEF WorkerLost, Send, TypeOK
  <2>3. \A v \in Workers : worker'[v] = worker[v] \/ ~Working(v)'
    BY <1>3 DEF WorkerLost, TypeOK, Finish, Working
  <2> QED
    BY <1>3, <2>2, <2>3, StillStep DEF WorkerLost, CarrierStep, Rests, TypeOK, Hand
<1> QED
  BY <1>1, <1>2, <1>3

LEMMA CarrierStepLemma ==
  ASSUME TypeOK, RowInv, [Next]_vars, NEW s \in Scans, Calm(s)
  PROVE  CarrierStep(s)
<1>1. ASSUME NEW w \in Workers, Run(w) PROVE CarrierStep(s)
  BY <1>1, RunCarries, RunElsewhere DEF CarrierStep
<1>2. CASE UNCHANGED <<scan, queue, worker, unpublished>>
  BY <1>2, StillStep DEF CarrierStep, Rests, TypeOK
<1>3. ASSUME NEW o, NEW p, ChangePlan(o, p) PROVE UNCHANGED <<scan, queue, worker, unpublished>>
  BY <1>3 DEF ChangePlan
<1> QED
  BY <1>1, <1>2, <1>3, RequestCarries, DeliverCarries, BeatCarries, LossCarries
  DEF Next, vars, CarrierStep

\* Losses are only ever counted up.
LEMMA LossesGrow ==
  ASSUME TypeOK, [Next]_vars, NEW s \in Scans, losses'[s] = 0
  PROVE  losses[s] = 0
<1>1. ASSUME NEW w \in Workers, WorkerLost(w) PROVE losses[s] = 0
  BY <1>1 DEF WorkerLost, TypeOK
<1>2. CASE UNCHANGED losses
  BY <1>2
<1>3. ASSUME Request PROVE UNCHANGED losses
  BY <1>3 DEF Request, CreateBegin, PublicBegin, CreateCommit, CreateRejected, PublicCommit,
     Publish, PublishFails, PublishLost, DeleteDomain, count
<1>4. ASSUME Beat PROVE UNCHANGED losses
  BY <1>4 DEF Beat, GrowStale, CleanupSelect, CleanupFail, MonthPasses, LockExpires,
     ResetSelect, ResetUpdate, ResetNull, CacheExpires, count
<1>5. ASSUME NEW w \in Workers, Deliver(w) \/ Run(w) \/ HardTimeLimit(w)
      PROVE  UNCHANGED losses
  BY <1>5 DEF Deliver, TriggerBegin, ProcessBegin, BrowserBegin, BrowserSkip, Run,
     TriggerFetched, TriggerPublish, TriggerRejected, TriggerError, ProcessChecked,
     ProcessCached, ProcessChain, ProcessMail, ProcessError, ProcessSoftLimit, BrowserSave,
     BrowserEnd, BrowserError, BrowserSoftLimit, Acknowledge, HardTimeLimit, count
<1>6. ASSUME NEW o, NEW p, ChangePlan(o, p) PROVE UNCHANGED losses
  BY <1>6 DEF ChangePlan
<1> QED
  BY <1>1, <1>2, <1>3, <1>4, <1>5, <1>6 DEF Next, vars

LEMMA CarrierInit == Init => CarrierInv
<1> SUFFICES ASSUME Init, NEW s \in Scans PROVE Calm(s)
  BY DEF CarrierInv
<1>1. scan[s].status = "none"
  BY DEF Init, Blank
<1>2. /\ \A j \in Job : queue[j] = 0
      /\ \A w \in Workers : ~Working(w)
      /\ unpublished = {}
  BY DEF Init, Working
<1>3. Carriers(s) = {}
  BY <1>2, CarrierKinds DEF Hand
<1> QED
  BY <1>1, <1>2, <1>3 DEF Calm, Single, Spared

LEMMA CarrierInvStep == ASSUME TypeOK, RowInv, CarrierInv, [Next]_vars  PROVE CarrierInv'
<1> SUFFICES ASSUME NEW s \in Scans, losses'[s] = 0 PROVE Calm(s)'
  BY DEF CarrierInv
<1>1. Calm(s)
  BY LossesGrow DEF CarrierInv
<1> QED
  BY <1>1, CarrierStepLemma, CarrierStepKeeps, TypeStep

\* The invariant is inductive: a carrier is only replaced by another one.
LEMMA CarriersCorrect == Spec => []CarrierInv
  BY CarrierInit, CarrierInvStep, RowsCorrect, TypeCorrect, PTL DEF Spec

\* Every hook, retry and hand-over sends one message and is over: until a worker is lost at a
\* scan, its on_commit hook, its message or its running task is the only one it has, the
\* browser scan aside.
THEOREM OneCarrierKept == Spec => []OneCarrier
<1>1. CarrierInv => OneCarrier
  BY DEF CarrierInv, Calm, OneCarrier
<1> QED
  BY <1>1, CarriersCorrect, PTL

\* Only trigger_scan puts a committed scan back to work.
LEMMA Reworked ==
  ASSUME TypeOK, [Next]_vars, NEW s \in Scans, Committed(s),
         scan'[s].status \notin {scan[s].status, "completed", "failed"}
  PROVE  \E a \in Carriers(s) : Stage(a) = "trigger"
<1>1. scan[s] \in ScanRow /\ scan'[s] # scan[s]
  BY DEF TypeOK
<1>2. ASSUME NEW r \in Scans, Save(r, Failed(r)) PROVE FALSE
  <2>1. r = s
    BY <1>1, <1>2 DEF TypeOK, Save
  <2> QED
    BY <1>1, <1>2, <2>1 DEF TypeOK, Save, Failed, ScanRow
<1>3. ASSUME NEW r \in Scans, NEW row, Save(r, row), ~Committed(r) PROVE FALSE
  BY <1>1, <1>3 DEF TypeOK, Save
<1>4. ~Request
  <2>1. ASSUME NEW o \in Orgs, NEW n \in Names, DeleteDomain(o, n) PROVE FALSE
    <3>1. scan'[s] = [scan[s] EXCEPT !.deleted = TRUE, !.stale = FALSE]
      BY <1>1, <2>1 DEF DeleteDomain
    <3> QED
      BY <1>1, <3>1 DEF ScanRow
  <2>2. ASSUME NEW r \in Scans, PublishFails(r) PROVE FALSE
    BY <1>2, <2>2 DEF PublishFails
  <2>3. ASSUME NEW r \in Scans, Publish(r) \/ PublishLost(r) PROVE FALSE
    BY <1>1, <2>3 DEF Publish, PublishLost
  <2>4. ASSUME NEW r \in Scans, CreateCommit(r) \/ PublicCommit(r) \/ CreateRejected(r) PROVE FALSE
    BY <1>3, <2>4 DEF CreateCommit, PublicCommit, CreateRejected, Committed
  <2>5. ASSUME NEW r \in Scans, NEW o, NEW n, NEW c, CreateBegin(r, o, n, c) \/ PublicBegin(r, n)
        PROVE  FALSE
    BY <1>3, <2>5 DEF CreateBegin, PublicBegin, Committed
  <2> QED
    BY <2>1, <2>2, <2>3, <2>4, <2>5 DEF Request
<1>5. ~Beat
  <2>1. ASSUME NEW r \in Scans, GrowStale(r) PROVE FALSE
    <3>1. scan'[s] = [scan[s] EXCEPT !.stale = TRUE]
      BY <1>1, <2>1 DEF GrowStale, TypeOK
    <3> QED
      BY <1>1, <3>1 DEF ScanRow
  <2>2. ASSUME CleanupFail PROVE FALSE
    <3>1. scan'[s] = [Failed(s) EXCEPT !.stale = FALSE]
      BY <1>1, <2>2 DEF CleanupFail
    <3> QED
      BY <1>1, <3>1 DEF Failed, ScanRow
  <2> QED
    BY <1>1, <2>1, <2>2 DEF Beat, CleanupSelect, MonthPasses, LockExpires, ResetSelect,
       ResetUpdate, ResetNull, CacheExpires
<1>6. ASSUME NEW w \in Workers, Deliver(w) PROVE \E a \in Carriers(s) : Stage(a) = "trigger"
  <2>1. PICK j \in Job : TriggerBegin(w, j)
    BY <1>1, <1>6 DEF Deliver, ProcessBegin, BrowserBegin, BrowserSkip
  <2>2. j.scan = s
    BY <1>1, <2>1 DEF TriggerBegin, Save, TypeOK
  <2>3. <<"message", j>> \in Carriers(s)
    BY <2>1, <2>2, CarrierKinds DEF TriggerBegin, Receive, Carries
  <2>4. Stage(<<"message", j>>) = "trigger"
    BY <2>1 DEF TriggerBegin, Stage
  <2> QED
    BY <2>3, <2>4
<1>7. ASSUME NEW w \in Workers, Run(w) PROVE \E a \in Carriers(s) : Stage(a) = "trigger"
  <2>1. worker[w] # Idle /\ ScanOf(w) \in Scans /\ scan[ScanOf(w)] \in ScanRow
    BY <1>7, RunBusy, BusyWorker DEF TypeOK
  <2>2. CASE TriggerFetched(w)
    <3>1. ScanOf(w) = s
      BY <1>1, <2>1, <2>2 DEF TriggerFetched, Save, TypeOK
    <3>2. <<"worker", w>> \in Carriers(s)
      BY <2>1, <2>2, <3>1, CarrierKinds DEF TriggerFetched, At, Working, Hand, Carries
    <3>3. Stage(<<"worker", w>>) = "trigger"
      BY <2>2 DEF TriggerFetched, At, Stage
    <3> QED
      BY <3>2, <3>3
  <2>3. CASE UNCHANGED scan
    BY <1>1, <2>3
  <2>4. CASE Save(ScanOf(w), Failed(ScanOf(w)))
    BY <1>2, <2>1, <2>4
  <2>5. ASSUME NEW f, NEW m, NEW g, NEW r, Save(ScanOf(w), r),
               r \in {[scan[ScanOf(w)] EXCEPT !.status = "completed", !.malware = m,
                                                !.judged = g],
                      [scan[ScanOf(w)] EXCEPT !.browser = f],
                      [scan[ScanOf(w)] EXCEPT !.browser = f, !.malware = m]}
        PROVE  FALSE
    <3>1. ScanOf(w) = s /\ scan'[s] = [r EXCEPT !.stale = FALSE]
      BY <1>1, <2>1, <2>5 DEF Save, TypeOK
    <3>2. r.status \in {scan[s].status, "completed"}
      BY <1>1, <2>5, <3>1 DEF ScanRow
    <3>3. scan'[s].status = r.status
      BY <1>1, <2>5, <3>1 DEF ScanRow
    <3> QED
      BY <3>2, <3>3
  <2>6. ~ProcessChecked(w) /\ ~BrowserSave(w)
    BY <2>5 DEF ProcessChecked, BrowserSave
  <2>7. ~(BrowserError(w) /\ ~UNCHANGED scan) /\ ~BrowserSoftLimit(w)
    BY <2>5 DEF BrowserError, BrowserSoftLimit, ScanOf
  <2>8. CASE TriggerError(w) \/ ProcessError(w)
    BY <2>3, <2>4, <2>8 DEF TriggerError, ProcessError, RetryOrFail, ScanOf
  <2> QED
    BY <1>7, <2>2, <2>3, <2>4, <2>6, <2>7, <2>8 DEF Run, TriggerPublish, TriggerRejected,
       ProcessCached, ProcessChain, ProcessMail, ProcessSoftLimit, BrowserEnd, Acknowledge
<1>8. ASSUME NEW w \in Workers, WorkerLost(w) \/ HardTimeLimit(w) PROVE UNCHANGED scan
  BY <1>8 DEF WorkerLost, HardTimeLimit
<1>9. ASSUME NEW o, NEW p, ChangePlan(o, p) PROVE UNCHANGED scan
  BY <1>9 DEF ChangePlan
<1> QED
  BY <1>1, <1>4, <1>5, <1>6, <1>7, <1>8, <1>9 DEF Next, vars

\* No carrier of a completed scan is a trigger_scan, so no retry, time limit or late message
\* puts it back to work.
THEOREM CompletedStaysSo == Spec => CompletedStays
<1> DEFINE Stays ==
      \A s \in Scans : losses[s] = 0 /\ scan[s].status = "completed"
                         => scan'[s].status \in {"completed", "failed"}
<1>1. TypeOK /\ CarrierInv /\ [Next]_vars => Stays
  <2> SUFFICES ASSUME TypeOK, CarrierInv, [Next]_vars, NEW s \in Scans, losses[s] = 0,
                      scan[s].status = "completed",
                      scan'[s].status \notin {"completed", "failed"}
               PROVE  FALSE
    OBVIOUS
  <2>1. \E a \in Carriers(s) : Stage(a) = "trigger"
    BY Reworked DEF Committed
  <2> QED
    BY <2>1 DEF CarrierInv, Calm, Spared
<1> QED
  BY <1>1, CarriersCorrect, TypeCorrect, PTL DEF Spec, CompletedStays

-----------------------------------------------------------------------------
(* The findings of the scanners: who writes judged, malware and browser of a row *)

\* A step leaves the verdict of row s as it is, or only drops the browser's result ...
Unseen(s) ==
    /\ scan'[s].judged = scan[s].judged /\ scan'[s].malware = scan[s].malware
    /\ scan'[s].browser => scan[s].browser

\* ... or it is a request that is drafted or rejected ...
Redrawn(s) == ~Committed(s)' /\ scan'[s].judged = "never" /\ ~scan'[s].browser

\* ... or process_scan_result judges the scan, whatever the browser has found ...
JudgedAnew(s) ==
    /\ scan'[s].browser = scan[s].browser
    /\ scan'[s].judged = Judged(s, scan'[s].malware)

\* ... or a browser task saves its copy and its finding.
AddedBy(w, s) ==
    /\ At(w, "browser", {"browse"}) /\ ScanOf(w) = s /\ worker'[w].pc # "browse"
    /\ scan'[s].judged = scan[s].judged
    /\ scan'[s].malware = (worker[w].seen.malware \/ scan'[s].browser)

FindingStep(s) ==
    Unseen(s) \/ Redrawn(s) \/ JudgedAnew(s) \/ \E w \in Workers : AddedBy(w, s)

FindingSteps == \A s \in Scans : FindingStep(s)

LEMMA SameFindings == ASSUME UNCHANGED scan PROVE FindingSteps
  BY DEF FindingSteps, FindingStep, Unseen

LEMMA SaveFindings ==
  ASSUME TypeOK, NEW s \in Scans, NEW r \in ScanRow, Save(s, r),
         r.judged = scan[s].judged, r.malware = scan[s].malware, r.browser => scan[s].browser
  PROVE  FindingSteps
<1>1. Unseen(s)
  BY SavedRow DEF Unseen
<1>2. \A t \in Scans \ {s} : scan'[t] = scan[t]
  BY DEF TypeOK, Save
<1> QED
  BY <1>1, <1>2 DEF FindingSteps, FindingStep, Unseen

LEMMA FailFindings ==
  ASSUME TypeOK, NEW s \in Scans, Save(s, Failed(s))  PROVE FindingSteps
<1>1. scan[s] \in ScanRow /\ Failed(s) \in ScanRow
  BY FailedType DEF TypeOK
<1>2. /\ Failed(s).judged = scan[s].judged /\ Failed(s).malware = scan[s].malware
      /\ Failed(s).browser = scan[s].browser
  BY <1>1 DEF Failed, ScanRow
<1> QED
  BY <1>1, <1>2, SaveFindings

LEMMA DraftFindings ==
  ASSUME TypeOK, NEW s \in Scans, NEW r \in ScanRow, Save(s, r),
         r.status \in {"none", "draft"}, r.judged = "never", ~r.browser
  PROVE  FindingSteps
<1>1. Redrawn(s)
  BY SavedRow DEF Redrawn, Committed
<1>2. \A t \in Scans \ {s} : scan'[t] = scan[t]
  BY DEF TypeOK, Save
<1> QED
  BY <1>1, <1>2 DEF FindingSteps, FindingStep, Unseen

LEMMA BlankNever ==
  ASSUME NEW n, NEW c, NEW m
  PROVE  /\ \A o, scheduled :
              [Blank EXCEPT !.status = "draft", !.owner = o, !.name = n,
                            !.scheduled = scheduled, !.cached = c, !.malware = m].judged = "never"
         /\ [Blank EXCEPT !.status = "draft", !.name = n, !.cached = c,
                          !.malware = m].judged = "never"
         /\ Blank.judged = "never"
  BY DEF Blank

LEMMA RequestFindings == ASSUME TypeOK, Request PROVE FindingSteps
<1>1. ASSUME NEW s \in Scans, NEW o \in Orgs, NEW n \in Names,
             NEW scheduled \in BOOLEAN, CreateBegin(s, o, n, scheduled)
      PROVE  FindingSteps
  <2> DEFINE hit == CachedResult(Slug(o), n)
             r == [Blank EXCEPT !.status = "draft", !.owner = o, !.name = n,
                                !.scheduled = scheduled, !.cached = (hit # "miss"),
                                !.malware = (hit = "malware")]
  <2>1. r \in ScanRow
    BY BlankDraft
  <2>2. r.status = "draft" /\ ~r.browser /\ r.judged = "never"
    BY BlankFields, BlankNever
  <2>3. Save(s, r)
    BY <1>1 DEF CreateBegin
  <2> HIDE DEF r
  <2> QED
    BY <2>1, <2>2, <2>3, DraftFindings
<1>2. ASSUME NEW s \in Scans, NEW n \in Names, PublicBegin(s, n)
      PROVE  FindingSteps
  <2> DEFINE hit == CachedResult("public", n)
             r == [Blank EXCEPT !.status = "draft", !.name = n,
                                !.cached = (hit # "miss"), !.malware = (hit = "malware")]
  <2>1. r \in ScanRow
    BY BlankDraft
  <2>2. r.status = "draft" /\ ~r.browser /\ r.judged = "never"
    BY BlankFields, BlankNever
  <2>3. Save(s, r)
    BY <1>2 DEF PublicBegin
  <2> HIDE DEF r
  <2> QED
    BY <2>1, <2>2, <2>3, DraftFindings
<1>3. ASSUME NEW s \in Scans, CreateCommit(s) \/ PublicCommit(s)  PROVE FindingSteps
  <2>1. PICK p : Save(s, Inserted(s, p))
    BY <1>3 DEF CreateCommit, PublicCommit
  <2>2. scan'[s] = [Inserted(s, p) EXCEPT !.stale = FALSE] /\ scan[s] \in ScanRow
    BY <2>1 DEF TypeOK, Save
  <2>3. Unseen(s)
    BY <2>2 DEF Inserted, ScanRow, Unseen
  <2> QED
    BY <1>3, <2>3, CommitRows DEF FindingSteps, FindingStep, Unseen
<1>4. ASSUME NEW s \in Scans, CreateRejected(s)  PROVE FindingSteps
  BY <1>4, BlankFields, BlankNever, BlankType, DraftFindings DEF CreateRejected
<1>5. ASSUME NEW s \in Scans, PublishFails(s)  PROVE FindingSteps
  BY <1>5, FailFindings DEF PublishFails
<1>6. ASSUME NEW s \in Scans, Publish(s) \/ PublishLost(s)  PROVE FindingSteps
  BY <1>6, SameFindings DEF Publish, PublishLost
<1>7. ASSUME NEW o \in Orgs, NEW n \in Names, DeleteDomain(o, n)  PROVE FindingSteps
  <2> SUFFICES ASSUME NEW t \in Scans PROVE Unseen(t)
    BY DEF FindingSteps, FindingStep
  <2>1. scan'[t] \in {scan[t], [scan[t] EXCEPT !.deleted = TRUE, !.stale = FALSE]}
    BY <1>7 DEF DeleteDomain
  <2>2. scan[t] \in ScanRow
    BY DEF TypeOK
  <2> QED
    BY <2>1, <2>2 DEF ScanRow, Unseen
<1> QED
  BY <1>1, <1>2, <1>3, <1>4, <1>5, <1>6, <1>7 DEF Request

LEMMA RunFindings == ASSUME TypeOK, NEW w \in Workers, Run(w) PROVE FindingSteps
<1> DEFINE s == ScanOf(w)
<1>1. worker[w] # Idle /\ worker[w] \in Busy /\ s \in Scans /\ scan[s] \in ScanRow
  BY RunBusy, BusyWorker DEF TypeOK
<1>2. CASE TriggerFetched(w)
  <2> DEFINE r == [scan[s] EXCEPT !.status = "scanning", !.api = TRUE]
  <2>1. /\ r \in ScanRow /\ r.judged = scan[s].judged /\ r.malware = scan[s].malware
        /\ r.browser = scan[s].browser
    BY <1>1 DEF ScanRow, Statuses
  <2>2. Save(s, r)
    BY <1>2 DEF TriggerFetched
  <2> HIDE DEF r
  <2> QED
    BY <1>1, <2>1, <2>2, SaveFindings
<1>3. CASE UNCHANGED scan
  BY <1>3, SameFindings
<1>4. CASE Save(s, Failed(s))
  BY <1>1, <1>4, FailFindings
<1>5. CASE TriggerError(w) \/ ProcessError(w)
  BY <1>3, <1>4, <1>5 DEF TriggerError, ProcessError, RetryOrFail, ScanOf
<1>6. CASE ProcessChecked(w)
  <2>1. PICK bad \in Verdicts :
          Save(s, [scan[s] EXCEPT !.status = "completed", !.malware = bad,
                                  !.judged = Judged(s, bad)])
    BY <1>6 DEF ProcessChecked
  <2> DEFINE r == [scan[s] EXCEPT !.status = "completed", !.malware = bad,
                                  !.judged = Judged(s, bad)]
  <2>2. r \in ScanRow /\ r.malware = bad /\ r.judged = Judged(s, bad)
    BY <1>1, JudgedRow
  <2>3. r.browser = scan[s].browser
    BY <1>1 DEF ScanRow
  <2> HIDE DEF r
  <2>4. Save(s, r)
    BY <2>1 DEF r
  <2>5. JudgedAnew(s)
    BY <1>1, <2>2, <2>3, <2>4, SavedRow DEF JudgedAnew
  <2>6. \A t \in Scans \ {s} : scan'[t] = scan[t]
    BY <2>4 DEF TypeOK, Save
  <2> QED
    BY <2>5, <2>6 DEF FindingSteps, FindingStep, Unseen
<1>7. CASE BrowserSave(w)
  <2>1. PICK found \in Verdicts :
          Save(s, [scan[s] EXCEPT !.browser = found,
                                  !.malware = AfterBrowser(worker[w].seen.malware, found)])
    BY <1>7 DEF BrowserSave
  <2> DEFINE m == AfterBrowser(worker[w].seen.malware, found)
             r == [scan[s] EXCEPT !.browser = found, !.malware = m]
  <2>2. m = (worker[w].seen.malware \/ found) /\ m \in BOOLEAN /\ found \in BOOLEAN
    BY DEF AfterBrowser
  <2> HIDE DEF m
  <2>3. /\ r \in ScanRow /\ r.malware = m /\ r.browser = found
        /\ r.judged = scan[s].judged
    BY <1>1, <2>2 DEF ScanRow
  <2>4. Save(s, r)
    BY <2>1 DEF m
  <2> HIDE DEF r
  <2>5. At(w, "browser", {"browse"}) /\ worker'[w].pc # "browse"
    BY <1>1, <1>7 DEF BrowserSave, Goto, TypeOK, Busy
  <2>6. AddedBy(w, s)
    BY <1>1, <2>2, <2>3, <2>4, <2>5, SavedRow DEF AddedBy
  <2>7. \A t \in Scans \ {s} : scan'[t] = scan[t]
    BY <2>4 DEF TypeOK, Save
  <2> QED
    BY <2>6, <2>7 DEF FindingSteps, FindingStep, Unseen
<1>8. CASE Save(s, [scan[s] EXCEPT !.browser = FALSE])
  <2> DEFINE r == [scan[s] EXCEPT !.browser = FALSE]
  <2>1. /\ r \in ScanRow /\ r.judged = scan[s].judged /\ r.malware = scan[s].malware
        /\ ~r.browser
    BY <1>1 DEF ScanRow
  <2>2. Save(s, r)
    BY <1>8
  <2> HIDE DEF r
  <2> QED
    BY <1>1, <2>1, <2>2, SaveFindings
<1> QED
  BY <1>2, <1>3, <1>4, <1>5, <1>6, <1>7, <1>8
  DEF Run, TriggerPublish, TriggerRejected, ProcessCached, ProcessChain, ProcessMail,
      ProcessSoftLimit, BrowserEnd, BrowserError, BrowserSoftLimit, Acknowledge, ScanOf

LEMMA FindingStepLemma == ASSUME TypeOK, [Next]_vars PROVE FindingSteps
<1>1. CASE UNCHANGED scan
  BY <1>1, SameFindings
<1>2. ASSUME NEW w \in Workers, Deliver(w) PROVE FindingSteps
  <2>1. ASSUME NEW j \in Job, TriggerBegin(w, j) PROVE FindingSteps
    <3> DEFINE r == [scan[j.scan] EXCEPT !.status = "scanning"]
    <3>1. j.scan \in Scans /\ scan[j.scan] \in ScanRow
      BY DEF TypeOK, Job
    <3>2. /\ r \in ScanRow /\ r.judged = scan[j.scan].judged
          /\ r.malware = scan[j.scan].malware /\ r.browser = scan[j.scan].browser
      BY <3>1 DEF ScanRow, Statuses
    <3>3. Save(j.scan, r)
      BY <2>1 DEF TriggerBegin
    <3> HIDE DEF r
    <3> QED
      BY <3>1, <3>2, <3>3, SaveFindings
  <2> QED
    BY <1>1, <1>2, <2>1 DEF Deliver, ProcessBegin, BrowserBegin, BrowserSkip
<1>3. CASE Beat
  <2> SUFFICES ASSUME NEW t \in Scans PROVE Unseen(t)
    BY DEF FindingSteps, FindingStep
  <2>1. scan'[t] \in {scan[t], [scan[t] EXCEPT !.stale = TRUE],
                      [scan[t] EXCEPT !.status = "failed", !.stale = FALSE]}
    BY <1>3 DEF TypeOK, Beat, GrowStale, CleanupSelect, CleanupFail, MonthPasses, LockExpires,
       ResetSelect, ResetUpdate, ResetNull, CacheExpires, Failed
  <2>2. scan[t] \in ScanRow
    BY DEF TypeOK
  <2> QED
    BY <2>1, <2>2 DEF ScanRow, Unseen
<1>4. ASSUME \/ \E w \in Workers : WorkerLost(w) \/ HardTimeLimit(w)
             \/ \E o \in Orgs, p \in Plans \cup {NoPlan} : ChangePlan(o, p)
      PROVE  UNCHANGED scan
  BY <1>4 DEF WorkerLost, HardTimeLimit, ChangePlan
<1> QED
  BY <1>1, <1>2, <1>3, <1>4, RequestFindings, RunFindings DEF Next, vars

-----------------------------------------------------------------------------
(* The tasks behind a verdict *)

\* A task that runs after process_scan_result has judged its scan.
Late(w) == Browses(w) \/ At(w, "process", {"cache", "chain", "mail", "ack"})

LateMessage(j) ==
    j.task = "browser" /\ queue'[j] > 0 =>
        \/ queue[j] > 0
        \/ \E w \in Workers : Late(w) /\ worker[w] # Idle /\ j.scan = ScanOf(w)

LateWorker(w) ==
    Late(w)' =>
        \/ /\ worker[w] # Idle /\ worker'[w].job = worker[w].job
           /\ Late(w) \/ scan'[ScanOf(w)].judged # "never"
        \/ \E j \in Job : queue[j] > 0 /\ j.task = "browser" /\ worker'[w].job = j

CopyWorker(w) ==
    At(w, "browser", {"browse"})' =>
        \/ worker'[w] = worker[w]
        \/ /\ UNCHANGED scan
           /\ worker'[w].seen.malware = scan[worker'[w].job.scan].malware

LateStep ==
    /\ \A j \in Job : LateMessage(j)
    /\ \A w \in Workers : LateWorker(w) /\ CopyWorker(w)

LEMMA SameLate ==
  ASSUME TypeOK
  PROVE  /\ UNCHANGED queue => \A j \in Job : LateMessage(j)
         /\ \A w \in Workers : worker'[w] = worker[w] => LateWorker(w) /\ CopyWorker(w)
<1>1. ASSUME NEW w \in Workers, worker'[w] = worker[w], Late(w)'
      PROVE  Late(w) /\ worker[w] # Idle
  BY <1>1 DEF Late, Browses, At, Idle, NoJob
<1> QED
  BY <1>1 DEF LateMessage, LateWorker, CopyWorker

LEMMA FinishLate ==
  ASSUME TypeOK, NEW w \in Workers, Finish(w)
  PROVE  \A v \in Workers : LateWorker(v) /\ CopyWorker(v)
<1>1. worker'[w] = Idle /\ \A v \in Workers \ {w} : worker'[v] = worker[v]
  BY DEF TypeOK, Finish
<1>2. ~Late(w)' /\ ~At(w, "browser", {"browse"})'
  BY <1>1 DEF Late, Browses, At, Idle, NoJob
<1> QED
  BY <1>1, <1>2, SameLate DEF LateWorker, CopyWorker

LEMMA GotoLate ==
  ASSUME TypeOK, NEW w \in Workers, worker[w] # Idle, NEW pc, Goto(w, pc), pc # "browse",
         Late(w) \/ worker[w].job.task = "trigger"
  PROVE  \A v \in Workers : LateWorker(v) /\ CopyWorker(v)
<1>1. /\ worker'[w].job = worker[w].job /\ worker'[w].pc = pc
      /\ \A v \in Workers \ {w} : worker'[v] = worker[v]
  BY BusyWorker DEF TypeOK, Goto, Busy
<1>2. LateWorker(w) /\ CopyWorker(w)
  BY <1>1 DEF LateWorker, CopyWorker, Late, Browses, At
<1> QED
  BY <1>1, <1>2, SameLate

LEMMA ReceiveLate ==
  ASSUME TypeOK, NEW w \in Workers, NEW j \in Job, NEW pc, Receive(w, j, pc),
         \/ j.task = "browser" /\ UNCHANGED scan
         \/ j.task = "process" /\ pc = "check"
         \/ j.task = "trigger"
  PROVE  LateStep
<1>1. /\ worker'[w].job = j /\ worker'[w].pc = pc /\ queue[j] > 0
      /\ worker'[w].seen.malware = scan[j.scan].malware
      /\ \A v \in Workers \ {w} : worker'[v] = worker[v]
      /\ \A i \in Job : queue'[i] > 0 => queue[i] > 0
  BY DEF TypeOK, Receive
<1>2. LateWorker(w)
  BY <1>1 DEF LateWorker, Late, Browses, At
<1>3. CopyWorker(w)
  BY <1>1 DEF CopyWorker, At
<1> QED
  BY <1>1, <1>2, <1>3, SameLate DEF LateStep, LateMessage

LEMMA SendLate ==
  ASSUME TypeOK, NEW j \in Job, Send(j),
         j.task # "browser" \/ \E w \in Workers : Late(w) /\ worker[w] # Idle /\ j.scan = ScanOf(w)
  PROVE  \A i \in Job : LateMessage(i)
  BY DEF TypeOK, Send, LateMessage

LEMMA RetryLate ==
  ASSUME TypeOK, NEW w \in Workers, worker[w] # Idle,
         \/ UNCHANGED queue
         \/ /\ worker[w].job.tries < MaxRetries \/ worker[w].job.tries < MaxBrowserRetries
            /\ Send([worker[w].job EXCEPT !.tries = @ + 1])
         \/ Send(worker[w].job)
  PROVE  \A i \in Job : LateMessage(i)
<1>1. worker[w] \in Busy /\ worker[w].job \in Job
  BY BusyWorker
<1>2. worker[w].job.task = "browser" => Late(w)
  BY <1>1 DEF Busy, Late, Browses, At
<1>3. ASSUME /\ worker[w].job.tries < MaxRetries \/ worker[w].job.tries < MaxBrowserRetries
             /\ Send([worker[w].job EXCEPT !.tries = @ + 1])
      PROVE  \A i \in Job : LateMessage(i)
  <2> DEFINE j == [worker[w].job EXCEPT !.tries = @ + 1]
  <2>1. j \in Job
    BY <1>1, <1>3, RetryJob
  <2>2. j.scan = ScanOf(w) /\ j.task = worker[w].job.task
    BY <1>1 DEF Job, ScanOf
  <2>3. Send(j)
    BY <1>3
  <2> HIDE DEF j
  <2> QED
    BY <1>2, <2>1, <2>2, <2>3, SendLate
<1>4. CASE Send(worker[w].job)
  BY <1>1, <1>2, <1>4, SendLate DEF ScanOf
<1> QED
  BY <1>3, <1>4, SameLate

LEMMA RunLate == ASSUME TypeOK, NEW w \in Workers, Run(w) PROVE LateStep
<1> USE DEF LateStep
<1>1. worker[w] # Idle /\ worker[w] \in Busy /\ worker[w].job \in Job /\ ScanOf(w) \in Scans
  BY RunBusy, BusyWorker
<1>2. CASE TriggerFetched(w)
  BY <1>1, <1>2, GotoLate, SameLate DEF TriggerFetched, At
<1>3. CASE TriggerPublish(w)
  <2> DEFINE j == [task |-> "process", scan |-> ScanOf(w), tries |-> 0,
                   slug |-> worker[w].seen.slug]
  <2>1. worker[w].seen.slug \in Slugs
    BY <1>1 DEF Busy, Snapshot
  <2>2. j \in Job /\ j.task = "process"
    BY <1>1, <2>1, ProcessJob
  <2>3. Send(j) /\ Goto(w, "ack") /\ worker[w].job.task = "trigger"
    BY <1>3 DEF TriggerPublish, At
  <2> HIDE DEF j
  <2> QED
    BY <1>1, <2>2, <2>3, SendLate, GotoLate
<1>4. CASE \/ TriggerRejected(w) \/ ProcessSoftLimit(w) \/ BrowserEnd(w) \/ BrowserSoftLimit(w)
           \/ Acknowledge(w)
  BY <1>4, FinishLate, SameLate
  DEF TriggerRejected, ProcessSoftLimit, BrowserEnd, BrowserSoftLimit, Acknowledge
<1>5. CASE TriggerError(w) \/ ProcessError(w) \/ BrowserError(w)
  <2>1. \/ UNCHANGED queue
        \/ /\ worker[w].job.tries < MaxRetries \/ worker[w].job.tries < MaxBrowserRetries
           /\ Send([worker[w].job EXCEPT !.tries = @ + 1])
    BY <1>5 DEF TriggerError, ProcessError, BrowserError, RetryOrFail
  <2>2. Finish(w)
    BY <1>5 DEF TriggerError, ProcessError, BrowserError
  <2> QED
    BY <1>1, <2>1, <2>2, RetryLate, FinishLate
<1>6. CASE ProcessChecked(w)
  <2>1. PICK bad \in Verdicts :
          /\ Save(ScanOf(w), [scan[ScanOf(w)] EXCEPT !.status = "completed", !.malware = bad,
                                                    !.judged = Judged(ScanOf(w), bad)])
          /\ worker' = [worker EXCEPT ![w] = [@ EXCEPT !.pc = "cache", !.seen.malware = bad]]
    BY <1>6 DEF ProcessChecked
  <2> DEFINE r == [scan[ScanOf(w)] EXCEPT !.status = "completed", !.malware = bad,
                                          !.judged = Judged(ScanOf(w), bad)]
  <2>2. r \in ScanRow /\ r.judged = Judged(ScanOf(w), bad)
    BY <1>1, JudgedRow DEF TypeOK
  <2> HIDE DEF r
  <2>3. Save(ScanOf(w), r)
    BY <2>1 DEF r
  <2>4. scan'[ScanOf(w)].judged # "never"
    BY <1>1, <2>2, <2>3, SavedRow DEF Judged
  <2>5. /\ worker'[w].job = worker[w].job /\ worker'[w].pc = "cache"
        /\ \A v \in Workers \ {w} : worker'[v] = worker[v]
    BY <1>1, <2>1 DEF TypeOK, Busy
  <2>6. LateWorker(w) /\ CopyWorker(w)
    BY <1>1, <2>4, <2>5 DEF LateWorker, CopyWorker, At
  <2>7. UNCHANGED queue
    BY <1>6 DEF ProcessChecked
  <2> QED
    BY <2>5, <2>6, <2>7, SameLate
<1>7. CASE ProcessCached(w) \/ ProcessMail(w)
  <2>1. Late(w) /\ UNCHANGED queue /\ (Goto(w, "chain") \/ Goto(w, "ack"))
    BY <1>7 DEF ProcessCached, ProcessMail, Late, At
  <2> QED
    BY <1>1, <2>1, GotoLate, SameLate
<1>8. CASE BrowserSave(w)
  <2>1. Late(w) /\ UNCHANGED queue /\ Goto(w, "unlock")
    BY <1>8 DEF BrowserSave, Late, Browses, At, Steps
  <2> QED
    BY <1>1, <2>1, GotoLate, SameLate
<1>9. CASE ProcessChain(w)
  <2>1. Late(w) /\ Goto(w, "mail")
    BY <1>9 DEF ProcessChain, Late, At
  <2>2. NewJob("browser", ScanOf(w)) \in Job /\ NewJob("browser", ScanOf(w)).scan = ScanOf(w)
    BY <1>1, NewJobType DEF NewJob
  <2>3. \A i \in Job : LateMessage(i)
    BY <1>1, <1>9, <2>1, <2>2, SendLate, SameLate DEF ProcessChain
  <2> QED
    BY <1>1, <2>1, <2>3, GotoLate
<1> QED
  BY <1>2, <1>3, <1>4, <1>5, <1>6, <1>7, <1>8, <1>9 DEF Run

LEMMA LateStepLemma == ASSUME TypeOK, [Next]_vars PROVE LateStep
<1>1. CASE UNCHANGED <<queue, worker>>
  BY <1>1, SameLate DEF LateStep
<1>2. ASSUME NEW s \in Scans, Publish(s) PROVE LateStep
  <2>1. NewJob("trigger", s) \in Job /\ NewJob("trigger", s).task = "trigger"
    BY NewJobType DEF NewJob
  <2> QED
    BY <1>2, <2>1, SendLate, SameLate DEF Publish, LateStep
<1>3. ASSUME NEW w \in Workers, Deliver(w) PROVE LateStep
  <2>1. ASSUME NEW j \in Job, BrowserSkip(w, j) PROVE LateStep
    <3>1. \A i \in Job : queue'[i] > 0 => queue[i] > 0
      BY <2>1 DEF TypeOK, BrowserSkip
    <3> QED
      BY <2>1, <3>1, SameLate DEF BrowserSkip, LateStep, LateMessage
  <2> QED
    BY <1>3, <2>1, ReceiveLate DEF Deliver, TriggerBegin, ProcessBegin, BrowserBegin
<1>4. ASSUME NEW w \in Workers, WorkerLost(w) \/ HardTimeLimit(w) PROVE LateStep
  BY <1>4, RetryLate, FinishLate, SameLate DEF WorkerLost, HardTimeLimit, LateStep
<1>5. ASSUME \/ Request /\ ~(\E s \in Scans : Publish(s))
             \/ Beat
             \/ \E o \in Orgs, p \in Plans \cup {NoPlan} : ChangePlan(o, p)
      PROVE  UNCHANGED <<queue, worker>>
  BY <1>5 DEF Request, CreateBegin, PublicBegin, CreateCommit, CreateRejected, PublicCommit,
     PublishFails, PublishLost, DeleteDomain, Beat, GrowStale, CleanupSelect, CleanupFail,
     MonthPasses, LockExpires, ResetSelect, ResetUpdate, ResetNull, CacheExpires, ChangePlan
<1> QED
  BY <1>1, <1>2, <1>3, <1>4, <1>5, RunLate DEF Next, vars

\* Only what follows a verdict asks for a browser scan, or stores a finding of one.
JudgedFirst ==
    /\ \A s \in Scans : scan[s].browser => scan[s].judged # "never"
    /\ \A j \in Job : queue[j] > 0 /\ j.task = "browser" => scan[j.scan].judged # "never"
    /\ \A w \in Workers : Late(w) => scan[ScanOf(w)].judged # "never"

\* What a browser task has read of a scan judged once is still in the row.
CopyTrue ==
    \A w \in Workers :
        At(w, "browser", {"browse"}) /\ scan[ScanOf(w)].judged # "again"
            => worker[w].seen.malware = scan[ScanOf(w)].malware

FindingInv == JudgedFirst /\ CopyTrue /\ BrowserFindingKept

LEMMA FindingInit == Init => FindingInv
<1> SUFFICES ASSUME Init PROVE FindingInv
  OBVIOUS
<1>1. \A s \in Scans : scan[s].judged = "never" /\ ~scan[s].browser
  BY DEF Init, Blank
<1>2. /\ \A j \in Job : queue[j] = 0
      /\ \A w \in Workers : ~Late(w) /\ ~At(w, "browser", {"browse"})
  BY DEF Init, Idle, NoJob, Late, Browses, At
<1> QED
  BY <1>1, <1>2 DEF FindingInv, JudgedFirst, CopyTrue, BrowserFindingKept

LEMMA FindingInvStep ==
  ASSUME TypeOK, RowInv, BrowserInv, FindingInv, [Next]_vars  PROVE FindingInv'
<1>1. FindingSteps /\ LateStep /\ RowInv' /\ TypeOK'
  BY FindingStepLemma, LateStepLemma, RowInvStep, TypeStep
<1>2. ASSUME NEW s \in Scans, Committed(s)', scan[s].judged # "never"
      PROVE  scan'[s].judged # "never"
  BY <1>1, <1>2 DEF FindingSteps, FindingStep, Unseen, Redrawn, JudgedAnew, Judged, AddedBy
<1>3. ASSUME NEW w \in Workers, At(w, "browser", {"browse"}) \/ Late(w)
      PROVE  /\ worker[w] # Idle /\ ScanOf(w) \in Scans /\ Committed(ScanOf(w))
             /\ Late(w) /\ scan[ScanOf(w)].judged # "never"
  <2>1. worker[w] # Idle /\ Late(w)
    BY <1>3 DEF Late, Browses, At, Idle, NoJob, Steps
  <2> QED
    BY <2>1, BusyWorker DEF FindingInv, JudgedFirst, RowInv, JobsOnRows
<1>4. JudgedFirst'
  <2>1. ASSUME NEW s \in Scans, scan'[s].browser PROVE scan'[s].judged # "never"
    <3>1. CASE Unseen(s) \/ JudgedAnew(s)
      BY <2>1, <3>1 DEF FindingInv, JudgedFirst, Unseen, JudgedAnew, Judged
    <3>2. ASSUME NEW w \in Workers, AddedBy(w, s) PROVE scan'[s].judged # "never"
      BY <1>3, <3>2 DEF AddedBy
    <3> QED
      BY <1>1, <2>1, <3>1, <3>2 DEF FindingSteps, FindingStep, Redrawn
  <2>2. ASSUME NEW j \in Job, queue'[j] > 0, j.task = "browser"
        PROVE  scan'[j.scan].judged # "never"
    <3>1. j.scan \in Scans /\ Committed(j.scan)'
      BY <1>1, <2>2 DEF RowInv, JobsOnRows, Job
    <3>2. scan[j.scan].judged # "never"
      BY <1>1, <1>3, <2>2 DEF LateStep, LateMessage, FindingInv, JudgedFirst
    <3> QED
      BY <1>2, <3>1, <3>2
  <2>3. ASSUME NEW w \in Workers, Late(w)' PROVE scan'[ScanOf(w)'].judged # "never"
    <3>1. worker'[w] # Idle
      BY <2>3 DEF Late, Browses, At, Idle, NoJob
    <3>2. ScanOf(w)' \in Scans /\ Committed(ScanOf(w))'
      BY <1>1, <3>1, BusyWorker DEF RowInv, JobsOnRows, TypeOK, Busy, Job, ScanOf
    <3>3. ASSUME worker'[w].job = worker[w].job PROVE ScanOf(w)' = ScanOf(w)
      BY <3>3 DEF ScanOf
    <3>4. CASE Late(w) /\ worker'[w].job = worker[w].job
      <4>1. Committed(ScanOf(w))'
        BY <3>2
      <4>2. scan[ScanOf(w)].judged # "never" /\ ScanOf(w)' = ScanOf(w)
        BY <1>3, <3>3, <3>4
      <4> QED
        BY <1>2, <3>2, <4>2 DEF Committed
    <3>5. CASE worker'[w].job = worker[w].job /\ scan'[ScanOf(w)].judged # "never"
      BY <3>3, <3>5
    <3>6. ASSUME NEW j \in Job, queue[j] > 0, j.task = "browser", worker'[w].job = j
          PROVE  scan'[ScanOf(w)'].judged # "never"
      <4>1. ScanOf(w)' = j.scan /\ scan[j.scan].judged # "never"
        BY <3>6 DEF ScanOf, FindingInv, JudgedFirst
      <4> QED
        BY <1>2, <3>2, <4>1 DEF Committed
    <3> QED
      BY <1>1, <2>3, <3>4, <3>5, <3>6 DEF LateStep, LateWorker
  <2> QED
    BY <2>1, <2>2, <2>3 DEF JudgedFirst
<1>5. CopyTrue'
  <2> SUFFICES ASSUME NEW w \in Workers, At(w, "browser", {"browse"})',
                      scan'[ScanOf(w)'].judged # "again"
               PROVE  worker'[w].seen.malware = scan'[ScanOf(w)'].malware
    BY DEF CopyTrue
  <2>1. CASE worker'[w] = worker[w]
    <3>1. At(w, "browser", {"browse"}) /\ ScanOf(w)' = ScanOf(w)
      BY <2>1 DEF At, ScanOf
    <3> DEFINE s == ScanOf(w)
    <3>2. s \in Scans /\ Committed(s) /\ scan[s].judged # "never"
      BY <1>3, <3>1
    <3>3. Committed(s)'
      BY <1>1, <2>1, <3>1, <1>3 DEF RowInv, JobsOnRows
    <3>4. scan[s].judged # "again" => worker[w].seen.malware = scan[s].malware
      BY <3>1 DEF FindingInv, CopyTrue
    <3> HIDE DEF s
    <3>5. CASE Unseen(s)
      BY <2>1, <3>1, <3>4, <3>5 DEF Unseen, s
    <3>6. ~Redrawn(s)
      BY <3>3 DEF Redrawn
    <3>7. ~JudgedAnew(s)
      BY <3>1, <3>2 DEF JudgedAnew, Judged, s
    <3>8. ASSUME NEW v \in Workers, AddedBy(v, s) PROVE FALSE
      <4>1. Browses(v) /\ Browses(w) /\ Owner(v) = Owner(w)
        BY <3>1, <3>8 DEF AddedBy, Browses, At, Owner, s, Steps
      <4>2. v = w
        BY <4>1 DEF BrowserInv, Alone
      <4> QED
        BY <2>1, <3>1, <3>8, <4>2 DEF AddedBy, At
    <3> QED
      BY <1>1, <3>2, <3>5, <3>6, <3>7, <3>8 DEF FindingSteps, FindingStep
  <2>2. CASE UNCHANGED scan /\ worker'[w].seen.malware = scan[worker'[w].job.scan].malware
    BY <2>2 DEF ScanOf
  <2> QED
    BY <1>1, <2>1, <2>2 DEF LateStep, CopyWorker
<1>6. BrowserFindingKept'
  <2> SUFFICES ASSUME NEW s \in Scans, scan'[s].judged # "again",
                      scan'[s].judged = "malware" \/ scan'[s].browser
               PROVE  scan'[s].malware
    BY DEF BrowserFindingKept
  <2>1. CASE Unseen(s)
    BY <2>1 DEF Unseen, FindingInv, BrowserFindingKept
  <2>2. ~Redrawn(s)
    BY DEF Redrawn
  <2>3. CASE JudgedAnew(s)
    BY <2>3 DEF JudgedAnew, Judged, FindingInv, JudgedFirst
  <2>4. ASSUME NEW w \in Workers, AddedBy(w, s) PROVE scan'[s].malware
    <3>1. worker[w].seen.malware = scan[s].malware
      BY <2>4 DEF AddedBy, FindingInv, CopyTrue
    <3> QED
      BY <2>4, <3>1 DEF AddedBy, FindingInv, BrowserFindingKept
  <2> QED
    BY <1>1, <2>1, <2>2, <2>3, <2>4 DEF FindingSteps, FindingStep
<1> QED
  BY <1>4, <1>5, <1>6 DEF FindingInv

\* A browser task saves malware_detected as it read it before the browser ran.  Because it runs
\* behind a verdict, and alone for its organisation, the copy is still the row's unless
\* process_scan_result has judged the scan again: until then no finding is lost.
THEOREM FindingKept == Spec => []BrowserFindingKept
<1>1. FindingInv => BrowserFindingKept
  BY DEF FindingInv
<1>2. Spec => []BrowserInv
  BY BrowserInvariant
<1> QED
  BY <1>1, <1>2, FindingInit, FindingInvStep, RowsCorrect, TypeCorrect, PTL DEF Spec

-----------------------------------------------------------------------------
(* The refinement of ScanAdmission *)

\* Admitted and Record are what the refinement mapping makes of the rows.
Admitted  == {s \in Scans : Committed(s) /\ scan[s].owner \in Orgs}
Record(s) == [scan |-> s, org |-> scan[s].owner, name |-> scan[s].name]

\* Only CreateCommit admits a scan of an organisation.
LEMMA AdmittedOn ==
  ASSUME TypeOK, RowInv, [Next]_vars, NEW x \in Scans, ~CreateCommit(x)
  PROVE  (x \in Admitted)' <=> x \in Admitted
<1>1. RowStep(x)
  BY RowStepLemma DEF RowSteps
<1>2. CASE scan'[x] = scan[x]
  BY <1>2 DEF Admitted, Committed
<1>3. CASE Keeps(x)
  BY <1>3 DEF Keeps, Admitted, Committed
<1>4. CASE Drafts(x)
  BY <1>4 DEF Drafts, Admitted
<1>5. CASE PublicCommit(x)
  <2>1. scan[x].owner = NoOrg /\ scan'[x] = [Inserted(x, 0) EXCEPT !.stale = FALSE]
        /\ scan[x] \in ScanRow
    BY <1>5 DEF PublicCommit, TypeOK, Save
  <2>2. scan'[x].owner = NoOrg
    BY <2>1 DEF Inserted, ScanRow
  <2> QED
    BY <2>1, <2>2 DEF Admitted
<1> QED
  BY <1>1, <1>2, <1>3, <1>4, <1>5 DEF RowStep

\* What a step may do to the organisations.
LEMMA OrgMoves ==
  ASSUME TypeOK, [Next]_vars
  PROVE  \/ \E s \in Scans : CreateCommit(s)
         \/ ResetUpdate \/ ResetNull
         \/ \E o \in Orgs, p \in Plans \cup {NoPlan} : ChangePlan(o, p)
         \/ \A o \in Orgs : org'[o].used = org[o].used /\ org'[o].plan = org[o].plan
<1>1. ASSUME NEW q \in Orgs, MonthPasses(q), NEW o \in Orgs
      PROVE  org'[o].used = org[o].used /\ org'[o].plan = org[o].plan
  BY <1>1 DEF MonthPasses, TypeOK, OrgRow
<1>2. ASSUME Request PROVE UNCHANGED org \/ \E s \in Scans : CreateCommit(s)
  BY <1>2 DEF Request, CreateBegin, PublicBegin, CreateRejected, PublicCommit,
     Publish, PublishFails, PublishLost, DeleteDomain
<1>3. ASSUME NEW w \in Workers, Deliver(w) \/ Run(w) \/ WorkerLost(w) \/ HardTimeLimit(w)
      PROVE  UNCHANGED org
  BY <1>3 DEF Deliver, TriggerBegin, ProcessBegin, BrowserBegin, BrowserSkip, Run,
     TriggerFetched, TriggerPublish, TriggerRejected, TriggerError, ProcessChecked,
     ProcessCached, ProcessChain, ProcessMail, ProcessError, ProcessSoftLimit, BrowserSave,
     BrowserEnd, BrowserError, BrowserSoftLimit, Acknowledge, WorkerLost, HardTimeLimit
<1>4. ASSUME Beat
      PROVE  UNCHANGED org \/ ResetUpdate \/ ResetNull \/ \E q \in Orgs : MonthPasses(q)
  BY <1>4 DEF Beat, GrowStale, CleanupSelect, CleanupFail, LockExpires, ResetSelect,
     CacheExpires
<1> QED
  BY <1>1, <1>2, <1>3, <1>4 DEF Next, vars

\* create_scan's transaction is one admission: charged, with room, beside none that waits.
LEMMA CommitAdmits ==
  ASSUME TypeOK, RowInv, [Next]_vars, NEW s \in Scans, CreateCommit(s)
  PROVE  Admission!Next
<1> PICK q, n : q = scan[s].owner /\ n = scan[s].name
  OBVIOUS
<1>1. /\ q \in Orgs /\ n \in Names /\ scan[s].status = "draft" /\ Admissible(s)
      /\ org' = [org EXCEPT ![q] = Charged(q, scan[s].scheduled)]
      /\ \A t \in Scans \ {s} : scan'[t] = scan[t]
      /\ scan[s].scheduled \in BOOLEAN
  BY CreateCommitRows, CommitRows DEF TypeOK, ScanRow
<1>2. /\ org'[q].used = IF scan[s].scheduled THEN org[q].used ELSE org[q].used + 1
      /\ org'[q].plan = org[q].plan
      /\ \A o \in Orgs \ {q} : org'[o] = org[o]
  BY <1>1, ChargedFields DEF TypeOK
<1>3. /\ scan'[s].owner = q /\ scan'[s].name = n /\ ~scan'[s].deleted
      /\ scan'[s].status \in {"completed", "queued"}
  <2>1. PICK p : Save(s, Inserted(s, p))
    BY DEF CreateCommit
  <2>2. /\ scan'[s] = [Inserted(s, p) EXCEPT !.stale = FALSE] /\ scan[s] \in ScanRow
        /\ ~scan[s].deleted
    BY <1>1, <2>1 DEF TypeOK, Save, RowInv, DraftsEmpty, Committed
  <2>3. CASE scan[s].cached
    BY <2>2, <2>3 DEF Inserted, ScanRow
  <2>4. CASE ~scan[s].cached
    BY <2>2, <2>4 DEF Inserted, ScanRow
  <2> QED
    BY <2>3, <2>4
<1>4. s \notin Admitted /\ Admitted' = Admitted \cup {s}
  BY <1>1, <1>3 DEF Admitted, Committed
<1>5. \A x \in {Record(t) : t \in Waiting} : <<x.org, x.name>> # <<q, n>>
  <2>1. ASSUME NEW t \in Waiting, scan[t].owner = q, scan[t].name = n PROVE FALSE
    BY <1>1, <2>1 DEF Admissible, BeingScanned, Waiting, InFlight
  <2>2. ASSUME NEW t \in Waiting
        PROVE  Record(t).org = scan[t].owner /\ Record(t).name = scan[t].name
    BY DEF Record
  <2> QED
    BY <2>1, <2>2
<1>6. {Record(t) : t \in Waiting}' \in
        {{Record(t) : t \in Waiting},
         {Record(t) : t \in Waiting} \cup {[scan |-> s, org |-> q, name |-> n]}}
  <2>1. s \notin Waiting /\ \A t \in Scans \ {s} : t \in Waiting' <=> t \in Waiting
    BY <1>1 DEF Waiting
  <2>2. \A t \in Scans \ {s} : Record(t)' = Record(t)
    BY <1>1 DEF Record
  <2>3. Record(s)' = [scan |-> s, org |-> q, name |-> n]
    BY <1>3 DEF Record
  <2>4. Waiting \subseteq Scans /\ Waiting' \subseteq Scans
    BY DEF Waiting
  <2>5. CASE s \in Waiting'
    <3>1. Waiting' = Waiting \cup {s}
      BY <2>1, <2>4, <2>5
    <3> QED
      BY <2>1, <2>2, <2>3, <2>4, <3>1
  <2>6. CASE s \notin Waiting'
    <3>1. Waiting' = Waiting
      BY <2>1, <2>4, <2>6
    <3> QED
      BY <2>1, <2>2, <2>4, <3>1
  <2> QED
    BY <2>5, <2>6
<1>7. [o \in Orgs |-> QuotaOf(org'[o].plan)] = [o \in Orgs |-> QuotaOf(org[o].plan)]
  BY <1>2
<1>8. Admission!Admit(s, q, n)
  BY <1>4, <1>5, <1>6, <1>7 DEF Admission!Admit, Admitted, Record
<1>9. CASE scan[s].scheduled
  <2>1. [o \in Orgs |-> org'[o].used] = [o \in Orgs |-> org[o].used]
    BY <1>2, <1>9
  <2>2. Admission!Scheduled(s, q, n)
    BY <1>8, <2>1 DEF Admission!Scheduled
  <2> QED
    BY <1>1, <2>2 DEF Admission!Next
<1>10. CASE ~scan[s].scheduled
  <2>1. [o \in Orgs |-> org'[o].used] =
          [[o \in Orgs |-> org[o].used] EXCEPT ![q] = @ + 1]
    BY <1>1, <1>2, <1>10
  <2>2. Admission!HasRoom(q)
    BY <1>1, <1>10 DEF Admissible, HasQuota, Admission!HasRoom, Unlimited
  <2>3. Admission!OnDemand(s, q, n)
    BY <1>8, <2>1, <2>2 DEF Admission!OnDemand
  <2> QED
    BY <1>1, <2>3 DEF Admission!Next
<1> QED
  BY <1>1, <1>9, <1>10

LEMMA AdmissionInit == Init => Admission!Init
<1> SUFFICES ASSUME Init PROVE Admission!Init
  OBVIOUS
<1>1. \A s \in Scans : scan[s].status = "none"
  BY DEF Init, Blank
<1>2. Waiting = {} /\ {s \in Scans : Committed(s) /\ scan[s].owner \in Orgs} = {}
  BY <1>1 DEF Waiting, Committed
<1>3. \A o \in Orgs : org[o].used = 0 /\ org[o].plan \in Plans \cup {NoPlan}
  BY DEF Init
<1>4. \A o \in Orgs : QuotaOf(org[o].plan) \in Nat \cup {Unlimited}
  BY <1>3, QuotaOfType
<1> QED
  BY <1>2, <1>3, <1>4 DEF Admission!Init, Admission!Limits, Unlimited

LEMMA AdmissionStep ==
  ASSUME TypeOK, RowInv, [Next]_vars
  PROVE  Admission!Next \/ UNCHANGED Admission!vars
<1>1. CASE \E s \in Scans : CreateCommit(s)
  BY <1>1, CommitAdmits
<1>2. CASE \A s \in Scans : ~CreateCommit(s)
  <2>1. Admitted' = Admitted
    BY <1>2, AdmittedOn DEF Admitted
  <2>2. {Record(t) : t \in Waiting}' \subseteq {Record(t) : t \in Waiting}
    <3>1. ASSUME NEW x \in Waiting' PROVE x \in Waiting /\ Record(x)' = Record(x)
      <4>1. x \in Scans
        BY DEF Waiting
      <4> QED
        BY <1>2, <4>1, WaitsOn DEF Record
    <3> QED
      BY <3>1
  <2>3. CASE \A o \in Orgs : org'[o].used = org[o].used /\ org'[o].plan = org[o].plan
    <3>1. /\ [o \in Orgs |-> org'[o].used] = [o \in Orgs |-> org[o].used]
          /\ [o \in Orgs |-> QuotaOf(org'[o].plan)] = [o \in Orgs |-> QuotaOf(org[o].plan)]
      BY <2>3
    <3>2. Admission!Leave
      BY <2>1, <2>2, <3>1 DEF Admission!Leave, Admitted, Record
    <3> QED
      BY <3>2 DEF Admission!Next
  <2>4. ASSUME UNCHANGED scan
        PROVE  {Record(t) : t \in Waiting}' = {Record(t) : t \in Waiting}
    BY <2>4 DEF Record, Waiting
  <2>5. CASE ResetUpdate \/ ResetNull
    <3>1. PICK S \in SUBSET Orgs :
            org' = [o \in Orgs |-> IF o \in S THEN Renewed(org[o]) ELSE org[o]]
      <4>1. resetting \in SUBSET Orgs /\ {o \in Orgs : org[o].resetAt = "null"} \in SUBSET Orgs
        BY DEF TypeOK
      <4> QED
        BY <2>5, <4>1 DEF ResetUpdate, ResetNull
    <3>2. \A o \in Orgs : /\ org'[o].used = IF o \in S THEN 0 ELSE org[o].used
                          /\ org'[o].plan = org[o].plan
      BY <3>1, RenewedFields DEF TypeOK
    <3>3. [o \in Orgs |-> QuotaOf(org'[o].plan)] = [o \in Orgs |-> QuotaOf(org[o].plan)]
      BY <3>2
    <3>4. [o \in Orgs |-> org'[o].used] = [o \in Orgs |-> IF o \in S THEN 0 ELSE [i \in Orgs |-> org[i].used][o]]
      BY <3>2
    <3>5. UNCHANGED scan
      BY <2>5 DEF ResetUpdate, ResetNull
    <3>6. Admission!Renew(S)
      BY <2>1, <2>4, <3>3, <3>4, <3>5 DEF Admission!Renew, Admitted, Record
    <3> QED
      BY <3>6 DEF Admission!Next
  <2>6. ASSUME NEW q \in Orgs, NEW p \in Plans \cup {NoPlan}, ChangePlan(q, p)
        PROVE  Admission!Next
    <3>1. /\ org'[q].plan = p /\ \A o \in Orgs \ {q} : org'[o] = org[o]
          /\ \A o \in Orgs : org'[o].used = org[o].used
      BY <2>6 DEF ChangePlan, TypeOK, OrgRow
    <3>2. [o \in Orgs |-> org'[o].used] = [o \in Orgs |-> org[o].used]
      BY <3>1
    <3>3. [o \in Orgs |-> QuotaOf(org'[o].plan)] =
            [[o \in Orgs |-> QuotaOf(org[o].plan)] EXCEPT ![q] = QuotaOf(org'[q].plan)]
      BY <3>1
    <3>4. QuotaOf(org'[q].plan) \in Nat \cup {Unlimited}
      BY <3>1, QuotaOfType
    <3>5. UNCHANGED scan
      BY <2>6 DEF ChangePlan
    <3>6. Admission!ChangeLimit(q)
      BY <2>1, <2>4, <3>2, <3>3, <3>4, <3>5
      DEF Admission!ChangeLimit, Admission!Limits, Admitted, Record, Unlimited
    <3> QED
      BY <3>6 DEF Admission!Next
  <2> QED
    BY <1>2, <2>3, <2>5, <2>6, OrgMoves
<1> QED
  BY <1>1, <1>2

\* create_scan, the tasks and the beat jobs, step by step, are admissions, departures, new
\* quota periods and plan changes of ScanAdmission: one charge per admitted scan, with
\* room in the quota, and no second scan of a domain beside one that waits.
THEOREM AdmissionImplemented == Spec => ImplementsAdmission
<1>1. TypeOK /\ RowInv /\ [Next]_vars => [Admission!Next]_(Admission!vars)
  BY AdmissionStep
<1> QED
  BY <1>1, AdmissionInit, RowsCorrect, TypeCorrect, PTL
  DEF Spec, ImplementsAdmission, Admission!Spec
=============================================================================
