-------------------------- MODULE ScanPipelineProofs --------------------------
(* Theorems about ScanPipeline for every value of its constants. *)
EXTENDS ScanPipeline, FiniteSetTheorems, TLAPS

USE ConstantsAssumption

-----------------------------------------------------------------------------
(* Facts about the helpers *)

LEMMA QuotaOfType == \A p \in Plans \cup {NoPlan} : QuotaOf(p) \in Nat \cup {Unlimited}
  BY DEF QuotaOf, Unlimited

LEMMA WiderType ==
  \A a, b \in Nat \cup {Unlimited} : Wider(a, b) \in Nat \cup {Unlimited}
  BY DEF Wider, Unlimited

LEMMA SlugType == TypeOK => \A o \in Orgs \cup {NoOrg} : Slug(o) \in Slugs
  BY DEF TypeOK, Slug, Slugs, OrgRow

LEMMA BlankType == Blank \in ScanRow
  BY DEF Blank, ScanRow, Statuses

LEMMA NewJobType ==
  \A s \in Scans : NewJob("trigger", s) \in Job /\ NewJob("browser", s) \in Job
  BY DEF NewJob, Job

LEMMA SendType == ASSUME TypeOK, NEW j \in Job, Send(j) PROVE queue' \in [Job -> Nat]
  BY DEF TypeOK, Send

LEMMA FinishType ==
  ASSUME TypeOK, NEW w \in Workers, Finish(w) PROVE worker' \in [Workers -> Busy \cup {Idle}]
  BY DEF TypeOK, Finish

LEMMA ReceiveType ==
  ASSUME TypeOK, NEW w \in Workers, NEW j \in Job, NEW pc \in Steps, Receive(w, j, pc)
  PROVE  /\ queue' \in [Job -> Nat]
         /\ worker' \in [Workers -> Busy \cup {Idle}]
         /\ j.scan \in Scans
<1>1. j.scan \in Scans
  BY DEF Job
<1>2. queue' \in [Job -> Nat]
  BY DEF TypeOK, Receive
<1>3. scan[j.scan].owner \in Orgs \cup {NoOrg} /\ scan[j.scan].malware \in BOOLEAN
  BY <1>1 DEF TypeOK, ScanRow
<1>4. worker' \in [Workers -> Busy \cup {Idle}]
  BY <1>1, <1>3, SlugType DEF TypeOK, Receive, Busy, Snapshot
<1>5. QED  BY <1>1, <1>2, <1>4

\* A worker that is not idle has a job on a scan row.
LEMMA BusyWorker ==
  ASSUME TypeOK, NEW w \in Workers, worker[w] # Idle
  PROVE  worker[w] \in Busy /\ worker[w].job \in Job /\ ScanOf(w) \in Scans
  BY DEF TypeOK, Busy, Job, ScanOf

\* The idle worker is at no task.
LEMMA AtBusy ==
  ASSUME TypeOK, NEW w \in Workers, NEW task \in {"trigger", "process", "browser"},
         NEW S, At(w, task, S)
  PROVE  worker[w] # Idle
  BY DEF At, Idle, NoJob

LEMMA GotoType ==
  ASSUME TypeOK, NEW w \in Workers, worker[w] # Idle, NEW pc \in Steps, Goto(w, pc)
  PROVE  worker' \in [Workers -> Busy \cup {Idle}]
  BY BusyWorker DEF TypeOK, Goto, Busy

LEMMA SaveType ==
  ASSUME TypeOK, NEW s \in Scans, NEW r \in ScanRow, Save(s, r)
  PROVE  scan' \in [Scans -> ScanRow]
<1>1. [r EXCEPT !.stale = FALSE] \in ScanRow
  BY DEF ScanRow
<1>2. QED  BY <1>1 DEF TypeOK, Save

\* The rows the tasks write are well typed.
LEMMA RowWrites ==
  ASSUME NEW r \in ScanRow, NEW status \in Statuses, NEW f \in BOOLEAN, NEW m \in BOOLEAN
  PROVE  /\ [r EXCEPT !.status = status] \in ScanRow
         /\ [r EXCEPT !.status = status, !.api = TRUE] \in ScanRow
         /\ [r EXCEPT !.status = status, !.malware = m] \in ScanRow
         /\ [r EXCEPT !.browser = f] \in ScanRow
         /\ [r EXCEPT !.browser = f, !.malware = m] \in ScanRow
         /\ [r EXCEPT !.stale = f] \in ScanRow
         /\ [r EXCEPT !.deleted = f, !.stale = m] \in ScanRow
<1>1. [r EXCEPT !.status = status] \in ScanRow
  BY DEF ScanRow
<1>2. [r EXCEPT !.status = status, !.api = TRUE] \in ScanRow
  BY DEF ScanRow
<1>3. [r EXCEPT !.status = status, !.malware = m] \in ScanRow
  BY DEF ScanRow
<1>4. [r EXCEPT !.browser = f] \in ScanRow
  BY DEF ScanRow
<1>5. [r EXCEPT !.browser = f, !.malware = m] \in ScanRow
  BY DEF ScanRow
<1>6. [r EXCEPT !.stale = f] \in ScanRow
  BY DEF ScanRow
<1>7. [r EXCEPT !.deleted = f, !.stale = m] \in ScanRow
  BY DEF ScanRow
<1>8. QED  BY <1>1, <1>2, <1>3, <1>4, <1>5, <1>6, <1>7

\* The row that process_scan_result saves.
LEMMA JudgedRow ==
  ASSUME NEW s \in Scans, scan[s] \in ScanRow, NEW bad \in BOOLEAN
  PROVE  LET r == [scan[s] EXCEPT !.status = "completed", !.malware = bad,
                                  !.judged = Judged(s, bad)]
         IN  /\ r \in ScanRow
             /\ r.status = "completed" /\ r.malware = bad /\ r.judged = Judged(s, bad)
             /\ r.browser = scan[s].browser /\ r.api = scan[s].api
             /\ r.owner = scan[s].owner /\ r.name = scan[s].name
             /\ r.billed = scan[s].billed /\ r.cached = scan[s].cached
             /\ r.deleted = scan[s].deleted
<1>1. Judged(s, bad) \in {"never", "clean", "malware", "again"}
  BY DEF Judged
<1>2. ASSUME NEW g \in {"never", "clean", "malware", "again"}
      PROVE  LET r == [scan[s] EXCEPT !.status = "completed", !.malware = bad, !.judged = g]
             IN  /\ r \in ScanRow
                 /\ r.status = "completed" /\ r.malware = bad /\ r.judged = g
                 /\ r.browser = scan[s].browser /\ r.api = scan[s].api
                 /\ r.owner = scan[s].owner /\ r.name = scan[s].name
                 /\ r.billed = scan[s].billed /\ r.cached = scan[s].cached
                 /\ r.deleted = scan[s].deleted
  BY DEF ScanRow, Statuses
<1>3. QED  BY <1>1, <1>2

LEMMA FailedType == ASSUME TypeOK, NEW s \in Scans PROVE Failed(s) \in ScanRow
  BY RowWrites DEF TypeOK, Failed, Statuses

LEMMA RetryJob ==
  ASSUME NEW j \in Job, j.tries < MaxRetries \/ j.tries < MaxBrowserRetries
  PROVE  [j EXCEPT !.tries = @ + 1] \in Job
  BY DEF Job

LEMMA RetryType ==
  ASSUME TypeOK, NEW w \in Workers, worker[w] # Idle, RetryOrFail(w, MaxRetries)
  PROVE  queue' \in [Job -> Nat] /\ scan' \in [Scans -> ScanRow]
<1> DEFINE j == worker[w].job
<1>1. j \in Job /\ j.scan \in Scans
  BY BusyWorker DEF ScanOf
<1>2. CASE j.tries < MaxRetries /\ Send([j EXCEPT !.tries = @ + 1]) /\ UNCHANGED scan
  BY <1>1, <1>2, RetryJob, SendType DEF TypeOK
<1>3. CASE UNCHANGED <<queue, scan>>
  BY <1>3 DEF TypeOK
<1>4. CASE Save(j.scan, Failed(j.scan)) /\ UNCHANGED queue
  BY <1>1, <1>4, FailedType, SaveType DEF TypeOK
<1>5. QED  BY <1>2, <1>3, <1>4 DEF RetryOrFail

-----------------------------------------------------------------------------
(* Type correctness *)

LEMMA InsertedType ==
  ASSUME TypeOK, NEW s \in Scans, NEW period \in Nat
  PROVE  Inserted(s, period) \in ScanRow
<1>1. scan[s] \in ScanRow
  BY DEF TypeOK
<1>2. CASE scan[s].cached
  BY <1>1, <1>2 DEF Inserted, ScanRow, Statuses
<1>3. CASE ~scan[s].cached
  BY <1>1, <1>3 DEF Inserted, ScanRow, Statuses
<1>4. QED  BY <1>2, <1>3

LEMMA ChargedType ==
  ASSUME TypeOK, NEW o \in Orgs, NEW scheduled \in BOOLEAN
  PROVE  Charged(o, scheduled) \in OrgRow
<1> DEFINE used == IF scheduled THEN org[o].used ELSE org[o].used + 1
           at == IF org[o].resetAt = "null" THEN "future" ELSE org[o].resetAt
<1>1. org[o] \in OrgRow
  BY DEF TypeOK
<1>2. used \in Nat /\ at \in {"null", "future", "past"}
  BY <1>1 DEF OrgRow
<1>3. [org[o] EXCEPT !.used = used, !.resetAt = at] \in OrgRow
  <2> HIDE DEF used, at
  <2> QED  BY <1>1, <1>2 DEF OrgRow
<1>4. QED  BY <1>3 DEF Charged

LEMMA BlankDraft ==
  ASSUME NEW n \in Names, NEW c \in BOOLEAN, NEW m \in BOOLEAN
  PROVE  /\ \A o \in Orgs, scheduled \in BOOLEAN :
              [Blank EXCEPT !.status = "draft", !.owner = o, !.name = n,
                            !.scheduled = scheduled, !.cached = c, !.malware = m] \in ScanRow
         /\ [Blank EXCEPT !.status = "draft", !.name = n, !.cached = c, !.malware = m]
              \in ScanRow
  BY BlankType DEF ScanRow, Statuses

LEMMA RequestType == ASSUME TypeOK, Request PROVE TypeOK'
<1> USE DEF count, beat
<1>1. ASSUME NEW s \in Scans, NEW o \in Orgs, NEW n \in Names,
             NEW scheduled \in BOOLEAN, CreateBegin(s, o, n, scheduled)
      PROVE  TypeOK'
  <2>1. scan' \in [Scans -> ScanRow]
    BY <1>1, BlankDraft, SaveType DEF CreateBegin
  <2>2. QED  BY <1>1, <2>1 DEF TypeOK, CreateBegin
<1>2. ASSUME NEW s \in Scans, NEW n \in Names, PublicBegin(s, n)
      PROVE  TypeOK'
  <2>1. scan' \in [Scans -> ScanRow]
    BY <1>2, BlankDraft, SaveType DEF PublicBegin
  <2>2. QED  BY <1>2, <2>1 DEF TypeOK, PublicBegin
<1>3. ASSUME NEW s \in Scans, CreateCommit(s)  PROVE TypeOK'
  <2>1. scan[s].owner \in Orgs
    BY <1>3 DEF CreateCommit, TypeOK, ScanRow
  <2>2. scan' \in [Scans -> ScanRow]
    <3>1. org[scan[s].owner].period \in Nat
      BY <2>1 DEF TypeOK, OrgRow
    <3>2. QED  BY <1>3, <3>1, InsertedType, SaveType DEF CreateCommit
  <2>3. org' \in [Orgs -> OrgRow]
    <3>1. scan[s].scheduled \in BOOLEAN
      BY DEF TypeOK, ScanRow
    <3>2. QED  BY <1>3, <2>1, <3>1, ChargedType DEF TypeOK, CreateCommit
  <2>4. QED  BY <1>3, <2>2, <2>3 DEF TypeOK, CreateCommit
<1>4. ASSUME NEW s \in Scans, CreateRejected(s)  PROVE TypeOK'
  BY <1>4, BlankType, SaveType DEF TypeOK, CreateRejected
<1>5. ASSUME NEW s \in Scans, PublicCommit(s)  PROVE TypeOK'
  <2>1. scan' \in [Scans -> ScanRow]
    BY <1>5, InsertedType, SaveType DEF PublicCommit
  <2>2. QED  BY <1>5, <2>1 DEF TypeOK, PublicCommit
<1>6. ASSUME NEW s \in Scans, Publish(s)  PROVE TypeOK'
  BY <1>6, NewJobType, SendType DEF TypeOK, Publish
<1>7. ASSUME NEW s \in Scans, PublishFails(s) \/ PublishLost(s)  PROVE TypeOK'
  <2>1. scan' \in [Scans -> ScanRow]
    BY <1>7, FailedType, SaveType DEF TypeOK, PublishFails, PublishLost
  <2>2. QED  BY <1>7, <2>1 DEF TypeOK, PublishFails, PublishLost
<1>8. ASSUME NEW o \in Orgs, NEW n \in Names, DeleteDomain(o, n)  PROVE TypeOK'
  <2>1. scan' \in [Scans -> ScanRow]
    <3>1. \A s \in Scans : [scan[s] EXCEPT !.deleted = TRUE, !.stale = FALSE] \in ScanRow
      BY RowWrites DEF TypeOK, Statuses
    <3>2. QED  BY <1>8, <3>1 DEF TypeOK, DeleteDomain
  <2>2. QED  BY <1>8, <2>1 DEF TypeOK, DeleteDomain
<1>9. QED
  BY <1>1, <1>2, <1>3, <1>4, <1>5, <1>6, <1>7, <1>8 DEF Request

LEMMA DeliverType ==
  ASSUME TypeOK, NEW w \in Workers, Deliver(w)  PROVE TypeOK'
<1> USE DEF count, beat
<1>1. PICK j \in Job : \/ TriggerBegin(w, j) \/ ProcessBegin(w, j)
                       \/ BrowserBegin(w, j) \/ BrowserSkip(w, j)
  BY DEF Deliver
<1>2. CASE TriggerBegin(w, j)
  <2>1. /\ queue' \in [Job -> Nat] /\ worker' \in [Workers -> Busy \cup {Idle}]
        /\ j.scan \in Scans
    BY <1>2, ReceiveType DEF TriggerBegin, Steps
  <2>2. scan' \in [Scans -> ScanRow]
    BY <1>2, <2>1, RowWrites, SaveType DEF TypeOK, TriggerBegin, Statuses
  <2>3. QED  BY <1>2, <2>1, <2>2 DEF TypeOK, TriggerBegin
<1>3. CASE ProcessBegin(w, j)
  BY <1>3, ReceiveType DEF TypeOK, ProcessBegin, Steps
<1>4. CASE BrowserBegin(w, j)
  BY <1>4, ReceiveType DEF TypeOK, BrowserBegin, Steps
<1>5. CASE BrowserSkip(w, j)
  BY <1>5 DEF TypeOK, BrowserSkip
<1>6. QED  BY <1>1, <1>2, <1>3, <1>4, <1>5

\* Only a busy worker takes a step of a task.
LEMMA RunBusy ==
  ASSUME NEW w \in Workers, Run(w)  PROVE worker[w] # Idle
<1> SUFFICES ASSUME worker[w] = Idle PROVE FALSE
  OBVIOUS
<1>1. worker[w].pc = "idle" /\ worker[w].job.task = "none"
  BY DEF Idle, NoJob
<1>2. \A task, S : At(w, task, S) => task = "none"
  BY <1>1 DEF At
<1>3. QED
  BY <1>1, <1>2 DEF Run, TriggerFetched, TriggerPublish, TriggerRejected, TriggerError,
     ProcessChecked, ProcessCached, ProcessChain, ProcessMail, ProcessError, ProcessSoftLimit,
     BrowserSave, BrowserEnd, BrowserError, BrowserSoftLimit, Acknowledge

LEMMA RunType ==
  ASSUME TypeOK, NEW w \in Workers, Run(w)  PROVE TypeOK'
<1> USE DEF count, beat
<1> DEFINE s == ScanOf(w)
<1>1. worker[w] # Idle
  BY RunBusy
<1>2. worker[w] \in Busy /\ worker[w].job \in Job /\ s \in Scans
  BY <1>1, BusyWorker
<1>3. scan[s] \in ScanRow
  BY <1>2 DEF TypeOK
<1>4. CASE TriggerFetched(w)
  <2>1. scan' \in [Scans -> ScanRow]
    BY <1>2, <1>3, <1>4, RowWrites, SaveType DEF TriggerFetched, Statuses
  <2>2. QED  BY <1>1, <1>4, <2>1, GotoType DEF TypeOK, TriggerFetched, Steps
<1>5. CASE TriggerPublish(w)
  <2>1. [task |-> "process", scan |-> s, tries |-> 0, slug |-> worker[w].seen.slug] \in Job
    BY <1>2 DEF Job, Busy, Snapshot
  <2>2. QED  BY <1>1, <1>5, <2>1, SendType, GotoType DEF TypeOK, TriggerPublish, Steps
<1>6. CASE TriggerRejected(w) \/ ProcessSoftLimit(w)
  <2>1. scan' \in [Scans -> ScanRow]
    BY <1>2, <1>6, FailedType, SaveType DEF TriggerRejected, ProcessSoftLimit
  <2>2. QED  BY <1>6, <2>1, FinishType DEF TypeOK, TriggerRejected, ProcessSoftLimit
<1>7. CASE TriggerError(w) \/ ProcessError(w)
  BY <1>1, <1>7, RetryType, FinishType DEF TypeOK, TriggerError, ProcessError
<1>8. CASE ProcessChecked(w)
  <2>1. PICK bad \in Verdicts :
          /\ Save(s, [scan[s] EXCEPT !.status = "completed", !.malware = bad,
                                     !.judged = Judged(s, bad)])
          /\ worker' = [worker EXCEPT ![w] = [@ EXCEPT !.pc = "cache", !.seen.malware = bad]]
    BY <1>8 DEF ProcessChecked
  <2>2. scan' \in [Scans -> ScanRow]
    BY <1>2, <1>3, <2>1, JudgedRow, SaveType
  <2>3. [worker[w] EXCEPT !.pc = "cache", !.seen.malware = bad] \in Busy
    BY <1>2 DEF Busy, Snapshot, Steps
  <2>4. QED  BY <1>8, <2>1, <2>2, <2>3 DEF TypeOK, ProcessChecked
<1>9. CASE ProcessCached(w)
  <2>1. cache' \in [Slugs \X Names -> {"miss", "clean", "malware"}]
    BY <1>2, <1>9 DEF TypeOK, ProcessCached
  <2>2. QED  BY <1>1, <1>9, <2>1, GotoType DEF TypeOK, ProcessCached, Steps
<1>10. CASE ProcessChain(w)
  BY <1>1, <1>2, <1>10, SendType, NewJobType, GotoType DEF TypeOK, ProcessChain, Steps
<1>11. CASE BrowserSave(w)
  <2>1. PICK found \in Verdicts :
          Save(s, [scan[s] EXCEPT !.browser = found,
                                  !.malware = AfterBrowser(worker[w].seen.malware, found)])
    BY <1>11 DEF BrowserSave
  <2>2. AfterBrowser(worker[w].seen.malware, found) \in BOOLEAN
    BY DEF AfterBrowser
  <2>3. scan' \in [Scans -> ScanRow]
    BY <1>2, <1>3, <2>1, <2>2, RowWrites, SaveType DEF Statuses
  <2>4. QED  BY <1>1, <1>11, <2>3, GotoType DEF TypeOK, BrowserSave, Steps
<1>12. CASE BrowserEnd(w) \/ Acknowledge(w)
  BY <1>12, FinishType DEF TypeOK, BrowserEnd, Acknowledge
<1>13. CASE BrowserError(w)
  <2>1. queue' \in [Job -> Nat]
    BY <1>2, <1>13, SendType, RetryJob DEF TypeOK, BrowserError
  <2>2. scan' \in [Scans -> ScanRow]
    BY <1>2, <1>3, <1>13, RowWrites, SaveType DEF TypeOK, BrowserError, ScanOf, Statuses
  <2>3. QED  BY <1>13, <2>1, <2>2, FinishType DEF TypeOK, BrowserError
<1>14. CASE BrowserSoftLimit(w)
  <2>1. scan' \in [Scans -> ScanRow]
    BY <1>2, <1>3, <1>14, RowWrites, SaveType DEF BrowserSoftLimit, Statuses
  <2>2. QED  BY <1>14, <2>1, FinishType DEF TypeOK, BrowserSoftLimit
<1>15. CASE ProcessMail(w)
  BY <1>1, <1>15, GotoType DEF TypeOK, ProcessMail, Steps
<1>16. QED
  BY <1>4, <1>5, <1>6, <1>7, <1>8, <1>9, <1>10, <1>11, <1>12, <1>13, <1>14, <1>15 DEF Run

LEMMA RenewedType == ASSUME NEW r \in OrgRow PROVE Renewed(r) \in OrgRow
<1>1. r.plan \in Plans \cup {NoPlan} /\ r.period \in Nat \ {0}
  BY DEF OrgRow
<1>2. QuotaOf(r.plan) \in Nat \cup {Unlimited}
  BY <1>1, QuotaOfType
<1>3. ASSUME NEW q \in Nat \cup {Unlimited}, NEW n \in Nat \ {0}
      PROVE  [r EXCEPT !.used = 0, !.resetAt = "future", !.period = n, !.ceiling = q] \in OrgRow
  BY DEF OrgRow
<1>4. r.period + 1 \in Nat \ {0}
  BY <1>1
<1>5. QED  BY <1>2, <1>3, <1>4 DEF Renewed

LEMMA BeatType == ASSUME TypeOK, Beat PROVE TypeOK'
<1> USE DEF count, beat
<1>1. ASSUME NEW s \in Scans, GrowStale(s)  PROVE TypeOK'
  <2>1. scan' \in [Scans -> ScanRow]
    BY <1>1, RowWrites DEF TypeOK, GrowStale, Statuses
  <2>2. QED  BY <1>1, <2>1 DEF TypeOK, GrowStale
<1>2. CASE CleanupSelect \/ ResetSelect
  BY <1>2 DEF TypeOK, CleanupSelect, ResetSelect
<1>3. CASE CleanupFail
  <2>1. \A s \in Scans : [Failed(s) EXCEPT !.stale = FALSE] \in ScanRow
    BY FailedType, RowWrites DEF Statuses
  <2>2. QED  BY <1>3, <2>1 DEF TypeOK, CleanupFail
<1>4. ASSUME NEW o \in Orgs, MonthPasses(o)  PROVE TypeOK'
  <2>1. org' \in [Orgs -> OrgRow]
    BY <1>4 DEF TypeOK, MonthPasses, OrgRow
  <2>2. QED  BY <1>4, <2>1 DEF TypeOK, MonthPasses
<1>5. \A o \in Orgs : Renewed(org[o]) \in OrgRow
  BY RenewedType DEF TypeOK
<1>6. CASE ResetUpdate \/ ResetNull
  BY <1>5, <1>6 DEF TypeOK, ResetUpdate, ResetNull
<1>7. ASSUME NEW e \in Slugs \X Names, CacheExpires(e)  PROVE TypeOK'
  BY <1>7 DEF TypeOK, CacheExpires
<1>8. ASSUME NEW o \in Orgs, LockExpires(o)  PROVE TypeOK'
  BY <1>8 DEF TypeOK, LockExpires
<1>9. QED  BY <1>1, <1>2, <1>3, <1>4, <1>6, <1>7, <1>8 DEF Beat

LEMMA PlanType ==
  ASSUME TypeOK, NEW o \in Orgs, NEW p \in Plans \cup {NoPlan}, ChangePlan(o, p)
  PROVE  TypeOK'
<1> DEFINE q == Wider(org[o].ceiling, QuotaOf(p))
<1>1. org[o] \in OrgRow
  BY DEF TypeOK
<1>2. q \in Nat \cup {Unlimited}
  BY <1>1, QuotaOfType, WiderType DEF OrgRow
<1>3. [org[o] EXCEPT !.plan = p, !.ceiling = q] \in OrgRow
  BY <1>1, <1>2 DEF OrgRow
<1>4. org' = [org EXCEPT ![o] = [org[o] EXCEPT !.plan = p, !.ceiling = q]]
  BY DEF ChangePlan, TypeOK
<1>5. QED  BY <1>3, <1>4 DEF TypeOK, ChangePlan, beat

LEMMA LossType ==
  ASSUME TypeOK, NEW w \in Workers, WorkerLost(w) \/ HardTimeLimit(w)
  PROVE  TypeOK'
  BY BusyWorker, SendType, FinishType DEF TypeOK, WorkerLost, HardTimeLimit, beat, count

LEMMA TypeInit == Init => TypeOK
<1> SUFFICES ASSUME Init PROVE TypeOK
  OBVIOUS
<1>1. org \in [Orgs -> OrgRow]
  <2>1. PICK plan \in [Orgs -> Plans \cup {NoPlan}], at \in [Orgs -> {"null", "future"}] :
          org = [o \in Orgs |-> [plan |-> plan[o], used |-> 0, resetAt |-> at[o],
                                period |-> 1, ceiling |-> QuotaOf(plan[o])]]
    BY DEF Init
  <2>2. QED  BY <2>1, QuotaOfType DEF OrgRow
<1>2. QED  BY <1>1, BlankType DEF Init, TypeOK

LEMMA TypeStep == TypeOK /\ [Next]_vars => TypeOK'
<1>1. TypeOK /\ UNCHANGED vars => TypeOK'
  BY DEF TypeOK, vars
<1>2. QED
  BY <1>1, RequestType, DeliverType, RunType, LossType, BeatType, PlanType DEF Next

\* Every reachable state is well typed: in particular no counter leaves the naturals and
\* the queue only ever holds well-formed messages, so no retry count passes its maximum.
THEOREM TypeCorrect == Spec => []TypeOK
  BY TypeInit, TypeStep, PTL DEF Spec

-----------------------------------------------------------------------------
(* The quota: both the use and the plan in force stay under the period's ceiling. *)

Within(a, b) == b = Unlimited \/ (a # Unlimited /\ a <= b)

QuotaInv == \A o \in Orgs : /\ Within(QuotaOf(org[o].plan), org[o].ceiling)
                            /\ Within(org[o].used, org[o].ceiling)

LEMMA ChargedFields ==
  ASSUME TypeOK, NEW o \in Orgs, NEW scheduled \in BOOLEAN
  PROVE  /\ Charged(o, scheduled).used = IF scheduled THEN org[o].used ELSE org[o].used + 1
         /\ Charged(o, scheduled).plan = org[o].plan
         /\ Charged(o, scheduled).period = org[o].period
         /\ Charged(o, scheduled).ceiling = org[o].ceiling
  BY DEF TypeOK, OrgRow, Charged

LEMMA RenewedFields ==
  ASSUME NEW r \in OrgRow
  PROVE  /\ Renewed(r).used = 0 /\ Renewed(r).plan = r.plan
         /\ Renewed(r).period = r.period + 1 /\ Renewed(r).ceiling = QuotaOf(r.plan)
<1>1. ASSUME NEW q, NEW n
      PROVE  LET x == [r EXCEPT !.used = 0, !.resetAt = "future", !.period = n, !.ceiling = q]
             IN  x.used = 0 /\ x.plan = r.plan /\ x.period = n /\ x.ceiling = q
  BY DEF OrgRow
<1>2. QED  BY <1>1 DEF Renewed

LEMMA CreateCommitRows ==
  ASSUME TypeOK, NEW s \in Scans, CreateCommit(s)
  PROVE  /\ scan[s].owner \in Orgs /\ scan[s].scheduled \in BOOLEAN
         /\ org' = [org EXCEPT ![scan[s].owner] = Charged(scan[s].owner, scan[s].scheduled)]
         /\ Admissible(s) /\ scan[s].status = "draft"
  BY DEF TypeOK, ScanRow, CreateCommit

\* How a step changes an organisation's row.
OrgStep(o) ==
    \/ /\ org'[o].used = org[o].used /\ org'[o].plan = org[o].plan
       /\ org'[o].period = org[o].period /\ org'[o].ceiling = org[o].ceiling
    \/ \E s \in Scans : CreateCommit(s) /\ scan[s].owner = o /\ org'[o] = Charged(o, scan[s].scheduled)
    \/ org'[o] = Renewed(org[o])
    \/ \E p \in Plans \cup {NoPlan} :
         /\ org'[o].used = org[o].used /\ org'[o].period = org[o].period
         /\ org'[o].plan = p /\ org'[o].ceiling = Wider(org[o].ceiling, QuotaOf(p))

LEMMA OrgSteps ==
  ASSUME TypeOK, [Next]_vars, NEW o \in Orgs  PROVE OrgStep(o)
<1>0. org[o] \in OrgRow
  BY DEF TypeOK
<1>1. ASSUME UNCHANGED org  PROVE OrgStep(o)
  BY <1>1 DEF OrgStep
<1>2. ASSUME NEW s \in Scans, CreateCommit(s)  PROVE OrgStep(o)
  <2>1. CASE scan[s].owner = o
    BY <1>2, <2>1, CreateCommitRows DEF OrgStep, TypeOK
  <2>2. CASE scan[s].owner # o
    BY <1>2, <2>2, CreateCommitRows DEF OrgStep, TypeOK
  <2>3. QED  BY <2>1, <2>2
<1>3. ASSUME NEW q \in Orgs, MonthPasses(q)  PROVE OrgStep(o)
  <2>1. CASE q = o
    <3>1. org'[o] = [org[o] EXCEPT !.resetAt = "past"]
      BY <1>3, <2>1 DEF MonthPasses, TypeOK
    <3>2. QED  BY <1>0, <3>1 DEF OrgStep, OrgRow
  <2>2. CASE q # o
    BY <1>3, <2>2 DEF MonthPasses, OrgStep, TypeOK
  <2>3. QED  BY <2>1, <2>2
<1>4. CASE ResetUpdate \/ ResetNull
  BY <1>4 DEF ResetUpdate, ResetNull, OrgStep
<1>5. ASSUME NEW q \in Orgs, NEW p \in Plans \cup {NoPlan}, ChangePlan(q, p)  PROVE OrgStep(o)
  <2>1. CASE q = o
    <3> DEFINE c == Wider(org[o].ceiling, QuotaOf(p))
    <3>1. org'[o] = [org[o] EXCEPT !.plan = p, !.ceiling = c]
      BY <1>5, <2>1 DEF ChangePlan, TypeOK
    <3> HIDE DEF c
    <3>2. /\ org'[o].used = org[o].used /\ org'[o].period = org[o].period
          /\ org'[o].plan = p /\ org'[o].ceiling = c
      BY <1>0, <3>1 DEF OrgRow
    <3>3. QED  BY <3>2 DEF OrgStep, c
  <2>2. CASE q # o
    BY <1>5, <2>2 DEF ChangePlan, OrgStep, TypeOK
  <2>3. QED  BY <2>1, <2>2
<1>6. ASSUME Request  PROVE OrgStep(o)
  BY <1>1, <1>2, <1>6 DEF Request, CreateBegin, PublicBegin, CreateRejected, PublicCommit,
     Publish, PublishFails, PublishLost, DeleteDomain
<1>7. ASSUME NEW w \in Workers, Deliver(w) \/ Run(w) \/ WorkerLost(w) \/ HardTimeLimit(w)
      PROVE  OrgStep(o)
  BY <1>1, <1>7 DEF Deliver, TriggerBegin, ProcessBegin, BrowserBegin, BrowserSkip, Run,
     TriggerFetched, TriggerPublish, TriggerRejected, TriggerError, ProcessChecked,
     ProcessCached, ProcessChain, ProcessMail, ProcessError, ProcessSoftLimit, BrowserSave,
     BrowserEnd, BrowserError, BrowserSoftLimit, Acknowledge, WorkerLost, HardTimeLimit
<1>8. ASSUME Beat  PROVE OrgStep(o)
  BY <1>1, <1>3, <1>4, <1>8 DEF Beat, GrowStale, CleanupSelect, CleanupFail, LockExpires,
     ResetSelect, CacheExpires
<1>9. QED
  BY <1>1, <1>5, <1>6, <1>7, <1>8 DEF Next, vars

LEMMA QuotaInit == Init => QuotaInv
<1> SUFFICES ASSUME Init, NEW o \in Orgs
             PROVE  /\ Within(QuotaOf(org[o].plan), org[o].ceiling)
                    /\ Within(org[o].used, org[o].ceiling)
  BY DEF QuotaInv
<1>1. /\ org[o].used = 0 /\ org[o].ceiling = QuotaOf(org[o].plan)
      /\ org[o].plan \in Plans \cup {NoPlan}
  BY DEF Init
<1>2. QED  BY <1>1, QuotaOfType DEF Within, Unlimited

LEMMA QuotaStep ==
  ASSUME TypeOK, QuotaInv, [Next]_vars  PROVE QuotaInv'
<1> SUFFICES ASSUME NEW o \in Orgs
             PROVE  /\ Within(QuotaOf(org'[o].plan), org'[o].ceiling)
                    /\ Within(org'[o].used, org'[o].ceiling)
  BY DEF QuotaInv
<1>1. /\ org[o] \in OrgRow /\ org[o].used \in Nat
      /\ org[o].plan \in Plans \cup {NoPlan} /\ org[o].ceiling \in Nat \cup {Unlimited}
  BY DEF TypeOK, OrgRow
<1>2. /\ Within(QuotaOf(org[o].plan), org[o].ceiling) /\ Within(org[o].used, org[o].ceiling)
      /\ QuotaOf(org[o].plan) \in Nat \cup {Unlimited}
  BY <1>1, QuotaOfType DEF QuotaInv
<1>3. CASE /\ org'[o].used = org[o].used /\ org'[o].plan = org[o].plan
           /\ org'[o].ceiling = org[o].ceiling
  BY <1>2, <1>3
<1>4. ASSUME NEW s \in Scans, CreateCommit(s), scan[s].owner = o,
             org'[o] = Charged(o, scan[s].scheduled)
      PROVE  /\ Within(QuotaOf(org'[o].plan), org'[o].ceiling)
             /\ Within(org'[o].used, org'[o].ceiling)
  <2>1. scan[s].scheduled \in BOOLEAN /\ Admissible(s)
    BY <1>4, CreateCommitRows
  <2>2. /\ org'[o].used = IF scan[s].scheduled THEN org[o].used ELSE org[o].used + 1
        /\ org'[o].plan = org[o].plan /\ org'[o].ceiling = org[o].ceiling
    BY <1>4, <2>1, ChargedFields
  <2>3. CASE scan[s].scheduled
    BY <1>2, <2>2, <2>3
  <2>4. CASE ~scan[s].scheduled
    <3>1. QuotaOf(org[o].plan) = Unlimited \/ org[o].used < QuotaOf(org[o].plan)
      BY <1>4, <2>1, <2>4 DEF Admissible, HasQuota
    <3>2. QED  BY <1>1, <1>2, <2>2, <2>4, <3>1 DEF Within, Unlimited
  <2>5. QED  BY <2>1, <2>3, <2>4
<1>5. CASE org'[o] = Renewed(org[o])
  BY <1>1, <1>2, <1>5, RenewedFields DEF Within, Unlimited
<1>6. ASSUME NEW p \in Plans \cup {NoPlan}, org'[o].used = org[o].used,
             org'[o].plan = p, org'[o].ceiling = Wider(org[o].ceiling, QuotaOf(p))
      PROVE  /\ Within(QuotaOf(org'[o].plan), org'[o].ceiling)
             /\ Within(org'[o].used, org'[o].ceiling)
  <2>1. QuotaOf(p) \in Nat \cup {Unlimited}
    BY QuotaOfType
  <2>2. ASSUME NEW a \in Nat \cup {Unlimited}, NEW b \in Nat \cup {Unlimited}, NEW n \in Nat,
               Within(n, a)
        PROVE  Within(n, Wider(a, b)) /\ Within(b, Wider(a, b))
    BY <2>2 DEF Within, Wider, Unlimited
  <2>3. Within(org[o].used, Wider(org[o].ceiling, QuotaOf(p)))
    BY <1>1, <1>2, <2>1, <2>2
  <2>4. Within(QuotaOf(p), Wider(org[o].ceiling, QuotaOf(p)))
    BY <1>1, <1>2, <2>1, <2>2
  <2>5. QED  BY <1>6, <2>3, <2>4
<1>7. QED  BY <1>3, <1>4, <1>5, <1>6, OrgSteps DEF OrgStep

\* For any set of organisations, plans and quotas, concurrent requests, plan changes and
\* the quota reset never let an organisation use more than its period's ceiling.
THEOREM QuotaNeverExceeded == Spec => []QuotaRespected
<1>1. QuotaInv => QuotaRespected
  BY DEF QuotaInv, QuotaRespected, Within
<1>2. QED  BY <1>1, QuotaInit, QuotaStep, TypeCorrect, PTL DEF Spec
=============================================================================
