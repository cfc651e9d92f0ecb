------------------------ MODULE BackgroundJobsProofs ------------------------
(***************************************************************************)
(* For any number of drafts, jobs and reports: whatever waits in the queue *)
(* can be claimed, so that its head never stops the jobs behind it; a      *)
(* summary counts no more calls than it is allowed; and a draft that was   *)
(* thrown away does not come back.                                         *)
(*                                                                         *)
(* The argument for the queue: a draft has one job, and every step that    *)
(* makes a job pointless takes it out of the queue in the same             *)
(* transaction.  For the calls: an attempt begins with what is left, and   *)
(* counts from what was counted when it began.                             *)
(***************************************************************************)
EXTENDS BackgroundJobs, TLAPS

-----------------------------------------------------------------------------
(* The invariant.                                                          *)

ShownIsPublished == ~withdrawn => published \in Results

\* A job is about one draft or one report, for good.
JobsHold ==
  \A j \in Jobs :
    /\ jobs[j].status = "ABSENT" => jobs[j] = AbsentJob
    /\ jobs[j].status # "ABSENT" /\ jobs[j].draft = "none" => jobs[j].report \in Reports
    /\ jobs[j].draft # "none" => drafts[jobs[j].draft].status # "ABSENT"

OneJobPerDraft ==
  \A j, k \in Jobs : jobs[j].draft # "none" /\ jobs[j].draft = jobs[k].draft => j = k

\* What a job in the queue is for is still wanted.
QueueHolds ==
  \A j \in Jobs : jobs[j].status = "PENDING" =>
    IF jobs[j].draft # "none" THEN drafts[jobs[j].draft].status = "PROCESSING"
    ELSE IsCurrent(jobs[j].report[1])

\* The attempt under way cannot count more calls than the report has left.
WorkerWithinBudget ==
  /\ worker.job # 0 => jobs[worker.job].status # "ABSENT"
  /\ worker.job # 0 /\ jobs[worker.job].draft = "none" =>
       worker.made <= worker.limit /\ worker.before + worker.limit <= MaxCalls

JobsInv == /\ TypeOK
           /\ ShownIsPublished
           /\ JobsHold
           /\ OneJobPerDraft
           /\ QueueHolds
           /\ CallsWithinBudget
           /\ WorkerWithinBudget

-----------------------------------------------------------------------------
(* The tables.                                                             *)

LEMMA SupersededJobs ==
  ASSUME TypeOK, NEW overtaken
  PROVE  /\ Superseded(overtaken) \in [Jobs -> Job]
         /\ \A j \in Jobs :
              /\ Superseded(overtaken)[j].draft = jobs[j].draft
              /\ Superseded(overtaken)[j].report = jobs[j].report
              /\ Superseded(overtaken)[j].status # jobs[j].status =>
                   /\ Superseded(overtaken)[j].status = "SUPERSEDED"
                   /\ jobs[j].status # "ABSENT"
              /\ j \in overtaken => Superseded(overtaken)[j].status # "PENDING"
  BY DEF TypeOK, Superseded, Job, Live

LEMMA NoneIsNoDraft == "none" \notin Drafts /\ 0 \notin Jobs
  BY BoundsAssumption DEF Jobs

\* The rows that are inserted.
DraftJob(d)  == [AbsentJob EXCEPT !.status = "PENDING", !.draft = d]
ReportJob(r) == [AbsentJob EXCEPT !.status = "PENDING", !.report = r]

LEMMA NewRows ==
  /\ \A d \in Drafts : /\ DraftJob(d) \in Job
                       /\ DraftJob(d).status = "PENDING" /\ DraftJob(d).draft = d
  /\ \A r \in Reports : /\ ReportJob(r) \in Job
                        /\ ReportJob(r).status = "PENDING"
                        /\ ReportJob(r).draft = "none" /\ ReportJob(r).report = r
  BY DEF AbsentJob, DraftJob, ReportJob, Job

\* The report of the current result that a model is asked for.
LEMMA CreateSummaryStep ==
  ASSUME TypeOK, ShownIsPublished, NEW m \in Models, CreateSummary(m)
  PROVE  \E r \in Reports, previous \in SUBSET Reports, j \in Jobs :
           /\ r[1] = published /\ ~withdrawn
           /\ jobs[j].status = "ABSENT"
           /\ jobs' = [Superseded(OfReports(previous)) EXCEPT ![j] = ReportJob(r)]
           /\ reports'[r] = [status |-> "PENDING", calls_used |-> 0]
           /\ \A p \in Reports : p # r =>
                \/ reports'[p] = reports[p]
                \/ reports'[p] = [reports[p] EXCEPT !.status = "STALE"]
           /\ reports' \in [Reports -> Report]
           /\ UNCHANGED <<published, withdrawn, drafts, worker>>
  <1> DEFINE r == <<published, m>>
             previous == {p \in Reports : p[1] = published /\ reports[p].status
                                            \notin {"ABSENT", "STALE"}}
  <1>1. r \in Reports /\ r[1] = published
    BY DEF CreateSummary, ShownIsPublished, Reports
  <1>2. r \notin previous
    BY DEF CreateSummary
  <1>3. PICK j \in Jobs :
          /\ jobs[j].status = "ABSENT"
          /\ jobs' = [Superseded(OfReports(previous)) EXCEPT ![j] = ReportJob(r)]
    BY DEF CreateSummary, IsNewJob, ReportJob
  <1>4. reports' = [p \in Reports |->
                       CASE p = r -> [status |-> "PENDING", calls_used |-> 0]
                         [] p \in previous -> [reports[p] EXCEPT !.status = "STALE"]
                         [] OTHER -> reports[p]]
    BY DEF CreateSummary
  <1>5. ~withdrawn /\ UNCHANGED <<published, withdrawn, drafts, worker>>
    BY DEF CreateSummary
  <1>6. previous \in SUBSET Reports
    OBVIOUS
  <1> HIDE DEF r, previous
  <1>7. /\ reports'[r] = [status |-> "PENDING", calls_used |-> 0]
        /\ \A p \in Reports : p # r =>
             \/ reports'[p] = reports[p]
             \/ reports'[p] = [reports[p] EXCEPT !.status = "STALE"]
    BY <1>1, <1>2, <1>4
  <1>8. reports' \in [Reports -> Report]
    <2> SUFFICES ASSUME NEW p \in Reports PROVE reports'[p] \in Report
      BY <1>4
    <2>1. CASE p = r
      BY <1>7, <2>1 DEF Report
    <2>2. CASE p # r
      BY <1>7, <2>2 DEF TypeOK, Report
    <2> QED BY <2>1, <2>2
  <1> QED BY <1>1, <1>3, <1>5, <1>6, <1>7, <1>8

-----------------------------------------------------------------------------
(* What each step does.                                                    *)

LEMMA InsertSteps ==
  /\ \A d \in Drafts : UploadDraft(d) =>
       \E j \in Jobs : jobs[j].status = "ABSENT"
                       /\ jobs' = [jobs EXCEPT ![j] = DraftJob(d)]
  /\ \A r \in Reports : RetrySummary(r) =>
       \E j \in Jobs : jobs[j].status = "ABSENT"
                       /\ jobs' = [jobs EXCEPT ![j] = ReportJob(r)]
  BY DEF UploadDraft, RetrySummary, IsNewJob, DraftJob, ReportJob

\* A step of the worker on the job it works on, or that it takes.
Changes(j, status) == jobs' = [jobs EXCEPT ![j].status = status]

LEMMA JobsTypeStep ==
  ASSUME JobsInv, [Next]_vars
  PROVE  TypeOK'
  <1> USE DEF JobsInv
  <1>0. /\ drafts \in [Drafts -> Draft] /\ reports \in [Reports -> Report]
        /\ jobs \in [Jobs -> Job] /\ published \in 0 .. MaxResults
        /\ withdrawn \in BOOLEAN
        /\ worker \in [job : Jobs \cup {0}, before : Nat, made : Nat, limit : Nat]
    BY DEF TypeOK
  <1> DEFINE Workers == [job : Jobs \cup {0}, before : Nat, made : Nat, limit : Nat]
  <1>1. published' \in 0 .. MaxResults /\ withdrawn' \in BOOLEAN
    <2>1. CASE Publish
      <3>1. published' = published + 1 /\ published < MaxResults /\ withdrawn' = FALSE
        BY <2>1 DEF Publish
      <3>2. published' \in 0 .. MaxResults
        BY <1>0, <3>1, BoundsAssumption
      <3> QED BY <3>1, <3>2
    <2>2. CASE Withdraw
      BY <1>0, <2>2 DEF Withdraw
    <2>3. CASE UNCHANGED <<published, withdrawn>>
      BY <1>0, <2>3
    <2> QED BY <2>1, <2>2, <2>3
            DEF Next, UserStep, WorkerStep, Ends, UploadDraft, DiscardDraft, UseDraft,
                CreateSummary, RetrySummary, ClaimDraft, ClaimSummary, CallModel,
                DraftParsed, DraftFailed, SummaryWritten, SummaryFailed, Crash, vars
  <1>2. drafts' \in [Drafts -> Draft]
    <2>1. CASE UNCHANGED drafts
      BY <1>0, <2>1
    <2>2. ASSUME NEW d, NEW st \in {"PROCESSING", "READY", "FAILED", "DISCARDED"},
                 drafts' = [drafts EXCEPT ![d].status = st]
          PROVE  drafts' \in [Drafts -> Draft]
      BY <1>0, <2>2 DEF Draft
    <2>3. ASSUME NEW d \in Drafts, UseDraft(d)
          PROVE  drafts' \in [Drafts -> Draft]
      BY <1>0, <2>3 DEF UseDraft, Draft
    <2>4. \A d : \/ UploadDraft(d) \/ DiscardDraft(d)
                 \/ \E j : ClaimDraft(j) \/ DraftParsed(j) \/ DraftFailed(j)
                 => drafts' \in [Drafts -> Draft]
      BY <2>1, <2>2 DEF UploadDraft, DiscardDraft, ClaimDraft, DraftParsed, DraftFailed
    <2> QED BY <2>1, <2>3, <2>4
            DEF Next, UserStep, WorkerStep, Ends, Publish, Withdraw,
                CreateSummary, RetrySummary, ClaimSummary, CallModel,
                SummaryWritten, SummaryFailed, Crash, vars
  <1>3. reports' \in [Reports -> Report]
    <2>1. CASE UNCHANGED reports
      BY <1>0, <2>1
    <2>2. CASE Withdraw
      BY <1>0, <2>2 DEF Withdraw, Report
    <2>3. ASSUME NEW m \in Models, CreateSummary(m)
          PROVE  reports' \in [Reports -> Report]
      BY <2>3, CreateSummaryStep
    <2>4. ASSUME NEW r, RetrySummary(r)
          PROVE  reports' \in [Reports -> Report]
      BY <1>0, <2>4 DEF RetrySummary, Report
    <2>5. ASSUME NEW j, ClaimSummary(j)
          PROVE  reports' \in [Reports -> Report]
      BY <1>0, <2>5 DEF ClaimSummary, Report
    <2>6. ASSUME NEW j, SummaryWritten(j) \/ SummaryFailed(j)
          PROVE  reports' \in [Reports -> Report]
      <3>1. ASSUME NEW r, NEW st \in {"SUCCEEDED", "FAILED"},
                   NEW counted \in {0, worker.made},
                   reports' = [reports EXCEPT ![r] =
                     [status |-> st, calls_used |-> worker.before + counted]]
            PROVE  reports' \in [Reports -> Report]
        <4>1. worker.before + counted \in Nat
          BY <1>0
        <4> QED BY <1>0, <3>1, <4>1 DEF Report
      <3>2. CASE SummaryWritten(j)
        BY <3>1, <3>2 DEF SummaryWritten
      <3>3. CASE SummaryFailed(j)
        BY <3>1, <3>3 DEF SummaryFailed
      <3> QED BY <2>6, <3>2, <3>3
    <2> QED BY <2>1, <2>2, <2>3, <2>4, <2>5, <2>6
            DEF Next, UserStep, WorkerStep, Ends, Publish, UploadDraft, DiscardDraft,
                UseDraft, ClaimDraft, CallModel, DraftParsed, DraftFailed, Crash, vars
  <1>4. jobs' \in [Jobs -> Job]
    <2>1. CASE UNCHANGED jobs
      BY <1>0, <2>1
    <2>2. ASSUME NEW s, jobs' = Superseded(s)
          PROVE  jobs' \in [Jobs -> Job]
      BY <2>2, SupersededJobs
    <2>3. ASSUME NEW m \in Models, CreateSummary(m)
          PROVE  jobs' \in [Jobs -> Job]
      BY <2>3, CreateSummaryStep, NewRows, SupersededJobs
    <2>4. ASSUME NEW r \in Reports, RetrySummary(r)
          PROVE  jobs' \in [Jobs -> Job]
      BY <1>0, <2>4, NewRows, InsertSteps
    <2>5. ASSUME NEW d \in Drafts, UploadDraft(d)
          PROVE  jobs' \in [Jobs -> Job]
      BY <1>0, <2>5, NewRows, InsertSteps
    <2>6. ASSUME NEW j, NEW st \in {"RUNNING", "SUCCEEDED", "FAILED"}, Changes(j, st)
          PROVE  jobs' \in [Jobs -> Job]
      BY <1>0, <2>6 DEF Job, Changes
    <2>7. \A j : ClaimDraft(j) \/ ClaimSummary(j) \/ Ends(j) => jobs' \in [Jobs -> Job]
      BY <2>6 DEF ClaimDraft, ClaimSummary, Ends, DraftParsed, DraftFailed,
                  SummaryWritten, SummaryFailed, Changes
    <2>8. \A d : DiscardDraft(d) => jobs' \in [Jobs -> Job]
      BY <2>2 DEF DiscardDraft
    <2> QED BY <2>1, <2>2, <2>3, <2>4, <2>5, <2>7, <2>8
            DEF Next, UserStep, WorkerStep, Publish, Withdraw, UseDraft,
                CallModel, Crash, vars
  <1>5. worker' \in Workers
    <2>1. CASE UNCHANGED worker
      BY <1>0, <2>1
    <2>2. CASE worker' = Idle
      BY <2>2 DEF Idle
    <2>3. ASSUME NEW j \in Jobs, ClaimDraft(j)
          PROVE  worker' \in Workers
      BY <2>3, BoundsAssumption DEF ClaimDraft
    <2>4. ASSUME NEW j \in Jobs, ClaimSummary(j)
          PROVE  worker' \in Workers
      <3>1. jobs[j].report \in Reports
        BY <2>4 DEF ClaimSummary, IsOldest, Pending, IsDraftJob, JobsHold
      <3>2. /\ reports[jobs[j].report].calls_used \in Nat
            /\ reports[jobs[j].report].calls_used <= MaxCalls
        BY <1>0, <3>1 DEF Report, CallsWithinBudget
      <3>3. Allowance(jobs[j].report) \in Nat
        BY <3>2, BoundsAssumption DEF Allowance, Smaller
      <3> QED BY <2>4, <3>2, <3>3 DEF ClaimSummary
    <2>5. ASSUME NEW j \in Jobs, CallModel(j)
          PROVE  worker' \in Workers
      BY <1>0, <2>5 DEF CallModel
    <2> QED BY <2>1, <2>2, <2>3, <2>4, <2>5
            DEF Next, UserStep, WorkerStep, Ends, Publish, Withdraw, UploadDraft,
                DiscardDraft, UseDraft, CreateSummary, RetrySummary, DraftParsed,
                DraftFailed, SummaryWritten, SummaryFailed, Crash, vars
  <1> QED BY <1>1, <1>2, <1>3, <1>4, <1>5 DEF TypeOK

\* What a step may do to a job.
Updates(j) == /\ jobs[j].status # "ABSENT"
              /\ jobs'[j].draft = jobs[j].draft /\ jobs'[j].report = jobs[j].report
              /\ jobs'[j].status \notin {"ABSENT", "PENDING"}
Inserts(j) == /\ jobs[j].status = "ABSENT"
              /\ \/ \E d \in Drafts : UploadDraft(d) /\ jobs'[j] = DraftJob(d)
                 \/ \E r \in Reports : /\ jobs'[j] = ReportJob(r)
                                       /\ UNCHANGED <<published, withdrawn, drafts>>
                                       /\ IsCurrent(r[1])

LEMMA JobSteps ==
  ASSUME JobsInv, [Next]_vars
  PROVE  \A j \in Jobs : jobs'[j] = jobs[j] \/ Updates(j) \/ Inserts(j)
  <1> USE DEF JobsInv
  <1>0. jobs \in [Jobs -> Job]
    BY DEF TypeOK
  <1>1. ASSUME NEW s, jobs' = Superseded(s), NEW j \in Jobs
        PROVE  jobs'[j] = jobs[j] \/ Updates(j)
    BY <1>0, <1>1 DEF Superseded, Live, Updates, Job
  <1>2. ASSUME NEW d \in Drafts, UploadDraft(d), NEW j \in Jobs
        PROVE  jobs'[j] = jobs[j] \/ Inserts(j)
    BY <1>0, <1>2, InsertSteps DEF Inserts
  <1>3. ASSUME NEW r \in Reports, RetrySummary(r), NEW j \in Jobs
        PROVE  jobs'[j] = jobs[j] \/ Inserts(j)
    <2>1. UNCHANGED <<published, withdrawn, drafts>> /\ IsCurrent(r[1])
      BY <1>3 DEF RetrySummary
    <2> QED BY <1>0, <1>3, <2>1, InsertSteps DEF Inserts
  <1>4. ASSUME NEW m \in Models, CreateSummary(m), NEW j \in Jobs
        PROVE  jobs'[j] = jobs[j] \/ Updates(j) \/ Inserts(j)
    <2>1. PICK r \in Reports, previous \in SUBSET Reports, k \in Jobs :
            /\ r[1] = published /\ ~withdrawn
            /\ jobs[k].status = "ABSENT"
            /\ jobs' = [Superseded(OfReports(previous)) EXCEPT ![k] = ReportJob(r)]
            /\ UNCHANGED <<published, withdrawn, drafts, worker>>
      BY <1>4, CreateSummaryStep
    <2>2. CASE j = k
      BY <2>1, <2>2, SupersededJobs DEF Inserts, IsCurrent
    <2>3. CASE j # k
      <3>1. jobs'[j] = Superseded(OfReports(previous))[j]
        BY <2>1, <2>3, SupersededJobs
      <3> QED BY <1>0, <3>1 DEF Superseded, Live, Updates, Job
    <2> QED BY <2>2, <2>3
  <1>5. ASSUME NEW k \in Jobs, NEW st \in {"RUNNING", "SUCCEEDED", "FAILED"},
               Changes(k, st), jobs[k].status # "ABSENT", NEW j \in Jobs
        PROVE  jobs'[j] = jobs[j] \/ Updates(j)
    BY <1>0, <1>5 DEF Changes, Updates, Job
  <1>6. ASSUME NEW k \in Jobs, ClaimDraft(k) \/ ClaimSummary(k) \/ Ends(k), NEW j \in Jobs
        PROVE  jobs'[j] = jobs[j] \/ Updates(j)
    <2>1. jobs[k].status # "ABSENT"
      BY <1>6, NoneIsNoDraft
      DEF ClaimDraft, ClaimSummary, IsOldest, Pending, Ends, DraftParsed, DraftFailed,
          SummaryWritten, SummaryFailed, WorkingOn, WorkerWithinBudget
    <2>2. \E st \in {"RUNNING", "SUCCEEDED", "FAILED"} : Changes(k, st)
      BY <1>6 DEF ClaimDraft, ClaimSummary, Ends, DraftParsed, DraftFailed,
                  SummaryWritten, SummaryFailed, Changes
    <2> QED BY <1>5, <2>1, <2>2
  <1>7. /\ Withdraw => \E s : jobs' = Superseded(s)
        /\ \A d : DiscardDraft(d) => \E s : jobs' = Superseded(s)
    BY DEF Withdraw, DiscardDraft
  <1>8. Publish \/ Crash \/ UNCHANGED vars \/ (\E d : UseDraft(d)) \/ (\E j : CallModel(j))
        => UNCHANGED jobs
    BY DEF Publish, Crash, vars, UseDraft, CallModel
  <1> QED BY <1>1, <1>2, <1>3, <1>4, <1>6, <1>7, <1>8
          DEF Next, UserStep, WorkerStep

\* What a step may do to a draft.
LEMMA DraftSteps ==
  ASSUME JobsInv, [Next]_vars, NEW d \in Drafts
  PROVE  /\ drafts[d].status # "ABSENT" => drafts'[d].status # "ABSENT"
         /\ drafts[d].status = "PROCESSING" /\ drafts'[d] # drafts[d] =>
              \A j \in OfDraft(d) : jobs'[j].status # "PENDING"
  <1> USE DEF JobsInv
  <1>0. drafts \in [Drafts -> Draft] /\ jobs \in [Jobs -> Job]
    BY DEF TypeOK
  <1> DEFINE Kept == /\ drafts[d].status # "ABSENT" => drafts'[d].status # "ABSENT"
                     /\ drafts[d].status = "PROCESSING" /\ drafts'[d] # drafts[d] =>
                          \A j \in OfDraft(d) : jobs'[j].status # "PENDING"
  <1>1. CASE UNCHANGED drafts
    BY <1>1
  <1>2. ASSUME NEW e \in Drafts, UploadDraft(e)
        PROVE  Kept
    BY <1>0, <1>2 DEF UploadDraft, Draft
  <1>3. ASSUME NEW e \in Drafts, UseDraft(e)
        PROVE  Kept
    BY <1>0, <1>3 DEF UseDraft, Draft
  <1>4. ASSUME NEW e \in Drafts, DiscardDraft(e)
        PROVE  Kept
    <2>1. \A j \in OfDraft(e) : jobs'[j].status # "PENDING"
      BY <1>4, SupersededJobs DEF DiscardDraft, Overtaken, OfDraft
    <2> QED BY <1>0, <1>4, <2>1 DEF DiscardDraft, Draft
  <1>5. ASSUME NEW k \in Jobs, ClaimDraft(k) \/ DraftParsed(k) \/ DraftFailed(k)
        PROVE  Kept
    <2>1. jobs[k].draft # "none" /\ jobs'[k].status # "PENDING"
      BY <1>0, <1>5
      DEF ClaimDraft, DraftParsed, DraftFailed, IsDraftJob, Job
    <2>2. /\ drafts'[d].status # "ABSENT" \/ drafts'[d] = drafts[d]
          /\ d # jobs[k].draft => drafts'[d] = drafts[d]
      BY <1>0, <1>5 DEF ClaimDraft, DraftParsed, DraftFailed, Draft
    <2>3. d = jobs[k].draft => \A j \in OfDraft(d) : j = k
      BY <2>1 DEF OfDraft, OneJobPerDraft
    <2> HIDE DEF JobsInv
    <2> QED BY <2>1, <2>2, <2>3
  <1> QED BY <1>1, <1>2, <1>3, <1>4, <1>5
          DEF Next, UserStep, WorkerStep, Ends, Publish, Withdraw,
              CreateSummary, RetrySummary, ClaimSummary, CallModel,
              SummaryWritten, SummaryFailed, Crash, vars

LEMMA JobsHoldStep ==
  ASSUME JobsInv, [Next]_vars
  PROVE  JobsHold' /\ OneJobPerDraft'
  <1> USE DEF JobsInv
  <1>0. /\ \A j \in Jobs : jobs[j] \in Job
        /\ \A d \in Drafts : drafts[d].status # "ABSENT" => drafts'[d].status # "ABSENT"
    BY DraftSteps DEF TypeOK
  <1>1. \A j \in Jobs : jobs'[j] = jobs[j] \/ Updates(j) \/ Inserts(j)
    BY JobSteps
  <1>2. ASSUME NEW j \in Jobs, Inserts(j)
        PROVE  \/ /\ jobs'[j].status = "PENDING" /\ jobs'[j].draft = "none"
                  /\ jobs'[j].report \in Reports
               \/ /\ jobs'[j].status = "PENDING" /\ jobs'[j].draft \in Drafts
                  /\ drafts[jobs'[j].draft].status = "ABSENT"
                  /\ drafts'[jobs'[j].draft].status # "ABSENT"
                  /\ UploadDraft(jobs'[j].draft)
    <2>1. CASE \E r \in Reports : jobs'[j] = ReportJob(r)
      BY <2>1, NewRows
    <2>2. ASSUME NEW d \in Drafts, UploadDraft(d), jobs'[j] = DraftJob(d)
          PROVE  /\ jobs'[j].status = "PENDING" /\ jobs'[j].draft \in Drafts
                 /\ drafts[jobs'[j].draft].status = "ABSENT"
                 /\ drafts'[jobs'[j].draft].status # "ABSENT"
                 /\ UploadDraft(jobs'[j].draft)
      <3>1. jobs'[j].status = "PENDING" /\ jobs'[j].draft = d
        BY <2>2, NewRows
      <3>2. drafts[d].status = "ABSENT" /\ drafts'[d].status # "ABSENT"
        BY <2>2 DEF UploadDraft, TypeOK, Draft
      <3> QED BY <2>2, <3>1, <3>2
    <2> QED BY <1>2, <2>1, <2>2 DEF Inserts
  <1>3. JobsHold'
    <2> SUFFICES ASSUME NEW j \in Jobs
                 PROVE  /\ jobs'[j].status = "ABSENT" => jobs'[j] = AbsentJob
                        /\ jobs'[j].status # "ABSENT" /\ jobs'[j].draft = "none" =>
                             jobs'[j].report \in Reports
                        /\ jobs'[j].draft # "none" =>
                             drafts'[jobs'[j].draft].status # "ABSENT"
      BY DEF JobsHold, AbsentJob
    <2>1. CASE jobs'[j] = jobs[j] \/ Updates(j)
      BY <1>0, <2>1 DEF JobsHold, Updates, Job
    <2>2. CASE Inserts(j)
      BY <1>2, <2>2, NoneIsNoDraft
    <2> QED BY <1>1, <2>1, <2>2
  <1>4. ASSUME NEW j \in Jobs, NEW k \in Jobs, jobs'[j].draft # "none",
               jobs'[j].draft = jobs'[k].draft
        PROVE  j = k
    <2>1. \A i \in Jobs : ~Inserts(i) => jobs'[i].draft = jobs[i].draft
      BY <1>1 DEF Updates
    <2>2. ASSUME NEW i \in Jobs, NEW h \in Jobs, Inserts(i), ~Inserts(h),
                 jobs'[i].draft # "none", jobs'[i].draft = jobs'[h].draft
          PROVE  FALSE
      BY <1>2, <2>1, <2>2 DEF JobsHold
    <2>3. ASSUME Inserts(j), Inserts(k)
          PROVE  j = k
      <3>1. UploadDraft(jobs'[j].draft)
        BY <1>2, <1>4, <2>3
      <3>2. PICK i \in Jobs : jobs' = [jobs EXCEPT ![i] = DraftJob(jobs'[j].draft)]
        BY <1>2, <1>4, <2>3, <3>1, InsertSteps
      <3>3. \A h \in Jobs : h # i => jobs'[h] = jobs[h]
        BY <3>2 DEF TypeOK
      <3>4. j = i /\ k = i
        BY <1>2, <2>3, <3>3 DEF Inserts
      <3> QED BY <3>4
    <2> QED BY <1>4, <2>1, <2>2, <2>3 DEF OneJobPerDraft
  <1> QED BY <1>3, <1>4 DEF OneJobPerDraft

LEMMA QueueStep ==
  ASSUME JobsInv, [Next]_vars
  PROVE  QueueHolds' /\ ShownIsPublished'
  <1> USE DEF JobsInv
  <1>0. \A j \in Jobs : jobs[j] \in Job
    BY DEF TypeOK
  <1>1. ASSUME NEW j \in Jobs, jobs'[j].status = "PENDING"
        PROVE  IF jobs'[j].draft # "none"
               THEN drafts'[jobs'[j].draft].status = "PROCESSING"
               ELSE IsCurrent(jobs[j].report[1])'
    <2>1. ASSUME jobs'[j] = jobs[j], jobs[j].draft # "none"
          PROVE  drafts'[jobs[j].draft].status = "PROCESSING"
      <3>1. /\ jobs[j].draft \in Drafts /\ j \in OfDraft(jobs[j].draft)
            /\ drafts[jobs[j].draft].status = "PROCESSING"
        BY <1>0, <1>1, <2>1 DEF Job, OfDraft, QueueHolds
      <3> QED BY <1>1, <3>1, DraftSteps
    <2>2. ASSUME jobs'[j] = jobs[j], jobs[j].draft = "none"
          PROVE  IsCurrent(jobs[j].report[1])'
      <3>1. IsCurrent(jobs[j].report[1]) /\ j \in OfReports(Reports)
        BY <1>1, <2>2 DEF QueueHolds, JobsHold, OfReports
      <3>2. ~Withdraw
        BY <1>1, <3>1, SupersededJobs DEF Withdraw
      <3>3. ~Publish
        BY <3>1 DEF Publish, IsCurrent
      <3>4. UNCHANGED <<published, withdrawn>>
        BY <3>2, <3>3
        DEF Next, UserStep, WorkerStep, Ends, UploadDraft, DiscardDraft, UseDraft,
            CreateSummary, RetrySummary, ClaimDraft, ClaimSummary, CallModel,
            DraftParsed, DraftFailed, SummaryWritten, SummaryFailed, Crash, vars
      <3> QED BY <2>2, <3>1, <3>4 DEF IsCurrent
    <2>3. ASSUME NEW d \in Drafts, UploadDraft(d), jobs'[j] = DraftJob(d)
          PROVE  /\ jobs'[j].draft # "none"
                 /\ drafts'[jobs'[j].draft].status = "PROCESSING"
      BY <2>3, NewRows, NoneIsNoDraft DEF UploadDraft, TypeOK, Draft
    <2>4. ASSUME NEW r \in Reports, jobs'[j] = ReportJob(r), IsCurrent(r[1]),
                 UNCHANGED <<published, withdrawn, drafts>>
          PROVE  jobs'[j].draft = "none" /\ IsCurrent(jobs[j].report[1])'
      BY <2>4, NewRows DEF IsCurrent
    <2>5. ~Updates(j)
      BY <1>1 DEF Updates
    <2> QED BY <2>1, <2>2, <2>3, <2>4, <2>5, JobSteps DEF Inserts
  <1>2. ShownIsPublished'
    <2>1. CASE Publish
      BY <2>1, BoundsAssumption DEF Publish, ShownIsPublished, TypeOK, Results
    <2>2. CASE Withdraw
      BY <2>2 DEF Withdraw, ShownIsPublished
    <2>3. CASE UNCHANGED <<published, withdrawn>>
      BY <2>3 DEF ShownIsPublished
    <2> QED BY <2>1, <2>2, <2>3
        DEF Next, UserStep, WorkerStep, Ends, UploadDraft, DiscardDraft, UseDraft,
            CreateSummary, RetrySummary, ClaimDraft, ClaimSummary, CallModel,
            DraftParsed, DraftFailed, SummaryWritten, SummaryFailed, Crash, vars
  <1> QED BY <1>1, <1>2 DEF QueueHolds, IsCurrent

LEMMA BudgetStep ==
  ASSUME JobsInv, [Next]_vars
  PROVE  CallsWithinBudget' /\ WorkerWithinBudget'
  <1> USE DEF JobsInv
  <1>0. /\ reports \in [Reports -> Report] /\ \A j \in Jobs : jobs[j] \in Job
        /\ worker \in [job : Jobs \cup {0}, before : Nat, made : Nat, limit : Nat]
        /\ MaxCalls \in Nat
    BY BoundsAssumption DEF TypeOK
  <1>1. ASSUME NEW j \in Jobs, SummaryWritten(j) \/ SummaryFailed(j)
        PROVE  CallsWithinBudget'
    <2>1. worker.before + worker.made <= MaxCalls /\ worker.before <= MaxCalls
      BY <1>0, <1>1, NoneIsNoDraft
      DEF SummaryWritten, SummaryFailed, WorkingOn, IsDraftJob, WorkerWithinBudget
    <2>2. ASSUME NEW r, NEW st, NEW counted \in {0, worker.made},
                 reports' = [reports EXCEPT ![r] =
                   [status |-> st, calls_used |-> worker.before + counted]]
          PROVE  CallsWithinBudget'
      BY <1>0, <2>1, <2>2 DEF CallsWithinBudget
    <2>3. CASE SummaryWritten(j)
      BY <2>2, <2>3 DEF SummaryWritten
    <2>4. CASE SummaryFailed(j)
      BY <2>2, <2>4 DEF SummaryFailed
    <2> QED BY <1>1, <2>3, <2>4
  <1>2. ASSUME \A r \in Reports : reports'[r].calls_used \in {0, reports[r].calls_used}
        PROVE  CallsWithinBudget'
    BY <1>0, <1>2 DEF CallsWithinBudget
  <1>3. ASSUME NEW m \in Models, CreateSummary(m)
        PROVE  CallsWithinBudget'
    <2>1. PICK r \in Reports :
            /\ reports'[r] = [status |-> "PENDING", calls_used |-> 0]
            /\ \A p \in Reports : p # r =>
                 \/ reports'[p] = reports[p]
                 \/ reports'[p] = [reports[p] EXCEPT !.status = "STALE"]
      BY <1>3, CreateSummaryStep
    <2>2. reports'[r].calls_used = 0
      BY <2>1
    <2>3. ASSUME NEW p \in Reports, p # r
          PROVE  reports'[p].calls_used = reports[p].calls_used
      BY <1>0, <2>1, <2>3 DEF Report
    <2> QED BY <1>2, <2>2, <2>3
  <1>4. ASSUME \A r \in Reports : \/ reports'[r] = reports[r]
                                  \/ \E st : reports'[r] =
                                               [reports[r] EXCEPT !.status = st]
        PROVE  CallsWithinBudget'
    <2>1. ASSUME NEW r \in Reports
          PROVE  reports'[r].calls_used = reports[r].calls_used
      BY <1>0, <1>4 DEF Report
    <2> QED BY <1>2, <2>1
  <1>5. /\ UNCHANGED reports => CallsWithinBudget'
        /\ Withdraw => CallsWithinBudget'
        /\ \A r : RetrySummary(r) => CallsWithinBudget'
        /\ \A j : ClaimSummary(j) => CallsWithinBudget'
    <2>1. ASSUME NEW p, NEW st, reports' = [reports EXCEPT ![p].status = st]
          PROVE  CallsWithinBudget'
      BY <1>0, <1>4, <2>1
    <2>2. Withdraw => CallsWithinBudget'
      BY <1>0, <1>4 DEF Withdraw
    <2>3. UNCHANGED reports => CallsWithinBudget'
      BY <1>4
    <2>4. /\ \A r : RetrySummary(r) => CallsWithinBudget'
          /\ \A j : ClaimSummary(j) => CallsWithinBudget'
      BY <2>1 DEF RetrySummary, ClaimSummary
    <2> QED BY <2>2, <2>3, <2>4
  <1>6. CallsWithinBudget'
    BY <1>1, <1>3, <1>5
    DEF Next, UserStep, WorkerStep, Ends, Publish, UploadDraft, DiscardDraft, UseDraft,
        ClaimDraft, CallModel, DraftParsed, DraftFailed, Crash, vars
  <1>7. \A j \in Jobs : jobs[j].status # "ABSENT" =>
          jobs'[j].status # "ABSENT" /\ jobs'[j].draft = jobs[j].draft
    BY JobSteps DEF Updates, Inserts
  <1>8. ASSUME UNCHANGED worker
        PROVE  WorkerWithinBudget'
    BY <1>0, <1>7, <1>8 DEF WorkerWithinBudget
  <1>9. ASSUME worker' = Idle
        PROVE  WorkerWithinBudget'
    BY <1>9 DEF WorkerWithinBudget, Idle
  <1>10. ASSUME NEW j \in Jobs, CallModel(j)
         PROVE  WorkerWithinBudget'
    BY <1>0, <1>7, <1>10 DEF CallModel, WorkingOn, WorkerWithinBudget
  <1>11. ASSUME NEW j \in Jobs, ClaimDraft(j)
         PROVE  WorkerWithinBudget'
    BY <1>7, <1>11
    DEF ClaimDraft, IsOldest, Pending, IsDraftJob, WorkerWithinBudget
  <1>12. ASSUME NEW j \in Jobs, ClaimSummary(j)
         PROVE  WorkerWithinBudget'
    <2>1. jobs[j].report \in Reports /\ jobs[j].status # "ABSENT"
      BY <1>12 DEF ClaimSummary, IsOldest, Pending, IsDraftJob, JobsHold
    <2>2. /\ reports[jobs[j].report].calls_used \in Nat
          /\ reports[jobs[j].report].calls_used <= MaxCalls
      BY <1>0, <2>1 DEF Report, CallsWithinBudget
    <2>3. /\ Allowance(jobs[j].report) \in Nat
          /\ reports[jobs[j].report].calls_used + Allowance(jobs[j].report) <= MaxCalls
      BY <1>0, <2>2, BoundsAssumption DEF Allowance, Smaller
    <2>4. worker' = [job |-> j, before |-> reports[jobs[j].report].calls_used,
                     made |-> 0, limit |-> Allowance(jobs[j].report)]
      BY <1>12 DEF ClaimSummary
    <2> QED BY <1>7, <2>1, <2>3, <2>4 DEF WorkerWithinBudget
  <1>13. WorkerWithinBudget'
    BY <1>8, <1>9, <1>10, <1>11, <1>12
    DEF Next, UserStep, WorkerStep, Ends, Publish, Withdraw, UploadDraft,
        DiscardDraft, UseDraft, CreateSummary, RetrySummary, DraftParsed,
        DraftFailed, SummaryWritten, SummaryFailed, Crash, vars
  <1> QED BY <1>6, <1>13

-----------------------------------------------------------------------------
(* The theorems.                                                           *)

LEMMA JobsInvariance == Spec => []JobsInv
  <1>1. Init => JobsInv
    <2> SUFFICES ASSUME Init PROVE JobsInv
      OBVIOUS
    <2> USE BoundsAssumption DEF Init, AbsentJob, Idle
    <2>1. TypeOK
      <3>1. published \in 0 .. MaxResults /\ withdrawn \in BOOLEAN
        OBVIOUS
      <3>2. drafts \in [Drafts -> Draft] /\ reports \in [Reports -> Report]
        BY DEF Draft, Report
      <3>3. jobs \in [Jobs -> Job]
        BY DEF Job
      <3>4. worker \in [job : Jobs \cup {0}, before : Nat, made : Nat, limit : Nat]
        OBVIOUS
      <3> QED BY <3>1, <3>2, <3>3, <3>4 DEF TypeOK
    <2>2. ShownIsPublished /\ JobsHold /\ OneJobPerDraft /\ QueueHolds
      BY DEF ShownIsPublished, JobsHold, OneJobPerDraft, QueueHolds
    <2>3. CallsWithinBudget /\ WorkerWithinBudget
      BY DEF CallsWithinBudget, WorkerWithinBudget
    <2> QED BY <2>1, <2>2, <2>3 DEF JobsInv
  <1>2. JobsInv /\ [Next]_vars => JobsInv'
    BY JobsTypeStep, JobsHoldStep, QueueStep, BudgetStep DEF JobsInv
  <1> QED BY <1>1, <1>2, PTL DEF Spec

\* The oldest pending job can always be taken.
PendingAreClaimable == \A j \in Pending : IsClaimable(j)

\* The worker takes the oldest job of the queue, and waits for it when it cannot
\* be claimed (worker.py run_loop): whatever users discard, use, ask for, repeat
\* or change, no job in the queue is one that can never be claimed.  This is the
\* safety half of EveryJobIsTaken.
THEOREM QueueIsClaimable == Spec => []PendingAreClaimable
  <1>1. JobsInv => PendingAreClaimable
    BY DEF JobsInv, QueueHolds, PendingAreClaimable, Pending, IsClaimable, IsDraftJob
  <1> QED BY <1>1, JobsInvariance, PTL

\* The calls counted for a summary stay within its limit over all attempts and
\* retries, although an attempt writes its count long after it has read what was
\* counted before, and may write it twice (summaries.py
\* summary_config_for_remaining_calls).
THEOREM SummaryCalls == Spec => []CallsWithinBudget
  BY JobsInvariance, PTL DEF JobsInv

\* A draft that was discarded stays so, whatever the worker still does with it
\* (service.py complete_requirement_draft_job, fail_requirement_draft_job).
THEOREM DiscardedDrafts == Spec => DiscardedStays
  <1>1. ASSUME JobsInv, [Next]_vars, NEW d \in Drafts, drafts[d].status = "DISCARDED"
        PROVE  drafts'[d].status = "DISCARDED"
    <2> USE DEF JobsInv
    <2>0. drafts \in [Drafts -> Draft]
      BY <1>1 DEF TypeOK
    <2>1. CASE UNCHANGED drafts
      BY <1>1, <2>1
    <2>2. ASSUME NEW e \in Drafts, UploadDraft(e) \/ DiscardDraft(e) \/ UseDraft(e)
          PROVE  drafts'[d].status = "DISCARDED"
      BY <1>1, <2>0, <2>2 DEF UploadDraft, DiscardDraft, UseDraft, Draft
    <2>3. ASSUME NEW j \in Jobs, ClaimDraft(j) \/ DraftParsed(j) \/ DraftFailed(j)
          PROVE  drafts'[d].status = "DISCARDED"
      BY <1>1, <2>0, <2>3
      DEF ClaimDraft, IsClaimable, DraftParsed, IsStillWanted, DraftFailed, Draft
    <2> QED BY <1>1, <2>1, <2>2, <2>3
            DEF Next, UserStep, WorkerStep, Ends, Publish, Withdraw, CreateSummary,
                RetrySummary, ClaimSummary, CallModel, SummaryWritten, SummaryFailed,
                Crash, vars
  <1>2. JobsInv /\ [Next]_vars => [KeepsDiscarded]_vars
    BY <1>1 DEF KeepsDiscarded
  <1> QED BY <1>2, JobsInvariance, PTL DEF Spec, DiscardedStays
=============================================================================
