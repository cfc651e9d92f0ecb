--------------------------- MODULE BackgroundJobs ---------------------------
(***************************************************************************)
(* The jobs of the queue that belong to no run: reading a requirement      *)
(* document into a draft, and writing a summary of the current result.     *)
(* One worker takes the oldest pending job.  The user discards and uses    *)
(* drafts, asks for summaries and repeats them, and changes the task while *)
(* the worker calls a model.                                               *)
(*                                                                         *)
(* The facts of a summary are frozen with its result, so a report is named *)
(* by the result and the model it was asked for: the unique constraint of  *)
(* summary_reports.                                                        *)
(***************************************************************************)
EXTENDS Integers, FiniteSets

CONSTANTS
  Drafts,      \* requirement drafts
  Models,      \* model configurations the service runs with one after the other
  MaxResults,  \* bound: results published one after the other
  MaxJobs,     \* bound: jobs
  MaxAttempts, \* max_attempts of a model configuration
  MaxCalls,    \* max_calls of a summary report
  Faults       \* "crash": the worker dies; "lost_answer": a commit is done and
               \* reported as failed

ASSUME BoundsAssumption ==
  /\ MaxResults \in Nat /\ MaxJobs \in Nat
  /\ MaxAttempts \in Nat \ {0} /\ MaxCalls \in Nat \ {0}
  /\ Faults \subseteq {"crash", "lost_answer"}
  /\ "none" \notin Drafts \cup Models

Results == 1 .. MaxResults
Jobs    == 1 .. MaxJobs
Reports == Results \X Models
NoReport == <<0, "none">>

VARIABLES
  published, \* results published so far
  withdrawn, \* the last of them is no longer the current result
  drafts,    \* RequirementDraft rows
  reports,   \* SummaryReport rows
  jobs,      \* Job rows, in the order of their creation
  worker     \* what the worker is doing

vars == <<published, withdrawn, drafts, reports, jobs, worker>>

IsCurrent(result) == result = published /\ ~withdrawn

Draft  == [status : {"ABSENT", "PROCESSING", "READY", "FAILED", "DISCARDED", "USED"},
           tasks : Nat]
Report == [status : {"ABSENT", "PENDING", "RUNNING", "SUCCEEDED", "FAILED", "STALE"},
           calls_used : Nat]
Job    == [status : {"ABSENT", "PENDING", "RUNNING", "SUCCEEDED", "FAILED", "SUPERSEDED"},
           draft : Drafts \cup {"none"}, report : Reports \cup {NoReport}]
AbsentJob == [status |-> "ABSENT", draft |-> "none", report |-> NoReport]
Idle      == [job |-> 0, before |-> 0, made |-> 0, limit |-> 0]

TypeOK ==
  /\ published \in 0 .. MaxResults /\ withdrawn \in BOOLEAN
  /\ drafts \in [Drafts -> Draft]
  /\ reports \in [Reports -> Report]
  /\ jobs \in [Jobs -> Job]
  /\ worker \in [job : Jobs \cup {0}, before : Nat, made : Nat, limit : Nat]

Init ==
  /\ published = 0 /\ withdrawn = TRUE
  /\ drafts = [d \in Drafts |-> [status |-> "ABSENT", tasks |-> 0]]
  /\ reports = [r \in Reports |-> [status |-> "ABSENT", calls_used |-> 0]]
  /\ jobs = [j \in Jobs |-> AbsentJob]
  /\ worker = Idle

IsNewJob(j) == /\ jobs[j].status = "ABSENT"
               /\ \A k \in Jobs : k < j => jobs[k].status # "ABSENT"

Live(j) == jobs[j].status \in {"PENDING", "RUNNING"}

\* Jobs without the live ones that an input change has overtaken.
Superseded(overtaken) ==
  [j \in Jobs |-> IF j \in overtaken /\ Live(j)
                  THEN [jobs[j] EXCEPT !.status = "SUPERSEDED"] ELSE jobs[j]]

OfDraft(d)   == {j \in Jobs : jobs[j].draft = d}
OfReports(s) == {j \in Jobs : jobs[j].report \in s}

-----------------------------------------------------------------------------
(* The task.                                                               *)

Publish == /\ withdrawn /\ published < MaxResults
           /\ published' = published + 1
           /\ withdrawn' = FALSE
           /\ UNCHANGED <<drafts, reports, jobs, worker>>

\* _supersede_current_graph, called by every handler that changes the inputs.
Withdraw ==
  LET open == {r \in Reports : reports[r].status \notin {"ABSENT", "STALE"}}
  IN  /\ ~withdrawn
      /\ withdrawn' = TRUE
      /\ reports' = [r \in Reports |->
                       IF r \in open THEN [reports[r] EXCEPT !.status = "STALE"]
                       ELSE reports[r]]
      /\ jobs' = Superseded(OfReports(Reports))
      /\ UNCHANGED <<published, drafts, worker>>

-----------------------------------------------------------------------------
(* Requirement drafts.                                                     *)

UploadDraft(d) ==
  /\ drafts[d].status = "ABSENT"
  /\ \E j \in Jobs :
       /\ IsNewJob(j)
       /\ jobs' = [jobs EXCEPT ![j] = [AbsentJob EXCEPT !.status = "PENDING", !.draft = d]]
  /\ drafts' = [drafts EXCEPT ![d].status = "PROCESSING"]
  /\ UNCHANGED <<published, withdrawn, reports, worker>>

\* Mutant: the job of a discarded draft stays in the queue.
BugJobStays(d) == {}

\* The jobs that are overtaken when a draft is discarded.
Overtaken(d) == OfDraft(d)

DiscardDraft(d) ==
  /\ drafts[d].status \notin {"ABSENT", "USED"}
  /\ drafts' = [drafts EXCEPT ![d].status = "DISCARDED"]
  /\ jobs' = Superseded(Overtaken(d))
  /\ UNCHANGED <<published, withdrawn, reports, worker>>

\* create_task with a draft: a task of its own, not the one modelled here.
UseDraft(d) ==
  /\ drafts[d].status = "READY" /\ drafts[d].tasks = 0
  /\ drafts' = [drafts EXCEPT ![d] = [status |-> "USED", tasks |-> @.tasks + 1]]
  /\ UNCHANGED <<published, withdrawn, reports, jobs, worker>>

-----------------------------------------------------------------------------
(* Summaries.                                                              *)

\* create_summary: an existing report is returned as it is, whatever its state.
CreateSummary(m) ==
  LET r        == <<published, m>>
      previous == {p \in Reports : p[1] = published /\ reports[p].status \notin
                                                         {"ABSENT", "STALE"}}
      swept    == Superseded(OfReports(previous))
  IN  /\ ~withdrawn
      /\ reports[r].status = "ABSENT"
      /\ \E j \in Jobs :
           /\ IsNewJob(j)
           /\ jobs' = [swept EXCEPT ![j] = [AbsentJob EXCEPT !.status = "PENDING",
                                                             !.report = r]]
      /\ reports' = [p \in Reports |->
                       CASE p = r -> [status |-> "PENDING", calls_used |-> 0]
                         [] p \in previous -> [reports[p] EXCEPT !.status = "STALE"]
                         [] OTHER -> reports[p]]
      /\ UNCHANGED <<published, withdrawn, drafts, worker>>

IsRetryable(r) == reports[r].status = "FAILED" /\ reports[r].calls_used < MaxCalls

RetrySummary(r) ==
  /\ IsCurrent(r[1])
  /\ IsRetryable(r)
  /\ reports' = [reports EXCEPT ![r].status = "PENDING"]
  /\ \E j \in Jobs :
       /\ IsNewJob(j)
       /\ jobs' = [jobs EXCEPT ![j] = [AbsentJob EXCEPT !.status = "PENDING", !.report = r]]
  /\ UNCHANGED <<published, withdrawn, drafts, worker>>

-----------------------------------------------------------------------------
(* The worker.                                                             *)

Pending == {j \in Jobs : jobs[j].status = "PENDING"}
IsOldest(j) == j \in Pending /\ \A k \in Pending : j <= k

IsDraftJob(j) == jobs[j].draft # "none"
WorkingOn(j)  == worker.job = j

Smaller(a, b) == IF a <= b THEN a ELSE b

\* Mutant: every attempt has the full allowance.
BugFullAllowance(r) == MaxAttempts

\* summary_config_for_remaining_calls
Allowance(r) == Smaller(MaxAttempts, MaxCalls - reports[r].calls_used)

\* Otherwise *_job_context raises, the job stays in the queue and is taken again.
IsClaimable(j) ==
  IF IsDraftJob(j) THEN drafts[jobs[j].draft].status \notin {"DISCARDED", "USED"}
  ELSE IsCurrent(jobs[j].report[1])

ClaimDraft(j) ==
  /\ worker = Idle /\ IsOldest(j) /\ IsDraftJob(j) /\ IsClaimable(j)
  /\ jobs' = [jobs EXCEPT ![j].status = "RUNNING"]
  /\ drafts' = [drafts EXCEPT ![jobs[j].draft].status = "PROCESSING"]
  /\ worker' = [job |-> j, before |-> 0, made |-> 0, limit |-> MaxAttempts]
  /\ UNCHANGED <<published, withdrawn, reports>>

ClaimSummary(j) ==
  /\ worker = Idle /\ IsOldest(j) /\ ~IsDraftJob(j) /\ IsClaimable(j)
  /\ jobs' = [jobs EXCEPT ![j].status = "RUNNING"]
  /\ reports' = [reports EXCEPT ![jobs[j].report].status = "RUNNING"]
  /\ worker' = [job |-> j, before |-> reports[jobs[j].report].calls_used, made |-> 0,
                 limit |-> Allowance(jobs[j].report)]
  /\ UNCHANGED <<published, withdrawn, drafts>>

\* A first request, one more after a transport error, or a repair.
CallModel(j) ==
  /\ WorkingOn(j) /\ worker.made < worker.limit
  /\ worker' = [worker EXCEPT !.made = @ + 1]
  /\ UNCHANGED <<published, withdrawn, drafts, reports, jobs>>

\* Mutant: what was closed in the meantime is not looked at.
BugCompletesAny(j) == TRUE

IsStillWanted(j) ==
  jobs[j].status = "RUNNING" /\ drafts[jobs[j].draft].status # "DISCARDED"

DraftParsed(j) ==
  /\ WorkingOn(j) /\ IsDraftJob(j) /\ worker.made > 0
  /\ IsStillWanted(j)
  /\ drafts' = [drafts EXCEPT ![jobs[j].draft].status = "READY"]
  /\ jobs' = [jobs EXCEPT ![j].status = "SUCCEEDED"]
  /\ \/ worker' = Idle
     \/ "lost_answer" \in Faults /\ worker' = worker
  /\ UNCHANGED <<published, withdrawn, reports>>

\* fail_requirement_draft_job, after any error and after a completion that was
\* refused: only a discarded draft is spared.
DraftFailed(j) ==
  LET d == jobs[j].draft
  IN  /\ WorkingOn(j) /\ IsDraftJob(j)
      /\ jobs' = [jobs EXCEPT ![j].status = "FAILED"]
      /\ drafts' = IF drafts[d].status = "DISCARDED" THEN drafts
                   ELSE [drafts EXCEPT ![d].status = "FAILED"]
      /\ worker' = Idle
      /\ UNCHANGED <<published, withdrawn, reports>>

\* The status of the job is not looked at.
SummaryWritten(j) ==
  LET r == jobs[j].report
  IN  /\ WorkingOn(j) /\ ~IsDraftJob(j) /\ worker.made > 0
      /\ IsCurrent(r[1])
      /\ reports' = [reports EXCEPT ![r] = [status |-> "SUCCEEDED",
                                            calls_used |-> worker.before + worker.made]]
      /\ jobs' = [jobs EXCEPT ![j].status = "SUCCEEDED"]
      /\ \/ worker' = Idle
         \/ "lost_answer" \in Faults /\ worker' = worker
      /\ UNCHANGED <<published, withdrawn, drafts>>

\* fail_summary_job, also after a completion that was refused.  An error that is
\* not the model client's, such as an answer that is no JSON object, leaves the
\* calls of this attempt uncounted.
SummaryFailed(j) ==
  LET r == jobs[j].report
  IN  /\ WorkingOn(j) /\ ~IsDraftJob(j)
      /\ \E counted \in {0, worker.made} :
           reports' = [reports EXCEPT ![r] = [status |-> "FAILED",
                                              calls_used |-> worker.before + counted]]
      /\ jobs' = [jobs EXCEPT ![j].status = "FAILED"]
      /\ worker' = Idle
      /\ UNCHANGED <<published, withdrawn, drafts>>

\* The worker is started again; nothing returns its job to the queue.
Crash == /\ "crash" \in Faults /\ worker # Idle
         /\ worker' = Idle
         /\ UNCHANGED <<published, withdrawn, drafts, reports, jobs>>

UserStep == \/ Publish \/ Withdraw
            \/ \E d \in Drafts : UploadDraft(d) \/ DiscardDraft(d) \/ UseDraft(d)
            \/ \E m \in Models : CreateSummary(m)
            \/ \E r \in Reports : RetrySummary(r)

\* A request may hang for a while, and is then given up.
Ends(j) == DraftParsed(j) \/ DraftFailed(j) \/ SummaryWritten(j) \/ SummaryFailed(j)

WorkerStep == \E j \in Jobs : ClaimDraft(j) \/ ClaimSummary(j) \/ CallModel(j) \/ Ends(j)

Next == UserStep \/ WorkerStep \/ Crash

Spec == Init /\ [][Next]_vars

\* run_loop goes on, and a job it works on comes to an end.
FairSpec == Spec /\ WF_vars(\E j \in Jobs : ClaimDraft(j) \/ ClaimSummary(j))
                 /\ WF_vars(\E j \in Jobs : Ends(j))

-----------------------------------------------------------------------------
(* Properties.                                                             *)

\* No job waits for ever.  The queue is taken from its head, so a job that can
\* never be claimed would stop all the others (worker.py run_loop).
EveryJobIsTaken ==
  \A j \in Jobs : jobs[j].status = "PENDING" ~> jobs[j].status # "PENDING"

\* The calls counted for a summary stay within its limit over all attempts,
\* repairs and retries (service.py retry_summary,
\* summaries.py summary_config_for_remaining_calls).
CallsWithinBudget == \A r \in Reports : reports[r].calls_used <= MaxCalls

KeepsDiscarded ==
  \A d \in Drafts :
    drafts[d].status = "DISCARDED" => drafts'[d].status = "DISCARDED"

\* A draft the user has thrown away does not come back, whatever the worker
\* still does with it (service.py complete_requirement_draft_job).
DiscardedStays == [][KeepsDiscarded]_vars
=============================================================================
