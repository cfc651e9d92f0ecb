---------------------------- MODULE TaskWorkflow ----------------------------
(***************************************************************************)
(* The life of one procurement task: the API handlers that change it, the  *)
(* single background worker that runs its workflow graph, and the rows of  *)
(* the database they share (Task, GraphRun, Job, Issue, the compliance     *)
(* assessments and confirmations among WorkflowArtifact, and the LangGraph *)
(* checkpoint of each run).                                                *)
(*                                                                         *)
(* Every handler of backend/service.py is one transaction that locks the   *)
(* Task row, so it is one action.  A workflow node is a sequence of        *)
(* transactions of its own; the worker keeps what it read in between, and  *)
(* any handler may run between two of them.  Rows are never deleted: a     *)
(* table is a function over its possible row ids, "ABSENT" marks the ids   *)
(* not inserted yet, and ids are taken in order, so that a larger id is a  *)
(* later created_at.                                                       *)
(***************************************************************************)
EXTENDS Integers, FiniteSets

CONSTANTS
  MaxRevision,      \* bound: task revisions 1 .. MaxRevision
  MaxGraphs,        \* bound: graph runs
  MaxJobs,          \* bound: workflow jobs
  MaxIssues,        \* bound: issues
  MaxAssessments,   \* bound: COMPLIANCE_ASSESSMENT artifacts
  MaxConfirmations, \* bound: COMPLIANCE_CONFIRMATION artifacts
  MaxQuotes,        \* bound: quotes of the task
  MaxAttempts,      \* the attempt budget of a job (3 in claim_job)
  Contents,         \* what an assessment can say (its compared fields)
  BlockedContents,  \* the contents with a non-empty policy_errors list
  DirectUpload,     \* allow_legacy_direct_quote_upload
  Faults            \* the infrastructure faults of this instance

FaultKinds ==
  { "config",   \* the worker cannot build its clients before claiming a job
    "node",     \* a node raises (database, model or network error)
    "save",     \* a node's writes commit, saving the checkpoint then fails
    "finish",   \* the transaction of finish_job fails (deadlock victim)
    "report",   \* reading the open issue after finish_job fails
    "crash" }   \* the worker process dies

ASSUME BoundsAssumption ==
  /\ MaxRevision \in Nat /\ MaxGraphs \in Nat /\ MaxJobs \in Nat
  /\ MaxIssues \in Nat /\ MaxAssessments \in Nat /\ MaxConfirmations \in Nat
  /\ MaxQuotes \in Nat
  /\ MaxRevision >= 1
  /\ MaxAttempts \in Nat \ {0}

ASSUME ChoicesAssumption ==
  /\ "none" \notin Contents
  /\ BlockedContents \subseteq Contents
  /\ DirectUpload \in BOOLEAN
  /\ Faults \subseteq FaultKinds

Revisions     == 1 .. MaxRevision
Graphs        == 1 .. MaxGraphs
Jobs          == 1 .. MaxJobs
Issues        == 1 .. MaxIssues
Assessments   == 1 .. MaxAssessments
Confirmations == 1 .. MaxConfirmations

VARIABLES
  task,          \* the Task row
  quotes,        \* how many quotes of the task are active and inactive
  graphs,        \* GraphRun rows
  jobs,          \* Job rows of the workflow (START, COMPLIANCE_START, RESUME)
  issues,        \* Issue rows
  assessments,   \* COMPLIANCE_ASSESSMENT artifacts
  confirmations, \* COMPLIANCE_CONFIRMATION artifacts
  checkpoint,    \* per graph run, the state LangGraph saved after its last node
  worker         \* the worker process

vars == <<task, quotes, graphs, jobs, issues, assessments, confirmations,
          checkpoint, worker>>

-----------------------------------------------------------------------------
(* The rows.  0 is the null of a reference.                                *)

TaskStatuses  == {"DRAFT", "QUEUED", "RUNNING", "NEEDS_INPUT", "COMPLETED",
                  "FAILED", "ABANDONED"}
GraphStatuses == {"ABSENT", "PENDING", "RUNNING", "INTERRUPTED", "SUCCEEDED",
                  "FAILED", "SUPERSEDED"}
JobStatuses   == {"ABSENT", "PENDING", "RUNNING", "WAITING_INPUT", "SUCCEEDED",
                  "FAILED", "SUPERSEDED"}
LiveStatuses  == {"PENDING", "RUNNING", "WAITING_INPUT"}
IssueStatuses == {"ABSENT", "OPEN", "RESOLVED", "SUPERSEDED"}

StartKinds    == {"START", "COMPLIANCE_START"}
JobKinds      == StartKinds \cup {"RESUME"}

\* PAYMENT_INFORMATION, CONFIRM_MISSING, SHIPPING_AMOUNT, BATCH_FIELD_REVIEW
\* and POLICY_EVIDENCE_REVIEW, named by the node that opens them.
IssueNodes == {"await_payment_information", "await_missing_confirmation",
               "await_shipping_amount", "await_batch_review",
               "await_policy_evidence_review"}
\* Mutant: the key of an issue is its type and quote only.
BugKeyWithoutRevision == {}
\* Their field_name carries the revision, so each revision has its own issue.
RevisionKeyed == {"await_batch_review", "await_policy_evidence_review"}

StageNodes == {"await_compliance_start", "await_compliance_confirmation"}
Nodes == IssueNodes \cup StageNodes \cup
         {"load_context", "review_quotes", "freeze_draft", "freeze_final",
          "prepare_compliance", "assess_compliance", "publish_final_result",
          "end"}

\* The current result: its COMPARISON_RESULT is bound, through its snapshot,
\* to a graph run, a revision and an assessment.
NoResult == [graph |-> 0, rev |-> 0, assessment |-> 0]
Results  == [graph : Graphs, rev : Revisions, assessment : Assessments]

AbsentGraph   == [status |-> "ABSENT", eff |-> 0]
AbsentJob     == [status |-> "ABSENT", kind |-> "START", graph |-> 0,
                  issue |-> 0, attempts |-> 0]
AbsentIssue   == [status |-> "ABSENT", node |-> "await_batch_review",
                  graph |-> 0, rev |-> 0, resolved |-> 0]
NotStarted    == [at |-> "load_context", rev |-> 0, requested |-> FALSE,
                  confirmed |-> FALSE, assessment |-> 0]
IdleWorker    == [pc |-> "idle", job |-> 0, token |-> 0, fresh |-> 0]

TaskRow  == [status : TaskStatuses, rev : Revisions, graph : Graphs \cup {0},
             result : Results \cup {NoResult}]
GraphRow == [status : GraphStatuses, eff : Revisions \cup {0}]
JobRow   == [status : JobStatuses, kind : JobKinds, graph : Graphs \cup {0},
             issue : Issues \cup {0}, attempts : 0 .. MaxAttempts]
IssueRow == [status : IssueStatuses, node : IssueNodes, graph : Graphs \cup {0},
             rev : Revisions \cup {0}, resolved : Revisions \cup {0}]
AssessmentRow   == [rev : Revisions \cup {0}, content : Contents \cup {"none"}]
ConfirmationRow == [rev : Revisions \cup {0}, assessment : Assessments \cup {0},
                    seen : Contents \cup {"none"}]
CheckpointRow   == [at : Nodes, rev : Revisions \cup {0}, requested : BOOLEAN,
                    confirmed : BOOLEAN, assessment : Assessments \cup {0}]
WorkerState     == [pc : {"idle", "picked", "running", "revalidating",
                          "interrupted", "raised"},
                    job : Jobs \cup {0}, token : Issues \cup {0},
                    fresh : Assessments \cup {0}]

TypeOK ==
  /\ task \in TaskRow
  /\ quotes \in [active : Nat, inactive : Nat]
  /\ quotes.active + quotes.inactive <= MaxQuotes
  /\ graphs \in [Graphs -> GraphRow]
  /\ jobs \in [Jobs -> JobRow]
  /\ issues \in [Issues -> IssueRow]
  /\ assessments \in [Assessments -> AssessmentRow]
  /\ confirmations \in [Confirmations -> ConfirmationRow]
  /\ checkpoint \in [Graphs -> CheckpointRow]
  /\ worker \in WorkerState
  /\ \A j \in Jobs : jobs[j].status # "ABSENT" => jobs[j].graph # 0
  /\ worker.pc # "idle" => /\ worker.job # 0
                           /\ jobs[worker.job].status # "ABSENT"
  /\ worker.pc = "revalidating" => worker.fresh # 0

\* create_task: a new task has a requirement, no quote and no run.
Init ==
  /\ task = [status |-> "DRAFT", rev |-> 1, graph |-> 0, result |-> NoResult]
  /\ quotes = [active |-> 0, inactive |-> 0]
  /\ graphs = [g \in Graphs |-> AbsentGraph]
  /\ jobs = [j \in Jobs |-> AbsentJob]
  /\ issues = [i \in Issues |-> AbsentIssue]
  /\ assessments = [a \in Assessments |-> [rev |-> 0, content |-> "none"]]
  /\ confirmations = [c \in Confirmations |->
                        [rev |-> 0, assessment |-> 0, seen |-> "none"]]
  /\ checkpoint = [g \in Graphs |-> NotStarted]
  /\ worker = IdleWorker

-----------------------------------------------------------------------------
(* What the handlers share.                                                *)

\* The next row to insert (a bound disables the action when the table is full).
IsNewGraph(g) == /\ graphs[g].status = "ABSENT"
                 /\ \A h \in Graphs : h < g => graphs[h].status # "ABSENT"
IsNewJob(j)   == /\ jobs[j].status = "ABSENT"
                 /\ \A k \in Jobs : k < j => jobs[k].status # "ABSENT"
IsNewIssue(i) == /\ issues[i].status = "ABSENT"
                 /\ \A k \in Issues : k < i => issues[k].status # "ABSENT"
IsNewAssessment(a) ==
  /\ assessments[a].content = "none"
  /\ \A b \in Assessments : b < a => assessments[b].content # "none"
IsNewConfirmation(c) ==
  /\ confirmations[c].rev = 0
  /\ \A d \in Confirmations : d < c => confirmations[d].rev # 0

\* Mutant: only the revision is compared.
BugRevisionOnly(expected) == task.rev = expected

\* A refused request rolls back, so only accepted requests are actions; an
\* expected revision that is not the current one is refused.
RequireRevision(expected) ==
  /\ task.status # "ABANDONED"
  /\ task.rev = expected

\* The newest artifact of a kind at the current revision of the task.
IsLatestAssessment(a) ==
  /\ assessments[a].rev = task.rev
  /\ \A b \in Assessments : b > a => assessments[b].rev # task.rev
IsLatestConfirmation(c) ==
  /\ confirmations[c].rev = task.rev
  /\ \A d \in Confirmations : d > c => confirmations[d].rev # task.rev

\* Mutants of the two sweeps below: questions stay open, jobs that wait or run
\* stay live, and queued jobs stay queued.
BugIssuesStayOpen == issues
BugQueuedJobsOnly ==
  [j \in Jobs |-> IF jobs[j].graph = task.graph /\ jobs[j].status = "PENDING"
                  THEN [jobs[j] EXCEPT !.status = "SUPERSEDED"]
                  ELSE jobs[j]]
BugQueuedJobsStay ==
  [j \in Jobs |-> IF /\ jobs[j].graph = task.graph
                     /\ jobs[j].status \in {"RUNNING", "WAITING_INPUT"}
                  THEN [jobs[j] EXCEPT !.status = "SUPERSEDED"]
                  ELSE jobs[j]]

\* Superseding the current run: the run, its open issues and its live jobs.
SupersededGraphs ==
  [g \in Graphs |-> IF g = task.graph
                    THEN [graphs[g] EXCEPT !.status = "SUPERSEDED"]
                    ELSE graphs[g]]
SupersededIssues ==
  [i \in Issues |-> IF issues[i].graph = task.graph /\ issues[i].status = "OPEN"
                    THEN [issues[i] EXCEPT !.status = "SUPERSEDED"]
                    ELSE issues[i]]
SupersededJobs ==
  [j \in Jobs |-> IF /\ jobs[j].graph = task.graph
                     /\ jobs[j].status \in LiveStatuses
                  THEN [jobs[j] EXCEPT !.status = "SUPERSEDED"]
                  ELSE jobs[j]]

\* Mutant: the result pointer is not cleared.
BugKeepsResult(status, rev) ==
  /\ rev \in Revisions
  /\ task' = [task EXCEPT !.status = status, !.rev = rev, !.graph = 0]
  /\ graphs' = SupersededGraphs
  /\ issues' = SupersededIssues
  /\ jobs' = SupersededJobs

\* Supersede the current run and leave the task without one.
ClearRun(status, rev) ==
  /\ rev \in Revisions
  /\ task' = [status |-> status, rev |-> rev, graph |-> 0, result |-> NoResult]
  /\ graphs' = SupersededGraphs
  /\ issues' = SupersededIssues
  /\ jobs' = SupersededJobs

\* Supersede the current run and queue a new one at revision rev.
ReplaceRun(kind, rev) ==
  \E g \in Graphs, j \in Jobs :
    /\ rev \in Revisions
    /\ IsNewGraph(g) /\ IsNewJob(j)
    /\ task' = [status |-> "QUEUED", rev |-> rev, graph |-> g,
                result |-> NoResult]
    /\ graphs' = [SupersededGraphs EXCEPT ![g] =
                    [status |-> "PENDING", eff |-> rev]]
    /\ issues' = SupersededIssues
    /\ jobs' = [SupersededJobs EXCEPT ![j] =
                  [status |-> "PENDING", kind |-> kind, graph |-> g,
                   issue |-> 0, attempts |-> 0]]

\* A run is started after a change only when a quote is active.
RunOrDraft(rev) ==
  IF quotes.active > 0 THEN ReplaceRun("START", rev) ELSE ClearRun("DRAFT", rev)

-----------------------------------------------------------------------------
(* The API handlers.                                                       *)

DeactivateQuote(expected) ==
  /\ RequireRevision(expected)
  /\ quotes.active > 0
  /\ quotes' = [active |-> quotes.active - 1, inactive |-> quotes.inactive + 1]
  /\ ClearRun("DRAFT", task.rev + 1)
  /\ UNCHANGED <<assessments, confirmations, checkpoint, worker>>

ReactivateQuote(expected) ==
  /\ RequireRevision(expected)
  /\ quotes.inactive > 0
  /\ quotes' = [active |-> quotes.active + 1, inactive |-> quotes.inactive - 1]
  /\ ClearRun("DRAFT", task.rev + 1)
  /\ UNCHANGED <<assessments, confirmations, checkpoint, worker>>

\* A reviewed draft becomes a new quote, or the next version of an active one.
SubmitQuoteDraft(expected) ==
  /\ RequireRevision(expected)
  /\ \/ /\ quotes.active + quotes.inactive < MaxQuotes
        /\ quotes' = [quotes EXCEPT !.active = quotes.active + 1]
     \/ quotes.active > 0 /\ UNCHANGED quotes
  /\ ClearRun("DRAFT", task.rev + 1)
  /\ UNCHANGED <<assessments, confirmations, checkpoint, worker>>

\* The deprecated direct upload compares the revision and nothing else.
UploadQuote(expected) ==
  /\ DirectUpload
  /\ task.rev = expected
  /\ quotes.active + quotes.inactive < MaxQuotes
  /\ quotes' = [quotes EXCEPT !.active = quotes.active + 1]
  /\ ClearRun("DRAFT", task.rev + 1)
  /\ UNCHANGED <<assessments, confirmations, checkpoint, worker>>

UpdateRequirement(expected) ==
  /\ RequireRevision(expected)
  /\ RunOrDraft(task.rev + 1)
  /\ UNCHANGED <<quotes, assessments, confirmations, checkpoint, worker>>

RefreshSupplierHistory(expected) ==
  /\ RequireRevision(expected)
  /\ RunOrDraft(task.rev + 1)
  /\ UNCHANGED <<quotes, assessments, confirmations, checkpoint, worker>>

\* A READY scenario is bound to the current revision and result.
ApplyDecisionScenario ==
  /\ task.status # "ABANDONED"
  /\ task.result # NoResult
  /\ RunOrDraft(task.rev + 1)
  /\ UNCHANGED <<quotes, assessments, confirmations, checkpoint, worker>>

\* Corrections need the reviewed extractions of a current run.
CorrectFields(expected, kind) ==
  /\ RequireRevision(expected)
  /\ quotes.active > 0
  /\ task.graph # 0
  /\ ReplaceRun(kind, task.rev + 1)
  /\ UNCHANGED <<quotes, assessments, confirmations, checkpoint, worker>>

RunIsActive == /\ task.graph # 0
               /\ graphs[task.graph].status \in {"PENDING", "RUNNING"}

\* The first run of a revision without one keeps the revision; a rerun makes
\* a new revision.
StartRun(expected, kind) ==
  /\ RequireRevision(expected)
  /\ ~RunIsActive
  /\ ReplaceRun(kind, IF task.graph = 0 THEN task.rev ELSE task.rev + 1)
  /\ UNCHANGED <<quotes, assessments, confirmations, checkpoint, worker>>

\* The compliance stage is started again at the same revision.
StartCompliance(expected) ==
  /\ RequireRevision(expected)
  /\ ~RunIsActive
  /\ ReplaceRun("COMPLIANCE_START", task.rev)
  /\ UNCHANGED <<quotes, assessments, confirmations, checkpoint, worker>>

\* Evidence saved without a run keeps the reviewed quotes in a run that has
\* no job and waits for the user.
PreparationGraph(rev) ==
  \E g \in Graphs :
    /\ rev \in Revisions
    /\ IsNewGraph(g)
    /\ task' = [status |-> "NEEDS_INPUT", rev |-> rev, graph |-> g,
                result |-> NoResult]
    /\ graphs' = [SupersededGraphs EXCEPT ![g] =
                    [status |-> "INTERRUPTED", eff |-> rev]]
    /\ issues' = SupersededIssues
    /\ jobs' = SupersededJobs

SaveComplianceEvidence(expected, runAfterSave) ==
  /\ RequireRevision(expected)
  /\ quotes.active > 0
  /\ IF runAfterSave THEN ReplaceRun("COMPLIANCE_START", task.rev + 1)
                     ELSE PreparationGraph(task.rev + 1)
  /\ UNCHANGED <<quotes, assessments, confirmations, checkpoint, worker>>

\* The user confirms assessment a, having read it.  A copy of the latest
\* assessment and a confirmation of the copy are written at a new revision,
\* and a run that checks it again is queued.
ConfirmCompliance(expected, a) ==
  \E copy \in Assessments, c \in Confirmations, latest \in Assessments :
    /\ RequireRevision(expected)
    /\ IsLatestAssessment(latest)
    /\ latest = a
    /\ assessments[latest].content \notin BlockedContents
    /\ \A d \in Confirmations :
         IsLatestConfirmation(d) => confirmations[d].assessment # latest
    /\ IsNewAssessment(copy) /\ IsNewConfirmation(c)
    /\ assessments' = [assessments EXCEPT ![copy] =
         [rev |-> task.rev + 1, content |-> assessments[latest].content]]
    /\ confirmations' = [confirmations EXCEPT ![c] =
         [rev |-> task.rev + 1, assessment |-> copy,
          seen |-> assessments[a].content]]
    /\ ReplaceRun("COMPLIANCE_START", task.rev + 1)
    /\ UNCHANGED <<quotes, checkpoint, worker>>

\* An answer moves its run to a new revision and queues a job to resume it.
AnswerIssue(expected, i) ==
  \E j \in Jobs :
    /\ RequireRevision(expected)
    /\ task.rev + 1 \in Revisions
    /\ issues[i].status = "OPEN"
    /\ issues[i].node # "await_batch_review"
    /\ task.graph = issues[i].graph
    /\ task.graph # 0
    /\ IsNewJob(j)
    /\ task' = [task EXCEPT !.status = "QUEUED", !.rev = task.rev + 1,
                            !.result = NoResult]
    /\ graphs' = [graphs EXCEPT ![task.graph] =
                    [status |-> "PENDING", eff |-> task.rev + 1]]
    /\ issues' = [issues EXCEPT ![i].status = "RESOLVED",
                                ![i].resolved = task.rev + 1]
    /\ jobs' = [jobs EXCEPT ![j] =
                  [status |-> "PENDING", kind |-> "RESUME",
                   graph |-> task.graph, issue |-> i, attempts |-> 0]]
    /\ UNCHANGED <<quotes, assessments, confirmations, checkpoint, worker>>

RetryFailedResumeJob(expected, j) ==
  /\ RequireRevision(expected)
  /\ task.graph # 0
  /\ jobs[j].graph = task.graph
  /\ jobs[j].kind = "RESUME"
  /\ jobs[j].status = "FAILED"
  /\ jobs[j].attempts < MaxAttempts
  /\ jobs' = [jobs EXCEPT ![j].status = "PENDING"]
  /\ graphs' = [graphs EXCEPT ![task.graph].status = "PENDING"]
  /\ task' = [task EXCEPT !.status = "QUEUED"]
  /\ UNCHANGED <<quotes, issues, assessments, confirmations, checkpoint, worker>>

\* Abandoning also supersedes every other live job of the task.
AbandonTask(expected) ==
  /\ task.status # "ABANDONED"
  /\ task.rev = expected
  /\ task.rev + 1 \in Revisions
  /\ task' = [status |-> "ABANDONED", rev |-> task.rev + 1, graph |-> 0,
              result |-> NoResult]
  /\ graphs' = SupersededGraphs
  /\ issues' = SupersededIssues
  /\ jobs' = [j \in Jobs |-> IF jobs[j].status \in LiveStatuses
                             THEN [jobs[j] EXCEPT !.status = "SUPERSEDED"]
                             ELSE jobs[j]]
  /\ UNCHANGED <<quotes, assessments, confirmations, checkpoint, worker>>

UserAction ==
  \/ \E expected \in Revisions :
       \/ DeactivateQuote(expected)
       \/ ReactivateQuote(expected)
       \/ SubmitQuoteDraft(expected)
       \/ UploadQuote(expected)
       \/ UpdateRequirement(expected)
       \/ RefreshSupplierHistory(expected)
       \/ \E kind \in StartKinds : CorrectFields(expected, kind)
       \/ \E kind \in StartKinds : StartRun(expected, kind)
       \/ StartCompliance(expected)
       \/ \E runAfterSave \in BOOLEAN :
            SaveComplianceEvidence(expected, runAfterSave)
       \/ \E a \in Assessments : ConfirmCompliance(expected, a)
       \/ \E i \in Issues : AnswerIssue(expected, i)
       \/ \E j \in Jobs : RetryFailedResumeJob(expected, j)
       \/ AbandonTask(expected)
  \/ ApplyDecisionScenario

-----------------------------------------------------------------------------
(* The worker.  It reads the id of the oldest pending job in one           *)
(* transaction, claims the job in a second one, and then runs the nodes of *)
(* the graph from its checkpoint.                                          *)

Poll ==
  \E j \in Jobs :
    /\ worker.pc = "idle"
    /\ jobs[j].status = "PENDING"
    /\ \A k \in Jobs : k < j => jobs[k].status # "PENDING"
    /\ worker' = [pc |-> "picked", job |-> j, token |-> 0, fresh |-> 0]
    /\ UNCHANGED <<task, quotes, graphs, jobs, issues, assessments,
                   confirmations, checkpoint>>

\* A configuration error is raised before the claim: the job stays pending.
ConfigFails ==
  /\ "config" \in Faults
  /\ worker.pc = "picked"
  /\ worker' = IdleWorker
  /\ UNCHANGED <<task, quotes, graphs, jobs, issues, assessments,
                 confirmations, checkpoint>>

RunGraph == jobs[worker.job].graph
Saved    == checkpoint[RunGraph]

Claimable == /\ jobs[worker.job].status = "PENDING"
             /\ task.graph = RunGraph
             /\ jobs[worker.job].attempts < MaxAttempts

\* A start job begins its graph anew; a resume job carries the answered issue
\* to the node where the graph stopped.
ClaimJob ==
  /\ worker.pc = "picked"
  /\ Claimable
  /\ jobs' = [jobs EXCEPT ![worker.job].status = "RUNNING",
                          ![worker.job].attempts = @ + 1]
  /\ graphs' = [graphs EXCEPT ![RunGraph].status = "RUNNING"]
  /\ task' = [task EXCEPT !.status = "RUNNING"]
  /\ worker' = [worker EXCEPT !.pc = "running",
                              !.token = jobs[worker.job].issue]
  /\ checkpoint' =
       IF jobs[worker.job].kind = "RESUME"
       THEN checkpoint
       ELSE [checkpoint EXCEPT ![RunGraph] =
              [at |-> "load_context", rev |-> graphs[RunGraph].eff,
               requested |-> jobs[worker.job].kind = "COMPLIANCE_START",
               confirmed |-> FALSE, assessment |-> 0]]
  /\ UNCHANGED <<quotes, issues, assessments, confirmations>>

\* A refused claim raises, which rolls back what it wrote.
ClaimRefused ==
  /\ worker.pc = "picked"
  /\ ~Claimable
  /\ worker' = IdleWorker
  /\ UNCHANGED <<task, quotes, graphs, jobs, issues, assessments,
                 confirmations, checkpoint>>

\* The worker is about to run node n of its graph.
At(n) == worker.pc = "running" /\ Saved.at = n

\* A node ends by raising, by interrupting the graph, or by completing, which
\* saves the checkpoint and uses up the resume token.
Raise == /\ worker' = [worker EXCEPT !.pc = "raised"]
         /\ UNCHANGED checkpoint
Interrupt == \/ /\ worker' = [worker EXCEPT !.pc = "interrupted"]
                /\ UNCHANGED checkpoint
             \/ "save" \in Faults /\ Raise
Complete(state) ==
  \/ /\ worker' = [worker EXCEPT !.pc = "running", !.token = 0, !.fresh = 0]
     /\ checkpoint' = [checkpoint EXCEPT ![RunGraph] = state]
  \/ "save" \in Faults /\ Raise

\* A bound: when its table is full, a node raises instead of inserting.
NoRoom ==
  \/ Saved.at \in IssueNodes /\ \A i \in Issues : issues[i].status # "ABSENT"
  \/ Saved.at = "assess_compliance"
       /\ \/ \A a \in Assessments : assessments[a].content # "none"
          \/ \A c \in Confirmations : confirmations[c].rev # 0

\* The review may end in review_required whatever the infrastructure does.
NodeRaises ==
  /\ worker.pc \in {"running", "revalidating"}
  /\ Saved.at # "end"
  /\ "node" \in Faults \/ Saved.at = "review_quotes" \/ NoRoom
  /\ Raise
  /\ UNCHANGED <<task, quotes, graphs, jobs, issues, assessments, confirmations>>

LoadContext ==
  /\ At("load_context")
  /\ IF quotes.active > 0
     THEN Complete([Saved EXCEPT !.at = "review_quotes",
                                 !.rev = graphs[RunGraph].eff])
     ELSE Raise
  /\ UNCHANGED <<task, quotes, graphs, jobs, issues, assessments, confirmations>>

\* The comparison is computed only for the effective revision of the run.
RunIsAtItsRevision == graphs[RunGraph].eff = Saved.rev

\* A payment question that was answered in this run is not asked again.
PaymentAnswered ==
  \E i \in Issues : /\ issues[i].graph = RunGraph
                    /\ issues[i].node = "await_payment_information"
                    /\ issues[i].status = "RESOLVED"

\* Extraction, review, impact analysis and investigation, then the route.
ReviewQuotes(next) ==
  /\ At("review_quotes")
  /\ next = "await_payment_information" => ~PaymentAnswered
  /\ IF RunIsAtItsRevision THEN Complete([Saved EXCEPT !.at = next]) ELSE Raise
  /\ UNCHANGED <<task, quotes, graphs, jobs, issues, assessments, confirmations>>

FreezeDraft ==
  /\ At("freeze_draft")
  /\ IF RunIsAtItsRevision
     THEN Complete([Saved EXCEPT !.at = "await_shipping_amount"])
     ELSE Raise
  /\ UNCHANGED <<task, quotes, graphs, jobs, issues, assessments, confirmations>>

FreezeFinal ==
  /\ At("freeze_final")
  /\ IF RunIsAtItsRevision
     THEN Complete([Saved EXCEPT !.at = IF Saved.requested
                                        THEN "prepare_compliance"
                                        ELSE "await_compliance_start"])
     ELSE Raise
  /\ UNCHANGED <<task, quotes, graphs, jobs, issues, assessments, confirmations>>

NodeAfterAnswer(node) ==
  CASE node = "await_payment_information"    -> "review_quotes"
    [] node = "await_missing_confirmation"   -> "freeze_draft"
    [] node = "await_shipping_amount"        -> "freeze_final"
    [] node = "await_policy_evidence_review" -> "freeze_final"

\* The issue a node has opened before, if any: the key of open_issue.
IsIssueOf(i, node) ==
  /\ issues[i].status # "ABSENT"
  /\ issues[i].graph = RunGraph
  /\ issues[i].node = node
  /\ node \in RevisionKeyed => issues[i].rev = Saved.rev

\* Run again, a node finds its issue and compares it with the resume token.
AwaitKnownIssue(node, i) ==
  /\ At(node)
  /\ IsIssueOf(i, node)
  /\ CASE task.graph # RunGraph -> Raise
       [] task.graph = RunGraph /\ worker.token = 0 -> Interrupt
       [] task.graph = RunGraph /\ worker.token # 0 ->
            IF /\ worker.token = i
               /\ issues[i].status = "RESOLVED"
               /\ node # "await_batch_review"
            THEN Complete([Saved EXCEPT !.at = NodeAfterAnswer(node),
                                        !.rev = issues[i].resolved])
            ELSE Raise
  /\ UNCHANGED <<task, quotes, graphs, jobs, issues, assessments, confirmations>>

\* A new issue interrupts the run in the database before the worker stops; a
\* token left over from another issue is then found not to match.
AwaitNewIssue(node, i) ==
  /\ At(node)
  /\ \A k \in Issues : ~IsIssueOf(k, node)
  /\ task.graph = RunGraph
  /\ RunIsAtItsRevision
  /\ IsNewIssue(i)
  /\ issues' = [issues EXCEPT ![i] =
       [status |-> "OPEN", node |-> node, graph |-> RunGraph,
        rev |-> Saved.rev, resolved |-> 0]]
  /\ graphs' = [graphs EXCEPT ![RunGraph].status = "INTERRUPTED"]
  /\ task' = [task EXCEPT !.status = "NEEDS_INPUT"]
  /\ IF worker.token = 0 THEN Interrupt ELSE Raise
  /\ UNCHANGED <<quotes, jobs, assessments, confirmations>>

\* open_issue refuses a superseded run and a revision that has moved.
AwaitRefused(node) ==
  /\ At(node)
  /\ \A k \in Issues : ~IsIssueOf(k, node)
  /\ task.graph # RunGraph \/ ~RunIsAtItsRevision
  /\ Raise
  /\ UNCHANGED <<task, quotes, graphs, jobs, issues, assessments, confirmations>>

\* These two interrupts have no issue to compare the token with.
AwaitComplianceStart ==
  /\ At("await_compliance_start")
  /\ IF worker.token = 0
     THEN Interrupt
     ELSE Complete([Saved EXCEPT !.at = "prepare_compliance"])
  /\ UNCHANGED <<task, quotes, graphs, jobs, issues, assessments, confirmations>>

AwaitComplianceConfirmation ==
  /\ At("await_compliance_confirmation")
  /\ IF worker.token = 0 THEN Interrupt ELSE Raise
  /\ UNCHANGED <<task, quotes, graphs, jobs, issues, assessments, confirmations>>

\* The confirmation of the latest assessment at the task's revision, which
\* need not be the revision of this run.
ConfirmedStage ==
  \E a \in Assessments, c \in Confirmations :
    /\ IsLatestAssessment(a) /\ IsLatestConfirmation(c)
    /\ confirmations[c].assessment = a

PrepareCompliance ==
  /\ At("prepare_compliance")
  /\ \E a \in Assessments \cup {0} :
       /\ IF a = 0 THEN \A b \in Assessments : ~IsLatestAssessment(b)
                   ELSE IsLatestAssessment(a)
       /\ Complete([Saved EXCEPT !.at = "assess_compliance",
                                 !.confirmed = ConfirmedStage,
                                 !.assessment = a])
  /\ UNCHANGED <<task, quotes, graphs, jobs, issues, assessments, confirmations>>

\* The state after assessment a, whose content is known: the route follows.
Assessed(a, content, confirmed) ==
  [Saved EXCEPT
     !.assessment = a,
     !.confirmed = confirmed,
     !.at = IF confirmed THEN "publish_final_result"
            ELSE IF content \in BlockedContents
                 THEN "await_policy_evidence_review"
                 ELSE "await_compliance_confirmation"]

\* The assessment is appended whether or not the run is still current.
AssessCompliance(a, content) ==
  /\ At("assess_compliance")
  /\ IsNewAssessment(a)
  /\ assessments' = [assessments EXCEPT ![a] =
                       [rev |-> Saved.rev, content |-> content]]
  /\ IF Saved.confirmed
     THEN /\ worker' = [worker EXCEPT !.pc = "revalidating", !.fresh = a]
          /\ UNCHANGED checkpoint
     ELSE Complete(Assessed(a, content, FALSE))
  /\ UNCHANGED <<task, quotes, graphs, jobs, issues, confirmations>>

\* Mutant: the new assessment is not compared with the confirmed one.
BugNotCompared(c) ==
  /\ IsLatestConfirmation(c)
  /\ Saved.assessment # 0
  /\ confirmations[c].assessment = Saved.assessment

\* Confirmation c covers the reassessment: it is the latest one, it confirmed
\* the assessment read in prepare_compliance, and nothing compared differs.
StillConfirmed(c) ==
  /\ IsLatestConfirmation(c)
  /\ Saved.assessment # 0
  /\ confirmations[c].assessment = Saved.assessment
  /\ assessments[Saved.assessment].content = assessments[worker.fresh].content

Revalidate ==
  /\ worker.pc = "revalidating"
  /\ IF task.rev # Saved.rev \/ task.graph # RunGraph
     THEN Raise /\ UNCHANGED confirmations
     ELSE \/ \E c, new \in Confirmations :
               /\ StillConfirmed(c)
               /\ IsNewConfirmation(new)
               /\ confirmations' = [confirmations EXCEPT ![new] =
                    [confirmations[c] EXCEPT !.rev = Saved.rev,
                                             !.assessment = worker.fresh]]
               /\ Complete(Assessed(worker.fresh,
                            assessments[worker.fresh].content, TRUE))
          \/ /\ \A c \in Confirmations : ~StillConfirmed(c)
             /\ Complete(Assessed(worker.fresh,
                          assessments[worker.fresh].content, FALSE))
             /\ UNCHANGED confirmations
  /\ UNCHANGED <<task, quotes, graphs, jobs, issues, assessments>>

\* freeze_qualified_comparison and publish_result.
Publishable ==
  /\ Saved.assessment # 0
  /\ assessments[Saved.assessment].rev = Saved.rev
  /\ RunIsAtItsRevision
  /\ task.graph = RunGraph
  /\ task.rev = Saved.rev
  /\ IsLatestAssessment(Saved.assessment)
  /\ \E c \in Confirmations : /\ IsLatestConfirmation(c)
                              /\ confirmations[c].assessment = Saved.assessment
  /\ assessments[Saved.assessment].content \notin BlockedContents

PublishFinalResult ==
  /\ At("publish_final_result")
  /\ IF Publishable
     THEN /\ task' = [task EXCEPT !.result =
                        [graph |-> RunGraph, rev |-> Saved.rev,
                         assessment |-> Saved.assessment]]
          /\ Complete([Saved EXCEPT !.at = "end"])
     ELSE Raise /\ UNCHANGED task
  /\ UNCHANGED <<quotes, graphs, jobs, issues, assessments, confirmations>>

\* Mutant: finish_job does not ask whether the run is current.
BugAlwaysCurrent == TRUE

\* The run is still the one the task waits for, at the task's revision.
IsCurrentRun == task.graph = RunGraph /\ graphs[RunGraph].eff = task.rev

\* After it, run_job still reads the issue it reports: if that fails, the job
\* that has just been left waiting fails.
FinishWaiting ==
  /\ worker.pc = "interrupted"
  /\ IsCurrentRun
  /\ jobs' = [jobs EXCEPT ![worker.job].status = "WAITING_INPUT"]
  /\ graphs' = [graphs EXCEPT ![RunGraph].status = "INTERRUPTED"]
  /\ task' = [task EXCEPT !.status = "NEEDS_INPUT"]
  /\ \/ worker' = IdleWorker
     \/ "report" \in Faults /\ worker' = [worker EXCEPT !.pc = "raised"]
  /\ UNCHANGED <<quotes, issues, assessments, confirmations, checkpoint>>

FinishSucceeded ==
  /\ At("end")
  /\ IsCurrentRun
  /\ jobs' = [jobs EXCEPT ![worker.job].status = "SUCCEEDED"]
  /\ graphs' = [graphs EXCEPT ![RunGraph].status = "SUCCEEDED"]
  /\ task' = [task EXCEPT !.status = "COMPLETED"]
  /\ worker' = IdleWorker
  /\ UNCHANGED <<quotes, issues, assessments, confirmations, checkpoint>>

FinishSuperseded ==
  /\ worker.pc = "interrupted" \/ At("end")
  /\ ~IsCurrentRun
  /\ jobs' = [jobs EXCEPT ![worker.job].status = "SUPERSEDED"]
  /\ graphs' = [graphs EXCEPT ![RunGraph].status = "SUPERSEDED"]
  /\ worker' = IdleWorker
  /\ UNCHANGED <<task, quotes, issues, assessments, confirmations, checkpoint>>

\* finish_job runs inside the try block of run_job, so its failure fails the
\* job.
FinishRaises ==
  /\ "finish" \in Faults
  /\ worker.pc = "interrupted" \/ At("end")
  /\ Raise
  /\ UNCHANGED <<task, quotes, graphs, jobs, issues, assessments, confirmations>>

\* Mutants: the failure is written to the job and the task but not to the run,
\* or to the run and the task but not to the job.
BugRunNotFailed ==
  /\ worker.pc = "raised"
  /\ jobs' = [jobs EXCEPT ![worker.job].status = "FAILED"]
  /\ task' = IF task.graph = RunGraph
             THEN [task EXCEPT !.status = "FAILED"] ELSE task
  /\ worker' = IdleWorker
  /\ UNCHANGED <<quotes, graphs, issues, assessments, confirmations, checkpoint>>
BugJobNotFailed ==
  /\ worker.pc = "raised"
  /\ graphs' = [graphs EXCEPT ![RunGraph].status = "FAILED"]
  /\ task' = IF task.graph = RunGraph
             THEN [task EXCEPT !.status = "FAILED"] ELSE task
  /\ worker' = IdleWorker
  /\ UNCHANGED <<quotes, jobs, issues, assessments, confirmations, checkpoint>>

FailJob ==
  LET status == IF task.graph = RunGraph THEN "FAILED" ELSE "SUPERSEDED"
  IN  /\ worker.pc = "raised"
      /\ jobs' = [jobs EXCEPT ![worker.job].status = status]
      /\ graphs' = [graphs EXCEPT ![RunGraph].status = status]
      /\ task' = IF task.graph = RunGraph
                 THEN [task EXCEPT !.status = "FAILED"]
                 ELSE task
      /\ worker' = IdleWorker
      /\ UNCHANGED <<quotes, issues, assessments, confirmations, checkpoint>>

\* The process dies and a new one starts; no row tells that it had a job.
Crash ==
  /\ "crash" \in Faults
  /\ worker.pc # "idle"
  /\ worker' = IdleWorker
  /\ UNCHANGED <<task, quotes, graphs, jobs, issues, assessments,
                 confirmations, checkpoint>>

RouteTargets == {"await_payment_information", "await_missing_confirmation",
                 "await_batch_review", "freeze_final"}

WorkerStep ==
  \/ Poll \/ ClaimJob \/ ClaimRefused
  \/ NodeRaises \/ LoadContext \/ FreezeDraft \/ FreezeFinal
  \/ \E next \in RouteTargets : ReviewQuotes(next)
  \/ \E node \in IssueNodes : \/ AwaitRefused(node)
                              \/ \E i \in Issues : \/ AwaitKnownIssue(node, i)
                                                   \/ AwaitNewIssue(node, i)
  \/ AwaitComplianceStart \/ AwaitComplianceConfirmation \/ PrepareCompliance
  \/ \E a \in Assessments, content \in Contents : AssessCompliance(a, content)
  \/ Revalidate \/ PublishFinalResult
  \/ FinishWaiting \/ FinishSucceeded \/ FinishSuperseded \/ FinishRaises
  \/ FailJob

Next == UserAction \/ WorkerStep \/ ConfigFails \/ Crash

Spec == Init /\ [][Next]_vars

\* The loop of the single worker goes on; users owe nothing.
FairSpec == Spec /\ WF_vars(WorkerStep)

-----------------------------------------------------------------------------
(* Safety.                                                                 *)

\* A live job always belongs to the current run, and a pending one still has
\* an attempt: superseding reaches every job of the run, and the oldest
\* pending job, which the worker always takes first, cannot be one that
\* claim_job refuses for ever.
LiveJobIsCurrent ==
  \A j \in Jobs :
    jobs[j].status \in LiveStatuses =>
      /\ jobs[j].graph = task.graph
      /\ jobs[j].status = "PENDING" => jobs[j].attempts < MaxAttempts

\* A question shown to the user belongs to the current run: no superseded run
\* keeps a question that answer_issue could only refuse.
OpenIssueIsCurrent ==
  \A i \in Issues :
    issues[i].status = "OPEN" => /\ task.graph # 0
                                 /\ issues[i].graph = task.graph

\* The current result was computed by the current run for the current
\* revision: no late result of an older run, and no result kept across a
\* change of the inputs.
ResultIsCurrent ==
  task.result # NoResult => /\ task.result.rev = task.rev
                            /\ task.result.graph = task.graph

\* Nothing is published that a user did not confirm: the published assessment
\* has a confirmation at its revision, given for an assessment that said the
\* same, and it has no policy error.
ResultWasConfirmed ==
  task.result # NoResult =>
    LET a == task.result.assessment
    IN  /\ assessments[a].content \notin BlockedContents
        /\ \E c \in Confirmations :
             /\ confirmations[c].rev = task.result.rev
             /\ confirmations[c].assessment = a
             /\ confirmations[c].seen = assessments[a].content

\* The state that start_run refuses to replace ("already has an active graph
\* run") is one that some job is going to leave.
ActiveRunHasWork ==
  RunIsActive =>
    \E j \in Jobs : /\ jobs[j].graph = task.graph
                    /\ jobs[j].status = graphs[task.graph].status

\* A task that asks for input offers something to do: a question that can be
\* answered or corrected, a job that goes on, or a stage the user starts or
\* confirms.
NeedsInputHasQuestion ==
  task.status = "NEEDS_INPUT" =>
    \/ \E i \in Issues : issues[i].status = "OPEN"
    \/ \E j \in Jobs : jobs[j].status \in {"PENDING", "RUNNING"}
    \/ checkpoint[task.graph].at \in StageNodes
    \/ \A j \in Jobs : jobs[j].graph # task.graph

-----------------------------------------------------------------------------
(* What a step may never do.                                               *)

\* Abandoned tasks are read-only.
AbandonedIsFinal ==
  [][task.status = "ABANDONED" => UNCHANGED <<task, quotes, issues>>]_vars

\* No late write of the worker revives a superseded run, job or issue, and a
\* job that succeeded stays so.
KeepsFinalRows ==
  /\ \A g \in Graphs :
       graphs[g].status = "SUPERSEDED" => graphs'[g].status = "SUPERSEDED"
  /\ \A j \in Jobs :
       jobs[j].status \in {"SUPERSEDED", "SUCCEEDED"} =>
         jobs'[j].status = jobs[j].status
  /\ \A i \in Issues :
       issues[i].status \in {"RESOLVED", "SUPERSEDED"} => issues'[i] = issues[i]
FinalRowsStay == [][KeepsFinalRows]_vars

-----------------------------------------------------------------------------
(* What the task promises to conversations, scenarios and summaries.       *)

\* The runs whose result can no longer be published: every run but the current
\* one, which is the newest.
RetiredRuns == IF task.graph # 0 THEN task.graph - 1
               ELSE Cardinality({g \in Graphs : graphs[g].status # "ABSENT"})

Decision == INSTANCE PublishedDecision WITH
              revision <- task.rev,
              result   <- task.result.graph,
              retired  <- RetiredRuns,
              closed   <- task.status = "ABANDONED"

\* Handlers, worker and faults together never do more to the published result
\* than the specification PublishedDecision allows.
ImplementsDecision == Decision!Spec

-----------------------------------------------------------------------------
(* Progress.                                                               *)

\* A queued job is taken, or it is superseded: nothing blocks the queue.
QueuedJobIsTaken ==
  \A j \in Jobs : jobs[j].status = "PENDING" ~> jobs[j].status # "PENDING"

\* A job that runs comes to an end that the user can see.
RunningJobEnds ==
  \A j \in Jobs : jobs[j].status = "RUNNING" ~> jobs[j].status # "RUNNING"
=============================================================================
