------------------------- MODULE TaskWorkflowProofs -------------------------
(***************************************************************************)
(* For every value of the constants of TaskWorkflow: its types; the        *)
(* inductive invariant and the safety properties that follow from it; what *)
(* the user relies on, that a published result was confirmed and an        *)
(* abandoned task is read-only; that it implements PublishedDecision; and  *)
(* that a task which asks for input offers something to do.                *)
(***************************************************************************)
EXTENDS TaskWorkflow, FiniteSetTheorems, TLAPS

-----------------------------------------------------------------------------
(* What superseding, replacing and clearing the run leave well typed.      *)

\* The tables these operators write.
RunTablesOK ==
  /\ task \in TaskRow
  /\ graphs \in [Graphs -> GraphRow]
  /\ jobs \in [Jobs -> JobRow]
  /\ issues \in [Issues -> IssueRow]
  /\ \A j \in Jobs : jobs[j].status # "ABSENT" => jobs[j].graph # 0

JobsStayPresent ==
  \A j \in Jobs : jobs[j].status # "ABSENT" => jobs'[j].status # "ABSENT"

\* _supersede_current_graph changes statuses only.
LEMMA SupersedeType ==
  ASSUME TypeOK
  PROVE  /\ SupersededGraphs \in [Graphs -> GraphRow]
         /\ SupersededJobs \in [Jobs -> JobRow]
         /\ SupersededIssues \in [Issues -> IssueRow]
         /\ \A j \in Jobs : /\ SupersededJobs[j].graph = jobs[j].graph
                            /\ SupersededJobs[j].status = "ABSENT"
                                 <=> jobs[j].status = "ABSENT"
  <1>1. SupersededGraphs \in [Graphs -> GraphRow]
    BY DEF TypeOK, SupersededGraphs, GraphRow, GraphStatuses
  <1>2. SupersededIssues \in [Issues -> IssueRow]
    BY DEF TypeOK, SupersededIssues, IssueRow, IssueStatuses
  <1>3. SupersededJobs \in [Jobs -> JobRow]
    BY DEF TypeOK, SupersededJobs, JobRow, JobStatuses
  <1>4. \A j \in Jobs : /\ SupersededJobs[j].graph = jobs[j].graph
                        /\ SupersededJobs[j].status = "ABSENT"
                             <=> jobs[j].status = "ABSENT"
    BY DEF TypeOK, SupersededJobs, JobRow, LiveStatuses
  <1> QED BY <1>1, <1>2, <1>3, <1>4

\* Queueing a new run inserts a well-typed run and job.
LEMMA ReplaceRunType ==
  ASSUME TypeOK, NEW kind \in StartKinds, NEW rev, ReplaceRun(kind, rev)
  PROVE  RunTablesOK' /\ JobsStayPresent
  <1>1. PICK g \in Graphs, j \in Jobs :
    /\ rev \in Revisions
    /\ IsNewGraph(g) /\ IsNewJob(j)
    /\ task' = [status |-> "QUEUED", rev |-> rev, graph |-> g,
                result |-> NoResult]
    /\ graphs' = [SupersededGraphs EXCEPT ![g] =
                    [status |-> "PENDING", eff |-> rev]]
    /\ issues' = SupersededIssues
    /\ jobs' = [SupersededJobs EXCEPT ![j] =
                  [status |-> "PENDING", kind |-> kind, graph |-> g,
                   issue |-> 0, attempts |-> 0]]
    BY DEF ReplaceRun
  <1>2. g # 0 /\ 0 \in 0 .. MaxAttempts
    BY BoundsAssumption DEF Graphs
  <1>3. task' \in TaskRow
    BY <1>1 DEF TaskRow, TaskStatuses
  <1>4. graphs' \in [Graphs -> GraphRow]
    BY <1>1, SupersedeType DEF GraphRow, GraphStatuses
  <1>5. jobs' \in [Jobs -> JobRow]
    BY <1>1, <1>2, SupersedeType DEF JobRow, JobStatuses, JobKinds
  <1>6. /\ \A k \in Jobs : jobs'[k].status # "ABSENT" => jobs'[k].graph # 0
        /\ JobsStayPresent
    BY <1>1, <1>2, SupersedeType DEF JobsStayPresent, TypeOK, JobRow
  <1> QED BY <1>1, <1>3, <1>4, <1>5, <1>6, SupersedeType DEF RunTablesOK

LEMMA ClearRunType ==
  ASSUME TypeOK, NEW status \in TaskStatuses, NEW rev, ClearRun(status, rev)
  PROVE  RunTablesOK' /\ JobsStayPresent
  <1>1. task' \in TaskRow
    BY DEF ClearRun, TaskRow
  <1>2. /\ \A j \in Jobs : jobs'[j].status # "ABSENT" => jobs'[j].graph # 0
        /\ JobsStayPresent
    BY SupersedeType DEF ClearRun, JobsStayPresent, TypeOK, JobRow
  <1> QED BY <1>1, <1>2, SupersedeType DEF ClearRun, RunTablesOK

LEMMA PreparationGraphType ==
  ASSUME TypeOK, NEW rev, PreparationGraph(rev)
  PROVE  RunTablesOK' /\ JobsStayPresent
  <1>1. task' \in TaskRow
    BY DEF PreparationGraph, TaskRow, TaskStatuses
  <1>2. graphs' \in [Graphs -> GraphRow]
    BY SupersedeType DEF PreparationGraph, GraphRow, GraphStatuses
  <1>3. /\ \A j \in Jobs : jobs'[j].status # "ABSENT" => jobs'[j].graph # 0
        /\ JobsStayPresent
    BY SupersedeType DEF PreparationGraph, JobsStayPresent, TypeOK, JobRow
  <1> QED BY <1>1, <1>2, <1>3, SupersedeType DEF PreparationGraph, RunTablesOK

QuotesOK == /\ quotes \in [active : Nat, inactive : Nat]
            /\ quotes.active + quotes.inactive <= MaxQuotes

\* A handler that leaves artifacts, checkpoints and the worker alone.
LEMMA HandlerType ==
  ASSUME TypeOK, RunTablesOK', JobsStayPresent, QuotesOK',
         UNCHANGED <<assessments, confirmations, checkpoint, worker>>
  PROVE  TypeOK'
  BY DEF TypeOK, RunTablesOK, JobsStayPresent, QuotesOK, WorkerState

LEMMA RunOrDraftType ==
  ASSUME TypeOK, NEW rev, RunOrDraft(rev)
  PROVE  RunTablesOK' /\ JobsStayPresent
  BY ReplaceRunType, ClearRunType DEF RunOrDraft, StartKinds, TaskStatuses

\* The compliance confirmation also writes two artifacts.
LEMMA ConfirmType ==
  ASSUME TypeOK, NEW expected, NEW a \in Assessments, ConfirmCompliance(expected, a)
  PROVE  TypeOK'
  <1>1. RunTablesOK' /\ JobsStayPresent
    BY ReplaceRunType DEF ConfirmCompliance, StartKinds
  <1>2. task.rev + 1 \in Revisions
    BY DEF ConfirmCompliance, ReplaceRun
  <1>3. assessments' \in [Assessments -> AssessmentRow]
    BY <1>2 DEF ConfirmCompliance, TypeOK, AssessmentRow
  <1>4. confirmations' \in [Confirmations -> ConfirmationRow]
    BY <1>2 DEF ConfirmCompliance, TypeOK, ConfirmationRow, AssessmentRow
  <1> QED
    BY <1>1, <1>3, <1>4
    DEF ConfirmCompliance, TypeOK, RunTablesOK, JobsStayPresent, WorkerState

\* Every handler keeps the types.
LEMMA UserActionType ==
  ASSUME TypeOK, UserAction
  PROVE  TypeOK'
  <1> USE DEF TaskStatuses, StartKinds
  <1>1. ASSUME NEW expected \in Revisions, DeactivateQuote(expected)
        PROVE  TypeOK'
    <2>1. QuotesOK'
      BY <1>1, BoundsAssumption DEF DeactivateQuote, TypeOK, QuotesOK
    <2> QED BY <1>1, <2>1, ClearRunType, HandlerType DEF DeactivateQuote
  <1>2. ASSUME NEW expected \in Revisions, ReactivateQuote(expected)
        PROVE  TypeOK'
    <2>1. QuotesOK'
      BY <1>2, BoundsAssumption DEF ReactivateQuote, TypeOK, QuotesOK
    <2> QED BY <1>2, <2>1, ClearRunType, HandlerType DEF ReactivateQuote
  <1>3. ASSUME NEW expected \in Revisions, SubmitQuoteDraft(expected)
        PROVE  TypeOK'
    <2>1. QuotesOK'
      BY <1>3, BoundsAssumption DEF SubmitQuoteDraft, TypeOK, QuotesOK
    <2> QED BY <1>3, <2>1, ClearRunType, HandlerType DEF SubmitQuoteDraft
  <1>4. ASSUME NEW expected \in Revisions, UploadQuote(expected)
        PROVE  TypeOK'
    <2>1. QuotesOK'
      BY <1>4, BoundsAssumption DEF UploadQuote, TypeOK, QuotesOK
    <2> QED BY <1>4, <2>1, ClearRunType, HandlerType DEF UploadQuote
  <1>5. ASSUME UNCHANGED quotes
        PROVE  QuotesOK'
    BY <1>5 DEF TypeOK, QuotesOK
  <1>6. ASSUME NEW expected \in Revisions, UpdateRequirement(expected)
        PROVE  TypeOK'
    BY <1>5, <1>6, RunOrDraftType, HandlerType DEF UpdateRequirement
  <1>7. ASSUME NEW expected \in Revisions, RefreshSupplierHistory(expected)
        PROVE  TypeOK'
    BY <1>5, <1>7, RunOrDraftType, HandlerType DEF RefreshSupplierHistory
  <1>8. ASSUME ApplyDecisionScenario
        PROVE  TypeOK'
    BY <1>5, <1>8, RunOrDraftType, HandlerType DEF ApplyDecisionScenario
  <1>9. ASSUME NEW expected \in Revisions, NEW kind \in StartKinds,
               CorrectFields(expected, kind)
        PROVE  TypeOK'
    BY <1>5, <1>9, ReplaceRunType, HandlerType DEF CorrectFields
  <1>10. ASSUME NEW expected \in Revisions, NEW kind \in StartKinds,
                StartRun(expected, kind)
         PROVE  TypeOK'
    BY <1>5, <1>10, ReplaceRunType, HandlerType DEF StartRun
  <1>11. ASSUME NEW expected \in Revisions, StartCompliance(expected)
         PROVE  TypeOK'
    BY <1>5, <1>11, ReplaceRunType, HandlerType DEF StartCompliance
  <1>12. ASSUME NEW expected \in Revisions, NEW run \in BOOLEAN,
                SaveComplianceEvidence(expected, run)
         PROVE  TypeOK'
    BY <1>5, <1>12, ReplaceRunType, PreparationGraphType, HandlerType
    DEF SaveComplianceEvidence
  <1>13. ASSUME NEW expected \in Revisions, NEW a \in Assessments,
                ConfirmCompliance(expected, a)
         PROVE  TypeOK'
    BY <1>13, ConfirmType
  <1>14. ASSUME NEW expected \in Revisions, NEW i \in Issues,
                AnswerIssue(expected, i)
         PROVE  TypeOK'
    <2>1. PICK j \in Jobs : AnswerIssue(expected, i)!(j)
      BY <1>14 DEF AnswerIssue
    <2>2. 0 \in 0 .. MaxAttempts
      BY BoundsAssumption
    <2>3. /\ task' \in TaskRow
          /\ graphs' \in [Graphs -> GraphRow]
          /\ issues' \in [Issues -> IssueRow]
      <3>1. task' \in TaskRow
        BY <2>1 DEF TypeOK, TaskRow
      <3>2. graphs' \in [Graphs -> GraphRow]
        BY <2>1 DEF TypeOK, GraphRow, GraphStatuses
      <3>3. issues' \in [Issues -> IssueRow]
        <4>1. [issues[i] EXCEPT !.status = "RESOLVED", !.resolved = task.rev + 1]
                \in IssueRow
          BY <2>1 DEF TypeOK, IssueRow, IssueStatuses
        <4>2. issues' = [issues EXCEPT ![i] =
                [issues[i] EXCEPT !.status = "RESOLVED", !.resolved = task.rev + 1]]
          BY <2>1 DEF TypeOK, IssueRow
        <4> QED BY <4>1, <4>2 DEF TypeOK
      <3> QED BY <3>1, <3>2, <3>3
    <2>4. jobs' \in [Jobs -> JobRow]
      BY <2>1, <2>2 DEF TypeOK, JobRow, JobStatuses, JobKinds, TaskRow
    <2>5. /\ \A k \in Jobs : jobs'[k].status # "ABSENT" => jobs'[k].graph # 0
          /\ JobsStayPresent
      BY <2>1 DEF TypeOK, JobRow, JobsStayPresent
    <2> QED BY <1>5, <2>1, <2>3, <2>4, <2>5, HandlerType DEF RunTablesOK
  <1>15. ASSUME NEW expected \in Revisions, NEW j \in Jobs,
                RetryFailedResumeJob(expected, j)
         PROVE  TypeOK'
    <2>1. /\ task' \in TaskRow
          /\ graphs' \in [Graphs -> GraphRow]
      <3>1. task' \in TaskRow
        BY <1>15 DEF RetryFailedResumeJob, TypeOK, TaskRow
      <3>2. graphs' \in [Graphs -> GraphRow]
        BY <1>15 DEF RetryFailedResumeJob, TypeOK, GraphRow, GraphStatuses
      <3> QED BY <3>1, <3>2
    <2>2. jobs' \in [Jobs -> JobRow]
      <3>1. /\ jobs' = [jobs EXCEPT ![j] = [jobs[j] EXCEPT !.status = "PENDING"]]
            /\ jobs \in [Jobs -> JobRow]
        BY <1>15 DEF RetryFailedResumeJob, TypeOK
      <3>2. [jobs[j] EXCEPT !.status = "PENDING"] \in JobRow
        BY <3>1 DEF JobRow, JobStatuses
      <3> QED BY <3>1, <3>2
    <2>3. /\ \A k \in Jobs : jobs'[k].status # "ABSENT" => jobs'[k].graph # 0
          /\ JobsStayPresent
      BY <1>15 DEF RetryFailedResumeJob, TypeOK, JobRow, JobsStayPresent
    <2>4. RunTablesOK'
      <3>1. issues' \in [Issues -> IssueRow]
        BY <1>15 DEF RetryFailedResumeJob, TypeOK
      <3> QED BY <2>1, <2>2, <2>3, <3>1 DEF RunTablesOK
    <2> QED BY <1>5, <1>15, <2>3, <2>4, HandlerType DEF RetryFailedResumeJob
  <1>16. ASSUME NEW expected \in Revisions, AbandonTask(expected)
         PROVE  TypeOK'
    <2>1. task' \in TaskRow
      BY <1>16 DEF AbandonTask, TaskRow
    <2>2. jobs' \in [Jobs -> JobRow]
      BY <1>16 DEF AbandonTask, TypeOK, JobRow, JobStatuses
    <2>3. /\ \A k \in Jobs : jobs'[k].status # "ABSENT" => jobs'[k].graph # 0
          /\ JobsStayPresent
      BY <1>16 DEF AbandonTask, TypeOK, JobRow, JobsStayPresent, LiveStatuses
    <2> QED
      BY <1>5, <1>16, <2>1, <2>2, <2>3, SupersedeType, HandlerType
      DEF AbandonTask, RunTablesOK
  <1> QED
    BY <1>1, <1>2, <1>3, <1>4, <1>6, <1>7, <1>8, <1>9, <1>10, <1>11, <1>12,
       <1>13, <1>14, <1>15, <1>16
    DEF UserAction

-----------------------------------------------------------------------------
(* The worker.                                                             *)

\* A step of the worker that changes nothing but its checkpoint and itself.
RowsKept ==
  UNCHANGED <<task, quotes, graphs, jobs, issues, assessments, confirmations>>

\* A node has ended, with the given state if it completed.
NodeEnds(state) == Raise \/ Interrupt \/ Complete(state)

\* The worker has claimed its job.
BusyStates == {"running", "revalidating", "interrupted", "raised"}

\* It goes on with that job.
KeepsJob == /\ worker.pc \in BusyStates
            /\ worker'.pc \in {"running", "interrupted", "raised"}
            /\ worker'.job = worker.job

\* A worker that is not idle has a job, and its job has a run.
LEMMA WorkerHasRun ==
  ASSUME TypeOK, worker.pc # "idle"
  PROVE  /\ worker.job \in Jobs
         /\ RunGraph \in Graphs
         /\ Saved \in CheckpointRow
  <1>1. worker.job \in Jobs
    BY DEF TypeOK, WorkerState
  <1>2. RunGraph \in Graphs
    BY <1>1 DEF TypeOK, RunGraph, JobRow
  <1> QED BY <1>1, <1>2 DEF TypeOK, Saved

LEMMA NodeEndsType ==
  ASSUME TypeOK, worker.pc # "idle", NEW state \in CheckpointRow, NodeEnds(state)
  PROVE  /\ worker' \in WorkerState
         /\ worker'.pc \in {"running", "interrupted", "raised"}
         /\ worker'.job = worker.job
         /\ checkpoint' \in [Graphs -> CheckpointRow]
  <1>1. CASE UNCHANGED checkpoint
    BY <1>1 DEF TypeOK, NodeEnds, Raise, Interrupt, Complete, WorkerState
  <1>2. CASE /\ worker' = [worker EXCEPT !.pc = "running", !.token = 0, !.fresh = 0]
             /\ checkpoint' = [checkpoint EXCEPT ![RunGraph] = state]
    BY <1>2, WorkerHasRun DEF TypeOK, WorkerState
  <1> QED BY <1>1, <1>2 DEF NodeEnds, Raise, Interrupt, Complete

\* A node that writes no row keeps the types.
LEMMA QuietNodeType ==
  ASSUME TypeOK, worker.pc \in BusyStates, NEW state \in CheckpointRow,
         NodeEnds(state), RowsKept
  PROVE  TypeOK' /\ RowsKept /\ KeepsJob
  BY NodeEndsType DEF TypeOK, RowsKept, KeepsJob, BusyStates

LEMMA ReviewNodesType ==
  ASSUME TypeOK,
         NodeRaises \/ LoadContext \/ FreezeDraft \/ FreezeFinal
           \/ \E next \in RouteTargets : ReviewQuotes(next)
  PROVE  TypeOK' /\ RowsKept /\ KeepsJob
  <1> USE DEF RowsKept, NodeEnds, At, BusyStates
  <1>1. CASE NodeRaises
    BY <1>1, WorkerHasRun, QuietNodeType DEF NodeRaises
  <1>2. CASE LoadContext
    <2>1. worker.pc \in BusyStates
      BY <1>2 DEF LoadContext
    <2>2. [Saved EXCEPT !.at = "review_quotes", !.rev = graphs[RunGraph].eff]
            \in CheckpointRow
      BY <2>1, WorkerHasRun DEF CheckpointRow, Nodes, TypeOK, GraphRow
    <2> QED BY <1>2, <2>1, <2>2, QuietNodeType DEF LoadContext
  <1>3. CASE FreezeDraft
    <2>1. worker.pc \in BusyStates
      BY <1>3 DEF FreezeDraft
    <2>2. [Saved EXCEPT !.at = "await_shipping_amount"] \in CheckpointRow
      BY <2>1, WorkerHasRun DEF CheckpointRow, Nodes, IssueNodes
    <2> QED BY <1>3, <2>1, <2>2, QuietNodeType DEF FreezeDraft
  <1>4. CASE FreezeFinal
    <2>1. worker.pc \in BusyStates
      BY <1>4 DEF FreezeFinal
    <2>2. [Saved EXCEPT !.at = IF Saved.requested THEN "prepare_compliance"
                               ELSE "await_compliance_start"] \in CheckpointRow
      BY <2>1, WorkerHasRun DEF CheckpointRow, Nodes, StageNodes
    <2> QED BY <1>4, <2>1, <2>2, QuietNodeType DEF FreezeFinal
  <1>5. ASSUME NEW next \in RouteTargets, ReviewQuotes(next)
        PROVE  TypeOK' /\ RowsKept /\ KeepsJob
    <2>1. worker.pc \in BusyStates
      BY <1>5 DEF ReviewQuotes
    <2>2. [Saved EXCEPT !.at = next] \in CheckpointRow
      BY <2>1, WorkerHasRun DEF CheckpointRow, Nodes, IssueNodes, RouteTargets
    <2> QED BY <1>5, <2>1, <2>2, QuietNodeType DEF ReviewQuotes
  <1> QED BY <1>1, <1>2, <1>3, <1>4, <1>5

LEMMA WaitNodesType ==
  ASSUME TypeOK,
         \/ AwaitComplianceStart \/ AwaitComplianceConfirmation
         \/ PrepareCompliance
         \/ \E node \in IssueNodes :
              AwaitRefused(node) \/ \E i \in Issues : AwaitKnownIssue(node, i)
  PROVE  TypeOK' /\ RowsKept /\ KeepsJob
  <1> USE DEF RowsKept, NodeEnds, At, BusyStates
  <1>1. CASE AwaitComplianceStart
    <2>1. worker.pc \in BusyStates
      BY <1>1 DEF AwaitComplianceStart
    <2>2. [Saved EXCEPT !.at = "prepare_compliance"] \in CheckpointRow
      BY <2>1, WorkerHasRun DEF CheckpointRow, Nodes
    <2> QED BY <1>1, <2>1, <2>2, QuietNodeType DEF AwaitComplianceStart
  <1>2. CASE AwaitComplianceConfirmation
    BY <1>2, WorkerHasRun, QuietNodeType DEF AwaitComplianceConfirmation
  <1>3. CASE PrepareCompliance
    <2>1. worker.pc \in BusyStates
      BY <1>3 DEF PrepareCompliance
    <2>2. PICK a \in Assessments \cup {0} :
            Complete([Saved EXCEPT !.at = "assess_compliance",
                                   !.confirmed = ConfirmedStage,
                                   !.assessment = a])
      BY <1>3 DEF PrepareCompliance
    <2>3. ConfirmedStage \in BOOLEAN
      BY DEF ConfirmedStage
    <2>4. [Saved EXCEPT !.at = "assess_compliance",
                        !.confirmed = ConfirmedStage,
                        !.assessment = a] \in CheckpointRow
      BY <2>1, <2>3, WorkerHasRun DEF CheckpointRow, Nodes
    <2> QED BY <1>3, <2>1, <2>2, <2>4, QuietNodeType DEF PrepareCompliance
  <1>4. ASSUME NEW node \in IssueNodes, AwaitRefused(node)
        PROVE  TypeOK' /\ RowsKept /\ KeepsJob
    BY <1>4, WorkerHasRun, QuietNodeType DEF AwaitRefused
  <1>5. ASSUME NEW node \in IssueNodes, NEW i \in Issues,
               AwaitKnownIssue(node, i)
        PROVE  TypeOK' /\ RowsKept /\ KeepsJob
    <2>1. worker.pc \in BusyStates
      BY <1>5 DEF AwaitKnownIssue
    <2>2. CASE Raise \/ Interrupt
      BY <1>5, <2>1, <2>2, WorkerHasRun, QuietNodeType DEF AwaitKnownIssue
    <2>3. CASE /\ node # "await_batch_review"
               /\ Complete([Saved EXCEPT !.at = NodeAfterAnswer(node),
                                         !.rev = issues[i].resolved])
      <3>1. NodeAfterAnswer(node) \in Nodes
        BY <2>3 DEF NodeAfterAnswer, IssueNodes, Nodes
      <3>2. [Saved EXCEPT !.at = NodeAfterAnswer(node),
                          !.rev = issues[i].resolved] \in CheckpointRow
        BY <2>1, <3>1, WorkerHasRun DEF CheckpointRow, TypeOK, IssueRow
      <3> QED BY <1>5, <2>1, <2>3, <3>2, QuietNodeType DEF AwaitKnownIssue
    <2> QED BY <1>5, <2>2, <2>3 DEF AwaitKnownIssue
  <1> QED BY <1>1, <1>2, <1>3, <1>4, <1>5

LEMMA ClaimJobType ==
  ASSUME TypeOK, ClaimJob
  PROVE  TypeOK'
  <1>1. /\ worker.job \in Jobs /\ RunGraph \in Graphs
        /\ worker.pc = "picked"
    BY WorkerHasRun DEF ClaimJob
  <1>2. task' \in TaskRow
    BY DEF ClaimJob, TypeOK, TaskRow, TaskStatuses
  <1>3. graphs' \in [Graphs -> GraphRow]
    BY <1>1 DEF ClaimJob, TypeOK, GraphRow, GraphStatuses
  <1>4. jobs[worker.job].attempts + 1 \in 0 .. MaxAttempts
    BY <1>1, BoundsAssumption DEF ClaimJob, Claimable, TypeOK, JobRow
  <1>5. jobs' \in [Jobs -> JobRow]
    BY <1>1, <1>4 DEF ClaimJob, TypeOK, JobRow, JobStatuses
  <1>6. \A j \in Jobs : jobs'[j].status # "ABSENT" => jobs'[j].graph # 0
    BY <1>1 DEF ClaimJob, TypeOK, Claimable
  <1>7. worker' \in WorkerState
    BY <1>1 DEF ClaimJob, TypeOK, WorkerState, JobRow
  <1>8. [at |-> "load_context", rev |-> graphs[RunGraph].eff,
         requested |-> jobs[worker.job].kind = "COMPLIANCE_START",
         confirmed |-> FALSE, assessment |-> 0] \in CheckpointRow
    BY <1>1 DEF TypeOK, GraphRow, CheckpointRow, Nodes
  <1>9. checkpoint' \in [Graphs -> CheckpointRow]
    BY <1>1, <1>8 DEF ClaimJob, TypeOK
  <1>10. worker'.job = worker.job /\ worker'.pc = "running"
         /\ jobs'[worker.job].status = "RUNNING"
    BY <1>1 DEF ClaimJob, TypeOK, WorkerState
  <1> QED
    BY <1>1, <1>2, <1>3, <1>5, <1>6, <1>7, <1>9, <1>10 DEF ClaimJob, TypeOK

LEMMA AwaitNewIssueType ==
  ASSUME TypeOK, NEW node \in IssueNodes, NEW i \in Issues,
         AwaitNewIssue(node, i)
  PROVE  TypeOK'
  <1>1. worker.pc = "running" /\ RunGraph \in Graphs /\ Saved \in CheckpointRow
    BY WorkerHasRun DEF AwaitNewIssue, At
  <1>2. task' \in TaskRow
    BY DEF AwaitNewIssue, TypeOK, TaskRow, TaskStatuses
  <1>3. graphs' \in [Graphs -> GraphRow]
    BY <1>1 DEF AwaitNewIssue, TypeOK, GraphRow, GraphStatuses
  <1>4. issues' \in [Issues -> IssueRow]
    BY <1>1 DEF AwaitNewIssue, TypeOK, IssueRow, IssueStatuses, CheckpointRow
  <1>5. NodeEnds(Saved)
    BY DEF AwaitNewIssue, NodeEnds
  <1> QED
    BY <1>1, <1>2, <1>3, <1>4, <1>5, NodeEndsType DEF AwaitNewIssue, TypeOK

\* The state after an assessment is a checkpoint.
LEMMA AssessedType ==
  ASSUME TypeOK, worker.pc # "idle", NEW a \in Assessments \cup {0},
         NEW content, NEW confirmed \in BOOLEAN
  PROVE  Assessed(a, content, confirmed) \in CheckpointRow
  BY WorkerHasRun DEF Assessed, CheckpointRow, Nodes, IssueNodes, StageNodes

LEMMA AssessComplianceType ==
  ASSUME TypeOK, NEW a \in Assessments, NEW content \in Contents,
         AssessCompliance(a, content)
  PROVE  TypeOK'
  <1>1. worker.pc = "running" /\ RunGraph \in Graphs /\ Saved \in CheckpointRow
    BY WorkerHasRun DEF AssessCompliance, At
  <1>2. assessments' \in [Assessments -> AssessmentRow]
    BY <1>1 DEF AssessCompliance, TypeOK, AssessmentRow, CheckpointRow
  <1>3. CASE Saved.confirmed
    <2>1. /\ worker' = [worker EXCEPT !.pc = "revalidating", !.fresh = a]
          /\ checkpoint' = checkpoint /\ a # 0
      BY <1>3 DEF AssessCompliance, Assessments
    <2> QED
      BY <1>1, <1>2, <2>1 DEF AssessCompliance, TypeOK, WorkerState
  <1>4. CASE ~Saved.confirmed
    <2>1. NodeEnds(Assessed(a, content, FALSE))
      BY <1>4 DEF AssessCompliance, NodeEnds
    <2> QED
      BY <1>1, <1>2, <2>1, AssessedType, NodeEndsType
      DEF AssessCompliance, TypeOK
  <1> QED BY <1>3, <1>4

LEMMA RevalidateType ==
  ASSUME TypeOK, Revalidate
  PROVE  TypeOK'
  <1>1. /\ worker.pc = "revalidating" /\ RunGraph \in Graphs
        /\ Saved \in CheckpointRow /\ worker.fresh \in Assessments \cup {0}
    BY WorkerHasRun DEF Revalidate, TypeOK, WorkerState
  <1>2. /\ Assessed(worker.fresh, assessments[worker.fresh].content, TRUE)
             \in CheckpointRow
        /\ Assessed(worker.fresh, assessments[worker.fresh].content, FALSE)
             \in CheckpointRow
    BY <1>1, AssessedType
  <1>3. PICK state \in CheckpointRow : NodeEnds(state)
    BY <1>1, <1>2 DEF Revalidate, NodeEnds
  <1>4. confirmations' \in [Confirmations -> ConfirmationRow]
    <2>1. CASE UNCHANGED confirmations
      BY <2>1 DEF TypeOK
    <2>2. ASSUME NEW c \in Confirmations, NEW new \in Confirmations,
                 confirmations' = [confirmations EXCEPT ![new] =
                    [confirmations[c] EXCEPT !.rev = Saved.rev,
                                             !.assessment = worker.fresh]]
          PROVE  confirmations' \in [Confirmations -> ConfirmationRow]
      <3>1. [confirmations[c] EXCEPT !.rev = Saved.rev,
                                     !.assessment = worker.fresh]
              \in ConfirmationRow
        <4>1. confirmations[c] \in ConfirmationRow
          BY DEF TypeOK
        <4>2. Saved.rev \in Revisions \cup {0}
          BY <1>1 DEF CheckpointRow
        <4> QED BY <1>1, <4>1, <4>2 DEF ConfirmationRow
      <3> QED BY <2>2, <3>1 DEF TypeOK
    <2> QED BY <2>1, <2>2 DEF Revalidate
  <1> QED BY <1>1, <1>3, <1>4, NodeEndsType DEF Revalidate, TypeOK

LEMMA PublishType ==
  ASSUME TypeOK, PublishFinalResult
  PROVE  TypeOK'
  <1>1. worker.pc = "running" /\ RunGraph \in Graphs /\ Saved \in CheckpointRow
    BY WorkerHasRun DEF PublishFinalResult, At
  <1>2. [Saved EXCEPT !.at = "end"] \in CheckpointRow
    BY <1>1 DEF CheckpointRow, Nodes
  <1>3. PICK state \in CheckpointRow : NodeEnds(state)
    BY <1>1, <1>2 DEF PublishFinalResult, NodeEnds
  <1>4. task' \in TaskRow
    <2>1. CASE Publishable
      <3>1. /\ Saved.rev \in Revisions
            /\ Saved.assessment \in Assessments
        BY <1>1, <2>1 DEF Publishable, CheckpointRow, TypeOK, TaskRow
      <3>2. [graph |-> RunGraph, rev |-> Saved.rev,
             assessment |-> Saved.assessment] \in Results
        BY <1>1, <3>1 DEF Results
      <3> QED BY <2>1, <3>2 DEF PublishFinalResult, TypeOK, TaskRow
    <2>2. CASE ~Publishable
      BY <2>2 DEF PublishFinalResult, TypeOK
    <2> QED BY <2>1, <2>2
  <1> QED BY <1>1, <1>3, <1>4, NodeEndsType DEF PublishFinalResult, TypeOK

\* The ends of a job set three statuses and let the worker go.
LEMMA JobEndsType ==
  ASSUME TypeOK, worker.pc # "idle",
         NEW js \in {"WAITING_INPUT", "SUCCEEDED", "SUPERSEDED", "FAILED"},
         NEW gs \in {"INTERRUPTED", "SUCCEEDED", "SUPERSEDED", "FAILED"},
         NEW ts \in TaskStatuses,
         jobs' = [jobs EXCEPT ![worker.job].status = js],
         graphs' = [graphs EXCEPT ![RunGraph].status = gs],
         task' = task \/ task' = [task EXCEPT !.status = ts],
         worker' \in {IdleWorker, [worker EXCEPT !.pc = "raised"]},
         UNCHANGED <<quotes, issues, assessments, confirmations, checkpoint>>
  PROVE  TypeOK'
  <1>1. worker.job \in Jobs /\ RunGraph \in Graphs
    BY WorkerHasRun
  <1>2. task' \in TaskRow
    BY DEF TypeOK, TaskRow
  <1>3. graphs' \in [Graphs -> GraphRow]
    BY <1>1 DEF TypeOK, GraphRow, GraphStatuses
  <1>4. jobs' \in [Jobs -> JobRow]
    BY <1>1 DEF TypeOK, JobRow, JobStatuses
  <1>5. \A j \in Jobs : jobs'[j].status # "ABSENT" => jobs'[j].graph # 0
    BY <1>1 DEF TypeOK
  <1>6. /\ worker' \in WorkerState
        /\ worker'.pc = "idle" \/ (worker'.pc = "raised" /\ worker'.job = worker.job)
    BY DEF IdleWorker, WorkerState, TypeOK
  <1>7. jobs'[worker.job].status # "ABSENT" /\ worker.job # 0
    BY <1>1 DEF TypeOK
  <1> QED BY <1>2, <1>3, <1>4, <1>5, <1>6, <1>7 DEF TypeOK

LEMMA FinishRaisesType ==
  ASSUME TypeOK, FinishRaises
  PROVE  TypeOK' /\ RowsKept /\ KeepsJob
  BY WorkerHasRun, QuietNodeType
  DEF FinishRaises, At, NodeEnds, RowsKept, BusyStates

LEMMA FinishType ==
  ASSUME TypeOK,
         \/ FinishWaiting \/ FinishSucceeded \/ FinishSuperseded \/ FailJob
  PROVE  TypeOK'
  <1> USE DEF At, TaskStatuses
  <1>1. CASE FinishWaiting
    BY <1>1, JobEndsType DEF FinishWaiting
  <1>2. CASE FinishSucceeded
    BY <1>2, JobEndsType DEF FinishSucceeded
  <1>3. CASE FinishSuperseded
    BY <1>3, JobEndsType DEF FinishSuperseded
  <1>4. CASE FailJob
    <2>1. CASE task.graph = RunGraph
      BY <1>4, <2>1, JobEndsType DEF FailJob
    <2>2. CASE task.graph # RunGraph
      BY <1>4, <2>2, JobEndsType DEF FailJob
    <2> QED BY <2>1, <2>2
  <1> QED BY <1>1, <1>2, <1>3, <1>4

LEMMA IdleType ==
  ASSUME TypeOK, Poll \/ ClaimRefused \/ ConfigFails \/ Crash
  PROVE  TypeOK' /\ RowsKept /\ worker'.pc \in {"idle", "picked"}
  <1>1. CASE Poll
    <2>1. PICK j \in Jobs :
            /\ jobs[j].status = "PENDING"
            /\ worker' = [pc |-> "picked", job |-> j, token |-> 0, fresh |-> 0]
      BY <1>1 DEF Poll
    <2>2. RowsKept /\ UNCHANGED checkpoint
      BY <1>1 DEF Poll, RowsKept
    <2>3. j # 0 /\ worker' \in WorkerState
      BY <2>1 DEF WorkerState, Jobs
    <2> QED BY <2>1, <2>2, <2>3 DEF TypeOK, RowsKept
  <1>2. CASE ClaimRefused \/ ConfigFails \/ Crash
    BY <1>2 DEF ClaimRefused, ConfigFails, Crash, TypeOK, WorkerState,
                IdleWorker, RowsKept
  <1> QED BY <1>1, <1>2

LEMMA WorkerStepType ==
  ASSUME TypeOK, WorkerStep \/ ConfigFails \/ Crash
  PROVE  TypeOK'
  BY IdleType, ClaimJobType, ReviewNodesType, WaitNodesType, AwaitNewIssueType,
     AssessComplianceType, RevalidateType, PublishType, FinishType,
     FinishRaisesType
  DEF WorkerStep

-----------------------------------------------------------------------------
(* Type correctness.                                                       *)

LEMMA InitType == Init => TypeOK
  <1> SUFFICES ASSUME Init PROVE TypeOK
    OBVIOUS
  <1> USE BoundsAssumption DEF Init
  <1>1. task \in TaskRow
    BY DEF TaskRow, TaskStatuses, Revisions
  <1>2. quotes \in [active : Nat, inactive : Nat]
        /\ quotes.active + quotes.inactive <= MaxQuotes
    OBVIOUS
  <1>3. graphs \in [Graphs -> GraphRow]
    BY DEF AbsentGraph, GraphRow, GraphStatuses
  <1>4. jobs \in [Jobs -> JobRow]
    BY DEF AbsentJob, JobRow, JobStatuses, JobKinds, StartKinds
  <1>5. issues \in [Issues -> IssueRow]
    BY DEF AbsentIssue, IssueRow, IssueStatuses, IssueNodes
  <1>6. /\ assessments \in [Assessments -> AssessmentRow]
        /\ confirmations \in [Confirmations -> ConfirmationRow]
    BY DEF AssessmentRow, ConfirmationRow
  <1>7. checkpoint \in [Graphs -> CheckpointRow]
    BY DEF NotStarted, CheckpointRow, Nodes
  <1>8. worker \in WorkerState /\ worker.pc = "idle"
    BY DEF IdleWorker, WorkerState
  <1>9. \A j \in Jobs : jobs[j].status = "ABSENT"
    BY DEF AbsentJob
  <1> QED BY <1>1, <1>2, <1>3, <1>4, <1>5, <1>6, <1>7, <1>8, <1>9 DEF TypeOK

LEMMA StepType == TypeOK /\ [Next]_vars => TypeOK'
  <1> SUFFICES ASSUME TypeOK, [Next]_vars PROVE TypeOK'
    OBVIOUS
  <1>1. CASE UNCHANGED vars
    BY <1>1 DEF vars, TypeOK, WorkerState
  <1> QED BY <1>1, UserActionType, WorkerStepType DEF Next

\* Every row the handlers and the worker write is a row of its table, the
\* attempts of a job stay within their budget, and the worker never holds a
\* job that is not there.
THEOREM TypeCorrect == Spec => []TypeOK
  <1>1. TypeOK /\ [Next]_vars => TypeOK'
    BY StepType
  <1> QED BY InitType, <1>1, PTL DEF Spec

-----------------------------------------------------------------------------
(* The strengthening.                                                      *)

\* The run of the task is one of the table, not superseded, at the revision
\* of the task.
CurrentRunIsThere ==
  task.graph # 0 => /\ graphs[task.graph].status \notin {"ABSENT", "SUPERSEDED"}
                    /\ graphs[task.graph].eff = task.rev

\* The run of a job was inserted with it.
JobsHaveRuns ==
  \A j \in Jobs : jobs[j].status # "ABSENT" =>
                    graphs[jobs[j].graph].status # "ABSENT"

\* The job a busy worker runs is running (or has just been left waiting), or
\* its run was superseded meanwhile.
WorkerHoldsJob ==
  worker.pc \in BusyStates =>
    /\ jobs[worker.job].status \in {"RUNNING", "WAITING_INPUT", "SUPERSEDED"}
    /\ jobs[worker.job].status = "SUPERSEDED" => RunGraph # task.graph

RunInv == /\ TypeOK
          /\ CurrentRunIsThere /\ JobsHaveRuns /\ WorkerHoldsJob
          /\ LiveJobIsCurrent /\ OpenIssueIsCurrent
          /\ ResultIsCurrent /\ ActiveRunHasWork

-----------------------------------------------------------------------------
(* The kinds of step, seen from the run tables.                            *)

\* A handler leaves the current run, for a new one or for none.
NewJobOfNewRun(j) ==
  /\ jobs[j].status = "ABSENT" /\ jobs'[j].status = "PENDING"
  /\ jobs'[j].graph = task'.graph /\ jobs'[j].attempts = 0
  /\ task'.graph # 0

LeavesRun ==
  /\ task'.result = NoResult
  /\ task'.graph # 0 =>
       /\ task'.status # "ABANDONED"
       /\ graphs[task'.graph].status = "ABSENT" /\ IsNewGraph(task'.graph)
       /\ graphs'[task'.graph].eff = task'.rev
       /\ \/ graphs'[task'.graph].status = "INTERRUPTED"
          \/ /\ graphs'[task'.graph].status = "PENDING"
             /\ \E j \in Jobs : NewJobOfNewRun(j)
  /\ \A g \in Graphs : g # task'.graph => graphs'[g] = SupersededGraphs[g]
  /\ issues' = SupersededIssues
  /\ \A j \in Jobs : \/ NewJobOfNewRun(j)
                     \/ jobs[j].status \notin LiveStatuses /\ jobs'[j] = jobs[j]
                     \/ /\ jobs[j].status \in LiveStatuses
                        /\ jobs'[j] = [jobs[j] EXCEPT !.status = "SUPERSEDED"]
  /\ \A j, k \in Jobs : NewJobOfNewRun(j) /\ NewJobOfNewRun(k) => j = k
  /\ UNCHANGED worker

LEMMA ReplaceLeaves ==
  ASSUME TypeOK, LiveJobIsCurrent, UNCHANGED worker,
         NEW kind \in StartKinds, NEW rev, ReplaceRun(kind, rev)
  PROVE  LeavesRun
  <1>1. PICK g \in Graphs, j \in Jobs :
    /\ rev \in Revisions
    /\ IsNewGraph(g) /\ IsNewJob(j)
    /\ task' = [status |-> "QUEUED", rev |-> rev, graph |-> g,
                result |-> NoResult]
    /\ graphs' = [SupersededGraphs EXCEPT ![g] =
                    [status |-> "PENDING", eff |-> rev]]
    /\ issues' = SupersededIssues
    /\ jobs' = [SupersededJobs EXCEPT ![j] =
                  [status |-> "PENDING", kind |-> kind, graph |-> g,
                   issue |-> 0, attempts |-> 0]]
    BY DEF ReplaceRun
  <1>2. g # 0 /\ graphs[g].status = "ABSENT" /\ jobs[j].status = "ABSENT"
    BY <1>1 DEF Graphs, IsNewGraph, IsNewJob
  <1>3. /\ graphs'[g] = [status |-> "PENDING", eff |-> rev]
        /\ \A h \in Graphs : h # g => graphs'[h] = SupersededGraphs[h]
    BY <1>1, SupersedeType
  <1>4. NewJobOfNewRun(j)
    BY <1>1, <1>2, SupersedeType DEF NewJobOfNewRun
  <1>5. \A k \in Jobs \ {j} :
          \/ jobs[k].status \notin LiveStatuses /\ jobs'[k] = jobs[k]
          \/ /\ jobs[k].status \in LiveStatuses
             /\ jobs'[k] = [jobs[k] EXCEPT !.status = "SUPERSEDED"]
    BY <1>1, SupersedeType DEF LiveJobIsCurrent, SupersededJobs
  <1>6. \A k \in Jobs : NewJobOfNewRun(k) => k = j
    BY <1>5 DEF NewJobOfNewRun, LiveStatuses
  <1> QED BY <1>1, <1>2, <1>3, <1>4, <1>5, <1>6 DEF LeavesRun

LEMMA ClearLeaves ==
  ASSUME TypeOK, LiveJobIsCurrent, UNCHANGED worker,
         NEW status, NEW rev, ClearRun(status, rev)
  PROVE  LeavesRun
  <1>1. \A k \in Jobs :
          \/ jobs[k].status \notin LiveStatuses /\ jobs'[k] = jobs[k]
          \/ /\ jobs[k].status \in LiveStatuses
             /\ jobs'[k] = [jobs[k] EXCEPT !.status = "SUPERSEDED"]
    BY DEF ClearRun, LiveJobIsCurrent, SupersededJobs
  <1>2. \A k \in Jobs : ~NewJobOfNewRun(k)
    BY DEF ClearRun, NewJobOfNewRun
  <1> QED BY <1>1, <1>2 DEF ClearRun, LeavesRun

LEMMA PreparationLeaves ==
  ASSUME TypeOK, LiveJobIsCurrent, UNCHANGED worker,
         NEW rev, PreparationGraph(rev)
  PROVE  LeavesRun
  <1>1. \A k \in Jobs :
          \/ jobs[k].status \notin LiveStatuses /\ jobs'[k] = jobs[k]
          \/ /\ jobs[k].status \in LiveStatuses
             /\ jobs'[k] = [jobs[k] EXCEPT !.status = "SUPERSEDED"]
    BY DEF PreparationGraph, LiveJobIsCurrent, SupersededJobs
  <1>2. PICK g \in Graphs :
          /\ IsNewGraph(g)
          /\ task' = [status |-> "NEEDS_INPUT", rev |-> rev, graph |-> g,
                      result |-> NoResult]
          /\ graphs' = [SupersededGraphs EXCEPT ![g] =
                          [status |-> "INTERRUPTED", eff |-> rev]]
          /\ issues' = SupersededIssues
    BY DEF PreparationGraph
  <1>3. /\ graphs'[g] = [status |-> "INTERRUPTED", eff |-> rev]
        /\ \A h \in Graphs : h # g => graphs'[h] = SupersededGraphs[h]
    BY <1>2, SupersedeType
  <1>4. \A k \in Jobs : ~NewJobOfNewRun(k)
    BY <1>1 DEF NewJobOfNewRun, LiveStatuses
  <1> QED BY <1>1, <1>2, <1>3, <1>4 DEF LeavesRun, IsNewGraph

LEMMA AbandonLeaves ==
  ASSUME TypeOK, LiveJobIsCurrent, NEW expected, AbandonTask(expected)
  PROVE  LeavesRun
  <1>1. \A k \in Jobs :
          \/ jobs[k].status \notin LiveStatuses /\ jobs'[k] = jobs[k]
          \/ /\ jobs[k].status \in LiveStatuses
             /\ jobs'[k] = [jobs[k] EXCEPT !.status = "SUPERSEDED"]
    BY DEF AbandonTask
  <1>2. \A k \in Jobs : ~NewJobOfNewRun(k)
    BY DEF AbandonTask, NewJobOfNewRun
  <1> QED BY <1>1, <1>2 DEF AbandonTask, LeavesRun

LEMMA RunOrDraftLeaves ==
  ASSUME TypeOK, LiveJobIsCurrent, UNCHANGED worker, NEW rev, RunOrDraft(rev)
  PROVE  LeavesRun
  BY ReplaceLeaves, ClearLeaves DEF RunOrDraft, StartKinds

\* Every handler leaves the run, except an answer and a retry.
LEMMA HandlerCases ==
  ASSUME TypeOK, LiveJobIsCurrent, UserAction
  PROVE  \/ LeavesRun
         \/ \E expected \in Revisions, i \in Issues : AnswerIssue(expected, i)
         \/ \E expected \in Revisions, j \in Jobs :
              RetryFailedResumeJob(expected, j)
  <1>1. ASSUME NEW expected \in Revisions,
               \/ DeactivateQuote(expected) \/ ReactivateQuote(expected)
               \/ SubmitQuoteDraft(expected) \/ UploadQuote(expected)
        PROVE  LeavesRun
    BY <1>1, ClearLeaves
    DEF DeactivateQuote, ReactivateQuote, SubmitQuoteDraft, UploadQuote
  <1>2. ASSUME NEW expected \in Revisions,
               UpdateRequirement(expected) \/ RefreshSupplierHistory(expected)
        PROVE  LeavesRun
    BY <1>2, RunOrDraftLeaves
    DEF UpdateRequirement, RefreshSupplierHistory
  <1>3. ASSUME NEW expected \in Revisions, NEW kind \in StartKinds,
               CorrectFields(expected, kind) \/ StartRun(expected, kind)
        PROVE  LeavesRun
    BY <1>3, ReplaceLeaves DEF CorrectFields, StartRun
  <1>4. ASSUME NEW expected \in Revisions, NEW a \in Assessments,
               ConfirmCompliance(expected, a)
        PROVE  LeavesRun
    BY <1>4, ReplaceLeaves DEF ConfirmCompliance, StartKinds
  <1>5. ASSUME NEW expected \in Revisions, StartCompliance(expected)
        PROVE  LeavesRun
    BY <1>5, ReplaceLeaves DEF StartCompliance, StartKinds
  <1>6. ASSUME NEW expected \in Revisions, NEW run \in BOOLEAN,
               SaveComplianceEvidence(expected, run)
        PROVE  LeavesRun
    BY <1>6, ReplaceLeaves, PreparationLeaves
    DEF SaveComplianceEvidence, StartKinds
  <1>7. ApplyDecisionScenario => LeavesRun
    BY RunOrDraftLeaves DEF ApplyDecisionScenario
  <1> QED
    BY <1>1, <1>2, <1>3, <1>4, <1>5, <1>6, <1>7, AbandonLeaves DEF UserAction

\* The worker lets its job go before the claim, or goes on with it.
WorkerGoesOn ==
  worker'.pc \in BusyStates => worker.pc \in BusyStates /\ worker'.job = worker.job

\* The worker ends its job: the run is the current one, or was superseded.
EndsCurrentJob(js, gs) ==
  /\ worker.pc \in BusyStates
  /\ task.graph = RunGraph
  /\ \E ts \in TaskStatuses \ {"ABANDONED"} : task' = [task EXCEPT !.status = ts]
  /\ jobs' = [jobs EXCEPT ![worker.job].status = js]
  /\ graphs' = [graphs EXCEPT ![RunGraph].status = gs]
  /\ \/ worker' = IdleWorker
     \/ js = "WAITING_INPUT" /\ worker' = [worker EXCEPT !.pc = "raised"]
  /\ UNCHANGED issues
EndsOldJob ==
  /\ worker.pc \in BusyStates
  /\ task.graph # RunGraph
  /\ jobs' = [jobs EXCEPT ![worker.job].status = "SUPERSEDED"]
  /\ graphs' = [graphs EXCEPT ![RunGraph].status = "SUPERSEDED"]
  /\ worker' = IdleWorker
  /\ UNCHANGED <<task, issues>>
EndsJob ==
  \/ EndsCurrentJob("WAITING_INPUT", "INTERRUPTED") /\ FinishWaiting
  \/ EndsCurrentJob("SUCCEEDED", "SUCCEEDED") /\ task'.status = "COMPLETED"
  \/ EndsCurrentJob("FAILED", "FAILED") /\ task'.status = "FAILED"
  \/ EndsOldJob

LEMMA EndCases ==
  ASSUME TypeOK, CurrentRunIsThere,
         FinishWaiting \/ FinishSucceeded \/ FinishSuperseded \/ FailJob
  PROVE  EndsJob
  <1> USE DEF At, BusyStates, TaskStatuses
  <1>1. CASE FinishWaiting
    BY <1>1 DEF FinishWaiting, IsCurrentRun, EndsJob, EndsCurrentJob
  <1>2. CASE FinishSucceeded
    BY <1>2 DEF FinishSucceeded, IsCurrentRun, EndsJob, EndsCurrentJob, TypeOK, TaskRow
  <1>3. CASE FinishSuperseded
    <2>1. worker.pc \in BusyStates /\ RunGraph # 0
      BY <1>3, WorkerHasRun DEF FinishSuperseded, Graphs
    <2>2. task.graph # RunGraph
      BY <1>3, <2>1 DEF FinishSuperseded, IsCurrentRun, CurrentRunIsThere
    <2> QED BY <1>3, <2>1, <2>2 DEF FinishSuperseded, EndsJob, EndsOldJob
  <1>4. CASE FailJob
    BY <1>4 DEF FailJob, EndsJob, EndsCurrentJob, EndsOldJob, TypeOK, TaskRow
  <1> QED BY <1>1, <1>2, <1>3, <1>4

\* A step that writes none of the run tables.
RunTablesKept == UNCHANGED <<task, graphs, jobs, issues>> /\ WorkerGoesOn

LEMMA WorkerCases ==
  ASSUME TypeOK, CurrentRunIsThere, WorkerStep \/ ConfigFails \/ Crash
  PROVE  \/ RunTablesKept
         \/ ClaimJob
         \/ \E node \in IssueNodes, i \in Issues : AwaitNewIssue(node, i)
         \/ PublishFinalResult
         \/ EndsJob
  <1> USE DEF RunTablesKept, WorkerGoesOn
  <1>1. RowsKept /\ KeepsJob => RunTablesKept
    BY DEF RowsKept, KeepsJob, BusyStates
  <1>2. RowsKept /\ worker'.pc \in {"idle", "picked"} => RunTablesKept
    BY DEF RowsKept, BusyStates
  <1>3. ASSUME NEW a \in Assessments, NEW content \in Contents,
               AssessCompliance(a, content)
        PROVE  RunTablesKept
    <2>1. CASE Saved.confirmed
      BY <1>3, <2>1
      DEF AssessCompliance, At, BusyStates, TypeOK, WorkerState
    <2>2. CASE ~Saved.confirmed
      BY <1>3, <2>2
      DEF AssessCompliance, At, BusyStates, Complete, Raise, TypeOK, WorkerState
    <2> QED BY <2>1, <2>2
  <1>4. ASSUME Revalidate
        PROVE  RunTablesKept
    BY <1>4 DEF Revalidate, BusyStates, Complete, Raise, TypeOK, WorkerState
  <1> QED
    BY <1>1, <1>2, <1>3, <1>4, IdleType, ReviewNodesType, WaitNodesType,
       FinishRaisesType, EndCases
    DEF WorkerStep

-----------------------------------------------------------------------------
(* Each part of the invariant, step by step.                               *)

\* A step of the program, by its effect on the run tables.
RunStep ==
  \/ LeavesRun
  \/ \E expected \in Revisions, i \in Issues : AnswerIssue(expected, i)
  \/ \E expected \in Revisions, j \in Jobs : RetryFailedResumeJob(expected, j)
  \/ RunTablesKept
  \/ ClaimJob
  \/ \E node \in IssueNodes, i \in Issues : AwaitNewIssue(node, i)
  \/ PublishFinalResult
  \/ EndsJob

LEMMA RunSteps ==
  ASSUME RunInv, [Next]_vars
  PROVE  RunStep
  <1>1. CASE UNCHANGED vars
    BY <1>1 DEF vars, RunStep, RunTablesKept, WorkerGoesOn
  <1>2. CASE UserAction
    BY <1>2, HandlerCases DEF RunInv, RunStep
  <1>3. CASE WorkerStep \/ ConfigFails \/ Crash
    BY <1>3, WorkerCases DEF RunInv, RunStep
  <1> QED BY <1>1, <1>2, <1>3 DEF Next

\* What a claim, a publication, a question and an answer write.
LEMMA ClaimShape ==
  ASSUME TypeOK, ClaimJob
  PROVE  /\ worker.job \in Jobs /\ RunGraph \in Graphs
         /\ RunGraph = jobs[worker.job].graph /\ task.graph = RunGraph
         /\ jobs[worker.job].status = "PENDING"
         /\ jobs'[worker.job].status = "RUNNING"
         /\ \A j \in Jobs : /\ jobs'[j].graph = jobs[j].graph
                            /\ j # worker.job => jobs'[j] = jobs[j]
         /\ graphs' = [graphs EXCEPT ![RunGraph].status = "RUNNING"]
         /\ task' \in TaskRow /\ task'.graph = task.graph
         /\ task'.rev = task.rev /\ task'.result = task.result
         /\ worker'.job = worker.job
         /\ UNCHANGED issues
  <1>1. worker.job \in Jobs /\ RunGraph \in Graphs
    BY WorkerHasRun DEF ClaimJob
  <1>2. worker'.job = worker.job
    BY DEF ClaimJob, TypeOK, WorkerState
  <1>3. task' \in TaskRow
    BY DEF ClaimJob, TypeOK, TaskRow, TaskStatuses
  <1>4. /\ jobs'[worker.job].status = "RUNNING"
        /\ \A j \in Jobs : /\ jobs'[j].graph = jobs[j].graph
                           /\ j # worker.job => jobs'[j] = jobs[j]
    BY <1>1 DEF ClaimJob, TypeOK, JobRow
  <1> QED
    BY <1>1, <1>2, <1>3, <1>4 DEF ClaimJob, Claimable, RunGraph, TypeOK, TaskRow

LEMMA AskShape ==
  ASSUME TypeOK, NEW node \in IssueNodes, NEW i \in Issues,
         AwaitNewIssue(node, i)
  PROVE  /\ RunGraph \in Graphs /\ task.graph = RunGraph
         /\ worker.pc \in BusyStates /\ worker'.job = worker.job
         /\ issues[i].status = "ABSENT"
         /\ issues' = [issues EXCEPT ![i] =
              [status |-> "OPEN", node |-> node, graph |-> RunGraph,
               rev |-> Saved.rev, resolved |-> 0]]
         /\ graphs' = [graphs EXCEPT ![RunGraph].status = "INTERRUPTED"]
         /\ task'.graph = task.graph /\ task'.rev = task.rev
         /\ task'.result = task.result
         /\ UNCHANGED jobs
  <1>1. worker.pc = "running" /\ RunGraph \in Graphs
    BY WorkerHasRun DEF AwaitNewIssue, At
  <1>2. worker'.job = worker.job
    BY DEF AwaitNewIssue, Interrupt, Raise, TypeOK, WorkerState
  <1> QED
    BY <1>1, <1>2
    DEF AwaitNewIssue, IsNewIssue, BusyStates, TypeOK, TaskRow

LEMMA PublishShape ==
  ASSUME TypeOK, PublishFinalResult
  PROVE  /\ worker.pc \in BusyStates /\ worker'.job = worker.job
         /\ task'.graph = task.graph /\ task'.rev = task.rev
         /\ \/ task'.result = task.result
            \/ task'.result = [graph |-> task.graph, rev |-> task.rev,
                               assessment |-> Saved.assessment]
         /\ UNCHANGED <<graphs, jobs, issues>>
  <1>1. worker.pc \in BusyStates /\ worker'.job = worker.job
    BY DEF PublishFinalResult, At, Complete, Raise, TypeOK, WorkerState, BusyStates
  <1>2. CASE Publishable
    BY <1>1, <1>2 DEF PublishFinalResult, Publishable, TypeOK, TaskRow
  <1>3. CASE ~Publishable
    BY <1>1, <1>3 DEF PublishFinalResult
  <1> QED BY <1>2, <1>3

LEMMA AnswerShape ==
  ASSUME TypeOK, NEW expected, NEW i \in Issues, AnswerIssue(expected, i)
  PROVE  /\ task.graph \in Graphs
         /\ task'.graph = task.graph /\ task'.rev = task.rev + 1
         /\ task'.result = NoResult
         /\ graphs' = [graphs EXCEPT ![task.graph] =
                         [status |-> "PENDING", eff |-> task.rev + 1]]
         /\ issues[i].status = "OPEN" /\ issues'[i].status = "RESOLVED"
         /\ \A k \in Issues : k # i => issues'[k] = issues[k]
         /\ \E j \in Jobs :
              /\ jobs[j].status = "ABSENT"
              /\ jobs' = [jobs EXCEPT ![j] =
                   [status |-> "PENDING", kind |-> "RESUME",
                    graph |-> task.graph, issue |-> i, attempts |-> 0]]
         /\ UNCHANGED worker
  <1>1. PICK j \in Jobs : AnswerIssue(expected, i)!(j)
    BY DEF AnswerIssue
  <1>2. task.graph \in Graphs
    BY <1>1 DEF TypeOK, TaskRow
  <1>3. task'.graph = task.graph /\ task'.rev = task.rev + 1
        /\ task'.result = NoResult
    BY <1>1 DEF TypeOK, TaskRow
  <1>4. /\ issues[i].status = "OPEN" /\ issues'[i].status = "RESOLVED"
        /\ \A k \in Issues : k # i => issues'[k] = issues[k]
    BY <1>1 DEF TypeOK, IssueRow
  <1> QED BY <1>1, <1>2, <1>3, <1>4 DEF IsNewJob

LEMMA RetryShape ==
  ASSUME TypeOK, NEW expected, NEW j \in Jobs, RetryFailedResumeJob(expected, j)
  PROVE  /\ task.graph \in Graphs
         /\ task'.graph = task.graph /\ task'.rev = task.rev
         /\ task'.result = task.result
         /\ graphs' = [graphs EXCEPT ![task.graph].status = "PENDING"]
         /\ jobs[j].status = "FAILED" /\ jobs[j].graph = task.graph
         /\ jobs[j].attempts < MaxAttempts
         /\ jobs' = [jobs EXCEPT ![j].status = "PENDING"]
         /\ UNCHANGED <<issues, worker>>
  BY DEF RetryFailedResumeJob, TypeOK, TaskRow

LEMMA LiveJobStep ==
  ASSUME RunInv, TypeOK', RunStep
  PROVE  LiveJobIsCurrent'
  <1> USE DEF RunInv, LiveJobIsCurrent
  <1>1. CASE LeavesRun
    <2> SUFFICES ASSUME NEW j \in Jobs, jobs'[j].status \in LiveStatuses
                 PROVE  /\ jobs'[j].graph = task'.graph
                        /\ jobs'[j].attempts < MaxAttempts
      OBVIOUS
    <2>1. NewJobOfNewRun(j)
      <3>1. jobs[j] \in JobRow
        BY DEF TypeOK
      <3>2. \/ NewJobOfNewRun(j)
            \/ jobs[j].status \notin LiveStatuses /\ jobs'[j] = jobs[j]
            \/ jobs'[j] = [jobs[j] EXCEPT !.status = "SUPERSEDED"]
        BY <1>1 DEF LeavesRun
      <3> QED BY <3>1, <3>2 DEF LiveStatuses, JobRow
    <2> QED BY <2>1, BoundsAssumption DEF NewJobOfNewRun
  <1>2. ASSUME NEW expected \in Revisions, NEW i \in Issues,
               AnswerIssue(expected, i)
        PROVE  LiveJobIsCurrent'
    BY <1>2, AnswerShape, BoundsAssumption DEF TypeOK
  <1>3. ASSUME NEW expected \in Revisions, NEW j \in Jobs,
               RetryFailedResumeJob(expected, j)
        PROVE  LiveJobIsCurrent'
    BY <1>3, RetryShape DEF TypeOK, JobRow
  <1>4. CASE RunTablesKept
    BY <1>4 DEF RunTablesKept
  <1>5. CASE ClaimJob
    BY <1>5, ClaimShape DEF LiveStatuses
  <1>6. ASSUME NEW node \in IssueNodes, NEW i \in Issues, AwaitNewIssue(node, i)
        PROVE  LiveJobIsCurrent'
    BY <1>6, AskShape
  <1>7. CASE PublishFinalResult
    BY <1>7, PublishShape
  <1>8. CASE EndsJob
    <2>1. /\ worker.job \in Jobs /\ task'.graph = task.graph
          /\ RunGraph = jobs[worker.job].graph
      BY <1>8, WorkerHasRun
      DEF EndsJob, EndsCurrentJob, EndsOldJob, BusyStates, TypeOK, TaskRow, RunGraph
    <2>2. CASE EndsOldJob
      BY <2>1, <2>2 DEF EndsOldJob, LiveStatuses, TypeOK, JobRow
    <2>3. CASE \/ EndsCurrentJob("WAITING_INPUT", "INTERRUPTED")
               \/ EndsCurrentJob("SUCCEEDED", "SUCCEEDED")
               \/ EndsCurrentJob("FAILED", "FAILED")
      <3>1. \A j \in Jobs :
              /\ jobs'[j].graph = jobs[j].graph /\ jobs'[j].attempts = jobs[j].attempts
              /\ j # worker.job => jobs'[j].status = jobs[j].status
              /\ j = worker.job => jobs'[j].status # "PENDING"
        <4>1. PICK js \in {"WAITING_INPUT", "SUCCEEDED", "FAILED"} :
                jobs' = [jobs EXCEPT ![worker.job].status = js]
          BY <2>3 DEF EndsCurrentJob
        <4> QED BY <2>1, <4>1 DEF TypeOK, JobRow
      <3>2. jobs[worker.job].graph = task.graph
        BY <2>1, <2>3 DEF EndsCurrentJob
      <3> QED BY <2>1, <3>1, <3>2
    <2> QED BY <1>8, <2>2, <2>3 DEF EndsJob
  <1> QED BY <1>1, <1>2, <1>3, <1>4, <1>5, <1>6, <1>7, <1>8 DEF RunStep

LEMMA OpenIssueStep ==
  ASSUME RunInv, TypeOK', RunStep
  PROVE  OpenIssueIsCurrent'
  <1> USE DEF RunInv, OpenIssueIsCurrent
  <1>1. CASE LeavesRun
    BY <1>1 DEF LeavesRun, SupersededIssues, TypeOK, IssueRow
  <1>2. ASSUME NEW expected \in Revisions, NEW i \in Issues,
               AnswerIssue(expected, i)
        PROVE  OpenIssueIsCurrent'
    BY <1>2, AnswerShape
  <1>3. ASSUME NEW expected \in Revisions, NEW j \in Jobs,
               RetryFailedResumeJob(expected, j)
        PROVE  OpenIssueIsCurrent'
    BY <1>3, RetryShape
  <1>4. CASE RunTablesKept
    BY <1>4 DEF RunTablesKept
  <1>5. CASE ClaimJob
    BY <1>5, ClaimShape
  <1>6. ASSUME NEW node \in IssueNodes, NEW i \in Issues, AwaitNewIssue(node, i)
        PROVE  OpenIssueIsCurrent'
    <2>1. /\ \A k \in Issues : k # i => issues'[k] = issues[k]
          /\ issues'[i].graph = task'.graph /\ task'.graph # 0
          /\ task'.graph = task.graph
      BY <1>6, AskShape DEF TypeOK, Graphs
    <2> QED BY <2>1
  <1>7. CASE PublishFinalResult
    BY <1>7, PublishShape
  <1>8. CASE EndsJob
    BY <1>8 DEF EndsJob, EndsCurrentJob, EndsOldJob, TypeOK, TaskRow
  <1> QED BY <1>1, <1>2, <1>3, <1>4, <1>5, <1>6, <1>7, <1>8 DEF RunStep

LEMMA ResultStep ==
  ASSUME RunInv, TypeOK', RunStep
  PROVE  ResultIsCurrent'
  <1> USE DEF RunInv, ResultIsCurrent
  <1>1. CASE LeavesRun
    BY <1>1 DEF LeavesRun
  <1>2. ASSUME NEW expected \in Revisions, NEW i \in Issues,
               AnswerIssue(expected, i)
        PROVE  ResultIsCurrent'
    BY <1>2, AnswerShape
  <1>3. ASSUME NEW expected \in Revisions, NEW j \in Jobs,
               RetryFailedResumeJob(expected, j)
        PROVE  ResultIsCurrent'
    BY <1>3, RetryShape
  <1>4. CASE RunTablesKept
    BY <1>4 DEF RunTablesKept
  <1>5. CASE ClaimJob
    BY <1>5, ClaimShape
  <1>6. ASSUME NEW node \in IssueNodes, NEW i \in Issues, AwaitNewIssue(node, i)
        PROVE  ResultIsCurrent'
    BY <1>6, AskShape
  <1>7. CASE PublishFinalResult
    BY <1>7, PublishShape
  <1>8. CASE EndsJob
    BY <1>8 DEF EndsJob, EndsCurrentJob, EndsOldJob, TypeOK, TaskRow
  <1> QED BY <1>1, <1>2, <1>3, <1>4, <1>5, <1>6, <1>7, <1>8 DEF RunStep

LEMMA ActiveRunStep ==
  ASSUME RunInv, TypeOK', RunStep
  PROVE  ActiveRunHasWork'
  <1> USE DEF RunInv, ActiveRunHasWork, RunIsActive
  <1>1. CASE LeavesRun
    BY <1>1 DEF LeavesRun, NewJobOfNewRun
  <1>2. ASSUME NEW expected \in Revisions, NEW i \in Issues,
               AnswerIssue(expected, i)
        PROVE  ActiveRunHasWork'
    BY <1>2, AnswerShape DEF TypeOK
  <1>3. ASSUME NEW expected \in Revisions, NEW j \in Jobs,
               RetryFailedResumeJob(expected, j)
        PROVE  ActiveRunHasWork'
    <2>1. /\ task'.graph = task.graph /\ task.graph \in Graphs
          /\ graphs'[task.graph].status = "PENDING"
          /\ jobs'[j].status = "PENDING" /\ jobs'[j].graph = task.graph
      BY <1>3, RetryShape DEF TypeOK, JobRow, GraphRow
    <2> QED BY <2>1
  <1>4. CASE RunTablesKept
    BY <1>4 DEF RunTablesKept
  <1>5. CASE ClaimJob
    BY <1>5, ClaimShape DEF TypeOK, GraphRow
  <1>6. ASSUME NEW node \in IssueNodes, NEW i \in Issues, AwaitNewIssue(node, i)
        PROVE  ActiveRunHasWork'
    BY <1>6, AskShape DEF TypeOK, GraphRow
  <1>7. CASE PublishFinalResult
    BY <1>7, PublishShape
  <1>8. CASE EndsJob
    <2>1. /\ worker.job \in Jobs /\ task'.graph = task.graph
          /\ RunGraph \in Graphs /\ RunGraph = jobs[worker.job].graph
      BY <1>8, WorkerHasRun
      DEF EndsJob, EndsCurrentJob, EndsOldJob, BusyStates, TypeOK, TaskRow, RunGraph
    <2>2. CASE EndsOldJob
      BY <2>1, <2>2 DEF EndsOldJob, TypeOK, JobRow, GraphRow
    <2>3. CASE \/ EndsCurrentJob("WAITING_INPUT", "INTERRUPTED")
               \/ EndsCurrentJob("SUCCEEDED", "SUCCEEDED")
               \/ EndsCurrentJob("FAILED", "FAILED")
      <3>1. CASE EndsCurrentJob("WAITING_INPUT", "INTERRUPTED")
        BY <2>1, <3>1, SMTT(20) DEF EndsCurrentJob, TypeOK, GraphRow
      <3>2. CASE EndsCurrentJob("SUCCEEDED", "SUCCEEDED")
        BY <2>1, <3>2, SMTT(20) DEF EndsCurrentJob, TypeOK, GraphRow
      <3>3. CASE EndsCurrentJob("FAILED", "FAILED")
        BY <2>1, <3>3, SMTT(20) DEF EndsCurrentJob, TypeOK, GraphRow
      <3> QED BY <2>3, <3>1, <3>2, <3>3
    <2> QED BY <1>8, <2>2, <2>3 DEF EndsJob
  <1> QED BY <1>1, <1>2, <1>3, <1>4, <1>5, <1>6, <1>7, <1>8 DEF RunStep

LEMMA CurrentRunStep ==
  ASSUME RunInv, TypeOK', RunStep
  PROVE  CurrentRunIsThere'
  <1> USE DEF RunInv, CurrentRunIsThere
  <1>1. CASE LeavesRun
    BY <1>1 DEF LeavesRun
  <1>2. ASSUME NEW expected \in Revisions, NEW i \in Issues,
               AnswerIssue(expected, i)
        PROVE  CurrentRunIsThere'
    BY <1>2, AnswerShape DEF TypeOK
  <1>3. ASSUME NEW expected \in Revisions, NEW j \in Jobs,
               RetryFailedResumeJob(expected, j)
        PROVE  CurrentRunIsThere'
    BY <1>3, RetryShape DEF TypeOK, GraphRow
  <1>4. CASE RunTablesKept
    BY <1>4 DEF RunTablesKept
  <1>5. CASE ClaimJob
    BY <1>5, ClaimShape DEF TypeOK, GraphRow
  <1>6. ASSUME NEW node \in IssueNodes, NEW i \in Issues, AwaitNewIssue(node, i)
        PROVE  CurrentRunIsThere'
    BY <1>6, AskShape DEF TypeOK, GraphRow
  <1>7. CASE PublishFinalResult
    BY <1>7, PublishShape
  <1>8. CASE EndsJob
    <2>1. task'.graph = task.graph /\ task'.rev = task.rev /\ RunGraph \in Graphs
      BY <1>8, WorkerHasRun
      DEF EndsJob, EndsCurrentJob, EndsOldJob, BusyStates, TypeOK, TaskRow
    <2> QED
      BY <1>8, <2>1 DEF EndsJob, EndsCurrentJob, EndsOldJob, TypeOK, GraphRow, TaskRow
  <1> QED BY <1>1, <1>2, <1>3, <1>4, <1>5, <1>6, <1>7, <1>8 DEF RunStep

\* No run disappears, and a new job comes with its run.
LEMMA JobsHaveRunsStep ==
  ASSUME RunInv, TypeOK', RunStep
  PROVE  JobsHaveRuns'
  <1> USE DEF RunInv, JobsHaveRuns
  <1>1. CASE LeavesRun
    <2>1. \A g \in Graphs :
            graphs[g].status # "ABSENT" => graphs'[g].status # "ABSENT"
      BY <1>1 DEF LeavesRun, SupersededGraphs, TypeOK, GraphRow, Graphs
    <2>2. \A j \in Jobs : jobs[j].status # "ABSENT" => jobs[j].graph \in Graphs
      BY DEF TypeOK, JobRow
    <2>3. ASSUME NEW j \in Jobs, jobs'[j].status # "ABSENT"
          PROVE  graphs'[jobs'[j].graph].status # "ABSENT"
      <3>1. CASE NewJobOfNewRun(j)
        BY <1>1, <3>1 DEF LeavesRun, NewJobOfNewRun
      <3>2. CASE jobs'[j].graph = jobs[j].graph /\ jobs[j].status # "ABSENT"
        BY <2>1, <2>2, <3>2
      <3> QED
        BY <1>1, <2>3, <3>1, <3>2 DEF LeavesRun, LiveStatuses, TypeOK, JobRow
    <2> QED BY <2>3
  <1>2. ASSUME NEW expected \in Revisions, NEW i \in Issues,
               AnswerIssue(expected, i)
        PROVE  JobsHaveRuns'
    BY <1>2, AnswerShape DEF TypeOK, JobRow
  <1>3. ASSUME NEW expected \in Revisions, NEW j \in Jobs,
               RetryFailedResumeJob(expected, j)
        PROVE  JobsHaveRuns'
    <2>1. \A g \in Graphs :
            graphs[g].status # "ABSENT" => graphs'[g].status # "ABSENT"
      <3>1. graphs' = [graphs EXCEPT ![task.graph].status = "PENDING"]
        BY <1>3 DEF RetryFailedResumeJob
      <3> QED BY <3>1 DEF TypeOK, GraphRow
    <2>2. \A k \in Jobs :
            /\ jobs'[k].graph = jobs[k].graph
            /\ jobs'[k].status # "ABSENT" => jobs[k].status # "ABSENT"
      BY <1>3, RetryShape DEF TypeOK, JobRow
    <2> QED BY <2>1, <2>2 DEF TypeOK, JobRow
  <1>4. CASE RunTablesKept
    BY <1>4 DEF RunTablesKept
  <1>5. CASE ClaimJob
    BY <1>5, ClaimShape DEF TypeOK, GraphRow, JobRow
  <1>6. ASSUME NEW node \in IssueNodes, NEW i \in Issues, AwaitNewIssue(node, i)
        PROVE  JobsHaveRuns'
    <2>1. UNCHANGED jobs
      BY <1>6, AskShape
    <2>2. graphs' = [graphs EXCEPT ![RunGraph].status = "INTERRUPTED"]
      BY <1>6, AskShape
    <2>3. \A g \in Graphs :
            graphs[g].status # "ABSENT" => graphs'[g].status # "ABSENT"
      BY <2>2 DEF TypeOK, GraphRow
    <2>4. \A j \in Jobs : jobs[j].status # "ABSENT" => jobs[j].graph \in Graphs
      BY DEF TypeOK, JobRow
    <2> QED BY <2>1, <2>3, <2>4
  <1>7. CASE PublishFinalResult
    BY <1>7, PublishShape
  <1>8. CASE EndsJob
    <2>1. RunGraph \in Graphs /\ worker.job \in Jobs
          /\ jobs[worker.job].status # "ABSENT"
      BY <1>8, WorkerHasRun
      DEF EndsJob, EndsCurrentJob, EndsOldJob, BusyStates, TypeOK
    <2>2. \A g \in Graphs :
            graphs[g].status # "ABSENT" => graphs'[g].status # "ABSENT"
      BY <1>8, <2>1
      DEF EndsJob, EndsCurrentJob, EndsOldJob, TypeOK, GraphRow
    <2>3. \A k \in Jobs :
            /\ jobs'[k].graph = jobs[k].graph
            /\ jobs'[k].status # "ABSENT" => jobs[k].status # "ABSENT"
      BY <1>8, <2>1
      DEF EndsJob, EndsCurrentJob, EndsOldJob, TypeOK, JobRow
    <2> QED BY <2>2, <2>3 DEF TypeOK, JobRow
  <1> QED BY <1>1, <1>2, <1>3, <1>4, <1>5, <1>6, <1>7, <1>8 DEF RunStep

LEMMA WorkerHoldsJobStep ==
  ASSUME RunInv, TypeOK', RunStep
  PROVE  WorkerHoldsJob'
  <1> USE DEF RunInv, WorkerHoldsJob, BusyStates
  <1>1. CASE LeavesRun
    <2> SUFFICES ASSUME worker.pc \in BusyStates
                 PROVE  /\ jobs'[worker.job].status = "SUPERSEDED"
                        /\ jobs'[worker.job].graph # task'.graph
      BY <1>1 DEF LeavesRun, RunGraph
    <2>1. /\ worker.job \in Jobs /\ jobs[worker.job].status # "ABSENT"
          /\ jobs[worker.job].graph \in Graphs
          /\ graphs[jobs[worker.job].graph].status # "ABSENT"
      BY WorkerHasRun DEF TypeOK, JobsHaveRuns, RunGraph
    <2>2. /\ jobs'[worker.job].status = "SUPERSEDED"
          /\ jobs'[worker.job].graph = jobs[worker.job].graph
      BY <1>1, <2>1 DEF LeavesRun, NewJobOfNewRun, LiveStatuses, TypeOK, JobRow
    <2>3. jobs[worker.job].graph # task'.graph
      BY <1>1, <2>1 DEF LeavesRun, Graphs
    <2> QED BY <2>2, <2>3
  <1>2. ASSUME NEW expected \in Revisions, NEW i \in Issues,
               AnswerIssue(expected, i)
        PROVE  WorkerHoldsJob'
    BY <1>2, AnswerShape, WorkerHasRun DEF TypeOK, RunGraph
  <1>3. ASSUME NEW expected \in Revisions, NEW j \in Jobs,
               RetryFailedResumeJob(expected, j)
        PROVE  WorkerHoldsJob'
    <2>1. /\ jobs[j].status = "FAILED" /\ task'.graph = task.graph
          /\ jobs' = [jobs EXCEPT ![j].status = "PENDING"] /\ UNCHANGED worker
      BY <1>3, RetryShape
    <2>2. ASSUME worker.pc \in BusyStates
          PROVE  jobs'[worker.job] = jobs[worker.job]
      BY <2>1, <2>2, WorkerHasRun DEF TypeOK
    <2> QED BY <2>1, <2>2 DEF RunGraph
  <1>4. CASE RunTablesKept
    BY <1>4 DEF RunTablesKept, WorkerGoesOn, RunGraph
  <1>5. CASE ClaimJob
    BY <1>5, ClaimShape
  <1>6. ASSUME NEW node \in IssueNodes, NEW i \in Issues, AwaitNewIssue(node, i)
        PROVE  WorkerHoldsJob'
    BY <1>6, AskShape DEF RunGraph
  <1>7. CASE PublishFinalResult
    BY <1>7, PublishShape DEF RunGraph
  <1>8. CASE EndsJob
    <2>1. CASE worker' = IdleWorker
      BY <2>1 DEF IdleWorker
    <2>2. CASE /\ EndsCurrentJob("WAITING_INPUT", "INTERRUPTED")
               /\ worker' = [worker EXCEPT !.pc = "raised"]
      <3>1. worker'.job = worker.job /\ worker.job \in Jobs
        BY <2>2, WorkerHasRun DEF EndsCurrentJob, TypeOK, WorkerState
      <3>2. jobs'[worker.job].status = "WAITING_INPUT"
        BY <2>2, <3>1 DEF EndsCurrentJob, TypeOK, JobRow
      <3> QED BY <3>1, <3>2
    <2> QED BY <1>8, <2>1, <2>2 DEF EndsJob, EndsCurrentJob, EndsOldJob
  <1> QED BY <1>1, <1>2, <1>3, <1>4, <1>5, <1>6, <1>7, <1>8 DEF RunStep

LEMMA RunInvStep == RunInv /\ [Next]_vars => RunInv'
  BY StepType, RunSteps, LiveJobStep, OpenIssueStep, ResultStep, ActiveRunStep,
     CurrentRunStep, JobsHaveRunsStep, WorkerHoldsJobStep
  DEF RunInv

LEMMA RunInvInit == Init => RunInv
  <1> SUFFICES ASSUME Init PROVE RunInv
    OBVIOUS
  <1>1. /\ \A j \in Jobs : jobs[j].status = "ABSENT"
        /\ \A i \in Issues : issues[i].status = "ABSENT"
        /\ task.graph = 0 /\ task.result = NoResult /\ worker.pc = "idle"
    BY DEF Init, AbsentJob, AbsentIssue, IdleWorker
  <1> QED
    BY <1>1, InitType
    DEF RunInv, CurrentRunIsThere, JobsHaveRuns, WorkerHoldsJob, BusyStates,
        LiveJobIsCurrent, LiveStatuses, OpenIssueIsCurrent, ResultIsCurrent,
        ActiveRunHasWork, RunIsActive

LEMMA RunInvAlways == Spec => []RunInv
  BY RunInvInit, RunInvStep, PTL DEF Spec

-----------------------------------------------------------------------------
(* The properties that follow.                                             *)

\* Whatever fails and whatever the user does meanwhile, a live job belongs to
\* the current run and a pending one can still be claimed: the oldest pending
\* job never blocks the queue with a claim that is refused for ever.
THEOREM LiveJobs == Spec => []LiveJobIsCurrent
  BY RunInvAlways, PTL DEF RunInv

\* No question of a superseded run stays open.
THEOREM OpenIssues == Spec => []OpenIssueIsCurrent
  BY RunInvAlways, PTL DEF RunInv

\* The current result is the one of the current run and revision, although the
\* worker publishes it long after it read the revision.
THEOREM CurrentResult == Spec => []ResultIsCurrent
  BY RunInvAlways, PTL DEF RunInv

\* The state in which start_run refuses a new run always has a job to leave it
\* by.
THEOREM ActiveRuns == Spec => []ActiveRunHasWork
  BY RunInvAlways, PTL DEF RunInv

\* A step that touches the current run only leaves superseded runs alone.
LEMMA OtherRunsStay ==
  ASSUME RunInv, \A g \in Graphs : g # task.graph => graphs'[g] = graphs[g]
  PROVE  \A g \in Graphs :
           graphs[g].status = "SUPERSEDED" => graphs'[g].status = "SUPERSEDED"
  BY DEF RunInv, CurrentRunIsThere, Graphs

LEMMA FinalRowsStep ==
  ASSUME RunInv, RunStep
  PROVE  KeepsFinalRows
  <1> USE DEF RunInv, KeepsFinalRows
  <1>1. CASE LeavesRun
    <2>1. \A g \in Graphs :
            graphs[g].status = "SUPERSEDED" => graphs'[g].status = "SUPERSEDED"
      <3>1. ASSUME NEW g \in Graphs, graphs[g].status = "SUPERSEDED",
                   g # task'.graph
            PROVE  graphs'[g].status = "SUPERSEDED"
        <4>1. graphs'[g] = SupersededGraphs[g]
          BY <1>1, <3>1 DEF LeavesRun
        <4>2. graphs[g] \in GraphRow
          BY DEF TypeOK
        <4> QED BY <3>1, <4>1, <4>2 DEF SupersededGraphs, GraphRow
      <3>2. ASSUME NEW g \in Graphs, graphs[g].status = "SUPERSEDED"
            PROVE  g # task'.graph
        BY <1>1, <3>2 DEF LeavesRun, Graphs
      <3> QED BY <3>1, <3>2
    <2>2. \A j \in Jobs : jobs[j].status \in {"SUPERSEDED", "SUCCEEDED"} =>
                            jobs'[j].status = jobs[j].status
      BY <1>1 DEF LeavesRun, NewJobOfNewRun, LiveStatuses
    <2>3. \A i \in Issues : issues[i].status \in {"RESOLVED", "SUPERSEDED"} =>
                              issues'[i] = issues[i]
      BY <1>1 DEF LeavesRun, SupersededIssues
    <2> QED BY <2>1, <2>2, <2>3
  <1>2. ASSUME NEW expected \in Revisions, NEW i \in Issues,
               AnswerIssue(expected, i)
        PROVE  KeepsFinalRows
    <2>1. \A g \in Graphs :
            graphs[g].status = "SUPERSEDED" => graphs'[g].status = "SUPERSEDED"
      <3>1. \A g \in Graphs : g # task.graph => graphs'[g] = graphs[g]
        BY <1>2, AnswerShape DEF TypeOK
      <3> QED BY <3>1, OtherRunsStay
    <2>2. \A j \in Jobs : jobs[j].status \in {"SUPERSEDED", "SUCCEEDED"} =>
                            jobs'[j].status = jobs[j].status
      BY <1>2, AnswerShape DEF TypeOK
    <2> QED BY <1>2, <2>1, <2>2, AnswerShape
  <1>3. ASSUME NEW expected \in Revisions, NEW j \in Jobs,
               RetryFailedResumeJob(expected, j)
        PROVE  KeepsFinalRows
    <2>1. \A g \in Graphs :
            graphs[g].status = "SUPERSEDED" => graphs'[g].status = "SUPERSEDED"
      <3>1. \A g \in Graphs : g # task.graph => graphs'[g] = graphs[g]
        BY <1>3, RetryShape DEF TypeOK
      <3> QED BY <3>1, OtherRunsStay
    <2>2. \A k \in Jobs : jobs[k].status \in {"SUPERSEDED", "SUCCEEDED"} =>
                            jobs'[k].status = jobs[k].status
      BY <1>3, RetryShape DEF TypeOK
    <2> QED BY <1>3, <2>1, <2>2, RetryShape
  <1>4. CASE RunTablesKept
    BY <1>4 DEF RunTablesKept
  <1>5. CASE ClaimJob
    <2>1. \A g \in Graphs : g # task.graph => graphs'[g] = graphs[g]
      BY <1>5, ClaimShape DEF TypeOK
    <2>2. \A j \in Jobs : jobs[j].status \in {"SUPERSEDED", "SUCCEEDED"} =>
                            jobs'[j] = jobs[j]
      BY <1>5, ClaimShape
    <2> QED BY <1>5, <2>1, <2>2, OtherRunsStay, ClaimShape
  <1>6. ASSUME NEW node \in IssueNodes, NEW i \in Issues, AwaitNewIssue(node, i)
        PROVE  KeepsFinalRows
    <2>1. \A g \in Graphs :
            graphs[g].status = "SUPERSEDED" => graphs'[g].status = "SUPERSEDED"
      <3>1. \A g \in Graphs : g # task.graph => graphs'[g] = graphs[g]
        BY <1>6, AskShape DEF TypeOK
      <3> QED BY <3>1, OtherRunsStay
    <2>2. \A k \in Issues : issues[k].status \in {"RESOLVED", "SUPERSEDED"} =>
                              issues'[k] = issues[k]
      BY <1>6, AskShape DEF TypeOK
    <2> QED BY <1>6, <2>1, <2>2, AskShape
  <1>7. CASE PublishFinalResult
    BY <1>7, PublishShape
  <1>8. CASE EndsJob
    <2>1. /\ worker.job \in Jobs /\ RunGraph \in Graphs
          /\ jobs[worker.job].status \in {"RUNNING", "WAITING_INPUT", "SUPERSEDED"}
          /\ jobs[worker.job].status = "SUPERSEDED" => RunGraph # task.graph
      BY <1>8, WorkerHasRun
      DEF EndsJob, EndsCurrentJob, EndsOldJob, BusyStates, WorkerHoldsJob
    <2>2. CASE EndsOldJob
      BY <2>1, <2>2 DEF EndsOldJob, TypeOK, JobRow, GraphRow
    <2>3. CASE \/ EndsCurrentJob("WAITING_INPUT", "INTERRUPTED")
               \/ EndsCurrentJob("SUCCEEDED", "SUCCEEDED")
               \/ EndsCurrentJob("FAILED", "FAILED")
      <3>1. graphs[RunGraph].status # "SUPERSEDED"
        BY <2>1, <2>3 DEF EndsCurrentJob, CurrentRunIsThere, Graphs
      <3> QED BY <2>1, <2>3, <3>1 DEF EndsCurrentJob, TypeOK
    <2> QED BY <1>8, <2>2, <2>3 DEF EndsJob
  <1> QED BY <1>1, <1>2, <1>3, <1>4, <1>5, <1>6, <1>7, <1>8 DEF RunStep

\* A worker that comes late finds its run, its job and its issues superseded,
\* and leaves them so.
THEOREM FinalRows == Spec => FinalRowsStay
  <1>1. RunInv /\ [Next]_vars => [KeepsFinalRows]_vars
    BY RunSteps, FinalRowsStep
  <1> QED BY <1>1, RunInvAlways, PTL DEF Spec, FinalRowsStay

-----------------------------------------------------------------------------
(* Assessments and confirmations.                                          *)

\* A confirmation says what its assessment says, and a user could give it.
ConfirmationsHonest ==
  \A c \in Confirmations : confirmations[c].rev # 0 =>
    /\ confirmations[c].assessment # 0
    /\ assessments[confirmations[c].assessment].content = confirmations[c].seen
    /\ confirmations[c].seen # "none"

\* A row with a revision was inserted, and so was the one the worker compares.
AssessmentsInserted ==
  /\ \A a \in Assessments : assessments[a].rev # 0 =>
                              assessments[a].content # "none"
  /\ worker.pc = "revalidating" => assessments[worker.fresh].content # "none"

ArtifactInv == AssessmentsInserted /\ ConfirmationsHonest /\ ResultWasConfirmed

\* A step that writes no artifact and publishes nothing.
ArtifactsKept ==
  /\ UNCHANGED <<assessments, confirmations>>
  /\ task'.result \in {task.result, NoResult}
  /\ worker'.pc = "revalidating" => UNCHANGED worker

LEMMA UserArtifacts ==
  ASSUME RunInv, UserAction
  PROVE  \/ ArtifactsKept
         \/ \E expected \in Revisions, a \in Assessments :
              ConfirmCompliance(expected, a)
  <1>1. /\ UNCHANGED worker
        /\ task'.result \in {task.result, NoResult}
    BY HandlerCases, AnswerShape, RetryShape DEF RunInv, LeavesRun
  <1>2. \/ UNCHANGED <<assessments, confirmations>>
        \/ \E expected \in Revisions, a \in Assessments :
             ConfirmCompliance(expected, a)
    BY DEF UserAction, DeactivateQuote, ReactivateQuote, SubmitQuoteDraft,
       UploadQuote, UpdateRequirement, RefreshSupplierHistory, CorrectFields,
       StartRun, StartCompliance, SaveComplianceEvidence, AnswerIssue,
       RetryFailedResumeJob, AbandonTask, ApplyDecisionScenario
  <1> QED BY <1>1, <1>2 DEF ArtifactsKept

LEMMA WorkerArtifacts ==
  ASSUME RunInv, WorkerStep \/ ConfigFails \/ Crash
  PROVE  \/ ArtifactsKept
         \/ \E a \in Assessments, content \in Contents :
              AssessCompliance(a, content)
         \/ Revalidate
         \/ PublishFinalResult
  <1> USE DEF RunInv, ArtifactsKept
  <1>1. RowsKept /\ (KeepsJob \/ worker'.pc \in {"idle", "picked"})
          => ArtifactsKept
    BY DEF RowsKept, KeepsJob
  <1>2. CASE ClaimJob
    BY <1>2, ClaimShape DEF ClaimJob, TypeOK, WorkerState
  <1>3. ASSUME NEW node \in IssueNodes, NEW i \in Issues, AwaitNewIssue(node, i)
        PROVE  ArtifactsKept
    BY <1>3, AskShape DEF AwaitNewIssue, Interrupt, Raise, TypeOK, WorkerState
  <1>4. CASE FinishWaiting \/ FinishSucceeded \/ FinishSuperseded \/ FailJob
    <2>1. worker'.pc # "revalidating" /\ UNCHANGED <<assessments, confirmations>>
      BY <1>4
      DEF FinishWaiting, FinishSucceeded, FinishSuperseded, FailJob, IdleWorker,
          TypeOK, WorkerState
    <2>2. task'.result = task.result
      BY <1>4
      DEF FinishWaiting, FinishSucceeded, FinishSuperseded, FailJob, TypeOK, TaskRow
    <2> QED BY <2>1, <2>2
  <1> QED
    BY <1>1, <1>2, <1>3, <1>4, IdleType, ReviewNodesType, WaitNodesType,
       FinishRaisesType
    DEF WorkerStep

LEMMA ArtifactSteps ==
  ASSUME RunInv, [Next]_vars
  PROVE  \/ ArtifactsKept
         \/ \E expected \in Revisions, a \in Assessments :
              ConfirmCompliance(expected, a)
         \/ \E a \in Assessments, content \in Contents :
              AssessCompliance(a, content)
         \/ Revalidate
         \/ PublishFinalResult
  <1>1. CASE UNCHANGED vars
    BY <1>1 DEF vars, ArtifactsKept
  <1>2. CASE UserAction
    BY <1>2, UserArtifacts
  <1>3. CASE WorkerStep \/ ConfigFails \/ Crash
    BY <1>3, WorkerArtifacts
  <1> QED BY <1>1, <1>2, <1>3 DEF Next

\* A new assessment does not touch the ones that were there.
LEMMA NewAssessment ==
  ASSUME TypeOK, ArtifactInv, NEW a \in Assessments, IsNewAssessment(a),
         NEW row \in AssessmentRow, row.content # "none",
         assessments' = [assessments EXCEPT ![a] = row]
  PROVE  /\ \A b \in Assessments : assessments'[b].rev # 0 =>
                                     assessments'[b].content # "none"
         /\ \A b \in Assessments : assessments[b].content # "none" =>
                                     assessments'[b] = assessments[b]
         /\ assessments'[a] = row
         /\ \A c \in Confirmations : confirmations[c].rev # 0 =>
              assessments'[confirmations[c].assessment] =
                assessments[confirmations[c].assessment]
  <1>1. /\ \A b \in Assessments : b # a => assessments'[b] = assessments[b]
        /\ assessments'[a] = row /\ assessments[a].content = "none"
    BY DEF TypeOK, IsNewAssessment
  <1>2. \A b \in Assessments : assessments[b].content # "none" =>
                                 assessments'[b] = assessments[b]
    BY <1>1
  <1>3. \A c \in Confirmations : confirmations[c].rev # 0 =>
          /\ confirmations[c].assessment \in Assessments
          /\ assessments[confirmations[c].assessment].content # "none"
    BY DEF ArtifactInv, ConfirmationsHonest, TypeOK, ConfirmationRow
  <1> QED BY <1>1, <1>2, <1>3 DEF ArtifactInv, AssessmentsInserted

LEMMA ConfirmStep ==
  ASSUME RunInv, ArtifactInv, NEW expected \in Revisions, NEW a \in Assessments,
         ConfirmCompliance(expected, a)
  PROVE  ArtifactInv'
  <1> USE DEF RunInv
  <1>1. PICK copy \in Assessments, c \in Confirmations, latest \in Assessments :
          ConfirmCompliance(expected, a)!(copy, c, latest)
    BY DEF ConfirmCompliance
  <1>2. /\ task.rev + 1 \in Revisions /\ task.rev \in Revisions
        /\ task'.result = NoResult
    BY <1>1 DEF ReplaceRun, TypeOK, TaskRow
  <1>3. /\ assessments[a].content \in Contents \cup {"none"}
        /\ assessments[a].content # "none"
    BY <1>1, <1>2
    DEF ArtifactInv, AssessmentsInserted, IsLatestAssessment, TypeOK,
        AssessmentRow, Revisions
  <1> DEFINE row == [rev |-> task.rev + 1, content |-> assessments[a].content]
  <1>4. row \in AssessmentRow /\ row.content = assessments[a].content
    BY <1>2, <1>3 DEF AssessmentRow
  <1>5. IsNewAssessment(copy) /\ assessments' = [assessments EXCEPT ![copy] = row]
    BY <1>1
  <1> HIDE DEF row
  <1>6. /\ \A b \in Assessments : assessments'[b].rev # 0 =>
                                    assessments'[b].content # "none"
        /\ \A b \in Assessments : assessments[b].content # "none" =>
                                    assessments'[b] = assessments[b]
        /\ assessments'[copy].content = assessments[a].content
        /\ \A d \in Confirmations : confirmations[d].rev # 0 =>
             assessments'[confirmations[d].assessment] =
               assessments[confirmations[d].assessment]
    BY <1>3, <1>4, <1>5, NewAssessment
  <1>7. AssessmentsInserted'
    BY <1>1, <1>6 DEF AssessmentsInserted, ArtifactInv, TypeOK, WorkerState
  <1>8. ConfirmationsHonest'
    <2>1. /\ confirmations'[c] = [rev |-> task.rev + 1, assessment |-> copy,
                                  seen |-> assessments[a].content]
          /\ \A d \in Confirmations : d # c => confirmations'[d] = confirmations[d]
      BY <1>1 DEF TypeOK
    <2>2. copy # 0
      BY DEF Assessments
    <2> QED
      BY <1>3, <1>6, <2>1, <2>2 DEF ConfirmationsHonest, ArtifactInv
  <1> QED BY <1>2, <1>7, <1>8 DEF ArtifactInv, ResultWasConfirmed

LEMMA AssessStep ==
  ASSUME RunInv, ArtifactInv, NEW a \in Assessments, NEW content \in Contents,
         AssessCompliance(a, content)
  PROVE  ArtifactInv'
  <1> USE DEF RunInv
  <1>1. content # "none"
    BY ChoicesAssumption
  <1> DEFINE row == [rev |-> Saved.rev, content |-> content]
  <1>2. /\ row \in AssessmentRow /\ row.content # "none"
        /\ IsNewAssessment(a) /\ assessments' = [assessments EXCEPT ![a] = row]
        /\ worker.pc = "running"
    BY <1>1, WorkerHasRun DEF AssessCompliance, At, AssessmentRow, CheckpointRow
  <1> HIDE DEF row
  <1>3. /\ \A b \in Assessments : assessments'[b].rev # 0 =>
                                    assessments'[b].content # "none"
        /\ \A b \in Assessments : assessments[b].content # "none" =>
                                    assessments'[b] = assessments[b]
        /\ assessments'[a].content # "none"
        /\ \A d \in Confirmations : confirmations[d].rev # 0 =>
             assessments'[confirmations[d].assessment] =
               assessments[confirmations[d].assessment]
    BY <1>2, NewAssessment
  <1>4. worker'.pc = "revalidating" => worker'.fresh = a
    <2>1. CASE Saved.confirmed
      BY <2>1 DEF AssessCompliance, TypeOK, WorkerState
    <2>2. CASE ~Saved.confirmed
      BY <2>2 DEF AssessCompliance, Complete, Raise, TypeOK, WorkerState
    <2> QED BY <2>1, <2>2
  <1>5. AssessmentsInserted'
    BY <1>3, <1>4 DEF AssessmentsInserted
  <1>6. ConfirmationsHonest'
    BY <1>3 DEF ConfirmationsHonest, ArtifactInv, AssessCompliance
  <1>7. ResultWasConfirmed'
    <2> SUFFICES ASSUME task.result # NoResult
                 PROVE  ResultWasConfirmed'
      BY DEF AssessCompliance, ResultWasConfirmed
    <2>1. PICK c \in Confirmations :
            /\ confirmations[c].rev = task.result.rev
            /\ confirmations[c].assessment = task.result.assessment
            /\ confirmations[c].seen =
                 assessments[task.result.assessment].content
      BY DEF ArtifactInv, ResultWasConfirmed
    <2>2. confirmations[c].rev # 0
      BY <2>1 DEF TypeOK, TaskRow, Results, Revisions
    <2>3. assessments'[task.result.assessment] =
            assessments[task.result.assessment]
      BY <1>3, <2>1, <2>2
    <2> QED
      BY <2>1, <2>3 DEF AssessCompliance, ArtifactInv, ResultWasConfirmed
  <1> QED BY <1>5, <1>6, <1>7 DEF ArtifactInv

LEMMA RevalidateStep ==
  ASSUME RunInv, ArtifactInv, Revalidate
  PROVE  ArtifactInv'
  <1> USE DEF RunInv
  <1>1. /\ worker.pc = "revalidating" /\ worker.fresh \in Assessments
        /\ assessments[worker.fresh].content # "none"
        /\ worker'.pc # "revalidating"
        /\ UNCHANGED <<task, assessments>>
    BY DEF Revalidate, Complete, Raise, ArtifactInv, AssessmentsInserted,
           TypeOK, WorkerState
  <1>2. AssessmentsInserted'
    BY <1>1 DEF ArtifactInv, AssessmentsInserted
  <1>3. CASE UNCHANGED confirmations
    BY <1>1, <1>2, <1>3 DEF ArtifactInv, ConfirmationsHonest, ResultWasConfirmed
  <1>4. ASSUME NEW c \in Confirmations, NEW new \in Confirmations,
               StillConfirmed(c), IsNewConfirmation(new),
               confirmations' = [confirmations EXCEPT ![new] =
                 [confirmations[c] EXCEPT !.rev = Saved.rev,
                                          !.assessment = worker.fresh]]
        PROVE  ArtifactInv'
    <2>1. /\ confirmations[c].rev # 0
          /\ confirmations[c].seen = assessments[worker.fresh].content
      BY <1>4
      DEF StillConfirmed, IsLatestConfirmation, ArtifactInv,
          ConfirmationsHonest, TypeOK, TaskRow, Revisions
    <2>2. /\ \A d \in Confirmations : d # new => confirmations'[d] = confirmations[d]
          /\ confirmations'[new].assessment = worker.fresh
          /\ confirmations'[new].seen = confirmations[c].seen
          /\ confirmations[new].rev = 0
      BY <1>4 DEF TypeOK, ConfirmationRow, IsNewConfirmation
    <2>3. ConfirmationsHonest'
      BY <1>1, <2>1, <2>2 DEF ConfirmationsHonest, ArtifactInv, Assessments
    <2>4. ResultWasConfirmed'
      <3> SUFFICES ASSUME task.result # NoResult
                   PROVE  ResultWasConfirmed'
        BY <1>1 DEF ResultWasConfirmed
      <3>1. PICK d \in Confirmations :
              /\ confirmations[d].rev = task.result.rev
              /\ confirmations[d].assessment = task.result.assessment
              /\ confirmations[d].seen =
                   assessments[task.result.assessment].content
        BY DEF ArtifactInv, ResultWasConfirmed
      <3>2. d # new
        BY <2>2, <3>1 DEF TypeOK, TaskRow, Results, Revisions
      <3> QED
        BY <1>1, <2>2, <3>1, <3>2 DEF ArtifactInv, ResultWasConfirmed
    <2> QED BY <1>2, <2>3, <2>4 DEF ArtifactInv
  <1> QED BY <1>3, <1>4 DEF Revalidate

LEMMA PublishStep ==
  ASSUME RunInv, ArtifactInv, PublishFinalResult
  PROVE  ArtifactInv'
  <1> USE DEF RunInv
  <1>1. /\ worker'.pc # "revalidating"
        /\ UNCHANGED <<assessments, confirmations>>
    BY DEF PublishFinalResult, At, Complete, Raise, TypeOK, WorkerState
  <1>2. AssessmentsInserted' /\ ConfirmationsHonest'
    BY <1>1 DEF ArtifactInv, AssessmentsInserted, ConfirmationsHonest
  <1>3. CASE Publishable
    <2>1. task'.result = [graph |-> RunGraph, rev |-> Saved.rev,
                          assessment |-> Saved.assessment]
      BY <1>3 DEF PublishFinalResult, TypeOK, TaskRow
    <2>2. PICK c \in Confirmations :
            /\ IsLatestConfirmation(c)
            /\ confirmations[c].assessment = Saved.assessment
      BY <1>3 DEF Publishable
    <2>3. confirmations[c].rev = Saved.rev /\ confirmations[c].rev # 0
      BY <1>3, <2>2
      DEF Publishable, IsLatestConfirmation, TypeOK, TaskRow, Revisions
    <2>4. confirmations[c].seen = assessments[Saved.assessment].content
      BY <2>2, <2>3 DEF ArtifactInv, ConfirmationsHonest
    <2>5. ResultWasConfirmed'
      BY <1>1, <1>3, <2>1, <2>2, <2>3, <2>4 DEF ResultWasConfirmed, Publishable
    <2> QED BY <1>2, <2>5 DEF ArtifactInv
  <1>4. CASE ~Publishable
    BY <1>1, <1>2, <1>4 DEF PublishFinalResult, ArtifactInv, ResultWasConfirmed
  <1> QED BY <1>3, <1>4

LEMMA ArtifactInvStep == RunInv /\ ArtifactInv /\ [Next]_vars => ArtifactInv'
  <1> SUFFICES ASSUME RunInv, ArtifactInv, [Next]_vars PROVE ArtifactInv'
    OBVIOUS
  <1>1. CASE ArtifactsKept
    BY <1>1
    DEF ArtifactsKept, ArtifactInv, AssessmentsInserted, ConfirmationsHonest,
        ResultWasConfirmed
  <1> QED
    BY <1>1, ArtifactSteps, ConfirmStep, AssessStep, RevalidateStep, PublishStep

LEMMA ArtifactInvInit == Init => ArtifactInv
  BY DEF Init, ArtifactInv, AssessmentsInserted, ConfirmationsHonest,
         ResultWasConfirmed, IdleWorker

\* Nothing is published that a user did not confirm: whatever runs, answers and
\* reassessments come between the confirmation and the publication, what is
\* published says what the user has seen, and has no policy error.
THEOREM ConfirmedResult == Spec => []ResultWasConfirmed
  <1>1. Spec => []ArtifactInv
    BY RunInvAlways, ArtifactInvInit, ArtifactInvStep, PTL DEF Spec
  <1> QED BY <1>1, PTL DEF ArtifactInv

-----------------------------------------------------------------------------
(* Abandoned tasks.                                                        *)

AbandonedHasNoRun == task.status = "ABANDONED" => task.graph = 0

LEMMA AbandonedStep ==
  ASSUME RunInv, AbandonedHasNoRun, [Next]_vars
  PROVE  AbandonedHasNoRun'
  <1> USE DEF RunInv, AbandonedHasNoRun
  <1>1. CASE LeavesRun
    BY <1>1 DEF LeavesRun
  <1>2. ASSUME NEW expected \in Revisions, NEW i \in Issues,
               AnswerIssue(expected, i)
        PROVE  AbandonedHasNoRun'
    BY <1>2 DEF AnswerIssue, TypeOK, TaskRow
  <1>3. ASSUME NEW expected \in Revisions, NEW j \in Jobs,
               RetryFailedResumeJob(expected, j)
        PROVE  AbandonedHasNoRun'
    BY <1>3 DEF RetryFailedResumeJob, TypeOK, TaskRow
  <1>4. CASE RunTablesKept
    BY <1>4 DEF RunTablesKept
  <1>5. CASE ClaimJob
    BY <1>5 DEF ClaimJob, TypeOK, TaskRow
  <1>6. ASSUME NEW node \in IssueNodes, NEW i \in Issues, AwaitNewIssue(node, i)
        PROVE  AbandonedHasNoRun'
    BY <1>6 DEF AwaitNewIssue, TypeOK, TaskRow
  <1>7. CASE PublishFinalResult
    BY <1>7 DEF PublishFinalResult, TypeOK, TaskRow
  <1>8. CASE EndsJob
    BY <1>8 DEF EndsJob, EndsCurrentJob, EndsOldJob, TypeOK, TaskRow
  <1> QED
    BY <1>1, <1>2, <1>3, <1>4, <1>5, <1>6, <1>7, <1>8, RunSteps DEF RunStep

LEMMA WorkerLeavesQuotes ==
  ASSUME RunInv, WorkerStep \/ ConfigFails \/ Crash
  PROVE  UNCHANGED quotes
  BY IdleType, ReviewNodesType, WaitNodesType, FinishRaisesType
  DEF RunInv, WorkerStep, RowsKept, ClaimJob, AwaitNewIssue, AssessCompliance,
      Revalidate, PublishFinalResult, FinishWaiting, FinishSucceeded,
      FinishSuperseded, FailJob

LEMMA AbandonedReadOnly ==
  ASSUME RunInv, AbandonedHasNoRun, [Next]_vars, ~DirectUpload,
         task.status = "ABANDONED"
  PROVE  UNCHANGED <<task, quotes, issues>>
  <1> USE DEF RunInv, AbandonedHasNoRun
  <1>1. CASE UNCHANGED vars
    BY <1>1 DEF vars
  <1>2. ~UserAction
    BY DEF UserAction, RequireRevision, DeactivateQuote, ReactivateQuote,
       SubmitQuoteDraft, UploadQuote, UpdateRequirement, RefreshSupplierHistory,
       CorrectFields, StartRun, StartCompliance, SaveComplianceEvidence,
       ConfirmCompliance, AnswerIssue, RetryFailedResumeJob, AbandonTask,
       ApplyDecisionScenario
  <1>3. CASE WorkerStep \/ ConfigFails \/ Crash
    <2>1. task.graph \notin Graphs
      BY DEF Graphs
    <2>2. CASE RunTablesKept
      BY <1>3, <2>2, WorkerLeavesQuotes DEF RunTablesKept
    <2>3. ~ClaimJob
      BY <2>1, ClaimShape
    <2>4. ASSUME NEW node \in IssueNodes, NEW i \in Issues, AwaitNewIssue(node, i)
          PROVE  FALSE
      BY <2>1, <2>4, AskShape
    <2>5. CASE PublishFinalResult
      <3>1. RunGraph \in Graphs
        BY <2>5, WorkerHasRun DEF PublishFinalResult, At
      <3> QED
        BY <2>1, <2>5, <3>1 DEF PublishFinalResult, Publishable
    <2>6. CASE EndsJob
      <3>1. RunGraph \in Graphs
        BY <2>6, WorkerHasRun
        DEF EndsJob, EndsCurrentJob, EndsOldJob, BusyStates
      <3> QED
        BY <1>3, <2>1, <2>6, <3>1, WorkerLeavesQuotes
        DEF EndsJob, EndsCurrentJob, EndsOldJob
    <2> QED BY <1>3, <2>2, <2>3, <2>4, <2>5, <2>6, WorkerCases
  <1> QED BY <1>1, <1>2, <1>3 DEF Next

LEMMA AbandonedInit == Init => AbandonedHasNoRun
  BY DEF Init, AbandonedHasNoRun

\* Without the deprecated direct upload, an abandoned task is read-only: no
\* handler accepts it and no late step of the worker changes it, its quotes or
\* its questions.
THEOREM AbandonedTasks ==
  ASSUME ~DirectUpload
  PROVE  Spec => AbandonedIsFinal
  <1>1. Spec => [](RunInv /\ AbandonedHasNoRun)
    BY RunInvAlways, AbandonedInit, AbandonedStep, PTL DEF Spec
  <1>2. RunInv /\ AbandonedHasNoRun /\ [Next]_vars =>
          [task.status = "ABANDONED" => UNCHANGED <<task, quotes, issues>>]_vars
    BY AbandonedReadOnly
  <1> QED BY <1>1, <1>2, PTL DEF Spec, AbandonedIsFinal

-----------------------------------------------------------------------------
(* The task implements the specification PublishedDecision, for every      *)
(* value of its constants.  Two facts decide: runs are taken in order, so  *)
(* that a run that is left is never the current one again; and an answer   *)
(* cannot reach a run that has published, because a question is open only  *)
(* while its run stands at the node that asked it.                         *)

\* The runs inserted so far are 1 .. n, and the current one is the newest.
InOrder(n) ==
  /\ \A g \in Graphs : graphs[g].status # "ABSENT" <=> g <= n
  /\ task.graph # 0 => task.graph = n
RunsInOrder == \E n \in 0 .. MaxGraphs : InOrder(n)

\* A start job is the first thing that happens to its run.
StartsAfresh ==
  \A j \in Jobs :
    jobs[j].status = "PENDING" /\ jobs[j].kind \in StartKinds =>
      /\ \A k \in Jobs \ {j} : jobs[k].status # "ABSENT" =>
                                 jobs[k].graph # jobs[j].graph
      /\ \A i \in Issues : issues[i].status # "ABSENT" =>
                             issues[i].graph # jobs[j].graph
      /\ task.result = NoResult

\* The run of an issue was inserted before it.
IssuesHaveRuns ==
  \A i \in Issues : issues[i].status # "ABSENT" =>
    issues[i].graph # 0 /\ graphs[issues[i].graph].status # "ABSENT"

\* The key of open_issue is unique.
SameKey(i, k) ==
  /\ issues[i].graph = issues[k].graph /\ issues[i].node = issues[k].node
  /\ issues[i].node \in RevisionKeyed => issues[i].rev = issues[k].rev
OneIssuePerKey ==
  \A i, k \in Issues :
    issues[i].status # "ABSENT" /\ issues[k].status # "ABSENT" /\ SameKey(i, k)
      => i = k

\* An open question is the one its run has stopped at.
OpenAtCheckpoint ==
  \A i \in Issues : issues[i].status = "OPEN" =>
    /\ checkpoint[issues[i].graph].at = issues[i].node
    /\ issues[i].node \in RevisionKeyed =>
         checkpoint[issues[i].graph].rev = issues[i].rev

\* A run that has published has nothing left to do.
ResultAtEnd ==
  task.result # NoResult =>
    checkpoint[task.graph].at \in {"publish_final_result", "end"}

RevalidatesAssessment ==
  worker.pc = "revalidating" => Saved.at = "assess_compliance"

DecisionInv == /\ RunInv /\ AbandonedHasNoRun
               /\ RunsInOrder /\ StartsAfresh
               /\ IssuesHaveRuns /\ OneIssuePerKey /\ OpenAtCheckpoint
               /\ ResultAtEnd /\ RevalidatesAssessment

-----------------------------------------------------------------------------
(* The runs of the task.                                                   *)

\* No run comes or goes.
RunsStay == /\ task'.graph = task.graph
            /\ \A g \in Graphs :
                 graphs'[g].status = "ABSENT" <=> graphs[g].status = "ABSENT"

LEMMA EndedRunStays ==
  ASSUME RunInv, EndsJob
  PROVE  RunsStay
  <1>1. /\ worker.job \in Jobs /\ RunGraph \in Graphs
        /\ graphs[RunGraph].status # "ABSENT"
        /\ task'.graph = task.graph
    BY WorkerHasRun
    DEF EndsJob, EndsCurrentJob, EndsOldJob, BusyStates, RunInv, TypeOK, TaskRow,
        JobsHaveRuns, RunGraph
  <1>2. PICK gs \in {"INTERRUPTED", "SUCCEEDED", "FAILED", "SUPERSEDED"} :
          graphs' = [graphs EXCEPT ![RunGraph].status = gs]
    BY DEF EndsJob, EndsCurrentJob, EndsOldJob
  <1> QED BY <1>1, <1>2 DEF RunsStay, RunInv, TypeOK, GraphRow

LEMMA RunsStayStep ==
  ASSUME RunInv, RunStep
  PROVE  LeavesRun \/ RunsStay
  <1> USE DEF RunInv, RunsStay
  <1>1. ASSUME task.graph \in Graphs, task'.graph = task.graph,
               NEW row, row.status # "ABSENT",
               graphs' = [graphs EXCEPT ![task.graph] = row]
        PROVE  RunsStay
    BY <1>1 DEF CurrentRunIsThere, TypeOK, Graphs
  <1>2. ASSUME NEW expected \in Revisions, NEW i \in Issues,
               AnswerIssue(expected, i)
        PROVE  RunsStay
    BY <1>2, <1>1, AnswerShape
  <1>3. ASSUME NEW expected \in Revisions, NEW j \in Jobs,
               RetryFailedResumeJob(expected, j)
        PROVE  RunsStay
    <2>1. /\ task.graph \in Graphs /\ task'.graph = task.graph
          /\ graphs' = [graphs EXCEPT ![task.graph].status = "PENDING"]
      BY <1>3, RetryShape
    <2> QED BY <2>1 DEF CurrentRunIsThere, TypeOK, GraphRow, Graphs
  <1>4. CASE RunTablesKept
    BY <1>4 DEF RunTablesKept
  <1>5. CASE ClaimJob
    <2>1. /\ task.graph \in Graphs /\ task'.graph = task.graph
          /\ graphs' = [graphs EXCEPT ![task.graph].status = "RUNNING"]
      BY <1>5, ClaimShape
    <2> QED BY <2>1 DEF CurrentRunIsThere, TypeOK, GraphRow, Graphs
  <1>6. ASSUME NEW node \in IssueNodes, NEW i \in Issues, AwaitNewIssue(node, i)
        PROVE  RunsStay
    <2>1. /\ task.graph \in Graphs /\ task'.graph = task.graph
          /\ graphs' = [graphs EXCEPT ![task.graph].status = "INTERRUPTED"]
      BY <1>6, AskShape
    <2> QED BY <2>1 DEF CurrentRunIsThere, TypeOK, GraphRow, Graphs
  <1>7. CASE PublishFinalResult
    BY <1>7, PublishShape
  <1>8. CASE EndsJob
    BY <1>8, EndedRunStays
  <1> QED BY <1>2, <1>3, <1>4, <1>5, <1>6, <1>7, <1>8 DEF RunStep

\* The run that replaces the current one is the next one.
LEMMA NextRun ==
  ASSUME RunInv, TypeOK', LeavesRun, NEW n \in 0 .. MaxGraphs, InOrder(n)
  PROVE  IF task'.graph = 0 THEN InOrder(n)'
         ELSE task'.graph = n + 1 /\ n + 1 \in 0 .. MaxGraphs /\ InOrder(n + 1)'
  <1> USE DEF RunInv
  <1>1. \A g \in Graphs : g # task'.graph =>
          (graphs'[g].status = "ABSENT" <=> graphs[g].status = "ABSENT")
    <2>1. \A g \in Graphs : SupersededGraphs[g].status = "ABSENT"
                              <=> graphs[g].status = "ABSENT"
      BY DEF SupersededGraphs, CurrentRunIsThere, TypeOK, GraphRow, Graphs
    <2> QED BY <2>1 DEF LeavesRun
  <1>2. task'.graph \in Graphs \cup {0}
    BY DEF TypeOK, TaskRow
  <1>3. CASE task'.graph = 0
    BY <1>1, <1>3 DEF InOrder, Graphs
  <1>4. CASE task'.graph # 0
    <2>1. IsNewGraph(task'.graph) /\ task'.graph \in Graphs
      BY <1>2, <1>4 DEF LeavesRun
    <2>2. graphs'[task'.graph].status # "ABSENT"
      BY <1>4 DEF LeavesRun
    <2>3. task'.graph = n + 1
      BY <2>1, BoundsAssumption DEF IsNewGraph, InOrder, Graphs
    <2> QED
      BY <1>1, <1>4, <2>1, <2>2, <2>3, BoundsAssumption DEF InOrder, Graphs
  <1> QED BY <1>3, <1>4

LEMMA RunsInOrderStep ==
  ASSUME RunInv, TypeOK', RunsInOrder, RunStep
  PROVE  RunsInOrder'
  <1>1. PICK n \in 0 .. MaxGraphs : InOrder(n)
    BY DEF RunsInOrder
  <1>2. CASE LeavesRun
    BY <1>1, <1>2, NextRun DEF RunsInOrder
  <1>3. CASE RunsStay
    BY <1>1, <1>3 DEF RunsInOrder, InOrder, RunsStay
  <1> QED BY <1>2, <1>3, RunsStayStep

LEMMA RunsCounted ==
  ASSUME NEW rows, NEW n \in 0 .. MaxGraphs,
         \A g \in Graphs : rows[g].status # "ABSENT" <=> g <= n
  PROVE  Cardinality({g \in Graphs : rows[g].status # "ABSENT"}) = n
  <1>1. {g \in Graphs : rows[g].status # "ABSENT"} = 1 .. n
    BY BoundsAssumption DEF Graphs
  <1>2. Cardinality(1 .. n) = IF 1 > n THEN 0 ELSE n - 1 + 1
    BY FS_Interval
  <1>3. Cardinality({g \in Graphs : rows[g].status # "ABSENT"})
          = Cardinality(1 .. n)
    BY <1>1, Zenon
  <1> QED BY <1>2, <1>3, BoundsAssumption

-----------------------------------------------------------------------------
(* The jobs of a run.                                                      *)

\* A job stays with its run.
LEMMA JobsStay ==
  ASSUME RunInv, RunStep
  PROVE  \A j \in Jobs : jobs[j].status # "ABSENT" =>
           jobs'[j].graph = jobs[j].graph /\ jobs'[j].kind = jobs[j].kind
  <1> USE DEF RunInv
  <1>0. \A j \in Jobs : jobs[j] \in JobRow
    BY DEF TypeOK
  <1>1. CASE LeavesRun
    BY <1>0, <1>1 DEF LeavesRun, NewJobOfNewRun, JobRow
  <1>2. ASSUME NEW expected \in Revisions, NEW i \in Issues,
               AnswerIssue(expected, i)
        PROVE  \A j \in Jobs : jobs[j].status # "ABSENT" => jobs'[j] = jobs[j]
    BY <1>2, AnswerShape DEF TypeOK
  <1>3. ASSUME NEW expected \in Revisions, NEW j \in Jobs,
               RetryFailedResumeJob(expected, j)
        PROVE  \A k \in Jobs : /\ jobs'[k].graph = jobs[k].graph
                               /\ jobs'[k].kind = jobs[k].kind
    BY <1>0, <1>3, RetryShape DEF TypeOK, JobRow
  <1>4. CASE RunTablesKept
    BY <1>4 DEF RunTablesKept
  <1>5. CASE ClaimJob
    BY <1>0, <1>5, ClaimShape DEF ClaimJob, TypeOK, JobRow
  <1>6. ASSUME NEW node \in IssueNodes, NEW i \in Issues, AwaitNewIssue(node, i)
        PROVE  UNCHANGED jobs
    BY <1>6, AskShape
  <1>7. CASE PublishFinalResult
    BY <1>7, PublishShape
  <1>8. CASE EndsJob
    <2>1. PICK js \in {"WAITING_INPUT", "SUCCEEDED", "FAILED", "SUPERSEDED"} :
            jobs' = [jobs EXCEPT ![worker.job].status = js]
      BY <1>8 DEF EndsJob, EndsCurrentJob, EndsOldJob
    <2> QED BY <1>0, <2>1 DEF TypeOK, JobRow
  <1> QED BY <1>1, <1>2, <1>3, <1>4, <1>5, <1>6, <1>7, <1>8 DEF RunStep

\* While the worker is in the current run, no start job of it is queued.
LEMMA NoStartQueued ==
  ASSUME RunInv, StartsAfresh, worker.pc \in BusyStates, RunGraph = task.graph,
         NEW j \in Jobs
  PROVE  ~(jobs[j].status = "PENDING" /\ jobs[j].kind \in StartKinds)
  BY WorkerHasRun
  DEF RunInv, StartsAfresh, WorkerHoldsJob, LiveJobIsCurrent, LiveStatuses,
      BusyStates, RunGraph

LEMMA StartsAfreshStep ==
  ASSUME RunInv, StartsAfresh, IssuesHaveRuns, RunStep
  PROVE  StartsAfresh'
  <1> USE DEF RunInv
  <1>0. \A j \in Jobs : jobs[j] \in JobRow
    BY DEF TypeOK
  <1>1. CASE LeavesRun
    <2> SUFFICES ASSUME NEW j \in Jobs, jobs'[j].status = "PENDING"
                 PROVE  /\ \A k \in Jobs \ {j} : jobs'[k].status # "ABSENT" =>
                             jobs'[k].graph # jobs'[j].graph
                        /\ \A i \in Issues : issues'[i].status # "ABSENT" =>
                             issues'[i].graph # jobs'[j].graph
                        /\ task'.result = NoResult
      BY DEF StartsAfresh
    <2>1. NewJobOfNewRun(j)
      BY <1>0, <1>1 DEF LeavesRun, LiveStatuses, JobRow
    <2>2. /\ jobs'[j].graph = task'.graph /\ task'.graph # 0
          /\ graphs[task'.graph].status = "ABSENT"
      BY <1>1, <2>1 DEF NewJobOfNewRun, LeavesRun
    <2>3. ASSUME NEW k \in Jobs \ {j}, jobs'[k].status # "ABSENT"
          PROVE  jobs'[k].graph # task'.graph
      <3>1. ~NewJobOfNewRun(k)
        BY <1>1, <2>1 DEF LeavesRun
      <3>2. \/ jobs'[k] = jobs[k]
            \/ /\ jobs[k].status \in LiveStatuses
               /\ jobs'[k] = [jobs[k] EXCEPT !.status = "SUPERSEDED"]
        BY <1>1, <3>1 DEF LeavesRun
      <3>3. jobs'[k].graph = jobs[k].graph /\ jobs[k].status # "ABSENT"
        BY <1>0, <2>3, <3>2 DEF LiveStatuses, JobRow
      <3> QED BY <2>2, <3>3 DEF JobsHaveRuns
    <2>4. ASSUME NEW i \in Issues, issues'[i].status # "ABSENT"
          PROVE  issues'[i].graph # task'.graph
      <3>1. issues'[i].graph = issues[i].graph /\ issues[i].status # "ABSENT"
        BY <1>1, <2>4 DEF LeavesRun, SupersededIssues, TypeOK, IssueRow
      <3> QED BY <2>2, <3>1 DEF IssuesHaveRuns
    <2> QED BY <1>1, <2>2, <2>3, <2>4 DEF LeavesRun
  <1>2. ASSUME NEW expected \in Revisions, NEW i \in Issues,
               AnswerIssue(expected, i)
        PROVE  StartsAfresh'
    <2>1. PICK j \in Jobs :
            /\ jobs[j].status = "ABSENT"
            /\ jobs' = [jobs EXCEPT ![j] =
                 [status |-> "PENDING", kind |-> "RESUME",
                  graph |-> task.graph, issue |-> i, attempts |-> 0]]
      BY <1>2, AnswerShape
    <2>2. issues[i].status = "OPEN" /\ issues[i].graph = task.graph
      BY <1>2, AnswerShape DEF OpenIssueIsCurrent
    <2>3. ASSUME NEW k \in Jobs
          PROVE  ~(jobs[k].status = "PENDING" /\ jobs[k].kind \in StartKinds)
      BY <2>2 DEF StartsAfresh, LiveJobIsCurrent, LiveStatuses
    <2>4. ASSUME NEW k \in Jobs
          PROVE  ~(jobs'[k].status = "PENDING" /\ jobs'[k].kind \in StartKinds)
      BY <2>1, <2>3 DEF StartKinds, TypeOK
    <2> QED BY <2>4 DEF StartsAfresh
  <1>3. ASSUME NEW expected \in Revisions, NEW j \in Jobs,
               RetryFailedResumeJob(expected, j)
        PROVE  StartsAfresh'
    <2>1. /\ jobs[j].status = "FAILED" /\ jobs[j].graph = task.graph
          /\ jobs[j].kind = "RESUME"
          /\ jobs' = [jobs EXCEPT ![j].status = "PENDING"]
      BY <1>3, RetryShape DEF RetryFailedResumeJob
    <2>2. ASSUME NEW k \in Jobs
          PROVE  ~(jobs[k].status = "PENDING" /\ jobs[k].kind \in StartKinds)
      BY <2>1 DEF StartsAfresh, LiveJobIsCurrent, LiveStatuses
    <2>3. ASSUME NEW k \in Jobs
          PROVE  ~(jobs'[k].status = "PENDING" /\ jobs'[k].kind \in StartKinds)
      BY <1>0, <2>1, <2>2 DEF StartKinds, TypeOK, JobRow
    <2> QED BY <2>3 DEF StartsAfresh
  <1>4. CASE RunTablesKept
    BY <1>4 DEF RunTablesKept, StartsAfresh
  <1>5. CASE ClaimJob
    <2>1. \A k \in Jobs : /\ jobs'[k].graph = jobs[k].graph
                          /\ jobs'[k].status # "ABSENT" => jobs[k].status # "ABSENT"
                          /\ jobs'[k].status = "PENDING" => jobs'[k] = jobs[k]
      BY <1>5, ClaimShape
    <2>2. UNCHANGED issues /\ task'.result = task.result
      BY <1>5, ClaimShape
    <2> QED BY <2>1, <2>2 DEF StartsAfresh
  <1>6. ASSUME NEW node \in IssueNodes, NEW i \in Issues, AwaitNewIssue(node, i)
        PROVE  StartsAfresh'
    <2>1. worker.pc \in BusyStates /\ RunGraph = task.graph /\ UNCHANGED jobs
      BY <1>6, AskShape
    <2> QED BY <2>1, NoStartQueued DEF StartsAfresh
  <1>7. CASE PublishFinalResult
    <2>1. worker.pc \in BusyStates /\ UNCHANGED <<jobs, issues>>
      BY <1>7, PublishShape
    <2>2. CASE Publishable
      BY <2>1, <2>2, NoStartQueued DEF Publishable, StartsAfresh
    <2>3. CASE ~Publishable
      BY <1>7, <2>1, <2>3 DEF PublishFinalResult, StartsAfresh
    <2> QED BY <2>2, <2>3
  <1>8. CASE EndsJob
    <2>1. PICK js \in {"WAITING_INPUT", "SUCCEEDED", "FAILED", "SUPERSEDED"} :
            jobs' = [jobs EXCEPT ![worker.job].status = js]
      BY <1>8 DEF EndsJob, EndsCurrentJob, EndsOldJob
    <2>2. worker.job \in Jobs /\ jobs[worker.job].status # "ABSENT"
      BY <1>8, WorkerHasRun
      DEF EndsJob, EndsCurrentJob, EndsOldJob, BusyStates, TypeOK
    <2>3. \A k \in Jobs : /\ jobs'[k].graph = jobs[k].graph
                          /\ jobs'[k].status # "ABSENT" => jobs[k].status # "ABSENT"
                          /\ jobs'[k].status = "PENDING" => jobs'[k] = jobs[k]
      BY <1>0, <2>1, <2>2 DEF TypeOK, JobRow
    <2>4. UNCHANGED issues /\ task'.result = task.result
      BY <1>8 DEF EndsJob, EndsCurrentJob, EndsOldJob, TypeOK, TaskRow
    <2> QED BY <2>3, <2>4 DEF StartsAfresh
  <1> QED BY <1>1, <1>2, <1>3, <1>4, <1>5, <1>6, <1>7, <1>8 DEF RunStep

-----------------------------------------------------------------------------
(* The questions of a run.                                                 *)

\* No issue comes, and none is opened again.
IssuesStay ==
  \A i \in Issues :
    /\ issues'[i].status = "ABSENT" <=> issues[i].status = "ABSENT"
    /\ issues'[i].status = "OPEN" => issues[i].status = "OPEN"
    /\ issues'[i].graph = issues[i].graph /\ issues'[i].node = issues[i].node
    /\ issues'[i].rev = issues[i].rev

LEMMA IssuesStayStep ==
  ASSUME RunInv, RunStep
  PROVE  \/ IssuesStay
         \/ \E node \in IssueNodes, i \in Issues : AwaitNewIssue(node, i)
  <1> USE DEF RunInv, IssuesStay
  <1>0. \A i \in Issues : issues[i] \in IssueRow
    BY DEF TypeOK
  <1>1. CASE LeavesRun
    BY <1>0, <1>1 DEF LeavesRun, SupersededIssues, IssueRow
  <1>2. ASSUME NEW expected \in Revisions, NEW i \in Issues,
               AnswerIssue(expected, i)
        PROVE  IssuesStay
    <2>1. /\ issues[i].status = "OPEN"
          /\ issues' = [issues EXCEPT ![i].status = "RESOLVED",
                                      ![i].resolved = task.rev + 1]
      BY <1>2 DEF AnswerIssue
    <2> QED BY <1>0, <2>1 DEF TypeOK, IssueRow
  <1>3. ASSUME NEW expected \in Revisions, NEW j \in Jobs,
               RetryFailedResumeJob(expected, j)
        PROVE  IssuesStay
    BY <1>3, RetryShape
  <1>4. CASE UNCHANGED issues
    BY <1>4
  <1>5. ClaimJob \/ PublishFinalResult \/ EndsJob \/ RunTablesKept
          => UNCHANGED issues
    BY ClaimShape, PublishShape
    DEF EndsJob, EndsCurrentJob, EndsOldJob, RunTablesKept
  <1> QED BY <1>1, <1>2, <1>3, <1>4, <1>5 DEF RunStep

\* What a new question adds.
LEMMA NewIssueShape ==
  ASSUME RunInv, NEW node \in IssueNodes, NEW i \in Issues,
         AwaitNewIssue(node, i)
  PROVE  /\ issues[i].status = "ABSENT"
         /\ issues'[i].status = "OPEN" /\ issues'[i].node = node
         /\ issues'[i].graph = RunGraph /\ issues'[i].rev = Saved.rev
         /\ \A k \in Issues : k # i => issues'[k] = issues[k]
         /\ \A k \in Issues : ~IsIssueOf(k, node)
         /\ RunGraph \in Graphs /\ graphs[RunGraph].status # "ABSENT"
         /\ Saved.at = node /\ UNCHANGED checkpoint
  <1>1. \A k \in Issues : ~IsIssueOf(k, node)
    BY DEF AwaitNewIssue
  <1>2. Saved.at = node /\ UNCHANGED checkpoint
    BY DEF AwaitNewIssue, At, Interrupt, Raise
  <1>3. graphs[RunGraph].status # "ABSENT" /\ RunGraph \in Graphs
    BY AskShape DEF RunInv, CurrentRunIsThere, Graphs
  <1>4. /\ issues[i].status = "ABSENT"
        /\ issues' = [issues EXCEPT ![i] =
              [status |-> "OPEN", node |-> node, graph |-> RunGraph,
               rev |-> Saved.rev, resolved |-> 0]]
    BY AskShape DEF RunInv
  <1>5. issues \in [Issues -> IssueRow]
    BY DEF RunInv, TypeOK
  <1> QED BY <1>1, <1>2, <1>3, <1>4, <1>5

LEMMA IssuesHaveRunsStep ==
  ASSUME RunInv, IssuesHaveRuns, RunStep
  PROVE  IssuesHaveRuns'
  <1> USE DEF IssuesHaveRuns
  <1>1. \A g \in Graphs :
          graphs[g].status # "ABSENT" => graphs'[g].status # "ABSENT"
    <2>1. ASSUME LeavesRun, NEW g \in Graphs, graphs[g].status # "ABSENT"
          PROVE  graphs'[g].status # "ABSENT"
      <3>1. g # task'.graph
        BY <2>1 DEF LeavesRun, Graphs
      <3>2. graphs'[g] = SupersededGraphs[g] /\ graphs[g] \in GraphRow
        BY <2>1, <3>1 DEF LeavesRun, RunInv, TypeOK
      <3> QED BY <2>1, <3>2 DEF SupersededGraphs, GraphRow
    <2>2. CASE RunsStay
      BY <2>2 DEF RunsStay
    <2> QED BY <2>1, <2>2, RunsStayStep
  <1>2. \A i \in Issues : issues[i].graph \in Graphs \cup {0}
    BY DEF RunInv, TypeOK, IssueRow
  <1>3. CASE IssuesStay
    BY <1>1, <1>2, <1>3 DEF IssuesStay
  <1>4. ASSUME NEW node \in IssueNodes, NEW i \in Issues, AwaitNewIssue(node, i)
        PROVE  IssuesHaveRuns'
    <2>1. /\ issues'[i].graph = RunGraph /\ RunGraph # 0
          /\ graphs'[RunGraph].status # "ABSENT"
          /\ \A k \in Issues : k # i => issues'[k] = issues[k]
      BY <1>1, <1>4, NewIssueShape DEF Graphs
    <2> QED BY <1>1, <1>2, <2>1
  <1> QED BY <1>3, <1>4, IssuesStayStep

LEMMA OneIssuePerKeyStep ==
  ASSUME RunInv, OneIssuePerKey, RunStep
  PROVE  OneIssuePerKey'
  <1> USE DEF OneIssuePerKey, SameKey
  <1>1. CASE IssuesStay
    BY <1>1 DEF IssuesStay
  <1>2. ASSUME NEW node \in IssueNodes, NEW i \in Issues, AwaitNewIssue(node, i)
        PROVE  OneIssuePerKey'
    <2>1. /\ issues'[i].node = node
          /\ issues'[i].graph = RunGraph /\ issues'[i].rev = Saved.rev
          /\ \A k \in Issues : k # i => issues'[k] = issues[k]
          /\ \A k \in Issues : ~IsIssueOf(k, node)
      BY <1>2, NewIssueShape
    <2>2. ASSUME NEW k \in Issues, k # i, issues[k].status # "ABSENT",
                 issues[k].graph = RunGraph, issues[k].node = node
          PROVE  node \in RevisionKeyed /\ issues[k].rev # Saved.rev
      BY <2>1, <2>2 DEF IsIssueOf
    <2> QED BY <2>1, <2>2
  <1> QED BY <1>1, <1>2, IssuesStayStep

-----------------------------------------------------------------------------
(* The checkpoint of a run.                                                *)

OrdinaryNodes == Nodes \ (IssueNodes \cup {"publish_final_result", "end"})

\* The checkpoint of the worker's run, and no other, may move.
MovesOwn == \A g \in Graphs : g # RunGraph => checkpoint'[g] = checkpoint[g]

\* The worker ends, or repeats later, a node that neither asks nor publishes.
OrdinaryStep == /\ RunTablesKept /\ worker.pc \in BusyStates
                /\ Saved.at \in OrdinaryNodes
                /\ MovesOwn

\* A node that asked before goes on with an answer.
AnsweredStep ==
  \E node \in IssueNodes, i \in Issues :
    /\ RunTablesKept /\ worker.pc \in BusyStates
    /\ Saved.at = node
    /\ IsIssueOf(i, node) /\ issues[i].status = "RESOLVED"
    /\ MovesOwn

\* The worker compares an assessment only at the node that made it.
KeepsComparing ==
  worker'.pc = "revalidating" =>
    /\ UNCHANGED checkpoint
    /\ worker.pc # "idle" /\ worker'.job = worker.job
    /\ Saved.at = "assess_compliance"

LEMMA NodeEndsShape ==
  ASSUME TypeOK, worker.pc # "idle", NEW state, NodeEnds(state)
  PROVE  MovesOwn /\ worker'.pc # "revalidating"
  <1>1. /\ RunGraph \in Graphs
        /\ checkpoint \in [Graphs -> CheckpointRow]
        /\ worker \in WorkerState
    BY WorkerHasRun DEF TypeOK
  <1> QED
    BY <1>1
    DEF NodeEnds, Raise, Interrupt, Complete, MovesOwn, WorkerState

\* What a step does to the checkpoint of the worker's run.
CheckpointStep ==
  \/ UNCHANGED checkpoint
  \/ ClaimJob
  \/ OrdinaryStep
  \/ AnsweredStep
  \/ /\ PublishFinalResult /\ MovesOwn
     /\ checkpoint'[RunGraph].at \in {"publish_final_result", "end"}

LEMMA ReviewNodesMove ==
  ASSUME TypeOK,
         NodeRaises \/ LoadContext \/ FreezeDraft \/ FreezeFinal
           \/ \E next \in RouteTargets : ReviewQuotes(next)
  PROVE  KeepsComparing /\ CheckpointStep
  <1> USE DEF KeepsComparing, CheckpointStep, At
  <1>1. RunTablesKept
    BY ReviewNodesType DEF RowsKept, KeepsJob, RunTablesKept, WorkerGoesOn
  <1>2. CASE NodeRaises
    BY <1>2 DEF NodeRaises, Raise, TypeOK, WorkerState
  <1>3. ASSUME NEW state, NEW node \in OrdinaryNodes, At(node), NodeEnds(state)
        PROVE  KeepsComparing /\ CheckpointStep
    BY <1>1, <1>3, NodeEndsShape DEF OrdinaryStep, BusyStates
  <1>4. /\ "load_context" \in OrdinaryNodes /\ "review_quotes" \in OrdinaryNodes
        /\ "freeze_draft" \in OrdinaryNodes /\ "freeze_final" \in OrdinaryNodes
    BY DEF OrdinaryNodes, Nodes, IssueNodes, StageNodes
  <1>5. CASE LoadContext
    BY <1>3, <1>4, <1>5 DEF LoadContext, NodeEnds
  <1>6. CASE FreezeDraft
    BY <1>3, <1>4, <1>6 DEF FreezeDraft, NodeEnds
  <1>7. CASE FreezeFinal
    BY <1>3, <1>4, <1>7 DEF FreezeFinal, NodeEnds
  <1>8. ASSUME NEW next \in RouteTargets, ReviewQuotes(next)
        PROVE  KeepsComparing /\ CheckpointStep
    BY <1>3, <1>4, <1>8 DEF ReviewQuotes, NodeEnds
  <1> QED BY <1>2, <1>5, <1>6, <1>7, <1>8

LEMMA WaitNodesMove ==
  ASSUME TypeOK,
         \/ AwaitComplianceStart \/ AwaitComplianceConfirmation
         \/ PrepareCompliance
         \/ \E node \in IssueNodes :
              AwaitRefused(node) \/ \E i \in Issues : AwaitKnownIssue(node, i)
  PROVE  KeepsComparing /\ CheckpointStep
  <1> USE DEF KeepsComparing, CheckpointStep, At
  <1>1. RunTablesKept
    BY WaitNodesType DEF RowsKept, KeepsJob, RunTablesKept, WorkerGoesOn
  <1>2. ASSUME NEW state, NEW node \in OrdinaryNodes, At(node), NodeEnds(state)
        PROVE  KeepsComparing /\ CheckpointStep
    BY <1>1, <1>2, NodeEndsShape DEF OrdinaryStep, BusyStates
  <1>3. Raise \/ Interrupt => KeepsComparing /\ UNCHANGED checkpoint
    BY DEF Raise, Interrupt, TypeOK, WorkerState
  <1>4. "await_compliance_start" \in OrdinaryNodes
        /\ "prepare_compliance" \in OrdinaryNodes
    BY DEF OrdinaryNodes, Nodes, IssueNodes, StageNodes
  <1>5. CASE AwaitComplianceStart
    BY <1>2, <1>4, <1>5 DEF AwaitComplianceStart, NodeEnds
  <1>6. CASE AwaitComplianceConfirmation
    BY <1>3, <1>6 DEF AwaitComplianceConfirmation
  <1>7. CASE PrepareCompliance
    BY <1>2, <1>4, <1>7 DEF PrepareCompliance, NodeEnds
  <1>8. ASSUME NEW node \in IssueNodes, AwaitRefused(node)
        PROVE  KeepsComparing /\ CheckpointStep
    BY <1>3, <1>8 DEF AwaitRefused
  <1>9. ASSUME NEW node \in IssueNodes, NEW i \in Issues,
               AwaitKnownIssue(node, i)
        PROVE  KeepsComparing /\ CheckpointStep
    <2>1. CASE Raise \/ Interrupt
      BY <1>3, <2>1
    <2>2. CASE /\ issues[i].status = "RESOLVED"
               /\ Complete([Saved EXCEPT !.at = NodeAfterAnswer(node),
                                         !.rev = issues[i].resolved])
      <3>1. /\ worker.pc \in BusyStates /\ worker.pc # "idle"
            /\ Saved.at = node /\ IsIssueOf(i, node)
        BY <1>9 DEF AwaitKnownIssue, BusyStates
      <3>2. MovesOwn /\ worker'.pc # "revalidating"
        BY <2>2, <3>1, NodeEndsShape DEF NodeEnds
      <3>3. AnsweredStep
        BY <1>1, <2>2, <3>1, <3>2 DEF AnsweredStep
      <3> QED BY <3>2, <3>3
    <2> QED BY <1>9, <2>1, <2>2 DEF AwaitKnownIssue
  <1> QED BY <1>5, <1>6, <1>7, <1>8, <1>9

LEMMA CheckpointSteps ==
  ASSUME RunInv, RevalidatesAssessment, [Next]_vars
  PROVE  KeepsComparing /\ CheckpointStep
  <1> USE DEF RunInv, KeepsComparing, CheckpointStep
  <1>0. worker \in WorkerState
    BY DEF TypeOK
  <1>1. CASE UNCHANGED <<worker, checkpoint>>
    BY <1>1 DEF RevalidatesAssessment
  <1>2. CASE UserAction
    BY <1>1, <1>2
    DEF UserAction, DeactivateQuote, ReactivateQuote, SubmitQuoteDraft,
        UploadQuote, UpdateRequirement, RefreshSupplierHistory, CorrectFields,
        StartRun, StartCompliance, SaveComplianceEvidence, ConfirmCompliance,
        AnswerIssue, RetryFailedResumeJob, AbandonTask, ApplyDecisionScenario
  <1>3. CASE Poll \/ ClaimRefused \/ ConfigFails \/ Crash
    BY <1>3 DEF Poll, ClaimRefused, ConfigFails, Crash, IdleWorker
  <1>4. CASE ClaimJob
    BY <1>0, <1>4 DEF ClaimJob, WorkerState
  <1>5. ASSUME NEW node \in IssueNodes, NEW i \in Issues, AwaitNewIssue(node, i)
        PROVE  KeepsComparing /\ CheckpointStep
    BY <1>0, <1>5 DEF AwaitNewIssue, Interrupt, Raise, WorkerState
  <1>6. ASSUME NEW a \in Assessments, NEW content \in Contents,
               AssessCompliance(a, content)
        PROVE  KeepsComparing /\ CheckpointStep
    <2>1. worker.pc = "running" /\ Saved.at = "assess_compliance"
      BY <1>6 DEF AssessCompliance, At
    <2>2. CASE Saved.confirmed
      BY <1>0, <1>6, <2>1, <2>2 DEF AssessCompliance, WorkerState
    <2>3. CASE ~Saved.confirmed
      <3>1. NodeEnds(Assessed(a, content, FALSE))
        BY <1>6, <2>3 DEF AssessCompliance, NodeEnds
      <3>2. MovesOwn /\ worker'.pc # "revalidating"
        BY <2>1, <3>1, NodeEndsShape
      <3>3. RunTablesKept
        BY <1>0, <1>6, <2>1, <2>3
        DEF AssessCompliance, Complete, Raise, RunTablesKept, WorkerGoesOn,
            WorkerState, BusyStates
      <3> QED
        BY <2>1, <3>2, <3>3
        DEF OrdinaryStep, OrdinaryNodes, Nodes, IssueNodes, BusyStates
    <2> QED BY <2>2, <2>3
  <1>7. CASE Revalidate
    <2>1. worker.pc = "revalidating" /\ Saved.at = "assess_compliance"
      BY <1>7 DEF Revalidate, RevalidatesAssessment
    <2>2. \E state : NodeEnds(state)
      BY <1>7 DEF Revalidate, NodeEnds
    <2>3. MovesOwn /\ worker'.pc # "revalidating"
      BY <2>1, <2>2, NodeEndsShape
    <2>4. RunTablesKept
      BY <1>0, <1>7, <2>1
      DEF Revalidate, Complete, Raise, RunTablesKept, WorkerGoesOn,
          WorkerState, BusyStates
    <2> QED
      BY <2>1, <2>3, <2>4
      DEF OrdinaryStep, OrdinaryNodes, Nodes, IssueNodes, BusyStates
  <1>8. CASE PublishFinalResult
    <2>1. worker.pc = "running" /\ Saved.at = "publish_final_result"
      BY <1>8 DEF PublishFinalResult, At
    <2>2. NodeEnds([Saved EXCEPT !.at = "end"])
      BY <1>8 DEF PublishFinalResult, NodeEnds
    <2>3. MovesOwn /\ worker'.pc # "revalidating"
      BY <2>1, <2>2, NodeEndsShape
    <2>4. checkpoint'[RunGraph].at \in {"publish_final_result", "end"}
      BY <2>1, <2>2, WorkerHasRun
      DEF NodeEnds, Raise, Interrupt, Complete, TypeOK, CheckpointRow, Saved
    <2> QED BY <1>8, <2>3, <2>4
  <1>9. CASE FinishWaiting \/ FinishSucceeded \/ FinishSuperseded \/ FinishRaises
               \/ FailJob
    BY <1>0, <1>9
    DEF FinishWaiting, FinishSucceeded, FinishSuperseded, FinishRaises, FailJob,
        Raise, IdleWorker, WorkerState
  <1> QED
    BY <1>1, <1>2, <1>3, <1>4, <1>5, <1>6, <1>7, <1>8, <1>9,
       ReviewNodesMove, WaitNodesMove
    DEF Next, WorkerStep, vars

LEMMA RevalidatesAssessmentStep ==
  ASSUME RunInv, RunStep, KeepsComparing
  PROVE  RevalidatesAssessment'
  <1> SUFFICES ASSUME worker'.pc = "revalidating"
               PROVE  checkpoint'[jobs'[worker'.job].graph].at
                        = "assess_compliance"
    BY DEF RevalidatesAssessment, Saved, RunGraph
  <1>1. /\ UNCHANGED checkpoint /\ worker'.job = worker.job
        /\ worker.pc # "idle" /\ Saved.at = "assess_compliance"
    BY DEF KeepsComparing
  <1>2. jobs'[worker.job].graph = RunGraph
    BY <1>1, WorkerHasRun, JobsStay DEF RunInv, TypeOK, RunGraph
  <1> QED BY <1>1, <1>2 DEF Saved

LEMMA OpenAtCheckpointStep ==
  ASSUME RunInv, StartsAfresh, OneIssuePerKey, OpenAtCheckpoint, RunStep,
         CheckpointStep
  PROVE  OpenAtCheckpoint'
  <1> USE DEF RunInv
  <1>0. \A i \in Issues : issues[i].graph \in Graphs \cup {0}
    BY DEF TypeOK, IssueRow
  <1>1. ASSUME NEW node \in IssueNodes, NEW i \in Issues, AwaitNewIssue(node, i)
        PROVE  OpenAtCheckpoint'
    <2>1. /\ issues'[i].node = node
          /\ issues'[i].graph = RunGraph /\ issues'[i].rev = Saved.rev
          /\ \A k \in Issues : k # i => issues'[k] = issues[k]
          /\ checkpoint[RunGraph].at = node /\ checkpoint[RunGraph].rev = Saved.rev
          /\ UNCHANGED checkpoint
      BY <1>1, NewIssueShape DEF Saved
    <2> QED BY <2>1 DEF OpenAtCheckpoint
  \* Otherwise an open question was open before, and its run has not moved.
  <1>2. ASSUME IssuesStay, NEW i \in Issues, issues'[i].status = "OPEN"
        PROVE  /\ checkpoint'[issues'[i].graph].at = issues'[i].node
               /\ issues'[i].node \in RevisionKeyed =>
                    checkpoint'[issues'[i].graph].rev = issues'[i].rev
    <2>1. /\ issues[i].status = "OPEN" /\ issues'[i].graph = issues[i].graph
          /\ issues'[i].node = issues[i].node /\ issues'[i].rev = issues[i].rev
          /\ issues[i].graph = task.graph /\ issues[i].graph \in Graphs
      BY <1>0, <1>2 DEF IssuesStay, OpenIssueIsCurrent
    <2>2. /\ checkpoint[issues[i].graph].at = issues[i].node
          /\ issues[i].node \in RevisionKeyed =>
               checkpoint[issues[i].graph].rev = issues[i].rev
          /\ issues[i].node \in IssueNodes
      BY <2>1 DEF OpenAtCheckpoint, TypeOK, IssueRow
    <2>3. SUFFICES checkpoint'[issues[i].graph] = checkpoint[issues[i].graph]
      BY <2>1, <2>2
    <2>4. CASE ClaimJob
      <3>1. /\ worker.job \in Jobs /\ jobs[worker.job].status = "PENDING"
            /\ jobs[worker.job].graph = task.graph
        BY <2>4, ClaimShape
      <3>2. jobs[worker.job].kind = "RESUME"
        BY <2>1, <3>1 DEF StartsAfresh, StartKinds, TypeOK, JobRow, JobKinds
      <3> QED BY <2>4, <3>2 DEF ClaimJob
    <2>5. CASE OrdinaryStep
      BY <2>1, <2>2, <2>5 DEF OrdinaryStep, OrdinaryNodes, MovesOwn, Saved
    <2>6. CASE AnsweredStep
      <3>1. PICK node \in IssueNodes, k \in Issues :
              /\ Saved.at = node
              /\ IsIssueOf(k, node) /\ issues[k].status = "RESOLVED"
              /\ MovesOwn
        BY <2>6 DEF AnsweredStep
      <3>2. ASSUME issues[i].graph = RunGraph
            PROVE  FALSE
        <4>1. SameKey(i, k)
          BY <2>2, <3>1, <3>2 DEF IsIssueOf, SameKey, Saved
        <4>2. i = k
          BY <2>1, <3>1, <4>1 DEF OneIssuePerKey, IsIssueOf
        <4> QED BY <2>1, <3>1, <4>2
      <3> QED BY <2>1, <3>1, <3>2 DEF MovesOwn
    <2>7. CASE PublishFinalResult /\ MovesOwn
      BY <2>1, <2>2, <2>7 DEF PublishFinalResult, At, IssueNodes, MovesOwn, Saved
    <2> QED BY <2>4, <2>5, <2>6, <2>7 DEF CheckpointStep
  <1> QED BY <1>1, <1>2, IssuesStayStep DEF OpenAtCheckpoint

\* A step that keeps the result keeps the run; the others withdraw it, or
\* publish it.
LEMMA ResultSteps ==
  ASSUME RunInv, RunStep
  PROVE  \/ task'.result = NoResult
         \/ task'.result = task.result /\ task'.graph = task.graph
         \/ /\ PublishFinalResult /\ Publishable
            /\ task'.graph = task.graph /\ RunGraph = task.graph
  <1> USE DEF RunInv
  <1>1. CASE LeavesRun
    BY <1>1 DEF LeavesRun
  <1>2. CASE RunTablesKept
    BY <1>2 DEF RunTablesKept
  <1>3. CASE PublishFinalResult
    <2>1. task'.graph = task.graph
      BY <1>3, PublishShape
    <2> QED BY <1>3, <2>1 DEF PublishFinalResult, Publishable
  <1>4. CASE EndsJob
    BY <1>4 DEF EndsJob, EndsCurrentJob, EndsOldJob, TypeOK, TaskRow
  <1> QED
    BY <1>1, <1>2, <1>3, <1>4, AnswerShape, RetryShape, ClaimShape, AskShape
    DEF RunStep

LEMMA ResultAtEndStep ==
  ASSUME RunInv, StartsAfresh, ResultAtEnd, RunStep, CheckpointStep
  PROVE  ResultAtEnd'
  <1> USE DEF RunInv
  <1> SUFFICES ASSUME task'.result # NoResult
               PROVE  checkpoint'[task'.graph].at \in
                        {"publish_final_result", "end"}
    BY DEF ResultAtEnd
  <1>1. CASE task'.result = task.result /\ task'.graph = task.graph
    <2>1. /\ checkpoint[task.graph].at \in {"publish_final_result", "end"}
          /\ task.graph \in Graphs
      BY <1>1 DEF ResultAtEnd, ResultIsCurrent, TypeOK, TaskRow, Results
    <2>2. CASE ClaimJob
      <3>1. /\ worker.job \in Jobs /\ jobs[worker.job].status = "PENDING"
        BY <2>2, ClaimShape
      <3>2. jobs[worker.job].kind = "RESUME"
        BY <1>1, <3>1 DEF StartsAfresh, StartKinds, TypeOK, JobRow, JobKinds
      <3> QED BY <1>1, <2>1, <2>2, <3>2 DEF ClaimJob
    <2>3. CASE OrdinaryStep
      BY <1>1, <2>1, <2>3 DEF OrdinaryStep, OrdinaryNodes, MovesOwn, Saved
    <2>4. CASE AnsweredStep
      BY <1>1, <2>1, <2>4 DEF AnsweredStep, IssueNodes, MovesOwn, Saved
    <2>5. CASE UNCHANGED checkpoint
      BY <1>1, <2>1, <2>5
    <2>6. CASE /\ MovesOwn
               /\ checkpoint'[RunGraph].at \in {"publish_final_result", "end"}
      BY <1>1, <2>1, <2>6 DEF MovesOwn
    <2> QED BY <2>2, <2>3, <2>4, <2>5, <2>6 DEF CheckpointStep
  <1>2. CASE /\ PublishFinalResult /\ task'.graph = task.graph
             /\ RunGraph = task.graph
    <2>1. /\ checkpoint[task.graph].at = "publish_final_result"
          /\ worker.pc = "running"
      BY <1>2 DEF PublishFinalResult, At, Saved
    <2>2. /\ ~ClaimJob /\ ~OrdinaryStep /\ ~AnsweredStep
      BY <1>2, <2>1
      DEF ClaimJob, OrdinaryStep, AnsweredStep, OrdinaryNodes, IssueNodes, Saved
    <2> QED BY <1>2, <2>1, <2>2 DEF CheckpointStep
  <1> QED BY <1>1, <1>2, ResultSteps

LEMMA DecisionInvInit == Init => DecisionInv
  <1> SUFFICES ASSUME Init PROVE DecisionInv
    OBVIOUS
  <1>1. /\ \A j \in Jobs : jobs[j].status = "ABSENT"
        /\ \A i \in Issues : issues[i].status = "ABSENT"
        /\ \A g \in Graphs : graphs[g].status = "ABSENT"
        /\ task.graph = 0 /\ task.result = NoResult /\ worker.pc = "idle"
    BY DEF Init, AbsentJob, AbsentIssue, AbsentGraph, IdleWorker
  <1>2. InOrder(0) /\ 0 \in 0 .. MaxGraphs
    BY <1>1, BoundsAssumption DEF InOrder, Graphs
  <1> QED
    BY <1>1, <1>2, RunInvInit, AbandonedInit
    DEF DecisionInv, RunsInOrder, StartsAfresh, IssuesHaveRuns, OneIssuePerKey,
        OpenAtCheckpoint, ResultAtEnd, RevalidatesAssessment

LEMMA DecisionInvStep == DecisionInv /\ [Next]_vars => DecisionInv'
  <1> SUFFICES ASSUME DecisionInv, [Next]_vars PROVE DecisionInv'
    OBVIOUS
  <1>1. RunInv' /\ RunStep /\ AbandonedHasNoRun'
    BY RunInvStep, RunSteps, AbandonedStep DEF DecisionInv
  <1>2. KeepsComparing /\ CheckpointStep
    BY CheckpointSteps DEF DecisionInv
  <1>3. TypeOK'
    BY <1>1 DEF RunInv
  <1> QED
    BY <1>1, <1>2, <1>3, RunsInOrderStep, StartsAfreshStep, IssuesHaveRunsStep,
       OneIssuePerKeyStep, OpenAtCheckpointStep, ResultAtEndStep,
       RevalidatesAssessmentStep
    DEF DecisionInv

-----------------------------------------------------------------------------
(* Every step maps to a step of PublishedDecision.                         *)

Abandoned == task.status = "ABANDONED"

LEMMA RetiredInOrder ==
  ASSUME NEW n \in 0 .. MaxGraphs, InOrder(n)
  PROVE  RetiredRuns = IF task.graph # 0 THEN n - 1 ELSE n
  BY RunsCounted DEF InOrder, RetiredRuns

LEMMA RetiredInOrderNext ==
  ASSUME NEW n \in 0 .. MaxGraphs, InOrder(n)'
  PROVE  RetiredRuns' = IF task'.graph # 0 THEN n - 1 ELSE n
  BY RunsCounted DEF InOrder, RetiredRuns

LEMMA RetiredStay ==
  ASSUME RunsStay
  PROVE  RetiredRuns' = RetiredRuns
  <1>1. {g \in Graphs : graphs'[g].status # "ABSENT"}
          = {g \in Graphs : graphs[g].status # "ABSENT"}
    BY DEF RunsStay
  <1> QED BY <1>1, Zenon DEF RetiredRuns, RunsStay

\* A handler is refused for an abandoned task, and changes the revision by one
\* if it changes it.
LEMMA HandlerRevises ==
  ASSUME TypeOK, UserAction, ~DirectUpload
  PROVE  /\ ~Abandoned
         /\ \/ task'.rev = task.rev + 1
            \/ task'.rev = task.rev /\ task'.status # "ABANDONED"
  <1>1. ~Abandoned
    BY DEF UserAction, RequireRevision, DeactivateQuote, ReactivateQuote,
       SubmitQuoteDraft, UploadQuote, UpdateRequirement, RefreshSupplierHistory,
       CorrectFields, StartRun, StartCompliance, SaveComplianceEvidence,
       ConfirmCompliance, AnswerIssue, RetryFailedResumeJob, AbandonTask,
       ApplyDecisionScenario, Abandoned
  <1>2. ASSUME NEW status, NEW kind, NEW rev,
               \/ ClearRun(status, rev) \/ ReplaceRun(kind, rev)
               \/ PreparationGraph(rev)
        PROVE  /\ task'.rev = rev
               /\ task'.status \in {status, "QUEUED", "NEEDS_INPUT"}
    BY <1>2 DEF ClearRun, ReplaceRun, PreparationGraph
  <1>3. ASSUME NEW expected \in Revisions,
               \/ \E kind \in StartKinds : StartRun(expected, kind)
               \/ StartCompliance(expected)
        PROVE  /\ task'.rev \in {task.rev, task.rev + 1}
               /\ task'.status = "QUEUED"
    BY <1>3 DEF StartRun, StartCompliance, ReplaceRun
  <1>4. ASSUME NEW expected \in Revisions, NEW j \in Jobs,
               RetryFailedResumeJob(expected, j)
        PROVE  task'.rev = task.rev /\ task'.status = "QUEUED"
    BY <1>4 DEF RetryFailedResumeJob, TypeOK, TaskRow
  <1>5. ASSUME NEW expected \in Revisions, NEW i \in Issues,
               AnswerIssue(expected, i)
        PROVE  task'.rev = task.rev + 1
    BY <1>5, AnswerShape
  <1>6. ASSUME NEW expected \in Revisions, AbandonTask(expected)
        PROVE  task'.rev = task.rev + 1
    BY <1>6 DEF AbandonTask
  <1>7. ASSUME NEW rev, RunOrDraft(rev)
        PROVE  task'.rev = rev
    BY <1>2, <1>7 DEF RunOrDraft
  <1>8. ASSUME NEW expected \in Revisions,
               \/ DeactivateQuote(expected) \/ ReactivateQuote(expected)
               \/ SubmitQuoteDraft(expected) \/ UpdateRequirement(expected)
               \/ RefreshSupplierHistory(expected)
               \/ \E kind \in StartKinds : CorrectFields(expected, kind)
               \/ \E run \in BOOLEAN : SaveComplianceEvidence(expected, run)
               \/ \E a \in Assessments : ConfirmCompliance(expected, a)
        PROVE  task'.rev = task.rev + 1
    BY <1>2, <1>7, <1>8
    DEF DeactivateQuote, ReactivateQuote, SubmitQuoteDraft, UpdateRequirement,
        RefreshSupplierHistory, CorrectFields, SaveComplianceEvidence,
        ConfirmCompliance
  <1>9. ApplyDecisionScenario => task'.rev = task.rev + 1
    BY <1>7 DEF ApplyDecisionScenario
  <1> QED
    BY <1>1, <1>3, <1>4, <1>5, <1>6, <1>8, <1>9 DEF UserAction, UploadQuote

\* Leaving the run withdraws its result and retires it.
LEMMA LeavesRunRetires ==
  ASSUME DecisionInv, TypeOK', LeavesRun
  PROVE  /\ RetiredRuns' \in Nat
         /\ RetiredRuns' >= RetiredRuns
         /\ RetiredRuns' >= task.result.graph
         /\ task'.result.graph = 0
  <1>1. PICK n \in 0 .. MaxGraphs : InOrder(n)
    BY DEF DecisionInv, RunsInOrder
  <1>2. RetiredRuns = IF task.graph # 0 THEN n - 1 ELSE n
    BY <1>1, RetiredInOrder
  <1>3. RetiredRuns' = n
    <2>1. CASE task'.graph = 0
      BY <1>1, <2>1, NextRun, RetiredInOrderNext DEF DecisionInv
    <2>2. CASE task'.graph # 0
      <3>1. n + 1 \in 0 .. MaxGraphs /\ InOrder(n + 1)'
        BY <1>1, <2>2, NextRun DEF DecisionInv
      <3>2. RetiredRuns' = (n + 1) - 1
        BY <2>2, <3>1, RetiredInOrderNext
      <3> QED BY <3>2
    <2> QED BY <2>1, <2>2
  <1>4. task.result.graph <= n
    BY <1>1 DEF DecisionInv, RunInv, ResultIsCurrent, InOrder, NoResult, TypeOK,
                TaskRow, Results, Graphs
  <1>5. task'.result.graph = 0
    BY DEF LeavesRun, NoResult
  <1> QED BY <1>2, <1>3, <1>4, <1>5

\* A step that keeps the run, the revision and the result is a stutter.
LEMMA DecisionStays ==
  ASSUME RunsStay, task'.rev = task.rev,
         task'.result.graph = task.result.graph, Abandoned' <=> Abandoned
  PROVE  UNCHANGED Decision!decision
  <1>1. (task'.status = "ABANDONED") = (task.status = "ABANDONED")
    BY DEF Abandoned
  <1> QED BY <1>1, RetiredStay DEF Decision!decision

LEMMA HandlerImplements ==
  ASSUME DecisionInv, TypeOK', UserAction, ~DirectUpload
  PROVE  [Decision!Next]_(Decision!decision)
  <1> USE DEF DecisionInv, RunInv
  <1>0. task.rev \in Int /\ task'.rev \in Int
    BY DEF TypeOK, TaskRow, Revisions
  <1>1. CASE LeavesRun
    <2>1. /\ RetiredRuns' \in Nat
          /\ Decision!Retire(RetiredRuns')
      BY <1>1, LeavesRunRetires DEF Decision!Retire
    <2>2. CASE task'.status = "ABANDONED"
      <3>1. task'.rev = task.rev + 1 /\ task.status # "ABANDONED"
        BY <2>2, HandlerRevises DEF Abandoned
      <3>2. Decision!Abandon(RetiredRuns')
        BY <2>1, <2>2, <3>1 DEF Decision!Abandon
      <3> QED BY <2>1, <3>2 DEF Decision!Next
    <2>3. CASE task'.status # "ABANDONED"
      <3>1. /\ task.status # "ABANDONED"
            /\ task'.rev = task.rev + 1 \/ task'.rev = task.rev
        BY HandlerRevises DEF Abandoned
      <3>2. (task'.status = "ABANDONED") = (task.status = "ABANDONED")
        BY <2>3, <3>1
      <3>3. Decision!Revise(RetiredRuns') \/ Decision!Restart(RetiredRuns')
        BY <2>1, <3>1, <3>2 DEF Decision!Revise, Decision!Restart
      <3> QED BY <2>1, <3>3 DEF Decision!Next
    <2> QED BY <2>2, <2>3
  <1>2. ASSUME NEW expected \in Revisions, NEW i \in Issues,
               AnswerIssue(expected, i)
        PROVE  Decision!Next
    <2>1. /\ issues[i].status = "OPEN" /\ issues[i].graph = task.graph
          /\ task'.rev = task.rev + 1 /\ task'.result = NoResult
          /\ task'.status = "QUEUED" /\ task.status # "ABANDONED"
      BY <1>2, AnswerShape
      DEF AnswerIssue, OpenIssueIsCurrent, RequireRevision, TypeOK, TaskRow
    <2>2. task.result = NoResult
      BY <2>1 DEF OpenAtCheckpoint, ResultAtEnd, TypeOK, IssueRow, IssueNodes
    <2>3. RunsStay
      <3>1. ~LeavesRun
        BY <1>2, AnswerShape DEF LeavesRun, CurrentRunIsThere, Graphs
      <3>2. RunStep
        BY <1>2 DEF RunStep
      <3> QED BY <3>1, <3>2, RunsStayStep
    <2>4. RetiredRuns' = RetiredRuns
      BY <2>3, RetiredStay
    <2>5. RetiredRuns \in Nat
      <3>1. PICK n \in 0 .. MaxGraphs : InOrder(n)
        BY DEF RunsInOrder
      <3>2. task.graph = n /\ n >= 1
        BY <1>2, <3>1, AnswerShape DEF InOrder, Graphs
      <3> QED BY <3>1, <3>2, RetiredInOrder
    <2>6. Decision!Retire(RetiredRuns')
      BY <2>1, <2>2, <2>4, <2>5 DEF Decision!Retire, NoResult
    <2>7. (task'.status = "ABANDONED") = (task.status = "ABANDONED")
      BY <2>1
    <2>8. Decision!Revise(RetiredRuns')
      BY <2>1, <2>6, <2>7 DEF Decision!Revise
    <2> QED BY <2>4, <2>5, <2>8 DEF Decision!Next
  <1>3. ASSUME NEW expected \in Revisions, NEW j \in Jobs,
               RetryFailedResumeJob(expected, j)
        PROVE  UNCHANGED Decision!decision
    <2>1. /\ task'.rev = task.rev /\ task'.result = task.result
          /\ task'.status = "QUEUED" /\ task.status # "ABANDONED"
          /\ task.graph \in Graphs /\ task'.graph = task.graph
      BY <1>3, RetryShape
      DEF RetryFailedResumeJob, RequireRevision, TypeOK, TaskRow
    <2>2. RunsStay
      <3>1. ~LeavesRun
        BY <2>1 DEF LeavesRun, CurrentRunIsThere, Graphs
      <3>2. RunStep
        BY <1>3 DEF RunStep
      <3> QED BY <3>1, <3>2, RunsStayStep
    <2> QED BY <2>1, <2>2, DecisionStays DEF Abandoned
  <1> QED BY <1>1, <1>2, <1>3, HandlerCases

LEMMA WorkerImplements ==
  ASSUME DecisionInv, TypeOK', WorkerStep \/ ConfigFails \/ Crash
  PROVE  [Decision!Next]_(Decision!decision)
  <1> USE DEF DecisionInv, RunInv
  <1>1. CASE RunTablesKept
    BY <1>1, DecisionStays DEF RunTablesKept, RunsStay, Abandoned
  <1>2. CASE ClaimJob
    <2>1. /\ task'.rev = task.rev /\ task'.result = task.result
          /\ task'.graph = task.graph /\ task.graph \in Graphs
          /\ task'.status = "RUNNING"
      BY <1>2, ClaimShape DEF ClaimJob, TypeOK, TaskRow
    <2>2. ~Abandoned /\ ~Abandoned'
      BY <2>1 DEF Abandoned, AbandonedHasNoRun, Graphs
    <2>3. RunsStay
      BY <1>2, <2>1, RunsStayStep
      DEF RunStep, LeavesRun, CurrentRunIsThere, Graphs
    <2> QED BY <2>1, <2>2, <2>3, DecisionStays
  <1>3. ASSUME NEW node \in IssueNodes, NEW i \in Issues, AwaitNewIssue(node, i)
        PROVE  UNCHANGED Decision!decision
    <2>1. /\ task'.rev = task.rev /\ task'.result = task.result
          /\ task'.graph = task.graph /\ task.graph \in Graphs
          /\ task'.status = "NEEDS_INPUT"
      BY <1>3, AskShape DEF AwaitNewIssue, TypeOK, TaskRow
    <2>2. ~Abandoned /\ ~Abandoned'
      BY <2>1 DEF Abandoned, AbandonedHasNoRun, Graphs
    <2>3. RunsStay
      BY <1>3, <2>1, RunsStayStep
      DEF RunStep, LeavesRun, CurrentRunIsThere, Graphs
    <2> QED BY <2>1, <2>2, <2>3, DecisionStays
  <1>4. CASE PublishFinalResult
    <2>1. /\ task'.graph = task.graph /\ task'.rev = task.rev
          /\ UNCHANGED graphs /\ task'.status = task.status
      BY <1>4, PublishShape DEF PublishFinalResult, TypeOK, TaskRow
    <2>2. RunsStay /\ (Abandoned' <=> Abandoned)
      BY <2>1 DEF RunsStay, Abandoned
    <2>3. CASE task'.result.graph = task.result.graph
      BY <2>1, <2>2, <2>3, DecisionStays
    <2>4. CASE task'.result.graph # task.result.graph
      <3>1. /\ task'.result.graph = task.graph /\ task.graph = RunGraph
            /\ task.graph \in Graphs
        BY <1>4, <2>4, WorkerHasRun
        DEF PublishFinalResult, Publishable, At, TypeOK, TaskRow
      <3>2. task.result.graph = 0 /\ task.status # "ABANDONED"
        BY <2>4, <3>1
        DEF ResultIsCurrent, NoResult, AbandonedHasNoRun, Graphs
      <3>3. PICK n \in 0 .. MaxGraphs : InOrder(n)
        BY DEF RunsInOrder
      <3>4. RetiredRuns = task.graph - 1
        BY <3>1, <3>3, RetiredInOrder DEF InOrder, Graphs
      <3>5. (task'.status = "ABANDONED") = (task.status = "ABANDONED")
        BY <2>1
      <3>6. RetiredRuns' = RetiredRuns
        BY <2>2, RetiredStay
      <3>7. task.graph \in Nat /\ task.graph > task.graph - 1
        BY <3>1 DEF Graphs
      <3>8. Decision!Publish(task'.result.graph)
        BY <2>1, <3>1, <3>2, <3>4, <3>5, <3>6, <3>7 DEF Decision!Publish
      <3> QED BY <3>1, <3>7, <3>8 DEF Decision!Next
    <2> QED BY <2>3, <2>4
  <1>5. CASE EndsJob
    <2>1. /\ task'.rev = task.rev /\ task'.result = task.result
          /\ task'.graph = task.graph
      BY <1>5 DEF EndsJob, EndsCurrentJob, EndsOldJob, TypeOK, TaskRow
    <2>2. RunGraph \in Graphs
      BY <1>5, WorkerHasRun
      DEF EndsJob, EndsCurrentJob, EndsOldJob, BusyStates
    <2>3. Abandoned' <=> Abandoned
      BY <1>5, <2>2
      DEF EndsJob, EndsCurrentJob, EndsOldJob, Abandoned, AbandonedHasNoRun,
          Graphs, TypeOK, TaskRow
    <2>4. RunsStay
      BY <1>5, EndedRunStays
    <2> QED BY <2>1, <2>3, <2>4, DecisionStays
  <1> QED BY <1>1, <1>2, <1>3, <1>4, <1>5, WorkerCases

LEMMA StepImplements ==
  ASSUME DecisionInv, TypeOK', [Next]_vars, ~DirectUpload
  PROVE  [Decision!Next]_(Decision!decision)
  <1>1. CASE UNCHANGED vars
    BY <1>1 DEF vars, Decision!decision, RetiredRuns
  <1> QED BY <1>1, HandlerImplements, WorkerImplements DEF Next

LEMMA InitImplements == Init => Decision!Init
  <1> SUFFICES ASSUME Init PROVE Decision!Init
    OBVIOUS
  <1>1. /\ \A g \in Graphs : graphs[g].status = "ABSENT"
        /\ task.graph = 0 /\ task.result.graph = 0 /\ task.rev = 1
        /\ (task.status = "ABANDONED") = FALSE
    BY DEF Init, AbsentGraph, NoResult
  <1>2. InOrder(0) /\ 0 \in 0 .. MaxGraphs
    BY <1>1, BoundsAssumption DEF InOrder, Graphs
  <1>3. RetiredRuns = 0
    BY <1>1, <1>2, RetiredInOrder
  <1> QED BY <1>1, <1>3 DEF Decision!Init

\* Without the deprecated direct upload, the handlers, the worker and its
\* faults together never do more to the published result than PublishedDecision
\* allows: a result is published once, for the newest run, is only ever
\* withdrawn, and a run that was left never publishes again.
THEOREM Implements ==
  ASSUME ~DirectUpload
  PROVE  Spec => ImplementsDecision
  <1>1. Spec => []DecisionInv
    BY DecisionInvInit, DecisionInvStep, PTL DEF Spec
  <1>2. DecisionInv /\ DecisionInv' /\ [Next]_vars
          => [Decision!Next]_(Decision!decision)
    BY StepImplements DEF DecisionInv, RunInv
  <1> QED
    BY <1>1, <1>2, InitImplements, PTL
    DEF Spec, ImplementsDecision, Decision!Spec

\* So the id of a published result was never published before and its run was
\* never left: whoever keeps the id of a result can tell that it is still the
\* task's.
THEOREM FreshResults ==
  ASSUME ~DirectUpload
  PROVE  Spec => []Decision!FreshResult
  <1>1. Decision!Init => Decision!FreshResult
    BY DEF Decision!Init, Decision!FreshResult
  <1>2. ASSUME Decision!FreshResult, [Decision!Next]_(Decision!decision)
        PROVE  Decision!FreshResult'
    <2>1. CASE UNCHANGED Decision!decision
      BY <1>2, <2>1 DEF Decision!FreshResult, Decision!decision
    <2>2. CASE Decision!Next
      BY <1>2, <2>2 DEF Decision!Next, Decision!Publish, Decision!Revise, Decision!Restart,
                        Decision!Abandon, Decision!Retire, Decision!FreshResult
    <2> QED BY <1>2, <2>1, <2>2
  <1>3. Decision!Spec => []Decision!FreshResult
    BY <1>1, <1>2, PTL DEF Decision!Spec
  <1> QED BY <1>3, Implements, PTL DEF ImplementsDecision
-----------------------------------------------------------------------------
(* A task that asks for input has something to offer.  The fact behind it: *)
(* a node that comes to its question for the first time does not find it,  *)
(* so that a worker without an answer never stops at a question that was   *)
(* answered before.                                                        *)

NoRunNoQuestion == task.graph = 0 => task.status \in {"DRAFT", "ABANDONED"}

AbsentJobsEmpty ==
  \A j \in Jobs : jobs[j].status = "ABSENT" => jobs[j].graph = 0
ResumesHaveIssue == \A j \in Jobs : jobs[j].kind = "RESUME" => jobs[j].issue # 0

\* An answer moves the task beyond the revision of the question.
AnswersAreLater ==
  \A i \in Issues : issues[i].status # "ABSENT" =>
    /\ issues[i].rev <= task.rev
    /\ issues[i].status = "RESOLVED" => issues[i].rev < issues[i].resolved

CurrentIssuesStand ==
  task.graph # 0 =>
    \A i \in Issues : issues[i].graph = task.graph => issues[i].status # "SUPERSEDED"

\* The nodes at which a run has not come to the question of a node.
Before(node) ==
  LET start == {"load_context"}
      review == start \cup {"review_quotes", "await_payment_information", "await_batch_review"}
      draft == review \cup {"await_missing_confirmation", "freeze_draft"}
  IN  CASE node = "await_payment_information"    -> start
        [] node = "await_batch_review"           -> Nodes \ {"await_batch_review"}
        [] node = "await_missing_confirmation"   -> review
        [] node = "await_shipping_amount"        -> draft
        [] node = "await_policy_evidence_review" -> draft \cup {"await_shipping_amount"}

\* A question that was asked is behind its run, or where the run stands; the
\* one about the policy evidence comes again, at a later revision.
Behind(saved, node, rev) ==
  /\ saved.at \notin Before(node)
  /\ node = "await_policy_evidence_review" =>
       /\ rev <= saved.rev
       /\ rev = saved.rev => saved.at = node
AskedBefore ==
  \A i \in Issues : issues[i].status # "ABSENT" =>
    Behind(checkpoint[issues[i].graph], issues[i].node, issues[i].rev)

\* A worker that comes to a question without an answer is the first to ask it.
NotAskedYet ==
  /\ worker.pc = "running" /\ worker.token = 0
  /\ Saved.at \in IssueNodes /\ RunGraph = task.graph
  => \A i \in Issues : ~IsIssueOf(i, Saved.at)

\* Something to do for a user, or for the worker.
SomethingToDo(g) ==
  \/ \E i \in Issues : issues[i].status = "OPEN"
  \/ \E j \in Jobs : jobs[j].status = "PENDING"
  \/ checkpoint[g].at \in StageNodes

StoppedAtQuestion ==
  worker.pc = "interrupted" /\ RunGraph = task.graph => SomethingToDo(RunGraph)

\* The job of a worker that goes on is running, unless its run was left.
WorkingJobRuns ==
  worker.pc \in BusyStates \ {"raised"} => jobs[worker.job].status # "WAITING_INPUT"

QuestionInv == /\ NoRunNoQuestion /\ AbsentJobsEmpty /\ ResumesHaveIssue
               /\ AnswersAreLater /\ CurrentIssuesStand
               /\ AskedBefore /\ NotAskedYet
               /\ StoppedAtQuestion /\ WorkingJobRuns
               /\ NeedsInputHasQuestion

-----------------------------------------------------------------------------
(* What leaving a run means for the task and its queue.                    *)

\* A handler that leaves the run, by what it calls.
Replaces == \E kind \in StartKinds, rev \in {task.rev, task.rev + 1} : ReplaceRun(kind, rev)
Clears   == ClearRun("DRAFT", task.rev + 1)
Prepares == PreparationGraph(task.rev + 1)
Abandons == \E expected \in Revisions : AbandonTask(expected)
LeavesBy == /\ Replaces \/ Clears \/ Prepares \/ Abandons
            /\ UNCHANGED <<checkpoint, worker>>

LEMMA HandlerShapes ==
  ASSUME UserAction
  PROVE  \/ LeavesBy
         \/ \E expected \in Revisions, i \in Issues : AnswerIssue(expected, i)
         \/ \E expected \in Revisions, j \in Jobs : RetryFailedResumeJob(expected, j)
  <1> USE DEF LeavesBy
  <1>1. ASSUME NEW expected \in Revisions,
               \/ DeactivateQuote(expected) \/ ReactivateQuote(expected)
               \/ SubmitQuoteDraft(expected) \/ UploadQuote(expected)
        PROVE  LeavesBy
    BY <1>1 DEF DeactivateQuote, ReactivateQuote, SubmitQuoteDraft, UploadQuote, Clears
  <1>2. ASSUME RunOrDraft(task.rev + 1)
        PROVE  Replaces \/ Clears
    BY <1>2 DEF RunOrDraft, Replaces, Clears, StartKinds
  <1>3. ASSUME NEW expected \in Revisions,
               UpdateRequirement(expected) \/ RefreshSupplierHistory(expected)
        PROVE  LeavesBy
    BY <1>2, <1>3 DEF UpdateRequirement, RefreshSupplierHistory
  <1>4. ASSUME NEW expected \in Revisions, NEW kind \in StartKinds,
               CorrectFields(expected, kind) \/ StartRun(expected, kind)
        PROVE  LeavesBy
    BY <1>4 DEF CorrectFields, StartRun, Replaces
  <1>5. ASSUME NEW expected \in Revisions,
               \/ StartCompliance(expected)
               \/ \E a \in Assessments : ConfirmCompliance(expected, a)
        PROVE  LeavesBy
    BY <1>5 DEF StartCompliance, ConfirmCompliance, Replaces, StartKinds
  <1>6. ASSUME NEW expected \in Revisions, NEW run \in BOOLEAN,
               SaveComplianceEvidence(expected, run)
        PROVE  LeavesBy
    BY <1>6 DEF SaveComplianceEvidence, Replaces, Prepares, StartKinds
  <1>7. ApplyDecisionScenario => LeavesBy
    BY <1>2 DEF ApplyDecisionScenario
  <1>8. ASSUME NEW expected \in Revisions, AbandonTask(expected)
        PROVE  LeavesBy
    BY <1>8 DEF AbandonTask, Abandons
  <1> QED BY <1>1, <1>3, <1>4, <1>5, <1>6, <1>7, <1>8 DEF UserAction

\* Superseded jobs keep what they are about.
LEMMA SupersededJobsKeep ==
  ASSUME TypeOK, NEW j \in Jobs
  PROVE  /\ SupersededJobs[j].kind = jobs[j].kind
         /\ SupersededJobs[j].issue = jobs[j].issue
         /\ SupersededJobs[j].graph = jobs[j].graph
         /\ SupersededJobs[j].status = "ABSENT" => jobs[j].status = "ABSENT"
  BY DEF SupersededJobs, TypeOK, JobRow, LiveStatuses

\* A task without a run does not ask for input; the job of a new run starts it.
LEMMA LeavesByShape ==
  ASSUME TypeOK, LeavesBy
  PROVE  /\ task'.rev \in {task.rev, task.rev + 1}
         /\ task'.graph = 0 => task'.status \in {"DRAFT", "ABANDONED"}
         /\ \A j \in Jobs :
              \/ /\ jobs'[j].kind \in StartKinds /\ jobs'[j].status = "PENDING"
              \/ /\ jobs'[j].kind = jobs[j].kind /\ jobs'[j].issue = jobs[j].issue
                 /\ jobs'[j].graph = jobs[j].graph
                 /\ jobs'[j].status = "ABSENT" => jobs[j].status = "ABSENT"
  <1>1. CASE Replaces
    <2>1. PICK kind \in StartKinds, rev \in {task.rev, task.rev + 1} : ReplaceRun(kind, rev)
      BY <1>1 DEF Replaces
    <2>2. PICK g \in Graphs, k \in Jobs :
            /\ task' = [status |-> "QUEUED", rev |-> rev, graph |-> g, result |-> NoResult]
            /\ jobs' = [SupersededJobs EXCEPT ![k] =
                          [status |-> "PENDING", kind |-> kind, graph |-> g,
                           issue |-> 0, attempts |-> 0]]
      BY <2>1 DEF ReplaceRun
    <2>3. jobs' = [j \in Jobs |->
                     IF j = k THEN [status |-> "PENDING", kind |-> kind, graph |-> g,
                                    issue |-> 0, attempts |-> 0]
                     ELSE SupersededJobs[j]]
      BY <2>2 DEF SupersededJobs
    <2>4. task'.rev = rev /\ task'.graph # 0
      BY <2>2 DEF Graphs
    <2> QED BY <2>3, <2>4, SupersededJobsKeep
  <1>2. CASE Clears \/ Prepares
    <2>1. /\ jobs' = SupersededJobs /\ task'.rev = task.rev + 1
          /\ task'.graph = 0 => task'.status = "DRAFT"
      BY <1>2 DEF Clears, Prepares, ClearRun, PreparationGraph, Graphs
    <2> QED BY <2>1, SupersededJobsKeep
  <1>3. CASE Abandons
    <2>1. /\ jobs' = [j \in Jobs |-> IF jobs[j].status \in LiveStatuses
                                     THEN [jobs[j] EXCEPT !.status = "SUPERSEDED"]
                                     ELSE jobs[j]]
          /\ task'.rev = task.rev + 1 /\ task'.status = "ABANDONED"
      BY <1>3 DEF Abandons, AbandonTask
    <2> QED BY <2>1 DEF TypeOK, JobRow, LiveStatuses
  <1> QED BY <1>1, <1>2, <1>3 DEF LeavesBy

\* A step of the program, as in RunStep, with what leaves the run.
QuestionStep ==
  \/ LeavesRun /\ LeavesBy
  \/ \E expected \in Revisions, i \in Issues : AnswerIssue(expected, i)
  \/ \E expected \in Revisions, j \in Jobs : RetryFailedResumeJob(expected, j)
  \/ RunTablesKept
  \/ ClaimJob
  \/ \E node \in IssueNodes, i \in Issues : AwaitNewIssue(node, i)
  \/ PublishFinalResult
  \/ EndsJob

LEMMA QuestionSteps ==
  ASSUME RunInv, [Next]_vars
  PROVE  QuestionStep
  <1> USE DEF RunInv
  <1>1. CASE UNCHANGED vars
    BY <1>1 DEF vars, QuestionStep, RunTablesKept, WorkerGoesOn
  <1>2. CASE UserAction
    <2>1. CASE LeavesBy
      <3>1. UNCHANGED worker
        BY <2>1 DEF LeavesBy
      <3>2. LeavesRun
        BY <2>1, <3>1, ReplaceLeaves, ClearLeaves, PreparationLeaves, AbandonLeaves
          DEF LeavesBy, Replaces, Clears, Prepares, Abandons
      <3> QED BY <2>1, <3>2 DEF QuestionStep
    <2> QED BY <1>2, <2>1, HandlerShapes DEF QuestionStep
  <1>3. CASE WorkerStep \/ ConfigFails \/ Crash
    BY <1>3, WorkerCases DEF QuestionStep
  <1> QED BY <1>1, <1>2, <1>3 DEF Next

LEMMA StatusSteps ==
  ASSUME RunInv, NoRunNoQuestion, AbsentJobsEmpty, ResumesHaveIssue, QuestionStep
  PROVE  NoRunNoQuestion' /\ AbsentJobsEmpty' /\ ResumesHaveIssue'
  <1> USE DEF RunInv, NoRunNoQuestion, AbsentJobsEmpty, ResumesHaveIssue
  <1>0. \A j \in Jobs : jobs[j] \in JobRow
    BY DEF TypeOK
  <1>1. CASE LeavesRun /\ LeavesBy
    <2>1. "RESUME" \notin StartKinds
      BY DEF StartKinds
    <2> QED BY <1>1, <2>1, LeavesByShape
  <1>2. ASSUME NEW expected \in Revisions, NEW i \in Issues, AnswerIssue(expected, i)
        PROVE  NoRunNoQuestion' /\ AbsentJobsEmpty' /\ ResumesHaveIssue'
    <2>1. task.graph \in Graphs /\ task'.graph = task.graph
      BY <1>2, AnswerShape
    <2>2. PICK j \in Jobs : jobs' = [jobs EXCEPT ![j] =
                   [status |-> "PENDING", kind |-> "RESUME",
                    graph |-> task.graph, issue |-> i, attempts |-> 0]]
      BY <1>2, AnswerShape
    <2> QED BY <2>1, <2>2 DEF TypeOK, Graphs, Issues
  <1>3. ASSUME NEW expected \in Revisions, NEW j \in Jobs,
               RetryFailedResumeJob(expected, j)
        PROVE  NoRunNoQuestion' /\ AbsentJobsEmpty' /\ ResumesHaveIssue'
    <2>1. /\ task.graph \in Graphs /\ task'.graph = task.graph
          /\ jobs' = [jobs EXCEPT ![j].status = "PENDING"]
      BY <1>3, RetryShape
    <2> QED BY <1>0, <2>1 DEF TypeOK, JobRow, Graphs
  <1>4. CASE RunTablesKept
    BY <1>4 DEF RunTablesKept
  <1>5. CASE ClaimJob
    <2>1. /\ RunGraph \in Graphs /\ task'.graph = RunGraph
          /\ jobs' = [jobs EXCEPT ![worker.job].status = "RUNNING",
                                  ![worker.job].attempts = @ + 1]
      BY <1>5, ClaimShape DEF ClaimJob
    <2>2. \A j \in Jobs : /\ jobs'[j].kind = jobs[j].kind
                          /\ jobs'[j].issue = jobs[j].issue
                          /\ jobs'[j].graph = jobs[j].graph
                          /\ jobs'[j].status = "ABSENT" => jobs[j].status = "ABSENT"
      BY <1>0, <1>5, <2>1, ClaimShape DEF TypeOK, JobRow
    <2>3. NoRunNoQuestion'
      BY <2>1 DEF Graphs
    <2>4. AbsentJobsEmpty' /\ ResumesHaveIssue'
      BY <2>2
    <2> QED BY <2>3, <2>4
  <1>6. ASSUME NEW node \in IssueNodes, NEW i \in Issues, AwaitNewIssue(node, i)
        PROVE  NoRunNoQuestion' /\ AbsentJobsEmpty' /\ ResumesHaveIssue'
    BY <1>6, AskShape DEF Graphs
  <1>7. CASE PublishFinalResult
    <2>1. task'.status = task.status /\ task'.graph = task.graph /\ jobs' = jobs
      BY <1>7, PublishShape DEF PublishFinalResult, TypeOK, TaskRow
    <2> QED BY <2>1
  <1>8. CASE EndsJob
    <2>1. PICK js \in {"WAITING_INPUT", "SUCCEEDED", "FAILED", "SUPERSEDED"} :
            jobs' = [jobs EXCEPT ![worker.job].status = js]
      BY <1>8 DEF EndsJob, EndsCurrentJob, EndsOldJob
    <2>2. \A j \in Jobs : /\ jobs'[j].kind = jobs[j].kind
                          /\ jobs'[j].issue = jobs[j].issue
                          /\ jobs'[j].graph = jobs[j].graph
                          /\ jobs'[j].status = "ABSENT" => jobs[j].status = "ABSENT"
      BY <1>0, <2>1 DEF TypeOK, JobRow
    <2>3. task'.graph = 0 => task'.status = task.status /\ task.graph = 0
      <3>1. CASE EndsOldJob
        BY <3>1 DEF EndsOldJob
      <3>2. ASSUME NEW js1, NEW gs, EndsCurrentJob(js1, gs)
            PROVE  task'.graph # 0
        <4>1. RunGraph \in Graphs /\ task'.graph = RunGraph
          BY <3>2, WorkerHasRun DEF EndsCurrentJob, BusyStates, TypeOK, TaskRow
        <4> QED BY <4>1 DEF Graphs
      <3> QED BY <1>8, <3>1, <3>2 DEF EndsJob
    <2> QED BY <2>2, <2>3
  <1> QED BY <1>1, <1>2, <1>3, <1>4, <1>5, <1>6, <1>7, <1>8 DEF QuestionStep

\* No step but a question and an answer changes an issue that stays current.
LEMMA AnswersStep ==
  ASSUME RunInv, TypeOK', IssuesHaveRuns, AnswersAreLater, CurrentIssuesStand, QuestionStep
  PROVE  AnswersAreLater' /\ CurrentIssuesStand'
  <1> USE DEF RunInv, AnswersAreLater, CurrentIssuesStand
  <1>0. /\ \A i \in Issues : issues[i] \in IssueRow
        /\ task.rev \in Int /\ task'.rev \in Int
        /\ \A i \in Issues : issues[i].rev \in Int
    BY DEF TypeOK, IssueRow, TaskRow, Revisions
  <1>1. CASE LeavesRun /\ LeavesBy
    <2>1. task'.rev >= task.rev
      BY <1>0, <1>1, LeavesByShape
    <2>2. \A i \in Issues : /\ issues'[i].graph = issues[i].graph
                            /\ issues'[i].rev = issues[i].rev
                            /\ issues'[i].resolved = issues[i].resolved
                            /\ issues'[i].status \in {issues[i].status, "SUPERSEDED"}
                            /\ issues[i].status = "ABSENT" => issues'[i].status = "ABSENT"
      BY <1>0, <1>1 DEF LeavesRun, SupersededIssues, IssueRow
    <2>3. AnswersAreLater'
      BY <1>0, <2>1, <2>2
    <2>4. CurrentIssuesStand'
      <3> SUFFICES ASSUME task'.graph # 0, NEW i \in Issues,
                          issues'[i].graph = task'.graph, issues'[i].status = "SUPERSEDED"
                   PROVE  FALSE
        OBVIOUS
      <3>1. issues[i].status # "ABSENT" /\ issues[i].graph = task'.graph
        BY <2>2
      <3>2. graphs[task'.graph].status = "ABSENT"
        BY <1>1 DEF LeavesRun
      <3> QED BY <3>1, <3>2 DEF IssuesHaveRuns
    <2> QED BY <2>3, <2>4
  <1>2. ASSUME NEW expected \in Revisions, NEW i \in Issues, AnswerIssue(expected, i)
        PROVE  AnswersAreLater' /\ CurrentIssuesStand'
    <2>1. /\ task'.graph = task.graph /\ task'.rev = task.rev + 1
          /\ issues[i].status = "OPEN"
          /\ issues' = [issues EXCEPT ![i].status = "RESOLVED",
                                      ![i].resolved = task.rev + 1]
      BY <1>2, AnswerShape DEF AnswerIssue
    <2>2. \A k \in Issues : issues'[k].graph = issues[k].graph
                            /\ issues'[k].rev = issues[k].rev
      BY <1>0, <2>1 DEF TypeOK, IssueRow
    <2>3. /\ issues'[i].status = "RESOLVED" /\ issues'[i].resolved = task.rev + 1
          /\ \A k \in Issues : k # i => issues'[k] = issues[k]
      BY <1>0, <2>1 DEF TypeOK, IssueRow
    <2>4. issues[i].rev <= task.rev
      BY <2>1
    <2>5. CurrentIssuesStand'
      BY <2>1, <2>2, <2>3
    <2>6. AnswersAreLater'
      <3> SUFFICES ASSUME NEW k \in Issues, issues'[k].status # "ABSENT"
                   PROVE  /\ issues'[k].rev <= task'.rev
                          /\ issues'[k].status = "RESOLVED"
                               => issues'[k].rev < issues'[k].resolved
        OBVIOUS
      <3>1. CASE k = i
        <4>1. /\ issues'[k].rev = issues[i].rev /\ issues[i].rev \in Int
              /\ task.rev \in Int /\ issues[i].rev <= task.rev
              /\ task'.rev = task.rev + 1 /\ issues'[k].resolved = task.rev + 1
          BY <1>0, <2>1, <2>2, <2>3, <2>4, <3>1
        <4>2. issues[i].rev <= task.rev + 1 /\ issues[i].rev < task.rev + 1
          BY <4>1
        <4> HIDE DEF AnswersAreLater, CurrentIssuesStand
        <4> QED BY <4>1, <4>2
      <3>2. CASE k # i
        <4>1. issues[k].rev <= task.rev /\ issues'[k] = issues[k]
          BY <2>3, <3>2
        <4> QED BY <1>0, <2>1, <4>1
      <3> QED BY <3>1, <3>2
    <2> QED BY <2>5, <2>6
  <1>3. CASE UNCHANGED issues /\ task'.graph = task.graph /\ task'.rev = task.rev
    BY <1>3
  <1>4. ASSUME NEW expected \in Revisions, NEW j \in Jobs,
               RetryFailedResumeJob(expected, j)
        PROVE  UNCHANGED issues /\ task'.graph = task.graph /\ task'.rev = task.rev
    BY <1>4, RetryShape
  <1>5. ClaimJob \/ PublishFinalResult \/ RunTablesKept
          => UNCHANGED issues /\ task'.graph = task.graph /\ task'.rev = task.rev
    BY ClaimShape, PublishShape DEF RunTablesKept
  <1>6. EndsJob => UNCHANGED issues /\ task'.graph = task.graph /\ task'.rev = task.rev
    BY DEF EndsJob, EndsCurrentJob, EndsOldJob, TypeOK, TaskRow
  <1>7. ASSUME NEW node \in IssueNodes, NEW i \in Issues, AwaitNewIssue(node, i)
        PROVE  AnswersAreLater' /\ CurrentIssuesStand'
    <2>1. /\ task'.graph = task.graph /\ task'.rev = task.rev /\ task.graph = RunGraph
          /\ RunGraph # 0
      BY <1>7, AskShape DEF Graphs
    <2>2. Saved.rev = task.rev
      <3>1. graphs[RunGraph].eff = Saved.rev
        BY <1>7 DEF AwaitNewIssue, RunIsAtItsRevision
      <3> QED BY <2>1, <3>1 DEF CurrentRunIsThere
    <2>3. /\ issues'[i].status = "OPEN" /\ issues'[i].rev = Saved.rev
          /\ \A k \in Issues : k # i => issues'[k] = issues[k]
      BY <1>7, NewIssueShape
    <2> QED BY <1>0, <2>1, <2>2, <2>3
  <1> QED BY <1>1, <1>2, <1>3, <1>4, <1>5, <1>6, <1>7 DEF QuestionStep


-----------------------------------------------------------------------------
(* How a run moves from node to node.                                      *)

\* The edges of the graph that need no answer.
Edge(from, to) ==
  \/ from = "load_context" /\ to = "review_quotes"
  \/ from = "review_quotes" /\ to \in RouteTargets
  \/ from = "freeze_draft" /\ to = "await_shipping_amount"
  \/ /\ from \in {"freeze_final", "await_compliance_start"}
     /\ to \in {"await_compliance_start", "prepare_compliance"}
  \/ from = "prepare_compliance" /\ to = "assess_compliance"
  \/ /\ from = "assess_compliance"
     /\ to \in {"publish_final_result", "await_policy_evidence_review",
                "await_compliance_confirmation"}
  \/ from = "publish_final_result" /\ to = "end"

\* The state that follows the saved one, without an answer or with one.
FollowsEdge(state) ==
  /\ Edge(Saved.at, state.at)
  /\ Saved.at # "load_context" => state.rev = Saved.rev
  /\ state.at = "await_payment_information" => ~PaymentAnswered
FollowsAnswer(state) ==
  \E i \in Issues :
    /\ Saved.at \in IssueNodes \ {"await_batch_review"}
    /\ IsIssueOf(i, Saved.at) /\ issues[i].status = "RESOLVED"
    /\ state.at = NodeAfterAnswer(Saved.at) /\ state.rev = issues[i].resolved

\* The worker completes a node, and the tables stand as they were.
TablesStand == /\ UNCHANGED <<jobs, issues>>
               /\ task'.status = task.status
               /\ task'.graph = task.graph /\ task'.rev = task.rev
GoesTo(state) ==
  /\ worker.pc \in {"running", "revalidating"}
  /\ worker' = [worker EXCEPT !.pc = "running", !.token = 0, !.fresh = 0]
  /\ checkpoint' = [checkpoint EXCEPT ![RunGraph] = state]
Goes == /\ TablesStand
        /\ \E state : GoesTo(state) /\ (FollowsEdge(state) \/ FollowsAnswer(state))

\* The worker stops without an answer, at a stage or at a question asked before.
Stops ==
  /\ TablesStand /\ UNCHANGED checkpoint
  /\ worker.pc = "running" /\ worker.token = 0
  /\ worker' = [worker EXCEPT !.pc = "interrupted"]
  /\ \/ Saved.at \in StageNodes
     \/ /\ Saved.at \in IssueNodes /\ task.graph = RunGraph
        /\ \E i \in Issues : IsIssueOf(i, Saved.at)

\* The worker stands still, or is out of its run.
Compares == /\ worker.pc = "running" /\ worker'.pc = "revalidating"
            /\ worker'.job = worker.job
Stays == /\ UNCHANGED checkpoint
         /\ worker'.pc \in BusyStates \ {"raised"} => UNCHANGED worker \/ Compares

WorkerMove ==
  \/ Stays \/ Stops \/ Goes \/ ClaimJob
  \/ \E node \in IssueNodes, i \in Issues : AwaitNewIssue(node, i)

LEMMA CompleteMoves ==
  ASSUME TypeOK, worker.pc \in {"running", "revalidating"}, TablesStand,
         NEW state, Complete(state), FollowsEdge(state) \/ FollowsAnswer(state)
  PROVE  WorkerMove
  <1>1. CASE Raise
    BY <1>1 DEF Raise, WorkerMove, Stays, TypeOK, WorkerState
  <1>2. CASE GoesTo(state)
    BY <1>2 DEF WorkerMove, Goes
  <1> QED BY <1>1, <1>2 DEF Complete, GoesTo

LEMMA RaiseMoves ==
  ASSUME TypeOK, Raise
  PROVE  WorkerMove
  BY DEF Raise, WorkerMove, Stays, TypeOK, WorkerState

LEMMA InterruptMoves ==
  ASSUME TypeOK, worker.pc = "running", worker.token = 0, TablesStand, Interrupt,
         \/ Saved.at \in StageNodes
         \/ /\ Saved.at \in IssueNodes /\ task.graph = RunGraph
            /\ \E i \in Issues : IsIssueOf(i, Saved.at)
  PROVE  WorkerMove
  BY RaiseMoves DEF Interrupt, WorkerMove, Stops

LEMMA ReviewNodesEdges ==
  ASSUME TypeOK,
         NodeRaises \/ LoadContext \/ FreezeDraft \/ FreezeFinal
           \/ \E next \in RouteTargets : ReviewQuotes(next)
  PROVE  WorkerMove
  <1>1. TablesStand
    BY ReviewNodesType DEF RowsKept, TablesStand
  <1>2. worker.pc # "idle" => Saved \in CheckpointRow
    BY WorkerHasRun
  <1> USE DEF FollowsEdge, Edge, At
  <1>3. CASE NodeRaises
    BY <1>3, RaiseMoves DEF NodeRaises
  <1>4. CASE LoadContext
    <2>1. CASE quotes.active > 0
      <3> DEFINE state == [Saved EXCEPT !.at = "review_quotes",
                                        !.rev = graphs[RunGraph].eff]
      <3>1. worker.pc = "running" /\ Saved.at = "load_context" /\ Complete(state)
        BY <1>4, <2>1 DEF LoadContext
      <3>2. state.at = "review_quotes"
        BY <1>2, <3>1 DEF CheckpointRow
      <3>3. FollowsEdge(state)
        BY <3>1, <3>2
      <3> QED BY <1>1, <3>1, <3>3, CompleteMoves
    <2>2. CASE ~(quotes.active > 0)
      BY <1>4, <2>2, RaiseMoves DEF LoadContext
    <2> QED BY <2>1, <2>2
  <1>5. ASSUME NEW next, worker.pc = "running", Complete([Saved EXCEPT !.at = next]),
               Edge(Saved.at, next), Saved.at # "load_context",
               next = "await_payment_information" => ~PaymentAnswered
        PROVE  WorkerMove
    <2> DEFINE state == [Saved EXCEPT !.at = next]
    <2>1. state.at = next /\ state.rev = Saved.rev
      BY <1>2, <1>5 DEF CheckpointRow
    <2>2. FollowsEdge(state)
      BY <1>5, <2>1
    <2> QED BY <1>1, <1>5, <2>2, CompleteMoves
  <1>6. CASE FreezeDraft
    <2>1. /\ worker.pc = "running" /\ Saved.at = "freeze_draft"
          /\ Complete([Saved EXCEPT !.at = "await_shipping_amount"]) \/ Raise
      BY <1>6 DEF FreezeDraft
    <2> QED BY <1>5, <2>1, RaiseMoves
  <1>7. CASE FreezeFinal
    <2>1. PICK next \in {"prepare_compliance", "await_compliance_start"} :
             Complete([Saved EXCEPT !.at = next]) \/ Raise
      BY <1>7 DEF FreezeFinal
    <2>2. worker.pc = "running" /\ Saved.at = "freeze_final"
      BY <1>7 DEF FreezeFinal
    <2>3. /\ Edge(Saved.at, next) /\ Saved.at # "load_context"
          /\ next # "await_payment_information"
      BY <2>1, <2>2
    <2> QED BY <1>5, <2>1, <2>2, <2>3, RaiseMoves
  <1>8. ASSUME NEW next \in RouteTargets, ReviewQuotes(next)
        PROVE  WorkerMove
    <2>1. /\ worker.pc = "running" /\ Saved.at = "review_quotes"
          /\ next = "await_payment_information" => ~PaymentAnswered
          /\ Complete([Saved EXCEPT !.at = next]) \/ Raise
      BY <1>8 DEF ReviewQuotes
    <2>2. Edge(Saved.at, next) /\ Saved.at # "load_context"
      BY <2>1
    <2> QED BY <1>5, <2>1, <2>2, RaiseMoves
  <1> QED BY <1>3, <1>4, <1>6, <1>7, <1>8


LEMMA WaitNodesEdges ==
  ASSUME TypeOK,
         \/ AwaitComplianceStart \/ AwaitComplianceConfirmation
         \/ PrepareCompliance
         \/ \E node \in IssueNodes :
              AwaitRefused(node) \/ \E i \in Issues : AwaitKnownIssue(node, i)
  PROVE  WorkerMove
  <1>1. TablesStand
    BY WaitNodesType DEF RowsKept, TablesStand
  <1>2. worker.pc # "idle" => Saved \in CheckpointRow
    BY WorkerHasRun
  <1> USE DEF At
  <1>3. CASE AwaitComplianceStart
    <2>1. /\ worker.pc = "running" /\ Saved.at = "await_compliance_start"
          /\ \/ worker.token = 0 /\ Interrupt
             \/ Complete([Saved EXCEPT !.at = "prepare_compliance"])
      BY <1>3 DEF AwaitComplianceStart
    <2>2. CASE worker.token = 0 /\ Interrupt
      BY <1>1, <2>1, <2>2, InterruptMoves DEF StageNodes
    <2>3. CASE Complete([Saved EXCEPT !.at = "prepare_compliance"])
      <3> DEFINE state == [Saved EXCEPT !.at = "prepare_compliance"]
      <3>1. state.at = "prepare_compliance" /\ state.rev = Saved.rev
        BY <1>2, <2>1 DEF CheckpointRow
      <3>2. FollowsEdge(state)
        BY <2>1, <3>1 DEF FollowsEdge, Edge
      <3> QED BY <1>1, <2>1, <2>3, <3>2, CompleteMoves
    <2> QED BY <2>1, <2>2, <2>3
  <1>4. CASE AwaitComplianceConfirmation
    <2>1. /\ worker.pc = "running" /\ Saved.at = "await_compliance_confirmation"
          /\ \/ worker.token = 0 /\ Interrupt
             \/ Raise
      BY <1>4 DEF AwaitComplianceConfirmation
    <2> QED BY <1>1, <2>1, InterruptMoves, RaiseMoves DEF StageNodes
  <1>5. CASE PrepareCompliance
    <2>1. PICK a : Complete([Saved EXCEPT !.at = "assess_compliance",
                                          !.confirmed = ConfirmedStage,
                                          !.assessment = a])
      BY <1>5 DEF PrepareCompliance
    <2>2. worker.pc = "running" /\ Saved.at = "prepare_compliance"
      BY <1>5 DEF PrepareCompliance
    <2> DEFINE state == [Saved EXCEPT !.at = "assess_compliance",
                                      !.confirmed = ConfirmedStage,
                                      !.assessment = a]
    <2>3. state.at = "assess_compliance" /\ state.rev = Saved.rev
      BY <1>2, <2>2 DEF CheckpointRow
    <2>4. FollowsEdge(state)
      BY <2>2, <2>3 DEF FollowsEdge, Edge
    <2> QED BY <1>1, <2>1, <2>2, <2>4, CompleteMoves
  <1>6. ASSUME NEW node \in IssueNodes, AwaitRefused(node)
        PROVE  WorkerMove
    BY <1>6, RaiseMoves DEF AwaitRefused
  <1>7. ASSUME NEW node \in IssueNodes, NEW i \in Issues, AwaitKnownIssue(node, i)
        PROVE  WorkerMove
    <2>1. worker.pc = "running" /\ Saved.at = node /\ IsIssueOf(i, node)
      BY <1>7 DEF AwaitKnownIssue
    <2>2. CASE task.graph = RunGraph /\ worker.token = 0 /\ Interrupt
      BY <1>1, <2>1, <2>2, InterruptMoves
    <2>3. CASE /\ issues[i].status = "RESOLVED" /\ node # "await_batch_review"
               /\ Complete([Saved EXCEPT !.at = NodeAfterAnswer(node),
                                         !.rev = issues[i].resolved])
      <3> DEFINE state == [Saved EXCEPT !.at = NodeAfterAnswer(node),
                                        !.rev = issues[i].resolved]
      <3>1. state.at = NodeAfterAnswer(Saved.at) /\ state.rev = issues[i].resolved
        BY <1>2, <2>1 DEF CheckpointRow
      <3>2. Saved.at \in IssueNodes \ {"await_batch_review"}
        BY <2>1, <2>3
      <3>3. FollowsAnswer(state)
        BY <2>1, <2>3, <3>1, <3>2 DEF FollowsAnswer
      <3> QED BY <1>1, <2>1, <2>3, <3>3, CompleteMoves
    <2> QED BY <1>7, <2>2, <2>3, RaiseMoves DEF AwaitKnownIssue
  <1> QED BY <1>3, <1>4, <1>5, <1>6, <1>7

\* Assessing, comparing with the confirmed assessment, and publishing.
LEMMA AssessedMoves ==
  ASSUME TypeOK, TablesStand, worker.pc \in {"running", "revalidating"},
         Saved.at = "assess_compliance", NEW a, NEW content, NEW confirmed,
         Complete(Assessed(a, content, confirmed))
  PROVE  WorkerMove
  <1> DEFINE state == Assessed(a, content, confirmed)
  <1>1. Saved \in CheckpointRow
    BY WorkerHasRun
  <1>2. /\ state.at \in {"publish_final_result", "await_policy_evidence_review",
                         "await_compliance_confirmation"}
        /\ state.rev = Saved.rev
    BY <1>1 DEF Assessed, CheckpointRow
  <1> HIDE DEF state
  <1>3. FollowsEdge(state)
    BY <1>2 DEF FollowsEdge, Edge
  <1> QED BY <1>3, CompleteMoves DEF state

LEMMA StageNodesEdges ==
  ASSUME TypeOK, RevalidatesAssessment,
         \/ \E a \in Assessments, content \in Contents : AssessCompliance(a, content)
         \/ Revalidate \/ PublishFinalResult
  PROVE  WorkerMove
  <1>1. ASSUME NEW a \in Assessments, NEW content \in Contents,
               AssessCompliance(a, content)
        PROVE  WorkerMove
    <2>1. /\ worker.pc = "running" /\ Saved.at = "assess_compliance" /\ TablesStand
      BY <1>1 DEF AssessCompliance, At, TablesStand
    <2>2. CASE /\ worker' = [worker EXCEPT !.pc = "revalidating", !.fresh = a]
               /\ UNCHANGED checkpoint
      BY <2>1, <2>2 DEF WorkerMove, Stays, Compares, TypeOK, WorkerState
    <2>3. CASE Complete(Assessed(a, content, FALSE))
      BY <2>1, <2>3, AssessedMoves
    <2> QED BY <1>1, <2>2, <2>3 DEF AssessCompliance
  <1>2. CASE Revalidate
    <2>1. /\ worker.pc = "revalidating" /\ Saved.at = "assess_compliance"
          /\ TablesStand
      BY <1>2 DEF Revalidate, RevalidatesAssessment, TablesStand
    <2>2. \/ Raise
          \/ \E confirmed : Complete(Assessed(worker.fresh,
                              assessments[worker.fresh].content, confirmed))
      BY <1>2 DEF Revalidate
    <2> QED BY <2>1, <2>2, AssessedMoves, RaiseMoves
  <1>3. CASE PublishFinalResult
    <2>1. worker.pc = "running" /\ Saved.at = "publish_final_result"
      BY <1>3 DEF PublishFinalResult, At
    <2>2. TablesStand
      <3>1. task'.status = task.status
        BY <1>3 DEF PublishFinalResult, TypeOK, TaskRow
      <3> QED BY <1>3, <3>1, PublishShape DEF TablesStand
    <2>3. Raise \/ Complete([Saved EXCEPT !.at = "end"])
      BY <1>3 DEF PublishFinalResult
    <2> DEFINE state == [Saved EXCEPT !.at = "end"]
    <2>4. state.at = "end" /\ state.rev = Saved.rev
      BY <2>1, WorkerHasRun DEF CheckpointRow
    <2>5. FollowsEdge(state)
      BY <2>1, <2>4 DEF FollowsEdge, Edge
    <2> QED BY <2>1, <2>2, <2>3, <2>5, CompleteMoves, RaiseMoves
  <1> QED BY <1>1, <1>2, <1>3

LEMMA MoveSteps ==
  ASSUME RunInv, RevalidatesAssessment, [Next]_vars
  PROVE  WorkerMove
  <1> USE DEF RunInv
  <1>1. CASE UNCHANGED <<worker, checkpoint>>
    BY <1>1 DEF WorkerMove, Stays
  <1>2. CASE UserAction
    BY <1>1, <1>2
    DEF UserAction, DeactivateQuote, ReactivateQuote, SubmitQuoteDraft,
        UploadQuote, UpdateRequirement, RefreshSupplierHistory, CorrectFields,
        StartRun, StartCompliance, SaveComplianceEvidence, ConfirmCompliance,
        AnswerIssue, RetryFailedResumeJob, AbandonTask, ApplyDecisionScenario
  <1>3. CASE Poll \/ ClaimRefused \/ ConfigFails \/ Crash
    BY <1>3 DEF Poll, ClaimRefused, ConfigFails, Crash, IdleWorker, WorkerMove,
                Stays, BusyStates
  <1>4. CASE ClaimJob \/ \E node \in IssueNodes, i \in Issues : AwaitNewIssue(node, i)
    BY <1>4 DEF WorkerMove
  <1>5. CASE FinishWaiting \/ FinishSucceeded \/ FinishSuperseded \/ FailJob
    BY <1>5
    DEF FinishWaiting, FinishSucceeded, FinishSuperseded, FailJob, WorkerMove,
        Stays, BusyStates, IdleWorker, TypeOK, WorkerState
  <1>6. CASE FinishRaises
    BY <1>6, RaiseMoves DEF FinishRaises
  <1> QED
    BY <1>1, <1>2, <1>3, <1>4, <1>5, <1>6, ReviewNodesEdges, WaitNodesEdges,
       StageNodesEdges
    DEF Next, WorkerStep, vars

-----------------------------------------------------------------------------
(* A question is asked once.                                               *)

\* An edge, or an answer, does not lead back to where a question comes up.
LEMMA BeforeEdges ==
  ASSUME NEW from \in Nodes, NEW to, NEW node \in IssueNodes,
         Edge(from, to), from \notin Before(node)
  PROVE  to \notin Before(node)
  <1> USE DEF Edge, Before, Nodes, IssueNodes, StageNodes, RouteTargets
  <1>1. CASE node = "await_payment_information"
    BY <1>1
  <1>2. CASE node = "await_batch_review"
    BY <1>2
  <1>3. CASE node = "await_missing_confirmation"
    BY <1>3
  <1>4. CASE node = "await_shipping_amount"
    BY <1>4
  <1>5. CASE node = "await_policy_evidence_review"
    BY <1>5
  <1> QED BY <1>1, <1>2, <1>3, <1>4, <1>5

LEMMA BeforeAnswers ==
  ASSUME NEW from \in IssueNodes \ {"await_batch_review"}, NEW node \in IssueNodes,
         from \notin Before(node)
  PROVE  NodeAfterAnswer(from) \notin Before(node)
  <1> USE DEF NodeAfterAnswer, Before, Nodes, IssueNodes, StageNodes
  <1>1. CASE node = "await_payment_information"
    BY <1>1
  <1>2. CASE node = "await_batch_review"
    BY <1>2
  <1>3. CASE node = "await_missing_confirmation"
    BY <1>3
  <1>4. CASE node = "await_shipping_amount"
    BY <1>4
  <1>5. CASE node = "await_policy_evidence_review"
    BY <1>5
  <1> QED BY <1>1, <1>2, <1>3, <1>4, <1>5

\* So what was behind the run stays behind it.
LEMMA BehindStays ==
  ASSUME RunInv, AnswersAreLater, worker.pc # "idle",
         NEW i \in Issues, Behind(Saved, issues[i].node, issues[i].rev),
         NEW state, FollowsEdge(state) \/ FollowsAnswer(state)
  PROVE  Behind(state, issues[i].node, issues[i].rev)
  <1>1. /\ Saved.at \in Nodes /\ Saved.rev \in Int
        /\ issues[i].node \in IssueNodes /\ issues[i].rev \in Int
    BY WorkerHasRun DEF RunInv, TypeOK, IssueRow, CheckpointRow, Revisions
  <1>2. Saved.at \notin Before(issues[i].node)
    BY DEF Behind
  <1>3. CASE FollowsEdge(state)
    <2>1. Edge(Saved.at, state.at) /\ (Saved.at # "load_context" => state.rev = Saved.rev)
      BY <1>3 DEF FollowsEdge
    <2>2. state.at \notin Before(issues[i].node)
      BY <1>1, <1>2, <2>1, BeforeEdges
    <2>3. ASSUME issues[i].node = "await_policy_evidence_review"
          PROVE  /\ issues[i].rev <= state.rev
                 /\ issues[i].rev # state.rev
      <3>1. Saved.at # "load_context"
        BY <1>2, <2>3 DEF Before
      <3>2. Saved.at # "await_policy_evidence_review"
        BY <2>1 DEF Edge
      <3>3. issues[i].rev <= Saved.rev /\ issues[i].rev # Saved.rev
        BY <2>3, <3>2 DEF Behind
      <3> QED BY <2>1, <3>1, <3>3
    <2> QED BY <2>2, <2>3 DEF Behind
  <1>4. CASE FollowsAnswer(state)
    <2>1. PICK k \in Issues :
            /\ Saved.at \in IssueNodes \ {"await_batch_review"}
            /\ IsIssueOf(k, Saved.at) /\ issues[k].status = "RESOLVED"
            /\ state.at = NodeAfterAnswer(Saved.at) /\ state.rev = issues[k].resolved
      BY <1>4 DEF FollowsAnswer
    <2>2. state.at \notin Before(issues[i].node)
      BY <1>1, <1>2, <2>1, BeforeAnswers
    <2>3. ASSUME issues[i].node = "await_policy_evidence_review"
          PROVE  issues[i].rev < state.rev
      <3>1. Saved.at = "await_policy_evidence_review"
        BY <1>2, <2>1, <2>3 DEF Before, IssueNodes
      <3>2. issues[k].rev = Saved.rev
        BY <2>1, <3>1 DEF IsIssueOf, RevisionKeyed
      <3>3. issues[k].rev < issues[k].resolved /\ issues[k].resolved \in Int
        BY <2>1 DEF AnswersAreLater, RunInv, TypeOK, IssueRow, Revisions
      <3>4. issues[i].rev <= Saved.rev
        BY <2>3 DEF Behind
      <3> QED BY <1>1, <2>1, <3>2, <3>3, <3>4
    <2>4. state.rev \in Int
      BY <2>1 DEF RunInv, TypeOK, IssueRow, Revisions
    <2> QED BY <1>1, <2>2, <2>3, <2>4 DEF Behind
  <1> QED BY <1>3, <1>4

LEMMA AskedBeforeStep ==
  ASSUME RunInv, StartsAfresh, IssuesHaveRuns, AnswersAreLater, AskedBefore,
         RunStep, WorkerMove
  PROVE  AskedBefore'
  <1> USE DEF RunInv
  <1>1. ASSUME NEW node \in IssueNodes, NEW i \in Issues, AwaitNewIssue(node, i)
        PROVE  AskedBefore'
    <2>1. /\ issues'[i].node = node
          /\ issues'[i].graph = RunGraph /\ issues'[i].rev = Saved.rev
          /\ \A k \in Issues : k # i => issues'[k] = issues[k]
          /\ checkpoint[RunGraph].at = node /\ checkpoint[RunGraph].rev = Saved.rev
          /\ UNCHANGED checkpoint
      BY <1>1, NewIssueShape DEF Saved
    <2>2. Saved.rev \in Int
      BY <1>1, WorkerHasRun DEF AwaitNewIssue, At, CheckpointRow, Revisions
    <2>3. node \notin Before(node)
      BY DEF Before, IssueNodes, Nodes, StageNodes
    <2>4. Behind(checkpoint[RunGraph], node, Saved.rev)
      BY <2>1, <2>2, <2>3 DEF Behind
    <2> SUFFICES ASSUME NEW k \in Issues, issues'[k].status # "ABSENT"
                 PROVE  Behind(checkpoint[issues'[k].graph], issues'[k].node, issues'[k].rev)
      BY <2>1 DEF AskedBefore
    <2>5. CASE k = i
      BY <2>1, <2>4, <2>5
    <2>6. CASE k # i
      BY <2>1, <2>6 DEF AskedBefore
    <2> QED BY <2>5, <2>6
  <1>2. ASSUME IssuesStay, NEW i \in Issues, issues'[i].status # "ABSENT"
        PROVE  Behind(checkpoint'[issues'[i].graph], issues'[i].node, issues'[i].rev)
    <2>1. /\ issues[i].status # "ABSENT" /\ issues'[i].graph = issues[i].graph
          /\ issues'[i].node = issues[i].node /\ issues'[i].rev = issues[i].rev
      BY <1>2 DEF IssuesStay
    <2>2. Behind(checkpoint[issues[i].graph], issues[i].node, issues[i].rev)
      BY <2>1 DEF AskedBefore
    <2>3. SUFFICES Behind(checkpoint'[issues[i].graph], issues[i].node, issues[i].rev)
      BY <2>1
    <2>4. CASE UNCHANGED checkpoint
      BY <2>2, <2>4
    <2>5. CASE ClaimJob
      <3>1. /\ worker.job \in Jobs /\ jobs[worker.job].status = "PENDING"
            /\ RunGraph = jobs[worker.job].graph /\ RunGraph \in Graphs
        BY <2>5, ClaimShape
      <3>2. CASE jobs[worker.job].kind = "RESUME"
        BY <2>4, <2>5, <3>2 DEF ClaimJob
      <3>3. CASE jobs[worker.job].kind # "RESUME"
        <4>1. jobs[worker.job].kind \in StartKinds
          BY <3>1, <3>3 DEF TypeOK, JobRow, JobKinds
        <4>2. issues[i].graph # RunGraph
          BY <2>1, <3>1, <4>1 DEF StartsAfresh
        <4>3. issues[i].graph \in Graphs
          BY <2>1 DEF IssuesHaveRuns, TypeOK, IssueRow
        <4>4. checkpoint' = [checkpoint EXCEPT ![RunGraph] =
                 [at |-> "load_context", rev |-> graphs[RunGraph].eff,
                  requested |-> jobs[worker.job].kind = "COMPLIANCE_START",
                  confirmed |-> FALSE, assessment |-> 0]]
          BY <2>5, <3>3 DEF ClaimJob
        <4>5. checkpoint'[issues[i].graph] = checkpoint[issues[i].graph]
          BY <4>2, <4>3, <4>4 DEF TypeOK
        <4> QED BY <2>2, <4>5
      <3> QED BY <3>2, <3>3
    <2>6. CASE Goes
      <3>1. PICK state : GoesTo(state) /\ (FollowsEdge(state) \/ FollowsAnswer(state))
        BY <2>6 DEF Goes
      <3>2. worker.pc # "idle" /\ RunGraph \in Graphs
        BY <3>1, WorkerHasRun DEF GoesTo
      <3>3. CASE issues[i].graph = RunGraph
        <4>1. Behind(state, issues[i].node, issues[i].rev)
          BY <2>2, <3>1, <3>2, <3>3, BehindStays DEF Saved
        <4>2. checkpoint'[RunGraph] = state
          BY <3>1, <3>2 DEF GoesTo, TypeOK
        <4> QED BY <3>3, <4>1, <4>2
      <3>4. CASE issues[i].graph # RunGraph
        <4>1. issues[i].graph \in Graphs
          BY <2>1 DEF IssuesHaveRuns, TypeOK, IssueRow
        <4>2. checkpoint'[issues[i].graph] = checkpoint[issues[i].graph]
          BY <3>1, <3>4, <4>1 DEF GoesTo, TypeOK
        <4> QED BY <2>2, <4>2
      <3> QED BY <3>3, <3>4
    <2>7. ASSUME NEW node \in IssueNodes, NEW k \in Issues, AwaitNewIssue(node, k)
          PROVE  UNCHANGED checkpoint
      BY <2>7 DEF AwaitNewIssue, Interrupt, Raise
    <2>8. Stays \/ Stops => UNCHANGED checkpoint
      BY DEF Stays, Stops
    <2> QED BY <2>4, <2>5, <2>6, <2>7, <2>8 DEF WorkerMove
  <1>3. CASE IssuesStay
    BY <1>2, <1>3 DEF AskedBefore
  <1> QED BY <1>1, <1>3, IssuesStayStep

\* A worker that goes on keeps its run, and the run is current only if it was.
LEMMA SameRun ==
  ASSUME RunInv, RunStep, worker.pc # "idle", worker'.job = worker.job
  PROVE  /\ RunGraph' = RunGraph
         /\ RunGraph = task'.graph => RunGraph = task.graph /\ ~LeavesRun
  <1>1. /\ worker.job \in Jobs /\ jobs[worker.job].status # "ABSENT"
        /\ RunGraph \in Graphs /\ graphs[RunGraph].status # "ABSENT"
    BY WorkerHasRun DEF RunInv, TypeOK, JobsHaveRuns, RunGraph
  <1>2. RunGraph' = RunGraph
    BY <1>1, JobsStay DEF RunGraph
  <1>3. LeavesRun => RunGraph # task'.graph
    BY <1>1 DEF LeavesRun, Graphs
  <1>4. ~LeavesRun => task'.graph = task.graph
    BY RunsStayStep DEF RunsStay
  <1> QED BY <1>2, <1>3, <1>4

\* The question an edge leads to was not asked, as far as the answers tell.
LEMMA EdgeNotAsked ==
  ASSUME RunInv, OpenAtCheckpoint, CurrentIssuesStand, AskedBefore,
         worker.pc # "idle", RunGraph = task.graph,
         NEW state, FollowsEdge(state), state.at \in IssueNodes,
         NEW i \in Issues, issues[i].status # "ABSENT", issues[i].graph = RunGraph,
         issues[i].node = state.at,
         state.at \in RevisionKeyed => issues[i].rev = state.rev
  PROVE  FALSE
  <1>1. /\ Edge(Saved.at, state.at)
        /\ Saved.at # "load_context" => state.rev = Saved.rev
        /\ state.at = "await_payment_information" => ~PaymentAnswered
    BY DEF FollowsEdge
  <1>2. Behind(Saved, state.at, issues[i].rev)
    BY DEF AskedBefore, Saved
  <1>3. CASE state.at = "await_payment_information"
    <2>1. issues[i].status # "RESOLVED"
      BY <1>1, <1>3 DEF PaymentAnswered
    <2>2. issues[i].status # "OPEN"
      BY <1>1, <1>3 DEF OpenAtCheckpoint, Saved, Edge
    <2>3. issues[i].status # "SUPERSEDED"
      BY WorkerHasRun DEF CurrentIssuesStand, RunInv, Graphs
    <2> QED BY <2>1, <2>2, <2>3 DEF RunInv, TypeOK, IssueRow, IssueStatuses
  <1>4. CASE state.at = "await_policy_evidence_review"
    <2>1. Saved.at = "assess_compliance"
      BY <1>1, <1>4 DEF Edge, RouteTargets
    <2>2. issues[i].rev = Saved.rev
      BY <1>1, <1>4, <2>1 DEF RevisionKeyed
    <2> QED BY <1>2, <1>4, <2>1, <2>2 DEF Behind
  <1>5. CASE state.at \in {"await_missing_confirmation", "await_batch_review",
                           "await_shipping_amount"}
    <2>1. Saved.at \in Before(state.at)
      BY <1>1, <1>5 DEF Edge, Before, RouteTargets, Nodes, IssueNodes, StageNodes
    <2> QED BY <1>2, <2>1 DEF Behind
  <1> QED BY <1>3, <1>4, <1>5 DEF IssueNodes

LEMMA NotAskedYetStep ==
  ASSUME RunInv, OpenAtCheckpoint, CurrentIssuesStand, AskedBefore, ResumesHaveIssue,
         NotAskedYet, RunStep, WorkerMove
  PROVE  NotAskedYet'
  <1> USE DEF RunInv
  <1> SUFFICES ASSUME worker'.pc = "running", worker'.token = 0,
                      Saved'.at \in IssueNodes, RunGraph' = task'.graph
               PROVE  \A i \in Issues : ~IsIssueOf(i, Saved.at)'
    BY DEF NotAskedYet
  <1>0. worker \in WorkerState
    BY DEF TypeOK
  <1>1. ASSUME NEW node \in IssueNodes, NEW i \in Issues, AwaitNewIssue(node, i)
        PROVE  FALSE
    <2>1. worker'.pc \in {"interrupted", "raised"}
      BY <1>0, <1>1 DEF AwaitNewIssue, Interrupt, Raise, WorkerState
    <2> QED BY <2>1
  <1>2. IssuesStay
    BY <1>1, IssuesStayStep
  <1>3. CASE Stays
    <2>1. UNCHANGED <<worker, checkpoint>>
      BY <1>3 DEF Stays, BusyStates, Compares
    <2>2. RunGraph' = RunGraph /\ RunGraph = task.graph
      BY <2>1, SameRun
    <2>3. Saved' = Saved
      BY <2>1, <2>2 DEF Saved
    <2>4. \A i \in Issues : ~IsIssueOf(i, Saved.at)
      BY <2>1, <2>2, <2>3 DEF NotAskedYet
    <2> QED BY <1>2, <2>2, <2>3, <2>4 DEF IsIssueOf, IssuesStay
  <1>4. CASE Stops
    BY <1>0, <1>4 DEF Stops, WorkerState
  <1>5. CASE ClaimJob
    <2>1. /\ worker.job \in Jobs /\ RunGraph \in Graphs /\ worker'.job = worker.job
          /\ RunGraph = jobs[worker.job].graph
          /\ jobs'[worker.job].graph = jobs[worker.job].graph
      BY <1>5, ClaimShape
    <2>2. worker'.token = jobs[worker.job].issue
      BY <1>0, <1>5 DEF ClaimJob, WorkerState
    <2>3. jobs[worker.job].kind # "RESUME"
      BY <2>1, <2>2 DEF ResumesHaveIssue
    <2>4. checkpoint'[RunGraph].at = "load_context"
      BY <1>5, <2>1, <2>3 DEF ClaimJob, TypeOK
    <2>5. Saved'.at = "load_context"
      BY <2>1, <2>4 DEF Saved, RunGraph
    <2> QED BY <2>5 DEF IssueNodes
  <1>6. CASE Goes
    <2>1. PICK state : GoesTo(state) /\ (FollowsEdge(state) \/ FollowsAnswer(state))
      BY <1>6 DEF Goes
    <2>2. worker.pc # "idle" /\ RunGraph \in Graphs /\ worker'.job = worker.job
      BY <1>0, <2>1, WorkerHasRun DEF GoesTo, WorkerState
    <2>3. RunGraph' = RunGraph /\ RunGraph = task.graph
      BY <2>2, SameRun
    <2>4. Saved' = state
      BY <2>1, <2>2, <2>3 DEF GoesTo, Saved, TypeOK
    <2>5. CASE FollowsAnswer(state)
      <3>1. /\ Saved.at \in IssueNodes \ {"await_batch_review"}
            /\ state.at = NodeAfterAnswer(Saved.at)
        BY <2>5 DEF FollowsAnswer
      <3>2. state.at \notin IssueNodes
        BY <3>1 DEF NodeAfterAnswer, IssueNodes
      <3> QED BY <2>4, <3>2
    <2>6. CASE FollowsEdge(state)
      <3> SUFFICES ASSUME NEW i \in Issues, IsIssueOf(i, Saved.at)'
                   PROVE  FALSE
        OBVIOUS
      <3>1. /\ issues[i].status # "ABSENT" /\ issues[i].graph = RunGraph
            /\ issues[i].node = state.at
            /\ state.at \in RevisionKeyed => issues[i].rev = state.rev
        BY <1>2, <2>3, <2>4 DEF IsIssueOf, IssuesStay
      <3> QED BY <2>2, <2>3, <2>4, <2>6, <3>1, EdgeNotAsked
    <2> QED BY <2>1, <2>5, <2>6
  <1> QED BY <1>1, <1>3, <1>4, <1>5, <1>6 DEF WorkerMove

-----------------------------------------------------------------------------
(* A task that asks for input offers something.                            *)

LEMMA WorkingJobRunsStep ==
  ASSUME RunInv, WorkingJobRuns, RunStep, WorkerMove
  PROVE  WorkingJobRuns'
  <1> USE DEF RunInv
  <1> SUFFICES ASSUME worker'.pc \in BusyStates \ {"raised"}
               PROVE  jobs'[worker'.job].status # "WAITING_INPUT"
    BY DEF WorkingJobRuns, BusyStates
  <1>0. worker \in WorkerState
    BY DEF TypeOK
  <1>1. CASE ClaimJob
    BY <1>1, ClaimShape
  <1>2. CASE ~ClaimJob
    <2>1. worker.pc \in BusyStates \ {"raised"} /\ worker'.job = worker.job
      <3>1. ASSUME NEW node \in IssueNodes, NEW i \in Issues, AwaitNewIssue(node, i)
            PROVE  worker.pc = "running" /\ worker'.job = worker.job
        BY <1>0, <3>1 DEF AwaitNewIssue, At, Interrupt, Raise, WorkerState
      <3>2. Goes => worker.pc \in {"running", "revalidating"} /\ worker'.job = worker.job
        BY <1>0 DEF Goes, GoesTo, WorkerState
      <3>3. Stops => worker.pc = "running" /\ worker'.job = worker.job
        BY <1>0 DEF Stops, WorkerState
      <3>4. Stays => worker.pc \in BusyStates \ {"raised"} /\ worker'.job = worker.job
        BY DEF Stays, Compares, BusyStates
      <3> QED BY <1>2, <3>1, <3>2, <3>3, <3>4 DEF WorkerMove, BusyStates
    <2>2. worker.job \in Jobs /\ jobs[worker.job].status # "WAITING_INPUT"
      BY <2>1, WorkerHasRun DEF WorkingJobRuns, BusyStates
    <2>3. jobs[worker.job].status # "ABSENT" /\ jobs[worker.job] \in JobRow
      BY <2>1, <2>2 DEF TypeOK, BusyStates
    <2>4. SUFFICES jobs'[worker.job].status # "WAITING_INPUT"
      BY <2>1
    <2>5. CASE LeavesRun
      BY <2>2, <2>3, <2>5 DEF LeavesRun, NewJobOfNewRun, JobRow
    <2>6. ASSUME NEW expected \in Revisions, NEW i \in Issues, AnswerIssue(expected, i)
          PROVE  jobs'[worker.job] = jobs[worker.job]
      BY <2>2, <2>3, <2>6, AnswerShape DEF TypeOK
    <2>7. ASSUME NEW expected \in Revisions, NEW j \in Jobs,
                 RetryFailedResumeJob(expected, j)
          PROVE  jobs'[worker.job].status \in {jobs[worker.job].status, "PENDING"}
      BY <2>2, <2>3, <2>7, RetryShape DEF TypeOK, JobRow
    <2>8. CASE RunTablesKept
      BY <2>2, <2>8 DEF RunTablesKept
    <2>9. ASSUME NEW node \in IssueNodes, NEW i \in Issues, AwaitNewIssue(node, i)
          PROVE  UNCHANGED jobs
      BY <2>9, AskShape
    <2>10. PublishFinalResult => UNCHANGED jobs
      BY PublishShape
    <2>11. ~EndsJob
      BY <1>0 DEF EndsJob, EndsCurrentJob, EndsOldJob, IdleWorker, WorkerState, BusyStates
    <2> QED BY <1>2, <2>2, <2>5, <2>6, <2>7, <2>8, <2>9, <2>10, <2>11 DEF RunStep
  <1> QED BY <1>1, <1>2

LEMMA StoppedAtQuestionStep ==
  ASSUME RunInv, NotAskedYet, StoppedAtQuestion, RunStep, WorkerMove
  PROVE  StoppedAtQuestion'
  <1> USE DEF RunInv, SomethingToDo
  <1> SUFFICES ASSUME worker'.pc = "interrupted", RunGraph' = task'.graph
               PROVE  SomethingToDo(RunGraph)'
    BY DEF StoppedAtQuestion
  <1>0. worker \in WorkerState
    BY DEF TypeOK
  <1>1. ASSUME NEW node \in IssueNodes, NEW i \in Issues, AwaitNewIssue(node, i)
        PROVE  SomethingToDo(RunGraph)'
    BY <1>1, NewIssueShape
  <1>2. CASE Stops
    <2>1. /\ worker.pc = "running" /\ worker'.job = worker.job /\ worker.token = 0
          /\ UNCHANGED checkpoint
      BY <1>0, <1>2 DEF Stops, WorkerState
    <2>2. RunGraph' = RunGraph /\ RunGraph = task.graph
      BY <2>1, SameRun
    <2>3. Saved.at \in StageNodes
      BY <1>2, <2>1, <2>2 DEF Stops, NotAskedYet
    <2> QED BY <2>1, <2>2, <2>3 DEF Saved
  <1>3. CASE Stays
    <2>1. UNCHANGED <<worker, checkpoint>>
      BY <1>3 DEF Stays, BusyStates, Compares
    <2>2. RunGraph' = RunGraph /\ RunGraph = task.graph /\ ~LeavesRun
      BY <2>1, SameRun
    <2>3. SomethingToDo(RunGraph)
      BY <2>1, <2>2 DEF StoppedAtQuestion
    <2>4. ASSUME NEW expected \in Revisions, NEW i \in Issues, AnswerIssue(expected, i)
          PROVE  \E j \in Jobs : jobs'[j].status = "PENDING"
      BY <2>4, AnswerShape DEF TypeOK
    <2>5. ASSUME NEW expected \in Revisions, NEW j \in Jobs,
                 RetryFailedResumeJob(expected, j)
          PROVE  jobs'[j].status = "PENDING"
      BY <2>5, RetryShape DEF TypeOK, JobRow
    <2>6. RunTablesKept => UNCHANGED <<jobs, issues>>
      BY DEF RunTablesKept
    <2>7. ~ClaimJob /\ ~PublishFinalResult
      BY <2>1 DEF ClaimJob, PublishFinalResult, At
    <2>8. ~EndsJob
      BY <1>0, <2>1 DEF EndsJob, EndsCurrentJob, EndsOldJob, IdleWorker, WorkerState
    <2> QED
      BY <1>1, <2>1, <2>2, <2>3, <2>4, <2>5, <2>6, <2>7, <2>8 DEF RunStep
  <1>4. CASE Goes
    BY <1>0, <1>4 DEF Goes, GoesTo, WorkerState
  <1>5. CASE ClaimJob
    BY <1>0, <1>5 DEF ClaimJob, WorkerState
  <1> QED BY <1>1, <1>2, <1>3, <1>4, <1>5 DEF WorkerMove

\* The run and the jobs behind a request for input.
LEMMA PreparationHasNoJob ==
  ASSUME RunInv, AbsentJobsEmpty, LeavesRun, LeavesBy, task'.status = "NEEDS_INPUT"
  PROVE  \A j \in Jobs : jobs'[j].graph # task'.graph
  <1> USE DEF RunInv
  <1>1. Prepares
    <2>1. Replaces => task'.status = "QUEUED"
      BY DEF Replaces, ReplaceRun
    <2>2. Clears => task'.status = "DRAFT"
      BY DEF Clears, ClearRun
    <2>3. Abandons => task'.status = "ABANDONED"
      BY DEF Abandons, AbandonTask
    <2> QED BY <2>1, <2>2, <2>3 DEF LeavesBy
  <1>2. jobs' = SupersededJobs /\ task'.graph \in Graphs
    BY <1>1 DEF Prepares, PreparationGraph
  <1>3. graphs[task'.graph].status = "ABSENT" /\ task'.graph # 0
    BY <1>2 DEF LeavesRun, Graphs
  <1> SUFFICES ASSUME NEW j \in Jobs, jobs'[j].graph = task'.graph
               PROVE  FALSE
    OBVIOUS
  <1>4. jobs[j].graph = task'.graph
    BY <1>2, SupersededJobsKeep
  <1> QED BY <1>3, <1>4 DEF AbsentJobsEmpty, JobsHaveRuns

\* What there is to do stays when the tables stand.
LEMMA QuestionStays ==
  ASSUME RunInv, NoRunNoQuestion, WorkingJobRuns, NeedsInputHasQuestion,
         TablesStand, WorkerMove
  PROVE  NeedsInputHasQuestion'
  <1> USE DEF RunInv
  <1> SUFFICES ASSUME task'.status = "NEEDS_INPUT"
               PROVE  NeedsInputHasQuestion'
    BY DEF NeedsInputHasQuestion
  <1>1. /\ task.status = "NEEDS_INPUT" /\ task'.graph = task.graph
        /\ UNCHANGED <<jobs, issues>>
    BY DEF TablesStand
  <1>2. task.graph \in Graphs
    BY <1>1 DEF NoRunNoQuestion, TypeOK, TaskRow
  <1>3. CASE checkpoint'[task.graph] = checkpoint[task.graph]
    BY <1>1, <1>3 DEF NeedsInputHasQuestion
  <1>4. ASSUME checkpoint'[task.graph] # checkpoint[task.graph], Goes
        PROVE  \E j \in Jobs : jobs[j].status = "RUNNING"
    <2>1. PICK state : GoesTo(state)
      BY <1>4 DEF Goes
    <2>2. /\ worker.pc \in BusyStates \ {"raised"}
          /\ worker.job \in Jobs /\ RunGraph \in Graphs
      BY <2>1, WorkerHasRun DEF GoesTo, BusyStates
    <2>3. RunGraph = task.graph
      BY <1>2, <1>4, <2>1, <2>2 DEF GoesTo, TypeOK
    <2>4. jobs[worker.job].status = "RUNNING"
      BY <2>2, <2>3 DEF WorkingJobRuns, WorkerHoldsJob
    <2> QED BY <2>2, <2>4
  <1>5. ClaimJob => checkpoint' = checkpoint \/ task'.status = "RUNNING"
    BY DEF ClaimJob, TypeOK, TaskRow
  <1>6. Stays \/ Stops => UNCHANGED checkpoint
    BY DEF Stays, Stops
  <1>7. ASSUME NEW node \in IssueNodes, NEW i \in Issues, AwaitNewIssue(node, i)
        PROVE  UNCHANGED checkpoint
    BY <1>7 DEF AwaitNewIssue, Interrupt, Raise
  <1>8. CASE \E j \in Jobs : jobs[j].status = "RUNNING"
    BY <1>1, <1>8 DEF NeedsInputHasQuestion
  <1> QED BY <1>3, <1>4, <1>5, <1>6, <1>7, <1>8 DEF WorkerMove

\* finish_job leaves a task waiting only at a question, or at a stage.
LEMMA WaitingHasQuestion ==
  ASSUME RunInv, StoppedAtQuestion, FinishWaiting
  PROVE  NeedsInputHasQuestion'
  <1> USE DEF RunInv
  <1>1. /\ worker.pc = "interrupted" /\ task.graph = RunGraph
        /\ jobs' = [jobs EXCEPT ![worker.job].status = "WAITING_INPUT"]
        /\ task' = [task EXCEPT !.status = "NEEDS_INPUT"]
        /\ UNCHANGED <<issues, checkpoint>>
    BY DEF FinishWaiting, IsCurrentRun
  <1>2. task'.graph = RunGraph
    BY <1>1 DEF TypeOK, TaskRow
  <1>3. SomethingToDo(RunGraph)
    BY <1>1 DEF StoppedAtQuestion
  <1>4. jobs[worker.job].status # "PENDING"
    BY <1>1 DEF WorkerHoldsJob, BusyStates
  <1>5. \A j \in Jobs : j # worker.job => jobs'[j] = jobs[j]
    BY <1>1 DEF TypeOK
  <1>6. (\E j \in Jobs : jobs[j].status = "PENDING")
          => \E j \in Jobs : jobs'[j].status = "PENDING"
    BY <1>4, <1>5
  <1> QED BY <1>1, <1>2, <1>3, <1>6 DEF SomethingToDo, NeedsInputHasQuestion

\* A late end of an old run takes nothing from the current one.
LEMMA OldJobEnds ==
  ASSUME RunInv, NeedsInputHasQuestion, EndsOldJob, UNCHANGED checkpoint
  PROVE  NeedsInputHasQuestion'
  <1> USE DEF RunInv
  <1>1. /\ UNCHANGED <<task, issues>> /\ task.graph # RunGraph
        /\ jobs' = [jobs EXCEPT ![worker.job].status = "SUPERSEDED"]
        /\ worker.job \in Jobs
    BY WorkerHasRun DEF EndsOldJob, BusyStates
  <1>2. \A j \in Jobs : /\ jobs'[j].graph = jobs[j].graph
                        /\ j # worker.job => jobs'[j] = jobs[j]
    BY <1>1 DEF TypeOK, JobRow
  <1>3. jobs[worker.job].status \notin {"PENDING", "RUNNING"}
    BY <1>1 DEF LiveJobIsCurrent, LiveStatuses, RunGraph
  <1>4. (\E j \in Jobs : jobs[j].status \in {"PENDING", "RUNNING"})
          => \E j \in Jobs : jobs'[j].status \in {"PENDING", "RUNNING"}
    BY <1>2, <1>3
  <1>5. (\A j \in Jobs : jobs[j].graph # task.graph)
          => \A j \in Jobs : jobs'[j].graph # task.graph
    BY <1>2
  <1> QED BY <1>1, <1>4, <1>5 DEF NeedsInputHasQuestion

LEMMA NeedsInputStep ==
  ASSUME RunInv, NoRunNoQuestion, AbsentJobsEmpty, WorkingJobRuns,
         StoppedAtQuestion, NeedsInputHasQuestion, QuestionStep, WorkerMove
  PROVE  NeedsInputHasQuestion'
  <1> USE DEF RunInv
  <1>1. CASE LeavesRun /\ LeavesBy
    BY <1>1, PreparationHasNoJob DEF NeedsInputHasQuestion
  <1>2. ASSUME NEW expected \in Revisions, NEW i \in Issues, AnswerIssue(expected, i)
        PROVE  task'.status = "QUEUED"
    BY <1>2 DEF AnswerIssue, TypeOK, TaskRow
  <1>3. ASSUME NEW expected \in Revisions, NEW j \in Jobs,
               RetryFailedResumeJob(expected, j)
        PROVE  task'.status = "QUEUED"
    BY <1>3 DEF RetryFailedResumeJob, TypeOK, TaskRow
  <1>4. ClaimJob => task'.status = "RUNNING"
    BY DEF ClaimJob, TypeOK, TaskRow
  <1>5. RunTablesKept => TablesStand
    BY DEF RunTablesKept, TablesStand
  <1>6. PublishFinalResult => TablesStand
    <2>1. PublishFinalResult => task'.status = task.status
      BY DEF PublishFinalResult, TypeOK, TaskRow
    <2> QED BY <2>1, PublishShape DEF TablesStand
  <1>7. ASSUME NEW node \in IssueNodes, NEW i \in Issues, AwaitNewIssue(node, i)
        PROVE  NeedsInputHasQuestion'
    BY <1>7, NewIssueShape DEF NeedsInputHasQuestion
  <1>8. CASE EndsJob
    <2>1. CASE FinishWaiting
      BY <2>1, WaitingHasQuestion
    <2>2. CASE EndsOldJob
      <3>1. UNCHANGED checkpoint
        BY <2>2
        DEF EndsOldJob, IdleWorker, WorkerMove, Stays, Stops, Goes, GoesTo, ClaimJob,
            AwaitNewIssue, Interrupt, Raise
      <3> QED BY <2>2, <3>1, OldJobEnds
    <2>3. CASE task'.status \in {"COMPLETED", "FAILED"}
      BY <2>3 DEF NeedsInputHasQuestion
    <2> QED BY <1>8, <2>1, <2>2, <2>3 DEF EndsJob
  <1>9. task'.status \in {"QUEUED", "RUNNING"} => NeedsInputHasQuestion'
    BY DEF NeedsInputHasQuestion
  <1> QED
    BY <1>1, <1>2, <1>3, <1>4, <1>5, <1>6, <1>7, <1>8, <1>9, QuestionStays
    DEF QuestionStep

LEMMA QuestionInvInit == Init => QuestionInv
  <1> SUFFICES ASSUME Init
               PROVE  QuestionInv
    OBVIOUS
  <1>1. /\ task.graph = 0 /\ task.status = "DRAFT" /\ worker = IdleWorker
        /\ \A j \in Jobs : jobs[j] = AbsentJob
        /\ \A i \in Issues : issues[i].status = "ABSENT"
    BY DEF Init, AbsentIssue
  <1> QED
    BY <1>1
    DEF QuestionInv, NoRunNoQuestion, AbsentJobsEmpty, ResumesHaveIssue,
        AnswersAreLater, CurrentIssuesStand, AskedBefore, NotAskedYet,
        StoppedAtQuestion, WorkingJobRuns, NeedsInputHasQuestion, AbsentJob,
        IdleWorker, BusyStates

LEMMA QuestionInvStep ==
  DecisionInv /\ DecisionInv' /\ QuestionInv /\ [Next]_vars => QuestionInv'
  <1> SUFFICES ASSUME DecisionInv, DecisionInv', QuestionInv, [Next]_vars
               PROVE  QuestionInv'
    OBVIOUS
  <1> USE DEF DecisionInv, QuestionInv
  <1>1. QuestionStep /\ RunStep /\ WorkerMove
    BY QuestionSteps, RunSteps, MoveSteps
  <1>2. NoRunNoQuestion' /\ AbsentJobsEmpty' /\ ResumesHaveIssue'
    BY <1>1, StatusSteps
  <1>3. AnswersAreLater' /\ CurrentIssuesStand'
    BY <1>1, AnswersStep DEF RunInv
  <1>4. AskedBefore'
    BY <1>1, AskedBeforeStep
  <1>5. NotAskedYet'
    BY <1>1, NotAskedYetStep
  <1>6. StoppedAtQuestion' /\ WorkingJobRuns'
    BY <1>1, StoppedAtQuestionStep, WorkingJobRunsStep
  <1>7. NeedsInputHasQuestion'
    BY <1>1, NeedsInputStep
  <1> QED BY <1>2, <1>3, <1>4, <1>5, <1>6, <1>7

\* A task that asks for input offers something to do: a question to answer or
\* correct, a job that goes on, a stage to start or confirm, or a run that was
\* only prepared (open_issue and finish_job).
THEOREM QuestionsAsked == Spec => []NeedsInputHasQuestion
  <1>1. Init => DecisionInv /\ QuestionInv
    BY DecisionInvInit, QuestionInvInit
  <1>2. DecisionInv /\ QuestionInv /\ [Next]_vars => (DecisionInv /\ QuestionInv)'
    BY DecisionInvStep, QuestionInvStep
  <1>3. QuestionInv => NeedsInputHasQuestion
    BY DEF QuestionInv
  <1> QED BY <1>1, <1>2, <1>3, PTL DEF Spec
=============================================================================
