--------------------------- MODULE Conversations ---------------------------
(***************************************************************************)
(* Decision conversations: a user asks about the published result of a     *)
(* task, a background worker answers.  A message is one row of jobs: the   *)
(* user's message, the Job that answers it and the replies written to it.  *)
(*                                                                         *)
(* The worker answers over several transactions with calls of a model in   *)
(* between.  The next poll returns a RUNNING job to the queue when it is   *)
(* older than conversation_job_stale_seconds: it cannot tell a dead worker *)
(* from a slow one, so that two workers (a restart that overlaps with the  *)
(* old process) may answer the same message.  The task is the              *)
(* specification PublishedDecision; every step that withdraws its result   *)
(* supersedes its conversations in the same transaction.                   *)
(***************************************************************************)
EXTENDS Integers, FiniteSets

CONSTANTS
  Workers,          \* worker processes
  MaxRevision,      \* bound: revisions of the task
  MaxResults,       \* bound: results published one after the other
  MaxConversations, \* bound: conversations
  MaxJobs,          \* bound: messages
  MaxAttempts,      \* the attempts of a job (3)
  ModelCalls,       \* max_attempts of the conversation model (2)
  AgentCalls,       \* the model calls of one investigation
  MaxCrashes        \* bound: crashes of workers

ASSUME BoundsAssumption ==
  /\ MaxRevision \in Nat /\ MaxRevision >= 1
  /\ MaxResults \in Nat /\ MaxConversations \in Nat /\ MaxJobs \in Nat
  /\ MaxAttempts \in Nat \ {0}
  /\ ModelCalls \in Nat \ {0}
  /\ AgentCalls \in Nat
  /\ MaxCrashes \in Nat

Ids  == 1 .. MaxConversations
Jobs == 1 .. MaxJobs

VARIABLES
  revision, result, retired, closed, \* the task: see PublishedDecision
  conversations, \* DecisionConversation rows
  jobs,          \* messages with their Job and its replies
  workers,       \* the worker processes
  crashes        \* how many have crashed

task == <<revision, result, retired, closed>>
vars == <<task, conversations, jobs, workers, crashes>>

Task == INSTANCE PublishedDecision

-----------------------------------------------------------------------------
(* The rows.                                                               *)

LiveStatuses == {"PENDING", "RUNNING"}

AbsentConversation == [status |-> "ABSENT", rev |-> 0, result |-> 0]
Conversation == [status : {"ABSENT", "ACTIVE", "STALE"}, rev : Nat, result : Nat]

\* overdue: started_at is older than the cutoff of the next poll.  answers
\* counts the SUCCEEDED replies, verdict is the first reply, which ends the
\* event stream of the message.
AbsentJob == [conversation |-> 0, status |-> "ABSENT", attempts |-> 0,
              overdue |-> FALSE, answers |-> 0, verdict |-> "none"]
Job == [conversation : Nat,
        status : {"ABSENT", "PENDING", "RUNNING", "SUCCEEDED", "FAILED",
                  "SUPERSEDED"},
        attempts : 0 .. MaxAttempts, overdue : BOOLEAN, answers : Nat,
        verdict : {"none", "answered", "failed"}]

\* The stage a worker is in; "failing" is on its way to fail_conversation_job.
Stages == {"idle", "polled", "intent", "investigation", "narration", "repair",
           "persist", "failing"}

\* narrated counts the calls of the narration alone; frozen is the result the
\* investigation looks at.
Idle == [at |-> "idle", job |-> 0, calls |-> 0, narrated |-> 0,
         investigated |-> FALSE, frozen |-> 0]
Worker == [at : Stages, job : Nat, calls : Nat, narrated : Nat,
           investigated : BOOLEAN, frozen : Nat]

TypeOK ==
  /\ revision \in Nat /\ result \in Nat /\ retired \in Nat /\ closed \in BOOLEAN
  /\ conversations \in [Ids -> Conversation]
  /\ jobs \in [Jobs -> Job]
  /\ workers \in [Workers -> Worker]
  /\ crashes \in 0 .. MaxCrashes
  /\ \A j \in Jobs : jobs[j].status # "ABSENT" => jobs[j].conversation \in Ids
  /\ \A w \in Workers : workers[w].at # "idle" => workers[w].job \in Jobs

Init ==
  /\ Task!Init
  /\ conversations = [c \in Ids |-> AbsentConversation]
  /\ jobs = [j \in Jobs |-> AbsentJob]
  /\ workers = [w \in Workers |-> Idle]
  /\ crashes = 0

-----------------------------------------------------------------------------
(* The task, and what it supersedes.                                       *)

SupersededJobs ==
  [j \in Jobs |->
     IF /\ jobs[j].status \in LiveStatuses
        /\ conversations[jobs[j].conversation].status = "ACTIVE"
     THEN [jobs[j] EXCEPT !.status = "SUPERSEDED"]
     ELSE jobs[j]]

StaleConversations ==
  [c \in Ids |-> IF conversations[c].status = "ACTIVE"
                 THEN [conversations[c] EXCEPT !.status = "STALE"]
                 ELSE conversations[c]]

\* _supersede_current_graph, as far as it concerns conversations.
Supersede == /\ conversations' = StaleConversations
             /\ jobs' = SupersededJobs
             /\ UNCHANGED <<workers, crashes>>

Withdrawn == IF result # 0 THEN result ELSE retired

ChangeInputs    == revision < MaxRevision /\ Task!Revise(Withdrawn) /\ Supersede
StartCompliance == result # 0 /\ Task!Restart(Withdrawn) /\ Supersede
AbandonTask     == revision < MaxRevision /\ Task!Abandon(Withdrawn) /\ Supersede

PublishResult ==
  /\ retired < MaxResults
  /\ Task!Publish(retired + 1)
  /\ UNCHANGED <<conversations, jobs, workers, crashes>>

-----------------------------------------------------------------------------
(* The handlers of a conversation.                                         *)

IsCurrent(c) == /\ conversations[c].status = "ACTIVE"
                /\ conversations[c].rev = revision
                /\ conversations[c].result = result

CreateConversation(c) ==
  /\ ~closed
  /\ result # 0
  /\ conversations[c].status = "ABSENT"
  /\ \A d \in Ids : d < c => conversations[d].status # "ABSENT"
  /\ conversations' = [conversations EXCEPT ![c] =
       [status |-> "ACTIVE", rev |-> revision, result |-> result]]
  /\ UNCHANGED <<task, jobs, workers, crashes>>

\* Mutant: only a running turn is in progress.
BugQueuedIsFree(c) ==
  \A j \in Jobs : jobs[j].conversation = c => jobs[j].status # "RUNNING"

NoTurnInProgress(c) ==
  \A j \in Jobs : jobs[j].conversation = c => jobs[j].status \notin LiveStatuses

\* A refused message writes nothing: the STALE mark it puts on the
\* conversation is rolled back by the exception that reports it.
SendMessage(c, j) ==
  /\ ~closed
  /\ IsCurrent(c)
  /\ NoTurnInProgress(c)
  /\ jobs[j].status = "ABSENT"
  /\ \A k \in Jobs : k < j => jobs[k].status # "ABSENT"
  /\ jobs' = [jobs EXCEPT ![j] = [AbsentJob EXCEPT !.conversation = c,
                                                   !.status = "PENDING"]]
  /\ UNCHANGED <<task, conversations, workers, crashes>>

-----------------------------------------------------------------------------
(* The replies.                                                            *)

\* A SUCCEEDED reply.
Answered(row) ==
  [row EXCEPT !.status = "SUCCEEDED", !.answers = @ + 1,
              !.verdict = IF @ = "none" THEN "answered" ELSE @]

\* A FAILED reply.
Refused(row) ==
  [row EXCEPT !.status = "FAILED",
              !.verdict = IF @ = "none" THEN "failed" ELSE @]

TimePasses(j) ==
  /\ jobs[j].status = "RUNNING"
  /\ ~jobs[j].overdue
  /\ jobs' = [jobs EXCEPT ![j].overdue = TRUE]
  /\ UNCHANGED <<task, conversations, workers, crashes>>

-----------------------------------------------------------------------------
(* The worker loop.                                                        *)

IsOverdue(j) == jobs[j].status = "RUNNING" /\ jobs[j].overdue

\* Mutant: a job that has used its attempts is queued once more.
BugQueuesAgain(j) ==
  LET row == jobs[j]
  IN  IF ~IsOverdue(j) THEN row
      ELSE IF ~IsCurrent(row.conversation)
      THEN [row EXCEPT !.status = "SUPERSEDED"]
      ELSE [row EXCEPT !.status = "PENDING", !.overdue = FALSE]

\* What the poll makes of job j: an overdue one is superseded, queued again,
\* or failed with a reply when its attempts are used up.
Recovered(j) ==
  LET row == jobs[j]
  IN  IF ~IsOverdue(j) THEN row
      ELSE IF ~IsCurrent(row.conversation)
      THEN [row EXCEPT !.status = "SUPERSEDED"]
      ELSE IF row.attempts < MaxAttempts
      THEN [row EXCEPT !.status = "PENDING", !.overdue = FALSE]
      ELSE Refused(row)

\* next_pending_job_id: recover, then take the oldest pending job.
Poll(w) ==
  LET recovered == [j \in Jobs |-> Recovered(j)]
      pending   == {j \in Jobs : recovered[j].status = "PENDING"}
  IN  /\ workers[w].at = "idle"
      /\ pending # {} \/ recovered # jobs
      /\ jobs' = recovered
      /\ conversations' = [c \in Ids |->
           IF \E j \in Jobs : /\ IsOverdue(j) /\ jobs[j].conversation = c
                              /\ ~IsCurrent(c)
           THEN [conversations[c] EXCEPT !.status = "STALE"]
           ELSE conversations[c]]
      /\ \/ pending = {} /\ UNCHANGED workers
         \/ \E j \in pending :
              /\ \A k \in pending : j <= k
              /\ workers' = [workers EXCEPT ![w] =
                               [Idle EXCEPT !.at = "polled", !.job = j]]
      /\ UNCHANGED <<task, crashes>>

Claimable(w) ==
  LET j == workers[w].job
  IN  /\ jobs[j].status = "PENDING"
      /\ IsCurrent(jobs[j].conversation)
      /\ jobs[j].attempts < MaxAttempts

\* conversation_job_context: the claim, and the frozen facts of the turn.
Claim(w) ==
  /\ workers[w].at = "polled"
  /\ Claimable(w)
  /\ jobs' = [jobs EXCEPT ![workers[w].job] =
                [jobs[workers[w].job] EXCEPT !.status = "RUNNING", !.attempts = @ + 1,
                                             !.overdue = FALSE]]
  /\ workers' = [workers EXCEPT ![w].at = "intent"]
  /\ UNCHANGED <<task, conversations, crashes>>

\* A refused claim raises outside the try block: what it wrote is rolled back
\* and no reply is written.
ClaimRefused(w) ==
  /\ workers[w].at = "polled"
  /\ ~Claimable(w)
  /\ workers' = [workers EXCEPT ![w] = Idle]
  /\ UNCHANGED <<task, conversations, jobs, crashes>>

-----------------------------------------------------------------------------
(* One turn.                                                               *)

\* The worker goes to a stage, having made n more calls of the model.
Goes(w, stage, n) ==
  /\ workers' = [workers EXCEPT ![w] = [workers[w] EXCEPT !.at = stage, !.calls = @ + n]]
  /\ UNCHANGED <<task, conversations, jobs, crashes>>

\* The route is found without the model, or with one call of it: a change, a
\* clarification and a refusal are saved as they are, an explanation has a
\* fixed form or is narrated.  A missing model configuration and an invalid
\* answer fail the turn.
RouteIntent(w, n, stage) ==
  /\ workers[w].at = "intent"
  /\ n \in 0 .. 1
  /\ stage \in {"persist", "narration", "failing"}
  /\ Goes(w, stage, n)

\* The route asks for an investigation: its inputs are frozen if the task is
\* still at the revision of the job and has a result.
StartInvestigation(w, n) ==
  LET c == jobs[workers[w].job].conversation
  IN  /\ workers[w].at = "intent"
      /\ n \in 0 .. 1
      /\ IF revision = conversations[c].rev /\ result # 0
         THEN workers' = [workers EXCEPT ![w] =
                [workers[w] EXCEPT !.at = "investigation", !.calls = @ + n,
                                   !.frozen = result]]
         ELSE workers' = [workers EXCEPT ![w] =
                [workers[w] EXCEPT !.at = "failing", !.calls = @ + n]]
      /\ UNCHANGED <<task, conversations, jobs, crashes>>

\* The agent has stopped after n calls: with a decision brief the answer has a
\* fixed form, without one it is narrated; a result that has changed meanwhile,
\* and any error of the tools, fail the turn.
Investigate(w, n, stage) ==
  /\ workers[w].at = "investigation"
  /\ n \in 0 .. AgentCalls
  /\ stage \in {"persist", "narration", "failing"}
  /\ stage # "failing" => result = workers[w].frozen
  /\ workers' = [workers EXCEPT ![w] =
       [workers[w] EXCEPT !.at = stage, !.calls = @ + n,
                          !.investigated = stage # "failing"]]
  /\ UNCHANGED <<task, conversations, jobs, crashes>>

\* An answer that cannot be repaired: an investigation has a deterministic
\* fallback, which may itself be invalid.
AfterInvalid(w, stage) ==
  stage = "failing" \/ (stage = "persist" /\ workers[w].investigated)

Narrates(w, n, stage) ==
  /\ workers' = [workers EXCEPT ![w] =
       [workers[w] EXCEPT !.at = stage, !.calls = @ + n, !.narrated = @ + n]]
  /\ UNCHANGED <<task, conversations, jobs, crashes>>

\* n transport attempts; an invalid answer is repaired while calls are left.
\* An answer that changes the classified intent, or omits the record of the
\* investigation, fails the turn.
Narrate(w, n, stage) ==
  /\ workers[w].at = "narration"
  /\ n \in 1 .. ModelCalls
  /\ \/ stage \in {"persist", "failing"}
     \/ stage = "repair" /\ n < ModelCalls
     \/ n = ModelCalls /\ AfterInvalid(w, stage)
  /\ Narrates(w, n, stage)

\* Mutant: the repair may use all the calls of the configuration again.
BugFreshCalls(w) == 1 .. ModelCalls

RepairCalls(w) == 1 .. (ModelCalls - workers[w].narrated)

\* The repaired answer is valid, or invalid, or the model is not reached.
Repair(w, n, stage) ==
  /\ workers[w].at = "repair"
  /\ n \in RepairCalls(w)
  /\ stage = "persist" \/ AfterInvalid(w, stage)
  /\ Narrates(w, n, stage)

\* Mutant: the job may have any status when the answer is saved.
BugSavesAnyJob(w) == IsCurrent(jobs[workers[w].job].conversation)

\* Whoever claimed the job, and whichever attempt it is in.
Savable(w) == /\ jobs[workers[w].job].status = "RUNNING"
              /\ IsCurrent(jobs[workers[w].job].conversation)

\* complete_conversation_job: the answer is validated once more and saved.
Complete(w) ==
  /\ workers[w].at = "persist"
  /\ Savable(w)
  /\ jobs' = [jobs EXCEPT ![workers[w].job] = Answered(@)]
  /\ workers' = [workers EXCEPT ![w] = Idle]
  /\ UNCHANGED <<task, conversations, crashes>>

\* The answer is refused (stale, or invalid against the facts as they are
\* now); the SUPERSEDED and STALE marks of the refusal are rolled back.
CompleteRefused(w) == workers[w].at = "persist" /\ Goes(w, "failing", 0)

\* fail_conversation_job looks at no status.
Fail(w) ==
  /\ workers[w].at = "failing"
  /\ jobs' = [jobs EXCEPT ![workers[w].job] = Refused(@)]
  /\ workers' = [workers EXCEPT ![w] = Idle]
  /\ UNCHANGED <<task, conversations, crashes>>

Crash(w) ==
  /\ crashes < MaxCrashes
  /\ workers[w].at # "idle"
  /\ workers' = [workers EXCEPT ![w] = Idle]
  /\ crashes' = crashes + 1
  /\ UNCHANGED <<task, conversations, jobs>>

-----------------------------------------------------------------------------

UserStep ==
  \/ ChangeInputs \/ StartCompliance \/ AbandonTask \/ PublishResult
  \/ \E c \in Ids : \/ CreateConversation(c)
                    \/ \E j \in Jobs : SendMessage(c, j)

WorkerStep(w) ==
  \/ Poll(w) \/ Claim(w) \/ ClaimRefused(w)
  \/ \E n \in 0 .. 1 :
       \/ \E stage \in Stages : RouteIntent(w, n, stage)
       \/ StartInvestigation(w, n)
  \/ \E n \in 0 .. AgentCalls, stage \in Stages : Investigate(w, n, stage)
  \/ \E n \in 1 .. ModelCalls, stage \in Stages : \/ Narrate(w, n, stage)
                                                  \/ Repair(w, n, stage)
  \/ Complete(w) \/ CompleteRefused(w) \/ Fail(w)

Next == \/ UserStep
        \/ \E w \in Workers : WorkerStep(w) \/ Crash(w)
        \/ \E j \in Jobs : TimePasses(j)

Spec == Init /\ [][Next]_vars

\* The worker loop goes on (its calls have timeouts) and time passes; users
\* owe nothing.
FairSpec == /\ Spec
            /\ \A w \in Workers : WF_vars(WorkerStep(w))
            /\ \A j \in Jobs : WF_vars(TimePasses(j))

-----------------------------------------------------------------------------
(* Properties.                                                             *)

\* A message is answered at most once, and never after the user was told that
\* it failed (the event stream of api.py ends with the first reply), although
\* complete_conversation_job does not know which attempt it completes.
FirstReplyStands ==
  \A j \in Jobs : /\ jobs[j].answers <= 1
                  /\ jobs[j].verdict = "failed" => jobs[j].answers = 0

\* The turns of a conversation do not overlap: a later message is accepted
\* only when every earlier one has its reply, so that the history given to the
\* model is complete.
EveryTurnIsClosed ==
  \A j, k \in Jobs :
    /\ j < k
    /\ jobs[k].conversation = jobs[j].conversation
    /\ jobs[k].status # "ABSENT"
    => jobs[j].verdict # "none"

\* The calls of a turn: one for the route, those of one investigation, and the
\* narration with its repair within one allowance.
CallsWithinBudget ==
  \A w \in Workers :
    workers[w].calls <=
      1 + ModelCalls + IF workers[w].frozen # 0 THEN AgentCalls ELSE 0

\* A message gets its reply, or its conversation became stale, whichever
\* worker dies in the middle of the turn.
AnsweredOrStale ==
  \A j \in Jobs :
    jobs[j].status # "ABSENT" ~>
      jobs[j].verdict # "none" \/ jobs[j].status = "SUPERSEDED"
=============================================================================
