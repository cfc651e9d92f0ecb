------------------------ MODULE ConversationsProofs ------------------------
(***************************************************************************)
(* A message is answered at most once and its first reply stands, the      *)
(* turns of a conversation do not overlap, and the calls of a turn stay    *)
(* within its allowance: for any number of workers that may answer the     *)
(* same message, of crashes, attempts and revisions.                       *)
(*                                                                         *)
(* The argument: whatever a late worker does, a message that has a reply   *)
(* never returns to the queue, and only a running message is answered; a   *)
(* superseded one has no reply, but its conversation is stale for good and *)
(* takes no other.  A call is counted where it is reserved, in the row of  *)
(* the turn, before it is made.                                            *)
(***************************************************************************)
EXTENDS Conversations, TLAPS

\* The status of a message tells whether it has a reply.
StatusTellsReply ==
  \A j \in Jobs :
    /\ jobs[j].verdict = "none" => jobs[j].answers = 0
    /\ jobs[j].status \in LiveStatuses \cup {"ABSENT"} => jobs[j].verdict = "none"
    /\ jobs[j].status \in {"SUCCEEDED", "FAILED"} => jobs[j].verdict # "none"

\* Messages are superseded together with their conversation.
SupersededIsStale ==
  \A j \in Jobs : jobs[j].status = "SUPERSEDED" =>
                    conversations[jobs[j].conversation].status = "STALE"

SentInOrder ==
  \A j, k \in Jobs : j < k /\ jobs[k].status # "ABSENT" => jobs[j].status # "ABSENT"

WorkersHoldMessages ==
  \A w \in Workers : workers[w].at # "idle" => jobs[workers[w].job].status # "ABSENT"

ReplyInv == /\ TypeOK
            /\ StatusTellsReply
            /\ SupersededIsStale
            /\ SentInOrder
            /\ WorkersHoldMessages
            /\ FirstReplyStands
            /\ EveryTurnIsClosed

-----------------------------------------------------------------------------
(* Types.                                                                  *)

LEMMA EmptyRows ==
  /\ AbsentConversation \in Conversation /\ AbsentConversation.status = "ABSENT"
  /\ AbsentJob \in Job /\ AbsentJob.status = "ABSENT"
  /\ Idle \in Worker /\ Idle.at = "idle"
  <1>1. AbsentConversation \in Conversation /\ AbsentConversation.status = "ABSENT"
    BY DEF AbsentConversation, Conversation
  <1>2. AbsentJob \in Job /\ AbsentJob.status = "ABSENT"
    BY BoundsAssumption DEF AbsentJob, Job
  <1>3. Idle \in Worker /\ Idle.at = "idle"
    BY DEF Idle, Worker, Stages
  <1> QED BY <1>1, <1>2, <1>3

LEMMA TypeInit == Init => TypeOK
  <1> SUFFICES ASSUME Init PROVE TypeOK
    OBVIOUS
  <1>1. revision \in Nat /\ result \in Nat /\ retired \in Nat /\ closed \in BOOLEAN
    BY DEF Init, Task!Init
  <1> QED BY <1>1, EmptyRows, BoundsAssumption DEF Init, TypeOK

\* What supersedes the conversations of the task.
LEMMA SupersedeType ==
  ASSUME TypeOK, Supersede,
         revision' \in Nat, result' \in Nat, retired' \in Nat, closed' \in BOOLEAN
  PROVE  TypeOK'
  <1>1. jobs' \in [Jobs -> Job] /\ \A j \in Jobs : jobs'[j].conversation = jobs[j].conversation
                                      /\ (jobs'[j].status # "ABSENT" => jobs[j].status # "ABSENT")
    BY DEF TypeOK, Supersede, SupersededJobs, Job, LiveStatuses
  <1>2. conversations' \in [Ids -> Conversation]
    BY DEF TypeOK, Supersede, StaleConversations, Conversation
  <1> QED BY <1>1, <1>2 DEF TypeOK, Supersede

LEMMA TaskType ==
  ASSUME TypeOK, ChangeInputs \/ StartCompliance \/ AbandonTask \/ PublishResult
  PROVE  TypeOK'
  <1>1. CASE ChangeInputs
    BY <1>1, SupersedeType
    DEF ChangeInputs, Withdrawn, TypeOK, Task!Revise, Task!Retire
  <1>2. CASE StartCompliance
    BY <1>2, SupersedeType
    DEF StartCompliance, Withdrawn, TypeOK, Task!Restart, Task!Retire
  <1>3. CASE AbandonTask
    BY <1>3, SupersedeType
    DEF AbandonTask, Withdrawn, TypeOK, Task!Abandon, Task!Retire
  <1>4. CASE PublishResult
    BY <1>4 DEF PublishResult, TypeOK, Task!Publish
  <1> QED BY <1>1, <1>2, <1>3, <1>4

LEMMA RowTypes ==
  ASSUME NEW row \in Job
  PROVE  /\ Refused(row) \in Job /\ Refused(row).conversation = row.conversation
         /\ Answered(row) \in Job /\ Answered(row).conversation = row.conversation
         /\ [row EXCEPT !.status = "SUPERSEDED"] \in Job
         /\ [row EXCEPT !.status = "PENDING", !.overdue = FALSE] \in Job
         /\ [row EXCEPT !.overdue = TRUE] \in Job
  <1>1. Refused(row) \in Job /\ Refused(row).conversation = row.conversation
    BY DEF Job, Refused
  <1>2. row.answers + 1 \in Nat
    BY DEF Job
  <1>3. Answered(row) \in Job /\ Answered(row).conversation = row.conversation
    BY <1>2 DEF Job, Answered
  <1>4. [row EXCEPT !.status = "SUPERSEDED"] \in Job
    BY DEF Job
  <1>5. [row EXCEPT !.status = "PENDING", !.overdue = FALSE] \in Job
    BY DEF Job
  <1>6. [row EXCEPT !.overdue = TRUE] \in Job
    BY DEF Job
  <1> QED BY <1>1, <1>3, <1>4, <1>5, <1>6

LEMMA RecoveredType ==
  ASSUME TypeOK, NEW j \in Jobs
  PROVE  /\ Recovered(j) \in Job
         /\ Recovered(j).conversation = jobs[j].conversation
         /\ Recovered(j).status # "ABSENT" => jobs[j].status # "ABSENT"
  <1>1. jobs[j] \in Job
    BY DEF TypeOK
  <1>2. CASE Recovered(j) = jobs[j]
    BY <1>1, <1>2
  <1>3. CASE Recovered(j) # jobs[j]
    <2>1. jobs[j].status = "RUNNING"
      BY <1>3 DEF Recovered, IsOverdue
    <2>2. \/ Recovered(j) = [jobs[j] EXCEPT !.status = "SUPERSEDED"]
          \/ Recovered(j) = [jobs[j] EXCEPT !.status = "PENDING", !.overdue = FALSE]
          \/ Recovered(j) = Refused(jobs[j])
      BY <1>3 DEF Recovered
    <2>3. [jobs[j] EXCEPT !.status = "SUPERSEDED"].conversation = jobs[j].conversation
      BY <1>1 DEF Job
    <2>4. [jobs[j] EXCEPT !.status = "PENDING", !.overdue = FALSE].conversation
            = jobs[j].conversation
      BY <1>1 DEF Job
    <2> QED BY <1>1, <2>1, <2>2, <2>3, <2>4, RowTypes
  <1> QED BY <1>2, <1>3

LEMMA PollType ==
  ASSUME TypeOK, NEW w \in Workers, Poll(w)
  PROVE  TypeOK'
  <1>1. /\ jobs' \in [Jobs -> Job]
        /\ \A j \in Jobs : jobs'[j].conversation = jobs[j].conversation
                            /\ (jobs'[j].status # "ABSENT" => jobs[j].status # "ABSENT")
    BY RecoveredType DEF Poll
  <1>2. conversations' \in [Ids -> Conversation]
    BY DEF Poll, TypeOK, Conversation
  <1>3. /\ workers' \in [Workers -> Worker]
        /\ \A v \in Workers : workers'[v].at # "idle" => workers'[v].job \in Jobs
    <2>1. CASE UNCHANGED workers
      BY <2>1 DEF TypeOK
    <2>2. CASE \E j \in Jobs : workers' = [workers EXCEPT ![w] =
                               [Idle EXCEPT !.at = "polled", !.job = j]]
      <3>1. PICK j \in Jobs : workers' = [workers EXCEPT ![w] =
                               [Idle EXCEPT !.at = "polled", !.job = j]]
        BY <2>2
      <3>2. [Idle EXCEPT !.at = "polled", !.job = j] \in Worker
        <4>1. "polled" \in Stages /\ j \in Nat
          BY BoundsAssumption DEF Stages, Jobs
        <4> QED BY <4>1, EmptyRows DEF Worker
      <3> QED BY <3>1, <3>2 DEF TypeOK, Idle
    <2> QED BY <2>1, <2>2 DEF Poll
  <1> QED BY <1>1, <1>2, <1>3 DEF TypeOK, Poll, task

\* A worker that goes on with its turn.
LEMMA TurnType ==
  ASSUME TypeOK, UNCHANGED <<task, conversations, jobs, crashes>>,
         NEW w \in Workers, workers[w].at # "idle", NEW next,
         workers' = [workers EXCEPT ![w] = next],
         next \in Worker, next.job = workers[w].job
  PROVE  TypeOK'
  BY DEF TypeOK, task

\* The next stage of a turn, n calls later.
LEMMA StageType ==
  ASSUME NEW row \in Worker, NEW stage \in Stages
  PROVE  /\ [row EXCEPT !.at = stage] \in Worker
         /\ [row EXCEPT !.at = stage].job = row.job
  BY DEF Worker

LEMMA CallsType ==
  ASSUME NEW row \in Worker, NEW stage \in Stages, NEW n \in Nat
  PROVE  /\ [row EXCEPT !.at = stage, !.calls = @ + n] \in Worker
         /\ [row EXCEPT !.at = stage, !.calls = @ + n].job = row.job
  <1>1. row.calls + n \in Nat
    BY DEF Worker
  <1> QED BY <1>1 DEF Worker

LEMMA NarratedType ==
  ASSUME NEW row \in Worker, NEW stage \in Stages, NEW n \in Nat
  PROVE  /\ [row EXCEPT !.at = stage, !.calls = @ + n, !.narrated = @ + n] \in Worker
         /\ [row EXCEPT !.at = stage, !.calls = @ + n, !.narrated = @ + n].job = row.job
  <1>1. row.calls + n \in Nat /\ row.narrated + n \in Nat
    BY DEF Worker
  <1> QED BY <1>1 DEF Worker

LEMMA WorkerType ==
  ASSUME TypeOK, WorkersHoldMessages, NEW w \in Workers, WorkerStep(w) \/ Crash(w)
  PROVE  TypeOK'
  <1>0. /\ workers[w] \in Worker
        /\ workers[w].at # "idle" => workers[w].job \in Jobs /\ jobs[workers[w].job] \in Job
    BY DEF TypeOK
  <1>n. /\ 0 .. 1 \subseteq Nat /\ 0 .. AgentCalls \subseteq Nat /\ 1 .. ModelCalls \subseteq Nat
        /\ {"persist", "investigation", "failing", "intent"} \subseteq Stages
    BY DEF Stages
  <1>1. CASE Poll(w)
    BY <1>1, PollType
  <1>2. CASE Claim(w)
    <2> DEFINE j == workers[w].job
    <2> DEFINE claimed == [jobs[j] EXCEPT !.status = "RUNNING", !.attempts = @ + 1,
                                          !.overdue = FALSE]
    <2>1. j \in Jobs /\ jobs[j] \in Job /\ jobs[j].status = "PENDING"
      BY <1>0, <1>2 DEF Claim, Claimable
    <2>2. jobs[j].attempts + 1 \in 0 .. MaxAttempts
      BY <2>1, <1>2, BoundsAssumption DEF Claim, Claimable, Job
    <2>3. claimed \in Job /\ claimed.conversation = jobs[j].conversation
      BY <2>1, <2>2 DEF Job
    <2>4. jobs' = [jobs EXCEPT ![j] = claimed]
      BY <1>2 DEF Claim
    <2> HIDE DEF claimed
    <2>5. jobs' \in [Jobs -> Job]
          /\ \A k \in Jobs : jobs'[k].status # "ABSENT" => jobs'[k].conversation \in Ids
      BY <2>1, <2>3, <2>4 DEF TypeOK
    <2>6. workers' \in [Workers -> Worker]
          /\ \A v \in Workers : workers'[v].at # "idle" => workers'[v].job \in Jobs
      <3>1. workers' = [workers EXCEPT ![w] = [workers[w] EXCEPT !.at = "intent"]]
        BY <1>0, <1>2 DEF Claim, TypeOK
      <3>2. /\ [workers[w] EXCEPT !.at = "intent"] \in Worker
            /\ [workers[w] EXCEPT !.at = "intent"].job = workers[w].job
        BY <1>0, <1>n, StageType
      <3> QED BY <2>1, <3>1, <3>2 DEF TypeOK
    <2> QED BY <1>2, <2>5, <2>6 DEF TypeOK, Claim, task
  <1>3. CASE ClaimRefused(w) \/ Crash(w)
    BY EmptyRows, <1>3, BoundsAssumption DEF ClaimRefused, Crash, TypeOK, task
  <1>4. CASE \E n \in 0 .. 1, stage \in Stages : RouteIntent(w, n, stage)
    <2>1. PICK n \in 0 .. 1, stage \in Stages : RouteIntent(w, n, stage)
      BY <1>4
    <2> DEFINE next == [workers[w] EXCEPT !.at = stage, !.calls = @ + n]
    <2>2. next \in Worker /\ next.job = workers[w].job
      BY <1>0, <1>n, CallsType
    <2>3. /\ workers[w].at # "idle" /\ workers' = [workers EXCEPT ![w] = next]
          /\ UNCHANGED <<task, conversations, jobs, crashes>>
      BY <2>1 DEF RouteIntent, Goes
    <2> HIDE DEF next
    <2> QED BY <2>2, <2>3, TurnType
  <1>5. CASE \E n \in 0 .. 1 : StartInvestigation(w, n)
    <2>1. PICK n \in 0 .. 1 : StartInvestigation(w, n)
      BY <1>5
    <2> DEFINE on  == [workers[w] EXCEPT !.at = "investigation", !.calls = @ + n,
                                         !.frozen = result]
               off == [workers[w] EXCEPT !.at = "failing", !.calls = @ + n]
    <2>2. on \in Worker /\ on.job = workers[w].job
      <3>1. /\ result \in Nat /\ "investigation" \in Stages
            /\ workers[w].calls + n \in Nat
        BY <1>0, <1>n DEF TypeOK, Worker
      <3> QED BY <1>0, <3>1 DEF Worker
    <2>3. off \in Worker /\ off.job = workers[w].job
      BY <1>0, <1>n, CallsType
    <2>4. /\ workers[w].at # "idle"
          /\ workers' = [workers EXCEPT ![w] = on] \/ workers' = [workers EXCEPT ![w] = off]
          /\ UNCHANGED <<task, conversations, jobs, crashes>>
      BY <2>1 DEF StartInvestigation
    <2> HIDE DEF on, off
    <2> QED BY <2>2, <2>3, <2>4, TurnType
  <1>6. CASE \E n \in 0 .. AgentCalls, stage \in Stages : Investigate(w, n, stage)
    <2>1. PICK n \in 0 .. AgentCalls, stage \in Stages : Investigate(w, n, stage)
      BY <1>6
    <2> DEFINE next == [workers[w] EXCEPT !.at = stage, !.calls = @ + n,
                                          !.investigated = (stage # "failing")]
    <2>2. next \in Worker /\ next.job = workers[w].job
      <3>1. (stage # "failing") \in BOOLEAN /\ workers[w].calls + n \in Nat
        BY <1>0, <1>n DEF Worker
      <3> QED BY <1>0, <3>1 DEF Worker
    <2>3. /\ workers[w].at # "idle" /\ workers' = [workers EXCEPT ![w] = next]
          /\ UNCHANGED <<task, conversations, jobs, crashes>>
      BY <2>1 DEF Investigate
    <2> HIDE DEF next
    <2> QED BY <2>2, <2>3, TurnType
  <1>7. CASE \E n \in 1 .. ModelCalls, stage \in Stages :
               Narrate(w, n, stage) \/ Repair(w, n, stage)
    <2>1. PICK n \in 1 .. ModelCalls, stage \in Stages : Narrate(w, n, stage) \/ Repair(w, n, stage)
      BY <1>7
    <2> DEFINE next == [workers[w] EXCEPT !.at = stage, !.calls = @ + n, !.narrated = @ + n]
    <2>2. next \in Worker /\ next.job = workers[w].job
      BY <1>0, <1>n, NarratedType
    <2>3. /\ workers[w].at # "idle" /\ workers' = [workers EXCEPT ![w] = next]
          /\ UNCHANGED <<task, conversations, jobs, crashes>>
      BY <2>1 DEF Narrate, Repair, Narrates
    <2> HIDE DEF next
    <2> QED BY <2>2, <2>3, TurnType
  <1>8. CASE Complete(w) \/ Fail(w)
    <2> DEFINE j == workers[w].job
    <2>1. j \in Jobs /\ jobs[j] \in Job
      BY <1>0, <1>8 DEF Complete, Fail
    <2>2. PICK row \in Job : /\ row.conversation = jobs[j].conversation
                             /\ jobs' = [jobs EXCEPT ![j] = row]
      BY <1>8, <2>1, RowTypes DEF Complete, Fail
    <2>3. jobs[j].status # "ABSENT"
      BY <1>8 DEF WorkersHoldMessages, Complete, Fail
    <2> QED BY EmptyRows, <1>8, <2>1, <2>2, <2>3 DEF TypeOK, Complete, Fail, task
  <1>9. CASE CompleteRefused(w)
    <2> DEFINE next == [workers[w] EXCEPT !.at = "failing", !.calls = @ + 0]
    <2>2. next \in Worker /\ next.job = workers[w].job
      BY <1>0, <1>n, CallsType
    <2>3. /\ workers[w].at # "idle" /\ workers' = [workers EXCEPT ![w] = next]
          /\ UNCHANGED <<task, conversations, jobs, crashes>>
      BY <1>9 DEF CompleteRefused, Goes
    <2> HIDE DEF next
    <2> QED BY <2>2, <2>3, TurnType
  <1> QED
    BY <1>1, <1>2, <1>3, <1>4, <1>5, <1>6, <1>7, <1>8, <1>9 DEF WorkerStep

LEMMA UserType ==
  ASSUME TypeOK, NEW c \in Ids,
         CreateConversation(c) \/ \E j \in Jobs : SendMessage(c, j)
  PROVE  TypeOK'
  <1>1. CASE CreateConversation(c)
    <2>1. [status |-> "ACTIVE", rev |-> revision, result |-> result] \in Conversation
      BY DEF TypeOK, Conversation
    <2> QED BY <1>1, <2>1 DEF TypeOK, CreateConversation, task
  <1>2. CASE \E j \in Jobs : SendMessage(c, j)
    <2>1. PICK j \in Jobs : SendMessage(c, j)
      BY <1>2
    <2> DEFINE row == [AbsentJob EXCEPT !.conversation = c, !.status = "PENDING"]
    <2>2. c \in Nat
      BY BoundsAssumption DEF Ids
    <2>3. row \in Job /\ row.conversation = c
      BY <2>2, EmptyRows DEF Job
    <2>4. jobs' = [jobs EXCEPT ![j] = row]
      BY <2>1 DEF SendMessage
    <2> HIDE DEF row
    <2> QED BY <2>1, <2>3, <2>4 DEF TypeOK, SendMessage, task
  <1> QED BY <1>1, <1>2

LEMMA TimeType ==
  ASSUME TypeOK, NEW j \in Jobs, TimePasses(j)
  PROVE  TypeOK'
  <1>1. jobs[j] \in Job
    BY DEF TypeOK
  <1>2. PICK row \in Job : row.conversation = jobs[j].conversation /\ row.status = "RUNNING"
                           /\ jobs' = [jobs EXCEPT ![j] = row]
    <2>1. [jobs[j] EXCEPT !.overdue = TRUE] \in Job
          /\ [jobs[j] EXCEPT !.overdue = TRUE].conversation = jobs[j].conversation
          /\ [jobs[j] EXCEPT !.overdue = TRUE].status = jobs[j].status
      BY <1>1 DEF Job
    <2>2. jobs' = [jobs EXCEPT ![j] = [jobs[j] EXCEPT !.overdue = TRUE]]
      BY DEF TimePasses, TypeOK
    <2> QED BY <2>1, <2>2 DEF TimePasses
  <1> QED BY <1>2 DEF TypeOK, TimePasses, task

LEMMA TypeStep ==
  ASSUME TypeOK, WorkersHoldMessages, [Next]_vars
  PROVE  TypeOK'
  <1>1. CASE UserStep
    BY <1>1, TaskType, UserType DEF UserStep
  <1>2. CASE \E w \in Workers : WorkerStep(w) \/ Crash(w)
    BY <1>2, WorkerType
  <1>3. CASE \E j \in Jobs : TimePasses(j)
    BY <1>3, TimeType
  <1>4. CASE UNCHANGED vars
    BY <1>4 DEF TypeOK, vars, task
  <1> QED BY <1>1, <1>2, <1>3, <1>4 DEF Next

-----------------------------------------------------------------------------
(* What a step may do to a message that was sent.                          *)

Message(j) ==
  LET old == jobs[j]
      new == jobs'[j]
  IN  \/ new = old
      \/ /\ old.status \in LiveStatuses
         /\ new.status = "SUPERSEDED"
         /\ new.conversation = old.conversation
         /\ new.answers = old.answers /\ new.verdict = old.verdict
         /\ conversations'[old.conversation].status = "STALE"
      \/ /\ old.status \in LiveStatuses
         /\ new.status \in LiveStatuses
         /\ new.conversation = old.conversation
         /\ new.answers = old.answers /\ new.verdict = old.verdict
      \/ old.status = "RUNNING" /\ new = Answered(old)
      \/ old.status # "ABSENT" /\ new = Refused(old)

MessagesStep ==
  /\ \A j \in Jobs : Message(j)
  /\ \A c \in Ids : conversations[c].status = "STALE" => conversations'[c].status = "STALE"

LEMMA SupersedeMessages ==
  ASSUME TypeOK, Supersede
  PROVE  MessagesStep
  <1>1. ASSUME NEW j \in Jobs
        PROVE  Message(j)
    <2>1. jobs[j] \in Job
      BY DEF TypeOK
    <2>2. CASE /\ jobs[j].status \in LiveStatuses
               /\ conversations[jobs[j].conversation].status = "ACTIVE"
      <3>1. jobs'[j] = [jobs[j] EXCEPT !.status = "SUPERSEDED"]
        BY <2>2 DEF Supersede, SupersededJobs
      <3>2. /\ jobs'[j].status = "SUPERSEDED"
            /\ jobs'[j].conversation = jobs[j].conversation
            /\ jobs'[j].answers = jobs[j].answers /\ jobs'[j].verdict = jobs[j].verdict
        BY <2>1, <3>1 DEF Job
      <3>3. jobs[j].conversation \in Ids
        BY <2>2 DEF TypeOK, LiveStatuses
      <3>4. conversations'[jobs[j].conversation].status = "STALE"
        BY <2>2, <3>3 DEF Supersede, StaleConversations, TypeOK, Conversation
      <3> QED BY <2>2, <3>2, <3>4 DEF Message
    <2>3. CASE ~ (/\ jobs[j].status \in LiveStatuses
                  /\ conversations[jobs[j].conversation].status = "ACTIVE")
      BY <2>3 DEF Supersede, SupersededJobs, Message
    <2> QED BY <2>2, <2>3
  <1>2. \A c \in Ids : conversations[c].status = "STALE" => conversations'[c].status = "STALE"
    BY DEF Supersede, StaleConversations, TypeOK
  <1> QED BY <1>1, <1>2 DEF MessagesStep

LEMMA PollMessages ==
  ASSUME TypeOK, NEW w \in Workers, Poll(w)
  PROVE  MessagesStep
  <1>1. ASSUME NEW j \in Jobs
        PROVE  Message(j)
    <2>1. jobs[j] \in Job /\ jobs'[j] = Recovered(j)
      BY DEF TypeOK, Poll
    <2>2. CASE ~IsOverdue(j)
      BY <2>1, <2>2 DEF Recovered, Message
    <2>3. CASE IsOverdue(j) /\ ~IsCurrent(jobs[j].conversation)
      <3>1. jobs'[j] = [jobs[j] EXCEPT !.status = "SUPERSEDED"]
        BY <2>1, <2>3 DEF Recovered
      <3>2. /\ jobs'[j].status = "SUPERSEDED"
            /\ jobs'[j].conversation = jobs[j].conversation
            /\ jobs'[j].answers = jobs[j].answers /\ jobs'[j].verdict = jobs[j].verdict
        BY <2>1, <3>1 DEF Job
      <3>3. jobs[j].conversation \in Ids
        BY <2>3 DEF TypeOK, IsOverdue
      <3>4. conversations'[jobs[j].conversation].status = "STALE"
        <4>1. conversations'[jobs[j].conversation] =
                [conversations[jobs[j].conversation] EXCEPT !.status = "STALE"]
          BY <2>3, <3>3 DEF Poll
        <4>2. conversations[jobs[j].conversation] \in Conversation
          BY <3>3 DEF TypeOK
        <4> QED BY <4>1, <4>2 DEF Conversation
      <3> QED BY <2>3, <3>2, <3>4 DEF Message, LiveStatuses, IsOverdue
    <2>4. CASE IsOverdue(j) /\ IsCurrent(jobs[j].conversation) /\ jobs[j].attempts < MaxAttempts
      <3>1. jobs'[j] = [jobs[j] EXCEPT !.status = "PENDING", !.overdue = FALSE]
        BY <2>1, <2>4 DEF Recovered
      <3>2. /\ jobs'[j].status = "PENDING"
            /\ jobs'[j].conversation = jobs[j].conversation
            /\ jobs'[j].answers = jobs[j].answers /\ jobs'[j].verdict = jobs[j].verdict
        BY <2>1, <3>1 DEF Job
      <3> QED BY <2>4, <3>2 DEF Message, LiveStatuses, IsOverdue
    <2>5. CASE /\ IsOverdue(j) /\ IsCurrent(jobs[j].conversation)
               /\ ~(jobs[j].attempts < MaxAttempts)
      BY <2>1, <2>5 DEF Recovered, Message, IsOverdue
    <2> QED BY <2>2, <2>3, <2>4, <2>5
  <1>2. \A c \in Ids : conversations[c].status = "STALE" => conversations'[c].status = "STALE"
    BY DEF Poll, TypeOK, Conversation
  <1> QED BY <1>1, <1>2 DEF MessagesStep

\* Every other step changes one message or none.
LEMMA OneMessage ==
  ASSUME TypeOK, UNCHANGED conversations, NEW j \in Jobs, NEW row,
         jobs' = [jobs EXCEPT ![j] = row],
         \/ /\ jobs[j].status \in LiveStatuses /\ row.status \in LiveStatuses
            /\ row.conversation = jobs[j].conversation
            /\ row.answers = jobs[j].answers /\ row.verdict = jobs[j].verdict
         \/ jobs[j].status = "RUNNING" /\ row = Answered(jobs[j])
         \/ jobs[j].status # "ABSENT" /\ row = Refused(jobs[j])
  PROVE  MessagesStep
  BY DEF TypeOK, Message, MessagesStep

LEMMA QuietMessages ==
  ASSUME TypeOK, UNCHANGED jobs,
         \A c \in Ids : conversations[c].status = "STALE" => conversations'[c].status = "STALE"
  PROVE  MessagesStep
  BY DEF Message, MessagesStep

LEMMA StepMessages ==
  ASSUME TypeOK, WorkersHoldMessages, [Next]_vars,
         ~ \E c \in Ids, j \in Jobs : SendMessage(c, j)
  PROVE  MessagesStep
  <1>1. CASE ChangeInputs \/ StartCompliance \/ AbandonTask
    BY <1>1, SupersedeMessages DEF ChangeInputs, StartCompliance, AbandonTask
  <1>2. CASE PublishResult
    BY <1>2, QuietMessages DEF PublishResult
  <1>3. CASE \E c \in Ids : CreateConversation(c)
    BY <1>3, QuietMessages DEF CreateConversation, TypeOK
  <1>4. ASSUME NEW w \in Workers, WorkerStep(w) \/ Crash(w)
        PROVE  MessagesStep
    <2>1. CASE Poll(w)
      BY <2>1, PollMessages
    <2>2. CASE Claim(w)
      <3> DEFINE j == workers[w].job
                 row == [jobs[j] EXCEPT !.status = "RUNNING", !.attempts = @ + 1,
                                        !.overdue = FALSE]
      <3>1. /\ j \in Jobs /\ jobs[j] \in Job /\ jobs[j].status = "PENDING"
            /\ jobs' = [jobs EXCEPT ![j] = row] /\ UNCHANGED conversations
        BY <2>2 DEF Claim, Claimable, TypeOK
      <3>2. /\ row.status = "RUNNING" /\ row.conversation = jobs[j].conversation
            /\ row.answers = jobs[j].answers /\ row.verdict = jobs[j].verdict
        BY <3>1 DEF Job
      <3> HIDE DEF row
      <3> QED BY <3>1, <3>2, OneMessage DEF LiveStatuses
    <2>3. CASE Complete(w) \/ Fail(w)
      <3> DEFINE j == workers[w].job
      <3>1. /\ j \in Jobs /\ jobs[j].status # "ABSENT" /\ UNCHANGED conversations
            /\ \/ jobs[j].status = "RUNNING" /\ jobs' = [jobs EXCEPT ![j] = Answered(jobs[j])]
               \/ jobs' = [jobs EXCEPT ![j] = Refused(jobs[j])]
        BY <2>3 DEF Complete, Fail, Savable, TypeOK, WorkersHoldMessages
      <3> QED BY <3>1, OneMessage
    <2>4. CASE ~(Poll(w) \/ Claim(w) \/ Complete(w) \/ Fail(w))
      <3>1. UNCHANGED <<conversations, jobs>>
        BY <1>4, <2>4
        DEF WorkerStep, Crash, ClaimRefused, RouteIntent, Goes, StartInvestigation,
            Investigate, Narrate, Repair, Narrates, CompleteRefused
      <3> QED BY <3>1, QuietMessages
    <2> QED BY <2>1, <2>2, <2>3, <2>4
  <1>5. ASSUME NEW j \in Jobs, TimePasses(j)
        PROVE  MessagesStep
    <2> DEFINE row == [jobs[j] EXCEPT !.overdue = TRUE]
    <2>1. /\ jobs[j] \in Job /\ jobs[j].status = "RUNNING"
          /\ jobs' = [jobs EXCEPT ![j] = row] /\ UNCHANGED conversations
      BY <1>5 DEF TimePasses, TypeOK
    <2>2. /\ row.status = "RUNNING" /\ row.conversation = jobs[j].conversation
          /\ row.answers = jobs[j].answers /\ row.verdict = jobs[j].verdict
      BY <2>1 DEF Job
    <2> HIDE DEF row
    <2> QED BY <2>1, <2>2, OneMessage DEF LiveStatuses
  <1>6. CASE UNCHANGED vars
    BY <1>6, QuietMessages DEF vars
  <1> QED BY <1>1, <1>2, <1>3, <1>4, <1>5, <1>6 DEF Next, UserStep

-----------------------------------------------------------------------------
(* The invariant.                                                          *)

LEMMA MessagesKeepReplies ==
  ASSUME ReplyInv, TypeOK', MessagesStep
  PROVE  /\ StatusTellsReply' /\ SupersededIsStale' /\ SentInOrder'
         /\ FirstReplyStands' /\ EveryTurnIsClosed'
  <1>1. ASSUME NEW j \in Jobs
        PROVE  /\ jobs'[j].conversation = jobs[j].conversation
               /\ jobs'[j].status = "ABSENT" <=> jobs[j].status = "ABSENT"
               /\ jobs[j].verdict # "none" => jobs'[j].verdict = jobs[j].verdict
               /\ jobs'[j].verdict = "none" => jobs'[j].answers = 0
               /\ jobs'[j].status \in LiveStatuses \cup {"ABSENT"} => jobs'[j].verdict = "none"
               /\ jobs'[j].status \in {"SUCCEEDED", "FAILED"} => jobs'[j].verdict # "none"
               /\ jobs'[j].answers <= 1
               /\ jobs'[j].verdict = "failed" => jobs'[j].answers = 0
               /\ jobs'[j].status = "SUPERSEDED" =>
                    conversations'[jobs[j].conversation].status = "STALE"
    <2>1. /\ jobs[j] \in Job /\ Message(j)
          /\ jobs[j].verdict = "none" => jobs[j].answers = 0
          /\ jobs[j].status \in LiveStatuses \cup {"ABSENT"} => jobs[j].verdict = "none"
          /\ jobs[j].status \in {"SUCCEEDED", "FAILED"} => jobs[j].verdict # "none"
          /\ jobs[j].answers <= 1
          /\ jobs[j].verdict = "failed" => jobs[j].answers = 0
          /\ jobs[j].status = "SUPERSEDED" =>
               conversations[jobs[j].conversation].status = "STALE"
      BY DEF ReplyInv, TypeOK, StatusTellsReply, SupersededIsStale, FirstReplyStands,
             MessagesStep
    <2>2. jobs[j].status = "SUPERSEDED" => jobs[j].conversation \in Ids
      BY DEF ReplyInv, TypeOK
    <2>3. CASE jobs'[j] = jobs[j]
      BY <2>1, <2>2, <2>3 DEF MessagesStep
    <2>4. CASE /\ jobs[j].status \in LiveStatuses
               /\ jobs'[j].status \in LiveStatuses \cup {"SUPERSEDED"}
               /\ jobs'[j].conversation = jobs[j].conversation
               /\ jobs'[j].answers = jobs[j].answers /\ jobs'[j].verdict = jobs[j].verdict
               /\ jobs'[j].status = "SUPERSEDED" =>
                    conversations'[jobs[j].conversation].status = "STALE"
      BY <2>1, <2>4 DEF LiveStatuses
    <2>5. CASE jobs[j].status = "RUNNING" /\ jobs'[j] = Answered(jobs[j])
      <3>1. /\ jobs'[j].status = "SUCCEEDED" /\ jobs'[j].answers = jobs[j].answers + 1
            /\ jobs'[j].conversation = jobs[j].conversation
            /\ jobs'[j].verdict = IF jobs[j].verdict = "none" THEN "answered" ELSE jobs[j].verdict
        BY <2>1, <2>5 DEF Answered, Job
      <3> QED BY <2>1, <2>5, <3>1 DEF LiveStatuses
    <2>6. CASE jobs[j].status # "ABSENT" /\ jobs'[j] = Refused(jobs[j])
      <3>1. /\ jobs'[j].status = "FAILED" /\ jobs'[j].answers = jobs[j].answers
            /\ jobs'[j].conversation = jobs[j].conversation
            /\ jobs'[j].verdict = IF jobs[j].verdict = "none" THEN "failed" ELSE jobs[j].verdict
        BY <2>1, <2>6 DEF Refused, Job
      <3> QED BY <2>1, <2>6, <3>1 DEF LiveStatuses
    <2> QED BY <2>1, <2>3, <2>4, <2>5, <2>6 DEF Message, LiveStatuses
  <1>2. StatusTellsReply' /\ SupersededIsStale' /\ FirstReplyStands'
    BY <1>1 DEF StatusTellsReply, SupersededIsStale, FirstReplyStands
  <1>3. SentInOrder'
    BY <1>1 DEF SentInOrder, ReplyInv
  <1>4. EveryTurnIsClosed'
    BY <1>1 DEF EveryTurnIsClosed, ReplyInv
  <1> QED BY <1>2, <1>3, <1>4

LEMMA SendKeepsReplies ==
  ASSUME ReplyInv, TypeOK', NEW c \in Ids, NEW j \in Jobs, SendMessage(c, j)
  PROVE  /\ StatusTellsReply' /\ SupersededIsStale' /\ SentInOrder'
         /\ FirstReplyStands' /\ EveryTurnIsClosed'
  <1> DEFINE row == [AbsentJob EXCEPT !.conversation = c, !.status = "PENDING"]
  <1>1. /\ row.conversation = c /\ row.status = "PENDING" /\ row.answers = 0
        /\ row.verdict = "none"
    BY DEF AbsentJob
  <1>2. /\ jobs' = [jobs EXCEPT ![j] = row] /\ UNCHANGED conversations
        /\ jobs \in [Jobs -> Job]
        /\ jobs[j].status = "ABSENT"
        /\ \A k \in Jobs : k < j => jobs[k].status # "ABSENT"
        /\ \A k \in Jobs : jobs[k].conversation = c => jobs[k].status \notin LiveStatuses
        /\ conversations[c].status = "ACTIVE"
    BY DEF SendMessage, IsCurrent, NoTurnInProgress, ReplyInv, TypeOK
  <1> HIDE DEF row
  <1>3. jobs'[j] = row /\ \A k \in Jobs : k # j => jobs'[k] = jobs[k]
    BY <1>2
  <1>4. StatusTellsReply' /\ SupersededIsStale' /\ FirstReplyStands'
    BY <1>1, <1>2, <1>3
    DEF ReplyInv, StatusTellsReply, SupersededIsStale, FirstReplyStands, LiveStatuses
  <1>5. SentInOrder'
    BY <1>1, <1>2, <1>3, BoundsAssumption DEF ReplyInv, SentInOrder, Jobs
  <1>6. EveryTurnIsClosed'
    <2> SUFFICES ASSUME NEW i \in Jobs, NEW k \in Jobs, i < k,
                        jobs'[k].conversation = jobs'[i].conversation,
                        jobs'[k].status # "ABSENT"
                 PROVE  jobs'[i].verdict # "none"
      BY DEF EveryTurnIsClosed
    <2>1. CASE k = j
      <3>1. jobs[i].conversation = c /\ jobs[i].status # "ABSENT" /\ jobs[i].status \notin LiveStatuses
        BY <1>1, <1>2, <1>3, <2>1, BoundsAssumption DEF Jobs
      <3>2. jobs[i].status # "SUPERSEDED"
        BY <1>2, <3>1 DEF ReplyInv, SupersededIsStale
      <3>3. jobs[i].status \in {"SUCCEEDED", "FAILED"}
        BY <1>2, <3>1, <3>2 DEF Job, LiveStatuses
      <3>4. jobs'[i] = jobs[i]
        BY <1>3, <2>1, BoundsAssumption DEF Jobs
      <3> QED BY <3>3, <3>4 DEF ReplyInv, StatusTellsReply
    <2>2. CASE k # j
      <3>1. jobs[k].status # "ABSENT" /\ jobs'[k] = jobs[k]
        BY <1>3, <2>2
      <3>2. i # j
        BY <1>2, <3>1 DEF ReplyInv, SentInOrder
      <3> QED BY <1>3, <3>1, <3>2 DEF ReplyInv, EveryTurnIsClosed
    <2> QED BY <2>1, <2>2
  <1> QED BY <1>4, <1>5, <1>6

\* Only the poll gives a worker a message.
LEMMA SameMessage ==
  ASSUME TypeOK, NEW w \in Workers, WorkerStep(w) \/ Crash(w), ~Poll(w),
         workers'[w].at # "idle"
  PROVE  workers'[w].job = workers[w].job /\ workers[w].at # "idle"
  <1>1. workers[w] \in Worker /\ Idle.at = "idle"
    BY EmptyRows DEF TypeOK
  <1>2. CASE ClaimRefused(w) \/ Complete(w) \/ Fail(w) \/ Crash(w)
    BY <1>1, <1>2 DEF ClaimRefused, Complete, Fail, Crash, TypeOK
  <1>3. CASE Claim(w) \/ CompleteRefused(w)
    BY <1>1, <1>3 DEF Claim, CompleteRefused, Goes, TypeOK, Worker
  <1>4. ASSUME NEW n \in 0 .. 1, NEW stage \in Stages,
               RouteIntent(w, n, stage) \/ StartInvestigation(w, n)
        PROVE  workers'[w].job = workers[w].job /\ workers[w].at # "idle"
    BY <1>1, <1>4 DEF RouteIntent, StartInvestigation, Goes, TypeOK, Worker
  <1>5. ASSUME NEW n \in 0 .. AgentCalls, NEW stage \in Stages, Investigate(w, n, stage)
        PROVE  workers'[w].job = workers[w].job /\ workers[w].at # "idle"
    BY <1>1, <1>5 DEF Investigate, TypeOK, Worker
  <1>6. ASSUME NEW n \in 1 .. ModelCalls, NEW stage \in Stages,
               Narrate(w, n, stage) \/ Repair(w, n, stage)
        PROVE  workers'[w].job = workers[w].job /\ workers[w].at # "idle"
    BY <1>1, <1>6 DEF Narrate, Repair, Narrates, TypeOK, Worker
  <1>7. "idle" \in Stages
    BY DEF Stages
  <1> QED BY <1>2, <1>3, <1>4, <1>5, <1>6, <1>7 DEF WorkerStep

\* A worker takes a message that is queued, and what was sent stays in the table.
LEMMA WorkersStep ==
  ASSUME ReplyInv, TypeOK', [Next]_vars
  PROVE  WorkersHoldMessages'
  <1>1. ASSUME NEW j \in Jobs, jobs[j].status # "ABSENT"
        PROVE  jobs'[j].status # "ABSENT"
    <2>1. CASE \E c \in Ids, k \in Jobs : SendMessage(c, k)
      BY <1>1, <2>1 DEF SendMessage, AbsentJob, ReplyInv, TypeOK
    <2>2. CASE ~ \E c \in Ids, k \in Jobs : SendMessage(c, k)
      <3>1. Message(j)
        BY <2>2, StepMessages DEF ReplyInv, MessagesStep
      <3>2. jobs[j] \in Job
        BY DEF ReplyInv, TypeOK
      <3>3. Answered(jobs[j]).status = "SUCCEEDED" /\ Refused(jobs[j]).status = "FAILED"
        BY <3>2 DEF Answered, Refused, Job
      <3> QED BY <1>1, <3>1, <3>3 DEF Message, LiveStatuses
    <2> QED BY <2>1, <2>2
  <1>2. ASSUME NEW w \in Workers, workers'[w].at # "idle"
        PROVE  jobs'[workers'[w].job].status # "ABSENT"
    <2>1. CASE workers'[w].job = workers[w].job /\ workers[w].at # "idle"
      BY <1>1, <2>1 DEF ReplyInv, TypeOK, WorkersHoldMessages
    <2>2. CASE ~(workers'[w].job = workers[w].job /\ workers[w].at # "idle")
      <3>1. Poll(w)
        <4>1. PICK v \in Workers : WorkerStep(v) \/ Crash(v)
          BY <1>2, <2>2
          DEF Next, UserStep, ChangeInputs, StartCompliance, AbandonTask, Supersede,
              PublishResult, CreateConversation, SendMessage, TimePasses, vars
        <4>2. v = w
          BY <1>2, <2>2, <4>1
          DEF WorkerStep, Crash, Poll, Claim, ClaimRefused, RouteIntent, Goes,
              StartInvestigation, Investigate, Narrate, Repair, Narrates, Complete,
              CompleteRefused, Fail, ReplyInv, TypeOK
        <4> QED BY <1>2, <2>2, <4>1, <4>2, SameMessage DEF ReplyInv
      <3>2. PICK j \in Jobs : Recovered(j).status = "PENDING" /\ workers'[w].job = j
        BY <1>2, <2>2, <3>1 DEF Poll, Idle, ReplyInv, TypeOK
      <3> QED BY <3>1, <3>2 DEF Poll
    <2> QED BY <2>1, <2>2
  <1> QED BY <1>2 DEF WorkersHoldMessages

LEMMA ReplyStep ==
  ASSUME ReplyInv, [Next]_vars
  PROVE  ReplyInv'
  <1>1. TypeOK'
    BY TypeStep DEF ReplyInv
  <1>2. CASE \E c \in Ids, j \in Jobs : SendMessage(c, j)
    BY <1>1, <1>2, SendKeepsReplies, WorkersStep DEF ReplyInv
  <1>3. CASE ~ \E c \in Ids, j \in Jobs : SendMessage(c, j)
    <2>1. MessagesStep
      BY <1>3, StepMessages DEF ReplyInv
    <2> QED BY <1>1, <2>1, MessagesKeepReplies, WorkersStep DEF ReplyInv
  <1> QED BY <1>2, <1>3

LEMMA ReplyInit == Init => ReplyInv
  <1> SUFFICES ASSUME Init PROVE ReplyInv
    OBVIOUS
  <1>1. TypeOK
    BY TypeInit
  <1>2. \A j \in Jobs : jobs[j].status = "ABSENT" /\ jobs[j].answers = 0 /\ jobs[j].verdict = "none"
    BY DEF Init, AbsentJob
  <1>3. \A w \in Workers : workers[w].at = "idle"
    BY DEF Init, Idle
  <1> QED
    BY <1>1, <1>2, <1>3
    DEF ReplyInv, StatusTellsReply, SupersededIsStale, SentInOrder, WorkersHoldMessages,
        FirstReplyStands, EveryTurnIsClosed

\* Whatever workers answer the same message, in whichever attempt, and whenever
\* they die: a message is answered at most once, and one that was refused first
\* is never answered (complete_conversation_job, fail_conversation_job).
THEOREM FirstReply == Spec => []FirstReplyStands
  <1>1. ReplyInv => FirstReplyStands
    BY DEF ReplyInv
  <1> QED BY <1>1, ReplyInit, ReplyStep, PTL DEF Spec

\* The turns of a conversation do not overlap: a message is only accepted when
\* all earlier ones have a reply (send_conversation_message).
THEOREM TurnsClosed == Spec => []EveryTurnIsClosed
  <1>1. ReplyInv => EveryTurnIsClosed
    BY DEF ReplyInv
  <1> QED BY <1>1, ReplyInit, ReplyStep, PTL DEF Spec

-----------------------------------------------------------------------------
(* The calls of a turn.                                                    *)

AgentsOf(row) == IF row.frozen # 0 THEN AgentCalls ELSE 0

\* What a turn has spent in each of its stages: nothing before the route is
\* found, one call at most before the investigation, and the calls of the
\* narration apart from the others.
TurnWithin(row) ==
  /\ row.calls <= 1 + row.narrated + AgentsOf(row)
  /\ row.narrated <= ModelCalls
  /\ row.at \in {"idle", "polled", "intent"} =>
       row.calls = 0 /\ row.narrated = 0 /\ row.frozen = 0
  /\ row.at = "investigation" => row.calls <= 1 /\ row.narrated = 0 /\ row.frozen # 0
  /\ row.at = "narration" => row.narrated = 0

TurnsWithin == \A w \in Workers : TurnWithin(workers[w])

LEMMA WorkerNumbers ==
  ASSUME TypeOK, NEW w \in Workers
  PROVE  /\ workers[w] \in Worker
         /\ workers[w].calls \in Nat /\ workers[w].narrated \in Nat
         /\ AgentsOf(workers[w]) \in Nat /\ AgentCalls \in Nat /\ ModelCalls \in Nat \ {0}
  BY BoundsAssumption DEF TypeOK, Worker, AgentsOf

\* A worker that is replaced by one within the allowance.
LEMMA OneTurn ==
  ASSUME TypeOK, TurnsWithin, NEW w \in Workers, NEW next, TurnWithin(next),
         workers' = [workers EXCEPT ![w] = next]
  PROVE  TurnsWithin'
  <1>1. \A v \in Workers : workers'[v] = IF v = w THEN next ELSE workers[v]
    BY DEF TypeOK
  <1>2. \A v \in Workers : TurnWithin(workers'[v])
    BY <1>1 DEF TurnsWithin
  <1> QED BY <1>2 DEF TurnsWithin, TurnWithin, AgentsOf

LEMMA IdleIsWithin ==
  /\ TurnWithin(Idle)
  /\ \A j : TurnWithin([Idle EXCEPT !.at = "polled", !.job = j])
  <1>1. AgentCalls \in Nat /\ ModelCalls \in Nat
    BY BoundsAssumption
  <1> QED BY <1>1 DEF Idle, TurnWithin, AgentsOf

LEMMA StepKeepsTurns ==
  ASSUME TypeOK, TurnsWithin, NEW w \in Workers, WorkerStep(w) \/ Crash(w)
  PROVE  TurnsWithin'
  <1>0. /\ workers[w] \in Worker /\ TurnWithin(workers[w])
        /\ workers[w].calls \in Nat /\ workers[w].narrated \in Nat
        /\ AgentsOf(workers[w]) \in Nat /\ AgentCalls \in Nat /\ ModelCalls \in Nat \ {0}
    BY WorkerNumbers DEF TurnsWithin
  <1>1. CASE Poll(w)
    <2>1. CASE UNCHANGED workers
      BY <2>1 DEF TurnsWithin, TurnWithin, AgentsOf
    <2>2. CASE \E j \in Jobs : workers' = [workers EXCEPT ![w] =
                                 [Idle EXCEPT !.at = "polled", !.job = j]]
      BY <2>2, IdleIsWithin, OneTurn
    <2> QED BY <1>1, <2>1, <2>2 DEF Poll
  <1>2. CASE Claim(w)
    <2> DEFINE next == [workers[w] EXCEPT !.at = "intent"]
    <2>1. workers' = [workers EXCEPT ![w] = next]
      BY <1>0, <1>2 DEF Claim, TypeOK
    <2>2. TurnWithin(next)
      BY <1>0, <1>2 DEF Claim, TurnWithin, AgentsOf, Worker
    <2> HIDE DEF next
    <2> QED BY <2>1, <2>2, OneTurn
  <1>3. CASE ClaimRefused(w) \/ Complete(w) \/ Fail(w) \/ Crash(w)
    <2>1. workers' = [workers EXCEPT ![w] = Idle]
      BY <1>3 DEF ClaimRefused, Complete, Fail, Crash
    <2> QED BY <2>1, IdleIsWithin, OneTurn
  <1>4. CASE \E n \in 0 .. 1, stage \in Stages : RouteIntent(w, n, stage)
    <2>1. PICK n \in 0 .. 1, stage \in Stages : RouteIntent(w, n, stage)
      BY <1>4
    <2>2. PICK calls \in Nat : calls = workers[w].calls + n
      BY <1>0
    <2> DEFINE next == [workers[w] EXCEPT !.at = stage, !.calls = calls]
    <2>3. workers' = [workers EXCEPT ![w] = next]
      BY <1>0, <2>1, <2>2 DEF RouteIntent, Goes, Worker
    <2>4. TurnWithin(next)
      BY <1>0, <2>1, <2>2 DEF RouteIntent, TurnWithin, AgentsOf, Worker
    <2> HIDE DEF next
    <2> QED BY <2>3, <2>4, OneTurn
  <1>5. CASE \E n \in 0 .. 1 : StartInvestigation(w, n)
    <2>1. PICK n \in 0 .. 1 : StartInvestigation(w, n)
      BY <1>5
    <2>2. PICK calls \in Nat : calls = workers[w].calls + n
      BY <1>0
    <2> DEFINE on  == [workers[w] EXCEPT !.at = "investigation", !.calls = calls,
                                         !.frozen = result]
               off == [workers[w] EXCEPT !.at = "failing", !.calls = calls]
    <2>3. \/ workers' = [workers EXCEPT ![w] = on] /\ result # 0
          \/ workers' = [workers EXCEPT ![w] = off]
      BY <1>0, <2>1, <2>2 DEF StartInvestigation, Worker
    <2>4. workers[w].at = "intent"
      BY <2>1 DEF StartInvestigation
    <2>5. result # 0 => TurnWithin(on)
      BY <1>0, <2>2, <2>4 DEF TurnWithin, AgentsOf, Worker
    <2>6. TurnWithin(off)
      BY <1>0, <2>2, <2>4 DEF TurnWithin, AgentsOf, Worker
    <2> HIDE DEF on, off
    <2> QED BY <2>3, <2>5, <2>6, OneTurn
  <1>6. CASE \E n \in 0 .. AgentCalls, stage \in Stages : Investigate(w, n, stage)
    <2>1. PICK n \in 0 .. AgentCalls, stage \in Stages : Investigate(w, n, stage)
      BY <1>6
    <2>2. PICK calls \in Nat : calls = workers[w].calls + n
      BY <1>0
    <2>3. PICK done : done = (stage # "failing")
      OBVIOUS
    <2> DEFINE next == [workers[w] EXCEPT !.at = stage, !.calls = calls,
                                          !.investigated = done]
    <2>4. workers' = [workers EXCEPT ![w] = next]
      BY <1>0, <2>1, <2>2, <2>3 DEF Investigate, Worker
    <2>5. workers[w].at = "investigation" /\ stage \in {"persist", "narration", "failing"}
      BY <2>1 DEF Investigate
    <2>6. TurnWithin(next)
      <3>1. /\ next.at = stage /\ next.calls = calls /\ next.frozen = workers[w].frozen
            /\ next.narrated = workers[w].narrated
        BY <1>0 DEF Worker
      <3> QED BY <1>0, <2>2, <2>5, <3>1 DEF TurnWithin, AgentsOf
    <2> HIDE DEF next
    <2> QED BY <2>4, <2>6, OneTurn
  <1>7. CASE \E n \in 1 .. ModelCalls, stage \in Stages :
               Narrate(w, n, stage) \/ Repair(w, n, stage)
    <2>1. PICK n \in 1 .. ModelCalls, stage \in Stages :
                 Narrate(w, n, stage) \/ Repair(w, n, stage)
      BY <1>7
    <2>2. PICK calls \in Nat : calls = workers[w].calls + n
      BY <1>0
    <2>3. PICK narrated \in Nat : narrated = workers[w].narrated + n
      BY <1>0
    <2> DEFINE next == [workers[w] EXCEPT !.at = stage, !.calls = calls,
                                          !.narrated = narrated]
    <2>4. workers' = [workers EXCEPT ![w] = next]
      BY <1>0, <2>1, <2>2, <2>3 DEF Narrate, Repair, Narrates, Worker
    <2>5. /\ stage \in {"persist", "failing", "repair"}
          /\ narrated <= ModelCalls
      BY <1>0, <2>1, <2>3
      DEF Narrate, Repair, AfterInvalid, RepairCalls, TurnWithin
    <2>6. TurnWithin(next)
      <3>1. /\ next.at = stage /\ next.calls = calls /\ next.narrated = narrated
            /\ next.frozen = workers[w].frozen
        BY <1>0 DEF Worker
      <3> QED BY <1>0, <2>2, <2>3, <2>5, <3>1 DEF TurnWithin, AgentsOf
    <2> HIDE DEF next
    <2> QED BY <2>4, <2>6, OneTurn
  <1>8. CASE CompleteRefused(w)
    <2> DEFINE next == [workers[w] EXCEPT !.at = "failing", !.calls = workers[w].calls]
    <2>1. workers' = [workers EXCEPT ![w] = next]
      <3>1. PICK calls \in Nat : calls = workers[w].calls
        BY <1>0
      <3>2. calls + 0 = calls
        OBVIOUS
      <3> QED BY <1>0, <1>8, <3>1, <3>2 DEF CompleteRefused, Goes, Worker
    <2>2. TurnWithin(next)
      <3>1. /\ next.at = "failing" /\ next.calls = workers[w].calls
            /\ next.frozen = workers[w].frozen /\ next.narrated = workers[w].narrated
        BY <1>0 DEF Worker
      <3> QED BY <1>0, <3>1 DEF TurnWithin, AgentsOf
    <2> HIDE DEF next
    <2> QED BY <2>1, <2>2, OneTurn
  <1> QED
    BY <1>1, <1>2, <1>3, <1>4, <1>5, <1>6, <1>7, <1>8 DEF WorkerStep

\* A turn makes no more calls of the model than its allowance: one for the route,
\* those of one investigation, and the narration with its repair within one
\* (conversations.py, narrate and its repair), whatever the model answers.
THEOREM CallsOfTurn == Spec => []CallsWithinBudget
  <1> DEFINE Holds == ReplyInv /\ TurnsWithin
  <1>1. Init => Holds
    <2>1. Init => TurnsWithin
      BY IdleIsWithin DEF Init, TurnsWithin, TurnWithin, AgentsOf
    <2> QED BY <2>1, ReplyInit
  <1>2. Holds /\ [Next]_vars => Holds'
    <2> SUFFICES ASSUME Holds, [Next]_vars PROVE Holds'
      OBVIOUS
    <2>1. ReplyInv'
      BY ReplyStep
    <2>2. (\E w \in Workers : WorkerStep(w) \/ Crash(w)) => TurnsWithin'
      BY StepKeepsTurns DEF ReplyInv
    <2>3. UNCHANGED workers => TurnsWithin'
      BY DEF TurnsWithin, TurnWithin, AgentsOf
    <2>4. (\E w \in Workers : WorkerStep(w) \/ Crash(w)) \/ UNCHANGED workers
      BY DEF Next, vars, UserStep, ChangeInputs, StartCompliance, AbandonTask, Supersede,
             PublishResult, CreateConversation, SendMessage, TimePasses
    <2> QED BY <2>1, <2>2, <2>3, <2>4
  <1>3. Holds => CallsWithinBudget
    <2> SUFFICES ASSUME Holds, NEW w \in Workers
                 PROVE  workers[w].calls <=
                          1 + ModelCalls + IF workers[w].frozen # 0 THEN AgentCalls ELSE 0
      BY DEF CallsWithinBudget
    <2>1. /\ TurnWithin(workers[w]) /\ workers[w].calls \in Nat
          /\ workers[w].narrated \in Nat /\ AgentCalls \in Nat /\ ModelCalls \in Nat
      BY WorkerNumbers DEF TurnsWithin, ReplyInv
    <2> QED BY <2>1 DEF TurnWithin, AgentsOf
  <1> HIDE DEF Holds
  <1> QED BY <1>1, <1>2, <1>3, PTL DEF Spec
=============================================================================
