---------------------------- MODULE QuoteDrafts ----------------------------
(***************************************************************************)
(* The quote drafts of one task: a file is uploaded, the worker extracts   *)
(* its fields, a user confirms or corrects every field, and the draft is   *)
(* submitted as a new quote or as a new version of one.  The rows are      *)
(* QuoteDraft, Quote, Document, the DRAFT_REVIEW jobs and the file of each *)
(* draft, which is moved inside the transaction that submits it.           *)
(*                                                                         *)
(* A draft creates the ids of its job, of its document and of the quote it *)
(* may become, so that all four tables are functions over draft ids, taken *)
(* in order of creation.  A handler that locks what it reads is one        *)
(* action.  The two read handlers lock nothing and write all the same:     *)
(* with the fault "slow_read" they take two steps.                         *)
(***************************************************************************)
EXTENDS Integers, FiniteSets

CONSTANTS
  Files,            \* what a file can contain (its sha256)
  Fields,           \* the extractable fields of the quote dictionary (30)
  Contents,         \* what the fields of a quote can say
  MaxDrafts,        \* bound: drafts
  MaxRevision,      \* bound: task revisions 1 .. MaxRevision
  MaxDraftRevision, \* bound: reviews and corrections stop at this revision
  Faults            \* the faults of this instance

FaultKinds ==
  { "worker_crash",  \* the worker dies, or an exception leaves run_job before
                     \* its try: the claimed job stays RUNNING
    "submit_crash",  \* the API process dies between the move and the commit
    "lost_commit",   \* the commit of a submission is done, its answer lost
    "slow_read" }    \* other handlers commit between two reads of a reader

ASSUME BoundsAssumption ==
  MaxDrafts \in Nat /\ MaxRevision \in Nat \ {0} /\ MaxDraftRevision \in Nat

ASSUME ChoicesAssumption ==
  /\ Files # {} /\ Contents # {} /\ Fields # {}
  /\ "none" \notin Files /\ "none" \notin Contents
  /\ Faults \subseteq FaultKinds

Drafts    == 1 .. MaxDrafts
Revisions == 1 .. MaxRevision

VARIABLES
  task,      \* the current revision, and whether the task is abandoned
  drafts,    \* QuoteDraft rows
  jobs,      \* status of the DRAFT_REVIEW job of each draft
  quotes,    \* Quote rows, under the id the draft proposed
  documents, \* Document rows, under the id the draft proposed
  place,     \* where the file of a draft is: at its draft or its final path
  worker,    \* the worker process
  viewer     \* a reader between two of its reads

vars == <<task, drafts, jobs, quotes, documents, place, worker, viewer>>

-----------------------------------------------------------------------------
(* The rows.  0 is the null of a reference.                                *)

ActiveStatuses == {"UPLOADED", "PROCESSING", "REVIEW_REQUIRED",
                   "READY_TO_SUBMIT"}
DraftStatuses  == ActiveStatuses \cup {"ABSENT", "STALE", "SUBMITTED",
                   "DISCARDED", "FAILED"}
JobStatuses    == {"NONE", "PENDING", "RUNNING", "SUCCEEDED", "FAILED",
                   "SUPERSEDED"}

\* event and correction: per field, the draft revision of the confirmation
\* (ReviewEvent) and of the correction in the review envelope that match the
\* field's present version; 0 when there is none.
DraftRow    == [status : DraftStatuses, rev : Nat, base : Revisions \cup {0},
                file : Files \cup {"none"}, replaces : Drafts \cup {0},
                content : Contents \cup {"none"},
                event : [Fields -> Nat], correction : [Fields -> Nat]]
QuoteRow    == [version : Nat, active : BOOLEAN]
DocumentRow == [quote : Drafts \cup {0}, version : Nat,
                latest : Contents \cup {"none"}]
WorkerState == [pc : {"idle", "polled", "parsing"}, draft : Drafts \cup {0}]
ViewerState == [pc : {"idle", "get", "list"}, draft : Drafts \cup {0},
                active : BOOLEAN, rev : Nat]

Unconfirmed    == [f \in Fields |-> 0]
AbsentDraft    == [status |-> "ABSENT", rev |-> 0, base |-> 0,
                   file |-> "none", replaces |-> 0, content |-> "none",
                   event |-> Unconfirmed, correction |-> Unconfirmed]
AbsentQuote    == [version |-> 0, active |-> FALSE]
AbsentDocument == [quote |-> 0, version |-> 0, latest |-> "none"]
IdleWorker     == [pc |-> "idle", draft |-> 0]
IdleViewer     == [pc |-> "idle", draft |-> 0, active |-> FALSE, rev |-> 0]

TypeOK ==
  /\ task \in [rev : Revisions, abandoned : BOOLEAN]
  /\ drafts \in [Drafts -> DraftRow]
  /\ jobs \in [Drafts -> JobStatuses]
  /\ quotes \in [Drafts -> QuoteRow]
  /\ documents \in [Drafts -> DocumentRow]
  /\ place \in [Drafts -> {"nowhere", "draft", "final"}]
  /\ worker \in WorkerState
  /\ viewer \in ViewerState

Init ==
  /\ task = [rev |-> 1, abandoned |-> FALSE]
  /\ drafts = [d \in Drafts |-> AbsentDraft]
  /\ jobs = [d \in Drafts |-> "NONE"]
  /\ quotes = [d \in Drafts |-> AbsentQuote]
  /\ documents = [d \in Drafts |-> AbsentDocument]
  /\ place = [d \in Drafts |-> "nowhere"]
  /\ worker = IdleWorker
  /\ viewer = IdleViewer

-----------------------------------------------------------------------------
(* What the handlers share.                                                *)

IsActive(row) == row.status \in ActiveStatuses
Active        == {d \in Drafts : IsActive(drafts[d])}

\* The active drafts that were begun at another revision.
ActiveBefore(revision) == {d \in Active : drafts[d].base # revision}

MarkedStale(row) == [row EXCEPT !.status = "STALE", !.rev = @ + 1]

\* The rows once those of outdated are marked STALE.
StaleRows(outdated) ==
  [d \in Drafts |->
     IF d \in outdated THEN MarkedStale(drafts[d]) ELSE drafts[d]]

IsNext(d) == /\ drafts[d].status = "ABSENT"
             /\ \A e \in Drafts : e < d => drafts[e].status # "ABSENT"

Submitted == {d \in Drafts : documents[d].quote # 0}
Versions(q) == {d \in Submitted : documents[d].quote = q}
IsCurrentVersion(d, q) == /\ d \in Versions(q)
                          /\ documents[d].version = quotes[q].version

\* Mutant: only the drafts are looked at.
BugDraftsOnly(rows, file, exclude, allowed) ==
  \E d \in Drafts : d # exclude /\ IsActive(rows[d]) /\ rows[d].file = file
\* Another draft or another quote than allowed has this file already.
IsDuplicate(rows, file, exclude, allowed) ==
  \/ \E d \in Submitted : rows[d].file = file /\ documents[d].quote # allowed
  \/ \E d \in Drafts : d # exclude /\ IsActive(rows[d]) /\ rows[d].file = file

\* _require_revision: a client knows the revision, or is refused.
IsOpenTask == ~task.abandoned
AdvanceRevision == /\ IsOpenTask
                   /\ task.rev < MaxRevision
                   /\ task' = [task EXCEPT !.rev = @ + 1]

SupersedeJobs(affected) ==
  jobs' = [d \in Drafts |->
             IF d \in affected /\ jobs[d] \in {"PENDING", "RUNNING"}
             THEN "SUPERSEDED" ELSE jobs[d]]

-----------------------------------------------------------------------------
(* Drafts come and go.                                                     *)

NewDraft(file, quote) ==
  [status |-> "PROCESSING", rev |-> 1, base |-> task.rev, file |-> file,
   replaces |-> quote, content |-> "none",
   event |-> Unconfirmed, correction |-> Unconfirmed]

CanBeReplaced(q) == quotes[q].version > 0 /\ quotes[q].active

UploadQuoteDraft(d, file, quote) ==
  LET rows == StaleRows(ActiveBefore(task.rev)) IN
  /\ IsOpenTask
  /\ IsNext(d)
  /\ quote # 0 => CanBeReplaced(quote)
  /\ ~IsDuplicate(rows, file, 0, 0)
  /\ \A e \in Drafts : ~IsActive(rows[e])
  /\ drafts' = [rows EXCEPT ![d] = NewDraft(file, quote)]
  /\ jobs' = [jobs EXCEPT ![d] = "PENDING"]
  /\ place' = [place EXCEPT ![d] = "draft"]
  /\ UNCHANGED <<task, quotes, documents, worker, viewer>>

\* The review of the version in force is carried over: its confirmations and
\* corrections are made again, all at draft revision 1.
Carried(d, fields) ==
  [status |-> "READY_TO_SUBMIT", rev |-> 2, base |-> task.rev,
   file |-> drafts[d].file, replaces |-> documents[d].quote,
   content |-> documents[d].latest, event |-> [f \in Fields |-> 1],
   correction |-> [f \in Fields |-> IF f \in fields THEN 1 ELSE 0]]

CorrectedFields(d) == {f \in Fields : drafts[d].correction[f] > 0}

\* Fields answered after the submission are corrections too.
CarriedFields(d) ==
  {fields \in SUBSET Fields :
     /\ CorrectedFields(d) \subseteq fields
     /\ documents[d].latest = drafts[d].content => fields = CorrectedFields(d)}

\* source is the document of the version in force.  Its review is carried over
\* unless it no longer passes; then the file is parsed again.
CreateQuoteRevisionDraft(d, source) ==
  LET quote == documents[source].quote IN
  /\ IsOpenTask
  /\ IsNext(d)
  /\ source \in Submitted
  /\ IsCurrentVersion(source, quote)
  /\ CanBeReplaced(quote)
  /\ Active = {}
  /\ place[source] = "final"
  /\ \/ /\ drafts' = [drafts EXCEPT ![d] = NewDraft(drafts[source].file, quote)]
        /\ jobs' = [jobs EXCEPT ![d] = "PENDING"]
     \/ /\ drafts[source].status = "SUBMITTED"
        /\ \E fields \in CarriedFields(source) :
             drafts' = [drafts EXCEPT ![d] = Carried(source, fields)]
        /\ jobs' = jobs
  /\ place' = [place EXCEPT ![d] = "draft"]
  /\ UNCHANGED <<task, quotes, documents, worker, viewer>>

\* Mutant: the job stays in the queue.
BugJobStays(d) ==
  /\ IsOpenTask
  /\ drafts[d].status \notin {"ABSENT", "SUBMITTED", "DISCARDED"}
  /\ drafts' = [drafts EXCEPT ![d].status = "DISCARDED", ![d].rev = @ + 1]
  /\ UNCHANGED <<task, jobs, quotes, documents, place, worker, viewer>>

DiscardQuoteDraft(d) ==
  /\ IsOpenTask
  /\ drafts[d].status \notin {"ABSENT", "SUBMITTED", "DISCARDED"}
  /\ drafts' = [drafts EXCEPT ![d].status = "DISCARDED", ![d].rev = @ + 1]
  /\ SupersedeJobs({d})
  /\ UNCHANGED <<task, quotes, documents, place, worker, viewer>>

-----------------------------------------------------------------------------
(* The readers, which mark outdated drafts STALE.  They lock no row, so the *)
(* row a reader writes may not be the row it read.                          *)

IsSlow == "slow_read" \in Faults

GetQuoteDraft(d) ==
  /\ ~IsSlow
  /\ d \in ActiveBefore(task.rev)
  /\ drafts' = [drafts EXCEPT ![d] = MarkedStale(drafts[d])]
  /\ UNCHANGED <<task, jobs, quotes, documents, place, worker, viewer>>

GetReadsDraft(d) ==
  /\ IsSlow /\ viewer.pc = "idle"
  /\ drafts[d].status # "ABSENT"
  /\ viewer' = [pc |-> "get", draft |-> d, active |-> IsActive(drafts[d]),
                rev |-> drafts[d].rev]
  /\ UNCHANGED <<task, drafts, jobs, quotes, documents, place, worker>>

GetReadsTask ==
  /\ viewer.pc = "get"
  /\ LET d == viewer.draft IN
     IF viewer.active /\ drafts[d].base # task.rev
     THEN drafts' = [drafts EXCEPT ![d].status = "STALE",
                                   ![d].rev = viewer.rev + 1]
     ELSE drafts' = drafts
  /\ viewer' = IdleViewer
  /\ UNCHANGED <<task, jobs, quotes, documents, place, worker>>

ListQuoteDrafts ==
  /\ ~IsSlow
  /\ drafts' = StaleRows(ActiveBefore(task.rev))
  /\ drafts' # drafts
  /\ UNCHANGED <<task, jobs, quotes, documents, place, worker, viewer>>

ListReadsTask ==
  /\ IsSlow /\ viewer.pc = "idle"
  /\ viewer' = [IdleViewer EXCEPT !.pc = "list", !.rev = task.rev]
  /\ UNCHANGED <<task, drafts, jobs, quotes, documents, place, worker>>

ListReadsDrafts ==
  /\ viewer.pc = "list"
  /\ drafts' = StaleRows(ActiveBefore(viewer.rev))
  /\ viewer' = IdleViewer
  /\ UNCHANGED <<task, jobs, quotes, documents, place, worker>>

-----------------------------------------------------------------------------
(* Review, correction, submission.                                         *)

IsReviewable(d) ==
  /\ IsOpenTask
  /\ drafts[d].base = task.rev
  /\ drafts[d].status \in {"REVIEW_REQUIRED", "READY_TO_SUBMIT"}
  /\ drafts[d].rev < MaxDraftRevision

\* evaluate_submission_gate: every field has a confirmation or a correction.
AllConfirmed(row) == \A f \in Fields : row.event[f] > 0 \/ row.correction[f] > 0

\* passes is the rest of the gate: values that can be submitted.
StatusAfter(row, passes) ==
  IF AllConfirmed(row) /\ passes THEN "READY_TO_SUBMIT" ELSE "REVIEW_REQUIRED"

\* A correction makes a new version of its field: only it matches from then on.
ReviewQuoteDraft(d, corrected, content, passes) ==
  LET now == drafts[d].rev
      row == [drafts[d] EXCEPT
        !.rev = now + 1,
        !.content = IF corrected = {} THEN @ ELSE content,
        !.event = [f \in Fields |-> IF f \in corrected THEN 0 ELSE now],
        !.correction = [f \in Fields |-> IF f \in corrected THEN now ELSE @[f]]]
  IN
  /\ IsReviewable(d)
  /\ drafts' = [drafts EXCEPT ![d] =
                  [row EXCEPT !.status = StatusAfter(row, passes)]]
  /\ UNCHANGED <<task, jobs, quotes, documents, place, worker, viewer>>

\* The earlier corrections are kept, the confirmations are not.
CorrectQuoteDraft(d, corrected, content, passes) ==
  LET now == drafts[d].rev
      row == [drafts[d] EXCEPT
        !.rev = now + 1,
        !.content = content,
        !.event = Unconfirmed,
        !.correction = [f \in Fields |-> IF f \in corrected THEN now ELSE @[f]]]
  IN
  /\ IsReviewable(d)
  /\ corrected # {}
  /\ drafts' = [drafts EXCEPT ![d] =
                  [row EXCEPT !.status = StatusAfter(row, passes)]]
  /\ UNCHANGED <<task, jobs, quotes, documents, place, worker, viewer>>

\* Mutant: a confirmation of any draft revision counts.
BugBoundToAnyRevision(row) == AllConfirmed(row)

\* Every field was confirmed or corrected by the last request.
IsBound(row) == \A f \in Fields : \/ row.event[f] = row.rev - 1
                                  \/ row.correction[f] = row.rev - 1

HasMaterialChanges(d) ==
  LET quote == drafts[d].replaces IN
  \/ quote = 0
  \/ \E e \in Drafts :
       /\ IsCurrentVersion(e, quote)
       /\ \/ drafts[e].file # drafts[d].file
          \/ drafts[e].status # "SUBMITTED"
          \/ drafts[e].content # drafts[d].content

\* Mutant: the revision of the task is not compared with the draft's base.
BugAnyBase(d) ==
  /\ IsOpenTask
  /\ drafts[d].status = "READY_TO_SUBMIT"
  /\ AllConfirmed(drafts[d])
  /\ IsBound(drafts[d])
  /\ HasMaterialChanges(d)
  /\ ~IsDuplicate(drafts, drafts[d].file, d, drafts[d].replaces)
  /\ drafts[d].replaces # 0 => quotes[drafts[d].replaces].active

IsSubmittable(d) ==
  /\ IsOpenTask
  /\ drafts[d].base = task.rev
  /\ drafts[d].status = "READY_TO_SUBMIT"
  /\ AllConfirmed(drafts[d])
  /\ IsBound(drafts[d])
  /\ HasMaterialChanges(d)
  /\ ~IsDuplicate(drafts, drafts[d].file, d, drafts[d].replaces)
  /\ drafts[d].replaces # 0 => quotes[drafts[d].replaces].active

TargetQuote(d)   == IF drafts[d].replaces = 0 THEN d ELSE drafts[d].replaces
\* Mutant: a replacement starts again with version 1.
BugVersionRestarts(d) == 1
TargetVersion(d) == IF drafts[d].replaces = 0 THEN 1
                    ELSE quotes[drafts[d].replaces].version + 1

RecordSubmission(d) ==
  LET quote == TargetQuote(d)
      version == TargetVersion(d)
  IN
  /\ AdvanceRevision
  /\ quotes' = [quotes EXCEPT ![quote] = [version |-> version, active |-> TRUE]]
  /\ documents' = [documents EXCEPT ![d] = [quote |-> quote, version |-> version,
                                            latest |-> drafts[d].content]]
  /\ drafts' = [drafts EXCEPT ![d].status = "SUBMITTED", ![d].rev = @ + 1]

SubmitQuoteDraft(d) ==
  /\ IsSubmittable(d) /\ place[d] = "draft"
  /\ RecordSubmission(d)
  /\ place' = [place EXCEPT ![d] = "final"]
  /\ UNCHANGED <<jobs, worker, viewer>>

\* The commit was done, but the handler sees an error and moves the file back.
SubmitLosesAnswer(d) ==
  /\ "lost_commit" \in Faults
  /\ IsSubmittable(d) /\ place[d] = "draft"
  /\ RecordSubmission(d)
  /\ UNCHANGED <<jobs, place, worker, viewer>>

\* Mutant: the commit before the move, and the process dies in between.
BugMovesLast(d) ==
  /\ "submit_crash" \in Faults
  /\ IsSubmittable(d) /\ place[d] = "draft"
  /\ RecordSubmission(d)
  /\ UNCHANGED <<jobs, place, worker, viewer>>

\* The process dies after the move: nothing is committed.
SubmitCrashes(d) ==
  /\ "submit_crash" \in Faults
  /\ IsSubmittable(d) /\ place[d] = "draft"
  /\ place' = [place EXCEPT ![d] = "final"]
  /\ UNCHANGED <<task, drafts, jobs, quotes, documents, worker, viewer>>

\* draft_file_missing: refused, and the file found at its final path is moved
\* back by the handler of the refusal.
SubmitPutsFileBack(d) ==
  /\ IsSubmittable(d) /\ place[d] = "final"
  /\ place' = [place EXCEPT ![d] = "draft"]
  /\ UNCHANGED <<task, drafts, jobs, quotes, documents, worker, viewer>>

-----------------------------------------------------------------------------
(* The handlers that change the task under an open draft.                  *)

\* update_requirement and apply_decision_scenario.
ReplaceRequirement ==
  /\ AdvanceRevision
  /\ drafts' = StaleRows(Active)
  /\ SupersedeJobs(Active)
  /\ UNCHANGED <<quotes, documents, place, worker, viewer>>

AbandonTask ==
  /\ IsOpenTask
  /\ task.rev < MaxRevision
  /\ task' = [rev |-> task.rev + 1, abandoned |-> TRUE]
  /\ drafts' = StaleRows(Active)
  /\ SupersedeJobs(Drafts)
  /\ UNCHANGED <<quotes, documents, place, worker, viewer>>

DeactivateQuote(q) ==
  /\ CanBeReplaced(q)
  /\ \A d \in Drafts : IsActive(drafts[d]) => drafts[d].replaces # q
  /\ AdvanceRevision
  /\ quotes' = [quotes EXCEPT ![q].active = FALSE]
  /\ UNCHANGED <<drafts, jobs, documents, place, worker, viewer>>

ReactivateQuote(q) ==
  /\ quotes[q].version > 0 /\ ~quotes[q].active
  /\ AdvanceRevision
  /\ quotes' = [quotes EXCEPT ![q].active = TRUE]
  /\ UNCHANGED <<drafts, jobs, documents, place, worker, viewer>>

\* correct_fields and answer_issue: a quote's fields change in the workflow.
CorrectFields(d, content) ==
  /\ d \in Submitted
  /\ IsCurrentVersion(d, documents[d].quote)
  /\ quotes[documents[d].quote].active
  /\ AdvanceRevision
  /\ documents' = [documents EXCEPT ![d].latest = content]
  /\ UNCHANGED <<drafts, jobs, quotes, place, worker, viewer>>

\* Supplier history or compliance evidence: only the revision advances.
OtherInputChange ==
  /\ AdvanceRevision
  /\ UNCHANGED <<drafts, jobs, quotes, documents, place, worker, viewer>>

UserAction ==
  \/ \E d, q \in Drafts \cup {0}, file \in Files :
       d # 0 /\ UploadQuoteDraft(d, file, q)
  \/ \E d, source \in Drafts : CreateQuoteRevisionDraft(d, source)
  \/ \E d \in Drafts : \/ DiscardQuoteDraft(d)
                       \/ GetQuoteDraft(d)
                       \/ GetReadsDraft(d)
                       \/ SubmitQuoteDraft(d)
                       \/ SubmitLosesAnswer(d)
                       \/ SubmitCrashes(d)
                       \/ SubmitPutsFileBack(d)
                       \/ DeactivateQuote(d)
                       \/ ReactivateQuote(d)
  \/ \E d \in Drafts, corrected \in SUBSET Fields, content \in Contents,
        passes \in BOOLEAN :
       \/ ReviewQuoteDraft(d, corrected, content, passes)
       \/ CorrectQuoteDraft(d, corrected, content, passes)
  \/ \E d \in Drafts, content \in Contents : CorrectFields(d, content)
  \/ ListQuoteDrafts
  \/ GetReadsTask
  \/ ListReadsTask
  \/ ListReadsDrafts
  \/ ReplaceRequirement
  \/ AbandonTask
  \/ OtherInputChange

-----------------------------------------------------------------------------
(* The worker.  A draft's only job is claimed once: its attempts never      *)
(* reach their limit.                                                       *)

Pending == {d \in Drafts : jobs[d] = "PENDING"}

Poll(d) ==
  /\ worker.pc = "idle"
  /\ d \in Pending
  /\ \A e \in Pending : d <= e
  /\ worker' = [pc |-> "polled", draft |-> d]
  /\ UNCHANGED <<task, drafts, jobs, quotes, documents, place, viewer>>

IsClaimable(d) == jobs[d] = "PENDING" /\ drafts[d].base = task.rev

ClaimQuoteDraftJob ==
  /\ worker.pc = "polled"
  /\ IsClaimable(worker.draft)
  /\ jobs' = [jobs EXCEPT ![worker.draft] = "RUNNING"]
  /\ drafts' = [drafts EXCEPT ![worker.draft].status = "PROCESSING"]
  /\ worker' = [worker EXCEPT !.pc = "parsing"]
  /\ UNCHANGED <<task, quotes, documents, place, viewer>>

\* STALE and SUPERSEDED are assigned and then rolled back by the exception.
ClaimRefused ==
  /\ worker.pc = "polled"
  /\ ~IsClaimable(worker.draft)
  /\ worker' = IdleWorker
  /\ UNCHANGED <<task, drafts, jobs, quotes, documents, place, viewer>>

\* Neither this nor the failure below looks at the status of the draft or of
\* the job, or at the task's revision.
CompleteQuoteDraftJob(content) ==
  /\ worker.pc = "parsing"
  /\ place[worker.draft] = "draft"
  /\ drafts' = [drafts EXCEPT ![worker.draft] =
                  [@ EXCEPT !.status = "REVIEW_REQUIRED", !.content = content,
                            !.event = Unconfirmed, !.correction = Unconfirmed]]
  /\ jobs' = [jobs EXCEPT ![worker.draft] = "SUCCEEDED"]
  /\ worker' = IdleWorker
  /\ UNCHANGED <<task, quotes, documents, place, viewer>>

\* Mutant: the draft fails, its job does not.
BugJobNotFailed ==
  /\ worker.pc = "parsing"
  /\ drafts' = [drafts EXCEPT ![worker.draft].status = "FAILED"]
  /\ worker' = IdleWorker
  /\ UNCHANGED <<task, jobs, quotes, documents, place, viewer>>

FailQuoteDraftJob ==
  /\ worker.pc = "parsing"
  /\ jobs' = [jobs EXCEPT ![worker.draft] = "FAILED"]
  /\ drafts' = [drafts EXCEPT ![worker.draft].status = "FAILED"]
  /\ worker' = IdleWorker
  /\ UNCHANGED <<task, quotes, documents, place, viewer>>

WorkerCrashes ==
  /\ "worker_crash" \in Faults
  /\ worker.pc # "idle"
  /\ worker' = IdleWorker
  /\ UNCHANGED <<task, drafts, jobs, quotes, documents, place, viewer>>

WorkerStep ==
  \/ \E d \in Drafts : Poll(d)
  \/ ClaimQuoteDraftJob
  \/ ClaimRefused
  \/ \E content \in Contents : CompleteQuoteDraftJob(content)
  \/ FailQuoteDraftJob

Next == UserAction \/ WorkerStep \/ WorkerCrashes

Spec == Init /\ [][Next]_vars

-----------------------------------------------------------------------------
(* Properties.                                                             *)

\* A queued parse job belongs to a draft that waits for it, or that a reader
\* or a new requirement made STALE: discarding, failing or submitting a draft
\* (discard_quote_draft, fail_quote_draft_job) leaves none behind for
\* claim_quote_draft_job to revive.
QueuedDraftIsOpen ==
  \A d \in Drafts : jobs[d] = "PENDING" =>
    drafts[d].status \in {"PROCESSING", "STALE"}

\* Two drafts begun at the same task revision are never both submitted
\* (submit_quote_draft): what the second reviewer saw no longer holds.
OneSubmissionPerRevision ==
  \A d, e \in Submitted : drafts[d].base = drafts[e].base => d = e

\* The versions of a quote are 1 .. its current version, each of exactly one
\* document (submit_quote_draft, through replacement_quote_id).
VersionChain ==
  \A q \in Drafts :
    /\ {documents[d].version : d \in Versions(q)} = 1 .. quotes[q].version
    /\ \A d, e \in Versions(q) :
         documents[d].version = documents[e].version => d = e

\* No file is the document of two quotes of the task (_raise_if_duplicate_quote),
\* whatever was discarded, parsed late or replaced in between.
OneQuotePerFile ==
  \A d, e \in Submitted :
    drafts[d].file = drafts[e].file => documents[d].quote = documents[e].quote

\* Of a submitted draft, every field was confirmed or corrected by the one
\* request before its submission (submit_quote_draft): earlier confirmations,
\* dropped or carried by a correction, do not count.
SubmittedWasConfirmed ==
  \A d \in Drafts : drafts[d].status = "SUBMITTED" =>
    \A f \in Fields : \/ drafts[d].event[f] = drafts[d].rev - 2
                      \/ drafts[d].correction[f] = drafts[d].rev - 2

\* The file of a Document row is where the row says (submit_quote_draft),
\* also when the process died inside an earlier attempt to submit it.
DocumentInPlace == \A d \in Submitted : place[d] = "final"

\* The quotes of the task as a comparison sees them.
CurrentVersions == [q \in Drafts |-> quotes[q].version]
ActiveQuotes    == {q \in Drafts : quotes[q].active}
DocumentOf(d)   == [quote |-> documents[d].quote, version |-> documents[d].version,
                    file |-> drafts[d].file]
QuoteDocuments  == {DocumentOf(d) : d \in Submitted}

Register == INSTANCE QuoteRegister WITH
              Quotes    <- Drafts,
              revision  <- task.rev,
              closed    <- task.abandoned,
              versions  <- CurrentVersions,
              active    <- ActiveQuotes,
              documents <- QuoteDocuments

\* Whatever users, readers, the worker and faults do to drafts, the quotes of
\* the task are a register of versions, each added in one step that is a
\* revision of the task (submit_quote_draft).
ImplementsRegister == Register!Spec
=============================================================================
