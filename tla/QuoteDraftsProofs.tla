------------------------- MODULE QuoteDraftsProofs -------------------------
(***************************************************************************)
(* For every value of the constants of QuoteDrafts: its types, and the     *)
(* safety properties.  Each rests on Frame: what any step does to the rows *)
(* the property speaks of.                                                 *)
(***************************************************************************)
EXTENDS QuoteDrafts, TLAPS

-----------------------------------------------------------------------------
(* Type correctness.                                                       *)

\* What is marked STALE stays well typed and keeps its file, base and target.
LEMMA MarkedStaleType ==
  ASSUME NEW row \in DraftRow
  PROVE  /\ MarkedStale(row) \in DraftRow
         /\ MarkedStale(row).status = "STALE"
         /\ MarkedStale(row).file = row.file
         /\ MarkedStale(row).base = row.base
         /\ MarkedStale(row).replaces = row.replaces
  <1>1. row.rev + 1 \in Nat
    BY DEF DraftRow
  <1>2. PICK stale \in DraftStatuses : stale = "STALE"
    BY DEF DraftStatuses
  <1>3. PICK rev \in Nat :
          MarkedStale(row) = [row EXCEPT !.status = stale, !.rev = rev]
    BY <1>1, <1>2 DEF MarkedStale
  <1> DEFINE new == [row EXCEPT !.status = stale, !.rev = rev]
  <1>4. /\ new \in DraftRow /\ new.status = stale /\ new.file = row.file
        /\ new.base = row.base /\ new.replaces = row.replaces
    BY <1>2, <1>3 DEF DraftRow
  <1> HIDE DEF new
  <1> QED BY <1>2, <1>3, <1>4 DEF new

LEMMA StaleRowsType ==
  ASSUME TypeOK, NEW outdated
  PROVE  /\ StaleRows(outdated) \in [Drafts -> DraftRow]
         /\ \A d \in Drafts :
              /\ d \notin outdated => StaleRows(outdated)[d] = drafts[d]
              /\ d \in outdated =>
                   /\ StaleRows(outdated)[d].status = "STALE"
                   /\ StaleRows(outdated)[d].file = drafts[d].file
                   /\ StaleRows(outdated)[d].base = drafts[d].base
                   /\ StaleRows(outdated)[d].replaces = drafts[d].replaces
  <1>1. \A d \in Drafts : drafts[d] \in DraftRow
    BY DEF TypeOK
  <1> QED BY <1>1, MarkedStaleType DEF StaleRows

LEMMA NewDraftType ==
  ASSUME TypeOK, NEW file \in Files \cup {"none"},
         NEW quote \in Drafts \cup {0}
  PROVE  /\ NewDraft(file, quote) \in DraftRow
         /\ NewDraft(file, quote).status = "PROCESSING"
         /\ NewDraft(file, quote).file = file
         /\ NewDraft(file, quote).base = task.rev
         /\ NewDraft(file, quote).replaces = quote
  <1>1. task.rev \in Revisions
    BY DEF TypeOK
  <1>2. "PROCESSING" \in DraftStatuses
    BY DEF DraftStatuses, ActiveStatuses
  <1>3. Unconfirmed \in [Fields -> Nat]
    BY DEF Unconfirmed
  <1> QED BY <1>1, <1>2, <1>3 DEF NewDraft, DraftRow

LEMMA CarriedType ==
  ASSUME TypeOK, NEW d \in Drafts, NEW fields
  PROVE  /\ Carried(d, fields) \in DraftRow
         /\ Carried(d, fields).status = "READY_TO_SUBMIT"
         /\ Carried(d, fields).file = drafts[d].file
         /\ Carried(d, fields).base = task.rev
         /\ Carried(d, fields).replaces = documents[d].quote
  <1>1. task.rev \in Revisions
    BY DEF TypeOK
  <1>2. "READY_TO_SUBMIT" \in DraftStatuses
    BY DEF DraftStatuses, ActiveStatuses
  <1>3. /\ drafts[d].file \in Files \cup {"none"}
        /\ documents[d].quote \in Drafts \cup {0}
        /\ documents[d].latest \in Contents \cup {"none"}
    BY DEF TypeOK, DraftRow, DocumentRow
  <1>4. /\ [f \in Fields |-> 1] \in [Fields -> Nat]
        /\ [f \in Fields |-> IF f \in fields THEN 1 ELSE 0] \in [Fields -> Nat]
    OBVIOUS
  <1> QED BY <1>1, <1>2, <1>3, <1>4 DEF Carried, DraftRow

LEMMA SupersedeJobsType ==
  ASSUME TypeOK, NEW affected, SupersedeJobs(affected)
  PROVE  jobs' \in [Drafts -> JobStatuses]
  BY DEF TypeOK, SupersedeJobs, JobStatuses

LEMMA AdvanceRevisionType ==
  ASSUME TypeOK, AdvanceRevision
  PROVE  /\ task' \in [rev : Revisions, abandoned : BOOLEAN]
         /\ task'.rev = task.rev + 1
  BY BoundsAssumption DEF TypeOK, AdvanceRevision, Revisions

-----------------------------------------------------------------------------
(* What every step keeps: the file, the base revision and the target of a   *)
(* draft, and the documents, unless the step submits a draft.               *)

IsSuccessor(row, new) ==
  /\ row.status # "ABSENT" => /\ new.status # "ABSENT"
                              /\ new.file = row.file
                              /\ new.base = row.base
                              /\ new.replaces = row.replaces
  /\ \/ new.replaces = row.replaces
     \/ new.replaces = 0
     \/ quotes[new.replaces].version > 0

DraftsOK == /\ drafts' \in [Drafts -> DraftRow]
            /\ \A d \in Drafts : IsSuccessor(drafts[d], drafts'[d])

KeepsSubmissions ==
  \A d \in Drafts : /\ documents'[d].quote = documents[d].quote
                    /\ documents'[d].version = documents[d].version
                    /\ quotes'[d].version = quotes[d].version

Submits == \E d \in Drafts : /\ IsSubmittable(d)
                             /\ place[d] = "draft"
                             /\ RecordSubmission(d)

\* Replacing one row by a successor of it.
LEMMA OneRow ==
  ASSUME TypeOK, NEW d, NEW row,
         d \in Drafts => row \in DraftRow /\ IsSuccessor(drafts[d], row),
         drafts' = [drafts EXCEPT ![d] = row]
  PROVE  DraftsOK
  <1>1. drafts \in [Drafts -> DraftRow]
    BY DEF TypeOK
  <1>2. \A e \in Drafts : drafts'[e] = IF e = d THEN row ELSE drafts[e]
    BY <1>1
  <1>3. drafts' \in [Drafts -> DraftRow]
    BY <1>1, <1>2
  <1> QED BY <1>2, <1>3 DEF DraftsOK, IsSuccessor

\* A new status and a new revision make a successor.
LEMMA NewStatus ==
  ASSUME TypeOK, NEW d \in Drafts, NEW status \in DraftStatuses \ {"ABSENT"},
         NEW rev \in Nat
  PROVE  /\ [drafts[d] EXCEPT !.status = status, !.rev = rev] \in DraftRow
         /\ IsSuccessor(drafts[d],
              [drafts[d] EXCEPT !.status = status, !.rev = rev])
  <1>1. drafts[d] \in DraftRow
    BY DEF TypeOK
  <1>2. status \in DraftStatuses /\ status # "ABSENT"
    OBVIOUS
  <1> QED BY <1>1, <1>2 DEF DraftRow, IsSuccessor

LEMMA StaleRowsKeep ==
  ASSUME TypeOK, NEW outdated
  PROVE  \A d \in Drafts : IsSuccessor(drafts[d], StaleRows(outdated)[d])
  BY StaleRowsType DEF IsSuccessor

LEMMA StaleRowsStep ==
  ASSUME TypeOK, NEW outdated, drafts' = StaleRows(outdated)
  PROVE  DraftsOK
  BY StaleRowsType, StaleRowsKeep DEF DraftsOK

\* Of the types, those of the tables other than drafts.
OthersOK ==
  /\ task' \in [rev : Revisions, abandoned : BOOLEAN]
  /\ jobs' \in [Drafts -> JobStatuses]
  /\ quotes' \in [Drafts -> QuoteRow]
  /\ documents' \in [Drafts -> DocumentRow]
  /\ place' \in [Drafts -> {"nowhere", "draft", "final"}]
  /\ worker' \in WorkerState
  /\ viewer' \in ViewerState

\* What a step of the code does to the rows the safety properties speak of.
Frame == /\ DraftsOK /\ OthersOK
         /\ task'.rev >= task.rev
         /\ Submits \/ KeepsSubmissions

LEMMA SameDrafts == ASSUME TypeOK, UNCHANGED drafts PROVE DraftsOK
  BY DEF TypeOK, DraftsOK, IsSuccessor

LEMMA SameSubmissions ==
  ASSUME UNCHANGED <<documents, quotes>> PROVE KeepsSubmissions
  BY DEF KeepsSubmissions

LEMMA RevisionIsNat == ASSUME TypeOK PROVE task.rev \in Nat
  BY BoundsAssumption DEF TypeOK, Revisions

LEMMA UploadQuoteDraftFrame ==
  ASSUME TypeOK, NEW d \in Drafts, NEW file \in Files,
         NEW quote \in Drafts \cup {0}, UploadQuoteDraft(d, file, quote)
  PROVE  Frame
  <1> DEFINE rows == StaleRows(ActiveBefore(task.rev))
  <1>1. drafts[d].status = "ABSENT" /\ drafts' = [rows EXCEPT ![d] = NewDraft(file, quote)]
    BY DEF UploadQuoteDraft, IsNext
  <1>2. rows \in [Drafts -> DraftRow]
    BY StaleRowsType
  <1>3. \A e \in Drafts : IsSuccessor(drafts[e], rows[e])
    BY StaleRowsKeep
  <1> HIDE DEF rows
  <1>4. \A e \in Drafts : drafts'[e] = IF e = d THEN NewDraft(file, quote) ELSE rows[e]
    BY <1>1, <1>2
  <1>5. drafts' \in [Drafts -> DraftRow]
    BY <1>1, <1>2, NewDraftType
  <1>6. IsSuccessor(drafts[d], NewDraft(file, quote))
    <2>1. NewDraft(file, quote).replaces = quote
      BY NewDraftType
    <2>2. quote = 0 \/ quotes[quote].version > 0
      BY DEF UploadQuoteDraft, CanBeReplaced
    <2> QED BY <1>1, <2>1, <2>2 DEF IsSuccessor
  <1>7. DraftsOK
    BY <1>3, <1>4, <1>5, <1>6 DEF DraftsOK
  <1>8. OthersOK
    BY DEF TypeOK, OthersOK, UploadQuoteDraft, JobStatuses
  <1> QED BY <1>7, <1>8, SameSubmissions, RevisionIsNat DEF Frame, UploadQuoteDraft

LEMMA CreateQuoteRevisionDraftFrame ==
  ASSUME TypeOK, NEW d \in Drafts, NEW source \in Drafts,
         CreateQuoteRevisionDraft(d, source)
  PROVE  Frame
  <1>1. drafts[d].status = "ABSENT"
    BY DEF CreateQuoteRevisionDraft, IsNext
  <1>2. documents[source].quote \in Drafts \cup {0}
    BY DEF TypeOK, DocumentRow
  <1>3. drafts[source].file \in Files \cup {"none"}
    BY DEF TypeOK, DraftRow
  <1>4. PICK row \in DraftRow : /\ drafts' = [drafts EXCEPT ![d] = row]
                                /\ row.replaces = documents[source].quote
    BY <1>2, <1>3, NewDraftType, CarriedType DEF CreateQuoteRevisionDraft
  <1>5. quotes[documents[source].quote].version > 0
    BY DEF CreateQuoteRevisionDraft, CanBeReplaced
  <1>6. IsSuccessor(drafts[d], row)
    BY <1>1, <1>4, <1>5 DEF IsSuccessor
  <1>7. DraftsOK
    BY <1>4, <1>6, OneRow
  <1>8. OthersOK
    BY DEF TypeOK, OthersOK, CreateQuoteRevisionDraft, JobStatuses
  <1> QED BY <1>7, <1>8, SameSubmissions, RevisionIsNat
          DEF Frame, CreateQuoteRevisionDraft

LEMMA OneStatus ==
  ASSUME TypeOK, NEW d, NEW status \in DraftStatuses \ {"ABSENT"},
         NEW rev \in Nat,
         drafts' = [drafts EXCEPT ![d] =
                      [drafts[d] EXCEPT !.status = status, !.rev = rev]]
  PROVE  DraftsOK
  BY NewStatus, OneRow

LEMMA DiscardQuoteDraftFrame ==
  ASSUME TypeOK, NEW d \in Drafts, DiscardQuoteDraft(d)
  PROVE  Frame
  <1>1. drafts[d].rev + 1 \in Nat
    BY DEF TypeOK, DraftRow
  <1>2. "DISCARDED" \in DraftStatuses \ {"ABSENT"}
    BY DEF DraftStatuses
  <1>3. drafts' = [drafts EXCEPT ![d] = [drafts[d] EXCEPT
                     !.status = "DISCARDED", !.rev = drafts[d].rev + 1]]
    BY DEF DiscardQuoteDraft, TypeOK
  <1>4. DraftsOK
    BY <1>1, <1>2, <1>3, OneStatus
  <1>5. OthersOK
    BY SupersedeJobsType DEF TypeOK, OthersOK, DiscardQuoteDraft
  <1> QED BY <1>4, <1>5, SameSubmissions, RevisionIsNat
          DEF Frame, DiscardQuoteDraft

LEMMA ReaderFrame ==
  ASSUME TypeOK,
         \/ \E d \in Drafts : GetQuoteDraft(d) \/ GetReadsDraft(d)
         \/ GetReadsTask \/ ListQuoteDrafts \/ ListReadsTask
         \/ ListReadsDrafts
  PROVE  Frame
  <1>1. ASSUME NEW d \in Drafts, GetQuoteDraft(d) PROVE DraftsOK
    <2>1. drafts[d] \in DraftRow
      BY DEF TypeOK
    <2>2. IsSuccessor(drafts[d], MarkedStale(drafts[d]))
      BY <2>1, MarkedStaleType DEF IsSuccessor
    <2> QED BY <1>1, <2>1, <2>2, MarkedStaleType, OneRow DEF GetQuoteDraft
  <1>2. ASSUME GetReadsTask PROVE DraftsOK
    <2>1. CASE drafts' = drafts
      BY <2>1, SameDrafts
    <2>2. CASE drafts' # drafts
      <3>1. viewer.rev + 1 \in Nat
        BY DEF TypeOK, ViewerState
      <3>2. "STALE" \in DraftStatuses \ {"ABSENT"}
        BY DEF DraftStatuses
      <3>3. drafts' = [drafts EXCEPT ![viewer.draft] =
                         [drafts[viewer.draft] EXCEPT
                            !.status = "STALE", !.rev = viewer.rev + 1]]
        BY <1>2, <2>2 DEF GetReadsTask, TypeOK
      <3> QED BY <3>1, <3>2, <3>3, OneStatus
    <2> QED BY <2>1, <2>2
  <1>3. ASSUME ListQuoteDrafts \/ ListReadsDrafts PROVE DraftsOK
    BY <1>3, StaleRowsStep DEF ListQuoteDrafts, ListReadsDrafts
  <1>4. DraftsOK
    BY <1>1, <1>2, <1>3, SameDrafts DEF GetReadsDraft, ListReadsTask
  <1>5. OthersOK
    <2>1. ASSUME NEW d \in Drafts, GetReadsDraft(d) PROVE viewer' \in ViewerState
      BY <2>1 DEF GetReadsDraft, TypeOK, ViewerState, DraftRow, IsActive
    <2>2. ASSUME ListReadsTask PROVE viewer' \in ViewerState
      BY <2>2, RevisionIsNat DEF ListReadsTask, ViewerState, IdleViewer
    <2>3. IdleViewer \in ViewerState
      BY DEF IdleViewer, ViewerState
    <2>4. viewer' \in ViewerState
      BY <2>1, <2>2, <2>3 DEF GetQuoteDraft, GetReadsTask, ListQuoteDrafts,
         ListReadsDrafts, TypeOK
    <2> QED BY <2>4 DEF OthersOK, TypeOK, GetQuoteDraft, GetReadsDraft,
                GetReadsTask, ListQuoteDrafts, ListReadsTask, ListReadsDrafts
  <1>6. UNCHANGED <<task, documents, quotes>>
    BY DEF GetQuoteDraft, GetReadsDraft, GetReadsTask, ListQuoteDrafts,
           ListReadsTask, ListReadsDrafts
  <1> QED BY <1>4, <1>5, <1>6, SameSubmissions, RevisionIsNat DEF Frame

\* A review or a correction writes a well-typed successor.
LEMMA ReviewedRow ==
  ASSUME TypeOK, NEW d \in Drafts,
         NEW content \in Contents \cup {"none"},
         NEW event \in [Fields -> Nat], NEW correction \in [Fields -> Nat],
         NEW status \in DraftStatuses \ {"ABSENT"},
         drafts' = [drafts EXCEPT ![d] =
           [[drafts[d] EXCEPT !.rev = drafts[d].rev + 1, !.content = content,
              !.event = event, !.correction = correction]
              EXCEPT !.status = status]]
  PROVE  DraftsOK
  <1> DEFINE row == [[drafts[d] EXCEPT !.rev = drafts[d].rev + 1,
                        !.content = content, !.event = event,
                        !.correction = correction] EXCEPT !.status = status]
  <1>1. drafts[d] \in DraftRow
    BY DEF TypeOK
  <1>2. drafts[d].rev + 1 \in Nat /\ status \in DraftStatuses /\ status # "ABSENT"
    BY <1>1 DEF DraftRow
  <1>3. row \in DraftRow
    BY <1>1, <1>2 DEF DraftRow
  <1>4. IsSuccessor(drafts[d], row)
    BY <1>1, <1>2 DEF IsSuccessor, DraftRow
  <1> HIDE DEF row
  <1> QED BY <1>3, <1>4, OneRow DEF row

LEMMA StatusAfterType ==
  ASSUME NEW row, NEW passes \in BOOLEAN
  PROVE  StatusAfter(row, passes) \in DraftStatuses \ {"ABSENT"}
  BY DEF StatusAfter, DraftStatuses, ActiveStatuses

LEMMA ReviewFrame ==
  ASSUME TypeOK, NEW d \in Drafts, NEW corrected \in SUBSET Fields,
         NEW content \in Contents, NEW passes \in BOOLEAN,
         \/ ReviewQuoteDraft(d, corrected, content, passes)
         \/ CorrectQuoteDraft(d, corrected, content, passes)
  PROVE  Frame
  <1> DEFINE now == drafts[d].rev
             kept(c) == [f \in Fields |-> IF f \in corrected THEN now ELSE c[f]]
             confirmed == [f \in Fields |-> IF f \in corrected THEN 0 ELSE now]
  <1>1. /\ now \in Nat /\ drafts[d].content \in Contents \cup {"none"}
        /\ kept(drafts[d].correction) \in [Fields -> Nat]
        /\ confirmed \in [Fields -> Nat] /\ Unconfirmed \in [Fields -> Nat]
    BY DEF TypeOK, DraftRow, Unconfirmed
  <1>2. ASSUME ReviewQuoteDraft(d, corrected, content, passes) PROVE DraftsOK
    <2>1. PICK status \in DraftStatuses \ {"ABSENT"} :
      drafts' = [drafts EXCEPT ![d] =
        [[drafts[d] EXCEPT !.rev = now + 1,
           !.content = IF corrected = {} THEN drafts[d].content ELSE content,
           !.event = confirmed, !.correction = kept(drafts[d].correction)]
           EXCEPT !.status = status]]
      BY <1>2, StatusAfterType DEF ReviewQuoteDraft
    <2>2. (IF corrected = {} THEN drafts[d].content ELSE content)
             \in Contents \cup {"none"}
      BY <1>1
    <2> QED BY <1>1, <2>1, <2>2, ReviewedRow
  <1>3. ASSUME CorrectQuoteDraft(d, corrected, content, passes) PROVE DraftsOK
    <2>1. PICK status \in DraftStatuses \ {"ABSENT"} :
      drafts' = [drafts EXCEPT ![d] =
        [[drafts[d] EXCEPT !.rev = now + 1, !.content = content,
           !.event = Unconfirmed, !.correction = kept(drafts[d].correction)]
           EXCEPT !.status = status]]
      BY <1>3, StatusAfterType DEF CorrectQuoteDraft
    <2> QED BY <1>1, <2>1, ReviewedRow
  <1>4. OthersOK
    BY DEF TypeOK, OthersOK, ReviewQuoteDraft, CorrectQuoteDraft
  <1>5. UNCHANGED <<task, documents, quotes>>
    BY DEF ReviewQuoteDraft, CorrectQuoteDraft
  <1> QED BY <1>2, <1>3, <1>4, <1>5, SameSubmissions, RevisionIsNat DEF Frame

LEMMA RecordSubmissionFrame ==
  ASSUME TypeOK, NEW d \in Drafts, RecordSubmission(d)
  PROVE  /\ DraftsOK
         /\ task' \in [rev : Revisions, abandoned : BOOLEAN]
         /\ task'.rev = task.rev + 1
         /\ quotes' \in [Drafts -> QuoteRow]
         /\ documents' \in [Drafts -> DocumentRow]
  <1>1. drafts[d].rev + 1 \in Nat /\ drafts[d].content \in Contents \cup {"none"}
    BY DEF TypeOK, DraftRow
  <1>2. "SUBMITTED" \in DraftStatuses \ {"ABSENT"}
    BY DEF DraftStatuses
  <1>3. drafts' = [drafts EXCEPT ![d] = [drafts[d] EXCEPT
                     !.status = "SUBMITTED", !.rev = drafts[d].rev + 1]]
    BY DEF RecordSubmission, TypeOK
  <1>4. DraftsOK
    BY <1>1, <1>2, <1>3, OneStatus
  <1>5. TargetQuote(d) \in Drafts /\ TargetVersion(d) \in Nat
    BY DEF TypeOK, DraftRow, QuoteRow, TargetQuote, TargetVersion
  <1>6. quotes' \in [Drafts -> QuoteRow]
    BY <1>5 DEF RecordSubmission, TypeOK, QuoteRow
  <1>7. documents' \in [Drafts -> DocumentRow]
    BY <1>1, <1>5 DEF RecordSubmission, TypeOK, DocumentRow
  <1> QED BY <1>4, <1>6, <1>7, AdvanceRevisionType DEF RecordSubmission

LEMMA SubmitFrame ==
  ASSUME TypeOK, NEW d \in Drafts,
         \/ SubmitQuoteDraft(d) \/ SubmitLosesAnswer(d)
         \/ SubmitCrashes(d) \/ SubmitPutsFileBack(d)
  PROVE  Frame
  <1>1. CASE SubmitQuoteDraft(d) \/ SubmitLosesAnswer(d)
    <2>1. RecordSubmission(d) /\ Submits
      BY <1>1 DEF SubmitQuoteDraft, SubmitLosesAnswer, Submits
    <2>2. UNCHANGED <<jobs, worker, viewer>>
      BY <1>1 DEF SubmitQuoteDraft, SubmitLosesAnswer
    <2>3. place' \in [Drafts -> {"nowhere", "draft", "final"}]
      BY <1>1 DEF SubmitQuoteDraft, SubmitLosesAnswer, TypeOK
    <2>4. OthersOK
      BY <2>1, <2>2, <2>3, RecordSubmissionFrame DEF OthersOK, TypeOK
    <2> QED BY <2>1, <2>4, RecordSubmissionFrame, RevisionIsNat DEF Frame
  <1>2. CASE SubmitCrashes(d) \/ SubmitPutsFileBack(d)
    <2>1. UNCHANGED <<task, drafts, jobs, quotes, documents, worker, viewer>>
      BY <1>2 DEF SubmitCrashes, SubmitPutsFileBack
    <2>2. OthersOK
      BY <1>2, <2>1 DEF SubmitCrashes, SubmitPutsFileBack, OthersOK, TypeOK
    <2> QED BY <2>1, <2>2, SameDrafts, SameSubmissions, RevisionIsNat DEF Frame
  <1> QED BY <1>1, <1>2

LEMMA InputChangeFrame ==
  ASSUME TypeOK,
         \/ ReplaceRequirement \/ AbandonTask \/ OtherInputChange
         \/ \E d \in Drafts :
              \/ DeactivateQuote(d) \/ ReactivateQuote(d)
              \/ \E content \in Contents : CorrectFields(d, content)
  PROVE  Frame
  <1>1. ASSUME ReplaceRequirement \/ AbandonTask
        PROVE  Frame
    <2>1. drafts' = StaleRows(Active)
      BY <1>1 DEF ReplaceRequirement, AbandonTask
    <2>2. UNCHANGED <<quotes, documents, place, worker, viewer>>
      BY <1>1 DEF ReplaceRequirement, AbandonTask
    <2>3. task' \in [rev : Revisions, abandoned : BOOLEAN] /\ task'.rev = task.rev + 1
      <3>1. CASE ReplaceRequirement
        BY <3>1, AdvanceRevisionType DEF ReplaceRequirement
      <3>2. CASE AbandonTask
        BY <3>2, BoundsAssumption DEF AbandonTask, TypeOK, Revisions
      <3> QED BY <1>1, <3>1, <3>2
    <2>4. jobs' \in [Drafts -> JobStatuses]
      BY <1>1, SupersedeJobsType DEF ReplaceRequirement, AbandonTask
    <2>5. DraftsOK
      BY <2>1, StaleRowsStep
    <2>6. OthersOK
      BY <2>2, <2>3, <2>4 DEF OthersOK, TypeOK
    <2> QED BY <2>2, <2>3, <2>5, <2>6, SameSubmissions, RevisionIsNat DEF Frame
  <1>2. ASSUME OtherInputChange
        PROVE  Frame
    <2>1. /\ AdvanceRevision
          /\ UNCHANGED <<drafts, jobs, quotes, documents, place, worker, viewer>>
      BY <1>2 DEF OtherInputChange
    <2>2. OthersOK /\ task'.rev = task.rev + 1
      BY <2>1, AdvanceRevisionType DEF OthersOK, TypeOK
    <2>3. UNCHANGED drafts /\ UNCHANGED <<documents, quotes>>
      BY <2>1
    <2>4. DraftsOK /\ KeepsSubmissions
      BY <2>3, SameDrafts, SameSubmissions
    <2> QED BY <2>2, <2>4, RevisionIsNat DEF Frame
  <1>3. ASSUME NEW d \in Drafts, DeactivateQuote(d) \/ ReactivateQuote(d)
        PROVE  Frame
    <2>1. PICK active \in BOOLEAN : quotes' = [quotes EXCEPT ![d].active = active]
      BY <1>3 DEF DeactivateQuote, ReactivateQuote
    <2>2. UNCHANGED documents
      BY <1>3 DEF DeactivateQuote, ReactivateQuote
    <2>3. quotes' \in [Drafts -> QuoteRow]
          /\ \A q \in Drafts : quotes'[q].version = quotes[q].version
      BY <2>1 DEF TypeOK, QuoteRow
    <2>4. quotes' \in [Drafts -> QuoteRow] /\ KeepsSubmissions
      BY <2>2, <2>3 DEF KeepsSubmissions
    <2>5. OthersOK /\ task'.rev = task.rev + 1 /\ drafts' = drafts
      BY <1>3, <2>4, AdvanceRevisionType
      DEF DeactivateQuote, ReactivateQuote, OthersOK, TypeOK
    <2> QED BY <2>4, <2>5, SameDrafts, RevisionIsNat DEF Frame
  <1>4. ASSUME NEW d \in Drafts, NEW content \in Contents,
               CorrectFields(d, content)
        PROVE  Frame
    <2>1. documents' \in [Drafts -> DocumentRow] /\ KeepsSubmissions
      BY <1>4 DEF CorrectFields, TypeOK, DocumentRow, KeepsSubmissions
    <2>2. OthersOK /\ task'.rev = task.rev + 1 /\ drafts' = drafts
      BY <1>4, <2>1, AdvanceRevisionType DEF CorrectFields, OthersOK, TypeOK
    <2> QED BY <2>1, <2>2, SameDrafts, RevisionIsNat DEF Frame
  <1>5. ASSUME NEW d \in Drafts,
               \/ DeactivateQuote(d) \/ ReactivateQuote(d)
               \/ \E content \in Contents : CorrectFields(d, content)
        PROVE  Frame
    <2>1. CASE DeactivateQuote(d) \/ ReactivateQuote(d)
      BY <2>1, <1>3
    <2>2. CASE \E content \in Contents : CorrectFields(d, content)
      BY <2>2, <1>4
    <2> QED BY <1>5, <2>1, <2>2
  <1>6. \/ ReplaceRequirement \/ AbandonTask
        \/ OtherInputChange
        \/ \E d \in Drafts :
             \/ DeactivateQuote(d) \/ ReactivateQuote(d)
             \/ \E content \in Contents : CorrectFields(d, content)
    OBVIOUS
  <1> QED BY <1>1, <1>2, <1>5, <1>6

LEMMA WorkerFrame ==
  ASSUME TypeOK, WorkerStep \/ WorkerCrashes
  PROVE  Frame
  <1>1. UNCHANGED <<task, quotes, documents, place, viewer>>
    BY DEF WorkerStep, WorkerCrashes, Poll, ClaimQuoteDraftJob, ClaimRefused,
           CompleteQuoteDraftJob, FailQuoteDraftJob
  <1>2. worker' \in WorkerState
    <2>1. IdleWorker \in WorkerState
      BY DEF IdleWorker, WorkerState
    <2>2. CASE \E d \in Drafts : Poll(d)
      BY <2>2 DEF Poll, WorkerState
    <2>3. CASE ClaimQuoteDraftJob
      BY <2>3 DEF ClaimQuoteDraftJob, TypeOK, WorkerState
    <2>4. CASE worker' = IdleWorker
      BY <2>1, <2>4
    <2> QED BY <2>2, <2>3, <2>4 DEF WorkerStep, WorkerCrashes, ClaimRefused,
            CompleteQuoteDraftJob, FailQuoteDraftJob
  <1>3. jobs' \in [Drafts -> JobStatuses]
    BY DEF WorkerStep, WorkerCrashes, Poll, ClaimQuoteDraftJob, ClaimRefused,
           CompleteQuoteDraftJob, FailQuoteDraftJob, TypeOK, JobStatuses
  <1>4. OthersOK
    BY <1>1, <1>2, <1>3 DEF OthersOK, TypeOK
  <1>5. DraftsOK
    <2>1. CASE ClaimQuoteDraftJob \/ FailQuoteDraftJob
      <3>1. PICK status \in {"PROCESSING", "FAILED"} :
        drafts' = [drafts EXCEPT ![worker.draft].status = status]
        BY <2>1 DEF ClaimQuoteDraftJob, FailQuoteDraftJob
      <3>2. status \in DraftStatuses /\ status # "ABSENT"
        BY DEF DraftStatuses, ActiveStatuses
      <3>3. \A row \in DraftRow : /\ [row EXCEPT !.status = status] \in DraftRow
                                  /\ IsSuccessor(row, [row EXCEPT !.status = status])
        BY <3>2 DEF DraftRow, IsSuccessor
      <3>4. drafts' = [drafts EXCEPT ![worker.draft] =
                         [drafts[worker.draft] EXCEPT !.status = status]]
        BY <3>1
      <3>5. drafts \in [Drafts -> DraftRow]
        BY DEF TypeOK
      <3> QED BY <3>3, <3>4, <3>5, OneRow
    <2>2. ASSUME NEW content \in Contents, CompleteQuoteDraftJob(content)
          PROVE  DraftsOK
      <3> DEFINE Done(row) == [row EXCEPT
                   !.status = "REVIEW_REQUIRED", !.content = content,
                   !.event = Unconfirmed, !.correction = Unconfirmed]
      <3>1. /\ "REVIEW_REQUIRED" \in DraftStatuses
            /\ Unconfirmed \in [Fields -> Nat]
        BY DEF DraftStatuses, ActiveStatuses, Unconfirmed
      <3>2. \A row \in DraftRow : /\ Done(row) \in DraftRow
                                  /\ IsSuccessor(row, Done(row))
        BY <3>1 DEF DraftRow, IsSuccessor
      <3>3. drafts' = [drafts EXCEPT ![worker.draft] = Done(drafts[worker.draft])]
        BY <2>2 DEF CompleteQuoteDraftJob
      <3>4. drafts \in [Drafts -> DraftRow]
        BY DEF TypeOK
      <3> HIDE DEF Done
      <3> QED BY <3>2, <3>3, <3>4, OneRow
    <2>3. CASE UNCHANGED drafts
      BY <2>3, SameDrafts
    <2> QED BY <2>1, <2>2, <2>3 DEF WorkerStep, WorkerCrashes, Poll, ClaimRefused
  <1> QED BY <1>1, <1>4, <1>5, SameSubmissions, RevisionIsNat DEF Frame

LEMMA StepFrame == ASSUME TypeOK, [Next]_vars PROVE Frame
  <1>1. CASE UserAction
    BY <1>1, UploadQuoteDraftFrame, CreateQuoteRevisionDraftFrame,
       DiscardQuoteDraftFrame, ReaderFrame, ReviewFrame, SubmitFrame,
       InputChangeFrame DEF UserAction
  <1>2. CASE WorkerStep \/ WorkerCrashes
    BY <1>2, WorkerFrame
  <1>3. CASE UNCHANGED vars
    <2>1. OthersOK
      BY <1>3 DEF vars, OthersOK, TypeOK
    <2> QED BY <1>3, <2>1, SameDrafts, SameSubmissions, RevisionIsNat DEF Frame, vars
  <1> QED BY <1>1, <1>2, <1>3 DEF Next

LEMMA InitTypeOK == Init => TypeOK
  <1>1. AbsentDraft \in DraftRow
    BY DEF AbsentDraft, DraftRow, DraftStatuses, Unconfirmed
  <1>2. /\ AbsentQuote \in QuoteRow /\ AbsentDocument \in DocumentRow
        /\ IdleWorker \in WorkerState /\ IdleViewer \in ViewerState
        /\ "NONE" \in JobStatuses /\ 1 \in Revisions
    BY BoundsAssumption DEF AbsentQuote, QuoteRow, AbsentDocument, DocumentRow,
       IdleWorker, WorkerState, IdleViewer, ViewerState, JobStatuses, Revisions
  <1> QED BY <1>1, <1>2 DEF Init, TypeOK

LEMMA FrameTypeOK == TypeOK /\ Frame => TypeOK'
  BY DEF Frame, DraftsOK, OthersOK, TypeOK

\* The rows of drafts, jobs, quotes and documents keep their types.
THEOREM DraftTypeCorrect == Spec => []TypeOK
  <1>1. TypeOK /\ [Next]_vars => TypeOK'
    BY StepFrame, FrameTypeOK
  <1> QED BY InitTypeOK, <1>1, PTL DEF Spec

-----------------------------------------------------------------------------
(* Submissions: which drafts have a document, and of which quote.          *)

\* A submitted draft was begun before the present revision.
SubmittedBefore ==
  \A d \in Submitted : drafts[d].status # "ABSENT" /\ drafts[d].base < task.rev

\* A draft replaces, and a document belongs to, the quote of a submission.
QuotesAreSubmitted ==
  /\ \A d \in Drafts : drafts[d].replaces # 0 => drafts[d].replaces \in Submitted
  /\ \A d \in Submitted : documents[d].quote \in Submitted

SubmissionInv == /\ TypeOK
                 /\ SubmittedBefore
                 /\ QuotesAreSubmitted
                 /\ VersionChain
                 /\ OneSubmissionPerRevision
                 /\ OneQuotePerFile

LEMMA InitSubmission == Init => SubmissionInv
  <1> SUFFICES ASSUME Init PROVE SubmissionInv
    OBVIOUS
  <1>1. TypeOK
    BY InitTypeOK
  <1>2. Submitted = {} /\ \A q \in Drafts : Versions(q) = {}
    BY DEF Init, Submitted, Versions, AbsentDocument
  <1>3. \A d \in Drafts : drafts[d].replaces = 0 /\ quotes[d].version = 0
    BY DEF Init, AbsentDraft, AbsentQuote
  <1>4. VersionChain
    BY <1>2, <1>3 DEF VersionChain
  <1> QED BY <1>1, <1>2, <1>3, <1>4 DEF SubmissionInv, SubmittedBefore,
          QuotesAreSubmitted, OneSubmissionPerRevision, OneQuotePerFile

\* A quote with a version is of a submission.
LEMMA VersionedIsSubmitted ==
  ASSUME SubmissionInv, NEW q \in Drafts, quotes[q].version > 0
  PROVE  q \in Submitted
  <1>1. quotes[q].version \in Nat
    BY DEF SubmissionInv, TypeOK, QuoteRow
  <1>2. 1 \in 1 .. quotes[q].version
    BY <1>1
  <1>3. \E d \in Versions(q) : documents[d].version = 1
    BY <1>2 DEF SubmissionInv, VersionChain
  <1> QED BY <1>3 DEF SubmissionInv, QuotesAreSubmitted, Versions

\* A step that submits nothing.
LEMMA KeepsSubmissionInv ==
  ASSUME SubmissionInv, Frame, KeepsSubmissions, TypeOK'
  PROVE  SubmissionInv'
  <1>1. /\ Submitted' = Submitted
        /\ \A d \in Drafts : documents'[d].quote = documents[d].quote
        /\ \A d \in Drafts : documents'[d].version = documents[d].version
        /\ \A d \in Drafts : quotes'[d].version = quotes[d].version
    BY DEF KeepsSubmissions, Submitted
  <1>2. \A q : Versions(q)' = Versions(q)
    BY <1>1 DEF Versions, Submitted
  <1>3. \A d \in Submitted : /\ d \in Drafts
                             /\ drafts'[d].status # "ABSENT"
                             /\ drafts'[d].base = drafts[d].base
                             /\ drafts'[d].file = drafts[d].file
    BY DEF Frame, DraftsOK, IsSuccessor, SubmissionInv, SubmittedBefore, Submitted
  <1>4. SubmittedBefore'
    <2>1. \A d \in Submitted : drafts[d].base \in Int
      BY DEF SubmissionInv, TypeOK, DraftRow, Revisions, Submitted
    <2>2. task.rev \in Int /\ task'.rev \in Int /\ task'.rev >= task.rev
      BY DEF SubmissionInv, TypeOK, Revisions, Frame
    <2> QED BY <1>1, <1>3, <2>1, <2>2 DEF SubmissionInv, SubmittedBefore
  <1>5. QuotesAreSubmitted'
    <2>1. ASSUME NEW d \in Drafts, drafts'[d].replaces # 0
          PROVE  drafts'[d].replaces \in Submitted
      <3>1. IsSuccessor(drafts[d], drafts'[d])
        BY DEF Frame, DraftsOK
      <3>2. drafts'[d].replaces \in Drafts
        BY <2>1 DEF TypeOK, DraftRow
      <3> QED BY <2>1, <3>1, <3>2, VersionedIsSubmitted
              DEF IsSuccessor, SubmissionInv, QuotesAreSubmitted
    <2> QED BY <1>1, <1>3, <2>1 DEF SubmissionInv, QuotesAreSubmitted
  <1>6. VersionChain'
    <2>1. ASSUME NEW q \in Drafts
          PROVE  /\ {documents'[d].version : d \in Versions(q)'} = 1 .. quotes'[q].version
                 /\ \A d, e \in Versions(q)' :
                      documents'[d].version = documents'[e].version => d = e
      <3>1. \A d \in Versions(q) : d \in Drafts
        BY DEF Versions, Submitted
      <3>2. {documents'[d].version : d \in Versions(q)'}
              = {documents[d].version : d \in Versions(q)}
        BY <1>1, <1>2, <3>1
      <3> QED BY <1>1, <1>2, <3>1, <3>2 DEF SubmissionInv, VersionChain
    <2> QED BY <2>1 DEF VersionChain
  <1>7. OneSubmissionPerRevision'
    BY <1>1, <1>3 DEF SubmissionInv, OneSubmissionPerRevision
  <1>8. OneQuotePerFile'
    BY <1>1, <1>3 DEF SubmissionInv, OneQuotePerFile
  <1> QED BY <1>4, <1>5, <1>6, <1>7, <1>8 DEF SubmissionInv

\* The step that submits d.
LEMMA SubmitKeepsInv ==
  ASSUME SubmissionInv, Frame, TypeOK', NEW d \in Drafts,
         IsSubmittable(d), RecordSubmission(d)
  PROVE  SubmissionInv'
  <1>1. d \notin Submitted /\ drafts[d].base = task.rev /\ drafts[d].status # "ABSENT"
    <2>1. drafts[d].base = task.rev /\ drafts[d].status = "READY_TO_SUBMIT"
      BY DEF IsSubmittable
    <2>2. task.rev \in Int
      BY DEF SubmissionInv, TypeOK, Revisions
    <2> QED BY <2>1, <2>2 DEF SubmissionInv, SubmittedBefore
  <1>2. \A e \in Drafts : documents[e].quote = d => FALSE
    <2> SUFFICES ASSUME NEW e \in Drafts, documents[e].quote = d PROVE FALSE
      OBVIOUS
    <2>1. e \in Submitted
      BY DEF Submitted, Drafts
    <2> QED BY <1>1, <2>1 DEF SubmissionInv, QuotesAreSubmitted
  <1>3. PICK q \in Drafts : q = TargetQuote(d) /\ q \in Submitted \cup {d}
    <2>1. drafts[d].replaces \in Drafts \cup {0}
      BY DEF SubmissionInv, TypeOK, DraftRow
    <2> QED BY <2>1 DEF TargetQuote, SubmissionInv, QuotesAreSubmitted
  <1>4. PICK v \in Nat : /\ v = TargetVersion(d) /\ v = quotes[q].version + 1
                         /\ quotes[q].version \in Nat
    <2>1. \A r \in Drafts : quotes[r].version \in Nat
      BY DEF SubmissionInv, TypeOK, QuoteRow
    <2>2. quotes[d].version = 0
      BY <1>1, <2>1, VersionedIsSubmitted
    <2> QED BY <1>3, <2>1, <2>2 DEF TargetQuote, TargetVersion
  <1>5. /\ documents'[d].quote = q /\ documents'[d].version = v
        /\ \A e \in Drafts \ {d} : documents'[e] = documents[e]
    BY <1>3, <1>4 DEF RecordSubmission, SubmissionInv, TypeOK
  <1>6. /\ quotes'[q].version = v
        /\ \A r \in Drafts \ {q} : quotes'[r] = quotes[r]
    BY <1>3, <1>4 DEF RecordSubmission, SubmissionInv, TypeOK
  <1>7. task'.rev = task.rev + 1 /\ task.rev \in Int
    BY AdvanceRevisionType DEF RecordSubmission, SubmissionInv, TypeOK, Revisions
  <1>8. Submitted' = Submitted \cup {d}
    BY <1>3, <1>5 DEF Submitted, Drafts
  <1>9. \A e \in Submitted' : /\ e \in Drafts
                              /\ drafts'[e].status # "ABSENT"
                              /\ drafts'[e].base = drafts[e].base
                              /\ drafts'[e].file = drafts[e].file
    BY <1>1, <1>8 DEF Frame, DraftsOK, IsSuccessor, SubmissionInv,
       SubmittedBefore, Submitted
  <1>10. SubmittedBefore'
    <2>1. \A e \in Submitted : drafts[e].base \in Int
      BY DEF SubmissionInv, TypeOK, DraftRow, Revisions, Submitted
    <2>2. \A e \in Submitted : drafts[e].base < task'.rev
      BY <1>7, <2>1 DEF SubmissionInv, SubmittedBefore
    <2>3. drafts[d].base < task'.rev
      BY <1>1, <1>7
    <2> QED BY <1>8, <1>9, <2>2, <2>3 DEF SubmittedBefore
  <1>11. QuotesAreSubmitted'
    <2>1. ASSUME NEW e \in Drafts, drafts'[e].replaces # 0
          PROVE  drafts'[e].replaces \in Submitted
      <3>1. IsSuccessor(drafts[e], drafts'[e])
        BY DEF Frame, DraftsOK
      <3>2. drafts'[e].replaces \in Drafts
        BY <2>1 DEF TypeOK, DraftRow
      <3> QED BY <2>1, <3>1, <3>2, VersionedIsSubmitted
              DEF IsSuccessor, SubmissionInv, QuotesAreSubmitted
    <2>2. \A e \in Submitted : documents'[e].quote \in Submitted'
      BY <1>1, <1>5, <1>8, <1>9 DEF SubmissionInv, QuotesAreSubmitted
    <2>3. documents'[d].quote \in Submitted'
      BY <1>3, <1>5, <1>8
    <2> QED BY <1>8, <2>1, <2>2, <2>3 DEF QuotesAreSubmitted
  <1>12. VersionChain'
    <2>1. \A e \in Submitted : documents'[e].quote = documents[e].quote
      BY <1>1, <1>5 DEF Submitted
    <2>2. Versions(q)' = Versions(q) \cup {d} /\ d \notin Versions(q)
      BY <1>1, <1>5, <1>8, <2>1 DEF Versions
    <2>3. \A r \in Drafts \ {q} : Versions(r)' = Versions(r) /\ d \notin Versions(r)
      BY <1>1, <1>5, <1>8, <2>1 DEF Versions
    <2>4. \A r : \A e \in Versions(r) : e \in Drafts
      BY DEF Versions, Submitted
    <2>5. \A e \in Versions(q) : documents[e].version \in 1 .. quotes[q].version
      BY <1>3 DEF SubmissionInv, VersionChain
    <2>6. {documents'[e].version : e \in Versions(q)'} = 1 .. quotes'[q].version
      <3>1. {documents'[e].version : e \in Versions(q)'}
              = {documents[e].version : e \in Versions(q)} \cup {v}
        BY <1>5, <2>2, <2>4
      <3>2. {documents[e].version : e \in Versions(q)} = 1 .. quotes[q].version
        BY <1>3 DEF SubmissionInv, VersionChain
      <3>3. \A n \in Nat : 1 .. n + 1 = (1 .. n) \cup {n + 1}
        OBVIOUS
      <3>4. 1 .. v = (1 .. quotes[q].version) \cup {v}
        BY <1>4, <3>3
      <3> QED BY <1>6, <3>1, <3>2, <3>4
    <2>7. \A e, f \in Versions(q)' :
            documents'[e].version = documents'[f].version => e = f
      BY <1>3, <1>4, <1>5, <2>2, <2>4, <2>5 DEF SubmissionInv, VersionChain
    <2>8. ASSUME NEW r \in Drafts \ {q}
          PROVE  /\ {documents'[e].version : e \in Versions(r)'} = 1 .. quotes'[r].version
                 /\ \A e, f \in Versions(r)' :
                      documents'[e].version = documents'[f].version => e = f
      <3>1. {documents'[e].version : e \in Versions(r)'}
              = {documents[e].version : e \in Versions(r)}
        BY <1>5, <2>3, <2>4
      <3> QED BY <1>5, <1>6, <2>3, <2>4, <3>1 DEF SubmissionInv, VersionChain
    <2>9. ASSUME NEW r \in Drafts
          PROVE  /\ {documents'[e].version : e \in Versions(r)'} = 1 .. quotes'[r].version
                 /\ \A e, f \in Versions(r)' :
                      documents'[e].version = documents'[f].version => e = f
      <3>1. CASE r = q
        BY <3>1, <2>6, <2>7
      <3>2. CASE r # q
        BY <3>2, <2>8
      <3> QED BY <3>1, <3>2
    <2> QED BY <2>9 DEF VersionChain
  <1>13. OneSubmissionPerRevision'
    <2>1. \A e \in Submitted : drafts[e].base # task.rev
      <3>1. \A e \in Submitted : drafts[e].base \in Int
        BY DEF SubmissionInv, TypeOK, DraftRow, Revisions, Submitted
      <3> QED BY <1>7, <3>1 DEF SubmissionInv, SubmittedBefore
    <2> QED BY <1>1, <1>8, <1>9, <2>1 DEF SubmissionInv, OneSubmissionPerRevision
  <1>14. OneQuotePerFile'
    <2>1. \A e \in Submitted : drafts[e].file = drafts[d].file
                                 => documents[e].quote = drafts[d].replaces
      BY DEF IsSubmittable, IsDuplicate
    <2>2. \A e \in Submitted : documents[e].quote # 0
      BY DEF Submitted
    <2>3. \A e \in Submitted : drafts[e].file = drafts[d].file
                                 => documents[e].quote = q
      BY <1>3, <2>1, <2>2 DEF TargetQuote
    <2>4. \A e \in Submitted : documents'[e] = documents[e]
      BY <1>1, <1>5 DEF Submitted
    <2> QED BY <1>5, <1>8, <1>9, <2>3, <2>4 DEF SubmissionInv, OneQuotePerFile
  <1> QED BY <1>10, <1>11, <1>12, <1>13, <1>14 DEF SubmissionInv

LEMMA NextSubmission == SubmissionInv /\ [Next]_vars => SubmissionInv'
  <1> SUFFICES ASSUME SubmissionInv, [Next]_vars PROVE SubmissionInv'
    OBVIOUS
  <1>1. Frame
    BY StepFrame DEF SubmissionInv
  <1>2. TypeOK'
    BY <1>1, FrameTypeOK DEF SubmissionInv
  <1> QED BY <1>1, <1>2, KeepsSubmissionInv, SubmitKeepsInv DEF Frame, Submits

LEMMA SubmissionCorrect == Spec => []SubmissionInv
  BY InitSubmission, NextSubmission, PTL DEF Spec

\* Two drafts begun at the same task revision are never both submitted.
THEOREM OneSubmissionPerRevisionCorrect == Spec => []OneSubmissionPerRevision
  <1>1. SubmissionInv => OneSubmissionPerRevision
    BY DEF SubmissionInv
  <1> QED BY <1>1, SubmissionCorrect, PTL

\* The versions of every quote are 1 to its current one, each of one document.
THEOREM VersionChainCorrect == Spec => []VersionChain
  <1>1. SubmissionInv => VersionChain
    BY DEF SubmissionInv
  <1> QED BY <1>1, SubmissionCorrect, PTL

\* No file is the document of two quotes.
THEOREM OneQuotePerFileCorrect == Spec => []OneQuotePerFile
  <1>1. SubmissionInv => OneQuotePerFile
    BY DEF SubmissionInv
  <1> QED BY <1>1, SubmissionCorrect, PTL

-----------------------------------------------------------------------------
(* The queue and the confirmations: what a step makes of single rows.      *)

Waits(status) == status \in {"PROCESSING", "STALE"}

QueueInv == TypeOK /\ QueuedDraftIsOpen

\* The jobs are left alone, or only taken out of the queue, and every draft
\* waits still or keeps its status.
LEMMA QueueOnlyShrinks ==
  ASSUME QueueInv, DraftsOK,
         \A d \in Drafts :
           jobs'[d] = "PENDING" =>
             /\ jobs[d] = "PENDING"
             /\ drafts'[d] = drafts[d] \/ Waits(drafts'[d].status)
  PROVE  QueuedDraftIsOpen'
  BY DEF QueueInv, QueuedDraftIsOpen, Waits

LEMMA StaleRowsWait ==
  ASSUME TypeOK, NEW outdated
  PROVE  \A d \in Drafts : \/ StaleRows(outdated)[d] = drafts[d]
                           \/ Waits(StaleRows(outdated)[d].status)
  BY StaleRowsType DEF Waits

\* A new draft: its job is queued, or (carried over) it has none.
LEMMA NewDraftQueue ==
  ASSUME QueueInv, NEW d \in Drafts,
         NEW file \in Files, NEW quote \in Drafts \cup {0}, NEW source \in Drafts,
         \/ UploadQuoteDraft(d, file, quote)
         \/ CreateQuoteRevisionDraft(d, source)
  PROVE  QueuedDraftIsOpen'
  <1>1. \A f \in Files \cup {"none"}, q \in Drafts \cup {0} :
          Waits(NewDraft(f, q).status)
    BY DEF NewDraft, Waits
  <1>2. CASE UploadQuoteDraft(d, file, quote)
    <2>1. PICK rows : /\ rows = StaleRows(ActiveBefore(task.rev))
                      /\ drafts' = [rows EXCEPT ![d] = NewDraft(file, quote)]
                      /\ jobs' = [jobs EXCEPT ![d] = "PENDING"]
      BY <1>2 DEF UploadQuoteDraft
    <2>2. rows \in [Drafts -> DraftRow] /\ jobs \in [Drafts -> JobStatuses]
      BY <2>1, StaleRowsType DEF QueueInv, TypeOK
    <2>3. \A e \in Drafts : rows[e] = drafts[e] \/ Waits(rows[e].status)
      BY <2>1, StaleRowsWait DEF QueueInv
    <2> QED BY <1>1, <2>1, <2>2, <2>3 DEF QueueInv, QueuedDraftIsOpen, Waits
  <1>3. CASE CreateQuoteRevisionDraft(d, source)
    <2>1. jobs \in [Drafts -> JobStatuses] /\ drafts \in [Drafts -> DraftRow]
      BY DEF QueueInv, TypeOK
    <2>2. jobs[d] # "PENDING"
      BY <1>3 DEF CreateQuoteRevisionDraft, IsNext, QueueInv, QueuedDraftIsOpen
    <2>3. PICK row : /\ drafts' = [drafts EXCEPT ![d] = row]
                     /\ \/ jobs' = jobs
                        \/ /\ jobs' = [jobs EXCEPT ![d] = "PENDING"]
                           /\ row.status = "PROCESSING"
      <3>1. CASE jobs' = jobs
        BY <1>3, <3>1 DEF CreateQuoteRevisionDraft
      <3>2. CASE jobs' # jobs
        <4>1. /\ drafts' = [drafts EXCEPT ![d] = NewDraft(drafts[source].file,
                                                          documents[source].quote)]
              /\ jobs' = [jobs EXCEPT ![d] = "PENDING"]
          BY <1>3, <3>2 DEF CreateQuoteRevisionDraft
        <4>2. NewDraft(drafts[source].file, documents[source].quote).status
                = "PROCESSING"
          BY DEF NewDraft
        <4> QED BY <4>1, <4>2
      <3> QED BY <3>1, <3>2
    <2> QED BY <2>1, <2>2, <2>3 DEF QueueInv, QueuedDraftIsOpen
  <1> QED BY <1>2, <1>3

\* A reviewed, corrected or submitted draft has no queued job.
LEMMA ReviewQueue ==
  ASSUME QueueInv, NEW d \in Drafts,
         drafts[d].status \in {"REVIEW_REQUIRED", "READY_TO_SUBMIT"},
         jobs' = jobs, NEW row, drafts' = [drafts EXCEPT ![d] = row]
  PROVE  QueuedDraftIsOpen'
  <1>1. drafts \in [Drafts -> DraftRow]
    BY DEF QueueInv, TypeOK
  <1>2. jobs[d] # "PENDING"
    BY DEF QueueInv, QueuedDraftIsOpen
  <1> QED BY <1>1, <1>2 DEF QueueInv, QueuedDraftIsOpen

LEMMA UserQueue ==
  ASSUME QueueInv, UserAction
  PROVE  QueuedDraftIsOpen'
  <1> USE DEF QueueInv
  <1>1. ASSUME NEW d \in Drafts, NEW q \in Drafts \cup {0}, NEW file \in Files,
               UploadQuoteDraft(d, file, q)
        PROVE  QueuedDraftIsOpen'
    BY <1>1, NewDraftQueue
  <1>2. ASSUME NEW d \in Drafts, NEW source \in Drafts,
               CreateQuoteRevisionDraft(d, source)
        PROVE  QueuedDraftIsOpen'
    BY <1>2, NewDraftQueue, ChoicesAssumption
  <1>3. ASSUME NEW d \in Drafts, DiscardQuoteDraft(d)
        PROVE  QueuedDraftIsOpen'
    <2>1. drafts \in [Drafts -> DraftRow] /\ jobs \in [Drafts -> JobStatuses]
      BY DEF TypeOK
    <2>2. \A e \in Drafts : e # d => drafts'[e] = drafts[e]
      BY <1>3, <2>1 DEF DiscardQuoteDraft
    <2>3. \A e \in Drafts : jobs'[e] = "PENDING" => e # d /\ jobs[e] = "PENDING"
      BY <1>3, <2>1 DEF DiscardQuoteDraft, SupersedeJobs
    <2> QED BY <2>2, <2>3 DEF QueuedDraftIsOpen
  <1>4. ASSUME \/ ListQuoteDrafts \/ ListReadsDrafts
               \/ ReplaceRequirement \/ AbandonTask
        PROVE  QueuedDraftIsOpen'
    <2>1. PICK outdated : drafts' = StaleRows(outdated)
      BY <1>4 DEF ListQuoteDrafts, ListReadsDrafts, ReplaceRequirement, AbandonTask
    <2>2. \A d \in Drafts : jobs'[d] = "PENDING" => jobs[d] = "PENDING"
      BY <1>4 DEF ListQuoteDrafts, ListReadsDrafts, ReplaceRequirement,
         AbandonTask, SupersedeJobs
    <2> QED BY <2>1, <2>2, StaleRowsWait, StaleRowsStep, QueueOnlyShrinks
  <1>5. ASSUME NEW d \in Drafts, GetQuoteDraft(d)
        PROVE  QueuedDraftIsOpen'
    <2>1. drafts \in [Drafts -> DraftRow] /\ MarkedStale(drafts[d]).status = "STALE"
      BY MarkedStaleType DEF TypeOK
    <2> QED BY <1>5, <2>1 DEF GetQuoteDraft, QueuedDraftIsOpen
  <1>6. ASSUME GetReadsTask
        PROVE  QueuedDraftIsOpen'
    <2>1. drafts \in [Drafts -> DraftRow] /\ jobs' = jobs
      BY <1>6 DEF TypeOK, GetReadsTask
    <2>2. CASE drafts' = drafts
      BY <2>1, <2>2 DEF QueuedDraftIsOpen
    <2>3. CASE drafts' = [drafts EXCEPT ![viewer.draft].status = "STALE",
                                        ![viewer.draft].rev = viewer.rev + 1]
      <3>1. \A e \in Drafts : drafts'[e].status \in {drafts[e].status, "STALE"}
        BY <2>1, <2>3 DEF DraftRow
      <3> QED BY <2>1, <3>1 DEF QueuedDraftIsOpen
    <2> QED BY <1>6, <2>2, <2>3 DEF GetReadsTask
  <1>7. ASSUME NEW d \in Drafts, NEW corrected \in SUBSET Fields,
               NEW content \in Contents, NEW passes \in BOOLEAN,
               \/ ReviewQuoteDraft(d, corrected, content, passes)
               \/ CorrectQuoteDraft(d, corrected, content, passes)
        PROVE  QueuedDraftIsOpen'
    BY <1>7, ReviewQueue DEF ReviewQuoteDraft, CorrectQuoteDraft, IsReviewable
  <1>8. ASSUME NEW d \in Drafts, SubmitQuoteDraft(d) \/ SubmitLosesAnswer(d)
        PROVE  QueuedDraftIsOpen'
    <2>1. drafts \in [Drafts -> DraftRow]
      BY DEF TypeOK
    <2>2. drafts' = [drafts EXCEPT ![d] = [drafts[d] EXCEPT
                       !.status = "SUBMITTED", !.rev = drafts[d].rev + 1]]
      BY <1>8, <2>1 DEF SubmitQuoteDraft, SubmitLosesAnswer, RecordSubmission
    <2> QED BY <1>8, <2>2, ReviewQueue
            DEF SubmitQuoteDraft, SubmitLosesAnswer, IsSubmittable
  <1>9. ASSUME UNCHANGED <<drafts, jobs>>
        PROVE  QueuedDraftIsOpen'
    BY <1>9 DEF QueuedDraftIsOpen
  <1> QED BY <1>1, <1>2, <1>3, <1>4, <1>5, <1>6, <1>7, <1>8, <1>9
      DEF UserAction, GetReadsDraft, ListReadsTask, SubmitCrashes,
          SubmitPutsFileBack, DeactivateQuote, ReactivateQuote, CorrectFields,
          OtherInputChange

LEMMA WorkerQueue ==
  ASSUME QueueInv, WorkerStep \/ WorkerCrashes
  PROVE  QueuedDraftIsOpen'
  <1>1. drafts \in [Drafts -> DraftRow] /\ jobs \in [Drafts -> JobStatuses]
    BY DEF QueueInv, TypeOK
  <1>2. ASSUME NEW status \in {"RUNNING", "SUCCEEDED", "FAILED"}, NEW row,
               jobs' = [jobs EXCEPT ![worker.draft] = status],
               drafts' = [drafts EXCEPT ![worker.draft] = row]
        PROVE  QueuedDraftIsOpen'
    BY <1>1, <1>2 DEF QueueInv, QueuedDraftIsOpen
  <1>3. ASSUME UNCHANGED <<drafts, jobs>>
        PROVE  QueuedDraftIsOpen'
    BY <1>3 DEF QueueInv, QueuedDraftIsOpen
  <1>4. ASSUME ClaimQuoteDraftJob PROVE QueuedDraftIsOpen'
    BY <1>2, <1>4 DEF ClaimQuoteDraftJob
  <1>5. ASSUME NEW content \in Contents, CompleteQuoteDraftJob(content)
        PROVE  QueuedDraftIsOpen'
    BY <1>2, <1>5 DEF CompleteQuoteDraftJob
  <1>6. ASSUME FailQuoteDraftJob PROVE QueuedDraftIsOpen'
    BY <1>2, <1>6 DEF FailQuoteDraftJob
  <1> QED BY <1>3, <1>4, <1>5, <1>6
      DEF WorkerStep, WorkerCrashes, Poll, ClaimRefused

\* A queued parse job belongs to a draft that waits for it or is STALE.
THEOREM QueuedDraftIsOpenCorrect == Spec => []QueuedDraftIsOpen
  <1>1. Init => QueueInv
    BY InitTypeOK DEF Init, QueueInv, QueuedDraftIsOpen
  <1>2. QueueInv /\ [Next]_vars => QueueInv'
    <2> SUFFICES ASSUME QueueInv, [Next]_vars PROVE QueueInv'
      OBVIOUS
    <2>1. TypeOK'
      BY StepFrame, FrameTypeOK DEF QueueInv
    <2>2. CASE UNCHANGED vars
      BY <2>1, <2>2 DEF QueueInv, QueuedDraftIsOpen, vars
    <2>3. CASE Next
      BY <2>1, <2>3, UserQueue, WorkerQueue DEF Next, QueueInv
    <2> QED BY <2>2, <2>3
  <1> QED BY <1>1, <1>2, PTL DEF Spec, QueueInv

-----------------------------------------------------------------------------
(* What a submission rests on: the reviewer's request, and the moved file. *)

ConfirmInv == TypeOK /\ SubmittedWasConfirmed

\* Only the step that submits a draft makes a row SUBMITTED.
LEMMA NoNewSubmitted ==
  ASSUME ConfirmInv,
         \A d \in Drafts : \/ drafts'[d] = drafts[d]
                           \/ drafts'[d].status # "SUBMITTED"
  PROVE  SubmittedWasConfirmed'
  BY DEF ConfirmInv, SubmittedWasConfirmed

LEMMA OneUnsubmitted ==
  ASSUME ConfirmInv, NEW d, NEW row, row.status # "SUBMITTED",
         drafts' = [drafts EXCEPT ![d] = row]
  PROVE  SubmittedWasConfirmed'
  <1>1. drafts \in [Drafts -> DraftRow]
    BY DEF ConfirmInv, TypeOK
  <1> QED BY <1>1, NoNewSubmitted

\* A new status other than SUBMITTED, whatever else changes in the row.
LEMMA OneNewStatus ==
  ASSUME ConfirmInv, NEW d, NEW status \in DraftStatuses \ {"SUBMITTED"},
         NEW rev, drafts' = [drafts EXCEPT ![d] =
           [drafts[d] EXCEPT !.status = status, !.rev = rev]]
  PROVE  SubmittedWasConfirmed'
  <1>1. drafts \in [Drafts -> DraftRow]
    BY DEF ConfirmInv, TypeOK
  <1>2. status # "SUBMITTED"
    OBVIOUS
  <1>3. \A row \in DraftRow :
          [row EXCEPT !.status = status, !.rev = rev].status = status
    BY DEF DraftRow
  <1> QED BY <1>1, <1>2, <1>3, NoNewSubmitted

LEMMA SubmitConfirms ==
  ASSUME ConfirmInv, NEW d \in Drafts, IsSubmittable(d), RecordSubmission(d)
  PROVE  SubmittedWasConfirmed'
  <1>1. drafts \in [Drafts -> DraftRow] /\ drafts[d].rev \in Nat
    BY DEF ConfirmInv, TypeOK, DraftRow
  <1>2. \A e \in Drafts : e # d => drafts'[e] = drafts[e]
    BY <1>1 DEF RecordSubmission
  <1>3. /\ drafts'[d].rev = drafts[d].rev + 1
        /\ drafts'[d].event = drafts[d].event
        /\ drafts'[d].correction = drafts[d].correction
    BY <1>1 DEF RecordSubmission, DraftRow
  <1>4. drafts'[d].rev - 2 = drafts[d].rev - 1
    BY <1>1, <1>3
  <1>5. \A f \in Fields : \/ drafts[d].event[f] = drafts[d].rev - 1
                          \/ drafts[d].correction[f] = drafts[d].rev - 1
    BY DEF IsSubmittable, IsBound
  <1>6. \A f \in Fields : \/ drafts'[d].event[f] = drafts'[d].rev - 2
                          \/ drafts'[d].correction[f] = drafts'[d].rev - 2
    BY <1>3, <1>4, <1>5
  <1> QED BY <1>2, <1>6 DEF ConfirmInv, SubmittedWasConfirmed

LEMMA ReviewUnsubmitted ==
  ASSUME ConfirmInv, NEW d \in Drafts, NEW corrected \in SUBSET Fields,
         NEW content \in Contents, NEW passes \in BOOLEAN,
         \/ ReviewQuoteDraft(d, corrected, content, passes)
         \/ CorrectQuoteDraft(d, corrected, content, passes)
  PROVE  SubmittedWasConfirmed'
  <1> DEFINE kept == [f \in Fields |-> IF f \in corrected THEN drafts[d].rev
                                       ELSE drafts[d].correction[f]]
             reviewed == [drafts[d] EXCEPT
               !.rev = drafts[d].rev + 1,
               !.content = IF corrected = {} THEN drafts[d].content ELSE content,
               !.event = [f \in Fields |-> IF f \in corrected THEN 0
                                           ELSE drafts[d].rev],
               !.correction = kept]
             edited == [drafts[d] EXCEPT
               !.rev = drafts[d].rev + 1, !.content = content,
               !.event = Unconfirmed, !.correction = kept]
  <1>1. \A row, p : StatusAfter(row, p) # "SUBMITTED"
    BY DEF StatusAfter
  <1>2. "status" \in DOMAIN drafts[d]
    BY DEF ConfirmInv, TypeOK, DraftRow
  <1>3. "status" \in DOMAIN reviewed /\ "status" \in DOMAIN edited
    BY <1>2
  <1>4. ASSUME NEW row, "status" \in DOMAIN row,
               drafts' = [drafts EXCEPT ![d] =
                            [row EXCEPT !.status = StatusAfter(row, passes)]]
        PROVE  SubmittedWasConfirmed'
    <2>1. [row EXCEPT !.status = StatusAfter(row, passes)].status
            = StatusAfter(row, passes)
      BY <1>4
    <2> QED BY <1>1, <1>4, <2>1, OneUnsubmitted
  <1>5. CASE ReviewQuoteDraft(d, corrected, content, passes)
    <2>1. drafts' = [drafts EXCEPT ![d] =
                       [reviewed EXCEPT !.status = StatusAfter(reviewed, passes)]]
      BY <1>5 DEF ReviewQuoteDraft
    <2> HIDE DEF reviewed
    <2> QED BY <1>3, <1>4, <2>1
  <1>6. CASE CorrectQuoteDraft(d, corrected, content, passes)
    <2>1. drafts' = [drafts EXCEPT ![d] =
                       [edited EXCEPT !.status = StatusAfter(edited, passes)]]
      BY <1>6 DEF CorrectQuoteDraft
    <2> HIDE DEF edited
    <2> QED BY <1>3, <1>4, <2>1
  <1> QED BY <1>5, <1>6

LEMMA NewDraftUnsubmitted ==
  ASSUME ConfirmInv, NEW d \in Drafts,
         NEW file \in Files, NEW quote \in Drafts \cup {0}, NEW source \in Drafts,
         \/ UploadQuoteDraft(d, file, quote)
         \/ CreateQuoteRevisionDraft(d, source)
  PROVE  SubmittedWasConfirmed'
  <1>1. CASE UploadQuoteDraft(d, file, quote)
    <2>1. PICK rows : /\ rows = StaleRows(ActiveBefore(task.rev))
                      /\ drafts' = [rows EXCEPT ![d] = NewDraft(file, quote)]
      BY <1>1 DEF UploadQuoteDraft
    <2>2. rows \in [Drafts -> DraftRow]
      BY <2>1, StaleRowsType DEF ConfirmInv
    <2>3. \A e \in Drafts : rows[e] = drafts[e] \/ rows[e].status = "STALE"
      BY <2>1, StaleRowsType DEF ConfirmInv
    <2>4. NewDraft(file, quote).status = "PROCESSING"
      BY DEF NewDraft
    <2> QED BY <2>1, <2>2, <2>3, <2>4, NoNewSubmitted
  <1>2. CASE CreateQuoteRevisionDraft(d, source)
    <2>1. \A f, q, fields : /\ NewDraft(f, q).status # "SUBMITTED"
                            /\ Carried(source, fields).status # "SUBMITTED"
      BY DEF NewDraft, Carried
    <2>2. PICK row : /\ drafts' = [drafts EXCEPT ![d] = row]
                     /\ row.status # "SUBMITTED"
      BY <1>2, <2>1 DEF CreateQuoteRevisionDraft
    <2> QED BY <2>2, OneUnsubmitted
  <1> QED BY <1>1, <1>2

LEMMA UserConfirmed ==
  ASSUME ConfirmInv, UserAction
  PROVE  SubmittedWasConfirmed'
  <1>1. drafts \in [Drafts -> DraftRow]
    BY DEF ConfirmInv, TypeOK
  <1>2. ASSUME NEW d \in Drafts, NEW q \in Drafts \cup {0}, NEW file \in Files,
               UploadQuoteDraft(d, file, q)
        PROVE  SubmittedWasConfirmed'
    BY <1>2, NewDraftUnsubmitted
  <1>3. ASSUME NEW d \in Drafts, NEW source \in Drafts,
               CreateQuoteRevisionDraft(d, source)
        PROVE  SubmittedWasConfirmed'
    BY <1>3, NewDraftUnsubmitted, ChoicesAssumption
  <1>4. {"DISCARDED", "STALE"} \subseteq DraftStatuses \ {"SUBMITTED"}
    BY DEF DraftStatuses
  <1>5. ASSUME NEW d \in Drafts, DiscardQuoteDraft(d)
        PROVE  SubmittedWasConfirmed'
    <2>1. drafts' = [drafts EXCEPT ![d] = [drafts[d] EXCEPT
                       !.status = "DISCARDED", !.rev = drafts[d].rev + 1]]
      BY <1>1, <1>5 DEF DiscardQuoteDraft
    <2> QED BY <1>4, <2>1, OneNewStatus
  <1>6. ASSUME \/ ListQuoteDrafts \/ ListReadsDrafts
               \/ ReplaceRequirement \/ AbandonTask
        PROVE  SubmittedWasConfirmed'
    <2>1. PICK outdated : drafts' = StaleRows(outdated)
      BY <1>6 DEF ListQuoteDrafts, ListReadsDrafts, ReplaceRequirement, AbandonTask
    <2>2. \A d \in Drafts : drafts'[d] = drafts[d] \/ drafts'[d].status = "STALE"
      BY <2>1, StaleRowsType DEF ConfirmInv
    <2> QED BY <2>2, NoNewSubmitted
  <1>7. ASSUME NEW d \in Drafts, GetQuoteDraft(d)
        PROVE  SubmittedWasConfirmed'
    BY <1>1, <1>7, MarkedStaleType, OneUnsubmitted DEF GetQuoteDraft
  <1>8. ASSUME GetReadsTask
        PROVE  SubmittedWasConfirmed'
    <2>1. CASE drafts' = drafts
      BY <2>1, NoNewSubmitted
    <2>2. CASE drafts' # drafts
      <3>1. drafts' = [drafts EXCEPT ![viewer.draft] = [drafts[viewer.draft]
                         EXCEPT !.status = "STALE", !.rev = viewer.rev + 1]]
        BY <1>1, <1>8, <2>2 DEF GetReadsTask
      <3> QED BY <1>4, <3>1, OneNewStatus
    <2> QED BY <2>1, <2>2
  <1>9. ASSUME NEW d \in Drafts, NEW corrected \in SUBSET Fields,
               NEW content \in Contents, NEW passes \in BOOLEAN,
               \/ ReviewQuoteDraft(d, corrected, content, passes)
               \/ CorrectQuoteDraft(d, corrected, content, passes)
        PROVE  SubmittedWasConfirmed'
    BY <1>9, ReviewUnsubmitted
  <1>10. ASSUME NEW d \in Drafts, SubmitQuoteDraft(d) \/ SubmitLosesAnswer(d)
         PROVE  SubmittedWasConfirmed'
    BY <1>10, SubmitConfirms DEF SubmitQuoteDraft, SubmitLosesAnswer
  <1>11. ASSUME UNCHANGED drafts
         PROVE  SubmittedWasConfirmed'
    BY <1>11, NoNewSubmitted
  <1> QED BY <1>2, <1>3, <1>5, <1>6, <1>7, <1>8, <1>9, <1>10, <1>11
      DEF UserAction, GetReadsDraft, ListReadsTask, SubmitCrashes,
          SubmitPutsFileBack, DeactivateQuote, ReactivateQuote, CorrectFields,
          OtherInputChange

LEMMA WorkerConfirmed ==
  ASSUME ConfirmInv, WorkerStep \/ WorkerCrashes
  PROVE  SubmittedWasConfirmed'
  <1>1. drafts \in [Drafts -> DraftRow]
    BY DEF ConfirmInv, TypeOK
  <1>2. ASSUME NEW status \in {"PROCESSING", "FAILED"},
               drafts' = [drafts EXCEPT ![worker.draft].status = status]
        PROVE  SubmittedWasConfirmed'
    <2>1. status \in DraftStatuses \ {"SUBMITTED"}
      BY DEF DraftStatuses, ActiveStatuses
    <2>2. \A row \in DraftRow : [row EXCEPT !.status = status].status = status
      BY DEF DraftRow
    <2> QED BY <1>1, <1>2, <2>1, <2>2, NoNewSubmitted
  <1>3. ASSUME NEW content \in Contents, CompleteQuoteDraftJob(content)
        PROVE  SubmittedWasConfirmed'
    <2>1. \A row \in DraftRow :
            [row EXCEPT !.status = "REVIEW_REQUIRED", !.content = content,
                        !.event = Unconfirmed, !.correction = Unconfirmed].status
              = "REVIEW_REQUIRED"
      BY DEF DraftRow
    <2> QED BY <1>1, <1>3, <2>1, NoNewSubmitted DEF CompleteQuoteDraftJob
  <1>4. ASSUME UNCHANGED drafts
        PROVE  SubmittedWasConfirmed'
    BY <1>4, NoNewSubmitted
  <1> QED BY <1>2, <1>3, <1>4
      DEF WorkerStep, WorkerCrashes, Poll, ClaimQuoteDraftJob, ClaimRefused,
          FailQuoteDraftJob

\* Every field of a submitted draft was confirmed or corrected by the request
\* before its submission.
THEOREM SubmittedWasConfirmedCorrect == Spec => []SubmittedWasConfirmed
  <1>1. Init => ConfirmInv
    BY InitTypeOK DEF Init, AbsentDraft, ConfirmInv, SubmittedWasConfirmed
  <1>2. ConfirmInv /\ [Next]_vars => ConfirmInv'
    <2> SUFFICES ASSUME ConfirmInv, [Next]_vars PROVE ConfirmInv'
      OBVIOUS
    <2>1. TypeOK'
      BY StepFrame, FrameTypeOK DEF ConfirmInv
    <2>2. CASE UNCHANGED vars
      BY <2>1, <2>2, NoNewSubmitted DEF ConfirmInv, vars
    <2>3. CASE Next
      BY <2>1, <2>3, UserConfirmed, WorkerConfirmed DEF Next, ConfirmInv
    <2> QED BY <2>2, <2>3
  <1> QED BY <1>1, <1>2, PTL DEF Spec, ConfirmInv

PlaceInv == SubmissionInv /\ DocumentInPlace

\* Only files of drafts that are not submitted go back to their draft's path.
LEMMA NoFileLeaves ==
  ASSUME PlaceInv, [Next]_vars, "lost_commit" \notin Faults
  PROVE  \A d \in Submitted : place'[d] = "final"
  <1>1. \A d \in Submitted : /\ d \in Drafts
                             /\ place[d] = "final"
                             /\ drafts[d].status # "ABSENT"
                             /\ drafts[d].base # task.rev
    <2>1. task.rev \in Int /\ \A d \in Drafts : drafts[d].base \in Int
      BY DEF PlaceInv, SubmissionInv, TypeOK, DraftRow, Revisions
    <2> QED BY <2>1 DEF PlaceInv, DocumentInPlace, SubmissionInv, SubmittedBefore,
            Submitted
  <1>2. place \in [Drafts -> {"nowhere", "draft", "final"}]
    BY DEF PlaceInv, SubmissionInv, TypeOK
  <1>3. ASSUME NEW d \in Drafts, place' = [place EXCEPT ![d] = "draft"],
               drafts[d].status = "ABSENT" \/ drafts[d].base = task.rev
        PROVE  \A e \in Submitted : place'[e] = "final"
    BY <1>1, <1>2, <1>3
  <1>4. ASSUME NEW d \in Drafts, place' = [place EXCEPT ![d] = "final"]
        PROVE  \A e \in Submitted : place'[e] = "final"
    BY <1>1, <1>2, <1>4
  <1>5. ASSUME place' = place
        PROVE  \A e \in Submitted : place'[e] = "final"
    BY <1>1, <1>5
  <1>6. ASSUME NEW d \in Drafts, NEW q \in Drafts \cup {0}, NEW file \in Files,
               UploadQuoteDraft(d, file, q)
        PROVE  \A e \in Submitted : place'[e] = "final"
    BY <1>3, <1>6 DEF UploadQuoteDraft, IsNext
  <1>7. ASSUME NEW d \in Drafts, NEW source \in Drafts,
               CreateQuoteRevisionDraft(d, source)
        PROVE  \A e \in Submitted : place'[e] = "final"
    BY <1>3, <1>7 DEF CreateQuoteRevisionDraft, IsNext
  <1>8. ASSUME NEW d \in Drafts,
               SubmitQuoteDraft(d) \/ SubmitCrashes(d) \/ SubmitPutsFileBack(d)
        PROVE  \A e \in Submitted : place'[e] = "final"
    BY <1>3, <1>4, <1>8 DEF SubmitQuoteDraft, SubmitCrashes, SubmitPutsFileBack,
       IsSubmittable
  <1>9. ASSUME NEW d \in Drafts, NEW corrected \in SUBSET Fields,
               NEW content \in Contents, NEW passes \in BOOLEAN,
               \/ ReviewQuoteDraft(d, corrected, content, passes)
               \/ CorrectQuoteDraft(d, corrected, content, passes)
               \/ CorrectFields(d, content)
        PROVE  place' = place
    BY <1>9 DEF ReviewQuoteDraft, CorrectQuoteDraft, CorrectFields
  <1>10. ASSUME NEW d \in Drafts,
                \/ DiscardQuoteDraft(d) \/ GetQuoteDraft(d) \/ GetReadsDraft(d)
                \/ DeactivateQuote(d) \/ ReactivateQuote(d)
         PROVE  place' = place
    BY <1>10 DEF DiscardQuoteDraft, GetQuoteDraft, GetReadsDraft,
       DeactivateQuote, ReactivateQuote
  <1>11. ASSUME \/ GetReadsTask \/ ListQuoteDrafts \/ ListReadsTask
                \/ ListReadsDrafts \/ ReplaceRequirement \/ AbandonTask
                \/ OtherInputChange
         PROVE  place' = place
    BY <1>11 DEF GetReadsTask, ListQuoteDrafts, ListReadsTask, ListReadsDrafts,
       ReplaceRequirement, AbandonTask, OtherInputChange
  <1>12. CASE UserAction
    BY <1>5, <1>6, <1>7, <1>8, <1>9, <1>10, <1>11, <1>12
    DEF UserAction, SubmitLosesAnswer
  <1>13. CASE WorkerStep \/ WorkerCrashes
    BY <1>5, <1>13 DEF WorkerStep, WorkerCrashes, Poll, ClaimQuoteDraftJob,
       ClaimRefused, CompleteQuoteDraftJob, FailQuoteDraftJob
  <1>14. CASE UNCHANGED vars
    BY <1>5, <1>14 DEF vars
  <1> QED BY <1>12, <1>13, <1>14 DEF Next

\* The step that submits d has moved its file.
LEMMA SubmittedNow ==
  ASSUME TypeOK, [Next]_vars, "lost_commit" \notin Faults
  PROVE  \A d \in Submitted' \ Submitted : place'[d] = "final"
  <1>1. ASSUME NEW d \in Drafts, SubmitQuoteDraft(d)
        PROVE  \A e \in Submitted' \ Submitted : place'[e] = "final"
    BY <1>1 DEF SubmitQuoteDraft, RecordSubmission, Submitted, TypeOK
  <1>2. ASSUME NEW d \in Drafts, NEW content \in Contents, CorrectFields(d, content)
        PROVE  Submitted' = Submitted
    BY <1>2 DEF CorrectFields, Submitted, TypeOK, DocumentRow
  <1>3. ASSUME documents' = documents
        PROVE  Submitted' = Submitted
    BY <1>3 DEF Submitted
  <1>4. CASE UserAction
    <2>1. ASSUME NEW d \in Drafts,
                 \/ \E q \in Drafts \cup {0}, file \in Files :
                      UploadQuoteDraft(d, file, q)
                 \/ \E source \in Drafts : CreateQuoteRevisionDraft(d, source)
          PROVE  documents' = documents
      BY <2>1 DEF UploadQuoteDraft, CreateQuoteRevisionDraft
    <2>2. ASSUME NEW d \in Drafts,
                 \/ SubmitCrashes(d) \/ SubmitPutsFileBack(d)
                 \/ DiscardQuoteDraft(d) \/ GetQuoteDraft(d) \/ GetReadsDraft(d)
                 \/ DeactivateQuote(d) \/ ReactivateQuote(d)
          PROVE  documents' = documents
      BY <2>2 DEF SubmitCrashes, SubmitPutsFileBack, DiscardQuoteDraft,
         GetQuoteDraft, GetReadsDraft, DeactivateQuote, ReactivateQuote
    <2>3. ASSUME NEW d \in Drafts, NEW corrected \in SUBSET Fields,
                 NEW content \in Contents, NEW passes \in BOOLEAN,
                 \/ ReviewQuoteDraft(d, corrected, content, passes)
                 \/ CorrectQuoteDraft(d, corrected, content, passes)
          PROVE  documents' = documents
      BY <2>3 DEF ReviewQuoteDraft, CorrectQuoteDraft
    <2>4. ASSUME \/ GetReadsTask \/ ListQuoteDrafts \/ ListReadsTask
                 \/ ListReadsDrafts \/ ReplaceRequirement \/ AbandonTask
                 \/ OtherInputChange
          PROVE  documents' = documents
      BY <2>4 DEF GetReadsTask, ListQuoteDrafts, ListReadsTask, ListReadsDrafts,
         ReplaceRequirement, AbandonTask, OtherInputChange
    <2> QED BY <1>1, <1>2, <1>3, <1>4, <2>1, <2>2, <2>3, <2>4
            DEF UserAction, SubmitLosesAnswer
  <1>5. CASE WorkerStep \/ WorkerCrashes
    BY <1>3, <1>5 DEF WorkerStep, WorkerCrashes, Poll, ClaimQuoteDraftJob,
       ClaimRefused, CompleteQuoteDraftJob, FailQuoteDraftJob
  <1>6. CASE UNCHANGED vars
    BY <1>3, <1>6 DEF vars
  <1> QED BY <1>4, <1>5, <1>6 DEF Next

\* Unless the answer to a commit is lost, the file of every document is where
\* its row says, whatever crashes before that.
THEOREM DocumentInPlaceCorrect ==
  ASSUME "lost_commit" \notin Faults
  PROVE  Spec => []DocumentInPlace
  <1>1. Init => PlaceInv
    BY InitSubmission DEF Init, PlaceInv, DocumentInPlace, Submitted, AbsentDocument
  <1>2. PlaceInv /\ [Next]_vars => PlaceInv'
    <2> SUFFICES ASSUME PlaceInv, [Next]_vars PROVE PlaceInv'
      OBVIOUS
    <2>1. SubmissionInv'
      BY NextSubmission DEF PlaceInv
    <2>2. \A d \in Submitted' : place'[d] = "final"
      BY NoFileLeaves, SubmittedNow DEF PlaceInv, SubmissionInv
    <2> QED BY <2>1, <2>2 DEF PlaceInv, DocumentInPlace
  <1> QED BY <1>1, <1>2, PTL DEF Spec, PlaceInv

-----------------------------------------------------------------------------
(* The register of quotes that drafts implement.                           *)

\* What submits nothing leaves the versions and their documents alone.
LEMMA RegisterKeeps ==
  ASSUME SubmissionInv, Frame, KeepsSubmissions
  PROVE  UNCHANGED <<CurrentVersions, QuoteDocuments>>
  <1>1. Submitted' = Submitted /\ CurrentVersions' = CurrentVersions
    BY DEF KeepsSubmissions, Submitted, CurrentVersions
  <1>2. \A d \in Submitted : DocumentOf(d)' = DocumentOf(d)
    <2>1. \A d \in Submitted : d \in Drafts /\ drafts'[d].file = drafts[d].file
      BY DEF Frame, DraftsOK, IsSuccessor, SubmissionInv, SubmittedBefore, Submitted
    <2> QED BY <2>1 DEF KeepsSubmissions, DocumentOf
  <1>3. QuoteDocuments' = QuoteDocuments
    BY <1>1, <1>2 DEF QuoteDocuments
  <1> QED BY <1>1, <1>3

\* Most steps are about drafts only.
LEMMA RegisterUnseen ==
  ASSUME SubmissionInv, Frame, UNCHANGED <<task, quotes, documents>>
  PROVE  [Register!Next]_(Register!register)
  <1>1. KeepsSubmissions
    BY DEF KeepsSubmissions
  <1>2. UNCHANGED <<CurrentVersions, QuoteDocuments>>
    BY <1>1, RegisterKeeps
  <1>3. ActiveQuotes' = ActiveQuotes
    BY DEF ActiveQuotes
  <1> QED BY <1>2, <1>3 DEF Register!register

\* A submission adds the document of its draft.
LEMMA SubmissionRegisters ==
  ASSUME SubmissionInv, Frame, NEW d \in Drafts, IsSubmittable(d), RecordSubmission(d)
  PROVE  Register!Next
  <1>0. TypeOK
    BY DEF SubmissionInv
  <1>1. d \notin Submitted /\ quotes[d].version = 0
    <2>1. drafts[d].base = task.rev /\ task.rev \in Int
      BY <1>0 DEF IsSubmittable, TypeOK, Revisions
    <2>2. d \notin Submitted
      BY <2>1 DEF SubmissionInv, SubmittedBefore
    <2>3. quotes[d].version \in Nat
      BY <1>0 DEF TypeOK, QuoteRow
    <2> QED BY <2>2, <2>3, VersionedIsSubmitted
  <1>2. PICK target \in Drafts : target = TargetQuote(d)
    BY <1>0 DEF TargetQuote, TypeOK, DraftRow
  <1>3. PICK v \in Nat : v = TargetVersion(d) /\ v = CurrentVersions[target] + 1
    <2>1. \A r \in Drafts : quotes[r].version \in Nat
      BY <1>0 DEF TypeOK, QuoteRow
    <2> QED BY <1>1, <1>2, <2>1 DEF TargetQuote, TargetVersion, CurrentVersions
  <1>4. target \in ActiveQuotes \/ CurrentVersions[target] = 0
    BY <1>1, <1>2 DEF TargetQuote, IsSubmittable, ActiveQuotes, CurrentVersions
  <1>5. PICK doc : doc = [quote |-> target, version |-> v, file |-> drafts[d].file]
    OBVIOUS
  <1>6. /\ documents'[d].quote = target /\ documents'[d].version = v
        /\ \A e \in Drafts \ {d} : documents'[e] = documents[e]
    BY <1>0, <1>2, <1>3 DEF RecordSubmission, TypeOK
  <1>7. quotes' = [quotes EXCEPT ![target] = [version |-> v, active |-> TRUE]]
    BY <1>2, <1>3 DEF RecordSubmission
  <1>8. /\ CurrentVersions' = [CurrentVersions EXCEPT ![target] = v]
        /\ ActiveQuotes' = ActiveQuotes \cup {target}
    <2>1. \A r \in Drafts : quotes'[r] = IF r = target THEN [version |-> v, active |-> TRUE]
                                        ELSE quotes[r]
      BY <1>0, <1>7 DEF TypeOK
    <2>2. \A r \in Drafts :
            /\ quotes'[r].version = (IF r = target THEN v ELSE quotes[r].version)
            /\ quotes'[r].active <=> r = target \/ quotes[r].active
      BY <1>0, <2>1 DEF TypeOK, QuoteRow
    <2>3. CurrentVersions' = [CurrentVersions EXCEPT ![target] = v]
      BY <2>2 DEF CurrentVersions
    <2>4. ActiveQuotes' = ActiveQuotes \cup {target}
      BY <2>2 DEF ActiveQuotes
    <2> QED BY <2>3, <2>4
  <1>9. Submitted' = Submitted \cup {d}
    BY <1>6 DEF Submitted, Drafts
  <1>10. /\ \A e \in Submitted : e \in Drafts /\ e # d /\ drafts'[e].file = drafts[e].file
         /\ drafts'[d].file = drafts[d].file
    BY <1>1 DEF Frame, DraftsOK, IsSuccessor, SubmissionInv, SubmittedBefore, Submitted,
                IsSubmittable
  <1>11. QuoteDocuments' = QuoteDocuments \cup {doc}
    <2>1. DocumentOf(d)' = doc
      BY <1>5, <1>6, <1>10 DEF DocumentOf
    <2>2. \A e \in Submitted : DocumentOf(e)' = DocumentOf(e)
      BY <1>6, <1>10 DEF DocumentOf
    <2> QED BY <1>9, <2>1, <2>2 DEF QuoteDocuments
  <1>12. \A other \in QuoteDocuments : other.file = doc.file => other.quote = doc.quote
    <2>1. ASSUME NEW e \in Submitted, drafts[e].file = drafts[d].file
          PROVE  documents[e].quote = target
      BY <1>2, <2>1 DEF IsSubmittable, IsDuplicate, TargetQuote, Submitted
    <2> QED BY <1>5, <2>1 DEF QuoteDocuments, DocumentOf
  <1>13. /\ ~task.abandoned /\ task'.rev = task.rev + 1
         /\ task'.abandoned = task.abandoned
    BY <1>0 DEF RecordSubmission, AdvanceRevision, IsOpenTask, TypeOK
  <1>14. doc.quote = target /\ doc.version = v
    BY <1>5
  <1>15. Register!Submit(doc)
    BY <1>3, <1>4, <1>8, <1>11, <1>12, <1>13, <1>14 DEF Register!Submit, Register!Advance
  <1>16. doc \in QuoteDocuments'
    BY <1>11
  <1> QED BY <1>15, <1>16 DEF Register!Next

\* Other inputs change: a quote leaves the comparison or comes back, or only
\* the revision advances.
LEMMA InputChangeRegisters ==
  ASSUME SubmissionInv, Frame,
         \/ ReplaceRequirement \/ AbandonTask \/ OtherInputChange
         \/ \E d \in Drafts :
              \/ DeactivateQuote(d) \/ ReactivateQuote(d)
              \/ \E content \in Contents : CorrectFields(d, content)
  PROVE  Register!Next
  <1>0. TypeOK
    BY DEF SubmissionInv
  <1>1. /\ ~task.abandoned /\ task'.rev = task.rev + 1
        /\ AbandonTask \/ task'.abandoned = task.abandoned
        /\ AbandonTask => task'.abandoned = TRUE
    BY <1>0 DEF ReplaceRequirement, AbandonTask, OtherInputChange, DeactivateQuote,
                ReactivateQuote, CorrectFields, AdvanceRevision, IsOpenTask, TypeOK
  <1>2. Register!Advance
    BY <1>1 DEF Register!Advance
  <1>3. KeepsSubmissions
    <2>1. CASE ReplaceRequirement \/ AbandonTask \/ OtherInputChange
      BY <2>1 DEF ReplaceRequirement, AbandonTask, OtherInputChange, KeepsSubmissions
    <2>2. ASSUME NEW d \in Drafts, DeactivateQuote(d) \/ ReactivateQuote(d)
          PROVE  KeepsSubmissions
      BY <1>0, <2>2 DEF DeactivateQuote, ReactivateQuote, KeepsSubmissions, TypeOK, QuoteRow
    <2>3. ASSUME NEW d \in Drafts, NEW content \in Contents, CorrectFields(d, content)
          PROVE  KeepsSubmissions
      BY <1>0, <2>3 DEF CorrectFields, KeepsSubmissions, TypeOK, DocumentRow
    <2> QED BY <2>1, <2>2, <2>3
  <1>4. UNCHANGED <<CurrentVersions, QuoteDocuments>>
    BY <1>3, RegisterKeeps
  <1>5. ASSUME UNCHANGED quotes
        PROVE  Register!Next
    <2>1. ActiveQuotes' = ActiveQuotes
      BY <1>5 DEF ActiveQuotes
    <2>2. Register!Revise \/ Register!Abandon
      BY <1>1, <1>2, <1>4, <2>1 DEF Register!Revise, Register!Abandon
    <2> QED BY <2>2 DEF Register!Next
  <1>6. ASSUME NEW d \in Drafts, DeactivateQuote(d)
        PROVE  Register!Next
    <2>1. \A q \in Drafts : quotes'[q].active <=> quotes[q].active /\ q # d
      BY <1>0, <1>6 DEF DeactivateQuote, TypeOK, QuoteRow
    <2>2. d \in ActiveQuotes /\ ActiveQuotes' = ActiveQuotes \ {d}
      BY <1>6, <2>1 DEF DeactivateQuote, CanBeReplaced, ActiveQuotes
    <2>3. task'.abandoned = task.abandoned
      BY <1>0, <1>6 DEF DeactivateQuote, AdvanceRevision, TypeOK
    <2>4. Register!Deactivate(d)
      BY <1>2, <1>4, <2>2, <2>3 DEF Register!Deactivate
    <2> QED BY <2>4 DEF Register!Next
  <1>7. ASSUME NEW d \in Drafts, ReactivateQuote(d)
        PROVE  Register!Next
    <2>1. \A q \in Drafts : quotes'[q].active <=> quotes[q].active \/ q = d
      BY <1>0, <1>7 DEF ReactivateQuote, TypeOK, QuoteRow
    <2>2. CurrentVersions[d] > 0 /\ ActiveQuotes' = ActiveQuotes \cup {d}
      BY <1>7, <2>1 DEF ReactivateQuote, CurrentVersions, ActiveQuotes
    <2>3. task'.abandoned = task.abandoned
      BY <1>0, <1>7 DEF ReactivateQuote, AdvanceRevision, TypeOK
    <2>4. Register!Reactivate(d)
      BY <1>2, <1>4, <2>2, <2>3 DEF Register!Reactivate
    <2> QED BY <2>4 DEF Register!Next
  <1> QED BY <1>5, <1>6, <1>7
    DEF ReplaceRequirement, AbandonTask, OtherInputChange, CorrectFields

LEMMA StepRegisters ==
  ASSUME SubmissionInv, [Next]_vars
  PROVE  [Register!Next]_(Register!register)
  <1>1. Frame
    BY StepFrame DEF SubmissionInv
  <1>2. CASE UNCHANGED <<task, quotes, documents>>
    BY <1>1, <1>2, RegisterUnseen
  <1>3. ASSUME NEW d \in Drafts, SubmitQuoteDraft(d) \/ SubmitLosesAnswer(d)
        PROVE  Register!Next
    BY <1>1, <1>3, SubmissionRegisters DEF SubmitQuoteDraft, SubmitLosesAnswer
  <1>4. CASE WorkerStep \/ WorkerCrashes \/ UNCHANGED vars
    <2>1. UNCHANGED <<task, quotes, documents>>
      BY <1>4 DEF WorkerStep, WorkerCrashes, Poll, ClaimQuoteDraftJob, ClaimRefused,
                  CompleteQuoteDraftJob, FailQuoteDraftJob, vars
    <2> QED BY <1>2, <2>1
  <1>5. CASE ReplaceRequirement \/ AbandonTask \/ OtherInputChange
    BY <1>1, <1>5, InputChangeRegisters
  <1>6. ASSUME NEW d \in Drafts,
               \/ DeactivateQuote(d) \/ ReactivateQuote(d)
               \/ \E content \in Contents : CorrectFields(d, content)
        PROVE  Register!Next
    BY <1>1, <1>6, InputChangeRegisters
  <1>7. CASE UserAction
    <2>1. ASSUME NEW d \in Drafts, NEW source \in Drafts \cup {0}, NEW file \in Files,
                 UploadQuoteDraft(d, file, source)
          PROVE  UNCHANGED <<task, quotes, documents>>
      BY <2>1 DEF UploadQuoteDraft
    <2>2. ASSUME NEW d \in Drafts, NEW source \in Drafts, CreateQuoteRevisionDraft(d, source)
          PROVE  UNCHANGED <<task, quotes, documents>>
      BY <2>2 DEF CreateQuoteRevisionDraft
    <2>3. ASSUME NEW d \in Drafts,
                 \/ DiscardQuoteDraft(d) \/ GetQuoteDraft(d) \/ GetReadsDraft(d)
                 \/ SubmitCrashes(d) \/ SubmitPutsFileBack(d)
          PROVE  UNCHANGED <<task, quotes, documents>>
      BY <2>3 DEF DiscardQuoteDraft, GetQuoteDraft, GetReadsDraft, SubmitCrashes,
                  SubmitPutsFileBack
    <2>4. ASSUME NEW d \in Drafts, NEW corrected \in SUBSET Fields, NEW content \in Contents,
                 NEW passes \in BOOLEAN,
                 \/ ReviewQuoteDraft(d, corrected, content, passes)
                 \/ CorrectQuoteDraft(d, corrected, content, passes)
          PROVE  UNCHANGED <<task, quotes, documents>>
      BY <2>4 DEF ReviewQuoteDraft, CorrectQuoteDraft
    <2>5. CASE ListQuoteDrafts \/ GetReadsTask \/ ListReadsTask \/ ListReadsDrafts
      BY <1>2, <2>5 DEF ListQuoteDrafts, GetReadsTask, ListReadsTask, ListReadsDrafts
    <2>6. \/ UNCHANGED <<task, quotes, documents>>
          \/ ReplaceRequirement \/ AbandonTask \/ OtherInputChange
          \/ ListQuoteDrafts \/ GetReadsTask \/ ListReadsTask \/ ListReadsDrafts
          \/ \E d \in Drafts :
               \/ SubmitQuoteDraft(d) \/ SubmitLosesAnswer(d)
               \/ DeactivateQuote(d) \/ ReactivateQuote(d)
               \/ \E content \in Contents : CorrectFields(d, content)
      BY <1>7, <2>1, <2>2, <2>3, <2>4 DEF UserAction
    <2> QED BY <1>2, <1>3, <1>5, <1>6, <2>5, <2>6
  <1> QED BY <1>4, <1>7 DEF Next

LEMMA InitRegisters == Init => Register!Init
  <1> SUFFICES ASSUME Init PROVE Register!Init
    OBVIOUS
  <1>1. /\ task.rev = 1 /\ task.abandoned = FALSE
        /\ \A d \in Drafts : /\ quotes[d].version = 0 /\ quotes[d].active = FALSE
                            /\ documents[d].quote = 0
    BY DEF Init, AbsentQuote, AbsentDocument
  <1>2. Submitted = {} /\ ActiveQuotes = {}
    BY <1>1 DEF Submitted, ActiveQuotes
  <1>3. QuoteDocuments = {} /\ CurrentVersions = [q \in Drafts |-> 0]
    BY <1>1, <1>2 DEF QuoteDocuments, CurrentVersions
  <1> QED BY <1>1, <1>2, <1>3 DEF Register!Init

\* Whatever readers, late parses, crashes and lost answers do to drafts: what
\* the comparison sees is a register, to which a submission adds one version
\* of one quote and one revision of the task (submit_quote_draft,
\* deactivate_quote, reactivate_quote, correct_fields).
THEOREM RegisterImplemented == Spec => ImplementsRegister
  <1>1. Spec => []SubmissionInv
    BY SubmissionCorrect
  <1>2. SubmissionInv /\ [Next]_vars => [Register!Next]_(Register!register)
    BY StepRegisters
  <1> QED BY <1>1, <1>2, InitRegisters, PTL DEF Spec, ImplementsRegister, Register!Spec

\* So a quote and a version name one document for everything that compares
\* quotes, and no file speaks for two quotes (_raise_if_duplicate_quote,
\* submit_quote_draft).
THEOREM RegisterIsSound == Spec => []Register!IsSound
  <1> DEFINE Typed == /\ CurrentVersions \in [Drafts -> Nat]
                      /\ \A doc \in QuoteDocuments : doc.quote \in Drafts
             Inv == Typed /\ Register!IsSound
  <1>1. Register!Init => Inv
    BY DEF Register!Init, Register!IsSound
  <1>2. ASSUME Inv, [Register!Next]_(Register!register)
        PROVE  Inv'
    <2>1. CASE UNCHANGED <<CurrentVersions, QuoteDocuments>>
      BY <1>2, <2>1 DEF Register!IsSound
    <2>2. ASSUME NEW doc \in QuoteDocuments', Register!Submit(doc)
          PROVE  Inv'
      <3>1. /\ doc.quote \in Drafts /\ doc.version = CurrentVersions[doc.quote] + 1
            /\ CurrentVersions' = [CurrentVersions EXCEPT ![doc.quote] = doc.version]
            /\ QuoteDocuments' = QuoteDocuments \cup {doc}
            /\ \A other \in QuoteDocuments : other.file = doc.file => other.quote = doc.quote
        BY <2>2 DEF Register!Submit
      <3>2. Typed'
        BY <1>2, <3>1
      <3>3. \A old \in QuoteDocuments' :
              old.version \in 1 .. CurrentVersions'[old.quote]
        BY <1>2, <3>1 DEF Register!IsSound
      <3>4. \A old, other \in QuoteDocuments' :
              /\ old.quote = other.quote /\ old.version = other.version => old = other
              /\ old.file = other.file => old.quote = other.quote
        BY <1>2, <3>1 DEF Register!IsSound
      <3> QED BY <3>2, <3>3, <3>4 DEF Register!IsSound
    <2>3. CASE \E d \in Drafts : Register!Deactivate(d) \/ Register!Reactivate(d)
      BY <2>1, <2>3 DEF Register!Deactivate, Register!Reactivate
    <2>4. CASE Register!Revise \/ Register!Abandon
      BY <2>1, <2>4 DEF Register!Revise, Register!Abandon
    <2> QED BY <1>2, <2>1, <2>2, <2>3, <2>4 DEF Register!Next, Register!register
  <1>3. Inv => Register!IsSound
    OBVIOUS
  <1>4. Register!Spec => []Register!IsSound
    <2> HIDE DEF Inv
    <2> QED BY <1>1, <1>2, <1>3, PTL DEF Register!Spec
  <1> QED BY <1>4, RegisterImplemented, PTL DEF ImplementsRegister
=============================================================================
