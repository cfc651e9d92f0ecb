------------------------- MODULE ComplianceEvidence -------------------------
(***************************************************************************)
(* Evidence, assessments and what is published from them.  Editors replace *)
(* versions of evidence from pages they may have read long ago, days pass, *)
(* clauses of the policy come into force and end, and a run assesses the   *)
(* evidence of its revision for the day on which it began.  A confirmation *)
(* starts another run, which assesses again and publishes only if nothing  *)
(* the user confirmed has changed.                                         *)
(*                                                                         *)
(* Runs, jobs and retries are in module TaskWorkflow; here a run is the    *)
(* current one or none, and what an assessment says is computed in full.   *)
(***************************************************************************)
EXTENDS ComplianceRules

CONSTANTS
  Quotes,    \* active quotes of the task, all of them feasible
  Supplier,  \* quote -> supplier its document names
  Cost,      \* quote -> total cost, in the currency of the requirement
  Currency,  \* currency of the requirement
  Part,      \* manufacturer and part number of the requirement
  Clauses,   \* clauses of the policy the task is bound to
  Facts,     \* evidence an editor may enter
  Editors,   \* pages open at the same time
  MaxDay,      \* bound: days
  MaxEvidence, \* bound: versions of evidence
  MaxRevision  \* bound: task revisions

ASSUME InputsAssumption ==
  /\ Supplier \in [Quotes -> STRING] /\ Cost \in [Quotes -> Nat]
  /\ "none" \notin Quotes
  /\ Facts # {}
  /\ \A f \in Facts : /\ f.quote \in Quotes /\ f.outcome \in {"PASS", "FAIL"}
                      /\ f.from \in Nat /\ f.until \in Nat /\ f.amount \in Int
  \* ExecutableRuleParameters: what is missing never lets a quote pass
  /\ \A c \in Clauses :
       /\ {c.missing, c.expired, c.mismatch} \subseteq {"FAIL", "REVIEW_REQUIRED"}
       /\ c.stage \in {"BEFORE_RECOMMENDATION", "BEFORE_PUBLICATION", "AFTER_SELECTION"}
  /\ MaxDay \in Nat \ {0} /\ MaxEvidence \in Nat /\ MaxRevision \in Nat \ {0}

Days      == 1 .. MaxDay
Versions  == 1 .. MaxEvidence
Revisions == 1 .. MaxRevision

VARIABLES
  today,      \* the day in Singapore
  revision,   \* current_revision of the task
  enabled,    \* the task is bound to a policy
  evidence,   \* ComplianceEvidenceRecord rows, in the order of their creation
  pages,      \* what each editor read: whether it was read at the current revision,
              \* and the version to replace
  run,        \* the current run
  assessment, \* the latest assessment of the revision
  confirmed,  \* the latest confirmation of the revision is about it
  shown,      \* the assessment the user confirmed, at this revision
  result      \* the current result

vars == <<today, revision, enabled, evidence, pages, run, assessment, confirmed,
          shown, result>>

NoEvidence   == [revision |-> 0, version |-> 0, previous |-> 0,
                 facts |-> CHOOSE f \in Facts : TRUE]
NoAssessment == [day |-> 0, evidence |-> {}, enabled |-> FALSE, failed |-> FALSE]
NoRun        == [step |-> "none", day |-> 0, confirmed |-> FALSE, old |-> NoAssessment]
NoResult     == [quote |-> "none", assessment |-> NoAssessment]

Assessment == [day : Days \cup {0}, evidence : SUBSET Versions,
               enabled : BOOLEAN, failed : BOOLEAN]

TypeOK ==
  /\ today \in Days /\ revision \in Revisions /\ enabled \in BOOLEAN
  /\ evidence \in [Versions -> [revision : Revisions \cup {0}, version : Versions \cup {0},
                                previous : Versions \cup {0}, facts : Facts]]
  /\ pages \in [Editors -> [current : BOOLEAN, previous : Versions \cup {0}]]
  /\ run \in [step : {"none", "queued", "begun", "confirmed", "waiting", "published"},
              day : Days \cup {0}, confirmed : BOOLEAN, old : Assessment]
  /\ assessment \in Assessment /\ confirmed \in BOOLEAN /\ shown \in Assessment
  /\ result \in [quote : Quotes \cup {"none"}, assessment : Assessment]

Init ==
  /\ today = 1 /\ revision = 1 /\ enabled \in BOOLEAN
  /\ evidence = [v \in Versions |-> NoEvidence]
  /\ pages = [e \in Editors |-> [current |-> TRUE, previous |-> 0]]
  /\ run = NoRun
  /\ assessment = NoAssessment /\ confirmed = FALSE
  /\ shown = NoAssessment
  /\ result = NoResult

-----------------------------------------------------------------------------
(* What an assessment says.                                                *)

Saved == {v \in Versions : evidence[v].version > 0}
Replaced(seen) == {evidence[v].previous : v \in seen}

\* The versions that a run of this revision finds and nothing in them replaces.
InForce(at) == LET seen == {v \in Saved : evidence[v].revision <= at}
               IN  seen \ Replaced(seen)

\* The clauses of the catalogue on a day; retrieval does not narrow them.
Applicable(day) == {c \in Clauses : c.from <= day /\ (c.until = NoDate \/ c.until > day)}
Catalogue(a) == IF a.enabled THEN Applicable(a.day) ELSE {}

PolicyErrors(a) == /\ a.enabled
                   /\ \/ Catalogue(a) = {}
                      \/ a.failed
                      \/ \E c \in Catalogue(a) : ~c.executable

Checks(a, q) ==
  LET facts == {evidence[v].facts : v \in a.evidence}
      own   == {f \in facts : f.quote = q}
  IN  [c \in Catalogue(a) |->
         EvaluateRule(c, own, Supplier[q], Part, Cost[q], Currency, a.day)]

Eligibility(a, q) == EligibilityStatus(Checks(a, q), a.enabled, PolicyErrors(a))

Blockers(a, q) == LET checks == Checks(a, q)
                  IN  {c \in DOMAIN checks : BlocksPublication(c, checks[c])}

\* Mutant: only the evidence is compared.
BugSameEvidence(old, new) == old.evidence = new.evidence

\* The assessment the user confirmed, and the one made again by the run that
\* the confirmation started.
SaysTheSame(old, new) ==
  /\ old.evidence = new.evidence
  /\ Catalogue(old) = Catalogue(new)
  /\ PolicyErrors(old) = PolicyErrors(new)
  /\ \A q \in Quotes : Checks(old, q) = Checks(new, q)

-----------------------------------------------------------------------------
(* The task and its runs.                                                  *)

NextDay == /\ today < MaxDay
           /\ today' = today + 1
           /\ UNCHANGED <<revision, enabled, evidence, pages, run, assessment, confirmed,
                          shown, result>>

Outdated == [e \in Editors |-> [pages[e] EXCEPT !.current = FALSE]]

\* A new revision has no assessment, no confirmation and no result.
Revise(next) == /\ revision' = revision + 1
                /\ assessment' = NoAssessment /\ confirmed' = FALSE
                /\ result' = NoResult /\ shown' = NoAssessment
                /\ run' = next
                /\ pages' = Outdated

Queued == [NoRun EXCEPT !.step = "queued"]

\* Any other handler that changes the inputs, the policy binding among them.
ChangeInputs == /\ revision < MaxRevision
                /\ \E bound \in BOOLEAN : enabled' = bound
                /\ Revise(NoRun)
                /\ UNCHANGED <<today, evidence>>

StartCompliance == /\ run.step \notin {"queued", "begun", "confirmed"}
                   /\ run' = Queued
                   /\ result' = NoResult
                   /\ UNCHANGED <<today, revision, enabled, evidence, pages, assessment,
                                  confirmed, shown>>

\* _load_context fixes the day; _prepare_compliance reads the stage.
Begin == /\ run.step = "queued"
         /\ run' = [step |-> "begun", day |-> today, confirmed |-> confirmed,
                    old |-> assessment]
         /\ UNCHANGED <<today, revision, enabled, evidence, pages, assessment, confirmed,
                        shown, result>>

\* With a confirmation the run reuses the retrievals of the assessment it is
\* about; otherwise each of them may fail.
Assess ==
  \E failed \in IF run.confirmed THEN {run.old.failed} ELSE BOOLEAN :
    LET new  == [day |-> run.day, evidence |-> InForce(revision), enabled |-> enabled,
                 failed |-> failed]
        kept == run.confirmed /\ SaysTheSame(run.old, new)
    IN  /\ run.step = "begun"
        /\ assessment' = new
        /\ confirmed' = kept
        /\ run' = [NoRun EXCEPT !.step = IF kept THEN "confirmed" ELSE "waiting"]
        /\ UNCHANGED <<today, revision, enabled, evidence, pages, shown, result>>

\* The assessment is copied to the revision that the confirmation begins.
ConfirmCompliance ==
  /\ revision < MaxRevision
  /\ assessment # NoAssessment /\ ~confirmed
  /\ ~PolicyErrors(assessment)
  /\ revision' = revision + 1
  /\ confirmed' = TRUE
  /\ shown' = assessment
  /\ run' = Queued
  /\ pages' = Outdated
  /\ result' = NoResult
  /\ UNCHANGED <<today, enabled, evidence, assessment>>

\* The quotes the ranking may choose from: VERIFIED_FIRST.
Candidates(a) ==
  LET left == {q \in Quotes : Eligibility(a, q) # "EXCLUDED"}
      best == {q \in left : Eligibility(a, q) = "VERIFIED"}
  IN  IF ~a.enabled THEN Quotes ELSE IF best # {} THEN best ELSE left

Cheapest(quotes) == {q \in quotes : \A p \in quotes : Cost[q] <= Cost[p]}

\* bind_assessment_comparison takes a recommendation back that is blocked.
Publish ==
  /\ run.step = "confirmed"
  /\ run' = [run EXCEPT !.step = "published"]
  /\ LET chosen == Cheapest(Candidates(assessment))
     IN  IF chosen = {} \/ \E q \in chosen : Blockers(assessment, q) # {}
         THEN result' = [quote |-> "none", assessment |-> assessment]
         ELSE \E q \in chosen : result' = [quote |-> q, assessment |-> assessment]
  /\ UNCHANGED <<today, revision, enabled, evidence, pages, assessment, confirmed, shown>>

\* The job of the run fails; the task can be started again.
Fail == /\ run.step \in {"begun", "confirmed"}
        /\ run' = NoRun
        /\ UNCHANGED <<today, revision, enabled, evidence, pages, assessment, confirmed,
                       shown, result>>

-----------------------------------------------------------------------------
(* Evidence.                                                               *)

OpenPage(e, v) ==
  /\ v \in Saved \cup {0}
  /\ pages' = [pages EXCEPT ![e] = [current |-> TRUE, previous |-> v]]
  /\ UNCHANGED <<today, revision, enabled, evidence, run, assessment, confirmed, shown,
                 result>>

\* After a refused request the page takes the new revision and keeps its form.
RefreshRevision(e) ==
  /\ ~pages[e].current
  /\ pages' = [pages EXCEPT ![e].current = TRUE]
  /\ UNCHANGED <<today, revision, enabled, evidence, run, assessment, confirmed, shown,
                 result>>

\* Mutant: what has replaced a version already is not looked up.
BugNotLookedUp(v) == FALSE

IsReplaced(v) == \E w \in Saved : evidence[w].previous = v

\* save_compliance_evidence, which starts a run or leaves that to the user.
SaveEvidence(e, facts) ==
  LET old == pages[e].previous
      new == Cardinality(Saved) + 1
  IN  /\ revision < MaxRevision /\ new <= MaxEvidence
      /\ pages[e].current
      /\ old # 0 => /\ evidence[old].facts.quote = facts.quote
                    /\ evidence[old].facts.control = facts.control
                    /\ ~IsReplaced(old)
      /\ evidence' = [evidence EXCEPT ![new] =
                        [revision |-> revision + 1, previous |-> old, facts |-> facts,
                         version |-> IF old = 0 THEN 1 ELSE evidence[old].version + 1]]
      /\ Revise(Queued) \/ Revise(NoRun)
      /\ UNCHANGED <<today, enabled>>

Next ==
  \/ NextDay \/ ChangeInputs \/ StartCompliance \/ ConfirmCompliance
  \/ Begin \/ Assess \/ Publish \/ Fail
  \/ \E e \in Editors : \/ \E v \in Versions \cup {0} : OpenPage(e, v)
                        \/ RefreshRevision(e)
                        \/ \E f \in Facts : SaveEvidence(e, f)

Spec == Init /\ [][Next]_vars

-----------------------------------------------------------------------------
(* Properties.                                                             *)

\* The versions of a piece of evidence form one chain, whatever pages they were
\* saved from: two versions never replace the same one, and a version is of the
\* quote and control of its predecessor (compliance.py save_compliance_evidence).
ChainIsLinear ==
  \A v \in Saved : LET p == evidence[v].previous IN
    p # 0 => /\ evidence[v].version = evidence[p].version + 1
             /\ evidence[v].facts.quote = evidence[p].facts.quote
             /\ \A w \in Saved : evidence[w].previous = p => w = v

\* What is published rests on the very findings the user confirmed, although the
\* run that publishes assessed them again on a later day
\* (compliance.py revalidate_compliance_confirmation).
PublishedAsConfirmed ==
  result # NoResult =>
    /\ result.assessment.evidence = shown.evidence
    /\ \A q \in Quotes : Checks(result.assessment, q) = Checks(shown, q)

\* Reference definition: on the day, the material says so, all of it, and none of
\* it was replaced, expired or not yet valid.
Supports(v, clause, day) ==
  LET f == evidence[v].facts
  IN  /\ f.outcome = "PASS" /\ f.covered
      /\ f.from <= day /\ (f.until # NoDate => day <= f.until)
      /\ clause.control = "AMOUNT_APPROVAL" => /\ f.currency = Currency
                                               /\ Cost[f.quote] <= f.amount

IsAbout(v, clause, q) == LET f == evidence[v].facts
                         IN  /\ f.quote = q /\ f.control = clause.control
                             /\ f.supplier = Supplier[q]

IsSupported(clause, q, day) ==
  LET about == {v \in Saved : IsAbout(v, clause, q) /\ ~IsReplaced(v)}
  IN  about # {} /\ \A v \in about : Supports(v, clause, day)

\* A recommendation called verified has every required qualification, and one
\* above a limit has its approval: unreplaced, undisputed and valid on the day of
\* the assessment (rules/compliance.py evaluate_compliance_rule, compliance.py
\* bind_assessment_comparison).  Controls of the stage AFTER_SELECTION are not
\* asked for before a recommendation.
RecommendedIsSupported ==
  LET q == result.quote
      a == result.assessment
  IN  q # "none" =>
        \A c \in {k \in Catalogue(a) : k.stage # "AFTER_SELECTION"} :
          IF c.control = "AMOUNT_APPROVAL"
          THEN IsTriggered(c, Cost[q]) => IsSupported(c, q, a.day)
          ELSE Eligibility(a, q) = "VERIFIED" => IsSupported(c, q, a.day)
=============================================================================
