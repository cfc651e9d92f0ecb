---------------------- MODULE ComplianceEvidenceProofs ----------------------
(***************************************************************************)
(* For any quotes, clauses and evidence, any number of pages and as many   *)
(* days, versions and revisions as one likes: the versions of a piece of   *)
(* evidence form one chain; what is published rests on the findings the    *)
(* user confirmed; and a recommendation has the qualifications and the     *)
(* approval that the policy asks for.                                      *)
(*                                                                         *)
(* The argument: evidence is saved for a new revision, and a new revision  *)
(* has no assessment, no confirmation and no result.  So an assessment is  *)
(* always of the evidence in force, and the findings of a confirmed one    *)
(* are those the user saw, carried over by the comparison of the run that  *)
(* assessed them again.  What is then not blocked has passed.              *)
(***************************************************************************)
EXTENDS ComplianceEvidence, FiniteSetTheorems, TLAPS

-----------------------------------------------------------------------------
(* The invariant.                                                          *)

\* The versions are numbered as they are saved; none is replaced by an older one,
\* and all of them are of a revision that has begun.
VersionsHold ==
  /\ \E n \in 0 .. MaxEvidence : Saved = 1 .. n
  /\ \A v \in Saved : /\ evidence[v].previous \in Saved \cup {0}
                      /\ evidence[v].previous < v
                      /\ evidence[v].version <= v
                      /\ evidence[v].revision <= revision

PagesHold == \A e \in Editors : pages[e].previous \in Saved \cup {0}

\* What is in force once every version is of a revision that has begun.
Unreplaced == Saved \ Replaced(Saved)

\* What an assessment finds in the evidence that is saved.
Found(ev, a, q) ==
  LET facts == {ev[v].facts : v \in a.evidence}
      own   == {f \in facts : f.quote = q}
  IN  [c \in Catalogue(a) |->
         EvaluateRule(c, own, Supplier[q], Part, Cost[q], Currency, a.day)]

SameFindings(ev, a, b) == /\ a.evidence = b.evidence
                          /\ \A q \in Quotes : Found(ev, a, q) = Found(ev, b, q)

AssessmentHolds ==
  /\ assessment # NoAssessment => assessment.evidence = Unreplaced
  /\ confirmed => /\ assessment # NoAssessment
                  /\ ~PolicyErrors(assessment)
                  /\ SameFindings(evidence, assessment, shown)

\* A run that found a confirmation has the assessment it was about.
RunHolds ==
  /\ run.step = "confirmed" => confirmed
  /\ run.step = "begun" => run.day # 0
  /\ run.step = "begun" /\ run.confirmed =>
       ~PolicyErrors(run.old) /\ SameFindings(evidence, run.old, shown)

ResultHolds ==
  result # NoResult => /\ run.step = "published" /\ confirmed
                       /\ result.assessment = assessment

EvidenceInv == /\ TypeOK /\ VersionsHold /\ PagesHold /\ ChainIsLinear
               /\ AssessmentHolds /\ RunHolds /\ ResultHolds

-----------------------------------------------------------------------------
(* Types.                                                                  *)

LEMMA ConstantsTyped ==
  /\ NoAssessment \in Assessment /\ NoAssessment.day = 0
  /\ NoRun.step = "none" /\ NoRun.confirmed = FALSE /\ NoRun.day = 0
  /\ NoRun \in [step : {"none", "queued", "begun", "confirmed", "waiting", "published"},
                day : Days \cup {0}, confirmed : BOOLEAN, old : Assessment]
  /\ Queued \in [step : {"none", "queued", "begun", "confirmed", "waiting", "published"},
                 day : Days \cup {0}, confirmed : BOOLEAN, old : Assessment]
  /\ Queued.step = "queued"
  /\ NoResult \in [quote : Quotes \cup {"none"}, assessment : Assessment]
  /\ NoEvidence \in [revision : Revisions \cup {0}, version : Versions \cup {0},
                     previous : Versions \cup {0}, facts : Facts]
  /\ NoEvidence.version = 0
<1>1. (CHOOSE f \in Facts : TRUE) \in Facts
  BY InputsAssumption DEF InputsAssumption
<1>2. NoAssessment \in Assessment /\ NoAssessment.day = 0
  BY DEF NoAssessment, Assessment
<1>3. /\ NoRun.step = "none" /\ NoRun.confirmed = FALSE /\ NoRun.day = 0
      /\ NoRun \in [step : {"none", "queued", "begun", "confirmed", "waiting", "published"},
                    day : Days \cup {0}, confirmed : BOOLEAN, old : Assessment]
  BY <1>2 DEF NoRun
<1>4. /\ Queued \in [step : {"none", "queued", "begun", "confirmed", "waiting", "published"},
                     day : Days \cup {0}, confirmed : BOOLEAN, old : Assessment]
      /\ Queued.step = "queued"
  BY <1>3 DEF Queued
<1>5. NoResult \in [quote : Quotes \cup {"none"}, assessment : Assessment]
  BY <1>2 DEF NoResult
<1>6. /\ NoEvidence \in [revision : Revisions \cup {0}, version : Versions \cup {0},
                         previous : Versions \cup {0}, facts : Facts]
      /\ NoEvidence.version = 0
  BY <1>1 DEF NoEvidence
<1> QED
  BY <1>2, <1>3, <1>4, <1>5, <1>6

LEMMA Numbers == MaxDay \in Nat /\ MaxEvidence \in Nat /\ MaxRevision \in Nat
                 /\ 1 \in Days /\ 1 \in Revisions
BY InputsAssumption DEF InputsAssumption, Days, Revisions

LEMMA CountSaved ==
  ASSUME NEW n \in 0 .. MaxEvidence, Saved = 1 .. n
  PROVE  Cardinality(Saved) = n
BY FS_Interval, Numbers

LEMMA OutdatedTyped ==
  ASSUME TypeOK
  PROVE  /\ Outdated \in [Editors -> [current : BOOLEAN, previous : Versions \cup {0}]]
         /\ \A e \in Editors : Outdated[e].previous = pages[e].previous
BY DEF TypeOK, Outdated

\* Saving adds one version, after all the others.
LEMMA SaveStep ==
  ASSUME EvidenceInv, NEW e \in Editors, NEW f \in Facts, SaveEvidence(e, f)
  PROVE  \E new \in Versions :
           LET old == pages[e].previous IN
           /\ Saved = 1 .. (new - 1) /\ Saved' = 1 .. new
           /\ old \in Saved \cup {0}
           /\ old # 0 => evidence[old].facts.quote = f.quote /\ ~IsReplaced(old)
           /\ evidence'[new].revision = revision + 1 /\ evidence'[new].facts = f
           /\ evidence'[new].previous = old
           /\ evidence'[new].version = IF old = 0 THEN 1 ELSE evidence[old].version + 1
           /\ \A v \in Versions \ {new} : evidence'[v] = evidence[v]
           /\ evidence' \in [Versions -> [revision : Revisions \cup {0},
                version : Versions \cup {0}, previous : Versions \cup {0}, facts : Facts]]
<1>1. PICK n \in 0 .. MaxEvidence : Saved = 1 .. n
  BY DEF EvidenceInv, VersionsHold
<1> DEFINE old == pages[e].previous
           new == n + 1
           row == [revision |-> revision + 1, previous |-> old, facts |-> f,
                   version |-> IF old = 0 THEN 1 ELSE evidence[old].version + 1]
<1>2. Cardinality(Saved) = n
  BY <1>1, CountSaved
<1>3. /\ new <= MaxEvidence /\ revision < MaxRevision
      /\ old # 0 => evidence[old].facts.quote = f.quote /\ ~IsReplaced(old)
      /\ evidence' = [evidence EXCEPT ![new] = row]
  BY <1>2 DEF SaveEvidence
<1>4. new \in Versions /\ old \in Saved \cup {0} /\ Saved \subseteq Versions
  BY <1>1, <1>3, Numbers DEF EvidenceInv, PagesHold, Versions, Saved
<1>5. revision + 1 \in Revisions
  BY <1>3, Numbers DEF EvidenceInv, TypeOK, Revisions
<1>6. old # 0 => evidence[old].version <= old /\ evidence[old].version \in Nat
                 /\ old \in Nat /\ old <= n
  BY <1>1, <1>4, Numbers DEF EvidenceInv, TypeOK, VersionsHold, Versions
<1>7. row.version \in Versions
  BY <1>3, <1>6, <1>4, Numbers DEF Versions
<1>8. row \in [revision : Revisions \cup {0}, version : Versions \cup {0},
               previous : Versions \cup {0}, facts : Facts]
  BY <1>4, <1>5, <1>7
<1> HIDE DEF row
<1>9. /\ evidence'[new] = row
      /\ \A v \in Versions \ {new} : evidence'[v] = evidence[v]
      /\ evidence' \in [Versions -> [revision : Revisions \cup {0},
           version : Versions \cup {0}, previous : Versions \cup {0}, facts : Facts]]
  BY <1>3, <1>4, <1>8 DEF EvidenceInv, TypeOK
<1>10. Saved' = 1 .. new
  <2>1. row.version > 0
    BY <1>7, Numbers DEF Versions
  <2>2. \A v \in Versions : v \in Saved' <=> v \in Saved \/ v = new
    BY <1>4, <1>9, <2>1 DEF Saved
  <2>3. Saved' \subseteq Versions /\ Saved \subseteq Versions
    BY DEF Saved
  <2>4. \A v : v \in 1 .. new <=> v \in 1 .. n \/ v = new
    BY <1>1, Numbers
  <2> QED
    BY <2>2, <2>3, <2>4, <1>1, <1>4
<1> QED
  BY <1>1, <1>3, <1>4, <1>9, <1>10, Numbers DEF row

LEMMA ReviseTyped ==
  ASSUME TypeOK, revision < MaxRevision, NEW next, Revise(next),
         next = NoRun \/ next = Queued
  PROVE  /\ revision' \in Revisions
         /\ assessment' \in Assessment /\ shown' \in Assessment
         /\ confirmed' \in BOOLEAN
         /\ result' \in [quote : Quotes \cup {"none"}, assessment : Assessment]
         /\ run' \in [step : {"none", "queued", "begun", "confirmed", "waiting",
                             "published"},
                     day : Days \cup {0}, confirmed : BOOLEAN, old : Assessment]
         /\ pages' \in [Editors -> [current : BOOLEAN, previous : Versions \cup {0}]]
<1>1. revision' \in Revisions
  BY Numbers DEF Revise, TypeOK, Revisions
<1>2. pages' \in [Editors -> [current : BOOLEAN, previous : Versions \cup {0}]]
  BY OutdatedTyped DEF Revise
<1> QED
  BY <1>1, <1>2, ConstantsTyped DEF Revise

LEMMA InForceTyped == \A at : InForce(at) \in SUBSET Versions
BY DEF InForce, Saved

LEMMA TypeStep ==
  ASSUME EvidenceInv, [Next]_vars
  PROVE  TypeOK'
<1> USE ConstantsTyped, Numbers DEF EvidenceInv
<1>1. CASE NextDay
  BY <1>1 DEF NextDay, TypeOK, Days
<1>2. CASE ChangeInputs
  <2>1. revision < MaxRevision /\ Revise(NoRun) /\ UNCHANGED <<today, evidence>>
    BY <1>2 DEF ChangeInputs
  <2>2. enabled' \in BOOLEAN
    BY <1>2 DEF ChangeInputs
  <2> HIDE DEF EvidenceInv
  <2> QED
    BY <2>1, <2>2, ReviseTyped DEF EvidenceInv, TypeOK
<1>3. CASE StartCompliance
  BY <1>3 DEF StartCompliance, TypeOK
<1>4. CASE ConfirmCompliance
  <2>1. Outdated \in [Editors -> [current : BOOLEAN, previous : Versions \cup {0}]]
    BY OutdatedTyped
  <2> QED
    BY <1>4, <2>1 DEF ConfirmCompliance, TypeOK, Revisions
<1>5. CASE Begin
  BY <1>5 DEF Begin, TypeOK
<1>6. CASE Assess
  <2>1. PICK failed \in IF run.confirmed THEN {run.old.failed} ELSE BOOLEAN :
          LET new  == [day |-> run.day, evidence |-> InForce(revision),
                       enabled |-> enabled, failed |-> failed]
              kept == run.confirmed /\ SaysTheSame(run.old, new)
          IN  /\ assessment' = new
              /\ confirmed' = kept
              /\ run' = [NoRun EXCEPT !.step = IF kept THEN "confirmed" ELSE "waiting"]
              /\ UNCHANGED <<today, revision, enabled, evidence, pages, shown, result>>
    BY <1>6 DEF Assess
  <2>2. failed \in BOOLEAN
    BY DEF TypeOK, Assessment
  <2>3. assessment' \in Assessment
    BY <2>1, <2>2, InForceTyped DEF TypeOK, Assessment
  <2>4. confirmed' \in BOOLEAN
    BY <2>1
  <2>5. run' \in [step : {"none", "queued", "begun", "confirmed", "waiting", "published"},
                  day : Days \cup {0}, confirmed : BOOLEAN, old : Assessment]
    BY <2>1
  <2> QED
    BY <2>1, <2>3, <2>4, <2>5 DEF TypeOK
<1>7. CASE Publish
  <2>1. run' \in [step : {"none", "queued", "begun", "confirmed", "waiting", "published"},
                  day : Days \cup {0}, confirmed : BOOLEAN, old : Assessment]
    BY <1>7 DEF Publish, TypeOK
  <2>2. \E q \in Quotes \cup {"none"} : result' = [quote |-> q, assessment |-> assessment]
    BY <1>7 DEF Publish, Cheapest, Candidates
  <2>3. result' \in [quote : Quotes \cup {"none"}, assessment : Assessment]
    BY <2>2 DEF TypeOK
  <2> QED
    BY <1>7, <2>1, <2>3 DEF Publish, TypeOK
<1>8. CASE Fail
  BY <1>8 DEF Fail, TypeOK
<1>9. ASSUME NEW e \in Editors, NEW v \in Versions \cup {0}, OpenPage(e, v)
      PROVE  TypeOK'
  BY <1>9 DEF OpenPage, TypeOK
<1>10. ASSUME NEW e \in Editors, RefreshRevision(e)
       PROVE  TypeOK'
  BY <1>10 DEF RefreshRevision, TypeOK
<1>11. ASSUME NEW e \in Editors, NEW f \in Facts, SaveEvidence(e, f)
       PROVE  TypeOK'
  <2>1. evidence' \in [Versions -> [revision : Revisions \cup {0},
          version : Versions \cup {0}, previous : Versions \cup {0}, facts : Facts]]
    BY <1>11, SaveStep
  <2>2. /\ revision < MaxRevision /\ UNCHANGED <<today, enabled>>
        /\ Revise(NoRun) \/ Revise(Queued)
    BY <1>11 DEF SaveEvidence
  <2> QED
    BY <2>1, <2>2, ReviseTyped DEF TypeOK
<1>12. CASE UNCHANGED vars
  BY <1>12 DEF vars, TypeOK
<1> QED
  BY <1>1, <1>2, <1>3, <1>4, <1>5, <1>6, <1>7, <1>8, <1>9, <1>10, <1>11, <1>12 DEF Next

-----------------------------------------------------------------------------
(* The chain.                                                              *)

\* Every step but a save leaves the versions alone, and begins no earlier revision.
LEMMA OtherSteps ==
  ASSUME EvidenceInv, [Next]_vars
  PROVE  \/ \E e \in Editors, f \in Facts : SaveEvidence(e, f)
         \/ evidence' = evidence /\ revision' \in Nat /\ revision <= revision'
<1>1. revision \in Nat /\ revision + 1 \in Nat /\ revision <= revision + 1
      /\ revision <= revision
  BY Numbers DEF EvidenceInv, TypeOK, Revisions
<1> QED
  BY <1>1 DEF Next, vars, NextDay, ChangeInputs, Revise, StartCompliance, ConfirmCompliance,
              Begin, Assess, Publish, Fail, OpenPage, RefreshRevision

LEMMA VersionsStep ==
  ASSUME EvidenceInv, [Next]_vars
  PROVE  VersionsHold' /\ ChainIsLinear'
<1>1. CASE evidence' = evidence /\ revision' \in Nat /\ revision <= revision'
  <2>1. Saved' = Saved
    BY <1>1 DEF Saved
  <2>2. \A v \in Saved : evidence[v].revision \in Nat /\ revision \in Nat
    BY Numbers DEF EvidenceInv, TypeOK, Saved, Revisions
  <2> QED
    BY <1>1, <2>1, <2>2 DEF EvidenceInv, VersionsHold, ChainIsLinear
<1>2. ASSUME NEW e \in Editors, NEW f \in Facts, SaveEvidence(e, f)
      PROVE  VersionsHold' /\ ChainIsLinear'
  <2> DEFINE old == pages[e].previous
  <2>1. PICK new \in Versions :
          /\ Saved = 1 .. (new - 1) /\ Saved' = 1 .. new
          /\ old \in Saved \cup {0}
          /\ old # 0 => evidence[old].facts.quote = f.quote /\ ~IsReplaced(old)
          /\ evidence'[new].revision = revision + 1 /\ evidence'[new].facts = f
          /\ evidence'[new].previous = old
          /\ evidence'[new].version = IF old = 0 THEN 1 ELSE evidence[old].version + 1
          /\ \A v \in Versions \ {new} : evidence'[v] = evidence[v]
    BY <1>2, SaveStep
  <2>2. revision' = revision + 1 /\ revision \in Nat
    BY <1>2, Numbers DEF SaveEvidence, Revise, EvidenceInv, TypeOK, Revisions
  <2>3. new \in Nat \ {0} /\ new \in 0 .. MaxEvidence
    BY Numbers DEF Versions
  <2>4. Saved' = Saved \cup {new} /\ new \notin Saved /\ Saved \subseteq Versions
    BY <2>1, <2>3 DEF Saved
  <2>5. \A v \in Saved : /\ evidence'[v] = evidence[v] /\ v \in Nat /\ v < new
                         /\ evidence[v].revision \in Nat /\ evidence[v].version \in Nat
    <3>1. \A v \in Saved : evidence'[v] = evidence[v]
      BY <2>1, <2>4
    <3>2. \A v \in Saved : v \in Nat /\ v < new
      BY <2>1, <2>3
    <3>3. \A v \in Saved : evidence[v].revision \in Nat /\ evidence[v].version \in Nat
      BY <2>4, Numbers DEF EvidenceInv, TypeOK, Revisions, Versions
    <3> QED
      BY <3>1, <3>2, <3>3
  <2>6. old < new /\ evidence'[new].version <= new
    <3>1. CASE old = 0
      BY <3>1, <2>1, <2>3
    <3>2. CASE old # 0
      <4>1. old \in Saved
        BY <3>2, <2>1
      <4>2. evidence[old].version <= old
        BY <4>1 DEF EvidenceInv, VersionsHold
      <4> QED
        BY <3>2, <4>1, <4>2, <2>1, <2>3, <2>5
    <3> QED
      BY <3>1, <3>2
  <2>7. VersionsHold'
    <3>1. \E n \in 0 .. MaxEvidence : Saved' = 1 .. n
      BY <2>1, <2>3
    <3>2. \A v \in Saved' : /\ evidence'[v].previous \in Saved' \cup {0}
                            /\ evidence'[v].previous < v
                            /\ evidence'[v].version <= v
                            /\ evidence'[v].revision <= revision'
      <4>1. ASSUME NEW v \in Saved
            PROVE  /\ evidence'[v].previous \in Saved' \cup {0}
                   /\ evidence'[v].previous < v
                   /\ evidence'[v].version <= v
                   /\ evidence'[v].revision <= revision'
        BY <2>2, <2>4, <2>5 DEF EvidenceInv, VersionsHold
      <4>2. /\ evidence'[new].previous \in Saved' \cup {0}
            /\ evidence'[new].previous < new
            /\ evidence'[new].version <= new
            /\ evidence'[new].revision <= revision'
        BY <2>1, <2>2, <2>4, <2>6
      <4> QED
        BY <4>1, <4>2, <2>4
    <3> QED
      BY <3>1, <3>2 DEF VersionsHold
  <2>8. ASSUME NEW v \in Saved', evidence'[v].previous # 0
        PROVE  LET p == evidence'[v].previous IN
               /\ evidence'[v].version = evidence'[p].version + 1
               /\ evidence'[v].facts.quote = evidence'[p].facts.quote
               /\ \A w \in Saved' : evidence'[w].previous = p => w = v
    <3> DEFINE p == evidence'[v].previous
    <3>1. p \in Saved
      <4>1. CASE v = new
        BY <4>1, <2>1, <2>8
      <4>2. CASE v \in Saved
        BY <4>2, <2>5, <2>8 DEF EvidenceInv, VersionsHold
      <4> QED
        BY <4>1, <4>2, <2>4
    <3>2. evidence'[p] = evidence[p]
      BY <3>1, <2>5
    <3>3. CASE v = new
      <4>1. \A w \in Saved : evidence[w].previous # old
        BY <3>3, <2>1, <2>8 DEF IsReplaced
      <4>2. \A w \in Saved' : evidence'[w].previous = old => w = new
        BY <4>1, <2>4, <2>5
      <4> QED
        BY <3>3, <3>2, <4>2, <2>1, <2>8
    <3>4. CASE v \in Saved
      <4>1. evidence[v].previous = p /\ p # 0
        BY <3>4, <2>5, <2>8
      <4>2. /\ evidence[v].version = evidence[p].version + 1
            /\ evidence[v].facts.quote = evidence[p].facts.quote
            /\ \A w \in Saved : evidence[w].previous = p => w = v
        BY <3>4, <4>1 DEF EvidenceInv, ChainIsLinear
      <4>3. old # p
        BY <2>1, <3>4, <4>1 DEF IsReplaced
      <4>4. \A w \in Saved' : evidence'[w].previous = p => w = v
        BY <4>2, <4>3, <2>1, <2>4, <2>5
      <4> QED
        BY <3>4, <3>2, <4>2, <4>4, <2>5
    <3> QED
      BY <3>3, <3>4, <2>4
  <2>9. ChainIsLinear'
    BY <2>8 DEF ChainIsLinear
  <2> QED
    BY <2>7, <2>9
<1> QED
  BY <1>1, <1>2, OtherSteps

LEMMA PagesStep ==
  ASSUME EvidenceInv, [Next]_vars
  PROVE  PagesHold'
<1>1. Saved \subseteq Saved'
  <2>1. CASE evidence' = evidence
    BY <2>1 DEF Saved
  <2>2. ASSUME NEW e \in Editors, NEW f \in Facts, SaveEvidence(e, f)
        PROVE  Saved \subseteq Saved'
    <3>1. PICK new \in Versions : Saved = 1 .. (new - 1) /\ Saved' = 1 .. new
      BY <2>2, SaveStep
    <3> QED
      BY <3>1, Numbers DEF Versions
  <2> QED
    BY <2>1, <2>2, OtherSteps
<1>2. ASSUME NEW d \in Editors
      PROVE  pages'[d].previous \in Saved \cup {0}
  <2>1. pages[d].previous \in Saved \cup {0}
    BY DEF EvidenceInv, PagesHold
  <2>2. pages' = Outdated => pages'[d].previous = pages[d].previous
    BY OutdatedTyped DEF EvidenceInv
  <2>3. CASE pages' = pages \/ pages' = Outdated
    BY <2>1, <2>2, <2>3
  <2>4. ASSUME NEW e \in Editors, NEW v \in Versions \cup {0}, OpenPage(e, v)
        PROVE  pages'[d].previous \in Saved \cup {0}
    BY <2>1, <2>4 DEF OpenPage, EvidenceInv, TypeOK
  <2>5. ASSUME NEW e \in Editors, RefreshRevision(e)
        PROVE  pages'[d].previous \in Saved \cup {0}
    BY <2>1, <2>5 DEF RefreshRevision, EvidenceInv, TypeOK
  <2> QED
    BY <2>3, <2>4, <2>5 DEF Next, vars, NextDay, ChangeInputs, Revise, StartCompliance,
       ConfirmCompliance, Begin, Assess, Publish, Fail, SaveEvidence
<1> QED
  BY <1>1, <1>2 DEF PagesHold

-----------------------------------------------------------------------------
(* Assessments, confirmations and results.                                 *)

LEMMA InForceIsUnreplaced ==
  ASSUME EvidenceInv
  PROVE  InForce(revision) = Unreplaced
<1>1. {v \in Saved : evidence[v].revision <= revision} = Saved
  BY DEF EvidenceInv, VersionsHold
<1> QED
  BY <1>1 DEF InForce, Unreplaced

LEMMA ChecksAreFound == \A a, q : Checks(a, q) = Found(evidence, a, q)
BY DEF Checks, Found

LEMMA SameIsCarried ==
  ASSUME NEW shownOne, NEW old, NEW new, SameFindings(evidence, old, shownOne),
         ~PolicyErrors(old), SaysTheSame(old, new)
  PROVE  SameFindings(evidence, new, shownOne) /\ ~PolicyErrors(new)
<1>1. ~PolicyErrors(new)
  BY DEF SaysTheSame
<1>2. \A q \in Quotes : Found(evidence, old, q) = Found(evidence, new, q)
  BY ChecksAreFound DEF SaysTheSame
<1> QED
  BY <1>1, <1>2 DEF SameFindings, SaysTheSame

LEMMA UnreplacedStays ==
  ASSUME evidence' = evidence
  PROVE  Unreplaced' = Unreplaced
BY DEF Unreplaced, Saved, Replaced

\* A new revision starts with nothing to go by.
LEMMA ReviseHolds ==
  ASSUME NEW next, Revise(next), next = NoRun \/ next = Queued
  PROVE  AssessmentHolds' /\ RunHolds' /\ ResultHolds'
<1>1. next.step \in {"none", "queued"}
  BY ConstantsTyped
<1> QED
  BY <1>1 DEF Revise, AssessmentHolds, RunHolds, ResultHolds

LEMMA AssessStep ==
  ASSUME EvidenceInv, Assess
  PROVE  AssessmentHolds' /\ RunHolds' /\ ResultHolds'
<1> DEFINE new(failed) == [day |-> run.day, evidence |-> InForce(revision),
                           enabled |-> enabled, failed |-> failed]
           kept(failed) == run.confirmed /\ SaysTheSame(run.old, new(failed))
<1>1. PICK failed : /\ run.step = "begun" /\ assessment' = new(failed)
                    /\ confirmed' = kept(failed)
                    /\ run' = [NoRun EXCEPT !.step =
                                 IF kept(failed) THEN "confirmed" ELSE "waiting"]
                    /\ UNCHANGED <<revision, evidence, shown, result>>
  BY DEF Assess
<1>2. assessment'.evidence = Unreplaced'
  BY <1>1, InForceIsUnreplaced, UnreplacedStays
<1>3. confirmed' => ~PolicyErrors(assessment') /\ SameFindings(evidence', assessment', shown')
  <2>1. SUFFICES ASSUME kept(failed)
                 PROVE  ~PolicyErrors(new(failed))
                        /\ SameFindings(evidence, new(failed), shown)
    BY <1>1
  <2>2. ~PolicyErrors(run.old) /\ SameFindings(evidence, run.old, shown)
    BY <1>1, <2>1 DEF EvidenceInv, RunHolds
  <2> HIDE DEF new
  <2> QED
    BY <2>1, <2>2, SameIsCarried
<1>4. confirmed' => assessment' # NoAssessment
  <2>1. assessment'.day # 0
    BY <1>1 DEF EvidenceInv, RunHolds
  <2> QED
    BY <2>1, ConstantsTyped
<1>5. run'.step = IF kept(failed) THEN "confirmed" ELSE "waiting"
  BY <1>1, ConstantsTyped
<1>6. result' = NoResult
  BY <1>1 DEF EvidenceInv, ResultHolds
<1>7. RunHolds'
  <2>1. confirmed' = kept(failed)
    BY <1>1
  <2> HIDE DEF kept, new
  <2>2. run'.step = "confirmed" => confirmed'
    BY <1>5, <2>1
  <2>3. run'.step # "begun"
    BY <1>5
  <2> QED
    BY <2>2, <2>3 DEF RunHolds
<1>8. AssessmentHolds'
  BY <1>2, <1>3, <1>4 DEF AssessmentHolds
<1> QED
  BY <1>6, <1>7, <1>8 DEF ResultHolds

LEMMA PublicationStep ==
  ASSUME EvidenceInv, [Next]_vars
  PROVE  AssessmentHolds' /\ RunHolds' /\ ResultHolds'
<1> USE ConstantsTyped
<1> USE DEF EvidenceInv
<1>1. ASSUME evidence' = evidence, UNCHANGED <<assessment, confirmed, shown>>
      PROVE  AssessmentHolds'
  <2>1. Unreplaced' = Unreplaced
    BY <1>1, UnreplacedStays
  <2> QED
    BY <1>1, <2>1 DEF AssessmentHolds
<1>2. ASSUME evidence' = evidence,
             UNCHANGED <<assessment, confirmed, shown, run, result>>
      PROVE  AssessmentHolds' /\ RunHolds' /\ ResultHolds'
  <2>1. RunHolds'
    BY <1>2 DEF RunHolds
  <2>2. ResultHolds'
    BY <1>2 DEF ResultHolds
  <2> QED
    BY <1>1, <1>2, <2>1, <2>2
<1>3. CASE NextDay
  BY <1>2, <1>3 DEF NextDay
<1>4. CASE ChangeInputs
  BY <1>4, ReviseHolds DEF ChangeInputs
<1>5. CASE StartCompliance
  <2>1. AssessmentHolds'
    BY <1>5, <1>1 DEF StartCompliance
  <2>2. RunHolds' /\ ResultHolds'
    BY <1>5 DEF StartCompliance, RunHolds, ResultHolds
  <2> QED
    BY <2>1, <2>2
<1>6. CASE ConfirmCompliance
  <2>1. AssessmentHolds'
    <3>1. Unreplaced' = Unreplaced
      BY <1>6, UnreplacedStays DEF ConfirmCompliance
    <3>2. SameFindings(evidence', assessment', shown')
      BY <1>6 DEF ConfirmCompliance, SameFindings
    <3> QED
      BY <1>6, <3>1, <3>2 DEF ConfirmCompliance, AssessmentHolds
  <2>2. RunHolds' /\ ResultHolds'
    BY <1>6 DEF ConfirmCompliance, RunHolds, ResultHolds
  <2> QED
    BY <2>1, <2>2
<1>7. CASE Begin
  <2>1. AssessmentHolds'
    BY <1>7, <1>1 DEF Begin
  <2>2. ResultHolds'
    BY <1>7 DEF Begin, ResultHolds
  <2>3. run'.step = "begun" /\ run'.day = today /\ run'.confirmed = confirmed
        /\ run'.old = assessment /\ evidence' = evidence /\ shown' = shown
    BY <1>7 DEF Begin
  <2>4. today # 0
    BY Numbers DEF TypeOK, Days
  <2>5. confirmed => ~PolicyErrors(assessment) /\ SameFindings(evidence, assessment, shown)
    BY DEF AssessmentHolds
  <2>6. run'.confirmed => ~PolicyErrors(run'.old)
                          /\ SameFindings(evidence', run'.old, shown')
    BY <2>3, <2>5
  <2>7. RunHolds'
    BY <2>3, <2>4, <2>6 DEF RunHolds
  <2> QED
    BY <2>1, <2>2, <2>7
<1>8. CASE Assess
  BY <1>8, AssessStep
<1>9. CASE Publish
  <2>1. AssessmentHolds'
    BY <1>9, <1>1 DEF Publish
  <2>2. run'.step = "published"
    BY <1>9 DEF Publish, TypeOK
  <2>3. result'.assessment = assessment
    BY <1>9 DEF Publish
  <2>4. RunHolds' /\ ResultHolds'
    BY <1>9, <2>2, <2>3 DEF Publish, RunHolds, ResultHolds
  <2> QED
    BY <2>1, <2>4
<1>10. CASE Fail
  <2>1. AssessmentHolds'
    BY <1>10, <1>1 DEF Fail
  <2>2. RunHolds' /\ ResultHolds'
    BY <1>10 DEF Fail, RunHolds, ResultHolds
  <2> QED
    BY <2>1, <2>2
<1>11. ASSUME NEW e \in Editors, NEW v \in Versions \cup {0}, OpenPage(e, v)
       PROVE  AssessmentHolds' /\ RunHolds' /\ ResultHolds'
  BY <1>2, <1>11 DEF OpenPage
<1>12. ASSUME NEW e \in Editors, RefreshRevision(e)
       PROVE  AssessmentHolds' /\ RunHolds' /\ ResultHolds'
  BY <1>2, <1>12 DEF RefreshRevision
<1>13. ASSUME NEW e \in Editors, NEW f \in Facts, SaveEvidence(e, f)
       PROVE  AssessmentHolds' /\ RunHolds' /\ ResultHolds'
  BY <1>13, ReviseHolds DEF SaveEvidence
<1>14. CASE UNCHANGED vars
  BY <1>2, <1>14 DEF vars
<1> QED
  BY <1>3, <1>4, <1>5, <1>6, <1>7, <1>8, <1>9, <1>10, <1>11, <1>12, <1>13, <1>14 DEF Next

LEMMA InitHolds == Init => EvidenceInv
<1> SUFFICES ASSUME Init PROVE EvidenceInv
  OBVIOUS
<1> USE ConstantsTyped, Numbers
<1>1. TypeOK
  BY DEF Init, TypeOK
<1>2. Saved = {}
  BY DEF Init, Saved
<1>3. VersionsHold /\ ChainIsLinear
  <2>1. 0 \in 0 .. MaxEvidence /\ 1 .. 0 = {}
    OBVIOUS
  <2> QED
    BY <1>2, <2>1 DEF VersionsHold, ChainIsLinear
<1>4. PagesHold
  BY DEF Init, PagesHold
<1>5. AssessmentHolds /\ RunHolds /\ ResultHolds
  BY DEF Init, AssessmentHolds, RunHolds, ResultHolds
<1> QED
  BY <1>1, <1>3, <1>4, <1>5 DEF EvidenceInv

\* The invariant that the theorems below rest on: versions are saved one after the
\* other, an assessment is of those in force, and a confirmed one finds what the
\* user saw (compliance.py save_compliance_evidence, revalidate_compliance_confirmation).
THEOREM EvidenceInvariance == Spec => []EvidenceInv
<1>1. EvidenceInv /\ [Next]_vars => EvidenceInv'
  <2> SUFFICES ASSUME EvidenceInv, [Next]_vars PROVE EvidenceInv'
    OBVIOUS
  <2>1. TypeOK'
    BY TypeStep
  <2>2. VersionsHold' /\ ChainIsLinear'
    BY VersionsStep
  <2>3. PagesHold'
    BY PagesStep
  <2>4. AssessmentHolds' /\ RunHolds' /\ ResultHolds'
    BY PublicationStep
  <2> QED
    BY <2>1, <2>2, <2>3, <2>4 DEF EvidenceInv
<1> QED
  BY InitHolds, <1>1, PTL DEF Spec

\* However many pages a version was saved from, each version has at most one
\* successor, of the same quote and numbered next (compliance.py
\* save_compliance_evidence).
THEOREM EvidenceChain == Spec => []ChainIsLinear
<1>1. EvidenceInv => ChainIsLinear
  BY DEF EvidenceInv
<1> QED
  BY <1>1, EvidenceInvariance, PTL

\* A published result rests on the findings the user confirmed, on whatever day
\* the run assessed them again (compliance.py revalidate_compliance_confirmation).
THEOREM PublishedFindings == Spec => []PublishedAsConfirmed
<1>1. EvidenceInv => PublishedAsConfirmed
  <2> SUFFICES ASSUME EvidenceInv, result # NoResult
               PROVE  /\ result.assessment.evidence = shown.evidence
                      /\ \A q \in Quotes : Checks(result.assessment, q) = Checks(shown, q)
    BY DEF PublishedAsConfirmed
  <2>1. result.assessment = assessment /\ SameFindings(evidence, assessment, shown)
    BY DEF EvidenceInv, ResultHolds, AssessmentHolds
  <2> QED
    BY <2>1, ChecksAreFound DEF SameFindings
<1> QED
  BY <1>1, EvidenceInvariance, PTL

-----------------------------------------------------------------------------
(* What a check that passes says.                                          *)

\* The material that a clause finds about the supplier.
Material(clause, facts, supplier) ==
  {f \in facts : f.control = clause.control /\ f.supplier = supplier}

\* One of them says so, on the day.
Says(f, day) == /\ f.outcome = "PASS" /\ f.covered
                /\ f.from <= day /\ (f.until # NoDate => day <= f.until)

\* A date that is out of range, or left open, never passes.
LEMMA InTimePasses ==
  ASSUME NEW clause \in Clauses, NEW item \in Facts, NEW day \in Nat, NEW said,
         InTime(clause, item, day, said).status \in Accepted
  PROVE  /\ InTime(clause, item, day, said) = said
         /\ item.from <= day /\ (item.until # NoDate => day <= item.until)
<1>1. /\ clause.missing \notin Accepted /\ clause.expired \notin Accepted
      /\ "REVIEW_REQUIRED" \notin Accepted /\ item.from \in Nat /\ item.until \in Nat
  BY InputsAssumption DEF InputsAssumption, Accepted
<1>2. ~(item.from # NoDate /\ item.from > day)
  BY <1>1 DEF InTime, Check
<1>3. ~IsExpired(item, day)
  BY <1>1, <1>2 DEF InTime, Check
<1> DEFINE open == /\ ~clause.unspecified
                   /\ item.from = NoDate \/ (item.until = NoDate /\ ~item.permanent)
<1>4. InTime(clause, item, day, said) = said
  <2>1. InTime(clause, item, day, said) =
          IF open THEN Check("REVIEW_REQUIRED", "VALIDITY_UNSPECIFIED") ELSE said
    BY <1>2, <1>3, Zenon DEF InTime
  <2>2. Check("REVIEW_REQUIRED", "VALIDITY_UNSPECIFIED").status \notin Accepted
    BY <1>1 DEF Check
  <2> HIDE DEF open
  <2> QED
    BY <2>1, <2>2, Zenon
<1> QED
  BY <1>1, <1>2, <1>3, <1>4 DEF IsExpired, NoDate

\* Material that is not in conflict says the same.
LEMMA AllSayTheSame ==
  ASSUME NEW records, ~IsConflict(records), NEW r \in records, NEW s \in records
  PROVE  /\ r.from = s.from /\ r.until = s.until /\ r.covered = s.covered
         /\ r.outcome = s.outcome
         /\ r.control = "AMOUNT_APPROVAL" => /\ r.amount = s.amount
                                            /\ r.currency = s.currency
BY DEF IsConflict

LEMMA EvidencePasses ==
  ASSUME NEW clause \in Clauses, NEW facts \in SUBSET Facts, NEW supplier, NEW part,
         NEW day \in Nat,
         EvaluateEvidence(clause, facts, supplier, part, day).status \in Accepted
  PROVE  /\ Material(clause, facts, supplier) # {}
         /\ \A f \in Material(clause, facts, supplier) : Says(f, day)
<1> DEFINE known   == {e \in facts : e.control = clause.control}
           records == {e \in known : e.supplier = supplier}
           item    == CHOOSE r \in records : TRUE
<1>1. records = Material(clause, facts, supplier)
  BY DEF Material
<1>2. /\ "REVIEW_REQUIRED" \notin Accepted /\ "FAIL" \notin Accepted
      /\ clause.missing \notin Accepted /\ clause.mismatch \notin Accepted
  BY InputsAssumption DEF InputsAssumption, Accepted
<1> DEFINE said == Check(item.outcome, "EVIDENCE_CONFIRMED")
<1> DEFINE found == EvaluateEvidence(clause, facts, supplier, part, day)
           elsewhere == "part" \in clause.matching /\ item.part # part
           late == InTime(clause, item, day, said)
<1>31. found = IF supplier = "none"
                 THEN Check("REVIEW_REQUIRED", "SUPPLIER_IDENTITY_UNCONFIRMED")
               ELSE IF records = {}
                 THEN IF known = {} THEN Check(clause.missing, "EVIDENCE_MISSING")
                      ELSE Check(clause.mismatch, "EVIDENCE_SCOPE_MISMATCH")
               ELSE IF IsConflict(records)
                 THEN Check("REVIEW_REQUIRED", "EVIDENCE_CONFLICT")
               ELSE IF ~item.covered THEN Check("REVIEW_REQUIRED", "COVERAGE_UNCONFIRMED")
               ELSE IF elsewhere THEN Check(clause.mismatch, "EVIDENCE_SCOPE_MISMATCH")
               ELSE late
  BY Zenon DEF EvaluateEvidence
<1>3. records # {} /\ ~IsConflict(records) /\ item.covered /\ late.status \in Accepted
  <2>1. \A reason : /\ Check("REVIEW_REQUIRED", reason).status \notin Accepted
                    /\ Check(clause.missing, reason).status \notin Accepted
                    /\ Check(clause.mismatch, reason).status \notin Accepted
    BY <1>2 DEF Check
  <2>2. found.status \in Accepted
    OBVIOUS
  <2> HIDE DEF records, known, item, elsewhere, late, found
  <2> QED
    BY <2>1, <2>2, <1>31, Zenon
<1>4. item \in records /\ item \in Facts
  BY <1>3
<1>5. /\ InTime(clause, item, day, said) = said
      /\ item.from <= day /\ (item.until # NoDate => day <= item.until)
  BY <1>3, <1>4, InTimePasses
<1>6. item.outcome = "PASS"
  <2>1. item.outcome \in Accepted
    BY <1>3, <1>5 DEF Check
  <2> QED
    BY <2>1, <1>4, InputsAssumption DEF InputsAssumption, Accepted
<1>7. \A f \in records : Says(f, day)
  <2>1. ASSUME NEW f \in records
        PROVE  /\ f.from = item.from /\ f.until = item.until
               /\ f.covered = item.covered /\ f.outcome = item.outcome
    BY <1>3, <1>4, AllSayTheSame
  <2> QED
    BY <2>1, <1>3, <1>5, <1>6 DEF Says
<1> QED
  BY <1>1, <1>3, <1>7

LEMMA ApprovalPasses ==
  ASSUME NEW clause \in Clauses, NEW facts \in SUBSET Facts, NEW supplier,
         NEW amount \in Nat, NEW currency, NEW day \in Nat,
         clause.control = "AMOUNT_APPROVAL", IsTriggered(clause, amount),
         EvaluateAmount(clause, facts, supplier, amount, currency, day).status \in Accepted
  PROVE  /\ Material(clause, facts, supplier) # {}
         /\ \A f \in Material(clause, facts, supplier) :
              Says(f, day) /\ f.currency = currency /\ amount <= f.amount
<1> DEFINE known   == {e \in facts : e.control = "AMOUNT_APPROVAL"}
           records == {e \in known : e.supplier = supplier}
           item    == CHOOSE r \in records : TRUE
           said    == IF item.outcome = "FAIL" THEN Check("FAIL", "AMOUNT_APPROVAL_REJECTED")
                      ELSE [Check("PASS", "AMOUNT_APPROVAL_CONFIRMED")
                              EXCEPT !.approved = TRUE]
           late    == InTime(clause, item, day, said)
           found   == Approval(clause, records, known, amount, currency, day)
<1>1. records = Material(clause, facts, supplier)
  BY DEF Material
<1>2. /\ "REVIEW_REQUIRED" \notin Accepted /\ "FAIL" \notin Accepted
      /\ clause.missing \notin Accepted /\ clause.mismatch \notin Accepted
  BY InputsAssumption DEF InputsAssumption, Accepted
<1>3. \A reason : /\ Check("REVIEW_REQUIRED", reason).status \notin Accepted
                  /\ Check(clause.mismatch, reason).status \notin Accepted
                  /\ "status" \in DOMAIN Check("REVIEW_REQUIRED", reason)
                  /\ "status" \in DOMAIN Check(clause.mismatch, reason)
  BY <1>2 DEF Check
<1>4. EvaluateAmount(clause, facts, supplier, amount, currency, day)
        = [found EXCEPT !.triggered = TRUE]
  <2>1. amount # -1
    OBVIOUS
  <2>2. EvaluateAmount(clause, facts, supplier, amount, currency, day) =
          IF amount = -1 THEN Check("REVIEW_REQUIRED", "AMOUNT_UNKNOWN")
          ELSE IF currency # clause.currency
            THEN Check("REVIEW_REQUIRED", "CURRENCY_MISMATCH")
          ELSE IF ~IsTriggered(clause, amount)
            THEN Check("PASS", "AMOUNT_RULE_NOT_TRIGGERED")
          ELSE [found EXCEPT !.triggered = TRUE]
    BY Zenon DEF EvaluateAmount
  <2> HIDE DEF found
  <2> QED
    BY <1>3, <2>1, <2>2, Zenon
<1>5. "status" \in DOMAIN found => found.status \in Accepted
  <2> HIDE DEF found
  <2>1. [found EXCEPT !.triggered = TRUE].status \in Accepted
    BY <1>4, Zenon
  <2> QED
    BY <2>1
<1>6. found = IF records = {}
                THEN Check("REVIEW_REQUIRED", IF known = {} THEN "AMOUNT_APPROVAL_MISSING"
                                              ELSE "AMOUNT_APPROVAL_SCOPE_MISMATCH")
              ELSE IF IsConflict(records)
                THEN Check("REVIEW_REQUIRED", "AMOUNT_APPROVAL_CONFLICT")
              ELSE IF ~item.covered THEN Check("REVIEW_REQUIRED", "COVERAGE_UNCONFIRMED")
              ELSE IF item.currency # currency
                THEN Check(clause.mismatch, "AMOUNT_APPROVAL_CURRENCY_MISMATCH")
              ELSE IF item.amount < amount
                THEN Check(clause.mismatch, "AMOUNT_APPROVAL_INSUFFICIENT")
              ELSE late
  BY Zenon DEF Approval
<1>7. /\ records # {} /\ ~IsConflict(records) /\ item.covered
      /\ item.currency = currency /\ ~(item.amount < amount) /\ found = late
  <2> HIDE DEF records, known, item, late, found
  <2> QED
    BY <1>3, <1>5, <1>6, Zenon
<1>8. item \in records /\ item \in Facts
  BY <1>7
<1>9. "status" \in DOMAIN late
  BY DEF InTime, Check
<1>10. /\ late = said
       /\ item.from <= day /\ (item.until # NoDate => day <= item.until)
  BY <1>5, <1>7, <1>8, <1>9, InTimePasses
<1>11. item.outcome = "PASS"
  <2>1. item.outcome # "FAIL"
    BY <1>2, <1>5, <1>7, <1>9, <1>10 DEF Check
  <2> QED
    BY <2>1, <1>8, InputsAssumption DEF InputsAssumption
<1>12. \A f \in records : Says(f, day) /\ f.currency = currency /\ amount <= f.amount
  <2>1. ASSUME NEW f \in records
        PROVE  /\ f.from = item.from /\ f.until = item.until
               /\ f.covered = item.covered /\ f.outcome = item.outcome
               /\ f.amount = item.amount /\ f.currency = item.currency
    BY <1>7, <1>8, AllSayTheSame
  <2>2. item.amount \in Int
    BY <1>8, InputsAssumption DEF InputsAssumption
  <2> QED
    BY <2>1, <2>2, <1>7, <1>10, <1>11 DEF Says
<1> QED
  BY <1>1, <1>7, <1>12

\* The reason that keeps a check from blocking is never given for a clause that
\* can be executed.
Named(check) == /\ "reason" \in DOMAIN check
                /\ check.reason # "EXECUTABLE_PARAMETERS_REQUIRED"

LEMMA NamedChecks ==
  /\ \A status, reason :
       reason # "EXECUTABLE_PARAMETERS_REQUIRED" => Named(Check(status, reason))
  /\ \A check : Named(check) => /\ Named([check EXCEPT !.triggered = TRUE])
                                /\ Named([check EXCEPT !.approved = TRUE])
BY DEF Named, Check

LEMMA InTimeNamed ==
  ASSUME NEW clause, NEW item, NEW day, NEW said, Named(said)
  PROVE  Named(InTime(clause, item, day, said))
BY NamedChecks DEF InTime

LEMMA ApprovalNamed ==
  ASSUME NEW clause, NEW records, NEW known, NEW amount, NEW currency, NEW day
  PROVE  Named(Approval(clause, records, known, amount, currency, day))
<1> DEFINE item == CHOOSE r \in records : TRUE
           said == IF item.outcome = "FAIL" THEN Check("FAIL", "AMOUNT_APPROVAL_REJECTED")
                   ELSE [Check("PASS", "AMOUNT_APPROVAL_CONFIRMED") EXCEPT !.approved = TRUE]
<1>1. Named(said)
  BY NamedChecks
<1>2. Named(InTime(clause, item, day, said))
  BY <1>1, InTimeNamed
<1> QED
  BY <1>2, NamedChecks DEF Approval

LEMMA RuleNamed ==
  ASSUME NEW clause, NEW facts, NEW supplier, NEW part, NEW amount, NEW currency, NEW day,
         clause.executable
  PROVE  Named(EvaluateRule(clause, facts, supplier, part, amount, currency, day))
<1>1. Named(EvaluateAmount(clause, facts, supplier, amount, currency, day))
  BY ApprovalNamed, NamedChecks DEF EvaluateAmount
<1>2. Named(EvaluateEvidence(clause, facts, supplier, part, day))
  BY InTimeNamed, NamedChecks DEF EvaluateEvidence
<1> QED
  BY <1>1, <1>2, NamedChecks DEF EvaluateRule

\* Without policy errors, what is not blocked has passed.
LEMMA RulePasses ==
  ASSUME NEW clause \in Clauses, NEW facts \in SUBSET Facts, NEW supplier, NEW part,
         NEW amount \in Nat, NEW currency, NEW day \in Nat, clause.executable,
         EvaluateRule(clause, facts, supplier, part, amount, currency, day).status
           \in Accepted
  PROVE  \/ clause.control = "AMOUNT_APPROVAL" /\ ~IsTriggered(clause, amount)
         \/ /\ Material(clause, facts, supplier) # {}
            /\ \A f \in Material(clause, facts, supplier) :
                 /\ Says(f, day)
                 /\ clause.control = "AMOUNT_APPROVAL" =>
                      f.currency = currency /\ amount <= f.amount
<1>1. Check("NOT_EVALUATED", "RULE_NOT_YET_REVIEWED").status \notin Accepted
  BY DEF Check, Accepted
<1>2. EvaluateRule(clause, facts, supplier, part, amount, currency, day) =
        IF clause.control = "AMOUNT_APPROVAL"
        THEN EvaluateAmount(clause, facts, supplier, amount, currency, day)
        ELSE EvaluateEvidence(clause, facts, supplier, part, day)
  BY <1>1, Zenon DEF EvaluateRule
<1> QED
  BY <1>2, ApprovalPasses, EvidencePasses

LEMMA NotBlocked ==
  ASSUME EvidenceInv, NEW a \in Assessment, a.evidence = Unreplaced, ~PolicyErrors(a),
         NEW q \in Quotes, Blockers(a, q) = {},
         NEW c \in Catalogue(a), c.stage # "AFTER_SELECTION"
  PROVE  IF c.control = "AMOUNT_APPROVAL"
         THEN IsTriggered(c, Cost[q]) => IsSupported(c, q, a.day)
         ELSE Eligibility(a, q) = "VERIFIED" => IsSupported(c, q, a.day)
<1> DEFINE own == {f \in {evidence[v].facts : v \in a.evidence} : f.quote = q}
           made == EvaluateRule(c, own, Supplier[q], Part, Cost[q], Currency, a.day)
           about == {v \in Saved : IsAbout(v, c, q) /\ ~IsReplaced(v)}
<1>1. a.enabled /\ c \in Clauses /\ c.executable
  BY DEF Catalogue, Applicable, PolicyErrors
<1>2. Checks(a, q)[c] = made /\ DOMAIN Checks(a, q) = Catalogue(a)
  BY DEF Checks
<1>3. /\ own \in SUBSET Facts /\ a.day \in Nat /\ Cost[q] \in Nat
      /\ c.stage \in {"BEFORE_RECOMMENDATION", "BEFORE_PUBLICATION"}
  <2>1. own \in SUBSET Facts
    BY DEF Assessment, EvidenceInv, TypeOK
  <2>2. a.day \in Nat
    BY Numbers DEF Assessment, Days
  <2> QED
    BY <2>1, <2>2, <1>1, InputsAssumption DEF InputsAssumption
<1>4. ~BlocksPublication(c, Checks(a, q)[c])
  BY <1>2 DEF Blockers
<1>5. made.reason # "EXECUTABLE_PARAMETERS_REQUIRED"
  BY <1>1, RuleNamed DEF Named
<1>6. \A v \in Saved : ~IsReplaced(v) <=> v \in Unreplaced
  BY DEF IsReplaced, Unreplaced, Replaced
<1>7. Material(c, own, Supplier[q]) = {evidence[v].facts : v \in about}
  <2>1. \A v : v \in about <=> /\ v \in a.evidence
                              /\ evidence[v].facts.quote = q
                              /\ evidence[v].facts.control = c.control
                              /\ evidence[v].facts.supplier = Supplier[q]
    BY <1>6 DEF IsAbout, Unreplaced
  <2> HIDE DEF about
  <2> QED
    BY <2>1 DEF Material
<1>8. ASSUME made.status \in Accepted,
             c.control = "AMOUNT_APPROVAL" => IsTriggered(c, Cost[q])
      PROVE  IsSupported(c, q, a.day)
  <2>1. /\ Material(c, own, Supplier[q]) # {}
        /\ \A f \in Material(c, own, Supplier[q]) :
             /\ Says(f, a.day)
             /\ c.control = "AMOUNT_APPROVAL" =>
                  f.currency = Currency /\ Cost[q] <= f.amount
    BY <1>1, <1>3, <1>8, RulePasses
  <2>2. about # {}
    BY <2>1, <1>7
  <2>3. ASSUME NEW v \in about
        PROVE  Supports(v, c, a.day)
    <3>1. evidence[v].facts \in Material(c, own, Supplier[q])
      BY <1>7
    <3>2. evidence[v].facts.quote = q
      BY <2>3 DEF IsAbout
    <3> QED
      BY <2>1, <3>1, <3>2 DEF Says, Supports
  <2> QED
    BY <2>2, <2>3 DEF IsSupported
<1>9. CASE c.control = "AMOUNT_APPROVAL"
  <2>1. made.status \in Accepted
    BY <1>2, <1>3, <1>4, <1>5, <1>9 DEF BlocksPublication
  <2> QED
    BY <2>1, <1>8, <1>9
<1>10. CASE c.control # "AMOUNT_APPROVAL"
  <2>1. CASE c.stage = "BEFORE_PUBLICATION"
    <3>1. made.status \in Accepted
      BY <1>2, <1>4, <1>5, <1>10, <2>1 DEF BlocksPublication
    <3> QED
      BY <3>1, <1>8, <1>10
  <2>2. ASSUME c.stage = "BEFORE_RECOMMENDATION", Eligibility(a, q) = "VERIFIED"
        PROVE  IsSupported(c, q, a.day)
    <3>1. c \in BeforeRecommendation(DOMAIN Checks(a, q))
      BY <1>2, <1>10, <2>2 DEF BeforeRecommendation
    <3>2. made.status \in Accepted
      BY <1>1, <1>2, <2>2, <3>1 DEF Eligibility, EligibilityStatus
    <3> QED
      BY <3>2, <1>8, <1>10
  <2> QED
    BY <2>1, <2>2, <1>3, <1>10
<1> QED
  BY <1>9, <1>10

\* What is recommended was not blocked.
ResultUnblocked ==
  LET q == result.quote
      a == result.assessment
  IN  q # "none" => \A c \in Catalogue(a) : ~BlocksPublication(c, Found(evidence, a, q)[c])

LEMMA UnblockedStep ==
  ASSUME EvidenceInv, ResultUnblocked, [Next]_vars
  PROVE  ResultUnblocked'
<1>1. ASSUME evidence' = evidence, result' = result
      PROVE  ResultUnblocked'
  BY <1>1 DEF ResultUnblocked
<1>2. ASSUME result' = NoResult
      PROVE  ResultUnblocked'
  BY <1>2 DEF ResultUnblocked, NoResult
<1>3. CASE Publish
  <2>1. evidence' = evidence
    BY <1>3 DEF Publish
  <2>2. CASE result'.quote = "none"
    BY <2>2 DEF ResultUnblocked
  <2>3. CASE result'.quote # "none"
    <3>1. PICK q : result' = [quote |-> q, assessment |-> assessment]
                   /\ Blockers(assessment, q) = {}
      BY <1>3, <2>3 DEF Publish
    <3>2. \A c \in Catalogue(assessment) :
            ~BlocksPublication(c, Found(evidence, assessment, q)[c])
      BY <3>1, ChecksAreFound DEF Blockers, Found
    <3>3. result'.quote = q /\ result'.assessment = assessment
      BY <3>1
    <3> QED
      BY <2>1, <3>2, <3>3 DEF ResultUnblocked
  <2> QED
    BY <2>2, <2>3
<1>4. CASE Next /\ ~Publish
  BY <1>1, <1>2, <1>4 DEF Next, NextDay, ChangeInputs, Revise, StartCompliance,
     ConfirmCompliance, Begin, Assess, Fail, OpenPage, RefreshRevision, SaveEvidence
<1>5. CASE UNCHANGED vars
  BY <1>1, <1>5 DEF vars
<1> QED
  BY <1>3, <1>4, <1>5

\* Whatever a user can ask for, in any order: a recommendation called verified has
\* every qualification, and one above a limit has its approval, of versions that
\* nothing replaces and that hold on the day of the assessment
\* (rules/compliance.py evaluate_compliance_rule, compliance.py
\* bind_assessment_comparison).
THEOREM RecommendedQualifies == Spec => []RecommendedIsSupported
<1>1. Init => ResultUnblocked
  BY DEF Init, ResultUnblocked, NoResult
<1>2. EvidenceInv /\ ResultUnblocked /\ [Next]_vars => ResultUnblocked'
  BY UnblockedStep
<1>3. EvidenceInv /\ ResultUnblocked => RecommendedIsSupported
  <2> DEFINE q == result.quote
             a == result.assessment
  <2> SUFFICES ASSUME EvidenceInv, ResultUnblocked, q # "none",
                      NEW c \in Catalogue(a), c.stage # "AFTER_SELECTION"
               PROVE  IF c.control = "AMOUNT_APPROVAL"
                      THEN IsTriggered(c, Cost[q]) => IsSupported(c, q, a.day)
                      ELSE Eligibility(a, q) = "VERIFIED" => IsSupported(c, q, a.day)
    BY DEF RecommendedIsSupported
  <2>1. result # NoResult /\ q \in Quotes /\ a \in Assessment
    BY DEF NoResult, EvidenceInv, TypeOK
  <2>2. a = assessment /\ a.evidence = Unreplaced /\ ~PolicyErrors(a)
    BY <2>1 DEF EvidenceInv, ResultHolds, AssessmentHolds
  <2>3. Blockers(a, q) = {}
    BY ChecksAreFound DEF ResultUnblocked, Blockers, Found
  <2> HIDE DEF a, q
  <2> QED
    BY <2>1, <2>2, <2>3, NotBlocked
<1> QED
  BY <1>1, <1>2, <1>3, EvidenceInvariance, PTL DEF Spec

=============================================================================
