--------------------------- MODULE ComplianceRules ---------------------------
(***************************************************************************)
(* The evaluation of one reviewed policy clause against the evidence that  *)
(* people confirmed for a quote (rules/compliance.py), and what an         *)
(* assessment makes of the clauses of a policy (backend/compliance.py).    *)
(*                                                                         *)
(* A clause is a record [control, stage, from, until, executable,          *)
(* reviewed, matching, missing, expired, mismatch, unspecified, currency,  *)
(* threshold, strict].  Evidence is a record [quote, control, supplier,    *)
(* part, amount, currency, covered, outcome, from, until, permanent].      *)
(* Days are numbers, and 0 stands for a date that is not given.            *)
(***************************************************************************)
EXTENDS Integers, FiniteSets

NoDate == 0

Check(status, reason) ==
  [status |-> status, reason |-> reason, triggered |-> FALSE, approved |-> FALSE]

\* GT or GTE: the controls in use approve amounts above a threshold.
IsTriggered(clause, amount) ==
  IF clause.strict THEN amount > clause.threshold ELSE amount >= clause.threshold

\* Mutant: the records of a quote are taken one by one, the first that is given.
BugFirstCounts(records) == FALSE

\* What the source and its date say must be the same in all of them: a conflict
\* is resolved by a replacement, never by taking the newest.
IsConflict(records) ==
  \E a, b \in records :
    IF a.control = "AMOUNT_APPROVAL"
    THEN <<a.from, a.until, a.permanent, a.covered, a.outcome, a.amount, a.currency>> #
         <<b.from, b.until, b.permanent, b.covered, b.outcome, b.amount, b.currency>>
    ELSE <<a.from, a.until, a.permanent, a.covered, a.outcome, a.part>> #
         <<b.from, b.until, b.permanent, b.covered, b.outcome, b.part>>

IsExpired(item, day) == item.until # NoDate /\ item.until < day

\* The last tests of both kinds of control.
InTime(clause, item, day, confirmed) ==
  IF item.from # NoDate /\ item.from > day
    THEN Check(clause.missing, "EVIDENCE_NOT_YET_EFFECTIVE")
  ELSE IF IsExpired(item, day) THEN Check(clause.expired, "EVIDENCE_EXPIRED")
  ELSE IF /\ ~clause.unspecified
          /\ item.from = NoDate \/ (item.until = NoDate /\ ~item.permanent)
    THEN Check("REVIEW_REQUIRED", "VALIDITY_UNSPECIFIED")
  ELSE confirmed

Approval(clause, records, known, amount, currency, day) ==
  LET item == CHOOSE r \in records : TRUE
  IN  IF records = {}
        THEN Check("REVIEW_REQUIRED", IF known = {} THEN "AMOUNT_APPROVAL_MISSING"
                                      ELSE "AMOUNT_APPROVAL_SCOPE_MISMATCH")
      ELSE IF IsConflict(records) THEN Check("REVIEW_REQUIRED", "AMOUNT_APPROVAL_CONFLICT")
      ELSE IF ~item.covered THEN Check("REVIEW_REQUIRED", "COVERAGE_UNCONFIRMED")
      ELSE IF item.currency # currency
        THEN Check(clause.mismatch, "AMOUNT_APPROVAL_CURRENCY_MISMATCH")
      ELSE IF item.amount < amount
        THEN Check(clause.mismatch, "AMOUNT_APPROVAL_INSUFFICIENT")
      ELSE InTime(clause, item, day,
                  IF item.outcome = "FAIL" THEN Check("FAIL", "AMOUNT_APPROVAL_REJECTED")
                  ELSE [Check("PASS", "AMOUNT_APPROVAL_CONFIRMED")
                          EXCEPT !.approved = TRUE])

EvaluateAmount(clause, evidence, supplier, amount, currency, day) ==
  LET known   == {e \in evidence : e.control = "AMOUNT_APPROVAL"}
      records == {e \in known : e.supplier = supplier}
  IN  IF amount = -1 THEN Check("REVIEW_REQUIRED", "AMOUNT_UNKNOWN")
      ELSE IF currency # clause.currency THEN Check("REVIEW_REQUIRED", "CURRENCY_MISMATCH")
      ELSE IF ~IsTriggered(clause, amount)
        THEN Check("PASS", "AMOUNT_RULE_NOT_TRIGGERED")
      ELSE [Approval(clause, records, known, amount, currency, day)
              EXCEPT !.triggered = TRUE]

EvaluateEvidence(clause, evidence, supplier, part, day) ==
  LET known   == {e \in evidence : e.control = clause.control}
      records == {e \in known : e.supplier = supplier}
      item    == CHOOSE r \in records : TRUE
  IN  IF supplier = "none" THEN Check("REVIEW_REQUIRED", "SUPPLIER_IDENTITY_UNCONFIRMED")
      ELSE IF records = {}
        THEN IF known = {} THEN Check(clause.missing, "EVIDENCE_MISSING")
             ELSE Check(clause.mismatch, "EVIDENCE_SCOPE_MISMATCH")
      ELSE IF IsConflict(records) THEN Check("REVIEW_REQUIRED", "EVIDENCE_CONFLICT")
      ELSE IF ~item.covered THEN Check("REVIEW_REQUIRED", "COVERAGE_UNCONFIRMED")
      ELSE IF "part" \in clause.matching /\ item.part # part
        THEN Check(clause.mismatch, "EVIDENCE_SCOPE_MISMATCH")
      ELSE InTime(clause, item, day, Check(item.outcome, "EVIDENCE_CONFIRMED"))

\* evaluate_compliance_rule.  assess_compliance passes the stage of the clause
\* itself, so no clause is deferred to a later stage.
EvaluateRule(clause, evidence, supplier, part, amount, currency, day) ==
  IF ~clause.executable THEN Check("NOT_EVALUATED", "EXECUTABLE_PARAMETERS_REQUIRED")
  ELSE IF clause.reviewed > day THEN Check("NOT_EVALUATED", "RULE_NOT_YET_REVIEWED")
  ELSE IF clause.control = "AMOUNT_APPROVAL"
    THEN EvaluateAmount(clause, evidence, supplier, amount, currency, day)
  ELSE EvaluateEvidence(clause, evidence, supplier, part, day)

-----------------------------------------------------------------------------
(* The assessment of one quote.  checks is a function from clauses.        *)

Accepted == {"PASS", "NOT_APPLICABLE"}

\* The clauses that decide on eligibility.
BeforeRecommendation(clauses) ==
  {c \in clauses : c.stage = "BEFORE_RECOMMENDATION" /\ c.control # "AMOUNT_APPROVAL"}

EligibilityStatus(checks, enabled, errors) ==
  LET before == BeforeRecommendation(DOMAIN checks)
  IN  IF ~enabled THEN "UNVERIFIED"
      ELSE IF \E c \in before : checks[c].status = "FAIL" THEN "EXCLUDED"
      ELSE IF errors \/ \E c \in before : checks[c].status \notin Accepted
        THEN "UNVERIFIED"
      ELSE "VERIFIED"

BlocksPublication(clause, check) ==
  /\ check.reason # "EXECUTABLE_PARAMETERS_REQUIRED"
  /\ IF clause.control = "AMOUNT_APPROVAL"
     THEN /\ clause.stage \in {"BEFORE_RECOMMENDATION", "BEFORE_PUBLICATION"}
          /\ check.status \notin Accepted \/ (check.triggered /\ ~check.approved)
     ELSE /\ clause.stage = "BEFORE_PUBLICATION"
          /\ check.status \notin Accepted
=============================================================================
