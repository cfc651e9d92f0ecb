------------------------ MODULE MCComplianceEvidence ------------------------
(* Two quotes, of which the dearer one needs an approval; a qualification  *)
(* that every supplier needs; and a second policy clause that ends.        *)
EXTENDS ComplianceEvidence

MCQuotes   == {"q1", "q2"}
MCSupplier == [q \in MCQuotes |-> IF q = "q1" THEN "s1" ELSE "s2"]
MCCost     == [q \in MCQuotes |-> IF q = "q1" THEN 120 ELSE 150]
MCEditors  == {"e1"}

Clause(control, stage, until) ==
  [control |-> control, stage |-> stage, from |-> 1, until |-> until,
   executable |-> TRUE, reviewed |-> 1,
   matching |-> {"supplier"}, missing |-> "REVIEW_REQUIRED", expired |-> "FAIL",
   mismatch |-> "REVIEW_REQUIRED", unspecified |-> FALSE, currency |-> "SGD",
   threshold |-> 100, strict |-> TRUE]

MCClauses == {Clause("APPROVED_SUPPLIER", "BEFORE_RECOMMENDATION", NoDate),
              Clause("AMOUNT_APPROVAL", "BEFORE_PUBLICATION", 2)}

Qualified(outcome, until) ==
  [quote |-> "q1", control |-> "APPROVED_SUPPLIER", supplier |-> "s1", part |-> "none",
   amount |-> -1, currency |-> "none", covered |-> TRUE, outcome |-> outcome,
   from |-> 1, until |-> until, permanent |-> until = NoDate]
Approved(amount) ==
  [quote |-> "q1", control |-> "AMOUNT_APPROVAL", supplier |-> "s1", part |-> "none",
   amount |-> amount, currency |-> "SGD", covered |-> TRUE, outcome |-> "PASS",
   from |-> 1, until |-> NoDate, permanent |-> TRUE]

MCFacts == {Qualified("PASS", 2), Qualified("FAIL", 3), Approved(110), Approved(120)}
=============================================================================
