--------------------------- MODULE MCInvestigation ---------------------------
(* Two quotes and two clauses; plans of a decision with and without a check *)
(* of the policy, and room for all of it.                                   *)
EXTENDS Investigation

MCKinds       == {"QUOTE", "POLICY", "REQUEST", "DECISION"}
MCNonBlocking == {2}
MCPlans       == {{"quote", "history"}, {"quote", "policy"}}
=============================================================================
