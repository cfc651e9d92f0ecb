------------------------ MODULE MCDecisionScenarios ------------------------
(* Values of the set constants for TLC.                                    *)
EXTENDS DecisionScenarios, TLC

\* Requests that are handled at the same time can be exchanged.
ClientSymmetry == Permutations(Clients)

MCKeys    == {"k1"}
MCChanges == {"fastest", "cheapest"}
=============================================================================
