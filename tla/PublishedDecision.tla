------------------------- MODULE PublishedDecision -------------------------
(***************************************************************************)
(* What a procurement task promises to everything that builds on it: a     *)
(* revision of its inputs, at most one published result for it, and no way *)
(* back.  A published result is only withdrawn, never replaced, and a      *)
(* withdrawn one never returns, so that its id stands for one computation. *)
(*                                                                         *)
(* TaskWorkflow implements this specification; conversations, scenarios    *)
(* and summaries are specified against it, each joining its own updates to *)
(* the steps of the task.                                                  *)
(***************************************************************************)
EXTENDS Integers

VARIABLES
  revision, \* the revision of the inputs
  result,   \* the id of the published result, 0 when there is none
  retired,  \* ids up to this one have been withdrawn or given up
  closed    \* the task is abandoned

decision == <<revision, result, retired, closed>>

Init == /\ revision = 1
        /\ result = 0
        /\ retired = 0
        /\ closed = FALSE

\* The run that has worked for the current revision publishes its result.
Publish(id) == /\ ~closed
               /\ result = 0
               /\ id > retired
               /\ result' = id
               /\ UNCHANGED <<revision, retired, closed>>

\* Whatever a step does to the result, it withdraws it.
Retire(upTo) == /\ upTo >= retired
                /\ upTo >= result
                /\ result' = 0
                /\ retired' = upTo

\* The inputs change.
Revise(upTo) == /\ ~closed
                /\ revision' = revision + 1
                /\ Retire(upTo)
                /\ UNCHANGED closed

\* A stage is started again for the same inputs.
Restart(upTo) == /\ ~closed
                 /\ Retire(upTo)
                 /\ UNCHANGED <<revision, closed>>

Abandon(upTo) == /\ ~closed
                 /\ closed' = TRUE
                 /\ revision' = revision + 1
                 /\ Retire(upTo)

Next == \/ result' \in Nat /\ Publish(result')
        \/ retired' \in Nat /\ (Revise(retired') \/ Restart(retired')
                                              \/ Abandon(retired'))

Spec == Init /\ [][Next]_decision

\* What the consumers of a decision rely on: a published result has an id that
\* was never published before.
FreshResult == result # 0 => result > retired
=============================================================================
