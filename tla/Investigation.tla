---------------------------- MODULE Investigation ----------------------------
(***************************************************************************)
(* An investigation: a planning model chooses one read-only tool after the *)
(* other within budgets of calls and time (investigation.py), on one of    *)
(* four kinds of cases.                                                    *)
(*   QUOTE     open facts of the quotes, a node of the workflow            *)
(*   POLICY    clauses whose retrieval failed, a node of the workflow that *)
(*             may retrieve again                                          *)
(*   REQUEST   one analysis of one quote, asked for by the user            *)
(*   DECISION  the published decision, asked for by the user or in a       *)
(*             conversation; it ends with a brief                          *)
(* A node is run again from its stored cases when its worker was           *)
(* interrupted; a request is made again as a new case.                     *)
(*                                                                         *)
(* What a tool returns is its status.  A case is saved after every call of *)
(* the model and every observation; what is read between two commits is    *)
(* read at the second one, which no reader can tell from the code's order, *)
(* for a save looks at nothing.                                            *)
(***************************************************************************)
EXTENDS Integers, FiniteSets

CONSTANTS
  Kinds,          \* kinds of investigation that occur
  Quotes,         \* how many cases of quotes there are
  Controls,       \* how many clauses are retrieved
  NonBlocking,    \* cases of quotes without an impact on the decision
  Plans,          \* sets of checks a decision's plan may require
  Policy,         \* the check that reads the policy assessment
  PolicyBound,    \* it is offered although the plan may not require it
  MaxModelCalls, MaxToolCalls, \* AgentLimits
  MaxRetries,     \* retrievals that may be repeated in a run
  MaxFaults       \* bound: interruptions

ASSUME LimitsAssumption ==
  /\ Kinds \subseteq {"QUOTE", "POLICY", "REQUEST", "DECISION"}
  /\ Quotes \in Nat \ {0} /\ Controls \in Nat \ {0} /\ NonBlocking \subseteq 1 .. Quotes
  /\ {} \notin Plans /\ PolicyBound \in BOOLEAN
  \* the brief is a tool of its own, and a plan is a list of checks
  /\ Policy # "brief" /\ \A p \in Plans : "brief" \notin p /\ IsFiniteSet(p)
  /\ MaxModelCalls \in Nat \ {0} /\ MaxToolCalls \in Nat \ {0}
  /\ MaxRetries \in 0 .. 3 /\ MaxFaults \in Nat

Most    == IF Quotes > Controls THEN Quotes ELSE Controls
CaseIds == 1 .. Most
\* ERROR is also no evidence and a conflict, which are not sent again.
Statuses == {"OK", "TRANSIENT", "ERROR"}

VARIABLES
  kind,       \* kind of this investigation
  question,   \* a decision investigation names the user's question
  required,   \* checks of its plan
  current,    \* revision, run and result are still those it began with
  late,       \* max_seconds have passed since the first case was started
  cases,      \* latest INVESTIGATION_CASE artifact of each case
  retrievals, \* newest POLICY_RETRIEVAL_RESULT of each clause
  attempts,   \* POLICY_RETRY_ATTEMPT artifacts of the run
  node,       \* what the worker knows
  faults,     \* interruptions so far
  asked,      \* history: requests sent to the model, up to one too many
  sent        \* history: retrievals sent again

vars == <<kind, question, required, current, late, cases, retrievals, attempts, node, faults,
          asked, sent>>
world == <<kind, question, required, current, late, faults>>

NewCase == [status |-> "PLANNED", saved |-> FALSE, calls |-> 0, observed |-> 0,
            names |-> {}, done |-> {}, denied |-> FALSE, retried |-> FALSE]
Final   == {"RESOLVED", "WAITING_INPUT", "LIMIT_REACHED", "STALE"}
Off     == [step |-> "off", at |-> 1, calls |-> 0, tools |-> 0, seen |-> {},
            used |-> [c \in CaseIds |-> 0], name |-> "none"]

Steps == {"off", "enter", "loop", "asked", "reserve", "retrying", "retrieved", "observed",
          "ended", "failed"}
Names == {"read", "clarify", "retry", "analysis", "brief", "other", "none", Policy}
           \cup UNION Plans

IsNode == kind \in {"QUOTE", "POLICY"}

\* The cases of this investigation.  A clause that was found has none.
Ids == CASE kind = "QUOTE"  -> 1 .. Quotes
         [] kind = "POLICY" -> {c \in 1 .. Controls :
                                  cases[c].saved \/ retrievals[c].status # "OK"}
         [] OTHER -> {1}

\* What the plan of a decision requires depends on its ranking and the question.
PlansOf(k) == IF k = "DECISION" THEN Plans ELSE {{}}

Init ==
  /\ kind \in Kinds
  /\ question \in (IF kind = "DECISION" THEN BOOLEAN ELSE {FALSE})
  /\ required \in PlansOf(kind)
  /\ current = TRUE /\ late = FALSE
  /\ cases = [c \in CaseIds |-> NewCase]
  /\ retrievals \in [CaseIds -> {[version |-> 1, status |-> s] : s \in
                                   IF kind = "POLICY" THEN Statuses ELSE {"OK"}}]
  /\ attempts = 0 /\ node = Off
  /\ faults = 0 /\ asked = 0 /\ sent = 0

-----------------------------------------------------------------------------
(* The tools of each kind.                                                 *)

Checks == required \cup (IF PolicyBound THEN {Policy} ELSE {})

Tools == CASE kind = "QUOTE"    -> {"read", "clarify"}
           [] kind = "POLICY"   -> {"read", "clarify", "retry"}
           [] kind = "REQUEST"  -> {"read", "analysis"}
           [] OTHER -> Checks \cup {"brief"}

\* Checks that are still offered, and the brief once the plan is done.
\* Mutant: the brief is offered at any time.
BugAnyTime(case) == (Checks \ case.done) \cup {"brief"}

Available(case) ==
  (Checks \ case.done) \cup (IF required \subseteq case.done THEN {"brief"} ELSE {})

\* What a tool returns while the inputs are current.
QuoteResults(name) == IF name = "clarify" THEN {"NEEDS_INPUT"}
                      ELSE IF name = "analysis" THEN {"OK", "DENIED"}
                      ELSE {"OK", "NOT_FOUND", "ERROR"}

PolicyResults(name) == IF name = "clarify" THEN {"NEEDS_INPUT"} ELSE {"OK"}

\* The brief restates what was observed; it needs one observation at least.
BriefResults(case) == IF case.done # {} THEN {"OK"} ELSE {"DENIED"}

DecisionResults(case, name) ==
  IF name \notin Available(case) THEN {"DENIED"}
  ELSE IF name = "brief" THEN BriefResults(case)
  ELSE {"OK", "NOT_FOUND"}

Results(case, name) == IF name \notin Tools THEN {"DENIED"}
                       ELSE IF kind = "DECISION" THEN DecisionResults(case, name)
                       ELSE IF kind = "POLICY" THEN PolicyResults(name)
                       ELSE QuoteResults(name)

\* A repeated retrieval is another state of the server, and its call another one.
Signature(n, name) == <<name, IF kind = "POLICY" THEN n.used[n.at] ELSE 0>>

\* The result a node finds in the versions it uses.
Found(c) == retrievals[c].status = "OK"

IsResolved(c) == CASE kind = "POLICY"   -> Found(c)
                   [] kind = "REQUEST"  -> "analysis" \in cases[c].done
                   [] kind = "DECISION" -> "brief" \in cases[c].done
                   [] OTHER -> FALSE

ShouldFinalize(case) ==
  /\ kind = "DECISION"
  /\ case.done # {}
  /\ case.denied \/ required \subseteq case.done \/ Cardinality(case.done) >= 5

\* finalize_decision: the last call of a tool is kept for the brief.
CanFinalize(case) == /\ kind = "DECISION" /\ current
                     /\ node.tools < MaxToolCalls
                     /\ DecisionResults(case, "brief") = {"OK"}

-----------------------------------------------------------------------------
(* Saving a case.                                                          *)

At   == node.at
Case == cases[node.at]

Save(case) == cases' = [cases EXCEPT ![node.at] = [case EXCEPT !.saved = TRUE]]

\* The runner goes to the next case.
NextCase == node' = [node EXCEPT !.at = @ + 1, !.step = "enter", !.seen = {}, !.name = "none"]

Finish(status) == Save([Case EXCEPT !.status = status]) /\ NextCase

Observed(case, name, status) ==
  [case EXCEPT !.observed = @ + 1, !.names = @ \cup {name},
               !.done = IF status \in {"OK", "NOT_FOUND"} THEN @ \cup {name} ELSE @,
               !.denied = @ \/ status = "DENIED"]

Finalize == /\ Save([Observed(Case, "brief", "OK") EXCEPT !.status = "RESOLVED"])
            /\ NextCase

\* The case is saved with one more observation, and the runner looks at it.
Observe(name, status) ==
  /\ Save(Observed(Case, name, status))
  /\ node' = [node EXCEPT !.step = "observed", !.tools = @ + 1, !.name = name,
                          !.seen = @ \cup {Signature(node, name)}]

\* A call that was made before is not made again.
Refuse(name) ==
  /\ Save(Observed(Case, name, "DENIED"))
  /\ node' = [node EXCEPT !.step = "observed", !.tools = @ + 1, !.name = "none"]

Database == <<retrievals, attempts>>
History  == <<asked, sent>>

-----------------------------------------------------------------------------
(* The node.                                                               *)

\* The sums of what the first n cases have spent.
Total(spent) == LET upTo[n \in 0 .. Most] == IF n = 0 THEN 0 ELSE upTo[n - 1] + spent[n]
                IN  upTo

\* Mutant: the calls of this process.
BugThisProcess(field) == 0

\* Budgets are shared by all cases and survive a replay.
Spent(field) == Total([c \in CaseIds |-> cases[c][field]])[Most]

\* Mutant: the versions the run began with, which are those of the checkpoint.
BugCheckpointed == [c \in CaseIds |-> 1]

\* A retry that was stored before an interruption is used instead of the result
\* in the checkpoint.
Recovered == [c \in CaseIds |-> retrievals[c].version]

\* The node, or the handler of a request, which begins with two observations.
Start ==
  /\ node.step = "off"
  /\ IF IsNode
     THEN /\ UNCHANGED <<cases, asked>>
          /\ late' = (late /\ \E c \in CaseIds : cases[c].saved)
          /\ node' = [Off EXCEPT !.step = "enter", !.calls = Spent("calls"),
                        !.tools = Spent("observed"),
                        !.used = Recovered]
     ELSE /\ current
          /\ late' = FALSE /\ asked' = 0
          /\ cases' = [cases EXCEPT ![1] = [NewCase EXCEPT
                         !.observed = IF kind = "DECISION" THEN 2 ELSE 0]]
          /\ node' = [Off EXCEPT !.step = "enter",
                        !.tools = IF kind = "DECISION" THEN 2 ELSE 0]
  /\ UNCHANGED <<kind, question, required, current, faults, retrievals, attempts, sent>>

Skip == UNCHANGED cases /\ NextCase

Enter ==
  /\ node.step = "enter" /\ At \in CaseIds
  /\ CASE At \notin Ids              -> Skip
       [] At \in Ids /\ ~current     -> Finish("STALE")
       [] At \in Ids /\ current /\ IsResolved(At) -> Finish("RESOLVED")
       [] At \in Ids /\ current /\ ~IsResolved(At) /\ Case.status \in Final -> Skip
       [] OTHER ->
            IF kind = "QUOTE" /\ At \in NonBlocking THEN Finish("RESOLVED")
            ELSE /\ Save([Case EXCEPT !.status = "RUNNING"])
                 /\ node' = [node EXCEPT !.step = "loop",
                               !.seen = {Signature(node, n) : n \in Case.names}]
  /\ UNCHANGED <<world, Database, History>>

OutOfBudget == \/ node.calls >= MaxModelCalls
               \/ node.tools >= MaxToolCalls
               \/ kind = "DECISION" /\ node.tools >= MaxToolCalls - 1
               \/ late

\* A call is counted and saved before the model is asked.
Loop ==
  /\ node.step = "loop"
  /\ CASE ~current -> Finish("STALE") /\ UNCHANGED asked
       [] current /\ IsResolved(At) -> Finish("RESOLVED") /\ UNCHANGED asked
       [] current /\ ~IsResolved(At) /\ CanFinalize(Case)
          /\ (ShouldFinalize(Case) \/ OutOfBudget) -> Finalize /\ UNCHANGED asked
       [] OTHER ->
            IF OutOfBudget THEN Finish("LIMIT_REACHED") /\ UNCHANGED asked
            ELSE /\ Save([Case EXCEPT !.calls = @ + 1])
                 /\ node' = [node EXCEPT !.step = "asked", !.calls = @ + 1]
                 /\ asked' = IF asked > MaxModelCalls THEN asked ELSE asked + 1
  /\ UNCHANGED <<world, Database, sent>>

\* The model does not answer, or not in the required form.  A decision
\* investigation goes on with the checks of its plan and compiles the brief.
PlannerFails ==
  LET left  == IF question THEN Checks \ Case.done ELSE {}
      slots == MaxToolCalls - 1 - node.tools
  IN  /\ node.step = "asked"
      /\ \/ \E made \in SUBSET left :
              LET case == [Case EXCEPT !.done = @ \cup made, !.names = @ \cup made,
                                       !.observed = @ + Cardinality(made)]
              IN  /\ kind = "DECISION" /\ current
                  /\ Cardinality(made) <= slots
                  /\ made = left \/ Cardinality(made) = slots
                  /\ IF /\ question \/ ShouldFinalize(case)
                        /\ DecisionResults(case, "brief") = {"OK"}
                     THEN Save([Observed(case, "brief", "OK") EXCEPT !.status = "RESOLVED"])
                     ELSE \E status \in {"WAITING_INPUT", "LIMIT_REACHED"} :
                            Save([case EXCEPT !.status = status])
                  /\ NextCase
         \/ /\ kind # "DECISION" \/ ~current
            /\ Finish("WAITING_INPUT") \/ Finish("LIMIT_REACHED")
      /\ UNCHANGED <<world, Database, History>>

\* The answer comes after a change, or too late.
AnswerIsVoid == /\ node.step = "asked"
                /\ IF ~current THEN Finish("STALE") ELSE late /\ Finish("LIMIT_REACHED")
                /\ UNCHANGED <<world, Database, History>>

Answered == node.step = "asked" /\ current /\ ~late

\* Mutant: a question that is repeated does not count.
BugRepeats == /\ Save([Case EXCEPT !.calls = @ - 1])
              /\ node' = [node EXCEPT !.step = "loop", !.calls = @ - 1]

\* A decision investigation asks a model that stops too early once more.
AskAgain == /\ Save([Case EXCEPT !.retried = TRUE])
            /\ node' = [node EXCEPT !.step = "loop"]

\* Reads one more piece of evidence for a model that stops too early.  Without a
\* question about the policy, the policy alone is not one.
Fallbacks(case) == LET left == Checks \ case.done
                   IN  left \cup (IF left \subseteq {Policy} THEN {"none"} ELSE {})

PlannerStops ==
  /\ Answered
  /\ IF CanFinalize(Case) THEN Finalize
     ELSE \E f \in IF kind = "DECISION" THEN Fallbacks(Case) ELSE {"none"} :
            IF f # "none" /\ node.tools < MaxToolCalls - 1
            THEN \E status \in Results(Case, f) :
                   /\ Save(Observed(Case, f, status))
                   /\ node' = [node EXCEPT !.step = "loop", !.tools = @ + 1,
                                           !.seen = @ \cup {Signature(node, f)}]
            ELSE IF kind = "DECISION" /\ ~Case.retried
                 THEN AskAgain
                 ELSE Finish("WAITING_INPUT")
  /\ UNCHANGED <<world, Database, History>>

\* A choice outside the plan is replaced by the next check of the plan.
IsReplaced(name) == /\ kind = "DECISION"
                    /\ name \notin Available(Case) \/ Signature(node, name) \in node.seen
                    /\ Checks \ Case.done # {}

Chosen(name) == IF IsReplaced(name) THEN Checks \ Case.done ELSE {name}

PlannerCalls ==
  /\ Answered
  /\ \E name \in Tools \cup {"other"} : \E run \in Chosen(name) :
       IF Signature(node, run) \in node.seen THEN Refuse(run)
       ELSE IF run # "retry" THEN \E status \in Results(Case, run) : Observe(run, status)
       ELSE IF retrievals[At].status # "TRANSIENT" THEN Observe(run, "DENIED")
       ELSE UNCHANGED cases /\ node' = [node EXCEPT !.step = "reserve"]
  /\ UNCHANGED <<world, Database, History>>

\* reserve_policy_retry: with the task locked, before anything is sent.
Reserve ==
  /\ node.step = "reserve" /\ current
  /\ IF attempts >= MaxRetries
     THEN Observe("retry", "DENIED") /\ UNCHANGED attempts
     ELSE /\ attempts' = attempts + 1
          /\ node' = [node EXCEPT !.step = "retrying"]
          /\ UNCHANGED cases
  /\ UNCHANGED <<world, retrievals, History>>

\* It raises when the task has moved on: the job of the run fails.
ReserveRefused == /\ node.step = "reserve" /\ ~current
                  /\ node' = [node EXCEPT !.step = "failed"]
                  /\ UNCHANGED <<world, cases, Database, History>>

Retrieve ==
  /\ node.step = "retrying"
  /\ sent' = sent + 1
  /\ \E status \in Statuses :
       retrievals' = [retrievals EXCEPT ![At] = [version |-> @.version + 1, status |-> status]]
  /\ node' = [node EXCEPT !.step = "retrieved", !.used[node.at] = @ + 1]
  /\ UNCHANGED <<world, cases, attempts, asked>>

\* The signature of a retry is that of the version it replaced.
Retrieved ==
  /\ node.step = "retrieved"
  /\ Save(Observed(Case, "retry", IF ~current THEN "STALE"
                                  ELSE IF Found(At) THEN "OK" ELSE "ERROR"))
  /\ node' = [node EXCEPT !.step = "observed", !.tools = @ + 1, !.name = "retry",
                          !.seen = @ \cup {<<"retry", node.used[node.at] - 1>>}]
  /\ UNCHANGED <<world, Database, History>>

AfterObservation ==
  /\ node.step = "observed"
  /\ CASE ~current -> Finish("STALE")
       [] current /\ IsResolved(At) -> Finish("RESOLVED")
       [] OTHER -> IF late THEN Finish("LIMIT_REACHED")
                   ELSE IF node.name = "clarify"
                        THEN Finish("WAITING_INPUT")
                        ELSE UNCHANGED cases /\ node' = [node EXCEPT !.step = "loop"]
  /\ UNCHANGED <<world, Database, History>>

\* The node raises when a case is stale; otherwise the gate uses its versions.
End == /\ node.step = "enter" /\ At \notin CaseIds
       /\ node' = [node EXCEPT !.step =
                     IF ~current \/ \E c \in Ids : cases[c].status = "STALE"
                     THEN "failed" ELSE "ended"]
       /\ UNCHANGED <<world, cases, Database, History>>

-----------------------------------------------------------------------------
(* The surroundings.                                                       *)

InputsChange == /\ current /\ current' = FALSE
                /\ UNCHANGED <<kind, question, required, late, faults, cases, Database, node, History>>

TimePasses == /\ node.step \notin {"off", "ended", "failed"}
              /\ ~late /\ late' = TRUE
              /\ UNCHANGED <<kind, question, required, current, faults, cases, Database, node, History>>

\* The worker dies or a save fails.  A retrieval may have been sent or not.
Interrupt ==
  /\ faults < MaxFaults /\ faults' = faults + 1
  /\ node.step # "off" /\ node.step # "failed"
  /\ node' = Off
  /\ sent' \in IF node.step = "retrying" THEN {sent, sent + 1} ELSE {sent}
  /\ UNCHANGED <<kind, question, required, current, late, cases, Database, asked>>

RunnerStep == \/ Enter \/ Loop \/ PlannerFails \/ AnswerIsVoid \/ PlannerStops
              \/ PlannerCalls \/ Reserve \/ ReserveRefused \/ Retrieve \/ Retrieved
              \/ AfterObservation \/ End

Next == Start \/ RunnerStep \/ InputsChange \/ TimePasses \/ Interrupt

Spec == Init /\ [][Next]_vars

\* A request to the model has a timeout, and the runner goes on.
FairSpec == Spec /\ WF_vars(RunnerStep)

-----------------------------------------------------------------------------
(* Properties.                                                             *)

CaseRow == [status : {"PLANNED", "RUNNING"} \cup Final, saved : BOOLEAN, calls : Nat,
            observed : Nat, names : SUBSET Names, done : SUBSET Names, denied : BOOLEAN,
            retried : BOOLEAN]
NodeRow == [step : Steps, at : Nat \ {0}, calls : Nat, tools : Nat,
            seen : SUBSET (Names \X Int), used : [CaseIds -> Nat], name : Names]

TypeOK ==
  /\ kind \in Kinds /\ required \in Plans \cup {{}}
  /\ question \in BOOLEAN /\ current \in BOOLEAN /\ late \in BOOLEAN
  /\ cases \in [CaseIds -> CaseRow] /\ node \in NodeRow
  /\ retrievals \in [CaseIds -> [version : Nat, status : Statuses]]
  /\ attempts \in Nat /\ faults \in 0 .. MaxFaults
  /\ asked \in Nat /\ sent \in Nat

\* However often a node is interrupted and run again, and whatever the model
\* chooses, an investigation stays within its limits: requests to the model,
\* observations with the brief among them, and retrievals sent again by all
\* cases of the run (investigation.py run, service.py reserve_policy_retry).
WithinBudgets == /\ asked <= MaxModelCalls
                 /\ Spent("observed") <= MaxToolCalls
                 /\ sent <= attempts /\ attempts <= MaxRetries

\* A case is resolved by what the server found and never by what the model says:
\* a clause by a retrieval that is still the newest, a decision by a brief for
\* which every check of its plan was made, a quote by having no impact
\* (policy_investigation.py resolution, decision_investigation.py execute).
ResolvedIsProven ==
  \A c \in CaseIds : cases[c].status = "RESOLVED" =>
    CASE kind = "POLICY"   -> retrievals[c].status = "OK"
      [] kind = "DECISION" -> required \subseteq cases[c].done
      [] kind = "REQUEST"  -> "analysis" \in cases[c].done
      [] OTHER -> c \in NonBlocking

\* What the gate is given are the newest retrievals, also those a node made
\* before it was interrupted (policy_investigation.py __init__).
NewestIsUsed == (kind = "POLICY" /\ node.step = "ended") =>
                  \A c \in 1 .. Controls : node.used[c] = retrievals[c].version

\* A model that stops, repeats itself or answers nonsense does not keep an
\* investigation from its end (investigation.py run).
EveryInvestigationEnds ==
  node.step \notin {"off", "ended", "failed"} ~> node.step \in {"off", "ended", "failed"}
=============================================================================
