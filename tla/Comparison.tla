----------------------------- MODULE Comparison -----------------------------
(***************************************************************************)
(* Which quotes are recommended, and what the answers to what-if questions *)
(* are worth.  A comparison looks at the quotes in scope, puts the policy  *)
(* and the open facts before the ranking, ranks by one criterion and by a  *)
(* second one only to break a tie.  Open facts do not hold it up when they *)
(* provably cannot change the outcome.                                     *)
(*                                                                         *)
(* The comparison is a function of the facts, the settings, the policy     *)
(* assessment and the day.  The actions are what changes those between two *)
(* comparisons of one task.                                                *)
(***************************************************************************)
EXTENDS QuoteRules, Sequences

CONSTANTS
  Quotes,       \* quotes of the task
  SupplierOf,   \* the supplier of each quote
  Sheets,       \* the fact sheets a review can leave each quote with
  History,      \* the history snapshot of each quote
  Requirements, \* requirements a buyer states
  Hypotheses,   \* what-if changes: records of the fields that are given
  Assessments,  \* outcomes of a policy assessment, by quote
  Answers,      \* the values an open fact can turn out to have, by field
  LastDay       \* bound: days 0 .. LastDay

\* The fields of a change that are given, as their requests validate them.
IsChange(changes) ==
  /\ DOMAIN changes \subseteq {"budget_amount", "delivery_deadline", "primary",
                               "secondary", "excluded", "tolerance"}
  /\ DOMAIN changes # {}
  /\ "budget_amount" \in DOMAIN changes => changes.budget_amount \in Nat
  /\ "delivery_deadline" \in DOMAIN changes => changes.delivery_deadline \in Int
  /\ "primary" \in DOMAIN changes => changes.primary \in Criteria
  /\ "secondary" \in DOMAIN changes => changes.secondary \in Rankings
  /\ "tolerance" \in DOMAIN changes => changes.tolerance \in Nat \cup {None}

ASSUME QuotesAssumption ==
  /\ IsFiniteSet(Quotes) /\ Quotes # {}
  /\ LastDay \in Nat
  /\ Assessments \subseteq [Quotes -> {"VERIFIED", "UNVERIFIED", "EXCLUDED"}]
  /\ \A q \in Quotes : IsHistory(History[q]) /\ \A sheet \in Sheets[q] : IsQuote(sheet)
  /\ \A req \in Requirements : IsRequirement(req)
  /\ \A changes \in Hypotheses : IsChange(changes)
  /\ DOMAIN Answers \subseteq FactFields
  /\ \A field \in DOMAIN Answers : \A value \in Answers[field] : Accepts(field, value)

Suppliers == {SupplierOf[q] : q \in Quotes}

VARIABLES
  facts,       \* the reviewed facts of each quote
  requirement, \* the current RequirementRecord
  profile,     \* payload of the latest DecisionProfile; primary "none" without
  policy,      \* policy eligibility of the quotes, if it was assessed
  today        \* the day of the evaluation

comparisonVars == <<facts, requirement, profile, policy, today>>

-----------------------------------------------------------------------------
(* Ranking.                                                                *)

Historical == {"PERFORMANCE", "ON_TIME", "REJECTED"}
Descending == {"PAYMENT", "PERFORMANCE", "ON_TIME"}

RankingIssue(req, tolerance) ==
  \/ req.primary \notin Criteria
  \/ req.secondary # "none" /\ req.secondary \notin Criteria
  \/ tolerance # None /\ req.primary # "COST"
  \/ req.primary \in Historical /\ \A q \in Quotes : ~History[q].bound

\* A group cannot be ranked when a value is missing, or when the payment terms
\* do not count from the same event.
GroupIssue(group, results, criterion) ==
  \/ \E q \in group : results[q].values[criterion] = None
  \/ /\ criterion = "PAYMENT"
     /\ Cardinality({results[q].payment_basis : q \in group}) # 1

Score(result, criterion) ==
  IF criterion \in Descending THEN -result.values[criterion]
  ELSE result.values[criterion]

\* The group's quotes from best to worst: those with i - 1 better scores are
\* the i-th set, and quotes of one set are tied.
ByScore(group, results, criterion) ==
  LET scores    == {Score(results[q], criterion) : q \in group}
      better(q) == {s \in scores : s < Score(results[q], criterion)}
  IN  [i \in 1 .. Cardinality(scores) |->
         {q \in group : Cardinality(better(q)) = i - 1}]

\* With a tolerance, all quotes that cost at most that much more than the
\* cheapest are tied.
Groups(group, results, criterion, tolerance) ==
  IF criterion # "COST" \/ tolerance = None THEN ByScore(group, results, criterion)
  ELSE LET near(q) == \A r \in group :
             results[q].values.COST <= results[r].values.COST + tolerance
           pool    == {q \in group : near(q)}
       IN  <<pool>> \o ByScore(group \ pool, results, criterion)

-----------------------------------------------------------------------------
(* Open facts that cannot matter.                                          *)

MissingFeeCodes == {"FIELD_MISSING", "FEE_AMOUNT_UNKNOWN"}

\* Mutant: a quote that can still tie is passed over.
BugTiesAreDominated(req, result, best) ==
  IF result.subtotal # None /\ best # None /\ result.subtotal >= best
  THEN "NON_BLOCKING" ELSE "REQUIRES_INVESTIGATION"

\* Only fees that are legally missing bound the cost from below.
AssessImpact(req, result, best) ==
  LET fees_only == \A issue \in result.pending :
                     issue.code \in MissingFeeCodes /\ issue.fields \subseteq FeeFields
  IN  CASE result.status = "FEASIBLE"   -> "NO_ISSUE"
        [] result.status = "INFEASIBLE" -> "NON_BLOCKING"
        [] result.status = "PENDING"    ->
             IF req.primary # "COST" \/ ~fees_only \/ result.subtotal = None
             THEN "UNDETERMINED"
             ELSE IF best # None /\ result.subtotal > best THEN "NON_BLOCKING"
                  ELSE "REQUIRES_INVESTIGATION"

-----------------------------------------------------------------------------
(* The comparison.                                                         *)

Outcome(disposition, recommended, ranked) ==
  [disposition |-> disposition, recommended |-> recommended, ranked |-> ranked]

PolicyStatus(assessed, q) == assessed.status[q]

\* A recommendation needs verified policy evidence for all it names.
Concluded(assessed, ranked) ==
  IF assessed.done /\ \E q \in ranked[1] : PolicyStatus(assessed, q) # "VERIFIED"
  THEN Outcome("POLICY_REVIEW_REQUIRED", {}, ranked)
  ELSE Outcome("RECOMMENDATION_AVAILABLE", ranked[1], ranked)

\* Quotes with verified policy evidence go first when there are any.
VerifiedFirst(feasible, assessed) ==
  LET verified == {q \in feasible : PolicyStatus(assessed, q) = "VERIFIED"}
  IN  IF assessed.done /\ verified # {} THEN verified ELSE feasible

\* A second criterion only breaks a tie in the best group.
BreakTie(req, results, ranked, assessed) ==
  IF req.secondary = "none" \/ Cardinality(ranked[1]) = 1
  THEN Concluded(assessed, ranked)
  ELSE IF GroupIssue(ranked[1], results, req.secondary)
       THEN Outcome("PENDING_INPUT", {}, ranked)
       ELSE Concluded(assessed,
              ByScore(ranked[1], results, req.secondary) \o Tail(ranked))

Rank(req, results, feasible, tolerance, assessed) ==
  IF GroupIssue(feasible, results, req.primary)
  THEN Outcome("PENDING_INPUT", {}, <<>>)
  ELSE BreakTie(req, results, Groups(feasible, results, req.primary, tolerance),
                assessed)

\* The quotes whose open facts can change the selection.
Blocking(req, results, pending, feasible, tolerance) ==
  LET costs == {results[q].values.COST : q \in feasible} \ {None}
      best  == IF costs = {} THEN None ELSE CHOOSE c \in costs : \A d \in costs : c <= d
  IN  IF req.primary = "COST" /\ tolerance = None
      THEN {q \in pending : AssessImpact(req, results[q], best) # "NON_BLOCKING"}
      ELSE pending

\* What the policy does not rule out.
Eligible(in_scope, assessed) ==
  {q \in in_scope : ~assessed.done \/ PolicyStatus(assessed, q) # "EXCLUDED"}

Having(status, group, results) == {q \in group : results[q].status = status}

CompareEvaluations(req, results, in_scope, tolerance, assessed) ==
  LET eligible == Eligible(in_scope, assessed)
      pending  == Having("PENDING", eligible, results)
      feasible == Having("FEASIBLE", eligible, results)
      chosen   == VerifiedFirst(feasible, assessed)
      blocking == Blocking(req, results, pending, chosen, tolerance)
      pool     == IF GroupIssue(chosen, results, req.primary) THEN <<>>
                  ELSE Groups(chosen, results, req.primary, tolerance)
  IN  IF in_scope = {} THEN Outcome("EMPTY_SCOPE", {}, <<>>)
      ELSE IF eligible = {} THEN Outcome("NO_POLICY_ELIGIBLE_QUOTES", {}, <<>>)
      ELSE IF RankingIssue(req, tolerance) THEN Outcome("PENDING_INPUT", {}, <<>>)
      ELSE IF feasible = {}
           THEN Outcome(IF pending # {} THEN "PENDING_INPUT" ELSE "NO_FEASIBLE_QUOTES",
                        {}, <<>>)
      ELSE IF blocking # {} THEN Outcome("PENDING_INPUT", {}, pool)
      ELSE Rank(req, results, chosen, tolerance, assessed)

Evaluations(req, quotes, day) ==
  [q \in Quotes |-> EvaluateSupplier(req, quotes[q], History[q], day)]

\* Quotes of the suppliers that are left out.
OfSuppliers(suppliers) == {q \in Quotes : SupplierOf[q] \in suppliers}

\* decision_comparison_request: the preferences stand before the requirement.
Effective(req, prefs) ==
  IF prefs.primary = "none" THEN req
  ELSE [req EXCEPT !.primary = prefs.primary, !.secondary = prefs.secondary]

\* The comparison of the quotes in scope, without the excluded ones.
Compare(req, prefs, scope, quotes, assessed, day) ==
  LET effective == Effective(req, prefs)
  IN  CompareEvaluations(effective, Evaluations(effective, quotes, day),
                         scope \ OfSuppliers(prefs.excluded), prefs.tolerance, assessed)

-----------------------------------------------------------------------------
(* Settings and what-if changes.                                           *)

\* Rankings that have a legacy mode; they become explicit preferences.
LegacyModes == {<<"COST", "none">>, <<"DELIVERY", "none">>,
                <<"COST", "DELIVERY">>, <<"DELIVERY", "COST">>}

NoProfile == [primary |-> "none", secondary |-> "none", excluded |-> {}, tolerance |-> None]

\* _decision_preferences: the latest profile, or else the requirement's ranking.
PreferencesOf(req, latest) ==
  IF latest # NoProfile THEN latest
  ELSE IF <<req.primary, req.secondary>> \in LegacyModes
       THEN [NoProfile EXCEPT !.primary = req.primary, !.secondary = req.secondary]
       ELSE NoProfile

Preferences == PreferencesOf(requirement, profile)

\* What the comparison of the task says: excluded suppliers are left out.
OfficialFor(req, latest, quotes) ==
  LET prefs == PreferencesOf(req, latest)
  IN  Compare(req, prefs, Quotes \ OfSuppliers(prefs.excluded), quotes, policy, today)

Official == OfficialFor(requirement, profile, facts)

Given(changes, field, old) == IF field \in DOMAIN changes THEN changes[field] ELSE old

ChangedRequirement(changes) ==
  [requirement EXCEPT !.budget_amount = Given(changes, "budget_amount", @),
                      !.delivery_deadline = Given(changes, "delivery_deadline", @)]

\* Preferences that were left to the requirement are written out; a second
\* criterion belongs to the first one it was chosen with.
ChangedPreferences(changes) ==
  LET base  == Preferences
      first == IF base.primary # "none" THEN base.primary ELSE requirement.primary
      next  == IF base.primary # "none" THEN base.secondary ELSE requirement.secondary
  IN  [primary   |-> Given(changes, "primary", first),
       secondary |-> Given(changes, "secondary", next),
       excluded  |-> Given(changes, "excluded", base.excluded),
       tolerance |-> Given(changes, "tolerance", base.tolerance)]

\* Mutant: the analysis never sees a quote that is excluded now.
BugCurrentScope(changes) == Quotes \ OfSuppliers(Preferences.excluded)

\* selection_analysis_input: suppliers that would be included again are back.
AnalysedQuotes(changes) ==
  Quotes \ OfSuppliers(Preferences.excluded
                       \cap Given(changes, "excluded", Preferences.excluded))

\* Changes that contradict themselves are refused.
IsConsistent(changes) ==
  LET prefs == ChangedPreferences(changes)
      req   == ChangedRequirement(changes)
  IN  /\ prefs.primary # prefs.secondary
      /\ prefs.tolerance # None => prefs.primary = "COST"
      /\ req.planned_order_date # None => req.delivery_deadline >= req.planned_order_date
      /\ prefs.excluded \subseteq Suppliers \cup Preferences.excluded

Simulate(changes) ==
  Compare(ChangedRequirement(changes), ChangedPreferences(changes),
          AnalysedQuotes(changes), facts, policy, today)

\* The quote as it would be if it arrived at the deadline, and nothing else
\* changed.
TargetLead(req) == req.delivery_deadline - req.planned_order_date

InTime(q) == [facts EXCEPT ![q].lead_time_days.value = TargetLead(requirement)]

IsLate(q) ==
  LET arrival == Evaluations(requirement, facts, today)[q].values.DELIVERY
  IN  arrival # None /\ arrival > requirement.delivery_deadline

\* analyze_selection_gap: would it be the choice?
WouldBeChosen(q) ==
  LET effective == Effective(requirement, Preferences)
  IN  q \in CompareEvaluations(effective, Evaluations(effective, InTime(q), today),
              Quotes \ OfSuppliers(Preferences.excluded), Preferences.tolerance,
              policy).recommended

-----------------------------------------------------------------------------
(* Actions.                                                                *)

NotAssessed == [done |-> FALSE, status |-> [q \in Quotes |-> "UNVERIFIED"]]

CompareInit ==
  /\ facts \in [Quotes -> UNION {Sheets[q] : q \in Quotes}]
  /\ \A q \in Quotes : facts[q] \in Sheets[q]
  /\ requirement \in Requirements
  /\ profile = NoProfile
  /\ policy = NotAssessed
  /\ today = 0

Answered(q, field, value) ==
  [facts EXCEPT ![q][field] = [is |-> "VERIFIED", value |-> value, corrected |-> TRUE]]

\* A reviewer confirms a value for a fact that could not be used.
AnswerFact(q, field) ==
  /\ Usable(facts[q][field]) =>
       /\ field \in {"shipping_fee_status", "other_fees_status"}
       /\ facts[q][field].value = "UNKNOWN"
  /\ \E value \in Answers[field] : facts' = Answered(q, field, value)
  /\ UNCHANGED <<requirement, profile, policy, today>>

\* The supplier's new quotation arrives at the deadline.
ConfirmLeadTime(q) ==
  /\ IsLate(q)
  /\ facts' = InTime(q)
  /\ UNCHANGED <<requirement, profile, policy, today>>

\* A run assesses the quotes against the policy in force.
AssessPolicy ==
  /\ ~policy.done
  /\ \E status \in Assessments : policy' = [done |-> TRUE, status |-> status]
  /\ UNCHANGED <<facts, requirement, profile, today>>

UpdateRequirement(req) ==
  /\ req # requirement
  /\ requirement' = req
  /\ UNCHANGED <<facts, profile, policy, today>>

\* A new profile only for preferences that change.
ChangedProfile(changes) ==
  IF ChangedPreferences(changes) = Preferences THEN profile
  ELSE ChangedPreferences(changes)

ApplyChanges(changes) ==
  /\ IsConsistent(changes)
  /\ \/ ChangedRequirement(changes) # requirement
     \/ ChangedPreferences(changes) # Preferences
  /\ requirement' = ChangedRequirement(changes)
  /\ profile' = ChangedProfile(changes)
  /\ UNCHANGED <<facts, policy, today>>

DayPasses == /\ today < LastDay
             /\ today' = today + 1
             /\ UNCHANGED <<facts, requirement, profile, policy>>

CompareNext ==
  \/ \E q \in Quotes, field \in DOMAIN Answers : AnswerFact(q, field)
  \/ \E q \in Quotes : ConfirmLeadTime(q)
  \/ AssessPolicy
  \/ \E req \in Requirements : UpdateRequirement(req)
  \/ \E changes \in Hypotheses : ApplyChanges(changes)
  \/ DayPasses

ComparisonSpec == CompareInit /\ [][CompareNext]_comparisonVars

-----------------------------------------------------------------------------
(* Properties.                                                             *)

\* Whatever is answered, confirmed or applied, the comparison is given a quote
\* its rules accept and a requirement its validators let pass: a confirmed
\* delivery is never before the order (selection_gap.py
\* simulate_requirement_change).
InputsAccepted ==
  /\ DOMAIN facts = Quotes /\ \A q \in Quotes : IsQuote(facts[q])
  /\ IsRequirement(requirement)
  /\ profile \in [primary : Rankings, secondary : Rankings, excluded : SUBSET Suppliers,
                  tolerance : Nat \cup {None}]
  /\ policy \in [done : BOOLEAN,
                 status : [Quotes -> {"VERIFIED", "UNVERIFIED", "EXCLUDED"}]]
  /\ today \in 0 .. LastDay

OpenFields(quotes, q) ==
  UNION {issue.fields : issue \in Evaluations(requirement, quotes, today)[q].pending}

\* The answer raises a question that is not about a fee that is only missing:
\* it contradicts the amount of the quote, or needs one that is unreadable.
Uncovers(quotes, q) ==
  \E issue \in Evaluations(requirement, quotes, today)[q].pending
               \ Evaluations(requirement, facts, today)[q].pending :
    issue.code \notin MissingFeeCodes

\* What a recommendation is worth: no answer to a fact that is still open
\* takes it back or adds to it, unless the answer uncovers another question
\* about the same quote.  The code passes pending quotes over without waiting
\* for their facts (decision_impact.py assess_quote_impact).
RecommendationStands ==
  Official.disposition = "RECOMMENDATION_AVAILABLE" /\ Preferences.tolerance = None
  => \A q \in Quotes, field \in DOMAIN Answers : \A value \in Answers[field] :
       LET answered == Answered(q, field, value)
       IN  field \in OpenFields(facts, q) /\ ~Uncovers(answered, q)
           => OfficialFor(requirement, profile, answered).recommended
                = Official.recommended

\* A hypothesis comes true: applying the changes, or getting the delivery a gap
\* asks for, leads to the outcome that was promised (selection_gap.py and
\* service.py apply_decision_scenario take different ways to it).
HypothesesComeTrue ==
  /\ \A changes \in Hypotheses : IsConsistent(changes) =>
       Simulate(changes) = OfficialFor(ChangedRequirement(changes),
                                       ChangedProfile(changes), facts)
  /\ \A q \in Quotes : IsLate(q) =>
       (WouldBeChosen(q)
        <=> q \in OfficialFor(requirement, profile, InTime(q)).recommended)

\* What a buyer may expect of a recommended quote, said without the rules: it
\* is ordered in whole multiples and no more than needed, arrives in time, is
\* in the budget, and no eligible quote that is fully known is cheaper by more
\* than the tolerance.
LeastOrder(q) ==
  LET sheet == facts[q]
      enough == {n \in 1 .. (requirement.required_quantity
                             + MinimumOrder(requirement, sheet)
                             + sheet.order_multiple_units.value) :
                   /\ n % sheet.order_multiple_units.value = 0
                   /\ n >= requirement.required_quantity
                   /\ n >= MinimumOrder(requirement, sheet)}
  IN  CHOOSE n \in enough : \A k \in enough : n <= k

\* Within half a cent of the exact price, and all known fees on top.
IsPriceOf(cost, q) ==
  LET sheet == facts[q]
      fees  == {f \in {"shipping", "other"} :
                  LET status == sheet[IF f = "shipping" THEN "shipping_fee_status"
                                      ELSE "other_fees_status"]
                  IN  Usable(status) /\ status.value = "KNOWN_AMOUNT"}
      ship  == IF "shipping" \in fees THEN sheet.shipping_fee_amount.value ELSE 0
      other == IF "other" \in fees THEN sheet.other_fees_amount.value ELSE 0
      basis == sheet.price_basis_quantity.value
      exact == LeastOrder(q) * sheet.unit_price.value + (ship + other) * basis
  IN  /\ 2 * (10 * basis * cost - exact) <= 10 * basis * (1 + Cardinality(fees))
      /\ 2 * (exact - 10 * basis * cost) < 10 * basis * (1 + Cardinality(fees)) + 1

RecommendedIsBest ==
  LET results == Evaluations(requirement, facts, today)
      ranking == Effective(requirement, Preferences)
      rivals  == {q \in Quotes \ OfSuppliers(Preferences.excluded) :
                    /\ results[q].status = "FEASIBLE"
                    /\ policy.done => PolicyStatus(policy, q) = "VERIFIED"}
  IN  \A q \in Official.recommended :
        /\ q \in rivals
        /\ results[q].quantity = LeastOrder(q)
        /\ IsPriceOf(results[q].values.COST, q)
        /\ results[q].values.DELIVERY <= requirement.delivery_deadline
        /\ requirement.includes_shipping =>
             results[q].values.COST <= requirement.budget_amount
        /\ ranking.primary = "COST" => \A r \in rivals :
             results[q].values.COST <=
               results[r].values.COST + Larger(Preferences.tolerance, 0)
        /\ ranking.primary = "COST" /\ ranking.secondary = "DELIVERY"
           /\ Preferences.tolerance = None => \A r \in rivals :
             results[r].values.COST = results[q].values.COST =>
               results[q].values.DELIVERY <= results[r].values.DELIVERY
=============================================================================
