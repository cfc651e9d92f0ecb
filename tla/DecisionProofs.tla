--------------------------- MODULE DecisionProofs ---------------------------
(***************************************************************************)
(* What a decision is worth, and what becomes of the scenarios made of it. *)
(*                                                                         *)
(* The comparison: a recommended quote is the best one that is known, what *)
(* is simulated is what applying it leads to, and an answer to an open     *)
(* fact does not change what is recommended.  For any quotes, facts and    *)
(* requirements.  The argument: inputs stay what the rules accept; so a    *)
(* comparison can be said without its steps, as one choice among feasible  *)
(* quotes; and a quote that was passed over only gets dearer.              *)
(*                                                                         *)
(* The scenarios: they are offered, applied and linked for the decision    *)
(* and the settings they were computed from, and a request that is sent    *)
(* again has one effect.  For any number of requests at the same time.     *)
(* The argument: what a request has read either is what the task says now  *)
(* or belongs to a result that was withdrawn, and a withdrawn result never *)
(* returns; the rows a change makes stale are all there are, because none  *)
(* becomes ready while the task is locked; and every effect leaves its     *)
(* record in the same transaction.                                         *)
(***************************************************************************)
EXTENDS DecisionScenarios, Comparison, FiniteSetTheorems, WellFoundedInduction, TLAPS

-----------------------------------------------------------------------------
(* The comparison is given what its rules accept.                          *)

\* A fact that is answered, or read anew, leaves a quote the rules accept.
LEMMA AnsweredQuote ==
  ASSUME NEW quote, IsQuote(quote), NEW field \in FactFields, NEW value,
         Accepts(field, value)
  PROVE  IsQuote([quote EXCEPT ![field] = [is |-> "VERIFIED", value |-> value,
                                           corrected |-> TRUE]])
  <1> DEFINE fact == [is |-> "VERIFIED", value |-> value, corrected |-> TRUE]
             new  == [quote EXCEPT ![field] = fact]
  <1>1. /\ DOMAIN new = DOMAIN quote /\ new[field] = fact
        /\ \A f \in FactFields : f # field => new[f] = quote[f]
    BY DEF IsQuote
  <1>2. IsFact(fact) /\ Usable(fact) /\ fact.value = value
    BY DEF IsFact, Usable
  <1> HIDE DEF new, fact
  <1>3. IsQuote(new)
    BY <1>1, <1>2 DEF IsQuote
  <1> QED
    BY <1>3 DEF new, fact

\* A quote whose lead time is set anew is one the rules accept.
LEMMA TimedQuote ==
  ASSUME NEW quote, IsQuote(quote), NEW lead \in Nat
  PROVE  IsQuote([quote EXCEPT !.lead_time_days.value = lead])
  <1> DEFINE old  == quote["lead_time_days"]
             fact == [old EXCEPT !.value = lead]
             new  == [quote EXCEPT !.lead_time_days = fact]
  <1>0. "lead_time_days" \in FactFields
    BY DEF FactFields
  <1>1. /\ DOMAIN new = DOMAIN quote /\ new["lead_time_days"] = fact
        /\ \A f \in FactFields : f # "lead_time_days" => new[f] = quote[f]
    BY <1>0 DEF IsQuote
  <1>2. IsFact(old)
    BY <1>0 DEF IsQuote
  <1>3. /\ DOMAIN fact = DOMAIN old /\ fact.value = lead
        /\ fact.is = old.is /\ fact.corrected = old.corrected
    BY <1>2 DEF IsFact
  <1>4. Accepts("lead_time_days", lead)
    BY DEF Accepts, CountFields, StatusFields
  <1>5. new = [quote EXCEPT !.lead_time_days.value = lead]
    OBVIOUS
  <1> HIDE DEF new, fact, old
  <1>6. IsFact(fact)
    BY <1>2, <1>3 DEF IsFact, Usable
  <1>7. IsQuote(new)
    BY <1>1, <1>3, <1>4, <1>6 DEF IsQuote
  <1> QED
    BY <1>5, <1>7

\* A late delivery has its order date and its lead time.
LEMMA LateIsDated ==
  ASSUME InputsAccepted, NEW q \in Quotes, IsLate(q)
  PROVE  requirement.planned_order_date # None
  <1> QED
    BY DEF IsLate, Evaluations, EvaluateSupplier, CheckDelivery, None

\* The preferences in force, of a profile or of the requirement, are well formed.
LEMMA PreferencesTyped ==
  ASSUME InputsAccepted
  PROVE  /\ DOMAIN Preferences = {"primary", "secondary", "excluded", "tolerance"}
         /\ Preferences.primary \in Rankings /\ Preferences.secondary \in Rankings
         /\ Preferences.excluded \subseteq Suppliers
         /\ Preferences.tolerance \in Nat \cup {None}
  <1>1. CASE profile # NoProfile
    BY <1>1 DEF InputsAccepted, Preferences, PreferencesOf
  <1>2. CASE profile = NoProfile
    <2>1. requirement.primary \in Rankings /\ requirement.secondary \in Rankings
      BY DEF InputsAccepted, IsRequirement, Rankings
    <2>2. Preferences \in {NoProfile, [NoProfile EXCEPT !.primary = requirement.primary,
                                         !.secondary = requirement.secondary]}
      BY <1>2 DEF Preferences, PreferencesOf
    <2>3. CASE Preferences = NoProfile
      BY <2>3 DEF NoProfile, Rankings
    <2>4. CASE Preferences = [NoProfile EXCEPT !.primary = requirement.primary,
                                               !.secondary = requirement.secondary]
      BY <2>1, <2>4 DEF NoProfile, Rankings
    <2> QED
      BY <2>2, <2>3, <2>4
  <1> QED
    BY <1>1, <1>2

\* A consistent change leaves a requirement its validators let pass.
LEMMA ChangedRequirementAccepted ==
  ASSUME InputsAccepted, NEW changes \in Hypotheses, IsConsistent(changes)
  PROVE  IsRequirement(ChangedRequirement(changes))
  <1> DEFINE req == ChangedRequirement(changes)
  <1>1. IsRequirement(requirement) /\ IsChange(changes)
    BY QuotesAssumption DEF InputsAccepted
  <1>2. /\ DOMAIN req = DOMAIN requirement
        /\ \A f \in DOMAIN requirement \ {"budget_amount", "delivery_deadline"} :
             req[f] = requirement[f]
    BY <1>1 DEF ChangedRequirement, IsRequirement
  <1>3. req.budget_amount \in Nat
    BY <1>1 DEF ChangedRequirement, IsRequirement, IsChange, Given
  <1>4. req.delivery_deadline \in Int
    BY <1>1 DEF ChangedRequirement, IsRequirement, IsChange, Given
  <1>5. req.planned_order_date # None => req.delivery_deadline >= req.planned_order_date
    BY DEF IsConsistent
  <1> HIDE DEF req
  <1>6. /\ req.required_quantity = requirement.required_quantity
        /\ req.planned_order_date = requirement.planned_order_date
        /\ req.allow_substitutes = requirement.allow_substitutes
        /\ req.includes_shipping = requirement.includes_shipping
        /\ req.other_fees_required = requirement.other_fees_required
        /\ req.primary = requirement.primary /\ req.secondary = requirement.secondary
    BY <1>1, <1>2 DEF IsRequirement
  <1>7. IsRequirement(req)
    BY <1>1, <1>2, <1>3, <1>4, <1>5, <1>6 DEF IsRequirement
  <1> QED
    BY <1>7 DEF req

\* A consistent change leaves a profile that is well formed.
LEMMA ChangedProfileAccepted ==
  ASSUME InputsAccepted, NEW changes \in Hypotheses, IsConsistent(changes)
  PROVE  ChangedProfile(changes)
           \in [primary : Rankings, secondary : Rankings, excluded : SUBSET Suppliers,
                tolerance : Nat \cup {None}]
  <1> DEFINE prefs == ChangedPreferences(changes)
  <1>1. IsChange(changes) /\ IsRequirement(requirement)
    BY QuotesAssumption DEF InputsAccepted
  <1>2. requirement.primary \in Rankings /\ requirement.secondary \in Rankings
    BY <1>1 DEF IsRequirement, Rankings
  <1>3. prefs.primary \in Rankings /\ prefs.secondary \in Rankings
    BY <1>1, <1>2, PreferencesTyped DEF ChangedPreferences, Given, IsChange, Rankings
  <1>4. prefs.tolerance \in Nat \cup {None}
    BY <1>1, PreferencesTyped DEF ChangedPreferences, Given, IsChange
  <1>5. prefs.excluded \subseteq Suppliers
    BY PreferencesTyped DEF IsConsistent
  <1>6. prefs \in [primary : Rankings, secondary : Rankings, excluded : SUBSET Suppliers,
                   tolerance : Nat \cup {None}]
    BY <1>3, <1>4, <1>5 DEF ChangedPreferences
  <1> QED
    BY <1>6 DEF ChangedProfile, InputsAccepted

\* The facts of a review and a requirement as it is stated are accepted.
LEMMA InputsAcceptedInit == CompareInit => InputsAccepted
  <1> SUFFICES ASSUME CompareInit PROVE InputsAccepted
    OBVIOUS
  <1>1. DOMAIN facts = Quotes /\ \A q \in Quotes : IsQuote(facts[q])
    BY QuotesAssumption DEF CompareInit
  <1>2. IsRequirement(requirement)
    BY QuotesAssumption DEF CompareInit
  <1>3. profile \in [primary : Rankings, secondary : Rankings, excluded : SUBSET Suppliers,
                     tolerance : Nat \cup {None}]
    BY DEF CompareInit, NoProfile, Rankings
  <1>4. policy \in [done : BOOLEAN,
                    status : [Quotes -> {"VERIFIED", "UNVERIFIED", "EXCLUDED"}]]
    BY DEF CompareInit, NotAssessed
  <1>5. today \in 0 .. LastDay
    BY QuotesAssumption DEF CompareInit
  <1> QED
    BY <1>1, <1>2, <1>3, <1>4, <1>5 DEF InputsAccepted

\* Every step leaves the comparison inputs it accepts: answers and new lead times
\* are facts, applied changes have passed the checks of a simulation.
LEMMA InputsAcceptedStep ==
  ASSUME InputsAccepted, [CompareNext]_comparisonVars
  PROVE  InputsAccepted'
  <1>1. ASSUME NEW q \in Quotes, NEW field \in DOMAIN Answers, AnswerFact(q, field)
        PROVE  InputsAccepted'
    <2>1. PICK value \in Answers[field] : facts' = Answered(q, field, value)
      BY <1>1 DEF AnswerFact
    <2>2. field \in FactFields /\ Accepts(field, value)
      BY QuotesAssumption
    <2>3. IsQuote(facts[q])
      BY DEF InputsAccepted
    <2>4. facts' = [facts EXCEPT ![q] =
                      [facts[q] EXCEPT ![field] = [is |-> "VERIFIED", value |-> value,
                                                   corrected |-> TRUE]]]
      BY <2>1 DEF Answered
    <2>5. DOMAIN facts' = Quotes /\ \A r \in Quotes : IsQuote(facts'[r])
      BY <2>2, <2>3, <2>4, AnsweredQuote DEF InputsAccepted
    <2> QED
      BY <1>1, <2>5 DEF AnswerFact, InputsAccepted
  <1>2. ASSUME NEW q \in Quotes, ConfirmLeadTime(q) PROVE InputsAccepted'
    <2>1. TargetLead(requirement) \in Nat
      BY <1>2, LateIsDated DEF ConfirmLeadTime, InputsAccepted, IsRequirement, TargetLead, None
    <2>2. IsQuote(facts[q])
      BY DEF InputsAccepted
    <2>3. facts' = [facts EXCEPT ![q] =
                      [facts[q] EXCEPT !.lead_time_days.value = TargetLead(requirement)]]
      BY <1>2 DEF ConfirmLeadTime, InTime
    <2>4. DOMAIN facts' = Quotes /\ \A r \in Quotes : IsQuote(facts'[r])
      BY <2>1, <2>2, <2>3, TimedQuote DEF InputsAccepted
    <2> QED
      BY <1>2, <2>4 DEF ConfirmLeadTime, InputsAccepted
  <1>3. CASE AssessPolicy
    BY <1>3, QuotesAssumption DEF AssessPolicy, InputsAccepted
  <1>4. ASSUME NEW req \in Requirements, UpdateRequirement(req) PROVE InputsAccepted'
    BY <1>4, QuotesAssumption DEF UpdateRequirement, InputsAccepted
  <1>5. ASSUME NEW changes \in Hypotheses, ApplyChanges(changes) PROVE InputsAccepted'
    BY <1>5, ChangedRequirementAccepted, ChangedProfileAccepted
       DEF ApplyChanges, InputsAccepted
  <1>6. CASE DayPasses
    BY <1>6, QuotesAssumption DEF DayPasses, InputsAccepted
  <1>7. CASE UNCHANGED comparisonVars
    BY <1>7 DEF comparisonVars, InputsAccepted
  <1> QED
    BY <1>1, <1>2, <1>3, <1>4, <1>5, <1>6, <1>7 DEF CompareNext

\* Whatever is answered, confirmed or applied, the rules of a comparison are given
\* quotes and requirements they accept (contracts.py QuoteInput and
\* ProcurementRequirement, selection_gap.py simulate_requirement_change).
THEOREM InputsAcceptedCorrect == ComparisonSpec => []InputsAccepted
  <1> QED
    BY InputsAcceptedInit, InputsAcceptedStep, PTL DEF ComparisonSpec

-----------------------------------------------------------------------------
(* Hypotheses come true.                                                   *)

\* Leaving out suppliers again, or leaving out others before, changes nothing.
LEMMA ScopeOf ==
  ASSUME NEW excluded, NEW before
  PROVE  /\ (Quotes \ OfSuppliers(excluded)) \ OfSuppliers(excluded)
              = Quotes \ OfSuppliers(excluded)
         /\ (Quotes \ OfSuppliers(before \cap excluded)) \ OfSuppliers(excluded)
              = Quotes \ OfSuppliers(excluded)
  BY DEF OfSuppliers

\* The preferences that an applied scenario leaves are the ones it simulated.
LEMMA AppliedPreferences ==
  ASSUME InputsAccepted, NEW changes \in Hypotheses, IsConsistent(changes)
  PROVE  PreferencesOf(ChangedRequirement(changes), ChangedProfile(changes))
           = ChangedPreferences(changes)
  <1>1. CASE ChangedPreferences(changes) # Preferences
    <2>1. ChangedPreferences(changes) # NoProfile
      BY DEF IsConsistent, NoProfile
    <2> QED
      BY <1>1, <2>1 DEF ChangedProfile, PreferencesOf
  <1>2. CASE ChangedPreferences(changes) = Preferences
    <2>1. IsRequirement(requirement)
      BY DEF InputsAccepted
    <2>2. /\ ChangedRequirement(changes).primary = requirement.primary
          /\ ChangedRequirement(changes).secondary = requirement.secondary
      BY <2>1 DEF ChangedRequirement, IsRequirement
    <2>3. PreferencesOf(ChangedRequirement(changes), profile) = Preferences
      BY <2>2 DEF Preferences, PreferencesOf
    <2> QED
      BY <1>2, <2>3 DEF ChangedProfile
  <1> QED
    BY <1>1, <1>2

\* What was simulated is what the comparison says once it is applied.
LEMMA SimulationComesTrue ==
  ASSUME InputsAccepted, NEW changes \in Hypotheses, IsConsistent(changes)
  PROVE  Simulate(changes) = OfficialFor(ChangedRequirement(changes),
                                         ChangedProfile(changes), facts)
  <1> DEFINE req    == ChangedRequirement(changes)
             prefs  == ChangedPreferences(changes)
             before == Preferences.excluded
  <1>1. prefs.excluded = Given(changes, "excluded", before)
    BY DEF ChangedPreferences
  <1>2. AnalysedQuotes(changes) = Quotes \ OfSuppliers(before \cap prefs.excluded)
    BY <1>1 DEF AnalysedQuotes
  <1>3. PreferencesOf(req, ChangedProfile(changes)) = prefs
    BY AppliedPreferences
  <1> HIDE DEF req, prefs, before
  <1>4. /\ AnalysedQuotes(changes) \ OfSuppliers(prefs.excluded)
             = Quotes \ OfSuppliers(prefs.excluded)
        /\ (Quotes \ OfSuppliers(prefs.excluded)) \ OfSuppliers(prefs.excluded)
             = Quotes \ OfSuppliers(prefs.excluded)
    BY <1>2, ScopeOf
  <1>5. Simulate(changes) = Compare(req, prefs, AnalysedQuotes(changes), facts, policy,
                                    today)
    BY DEF Simulate, req, prefs
  <1>6. OfficialFor(req, ChangedProfile(changes), facts)
          = Compare(req, prefs, Quotes \ OfSuppliers(prefs.excluded), facts, policy, today)
    BY <1>3 DEF OfficialFor
  <1>7. Simulate(changes) = OfficialFor(req, ChangedProfile(changes), facts)
    BY <1>4, <1>5, <1>6 DEF Compare
  <1> QED
    BY <1>7 DEF req

\* The quote that would be chosen if it were in time is, once it is.
LEMMA DeliveryComesTrue ==
  ASSUME NEW q \in Quotes
  PROVE  WouldBeChosen(q)
           <=> q \in OfficialFor(requirement, profile, InTime(q)).recommended
  <1>1. PreferencesOf(requirement, profile) = Preferences
    BY DEF Preferences
  <1>2. OfficialFor(requirement, profile, InTime(q))
          = Compare(requirement, Preferences,
                    Quotes \ OfSuppliers(Preferences.excluded), InTime(q), policy, today)
    BY <1>1 DEF OfficialFor
  <1> QED
    BY <1>2, ScopeOf DEF Compare, WouldBeChosen

\* A hypothesis comes true: the outcome a simulation promises is the one that
\* applying it, or getting the delivery, leads to (selection_gap.py
\* simulate_requirement_change and analyze_selection_gap).
THEOREM HypothesesComeTrueCorrect == ComparisonSpec => []HypothesesComeTrue
  <1>1. InputsAccepted => HypothesesComeTrue
    BY SimulationComesTrue, DeliveryComesTrue DEF HypothesesComeTrue
  <1> QED
    BY <1>1, InputsAcceptedCorrect, PTL

-----------------------------------------------------------------------------
(* Least numbers.                                                          *)

\* A set of natural numbers that is not empty has a least one.
LEMMA LeastNatural ==
  ASSUME NEW T, T # {}, T \subseteq Nat
  PROVE  \E n \in T : \A m \in T : n <= m
  <1>1. IsWellFoundedOn(OpToRel(<, Nat), Nat)
    BY NatLessThanWellFounded
  <1>2. PICK n \in T : \A m \in T : <<m, n>> \notin OpToRel(<, Nat)
    BY <1>1, WFMin
  <1>3. ASSUME NEW m \in T, ~(n <= m) PROVE FALSE
    <2>1. m \in Nat /\ n \in Nat /\ m < n
      BY <1>3
    <2>2. <<m, n>> \in OpToRel(<, Nat)
      BY <2>1 DEF OpToRel
    <2> QED
      BY <2>2, <1>2
  <1> QED
    BY <1>3

\* A finite set of numbers has a least one.
LEMMA LeastExists ==
  ASSUME NEW S, IsFiniteSet(S), S # {}, S \subseteq Int
  PROVE  \E x \in S : \A y \in S : x <= y
  <1> DEFINE below == [x \in S |-> {y \in S : y < x}]
             sizes == {Cardinality(below[x]) : x \in S}
  <1>1. \A x \in S : IsFiniteSet(below[x]) /\ Cardinality(below[x]) \in Nat
    BY FS_Subset, FS_CardinalityType
  <1>2. PICK n \in sizes : \A m \in sizes : n <= m
    <2>1. sizes \in SUBSET Nat /\ sizes # {}
      BY <1>1
    <2> HIDE DEF sizes
    <2> QED
      BY <2>1, LeastNatural
  <1>3. PICK x \in S : n = Cardinality(below[x])
    BY <1>2
  <1>4. SUFFICES ASSUME NEW y \in S, ~(x <= y) PROVE FALSE
    OBVIOUS
  <1>5. y < x
    BY <1>4
  <1>6. /\ below[y] \subseteq below[x] /\ below[y] # below[x]
        /\ IsFiniteSet(below[x])
    <2>1. below[x] = {z \in S : z < x} /\ below[y] = {z \in S : z < y}
      OBVIOUS
    <2>2. \A z \in Int : z < y => z < x
      BY <1>5
    <2>3. y \in below[x] /\ y \notin below[y]
      BY <1>5, <2>1
    <2> QED
      BY <1>1, <1>5, <2>1, <2>2, <2>3
  <1>7. n <= Cardinality(below[y])
    BY <1>2
  <1>8. Cardinality(below[x]) \in Nat /\ Cardinality(below[y]) \in Nat
    BY <1>1
  <1> HIDE DEF below
  <1>9. Cardinality(below[y]) <= n /\ n # Cardinality(below[y])
    BY <1>3, <1>6, FS_Subset
  <1> QED
    BY <1>3, <1>7, <1>8, <1>9

-----------------------------------------------------------------------------
(* Ranking.                                                                *)

\* The quotes of a group that no other one beats by a criterion.
Best(group, results, criterion) ==
  {q \in group : \A r \in group :
     ~(Score(results[r], criterion) < Score(results[q], criterion))}

\* A sequence over a set is one over every larger set.
LEMMA SeqOfMore ==
  ASSUME NEW S, NEW T, S \subseteq T, NEW s \in Seq(S)
  PROVE  s \in Seq(T)
  <1>1. \A i \in 1 .. Len(s) : s[i] \in T
    OBVIOUS
  <1> QED
    BY <1>1

\* The first set of the ranking holds the quotes that no other one beats.
LEMMA ByScoreFirst ==
  ASSUME NEW group, IsFiniteSet(group), NEW results, NEW criterion
  PROVE  /\ ByScore(group, results, criterion) \in Seq(SUBSET group)
         /\ group # {} => /\ ByScore(group, results, criterion) # <<>>
                          /\ ByScore(group, results, criterion)[1]
                               = Best(group, results, criterion)
  <1> DEFINE score   == [q \in group |-> Score(results[q], criterion)]
             scores  == {Score(results[q], criterion) : q \in group}
             n       == Cardinality(scores)
             ranked  == ByScore(group, results, criterion)
             better  == [q \in group |-> {s \in scores : s < Score(results[q], criterion)}]
  <1>1. score \in Surjection(group, scores)
    BY DEF Surjection
  <1>2. IsFiniteSet(scores) /\ n \in Nat
    BY <1>1, FS_Surjection, FS_CardinalityType
  <1>3. ranked = [i \in 1 .. n |-> {q \in group : Cardinality(better[q]) = i - 1}]
    BY DEF ByScore
  <1>4. \A q \in group : better[q] \subseteq scores
    OBVIOUS
  <1>5. \A q \in group : IsFiniteSet(better[q])
    BY <1>2, <1>4, FS_Subset
  <1>6. \A q \in group : better[q] = {} <=> q \in Best(group, results, criterion)
    BY DEF Best
  <1>7. scores # {} <=> group # {}
    OBVIOUS
  <1> HIDE DEF scores, better, ranked
  <1>8. ranked \in Seq(SUBSET group)
    BY <1>2, <1>3
  <1>9. ASSUME group # {}
        PROVE  ranked # <<>> /\ ranked[1] = Best(group, results, criterion)
    <2>1. n # 0
      BY <1>2, <1>7, <1>9, FS_EmptySet
    <2>2. 1 \in 1 .. n
      BY <1>2, <2>1
    <2>3. ranked[1] = {q \in group : Cardinality(better[q]) = 0}
      BY <1>3, <2>2
    <2>4. ranked[1] = {q \in group : better[q] = {}}
      BY <2>3, <1>5, FS_EmptySet
    <2>5. DOMAIN ranked # {}
      BY <1>3, <2>2
    <2> QED
      BY <2>4, <2>5, <1>6 DEF Best
  <1> QED
    BY <1>8, <1>9 DEF ranked

\* The quotes that come first by the primary criterion.
First(group, results, criterion, tolerance) ==
  IF criterion # "COST" \/ tolerance = None THEN Best(group, results, criterion)
  ELSE {q \in group : \A r \in group :
          results[q].values.COST <= results[r].values.COST + tolerance}

\* The ranking by the primary criterion starts with the quotes that come first.
LEMMA GroupsFirst ==
  ASSUME NEW group, IsFiniteSet(group), group # {}, NEW results, NEW criterion,
         NEW tolerance
  PROVE  /\ Groups(group, results, criterion, tolerance) \in Seq(SUBSET group)
         /\ Groups(group, results, criterion, tolerance) # <<>>
         /\ Groups(group, results, criterion, tolerance)[1]
              = First(group, results, criterion, tolerance)
  <1>1. CASE criterion # "COST" \/ tolerance = None
    BY <1>1, ByScoreFirst DEF Groups, First
  <1>2. CASE ~(criterion # "COST" \/ tolerance = None)
    <2> DEFINE pool == {q \in group : \A r \in group :
                          results[q].values.COST <= results[r].values.COST + tolerance}
               rest == ByScore(group \ pool, results, criterion)
    <2>1. Groups(group, results, criterion, tolerance) = <<pool>> \o rest
      BY <1>2 DEF Groups
    <2>2. First(group, results, criterion, tolerance) = pool
      BY <1>2 DEF First
    <2>3. IsFiniteSet(group \ pool) /\ pool \in SUBSET group
      BY FS_Difference
    <2> HIDE DEF pool
    <2>4. rest \in Seq(SUBSET (group \ pool))
      BY <2>3, ByScoreFirst
    <2>5. rest \in Seq(SUBSET group)
      <3>1. SUBSET (group \ pool) \subseteq SUBSET group
        OBVIOUS
      <3> QED
        BY <2>4, <3>1, SeqOfMore
    <2> HIDE DEF rest
    <2>6. /\ <<pool>> \o rest \in Seq(SUBSET group)
          /\ (<<pool>> \o rest)[1] = pool
          /\ Len(<<pool>> \o rest) = 1 + Len(rest) /\ Len(rest) \in Nat
      BY <2>3, <2>5
    <2>7. <<pool>> \o rest # <<>>
      BY <2>6
    <2> QED
      BY <2>1, <2>2, <2>6, <2>7
  <1> QED
    BY <1>1, <1>2

-----------------------------------------------------------------------------
(* What a comparison says.                                                 *)

Valued(results, group) ==
  \A q \in group, criterion \in Criteria : results[q].values[criterion] \in Int

\* Scores are numbers, whichever way a criterion is read.
LEMMA ScoresAreNumbers ==
  ASSUME NEW group, NEW results, Valued(results, group), NEW criterion \in Criteria,
         NEW q \in group
  PROVE  Score(results[q], criterion) \in Int
  BY DEF Valued, Score

\* A group that is not empty has a quote no other one beats.
LEMMA BestExists ==
  ASSUME NEW group, IsFiniteSet(group), group # {}, NEW results,
         Valued(results, group), NEW criterion \in Criteria
  PROVE  Best(group, results, criterion) # {}
  <1> DEFINE score  == [q \in group |-> Score(results[q], criterion)]
             scores == {score[q] : q \in group}
  <1>1. score \in Surjection(group, scores)
    BY DEF Surjection
  <1>2. \A q \in group : score[q] \in Int
    BY ScoresAreNumbers
  <1>3. scores # {} /\ scores \subseteq Int
    BY <1>2
  <1> HIDE DEF scores
  <1>4. IsFiniteSet(scores)
    BY <1>1, FS_Surjection
  <1>5. PICK s \in scores : \A t \in scores : s <= t
    BY <1>3, <1>4, LeastExists
  <1>6. PICK q \in group : s = score[q]
    BY <1>5 DEF scores
  <1>7. \A r \in group : score[r] \in scores
    BY DEF scores
  <1> HIDE DEF score
  <1>8. \A r \in group : ~(score[r] < score[q])
    BY <1>2, <1>5, <1>6, <1>7
  <1> QED
    BY <1>8 DEF Best, score

\* Some quote comes first, with a tolerance as well as without.
LEMMA FirstExists ==
  ASSUME NEW group, IsFiniteSet(group), group # {}, NEW results,
         Valued(results, group), NEW criterion \in Criteria,
         NEW tolerance \in Nat \cup {None}
  PROVE  /\ First(group, results, criterion, tolerance) # {}
         /\ First(group, results, criterion, tolerance) \subseteq group
         /\ IsFiniteSet(First(group, results, criterion, tolerance))
  <1>1. First(group, results, criterion, tolerance) \subseteq group
    BY DEF First, Best
  <1>2. IsFiniteSet(First(group, results, criterion, tolerance))
    BY <1>1, FS_Subset
  <1>3. CASE criterion # "COST" \/ tolerance = None
    BY <1>1, <1>2, <1>3, BestExists DEF First
  <1>4. CASE ~(criterion # "COST" \/ tolerance = None)
    <2>1. "COST" \in Criteria
      BY DEF Criteria
    <2>2. PICK q \in group : q \in Best(group, results, "COST")
      BY <2>1, BestExists DEF Best
    <2>3. tolerance \in Nat
      BY <1>4
    <2>4. ASSUME NEW r \in group
          PROVE  results[q].values.COST <= results[r].values.COST + tolerance
      <3>1. results[q].values.COST \in Int /\ results[r].values.COST \in Int
        BY <2>1 DEF Valued
      <3>2. ~(results[r].values.COST < results[q].values.COST)
        BY <2>2 DEF Best, Score, Descending
      <3> QED
        BY <2>3, <3>1, <3>2
    <2>5. q \in First(group, results, criterion, tolerance)
      BY <1>4, <2>4 DEF First
    <2> QED
      BY <1>1, <1>2, <2>5
  <1> QED
    BY <1>3, <1>4

\* The quotes that are left when the second criterion has broken the tie.
Selected(req, results, first) ==
  IF req.secondary = "none" \/ Cardinality(first) = 1 THEN first
  ELSE Best(first, results, req.secondary)

Tied(req, results, first) ==
  /\ ~(req.secondary = "none" \/ Cardinality(first) = 1)
  /\ GroupIssue(first, results, req.secondary)

AllVerified(assessed, group) ==
  assessed.done => \A q \in group : PolicyStatus(assessed, q) = "VERIFIED"

\* A conclusion recommends the first set if the policy is verified for all of it.
LEMMA ConcludedSays ==
  ASSUME NEW assessed, assessed.done \in BOOLEAN, NEW ranked
  PROVE  /\ (Concluded(assessed, ranked).disposition = "RECOMMENDATION_AVAILABLE")
              <=> AllVerified(assessed, ranked[1])
         /\ Concluded(assessed, ranked).disposition = "RECOMMENDATION_AVAILABLE"
              => Concluded(assessed, ranked).recommended = ranked[1]
         /\ Concluded(assessed, ranked).disposition # "RECOMMENDATION_AVAILABLE"
              => Concluded(assessed, ranked).recommended = {}
  BY DEF Concluded, AllVerified, Outcome

\* What breaking a tie has to come to.
BreaksTie(req, results, ranked, assessed) ==
  LET says == BreakTie(req, results, ranked, assessed)
      best == Selected(req, results, ranked[1])
  IN  /\ (says.disposition = "RECOMMENDATION_AVAILABLE")
           <=> ~Tied(req, results, ranked[1]) /\ AllVerified(assessed, best)
      /\ says.disposition = "RECOMMENDATION_AVAILABLE" => says.recommended = best
      /\ says.disposition # "RECOMMENDATION_AVAILABLE" => says.recommended = {}

\* Breaking a tie recommends what is selected, or nothing (decision_policy.py).
LEMMA BreakTieSays ==
  ASSUME NEW req, req.secondary \in Rankings, NEW results, NEW group,
         NEW ranked \in Seq(SUBSET group), ranked # <<>>,
         IsFiniteSet(ranked[1]), ranked[1] # {}, Valued(results, ranked[1]),
         NEW assessed, assessed.done \in BOOLEAN
  PROVE  BreaksTie(req, results, ranked, assessed)
  <1> DEFINE says == BreakTie(req, results, ranked, assessed)
             best == Selected(req, results, ranked[1])
             tied == ~(req.secondary = "none" \/ Cardinality(ranked[1]) = 1)
             next == ByScore(ranked[1], results, req.secondary)
  <1>1. CASE ~tied
    <2>1. says = Concluded(assessed, ranked) /\ best = ranked[1]
      BY <1>1 DEF BreakTie, Selected
    <2>2. ~Tied(req, results, ranked[1])
      BY <1>1 DEF Tied
    <2> HIDE DEF says, best
    <2>3. /\ (says.disposition = "RECOMMENDATION_AVAILABLE")
                  <=> ~Tied(req, results, ranked[1]) /\ AllVerified(assessed, best)
          /\ says.disposition = "RECOMMENDATION_AVAILABLE" => says.recommended = best
          /\ says.disposition # "RECOMMENDATION_AVAILABLE" => says.recommended = {}
      BY <2>1, <2>2, ConcludedSays
    <2> QED
      BY <2>3 DEF says, best, BreaksTie
  <1>2. CASE tied /\ GroupIssue(ranked[1], results, req.secondary)
    BY <1>2 DEF BreakTie, Tied, Outcome, BreaksTie
  <1>3. CASE tied /\ ~GroupIssue(ranked[1], results, req.secondary)
    <2> DEFINE longer == next \o Tail(ranked)
    <2>1. says = Concluded(assessed, longer) /\ best = Best(ranked[1], results, req.secondary)
      BY <1>3 DEF BreakTie, Selected
    <2>2. ~Tied(req, results, ranked[1])
      BY <1>3 DEF Tied
    <2>3. /\ next \in Seq(SUBSET ranked[1]) /\ next # <<>>
          /\ next[1] = Best(ranked[1], results, req.secondary)
      BY ByScoreFirst
    <2>4. Tail(ranked) \in Seq(SUBSET group)
      OBVIOUS
    <2> HIDE DEF next
    <2>5. Len(next) \in Nat /\ Len(next) # 0 /\ Len(Tail(ranked)) \in Nat
      BY <2>3, <2>4
    <2>6. longer[1] = next[1]
      BY <2>3, <2>4, <2>5
    <2> HIDE DEF says, best, longer
    <2>7. /\ (says.disposition = "RECOMMENDATION_AVAILABLE")
                  <=> ~Tied(req, results, ranked[1]) /\ AllVerified(assessed, best)
          /\ says.disposition = "RECOMMENDATION_AVAILABLE" => says.recommended = best
          /\ says.disposition # "RECOMMENDATION_AVAILABLE" => says.recommended = {}
      BY <2>1, <2>2, <2>3, <2>6, ConcludedSays
    <2> QED
      BY <2>7 DEF says, best, BreaksTie
  <1> QED
    BY <1>1, <1>2, <1>3

Chosen(results, in_scope, assessed) ==
  VerifiedFirst(Having("FEASIBLE", Eligible(in_scope, assessed), results), assessed)

\* When a comparison recommends something.
Decides(req, results, in_scope, tolerance, assessed) ==
  LET eligible == Eligible(in_scope, assessed)
      chosen   == Chosen(results, in_scope, assessed)
      first    == First(chosen, results, req.primary, tolerance)
  IN  /\ ~RankingIssue(req, tolerance)
      /\ Having("FEASIBLE", eligible, results) # {}
      /\ Blocking(req, results, Having("PENDING", eligible, results), chosen, tolerance) = {}
      /\ ~GroupIssue(chosen, results, req.primary)
      /\ ~Tied(req, results, first)
      /\ AllVerified(assessed, Selected(req, results, first))

\* The policy leaves something to choose from when something is feasible.
LEMMA ChosenExist ==
  ASSUME NEW results, NEW in_scope, NEW assessed,
         Having("FEASIBLE", Eligible(in_scope, assessed), results) # {}
  PROVE  Chosen(results, in_scope, assessed) # {}
  BY DEF Chosen, VerifiedFirst

\* What is chosen from is feasible and in scope.
LEMMA ChosenAre ==
  ASSUME NEW results, NEW in_scope, NEW assessed
  PROVE  /\ Chosen(results, in_scope, assessed)
              \subseteq Having("FEASIBLE", Eligible(in_scope, assessed), results)
         /\ Chosen(results, in_scope, assessed) \subseteq in_scope
  BY DEF Chosen, VerifiedFirst, Having, Eligible

\* What a comparison recommends, and when, without the way it gets there.
ComparesTo(req, results, in_scope, tolerance, assessed) ==
  LET says == CompareEvaluations(req, results, in_scope, tolerance, assessed)
      best == Selected(req, results, First(Chosen(results, in_scope, assessed), results,
                                           req.primary, tolerance))
  IN  /\ (says.disposition = "RECOMMENDATION_AVAILABLE")
           <=> Decides(req, results, in_scope, tolerance, assessed)
      /\ says.disposition = "RECOMMENDATION_AVAILABLE" => says.recommended = best
      /\ says.disposition # "RECOMMENDATION_AVAILABLE" => says.recommended = {}

\* A comparison of numbers over a finite set.
IsProper(req, results, in_scope, tolerance, assessed) ==
  /\ req.primary \in Criteria /\ req.secondary \in Rankings
  /\ IsFiniteSet(in_scope) /\ Valued(results, in_scope)
  /\ tolerance \in Nat \cup {None} /\ assessed.done \in BOOLEAN

\* A comparison recommends what is selected exactly when it decides.
LEMMA CompareSays ==
  ASSUME NEW req, NEW results, NEW in_scope, NEW tolerance, NEW assessed,
         IsProper(req, results, in_scope, tolerance, assessed)
  PROVE  ComparesTo(req, results, in_scope, tolerance, assessed)
  <1> DEFINE says     == CompareEvaluations(req, results, in_scope, tolerance, assessed)
             eligible == Eligible(in_scope, assessed)
             pending  == Having("PENDING", eligible, results)
             feasible == Having("FEASIBLE", eligible, results)
             chosen   == Chosen(results, in_scope, assessed)
             first    == First(chosen, results, req.primary, tolerance)
             best     == Selected(req, results, first)
             blocking == Blocking(req, results, pending, chosen, tolerance)
             ranked   == Groups(chosen, results, req.primary, tolerance)
             passed   == /\ feasible # {} /\ ~RankingIssue(req, tolerance)
                         /\ blocking = {} /\ ~GroupIssue(chosen, results, req.primary)
             Claim(r) == /\ (r.disposition = "RECOMMENDATION_AVAILABLE")
                              <=> Decides(req, results, in_scope, tolerance, assessed)
                         /\ r.disposition = "RECOMMENDATION_AVAILABLE"
                              => r.recommended = best
                         /\ r.disposition # "RECOMMENDATION_AVAILABLE"
                              => r.recommended = {}
  <1> SUFFICES Claim(says)
    BY DEF ComparesTo
  <1> USE DEF IsProper
  <1>1. Decides(req, results, in_scope, tolerance, assessed)
          <=> passed /\ ~Tied(req, results, first) /\ AllVerified(assessed, best)
    BY DEF Decides
  <1>2. CASE passed
    <2>1. chosen # {} /\ chosen \subseteq in_scope /\ IsFiniteSet(chosen)
      BY <1>2, ChosenExist, ChosenAre, FS_Subset
    <2>2. Valued(results, chosen)
      BY <2>1 DEF Valued
    <2>3. in_scope # {} /\ eligible # {}
      BY <1>2 DEF Having, Eligible
    <2>4. says = BreakTie(req, results, ranked, assessed)
      BY <1>2, <2>3 DEF CompareEvaluations, Chosen, Rank
    <2> HIDE DEF chosen
    <2>5. /\ ranked \in Seq(SUBSET chosen) /\ ranked # <<>> /\ ranked[1] = first
      BY <2>1, GroupsFirst
    <2>6. first # {} /\ first \subseteq chosen /\ IsFiniteSet(first)
      BY <2>1, <2>2, FirstExists
    <2>7. Valued(results, first)
      BY <2>2, <2>6 DEF Valued
    <2> HIDE DEF ranked, first
    <2> HIDE DEF says, eligible, pending, feasible, best, blocking, passed
    <2>8. BreaksTie(req, results, ranked, assessed)
      <3>1. IsFiniteSet(ranked[1]) /\ ranked[1] # {} /\ Valued(results, ranked[1])
        BY <2>5, <2>6, <2>7
      <3>2. ranked \in Seq(SUBSET chosen) /\ ranked # <<>>
        BY <2>5
      <3> QED
        BY <3>1, <3>2, BreakTieSays
    <2>9. Claim(says)
      BY <1>1, <1>2, <2>4, <2>5, <2>8 DEF best, BreaksTie
    <2> QED
      BY <2>9 DEF says, best, chosen, first
  <1>3. CASE ~passed
    <2>1. ~Decides(req, results, in_scope, tolerance, assessed)
      BY <1>1, <1>3
    <2>2. says.disposition # "RECOMMENDATION_AVAILABLE" /\ says.recommended = {}
      <3>1. CASE in_scope = {} \/ eligible = {} \/ RankingIssue(req, tolerance)
                 \/ feasible = {}
        BY <3>1 DEF CompareEvaluations, Outcome
      <3>2. CASE ~(in_scope = {} \/ eligible = {} \/ RankingIssue(req, tolerance)
                   \/ feasible = {}) /\ blocking # {}
        <4>1. says = Outcome("PENDING_INPUT", {},
                             IF GroupIssue(chosen, results, req.primary) THEN <<>>
                             ELSE ranked)
          BY <3>2 DEF CompareEvaluations, Chosen
        <4> QED
          BY <4>1 DEF Outcome
      <3>3. CASE ~(in_scope = {} \/ eligible = {} \/ RankingIssue(req, tolerance)
                   \/ feasible = {}) /\ blocking = {}
        <4>1. says = Outcome("PENDING_INPUT", {}, <<>>)
          BY <1>3, <3>3 DEF CompareEvaluations, Chosen, Rank
        <4> QED
          BY <4>1 DEF Outcome
      <3> QED
        BY <3>1, <3>2, <3>3
    <2>3. Claim(says)
      BY <2>1, <2>2
    <2> QED
      BY <2>3
  <1> QED
    BY <1>2, <1>3

-----------------------------------------------------------------------------
(* The evaluation of one quote.                                            *)

\* Rounding half up stays within half a unit.
LEMMA Rounded ==
  ASSUME NEW amount \in Nat, NEW unit \in Nat \ {0}
  PROVE  /\ RoundMoney(amount, unit) \in Nat
         /\ 2 * (unit * RoundMoney(amount, unit)) <= 2 * amount + unit
         /\ 2 * amount < 2 * (unit * RoundMoney(amount, unit)) + unit
  <1> DEFINE a == 2 * amount + unit
             m == 2 * unit
             r == a \div m
  <1>1. a \in Nat /\ m \in Nat /\ m > 0 /\ a >= 0
    OBVIOUS
  <1>2. RoundMoney(amount, unit) = r
    BY DEF RoundMoney
  <1> HIDE DEF a, m
  <1>3. r \in Int /\ m * r <= a /\ a < m * r + m
    BY <1>1
  <1>4. r \in Nat
    <2>1. SUFFICES ASSUME r < 0 PROVE FALSE
      BY <1>3
    <2>2. m * r <= -m
      BY <1>1, <1>3, <2>1
    <2> QED
      BY <1>1, <1>3, <2>2
  <1> HIDE DEF r
  <1>5. m * r = 2 * (unit * r)
    BY <1>4 DEF m
  <1> QED
    BY <1>2, <1>3, <1>4, <1>5 DEF a, m

\* A usable fact has a value of its kind.
LEMMA FactsOf ==
  ASSUME NEW quote, IsQuote(quote), NEW field \in FactFields, Usable(quote[field])
  PROVE  Accepts(field, quote[field].value)
  BY DEF IsQuote

\* A required fact raises an issue exactly when it is not usable.
LEMMA RequireSays ==
  ASSUME NEW quote, NEW field
  PROVE  Require(quote, field) = {} <=> Usable(quote[field])
  BY DEF Require

\* Required facts raise no issue exactly when all of them are usable.
LEMMA RequireAllSays ==
  ASSUME NEW quote, NEW fields
  PROVE  RequireAll(quote, fields) = {} <=> \A field \in fields : Usable(quote[field])
  BY RequireSays DEF RequireAll

\* What a fee without open questions adds.
FeeOf(quote, status_field, amount_field) ==
  IF Usable(quote[status_field]) /\ quote[status_field].value = "KNOWN_AMOUNT"
  THEN RoundMoney(quote[amount_field].value, 10) ELSE 0

\* A fee without issues is the rounded amount, or nothing; one with issues is
\* never taken for a number that was not quoted.
LEMMA FeeSays ==
  ASSUME NEW quote, IsQuote(quote), NEW status_field \in StatusFields,
         NEW amount_field \in AmountFields, NEW required \in BOOLEAN
  PROVE  LET fee == Fee(quote, status_field, amount_field, required)
         IN  /\ fee.cost \in Nat \cup {None}
             /\ fee.issues = {} =>
                  /\ fee.cost = FeeOf(quote, status_field, amount_field)
                  /\ fee.cost \in Nat
                  /\ Usable(quote[status_field])
                     /\ quote[status_field].value = "KNOWN_AMOUNT"
                       => Usable(quote[amount_field])
  <1> DEFINE status == quote[status_field]
             amount == quote[amount_field]
             fee    == Fee(quote, status_field, amount_field, required)
  <1>1. status_field \in FactFields /\ amount_field \in FactFields
    BY DEF FactFields, FeeFields
  <1>2. Usable(status) => status.value \in FeeStatuses
    BY <1>1, FactsOf DEF Accepts
  <1>3. Usable(amount) => amount.value \in Nat
    BY <1>1, FactsOf DEF Accepts
  <1>4. Usable(amount) => RoundMoney(amount.value, 10) \in Nat
    <2>1. 10 \in Nat \ {0}
      OBVIOUS
    <2>2. \A n \in Nat : RoundMoney(n, 10) \in Nat
      BY <2>1, Rounded
    <2> QED
      BY <1>3, <2>2
  <1>5. CASE ~Usable(status)
    <2>1. fee = IF required THEN Open(Require(quote, status_field)) ELSE NoFee
      BY <1>5 DEF Fee
    <2>2. Require(quote, status_field) # {}
      BY <1>5, RequireSays
    <2> QED
      BY <1>5, <2>1, <2>2 DEF Open, NoFee, FeeOf, None
  <1>6. CASE Usable(status) /\ status.value = "UNKNOWN"
    <2>1. fee = UnknownFee(status_field, amount_field, required)
      BY <1>6 DEF Fee
    <2> QED
      BY <1>6, <2>1 DEF UnknownFee, Open, NoFee, FeeOf, None
  <1>7. CASE Usable(status) /\ status.value = "INCLUDED"
    <2>1. fee = NoFee
      BY <1>7 DEF Fee
    <2> QED
      BY <1>7, <2>1 DEF NoFee, FeeOf
  <1>8. CASE Usable(status) /\ status.value \in {"FREE", "NOT_APPLICABLE"}
    <2>1. fee = ZeroFee(quote, status_field, amount_field)
      BY <1>8 DEF Fee
    <2>2. fee = NoFee \/ \E issue : fee = Open({issue})
      BY <2>1 DEF ZeroFee
    <2> QED
      BY <1>8, <2>2 DEF NoFee, Open, FeeOf, None
  <1>9. CASE Usable(status) /\ status.value = "KNOWN_AMOUNT"
    <2>1. fee = IF Usable(amount)
                THEN [cost |-> RoundMoney(amount.value, 10), complete |-> TRUE,
                      issues |-> {}]
                ELSE Open(Require(quote, amount_field))
      BY <1>9 DEF Fee
    <2>2. ~Usable(amount) => Require(quote, amount_field) # {}
      BY RequireSays
    <2> QED
      BY <1>4, <1>9, <2>1, <2>2 DEF Open, FeeOf, None
  <1> QED
    BY <1>2, <1>5, <1>6, <1>7, <1>8, <1>9 DEF FeeStatuses

\* Rounding up gives the least multiple that reaches the target.
LEMMA RoundedUp ==
  ASSUME NEW target \in Nat \ {0}, NEW m \in Nat \ {0}
  PROVE  /\ RoundUp(target, m) \in Nat \ {0}
         /\ RoundUp(target, m) >= target
         /\ RoundUp(target, m) < target + m
         /\ RoundUp(target, m) % m = 0
         /\ \A k \in Nat : k % m = 0 /\ k >= target => RoundUp(target, m) <= k
  <1> DEFINE a == target + m - 1
             d == a \div m
             n == d * m
  <1>1. a \in Nat /\ m \in Nat /\ m > 0
    OBVIOUS
  <1>2. RoundUp(target, m) = n
    BY DEF RoundUp
  <1> HIDE DEF a
  <1>3. d \in Int /\ d * m <= a /\ a < d * m + m
    BY <1>1
  <1> HIDE DEF d
  <1>4. n \in Int /\ n <= a /\ a < n + m
    BY <1>3
  <1>5. n % m = 0
    BY <1>1, <1>3
  <1>6. n >= target /\ n < target + m
    BY <1>4 DEF a
  <1>7. ASSUME NEW k \in Nat, k % m = 0, k >= target PROVE n <= k
    <2> DEFINE e == k \div m
    <2>1. e \in Int /\ k = e * m
      BY <1>1, <1>7
    <2> HIDE DEF e
    <2>2. d * m < e * m + m
      BY <1>4, <1>7, <2>1 DEF a
    <2>3. d <= e
      BY <1>1, <1>3, <2>1, <2>2
    <2>4. d * m <= e * m
      BY <1>1, <1>3, <2>1, <2>3
    <2> QED
      BY <2>1, <2>4
  <1> HIDE DEF n
  <1> QED
    BY <1>2, <1>4, <1>5, <1>6, <1>7

\* What has to be ordered at least, and the multiple it comes in.
LEMMA QuantitySays ==
  ASSUME NEW quote, IsQuote(quote), NEW req, IsRequirement(req)
  PROVE  LET ordered == CalculateQuantity(req, quote)
             target  == Larger(req.required_quantity, MinimumOrder(req, quote))
         IN  /\ ordered.pending # {} => ordered.quantity = None
             /\ ordered.pending = {} =>
                  /\ quote.order_multiple_units.value \in Nat \ {0}
                  /\ MinimumOrder(req, quote) \in Nat \ {0}
                  /\ target \in Nat \ {0}
                  /\ ordered.quantity = RoundUp(target, quote.order_multiple_units.value)
                  /\ ordered.quantity \in Nat \ {0}
  <1> DEFINE ordered == CalculateQuantity(req, quote)
             least   == MinimumOrder(req, quote)
             target  == Larger(req.required_quantity, least)
             many    == quote.order_multiple_units.value
             basic   == RequireAll(quote, {"moq_quantity", "moq_unit", "order_multiple_units"})
             packed  == basic = {} /\ quote.moq_unit.value # req.base_unit
             packing == IF ~packed THEN {}
                        ELSE RequireAll(quote, {"packaging_type", "units_per_pack"})
  <1>1. ordered.pending # {} => ordered.quantity = None
    BY DEF CalculateQuantity
  <1>2. ASSUME ordered.pending = {}
        PROVE  /\ many \in Nat \ {0} /\ least \in Nat \ {0} /\ target \in Nat \ {0}
               /\ ordered.quantity = RoundUp(target, many)
               /\ ordered.quantity \in Nat \ {0}
    <2>1. basic = {} /\ packing = {}
      BY <1>2 DEF CalculateQuantity
    <2>2. ordered.quantity = RoundUp(target, many)
      BY <1>2 DEF CalculateQuantity
    <2>3. Usable(quote["moq_quantity"]) /\ Usable(quote["order_multiple_units"])
      BY <2>1, RequireAllSays
    <2>4. /\ {"moq_quantity", "order_multiple_units", "units_per_pack"} \subseteq CountFields
          /\ CountFields \subseteq FactFields
      BY DEF CountFields, FactFields
    <2>5. many \in Nat \ {0} /\ quote.moq_quantity.value \in Nat \ {0}
      BY <2>3, <2>4, FactsOf DEF Accepts
    <2>6. least \in Nat \ {0}
      <3>1. CASE quote.moq_unit.value = req.base_unit
        BY <2>5, <3>1 DEF MinimumOrder
      <3>2. CASE quote.moq_unit.value # req.base_unit
        <4>1. Usable(quote["units_per_pack"])
          BY <2>1, <3>2, RequireAllSays
        <4>2. quote.units_per_pack.value \in Nat \ {0}
          BY <4>1, <2>4, FactsOf DEF Accepts
        <4> DEFINE packs == quote.moq_quantity.value
                   units == quote.units_per_pack.value
        <4>3. least = packs * units
          BY <3>2 DEF MinimumOrder
        <4>4. packs \in Nat \ {0} /\ units \in Nat \ {0}
          BY <2>5, <4>2
        <4> HIDE DEF packs, units, least
        <4>5. packs * units \in Nat \ {0}
          BY <4>4
        <4> QED
          BY <4>3, <4>5
      <3> QED
        BY <3>1, <3>2
    <2>7. target \in Nat \ {0}
      BY <2>6 DEF Larger, IsRequirement
    <2> HIDE DEF many, least, target, ordered
    <2> QED
      BY <2>2, <2>5, <2>6, <2>7, RoundedUp
  <1> QED
    BY <1>1, <1>2

\* What a quote costs when nothing is open.
LEMMA CostSays ==
  ASSUME NEW quote, IsQuote(quote), NEW req, IsRequirement(req), NEW n \in Nat \ {0}
  PROVE  LET cost  == CalculateCost(req, quote, n)
             goods == RoundMoney(n * quote.unit_price.value,
                                 10 * quote.price_basis_quantity.value)
             ship  == FeeOf(quote, "shipping_fee_status", "shipping_fee_amount")
             other == FeeOf(quote, "other_fees_status", "other_fees_amount")
         IN  /\ cost.goods \in Nat \cup {None} /\ cost.subtotal \in Nat \cup {None}
             /\ cost.total \in Nat \cup {None}
             /\ cost.pending = {} =>
                  /\ quote.unit_price.value \in Nat
                  /\ quote.price_basis_quantity.value \in Nat \ {0}
                  /\ Usable(quote.currency) /\ quote.currency.value = req.currency
                  /\ goods \in Nat /\ ship \in Nat /\ other \in Nat
                  /\ cost.goods = goods /\ cost.shipping = ship /\ cost.other = other
                  /\ cost.subtotal = goods + ship + other
                  /\ cost.total = goods + ship + other
  <1> DEFINE cost  == CalculateCost(req, quote, n)
             price == quote.unit_price.value
             basis == quote.price_basis_quantity.value
             goods == RoundMoney(n * price, 10 * basis)
             ship  == FeeOf(quote, "shipping_fee_status", "shipping_fee_amount")
             other == FeeOf(quote, "other_fees_status", "other_fees_amount")
             fee1  == Fee(quote, "shipping_fee_status", "shipping_fee_amount", TRUE)
             fee2  == Fee(quote, "other_fees_status", "other_fees_amount",
                          req.other_fees_required)
             priced == RequireAll(quote, {"unit_price", "price_basis_quantity"})
  <1>1. /\ fee1.cost \in Nat \cup {None}
        /\ fee1.issues = {} => fee1.cost = ship /\ ship \in Nat
    <2> DEFINE required == TRUE
               fee == Fee(quote, "shipping_fee_status", "shipping_fee_amount", required)
    <2>1. "shipping_fee_status" \in StatusFields /\ "shipping_fee_amount" \in AmountFields
      BY DEF StatusFields, AmountFields
    <2>2. required \in BOOLEAN
      OBVIOUS
    <2> HIDE DEF required
    <2>3. /\ fee.cost \in Nat \cup {None}
          /\ fee.issues = {} => fee.cost = ship /\ ship \in Nat
      BY <2>1, <2>2, FeeSays
    <2> QED
      BY <2>3 DEF required
  <1>2. /\ fee2.cost \in Nat \cup {None}
        /\ fee2.issues = {} => fee2.cost = other /\ other \in Nat
    <2>1. "other_fees_status" \in StatusFields /\ "other_fees_amount" \in AmountFields
      BY DEF StatusFields, AmountFields
    <2>2. req.other_fees_required \in BOOLEAN
      BY DEF IsRequirement
    <2> QED
      BY <2>1, <2>2, FeeSays
  <1>3. priced = {} => price \in Nat /\ basis \in Nat \ {0} /\ goods \in Nat
    <2> SUFFICES ASSUME priced = {}
                 PROVE  price \in Nat /\ basis \in Nat \ {0} /\ goods \in Nat
      OBVIOUS
    <2>1. Usable(quote["unit_price"]) /\ Usable(quote["price_basis_quantity"])
      BY RequireAllSays
    <2>2. /\ "unit_price" \in FactFields /\ "price_basis_quantity" \in FactFields
          /\ "price_basis_quantity" \in CountFields
      BY DEF FactFields, CountFields
    <2>3. price \in Nat /\ basis \in Nat \ {0}
      BY <2>1, <2>2, FactsOf DEF Accepts
    <2> HIDE DEF price, basis
    <2>4. n * price \in Nat /\ 10 * basis \in Nat \ {0}
      BY <2>3
    <2> QED
      BY <2>3, <2>4, Rounded
  <1>4. /\ cost.goods = IF priced # {} THEN None ELSE goods
        /\ cost.subtotal = IF cost.goods = None THEN None
                           ELSE cost.goods + Larger(fee1.cost, 0) + Larger(fee2.cost, 0)
        /\ cost.total = IF cost.pending = {} THEN cost.subtotal ELSE None
        /\ cost.shipping = fee1.cost /\ cost.other = fee2.cost
    BY DEF CalculateCost
  <1>5. cost.pending = CurrencyIssues(req, quote) \cup priced \cup fee1.issues
                         \cup fee2.issues \cup TaxIssues(req, quote)
    BY DEF CalculateCost
  <1> HIDE DEF cost, goods, fee1, fee2, priced
  <1>6. cost.goods \in Nat \cup {None}
    BY <1>3, <1>4
  <1>7. Larger(fee1.cost, 0) \in Nat /\ Larger(fee2.cost, 0) \in Nat
    BY <1>1, <1>2 DEF Larger, None
  <1>8. cost.subtotal \in Nat \cup {None} /\ cost.total \in Nat \cup {None}
    BY <1>4, <1>6, <1>7
  <1>9. ASSUME cost.pending = {}
        PROVE  /\ price \in Nat /\ basis \in Nat \ {0}
               /\ Usable(quote.currency) /\ quote.currency.value = req.currency
               /\ goods \in Nat /\ ship \in Nat /\ other \in Nat
               /\ cost.goods = goods /\ cost.shipping = ship /\ cost.other = other
               /\ cost.subtotal = goods + ship + other
               /\ cost.total = goods + ship + other
    <2>1. /\ CurrencyIssues(req, quote) = {} /\ priced = {}
          /\ fee1.issues = {} /\ fee2.issues = {}
      BY <1>5, <1>9
    <2>2. Usable(quote.currency) /\ quote.currency.value = req.currency
      BY <2>1, RequireSays DEF CurrencyIssues
    <2>3. /\ cost.goods = goods /\ goods \in Nat /\ price \in Nat /\ basis \in Nat \ {0}
          /\ cost.shipping = ship /\ cost.other = other /\ ship \in Nat /\ other \in Nat
      BY <2>1, <1>1, <1>2, <1>3, <1>4
    <2>4. Larger(ship, 0) = ship /\ Larger(other, 0) = other /\ goods # None
      BY <2>3 DEF Larger, None
    <2>5. cost.subtotal = goods + ship + other /\ cost.total = goods + ship + other
      BY <1>4, <1>9, <2>3, <2>4
    <2> QED
      BY <2>2, <2>3, <2>5
  <1> QED
    BY <1>6, <1>8, <1>9 DEF cost, goods

\* What is evaluated is compared as numbers.
LEMMA Measured ==
  ASSUME NEW quote, IsQuote(quote), NEW req, IsRequirement(req),
         NEW history, IsHistory(history), NEW day
  PROVE  \A criterion \in Criteria :
           EvaluateSupplier(req, quote, history, day).values[criterion] \in Int
  <1> DEFINE evaluation  == EvaluateSupplier(req, quote, history, day)
             ordered == CalculateQuantity(req, quote)
             cost    == IF ordered.quantity # None
                        THEN CalculateCost(req, quote, ordered.quantity)
                        ELSE [pending |-> {}, goods |-> None, shipping |-> None,
                              other |-> None, subtotal |-> None, total |-> None]
  <1>1. cost.total \in Int
    <2>1. CASE ordered.quantity = None
      BY <2>1 DEF None
    <2>2. CASE ordered.quantity # None
      <3>1. ordered.quantity \in Nat \ {0}
        BY <2>2, QuantitySays
      <3>2. CalculateCost(req, quote, ordered.quantity).total \in Nat \cup {None}
        BY <3>1, CostSays
      <3> QED
        BY <2>2, <3>2 DEF None
    <2> QED
      BY <2>1, <2>2
  <1>2. CheckDelivery(req, quote, day).arrival \in Int
    <2>1. CASE CheckDelivery(req, quote, day).arrival = None
      BY <2>1 DEF None
    <2>2. CASE CheckDelivery(req, quote, day).arrival # None
      <3>1. /\ RequireAll(quote, DeliveryFields) = {}
            /\ CheckDelivery(req, quote, day).arrival
                 = req.planned_order_date + quote.lead_time_days.value
        BY <2>2 DEF CheckDelivery
      <3>2. Usable(quote["lead_time_days"])
        BY <3>1, RequireAllSays DEF DeliveryFields
      <3>3. "lead_time_days" \in FactFields
        BY DEF FactFields
      <3>4. quote.lead_time_days.value \in Nat
        BY <3>2, <3>3, FactsOf DEF Accepts
      <3>5. req.planned_order_date \in Int
        BY DEF IsRequirement, None
      <3> QED
        BY <3>1, <3>4, <3>5
    <2> QED
      BY <2>1, <2>2
  <1>3. EvaluatePaymentTerm(quote).days \in Int
    <2>1. "payment_terms" \in FactFields
      BY DEF FactFields
    <2>2. Usable(quote["payment_terms"]) => quote["payment_terms"].value \in Nat \cup {None}
      BY <2>1, FactsOf DEF Accepts
    <2>3. \/ EvaluatePaymentTerm(quote).days = None
          \/ /\ quote.payment_terms.is = "VERIFIED"
             /\ EvaluatePaymentTerm(quote).days = quote.payment_terms.value
      BY DEF EvaluatePaymentTerm
    <2> QED
      BY <2>2, <2>3 DEF Usable, None
  <1>4. /\ HistoryValue(history, "PERFORMANCE") \in Int
        /\ HistoryValue(history, "ON_TIME") \in Int
        /\ HistoryValue(history, "REJECTED") \in Int
    BY DEF HistoryValue, IsHistory, None
  <1>5. evaluation.values = [COST |-> cost.total,
                         DELIVERY |-> CheckDelivery(req, quote, day).arrival,
                         PAYMENT |-> EvaluatePaymentTerm(quote).days,
                         PERFORMANCE |-> HistoryValue(history, "PERFORMANCE"),
                         ON_TIME |-> HistoryValue(history, "ON_TIME"),
                         REJECTED |-> HistoryValue(history, "REJECTED")]
    BY DEF EvaluateSupplier
  <1> HIDE DEF evaluation, cost
  <1>6. /\ evaluation.values["COST"] \in Int /\ evaluation.values["DELIVERY"] \in Int
        /\ evaluation.values["PAYMENT"] \in Int /\ evaluation.values["PERFORMANCE"] \in Int
        /\ evaluation.values["ON_TIME"] \in Int /\ evaluation.values["REJECTED"] \in Int
    BY <1>1, <1>2, <1>3, <1>4, <1>5
  <1>7. \A criterion \in Criteria : evaluation.values[criterion] \in Int
    BY <1>6 DEF Criteria
  <1> QED
    BY <1>7 DEF evaluation

\* What a feasible quote is worth: its price is all that is known, in the
\* budget and in time.
LEMMA FeasibleSays ==
  ASSUME NEW quote, IsQuote(quote), NEW req, IsRequirement(req),
         NEW history, IsHistory(history), NEW day,
         EvaluateSupplier(req, quote, history, day).status = "FEASIBLE"
  PROVE  LET evaluation == EvaluateSupplier(req, quote, history, day)
             target == Larger(req.required_quantity, MinimumOrder(req, quote))
             goods  == RoundMoney(evaluation.quantity * quote.unit_price.value,
                                  10 * quote.price_basis_quantity.value)
             ship   == FeeOf(quote, "shipping_fee_status", "shipping_fee_amount")
             other  == FeeOf(quote, "other_fees_status", "other_fees_amount")
         IN  /\ CalculateQuantity(req, quote).pending = {}
             /\ evaluation.quantity = CalculateQuantity(req, quote).quantity
             /\ CalculateCost(req, quote, evaluation.quantity).pending = {}
             /\ evaluation.values.COST = goods + ship + other
             /\ evaluation.values.COST \in Nat
             /\ req.includes_shipping => evaluation.values.COST <= req.budget_amount
             /\ evaluation.values.DELIVERY <= req.delivery_deadline
  <1> DEFINE evaluation   == EvaluateSupplier(req, quote, history, day)
             ordered  == CalculateQuantity(req, quote)
             n        == ordered.quantity
             cost     == IF n # None THEN CalculateCost(req, quote, n)
                         ELSE [pending |-> {}, goods |-> None, shipping |-> None,
                               other |-> None, subtotal |-> None, total |-> None]
             delivery == CheckDelivery(req, quote, day)
             spec     == CheckSpecification(req, quote)
             over     == BudgetLowerBound(req, quote, cost) > req.budget_amount
             failed   == spec.failed \cup delivery.failed \cup
                         IF over THEN {Issue("BUDGET_EXCEEDED", {"budget_amount"})} ELSE {}
             pending  == Require(quote, "supplier_name") \cup spec.pending
                         \cup ordered.pending \cup cost.pending \cup delivery.pending
             goods    == RoundMoney(n * quote.unit_price.value,
                                    10 * quote.price_basis_quantity.value)
             ship     == FeeOf(quote, "shipping_fee_status", "shipping_fee_amount")
             other    == FeeOf(quote, "other_fees_status", "other_fees_amount")
  <1>1. /\ evaluation.status = CASE failed # {} -> "INFEASIBLE"
                             [] failed = {} /\ pending # {} -> "PENDING"
                             [] OTHER -> "FEASIBLE"
        /\ evaluation.quantity = n /\ evaluation.values.COST = cost.total
        /\ evaluation.values.DELIVERY = delivery.arrival
    BY DEF EvaluateSupplier
  <1>2. failed = {} /\ pending = {}
    BY <1>1
  <1>3. ordered.pending = {} /\ cost.pending = {} /\ ~over /\ delivery.failed = {}
    BY <1>2
  <1>4. n \in Nat \ {0}
    BY <1>3, QuantitySays
  <1>5. n # None
    BY <1>4 DEF None
  <1>6. cost = CalculateCost(req, quote, n)
    BY <1>5
  <1>7. /\ Usable(quote.currency) /\ quote.currency.value = req.currency
        /\ goods \in Nat /\ ship \in Nat /\ other \in Nat
        /\ cost.goods = goods /\ cost.shipping = ship /\ cost.other = other
        /\ cost.total = goods + ship + other
    <2>1. CalculateCost(req, quote, n).pending = {}
      BY <1>3, <1>6
    <2> HIDE DEF n
    <2>2. /\ Usable(quote.currency) /\ quote.currency.value = req.currency
          /\ goods \in Nat /\ ship \in Nat /\ other \in Nat
          /\ CalculateCost(req, quote, n).goods = goods
          /\ CalculateCost(req, quote, n).shipping = ship
          /\ CalculateCost(req, quote, n).other = other
          /\ CalculateCost(req, quote, n).total = goods + ship + other
      BY <1>4, <2>1, CostSays
    <2> QED
      BY <1>6, <2>2
  <1>8. req.includes_shipping => cost.total <= req.budget_amount
    <2>1. Larger(ship, 0) = ship /\ Larger(other, 0) = other /\ goods # None
      BY <1>7 DEF Larger, None
    <2>2. req.includes_shipping => BudgetLowerBound(req, quote, cost) = goods + ship + other
      BY <1>7, <2>1 DEF BudgetLowerBound
    <2>3. req.budget_amount \in Nat
      BY DEF IsRequirement
    <2> HIDE DEF goods, ship, other, cost
    <2>4. goods + ship + other \in Nat
      BY <1>7
    <2> QED
      BY <1>3, <1>7, <2>2, <2>3, <2>4
  <1>9. delivery.arrival <= req.delivery_deadline
    <2>1. delivery.pending = {}
      BY <1>2
    <2>2. /\ ~(delivery.arrival # None /\ delivery.arrival > req.delivery_deadline)
          /\ delivery.arrival = req.planned_order_date + quote.lead_time_days.value
          /\ req.planned_order_date # None
          /\ RequireAll(quote, DeliveryFields) = {}
      BY <1>3, <2>1 DEF CheckDelivery
    <2>3. Usable(quote["lead_time_days"]) /\ "lead_time_days" \in FactFields
      BY <2>2, RequireAllSays DEF DeliveryFields, FactFields
    <2>4. quote.lead_time_days.value \in Nat
      BY <2>3, FactsOf DEF Accepts
    <2>5. /\ req.planned_order_date \in Nat /\ req.delivery_deadline \in Int
          /\ req.delivery_deadline >= req.planned_order_date
      BY <2>2 DEF IsRequirement
    <2> QED
      BY <2>2, <2>4, <2>5 DEF None
  <1> HIDE DEF evaluation, cost, delivery, goods, ship, other
  <1>10. goods + ship + other \in Nat
    BY <1>7
  <1> QED
    BY <1>1, <1>3, <1>6, <1>7, <1>8, <1>9, <1>10 DEF evaluation, goods, ship, other

-----------------------------------------------------------------------------
(* The comparison of the task.                                             *)

SameButRanking(req, other) ==
  /\ \A f \in {"manufacturer_part_number", "package", "allow_substitutes", "base_unit",
               "required_quantity", "budget_amount", "currency", "includes_shipping",
               "tax_mode", "other_fees_required", "planned_order_date",
               "delivery_deadline"} : req[f] = other[f]

\* How quotes are ranked does not matter for what they are worth.
LEMMA RankingIsApart ==
  ASSUME NEW req, NEW other, SameButRanking(req, other), NEW quote, NEW history, NEW day
  PROVE  EvaluateSupplier(req, quote, history, day)
           = EvaluateSupplier(other, quote, history, day)
  <1>1. /\ req.manufacturer_part_number = other.manufacturer_part_number
        /\ req.package = other.package
        /\ req.allow_substitutes = other.allow_substitutes
        /\ req.base_unit = other.base_unit
        /\ req.required_quantity = other.required_quantity
        /\ req.budget_amount = other.budget_amount /\ req.currency = other.currency
        /\ req.includes_shipping = other.includes_shipping
        /\ req.tax_mode = other.tax_mode
        /\ req.other_fees_required = other.other_fees_required
        /\ req.planned_order_date = other.planned_order_date
        /\ req.delivery_deadline = other.delivery_deadline
    BY DEF SameButRanking
  <1>2. CheckSpecification(req, quote) = CheckSpecification(other, quote)
    <2>1. Mismatches(req, quote) = Mismatches(other, quote)
      BY <1>1 DEF Mismatches, SpecFields
    <2> QED
      BY <1>1, <2>1 DEF CheckSpecification
  <1>3. CalculateQuantity(req, quote) = CalculateQuantity(other, quote)
    <2>1. MinimumOrder(req, quote) = MinimumOrder(other, quote)
      BY <1>1 DEF MinimumOrder
    <2> QED
      BY <1>1, <2>1 DEF CalculateQuantity
  <1>4. \A n : CalculateCost(req, quote, n) = CalculateCost(other, quote, n)
    <2>1. /\ CurrencyIssues(req, quote) = CurrencyIssues(other, quote)
          /\ TaxIssues(req, quote) = TaxIssues(other, quote)
      BY <1>1 DEF CurrencyIssues, TaxIssues
    <2> QED
      BY <1>1, <2>1 DEF CalculateCost
  <1>5. CheckDelivery(req, quote, day) = CheckDelivery(other, quote, day)
    BY <1>1 DEF CheckDelivery
  <1>6. \A cost : BudgetLowerBound(req, quote, cost) = BudgetLowerBound(other, quote, cost)
    BY <1>1 DEF BudgetLowerBound
  <1> DEFINE n       == CalculateQuantity(other, quote).quantity
             unknown == [pending |-> {}, goods |-> None, shipping |-> None,
                         other |-> None, subtotal |-> None, total |-> None]
             paid(r) == IF n # None THEN CalculateCost(r, quote, n) ELSE unknown
  <1>7. paid(req) = paid(other)
    BY <1>4
  <1>8. BudgetLowerBound(req, quote, paid(req)) = BudgetLowerBound(other, quote, paid(other))
    BY <1>6, <1>7
  <1>9. CalculateQuantity(req, quote).quantity = n
    BY <1>3
  <1> QED
    BY <1>1, <1>2, <1>3, <1>5, <1>7, <1>8, <1>9, Zenon DEF EvaluateSupplier

\* A ranking that stands before the requirement's changes no evaluation.
LEMMA EffectiveSays ==
  ASSUME NEW req, IsRequirement(req), NEW prefs, prefs.primary \in Rankings,
         prefs.secondary \in Rankings
  PROVE  /\ Effective(req, prefs).primary \in Criteria
         /\ Effective(req, prefs).secondary \in Rankings
         /\ \A quotes, day :
              Evaluations(Effective(req, prefs), quotes, day) = Evaluations(req, quotes, day)
  <1>1. CASE prefs.primary = "none"
    <2>1. Effective(req, prefs) = req
      BY <1>1 DEF Effective
    <2> QED
      BY <2>1 DEF IsRequirement
  <1>2. CASE prefs.primary # "none"
    <2> DEFINE other == [req EXCEPT !.primary = prefs.primary, !.secondary = prefs.secondary]
    <2>1. Effective(req, prefs) = other
      BY <1>2 DEF Effective
    <2>2. other.primary = prefs.primary /\ other.secondary = prefs.secondary
      BY DEF IsRequirement
    <2>3. SameButRanking(other, req)
      BY DEF IsRequirement, SameButRanking
    <2> HIDE DEF other
    <2>4. \A quotes, day : Evaluations(other, quotes, day) = Evaluations(req, quotes, day)
      BY <2>3, RankingIsApart DEF Evaluations
    <2>5. other.primary \in Criteria
      BY <1>2, <2>2 DEF Rankings
    <2> QED
      BY <2>1, <2>2, <2>4, <2>5
  <1> QED
    BY <1>1, <1>2

InScope == Quotes \ OfSuppliers(Preferences.excluded)

\* The comparison of the task, for any facts the quotes could have.
LEMMA OfficialSays ==
  ASSUME InputsAccepted, NEW quotes
  PROVE  OfficialFor(requirement, profile, quotes)
           = CompareEvaluations(Effective(requirement, Preferences),
                                Evaluations(requirement, quotes, today), InScope,
                                Preferences.tolerance, policy)
  <1> DEFINE ranking == Effective(requirement, Preferences)
  <1>1. PreferencesOf(requirement, profile) = Preferences
    BY DEF Preferences
  <1>2. OfficialFor(requirement, profile, quotes)
          = Compare(requirement, Preferences, InScope, quotes, policy, today)
    BY <1>1 DEF OfficialFor, InScope
  <1>3. IsRequirement(requirement)
    BY DEF InputsAccepted
  <1>4. Evaluations(ranking, quotes, today) = Evaluations(requirement, quotes, today)
    BY <1>3, EffectiveSays, PreferencesTyped
  <1>5. InScope \ OfSuppliers(Preferences.excluded) = InScope
    BY ScopeOf DEF InScope
  <1>6. Compare(requirement, Preferences, InScope, quotes, policy, today)
          = CompareEvaluations(ranking, Evaluations(ranking, quotes, today),
                               InScope \ OfSuppliers(Preferences.excluded),
                               Preferences.tolerance, policy)
    BY DEF Compare
  <1> HIDE DEF ranking
  <1>7. OfficialFor(requirement, profile, quotes)
          = CompareEvaluations(ranking, Evaluations(requirement, quotes, today), InScope,
                               Preferences.tolerance, policy)
    BY <1>2, <1>4, <1>5, <1>6
  <1> QED
    BY <1>7 DEF ranking

\* Whatever the facts are, the comparison is one of numbers over a finite set.
LEMMA ComparisonIsProper ==
  ASSUME InputsAccepted, NEW quotes, \A q \in Quotes : IsQuote(quotes[q])
  PROVE  /\ Valued(Evaluations(requirement, quotes, today), InScope)
         /\ IsFiniteSet(InScope) /\ InScope \subseteq Quotes
         /\ Effective(requirement, Preferences).primary \in Criteria
         /\ Effective(requirement, Preferences).secondary \in Rankings
         /\ Preferences.tolerance \in Nat \cup {None}
         /\ policy.done \in BOOLEAN
  <1>1. IsFiniteSet(InScope) /\ InScope \subseteq Quotes
    <2>1. IsFiniteSet(Quotes)
      BY QuotesAssumption
    <2> QED
      BY <2>1, FS_Difference DEF InScope
  <1>2. IsRequirement(requirement) /\ policy.done \in BOOLEAN
    BY DEF InputsAccepted
  <1>3. \A q \in Quotes : IsHistory(History[q])
    BY QuotesAssumption
  <1>4. \A q \in Quotes, criterion \in Criteria :
          Evaluations(requirement, quotes, today)[q].values[criterion] \in Int
    BY <1>2, <1>3, Measured DEF Evaluations
  <1>5. Valued(Evaluations(requirement, quotes, today), InScope)
    BY <1>1, <1>4 DEF Valued
  <1> QED
    BY <1>1, <1>2, <1>5, EffectiveSays, PreferencesTyped

-----------------------------------------------------------------------------
(* A recommended quote is the best one.                                    *)

\* The least order is the one the rules compute.
LEMMA LeastOrderSays ==
  ASSUME NEW q, IsQuote(facts[q]), IsRequirement(requirement),
         CalculateQuantity(requirement, facts[q]).pending = {}
  PROVE  /\ CalculateQuantity(requirement, facts[q]).quantity = LeastOrder(q)
         /\ LeastOrder(q) \in Nat \ {0}
  <1> DEFINE sheet  == facts[q]
             least  == MinimumOrder(requirement, sheet)
             needed == requirement.required_quantity
             target == Larger(needed, least)
             many   == sheet.order_multiple_units.value
             n      == RoundUp(target, many)
             enough == {k \in 1 .. (needed + least + many) :
                          k % many = 0 /\ k >= needed /\ k >= least}
  <1>1. /\ many \in Nat \ {0} /\ least \in Nat \ {0} /\ target \in Nat \ {0}
        /\ CalculateQuantity(requirement, sheet).quantity = n
    BY QuantitySays
  <1>2. needed \in Nat \ {0}
    BY DEF IsRequirement
  <1>3. /\ n \in Nat \ {0} /\ n >= target /\ n < target + many /\ n % many = 0
        /\ \A k \in Nat : k % many = 0 /\ k >= target => n <= k
    BY <1>1, RoundedUp
  <1>4. target >= needed /\ target >= least /\ target <= needed + least
        /\ (target = needed \/ target = least)
    BY <1>1, <1>2 DEF Larger
  <1>5. LeastOrder(q) = CHOOSE k \in enough : \A m \in enough : k <= m
    BY DEF LeastOrder
  <1> HIDE DEF n, many, least, target, needed
  <1>6. n \in enough
    BY <1>1, <1>2, <1>3, <1>4
  <1>7. \A m \in enough : n <= m
    <2> SUFFICES ASSUME NEW m \in enough PROVE n <= m
      OBVIOUS
    <2>1. m \in Nat /\ m % many = 0 /\ m >= needed /\ m >= least
      OBVIOUS
    <2>2. m >= target
      BY <1>4, <2>1
    <2> QED
      BY <1>3, <2>1, <2>2
  <1>8. \A k \in enough : (\A m \in enough : k <= m) => k = n
    <2> SUFFICES ASSUME NEW k \in enough, \A m \in enough : k <= m PROVE k = n
      OBVIOUS
    <2>1. k \in Nat /\ n \in Nat
      BY <1>3
    <2>2. k <= n /\ n <= k
      BY <1>6, <1>7
    <2> QED
      BY <2>1, <2>2
  <1>9. LeastOrder(q) = n
    BY <1>5, <1>6, <1>7, <1>8
  <1> QED
    BY <1>1, <1>3, <1>9 DEF n

\* A rounded sum of a price and of fees, some of them known.
RoundedSum(cost, exact, unit, parts) ==
  /\ 2 * (unit * cost - exact) <= unit * parts
  /\ 2 * (exact - unit * cost) < unit * parts + 1

\* A fee rounded to cents, in the unit the price is given in.
LEMMA ScaledFee ==
  ASSUME NEW amount \in Nat, NEW basis \in Nat \ {0}
  PROVE  LET fee == RoundMoney(amount, 10)
         IN  /\ fee \in Nat
             /\ 2 * (10 * basis * fee - amount * basis) <= 10 * basis
             /\ 2 * (amount * basis - 10 * basis * fee) <= 10 * basis
  <1> DEFINE fee == RoundMoney(amount, 10)
             d   == 10 * fee - amount
  <1>1. fee \in Nat /\ 2 * (10 * fee) <= 2 * amount + 10 /\ 2 * amount < 2 * (10 * fee) + 10
    BY Rounded
  <1> HIDE DEF fee
  <1>2. d \in Int /\ d <= 5 /\ -d <= 5
    BY <1>1
  <1>3. d * basis = 10 * basis * fee - amount * basis
    BY <1>1
  <1> HIDE DEF d
  <1>4. d * basis <= 5 * basis /\ -(d * basis) <= 5 * basis
    BY <1>2
  <1>5. d * basis \in Int
    BY <1>2
  <1>6. 10 * basis * fee \in Int /\ amount * basis \in Int
    BY <1>1
  <1>7. /\ 2 * (10 * basis * fee - amount * basis) <= 10 * basis
        /\ 2 * (amount * basis - 10 * basis * fee) <= 10 * basis
    BY <1>3, <1>4, <1>5, <1>6
  <1> QED
    BY <1>1, <1>7 DEF fee

\* A price rounded to cents, in the unit it is given in.
LEMMA ScaledPrice ==
  ASSUME NEW n \in Nat, NEW price \in Nat, NEW basis \in Nat \ {0}
  PROVE  LET goods == RoundMoney(n * price, 10 * basis)
         IN  /\ goods \in Nat
             /\ 2 * (10 * basis * goods - n * price) <= 10 * basis
             /\ 2 * (n * price - 10 * basis * goods) <= 10 * basis
  <1> DEFINE amount == n * price
             unit   == 10 * basis
             goods  == RoundMoney(amount, unit)
  <1>1. amount \in Nat /\ unit \in Nat \ {0}
    OBVIOUS
  <1> HIDE DEF amount, unit
  <1>2. /\ goods \in Nat /\ 2 * (unit * goods) <= 2 * amount + unit
        /\ 2 * amount < 2 * (unit * goods) + unit
    BY <1>1, Rounded
  <1> HIDE DEF goods
  <1>3. unit * goods \in Int
    BY <1>1, <1>2
  <1>4. 2 * (unit * goods - amount) <= unit /\ 2 * (amount - unit * goods) <= unit
    BY <1>1, <1>2, <1>3
  <1> QED
    BY <1>2, <1>4 DEF amount, unit, goods

\* A fee without open questions, and the amount that was quoted for it.
LEMMA FeeIsOfAmount ==
  ASSUME NEW quote, IsQuote(quote), NEW status_field \in StatusFields,
         NEW amount_field \in AmountFields, NEW required \in BOOLEAN,
         Fee(quote, status_field, amount_field, required).issues = {},
         NEW basis \in Nat \ {0}
  PROVE  LET known  == Usable(quote[status_field])
                       /\ quote[status_field].value = "KNOWN_AMOUNT"
             amount == IF known THEN quote[amount_field].value ELSE 0
             fee    == FeeOf(quote, status_field, amount_field)
             parts  == IF known THEN 1 ELSE 0
         IN  /\ fee \in Nat /\ amount \in Nat
             /\ 2 * (10 * basis * fee - amount * basis) <= 10 * basis * parts
             /\ 2 * (amount * basis - 10 * basis * fee) <= 10 * basis * parts
  <1> DEFINE known  == Usable(quote[status_field])
                       /\ quote[status_field].value = "KNOWN_AMOUNT"
  <1>1. CASE known
    <2>1. Usable(quote[amount_field])
      BY <1>1, FeeSays
    <2>2. amount_field \in FactFields
      BY DEF FactFields, FeeFields
    <2>3. quote[amount_field].value \in Nat
      BY <2>1, <2>2, FactsOf DEF Accepts
    <2>4. FeeOf(quote, status_field, amount_field) = RoundMoney(quote[amount_field].value, 10)
      BY <1>1 DEF FeeOf
    <2> DEFINE amount == quote[amount_field].value
               fee    == RoundMoney(amount, 10)
    <2>5. /\ fee \in Nat
          /\ 2 * (10 * basis * fee - amount * basis) <= 10 * basis
          /\ 2 * (amount * basis - 10 * basis * fee) <= 10 * basis
      BY <2>3, ScaledFee
    <2>6. 10 * basis * 1 = 10 * basis
      OBVIOUS
    <2> HIDE DEF fee
    <2> QED
      BY <1>1, <2>3, <2>4, <2>5, <2>6 DEF fee
  <1>2. CASE ~known
    <2>1. FeeOf(quote, status_field, amount_field) = 0
      BY <1>2 DEF FeeOf
    <2> QED
      BY <1>2, <2>1
  <1> QED
    BY <1>1, <1>2

\* The sum of a price and two fees, each within its bound.
LEMMA SumOfParts ==
  ASSUME NEW basis \in Nat \ {0}, NEW goods \in Nat, NEW price \in Nat,
         NEW fee1 \in Nat, NEW amount1 \in Nat, NEW parts1 \in Nat,
         NEW fee2 \in Nat, NEW amount2 \in Nat, NEW parts2 \in Nat,
         2 * (10 * basis * goods - price) <= 10 * basis,
         2 * (price - 10 * basis * goods) <= 10 * basis,
         2 * (10 * basis * fee1 - amount1 * basis) <= 10 * basis * parts1,
         2 * (amount1 * basis - 10 * basis * fee1) <= 10 * basis * parts1,
         2 * (10 * basis * fee2 - amount2 * basis) <= 10 * basis * parts2,
         2 * (amount2 * basis - 10 * basis * fee2) <= 10 * basis * parts2
  PROVE  LET cost  == goods + fee1 + fee2
             exact == price + (amount1 + amount2) * basis
         IN  /\ 2 * (10 * basis * cost - exact) <= 10 * basis * (1 + (parts1 + parts2))
             /\ 2 * (exact - 10 * basis * cost)
                  < 10 * basis * (1 + (parts1 + parts2)) + 1
  <1> DEFINE unit == 10 * basis
             g == unit * goods
             f1 == unit * fee1
             f2 == unit * fee2
             a1 == amount1 * basis
             a2 == amount2 * basis
             p1 == unit * parts1
             p2 == unit * parts2
  <1>1. /\ 10 * basis * (goods + fee1 + fee2) = g + f1 + f2
        /\ (amount1 + amount2) * basis = a1 + a2
        /\ 10 * basis * (1 + (parts1 + parts2)) = unit + p1 + p2
    OBVIOUS
  <1>2. /\ unit \in Int /\ g \in Int /\ f1 \in Int /\ f2 \in Int /\ a1 \in Int /\ a2 \in Int
        /\ p1 \in Int /\ p2 \in Int
    OBVIOUS
  <1>3. /\ 2 * (g - price) <= unit /\ 2 * (price - g) <= unit
        /\ 2 * (f1 - a1) <= p1 /\ 2 * (a1 - f1) <= p1
        /\ 2 * (f2 - a2) <= p2 /\ 2 * (a2 - f2) <= p2
    OBVIOUS
  <1> HIDE DEF unit, g, f1, f2, a1, a2, p1, p2
  <1>4. /\ 2 * ((g + f1 + f2) - (price + (a1 + a2))) <= unit + p1 + p2
        /\ 2 * ((price + (a1 + a2)) - (g + f1 + f2)) < unit + p1 + p2 + 1
    BY <1>2, <1>3
  <1> QED
    BY <1>1, <1>4

\* A feasible quote is ordered in the least quantity, at its price.
LEMMA PriceSays ==
  ASSUME NEW q \in Quotes, IsQuote(facts[q]), IsRequirement(requirement),
         IsHistory(History[q]),
         Evaluations(requirement, facts, today)[q].status = "FEASIBLE"
  PROVE  /\ Evaluations(requirement, facts, today)[q].quantity = LeastOrder(q)
         /\ IsPriceOf(Evaluations(requirement, facts, today)[q].values.COST, q)
  <1> DEFINE sheet  == facts[q]
             evaluation == EvaluateSupplier(requirement, sheet, History[q], today)
             n      == LeastOrder(q)
             price  == n * sheet.unit_price.value
             basis  == sheet.price_basis_quantity.value
             goods  == RoundMoney(price, 10 * basis)
             known1 == Usable(sheet["shipping_fee_status"])
                       /\ sheet["shipping_fee_status"].value = "KNOWN_AMOUNT"
             known2 == Usable(sheet["other_fees_status"])
                       /\ sheet["other_fees_status"].value = "KNOWN_AMOUNT"
             amount1 == IF known1 THEN sheet["shipping_fee_amount"].value ELSE 0
             amount2 == IF known2 THEN sheet["other_fees_amount"].value ELSE 0
             fee1   == FeeOf(sheet, "shipping_fee_status", "shipping_fee_amount")
             fee2   == FeeOf(sheet, "other_fees_status", "other_fees_amount")
             parts1 == IF known1 THEN 1 ELSE 0
             parts2 == IF known2 THEN 1 ELSE 0
             cost   == CalculateCost(requirement, sheet, n)
  <1>1. Evaluations(requirement, facts, today)[q] = evaluation
    BY DEF Evaluations
  <1>2. evaluation.status = "FEASIBLE"
    BY <1>1
  <1>3. /\ CalculateQuantity(requirement, sheet).pending = {}
        /\ evaluation.quantity = CalculateQuantity(requirement, sheet).quantity
    BY <1>2, FeasibleSays
  <1>4. evaluation.quantity = n /\ n \in Nat \ {0}
    BY <1>3, LeastOrderSays
  <1> HIDE DEF n
  <1>5. evaluation.values.COST = goods + fee1 + fee2 /\ cost.pending = {}
    <2>1. /\ CalculateCost(requirement, sheet, evaluation.quantity).pending = {}
          /\ evaluation.values.COST = RoundMoney(evaluation.quantity * sheet.unit_price.value,
                                             10 * sheet.price_basis_quantity.value)
                                  + fee1 + fee2
      BY <1>2, FeasibleSays
    <2> HIDE DEF evaluation, fee1, fee2
    <2> QED
      BY <1>4, <2>1
  <1>6. sheet.unit_price.value \in Nat /\ basis \in Nat \ {0}
    BY <1>4, <1>5, CostSays
  <1>7. /\ Fee(sheet, "shipping_fee_status", "shipping_fee_amount", TRUE).issues = {}
        /\ Fee(sheet, "other_fees_status", "other_fees_amount",
               requirement.other_fees_required).issues = {}
    BY <1>5 DEF CalculateCost
  <1>8. /\ goods \in Nat /\ price \in Nat
        /\ 2 * (10 * basis * goods - price) <= 10 * basis
        /\ 2 * (price - 10 * basis * goods) <= 10 * basis
    <2> DEFINE each == sheet.unit_price.value
    <2>1. n \in Nat /\ each \in Nat /\ basis \in Nat \ {0}
      BY <1>4, <1>6
    <2> HIDE DEF each, basis
    <2>2. n * each \in Nat
      BY <2>1
    <2>3. /\ RoundMoney(n * each, 10 * basis) \in Nat
          /\ 2 * (10 * basis * RoundMoney(n * each, 10 * basis) - n * each) <= 10 * basis
          /\ 2 * (n * each - 10 * basis * RoundMoney(n * each, 10 * basis)) <= 10 * basis
      BY <2>1, ScaledPrice
    <2> QED
      BY <2>2, <2>3 DEF each
  <1>9. /\ fee1 \in Nat /\ amount1 \in Nat
        /\ 2 * (10 * basis * fee1 - amount1 * basis) <= 10 * basis * parts1
        /\ 2 * (amount1 * basis - 10 * basis * fee1) <= 10 * basis * parts1
    <2>1. "shipping_fee_status" \in StatusFields /\ "shipping_fee_amount" \in AmountFields
      BY DEF StatusFields, AmountFields
    <2> HIDE DEF basis
    <2> QED
      BY <2>1, <1>6, <1>7, FeeIsOfAmount
  <1>10. /\ fee2 \in Nat /\ amount2 \in Nat
         /\ 2 * (10 * basis * fee2 - amount2 * basis) <= 10 * basis * parts2
         /\ 2 * (amount2 * basis - 10 * basis * fee2) <= 10 * basis * parts2
    <2>1. "other_fees_status" \in StatusFields /\ "other_fees_amount" \in AmountFields
      BY DEF StatusFields, AmountFields
    <2>2. requirement.other_fees_required \in BOOLEAN
      BY DEF IsRequirement
    <2> HIDE DEF basis
    <2> QED
      BY <2>1, <2>2, <1>6, <1>7, FeeIsOfAmount
  <1>11. parts1 \in Nat /\ parts2 \in Nat
    OBVIOUS
  <1> DEFINE fees == {f \in {"shipping", "other"} :
                        LET status == sheet[IF f = "shipping" THEN "shipping_fee_status"
                                            ELSE "other_fees_status"]
                        IN  Usable(status) /\ status.value = "KNOWN_AMOUNT"}
  <1>12. ("shipping" \in fees <=> known1) /\ ("other" \in fees <=> known2)
    OBVIOUS
  <1>13. Cardinality(fees) = parts1 + parts2
    <2>1. fees \subseteq {"shipping", "other"}
      OBVIOUS
    <2> HIDE DEF fees, known1, known2
    <2>2. CASE known1 /\ known2
      <3>1. fees = {"shipping"} \cup {"other"}
        BY <1>12, <2>1, <2>2
      <3>2. /\ IsFiniteSet({"shipping"}) /\ Cardinality({"shipping"}) = 1
            /\ "other" \notin {"shipping"}
        BY FS_Singleton
      <3>3. Cardinality({"shipping"} \cup {"other"}) = Cardinality({"shipping"}) + 1
        BY <3>2, FS_AddElement
      <3> QED
        BY <2>2, <3>1, <3>2, <3>3
    <2>3. CASE known1 /\ ~known2
      <3>1. fees = {"shipping"}
        BY <1>12, <2>1, <2>3
      <3>2. parts1 = 1 /\ parts2 = 0
        BY <2>3
      <3>3. Cardinality(fees) = 1
        BY <3>1, FS_Singleton
      <3> QED
        BY <3>2, <3>3
    <2>4. CASE ~known1 /\ known2
      <3>1. fees = {"other"}
        BY <1>12, <2>1, <2>4
      <3>2. parts1 = 0 /\ parts2 = 1
        BY <2>4
      <3>3. Cardinality(fees) = 1
        BY <3>1, FS_Singleton
      <3> QED
        BY <3>2, <3>3
    <2>5. CASE ~known1 /\ ~known2
      <3>1. fees = {}
        BY <1>12, <2>1, <2>5
      <3> QED
        BY <2>5, <3>1, FS_EmptySet
    <2> HIDE DEF parts1, parts2
    <2> QED
      BY <2>2, <2>3, <2>4, <2>5, Zenon
  <1> DEFINE sum   == goods + fee1 + fee2
             exact == price + (amount1 + amount2) * basis
  <1>14. /\ 2 * (10 * basis * sum - exact) <= 10 * basis * (1 + Cardinality(fees))
         /\ 2 * (exact - 10 * basis * sum) < 10 * basis * (1 + Cardinality(fees)) + 1
    <2> HIDE DEF goods, price, basis, fee1, fee2, amount1, amount2, parts1, parts2, fees
    <2>1. /\ 2 * (10 * basis * sum - exact) <= 10 * basis * (1 + (parts1 + parts2))
          /\ 2 * (exact - 10 * basis * sum) < 10 * basis * (1 + (parts1 + parts2)) + 1
      BY <1>6, <1>8, <1>9, <1>10, <1>11, SumOfParts
    <2> QED
      BY <1>13, <2>1
  <1>15. IsPriceOf(sum, q)
    <2>1. /\ amount1 = IF "shipping" \in fees THEN sheet.shipping_fee_amount.value ELSE 0
          /\ amount2 = IF "other" \in fees THEN sheet.other_fees_amount.value ELSE 0
      BY <1>12
    <2> HIDE DEF sum, amount1, amount2
    <2> QED
      BY <1>14, <2>1 DEF IsPriceOf, n
  <1> QED
    BY <1>1, <1>4, <1>5, <1>15 DEF n

\* A rival that the policy lets pass is one of the quotes that are ranked.
LEMMA RivalsAreChosen ==
  ASSUME NEW results, NEW assessed, NEW in_scope, NEW q \in in_scope,
         results[q].status = "FEASIBLE",
         assessed.done => PolicyStatus(assessed, q) = "VERIFIED"
  PROVE  q \in Chosen(results, in_scope, assessed)
  <1>1. q \in Having("FEASIBLE", Eligible(in_scope, assessed), results)
    BY DEF Having, Eligible
  <1> QED
    BY <1>1 DEF Chosen, VerifiedFirst

\* What is recommended comes first among the quotes that are ranked.
LEMMA RecommendedAre ==
  ASSUME InputsAccepted, NEW q \in Official.recommended
  PROVE  LET results == Evaluations(requirement, facts, today)
             ranking == Effective(requirement, Preferences)
             chosen  == Chosen(results, InScope, policy)
             first   == First(chosen, results, ranking.primary, Preferences.tolerance)
         IN  /\ q \in Selected(ranking, results, first)
             /\ q \in first /\ q \in chosen /\ q \in InScope
             /\ results[q].status = "FEASIBLE"
             /\ policy.done => PolicyStatus(policy, q) = "VERIFIED"
  <1> DEFINE results == Evaluations(requirement, facts, today)
             ranking == Effective(requirement, Preferences)
             chosen  == Chosen(results, InScope, policy)
             first   == First(chosen, results, ranking.primary, Preferences.tolerance)
             says    == CompareEvaluations(ranking, results, InScope,
                                           Preferences.tolerance, policy)
  <1>1. \A p \in Quotes : IsQuote(facts[p])
    BY DEF InputsAccepted
  <1>2. Official = says
    BY OfficialSays DEF Official
  <1>3. /\ Valued(results, InScope) /\ IsFiniteSet(InScope)
        /\ ranking.primary \in Criteria /\ ranking.secondary \in Rankings
        /\ Preferences.tolerance \in Nat \cup {None} /\ policy.done \in BOOLEAN
    BY <1>1, ComparisonIsProper
  <1> HIDE DEF results, ranking
  <1>4. ComparesTo(ranking, results, InScope, Preferences.tolerance, policy)
    <2>1. IsProper(ranking, results, InScope, Preferences.tolerance, policy)
      BY <1>3 DEF IsProper
    <2> QED
      BY <2>1, CompareSays
  <1>5. /\ (says.disposition = "RECOMMENDATION_AVAILABLE")
             <=> Decides(ranking, results, InScope, Preferences.tolerance, policy)
        /\ says.disposition = "RECOMMENDATION_AVAILABLE"
             => says.recommended = Selected(ranking, results, first)
        /\ says.disposition # "RECOMMENDATION_AVAILABLE" => says.recommended = {}
    BY <1>4 DEF ComparesTo
  <1>6. /\ q \in Selected(ranking, results, first)
        /\ Decides(ranking, results, InScope, Preferences.tolerance, policy)
    BY <1>2, <1>5
  <1>7. q \in first
    BY <1>6 DEF Selected, Best
  <1>8. q \in chosen
    BY <1>7 DEF First, Best
  <1>9. q \in InScope /\ results[q].status = "FEASIBLE"
    BY <1>8, ChosenAre DEF Having
  <1>10. policy.done => PolicyStatus(policy, q) = "VERIFIED"
    BY <1>6 DEF Decides, AllVerified
  <1> QED
    BY <1>6, <1>7, <1>8, <1>9, <1>10 DEF results, ranking

\* Whatever the facts, settings and policy are, a recommended quote is worth what
\* a buyer may expect of it (engine.py _compare_evaluations, cost.py, quantity.py).
THEOREM RecommendedIsBestCorrect == ComparisonSpec => []RecommendedIsBest
  <1> DEFINE results  == Evaluations(requirement, facts, today)
             ranking  == Effective(requirement, Preferences)
             chosen   == Chosen(results, InScope, policy)
             first    == First(chosen, results, ranking.primary, Preferences.tolerance)
             rivals   == {q \in Quotes \ OfSuppliers(Preferences.excluded) :
                            /\ results[q].status = "FEASIBLE"
                            /\ policy.done => PolicyStatus(policy, q) = "VERIFIED"}
             Price(q) == results[q].values.COST
             Promise(q) ==
               /\ q \in rivals
               /\ results[q].quantity = LeastOrder(q)
               /\ IsPriceOf(Price(q), q)
               /\ results[q].values.DELIVERY <= requirement.delivery_deadline
               /\ requirement.includes_shipping => Price(q) <= requirement.budget_amount
               /\ ranking.primary = "COST" => \A r \in rivals :
                    Price(q) <= Price(r) + Larger(Preferences.tolerance, 0)
               /\ ranking.primary = "COST" /\ ranking.secondary = "DELIVERY"
                  /\ Preferences.tolerance = None => \A r \in rivals :
                    Price(r) = Price(q) =>
                      results[q].values.DELIVERY <= results[r].values.DELIVERY
  <1>1. ASSUME InputsAccepted, NEW q \in Official.recommended
        PROVE  Promise(q)
    <2>1. /\ q \in Selected(ranking, results, first)
          /\ q \in first /\ q \in chosen /\ q \in InScope
          /\ results[q].status = "FEASIBLE"
          /\ policy.done => PolicyStatus(policy, q) = "VERIFIED"
      BY <1>1, RecommendedAre
    <2>2. q \in rivals /\ q \in Quotes /\ rivals \subseteq Quotes
      BY <2>1 DEF InScope
    <2>3. IsQuote(facts[q]) /\ IsRequirement(requirement) /\ IsHistory(History[q])
      BY <1>1, <2>2, QuotesAssumption DEF InputsAccepted
    <2>4. results[q].quantity = LeastOrder(q) /\ IsPriceOf(Price(q), q)
      BY <2>1, <2>2, <2>3, PriceSays
    <2>5. /\ requirement.includes_shipping => Price(q) <= requirement.budget_amount
          /\ results[q].values.DELIVERY <= requirement.delivery_deadline
      <3>1. results[q] = EvaluateSupplier(requirement, facts[q], History[q], today)
        BY <2>2 DEF Evaluations
      <3> QED
        BY <2>1, <2>3, <3>1, FeasibleSays
    <2>6. \A r \in rivals : r \in chosen
      BY RivalsAreChosen DEF InScope
    <2>7. \A p \in Quotes : IsQuote(facts[p])
      BY <1>1 DEF InputsAccepted
    <2>8. /\ Valued(results, InScope) /\ IsFiniteSet(InScope)
          /\ Preferences.tolerance \in Nat \cup {None}
      BY <1>1, <2>7, ComparisonIsProper
    <2>9. "COST" \in Criteria /\ "DELIVERY" \in Criteria
      BY DEF Criteria
    <2>10. \A r \in rivals \cup chosen : /\ Price(r) \in Int
                                          /\ results[r].values.DELIVERY \in Int
      <3>1. rivals \cup chosen \subseteq InScope
        BY ChosenAre DEF InScope
      <3>2. \A r \in InScope : /\ results[r].values["COST"] \in Int
                               /\ results[r].values["DELIVERY"] \in Int
        BY <2>8, <2>9 DEF Valued
      <3> QED
        BY <3>1, <3>2
    <2> HIDE DEF results, ranking, chosen, rivals
    <2>11. ASSUME ranking.primary = "COST", NEW r \in rivals
           PROVE  Price(q) <= Price(r) + Larger(Preferences.tolerance, 0)
      <3>1. Price(q) \in Int /\ Price(r) \in Int /\ r \in chosen
        BY <2>2, <2>6, <2>10, <2>11
      <3>2. CASE Preferences.tolerance = None
        <4>1. q \in Best(chosen, results, "COST")
          BY <2>1, <2>11, <3>2 DEF First
        <4>2. ~(Price(r) < Price(q))
          BY <3>1, <4>1 DEF Best, Score, Descending
        <4>3. Larger(Preferences.tolerance, 0) = 0
          BY <3>2 DEF Larger, None
        <4> QED
          BY <3>1, <4>2, <4>3
      <3>3. CASE Preferences.tolerance # None
        <4>1. Preferences.tolerance \in Nat
          BY <2>8, <3>3
        <4>2. Larger(Preferences.tolerance, 0) = Preferences.tolerance
          BY <4>1 DEF Larger
        <4>3. Price(q) <= Price(r) + Preferences.tolerance
          BY <2>1, <2>11, <3>1, <3>3 DEF First
        <4> QED
          BY <4>2, <4>3
      <3> QED
        BY <3>2, <3>3
    <2>12. ASSUME ranking.primary = "COST", ranking.secondary = "DELIVERY",
                  Preferences.tolerance = None, NEW r \in rivals, Price(r) = Price(q)
           PROVE  results[q].values.DELIVERY <= results[r].values.DELIVERY
      <3>1. r \in chosen
        BY <2>6, <2>12
      <3>2. first = Best(chosen, results, "COST")
        BY <2>12 DEF First
      <3>3. q \in Best(chosen, results, "COST")
        BY <2>1, <3>2
      <3>4. r \in first
        BY <2>12, <3>1, <3>2, <3>3 DEF Best, Score, Descending
      <3>5. results[q].values.DELIVERY \in Int /\ results[r].values.DELIVERY \in Int
        BY <2>2, <2>10, <2>12
      <3>6. CASE Cardinality(first) = 1
        <4>1. IsFiniteSet(first)
          <5>1. first \subseteq InScope
            BY ChosenAre DEF First, Best, chosen
          <5> QED
            BY <2>8, <5>1, FS_Subset
        <4>2. PICK only : first = {only}
          BY <3>6, <4>1, FS_Singleton
        <4>3. q = r
          BY <2>1, <3>4, <4>2
        <4> QED
          BY <3>5, <4>3
      <3>7. CASE Cardinality(first) # 1
        <4>1. q \in Best(first, results, "DELIVERY")
          BY <2>1, <2>12, <3>7 DEF Selected
        <4>2. ~(results[r].values.DELIVERY < results[q].values.DELIVERY)
          BY <3>4, <4>1 DEF Best, Score, Descending
        <4> QED
          BY <3>5, <4>2
      <3> QED
        BY <3>6, <3>7
    <2> QED
      BY <2>2, <2>4, <2>5, <2>11, <2>12
  <1>2. InputsAccepted => RecommendedIsBest
    BY <1>1 DEF RecommendedIsBest
  <1> QED
    BY <1>2, InputsAcceptedCorrect, PTL

-----------------------------------------------------------------------------
(* What an answer to an open fact does to its quote.                       *)

ShippingFields == {"shipping_fee_status", "shipping_fee_amount"}
OtherFields    == {"other_fees_status", "other_fees_amount"}
PriceFields    == {"unit_price", "price_basis_quantity"}
QuantityFields == {"moq_quantity", "moq_unit", "order_multiple_units", "packaging_type",
                   "units_per_pack"}

Shipping(quote) == Fee(quote, "shipping_fee_status", "shipping_fee_amount", TRUE)
Other(req, quote) ==
  Fee(quote, "other_fees_status", "other_fees_amount", req.other_fees_required)

\* The issue of a required fact is about its field.
LEMMA RequireFields ==
  ASSUME NEW quote, NEW field, NEW issue \in Require(quote, field)
  PROVE  issue.fields = {field} /\ ~Usable(quote[field])
  BY DEF Require, Issue

\* The issue of one of several required facts is about one of their fields.
LEMMA RequireAllFields ==
  ASSUME NEW quote, NEW fields, NEW issue \in RequireAll(quote, fields)
  PROVE  \E field \in fields : issue.fields = {field} /\ ~Usable(quote[field])
  BY RequireFields DEF RequireAll

\* The issues of a fee are about its two fields, and keep it from counting.
LEMMA FeeFieldsAsked ==
  ASSUME NEW quote, IsQuote(quote), NEW status_field \in StatusFields,
         NEW amount_field \in AmountFields, NEW required \in BOOLEAN
  PROVE  LET fee == Fee(quote, status_field, amount_field, required)
         IN  /\ \A issue \in fee.issues : issue.fields \subseteq {status_field, amount_field}
             /\ fee.issues # {} => fee.cost = None
  <1> DEFINE status == quote[status_field]
             amount == quote[amount_field]
             fee    == Fee(quote, status_field, amount_field, required)
  <1>1. Usable(status) => status.value \in FeeStatuses
    BY FactsOf DEF Accepts, FactFields, FeeFields
  <1>2. CASE ~Usable(status)
    <2>1. fee = IF required THEN Open(Require(quote, status_field)) ELSE NoFee
      BY <1>2 DEF Fee
    <2> QED
      BY <2>1, RequireFields DEF Open, NoFee
  <1>3. CASE Usable(status) /\ status.value = "UNKNOWN"
    <2>1. fee = UnknownFee(status_field, amount_field, required)
      BY <1>3 DEF Fee
    <2> QED
      BY <2>1 DEF UnknownFee, Open, NoFee, Issue
  <1>4. CASE Usable(status) /\ status.value = "INCLUDED"
    <2>1. fee = NoFee
      BY <1>4 DEF Fee
    <2> QED
      BY <2>1 DEF NoFee
  <1>5. CASE Usable(status) /\ status.value \in {"FREE", "NOT_APPLICABLE"}
    <2>1. fee = ZeroFee(quote, status_field, amount_field)
      BY <1>5 DEF Fee
    <2>2. \/ fee = NoFee
          \/ fee = Open({Issue("FIELD_CONFLICT", {amount_field})})
          \/ fee = Open({Issue("ZERO_FEE_STATUS_AMOUNT_CONFLICT",
                               {status_field, amount_field})})
      BY <2>1 DEF ZeroFee
    <2> QED
      BY <2>2 DEF NoFee, Open, Issue
  <1>6. CASE Usable(status) /\ status.value = "KNOWN_AMOUNT"
    <2>1. fee = IF Usable(amount)
                THEN [cost |-> RoundMoney(amount.value, 10), complete |-> TRUE,
                      issues |-> {}]
                ELSE Open(Require(quote, amount_field))
      BY <1>6 DEF Fee
    <2> QED
      BY <2>1, RequireFields DEF Open
  <1> QED
    BY <1>1, <1>2, <1>3, <1>4, <1>5, <1>6 DEF FeeStatuses

\* What it takes for a field of a quote to be open.
IsOpen(req, quote, day, field) ==
  /\ field \in SpecFields =>
       (Usable(quote[field]) => req.allow_substitutes /\ field \in IdentityFields)
  /\ field \in QuantityFields => CalculateQuantity(req, quote).pending # {}
  /\ field \in PriceFields => ~Usable(quote[field])
  /\ field = "currency" => ~Usable(quote[field]) \/ quote[field].value # req.currency
  /\ field \in ShippingFields => Shipping(quote).issues # {}
  /\ field \in OtherFields => Other(req, quote).issues # {}
  /\ field \in DeliveryFields => CheckDelivery(req, quote, day).arrival = None
  /\ field = "valid_until" => ~Usable(quote[field])

\* What the specification check asks about.
LEMMA SpecFieldsAsked ==
  ASSUME NEW req, NEW quote, NEW issue \in CheckSpecification(req, quote).pending,
         NEW field \in issue.fields
  PROVE  /\ field \in SpecFields
         /\ (Usable(quote[field]) => req.allow_substitutes /\ field \in IdentityFields)
  <1> DEFINE identity == Mismatches(req, quote) \cap IdentityFields
             review   == Issue("SUBSTITUTE_COMPATIBILITY_REVIEW_REQUIRED", identity)
  <1>1. \/ issue \in RequireAll(quote, SpecFields)
        \/ req.allow_substitutes /\ issue = review
    BY DEF CheckSpecification
  <1>2. CASE issue \in RequireAll(quote, SpecFields)
    BY <1>2, RequireAllFields
  <1>3. CASE req.allow_substitutes /\ issue = review
    BY <1>3 DEF Issue, IdentityFields, SpecFields
  <1> QED
    BY <1>1, <1>2, <1>3

\* What the quantity asks about.
LEMMA QuantityFieldsAsked ==
  ASSUME NEW req, NEW quote, NEW issue \in CalculateQuantity(req, quote).pending,
         NEW field \in issue.fields
  PROVE  field \in QuantityFields
  <1> DEFINE needed   == {"moq_quantity", "moq_unit", "order_multiple_units"}
             pack     == {"packaging_type", "units_per_pack"}
             mismatch == Issue("MOQ_PACKAGING_UNIT_MISMATCH", {"moq_unit"})
  <1>1. \/ issue \in RequireAll(quote, needed)
        \/ issue \in RequireAll(quote, pack)
        \/ issue = mismatch
    BY DEF CalculateQuantity
  <1>2. CASE issue \in RequireAll(quote, needed)
    BY <1>2, RequireAllFields DEF QuantityFields
  <1>3. CASE issue \in RequireAll(quote, pack)
    BY <1>3, RequireAllFields DEF QuantityFields
  <1>4. CASE issue = mismatch
    BY <1>4 DEF Issue, QuantityFields
  <1> QED
    BY <1>1, <1>2, <1>3, <1>4

\* What the cost asks about, and when it does.
LEMMA CostFieldsAsked ==
  ASSUME NEW req, IsRequirement(req), NEW quote, IsQuote(quote), NEW n,
         NEW issue \in CalculateCost(req, quote, n).pending, NEW field \in issue.fields
  PROVE  \/ field = "tax_mode"
         \/ /\ field = "currency"
            /\ ~Usable(quote[field]) \/ quote[field].value # req.currency
         \/ field \in PriceFields /\ ~Usable(quote[field])
         \/ field \in ShippingFields /\ Shipping(quote).issues # {}
         \/ field \in OtherFields /\ Other(req, quote).issues # {}
  <1>1. \/ issue \in CurrencyIssues(req, quote) \/ issue \in RequireAll(quote, PriceFields)
        \/ issue \in Shipping(quote).issues \/ issue \in Other(req, quote).issues
        \/ issue \in TaxIssues(req, quote)
    BY DEF CalculateCost, PriceFields, Shipping, Other
  <1>2. CASE issue \in CurrencyIssues(req, quote)
    BY <1>2, RequireFields DEF CurrencyIssues, Issue
  <1>3. CASE issue \in RequireAll(quote, PriceFields)
    BY <1>3, RequireAllFields
  <1>4. CASE issue \in Shipping(quote).issues
    <2>1. "shipping_fee_status" \in StatusFields /\ "shipping_fee_amount" \in AmountFields
      BY DEF StatusFields, AmountFields
    <2>2. issue.fields \subseteq ShippingFields
      BY <1>4, <2>1, FeeFieldsAsked DEF Shipping, ShippingFields
    <2> QED
      BY <1>4, <2>2
  <1>5. CASE issue \in Other(req, quote).issues
    <2>1. "other_fees_status" \in StatusFields /\ "other_fees_amount" \in AmountFields
      BY DEF StatusFields, AmountFields
    <2>2. req.other_fees_required \in BOOLEAN
      BY DEF IsRequirement
    <2>3. issue.fields \subseteq OtherFields
      BY <1>5, <2>1, <2>2, FeeFieldsAsked DEF Other, OtherFields
    <2> QED
      BY <1>5, <2>3
  <1>6. CASE issue \in TaxIssues(req, quote)
    BY <1>6, RequireFields DEF TaxIssues, Issue
  <1> QED
    BY <1>1, <1>2, <1>3, <1>4, <1>5, <1>6

\* What the delivery asks about: without an arrival, or about the validity.
LEMMA DeliveryFieldsAsked ==
  ASSUME NEW req, NEW quote, NEW day, NEW issue \in CheckDelivery(req, quote, day).pending,
         NEW field \in issue.fields
  PROVE  \/ /\ field \in DeliveryFields \cup {"planned_order_date"}
            /\ CheckDelivery(req, quote, day).arrival = None
         \/ field = "valid_until" /\ ~Usable(quote[field])
  <1> DEFINE unsupported == {f \in DOMAIN Supported :
                               Usable(quote[f]) /\ quote[f].value # Supported[f]}
             undated     == IF req.planned_order_date = None
                            THEN {Issue("PLANNED_ORDER_DATE_REQUIRED",
                                        {"planned_order_date"})} ELSE {}
             open        == RequireAll(quote, DeliveryFields) \cup undated
                            \cup {Issue("UNSUPPORTED", {f}) : f \in unsupported}
  <1>1. /\ CheckDelivery(req, quote, day).pending = open \cup Require(quote, "valid_until")
        /\ open # {} => CheckDelivery(req, quote, day).arrival = None
    BY DEF CheckDelivery
  <1>2. DOMAIN Supported \subseteq DeliveryFields
    BY DEF Supported, DeliveryFields
  <1>3. CASE issue \in RequireAll(quote, DeliveryFields)
    BY <1>1, <1>3, RequireAllFields
  <1>4. CASE issue \in undated
    BY <1>1, <1>4 DEF Issue
  <1>5. CASE issue \in {Issue("UNSUPPORTED", {f}) : f \in unsupported}
    BY <1>1, <1>2, <1>5 DEF Issue
  <1>6. CASE issue \in Require(quote, "valid_until")
    BY <1>6, RequireFields
  <1> QED
    BY <1>1, <1>3, <1>4, <1>5, <1>6

NotCounted == [pending |-> {}, goods |-> None, shipping |-> None, other |-> None,
               subtotal |-> None, total |-> None]

CostOf(req, quote) ==
  IF CalculateQuantity(req, quote).quantity # None
  THEN CalculateCost(req, quote, CalculateQuantity(req, quote).quantity)
  ELSE NotCounted

\* The parts of an evaluation.
LEMMA ResultSays ==
  ASSUME NEW req, NEW quote, NEW history, NEW day
  PROVE  LET evaluation   == EvaluateSupplier(req, quote, history, day)
             cost     == CostOf(req, quote)
             spec     == CheckSpecification(req, quote)
             delivery == CheckDelivery(req, quote, day)
         IN  /\ evaluation.status \in {"FEASIBLE", "PENDING", "INFEASIBLE"}
             /\ evaluation.status = "INFEASIBLE" <=>
                  \/ spec.failed # {} \/ delivery.failed # {}
                  \/ BudgetLowerBound(req, quote, cost) > req.budget_amount
             /\ evaluation.status = "FEASIBLE" => evaluation.pending = {}
             /\ evaluation.pending = Require(quote, "supplier_name") \cup spec.pending
                                 \cup CalculateQuantity(req, quote).pending
                                 \cup cost.pending \cup delivery.pending
             /\ evaluation.subtotal = cost.subtotal
             /\ evaluation.values.COST = cost.total
  <1> DEFINE evaluation   == EvaluateSupplier(req, quote, history, day)
             cost     == CostOf(req, quote)
             spec     == CheckSpecification(req, quote)
             delivery == CheckDelivery(req, quote, day)
             over     == BudgetLowerBound(req, quote, cost) > req.budget_amount
             failed   == spec.failed \cup delivery.failed \cup
                         IF over THEN {Issue("BUDGET_EXCEEDED", {"budget_amount"})} ELSE {}
             pending  == Require(quote, "supplier_name") \cup spec.pending
                         \cup CalculateQuantity(req, quote).pending
                         \cup cost.pending \cup delivery.pending
  <1>1. /\ evaluation.status = CASE failed # {} -> "INFEASIBLE"
                             [] failed = {} /\ pending # {} -> "PENDING"
                             [] OTHER -> "FEASIBLE"
        /\ evaluation.pending = pending /\ evaluation.subtotal = cost.subtotal
        /\ evaluation.values.COST = cost.total
    BY DEF EvaluateSupplier, CostOf, NotCounted
  <1>2. failed # {} <=> spec.failed # {} \/ delivery.failed # {} \/ over
    OBVIOUS
  <1> HIDE DEF evaluation, cost, spec, delivery, over, failed
  <1>3. /\ evaluation.status \in {"FEASIBLE", "PENDING", "INFEASIBLE"}
        /\ evaluation.status = "INFEASIBLE" <=> failed # {}
        /\ evaluation.status = "FEASIBLE" => evaluation.pending = {}
    BY <1>1
  <1>4. evaluation.status = "INFEASIBLE" <=> spec.failed # {} \/ delivery.failed # {} \/ over
    BY <1>2, <1>3
  <1> QED
    BY <1>1, <1>3, <1>4 DEF evaluation, cost, spec, delivery, over

\* A field that some issue is about is open for the reason of that issue.
LEMMA AskedIsOpen ==
  ASSUME NEW req, IsRequirement(req), NEW quote, IsQuote(quote), NEW history, NEW day,
         NEW issue \in EvaluateSupplier(req, quote, history, day).pending,
         NEW field \in issue.fields, field \in FactFields
  PROVE  IsOpen(req, quote, day, field)
  <1> DEFINE cost == CostOf(req, quote)
  <1> USE DEF IsOpen, SpecFields, QuantityFields, PriceFields, ShippingFields, OtherFields,
              DeliveryFields, IdentityFields
  <1>1. \/ issue \in Require(quote, "supplier_name")
        \/ issue \in CheckSpecification(req, quote).pending
        \/ issue \in CalculateQuantity(req, quote).pending
        \/ issue \in cost.pending
        \/ issue \in CheckDelivery(req, quote, day).pending
    BY ResultSays
  <1>2. CASE issue \in Require(quote, "supplier_name")
    BY <1>2, RequireFields
  <1>3. CASE issue \in CheckSpecification(req, quote).pending
    BY <1>3, SpecFieldsAsked
  <1>4. CASE issue \in CalculateQuantity(req, quote).pending
    BY <1>4, QuantityFieldsAsked
  <1>5. CASE issue \in cost.pending
    <2>1. cost = CalculateCost(req, quote, CalculateQuantity(req, quote).quantity)
      BY <1>5 DEF CostOf, NotCounted
    <2> HIDE DEF cost
    <2> QED
      BY <1>5, <2>1, CostFieldsAsked
  <1>6. CASE issue \in CheckDelivery(req, quote, day).pending
    BY <1>6, DeliveryFieldsAsked
  <1> QED
    BY <1>1, <1>2, <1>3, <1>4, <1>5, <1>6

\* Two sheets that differ in one field.
DifferIn(quote, other, field) ==
  \A g \in FactFields \cup TermFields : g # field => other[g] = quote[g]

\* What does not look at the field comes out the same.
LEMMA SameRequired ==
  ASSUME NEW quote, NEW other, NEW fields, \A g \in fields : other[g] = quote[g]
  PROVE  RequireAll(other, fields) = RequireAll(quote, fields)
  <1>1. \A g \in fields : Require(other, g) = Require(quote, g)
    BY DEF Require
  <1>2. {Require(other, g) : g \in fields} = {Require(quote, g) : g \in fields}
    BY <1>1
  <1> QED
    BY <1>2 DEF RequireAll

\* The quantity does not look at other fields than its own.
LEMMA SameQuantity ==
  ASSUME NEW req, NEW quote, NEW other, NEW field, DifferIn(quote, other, field),
         field \notin QuantityFields
  PROVE  /\ CalculateQuantity(req, other) = CalculateQuantity(req, quote)
         /\ MinimumOrder(req, other) = MinimumOrder(req, quote)
  <1>1. \A g \in QuantityFields : other[g] = quote[g]
    BY DEF DifferIn, QuantityFields, FactFields, CountFields
  <1>2. MinimumOrder(req, other) = MinimumOrder(req, quote)
    BY <1>1 DEF MinimumOrder, QuantityFields
  <1>3. \A fields \in SUBSET QuantityFields :
          RequireAll(other, fields) = RequireAll(quote, fields)
    BY <1>1, SameRequired
  <1>4. /\ RequireAll(other, {"moq_quantity", "moq_unit", "order_multiple_units"})
             = RequireAll(quote, {"moq_quantity", "moq_unit", "order_multiple_units"})
        /\ RequireAll(other, {"packaging_type", "units_per_pack"})
             = RequireAll(quote, {"packaging_type", "units_per_pack"})
    BY <1>3 DEF QuantityFields
  <1>5. /\ other.moq_unit = quote.moq_unit /\ other.packaging_type = quote.packaging_type
        /\ other.order_multiple_units = quote.order_multiple_units
    BY <1>1 DEF QuantityFields
  <1>6. CalculateQuantity(req, other) = CalculateQuantity(req, quote)
    BY <1>2, <1>4, <1>5 DEF CalculateQuantity
  <1> QED
    BY <1>2, <1>6

\* The delivery does not look at other fields than its own.
LEMMA SameDelivery ==
  ASSUME NEW req, NEW quote, NEW other, NEW day, NEW field, DifferIn(quote, other, field),
         field \notin DeliveryFields \cup {"valid_until"}
  PROVE  CheckDelivery(req, other, day) = CheckDelivery(req, quote, day)
  <1>1. \A g \in DeliveryFields \cup {"valid_until"} : other[g] = quote[g]
    BY DEF DifferIn, DeliveryFields, FactFields
  <1>2. RequireAll(other, DeliveryFields) = RequireAll(quote, DeliveryFields)
    BY <1>1, SameRequired
  <1>3. Require(other, "valid_until") = Require(quote, "valid_until")
    BY <1>1 DEF Require
  <1>4. {f \in DOMAIN Supported : Usable(other[f]) /\ other[f].value # Supported[f]}
          = {f \in DOMAIN Supported : Usable(quote[f]) /\ quote[f].value # Supported[f]}
    BY <1>1 DEF Supported, DeliveryFields
  <1>5. /\ other.lead_time_days = quote.lead_time_days
        /\ other.valid_until = quote.valid_until
    BY <1>1 DEF DeliveryFields
  <1> QED
    BY <1>2, <1>3, <1>4, <1>5 DEF CheckDelivery

\* A fee looks at its status and its amount only.
LEMMA SameFee ==
  ASSUME NEW quote, NEW other, NEW status_field, NEW amount_field, NEW required,
         other[status_field] = quote[status_field],
         other[amount_field] = quote[amount_field]
  PROVE  Fee(other, status_field, amount_field, required)
           = Fee(quote, status_field, amount_field, required)
  BY DEF Fee, ZeroFee, Require

\* A fee that is open counts nothing, so an answer can only add to it.
LEMMA FeeGrows ==
  ASSUME NEW quote, IsQuote(quote), NEW other, IsQuote(other),
         NEW field, DifferIn(quote, other, field),
         NEW status_field \in StatusFields, NEW amount_field \in AmountFields,
         NEW required \in BOOLEAN,
         field \in {status_field, amount_field} =>
           Fee(quote, status_field, amount_field, required).issues # {}
  PROVE  LET old == Larger(Fee(quote, status_field, amount_field, required).cost, 0)
             new == Larger(Fee(other, status_field, amount_field, required).cost, 0)
         IN  old \in Nat /\ new \in Nat /\ new >= old
  <1> DEFINE old == Fee(quote, status_field, amount_field, required)
             new == Fee(other, status_field, amount_field, required)
  <1>1. old.cost \in Nat \cup {None} /\ new.cost \in Nat \cup {None}
    BY FeeSays
  <1>2. Larger(old.cost, 0) \in Nat /\ Larger(new.cost, 0) \in Nat
    BY <1>1 DEF Larger, None
  <1>3. CASE field \in {status_field, amount_field}
    <2>1. old.cost = None
      BY <1>3, FeeFieldsAsked
    <2> HIDE DEF old, new
    <2>2. Larger(old.cost, 0) = 0
      BY <2>1 DEF Larger, None
    <2>3. Larger(new.cost, 0) >= Larger(old.cost, 0)
      BY <1>2, <2>2
    <2> QED
      BY <1>2, <2>3 DEF old, new
  <1>4. CASE field \notin {status_field, amount_field}
    <2>1. /\ other[status_field] = quote[status_field]
          /\ other[amount_field] = quote[amount_field]
      BY <1>4 DEF DifferIn, FactFields, FeeFields
    <2>2. new = old
      BY <2>1, SameFee
    <2> QED
      BY <1>2, <2>2
  <1> QED
    BY <1>3, <1>4

\* An answer to an open field leaves what is known of the cost, and adds to it.
CostGrows(old, new) ==
  /\ new.goods = old.goods /\ old.goods \in Nat
  /\ Larger(old.shipping, 0) \in Nat /\ Larger(new.shipping, 0) >= Larger(old.shipping, 0)
  /\ Larger(old.other, 0) \in Nat /\ Larger(new.other, 0) >= Larger(old.other, 0)
  /\ Larger(new.shipping, 0) \in Nat /\ Larger(new.other, 0) \in Nat
  /\ old.subtotal = old.goods + Larger(old.shipping, 0) + Larger(old.other, 0)
  /\ new.subtotal = new.goods + Larger(new.shipping, 0) + Larger(new.other, 0)

\* The cost that is computed once the quantity is known.
LEMMA CountedCost ==
  ASSUME NEW req, IsRequirement(req), NEW quote, IsQuote(quote),
         CostOf(req, quote).goods # None
  PROVE  /\ CalculateQuantity(req, quote).pending = {}
         /\ CalculateQuantity(req, quote).quantity \in Nat \ {0}
         /\ CalculateQuantity(req, quote).quantity # None
         /\ CostOf(req, quote)
              = CalculateCost(req, quote, CalculateQuantity(req, quote).quantity)
         /\ RequireAll(quote, PriceFields) = {}
         /\ CostOf(req, quote).goods \in Nat
  <1> DEFINE ordered == CalculateQuantity(req, quote)
  <1>1. CostOf(req, quote) = CalculateCost(req, quote, ordered.quantity)
        /\ ordered.quantity # None
    BY DEF CostOf, NotCounted
  <1>2. ordered.pending = {} /\ ordered.quantity \in Nat \ {0}
    BY <1>1, QuantitySays
  <1>3. RequireAll(quote, PriceFields) = {}
    BY <1>1 DEF CalculateCost, PriceFields
  <1>4. CostOf(req, quote).goods \in Nat \cup {None}
    BY <1>1, <1>2, CostSays
  <1> QED
    BY <1>1, <1>2, <1>3, <1>4

\* What is known of the cost stays, and what is answered adds to it.
LEMMA AnswerAddsCost ==
  ASSUME NEW req, IsRequirement(req), NEW quote, IsQuote(quote), NEW other, IsQuote(other),
         NEW day, NEW field, DifferIn(quote, other, field),
         IsOpen(req, quote, day, field), CostOf(req, quote).goods # None
  PROVE  CostGrows(CostOf(req, quote), CostOf(req, other))
  <1> DEFINE n    == CalculateQuantity(req, quote).quantity
             old  == CalculateCost(req, quote, n)
             new  == CalculateCost(req, other, n)
  <1>1. /\ CalculateQuantity(req, quote).pending = {} /\ n # None
        /\ CostOf(req, quote) = old /\ RequireAll(quote, PriceFields) = {}
        /\ old.goods \in Nat
    BY CountedCost
  <1>2. field \notin QuantityFields
    BY <1>1 DEF IsOpen
  <1>3. CalculateQuantity(req, other) = CalculateQuantity(req, quote)
    BY <1>2, SameQuantity
  <1>4. CostOf(req, other) = new
    BY <1>1, <1>3 DEF CostOf
  <1>5. \A g \in PriceFields : Usable(quote[g])
    BY <1>1, RequireAllSays
  <1>6. field \notin PriceFields
    BY <1>5 DEF IsOpen
  <1>7. \A g \in PriceFields : other[g] = quote[g]
    BY <1>6 DEF DifferIn, PriceFields, FactFields, CountFields
  <1>8. RequireAll(other, PriceFields) = RequireAll(quote, PriceFields)
    BY <1>7, SameRequired
  <1>9. /\ other.unit_price = quote.unit_price
        /\ other.price_basis_quantity = quote.price_basis_quantity
    BY <1>7 DEF PriceFields
  <1>10. /\ old.goods = RoundMoney(n * quote.unit_price.value,
                                   10 * quote.price_basis_quantity.value)
         /\ new.goods = RoundMoney(n * other.unit_price.value,
                                   10 * other.price_basis_quantity.value)
    BY <1>1, <1>8 DEF CalculateCost, PriceFields
  <1>11. new.goods = old.goods
    BY <1>9, <1>10
  <1>12. /\ old.shipping = Shipping(quote).cost /\ old.other = Other(req, quote).cost
         /\ new.shipping = Shipping(other).cost /\ new.other = Other(req, other).cost
         /\ old.subtotal = IF old.goods = None THEN None
              ELSE old.goods + Larger(old.shipping, 0) + Larger(old.other, 0)
         /\ new.subtotal = IF new.goods = None THEN None
              ELSE new.goods + Larger(new.shipping, 0) + Larger(new.other, 0)
    BY DEF CalculateCost, Shipping, Other
  <1>13. old.goods # None
    BY <1>1 DEF None
  <1>14. /\ Larger(Shipping(quote).cost, 0) \in Nat /\ Larger(Shipping(other).cost, 0) \in Nat
         /\ Larger(Shipping(other).cost, 0) >= Larger(Shipping(quote).cost, 0)
    <2>1. "shipping_fee_status" \in StatusFields /\ "shipping_fee_amount" \in AmountFields
      BY DEF StatusFields, AmountFields
    <2>2. field \in {"shipping_fee_status", "shipping_fee_amount"}
            => Shipping(quote).issues # {}
      BY DEF IsOpen, ShippingFields
    <2> QED
      BY <2>1, <2>2, FeeGrows DEF Shipping
  <1>15. /\ Larger(Other(req, quote).cost, 0) \in Nat
         /\ Larger(Other(req, other).cost, 0) \in Nat
         /\ Larger(Other(req, other).cost, 0) >= Larger(Other(req, quote).cost, 0)
    <2>1. "other_fees_status" \in StatusFields /\ "other_fees_amount" \in AmountFields
      BY DEF StatusFields, AmountFields
    <2>2. field \in {"other_fees_status", "other_fees_amount"}
            => Other(req, quote).issues # {}
      BY DEF IsOpen, OtherFields
    <2>3. req.other_fees_required \in BOOLEAN
      BY DEF IsRequirement
    <2> QED
      BY <2>1, <2>2, <2>3, FeeGrows DEF Other
  <1> HIDE DEF old, new, n
  <1>16. CostGrows(old, new)
    BY <1>1, <1>11, <1>12, <1>13, <1>14, <1>15 DEF CostGrows
  <1> QED
    BY <1>1, <1>4, <1>16

\* A question about the currency is asked by the check of the currency.
LEMMA CurrencyAsked ==
  ASSUME NEW req, IsRequirement(req), NEW quote, IsQuote(quote), NEW history, NEW day,
         NEW issue \in EvaluateSupplier(req, quote, history, day).pending,
         "currency" \in issue.fields
  PROVE  issue \in CurrencyIssues(req, quote)
  <1> DEFINE cost == CostOf(req, quote)
  <1>1. \/ issue \in Require(quote, "supplier_name")
        \/ issue \in CheckSpecification(req, quote).pending
        \/ issue \in CalculateQuantity(req, quote).pending
        \/ issue \in cost.pending
        \/ issue \in CheckDelivery(req, quote, day).pending
    BY ResultSays
  <1>2. issue \notin Require(quote, "supplier_name")
    BY RequireFields
  <1>3. issue \notin CheckSpecification(req, quote).pending
    BY SpecFieldsAsked DEF SpecFields
  <1>4. issue \notin CalculateQuantity(req, quote).pending
    BY QuantityFieldsAsked DEF QuantityFields
  <1>5. issue \notin CheckDelivery(req, quote, day).pending
    BY DeliveryFieldsAsked DEF DeliveryFields
  <1>6. CASE issue \in cost.pending
    <2> DEFINE n == CalculateQuantity(req, quote).quantity
    <2>1. issue \in CalculateCost(req, quote, n).pending
      BY <1>6 DEF CostOf, NotCounted
    <2>2. \/ issue \in CurrencyIssues(req, quote) \/ issue \in RequireAll(quote, PriceFields)
          \/ issue \in Shipping(quote).issues \/ issue \in Other(req, quote).issues
          \/ issue \in TaxIssues(req, quote)
      BY <2>1 DEF CalculateCost, PriceFields, Shipping, Other
    <2>3. issue \notin RequireAll(quote, PriceFields)
      BY RequireAllFields DEF PriceFields
    <2>4. issue \notin Shipping(quote).issues
      <3>1. "shipping_fee_status" \in StatusFields /\ "shipping_fee_amount" \in AmountFields
        BY DEF StatusFields, AmountFields
      <3>2. \A i \in Shipping(quote).issues : i.fields \subseteq ShippingFields
        BY <3>1, FeeFieldsAsked DEF Shipping, ShippingFields
      <3> QED
        BY <3>2 DEF ShippingFields
    <2>5. issue \notin Other(req, quote).issues
      <3>1. "other_fees_status" \in StatusFields /\ "other_fees_amount" \in AmountFields
        BY DEF StatusFields, AmountFields
      <3>2. req.other_fees_required \in BOOLEAN
        BY DEF IsRequirement
      <3>3. \A i \in Other(req, quote).issues : i.fields \subseteq OtherFields
        BY <3>1, <3>2, FeeFieldsAsked DEF Other, OtherFields
      <3> QED
        BY <3>3 DEF OtherFields
    <2>6. issue \notin TaxIssues(req, quote)
      BY RequireFields DEF TaxIssues, Issue
    <2> QED
      BY <2>2, <2>3, <2>4, <2>5, <2>6
  <1> QED
    BY <1>1, <1>2, <1>3, <1>4, <1>5, <1>6

\* The answer raises nothing but questions about fees that are missing.
NothingUncovered(old, new) ==
  \A issue \in new.pending \ old.pending : issue.code \in MissingFeeCodes

\* A quote that fails has failed for good: an answer to an open field does not
\* touch what it failed for.
LEMMA InfeasibleStays ==
  ASSUME NEW req, IsRequirement(req), NEW quote, IsQuote(quote), NEW other, IsQuote(other),
         NEW history, NEW day, NEW field \in FactFields, DifferIn(quote, other, field),
         IsOpen(req, quote, day, field),
         NothingUncovered(EvaluateSupplier(req, quote, history, day),
                          EvaluateSupplier(req, other, history, day)),
         EvaluateSupplier(req, quote, history, day).status = "INFEASIBLE"
  PROVE  EvaluateSupplier(req, other, history, day).status = "INFEASIBLE"
  <1> DEFINE old  == EvaluateSupplier(req, quote, history, day)
             new  == EvaluateSupplier(req, other, history, day)
             cost == CostOf(req, quote)
             next == CostOf(req, other)
             over == BudgetLowerBound(req, quote, cost) > req.budget_amount
  <1>1. \/ CheckSpecification(req, quote).failed # {}
        \/ CheckDelivery(req, quote, day).failed # {}
        \/ over
    BY ResultSays
  <1>2. CASE CheckSpecification(req, quote).failed # {}
    <2>1. PICK g : /\ g \in Mismatches(req, quote)
                   /\ req.allow_substitutes => g \notin IdentityFields
      BY <1>2 DEF CheckSpecification
    <2>2. g \in SpecFields /\ Usable(quote[g]) /\ g # field
      BY <2>1 DEF Mismatches, IsOpen
    <2>3. other[g] = quote[g]
      BY <2>2 DEF DifferIn, SpecFields, FactFields
    <2>4. g \in Mismatches(req, other)
      BY <2>1, <2>2, <2>3 DEF Mismatches
    <2>5. Issue("MISMATCH", {g}) \in CheckSpecification(req, other).failed
      BY <2>1, <2>4 DEF CheckSpecification
    <2> QED
      BY <2>5, ResultSays
  <1>3. CASE CheckDelivery(req, quote, day).failed # {}
    <2> DEFINE arrival == CheckDelivery(req, quote, day).arrival
               valid   == quote["valid_until"]
               Expired(v) == Usable(v) /\ (day > v.value \/ req.planned_order_date > v.value)
    <2>1. \/ arrival # None /\ arrival > req.delivery_deadline
          \/ Expired(valid)
      BY <1>3 DEF CheckDelivery
    <2>2. CASE arrival # None /\ arrival > req.delivery_deadline
      <3>1. field \notin DeliveryFields
        BY <2>2 DEF IsOpen
      <3>2. CheckDelivery(req, other, day).arrival = arrival
        <4>1. \A g \in DeliveryFields : other[g] = quote[g]
          BY <3>1 DEF DifferIn, DeliveryFields, FactFields
        <4>2. RequireAll(other, DeliveryFields) = RequireAll(quote, DeliveryFields)
          BY <4>1, SameRequired
        <4>3. {f \in DOMAIN Supported : Usable(other[f]) /\ other[f].value # Supported[f]}
              = {f \in DOMAIN Supported : Usable(quote[f]) /\ quote[f].value # Supported[f]}
          BY <4>1 DEF Supported, DeliveryFields
        <4>4. other.lead_time_days = quote.lead_time_days
          BY <4>1 DEF DeliveryFields
        <4> QED
          BY <4>2, <4>3, <4>4 DEF CheckDelivery
      <3>3. CheckDelivery(req, other, day).failed # {}
        BY <2>2, <3>2 DEF CheckDelivery
      <3> QED
        BY <3>3, ResultSays
    <2>3. CASE Expired(valid)
      <3>1. field # "valid_until"
        BY <2>3 DEF IsOpen
      <3>2. other["valid_until"] = valid
        BY <3>1 DEF DifferIn, FactFields
      <3>3. Expired(other["valid_until"])
        BY <2>3, <3>2
      <3>4. CheckDelivery(req, other, day).failed # {}
        BY <3>3 DEF CheckDelivery
      <3> QED
        BY <3>4, ResultSays
    <2> QED
      BY <2>1, <2>2, <2>3
  <1>4. CASE over
    <2>1. /\ cost.goods # None /\ req.budget_amount \in Nat
          /\ ~(Usable(quote.currency) /\ quote.currency.value # req.currency)
      BY <1>4 DEF BudgetLowerBound, IsRequirement, None
    <2>2. CostGrows(cost, next)
      BY <2>1, AnswerAddsCost
    <2>3. ~(Usable(other.currency) /\ other.currency.value # req.currency)
      <3>1. CASE field # "currency"
        BY <2>1, <3>1 DEF DifferIn, FactFields
      <3>2. CASE field = "currency"
        <4> SUFFICES ASSUME Usable(other.currency), other.currency.value # req.currency
                     PROVE  FALSE
          OBVIOUS
        <4> DEFINE issue == Issue("CURRENCY_MISMATCH", {"currency"})
        <4>1. ~Usable(quote["currency"])
          BY <2>1, <3>2 DEF IsOpen
        <4>2. issue \in CurrencyIssues(req, other)
          BY DEF CurrencyIssues
        <4>3. /\ CalculateQuantity(req, other) = CalculateQuantity(req, quote)
              /\ CalculateQuantity(req, quote).quantity # None
          BY <2>1, <3>2, CountedCost, SameQuantity DEF QuantityFields
        <4>4. issue \in next.pending
          BY <4>2, <4>3 DEF CostOf, CalculateCost
        <4>5. issue \in new.pending
          BY <4>4, ResultSays
        <4>6. issue.code = "CURRENCY_MISMATCH" /\ "currency" \in issue.fields
          BY DEF Issue
        <4>7. issue \notin old.pending
          <5> SUFFICES ASSUME issue \in old.pending PROVE FALSE
            OBVIOUS
          <5>1. issue \in CurrencyIssues(req, quote)
            BY <4>6, CurrencyAsked
          <5>2. issue = Issue(UnusableCodes[quote["currency"].is], {"currency"})
            BY <4>1, <5>1 DEF CurrencyIssues, Require
          <5>3. quote["currency"].is \in DOMAIN UnusableCodes
            BY <4>1, <3>2 DEF IsQuote, IsFact
          <5>4. UnusableCodes[quote["currency"].is] # "CURRENCY_MISMATCH"
            BY <5>3 DEF UnusableCodes
          <5> QED
            BY <4>6, <5>2, <5>4 DEF Issue
        <4> HIDE DEF issue, old, new
        <4> QED
          BY <4>5, <4>6, <4>7 DEF NothingUncovered, MissingFeeCodes, old, new
      <3> QED
        BY <3>1, <3>2
    <2> HIDE DEF cost, next
    <2>4. /\ cost.goods # None /\ next.goods # None
          /\ cost.goods \in Nat /\ next.goods = cost.goods
      BY <2>1, <2>2 DEF CostGrows
    <2>5. /\ BudgetLowerBound(req, quote, cost)
               = cost.goods + (IF req.includes_shipping THEN Larger(cost.shipping, 0) ELSE 0)
                            + Larger(cost.other, 0)
          /\ BudgetLowerBound(req, other, next)
               = next.goods + (IF req.includes_shipping THEN Larger(next.shipping, 0) ELSE 0)
                            + Larger(next.other, 0)
      BY <2>1, <2>3, <2>4 DEF BudgetLowerBound
    <2>6. BudgetLowerBound(req, other, next) >= BudgetLowerBound(req, quote, cost)
      BY <2>2, <2>4, <2>5 DEF CostGrows
    <2>7. /\ BudgetLowerBound(req, other, next) \in Int
          /\ BudgetLowerBound(req, quote, cost) \in Int
      BY <2>2, <2>4, <2>5 DEF CostGrows
    <2>8. BudgetLowerBound(req, other, next) > req.budget_amount
      BY <1>4, <2>1, <2>6, <2>7 DEF cost
    <2> QED
      BY <2>8, ResultSays DEF next
  <1> QED
    BY <1>1, <1>2, <1>3, <1>4

\* The specification check does not look at other fields than its own.
LEMMA SameSpecification ==
  ASSUME NEW req, NEW quote, NEW other, NEW field, DifferIn(quote, other, field),
         field \notin SpecFields
  PROVE  CheckSpecification(req, other) = CheckSpecification(req, quote)
  <1>1. \A g \in SpecFields : other[g] = quote[g]
    BY DEF DifferIn, SpecFields, FactFields
  <1>2. RequireAll(other, SpecFields) = RequireAll(quote, SpecFields)
    BY <1>1, SameRequired
  <1>3. Mismatches(req, other) = Mismatches(req, quote)
    BY <1>1 DEF Mismatches
  <1> QED
    BY <1>2, <1>3 DEF CheckSpecification

\* Only fees that are missing are open, and what is known is a number.
OnlyFeesOpen(evaluation) ==
  \A issue \in evaluation.pending :
    issue.code \in MissingFeeCodes /\ issue.fields \subseteq FeeFields

\* An answer about a missing fee leaves only missing fees, and can only add to
\* the cost of the quote.
LEMMA PendingStaysBehind ==
  ASSUME NEW req, IsRequirement(req), NEW quote, IsQuote(quote), NEW other, IsQuote(other),
         NEW history, NEW day, NEW field \in FactFields, DifferIn(quote, other, field),
         OnlyFeesOpen(EvaluateSupplier(req, quote, history, day)),
         EvaluateSupplier(req, quote, history, day).subtotal # None,
         NEW asked \in EvaluateSupplier(req, quote, history, day).pending,
         field \in asked.fields,
         NothingUncovered(EvaluateSupplier(req, quote, history, day),
                          EvaluateSupplier(req, other, history, day))
  PROVE  LET old == EvaluateSupplier(req, quote, history, day)
             new == EvaluateSupplier(req, other, history, day)
         IN  /\ old.subtotal \in Nat /\ new.subtotal \in Nat
             /\ new.subtotal >= old.subtotal
             /\ OnlyFeesOpen(new)
             /\ new.status = "FEASIBLE" => new.values.COST = new.subtotal
  <1> DEFINE old  == EvaluateSupplier(req, quote, history, day)
             new  == EvaluateSupplier(req, other, history, day)
             cost == CostOf(req, quote)
             next == CostOf(req, other)
             n    == CalculateQuantity(req, quote).quantity
  <1>1. field \in FeeFields
    BY DEF OnlyFeesOpen
  <1>2. field \notin SpecFields \cup QuantityFields \cup PriceFields \cup DeliveryFields
                     \cup {"supplier_name", "currency", "tax_mode", "valid_until"}
    BY <1>1 DEF FeeFields, StatusFields, AmountFields, SpecFields, QuantityFields,
                PriceFields, DeliveryFields
  <1>3. IsOpen(req, quote, day, field)
    BY AskedIsOpen
  <1>4. old.subtotal = cost.subtotal /\ new.subtotal = next.subtotal
    BY ResultSays
  <1>5. cost.goods # None
    BY <1>4 DEF CostOf, CalculateCost, NotCounted
  <1>6. CostGrows(cost, next)
    BY <1>3, <1>5, AnswerAddsCost
  <1>7. old.subtotal \in Nat /\ new.subtotal \in Nat /\ new.subtotal >= old.subtotal
    <2> HIDE DEF cost, next, old, new
    <2> QED
      BY <1>4, <1>6 DEF CostGrows
  <1>8. /\ CalculateQuantity(req, other) = CalculateQuantity(req, quote)
        /\ n # None /\ cost = CalculateCost(req, quote, n)
    BY <1>2, <1>5, CountedCost, SameQuantity
  <1>9. next = CalculateCost(req, other, n)
    BY <1>8 DEF CostOf
  <1>10. next.total = IF next.pending = {} THEN next.subtotal ELSE None
    BY <1>9 DEF CalculateCost
  <1>11. new.status = "FEASIBLE" => new.values.COST = new.subtotal
    <2>1. new.status = "FEASIBLE" => next.pending = {}
      BY ResultSays
    <2>2. new.values.COST = next.total
      BY ResultSays
    <2> HIDE DEF new, next
    <2> QED
      BY <1>4, <1>10, <2>1, <2>2
  <1>12. /\ old.pending = Require(quote, "supplier_name")
              \cup CheckSpecification(req, quote).pending
              \cup CalculateQuantity(req, quote).pending
              \cup cost.pending \cup CheckDelivery(req, quote, day).pending
         /\ new.pending = Require(other, "supplier_name")
              \cup CheckSpecification(req, other).pending
              \cup CalculateQuantity(req, other).pending
              \cup next.pending \cup CheckDelivery(req, other, day).pending
    BY ResultSays
  <1>13. /\ cost.pending = CurrencyIssues(req, quote) \cup RequireAll(quote, PriceFields)
              \cup Shipping(quote).issues \cup Other(req, quote).issues
              \cup TaxIssues(req, quote)
         /\ next.pending = CurrencyIssues(req, other) \cup RequireAll(other, PriceFields)
              \cup Shipping(other).issues \cup Other(req, other).issues
              \cup TaxIssues(req, other)
    BY <1>8, <1>9 DEF CalculateCost, Shipping, Other, PriceFields
  <1>14. /\ other["supplier_name"] = quote["supplier_name"]
         /\ other["currency"] = quote["currency"] /\ other["tax_mode"] = quote["tax_mode"]
         /\ \A g \in PriceFields : other[g] = quote[g]
    BY <1>2 DEF DifferIn, FactFields, PriceFields, CountFields
  <1>15. /\ Require(other, "supplier_name") = Require(quote, "supplier_name")
         /\ CheckSpecification(req, other).pending = CheckSpecification(req, quote).pending
         /\ CheckDelivery(req, other, day).pending = CheckDelivery(req, quote, day).pending
         /\ CurrencyIssues(req, other) = CurrencyIssues(req, quote)
         /\ TaxIssues(req, other) = TaxIssues(req, quote)
         /\ RequireAll(other, PriceFields) = RequireAll(quote, PriceFields)
    <2>1. CheckSpecification(req, other) = CheckSpecification(req, quote)
      BY <1>2, SameSpecification
    <2>2. CheckDelivery(req, other, day) = CheckDelivery(req, quote, day)
      BY <1>2, SameDelivery
    <2>3. RequireAll(other, PriceFields) = RequireAll(quote, PriceFields)
      BY <1>14, SameRequired
    <2>4. /\ Require(other, "supplier_name") = Require(quote, "supplier_name")
          /\ CurrencyIssues(req, other) = CurrencyIssues(req, quote)
          /\ TaxIssues(req, other) = TaxIssues(req, quote)
      BY <1>14 DEF Require, CurrencyIssues, TaxIssues
    <2> QED
      BY <2>1, <2>2, <2>3, <2>4
  <1> HIDE DEF old, new, cost, next, n
  <1>16. new.pending \subseteq old.pending \cup Shipping(other).issues
                               \cup Other(req, other).issues
    BY <1>8, <1>12, <1>13, <1>15
  <1>17. \A issue \in Shipping(other).issues \cup Other(req, other).issues :
           issue.fields \subseteq FeeFields
    <2>1. /\ "shipping_fee_status" \in StatusFields /\ "shipping_fee_amount" \in AmountFields
          /\ "other_fees_status" \in StatusFields /\ "other_fees_amount" \in AmountFields
      BY DEF StatusFields, AmountFields
    <2>2. req.other_fees_required \in BOOLEAN
      BY DEF IsRequirement
    <2>3. /\ \A i \in Shipping(other).issues :
               i.fields \subseteq {"shipping_fee_status", "shipping_fee_amount"}
          /\ \A i \in Other(req, other).issues :
               i.fields \subseteq {"other_fees_status", "other_fees_amount"}
      BY <2>1, <2>2, FeeFieldsAsked DEF Shipping, Other
    <2> QED
      BY <2>1, <2>3 DEF FeeFields
  <1>18. OnlyFeesOpen(new)
    BY <1>16, <1>17 DEF OnlyFeesOpen, NothingUncovered, old, new
  <1> QED
    BY <1>7, <1>11, <1>18 DEF old, new

-----------------------------------------------------------------------------
(* What a quote that stays behind does to the choice.                      *)

\* What is ranked alike comes out alike.
LEMMA SameRanking ==
  ASSUME NEW group, NEW results, NEW others, \A q \in group : others[q] = results[q],
         NEW criterion
  PROVE  /\ Best(group, others, criterion) = Best(group, results, criterion)
         /\ GroupIssue(group, others, criterion) <=> GroupIssue(group, results, criterion)
         /\ \A tolerance : First(group, others, criterion, tolerance)
                             = First(group, results, criterion, tolerance)
  <1>1. \A q \in group : Score(others[q], criterion) = Score(results[q], criterion)
    OBVIOUS
  <1>2. Best(group, others, criterion) = Best(group, results, criterion)
    BY <1>1 DEF Best
  <1>3. {others[q].payment_basis : q \in group} = {results[q].payment_basis : q \in group}
    OBVIOUS
  <1>4. GroupIssue(group, others, criterion) <=> GroupIssue(group, results, criterion)
    BY <1>3 DEF GroupIssue
  <1>5. \A tolerance : First(group, others, criterion, tolerance)
                         = First(group, results, criterion, tolerance)
    BY <1>2 DEF First
  <1> QED
    BY <1>2, <1>4, <1>5

\* When some quote comes first, some quote is selected.
LEMMA SelectionExists ==
  ASSUME NEW req, req.secondary \in Rankings, NEW first, first # {}, IsFiniteSet(first),
         NEW results, Valued(results, first)
  PROVE  /\ Selected(req, results, first) # {}
         /\ Selected(req, results, first) \subseteq first
  <1>1. CASE req.secondary = "none"
    BY <1>1 DEF Selected
  <1>2. CASE req.secondary # "none"
    <2>1. req.secondary \in Criteria
      BY <1>2 DEF Rankings
    <2>2. Best(first, results, req.secondary) # {}
      BY <2>1, BestExists
    <2> QED
      BY <2>2 DEF Selected, Best
  <1> QED
    BY <1>1, <1>2

\* The best cost that is known, as pending quotes are compared with it.
Cheapest(results, group) ==
  LET costs == {results[q].values.COST : q \in group} \ {None}
  IN  IF costs = {} THEN None ELSE CHOOSE c \in costs : \A d \in costs : c <= d

\* The cheapest known cost is the cost of some quote, and no cost is below it.
LEMMA CheapestSays ==
  ASSUME NEW group, IsFiniteSet(group), group # {}, NEW results,
         \A q \in group : results[q].values.COST \in Int \ {None}
  PROVE  /\ Cheapest(results, group) \in Int \ {None}
         /\ \E q \in group : results[q].values.COST = Cheapest(results, group)
         /\ \A q \in group : Cheapest(results, group) <= results[q].values.COST
  <1> DEFINE cost  == [q \in group |-> results[q].values.COST]
             costs == {results[q].values.COST : q \in group}
  <1>1. cost \in Surjection(group, costs)
    BY DEF Surjection
  <1>2. IsFiniteSet(costs)
    BY <1>1, FS_Surjection
  <1>3. costs # {} /\ costs \subseteq Int \ {None}
    OBVIOUS
  <1>4. costs \ {None} = costs
    BY <1>3
  <1>5. Cheapest(results, group) = CHOOSE c \in costs : \A d \in costs : c <= d
    BY <1>3, <1>4 DEF Cheapest
  <1>6. \A q \in group : results[q].values.COST \in costs
    OBVIOUS
  <1>7. \A c \in costs : \E q \in group : results[q].values.COST = c
    OBVIOUS
  <1> HIDE DEF costs
  <1>8. \E c \in costs : \A d \in costs : c <= d
    BY <1>2, <1>3, LeastExists
  <1>9. /\ Cheapest(results, group) \in costs
        /\ \A d \in costs : Cheapest(results, group) <= d
    BY <1>5, <1>8
  <1> QED
    BY <1>3, <1>6, <1>7, <1>9

\* Pending quotes hold a comparison up unless they cannot matter.
LEMMA BlockingSays ==
  ASSUME NEW req, NEW results, NEW pending, NEW group
  PROVE  Blocking(req, results, pending, group, None) = {} <=>
           \A q \in pending :
             /\ req.primary = "COST"
             /\ AssessImpact(req, results[q], Cheapest(results, group)) = "NON_BLOCKING"
  BY DEF Blocking, Cheapest

\* A pending quote does not matter when it lacks fees only and costs too much
\* already (decision_impact.py assess_quote_impact).
LEMMA ImpactSays ==
  ASSUME NEW req, req.primary = "COST", NEW evaluation, evaluation.status = "PENDING", NEW best
  PROVE  AssessImpact(req, evaluation, best) = "NON_BLOCKING" <=>
           /\ OnlyFeesOpen(evaluation) /\ evaluation.subtotal # None
           /\ best # None /\ evaluation.subtotal > best
  BY DEF AssessImpact, OnlyFeesOpen

\* One more quote that costs more than the cheapest is not chosen by cost.
LEMMA DearerIsBehind ==
  ASSUME NEW group, IsFiniteSet(group), group # {}, NEW q, q \notin group,
         NEW results, \A p \in group : results[p].values.COST \in Int \ {None},
         NEW others, \A p \in group : others[p] = results[p],
         others[q].values.COST \in Int \ {None},
         others[q].values.COST > Cheapest(results, group)
  PROVE  /\ Best(group \cup {q}, others, "COST") = Best(group, results, "COST")
         /\ ~GroupIssue(group \cup {q}, others, "COST")
         /\ Cheapest(others, group \cup {q}) = Cheapest(results, group)
  <1> DEFINE more == group \cup {q}
             best == Cheapest(results, group)
             Cost(p) == others[p].values.COST
  <1>1. /\ best \in Int \ {None}
        /\ \E p \in group : results[p].values.COST = best
        /\ \A p \in group : best <= results[p].values.COST
    BY CheapestSays
  <1> HIDE DEF best
  <1>2. PICK p \in group : Cost(p) = best
    BY <1>1
  <1>3. \A r \in group : best <= Cost(r) /\ Cost(r) \in Int \ {None}
    BY <1>1
  <1>4. Cost(q) > best /\ Cost(q) \in Int \ {None}
    BY DEF best
  <1>5. \A r \in more : best <= Cost(r) /\ Cost(r) \in Int \ {None}
    BY <1>1, <1>3, <1>4
  <1>6. \A r : Score(others[r], "COST") = Cost(r)
    BY DEF Score, Descending
  <1>7. Best(more, others, "COST") = Best(group, others, "COST")
    <2>1. q \notin Best(more, others, "COST")
      BY <1>2, <1>4, <1>6 DEF Best
    <2>2. \A r \in group : r \in Best(group, others, "COST") => Cost(r) = best
      BY <1>1, <1>2, <1>3, <1>6 DEF Best
    <2>3. \A r \in group : Cost(r) = best => r \in Best(more, others, "COST")
      BY <1>1, <1>5, <1>6 DEF Best
    <2>4. Best(more, others, "COST") \cap group \subseteq Best(group, others, "COST")
      BY DEF Best
    <2>5. /\ Best(more, others, "COST") \subseteq more
          /\ Best(group, others, "COST") \subseteq group
      BY DEF Best
    <2> QED
      BY <2>1, <2>2, <2>3, <2>4, <2>5
  <1>8. Best(group, others, "COST") = Best(group, results, "COST")
    BY SameRanking
  <1>9. ~GroupIssue(more, others, "COST")
    <2>1. \A r \in more : others[r].values["COST"] # None
      BY <1>5
    <2> QED
      BY <2>1 DEF GroupIssue
  <1>10. Cheapest(others, more) = best
    <2>1. IsFiniteSet(more) /\ more # {}
      BY FS_AddElement
    <2>2. /\ Cheapest(others, more) \in Int \ {None}
          /\ \E r \in more : Cost(r) = Cheapest(others, more)
          /\ \A r \in more : Cheapest(others, more) <= Cost(r)
      BY <1>5, <2>1, CheapestSays
    <2>3. best <= Cheapest(others, more)
      BY <1>5, <2>2
    <2>4. Cheapest(others, more) <= best
      BY <1>2, <2>2
    <2> QED
      BY <1>1, <2>2, <2>3, <2>4
  <1> QED
    BY <1>7, <1>8, <1>9, <1>10 DEF best

\* The cheapest cost is a matter of the quotes in the group.
LEMMA SameCheapest ==
  ASSUME NEW group, NEW results, NEW others, \A q \in group : others[q] = results[q]
  PROVE  Cheapest(others, group) = Cheapest(results, group)
  <1> DEFINE old == {results[q].values.COST : q \in group} \ {None}
             new == {others[q].values.COST : q \in group} \ {None}
             Least(costs) == IF costs = {} THEN None
                             ELSE CHOOSE c \in costs : \A d \in costs : c <= d
  <1>1. new = old
    OBVIOUS
  <1>2. Cheapest(others, group) = Least(new) /\ Cheapest(results, group) = Least(old)
    BY DEF Cheapest
  <1> HIDE DEF old, new, Least
  <1> QED
    BY <1>1, <1>2

\* The same quotes are recommended for the same reason.
SameChoice(req, results, others, in_scope, assessed) ==
  /\ Decides(req, others, in_scope, None, assessed)
  /\ Selected(req, others, First(Chosen(others, in_scope, assessed), others,
                                 req.primary, None))
       = Selected(req, results, First(Chosen(results, in_scope, assessed), results,
                                      req.primary, None))

\* The choice is the same when the same quotes come first and nothing waits.
LEMMA SameFirst ==
  ASSUME NEW req, NEW results, NEW others, NEW in_scope, NEW assessed,
         Decides(req, results, in_scope, None, assessed),
         \A p \in Chosen(results, in_scope, assessed) : others[p] = results[p],
         Having("FEASIBLE", Eligible(in_scope, assessed), others) # {},
         Blocking(req, others, Having("PENDING", Eligible(in_scope, assessed), others),
                  Chosen(others, in_scope, assessed), None) = {},
         ~GroupIssue(Chosen(others, in_scope, assessed), others, req.primary),
         First(Chosen(others, in_scope, assessed), others, req.primary, None)
           = First(Chosen(results, in_scope, assessed), results, req.primary, None)
  PROVE  SameChoice(req, results, others, in_scope, assessed)
  <1> DEFINE chosen == Chosen(results, in_scope, assessed)
             first  == First(chosen, results, req.primary, None)
             next   == First(Chosen(others, in_scope, assessed), others, req.primary, None)
  <1>1. first \subseteq chosen
    BY DEF First, Best
  <1>2. \A p \in first : others[p] = results[p]
    BY <1>1
  <1>3. next = first
    OBVIOUS
  <1> HIDE DEF first, next, chosen
  <1>4. /\ Best(first, others, req.secondary) = Best(first, results, req.secondary)
        /\ GroupIssue(first, others, req.secondary)
             <=> GroupIssue(first, results, req.secondary)
    BY <1>2, SameRanking
  <1>5. /\ Selected(req, others, first) = Selected(req, results, first)
        /\ Tied(req, others, first) <=> Tied(req, results, first)
    BY <1>4 DEF Selected, Tied
  <1>6. ~Tied(req, results, first) /\ AllVerified(assessed, Selected(req, results, first))
    BY DEF Decides, first, chosen
  <1>7. ~RankingIssue(req, None)
    BY DEF Decides
  <1>8. ~Tied(req, others, next) /\ AllVerified(assessed, Selected(req, others, next))
    BY <1>3, <1>5, <1>6
  <1>9. Decides(req, others, in_scope, None, assessed)
    BY <1>7, <1>8 DEF Decides, next
  <1> QED
    BY <1>3, <1>5, <1>9 DEF SameChoice, first, next, chosen

\* A pending quote that was passed over stays behind whatever is answered.
Behind(old, new) ==
  /\ old.status = "PENDING"
  /\ OnlyFeesOpen(old) /\ old.subtotal # None =>
       /\ old.subtotal \in Nat /\ new.subtotal \in Nat
       /\ new.subtotal >= old.subtotal
       /\ OnlyFeesOpen(new)
       /\ new.status = "FEASIBLE" => new.values.COST = new.subtotal

\* Another quote that fails, before and after, is as good as none.
LEMMA ExcludedStands ==
  ASSUME NEW req, NEW results, NEW others, NEW in_scope, NEW assessed,
         NEW q, \A p \in in_scope : p # q => others[p] = results[p],
         Decides(req, results, in_scope, None, assessed),
         q \in Eligible(in_scope, assessed) =>
           results[q].status = "INFEASIBLE" /\ others[q].status = "INFEASIBLE"
  PROVE  SameChoice(req, results, others, in_scope, assessed)
  <1> DEFINE eligible == Eligible(in_scope, assessed)
             feasible == Having("FEASIBLE", eligible, results)
             pending  == Having("PENDING", eligible, results)
             chosen   == Chosen(results, in_scope, assessed)
  <1>1. eligible \subseteq in_scope
    BY DEF Eligible
  <1>2. /\ Having("FEASIBLE", eligible, others) = feasible
        /\ Having("PENDING", eligible, others) = pending
        /\ q \notin feasible /\ q \notin pending
    BY <1>1 DEF Having
  <1>3. Chosen(others, in_scope, assessed) = chosen
    BY <1>2 DEF Chosen
  <1>4. chosen \subseteq feasible /\ feasible \subseteq in_scope /\ pending \subseteq in_scope
    BY <1>1, ChosenAre DEF Having
  <1>5. /\ \A p \in chosen : others[p] = results[p]
        /\ \A p \in pending : others[p] = results[p]
    BY <1>2, <1>4
  <1>6. Cheapest(others, chosen) = Cheapest(results, chosen)
    BY <1>5, SameCheapest
  <1>7. /\ feasible # {} /\ Blocking(req, results, pending, chosen, None) = {}
        /\ ~GroupIssue(chosen, results, req.primary)
    BY DEF Decides
  <1> HIDE DEF chosen, pending, feasible
  <1>8. Blocking(req, others, pending, chosen, None) = {}
    BY <1>5, <1>6, <1>7, BlockingSays
  <1>9. /\ ~GroupIssue(chosen, others, req.primary)
        /\ First(chosen, others, req.primary, None) = First(chosen, results, req.primary, None)
    BY <1>5, <1>7, SameRanking
  <1> QED
    BY <1>2, <1>3, <1>5, <1>7, <1>8, <1>9, SameFirst DEF chosen

\* A quote that stays behind is not chosen, and does not wait for anything.
LEMMA BehindStands ==
  ASSUME NEW req, req.primary \in Criteria, req.secondary \in Rankings,
         NEW in_scope, IsFiniteSet(in_scope), NEW results, Valued(results, in_scope),
         NEW others, NEW assessed, assessed.done \in BOOLEAN,
         NEW q \in Eligible(in_scope, assessed),
         \A p \in in_scope : p # q => others[p] = results[p],
         Decides(req, results, in_scope, None, assessed),
         Behind(results[q], others[q])
  PROVE  SameChoice(req, results, others, in_scope, assessed)
  <1> DEFINE eligible == Eligible(in_scope, assessed)
             feasible == Having("FEASIBLE", eligible, results)
             pending  == Having("PENDING", eligible, results)
             chosen   == Chosen(results, in_scope, assessed)
             feasible2 == Having("FEASIBLE", eligible, others)
             pending2  == Having("PENDING", eligible, others)
             chosen2   == Chosen(others, in_scope, assessed)
             first     == First(chosen, results, req.primary, None)
             best      == Cheapest(results, chosen)
  <1>1. eligible \subseteq in_scope /\ q \in eligible
    BY DEF Eligible
  <1>2. q \in pending /\ q \notin feasible
    BY DEF Having, Behind
  <1>3. /\ feasible # {} /\ Blocking(req, results, pending, chosen, None) = {}
        /\ ~GroupIssue(chosen, results, req.primary)
        /\ AllVerified(assessed, Selected(req, results, first))
    BY DEF Decides
  <1>4. \A p \in pending : AssessImpact(req, results[p], best) = "NON_BLOCKING"
    BY <1>3, BlockingSays
  <1>5. req.primary = "COST"
    BY <1>2, <1>3, BlockingSays
  <1>6. /\ OnlyFeesOpen(results[q]) /\ results[q].subtotal # None
        /\ best # None /\ results[q].subtotal > best
    BY <1>2, <1>4, <1>5, ImpactSays DEF Behind
  <1>7. /\ results[q].subtotal \in Nat /\ others[q].subtotal \in Nat
        /\ others[q].subtotal >= results[q].subtotal
        /\ OnlyFeesOpen(others[q])
        /\ others[q].status = "FEASIBLE" => others[q].values.COST = others[q].subtotal
    BY <1>6 DEF Behind
  <1>8. /\ chosen # {} /\ chosen \subseteq feasible /\ chosen \subseteq in_scope
        /\ IsFiniteSet(chosen)
    BY <1>3, ChosenExist, ChosenAre, FS_Subset
  <1>9. \A p \in chosen : results[p].values.COST \in Int \ {None}
    <2>1. "COST" \in Criteria
      BY DEF Criteria
    <2>2. \A p \in chosen : results[p].values["COST"] \in Int
      BY <1>8, <2>1 DEF Valued
    <2>3. \A p \in chosen : results[p].values["COST"] # None
      BY <1>3, <1>5 DEF GroupIssue
    <2> QED
      BY <2>2, <2>3
  <1>10. best \in Int
    BY <1>8, <1>9, CheapestSays
  <1>11. q \notin chosen /\ \A p \in chosen : others[p] = results[p]
    BY <1>2, <1>8
  <1>12. /\ feasible2 = IF others[q].status = "FEASIBLE" THEN feasible \cup {q} ELSE feasible
         /\ pending2 \subseteq pending
    BY <1>1, <1>2 DEF Having
  <1>13. \/ chosen2 = chosen
         \/ chosen2 = chosen \cup {q} /\ others[q].status = "FEASIBLE"
    <2> DEFINE Verified(group) == {p \in group : PolicyStatus(assessed, p) = "VERIFIED"}
    <2>1. /\ chosen = IF assessed.done /\ Verified(feasible) # {} THEN Verified(feasible)
                      ELSE feasible
          /\ chosen2 = IF assessed.done /\ Verified(feasible2) # {} THEN Verified(feasible2)
                       ELSE feasible2
      BY DEF Chosen, VerifiedFirst
    <2>2. assessed.done => Verified(feasible) # {}
      <3>1. first # {} /\ first \subseteq chosen /\ IsFiniteSet(first)
        <4>1. Valued(results, chosen)
          BY <1>8 DEF Valued
        <4> HIDE DEF chosen
        <4> QED
          BY <1>8, <4>1, FirstExists
      <3>2. Valued(results, first)
        BY <3>1, <1>8 DEF Valued
      <3> HIDE DEF first, chosen, feasible
      <3>3. Selected(req, results, first) # {} /\ Selected(req, results, first) \subseteq first
        BY <3>1, <3>2, SelectionExists
      <3> QED
        BY <1>3, <1>8, <3>1, <3>3 DEF AllVerified
    <2> HIDE DEF chosen, chosen2, feasible, feasible2
    <2>3. CASE ~assessed.done
      BY <1>12, <2>1, <2>3
    <2>4. CASE assessed.done
      <3>1. chosen = Verified(feasible) /\ Verified(feasible) \subseteq Verified(feasible2)
        BY <1>12, <2>1, <2>2, <2>4
      <3>2. chosen2 = Verified(feasible2)
        BY <2>1, <2>2, <2>4, <3>1
      <3> QED
        BY <1>12, <3>1, <3>2
    <2> QED
      BY <2>3, <2>4
  <1> HIDE DEF chosen, chosen2, feasible, feasible2, pending, pending2, first, best
  <1>14. /\ First(chosen2, others, req.primary, None)
              = First(chosen, results, req.primary, None)
         /\ ~GroupIssue(chosen2, others, req.primary)
         /\ Cheapest(others, chosen2) = best
    <2>1. CASE chosen2 = chosen
      <3>1. Cheapest(others, chosen) = Cheapest(results, chosen)
        BY <1>11, SameCheapest
      <3> QED
        BY <1>3, <1>11, <2>1, <3>1, SameRanking DEF best
    <2>2. CASE chosen2 = chosen \cup {q} /\ others[q].status = "FEASIBLE"
      <3>1. others[q].values.COST \in Int \ {None} /\ others[q].values.COST > best
        BY <1>6, <1>7, <1>10, <2>2 DEF None
      <3>2. /\ Best(chosen \cup {q}, others, "COST") = Best(chosen, results, "COST")
            /\ ~GroupIssue(chosen \cup {q}, others, "COST")
            /\ Cheapest(others, chosen \cup {q}) = best
        BY <1>8, <1>9, <1>11, <3>1, DearerIsBehind DEF best
      <3> QED
        BY <1>5, <2>2, <3>2 DEF First
    <2> QED
      BY <1>13, <2>1, <2>2
  <1>15. Blocking(req, others, pending2, chosen2, None) = {}
    <2>1. ASSUME NEW p \in pending2
          PROVE  AssessImpact(req, others[p], best) = "NON_BLOCKING"
      <3>1. p \in in_scope /\ others[p].status = "PENDING"
        BY <1>1 DEF pending2, Having
      <3>2. CASE p # q
        BY <1>4, <1>12, <3>1, <3>2
      <3>3. CASE p = q
        <4>1. others[q].subtotal > best /\ others[q].subtotal # None
          BY <1>6, <1>7, <1>10 DEF None
        <4> QED
          BY <1>5, <1>6, <1>7, <3>1, <3>3, <4>1, ImpactSays
      <3> QED
        BY <3>2, <3>3
    <2> QED
      BY <1>5, <1>14, <2>1, BlockingSays
  <1>16. feasible2 # {}
    BY <1>3, <1>12
  <1> QED
    BY <1>11, <1>14, <1>15, <1>16, SameFirst DEF chosen, chosen2, feasible2, pending2

\* The facts after an answer, and what the quotes come to with them.
LEMMA AnsweredFacts ==
  ASSUME InputsAccepted, NEW q \in Quotes, NEW field \in DOMAIN Answers,
         NEW value \in Answers[field]
  PROVE  LET answered == Answered(q, field, value)
         IN  /\ field \in FactFields
             /\ \A p \in Quotes : IsQuote(answered[p])
             /\ DifferIn(facts[q], answered[q], field)
             /\ \A p \in Quotes : p # q =>
                  Evaluations(requirement, answered, today)[p]
                    = Evaluations(requirement, facts, today)[p]
  <1> DEFINE fact     == [is |-> "VERIFIED", value |-> value, corrected |-> TRUE]
             sheet    == [facts[q] EXCEPT ![field] = fact]
             answered == [facts EXCEPT ![q] = sheet]
  <1>1. field \in FactFields /\ Accepts(field, value)
    BY QuotesAssumption
  <1>2. Answered(q, field, value) = answered
    BY DEF Answered
  <1>3. /\ DOMAIN facts = Quotes /\ \A p \in Quotes : IsQuote(facts[p])
    BY DEF InputsAccepted
  <1>4. IsQuote(sheet)
    BY <1>1, <1>3, AnsweredQuote
  <1>5. \A g : g # field => sheet[g] = facts[q][g]
    OBVIOUS
  <1>6. DifferIn(facts[q], sheet, field)
    BY <1>5 DEF DifferIn
  <1> HIDE DEF sheet
  <1>7. answered[q] = sheet /\ \A p \in Quotes : p # q => answered[p] = facts[p]
    BY <1>3
  <1> HIDE DEF answered
  <1>8. \A p \in Quotes : IsQuote(answered[p])
    BY <1>3, <1>4, <1>7
  <1>9. \A p \in Quotes : p # q => Evaluations(requirement, answered, today)[p]
                                     = Evaluations(requirement, facts, today)[p]
    BY <1>7 DEF Evaluations
  <1> QED
    BY <1>1, <1>2, <1>6, <1>7, <1>8, <1>9

\* An answer about a quote leaves it out if it fails, and behind if it waits.
LEMMA AnswerLeavesBehind ==
  ASSUME InputsAccepted, NEW q \in Quotes, NEW field \in DOMAIN Answers,
         NEW value \in Answers[field], field \in OpenFields(facts, q),
         ~Uncovers(Answered(q, field, value), q)
  PROVE  LET old == Evaluations(requirement, facts, today)[q]
             new == Evaluations(requirement, Answered(q, field, value), today)[q]
         IN  \/ old.status = "INFEASIBLE" /\ new.status = "INFEASIBLE"
             \/ Behind(old, new)
  <1> DEFINE quote == facts[q]
             other == Answered(q, field, value)[q]
             old   == EvaluateSupplier(requirement, quote, History[q], today)
             new   == EvaluateSupplier(requirement, other, History[q], today)
  <1>1. /\ field \in FactFields /\ IsQuote(other) /\ DifferIn(quote, other, field)
    BY AnsweredFacts
  <1>2. IsQuote(quote) /\ IsRequirement(requirement)
    BY DEF InputsAccepted
  <1>3. /\ Evaluations(requirement, facts, today)[q] = old
        /\ Evaluations(requirement, Answered(q, field, value), today)[q] = new
    BY DEF Evaluations
  <1>4. PICK asked \in old.pending : field \in asked.fields
    BY <1>3 DEF OpenFields
  <1>5. NothingUncovered(old, new)
    BY <1>3 DEF NothingUncovered, Uncovers
  <1>6. IsOpen(requirement, quote, today, field)
    BY <1>1, <1>2, <1>4, AskedIsOpen
  <1>7. /\ old.status \in {"FEASIBLE", "PENDING", "INFEASIBLE"}
        /\ old.status = "FEASIBLE" => old.pending = {}
    BY ResultSays
  <1>8. CASE old.status = "INFEASIBLE"
    <2>1. new.status = "INFEASIBLE"
      BY <1>1, <1>2, <1>5, <1>6, <1>8, InfeasibleStays
    <2> QED
      BY <1>3, <1>8, <2>1
  <1>9. CASE old.status = "PENDING"
    <2>1. ASSUME OnlyFeesOpen(old), old.subtotal # None
          PROVE  /\ old.subtotal \in Nat /\ new.subtotal \in Nat
                 /\ new.subtotal >= old.subtotal
                 /\ OnlyFeesOpen(new)
                 /\ new.status = "FEASIBLE" => new.values.COST = new.subtotal
      BY <1>1, <1>2, <1>4, <1>5, <2>1, PendingStaysBehind
    <2> HIDE DEF old, new
    <2>2. Behind(old, new)
      BY <1>9, <2>1 DEF Behind
    <2> QED
      BY <1>3, <2>2
  <1> HIDE DEF old, new
  <1> QED
    BY <1>4, <1>7, <1>8, <1>9

\* The comparison after the answer says what it said before.
LEMMA AnswerStands ==
  ASSUME InputsAccepted, Official.disposition = "RECOMMENDATION_AVAILABLE",
         Preferences.tolerance = None,
         NEW q \in Quotes, NEW field \in DOMAIN Answers, NEW value \in Answers[field],
         field \in OpenFields(facts, q), ~Uncovers(Answered(q, field, value), q)
  PROVE  OfficialFor(requirement, profile, Answered(q, field, value)).recommended
           = Official.recommended
  <1> DEFINE answered == Answered(q, field, value)
             ranking  == Effective(requirement, Preferences)
             results  == Evaluations(requirement, facts, today)
             others   == Evaluations(requirement, answered, today)
             says     == CompareEvaluations(ranking, results, InScope, None, policy)
             after    == CompareEvaluations(ranking, others, InScope, None, policy)
  <1>1. Official = says /\ OfficialFor(requirement, profile, answered) = after
    BY OfficialSays DEF Official
  <1>2. /\ \A p \in Quotes : IsQuote(facts[p])
        /\ \A p \in Quotes : IsQuote(answered[p])
        /\ \A p \in Quotes : p # q => others[p] = results[p]
    BY AnsweredFacts DEF InputsAccepted
  <1>3. \/ results[q].status = "INFEASIBLE" /\ others[q].status = "INFEASIBLE"
        \/ Behind(results[q], others[q])
    BY AnswerLeavesBehind
  <1> HIDE DEF answered
  <1>4. /\ Valued(results, InScope) /\ Valued(others, InScope)
        /\ IsFiniteSet(InScope) /\ InScope \subseteq Quotes
        /\ ranking.primary \in Criteria /\ ranking.secondary \in Rankings
        /\ policy.done \in BOOLEAN
    BY <1>2, ComparisonIsProper
  <1> HIDE DEF ranking, results, others
  <1>6. /\ ComparesTo(ranking, results, InScope, None, policy)
        /\ ComparesTo(ranking, others, InScope, None, policy)
    <2>1. /\ IsProper(ranking, results, InScope, None, policy)
          /\ IsProper(ranking, others, InScope, None, policy)
      BY <1>4 DEF IsProper
    <2>2. ComparesTo(ranking, results, InScope, None, policy)
      BY <2>1, CompareSays
    <2>3. ComparesTo(ranking, others, InScope, None, policy)
      BY <2>1, CompareSays
    <2> QED
      BY <2>2, <2>3
  <1>7. Decides(ranking, results, InScope, None, policy)
    BY <1>1, <1>6 DEF ComparesTo
  <1>8. \A p \in InScope : p # q => others[p] = results[p]
    BY <1>2, <1>4
  <1>9. SameChoice(ranking, results, others, InScope, policy)
    <2>1. CASE q \in Eligible(InScope, policy) /\ Behind(results[q], others[q])
      BY <1>4, <1>7, <1>8, <2>1, BehindStands
    <2>2. CASE ~(q \in Eligible(InScope, policy) /\ Behind(results[q], others[q]))
      BY <1>3, <1>7, <1>8, <2>2, ExcludedStands
    <2> QED
      BY <2>1, <2>2
  <1>10. after.recommended = says.recommended
    BY <1>6, <1>7, <1>9 DEF ComparesTo, SameChoice
  <1> QED
    BY <1>1, <1>10 DEF answered

\* What is open when something is recommended cannot change the recommendation,
\* unless the answer uncovers another question about its quote
\* (decision_impact.py assess_quote_impact, engine.py _compare_evaluations).
THEOREM RecommendationStandsCorrect == ComparisonSpec => []RecommendationStands
  <1>1. InputsAccepted => RecommendationStands
    BY AnswerStands DEF RecommendationStands
  <1> QED
    BY <1>1, InputsAcceptedCorrect, PTL

-----------------------------------------------------------------------------
(* Scenarios: their invariant.                                             *)

ResultIsNext == result # 0 => result = retired + 1

\* The change that holds the lock will make every ready scenario stale.
ChangeHolds ==
  /\ change.settings \in Settings
  /\ change.kind \in {"compliance", "abandon"} => change.settings = settings
  /\ change.intents \subseteq Intents /\ change.scenarios \subseteq Scenarios
  /\ ~Unlocked => change.scenarios = ReadyScenarios
  /\ \A i \in change.intents : intents[i].status # "ABSENT"

Exists(i) == intents[i].status # "ABSENT"

\* What was read stands, or its result was withdrawn.
ReadStands(read) ==
  /\ read.result > 0
  /\ \/ read.result <= retired
     \/ IsCurrent(read) /\ read.before = settings

RequestHolds(row) ==
  /\ row.at # "idle" => row.key \in Keys /\ row.changes \in Changes
  /\ row.at \in {"parsing", "creating"} => ReadStands(row)
  /\ row.at \in {"parsing", "confirming", "linking"} => row.intent \in Intents
  /\ row.intent # 0 => Exists(row.intent)
  /\ row.at = "linking" => /\ row.scenario \in Scenarios
                           /\ scenarios[row.scenario].status # "ABSENT"

RequestsHold == \A c \in Clients : RequestHolds(clients[c])

IntentInWork(row) ==
  LET i == row.intent
  IN  /\ intents[i].key = row.key /\ intents[i].changes = "none"
      /\ intents[i].rev = row.rev /\ intents[i].result = row.result
      /\ \/ intents[i].status = "PROCESSING"
         \/ intents[i].status = "STALE" /\ row.result <= retired

\* An intent that is still parsed belongs to one request.
ParsingHolds ==
  /\ \A c \in Clients : clients[c].at = "parsing" => IntentInWork(clients[c])
  /\ \A c, d \in Clients :
       /\ clients[c].at = "parsing" /\ clients[d].at = "parsing"
       /\ clients[c].intent = clients[d].intent
       => c = d

\* What is ready has changes to apply, and was computed from what stands.
ReadyHolds ==
  /\ \A i \in Intents : intents[i].status = "READY" => intents[i].changes \in Changes
  /\ \A s \in Scenarios : scenarios[s].status = "READY" =>
       /\ scenarios[s].changes \in Changes
       /\ ReadStands(scenarios[s]) /\ IsCurrent(scenarios[s])

\* Every effect of a request has its record.
EffectsRecorded ==
  /\ \A i \in Intents : intents[i].key # "none" /\ intents[i].changes # "none" =>
       IsRecorded("parse", 0, intents[i].key)
  /\ \A s \in Scenarios : scenarios[s].status # "ABSENT" =>
       IsRecorded("create", scenarios[s].origin, scenarios[s].key)

AbsentRows == \A s \in Scenarios : scenarios[s].status = "ABSENT" =>
                                     scenarios[s].key = "none"

ScenarioInv == /\ TypeOK
               /\ AbsentRows
               /\ ResultIsNext
               /\ ChangeHolds
               /\ RequestsHold
               /\ ParsingHolds
               /\ ReadyHolds
               /\ EffectsRecorded
               /\ OneEffectPerKey

-----------------------------------------------------------------------------
(* The invariant of intents.                                               *)

\* Without overlapping, the change that holds the lock makes every ready
\* intent stale.
ReadyIntentsHold ==
  ~Overlapping => \A i \in Intents : intents[i].status = "READY" =>
    /\ intents[i].result > 0 /\ IsCurrent(intents[i])
    /\ ~Unlocked => i \in change.intents

\* A scenario, or a request for one, is of the intent it is for.
IsOf(row, i) ==
  /\ intents[i].status \notin {"ABSENT", "PROCESSING"}
  /\ row.changes = intents[i].changes
  /\ row.rev = intents[i].rev

RequestConfirms(row) ==
  /\ row.at \in {"confirming", "creating", "linking"} /\ row.intent # 0
     => IsOf(row, row.intent)
  /\ row.at = "linking" => scenarios[row.scenario].origin = row.intent

ConfirmingHolds == \A c \in Clients : RequestConfirms(clients[c])

ScenariosOfIntents ==
  \A s \in Scenarios :
    scenarios[s].status # "ABSENT" /\ scenarios[s].origin # 0 =>
      LET i == scenarios[s].origin
      IN  /\ IsOf(scenarios[s], i)
          /\ ~Overlapping /\ intents[i].status = "READY" =>
               scenarios[s].result = intents[i].result

\* A confirmed intent has a scenario of its own changes.
ConfirmedForItsChanges ==
  \A i \in Intents : intents[i].status = "CONFIRMED" =>
    LET s == intents[i].scenario
    IN  /\ s \in Scenarios /\ scenarios[s].status # "ABSENT"
        /\ scenarios[s].origin = i
        /\ scenarios[s].changes = intents[i].changes
        /\ scenarios[s].rev = intents[i].rev

IntentInv == /\ ReadyIntentsHold
             /\ ConfirmingHolds
             /\ ScenariosOfIntents
             /\ ConfirmedForItsChanges
             /\ ~Overlapping => ConfirmedAsRead

-----------------------------------------------------------------------------
(* Steps of the task.                                                      *)

\* What a step may do to the task: publish a result, or withdraw it.
Publishes == /\ result = 0 /\ result' = retired + 1
             /\ UNCHANGED <<revision, retired, closed, settings>>
Withdraws == /\ result' = 0 /\ retired' = Withdrawn
             /\ revision' \in Nat /\ closed' \in BOOLEAN /\ settings' \in Settings

LEMMA PublishResultStep ==
  ASSUME TypeOK, PublishResult
  PROVE  Publishes
  BY DEF TypeOK, PublishResult, Publishes, Task!Publish

LEMMA CommitChangeStep ==
  ASSUME TypeOK, ChangeHolds, CommitChange
  PROVE  Withdraws
  <1>1. settings' \in Settings
    BY DEF CommitChange, ChangeHolds
  <1>2. CASE change.kind = "inputs"
    BY <1>1, <1>2 DEF TypeOK, CommitChange, Withdraws, Task!Revise, Task!Retire
  <1>3. CASE change.kind = "compliance"
    BY <1>1, <1>3 DEF TypeOK, CommitChange, Withdraws, Task!Restart, Task!Retire
  <1>4. CASE change.kind = "abandon"
    BY <1>1, <1>4 DEF TypeOK, CommitChange, Withdraws, Task!Abandon, Task!Retire
  <1> QED BY <1>2, <1>3, <1>4 DEF TypeOK, CommitChange, Unlocked

LEMMA ApplyScenarioStep ==
  ASSUME TypeOK, ReadyHolds, NEW s \in Scenarios, ApplyScenario(s)
  PROVE  Withdraws
  <1>1. revision' \in Nat /\ result' = 0 /\ retired' = Withdrawn /\ closed' = closed
    BY DEF TypeOK, ApplyScenario, Task!Revise, Task!Retire
  <1>2. settings' \in Settings
    BY DEF ReadyHolds, ApplyScenario, IsApplicable, Settings
  <1> QED BY <1>1, <1>2 DEF TypeOK, Withdraws

\* Nothing that was read comes back after it was withdrawn.
LEMMA ReadStandsKept ==
  ASSUME TypeOK, ResultIsNext, NEW read, read.result \in Nat, ReadStands(read),
         Publishes \/ Withdraws
  PROVE  ReadStands(read)'
  <1>1. CASE Publishes
    BY <1>1 DEF TypeOK, ReadStands, IsCurrent, Publishes
  <1>2. CASE Withdraws
    BY <1>2
    DEF TypeOK, ResultIsNext, ReadStands, IsCurrent, Withdraws, Withdrawn
  <1> QED BY <1>1, <1>2

-----------------------------------------------------------------------------
(* Steps of a request.                                                     *)

\* What a request that reads or links does.
Moves(c, row) == /\ clients' = [clients EXCEPT ![c] = row]
                 /\ UNCHANGED <<task, intents, scenarios, records, change>>

\* The request is answered with a scenario: it ends, or goes on to link it.
Continued(c, s) == IF clients[c].intent = 0 THEN IdleClient
                   ELSE [clients[c] EXCEPT !.at = "linking", !.scenario = s]

Writes(c, s) ==
  /\ clients[c].at = "creating" /\ Unlocked
  /\ ~IsRecorded("create", clients[c].intent, clients[c].key)
  /\ IsCurrent(clients[c])
  /\ scenarios[s].status = "ABSENT"
  /\ scenarios' = [scenarios EXCEPT ![s] =
       [status |-> "READY", rev |-> clients[c].rev,
        result |-> result, changes |-> clients[c].changes,
        before |-> clients[c].before, origin |-> clients[c].intent,
        key |-> clients[c].key]]
  /\ clients' = [clients EXCEPT ![c] = Continued(c, s)]
  /\ records' = Recorded("create", clients[c].intent, clients[c].key)
  /\ UNCHANGED <<task, intents, change>>

\* WriteScenario finds the scenario of its key, is refused, or writes it.
LEMMA WriteScenarioCases ==
  ASSUME NEW c \in Clients, WriteScenario(c)
  PROVE  \/ Moves(c, IdleClient)
         \/ \E s \in Scenarios :
              \/ /\ clients[c].at = "creating"
                 /\ IsRecorded("create", clients[c].intent, clients[c].key)
                 /\ scenarios[s].origin = clients[c].intent
                 /\ scenarios[s].key = clients[c].key
                 /\ Moves(c, Continued(c, s))
              \/ Writes(c, s)
  BY DEF WriteScenario, Moves, Ends, Writes, Continued, IsNewScenario, StillThere

Reading(c, row) == /\ row \in Client /\ row.at # "parsing"
                   /\ RequestHolds(row)
                   /\ Moves(c, row)

\* What the parser said is saved, unless an equal request was faster.
ParseFailed(c) ==
  /\ clients[c].at = "parsing"
  /\ ~IsRecorded("parse", 0, clients[c].key)
  /\ intents' = [intents EXCEPT ![clients[c].intent].status = "FAILED"]
  /\ records' = Recorded("parse", 0, clients[c].key)
  /\ clients' = [clients EXCEPT ![c] = IdleClient]
  /\ UNCHANGED <<task, scenarios, change>>

Parsed(c) == LET i == clients[c].intent
             IN IF IsCurrent(clients[c])
                THEN [intents[i] EXCEPT !.status = "READY",
                                        !.changes = clients[c].changes]
                ELSE [intents[i] EXCEPT !.status = "STALE"]

ParseEnded(c) ==
  /\ clients[c].at = "parsing" /\ Unlocked
  /\ ~IsRecorded("parse", 0, clients[c].key)
  /\ intents' = [intents EXCEPT ![clients[c].intent] = Parsed(c)]
  /\ records' = Recorded("parse", 0, clients[c].key)
  /\ clients' = [clients EXCEPT ![c] = IdleClient]
  /\ UNCHANGED <<task, scenarios, change>>

Links(c) ==
  /\ clients[c].at = "linking" /\ Unlocked /\ IsLinkable(clients[c])
  /\ intents' = [intents EXCEPT ![clients[c].intent] =
       [intents[clients[c].intent] EXCEPT !.status = "CONFIRMED",
                                          !.scenario = clients[c].scenario]]
  /\ records' = Recorded("confirm", clients[c].intent, clients[c].key)
  /\ clients' = [clients EXCEPT ![c] = IdleClient]
  /\ UNCHANGED <<task, scenarios, change>>

LEMMA IdleHolds ==
  /\ IdleClient \in Client
  /\ RequestHolds(IdleClient)
  /\ IdleClient.at = "idle"
  BY ChoicesAssumption DEF IdleClient, Client, RequestHolds

LEMMA EndsReads ==
  ASSUME NEW c, Ends(c)
  PROVE  Reading(c, IdleClient)
  BY IdleHolds DEF Ends, Reading, Moves

LEMMA ContinuedHolds ==
  ASSUME TypeOK, RequestsHold, NEW c \in Clients, clients[c].at = "creating",
         NEW s \in Scenarios
  PROVE  /\ Continued(c, s) \in Client
         /\ Continued(c, s).at \in {"idle", "linking"}
         /\ scenarios[s].status # "ABSENT" => RequestHolds(Continued(c, s))
  <1>1. CASE clients[c].intent = 0
    BY <1>1, IdleHolds DEF Continued
  <1>2. CASE clients[c].intent # 0
    <2>1. Continued(c, s) = [clients[c] EXCEPT !.at = "linking", !.scenario = s]
      BY <1>2 DEF Continued
    <2>2. clients[c] \in Client /\ RequestHolds(clients[c])
      BY DEF TypeOK, RequestsHold
    <2> QED BY <1>2, <2>1, <2>2 DEF Client, RequestHolds
  <1> QED BY <1>1, <1>2

\* What a request reads holds when it is read.
LEMMA ReadsHold ==
  ASSUME TypeOK, NEW c, NEW key \in Keys, NEW intent \in Intents \cup {0},
         NEW changes \in Changes, intent # 0 => Exists(intent),
         Reads(c, key, intent, changes)
  PROVE  \E row : Reading(c, row)
  <1> DEFINE row == [at |-> "creating", key |-> key, intent |-> intent,
                     changes |-> changes, rev |-> revision, result |-> result,
                     before |-> settings, scenario |-> 0]
  <1>1. row \in Client
    BY DEF TypeOK, Client
  <1>2. RequestHolds(row)
    BY DEF TypeOK, RequestHolds, ReadStands, IsCurrent, Reads
  <1>3. Moves(c, row)
    BY DEF Reads, Moves
  <1> QED BY <1>1, <1>2, <1>3 DEF Reading

LEMMA ReadingCases ==
  ASSUME TypeOK, AbsentRows, RequestsHold, ReadyHolds, NEW c \in Clients
  PROVE  /\ \A key \in Keys, changes \in Changes :
              CreateScenario(c, key, changes) => \E row : Reading(c, row)
         /\ \A i \in Intents, key \in Keys :
              ConfirmIntent(c, i, key) => \E row : Reading(c, row)
         /\ ConfirmCreates(c) => \E row : Reading(c, row)
         /\ RequestDies(c) => \E row : Reading(c, row)
         /\ ParseFails(c) => ParseFailed(c) \/ \E row : Reading(c, row)
         /\ ParseEnds(c) => ParseEnded(c) \/ \E row : Reading(c, row)
         /\ LinkScenario(c) => Links(c) \/ \E row : Reading(c, row)
         /\ WriteScenario(c) => \/ \E s \in Scenarios : Writes(c, s)
                                \/ \E row : Reading(c, row)
  <1>0. clients[c] \in Client /\ RequestHolds(clients[c])
    BY DEF TypeOK, RequestsHold
  <1>1. ASSUME NEW key \in Keys, NEW changes \in Changes,
               CreateScenario(c, key, changes)
        PROVE  \E row : Reading(c, row)
    BY <1>1, ReadsHold DEF CreateScenario
  <1>2. ASSUME NEW i \in Intents, NEW key \in Keys, ConfirmIntent(c, i, key)
        PROVE  \E row : Reading(c, row)
    <2> DEFINE row == [IdleClient EXCEPT !.at = "confirming", !.key = key,
                         !.intent = i, !.changes = intents[i].changes,
                         !.rev = revision]
    <2>1. intents[i].changes \in Changes /\ Exists(i)
      BY <1>2 DEF ConfirmIntent, ReadyHolds, Exists
    <2>2. row \in Client
      BY <2>1, IdleHolds DEF TypeOK, Client, IdleClient
    <2>3. RequestHolds(row)
      BY <2>1 DEF RequestHolds, IdleClient
    <2>4. Moves(c, row)
      BY <1>2 DEF ConfirmIntent, Moves
    <2>5. row.at # "parsing"
      BY DEF IdleClient
    <2> QED BY <2>2, <2>3, <2>4, <2>5 DEF Reading
  <1>3. ASSUME ConfirmCreates(c)
        PROVE  \E row : Reading(c, row)
    <2>1. CASE Ends(c)
      BY <2>1, EndsReads
    <2>2. CASE Reads(c, clients[c].key, clients[c].intent, clients[c].changes)
      <3>1. clients[c].key \in Keys /\ clients[c].changes \in Changes
        BY <1>0, <1>3 DEF ConfirmCreates, RequestHolds
      <3>2. /\ clients[c].intent \in Intents \cup {0}
            /\ clients[c].intent # 0 => Exists(clients[c].intent)
        BY <1>0 DEF Client, RequestHolds
      <3> QED BY <2>2, <3>1, <3>2, ReadsHold
    <2> QED BY <1>3, <2>1, <2>2 DEF ConfirmCreates
  <1>4. RequestDies(c) => \E row : Reading(c, row)
    BY EndsReads DEF RequestDies
  <1>5. ParseFails(c) => ParseFailed(c) \/ \E row : Reading(c, row)
    BY EndsReads DEF ParseFails, ParseFailed
  <1>6. ParseEnds(c) => ParseEnded(c) \/ \E row : Reading(c, row)
    <2>1. ASSUME ParseEnds(c), ~IsRecorded("parse", 0, clients[c].key)
          PROVE  ParseEnded(c)
      BY <2>1 DEF ParseEnds, ParseEnded, Parsed, TypeOK
    <2> QED BY <2>1, EndsReads DEF ParseEnds
  <1>7. LinkScenario(c) => Links(c) \/ \E row : Reading(c, row)
    BY EndsReads DEF LinkScenario, Links, Linked
  <1>8. ASSUME WriteScenario(c)
        PROVE  \/ \E s \in Scenarios : Writes(c, s)
               \/ \E row : Reading(c, row)
    <2>1. CASE Moves(c, IdleClient)
      BY <2>1, IdleHolds DEF Reading
    <2>2. ASSUME NEW s \in Scenarios, clients[c].at = "creating",
                 scenarios[s].key = clients[c].key, Moves(c, Continued(c, s))
          PROVE  Reading(c, Continued(c, s))
      <3>1. scenarios[s].status # "ABSENT"
        BY <1>0, <2>2, ChoicesAssumption DEF RequestHolds, AbsentRows
      <3> QED BY <2>2, <3>1, ContinuedHolds DEF Reading
    <2> QED BY <1>8, <2>1, <2>2, WriteScenarioCases
  <1> QED BY <1>1, <1>2, <1>3, <1>4, <1>5, <1>6, <1>7, <1>8

\* Every step, as the proofs below split it.
LEMMA StepCases ==
  ASSUME TypeOK, AbsentRows, RequestsHold, ReadyHolds, [Next]_vars
  PROVE  \/ UNCHANGED vars
         \/ \E kind \in {"inputs", "compliance", "abandon"}, value \in Settings :
              BeginChange(kind, value)
         \/ CommitChange \/ PublishResult
         \/ \E i \in Intents, changes \in Changes : ConversationProposes(i, changes)
         \/ \E s \in Scenarios : ApplyScenario(s)
         \/ \E c \in Clients, key \in Keys, changes \in Changes, i \in Intents :
              StartParse(c, i, key, changes)
         \/ \E c \in Clients : \/ \E row : Reading(c, row)
                               \/ ParseFailed(c) \/ ParseEnded(c) \/ Links(c)
                               \/ \E s \in Scenarios : Writes(c, s)
  BY ReadingCases DEF Next

-----------------------------------------------------------------------------
(* Each part of the invariant is kept.                                     *)

LEMMA TypeStep ==
  ASSUME ScenarioInv, [Next]_vars
  PROVE  TypeOK'
  <1> USE DEF ScenarioInv
  <1>1. CASE UNCHANGED vars
    BY <1>1 DEF TypeOK, vars, task
  <1>2. ASSUME NEW kind \in {"inputs", "compliance", "abandon"},
               NEW value \in Settings, BeginChange(kind, value)
        PROVE  TypeOK'
    BY <1>2 DEF BeginChange, TypeOK, task
  <1>3. CASE CommitChange
    <2>1. intents' \in [Intents -> Intent]
      BY <1>3 DEF CommitChange, StaleIntents, TypeOK, Intent, IntentStatuses
    <2>2. scenarios' \in [Scenarios -> Scenario]
      BY <1>3 DEF CommitChange, StaleScenarios, TypeOK, Scenario
    <2>3. \A i \in Intents : intents'[i].status = "CONFIRMED" =>
                             intents'[i].scenario # 0
      BY <1>3 DEF CommitChange, StaleIntents, TypeOK, Intent
    <2>4. Withdraws
      BY <1>3, CommitChangeStep
    <2> QED BY <1>3, <2>1, <2>2, <2>3, <2>4
            DEF CommitChange, TypeOK, Withdraws, Withdrawn, NoChange
  <1>4. CASE PublishResult
    BY <1>4, PublishResultStep DEF PublishResult, Publishes, TypeOK
  <1>5. ASSUME NEW i \in Intents, NEW changes \in Changes,
               ConversationProposes(i, changes)
        PROVE  TypeOK'
    <2>1. intents' \in [Intents -> Intent]
      BY <1>5 DEF ConversationProposes, TypeOK, Intent, IntentStatuses, AbsentIntent
    <2>2. \A k \in Intents : intents'[k].status = "CONFIRMED" =>
                             intents'[k].scenario # 0
      BY <1>5 DEF ConversationProposes, TypeOK, AbsentIntent
    <2> QED BY <1>5, <2>1, <2>2 DEF ConversationProposes, TypeOK, task
  <1>6. ASSUME NEW s \in Scenarios, ApplyScenario(s)
        PROVE  TypeOK'
    <2>1. intents' \in [Intents -> Intent]
      BY <1>6 DEF ApplyScenario, StaleIntents, TypeOK, Intent, IntentStatuses
    <2>2. StaleScenarios(ReadyScenarios) \in [Scenarios -> Scenario]
      BY DEF StaleScenarios, TypeOK, Scenario
    <2>3. scenarios' \in [Scenarios -> Scenario]
      BY <1>6, <2>2 DEF ApplyScenario, Scenario
    <2>4. \A i \in Intents : intents'[i].status = "CONFIRMED" =>
                             intents'[i].scenario # 0
      BY <1>6 DEF ApplyScenario, StaleIntents, TypeOK, Intent
    <2>5. Withdraws
      BY <1>6, ApplyScenarioStep
    <2> QED BY <1>6, <2>1, <2>3, <2>4, <2>5
            DEF ApplyScenario, TypeOK, Withdraws, Withdrawn
  <1>7. ASSUME NEW c \in Clients, NEW key \in Keys, NEW changes \in Changes,
               NEW i \in Intents, StartParse(c, i, key, changes)
        PROVE  TypeOK'
    <2>1. intents' \in [Intents -> Intent]
      BY <1>7 DEF StartParse, TypeOK, Intent, IntentStatuses, AbsentIntent
    <2>2. \A k \in Intents : intents'[k].status = "CONFIRMED" =>
                             intents'[k].scenario # 0
      BY <1>7 DEF StartParse, TypeOK, AbsentIntent
    <2>3. clients' \in [Clients -> Client]
      BY <1>7 DEF StartParse, TypeOK, Client, IdleClient
    <2> QED BY <1>7, <2>1, <2>2, <2>3 DEF StartParse, TypeOK, task
  <1>8. ASSUME NEW c \in Clients, NEW row, Reading(c, row)
        PROVE  TypeOK'
    BY <1>8 DEF Reading, Moves, TypeOK, task
  <1>9. ASSUME NEW c \in Clients, ParseFailed(c) \/ ParseEnded(c) \/ Links(c)
        PROVE  TypeOK'
    <2>0. clients[c] \in Client /\ RequestHolds(clients[c])
      BY DEF TypeOK, RequestsHold
    <2>1. clients[c].intent \in Intents /\ clients[c].key \in Keys
      BY <1>9, <2>0 DEF ParseFailed, ParseEnded, Links, RequestHolds
    <2>2. intents' \in [Intents -> Intent]
      <3>1. CASE ParseFailed(c)
        BY <3>1, <2>1 DEF ParseFailed, TypeOK, Intent, IntentStatuses
      <3>2. CASE ParseEnded(c)
        <4>1. intents[clients[c].intent] \in Intent
          BY <2>1 DEF TypeOK
        <4>2. Parsed(c) \in Intent
          BY <2>0, <4>1 DEF Parsed, Intent, Client, IntentStatuses
        <4> QED BY <3>2, <2>1, <4>2 DEF ParseEnded, TypeOK
      <3>3. CASE Links(c)
        <4>1. /\ intents[clients[c].intent] \in Intent
              /\ clients[c].scenario \in Scenarios \cup {0}
          BY <2>0, <2>1 DEF TypeOK, Client
        <4>2. [intents[clients[c].intent] EXCEPT
                !.status = "CONFIRMED", !.scenario = clients[c].scenario] \in Intent
          BY <4>1 DEF Intent, IntentStatuses
        <4> QED BY <3>3, <2>1, <4>2 DEF Links, TypeOK
      <3> QED BY <1>9, <3>1, <3>2, <3>3
    <2>3. \A i \in Intents : intents'[i].status = "CONFIRMED" =>
                             intents'[i].scenario # 0
      <3>1. CASE ParseFailed(c)
        BY <3>1, <2>1 DEF ParseFailed, TypeOK, Intent
      <3>2. CASE ParseEnded(c)
        BY <3>2, <2>1 DEF ParseEnded, Parsed, TypeOK, Intent
      <3>3. CASE Links(c)
        BY <3>3, <2>0, <2>1 DEF Links, TypeOK, Intent, RequestHolds, Scenarios
      <3> QED BY <1>9, <3>1, <3>2, <3>3
    <2>4. records' \subseteq Record
      BY <1>9, <2>0, <2>1
      DEF ParseFailed, ParseEnded, Links, Recorded, TypeOK, Record, Client
    <2>5. clients' \in [Clients -> Client]
      BY <1>9, IdleHolds DEF ParseFailed, ParseEnded, Links, TypeOK
    <2> QED BY <1>9, <2>2, <2>3, <2>4, <2>5
            DEF ParseFailed, ParseEnded, Links, TypeOK, task
  <1>10. ASSUME NEW c \in Clients, NEW s \in Scenarios, Writes(c, s)
         PROVE  TypeOK'
    <2>0. clients[c] \in Client /\ RequestHolds(clients[c])
      BY DEF TypeOK, RequestsHold
    <2>1. scenarios' \in [Scenarios -> Scenario]
      BY <1>10, <2>0 DEF Writes, TypeOK, Scenario, Client
    <2>2. records' \subseteq Record
      BY <1>10, <2>0 DEF Writes, Recorded, TypeOK, Record, Client, RequestHolds
    <2>3. clients' \in [Clients -> Client]
      BY <1>10, ContinuedHolds DEF Writes, TypeOK
    <2> QED BY <1>10, <2>1, <2>2, <2>3 DEF Writes, TypeOK, task
  <1> QED BY <1>1, <1>2, <1>3, <1>4, <1>5, <1>6, <1>7, <1>8, <1>9, <1>10, StepCases

\* Rows are never deleted, and are about the same result for good.
IntentsKept ==
  \A i \in Intents : Exists(i) => /\ Exists(i)' /\ intents'[i].key = intents[i].key
                                  /\ intents'[i].rev = intents[i].rev
                                  /\ intents'[i].result = intents[i].result
SameScenario(s) ==
  /\ scenarios'[s].rev = scenarios[s].rev
  /\ scenarios'[s].result = scenarios[s].result
  /\ scenarios'[s].changes = scenarios[s].changes
  /\ scenarios'[s].before = scenarios[s].before
  /\ scenarios'[s].origin = scenarios[s].origin
  /\ scenarios'[s].key = scenarios[s].key
  /\ scenarios[s].status = "ABSENT" <=> scenarios'[s].status = "ABSENT"

LEMMA RowsKept ==
  ASSUME ScenarioInv, [Next]_vars
  PROVE  /\ IntentsKept
         /\ \A s \in Scenarios : \/ SameScenario(s)
                                 \/ \E c \in Clients : Writes(c, s)
  <1> USE DEF ScenarioInv
  <1>1. CASE UNCHANGED <<intents, scenarios>>
    BY <1>1 DEF IntentsKept, SameScenario, Exists
  <1>2. CASE CommitChange
    <2>1. IntentsKept
      BY <1>2 DEF CommitChange, StaleIntents, TypeOK, Intent, IntentsKept, Exists
    <2>2. \A s \in change.scenarios : scenarios[s].status = "READY"
      BY <1>2 DEF CommitChange, ChangeHolds, ReadyScenarios
    <2>3. \A s \in Scenarios : SameScenario(s)
      BY <1>2, <2>2 DEF CommitChange, StaleScenarios, TypeOK, Scenario, SameScenario
    <2> QED BY <2>1, <2>3
  <1>3. ASSUME NEW i \in Intents, NEW changes \in Changes,
               ConversationProposes(i, changes)
        PROVE  IntentsKept /\ UNCHANGED scenarios
    BY <1>3
    DEF ConversationProposes, TypeOK, Intent, IsNewIntent, IntentsKept, Exists
  <1>4. ASSUME NEW s \in Scenarios, ApplyScenario(s)
        PROVE  IntentsKept /\ \A t \in Scenarios : SameScenario(t)
    <2>1. IntentsKept
      BY <1>4 DEF ApplyScenario, StaleIntents, TypeOK, Intent, IntentsKept, Exists
    <2> DEFINE stale == StaleScenarios(ReadyScenarios)
    <2>2. /\ stale \in [Scenarios -> Scenario]
          /\ \A t \in Scenarios :
               /\ stale[t].rev = scenarios[t].rev
               /\ stale[t].result = scenarios[t].result
               /\ stale[t].changes = scenarios[t].changes
               /\ stale[t].before = scenarios[t].before
               /\ stale[t].origin = scenarios[t].origin
               /\ stale[t].key = scenarios[t].key
               /\ scenarios[t].status = "ABSENT" <=> stale[t].status = "ABSENT"
      BY DEF StaleScenarios, ReadyScenarios, TypeOK, Scenario
    <2>3. scenarios' = [stale EXCEPT ![s].status = "APPLIED"]
          /\ scenarios[s].status = "READY"
      BY <1>4 DEF ApplyScenario, IsApplicable
    <2> HIDE DEF stale
    <2>4. \A t \in Scenarios : SameScenario(t)
      BY <2>2, <2>3 DEF Scenario, SameScenario
    <2> QED BY <2>1, <2>4
  <1>5. ASSUME NEW c \in Clients, NEW key \in Keys, NEW changes \in Changes,
               NEW i \in Intents, StartParse(c, i, key, changes)
        PROVE  IntentsKept /\ UNCHANGED scenarios
    BY <1>5 DEF StartParse, TypeOK, Intent, IsNewIntent, IntentsKept, Exists
  <1>6. ASSUME NEW c \in Clients, ParseFailed(c) \/ ParseEnded(c) \/ Links(c)
        PROVE  IntentsKept /\ UNCHANGED scenarios
    <2>1. clients[c].intent \in Intents
      BY <1>6 DEF ParseFailed, ParseEnded, Links, RequestsHold, RequestHolds
    <2>2. CASE ParseFailed(c)
      BY <2>1, <2>2 DEF ParseFailed, TypeOK, Intent, IntentsKept, Exists
    <2>3. CASE ParseEnded(c)
      BY <2>1, <2>3 DEF ParseEnded, Parsed, TypeOK, Intent, IntentsKept, Exists
    <2>4. CASE Links(c)
      BY <2>1, <2>4 DEF Links, TypeOK, Intent, IntentsKept, Exists
    <2> QED BY <1>6, <2>2, <2>3, <2>4
  <1>7. ASSUME NEW c \in Clients, NEW s \in Scenarios, Writes(c, s)
        PROVE  IntentsKept /\ \A t \in Scenarios : SameScenario(t) \/ Writes(c, t)
    BY <1>7 DEF Writes, TypeOK, IntentsKept, Exists, SameScenario
  <1>8. UNCHANGED scenarios => \A s \in Scenarios : SameScenario(s)
    BY DEF SameScenario
  <1>9. PublishResult => UNCHANGED <<intents, scenarios>>
    BY DEF PublishResult
  <1>10. \A kind, value : BeginChange(kind, value) => UNCHANGED <<intents, scenarios>>
    BY DEF BeginChange
  <1>11. \A c, row : Reading(c, row) => UNCHANGED <<intents, scenarios>>
    BY DEF Reading, Moves
  <1>12. UNCHANGED vars => UNCHANGED <<intents, scenarios>>
    BY DEF vars
  <1> QED BY <1>1, <1>2, <1>3, <1>4, <1>5, <1>6, <1>7, <1>8, <1>9, <1>10, <1>11,
             <1>12, StepCases

LEMMA TaskStep ==
  ASSUME ScenarioInv, [Next]_vars
  PROVE  UNCHANGED task \/ Publishes \/ Withdraws
  <1> USE DEF ScenarioInv
  <1>1. CommitChange => Withdraws
    BY CommitChangeStep
  <1>2. PublishResult => Publishes
    BY PublishResultStep
  <1>3. \A s \in Scenarios : ApplyScenario(s) => Withdraws
    BY ApplyScenarioStep
  <1>4. /\ \A kind, value : BeginChange(kind, value) => UNCHANGED task
        /\ \A i, changes : ConversationProposes(i, changes) => UNCHANGED task
        /\ \A c, key, changes, i : StartParse(c, i, key, changes) => UNCHANGED task
        /\ \A c, row : Reading(c, row) => UNCHANGED task
        /\ \A c : ParseFailed(c) \/ ParseEnded(c) \/ Links(c) => UNCHANGED task
        /\ \A c, s : Writes(c, s) => UNCHANGED task
        /\ UNCHANGED vars => UNCHANGED task
    BY DEF BeginChange, ConversationProposes, StartParse, Reading, Moves,
           ParseFailed, ParseEnded, Links, Writes, vars
  <1> QED BY <1>1, <1>2, <1>3, <1>4, StepCases

LEMMA ResultStep ==
  ASSUME ScenarioInv, [Next]_vars
  PROVE  ResultIsNext'
  <1>1. UNCHANGED task \/ Publishes \/ Withdraws
    BY TaskStep
  <1> QED BY <1>1 DEF ScenarioInv, TypeOK, ResultIsNext, task, Publishes, Withdraws

LEMMA ChangeStep ==
  ASSUME ScenarioInv, [Next]_vars
  PROVE  ChangeHolds'
  <1> USE DEF ScenarioInv
  <1>1. ASSUME NEW kind \in {"inputs", "compliance", "abandon"},
               NEW value \in Settings, BeginChange(kind, value)
        PROVE  ChangeHolds'
    BY <1>1
    DEF BeginChange, task, ChangeHolds, OpenIntents, ReadyScenarios
  <1>2. CASE CommitChange
    BY <1>2 DEF CommitChange, ChangeHolds, NoChange, Settings, Unlocked
  <1>3. ASSUME UNCHANGED change, Unlocked
        PROVE  ChangeHolds'
    BY <1>3, RowsKept DEF ChangeHolds, Unlocked, IntentsKept, Exists
  <1>4. ASSUME UNCHANGED <<change, scenarios, settings>>
        PROVE  ChangeHolds'
    BY <1>4, RowsKept DEF ChangeHolds, Unlocked, ReadyScenarios, IntentsKept, Exists
  <1>5. /\ PublishResult => UNCHANGED change /\ Unlocked
        /\ \A s : ApplyScenario(s) => UNCHANGED change /\ Unlocked
        /\ \A c, s : Writes(c, s) => UNCHANGED change /\ Unlocked
    BY DEF PublishResult, ApplyScenario, Writes
  <1>6. /\ \A i, changes : ConversationProposes(i, changes) =>
                           UNCHANGED <<change, scenarios, settings>>
        /\ \A c, key, changes, i : StartParse(c, i, key, changes) =>
                           UNCHANGED <<change, scenarios, settings>>
        /\ \A c, row : Reading(c, row) => UNCHANGED <<change, scenarios, settings>>
        /\ \A c : ParseFailed(c) \/ ParseEnded(c) \/ Links(c) =>
                           UNCHANGED <<change, scenarios, settings>>
        /\ UNCHANGED vars => UNCHANGED <<change, scenarios, settings>>
    BY DEF ConversationProposes, StartParse, Reading, Moves, ParseFailed, ParseEnded,
           Links, vars, task
  <1> QED BY <1>1, <1>2, <1>3, <1>4, <1>5, <1>6, StepCases

LEMMA ReadStandsStep ==
  ASSUME ScenarioInv, [Next]_vars, NEW read, read.result \in Nat, ReadStands(read)
  PROVE  ReadStands(read)'
  <1>1. CASE UNCHANGED task
    BY <1>1 DEF task, ReadStands, IsCurrent
  <1> QED BY <1>1, TaskStep, ReadStandsKept DEF ScenarioInv

\* What a request holds stands until it is written.
LEMMA RequestKept ==
  ASSUME ScenarioInv, [Next]_vars, NEW row \in Client, RequestHolds(row)
  PROVE  RequestHolds(row)'
  <1>1. row.result \in Nat /\ row.intent \in Intents \cup {0}
    BY DEF Client
  <1>2. ReadStands(row) => ReadStands(row)'
    BY <1>1, ReadStandsStep
  <1>3. row.intent # 0 => Exists(row.intent)'
    BY <1>1, RowsKept DEF RequestHolds, IntentsKept
  <1>4. \A s \in Scenarios : scenarios[s].status # "ABSENT" =>
                             scenarios'[s].status # "ABSENT"
    BY RowsKept DEF SameScenario, Writes
  <1> QED BY <1>2, <1>3, <1>4 DEF RequestHolds

LEMMA RequestsStep ==
  ASSUME ScenarioInv, [Next]_vars
  PROVE  RequestsHold'
  <1> USE DEF ScenarioInv
  <1>0. \A row \in Client : RequestHolds(row) => RequestHolds(row)'
    BY RequestKept
  <1>1. \A c \in Clients : clients[c] \in Client /\ RequestHolds(clients[c])
    BY DEF TypeOK, RequestsHold
  <1>2. ASSUME NEW d \in Clients, clients'[d] = clients[d]
        PROVE  RequestHolds(clients[d])'
    BY <1>0, <1>1, <1>2 DEF RequestHolds, ReadStands, IsCurrent, Exists
  <1>3. ASSUME NEW d \in Clients, clients'[d] = IdleClient
        PROVE  RequestHolds(clients[d])'
    BY <1>3 DEF RequestHolds, IdleClient
  <1>4. ASSUME UNCHANGED clients
        PROVE  RequestsHold'
    BY <1>2, <1>4 DEF RequestsHold
  <1>5. ASSUME NEW c \in Clients, NEW row, clients' = [clients EXCEPT ![c] = row],
               RequestHolds(clients[c])'
        PROVE  RequestsHold'
    <2>1. \A d \in Clients : d # c => clients'[d] = clients[d]
      BY <1>5 DEF TypeOK
    <2> QED BY <1>2, <1>5, <2>1 DEF RequestsHold
  <1>6. ASSUME NEW c \in Clients, NEW row, Reading(c, row)
        PROVE  RequestsHold'
    <2>1. row \in Client /\ RequestHolds(row) /\ clients'[c] = row
          /\ clients' = [clients EXCEPT ![c] = row]
      BY <1>6 DEF Reading, Moves, TypeOK
    <2>2. RequestHolds(clients[c])'
      BY <1>0, <2>1 DEF RequestHolds, ReadStands, IsCurrent, Exists
    <2> QED BY <1>5, <2>1, <2>2
  <1>7. ASSUME NEW c \in Clients, NEW key \in Keys, NEW changes \in Changes,
               NEW i \in Intents, StartParse(c, i, key, changes)
        PROVE  RequestsHold'
    <2> DEFINE row == [IdleClient EXCEPT !.at = "parsing", !.key = key, !.intent = i,
                         !.changes = changes, !.rev = revision,
                         !.result = result, !.before = settings]
    <2>1. clients' = [clients EXCEPT ![c] = row] /\ clients'[c] = row
      BY <1>7 DEF StartParse, TypeOK
    <2>2. Exists(i)' /\ UNCHANGED task /\ result > 0
      BY <1>7 DEF StartParse, TypeOK, Exists, AbsentIntent
    <2>3. /\ row.at = "parsing" /\ row.key = key /\ row.intent = i
          /\ row.changes = changes /\ row.rev = revision /\ row.result = result
          /\ row.before = settings
      BY DEF IdleClient
    <2> HIDE DEF row
    <2>4. RequestHolds(clients[c])'
      BY <2>1, <2>2, <2>3 DEF RequestHolds, ReadStands, IsCurrent, task, Exists
    <2> QED BY <1>5, <2>1, <2>4
  <1>8. ASSUME NEW c \in Clients, ParseFailed(c) \/ ParseEnded(c) \/ Links(c)
        PROVE  RequestsHold'
    <2>1. /\ clients' = [clients EXCEPT ![c] = IdleClient]
          /\ clients'[c] = IdleClient
      BY <1>8 DEF ParseFailed, ParseEnded, Links, TypeOK
    <2> QED BY <1>3, <1>5, <2>1
  <1>9. ASSUME NEW c \in Clients, NEW s \in Scenarios, Writes(c, s)
        PROVE  RequestsHold'
    <2>1. clients' = [clients EXCEPT ![c] = Continued(c, s)]
          /\ clients'[c] = Continued(c, s)
      BY <1>9 DEF Writes, TypeOK
    <2>2. CASE clients[c].intent = 0
      BY <1>3, <1>5, <2>1, <2>2 DEF Continued
    <2>3. CASE clients[c].intent # 0
      <3>1. clients'[c] = [clients[c] EXCEPT !.at = "linking", !.scenario = s]
        BY <2>1, <2>3 DEF Continued
      <3>2. /\ scenarios'[s].status # "ABSENT" /\ UNCHANGED intents
            /\ clients[c] \in Client /\ RequestHolds(clients[c])
            /\ clients[c].at = "creating"
        BY <1>1, <1>9 DEF Writes, TypeOK
      <3>3. RequestHolds(clients[c])'
        BY <2>3, <3>1, <3>2 DEF RequestHolds, Client, Exists
      <3> QED BY <1>5, <2>1, <3>3
    <2> QED BY <2>2, <2>3
  <1>10. /\ \A kind, value : BeginChange(kind, value) => UNCHANGED clients
         /\ CommitChange \/ PublishResult \/ UNCHANGED vars => UNCHANGED clients
         /\ \A i, changes : ConversationProposes(i, changes) => UNCHANGED clients
         /\ \A s : ApplyScenario(s) => UNCHANGED clients
    BY DEF BeginChange, CommitChange, PublishResult, ConversationProposes,
           ApplyScenario, vars
  <1> QED BY <1>4, <1>6, <1>7, <1>8, <1>9, <1>10, StepCases

LEMMA AbsentStep ==
  ASSUME ScenarioInv, [Next]_vars
  PROVE  AbsentRows'
  BY RowsKept, ChoicesAssumption
  DEF ScenarioInv, AbsentRows, SameScenario, Writes, TypeOK

LEMMA ReadyStep ==
  ASSUME ScenarioInv, [Next]_vars
  PROVE  ReadyHolds'
  <1> USE DEF ScenarioInv
  <1> DEFINE IntentsReady == \A i \in Intents : intents'[i].status = "READY" =>
                                                intents'[i].changes \in Changes
  <1>1. ASSUME UNCHANGED <<task, scenarios>>, IntentsReady
        PROVE  ReadyHolds'
    BY <1>1 DEF ReadyHolds, ReadStands, IsCurrent, task
  <1>2. ASSUME UNCHANGED intents
        PROVE  IntentsReady
    BY <1>2 DEF ReadyHolds
  <1>3. ASSUME \A s \in Scenarios : scenarios'[s].status # "READY", IntentsReady
        PROVE  ReadyHolds'
    BY <1>3 DEF ReadyHolds
  <1>4. CASE CommitChange
    <2>1. \A s \in Scenarios : scenarios'[s].status # "READY"
      BY <1>4 DEF CommitChange, ChangeHolds, ReadyScenarios, StaleScenarios, TypeOK,
                  Scenario
    <2>2. IntentsReady
      BY <1>4 DEF CommitChange, StaleIntents, ReadyHolds, TypeOK, Intent
    <2> QED BY <1>3, <2>1, <2>2
  <1>5. ASSUME NEW s \in Scenarios, ApplyScenario(s)
        PROVE  ReadyHolds'
    <2>1. \A t \in Scenarios : StaleScenarios(ReadyScenarios)[t].status # "READY"
      BY DEF ReadyScenarios, StaleScenarios, TypeOK, Scenario
    <2>2. \A t \in Scenarios : scenarios'[t].status # "READY"
      BY <1>5, <2>1 DEF ApplyScenario, StaleScenarios, TypeOK, Scenario
    <2>3. IntentsReady
      BY <1>5 DEF ApplyScenario, StaleIntents, ReadyHolds, TypeOK, Intent
    <2> QED BY <1>3, <2>2, <2>3
  <1>6. CASE PublishResult
    <2>1. Publishes /\ UNCHANGED <<intents, scenarios>>
      BY <1>6, PublishResultStep DEF PublishResult
    <2>2. \A s \in Scenarios : scenarios'[s].status # "READY"
      BY <2>1 DEF Publishes, ReadyHolds, ReadStands, IsCurrent
    <2> QED BY <1>2, <1>3, <2>1, <2>2
  <1>7. ASSUME NEW i \in Intents, NEW changes \in Changes,
               ConversationProposes(i, changes)
        PROVE  ReadyHolds'
    <2>1. IntentsReady
      BY <1>7 DEF ConversationProposes, ReadyHolds, TypeOK, AbsentIntent
    <2> QED BY <1>1, <1>7, <2>1 DEF ConversationProposes
  <1>8. ASSUME NEW c \in Clients, NEW key \in Keys, NEW changes \in Changes,
               NEW i \in Intents, StartParse(c, i, key, changes)
        PROVE  ReadyHolds'
    <2>1. IntentsReady
      BY <1>8 DEF StartParse, ReadyHolds, TypeOK, AbsentIntent
    <2> QED BY <1>1, <1>8, <2>1 DEF StartParse
  <1>9. ASSUME NEW c \in Clients, ParseFailed(c) \/ ParseEnded(c) \/ Links(c)
        PROVE  ReadyHolds'
    <2>1. /\ clients[c].intent \in Intents /\ clients[c].changes \in Changes
          /\ UNCHANGED <<task, scenarios>>
      BY <1>9 DEF ParseFailed, ParseEnded, Links, RequestsHold, RequestHolds
    <2>2. IntentsReady
      <3>1. CASE ParseFailed(c)
        BY <2>1, <3>1 DEF ParseFailed, ReadyHolds, TypeOK, Intent
      <3>2. CASE ParseEnded(c)
        BY <2>1, <3>2 DEF ParseEnded, Parsed, ReadyHolds, TypeOK, Intent
      <3>3. CASE Links(c)
        BY <2>1, <3>3 DEF Links, ReadyHolds, TypeOK, Intent
      <3> QED BY <1>9, <3>1, <3>2, <3>3
    <2> QED BY <1>1, <2>1, <2>2
  <1>10. ASSUME NEW c \in Clients, NEW s \in Scenarios, Writes(c, s)
         PROVE  ReadyHolds'
    <2>1. /\ clients[c] \in Client /\ ReadStands(clients[c])
          /\ clients[c].changes \in Changes
          /\ clients[c].rev = revision /\ clients[c].result = result
      BY <1>10 DEF Writes, TypeOK, RequestsHold, RequestHolds, IsCurrent
    <2>2. /\ scenarios'[s].rev = clients[c].rev
          /\ scenarios'[s].result = clients[c].result
          /\ scenarios'[s].changes = clients[c].changes
          /\ scenarios'[s].before = clients[c].before
          /\ UNCHANGED <<task, intents>>
      BY <1>10, <2>1 DEF Writes, TypeOK
    <2>3. scenarios'[s].changes \in Changes /\ ReadStands(scenarios[s])'
          /\ IsCurrent(scenarios[s])'
      BY <2>1, <2>2 DEF ReadStands, IsCurrent, task
    <2>4. \A t \in Scenarios : t # s => scenarios'[t] = scenarios[t]
      BY <1>10 DEF Writes, TypeOK
    <2> QED BY <1>2, <2>2, <2>3, <2>4 DEF ReadyHolds, ReadStands, IsCurrent, task
  <1>11. /\ \A kind, value : BeginChange(kind, value) =>
                             UNCHANGED <<task, intents, scenarios>>
         /\ \A c, row : Reading(c, row) => UNCHANGED <<task, intents, scenarios>>
         /\ UNCHANGED vars => UNCHANGED <<task, intents, scenarios>>
    BY DEF BeginChange, Reading, Moves, vars
  <1> QED BY <1>1, <1>2, <1>4, <1>5, <1>6, <1>7, <1>8, <1>9, <1>10, <1>11, StepCases

\* The record of an effect is there to stay.
LEMMA RecordsKept ==
  ASSUME ScenarioInv, [Next]_vars
  PROVE  records \subseteq records'
  BY StepCases
  DEF ScenarioInv, BeginChange, CommitChange, PublishResult, ConversationProposes,
      ApplyScenario, StartParse, Reading, Moves, ParseFailed, ParseEnded, Links,
      Writes, Recorded, vars

LEMMA ParsingStep ==
  ASSUME ScenarioInv, [Next]_vars
  PROVE  ParsingHolds'
  <1> USE DEF ScenarioInv
  <1>0. /\ retired' \in Nat /\ retired' >= retired
        /\ Withdraws => retired' = Withdrawn
    BY TaskStep DEF TypeOK, ResultIsNext, task, Publishes, Withdraws, Withdrawn
  <1>1. \A c \in Clients :
          /\ clients[c].result \in Nat
          /\ clients[c].at = "parsing" =>
               /\ clients[c].intent \in Intents /\ Exists(clients[c].intent)
               /\ ReadStands(clients[c])
    BY DEF TypeOK, Client, RequestsHold, RequestHolds, Intents
  <1>2. ASSUME \A c \in Clients : clients'[c].at = "parsing" =>
                 /\ clients'[c] = clients[c]
                 /\ \/ intents'[clients[c].intent] = intents[clients[c].intent]
                    \/ /\ Withdraws
                       /\ intents'[clients[c].intent] =
                            [intents[clients[c].intent] EXCEPT !.status = "STALE"]
        PROVE  ParsingHolds'
    <2>1. \A c \in Clients : intents[clients[c].intent] \in Intent
                             \/ clients[c].at # "parsing"
      BY <1>1 DEF TypeOK
    <2>2. ASSUME NEW c \in Clients, clients'[c].at = "parsing", Withdraws
          PROVE  clients[c].result <= retired'
      <3>1. clients[c].at = "parsing" /\ ReadStands(clients[c])
        BY <1>1, <1>2, <2>2
      <3>2. retired' = Withdrawn /\ clients[c].result \in Nat
        BY <1>0, <1>1, <2>2
      <3> QED BY <3>1, <3>2 DEF ReadStands, IsCurrent, ResultIsNext, TypeOK, Withdrawn
    <2>3. ASSUME NEW c \in Clients, clients'[c].at = "parsing"
          PROVE  IntentInWork(clients[c])'
      <3>1. /\ clients'[c] = clients[c] /\ intents[clients[c].intent] \in Intent
            /\ IntentInWork(clients[c])
        BY <1>2, <2>1, <2>3 DEF ParsingHolds
      <3>2. CASE intents'[clients[c].intent] = intents[clients[c].intent]
        BY <1>0, <1>1, <3>1, <3>2 DEF IntentInWork, TypeOK
      <3>3. ASSUME Withdraws, intents'[clients[c].intent] =
                     [intents[clients[c].intent] EXCEPT !.status = "STALE"]
            PROVE  IntentInWork(clients[c])'
        BY <2>2, <2>3, <3>1, <3>3 DEF IntentInWork, Intent
      <3> QED BY <1>2, <2>3, <3>2, <3>3
    <2>4. ASSUME NEW c \in Clients, NEW d \in Clients,
                 clients'[c].at = "parsing", clients'[d].at = "parsing",
                 clients'[c].intent = clients'[d].intent
          PROVE  c = d
      BY <1>2, <2>4 DEF ParsingHolds
    <2> QED BY <2>3, <2>4 DEF ParsingHolds
  <1>3. ASSUME UNCHANGED <<clients, intents>>
        PROVE  ParsingHolds'
    BY <1>2, <1>3
  <1>4. CASE CommitChange
    <2>1. Withdraws /\ UNCHANGED clients
      BY <1>4, CommitChangeStep DEF CommitChange
    <2>2. \A i \in Intents : \/ intents'[i] = intents[i]
                             \/ intents'[i] = [intents[i] EXCEPT !.status = "STALE"]
      BY <1>4 DEF CommitChange, StaleIntents
    <2> QED BY <1>1, <1>2, <2>1, <2>2
  <1>5. ASSUME NEW s \in Scenarios, ApplyScenario(s)
        PROVE  ParsingHolds'
    <2>1. Withdraws /\ UNCHANGED clients
      BY <1>5, ApplyScenarioStep DEF ApplyScenario
    <2>2. \A i \in Intents : \/ intents'[i] = intents[i]
                             \/ intents'[i] = [intents[i] EXCEPT !.status = "STALE"]
      BY <1>5 DEF ApplyScenario, StaleIntents
    <2> QED BY <1>1, <1>2, <2>1, <2>2
  <1>6. ASSUME NEW i \in Intents, NEW changes \in Changes,
               ConversationProposes(i, changes)
        PROVE  ParsingHolds'
    <2>1. /\ UNCHANGED clients /\ ~Exists(i)
          /\ \A k \in Intents : k # i => intents'[k] = intents[k]
      BY <1>6 DEF ConversationProposes, IsNewIntent, Exists, TypeOK
    <2> QED BY <1>1, <1>2, <2>1
  <1>7. ASSUME NEW c \in Clients, NEW key \in Keys, NEW changes \in Changes,
               NEW i \in Intents, StartParse(c, i, key, changes)
        PROVE  ParsingHolds'
    <2>1. /\ ~Exists(i) /\ retired' = retired
          /\ \A k \in Intents : k # i => intents'[k] = intents[k]
          /\ \A d \in Clients : d # c => clients'[d] = clients[d]
      BY <1>7 DEF StartParse, IsNewIntent, Exists, TypeOK, task
    <2>2. /\ clients'[c].intent = i
          /\ intents'[i].key = clients'[c].key /\ intents'[i].rev = clients'[c].rev
          /\ intents'[i].result = clients'[c].result
          /\ intents'[i].changes = "none" /\ intents'[i].status = "PROCESSING"
      BY <1>7 DEF StartParse, AbsentIntent, IdleClient, TypeOK
    <2> QED BY <1>1, <2>1, <2>2 DEF ParsingHolds, IntentInWork
  <1>8. ASSUME NEW c \in Clients, clients'[c].at # "parsing", UNCHANGED intents,
               \A d \in Clients : d # c => clients'[d] = clients[d]
        PROVE  ParsingHolds'
    BY <1>2, <1>8
  <1>9. ASSUME NEW c \in Clients, NEW row, Reading(c, row)
        PROVE  ParsingHolds'
    BY <1>8, <1>9 DEF Reading, Moves, TypeOK
  <1>10. ASSUME NEW c \in Clients, NEW s \in Scenarios, Writes(c, s)
         PROVE  ParsingHolds'
    BY <1>8, <1>10, ContinuedHolds DEF Writes, TypeOK
  <1>11. ASSUME NEW c \in Clients, ParseFailed(c) \/ ParseEnded(c) \/ Links(c)
         PROVE  ParsingHolds'
    <2>1. /\ clients'[c].at = "idle"
          /\ \A d \in Clients : d # c => clients'[d] = clients[d]
          /\ \A i \in Intents : i # clients[c].intent => intents'[i] = intents[i]
      BY <1>11 DEF ParseFailed, ParseEnded, Links, TypeOK, IdleClient
    <2>2. \A d \in Clients : d # c /\ clients[d].at = "parsing" =>
                             clients[d].intent # clients[c].intent
      BY <1>11 DEF ParseFailed, ParseEnded, Links, ParsingHolds, IntentInWork, IsLinkable
    <2> QED BY <1>1, <1>2, <2>1, <2>2
  <1>12. /\ \A kind, value : BeginChange(kind, value) => UNCHANGED <<clients, intents>>
         /\ PublishResult \/ UNCHANGED vars => UNCHANGED <<clients, intents>>
    BY DEF BeginChange, PublishResult, vars
  <1> QED BY <1>3, <1>4, <1>5, <1>6, <1>7, <1>9, <1>10, <1>11, <1>12, StepCases

\* A usable intent of a request comes from its parser, under a new record.
LEMMA IntentEffects ==
  ASSUME ScenarioInv, [Next]_vars, NEW i \in Intents,
         intents'[i].key # "none", intents'[i].changes # "none"
  PROVE  \/ intents[i].key = intents'[i].key /\ intents[i].changes # "none"
         \/ \E c \in Clients : /\ ParseEnded(c) /\ i = clients[c].intent
                               /\ intents'[i].key = clients[c].key
  <1> USE DEF ScenarioInv
  <1> DEFINE Same == intents[i].key = intents'[i].key /\ intents[i].changes # "none"
  <1>0. intents[i] \in Intent
    BY DEF TypeOK
  <1>1. UNCHANGED intents => Same
    OBVIOUS
  <1>2. CASE CommitChange
    BY <1>0, <1>2 DEF CommitChange, StaleIntents, Intent
  <1>3. ASSUME NEW s \in Scenarios, ApplyScenario(s)
        PROVE  Same
    BY <1>0, <1>3 DEF ApplyScenario, StaleIntents, Intent
  <1>4. ASSUME NEW k \in Intents, NEW changes \in Changes,
               ConversationProposes(k, changes)
        PROVE  Same
    BY <1>4 DEF ConversationProposes, AbsentIntent, TypeOK
  <1>5. ASSUME NEW c \in Clients, NEW key \in Keys, NEW changes \in Changes,
               NEW k \in Intents, StartParse(c, k, key, changes)
        PROVE  Same
    BY <1>5 DEF StartParse, AbsentIntent, TypeOK
  <1>6. ASSUME NEW c \in Clients, ParseFailed(c) \/ Links(c)
        PROVE  Same
    <2>1. \/ intents'[i] = intents[i]
          \/ intents'[i] = [intents[i] EXCEPT !.status = "FAILED"]
          \/ intents'[i] = [intents[i] EXCEPT !.status = "CONFIRMED",
                                              !.scenario = clients[c].scenario]
      BY <1>6 DEF ParseFailed, Links, TypeOK
    <2> QED BY <1>0, <2>1 DEF Intent
  <1>7. ASSUME NEW c \in Clients, ParseEnded(c)
        PROVE  \/ Same
               \/ i = clients[c].intent /\ intents'[i].key = clients[c].key
    <2>1. CASE i = clients[c].intent
      <3>1. intents'[i] = Parsed(c) /\ intents[i].key = clients[c].key
        BY <1>7, <2>1 DEF ParseEnded, TypeOK, ParsingHolds, IntentInWork
      <3>2. Parsed(c).key = intents[i].key
        BY <1>0, <2>1 DEF Parsed, Intent
      <3> QED BY <2>1, <3>1, <3>2
    <2> QED BY <1>7, <2>1 DEF ParseEnded, TypeOK
  <1>8. /\ \A kind, value : BeginChange(kind, value) => UNCHANGED intents
        /\ PublishResult \/ UNCHANGED vars => UNCHANGED intents
        /\ \A c, row : Reading(c, row) => UNCHANGED intents
        /\ \A c, s : Writes(c, s) => UNCHANGED intents
    BY DEF BeginChange, PublishResult, vars, Reading, Moves, Writes
  <1> QED BY <1>1, <1>2, <1>3, <1>4, <1>5, <1>6, <1>7, <1>8, StepCases

LEMMA EffectsStep ==
  ASSUME ScenarioInv, [Next]_vars
  PROVE  EffectsRecorded' /\ OneEffectPerKey'
  <1> USE DEF ScenarioInv
  <1>0. \A operation, target, key : IsRecorded(operation, target, key) =>
                                    IsRecorded(operation, target, key)'
    BY RecordsKept DEF IsRecorded
  <1>1. ASSUME NEW i \in Intents, intents'[i].key # "none", intents'[i].changes # "none"
        PROVE  IsRecorded("parse", 0, intents[i].key)'
    <2>1. ASSUME NEW c \in Clients, ParseEnded(c), intents'[i].key = clients[c].key
          PROVE  IsRecorded("parse", 0, intents[i].key)'
      BY <2>1 DEF ParseEnded, Recorded, IsRecorded
    <2>2. ASSUME intents[i].key = intents'[i].key, intents[i].changes # "none"
          PROVE  IsRecorded("parse", 0, intents[i].key)'
      BY <1>0, <1>1, <2>2 DEF EffectsRecorded, IsRecorded
    <2> QED BY <1>1, <2>1, <2>2, IntentEffects
  <1>2. ASSUME NEW s \in Scenarios, scenarios'[s].status # "ABSENT"
        PROVE  IsRecorded("create", scenarios[s].origin, scenarios[s].key)'
    <2>1. CASE SameScenario(s)
      BY <1>0, <1>2, <2>1 DEF SameScenario, EffectsRecorded, IsRecorded
    <2>2. ASSUME NEW c \in Clients, Writes(c, s)
          PROVE  IsRecorded("create", scenarios[s].origin, scenarios[s].key)'
      BY <2>2 DEF Writes, Recorded, IsRecorded, TypeOK
    <2> QED BY <2>1, <2>2, RowsKept
  <1>3. ASSUME NEW i \in Intents, NEW k \in Intents,
               intents'[i].key # "none", intents'[i].key = intents'[k].key,
               intents'[i].changes # "none", intents'[k].changes # "none"
        PROVE  i = k
    <2> DEFINE Old(j) == intents[j].key = intents'[j].key /\ intents[j].changes # "none"
               New(j) == \E c \in Clients : /\ ParseEnded(c) /\ j = clients[c].intent
                                            /\ intents'[j].key = clients[c].key
    <2>1. (Old(i) \/ New(i)) /\ (Old(k) \/ New(k))
      BY <1>3, IntentEffects
    <2>2. CASE Old(i) /\ Old(k)
      BY <1>3, <2>2 DEF OneEffectPerKey
    <2>3. \A j \in Intents : Old(j) /\ intents'[j].key # "none" =>
                             IsRecorded("parse", 0, intents'[j].key)
      BY DEF EffectsRecorded
    <2>4. \A j \in Intents : New(j) => ~IsRecorded("parse", 0, intents'[j].key)
      BY DEF ParseEnded
    <2>5. CASE New(i) /\ New(k)
      <3>1. PICK c \in Clients : ParseEnded(c) /\ i = clients[c].intent
        BY <2>5
      <3>2. PICK d \in Clients : ParseEnded(d) /\ k = clients[d].intent
        BY <2>5
      <3>3. c = d
        BY <3>1, <3>2 DEF ParseEnded, TypeOK, IdleClient
      <3> QED BY <3>1, <3>2, <3>3
    <2> HIDE DEF Old, New
    <2> QED BY <1>3, <2>1, <2>2, <2>3, <2>4, <2>5
  <1>4. ASSUME NEW s \in Scenarios, NEW t \in Scenarios,
               scenarios'[s].status # "ABSENT", scenarios'[t].status # "ABSENT",
               scenarios'[s].origin = scenarios'[t].origin,
               scenarios'[s].key = scenarios'[t].key
        PROVE  s = t
    <2>1. CASE SameScenario(s) /\ SameScenario(t)
      BY <1>4, <2>1 DEF SameScenario, OneEffectPerKey
    <2>2. ASSUME NEW u \in Scenarios, NEW v \in Scenarios, u # v,
                 scenarios'[v].status # "ABSENT",
                 scenarios'[u].origin = scenarios'[v].origin,
                 scenarios'[u].key = scenarios'[v].key,
                 NEW c \in Clients, Writes(c, u)
          PROVE  FALSE
      <3>1. /\ scenarios'[u].origin = clients[c].intent
            /\ scenarios'[u].key = clients[c].key
            /\ scenarios'[v] = scenarios[v]
        BY <2>2 DEF Writes, TypeOK
      <3>2. IsRecorded("create", clients[c].intent, clients[c].key)
        BY <2>2, <3>1 DEF EffectsRecorded
      <3> QED BY <2>2, <3>2 DEF Writes
    <2> QED BY <1>4, <2>1, <2>2, RowsKept
  <1>5. EffectsRecorded'
    BY <1>1, <1>2 DEF EffectsRecorded
  <1>6. OneEffectPerKey'
    BY <1>3, <1>4 DEF OneEffectPerKey
  <1> QED BY <1>5, <1>6

-----------------------------------------------------------------------------
(* The theorems about scenarios.                                           *)

\* However the requests interleave, the parts of the invariant hold together.
THEOREM ScenarioInvariance == Spec => []ScenarioInv
  <1>1. Init => ScenarioInv
    <2> SUFFICES ASSUME Init PROVE ScenarioInv
      OBVIOUS
    <2> USE ChoicesAssumption DEF Init, Task!Init, AbsentIntent, AbsentScenario,
                                  IdleClient, NoChange
    <2>1. TypeOK
      BY DEF TypeOK, Intent, IntentStatuses, Scenario, Client, Settings
    <2>2. ResultIsNext /\ AbsentRows /\ ReadyHolds /\ EffectsRecorded
      BY DEF ResultIsNext, AbsentRows, ReadyHolds, EffectsRecorded
    <2>3. ChangeHolds
      BY DEF ChangeHolds, Unlocked, Settings
    <2>4. RequestsHold
      BY DEF RequestsHold, RequestHolds
    <2>5. ParsingHolds /\ OneEffectPerKey
      BY DEF ParsingHolds, OneEffectPerKey
    <2> QED BY <2>1, <2>2, <2>3, <2>4, <2>5 DEF ScenarioInv
  <1>2. ScenarioInv /\ [Next]_vars => ScenarioInv'
    BY TypeStep, AbsentStep, ResultStep, ChangeStep, RequestsStep, ParsingStep,
       ReadyStep, EffectsStep DEF ScenarioInv
  <1> QED BY <1>1, <1>2, PTL DEF Spec

\* Equal requests, sent again while the first one is still handled, have one
\* effect: one usable intent and one scenario per key (service.py,
\* _existing_idempotent and the unique constraint of IdempotencyRecord).
THEOREM OneEffect == Spec => []OneEffectPerKey
  BY ScenarioInvariance, PTL DEF ScenarioInv

LEMMA ReadyIsCurrent ==
  ASSUME ScenarioInv
  PROVE  ReadyScenarioIsCurrent
  BY DEF ScenarioInv, TypeOK, ResultIsNext, ReadyHolds, ReadStands, IsCurrent,
         ReadyScenarioIsCurrent, ReadyScenarios, Scenario

\* A scenario that is offered was computed for what is published now and from
\* the settings in force (create_decision_scenario compares under the lock what
\* it read without it; _supersede_current_graph makes the others stale).
THEOREM ReadyScenarios_AreCurrent == Spec => []ReadyScenarioIsCurrent
  BY ScenarioInvariance, ReadyIsCurrent, PTL

\* apply_decision_scenario changes the settings a scenario was computed from,
\* and the decision it was computed for, never later ones.
THEOREM AppliedToBaseline == Spec => AppliesToItsBaseline
  <1>1. ASSUME ScenarioInv, [Next]_vars, NEW s \in Scenarios,
               scenarios'[s].status = "APPLIED", scenarios[s].status # "APPLIED"
        PROVE  IsCurrent(scenarios[s]) /\ scenarios[s].before = settings
    <2> USE DEF ScenarioInv
    <2>1. ~UNCHANGED scenarios
      BY <1>1
    <2>a. /\ scenarios[s] \in Scenario /\ scenarios[s].status # "APPLIED"
          /\ scenarios'[s].status = "APPLIED"
      BY <1>1 DEF TypeOK
    <2>b. [scenarios[s] EXCEPT !.status = "STALE"].status = "STALE"
      BY <2>a DEF Scenario
    <2>c. ASSUME scenarios' = StaleScenarios(change.scenarios)
          PROVE  FALSE
      <3>1. scenarios'[s] = IF s \in change.scenarios
                            THEN [scenarios[s] EXCEPT !.status = "STALE"]
                            ELSE scenarios[s]
        BY <2>c DEF StaleScenarios
      <3> QED BY <2>a, <2>b, <3>1
    <2>2. ~CommitChange
      <3> HIDE DEF ScenarioInv
      <3>1. CommitChange => scenarios' = StaleScenarios(change.scenarios)
        BY Zenon DEF CommitChange
      <3> QED BY <2>c, <3>1
    <2>3. ASSUME NEW t \in Scenarios, ApplyScenario(t)
          PROVE  scenarios[s].status = "READY"
      BY <1>1, <2>3
      DEF ApplyScenario, IsApplicable, StaleScenarios, TypeOK, Scenario
    <2>4. ASSUME NEW c \in Clients, NEW t \in Scenarios, Writes(c, t)
          PROVE  FALSE
      BY <1>1, <2>4 DEF Writes, TypeOK
    <2>5. /\ \A kind, value : BeginChange(kind, value) => UNCHANGED scenarios
          /\ PublishResult \/ UNCHANGED vars => UNCHANGED scenarios
          /\ \A i, changes : ConversationProposes(i, changes) => UNCHANGED scenarios
          /\ \A c, key, changes, i : StartParse(c, i, key, changes) =>
                                     UNCHANGED scenarios
          /\ \A c, row : Reading(c, row) => UNCHANGED scenarios
          /\ \A c : ParseFailed(c) \/ ParseEnded(c) \/ Links(c) =>
                    UNCHANGED scenarios
      BY DEF BeginChange, PublishResult, ConversationProposes, StartParse, Reading,
             Moves, ParseFailed, ParseEnded, Links, vars
    <2>6. scenarios[s].status = "READY"
      BY <1>1, <2>1, <2>2, <2>3, <2>4, <2>5, StepCases
    <2> QED BY <1>1, <2>6, ReadyIsCurrent DEF ReadyScenarioIsCurrent, ReadyScenarios
  <1>2. ScenarioInv /\ [Next]_vars => [AppliesCurrent]_vars
    BY <1>1 DEF AppliesCurrent
  <1> QED BY <1>2, ScenarioInvariance, PTL DEF Spec, AppliesToItsBaseline

-----------------------------------------------------------------------------
(* Intents.                                                                *)

\* What a step may do to an intent.
LEMMA IntentSteps ==
  ASSUME ScenarioInv, [Next]_vars, NEW i \in Intents
  PROVE  \/ intents'[i] = intents[i]
         \/ \E st \in {"FAILED", "STALE"} :
              intents'[i] = [intents[i] EXCEPT !.status = st]
         \/ /\ intents[i].status \in {"ABSENT", "PROCESSING"}
            /\ intents'[i].status # "CONFIRMED"
            /\ intents'[i].status = "READY" =>
                 /\ IsCurrent(intents'[i]) /\ result > 0
                 /\ Overlapping \/ Unlocked
                 /\ UNCHANGED <<task, change>>
         \/ \E c \in Clients : /\ Links(c) /\ i = clients[c].intent
                               /\ intents'[i] = [intents[i] EXCEPT
                                    !.status = "CONFIRMED",
                                    !.scenario = clients[c].scenario]
  <1> USE DEF ScenarioInv
  <1> DEFINE Ended == \E st \in {"FAILED", "STALE"} :
                        intents'[i] = [intents[i] EXCEPT !.status = st]
             Started == /\ intents[i].status \in {"ABSENT", "PROCESSING"}
                        /\ intents'[i].status # "CONFIRMED"
                        /\ intents'[i].status = "READY" =>
                             /\ IsCurrent(intents'[i]) /\ result > 0
                             /\ Overlapping \/ Unlocked
                             /\ UNCHANGED <<task, change>>
             NowLinked == \E c \in Clients :
                         /\ Links(c) /\ i = clients[c].intent
                         /\ intents'[i] = [intents[i] EXCEPT
                              !.status = "CONFIRMED",
                              !.scenario = clients[c].scenario]
             Same == intents'[i] = intents[i]
  <1>1. CommitChange => Same \/ Ended
    BY DEF CommitChange, StaleIntents
  <1>2. \A s : ApplyScenario(s) => Same \/ Ended
    BY DEF ApplyScenario, StaleIntents
  <1>3. ASSUME NEW k \in Intents, NEW changes \in Changes,
               ConversationProposes(k, changes)
        PROVE  Same \/ Started
    <2>1. CASE k = i
      <3>1. /\ intents[i].status = "ABSENT" /\ (Overlapping \/ Unlocked)
            /\ UNCHANGED <<task, change>>
        BY <1>3, <2>1 DEF ConversationProposes, IsNewIntent
      <3>2. /\ intents'[i].status = "READY" /\ intents'[i].rev = revision
            /\ intents'[i].result = result /\ result > 0
        BY <1>3, <2>1 DEF ConversationProposes, AbsentIntent, TypeOK
      <3> QED BY <3>1, <3>2 DEF IsCurrent
    <2> QED BY <1>3, <2>1 DEF ConversationProposes, TypeOK
  <1>4. ASSUME NEW c \in Clients, NEW key \in Keys, NEW changes \in Changes,
               NEW k \in Intents, StartParse(c, k, key, changes)
        PROVE  Same \/ Started
    BY <1>4 DEF StartParse, IsNewIntent, AbsentIntent, TypeOK
  <1>5. ASSUME NEW c \in Clients, ParseFailed(c)
        PROVE  Same \/ Ended
    BY <1>5 DEF ParseFailed, TypeOK
  <1>6. ASSUME NEW c \in Clients, ParseEnded(c)
        PROVE  Same \/ Ended \/ Started
    <2>1. CASE i # clients[c].intent
      BY <1>6, <2>1 DEF ParseEnded, TypeOK
    <2>2. CASE i = clients[c].intent /\ ~IsCurrent(clients[c])
      BY <1>6, <2>2 DEF ParseEnded, Parsed, TypeOK
    <2>3. CASE i = clients[c].intent /\ IsCurrent(clients[c])
      <3>1. /\ IntentInWork(clients[c]) /\ ReadStands(clients[c])
            /\ clients[c].result \in Nat /\ intents[i] \in Intent
        BY <1>6 DEF ParseEnded, ParsingHolds, RequestsHold, RequestHolds, TypeOK,
                    Client
      <3>2. intents[i].status = "PROCESSING" /\ result > 0
        BY <2>3, <3>1
        DEF IntentInWork, ReadStands, IsCurrent, ResultIsNext, TypeOK
      <3>3. intents'[i] = [intents[i] EXCEPT !.status = "READY",
                                             !.changes = clients[c].changes]
        BY <1>6, <2>3 DEF ParseEnded, Parsed, TypeOK
      <3>4. IsCurrent(intents'[i])
        BY <2>3, <3>1, <3>3 DEF IntentInWork, IsCurrent, Intent
      <3>5. intents'[i].status = "READY" /\ Unlocked /\ UNCHANGED <<task, change>>
        BY <1>6, <3>1, <3>3 DEF ParseEnded, Intent
      <3> HIDE DEF Ended, Same
      <3> QED BY <3>2, <3>4, <3>5
    <2> QED BY <2>1, <2>2, <2>3
  <1>7. ASSUME NEW c \in Clients, Links(c)
        PROVE  Same \/ NowLinked
    BY <1>7 DEF Links, TypeOK
  <1>8. /\ \A kind, value : BeginChange(kind, value) => Same
        /\ PublishResult \/ UNCHANGED vars => Same
        /\ \A c, row : Reading(c, row) => Same
        /\ \A c, s : Writes(c, s) => Same
    BY DEF BeginChange, PublishResult, vars, Reading, Moves, Writes
  <1> HIDE DEF Same, Ended, Started, NowLinked
  <1>9. Same \/ Ended \/ Started \/ NowLinked
    BY <1>1, <1>2, <1>3, <1>4, <1>5, <1>6, <1>7, <1>8, StepCases
  <1> QED BY <1>9 DEF Same, Ended, Started, NowLinked

\* What is known of an intent once it was ready stays true.
LEMMA IsOfKept ==
  ASSUME ScenarioInv, [Next]_vars, NEW i \in Intents,
         intents[i].status \notin {"ABSENT", "PROCESSING"}
  PROVE  /\ intents'[i].status \notin {"ABSENT", "PROCESSING"}
         /\ intents'[i].changes = intents[i].changes
         /\ intents'[i].rev = intents[i].rev
         /\ intents'[i].result = intents[i].result
         /\ intents'[i].status = "READY" => intents'[i] = intents[i]
  <1>1. intents[i] \in Intent
    BY DEF ScenarioInv, TypeOK
  <1>2. \/ intents'[i] = intents[i]
        \/ intents'[i] = [intents[i] EXCEPT !.status = "FAILED"]
        \/ intents'[i] = [intents[i] EXCEPT !.status = "STALE"]
        \/ \E c \in Clients :
             intents'[i] = [intents[i] EXCEPT !.status = "CONFIRMED",
                                              !.scenario = clients[c].scenario]
    BY IntentSteps
  <1> QED BY <1>1, <1>2 DEF Intent

LEMMA ReadyIntentsStep ==
  ASSUME ScenarioInv, IntentInv, [Next]_vars
  PROVE  ReadyIntentsHold'
  <1> USE DEF ScenarioInv, IntentInv
  <1> SUFFICES ASSUME NEW i \in Intents, intents'[i].status = "READY", ~Overlapping
               PROVE  /\ intents'[i].result > 0 /\ IsCurrent(intents[i])'
                      /\ ~Unlocked' => i \in change'.intents
    BY DEF ReadyIntentsHold
  <1>0. intents[i] \in Intent /\ intents'[i] \in Intent
    BY TypeStep DEF TypeOK
  <1>1. \/ intents'[i] = intents[i]
        \/ /\ IsCurrent(intents'[i]) /\ result > 0 /\ Unlocked
           /\ UNCHANGED <<task, change>>
    BY <1>0, IntentSteps DEF Intent
  <1>2. CASE /\ IsCurrent(intents'[i]) /\ result > 0 /\ Unlocked
             /\ UNCHANGED <<task, change>>
    BY <1>2 DEF IsCurrent, task, Unlocked
  <1>3. CASE intents'[i] = intents[i]
    <2>0. /\ intents[i].result > 0 /\ IsCurrent(intents[i])
          /\ ~Unlocked => i \in change.intents
      BY <1>3 DEF ReadyIntentsHold
    <2>1. ASSUME NEW kind \in {"inputs", "compliance", "abandon"},
                 NEW value \in Settings, BeginChange(kind, value)
          PROVE  UNCHANGED task /\ i \in change'.intents
      BY <1>3, <2>1 DEF BeginChange, OpenIntents
    <2>2. ~CommitChange
      BY <1>0, <1>3, <2>0 DEF CommitChange, StaleIntents, Intent
    <2>3. ~PublishResult
      BY <2>0, PublishResultStep DEF Publishes, IsCurrent
    <2>4. ASSUME NEW s \in Scenarios, ApplyScenario(s)
          PROVE  FALSE
      BY <1>0, <1>3, <2>4 DEF ApplyScenario, StaleIntents, OpenIntents, Intent
    <2>5. /\ \A k, changes : ConversationProposes(k, changes) =>
                             UNCHANGED <<task, change>>
          /\ \A c, key, changes, k : StartParse(c, k, key, changes) =>
                             UNCHANGED <<task, change>>
          /\ \A c, row : Reading(c, row) => UNCHANGED <<task, change>>
          /\ \A c : ParseFailed(c) \/ ParseEnded(c) \/ Links(c) =>
                             UNCHANGED <<task, change>>
          /\ \A c, s : Writes(c, s) => UNCHANGED <<task, change>>
          /\ UNCHANGED vars => UNCHANGED <<task, change>>
      BY DEF ConversationProposes, StartParse, Reading, Moves, ParseFailed, ParseEnded,
             Links, Writes, vars
    <2>6. UNCHANGED task /\ (UNCHANGED change \/ i \in change'.intents)
      BY <2>1, <2>2, <2>3, <2>4, <2>5, StepCases
    <2> QED BY <1>3, <2>0, <2>6 DEF IsCurrent, task, Unlocked
  <1> QED BY <1>1, <1>2, <1>3

LEMMA ScenariosOfIntentsStep ==
  ASSUME ScenarioInv, IntentInv, [Next]_vars
  PROVE  ScenariosOfIntents'
  <1> USE DEF ScenarioInv, IntentInv
  <1> SUFFICES ASSUME NEW s \in Scenarios, scenarios'[s].status # "ABSENT",
                      scenarios'[s].origin # 0
               PROVE  LET i == scenarios'[s].origin
                      IN  /\ intents'[i].status \notin {"ABSENT", "PROCESSING"}
                          /\ scenarios'[s].changes = intents'[i].changes
                          /\ scenarios'[s].rev = intents'[i].rev
                          /\ ~Overlapping /\ intents'[i].status = "READY" =>
                               scenarios'[s].result = intents'[i].result
    BY DEF ScenariosOfIntents, IsOf
  <1>0. scenarios'[s].origin \in Intents
    BY TypeStep DEF TypeOK, Scenario
  <1>1. CASE SameScenario(s)
    BY <1>0, <1>1, IsOfKept DEF SameScenario, ScenariosOfIntents, IsOf
  <1>2. ASSUME NEW c \in Clients, Writes(c, s)
        PROVE  LET i == scenarios'[s].origin
               IN  /\ intents'[i].status \notin {"ABSENT", "PROCESSING"}
                   /\ scenarios'[s].changes = intents'[i].changes
                   /\ scenarios'[s].rev = intents'[i].rev
                   /\ ~Overlapping /\ intents'[i].status = "READY" =>
                        scenarios'[s].result = intents'[i].result
    <2>1. /\ scenarios'[s].origin = clients[c].intent
          /\ scenarios'[s].changes = clients[c].changes
          /\ scenarios'[s].rev = clients[c].rev
          /\ scenarios'[s].result = result
          /\ clients[c].at = "creating" /\ intents' = intents
      BY <1>2 DEF Writes, TypeOK
    <2>2. IsOf(clients[c], clients[c].intent)
      BY <2>1 DEF ConfirmingHolds, RequestConfirms
    <2> QED BY <1>0, <2>1, <2>2 DEF IsOf, ReadyIntentsHold, IsCurrent
  <1> QED BY <1>1, <1>2, RowsKept

LEMMA ConfirmingStep ==
  ASSUME ScenarioInv, IntentInv, [Next]_vars
  PROVE  ConfirmingHolds'
  <1> USE DEF ScenarioInv, IntentInv
  <1>0. \A c \in Clients : /\ clients[c] \in Client /\ RequestHolds(clients[c])
                           /\ RequestConfirms(clients[c])
    BY DEF TypeOK, RequestsHold, ConfirmingHolds
  <1>1. ASSUME NEW d \in Clients, clients'[d] = clients[d]
        PROVE  RequestConfirms(clients[d])'
    <2>1. clients[d].intent \in Intents \cup {0}
      BY <1>0 DEF Client
    <2> DEFINE i == clients[d].intent
    <2>2. /\ clients[d].at \in {"confirming", "creating", "linking"} /\ i # 0
          => /\ intents'[i].status \notin {"ABSENT", "PROCESSING"}
             /\ clients[d].changes = intents'[i].changes
             /\ clients[d].rev = intents'[i].rev
      <3> SUFFICES ASSUME clients[d].at \in {"confirming", "creating", "linking"},
                          i # 0
                   PROVE  /\ intents'[i].status \notin {"ABSENT", "PROCESSING"}
                          /\ clients[d].changes = intents'[i].changes
                          /\ clients[d].rev = intents'[i].rev
        OBVIOUS
      <3>1. i \in Intents /\ IsOf(clients[d], i)
        BY <1>0, <2>1 DEF RequestConfirms
      <3> QED BY <3>1, IsOfKept DEF IsOf
    <2>3. clients[d].at = "linking" =>
            scenarios'[clients[d].scenario].origin = clients[d].intent
      BY <1>0, RowsKept DEF RequestConfirms, RequestHolds, SameScenario, Writes
    <2> QED BY <1>1, <2>2, <2>3 DEF RequestConfirms, IsOf
  <1>2. ASSUME UNCHANGED clients
        PROVE  ConfirmingHolds'
    BY <1>1, <1>2 DEF ConfirmingHolds
  <1>3. ASSUME NEW c \in Clients, NEW row, clients' = [clients EXCEPT ![c] = row],
               RequestConfirms(clients[c])'
        PROVE  ConfirmingHolds'
    BY <1>1, <1>3 DEF ConfirmingHolds, TypeOK
  <1>4. ASSUME NEW c \in Clients, NEW row, clients' = [clients EXCEPT ![c] = row],
               row.at \in {"idle", "parsing"}
        PROVE  ConfirmingHolds'
    BY <1>3, <1>4 DEF RequestConfirms, TypeOK
  <1>5. ASSUME NEW c \in Clients, NEW row, RequestConfirms(row), Moves(c, row)
        PROVE  ConfirmingHolds'
    <2>1. /\ clients' = [clients EXCEPT ![c] = row] /\ clients'[c] = row
          /\ UNCHANGED <<intents, scenarios>>
      BY <1>5 DEF Moves, TypeOK
    <2>2. RequestConfirms(clients[c])'
      BY <1>5, <2>1 DEF RequestConfirms, IsOf
    <2> QED BY <1>3, <2>1, <2>2
  <1>6. /\ \A kind, value : BeginChange(kind, value) => UNCHANGED clients
        /\ CommitChange \/ PublishResult \/ UNCHANGED vars => UNCHANGED clients
        /\ \A i, changes : ConversationProposes(i, changes) => UNCHANGED clients
        /\ \A s : ApplyScenario(s) => UNCHANGED clients
    BY DEF BeginChange, CommitChange, PublishResult, ConversationProposes,
           ApplyScenario, vars
  <1>7. ASSUME NEW c \in Clients, NEW key \in Keys, NEW changes \in Changes,
               NEW i \in Intents, StartParse(c, i, key, changes)
        PROVE  ConfirmingHolds'
    BY <1>4, <1>7 DEF StartParse, IdleClient
  <1>8. ASSUME NEW c \in Clients,
               ParseFails(c) \/ ParseEnds(c) \/ LinkScenario(c) \/ RequestDies(c)
        PROVE  ConfirmingHolds'
    <2>1. clients' = [clients EXCEPT ![c] = IdleClient]
      BY <1>8 DEF ParseFails, ParseEnds, LinkScenario, RequestDies, Ends
    <2> QED BY <1>4, <2>1, IdleHolds
  <1>9. ASSUME NEW c \in Clients, NEW key \in Keys, NEW changes \in Changes,
               CreateScenario(c, key, changes)
        PROVE  ConfirmingHolds'
    <2> DEFINE row == [at |-> "creating", key |-> key, intent |-> 0,
                       changes |-> changes, rev |-> revision, result |-> result,
                       before |-> settings, scenario |-> 0]
    <2>1. RequestConfirms(row) /\ Moves(c, row)
      BY <1>9 DEF CreateScenario, Reads, Moves, RequestConfirms
    <2> QED BY <1>5, <2>1
  <1>10. ASSUME NEW c \in Clients, NEW i \in Intents, NEW key \in Keys,
                ConfirmIntent(c, i, key)
         PROVE  ConfirmingHolds'
    <2> DEFINE row == [IdleClient EXCEPT !.at = "confirming", !.key = key,
                         !.intent = i, !.changes = intents[i].changes,
                         !.rev = revision]
    <2>1. Moves(c, row)
      BY <1>10 DEF ConfirmIntent, Moves
    <2>2. row.at = "confirming" /\ row.intent = i
          /\ row.changes = intents[i].changes /\ row.rev = revision
      BY DEF IdleClient
    <2>3. intents[i].status = "READY" /\ intents[i].rev = revision
      BY <1>10 DEF ConfirmIntent, IsCurrent
    <2> HIDE DEF row
    <2>4. RequestConfirms(row)
      BY <2>2, <2>3 DEF RequestConfirms, IsOf
    <2> QED BY <1>5, <2>1, <2>4
  <1>11. ASSUME NEW c \in Clients, ConfirmCreates(c)
         PROVE  ConfirmingHolds'
    <2>1. CASE Ends(c)
      BY <1>4, <2>1, IdleHolds DEF Ends
    <2>2. CASE /\ revision = clients[c].rev
               /\ Reads(c, clients[c].key, clients[c].intent, clients[c].changes)
      <3> DEFINE row == [at |-> "creating", key |-> clients[c].key,
                         intent |-> clients[c].intent,
                         changes |-> clients[c].changes, rev |-> revision,
                         result |-> result, before |-> settings, scenario |-> 0]
      <3>1. Moves(c, row)
        BY <2>2 DEF Reads, Moves
      <3>2. RequestConfirms(clients[c]) /\ clients[c].at = "confirming"
        BY <1>0, <1>11 DEF ConfirmCreates
      <3>3. RequestConfirms(row)
        BY <2>2, <3>2 DEF RequestConfirms, IsOf
      <3> QED BY <1>5, <3>1, <3>3
    <2> QED BY <1>11, <2>1, <2>2 DEF ConfirmCreates
  <1>12. ASSUME NEW c \in Clients, WriteScenario(c)
         PROVE  ConfirmingHolds'
    <2>1. CASE Moves(c, IdleClient)
      BY <1>4, <2>1, IdleHolds DEF Moves
    <2>2. ASSUME clients[c].intent = 0, NEW s \in Scenarios,
                 clients' = [clients EXCEPT ![c] = Continued(c, s)]
          PROVE  ConfirmingHolds'
      BY <1>4, <2>2, IdleHolds DEF Continued
    <2>3. ASSUME clients[c].intent # 0, clients[c].at = "creating",
                 NEW s \in Scenarios, scenarios'[s].origin = clients[c].intent,
                 clients' = [clients EXCEPT ![c] = Continued(c, s)],
                 UNCHANGED intents
          PROVE  ConfirmingHolds'
      <3>1. clients'[c] = [clients[c] EXCEPT !.at = "linking", !.scenario = s]
        BY <2>3 DEF Continued, TypeOK
      <3>2. clients[c] \in Client /\ IsOf(clients[c], clients[c].intent)
        BY <1>0, <2>3 DEF RequestConfirms
      <3>3. /\ clients'[c].at = "linking" /\ clients'[c].scenario = s
            /\ clients'[c].intent = clients[c].intent
            /\ clients'[c].changes = clients[c].changes
            /\ clients'[c].rev = clients[c].rev
        BY <3>1, <3>2 DEF Client
      <3>4. RequestConfirms(clients[c])'
        BY <2>3, <3>2, <3>3 DEF RequestConfirms, IsOf
      <3> QED BY <1>3, <2>3, <3>4
    <2>4. ASSUME NEW s \in Scenarios, clients[c].at = "creating",
                 scenarios[s].origin = clients[c].intent, Moves(c, Continued(c, s))
          PROVE  ConfirmingHolds'
      BY <2>2, <2>3, <2>4 DEF Moves
    <2>5. ASSUME NEW s \in Scenarios, Writes(c, s)
          PROVE  ConfirmingHolds'
      <3>1. scenarios'[s].origin = clients[c].intent
        BY <2>5 DEF Writes, TypeOK
      <3> QED BY <2>2, <2>3, <2>5, <3>1 DEF Writes
    <2> QED BY <1>12, <2>1, <2>4, <2>5, WriteScenarioCases
  <1> QED BY <1>2, <1>6, <1>7, <1>8, <1>9, <1>10, <1>11, <1>12 DEF Next

LEMMA ConfirmedStep ==
  ASSUME ScenarioInv, IntentInv, [Next]_vars
  PROVE  ConfirmedForItsChanges' /\ (~Overlapping => ConfirmedAsRead')
  <1> USE DEF ScenarioInv, IntentInv
  <1>0. \A i \in Intents : intents[i] \in Intent
    BY DEF TypeOK
  <1>1. ASSUME NEW i \in Intents, intents'[i].status = "CONFIRMED"
        PROVE  \/ intents'[i] = intents[i]
               \/ /\ \E c \in Clients : /\ Links(c) /\ i = clients[c].intent
                                        /\ intents'[i].scenario = clients[c].scenario
                  /\ intents'[i].changes = intents[i].changes
                  /\ intents'[i].rev = intents[i].rev
                  /\ intents'[i].result = intents[i].result
    BY <1>0, <1>1, IntentSteps DEF Intent
  \* A request links a scenario of its intent, which is still ready.
  <1>2. ASSUME NEW c \in Clients, Links(c)
        PROVE  LET i == clients[c].intent
                   s == clients[c].scenario
               IN  /\ s \in Scenarios /\ scenarios[s].status # "ABSENT"
                   /\ scenarios[s].origin = i
                   /\ scenarios[s].changes = intents[i].changes
                   /\ scenarios[s].rev = intents[i].rev
                   /\ ~Overlapping => scenarios[s].result = intents[i].result
                   /\ scenarios' = scenarios
    <2> DEFINE i == clients[c].intent
               s == clients[c].scenario
    <2>1. /\ clients[c].at = "linking" /\ scenarios' = scenarios
          /\ intents[i].status = "READY"
      BY <1>2 DEF Links, IsLinkable
    <2>2. /\ s \in Scenarios /\ scenarios[s].status # "ABSENT"
          /\ scenarios[s].origin = i /\ i \in Intents
      BY <2>1 DEF RequestsHold, RequestHolds, ConfirmingHolds, RequestConfirms
    <2>3. i # 0
      BY <2>2 DEF Intents
    <2> QED BY <2>1, <2>2, <2>3 DEF ScenariosOfIntents, IsOf
  <1>3. ConfirmedForItsChanges'
    <2> SUFFICES ASSUME NEW i \in Intents, intents'[i].status = "CONFIRMED"
                 PROVE  LET s == intents'[i].scenario
                        IN  /\ s \in Scenarios /\ scenarios'[s].status # "ABSENT"
                            /\ scenarios'[s].origin = i
                            /\ scenarios'[s].changes = intents'[i].changes
                            /\ scenarios'[s].rev = intents'[i].rev
      BY DEF ConfirmedForItsChanges
    <2>1. CASE intents'[i] = intents[i]
      BY <2>1, RowsKept DEF ConfirmedForItsChanges, SameScenario, Writes
    <2> QED BY <1>1, <1>2, <2>1
  <1>4. ASSUME ~Overlapping
        PROVE  ConfirmedAsRead'
    <2> SUFFICES ASSUME NEW i \in Intents, intents'[i].status = "CONFIRMED"
                 PROVE  LET s == scenarios'[intents'[i].scenario]
                        IN  /\ s.changes = intents'[i].changes
                            /\ s.rev = intents'[i].rev
                            /\ s.result = intents'[i].result
      BY DEF ConfirmedAsRead
    <2>1. CASE intents'[i] = intents[i]
      BY <1>4, <2>1, RowsKept
      DEF ConfirmedAsRead, ConfirmedForItsChanges, SameScenario, Writes
    <2> QED BY <1>1, <1>2, <1>4, <2>1
  <1> QED BY <1>3, <1>4

LEMMA IntentInvariance == Spec => []IntentInv
  <1>1. Init => IntentInv
    BY DEF Init, IntentInv, ReadyIntentsHold, ConfirmingHolds, RequestConfirms,
           ScenariosOfIntents, ConfirmedAsRead, ConfirmedForItsChanges, AbsentIntent,
           AbsentScenario, IdleClient
  <1>2. ScenarioInv /\ IntentInv /\ [Next]_vars => IntentInv'
    BY ReadyIntentsStep, ConfirmingStep, ScenariosOfIntentsStep, ConfirmedStep
    DEF IntentInv
  <1> QED BY <1>1, <1>2, ScenarioInvariance, PTL DEF Spec

\* However a confirmation is interleaved with other requests, an intent is
\* confirmed with a scenario of its own changes and its own revision, created
\* for this intent (confirm_decision_intent: the scenario is created in one
\* transaction and linked in the next).
THEOREM ConfirmedIntents == Spec => []ConfirmedForItsChanges
  BY IntentInvariance, PTL DEF IntentInv

\* And that scenario was computed for the result the intent was read against.
\* This needs that no conversation proposes an intent between the reads and the
\* commit of a change of the task, which nothing but timing prevents: such an
\* intent stays READY for a result that is withdrawn.
THEOREM ConfirmedIntentsAsRead ==
  ASSUME ~Overlapping
  PROVE  Spec => []ConfirmedAsRead
  <1>1. IntentInv => ConfirmedAsRead
    BY DEF IntentInv
  <1> QED BY <1>1, IntentInvariance, PTL
=============================================================================
