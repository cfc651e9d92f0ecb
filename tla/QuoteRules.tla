----------------------------- MODULE QuoteRules -----------------------------
(***************************************************************************)
(* The rules of one quote: what it costs, when it arrives, and whether it  *)
(* is feasible, infeasible or still pending for a requirement.  Everything *)
(* is a function of normalized facts; nothing is guessed.                  *)
(*                                                                         *)
(* A quote maps the names of its fields to facts [is, value].  Money is in *)
(* cents, prices and quoted fees in tenths of a cent, days are numbers.    *)
(* A fact of the wrong type, or in the wrong unit, is INVALID: the code    *)
(* tells more kinds of those apart, and treats all of them alike.          *)
(***************************************************************************)
EXTENDS Integers, FiniteSets

None == -1 \* no amount, no date, no term

UnusableCodes == [ABSENT   |-> "FIELD_ABSENT_FROM_CONTRACT",
                  MISSING  |-> "FIELD_MISSING",
                  CONFLICT |-> "FIELD_CONFLICT",
                  INVALID  |-> "FIELD_VALUE_INVALID"]

Issue(code, fields) == [code |-> code, fields |-> fields]
Usable(fact)        == fact.is \in {"EXTRACTED", "VERIFIED"}

\* FieldAccess.require: the issue of a fact that cannot be used.
Require(quote, field) ==
  IF Usable(quote[field]) THEN {}
  ELSE {Issue(UnusableCodes[quote[field].is], {field})}

RequireAll(quote, fields) == UNION {Require(quote, field) : field \in fields}

-----------------------------------------------------------------------------
(* What quotes and requirements are made of.                               *)

FeeStatuses  == {"KNOWN_AMOUNT", "FREE", "INCLUDED", "NOT_APPLICABLE", "UNKNOWN"}
StatusFields == {"shipping_fee_status", "other_fees_status"}
AmountFields == {"shipping_fee_amount", "other_fees_amount"}
FeeFields    == StatusFields \cup AmountFields
CountFields  == {"moq_quantity", "order_multiple_units", "units_per_pack",
                 "price_basis_quantity"}
FactFields   == FeeFields \cup CountFields \cup
                {"supplier_name", "manufacturer_part_number", "package", "moq_unit",
                 "packaging_type", "unit_price", "currency", "tax_mode",
                 "lead_time_days", "day_basis", "delivery_semantics", "start_event",
                 "valid_until", "payment_terms", "payment_start_event"}
TermFields   == {"payment_start_event_override", "payment_phrase_event"}

Criteria == {"COST", "DELIVERY", "PAYMENT", "PERFORMANCE", "ON_TIME", "REJECTED"}
Rankings == Criteria \cup {"none"}

\* What the rules accept; a value that is not of this kind is INVALID.
Accepts(field, value) ==
  /\ field \in CountFields \cup {"unit_price"} => value \in Nat \ {0}
  /\ field \in AmountFields \cup {"lead_time_days"} => value \in Nat
  /\ field \in StatusFields => value \in FeeStatuses
  /\ field = "payment_terms" => value \in Nat \cup {None}

IsFact(fact) == /\ DOMAIN fact = {"is", "value", "corrected"}
                /\ Usable(fact) \/ fact.is \in DOMAIN UnusableCodes
                /\ fact.corrected \in BOOLEAN

IsQuote(quote) ==
  /\ DOMAIN quote = FactFields \cup TermFields
  /\ \A field \in FactFields :
       IsFact(quote[field]) /\ (Usable(quote[field]) => Accepts(field, quote[field].value))

\* Grades and rates are numbers that can be compared.
IsHistory(history) ==
  /\ history.grade \in Nat /\ history.on_time \in Nat /\ history.rejected \in Nat
  /\ history.deliveries \in Nat /\ history.lines \in Nat

\* The validators of ProcurementRequirement.
IsRequirement(req) ==
  /\ DOMAIN req = {"manufacturer_part_number", "package", "allow_substitutes",
                   "base_unit", "required_quantity", "budget_amount", "currency",
                   "includes_shipping", "tax_mode", "other_fees_required",
                   "planned_order_date", "delivery_deadline", "primary", "secondary"}
  /\ req.required_quantity \in Nat \ {0} /\ req.budget_amount \in Nat
  /\ req.planned_order_date \in Nat \cup {None} /\ req.delivery_deadline \in Int
  /\ req.planned_order_date # None => req.delivery_deadline >= req.planned_order_date
  /\ req.allow_substitutes \in BOOLEAN /\ req.includes_shipping \in BOOLEAN
  /\ req.other_fees_required \in BOOLEAN
  /\ req.primary \in Criteria /\ req.secondary \in Rankings \ {req.primary}

-----------------------------------------------------------------------------
(* Specification and quantity.                                             *)

SpecFields       == {"manufacturer_part_number", "package"}
IdentityFields   == {"manufacturer_part_number"}

Mismatches(req, quote) ==
  {f \in SpecFields : Usable(quote[f]) /\ quote[f].value # req[f]}

CheckSpecification(req, quote) ==
  LET wrong    == Mismatches(req, quote)
      identity == wrong \cap IdentityFields
      exact    == IF req.allow_substitutes THEN wrong \ IdentityFields ELSE wrong
  IN  [failed  |-> {Issue("MISMATCH", {f}) : f \in exact},
       pending |-> RequireAll(quote, SpecFields) \cup
                   IF req.allow_substitutes /\ identity # {}
                   THEN {Issue("SUBSTITUTE_COMPATIBILITY_REVIEW_REQUIRED", identity)}
                   ELSE {}]

RoundUp(target, multiple) == ((target + multiple - 1) \div multiple) * multiple

Larger(a, b) == IF a >= b THEN a ELSE b

\* The minimum order in base units: directly, or in packs of a known size.
MinimumOrder(req, quote) ==
  IF quote.moq_unit.value = req.base_unit THEN quote.moq_quantity.value
  ELSE quote.moq_quantity.value * quote.units_per_pack.value

CalculateQuantity(req, quote) ==
  LET basic    == RequireAll(quote, {"moq_quantity", "moq_unit", "order_multiple_units"})
      packed   == basic = {} /\ quote.moq_unit.value # req.base_unit
      packing  == IF ~packed THEN {}
                  ELSE RequireAll(quote, {"packaging_type", "units_per_pack"})
      mismatch == IF /\ packed
                     /\ Usable(quote.packaging_type)
                     /\ quote.packaging_type.value # quote.moq_unit.value
                  THEN {Issue("MOQ_PACKAGING_UNIT_MISMATCH", {"moq_unit"})} ELSE {}
      pending  == basic \cup packing \cup mismatch
  IN  [pending  |-> pending,
       quantity |-> IF pending # {} THEN None
                    ELSE RoundUp(Larger(req.required_quantity, MinimumOrder(req, quote)),
                                 quote.order_multiple_units.value)]

-----------------------------------------------------------------------------
(* Cost.                                                                   *)

\* Mutant: cut off instead of rounded.
BugRoundDown(amount, unit) == amount \div unit

\* ROUND_HALF_UP of amount / unit.
RoundMoney(amount, unit) == (2 * amount + unit) \div (2 * unit)

NoFee       == [cost |-> 0, complete |-> TRUE, issues |-> {}]
Open(issue) == [cost |-> None, complete |-> FALSE, issues |-> issue]

\* A fee that is not known is not a fee of zero, unless it is not required.
UnknownFee(status_field, amount_field, required) ==
  IF required
  THEN Open({Issue("FEE_AMOUNT_UNKNOWN", {status_field, amount_field})})
  ELSE NoFee

\* FREE and NOT_APPLICABLE contradict an amount that is not zero, and one that
\* is in conflict unless a user has settled the status.
ZeroFee(quote, status_field, amount_field) ==
  LET status  == quote[status_field]
      amount  == quote[amount_field]
      settled == status.is = "VERIFIED" /\ status.corrected
  IN  IF amount.is = "CONFLICT" /\ ~settled
      THEN Open({Issue("FIELD_CONFLICT", {amount_field})})
      ELSE IF Usable(amount) /\ amount.value # 0
           THEN Open({Issue("ZERO_FEE_STATUS_AMOUNT_CONFLICT",
                            {status_field, amount_field})})
           ELSE NoFee

Fee(quote, status_field, amount_field, required) ==
  LET status == quote[status_field]
      amount == quote[amount_field]
  IN  CASE ~Usable(status) ->
             IF required THEN Open(Require(quote, status_field)) ELSE NoFee
        [] Usable(status) /\ status.value = "UNKNOWN" ->
             UnknownFee(status_field, amount_field, required)
        [] Usable(status) /\ status.value = "INCLUDED" -> NoFee
        [] Usable(status) /\ status.value \in {"FREE", "NOT_APPLICABLE"} ->
             ZeroFee(quote, status_field, amount_field)
        [] Usable(status) /\ status.value = "KNOWN_AMOUNT" ->
             IF Usable(amount)
             THEN [cost |-> RoundMoney(amount.value, 10), complete |-> TRUE,
                   issues |-> {}]
             ELSE Open(Require(quote, amount_field))

TaxIssues(req, quote) ==
  IF Usable(quote.tax_mode) /\ quote.tax_mode.value \notin {"NOT_APPLICABLE", req.tax_mode}
  THEN {Issue("TAX_CONVERSION_REQUIRED", {"tax_mode"})}
  ELSE Require(quote, "tax_mode")

CurrencyIssues(req, quote) ==
  IF Usable(quote.currency) /\ quote.currency.value # req.currency
  THEN {Issue("CURRENCY_MISMATCH", {"currency"})}
  ELSE Require(quote, "currency")

\* goods: what the quantity costs.  subtotal adds the fees that are known,
\* total is there only when nothing is open.
CalculateCost(req, quote, quantity) ==
  LET priced   == {"unit_price", "price_basis_quantity"}
      shipping == Fee(quote, "shipping_fee_status", "shipping_fee_amount", TRUE)
      other    == Fee(quote, "other_fees_status", "other_fees_amount",
                      req.other_fees_required)
      pending  == CurrencyIssues(req, quote) \cup RequireAll(quote, priced)
                  \cup shipping.issues \cup other.issues \cup TaxIssues(req, quote)
      goods    == IF RequireAll(quote, priced) # {} THEN None
                  ELSE RoundMoney(quantity * quote.unit_price.value,
                                  10 * quote.price_basis_quantity.value)
      subtotal == IF goods = None THEN None
                  ELSE goods + Larger(shipping.cost, 0) + Larger(other.cost, 0)
  IN  [pending |-> pending, goods |-> goods, shipping |-> shipping.cost,
       other |-> other.cost, subtotal |-> subtotal,
       total |-> IF pending = {} THEN subtotal ELSE None]

\* What the quote costs at least, as far as the budget is concerned.
BudgetLowerBound(req, quote, cost) ==
  IF \/ Usable(quote.currency) /\ quote.currency.value # req.currency
     \/ cost.goods = None
  THEN None
  ELSE cost.goods + (IF req.includes_shipping THEN Larger(cost.shipping, 0) ELSE 0)
                  + Larger(cost.other, 0)

-----------------------------------------------------------------------------
(* Delivery and payment.                                                   *)

DeliveryFields == {"lead_time_days", "day_basis", "delivery_semantics", "start_event"}
Supported == [day_basis |-> "CALENDAR_DAYS", delivery_semantics |-> "ARRIVAL",
              start_event |-> "ORDER_DATE"]

\* A lead time becomes a date only for calendar days from the order to the
\* arrival; valid_until is compared with today and with the order.
CheckDelivery(req, quote, today) ==
  LET unsupported == {f \in DOMAIN Supported :
                        Usable(quote[f]) /\ quote[f].value # Supported[f]}
      undated     == IF req.planned_order_date = None
                     THEN {Issue("PLANNED_ORDER_DATE_REQUIRED", {"planned_order_date"})}
                     ELSE {}
      open        == RequireAll(quote, DeliveryFields) \cup undated
                     \cup {Issue("UNSUPPORTED", {f}) : f \in unsupported}
      arrival     == IF open # {} THEN None
                     ELSE req.planned_order_date + quote.lead_time_days.value
      valid       == quote.valid_until
      late        == arrival # None /\ arrival > req.delivery_deadline
      expired     == Usable(valid) /\ \/ today > valid.value
                                      \/ req.planned_order_date > valid.value
  IN  [arrival |-> arrival,
       pending |-> open \cup Require(quote, "valid_until"),
       failed  |->
         (IF late THEN {Issue("DELIVERY_DEADLINE_EXCEEDED", {"lead_time_days"})} ELSE {})
         \cup (IF expired THEN {Issue("QUOTE_EXPIRED", {"valid_until"})} ELSE {})]

\* Net days and the event they start from; [days |-> None] when they cannot be
\* compared.  A verified field stands before the answer of the user, both
\* before the wording of the terms, and a contradiction is not resolved.
EvaluatePaymentTerm(quote) ==
  LET terms    == quote.payment_terms
      start    == quote.payment_start_event
      explicit == IF start.is = "VERIFIED" THEN start.value
                  ELSE quote.payment_start_event_override
      event    == IF explicit # "none" THEN explicit ELSE quote.payment_phrase_event
      conflict == /\ explicit # "none"
                  /\ quote.payment_phrase_event # "none"
                  /\ explicit # quote.payment_phrase_event
  IN  IF terms.is = "VERIFIED" /\ terms.value # None /\ event # "none" /\ ~conflict
      THEN [days |-> terms.value, event |-> event]
      ELSE [days |-> None, event |-> "none"]

-----------------------------------------------------------------------------
(* The evaluation.                                                         *)

MinimumSample == 10

\* The value of a history criterion, None when it cannot be compared.
HistoryValue(history, criterion) ==
  IF \/ ~history.bound \/ history.identity # "MATCHED"
     \/ history.availability \in {"OUT_OF_SCOPE", "NO_DATA"}
  THEN None
  ELSE CASE criterion = "PERFORMANCE" -> history.grade
         [] criterion = "ON_TIME" ->
              IF history.deliveries >= MinimumSample THEN history.on_time ELSE None
         [] criterion = "REJECTED" ->
              IF history.lines >= MinimumSample THEN history.rejected ELSE None

EvaluateSupplier(req, quote, history, today) ==
  LET spec     == CheckSpecification(req, quote)
      ordered  == CalculateQuantity(req, quote)
      counted  == ordered.quantity # None
      cost     == IF counted THEN CalculateCost(req, quote, ordered.quantity)
                  ELSE [pending |-> {}, goods |-> None, shipping |-> None,
                        other |-> None, subtotal |-> None, total |-> None]
      delivery == CheckDelivery(req, quote, today)
      payment  == EvaluatePaymentTerm(quote)
      failed   == spec.failed \cup delivery.failed \cup
                  IF BudgetLowerBound(req, quote, cost) > req.budget_amount
                  THEN {Issue("BUDGET_EXCEEDED", {"budget_amount"})} ELSE {}
      pending  == Require(quote, "supplier_name") \cup spec.pending
                  \cup ordered.pending \cup cost.pending \cup delivery.pending
  IN  [status   |-> CASE failed # {} -> "INFEASIBLE"
                      [] failed = {} /\ pending # {} -> "PENDING"
                      [] OTHER -> "FEASIBLE",
       failed   |-> failed,
       pending  |-> pending,
       quantity |-> ordered.quantity,
       subtotal |-> cost.subtotal,
       values   |-> [COST |-> cost.total, DELIVERY |-> delivery.arrival,
                     PAYMENT |-> payment.days,
                     PERFORMANCE |-> HistoryValue(history, "PERFORMANCE"),
                     ON_TIME |-> HistoryValue(history, "ON_TIME"),
                     REJECTED |-> HistoryValue(history, "REJECTED")],
       payment_basis |-> payment.event]
=============================================================================
