--------------------------- MODULE MCComparison ---------------------------
(* Values of the constants for TLC: three quotes of three suppliers.  Seven  *)
(* pieces are wanted; prices are in tenths of a cent.                        *)
EXTENDS Comparison

Read(v)  == [is |-> "EXTRACTED", value |-> v, corrected |-> FALSE]
Missing  == [is |-> "MISSING", value |-> None, corrected |-> FALSE]

\* 8 pieces at 1.6 cents, which is 13 cents, to be delivered in 3 days.
Plain == [supplier_name |-> Read("supplier"),
          manufacturer_part_number |-> Read("part"), package |-> Read("reel"),
          moq_quantity |-> Read(5), moq_unit |-> Read("piece"),
          order_multiple_units |-> Read(4), packaging_type |-> Missing,
          units_per_pack |-> Missing, unit_price |-> Read(16),
          price_basis_quantity |-> Read(1), currency |-> Read("CNY"),
          tax_mode |-> Read("NOT_APPLICABLE"),
          shipping_fee_status |-> Read("INCLUDED"), shipping_fee_amount |-> Missing,
          other_fees_status |-> Read("UNKNOWN"), other_fees_amount |-> Missing,
          lead_time_days |-> Read(3), day_basis |-> Read("CALENDAR_DAYS"),
          delivery_semantics |-> Read("ARRIVAL"), start_event |-> Read("ORDER_DATE"),
          valid_until |-> Read(5), payment_terms |-> Missing,
          payment_start_event |-> Missing, payment_start_event_override |-> "none",
          payment_phrase_event |-> "none"]

\* 12 cents and 1 for the shipping: as much as Plain, and a day earlier.
Faster  == [Plain EXCEPT !.unit_price = Read(15), !.lead_time_days = Read(2),
                         !.shipping_fee_status = Read("KNOWN_AMOUNT"),
                         !.shipping_fee_amount = Read(6)]
\* Two packs of five at least: 12 pieces at 0.9 cents, 11 cents.  Late, and
\* valid today only.
Packed  == [Plain EXCEPT !.moq_quantity = Read(2), !.moq_unit = Read("pack"),
                         !.packaging_type = Read("pack"), !.units_per_pack = Read(5),
                         !.unit_price = Read(9), !.valid_until = Read(0),
                         !.lead_time_days = Read(6)]
\* The shipping is not known: at least 13, 8 and 24 cents.
MayTie      == [Plain EXCEPT !.shipping_fee_status = Read("UNKNOWN")]
MayBeBest   == [MayTie EXCEPT !.unit_price = Read(10)]
TooDear     == [Plain EXCEPT !.unit_price = Read(30), !.shipping_fee_status = Missing,
                          !.shipping_fee_amount.is = "ABSENT"]

MCQuotes     == {"q1", "q2", "q3"}
MCSupplierOf == [q1 |-> "s1", q2 |-> "s2", q3 |-> "s3"]
MCSheets     == [q1 |-> {Faster}, q2 |-> {Plain, Packed},
                 q3 |-> {MayTie, MayBeBest, TooDear}]

Graded(g) == [bound |-> TRUE, identity |-> "MATCHED", availability |-> "AVAILABLE",
              grade |-> g, deliveries |-> 10, on_time |-> 9, lines |-> 9, rejected |-> 0]
MCHistory == [q1 |-> Graded(2), q2 |-> Graded(3), q3 |-> Graded(3)]

Wanted == [manufacturer_part_number |-> "part", package |-> "reel",
           allow_substitutes |-> FALSE, base_unit |-> "piece", required_quantity |-> 7,
           budget_amount |-> 20, currency |-> "CNY", includes_shipping |-> TRUE,
           tax_mode |-> "NOT_APPLICABLE", other_fees_required |-> FALSE,
           planned_order_date |-> 0, delivery_deadline |-> 4,
           primary |-> "COST", secondary |-> "DELIVERY"]
MCRequirements == {Wanted}

MCHypotheses == {[budget_amount |-> 12], [delivery_deadline |-> 6], [delivery_deadline |-> -2],
              [primary |-> "PERFORMANCE", secondary |-> "COST"],
              [tolerance |-> 1], [excluded |-> {"s1"}], [excluded |-> {}]}

MCAssessments == {[q1 |-> "VERIFIED", q2 |-> "UNVERIFIED", q3 |-> "VERIFIED"],
                  [q1 |-> "UNVERIFIED", q2 |-> "VERIFIED", q3 |-> "UNVERIFIED"],
                  [q1 |-> "EXCLUDED", q2 |-> "UNVERIFIED", q3 |-> "VERIFIED"],
                  [q1 |-> "EXCLUDED", q2 |-> "EXCLUDED", q3 |-> "EXCLUDED"]}

MCAnswers == [shipping_fee_status |-> {"FREE", "KNOWN_AMOUNT"},
              shipping_fee_amount |-> {14}]
=============================================================================
