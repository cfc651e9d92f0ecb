--------------------------- MODULE MCQuoteDrafts ---------------------------
(* Values of the set constants for TLC.                                    *)
EXTENDS QuoteDrafts

MCFiles     == {"f1", "f2"}
MCOneFile   == {"f1"}
MCFields    == {"price", "delivery"}
MCOneField  == {"price"}
MCContents  == {"low", "high"}
MCOneContent == {"low"}
=============================================================================
