------------------------- MODULE MCBackgroundJobs -------------------------
(* Values of the set constants for TLC.                                    *)
EXTENDS BackgroundJobs

MCDrafts == {"d1"}
MCModels == {"m1", "m2"}
=============================================================================
