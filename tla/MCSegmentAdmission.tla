------------------------- MODULE MCSegmentAdmission -------------------------
(* SegmentAdmission with one rival and a budget two attempts compete for. *)
EXTENDS SegmentAdmission
=============================================================================
