--------------------------- MODULE MCSchedulerWake ---------------------------
(***************************************************************************)
(* Model-checking instance of SchedulerWake.  Four callers already reach   *)
(* every role (winning the run, absorbed during the claim, absorbed before *)
(* completion, asking after the stop); the fifth repeats one of them.      *)
(***************************************************************************)
EXTENDS SchedulerWake
=============================================================================
