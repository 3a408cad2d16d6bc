---------------------------- MODULE WakeContract ----------------------------
(***************************************************************************)
(* What schedule_downloads promises its callers: a caller may ask at any   *)
(* time, and a later scheduling pass answers every request made so far in  *)
(* one sweep.  How the passes are started, coalesced and stopped is the    *)
(* business of SchedulerWake.                                              *)
(***************************************************************************)
CONSTANT Callers

VARIABLE owed      \* callers with an unanswered request

Init == owed = {}

Ask(c) == owed' = owed \cup {c}

\* One scheduling pass; it answers everyone who asked before it.
Sweep ==
  /\ owed # {}
  /\ owed' = {}

Next == (\E c \in Callers : Ask(c)) \/ Sweep

Spec == Init /\ [][Next]_owed /\ WF_owed(Sweep)
=============================================================================
