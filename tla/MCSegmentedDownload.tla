------------------------ MODULE MCSegmentedDownload ------------------------
(* SegmentedDownload on a file of a few blocks and two workers. *)
EXTENDS SegmentedDownload, TLC

\* Two blocks at first, one at the end: the sizes of the code fall with what
\* remains.
SmallLease == [left \in 0..Total |-> IF left > 2 THEN 2 ELSE 1]

Symmetry == Permutations(Workers)
=============================================================================
