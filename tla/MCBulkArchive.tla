--------------------------- MODULE MCBulkArchive ---------------------------
(* Model values and symmetry for the runs of BulkArchive. *)
EXTENDS BulkArchive, TLC
Symmetry == Permutations(Archives) \cup Permutations(Parts) \cup Permutations(Finalizers)
=============================================================================
