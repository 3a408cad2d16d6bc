-------------------------- MODULE MCDownloadQueue --------------------------
(***************************************************************************)
(* Model-checking instances of DownloadQueue; the .cfg files name them.    *)
(* Workers are names in a pool, and jobs are claimed in any order, so      *)
(* permuting either changes nothing as long as the jobs are of one kind    *)
(* (the job that an unused worker points at, AnyJob, is read by no step);  *)
(* the runs of liveness properties do not use the symmetry.                *)
(***************************************************************************)
EXTENDS DownloadQueue, TLC

Symmetry == Permutations(Workers) \cup Permutations(Jobs)
=============================================================================
