---------------------------- MODULE MCJobEngine ----------------------------
(***************************************************************************)
(* Instances of JobEngine for TLC.  Workers and cancel requests are        *)
(* interchangeable; jobs are not, their numbers are their age.             *)
(***************************************************************************)
EXTENDS JobEngine, TLC

Symmetry == Permutations(Worker)
=============================================================================
