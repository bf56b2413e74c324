-------------------------- MODULE MCResilienceGuard --------------------------
(***************************************************************************)
(* ResilienceGuard for TLC.  Calls are interchangeable, but the run checks *)
(* a liveness property and so uses no symmetry.                            *)
(***************************************************************************)
EXTENDS ResilienceGuard
=============================================================================
