------------------------------ MODULE MCMacAgent ------------------------------
(***************************************************************************)
(* MacAgent for TLC.                                                       *)
(***************************************************************************)
EXTENDS MacAgent, TLC
=============================================================================
