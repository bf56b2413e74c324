------------------------- MODULE MCActionSubmission -------------------------
(***************************************************************************)
(* ActionSubmission for TLC.                                               *)
(***************************************************************************)
EXTENDS ActionSubmission, TLC

\* Requests carry no order and are never chosen from.
Symmetry == Permutations(Request)
=============================================================================
