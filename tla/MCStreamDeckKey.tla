--------------------------- MODULE MCStreamDeckKey ---------------------------
(***************************************************************************)
(* StreamDeckKey for TLC.                                                  *)
(***************************************************************************)
EXTENDS StreamDeckKey, TLC

\* Handlers carry no order and are never chosen from.
Symmetry == Permutations(Request)
=============================================================================
