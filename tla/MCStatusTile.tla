----------------------------- MODULE MCStatusTile -----------------------------
(***************************************************************************)
(* StatusTile for TLC.                                                     *)
(***************************************************************************)
EXTENDS StatusTile, TLC

\* Tasks carry no order and are never chosen from.
Symmetry == Permutations(Task) \cup Permutations(Domain)

\* Clocks off by one, either way.
Offsets == {-1, 1}
=============================================================================
