----------------------------- MODULE MCPluginCall -----------------------------
(***************************************************************************)
(* PluginCall for TLC: the calls are interchangeable.                      *)
(***************************************************************************)
EXTENDS PluginCall, TLC

CallSymmetry == Permutations(Call)
=============================================================================
