--------------------------- MODULE MCBrokerIdentity ---------------------------
(***************************************************************************)
(* BrokerIdentity for TLC.                                                 *)
(***************************************************************************)
EXTENDS BrokerIdentity, TLC

\* Clients of the plugin carry no order and are never chosen from.
Symmetry == Permutations(Client \ SelfMinting)

\* From too far behind to too far ahead, with both edges of the skew between.
Offsets == -4 .. 5
=============================================================================
