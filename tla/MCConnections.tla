--------------------------- MODULE MCConnections ---------------------------
(* Instances of Connections for TLC: one player with two tabs, one with one. *)
EXTENDS Connections, TLC

CONSTANTS p1, p2, a1, a2, b1

MCPlayer == {p1, p2}
MCStream == {a1, a2, b1}
MCOwner == a1 :> p1 @@ a2 :> p1 @@ b1 :> p2
=============================================================================
