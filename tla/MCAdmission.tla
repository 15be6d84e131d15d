---------------------------- MODULE MCAdmission ----------------------------
(* Values of the constants of Admission for TLC: one server with one seat.  *)
EXTENDS Admission

CONSTANTS s1, vip

OneSeat == [s \in Server |-> 1]
VipOnly == {<<s1, vip>>}
=============================================================================
