---------------------------- MODULE MCPlayerPage ----------------------------
(* Instances of PlayerPage for TLC: one server with a line, one without. *)
EXTENDS PlayerPage
=============================================================================
