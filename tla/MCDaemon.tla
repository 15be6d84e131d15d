------------------------------ MODULE MCDaemon ------------------------------
(* Instance of Daemon for TLC: two ports, two addresses, one interface. *)
EXTENDS Daemon
=============================================================================
