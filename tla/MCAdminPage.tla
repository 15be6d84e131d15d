---------------------------- MODULE MCAdminPage ----------------------------
(* Instances of AdminPage for TLC: two servers that change at the same time. *)
EXTENDS AdminPage
=============================================================================
