------------------------------ MODULE MCPasses ------------------------------
(* An instance of Passes for TLC, checked against its contract.             *)
EXTENDS PassRefinement
=============================================================================
