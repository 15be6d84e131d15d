------------------------------ MODULE MCAccess ------------------------------
(* An instance of Access for TLC: rows at the edges of what the code tells apart. *)
EXTENDS Access

AdminRows == {[removed |-> removed, flags |-> {"R_ADMIN", "R_SERVER"}] :
              removed \in BOOLEAN}
BudgetRows == {[amount |-> 299, till |-> 3], [amount |-> 300, till |-> 2]}
WhitelistRows == {2}
BanRows == {[duration |-> -1, till |-> 0, unbanned |-> FALSE, job |-> FALSE],
            [duration |-> -1, till |-> 0, unbanned |-> TRUE, job |-> FALSE],
            [duration |-> 1, till |-> 1, unbanned |-> FALSE, job |-> FALSE],
            [duration |-> -1, till |-> 0, unbanned |-> FALSE, job |-> TRUE]}
=============================================================================
