--------------------------- MODULE PassRefinement ---------------------------
(***************************************************************************)
(* Passes implements PassContract until the first restart: the changes     *)
(* that have still to be announced are the calls on the wire, those that   *)
(* are further first.                                                      *)
(***************************************************************************)
EXTENDS Passes, FiniteSets

Rank == [own |-> 1, read |-> 2, tell |-> 3]

\* call i of w will be announced before call j
Before(w, i, j) ==
  \/ Rank[w[i].at] > Rank[w[j].at]
  \/ w[i].at = w[j].at /\ i < j

Earlier(w, i) == {j \in DOMAIN w : Before(w, j, i)}

\* the n-th change to be announced is that of the call with n - 1 calls before it
NewsOf(w) ==
  [n \in DOMAIN w |-> LET i == CHOOSE k \in DOMAIN w : Cardinality(Earlier(w, k)) = n - 1
                      IN  <<w[i].op, w[i].pass>>]

Contract == INSTANCE PassContract
  WITH passes <- IF restarts > 0 THEN {} ELSE passes,
       news <- IF restarts > 0 THEN <<>> ELSE NewsOf(wire),
       up <- restarts = 0

(***************************************************************************)
(* Until the first restart, every addition that is accepted and every      *)
(* removal is announced exactly once, and in the order in which Redis took *)
(* them, although each call makes three round trips that overlap with      *)
(* others'.                                                                *)
(***************************************************************************)
AnnouncedInOrder == Contract!FairSpec
=============================================================================
