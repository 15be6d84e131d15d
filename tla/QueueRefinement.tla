-------------------------- MODULE QueueRefinement --------------------------
(***************************************************************************)
(* Queue implements QueueContract, for the players that wait for each      *)
(* answer before they ask again.  A player whose update a restart has cut  *)
(* is out of the line of that server for good.                             *)
(***************************************************************************)
EXTENDS Queue

\* the RPUSH of c at s is due
Pushing(c, s) == \E i \in 1 .. Len(wire) : AwaitsAt(i, "push", c, s)

Unbroken(s) == {c \in Serial : <<s, c>> \notin stranded}

\* a player has its place from SADD on, until SREM or LPOP takes it
Waiters(s) == {c \in Unbroken(s) \cap members[s] : Listed(c, s) \/ Pushing(c, s)}

\* where c stands: on the list, or behind it as long as its RPUSH is due
Standing(c, s) ==
  IF Listed(c, s) THEN CHOOSE i \in 1 .. Len(line[s]) : line[s][i] = c
  ELSE Len(line[s]) + CHOOSE i \in 1 .. Len(wire) : AwaitsAt(i, "push", c, s)

\* the n-th in line is the one with n - 1 before it
LineOf(W, place) ==
  [n \in 1 .. Cardinality(W) |->
     CHOOSE c \in W : Cardinality({d \in W : place[d] < place[c]}) = n - 1]

WaitingLine(s) == LineOf(Waiters(s), [c \in Waiters(s) |-> Standing(c, s)])

Contract == INSTANCE QueueContract
  WITH Player <- Serial,
       queue <- [s \in Port |-> WaitingLine(s)],
       crashes <- restarts

(***************************************************************************)
(* Accepted players are served in the order they were accepted, nobody     *)
(* overtakes, nobody has two places and nobody drops out of a line other   *)
(* than by leaving it or by being popped at its head, although set and     *)
(* list are updated by separate commands of overlapping tasks.  A restart  *)
(* takes out the last of a line, those not yet on the list, and nobody     *)
(* before them.                                                            *)
(***************************************************************************)
ServedInOrder == Contract!Spec
=============================================================================
