------------------------------ MODULE MCQueue ------------------------------
(* Instances of Queue for TLC. *)
EXTENDS QueueRefinement, TLC

CONSTANTS p1, p2, r1, r2, k1, k2

TwoPlayers == {p1, p2}
FirstPlayer == {p1}
TwoRequests == {r1, r2}
OneTick == {k1}
TwoTicks == {k1, k2}
NoPort == {}
FirstPort == {1}
BothPorts == {1, 2}
AllOps == {"add", "remove", "cleanup", "status"}
PlainOps == {"add", "remove"}

\* requests are interchangeable, and so are ticks
TaskSymmetry == Permutations(Request) \cup Permutations(Tick)
=============================================================================
