--------------------------- MODULE QueueContract ---------------------------
(***************************************************************************)
(* What QueueService promises about one line per server, with the Redis    *)
(* commands and the tasks left out: a player who is accepted goes to the   *)
(* end, leaves from any place, and is served from the head.  A crash costs *)
(* at most the last of a line their places.                                *)
(***************************************************************************)
EXTENDS Naturals, Sequences

CONSTANTS Player, Port

VARIABLES
  queue,    \* queue[s]: the players waiting for server s, in order
  crashes   \* how often the process has crashed

vars == <<queue, crashes>>

In(c, s) == \E i \in 1 .. Len(queue[s]) : queue[s][i] = c

Init == queue = [s \in Port |-> <<>>] /\ crashes = 0

Join(c, s) ==
  /\ ~ In(c, s)
  /\ queue' = [queue EXCEPT ![s] = Append(@, c)]
  /\ UNCHANGED crashes

Leave(c, s) ==
  /\ \E i \in 1 .. Len(queue[s]) :
       /\ queue[s][i] = c
       /\ queue' = [queue EXCEPT ![s] = SubSeq(@, 1, i - 1) \o SubSeq(@, i + 1, Len(@))]
  /\ UNCHANGED crashes

Admit(s) ==
  /\ queue[s] # <<>>
  /\ queue' = [queue EXCEPT ![s] = Tail(@)]
  /\ UNCHANGED crashes

\* the first n of a line stay
Crash ==
  /\ crashes' = crashes + 1
  /\ DOMAIN queue' = Port
  /\ \A s \in Port : \E n \in 0 .. Len(queue[s]) : queue'[s] = SubSeq(queue[s], 1, n)

Next ==
  \/ \E s \in Port : Admit(s) \/ \E c \in Player : Join(c, s) \/ Leave(c, s)
  \/ Crash

Spec == Init /\ [][Next]_vars
=============================================================================
