---------------------------- MODULE Connections ----------------------------
(***************************************************************************)
(* StatusEventsService (queue-backend/src/status-events): every player has *)
(* a counter of open status streams.  When the last stream of a player has *)
(* been closed for 5 s, the counter is deleted and the event               *)
(* StatusEventsDisconnect makes QueueService take the player off every     *)
(* queue.  A player may hold several streams (tabs) and reconnects while   *)
(* the timer runs.  Assumed of the clients: a place is asked for while a   *)
(* stream is open, as the page does.                                       *)
(***************************************************************************)
EXTENDS Integers, FiniteSets

CONSTANTS
  Player,       \* ckeys
  Stream,       \* requests for status-events
  Owner,        \* Owner[x]: the player of stream x
  MaxRestarts   \* bound: how often the process may be restarted

ASSUME StreamAssumption == IsFiniteSet(Stream) /\ Owner \in [Stream -> Player]
ASSUME RestartAssumption == MaxRestarts \in Nat

VARIABLES
  stream,       \* stream[x]: "closed", "linking" (onClientConnect awaits linkIp),
                \* "dropped" (the client went away meanwhile), "open", or "leaked"
  tracked,      \* players with an entry in clientConnections
  count,        \* count[c]: `count` of that entry
  timer,        \* players whose entry has a timer pending
  cleaning,     \* players whose StatusEventsDisconnect is being handled
  queued,       \* players in some queue
  orphans,      \* players that were queued when a restart lost their counter
  restarts      \* how often the process was restarted

counters == <<tracked, count, timer>>
connVars == <<stream, counters, cleaning, queued, orphans, restarts>>

ConnTypeOK ==
  /\ stream \in [Stream -> {"closed", "linking", "dropped", "open", "leaked"}]
  /\ tracked \subseteq Player
  /\ count \in [Player -> Nat]
  /\ timer \subseteq Player
  /\ cleaning \subseteq Player
  /\ queued \subseteq Player
  /\ orphans \subseteq Player
  /\ restarts \in Nat

ConnInit ==
  /\ stream = [x \in Stream |-> "closed"]
  /\ tracked = {} /\ count = [c \in Player |-> 0] /\ timer = {}
  /\ cleaning = {} /\ queued = {} /\ orphans = {} /\ restarts = 0
-----------------------------------------------------------------------------
\* a client asks for the stream; onClientConnect awaits linkIp
Connect(x) ==
  /\ stream[x] = "closed"
  /\ stream' = [stream EXCEPT ![x] = "linking"]
  /\ UNCHANGED <<counters, cleaning, queued, orphans, restarts>>

\* the client goes away before there is anything to unsubscribe from
Drop(x) ==
  /\ stream[x] = "linking"
  /\ stream' = [stream EXCEPT ![x] = "dropped"]
  /\ UNCHANGED <<counters, cleaning, queued, orphans, restarts>>

\* mutant: a counter is made whether or not there is one
RecountStream(x) ==
  LET c == Owner[x] IN
  /\ stream[x] \in {"linking", "dropped"}
  /\ stream' = [stream EXCEPT ![x] = IF @ = "linking" THEN "open" ELSE "leaked"]
  /\ tracked' = tracked \cup {c}
  /\ count' = [count EXCEPT ![c] = 1]
  /\ timer' = timer \ {c}
  /\ orphans' = orphans \ {c}
  /\ UNCHANGED <<cleaning, queued, restarts>>

\* linkIp returns: the counter is made if there is none, and incremented; its
\* timer is cleared.  The close of a request that was closed before the stream
\* was subscribed is not seen any more: its count is never taken back.
Count(x) ==
  LET c == Owner[x] IN
  /\ stream[x] \in {"linking", "dropped"}
  /\ stream' = [stream EXCEPT ![x] = IF @ = "linking" THEN "open" ELSE "leaked"]
  /\ tracked' = tracked \cup {c}
  /\ count' = [count EXCEPT ![c] = IF c \in tracked THEN @ + 1 ELSE 1]
  /\ timer' = timer \ {c}
  /\ orphans' = orphans \ {c}
  /\ UNCHANGED <<cleaning, queued, restarts>>

\* mutant: the timer is only started by the close of a sole stream's counter
CloseNoTimer(x) ==
  LET c == Owner[x] IN
  /\ stream[x] = "open"
  /\ stream' = [stream EXCEPT ![x] = "closed"]
  /\ count' = [count EXCEPT ![c] = IF @ > 0 THEN @ - 1 ELSE 0]
  /\ timer' = IF count[c] = 0 THEN timer \cup {c} ELSE timer
  /\ UNCHANGED <<tracked, cleaning, queued, orphans, restarts>>

\* mutant: the count is taken back without its guard, and for a request that was
\* never counted
CloseUncounted(x) ==
  LET c == Owner[x] IN
  /\ stream[x] \in {"open", "dropped"}
  /\ stream' = [stream EXCEPT ![x] = "closed"]
  /\ count' = [count EXCEPT ![c] = @ - 1]
  /\ timer' = IF count[c] = 1 THEN timer \cup {c} ELSE timer
  /\ UNCHANGED <<tracked, cleaning, queued, orphans, restarts>>

\* finalize calls onClientDisconnect: decCount, with a timer at zero
Close(x) ==
  LET c == Owner[x]
      n == IF count[c] > 0 THEN count[c] - 1 ELSE 0 IN
  /\ stream[x] = "open"
  /\ stream' = [stream EXCEPT ![x] = "closed"]
  /\ count' = [count EXCEPT ![c] = n]
  /\ timer' = IF n = 0 THEN timer \cup {c} ELSE timer
  /\ UNCHANGED <<tracked, cleaning, queued, orphans, restarts>>

\* 5 s later: without connections the event is emitted and the entry deleted
Expire(c) ==
  /\ c \in timer
  /\ timer' = timer \ {c}
  /\ IF count[c] = 0
     THEN cleaning' = cleaning \cup {c} /\ tracked' = tracked \ {c}
     ELSE UNCHANGED <<cleaning, tracked>>
  /\ UNCHANGED <<stream, count, queued, orphans, restarts>>

\* onStatusEventsDisconnect takes the player off the queues
Clean(c) ==
  /\ c \in cleaning
  /\ cleaning' = cleaning \ {c}
  /\ queued' = queued \ {c}
  /\ orphans' = orphans \ {c}
  /\ UNCHANGED <<stream, counters, restarts>>

\* the page asks for a place while its stream is open
Join(x) ==
  /\ stream[x] = "open"
  /\ queued' = queued \cup {Owner[x]}
  /\ UNCHANGED <<stream, counters, cleaning, orphans, restarts>>

\* the player leaves the queues, or is admitted
Depart(c) ==
  /\ c \in queued
  /\ queued' = queued \ {c}
  /\ orphans' = orphans \ {c}
  /\ UNCHANGED <<stream, counters, cleaning, restarts>>

\* the counters live in memory, the queues in Redis
Restart ==
  /\ restarts < MaxRestarts
  /\ restarts' = restarts + 1
  /\ stream' = [x \in Stream |-> "closed"]
  /\ tracked' = {} /\ count' = [c \in Player |-> 0] /\ timer' = {} /\ cleaning' = {}
  /\ orphans' = queued
  /\ UNCHANGED queued

ConnNext ==
  \/ \E x \in Stream : Connect(x) \/ Drop(x) \/ Count(x) \/ Close(x) \/ Join(x)
  \/ \E c \in Player : Expire(c) \/ Clean(c) \/ Depart(c)
  \/ Restart

ConnSpec == ConnInit /\ [][ConnNext]_connVars

(***************************************************************************)
(* linkIp returns, timers fire and event handlers run; clients need do     *)
(* nothing.                                                                *)
(***************************************************************************)
Fairness ==
  /\ \A x \in Stream : WF_connVars(Count(x))
  /\ \A c \in Player : WF_connVars(Expire(c)) /\ WF_connVars(Clean(c))

ConnFairSpec == ConnSpec /\ Fairness
-----------------------------------------------------------------------------
Counted(c) == {x \in Stream : Owner[x] = c /\ stream[x] \in {"open", "leaked"}}

(***************************************************************************)
(* The counter of a player is the number of its streams that were counted  *)
(* and not closed; a player with such a stream has a counter.              *)
(***************************************************************************)
CountIsStreams ==
  \A c \in Player :
    Cardinality(Counted(c)) = IF c \in tracked THEN count[c] ELSE 0

(***************************************************************************)
(* A counter has its timer running exactly while it is zero: a player      *)
(* without a stream is waiting to be cleaned up, and never both.           *)
(***************************************************************************)
TimerWhenIdle == \A c \in Player : c \in timer <=> c \in tracked /\ count[c] = 0

(***************************************************************************)
(* StatusEventsDisconnect is never emitted for a player that has a stream  *)
(* open at that moment (a stale timer, a counter lost or counted twice).   *)
(***************************************************************************)
NobodyCleanedWhileStreaming ==
  [][\A c \in cleaning' \ cleaning : Counted(c) = {}]_connVars

(***************************************************************************)
(* Whoever has a place in a queue and no stream comes back or loses the    *)
(* place, unless a restart lost its counter or a stream of it leaked.      *)
(***************************************************************************)
Around(c) == \E x \in Stream : Owner[x] = c /\ stream[x] \in {"linking", "open"}
Leaked(c) == \E x \in Stream : Owner[x] = c /\ stream[x] \in {"dropped", "leaked"}

AbandonedPlaceFreed ==
  \A c \in Player :
    c \in queued /\ ~ Around(c)
      ~> c \notin queued \/ Around(c) \/ Leaked(c) \/ c \in orphans
=============================================================================
