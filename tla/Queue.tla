------------------------------- MODULE Queue -------------------------------
(***************************************************************************)
(* QueueService (queue-backend/src/queue/queue.service.ts): the waiting    *)
(* lines of the game servers.  A server's line is kept twice in Redis: a   *)
(* set that says who is queued and a list that says in which order.        *)
(*                                                                         *)
(* The service is one Node process.  A request, a disconnect cleanup or a  *)
(* tick of the 1 s interval is a task; it runs alone from one await to the *)
(* next, and tasks interleave at the awaits.  All commands go through one  *)
(* Redis connection: they run in the order they are issued and their       *)
(* replies resume the tasks in that order.  `wire` is the queue of the     *)
(* tasks that await the reply of such a command directly: only its head    *)
(* may go on.  Other awaits (game server, data base, mutex, nested calls)  *)
(* resume in any order.                                                    *)
(*                                                                         *)
(* Which requests are refused or admitted at once (pass held, staff,       *)
(* donator) touches neither the set nor the list and is left out here.     *)
(***************************************************************************)
EXTENDS Naturals, Sequences, FiniteSets

CONSTANTS
  Player,       \* ckeys
  N,            \* servers are 1..N, in the order of Object.entries(servers)
  Queued,       \* the servers with `queued: true`
  Uncapped,     \* the servers with no `max`: `occupied >= undefined` is false
  Request,      \* tasks that serve a request or a disconnect event
  Tick,         \* invocations of processQueues; several of them may overlap
  Serial,       \* players that never have two requests in flight at once
  Ops,          \* the kinds of request the environment makes
  MaxLine,      \* bound: a line grows no longer than this
  MaxRestarts,  \* bound: how often the process may be restarted
  Nobody        \* the player of a task that has none

Port == 1 .. N
Task == Request \cup Tick

ASSUME PortAssumption == N \in Nat /\ Queued \subseteq Port /\ Uncapped \subseteq Port
ASSUME TaskAssumption == Request \cap Tick = {}
ASSUME PlayerAssumption == Nobody \notin Player /\ Serial \subseteq Player
ASSUME BoundAssumption == MaxLine \in Nat /\ MaxRestarts \in Nat

VARIABLES
  members,      \* members[s]: the Redis set byond_queue_{s}_set
  line,         \* line[s]: the Redis list byond_queue_{s}
  task,         \* task[t]: what t does, where it is, for whom, at which server
  wire,         \* tasks awaiting the reply of a command, oldest first
  published,    \* the queues in the last QueuesUpdate that was emitted
  unannounced,  \* a task that had changed a list died before it could notify
  stranded,     \* <<s, c>>: a restart cut a two-command update of c at s
  restarts      \* how often the process was restarted

queues == <<members, line>>
ghosts == <<stranded, restarts>>
vars == <<members, line, task, wire, published, unannounced, ghosts>>

Idle == [op |-> "idle", at |-> "start", who |-> Nobody, port |-> 0]
\* a tick has no player before it has popped one
Seeking == [op : {"tick"}, at : {"peek", "slots"}, who : {Nobody}, port : Port]
Where == {"probe", "srem", "push", "unlist", "look", "rank", "unset", "admit", "notify"}
Engaged == [op : {"add", "remove", "cleanup", "status", "tick"}, at : Where,
            who : Player, port : Port]

TypeOK ==
  /\ members \in [Port -> SUBSET Player]
  /\ line \in [Port -> Seq(Player)]
  /\ task \in [Task -> {Idle} \cup Seeking \cup Engaged]
  /\ wire \in Seq(Task)
  /\ published \in [Queued -> Seq(Player)]
  /\ unannounced \in BOOLEAN
  /\ stranded \subseteq Port \X Player
  /\ restarts \in Nat

Init ==
  /\ members = [s \in Port |-> {}]
  /\ line = [s \in Port |-> <<>>]
  /\ task = [t \in Task |-> Idle]
  /\ wire = <<>>
  /\ published = [s \in Queued |-> <<>>]
  /\ unannounced = FALSE
  /\ stranded = {} /\ restarts = 0
-----------------------------------------------------------------------------
(***************************************************************************)
(* Moves of a task.                                                        *)
(***************************************************************************)
Goto(t, at) == task' = [task EXCEPT ![t].at = at]
Finish(t) == task' = [task EXCEPT ![t] = Idle]
Begin(t, op, at, c, s) ==
  task' = [task EXCEPT ![t] = [op |-> op, at |-> at, who |-> c, port |-> s]]

\* t awaits the reply of the command it has just issued
Await(t) == wire' = Append(wire, t)
\* the reply t waits for is the next one on the connection
FirstOnWire(t) == wire # <<>> /\ Head(wire) = t
\* t has its reply and awaits no other, or issues a second command
Replied(t) == FirstOnWire(t) /\ wire' = Tail(wire)
Reissue(t) == FirstOnWire(t) /\ wire' = Append(Tail(wire), t)

\* the loops over the servers skip those that are not queued
Later(s) == {p \in Queued : s < p}
Earliest(P) == CHOOSE p \in P : \A q \in P : p <= q

\* t turns to the next queued server after s, or ends when there is none
Advance(t, s, at) ==
  IF Later(s) = {} THEN Finish(t)
  ELSE task' = [task EXCEPT ![t].port = Earliest(Later(s)), ![t].at = at]

Queueing(t, c, s) == task[t].who = c /\ task[t].port = s
InFlight(c) == \E t \in Request : task[t].who = c
Accepts(op, t, c) ==
  /\ op \in Ops
  /\ task[t] = Idle
  /\ c \in Serial => ~ InFlight(c)
-----------------------------------------------------------------------------
(***************************************************************************)
(* addToQueue                                                              *)
(***************************************************************************)
\* mutant: the answer of SADD is not looked at
AddUnchecked(t, c, s) ==
  /\ Accepts("add", t, c)
  /\ Len(line[s]) + Len(wire) < MaxLine
  /\ members' = [members EXCEPT ![s] = @ \cup {c}]
  /\ Begin(t, "add", "push", c, s)
  /\ Await(t)
  /\ UNCHANGED <<line, published, unannounced, ghosts>>

\* SADD answers 0 for a player who is queued: the request is then refused
AddToQueue(t, c, s) ==
  /\ Accepts("add", t, c)
  /\ Len(line[s]) + Len(wire) < MaxLine
  /\ c \notin members[s]
  /\ members' = [members EXCEPT ![s] = @ \cup {c}]
  /\ Begin(t, "add", "push", c, s)
  /\ Await(t)
  /\ UNCHANGED <<line, published, unannounced, ghosts>>

\* mutant: LPUSH
Lpush(t) ==
  /\ task[t].at = "push"
  /\ Reissue(t)
  /\ line' = [line EXCEPT ![task[t].port] = <<task[t].who>> \o @]
  /\ Goto(t, "notify")
  /\ UNCHANGED <<members, published, unannounced, ghosts>>

Rpush(t) ==
  /\ task[t].at = "push"
  /\ Reissue(t)
  /\ line' = [line EXCEPT ![task[t].port] = Append(@, task[t].who)]
  /\ Goto(t, "notify")
  /\ UNCHANGED <<members, published, unannounced, ghosts>>
-----------------------------------------------------------------------------
(***************************************************************************)
(* removeFromQueue, and onStatusEventsDisconnect that calls it             *)
(***************************************************************************)
\* SREM; a player found in the set still has to be taken off the list
Srem(t, c, s) ==
  /\ members' = [members EXCEPT ![s] = @ \ {c}]
  /\ Await(t)
  /\ UNCHANGED <<line, published, unannounced, ghosts>>

RemoveFromQueue(t, c, s) ==
  /\ Accepts("remove", t, c)
  /\ c \in members[s]
  /\ Begin(t, "remove", "unlist", c, s)
  /\ Srem(t, c, s)

\* LREM with count 0: every copy goes, the others keep their order.  f lists
\* the places that stay, in order.
Kept(q, c) == {i \in 1 .. Len(q) : q[i] # c}
InOrder(K, n) ==
  {f \in [1 .. n -> K] : /\ \A i, j \in 1 .. n : i < j => f[i] < f[j]
                         /\ \A k \in K : \E i \in 1 .. n : f[i] = k}

\* mutant: nobody is notified
LremSilent(t) ==
  /\ task[t].at = "unlist"
  /\ Replied(t)
  /\ LET q == line[task[t].port] IN
     \E n \in 0 .. Len(q) : \E f \in InOrder(Kept(q, task[t].who), n) :
       line' = [line EXCEPT ![task[t].port] = [i \in 1 .. n |-> q[f[i]]]]
  /\ Finish(t)
  /\ UNCHANGED <<members, published, unannounced, ghosts>>

Lrem(t) ==
  /\ task[t].at = "unlist"
  /\ Reissue(t)
  /\ LET q == line[task[t].port] IN
     \E n \in 0 .. Len(q) : \E f \in InOrder(Kept(q, task[t].who), n) :
       line' = [line EXCEPT ![task[t].port] = [i \in 1 .. n |-> q[f[i]]]]
  /\ Goto(t, "notify")
  /\ UNCHANGED <<members, published, unannounced, ghosts>>

\* mutant: the loop starts before the first server
StartCleanupAtZero(t, c) ==
  /\ Accepts("cleanup", t, c)
  /\ Begin(t, "cleanup", "probe", c, 0)
  /\ UNCHANGED <<queues, wire, published, unannounced, ghosts>>

\* the StatusEventsDisconnect event of c
StartCleanup(t, c) ==
  /\ Accepts("cleanup", t, c)
  /\ Later(0) # {}
  /\ Begin(t, "cleanup", "probe", c, Earliest(Later(0)))
  /\ UNCHANGED <<queues, wire, published, unannounced, ghosts>>

\* isInQueue
Probe(t) ==
  /\ task[t].at = "probe"
  /\ IF task[t].who \in members[task[t].port] THEN Goto(t, "srem")
     ELSE Advance(t, task[t].port, "probe")
  /\ UNCHANGED <<queues, wire, published, unannounced, ghosts>>

CleanupSrem(t) ==
  /\ task[t].at = "srem"
  /\ \/ /\ task[t].who \in members[task[t].port]
        /\ Goto(t, "unlist")
        /\ Srem(t, task[t].who, task[t].port)
     \/ /\ task[t].who \notin members[task[t].port]
        /\ Advance(t, task[t].port, "probe")
        /\ UNCHANGED <<queues, wire, published, unannounced, ghosts>>
-----------------------------------------------------------------------------
(***************************************************************************)
(* queueStatus: SISMEMBER, then LPOS, one server after the other           *)
(***************************************************************************)
StartStatus(t, c) ==
  /\ Accepts("status", t, c)
  /\ Later(0) # {}
  /\ Begin(t, "status", "look", c, Earliest(Later(0)))
  /\ UNCHANGED <<queues, wire, published, unannounced, ghosts>>

Look(t) ==
  /\ task[t].at = "look"
  /\ \/ /\ task[t].who \in members[task[t].port]
        /\ Goto(t, "rank")
        /\ Await(t)
     \/ /\ task[t].who \notin members[task[t].port]
        /\ Advance(t, task[t].port, "look")
        /\ UNCHANGED wire
  /\ UNCHANGED <<queues, published, unannounced, ghosts>>

\* the position is LPOS' answer, null for a player a tick has popped since
Rank(t) ==
  /\ task[t].at = "rank"
  /\ Replied(t)
  /\ Advance(t, task[t].port, "look")
  /\ UNCHANGED <<queues, published, unannounced, ghosts>>
-----------------------------------------------------------------------------
(***************************************************************************)
(* processQueues and processQueue.  The first admission sets hasChanges,   *)
(* and `hasChanges || await this.processQueue(..)` then calls nothing any  *)
(* more: a tick admits at most one player, over all servers.               *)
(***************************************************************************)
StartTick(t) ==
  /\ task[t] = Idle
  /\ Later(0) # {}
  /\ Begin(t, "tick", "peek", Nobody, Earliest(Later(0)))
  /\ UNCHANGED <<queues, wire, published, unannounced, ghosts>>

\* mutant: an empty line ends the tick
PeekOnce(t) ==
  /\ task[t].at = "peek"
  /\ IF line[task[t].port] = <<>> THEN Finish(t) ELSE Goto(t, "slots")
  /\ UNCHANGED <<queues, wire, published, unannounced, ghosts>>

\* LINDEX 0
Peek(t) ==
  /\ task[t].at = "peek"
  /\ IF line[task[t].port] = <<>> THEN Advance(t, task[t].port, "peek")
     ELSE Goto(t, "slots")
  /\ UNCHANGED <<queues, wire, published, unannounced, ghosts>>

\* getSlotStats finds no free slot
Full(t) ==
  /\ task[t].at = "slots"
  /\ task[t].port \notin Uncapped
  /\ Advance(t, task[t].port, "peek")
  /\ UNCHANGED <<queues, wire, published, unannounced, ghosts>>

\* getSlotStats finds one: LPOP
Lpop(t) ==
  /\ task[t].at = "slots"
  /\ line[task[t].port] # <<>>
  /\ line' = [line EXCEPT ![task[t].port] = Tail(@)]
  /\ task' = [task EXCEPT ![t].at = "unset", ![t].who = Head(line[task[t].port])]
  /\ Await(t)
  /\ UNCHANGED <<members, published, unannounced, ghosts>>

\* another task emptied the line since LINDEX: null.ckey throws, the tick dies
LpopNull(t) ==
  /\ task[t].at = "slots"
  /\ line[task[t].port] = <<>>
  /\ Finish(t)
  /\ UNCHANGED <<queues, wire, published, unannounced, ghosts>>

\* mutant: the player stays in the set
TickSremForgotten(t) ==
  /\ task[t].at = "unset"
  /\ Replied(t)
  /\ Goto(t, "admit")
  /\ UNCHANGED <<queues, published, unannounced, ghosts>>

TickSrem(t) ==
  /\ task[t].at = "unset"
  /\ Replied(t)
  /\ members' = [members EXCEPT ![task[t].port] = @ \ {task[t].who}]
  /\ Goto(t, "admit")
  /\ UNCHANGED <<line, published, unannounced, ghosts>>

\* addFromQueue returns
Admit(t) ==
  /\ task[t].at = "admit"
  /\ Goto(t, "notify")
  /\ UNCHANGED <<queues, wire, published, unannounced, ghosts>>

\* addFromQueue throws (the mutex timed out, the data base failed)
AdmissionFails(t) ==
  /\ task[t].at = "admit"
  /\ unannounced' = TRUE
  /\ Finish(t)
  /\ UNCHANGED <<queues, wire, published, ghosts>>
-----------------------------------------------------------------------------
(***************************************************************************)
(* notifyQueuesUpdate.  The LRANGE commands of getQueues are issued in one *)
(* turn, so they read all lists at one moment; the replies keep the order, *)
(* so emitting when the lists are read loses nothing but the delay.        *)
(***************************************************************************)
Announce(t) ==
  /\ task[t].at = "notify"
  /\ published' = [s \in Queued |-> line[s]]
  /\ unannounced' = FALSE
  /\ UNCHANGED <<queues, ghosts>>

\* after RPUSH or LREM has been answered
NotifyQueuesUpdate(t) ==
  /\ Replied(t)
  /\ Announce(t)
  /\ IF task[t].op = "cleanup" THEN Advance(t, task[t].port, "probe") ELSE Finish(t)

\* at the end of a tick that admitted a player
TickNotify(t) ==
  /\ Announce(t)
  /\ Finish(t)
  /\ UNCHANGED wire

\* the process dies and comes back: its tasks are gone, Redis is not
Cut(at) == {t \in Task : task[t].at \in at}

Restart ==
  /\ restarts < MaxRestarts
  /\ restarts' = restarts + 1
  /\ stranded' = stranded \cup
       {<<task[t].port, task[t].who>> : t \in Cut({"push", "unlist", "unset"})}
  /\ unannounced' = (unannounced \/ Cut({"unset", "admit", "notify"}) # {})
  /\ task' = [t \in Task |-> Idle]
  /\ wire' = <<>>
  /\ UNCHANGED <<queues, published>>
-----------------------------------------------------------------------------
Ask(t, c) ==
  \/ \E s \in Port : AddToQueue(t, c, s) \/ RemoveFromQueue(t, c, s)
  \/ StartCleanup(t, c)
  \/ StartStatus(t, c)

Serve(t) ==
  \/ Rpush(t) \/ Lrem(t) \/ Probe(t) \/ CleanupSrem(t)
  \/ Look(t) \/ Rank(t)
  \/ NotifyQueuesUpdate(t)

Work(t) ==
  \/ Peek(t) \/ Full(t) \/ Lpop(t) \/ LpopNull(t)
  \/ TickSrem(t) \/ Admit(t) \/ AdmissionFails(t)
  \/ TickNotify(t)

Next ==
  \/ \E t \in Request : Serve(t) \/ \E c \in Player : Ask(t, c)
  \/ \E t \in Tick : Work(t) \/ StartTick(t)
  \/ Restart

Spec == Init /\ [][Next]_vars

(***************************************************************************)
(* Nothing makes players ask or the process die.  The event loop resumes   *)
(* every task whose reply is there, and the interval keeps firing.         *)
(***************************************************************************)
Fairness ==
  /\ \A t \in Request : WF_vars(Serve(t))
  /\ \A t \in Tick : WF_vars(Work(t)) /\ WF_vars(StartTick(t))

FairSpec == Spec /\ Fairness
-----------------------------------------------------------------------------
(***************************************************************************)
(* Properties                                                              *)
(***************************************************************************)
Listed(c, s) == \E i \in 1 .. Len(line[s]) : line[s][i] = c
AwaitsAt(i, at, c, s) == task[wire[i]].at = at /\ Queueing(wire[i], c, s)

\* c's RPUSH is due, and no LREM that would undo it comes after it
Arriving(c, s) ==
  \E i \in 1 .. Len(wire) :
    /\ AwaitsAt(i, "push", c, s)
    /\ \A j \in i + 1 .. Len(wire) : ~ AwaitsAt(j, "unlist", c, s)

\* c is on the list, and no LREM that would take it off is due
Waiting(c, s) ==
  /\ Listed(c, s)
  /\ \A i \in 1 .. Len(wire) : ~ AwaitsAt(i, "unlist", c, s)

\* c was popped by a tick, whose SREM is due
Leaving(c, s) == \E t \in Tick : task[t].at = "unset" /\ Queueing(t, c, s)

(***************************************************************************)
(* No phantom: a player in the set, who is therefore refused when asking   *)
(* to join, is on the list or about to be, or a tick is taking it out.     *)
(* Only a restart in the middle of an update can leave a player in the set *)
(* that no tick will ever reach (addToQueue and removeFromQueue update set *)
(* and list with two commands and no transaction).                         *)
(***************************************************************************)
NoPhantomMember ==
  \A s \in Port : \A c \in members[s] :
    Arriving(c, s) \/ Waiting(c, s) \/ Leaving(c, s) \/ <<s, c>> \in stranded

(***************************************************************************)
(* A player that waits for each answer before it asks again has at most    *)
(* one place in a line, and a place it no longer owns (no longer in the    *)
(* set) is about to be taken away, whatever ticks and other players do.    *)
(***************************************************************************)
SerialPlayersHoldOnePlace ==
  \A s \in Port : \A c \in Serial :
    \/ <<s, c>> \in stranded
    \/ /\ \A i, j \in 1 .. Len(line[s]) :
            line[s][i] = c /\ line[s][j] = c => i = j
       /\ Listed(c, s) => \/ c \in members[s]
                          \/ \E i \in 1 .. Len(wire) : AwaitsAt(i, "unlist", c, s)

(***************************************************************************)
(* The last QueuesUpdate shows the lists as they are, unless a task that   *)
(* changed one is still to notify, or died (an exception in addFromQueue,  *)
(* a restart) and nothing was announced since.                             *)
(***************************************************************************)
BroadcastCurrent ==
  \/ \A s \in Queued : published[s] = line[s]
  \/ Cut({"unset", "admit", "notify"}) # {}
  \/ unannounced

(***************************************************************************)
(* A player queued at a server that is never full gets out of the queue,   *)
(* once the servers before it in the configuration have no line any more   *)
(* (a tick that admits at an earlier server never looks at a later one),   *)
(* unless a restart cuts an update of this very player.                    *)
(***************************************************************************)
Quiet(s) == \A p \in Queued : p < s => line[p] = <<>>

UncappedLineMoves ==
  \A s \in Queued \cap Uncapped : \A c \in Player :
    <>[]Quiet(s) => (c \in members[s] ~> c \notin members[s] \/ <<s, c>> \in stranded)
=============================================================================
