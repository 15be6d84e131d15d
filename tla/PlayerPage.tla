----------------------------- MODULE PlayerPage -----------------------------
(***************************************************************************)
(* What a player sees (queue-frontend/pages/index.tsx and ServerCard) and  *)
(* the stream that keeps it current (ServersController.statusEvents,       *)
(* StatusEventsService, ServersService).  One player with one page.  The   *)
(* page asks for its queues and passes once, in two requests, and at the   *)
(* same time opens the stream; the polyfill reopens the stream whenever it *)
(* breaks, but nothing is asked for again.                                 *)
(*                                                                         *)
(* The backend is reduced to what it holds for the player: Queue and       *)
(* Passes show that every change of the lists or passes is followed by a   *)
(* QueuesUpdate or PassUpdate with what is there when it is emitted.       *)
(***************************************************************************)
EXTENDS Naturals, Sequences

CONSTANTS
  Server,       \* ports
  Queued,       \* the servers with `queued: true`
  MaxPlace,     \* bound: the last place in a line
  MaxNet,       \* bound: events on their way to the page
  MaxEvents     \* bound: changes in the backend, clicks and broken streams

ASSUME ServerAssumption == Queued \subseteq Server
ASSUME BoundAssumption == MaxPlace \in Nat /\ MaxNet \in Nat /\ MaxEvents \in Nat

VARIABLES
  place,        \* place[s]: the player's place in the line of s, 0 if it has none
  passes,       \* the servers the player has a pass for, all of them queued
  answering,    \* the queued servers whose last status is less than 60 s old
  due,          \* kinds of broadcast the backend has still to make
  stream,       \* "off", "linking" (onClientConnect awaits linkIp) or "open"
  last,         \* pairwise's previous update of this stream: "null", "empty", "some"
  net,          \* events sent and not received yet, oldest first
  load,         \* fetchQueueState: the answers so far
  statusLoad,   \* the request for an old page's status: "asked", "read", "done"
  statusRead,   \* its answer
  loaded,       \* queue # undefined
  queue,        \* the page's `queue`, per server; place 0: no position
  prevPasses,   \* prevPasses.current: the passes the player was alerted of
  alive,        \* queued servers whose status is not stale on the page
  inStep,       \* kinds of data that no update is missing for
  outdated,     \* kinds of data that changed after a load had read them
  mixed,        \* servers where the player was queued and had a pass at once
  events        \* changes, clicks and broken streams so far

backend == <<place, passes, answering>>
link == <<stream, last, net>>
loads == <<load, statusLoad, statusRead>>
page == <<loaded, queue, prevPasses, alive>>
ghosts == <<inStep, outdated, mixed, events>>
vars == <<backend, due, link, loads, page, ghosts>>

Kind == {"queue", "pass", "status"}
Places == [Server -> 0 .. MaxPlace]
Event == [type : {"queue"}, data : Places] \cup [type : {"pass"}, data : SUBSET Server] \cup
         [type : {"status"}, data : SUBSET Queued]

TypeOK ==
  /\ place \in Places /\ passes \subseteq Server /\ answering \subseteq Queued
  /\ due \subseteq Kind
  /\ stream \in {"off", "linking", "open"} /\ last \in {"null", "empty", "some"}
  /\ net \in Seq(Event)
  /\ load \in [at : {"queue", "pass", "answer", "done"}, left : SUBSET Server,
               places : Places, passes : SUBSET Server]
  /\ statusLoad \in {"asked", "read", "done"} /\ statusRead \subseteq Queued
  /\ loaded \in BOOLEAN
  /\ queue \in [Server -> [place : 0 .. MaxPlace, hasPass : BOOLEAN]]
  /\ prevPasses \subseteq Server /\ alive \subseteq Queued
  /\ inStep \subseteq Kind /\ outdated \subseteq Kind /\ mixed \subseteq Server
  /\ events \in Nat

NoEntry == [place |-> 0, hasPass |-> FALSE]
Nowhere == [s \in Server |-> 0]

\* getStaticProps: whatever was alive when the page was rendered, which may be long ago
Rendered == SUBSET Queued

\* a page is opened.  A new one asks for no status: nothing makes ReadStatus happen
Init ==
  /\ place \in [Server -> {0, MaxPlace}] /\ \A s \in Server \ Queued : place[s] = 0
  /\ passes \in SUBSET {s \in Queued : place[s] = 0}
  /\ answering = Queued /\ due = {}
  /\ stream = "off" /\ last = "null" /\ net = <<>>
  /\ load = [at |-> "queue", left |-> Queued, places |-> Nowhere, passes |-> {}]
  /\ statusLoad = "asked" /\ statusRead = {}
  /\ loaded = FALSE /\ queue = [s \in Server |-> NoEntry]
  /\ prevPasses = {} /\ alive \in Rendered
  /\ inStep = {} /\ outdated = {} /\ mixed = {} /\ events = 0
-----------------------------------------------------------------------------
(***************************************************************************)
(* The backend                                                             *)
(***************************************************************************)
Occurs == events < MaxEvents /\ events' = events + 1

Owed(kind) ==
  /\ due' = due \cup {kind}
  /\ mixed' = mixed \cup {s \in passes' : place'[s] > 0}

\* the player is queued, moves up, is popped or taken off a line
MoveTo(s, n) ==
  /\ Occurs
  /\ place' = [place EXCEPT ![s] = n]
  /\ UNCHANGED <<passes, answering>>
  /\ Owed("queue")
  /\ outdated' = IF s \in load.left \/ load.at = "done" THEN outdated
                 ELSE outdated \cup {"queue"}
  /\ UNCHANGED <<link, loads, page, inStep>>

ChangeQueue(s) == \E n \in 0 .. MaxPlace : n # place[s] /\ MoveTo(s, n)

ChangePass(s) ==
  /\ Occurs
  /\ passes' = IF s \in passes THEN passes \ {s} ELSE passes \cup {s}
  /\ UNCHANGED <<place, answering>>
  /\ Owed("pass")
  /\ outdated' = IF load.at = "answer" THEN outdated \cup {"pass"} ELSE outdated
  /\ UNCHANGED <<link, loads, page, inStep>>

\* fetchStatus: which games answer
Answers == SUBSET Queued

\* handleUpdateByondStatus: the servers in `ok` have answered; of the others
\* the last answer may have become too old.  A server without a line is left
\* out: its button is never disabled.
Poll(ok) ==
  /\ Occurs
  /\ \E gone \in SUBSET (answering \ ok) : answering' = (answering \cup ok) \ gone
  /\ UNCHANGED <<place, passes>>
  /\ Owed("status")
  /\ outdated' = IF statusLoad = "read" THEN outdated \cup {"status"} ELSE outdated
  /\ UNCHANGED <<link, loads, page, inStep>>
-----------------------------------------------------------------------------
(***************************************************************************)
(* statusEvents: the stream                                                *)
(***************************************************************************)
Connect ==
  /\ stream = "off"
  /\ stream' = "linking"
  /\ UNCHANGED <<backend, due, last, net, loads, page, ghosts>>

Subscribe ==
  /\ stream = "linking"
  /\ stream' = "open" /\ last' = "null"
  /\ UNCHANGED <<backend, due, net, loads, page, ghosts>>

\* the network or the backend fails: what is on its way is lost
Break ==
  /\ Occurs
  /\ stream # "off"
  /\ stream' = "off" /\ net' = <<>>
  /\ inStep' = inStep \ {net[i].type : i \in DOMAIN net}
  /\ UNCHANGED <<backend, due, last, loads, page, outdated, mixed>>

Send(kind, data) == net' = Append(net, [type |-> kind, data |-> data])
Unheard(kind) == inStep' = inStep \ {kind} /\ UNCHANGED net

\* mutant: without pairwise, an update without a place is never sent
FilterEmpty(update) == update # Nowhere

\* pairwise and filter: an update without a place of the player is sent only
\* after one with a place
Filter(update) == update # Nowhere \/ last = "some"

PlaceShown == \E s \in Server : queue[s].place > 0

EmitQueues ==
  /\ "queue" \in due /\ Len(net) < MaxNet
  /\ due' = due \ {"queue"}
  /\ IF stream = "open"
     THEN /\ last' = IF place = Nowhere THEN "empty" ELSE "some"
          /\ IF Filter(place) THEN Send("queue", place) /\ UNCHANGED inStep
             ELSE IF PlaceShown THEN Unheard("queue") ELSE UNCHANGED <<net, inStep>>
     ELSE Unheard("queue") /\ UNCHANGED last
  /\ UNCHANGED <<backend, stream, loads, page, outdated, mixed, events>>

\* PassUpdate and ByondStatusUpdate
Emit(kind, data) ==
  /\ kind \in due /\ Len(net) < MaxNet
  /\ due' = due \ {kind}
  /\ IF stream = "open" THEN Send(kind, data) /\ UNCHANGED inStep ELSE Unheard(kind)
  /\ UNCHANGED <<backend, stream, last, loads, page, outdated, mixed, events>>

EmitPasses == Emit("pass", passes)
EmitStatus == Emit("status", answering)
-----------------------------------------------------------------------------
(***************************************************************************)
(* The page: what it loads                                                 *)
(***************************************************************************)
\* queueStatus reads the place at one server after the other
ReadQueue(s) ==
  /\ load.at = "queue" /\ s \in load.left
  /\ load' = [load EXCEPT !.left = @ \ {s}, !.places[s] = place[s],
                          !.at = IF load.left = {s} THEN "pass" ELSE "queue"]
  /\ UNCHANGED <<backend, due, link, statusLoad, statusRead, page, ghosts>>

ReadPasses ==
  /\ load.at = "pass"
  /\ load' = [load EXCEPT !.at = "answer", !.passes = passes]
  /\ UNCHANGED <<backend, due, link, statusLoad, statusRead, page, ghosts>>

Entries(places, ports) ==
  [s \in Server |-> IF s \in ports THEN [place |-> 0, hasPass |-> TRUE]
                    ELSE [place |-> places[s], hasPass |-> FALSE]]

\* both answers are there: they replace whatever events have set meanwhile
SetQueue ==
  /\ load.at = "answer"
  /\ load' = [load EXCEPT !.at = "done"]
  /\ loaded' = TRUE
  /\ queue' = Entries(load.places, load.passes)
  /\ prevPasses' = load.passes
  /\ inStep' = (inStep \cup {"queue", "pass"}) \ outdated
  /\ UNCHANGED <<backend, due, link, statusLoad, statusRead, alive, outdated, mixed, events>>

\* a request is refused or fails: nothing is set
LoadFails ==
  /\ load.at # "done"
  /\ load' = [load EXCEPT !.at = "done"]
  /\ UNCHANGED <<backend, due, link, statusLoad, statusRead, page, ghosts>>

ReadStatus ==
  /\ statusLoad = "asked"
  /\ statusLoad' = "read" /\ statusRead' = answering
  /\ outdated' = outdated \ {"status"}
  /\ UNCHANGED <<backend, due, link, load, page, inStep, mixed, events>>

SetServersStatus ==
  /\ statusLoad = "read"
  /\ statusLoad' = "done" /\ alive' = statusRead
  /\ inStep' = (inStep \cup {"status"}) \ (outdated \cap {"status"})
  /\ UNCHANGED <<backend, due, link, load, statusRead, loaded, queue, prevPasses,
                 outdated, mixed, events>>
-----------------------------------------------------------------------------
(***************************************************************************)
(* The page: what it does with an event                                    *)
(***************************************************************************)
\* mutant: the place of the badge is kept, which counts from one again
OnQueueCounted(update) ==
  [s \in Server |-> [place |-> IF update[s] > 0 THEN update[s] + 1 ELSE 0,
                     hasPass |-> queue[s].hasPass /\ update[s] = 0]]

OnQueue(update) ==
  [s \in Server |->
    IF update[s] > 0 THEN [place |-> update[s], hasPass |-> FALSE]
    ELSE IF queue[s].hasPass THEN queue[s] ELSE NoEntry]

\* mutant: only the passes that are new are entered
OnPassNew(update) ==
  [s \in Server |-> IF s \in update \ prevPasses THEN [place |-> 0, hasPass |-> TRUE]
                    ELSE [queue[s] EXCEPT !.hasPass = FALSE]]

OnPass(update) ==
  [s \in Server |->
    IF s \in update THEN [place |-> 0, hasPass |-> TRUE]
    ELSE [queue[s] EXCEPT !.hasPass = FALSE]]

Received(kind) ==
  /\ net # <<>> /\ Head(net).type = kind
  /\ net' = Tail(net)
  /\ inStep' = inStep \cup {kind}
  /\ UNCHANGED <<backend, due, stream, last, loads, outdated, mixed, events>>

QueueEvent ==
  /\ Received("queue")
  /\ queue' = OnQueue(Head(net).data) /\ loaded' = TRUE
  /\ UNCHANGED <<prevPasses, alive>>

PassEvent ==
  /\ Received("pass")
  /\ queue' = OnPass(Head(net).data) /\ loaded' = TRUE
  /\ prevPasses' = Head(net).data
  /\ UNCHANGED alive

StatusEvent ==
  /\ Received("status")
  /\ alive' = Head(net).data
  /\ UNCHANGED <<loaded, queue, prevPasses>>

\* ServerCard: of all it shows, the button
Button(s) ==
  IF queue[s].hasPass
  THEN IF s \in Queued /\ (~ loaded \/ s \notin alive) THEN "disabled" ELSE "connect"
  ELSE IF queue[s].place > 0 THEN "leave"
  ELSE IF s \in Queued THEN "join" ELSE "connect"

\* handleClickQueue.  A player who is queued or has a pass is not queued again.
Click(s) ==
  \/ Button(s) = "leave" /\ place[s] > 0 /\ MoveTo(s, 0)
  \/ Button(s) = "join" /\ place[s] = 0 /\ s \notin passes /\ MoveTo(s, MaxPlace)
-----------------------------------------------------------------------------
Deliver == QueueEvent \/ PassEvent \/ StatusEvent
Load == (\E s \in Queued : ReadQueue(s)) \/ ReadPasses \/ SetQueue

Next ==
  \/ \E s \in Queued : ChangeQueue(s) \/ ChangePass(s) \/ Click(s)
  \/ \E ok \in Answers : Poll(ok)
  \/ Connect \/ Subscribe \/ Break
  \/ EmitQueues \/ EmitPasses \/ EmitStatus
  \/ Load \/ LoadFails \/ ReadStatus \/ SetServersStatus
  \/ Deliver

Spec == Init /\ [][Next]_vars

(***************************************************************************)
(* The backend makes the broadcasts it owes and the network delivers; the  *)
(* requests are answered.  Nobody need click, and nothing need change.     *)
(***************************************************************************)
FairSpec ==
  /\ Spec
  /\ WF_vars(EmitQueues) /\ WF_vars(EmitPasses) /\ WF_vars(EmitStatus)
  /\ WF_vars(Deliver) /\ WF_vars(Load)
-----------------------------------------------------------------------------
Quiet(kind) == kind \notin due /\ \A i \in DOMAIN net : net[i].type # kind
Current(kind) == kind \in inStep /\ Quiet(kind)

(***************************************************************************)
(* What the button of a server says is true: connect with a pass, leave    *)
(* with a place, join otherwise, disabled when the game does not answer.   *)
(* It need not be while a broadcast is under way, after one that found no  *)
(* stream, after an update without a place that the stream did not send    *)
(* because it had sent none with a place while the page showed one it had  *)
(* loaded, after a load whose answer is older than the last event, and     *)
(* where the player was queued with a pass (a QueueEvent hides the pass).  *)
(***************************************************************************)
ButtonRight ==
  (\A kind \in Kind : Current(kind)) =>
    \A s \in Server \ mixed :
      Button(s) = IF s \in passes
                  THEN IF s \in Queued /\ s \notin answering THEN "disabled" ELSE "connect"
                  ELSE IF place[s] > 0 THEN "leave"
                  ELSE IF s \in Queued THEN "join" ELSE "connect"

(***************************************************************************)
(* A pass that is granted while the page has its stream and has loaded     *)
(* reaches it: the page alerts the player and shows the pass, unless the   *)
(* stream breaks, the pass is gone again or the player is queued as well.  *)
(***************************************************************************)
Granted(s) == "pass" \in due /\ s \in passes /\ stream = "open" /\ load.at = "done"
Reached(s) == s \in prevPasses /\ queue[s].hasPass

PassReachesPage ==
  \A s \in Queued :
    Granted(s) ~> Reached(s) \/ s \notin passes \/ stream # "open" \/ s \in mixed
=============================================================================
