------------------------------ MODULE AdminPage ------------------------------
(***************************************************************************)
(* What an admin sees (queue-frontend/pages/admin.tsx) and the stream      *)
(* behind it (AdminController.adminEvents, AdminService): one admin, one   *)
(* player, several servers with a line.  The request first looks every     *)
(* table up and only then subscribes; from then on a changed pass makes    *)
(* the service look the table of its server up again, at most one look-up  *)
(* per second and one at a time.  A broken stream is opened again by the   *)
(* polyfill, and so starts from new tables.                                *)
(*                                                                         *)
(* Replies of Redis come in the order of the commands, so the reply of a   *)
(* look-up is handled before the announcement of a change made after it:   *)
(* reading and sending are one step.                                       *)
(***************************************************************************)
EXTENDS Naturals, Sequences, SequencesExt

CONSTANTS
  Server,       \* queuedServerList
  NoServer,     \* no server: null
  MaxNet,       \* bound: events on their way when another one is sent
  MaxEvents     \* bound: changes in the backend, clicks and broken streams

ASSUME ServerAssumption == IsFiniteSet(Server) /\ NoServer \notin Server
ASSUME BoundAssumption == MaxNet \in Nat /\ MaxEvents \in Nat

VARIABLES
  list,         \* list[s]: the player in the player list of s
  passes,       \* the servers the player has a pass for
  lined,        \* the servers in whose line the player is
  due,          \* due[s]: PassAdded and PassRemoved that have still to be emitted
  queuesDue,    \* QueuesUpdate has still to be emitted
  stream,       \* "off", "tables" (initial look-ups), "queues", "ready" or "open"
  initial,      \* initial[s]: an initial look-up
  first,        \* the first AdminQueuesUpdateEvent
  buffer,       \* bufferTime: ports announced in this second
  lookUp,       \* the look-up switchMap listens to
  net,          \* events sent and not received yet, oldest first
  playerLists,  \* the page's table of each server: the icons of the player's row
  queuesState,  \* the page's lines
  confirmState, \* the server of the dialog that is shown
  unseen,       \* servers of which no look-up follows the last announcement
  unheard,      \* a QueuesUpdate came between getQueues and the subscription
  events        \* changes, clicks and broken streams so far

backend == <<list, passes, lined>>
owed == <<due, queuesDue>>
link == <<stream, initial, first, buffer, lookUp>>
page == <<playerLists, queuesState, confirmState>>
ghosts == <<unseen, unheard>>
vars == <<backend, owed, link, net, page, ghosts, events>>

Listed == {"absent", "new", "playing"}
Icons == SUBSET {"new", "playing", "pass"}
LookUp == [port : Server \cup {NoServer}, at : {"list", "passes", "done"}, read : Listed]
Event == [type : {"players"}, port : Server, row : Icons] \cup
         [type : {"queues"}, state : SUBSET Server]

TypeOK ==
  /\ list \in [Server -> Listed] /\ passes \subseteq Server /\ lined \subseteq Server
  /\ due \in [Server -> 0 .. MaxEvents] /\ queuesDue \in BOOLEAN
  /\ stream \in {"off", "tables", "queues", "ready", "open"}
  /\ initial \in [Server -> [at : {"list", "passes", "done"}, read : Listed, row : Icons]]
  /\ first \subseteq Server
  /\ buffer \in Seq(Server) /\ lookUp \in LookUp /\ net \in Seq(Event)
  /\ playerLists \in [Server -> Icons] /\ queuesState \subseteq Server
  /\ confirmState \in Server \cup {NoServer}
  /\ unseen \subseteq Server /\ unheard \in BOOLEAN /\ events \in 0 .. MaxEvents

Idle == [port |-> NoServer, at |-> "done", read |-> "absent"]
Fresh == [at |-> "list", read |-> "absent", row |-> {}]

Init ==
  /\ list \in [Server -> {"absent", "playing"}]
  /\ passes = {s \in Server : list[s] = "playing"} /\ lined = {}
  /\ due = [s \in Server |-> 0] /\ queuesDue = FALSE
  /\ stream = "off" /\ initial = [s \in Server |-> Fresh] /\ first = {}
  /\ buffer = <<>> /\ lookUp = Idle /\ net = <<>>
  /\ playerLists = [s \in Server |-> {}] /\ queuesState = {} /\ confirmState = NoServer
  /\ unseen = {} /\ unheard = FALSE /\ events = 0
-----------------------------------------------------------------------------
(***************************************************************************)
(* The backend                                                             *)
(***************************************************************************)
Occurs == events < MaxEvents /\ events' = events + 1

ChangePass(s) ==
  /\ Occurs
  /\ passes' = IF s \in passes THEN passes \ {s} ELSE passes \cup {s}
  /\ due' = [due EXCEPT ![s] = @ + 1]
  /\ UNCHANGED <<list, lined, queuesDue, link, net, page, ghosts>>

\* savePlayerList: nothing announces it
ChangeList(s) ==
  /\ Occurs
  /\ \E l \in Listed \ {list[s]} : list' = [list EXCEPT ![s] = l]
  /\ UNCHANGED <<passes, lined, owed, link, net, page, ghosts>>

ChangeQueue(s) ==
  /\ Occurs
  /\ lined' = IF s \in lined THEN lined \ {s} ELSE lined \cup {s}
  /\ queuesDue' = TRUE
  /\ UNCHANGED <<list, passes, due, link, net, page, ghosts>>

\* onPassAdded, onPassRemoved: without a subscription the Subject drops the port
Announce(s) ==
  /\ due[s] > 0
  /\ due' = [due EXCEPT ![s] = @ - 1]
  /\ IF stream = "open"
     THEN buffer' = Append(buffer, s) /\ UNCHANGED unseen
     ELSE unseen' = unseen \cup {s} /\ UNCHANGED buffer
  /\ UNCHANGED <<backend, queuesDue, stream, initial, first, lookUp, net, page, unheard, events>>

Queues == [type |-> "queues", state |-> lined]

OnQueuesUpdate ==
  /\ queuesDue /\ Len(net) < MaxNet
  /\ queuesDue' = FALSE
  /\ IF stream = "open"
     THEN net' = Append(net, Queues) /\ UNCHANGED unheard
     ELSE unheard' = TRUE /\ UNCHANGED net
  /\ UNCHANGED <<backend, due, link, page, unseen, events>>
-----------------------------------------------------------------------------
(***************************************************************************)
(* adminEvents: the tables, the lines, then the subscription               *)
(***************************************************************************)
Request ==
  /\ stream = "off"
  /\ stream' = "tables" /\ initial' = [s \in Server |-> Fresh]
  /\ UNCHANGED <<backend, owed, first, buffer, lookUp, net, page, ghosts, events>>

\* mutant: a pass of a player who is not in the list is left out
RowListed(listed, hasPass) ==
  IF listed = "absent" THEN {} ELSE {listed} \cup (IF hasPass THEN {"pass"} ELSE {})

\* mutant: the icon of a list the player is not in
RowUnlisted(listed, hasPass) == {listed} \cup (IF hasPass THEN {"pass"} ELSE {})

\* createPlayerUpdateEvent: the player list and the passes together
Row(listed, hasPass) ==
  (IF listed = "absent" THEN {} ELSE {listed}) \cup (IF hasPass THEN {"pass"} ELSE {})

InitialList(s) ==
  /\ stream = "tables" /\ initial[s].at = "list"
  /\ initial' = [initial EXCEPT ![s].at = "passes", ![s].read = list[s]]
  /\ UNCHANGED <<backend, owed, stream, first, buffer, lookUp, net, page, ghosts, events>>

InitialPasses(s) ==
  /\ stream = "tables" /\ initial[s].at = "passes"
  /\ initial' = [initial EXCEPT ![s].at = "done",
                                      ![s].row = Row(initial[s].read, s \in passes)]
  /\ stream' = IF \A t \in Server \ {s} : initial[t].at = "done" THEN "queues" ELSE stream
  /\ unseen' = unseen \ {s}
  /\ UNCHANGED <<backend, owed, first, buffer, lookUp, net, page, unheard, events>>

GetQueues ==
  /\ stream = "queues"
  /\ stream' = "ready" /\ first' = lined /\ unheard' = FALSE
  /\ UNCHANGED <<backend, owed, initial, buffer, lookUp, net, page, unseen, events>>

Players(s, row) == [type |-> "players", port |-> s, row |-> row]

\* merge and concat: the initial events, then the subscriptions
Open ==
  /\ stream = "ready"
  /\ stream' = "open" /\ buffer' = <<>> /\ lookUp' = Idle
  /\ \E order \in SetToSeqs(Server) :
       net' = [i \in DOMAIN order |-> Players(order[i], initial[order[i]].row)]
              \o <<[type |-> "queues", state |-> first]>>
  /\ UNCHANGED <<backend, owed, initial, first, page, ghosts, events>>

\* what is on its way is lost, and nobody listens to the look-ups any more
Break ==
  /\ Occurs
  /\ stream # "off"
  /\ stream' = "off" /\ net' = <<>> /\ buffer' = <<>> /\ lookUp' = Idle
  /\ UNCHANGED <<backend, owed, initial, first, page, ghosts>>
-----------------------------------------------------------------------------
(***************************************************************************)
(* playerUpdateEvents: bufferTime, mergeMap, switchMap                     *)
(***************************************************************************)
\* a Set keeps the place where a port came first
NewestPort(ports) ==
  ports[Max({i \in DOMAIN ports : \A j \in 1 .. i - 1 : ports[j] # ports[i]})]

\* mutant: as exhaustMap, a port is dropped while a look-up is under way
TickExhaust ==
  /\ stream = "open" /\ buffer # <<>>
  /\ buffer' = <<>>
  /\ lookUp' = IF lookUp.at # "done" THEN lookUp
               ELSE [port |-> NewestPort(buffer), at |-> "list", read |-> "absent"]
  /\ unseen' = unseen \cup (ToSet(buffer) \ {lookUp'.port})
  /\ UNCHANGED <<backend, owed, stream, initial, first, net, page, unheard, events>>

\* the second is over: each port replaces the look-up of the one before
Tick ==
  /\ stream = "open" /\ buffer # <<>>
  /\ buffer' = <<>>
  /\ lookUp' = [port |-> NewestPort(buffer), at |-> "list", read |-> "absent"]
  /\ unseen' = (unseen \cup ToSet(buffer)
                \cup (IF lookUp.at = "done" THEN {} ELSE {lookUp.port})) \ {lookUp'.port}
  /\ UNCHANGED <<backend, owed, stream, initial, first, net, page, unheard, events>>

LookUpList ==
  /\ lookUp.at = "list"
  /\ lookUp' = [lookUp EXCEPT !.at = "passes", !.read = list[lookUp.port]]
  /\ UNCHANGED <<backend, owed, stream, initial, first, buffer, net, page, ghosts, events>>

LookUpPasses ==
  /\ lookUp.at = "passes" /\ Len(net) < MaxNet
  /\ lookUp' = Idle
  /\ net' = Append(net, Players(lookUp.port, Row(lookUp.read, lookUp.port \in passes)))
  /\ UNCHANGED <<backend, owed, stream, initial, first, buffer, page, ghosts, events>>
-----------------------------------------------------------------------------
(***************************************************************************)
(* The page                                                                *)
(***************************************************************************)
Received(type) ==
  /\ net # <<>> /\ Head(net).type = type
  /\ net' = Tail(net)
  /\ UNCHANGED <<backend, owed, link, confirmState, ghosts, events>>

AdminPlayersUpdateEvent ==
  /\ Received("players")
  /\ playerLists' = [playerLists EXCEPT ![Head(net).port] = Head(net).row]
  /\ UNCHANGED queuesState

AdminQueuesUpdateEvent ==
  /\ Received("queues")
  /\ queuesState' = Head(net).state
  /\ UNCHANGED playerLists

\* the table of the line: the player has a row
QueueTable(s) == s \in queuesState

\* the button of a row with a pass opens the dialog
RevokePass(s) ==
  /\ confirmState = NoServer /\ "pass" \in playerLists[s]
  /\ confirmState' = s
  /\ UNCHANGED <<backend, owed, link, net, playerLists, queuesState, ghosts, events>>

\* onConfirm: removeCKeyPass also announces a pass that was gone already
OnConfirm ==
  /\ Occurs
  /\ confirmState # NoServer
  /\ passes' = passes \ {confirmState}
  /\ due' = [due EXCEPT ![confirmState] = @ + 1]
  /\ UNCHANGED <<list, lined, queuesDue, link, net, page, ghosts>>

\* the request is answered, or the dialog is dismissed
OnClose ==
  /\ confirmState # NoServer
  /\ confirmState' = NoServer
  /\ UNCHANGED <<backend, owed, link, net, playerLists, queuesState, ghosts, events>>
-----------------------------------------------------------------------------
InitialLookUp == (\E s \in Server : InitialList(s) \/ InitialPasses(s)) \/ GetQueues \/ Open
LookUpStep == LookUpList \/ LookUpPasses
Deliver == AdminPlayersUpdateEvent \/ AdminQueuesUpdateEvent

Next ==
  \/ \E s \in Server : ChangePass(s) \/ ChangeList(s) \/ ChangeQueue(s)
  \/ \E s \in Server : Announce(s) \/ RevokePass(s)
  \/ OnQueuesUpdate
  \/ Request \/ InitialLookUp \/ Break
  \/ Tick \/ LookUpStep
  \/ Deliver \/ OnConfirm \/ OnClose

Spec == Init /\ [][Next]_vars

(***************************************************************************)
(* The backend makes its announcements, the timer of bufferTime runs,      *)
(* Redis answers, the network delivers.                                    *)
(***************************************************************************)
FairSpec ==
  /\ Spec
  /\ \A s \in Server : WF_vars(Announce(s))
  /\ WF_vars(Tick) /\ WF_vars(LookUpStep) /\ WF_vars(Deliver)
-----------------------------------------------------------------------------
OnItsWay(s) ==
  \/ due[s] > 0 \/ s \in ToSet(buffer) \/ lookUp.port = s
  \/ \E i \in DOMAIN net : net[i].type = "players" /\ net[i].port = s

PassShown(s) == ("pass" \in playerLists[s]) = (s \in passes)

(***************************************************************************)
(* While the stream is open the page shows who has a pass and who is in    *)
(* line, unless news is on its way; unless another server's announcement   *)
(* took the place of this one's look-up, or an announcement came between   *)
(* the initial look-up and the subscription.  Whether a player is in the   *)
(* game is as old as the last announcement of a pass: nothing announces    *)
(* that it changed.                                                        *)
(***************************************************************************)
AdminViewRight ==
  stream = "open" =>
    /\ \A s \in Server : OnItsWay(s) \/ s \in unseen \/ PassShown(s)
    /\ \/ queuesDue \/ unheard \/ \A s \in Server : QueueTable(s) = (s \in lined)
       \/ \E i \in DOMAIN net : net[i].type = "queues"

(***************************************************************************)
(* A server whose passes change alone is shown: if nothing else has been   *)
(* announced in the same second, its table is right in the end, unless a   *)
(* change of another server comes before its look-up is through.           *)
(***************************************************************************)
Alone(s) == stream = "open" /\ ToSet(buffer) = {s}

AloneIsShown ==
  \A s \in Server :
    Alone(s) ~> \/ PassShown(s) \/ due[s] > 0 \/ stream # "open"
                \/ \E t \in ToSet(buffer) : t # s
=============================================================================
