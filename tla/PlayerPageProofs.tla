-------------------------- MODULE PlayerPageProofs --------------------------
(***************************************************************************)
(* Theorems about the player's page (PlayerPage), for any number of        *)
(* servers, places, events on their way and changes.  The invariant        *)
(* follows what is on its way: the last event of a kind tells what is      *)
(* there now (LastIsCurrent), and an older event that would hide a pass or *)
(* a place is followed by one of the other kind that shows it again        *)
(* (PassLater, PlaceLater).                                                *)
(***************************************************************************)
EXTENDS PlayerPage, SequenceTheorems, FiniteSetTheorems, WellFoundedInduction, TLAPS

Value(kind) ==
  CASE kind = "queue" -> place [] kind = "pass" -> passes [] kind = "status" -> answering

Later(kind, i) == \E j \in DOMAIN net : j > i /\ net[j].type = kind
Silent(kind) == \A i \in DOMAIN net : net[i].type # kind

\* the events are all of one stream, which knows its last update
OneStream ==
  /\ net # <<>> => stream = "open"
  /\ \A i \in DOMAIN net : net[i].type = "queue" /\ ~ Later("queue", i) =>
       (last = "some" <=> net[i].data # Nowhere)

LastIsCurrent ==
  \A k \in Kind \ due : \A i \in DOMAIN net :
    net[i].type = k /\ ~ Later(k, i) => net[i].data = Value(k)

Apart == \A s \in Server \ mixed : ~ (s \in passes /\ place[s] > 0)

PassLater ==
  "pass" \notin due => \A s \in passes \ mixed : \A i \in DOMAIN net :
    net[i].type = "queue" /\ net[i].data[s] > 0 => Later("pass", i)

PlaceLater ==
  "queue" \notin due => \A s \in Server \ mixed : place[s] > 0 => \A i \in DOMAIN net :
    net[i].type = "pass" /\ s \in net[i].data => Later("queue", i)

NetInv == OneStream /\ LastIsCurrent /\ Apart /\ PassLater /\ PlaceLater

\* what a load has read is there still, or it is outdated
LoadInv ==
  /\ load.at \in {"pass", "answer"} => load.left = {}
  /\ load.at # "done" /\ "queue" \notin outdated =>
       \A s \in Queued \ load.left : load.places[s] = place[s]
  /\ load.at = "answer" /\ "pass" \notin outdated => load.passes = passes
  /\ load.at = "answer" /\ "queue" \notin outdated =>
       \A s \in load.passes \ mixed : load.places[s] = 0
  /\ \A s \in Server \ Queued : place[s] = 0 /\ load.places[s] = 0
  /\ statusLoad = "read" /\ "status" \notin outdated => statusRead = answering

PassShown == Current("pass") => \A s \in Server \ mixed : queue[s].hasPass <=> s \in passes
PlaceRight == Current("queue") => \A s \in Server \ mixed : queue[s].place > 0 <=> place[s] > 0
StatusShown == Current("status") => alive = answering
Entered == \A s \in Server : queue[s].hasPass => queue[s].place = 0 /\ loaded

ViewInv == PassShown /\ PlaceRight /\ StatusShown /\ Entered

PageInv == NetInv /\ LoadInv /\ ViewInv
-----------------------------------------------------------------------------
(***************************************************************************)
(* Events on their way                                                     *)
(***************************************************************************)
LEMMA NetIsSeq ==
  ASSUME TypeOK
  PROVE  \E n \in Nat : n = Len(net) /\ DOMAIN net = 1 .. n /\ \A i \in 1 .. n : net[i] \in Event
BY LenProperties, ElementOfSeq DEF TypeOK

LEMMA EventKinds ==
  ASSUME NEW e \in Event
  PROVE  /\ e.type \in Kind
         /\ e.type = "queue" => e.data \in Places
         /\ e.type = "pass" => e.data \in SUBSET Server
         /\ e.type = "status" => e.data \in SUBSET Queued
BY DEF Event, Kind

\* one is appended
LEMMA SendNet ==
  ASSUME TypeOK, NEW kind, NEW data, [type |-> kind, data |-> data] \in Event, Send(kind, data)
  PROVE  /\ net' \in Seq(Event)
         /\ \E n \in Nat :
              /\ DOMAIN net = 1 .. n /\ DOMAIN net' = 1 .. n + 1
              /\ \A i \in 1 .. n : net'[i] = net[i]
              /\ net'[n + 1].type = kind /\ net'[n + 1].data = data
<1> DEFINE e == [type |-> kind, data |-> data]
<1>1. net \in Seq(Event) /\ e \in Event /\ net' = Append(net, e)
  BY DEF TypeOK, Send
<1>2. e.type = kind /\ e.data = data
  OBVIOUS
<1> HIDE DEF e
<1>3. PICK n \in Nat : n = Len(net) /\ DOMAIN net = 1 .. n
  BY NetIsSeq
<1>4. /\ net' \in Seq(Event) /\ Len(net') = n + 1
      /\ \A i \in 1 .. n : net'[i] = net[i]
      /\ net'[n + 1] = e
  BY <1>1, <1>3, AppendProperties
<1>5. DOMAIN net' = 1 .. n + 1
  BY <1>4, LenProperties
<1> QED BY <1>2, <1>3, <1>4, <1>5

\* one is received
LEMMA TailNet ==
  ASSUME TypeOK, net # <<>>, net' = Tail(net)
  PROVE  /\ net' \in Seq(Event)
         /\ \E n \in Nat :
              /\ DOMAIN net = 1 .. n + 1 /\ DOMAIN net' = 1 .. n
              /\ \A i \in 1 .. n : net'[i] = net[i + 1]
              /\ net[1] = Head(net) /\ net[1] \in Event
<1>1. net \in Seq(Event)
  BY DEF TypeOK
<1>2. Len(net) \in Nat /\ Len(net) # 0 /\ DOMAIN net = 1 .. Len(net)
  BY <1>1, LenProperties, EmptySeq
<1>3. PICK n \in Nat : Len(net) = n + 1
  <2>1. Len(net) - 1 \in Nat /\ Len(net) = (Len(net) - 1) + 1
    BY <1>2
  <2> QED BY <2>1
<1>4. /\ net' \in Seq(Event) /\ Len(net') = n /\ DOMAIN net' = 1 .. Len(net')
      /\ \A i \in 1 .. Len(net') : net'[i] = net[i + 1]
  <2>1. /\ Tail(net) \in Seq(Event) /\ Len(Tail(net)) = Len(net) - 1
        /\ \A i \in 1 .. Len(Tail(net)) : Tail(net)[i] = net[i + 1]
    BY <1>1, HeadTailProperties
  <2> QED BY <1>3, <2>1, LenProperties
<1>5. net[1] = Head(net) /\ net[1] \in Event
  BY <1>1, <1>2, HeadTailProperties
<1> QED BY <1>2, <1>3, <1>4, <1>5

LEMMA TypeInit == Init => TypeOK
<1>1. <<>> \in Seq(Event)
  BY EmptySeq
<1>2. MaxPlace \in 0 .. MaxPlace /\ 0 \in 0 .. MaxPlace
  BY BoundAssumption
<1> SUFFICES ASSUME Init PROVE TypeOK
  OBVIOUS
<1>3. place \in Places /\ Nowhere \in Places
  BY <1>2 DEF Init, Places, Nowhere
<1>4. load \in [at : {"queue", "pass", "answer", "done"}, left : SUBSET Server,
                places : Places, passes : SUBSET Server]
  BY <1>3, ServerAssumption DEF Init
<1>5. queue \in [Server -> [place : 0 .. MaxPlace, hasPass : BOOLEAN]]
  BY <1>2 DEF Init, NoEntry
<1> QED BY <1>1, <1>3, <1>4, <1>5, ServerAssumption DEF Init, Rendered, TypeOK

\* what becomes of a page
LEMMA ReducersType ==
  ASSUME TypeOK
  PROVE  /\ \A u \in Places : OnQueue(u) \in [Server -> [place : 0 .. MaxPlace, hasPass : BOOLEAN]]
         /\ \A u \in SUBSET Server :
              OnPass(u) \in [Server -> [place : 0 .. MaxPlace, hasPass : BOOLEAN]]
         /\ \A p \in Places, u \in SUBSET Server :
              Entries(p, u) \in [Server -> [place : 0 .. MaxPlace, hasPass : BOOLEAN]]
<1>1. 0 \in 0 .. MaxPlace /\ NoEntry \in [place : 0 .. MaxPlace, hasPass : BOOLEAN]
  BY BoundAssumption DEF NoEntry
<1>2. \A u \in Places : OnQueue(u) \in [Server -> [place : 0 .. MaxPlace, hasPass : BOOLEAN]]
  BY <1>1 DEF TypeOK, OnQueue, Places
<1>3. \A u \in SUBSET Server :
        OnPass(u) \in [Server -> [place : 0 .. MaxPlace, hasPass : BOOLEAN]]
  BY <1>1 DEF TypeOK, OnPass
<1>4. \A p \in Places, u \in SUBSET Server :
        Entries(p, u) \in [Server -> [place : 0 .. MaxPlace, hasPass : BOOLEAN]]
  BY <1>1 DEF TypeOK, Entries, Places
<1> QED BY <1>2, <1>3, <1>4

LEMMA MoveType ==
  ASSUME TypeOK, NEW s \in Queued, ChangeQueue(s) \/ Click(s)
  PROVE  TypeOK'
<1>1. PICK n \in 0 .. MaxPlace : MoveTo(s, n)
  BY BoundAssumption DEF ChangeQueue, Click
<1>2. place' \in Places
  BY <1>1 DEF MoveTo, TypeOK, Places
<1>3. outdated' \subseteq Kind /\ due' \subseteq Kind /\ mixed' \subseteq Server /\ events' \in Nat
  BY <1>1 DEF MoveTo, TypeOK, Kind, Owed, Occurs
<1> QED BY <1>1, <1>2, <1>3 DEF MoveTo, TypeOK, link, loads, page

LEMMA PassType ==
  ASSUME TypeOK, NEW s \in Queued, ChangePass(s)
  PROVE  TypeOK'
<1>1. passes' \subseteq Server
  BY ServerAssumption DEF ChangePass, TypeOK
<1>2. outdated' \subseteq Kind /\ due' \subseteq Kind /\ mixed' \subseteq Server /\ events' \in Nat
  BY <1>1 DEF ChangePass, TypeOK, Kind, Owed, Occurs
<1> QED BY <1>1, <1>2 DEF ChangePass, TypeOK, link, loads, page

LEMMA PollType ==
  ASSUME TypeOK, NEW ok \in Answers, Poll(ok)
  PROVE  TypeOK'
<1>1. answering' \subseteq Queued
  BY DEF Answers, Poll, TypeOK
<1>2. outdated' \subseteq Kind /\ due' \subseteq Kind /\ mixed' \subseteq Server /\ events' \in Nat
  BY DEF Answers, Poll, TypeOK, Kind, Owed, Occurs
<1> QED BY <1>1, <1>2 DEF Poll, TypeOK, link, loads, page

LEMMA StreamType ==
  ASSUME TypeOK, Connect \/ Subscribe \/ Break
  PROVE  TypeOK'
<1>1. CASE Connect \/ Subscribe
  BY <1>1 DEF Connect, Subscribe, TypeOK, backend, loads, page, ghosts
<1>2. CASE Break
  <2>1. <<>> \in Seq(Event)
    BY EmptySeq
  <2> QED BY <1>2, <2>1 DEF Break, Occurs, TypeOK, backend, loads, page
<1> QED BY <1>1, <1>2

LEMMA EmitType ==
  ASSUME TypeOK, EmitQueues \/ EmitPasses \/ EmitStatus
  PROVE  TypeOK'
<1>1. ASSUME NEW kind \in Kind, NEW data, [type |-> kind, data |-> data] \in Event,
             Send(kind, data)
      PROVE  net' \in Seq(Event)
  BY <1>1, SendNet
<1>2. CASE EmitQueues
  <2>1. net' \in Seq(Event)
    <3>1. net' = net \/ Send("queue", place)
      BY <1>2 DEF EmitQueues, Unheard
    <3>2. [type |-> "queue", data |-> place] \in Event
      BY DEF Event, TypeOK
    <3> QED BY <1>1, <3>1, <3>2 DEF TypeOK, Kind
  <2>2. inStep' \subseteq Kind /\ due' \subseteq Kind /\ last' \in {"null", "empty", "some"}
    BY <1>2 DEF EmitQueues, Unheard, TypeOK
  <2> QED BY <1>2, <2>1, <2>2 DEF EmitQueues, TypeOK, backend, loads, page
<1>3. CASE EmitPasses \/ EmitStatus
  <2>1. PICK kind \in {"pass", "status"}, data \in {passes, answering} : Emit(kind, data) /\ [type |-> kind, data |-> data] \in Event
    BY <1>3 DEF EmitPasses, EmitStatus, TypeOK, Event
  <2>2. net' \in Seq(Event)
    <3>1. net' = net \/ Send(kind, data)
      BY <2>1 DEF Emit, Unheard
    <3> QED BY <1>1, <2>1, <3>1 DEF TypeOK, Kind
  <2>3. inStep' \subseteq Kind /\ due' \subseteq Kind
    BY <2>1 DEF Emit, Unheard, TypeOK
  <2> QED BY <2>1, <2>2, <2>3 DEF Emit, TypeOK, backend, loads, page
<1> QED BY <1>2, <1>3

LEMMA LoadType ==
  ASSUME TypeOK, Load \/ LoadFails \/ ReadStatus \/ SetServersStatus
  PROVE  TypeOK'
<1>1. ASSUME NEW s \in Queued, ReadQueue(s)  PROVE TypeOK'
  <2>1. s \in Server /\ place[s] \in 0 .. MaxPlace
    BY ServerAssumption DEF TypeOK, Places
  <2>2. [load.places EXCEPT ![s] = place[s]] \in Places
    BY <2>1 DEF TypeOK, Places
  <2>3. load' \in [at : {"queue", "pass", "answer", "done"}, left : SUBSET Server,
                   places : Places, passes : SUBSET Server]
    BY <1>1, <2>2 DEF ReadQueue, TypeOK
  <2> QED BY <1>1, <2>3 DEF ReadQueue, TypeOK, backend, link, page, ghosts
<1>2. CASE ReadPasses \/ LoadFails \/ ReadStatus
  BY <1>2 DEF ReadPasses, LoadFails, ReadStatus, TypeOK, backend, link, page, ghosts
<1>3. CASE SetQueue
  <2>1. queue' \in [Server -> [place : 0 .. MaxPlace, hasPass : BOOLEAN]]
    BY <1>3, ReducersType DEF SetQueue, TypeOK
  <2>2. inStep' \subseteq Kind /\ prevPasses' \subseteq Server
    BY <1>3 DEF SetQueue, TypeOK, Kind
  <2> QED BY <1>3, <2>1, <2>2 DEF SetQueue, TypeOK, backend, link
<1>4. CASE SetServersStatus
  BY <1>4 DEF SetServersStatus, TypeOK, Kind, backend, link
<1> QED BY <1>1, <1>2, <1>3, <1>4 DEF Load

LEMMA DeliverType ==
  ASSUME TypeOK, Deliver
  PROVE  TypeOK'
<1>1. net # <<>> /\ net' = Tail(net) /\ Head(net).type \in Kind
  BY DEF Deliver, QueueEvent, PassEvent, StatusEvent, Received, Kind
<1>2. net' \in Seq(Event) /\ Head(net) \in Event
  BY <1>1, TailNet
<1>3. inStep' \subseteq Kind
  BY DEF Deliver, QueueEvent, PassEvent, StatusEvent, Received, TypeOK, Kind
<1>4. CASE QueueEvent
  <2>1. queue' \in [Server -> [place : 0 .. MaxPlace, hasPass : BOOLEAN]]
    BY <1>2, <1>4, EventKinds, ReducersType DEF QueueEvent, Received
  <2> QED BY <1>2, <1>3, <1>4, <2>1 DEF QueueEvent, Received, TypeOK, backend, loads
<1>5. CASE PassEvent
  <2>1. Head(net).data \in SUBSET Server
    BY <1>2, <1>5, EventKinds DEF PassEvent, Received
  <2>2. queue' \in [Server -> [place : 0 .. MaxPlace, hasPass : BOOLEAN]]
    BY <1>5, <2>1, ReducersType DEF PassEvent
  <2> QED BY <1>2, <1>3, <1>5, <2>1, <2>2 DEF PassEvent, Received, TypeOK, backend, loads
<1>6. CASE StatusEvent
  <2>1. alive' \subseteq Queued
    BY <1>2, <1>6, EventKinds DEF StatusEvent, Received
  <2> QED BY <1>2, <1>3, <1>6, <2>1 DEF StatusEvent, Received, TypeOK, backend, loads
<1> QED BY <1>4, <1>5, <1>6 DEF Deliver

LEMMA NextKeepsType ==
  ASSUME TypeOK, [Next]_vars
  PROVE  TypeOK'
<1>1. CASE UNCHANGED vars
  BY <1>1 DEF vars, TypeOK, backend, link, loads, page, ghosts
<1> QED BY <1>1, MoveType, PassType, PollType, StreamType, EmitType, LoadType, DeliverType
        DEF Next

\* Whatever is changed, lost and reopened, the page holds a place and a pass per
\* server and what is on its way are events.
THEOREM TypeCorrect == Spec => []TypeOK
<1>1. TypeOK /\ [Next]_vars => TypeOK'
  BY NextKeepsType
<1> QED BY <1>1, TypeInit, PTL DEF Spec
-----------------------------------------------------------------------------
(***************************************************************************)
(* What is on its way                                                      *)
(***************************************************************************)
\* a change, of which the broadcast is owed
LEMMA OwedNet ==
  ASSUME NetInv, NEW kind \in Kind, Owed(kind), UNCHANGED link,
         kind # "queue" => place' = place, kind # "pass" => passes' = passes,
         kind # "status" => answering' = answering
  PROVE  NetInv'
<1>1. /\ UNCHANGED <<net, stream, last>> /\ due' = due \cup {kind}
      /\ mixed' = mixed \cup {s \in passes' : place'[s] > 0}
  BY DEF link, Owed
<1>2. \A k, i : Later(k, i)' = Later(k, i)
  BY <1>1 DEF Later
<1>3. \A k \in Kind \ due' : k \notin due /\ Value(k)' = Value(k)
  BY <1>1 DEF Value, Kind
<1>4. OneStream'
  BY <1>1, <1>2 DEF NetInv, OneStream
<1>5. LastIsCurrent'
  <2>1. SUFFICES ASSUME NEW k \in Kind \ due', NEW i \in DOMAIN net, net[i].type = k, ~ Later(k, i)
                 PROVE  net[i].data = Value(k)'
    BY <1>1, <1>2 DEF LastIsCurrent
  <2> QED BY <1>3, <2>1 DEF NetInv, LastIsCurrent
<1>6. Apart'
  BY <1>1 DEF Apart
<1>7. PassLater'
  <2>1. SUFFICES ASSUME "pass" \notin due', NEW s \in passes' \ mixed', NEW i \in DOMAIN net,
                        net[i].type = "queue", net[i].data[s] > 0
                 PROVE  Later("pass", i)
    BY <1>1, <1>2 DEF PassLater
  <2>2. "pass" \notin due /\ s \in passes \ mixed
    BY <1>1, <2>1
  <2> QED BY <2>1, <2>2 DEF NetInv, PassLater
<1>8. PlaceLater'
  <2>1. SUFFICES ASSUME "queue" \notin due', NEW s \in Server \ mixed', place'[s] > 0,
                        NEW i \in DOMAIN net, net[i].type = "pass", s \in net[i].data
                 PROVE  Later("queue", i)
    BY <1>1, <1>2 DEF PlaceLater
  <2>2. "queue" \notin due /\ s \in Server \ mixed /\ place[s] > 0
    BY <1>1, <2>1
  <2> QED BY <2>1, <2>2 DEF NetInv, PlaceLater
<1> QED BY <1>4, <1>5, <1>6, <1>7, <1>8 DEF NetInv

\* there is nothing on its way
LEMMA EmptyNet ==
  ASSUME Apart', net' = <<>>
  PROVE  NetInv'
<1>1. DOMAIN net' = {}
  OBVIOUS
<1> QED BY <1>1 DEF NetInv, OneStream, LastIsCurrent, PassLater, PlaceLater

LEMMA SameNet ==
  ASSUME NetInv, UNCHANGED <<backend, due, link, mixed>>
  PROVE  NetInv'
<1>1. UNCHANGED <<place, passes, answering, due, stream, last, net, mixed>>
  BY DEF backend, link
<1>2. (\A k, i : Later(k, i)' = Later(k, i)) /\ \A k : Value(k)' = Value(k)
  BY <1>1 DEF Later, Value
<1> QED BY <1>1, <1>2 DEF NetInv, OneStream, LastIsCurrent, Apart, PassLater, PlaceLater

\* an update that the stream leaves out repeats the last one sent
LEMMA FilteredNet ==
  ASSUME NetInv, UNCHANGED <<place, passes, answering, net, stream, mixed>>,
         due' = due \ {"queue"}, place = Nowhere, last # "some", last' = "empty"
  PROVE  NetInv'
<1>1. \A k, i : Later(k, i)' = Later(k, i)
  BY DEF Later
<1>2. \A i \in DOMAIN net : net[i].type = "queue" /\ ~ Later("queue", i) => net[i].data = Nowhere
  BY DEF NetInv, OneStream
<1>3. OneStream'
  BY <1>1, <1>2 DEF NetInv, OneStream
<1>4. LastIsCurrent'
  <2>1. SUFFICES ASSUME NEW k \in Kind \ due', NEW i \in DOMAIN net, net[i].type = k, ~ Later(k, i)
                 PROVE  net[i].data = Value(k)
    <3>1. \A k : Value(k)' = Value(k)
      BY DEF Value
    <3> QED BY <1>1, <3>1 DEF LastIsCurrent
  <2>2. CASE k = "queue"
    BY <1>2, <2>1, <2>2 DEF Value
  <2>3. CASE k # "queue"
    BY <2>1, <2>3 DEF NetInv, LastIsCurrent
  <2> QED BY <2>2, <2>3
<1>5. Apart' /\ PassLater'
  BY <1>1 DEF NetInv, Apart, PassLater
<1>6. PlaceLater'
  <2>1. \A s \in Server : ~ (place'[s] > 0)
    BY DEF Nowhere
  <2> QED BY <2>1 DEF PlaceLater
<1> QED BY <1>3, <1>4, <1>5, <1>6 DEF NetInv

\* what is sent is what is there
LEMMA SendKeepsNet ==
  ASSUME TypeOK, NetInv, NEW k \in Kind, NEW data, [type |-> k, data |-> data] \in Event,
         Send(k, data), data = Value(k), stream = "open", due' = due \ {k},
         UNCHANGED <<place, passes, answering, stream, mixed>>,
         last' = IF k # "queue" THEN last ELSE IF place = Nowhere THEN "empty" ELSE "some"
  PROVE  NetInv'
<1>1. PICK n \in Nat :
        /\ DOMAIN net = 1 .. n /\ DOMAIN net' = 1 .. n + 1
        /\ \A i \in 1 .. n : net'[i] = net[i]
        /\ net'[n + 1].type = k /\ net'[n + 1].data = data
  BY SendNet
<1>2. /\ \A i \in 1 .. n + 1 : i \in 1 .. n \/ i = n + 1
      /\ n + 1 \in 1 .. n + 1 /\ \A i \in 1 .. n : i \in 1 .. n + 1 /\ n + 1 > i
      /\ \A j \in 1 .. n + 1 : ~ (j > n + 1)
  OBVIOUS
<1>3. \A d : \A i \in 1 .. n : Later(d, i)' <=> Later(d, i) \/ d = k
  BY <1>1, <1>2 DEF Later
<1>4. \A d : ~ Later(d, n + 1)'
  BY <1>1, <1>2 DEF Later
<1>5. \A d : Value(d)' = Value(d)
  BY DEF Value
<1>6. OneStream'
  <2>1. SUFFICES ASSUME NEW i \in 1 .. n + 1, net'[i].type = "queue", ~ Later("queue", i)'
                 PROVE  last' = "some" <=> net'[i].data # Nowhere
    BY <1>1 DEF OneStream
  <2>2. CASE i = n + 1
    BY <1>1, <2>1, <2>2 DEF Value
  <2>3. CASE i \in 1 .. n
    BY <1>1, <1>3, <2>1, <2>3 DEF NetInv, OneStream
  <2> QED BY <1>2, <2>2, <2>3
<1>7. LastIsCurrent'
  <2>1. SUFFICES ASSUME NEW d \in Kind \ due', NEW i \in 1 .. n + 1, net'[i].type = d, ~ Later(d, i)'
                 PROVE  net'[i].data = Value(d)
    BY <1>1, <1>5 DEF LastIsCurrent
  <2>2. CASE i = n + 1
    BY <1>1, <2>1, <2>2
  <2>3. CASE i \in 1 .. n
    BY <1>1, <1>3, <2>1, <2>3 DEF NetInv, LastIsCurrent
  <2> QED BY <1>2, <2>2, <2>3
<1>8. Apart'
  BY DEF NetInv, Apart
<1>9. PassLater'
  <2>1. SUFFICES ASSUME "pass" \notin due', NEW s \in passes \ mixed, NEW i \in 1 .. n + 1,
                        net'[i].type = "queue", net'[i].data[s] > 0
                 PROVE  Later("pass", i)'
    BY <1>1 DEF PassLater
  <2>2. CASE i = n + 1
    BY <1>1, <2>1, <2>2 DEF Value, NetInv, Apart, TypeOK
  <2>3. CASE i \in 1 .. n
    BY <1>1, <1>3, <2>1, <2>3 DEF NetInv, PassLater
  <2> QED BY <1>2, <2>2, <2>3
<1>10. PlaceLater'
  <2>1. SUFFICES ASSUME "queue" \notin due', NEW s \in Server \ mixed, place[s] > 0,
                        NEW i \in 1 .. n + 1, net'[i].type = "pass", s \in net'[i].data
                 PROVE  Later("queue", i)'
    BY <1>1 DEF PlaceLater
  <2>2. CASE i = n + 1
    BY <1>1, <2>1, <2>2 DEF Value, NetInv, Apart
  <2>3. CASE i \in 1 .. n
    BY <1>1, <1>3, <2>1, <2>3 DEF NetInv, PlaceLater
  <2> QED BY <1>2, <2>2, <2>3
<1> QED BY <1>6, <1>7, <1>8, <1>9, <1>10 DEF NetInv

\* the oldest is received
LEMMA TailKeepsNet ==
  ASSUME TypeOK, NetInv, net # <<>>, net' = Tail(net),
         UNCHANGED <<place, passes, answering, due, stream, last, mixed>>
  PROVE  NetInv'
<1>1. PICK n \in Nat :
        /\ DOMAIN net = 1 .. n + 1 /\ DOMAIN net' = 1 .. n
        /\ \A i \in 1 .. n : net'[i] = net[i + 1]
  BY TailNet
<1>2. /\ \A i \in 1 .. n : i + 1 \in 1 .. n + 1
      /\ \A i, j \in 1 .. n : j > i <=> j + 1 > i + 1
      /\ \A i \in 1 .. n : \A j \in 1 .. n + 1 : j > i + 1 => j - 1 \in 1 .. n /\ (j - 1) + 1 = j
  OBVIOUS
<1>3. \A d : \A i \in 1 .. n : Later(d, i)' <=> Later(d, i + 1)
  <2> SUFFICES ASSUME NEW d, NEW i \in 1 .. n
               PROVE  Later(d, i)' <=> Later(d, i + 1)
    OBVIOUS
  <2>1. ASSUME Later(d, i)'  PROVE Later(d, i + 1)
    BY <1>1, <1>2, <2>1 DEF Later
  <2>2. ASSUME Later(d, i + 1)  PROVE Later(d, i)'
    <3>1. PICK j \in 1 .. n + 1 : j > i + 1 /\ net[j].type = d
      BY <1>1, <2>2 DEF Later
    <3>2. j - 1 \in 1 .. n /\ j - 1 > i /\ net'[j - 1].type = d
      BY <1>1, <1>2, <3>1
    <3> QED BY <1>1, <3>2 DEF Later
  <2> QED BY <2>1, <2>2
<1>4. \A d : Value(d)' = Value(d)
  BY DEF Value
<1>5. OneStream'
  BY <1>1, <1>2, <1>3 DEF NetInv, OneStream
<1>6. LastIsCurrent'
  BY <1>1, <1>2, <1>3, <1>4 DEF NetInv, LastIsCurrent
<1>7. Apart'
  BY DEF NetInv, Apart
<1>8. PassLater'
  BY <1>1, <1>2, <1>3 DEF NetInv, PassLater
<1>9. PlaceLater'
  BY <1>1, <1>2, <1>3 DEF NetInv, PlaceLater
<1> QED BY <1>5, <1>6, <1>7, <1>8, <1>9 DEF NetInv

LEMMA NextKeepsNet ==
  ASSUME TypeOK, PageInv, [Next]_vars
  PROVE  NetInv'
<1>0. NetInv
  BY DEF PageInv
<1>1. ASSUME NEW s \in Queued, ChangeQueue(s) \/ ChangePass(s) \/ Click(s)  PROVE NetInv'
  <2>1. CASE ChangePass(s)
    BY <1>0, <2>1, OwedNet DEF ChangePass, Kind
  <2>2. CASE ~ ChangePass(s)
    <3>1. PICK n : MoveTo(s, n)
      BY <1>1, <2>2 DEF ChangeQueue, Click
    <3> QED BY <1>0, <3>1, OwedNet DEF MoveTo, Kind
  <2> QED BY <2>1, <2>2
<1>2. ASSUME NEW ok \in Answers, Poll(ok)  PROVE NetInv'
  BY <1>0, <1>2, OwedNet DEF Poll, Kind
<1>3. CASE Connect \/ Subscribe \/ Break
  <2>1. net' = <<>>
    BY <1>0, <1>3 DEF Connect, Subscribe, Break, NetInv, OneStream
  <2>2. Apart'
    BY <1>0, <1>3 DEF Connect, Subscribe, Break, NetInv, Apart, backend, ghosts
  <2> QED BY <2>1, <2>2, EmptyNet
<1>4. CASE EmitQueues
  <2>1. UNCHANGED <<place, passes, answering, stream, mixed>> /\ due' = due \ {"queue"}
    BY <1>4 DEF EmitQueues, backend
  <2>2. Apart'
    BY <1>0, <2>1 DEF NetInv, Apart
  <2>3. CASE stream # "open"
    BY <1>0, <1>4, <2>2, <2>3, EmptyNet DEF EmitQueues, Unheard, NetInv, OneStream
  <2>4. CASE stream = "open" /\ Filter(place)
    <3>1. /\ Send("queue", place)
          /\ last' = IF place = Nowhere THEN "empty" ELSE "some"
      BY <1>4, <2>4 DEF EmitQueues
    <3>2. [type |-> "queue", data |-> place] \in Event /\ "queue" \in Kind /\ place = Value("queue")
      BY DEF Event, TypeOK, Kind, Value
    <3> QED BY <1>0, <2>1, <2>4, <3>1, <3>2, SendKeepsNet
  <2>5. CASE stream = "open" /\ ~ Filter(place)
    <3>1. net' = net /\ place = Nowhere /\ last # "some" /\ last' = "empty"
      BY <1>4, <2>5 DEF EmitQueues, Filter, Unheard
    <3> QED BY <1>0, <2>1, <3>1, FilteredNet
  <2> QED BY <2>3, <2>4, <2>5
<1>5. CASE EmitPasses \/ EmitStatus
  <2>1. PICK k \in Kind, data \in {passes, answering} :
          /\ Emit(k, data) /\ [type |-> k, data |-> data] \in Event
          /\ k # "queue" /\ data = Value(k)
    <3>1. CASE EmitPasses
      BY <3>1 DEF EmitPasses, TypeOK, Event, Kind, Value
    <3>2. CASE EmitStatus
      BY <3>2 DEF EmitStatus, TypeOK, Event, Kind, Value
    <3> QED BY <1>5, <3>1, <3>2
  <2>2. UNCHANGED <<place, passes, answering, stream, last, mixed>> /\ due' = due \ {k}
    BY <2>1 DEF Emit, backend
  <2>3. CASE stream = "open"
    BY <1>0, <2>1, <2>2, <2>3, SendKeepsNet DEF Emit
  <2>4. CASE stream # "open"
    <3>1. net' = <<>>
      BY <1>0, <2>1, <2>4 DEF Emit, Unheard, NetInv, OneStream
    <3>2. Apart'
      BY <1>0, <2>2 DEF NetInv, Apart
    <3> QED BY <3>1, <3>2, EmptyNet
  <2> QED BY <2>3, <2>4
<1>6. CASE Deliver
  <2>1. /\ net # <<>> /\ net' = Tail(net)
        /\ UNCHANGED <<place, passes, answering, due, stream, last, mixed>>
    BY <1>6 DEF Deliver, QueueEvent, PassEvent, StatusEvent, Received, backend
  <2> QED BY <1>0, <2>1, TailKeepsNet
<1>7. CASE Load \/ LoadFails \/ ReadStatus \/ SetServersStatus \/ UNCHANGED vars
  <2>1. UNCHANGED <<backend, due, link, mixed>>
    BY <1>7 DEF Load, ReadQueue, ReadPasses, SetQueue, LoadFails, ReadStatus,
                SetServersStatus, vars, ghosts
  <2> QED BY <1>0, <2>1, SameNet
<1> QED BY <1>1, <1>2, <1>3, <1>4, <1>5, <1>6, <1>7 DEF Next
-----------------------------------------------------------------------------
(***************************************************************************)
(* What the page loads                                                     *)
(***************************************************************************)
\* a load that is not touched, while the backend stays
LEMMA SameLoad ==
  ASSUME LoadInv, UNCHANGED <<place, passes, answering, load, statusLoad, statusRead,
                              outdated, mixed>>
  PROVE  LoadInv'
BY DEF LoadInv

LEMMA NextKeepsLoad ==
  ASSUME TypeOK, PageInv, [Next]_vars
  PROVE  LoadInv'
<1>0. LoadInv /\ Apart /\ Queued \subseteq Server
  BY ServerAssumption DEF PageInv, NetInv
<1>1. ASSUME NEW s \in Queued, ChangeQueue(s) \/ Click(s)  PROVE LoadInv'
  <2>1. PICK n : MoveTo(s, n)
    BY <1>1 DEF ChangeQueue, Click
  <2>2. /\ UNCHANGED <<passes, answering, load, statusLoad, statusRead>>
        /\ \A t \in Server \ {s} : place'[t] = place[t]
        /\ outdated' = IF s \in load.left \/ load.at = "done" THEN outdated
                       ELSE outdated \cup {"queue"}
        /\ mixed \subseteq mixed'
    BY <2>1 DEF MoveTo, loads, TypeOK, Places, Owed
  <2>3. load'.at # "done" /\ "queue" \notin outdated' =>
          \A t \in Queued \ load'.left : load'.places[t] = place'[t]
    BY <1>0, <2>2 DEF LoadInv
  <2> QED BY <1>0, <2>2, <2>3 DEF LoadInv
<1>2. ASSUME NEW s \in Queued, ChangePass(s)  PROVE LoadInv'
  <2>1. /\ UNCHANGED <<place, answering, load, statusLoad, statusRead>>
        /\ outdated' = IF load.at = "answer" THEN outdated \cup {"pass"} ELSE outdated
        /\ mixed \subseteq mixed'
    BY <1>2 DEF ChangePass, loads, Owed
  <2> QED BY <1>0, <2>1 DEF LoadInv
<1>3. ASSUME NEW ok \in Answers, Poll(ok)  PROVE LoadInv'
  <2>1. /\ UNCHANGED <<place, passes, load, statusLoad, statusRead>>
        /\ outdated' = IF statusLoad = "read" THEN outdated \cup {"status"} ELSE outdated
        /\ mixed \subseteq mixed'
    BY <1>3 DEF Poll, loads, Owed
  <2> QED BY <1>0, <2>1 DEF LoadInv
<1>4. CASE Connect \/ Subscribe \/ Break \/ EmitQueues \/ EmitPasses \/ EmitStatus
           \/ Deliver \/ UNCHANGED vars
  <2>1. UNCHANGED <<place, passes, answering, load, statusLoad, statusRead, outdated, mixed>>
    BY <1>4 DEF Connect, Subscribe, Break, EmitQueues, EmitPasses, EmitStatus, Emit, Deliver,
                QueueEvent, PassEvent, StatusEvent, Received, vars, backend, loads, ghosts
  <2> QED BY <1>0, <2>1, SameLoad
<1>5. ASSUME NEW s \in Queued, ReadQueue(s)  PROVE LoadInv'
  <2>1. /\ UNCHANGED <<place, passes, answering, statusLoad, statusRead, outdated, mixed>>
        /\ load.at = "queue" /\ s \in load.left
        /\ load'.at = IF load.left = {s} THEN "pass" ELSE "queue"
        /\ load'.left = load.left \ {s} /\ load'.passes = load.passes
        /\ load'.places[s] = place[s]
        /\ \A t \in Server \ {s} : load'.places[t] = load.places[t]
    BY <1>0, <1>5 DEF ReadQueue, backend, ghosts, TypeOK, Places
  <2> QED BY <1>0, <2>1 DEF LoadInv
<1>6. CASE ReadPasses
  <2>1. /\ UNCHANGED <<place, passes, answering, statusLoad, statusRead, outdated, mixed>>
        /\ load.at = "pass" /\ load'.at = "answer" /\ load'.passes = passes
        /\ load'.left = load.left /\ load'.places = load.places
    BY <1>6 DEF ReadPasses, backend, ghosts, TypeOK
  <2>2. "queue" \notin outdated => \A t \in passes \ mixed : load.places[t] = 0
    <3>1. SUFFICES ASSUME "queue" \notin outdated, NEW t \in passes \ mixed
                   PROVE  load.places[t] = 0
      OBVIOUS
    <3>2. load.places[t] = place[t] /\ t \in Server
      BY <1>0, <2>1, <3>1 DEF LoadInv, TypeOK
    <3>3. ~ (place[t] > 0) /\ place[t] \in 0 .. MaxPlace
      BY <1>0, <3>2 DEF Apart, TypeOK, Places
    <3> QED BY <3>2, <3>3
  <2> QED BY <1>0, <2>1, <2>2 DEF LoadInv
<1>7. CASE SetQueue \/ LoadFails
  <2>1. /\ UNCHANGED <<place, passes, answering, statusLoad, statusRead, outdated, mixed>>
        /\ load'.at = "done" /\ load'.left = load.left /\ load'.places = load.places
    BY <1>7 DEF SetQueue, LoadFails, backend, ghosts, TypeOK
  <2> QED BY <1>0, <2>1 DEF LoadInv
<1>8. CASE ReadStatus
  BY <1>0, <1>8 DEF ReadStatus, LoadInv, backend
<1>9. CASE SetServersStatus
  BY <1>0, <1>9 DEF SetServersStatus, LoadInv, backend
<1> QED BY <1>1, <1>2, <1>3, <1>4, <1>5, <1>6, <1>7, <1>8, <1>9 DEF Next, Load
-----------------------------------------------------------------------------
(***************************************************************************)
(* What the page shows                                                     *)
(***************************************************************************)
\* a step in which nothing becomes current, and what is current stays
LEMMA SameView ==
  ASSUME ViewInv, UNCHANGED page, mixed \subseteq mixed',
         \A kind \in Kind : Current(kind)' => Current(kind) /\ Value(kind)' = Value(kind)
  PROVE  ViewInv'
<1>1. PassShown'
  BY DEF ViewInv, PassShown, page, Kind, Value
<1>2. PlaceRight'
  BY DEF ViewInv, PlaceRight, page, Kind, Value
<1>3. StatusShown'
  BY DEF ViewInv, StatusShown, page, Kind, Value
<1>4. Entered'
  BY DEF ViewInv, Entered, page
<1> QED BY <1>1, <1>2, <1>3, <1>4 DEF ViewInv

LEMMA OwedView ==
  ASSUME ViewInv, NEW kind \in Kind, Owed(kind), UNCHANGED <<link, page, inStep>>,
         kind # "queue" => place' = place, kind # "pass" => passes' = passes,
         kind # "status" => answering' = answering
  PROVE  ViewInv'
<1>1. mixed \subseteq mixed' /\ due' = due \cup {kind} /\ net' = net
  BY DEF Owed, link
<1>2. \A k \in Kind : Current(k)' => Current(k) /\ k # kind
  BY <1>1 DEF Current, Quiet
<1>3. \A k \in Kind \ {kind} : Value(k)' = Value(k)
  BY DEF Kind, Value
<1> QED BY <1>1, <1>2, <1>3, SameView

\* of a broadcast that is sent, or that is not and leaves the page behind
LEMMA EmitView ==
  ASSUME TypeOK, ViewInv, NEW k \in Kind, NEW data, [type |-> k, data |-> data] \in Event,
         UNCHANGED <<place, passes, answering, page, mixed>>, due' = due \ {k},
         (Send(k, data) /\ UNCHANGED inStep) \/ Unheard(k)
  PROVE  ViewInv'
<1>1. CASE Send(k, data) /\ UNCHANGED inStep
  <2>1. PICK n \in Nat :
          /\ DOMAIN net = 1 .. n /\ DOMAIN net' = 1 .. n + 1
          /\ \A i \in 1 .. n : net'[i] = net[i]
          /\ net'[n + 1].type = k
    BY <1>1, SendNet
  <2>2. n + 1 \in 1 .. n + 1 /\ \A i \in 1 .. n : i \in 1 .. n + 1
    OBVIOUS
  <2>3. \A d \in Kind : Current(d)' => Current(d)
    BY <1>1, <2>1, <2>2 DEF Current, Quiet
  <2>4. \A d \in Kind : Value(d)' = Value(d)
    BY DEF Value
  <2> QED BY <2>3, <2>4, SameView
<1>2. CASE Unheard(k)
  <2>1. \A d \in Kind : Current(d)' => Current(d)
    BY <1>2 DEF Unheard, Current, Quiet
  <2>2. \A d \in Kind : Value(d)' = Value(d)
    BY DEF Value
  <2> QED BY <2>1, <2>2, SameView
<1> QED BY <1>1, <1>2

\* what an event leaves to come
LEMMA ReceivedNet ==
  ASSUME TypeOK, NetInv, NEW k \in Kind, Received(k)
  PROVE  /\ Head(net) \in Event /\ Head(net).type = k
         /\ \A d \in Kind \ {k} : Current(d)' => Current(d)
         /\ Current(k)' => Head(net).data = Value(k)
         /\ Current("pass")' /\ k = "queue" =>
              \A s \in passes \ mixed : ~ (Head(net).data[s] > 0)
         /\ Current("queue")' /\ k = "pass" =>
              \A s \in Server \ mixed : place[s] > 0 => s \notin Head(net).data
<1>1. /\ net # <<>> /\ net' = Tail(net) /\ Head(net).type = k
      /\ due' = due /\ inStep' = inStep \cup {k}
  BY DEF Received
<1>2. PICK n \in Nat :
        /\ DOMAIN net = 1 .. n + 1 /\ DOMAIN net' = 1 .. n
        /\ \A i \in 1 .. n : net'[i] = net[i + 1]
        /\ net[1] = Head(net) /\ net[1] \in Event
  BY <1>1, TailNet
<1>3. /\ 1 \in 1 .. n + 1
      /\ \A j \in 1 .. n + 1 : j = 1 \/ (j > 1 /\ j - 1 \in 1 .. n /\ (j - 1) + 1 = j)
  OBVIOUS
<1>4. ASSUME NEW d \in Kind, Current(d)'
      PROVE  d \notin due /\ \A j \in 1 .. n + 1 : j = 1 \/ net[j].type # d
  <2>1. d \notin due /\ \A i \in 1 .. n : net'[i].type # d
    BY <1>1, <1>2, <1>4 DEF Current, Quiet
  <2>2. ASSUME NEW j \in 1 .. n + 1, j # 1  PROVE net[j].type # d
    <3>1. j - 1 \in 1 .. n /\ (j - 1) + 1 = j
      BY <1>3, <2>2
    <3>2. net'[j - 1] = net[j]
      BY <1>2, <3>1
    <3> QED BY <2>1, <3>1, <3>2
  <2> QED BY <2>1, <2>2
<1>5. ASSUME NEW d \in Kind, Current(d)'  PROVE d \notin due /\ ~ Later(d, 1)
  BY <1>2, <1>4, <1>5 DEF Later
<1>6. \A d \in Kind \ {k} : Current(d)' => Current(d)
  <2>1. SUFFICES ASSUME NEW d \in Kind \ {k}, Current(d)'  PROVE Current(d)
    OBVIOUS
  <2> QED BY <1>1, <1>2, <1>4, <2>1 DEF Current, Quiet
<1>7. Current(k)' => Head(net).data = Value(k)
  BY <1>1, <1>2, <1>3, <1>5 DEF NetInv, LastIsCurrent
<1>8. Current("pass")' /\ k = "queue" => \A s \in passes \ mixed : ~ (Head(net).data[s] > 0)
  BY <1>1, <1>2, <1>3, <1>5 DEF NetInv, PassLater, Kind
<1>9. Current("queue")' /\ k = "pass" =>
        \A s \in Server \ mixed : place[s] > 0 => s \notin Head(net).data
  BY <1>1, <1>2, <1>3, <1>5 DEF NetInv, PlaceLater, Kind
<1> QED BY <1>1, <1>2, <1>6, <1>7, <1>8, <1>9

LEMMA DeliverView ==
  ASSUME TypeOK, PageInv, Deliver
  PROVE  ViewInv'
<1>0. NetInv /\ ViewInv /\ UNCHANGED <<place, passes, answering, mixed>>
  BY DEF PageInv, Deliver, QueueEvent, PassEvent, StatusEvent, Received, backend
<1>1. \A s \in Server : place[s] \in Nat /\ queue[s].place \in Nat /\ queue[s].hasPass \in BOOLEAN
  BY BoundAssumption DEF TypeOK, Places
<1>2. CASE QueueEvent
  <2> DEFINE u == Head(net).data
  <2>1. /\ Received("queue") /\ UNCHANGED <<prevPasses, alive>> /\ loaded' = TRUE
        /\ queue' = OnQueue(u)
    BY <1>2 DEF QueueEvent
  <2>2. u \in Places
    BY <1>0, <2>1, ReceivedNet, EventKinds DEF Kind
  <2>3. /\ \A d \in {"pass", "status"} : Current(d)' => Current(d)
        /\ Current("queue")' => u = place
        /\ Current("pass")' => \A s \in passes \ mixed : ~ (u[s] > 0)
    BY <1>0, <2>1, ReceivedNet DEF Kind, Value
  <2> HIDE DEF u
  <2>4. \A s \in Server :
          /\ queue'[s].hasPass <=> queue[s].hasPass /\ ~ (u[s] > 0)
          /\ queue'[s].place = IF u[s] > 0 THEN u[s]
                               ELSE IF queue[s].hasPass THEN queue[s].place ELSE 0
    BY <2>1 DEF OnQueue, NoEntry
  <2>5. PassShown'
    BY <1>0, <2>3, <2>4 DEF ViewInv, PassShown
  <2>6. PlaceRight'
    BY <1>0, <1>1, <2>3, <2>4 DEF ViewInv, PlaceRight, Entered
  <2>7. StatusShown'
    BY <1>0, <2>1, <2>3 DEF ViewInv, StatusShown
  <2>8. Entered'
    BY <1>0, <2>1, <2>4 DEF ViewInv, Entered
  <2> QED BY <2>5, <2>6, <2>7, <2>8 DEF ViewInv
<1>3. CASE PassEvent
  <2> DEFINE u == Head(net).data
  <2>1. Received("pass") /\ alive' = alive /\ loaded' = TRUE /\ queue' = OnPass(u)
    BY <1>3 DEF PassEvent
  <2>2. /\ \A d \in {"queue", "status"} : Current(d)' => Current(d)
        /\ Current("pass")' => u = passes
        /\ Current("queue")' => \A s \in Server \ mixed : place[s] > 0 => s \notin u
    BY <1>0, <2>1, ReceivedNet DEF Kind, Value
  <2> HIDE DEF u
  <2>3. \A s \in Server :
          /\ queue'[s].hasPass <=> s \in u
          /\ queue'[s].place = IF s \in u THEN 0 ELSE queue[s].place
    BY <2>1 DEF OnPass, TypeOK
  <2>4. PassShown'
    BY <1>0, <2>2, <2>3 DEF PassShown
  <2>5. PlaceRight'
    BY <1>0, <1>1, <2>2, <2>3 DEF ViewInv, PlaceRight
  <2>6. StatusShown'
    BY <1>0, <2>1, <2>2 DEF ViewInv, StatusShown
  <2>7. Entered'
    BY <2>1, <2>3 DEF Entered
  <2> QED BY <2>4, <2>5, <2>6, <2>7 DEF ViewInv
<1>4. CASE StatusEvent
  <2>1. Received("status") /\ alive' = Head(net).data /\ UNCHANGED <<loaded, queue, prevPasses>>
    BY <1>4 DEF StatusEvent
  <2>2. /\ \A d \in {"queue", "pass"} : Current(d)' => Current(d)
        /\ Current("status")' => Head(net).data = answering
    BY <1>0, <2>1, ReceivedNet DEF Kind, Value
  <2> QED BY <1>0, <2>1, <2>2 DEF ViewInv, PassShown, PlaceRight, StatusShown, Entered
<1> QED BY <1>2, <1>3, <1>4 DEF Deliver

\* both answers are there
LEMMA SetView ==
  ASSUME TypeOK, PageInv, SetQueue
  PROVE  ViewInv'
<1>1. /\ UNCHANGED <<place, passes, answering, due, net, alive, outdated, mixed>>
      /\ loaded' = TRUE /\ queue' = Entries(load.places, load.passes)
      /\ inStep' = (inStep \cup {"queue", "pass"}) \ outdated /\ load.at = "answer"
  BY DEF SetQueue, backend, link
<1>2. \A s \in Server :
        /\ queue'[s].hasPass <=> s \in load.passes
        /\ queue'[s].place = IF s \in load.passes THEN 0 ELSE load.places[s]
  BY <1>1 DEF Entries
<1>3. PassShown'
  BY <1>1, <1>2 DEF PassShown, Current, PageInv, LoadInv
<1>4. PlaceRight'
  <2>1. SUFFICES ASSUME Current("queue")', NEW s \in Server \ mixed
                 PROVE  queue'[s].place > 0 <=> place[s] > 0
    BY <1>1 DEF PlaceRight
  <2>2. "queue" \notin outdated
    BY <1>1, <2>1 DEF Current
  <2>3. load.places[s] = place[s]
    BY <1>1, <2>2 DEF PageInv, LoadInv
  <2>4. s \in load.passes => load.places[s] = 0
    BY <1>1, <2>1, <2>2 DEF PageInv, LoadInv
  <2> QED BY <1>2, <2>3, <2>4
<1>5. StatusShown'
  <2>1. Current("status")' => Current("status")
    BY <1>1 DEF Current, Quiet
  <2> QED BY <1>1, <2>1 DEF StatusShown, PageInv, ViewInv
<1>6. Entered'
  BY <1>1, <1>2 DEF Entered
<1> QED BY <1>3, <1>4, <1>5, <1>6 DEF ViewInv

LEMMA NextKeepsView ==
  ASSUME TypeOK, PageInv, [Next]_vars
  PROVE  ViewInv'
<1>0. ViewInv /\ NetInv /\ LoadInv
  BY DEF PageInv
<1>1. ASSUME NEW s \in Queued, ChangeQueue(s) \/ ChangePass(s) \/ Click(s)  PROVE ViewInv'
  <2>1. CASE ChangePass(s)
    BY <1>0, <2>1, OwedView DEF ChangePass, Kind
  <2>2. CASE ~ ChangePass(s)
    <3>1. PICK n : MoveTo(s, n)
      BY <1>1, <2>2 DEF ChangeQueue, Click
    <3> QED BY <1>0, <3>1, OwedView DEF MoveTo, Kind
  <2> QED BY <2>1, <2>2
<1>2. ASSUME NEW ok \in Answers, Poll(ok)  PROVE ViewInv'
  BY <1>0, <1>2, OwedView DEF Poll, Kind
<1>3. CASE Connect \/ Subscribe \/ ReadPasses \/ LoadFails \/ ReadStatus
           \/ (\E s \in Queued : ReadQueue(s)) \/ UNCHANGED vars
  <2>1. UNCHANGED <<place, passes, answering, due, net, page, inStep, mixed>>
    BY <1>3 DEF Connect, Subscribe, ReadQueue, ReadPasses, LoadFails, ReadStatus, vars,
                backend, link, ghosts
  <2>2. \A d \in Kind : Current(d)' => Current(d) /\ Value(d)' = Value(d)
    BY <2>1 DEF Current, Quiet, Value
  <2> QED BY <1>0, <2>1, <2>2, SameView
<1>4. CASE Break
  <2>1. /\ UNCHANGED <<place, passes, answering, due, page, mixed>>
        /\ inStep' = inStep \ {net[i].type : i \in DOMAIN net}
    BY <1>4 DEF Break, backend
  <2>2. \A d \in Kind : Current(d)' => Current(d)
    BY <2>1 DEF Current, Quiet
  <2>3. \A d \in Kind : Value(d)' = Value(d)
    BY <2>1 DEF Value
  <2> QED BY <1>0, <2>1, <2>2, <2>3, SameView
<1>5. CASE EmitQueues
  <2>1. UNCHANGED <<place, passes, answering, page, mixed>> /\ due' = due \ {"queue"}
    BY <1>5 DEF EmitQueues, backend
  <2>2. [type |-> "queue", data |-> place] \in Event /\ "queue" \in Kind
    BY DEF Event, TypeOK, Kind
  <2>3. CASE (Send("queue", place) /\ UNCHANGED inStep) \/ Unheard("queue")
    BY <1>0, <2>1, <2>2, <2>3, EmitView
  <2>4. CASE ~ ((Send("queue", place) /\ UNCHANGED inStep) \/ Unheard("queue"))
    <3>1. UNCHANGED <<net, inStep>> /\ ~ PlaceShown /\ place = Nowhere
      BY <1>5, <2>4 DEF EmitQueues, Filter
    <3>2. \A s \in Server : ~ (queue'[s].place > 0) /\ ~ (place'[s] > 0)
      BY <2>1, <3>1 DEF PlaceShown, Nowhere, page
    <3>3. PlaceRight'
      BY <3>2 DEF PlaceRight
    <3>4. \A d \in {"pass", "status"} : Current(d)' => Current(d)
      BY <2>1, <3>1 DEF Current, Quiet
    <3> QED BY <1>0, <2>1, <3>3, <3>4 DEF ViewInv, PassShown, StatusShown, Entered, page
  <2> QED BY <2>3, <2>4
<1>6. CASE EmitPasses \/ EmitStatus
  <2>1. PICK k \in Kind, data \in {passes, answering} : Emit(k, data) /\ [type |-> k, data |-> data] \in Event
    BY <1>6 DEF EmitPasses, EmitStatus, TypeOK, Event, Kind
  <2>2. UNCHANGED <<place, passes, answering, page, mixed>> /\ due' = due \ {k}
    BY <2>1 DEF Emit, backend
  <2> QED BY <1>0, <2>1, <2>2, EmitView DEF Emit
<1>7. CASE Deliver
  BY <1>7, DeliverView
<1>8. CASE SetQueue
  BY <1>8, SetView
<1>9. CASE SetServersStatus
  <2>1. /\ UNCHANGED <<place, passes, answering, due, net, loaded, queue, mixed>>
        /\ alive' = statusRead /\ statusLoad = "read"
        /\ inStep' = (inStep \cup {"status"}) \ (outdated \cap {"status"})
    BY <1>9 DEF SetServersStatus, backend, link
  <2>2. \A d \in {"queue", "pass"} : Current(d)' => Current(d)
    BY <2>1 DEF Current, Quiet
  <2>3. StatusShown'
    BY <1>0, <2>1 DEF StatusShown, Current, LoadInv
  <2> QED BY <1>0, <2>1, <2>2, <2>3 DEF ViewInv, PassShown, PlaceRight, Entered
<1> QED BY <1>1, <1>2, <1>3, <1>4, <1>5, <1>6, <1>7, <1>8, <1>9 DEF Next, Load

\* However the events of the three kinds, the loads and the broken streams fall,
\* a page for which no event is missing has the right button: a place hides a
\* pass, and a pass a place, only if the backend had both, or until the event of
\* the other kind that is still on its way.
THEOREM ButtonIsRight == Spec => []ButtonRight
<1>1. Init => PageInv
  <2>1. SUFFICES ASSUME Init  PROVE PageInv
    OBVIOUS
  <2>2. NetInv
    <3>1. net = <<>> /\ DOMAIN net = {}
      BY <2>1 DEF Init
    <3>2. Apart
      <4>1. \A s \in passes : place[s] = 0
        BY <2>1 DEF Init
      <4> QED BY <4>1 DEF Apart
    <3> QED BY <3>1, <3>2 DEF NetInv, OneStream, LastIsCurrent, PassLater, PlaceLater
  <2>3. LoadInv
    BY <2>1 DEF Init, Rendered, LoadInv, Nowhere
  <2>4. ViewInv
    BY <2>1 DEF Init, Rendered, ViewInv, PassShown, PlaceRight, StatusShown, Entered, Current, NoEntry
  <2> QED BY <2>2, <2>3, <2>4 DEF PageInv
<1>2. (TypeOK /\ PageInv) /\ [Next]_vars => (TypeOK /\ PageInv)'
  <2>1. SUFFICES ASSUME TypeOK, PageInv, [Next]_vars  PROVE TypeOK' /\ PageInv'
    OBVIOUS
  <2> QED BY <2>1, NextKeepsType, NextKeepsNet, NextKeepsLoad, NextKeepsView DEF PageInv
<1>3. TypeOK /\ PageInv => ButtonRight
  <2>1. SUFFICES ASSUME TypeOK, PageInv, \A kind \in Kind : Current(kind), NEW s \in Server \ mixed
                 PROVE  Button(s) = IF s \in passes
                          THEN IF s \in Queued /\ s \notin answering THEN "disabled" ELSE "connect"
                          ELSE IF place[s] > 0 THEN "leave"
                          ELSE IF s \in Queued THEN "join" ELSE "connect"
    BY DEF ButtonRight
  <2>2. /\ queue[s].hasPass <=> s \in passes
        /\ queue[s].place > 0 <=> place[s] > 0
        /\ alive = answering /\ (queue[s].hasPass => loaded)
    BY <2>1 DEF PageInv, ViewInv, PassShown, PlaceRight, StatusShown, Entered, Kind
  <2> QED BY <2>2 DEF Button
<1> QED BY <1>1, <1>2, <1>3, TypeInit, PTL DEF Spec
=============================================================================
