--------------------------- MODULE AdminPageProofs ---------------------------
(***************************************************************************)
(* Theorems about the admins' page (AdminPage), for any finite set of      *)
(* servers and any bounds: its tables and lines are what the backend       *)
(* holds, or the last event on its way says so (TableComes, LinesCome);    *)
(* before the subscription the look-ups say so (StartInv).                 *)
(***************************************************************************)
EXTENDS AdminPage, SequenceTheorems, FiniteSetTheorems, WellFoundedInduction, TLAPS

ShowsPass(row) == "pass" \in row

\* the last table of s in w says who has a pass, or there is none and the page says it
TableIn(w, s, had, tables) ==
  \/ \E i \in DOMAIN w :
       /\ w[i].type = "players" /\ w[i].port = s /\ (ShowsPass(w[i].row) <=> s \in had)
       /\ \A j \in DOMAIN w : i < j => ~ (w[j].type = "players" /\ w[j].port = s)
  \/ /\ \A i \in DOMAIN w : ~ (w[i].type = "players" /\ w[i].port = s)
     /\ ShowsPass(tables[s]) <=> s \in had
LinesIn(w, now, shown) ==
  \/ \E i \in DOMAIN w :
       /\ w[i].type = "queues" /\ w[i].state = now
       /\ \A j \in DOMAIN w : i < j => w[j].type # "queues"
  \/ (\A i \in DOMAIN w : w[i].type # "queues") /\ shown = now

TableComes(s) == TableIn(net, s, passes, playerLists)
LinesCome == LinesIn(net, lined, queuesState)

Excused(s) == due[s] > 0 \/ s \in unseen
Found(s) == Excused(s) \/ (ShowsPass(initial[s].row) <=> s \in passes)

LookInv == IF lookUp.at = "done" THEN lookUp.port = NoServer ELSE lookUp.port \in Server
StartInv ==
  /\ stream = "tables" => \A s \in Server : initial[s].at = "done" => Found(s)
  /\ stream \in {"queues", "ready"} => \A s \in Server : Found(s)
  /\ stream = "ready" => queuesDue \/ unheard \/ first = lined
OpenInv ==
  stream = "open" =>
    /\ \A s \in Server : Excused(s) \/ s \in ToSet(buffer) \/ lookUp.port = s \/ TableComes(s)
    /\ queuesDue \/ unheard \/ LinesCome
\* a bound of the model: there are as many announcements as changes
Few == \A s \in Server : due[s] <= events

AdminInv == LookInv /\ StartInv /\ OpenInv /\ Few
-----------------------------------------------------------------------------
\* what is done to the events on their way
LEMMA TableAppended ==
  ASSUME NEW w \in Seq(Event), NEW e \in Event, NEW s, NEW had, NEW tables
  PROVE  /\ e.type = "players" /\ e.port = s /\ (ShowsPass(e.row) <=> s \in had) =>
              TableIn(Append(w, e), s, had, tables)
         /\ ~ (e.type = "players" /\ e.port = s) /\ TableIn(w, s, had, tables) =>
              TableIn(Append(w, e), s, had, tables)
<1> DEFINE v == Append(w, e)
           n == Len(w)
<1>1. /\ n \in Nat /\ DOMAIN w = 1 .. n /\ DOMAIN v = 1 .. n + 1
      /\ v[n + 1] = e /\ \A i \in 1 .. n : v[i] = w[i]
  BY LenProperties, AppendProperties
<1> HIDE DEF v, n
<1>2. ASSUME e.type = "players", e.port = s, ShowsPass(e.row) <=> s \in had
      PROVE  TableIn(v, s, had, tables)
  <2>1. n + 1 \in DOMAIN v /\ \A j \in DOMAIN v : ~ (n + 1 < j)
    BY <1>1
  <2> QED BY <1>1, <1>2, <2>1 DEF TableIn
<1>3. ASSUME ~ (e.type = "players" /\ e.port = s), TableIn(w, s, had, tables)
      PROVE  TableIn(v, s, had, tables)
  <2>1. \A j \in DOMAIN v : v[j].type = "players" /\ v[j].port = s => j \in DOMAIN w /\ v[j] = w[j]
    BY <1>1, <1>3
  <2>2. \A j \in DOMAIN w : j \in DOMAIN v /\ v[j] = w[j]
    BY <1>1
  <2>3. CASE \A i \in DOMAIN w : ~ (w[i].type = "players" /\ w[i].port = s)
    <3>1. ShowsPass(tables[s]) <=> s \in had
      BY <1>3, <2>3 DEF TableIn
    <3> QED BY <2>1, <2>3, <3>1 DEF TableIn
  <2>4. ASSUME NEW i \in DOMAIN w,
               w[i].type = "players", w[i].port = s, ShowsPass(w[i].row) <=> s \in had,
               \A j \in DOMAIN w : i < j => ~ (w[j].type = "players" /\ w[j].port = s)
        PROVE  TableIn(v, s, had, tables)
    <3>1. i \in DOMAIN v /\ v[i] = w[i]
      BY <2>2
    <3>2. \A j \in DOMAIN v : i < j => ~ (v[j].type = "players" /\ v[j].port = s)
      BY <2>1, <2>4
    <3> QED BY <2>4, <3>1, <3>2 DEF TableIn
  <2> QED BY <1>3, <2>3, <2>4 DEF TableIn
<1> QED BY <1>2, <1>3 DEF v

LEMMA LinesAppended ==
  ASSUME NEW w \in Seq(Event), NEW e \in Event, NEW now, NEW shownLines
  PROVE  /\ e.type = "queues" /\ e.state = now => LinesIn(Append(w, e), now, shownLines)
         /\ e.type # "queues" /\ LinesIn(w, now, shownLines) => LinesIn(Append(w, e), now, shownLines)
<1> DEFINE v == Append(w, e)
           n == Len(w)
<1>1. /\ n \in Nat /\ DOMAIN w = 1 .. n /\ DOMAIN v = 1 .. n + 1
      /\ v[n + 1] = e /\ \A i \in 1 .. n : v[i] = w[i]
  BY LenProperties, AppendProperties
<1> HIDE DEF v, n
<1>2. ASSUME e.type = "queues", e.state = now
      PROVE  LinesIn(v, now, shownLines)
  <2>1. n + 1 \in DOMAIN v /\ \A j \in DOMAIN v : ~ (n + 1 < j)
    BY <1>1
  <2> QED BY <1>1, <1>2, <2>1 DEF LinesIn
<1>3. ASSUME e.type # "queues", LinesIn(w, now, shownLines)
      PROVE  LinesIn(v, now, shownLines)
  <2>1. \A j \in DOMAIN v : v[j].type = "queues" => j \in DOMAIN w /\ v[j] = w[j]
    BY <1>1, <1>3
  <2>2. \A j \in DOMAIN w : j \in DOMAIN v /\ v[j] = w[j]
    BY <1>1
  <2>3. CASE \A i \in DOMAIN w : w[i].type # "queues"
    BY <1>3, <2>1, <2>3 DEF LinesIn
  <2>4. ASSUME NEW i \in DOMAIN w, w[i].type = "queues", w[i].state = now,
               \A j \in DOMAIN w : i < j => w[j].type # "queues"
        PROVE  LinesIn(v, now, shownLines)
    BY <2>1, <2>2, <2>4 DEF LinesIn
  <2> QED BY <1>3, <2>3, <2>4 DEF LinesIn
<1> QED BY <1>2, <1>3 DEF v

LEMMA HeadOfNet ==
  ASSUME NEW w \in Seq(Event), w # <<>>
  PROVE  /\ Head(w) \in Event /\ Tail(w) \in Seq(Event) /\ 1 \in DOMAIN w
         /\ Head(w) = w[1]
         /\ \A i \in DOMAIN Tail(w) : i + 1 \in DOMAIN w /\ Tail(w)[i] = w[i + 1]
         /\ \A i \in DOMAIN w : i = 1 \/ (i - 1 \in DOMAIN Tail(w) /\ Tail(w)[i - 1] = w[i])
         /\ \A i \in DOMAIN w : i \in Nat
<1>1. Len(w) \in Nat /\ Len(w) >= 1 /\ DOMAIN w = 1 .. Len(w)
  BY LenProperties, EmptySeq
<1>2. /\ Tail(w) \in Seq(Event) /\ Head(w) \in Event
      /\ Head(w) = w[1] /\ DOMAIN Tail(w) = 1 .. Len(w) - 1
      /\ \A i \in 1 .. Len(w) - 1 : Tail(w)[i] = w[i + 1]
  BY <1>1, HeadTailProperties, LenProperties
<1> QED BY <1>1, <1>2

LEMMA TableReceived ==
  ASSUME NEW w \in Seq(Event), w # <<>>, NEW s \in Server, NEW had,
         NEW tables \in [Server -> Icons], TableIn(w, s, had, tables)
  PROVE  /\ Head(w).type = "players" =>
              TableIn(Tail(w), s, had, [tables EXCEPT ![Head(w).port] = Head(w).row])
         /\ Head(w).type # "players" => TableIn(Tail(w), s, had, tables)
<1> DEFINE v == Tail(w)
           e == Head(w)
           T == IF e.type = "players" THEN [tables EXCEPT ![e.port] = e.row] ELSE tables
           Mine(x) == x.type = "players" /\ x.port = s
<1>1. /\ e = w[1] /\ 1 \in DOMAIN w
      /\ \A i \in DOMAIN v : i + 1 \in DOMAIN w /\ v[i] = w[i + 1]
      /\ \A i \in DOMAIN w : i = 1 \/ (i - 1 \in DOMAIN v /\ v[i - 1] = w[i])
      /\ \A i \in DOMAIN w : i \in Nat
      /\ \A i \in DOMAIN v : i \in Nat /\ i >= 1
  <2>1. Tail(w) \in Seq(Event)
    BY HeadOfNet
  <2>2. \A i \in DOMAIN v : i \in Nat /\ i >= 1
    BY <2>1, LenProperties
  <2> QED BY <2>2, HeadOfNet
<1>2. ~ Mine(e) => T[s] = tables[s]
  OBVIOUS
<1>3. Mine(e) => T[s] = e.row
  OBVIOUS
<1> HIDE DEF v, e, T
<1>4. CASE \A i \in DOMAIN w : ~ Mine(w[i])
  <2>1. ShowsPass(tables[s]) <=> s \in had
    BY <1>4 DEF TableIn
  <2>2. \A i \in DOMAIN v : ~ Mine(v[i])
    BY <1>1, <1>4
  <2>3. TableIn(v, s, had, T)
    BY <1>1, <1>2, <1>4, <2>1, <2>2 DEF TableIn
  <2> QED BY <2>3 DEF v, e, T
<1>5. ASSUME NEW i \in DOMAIN w, Mine(w[i]), ShowsPass(w[i].row) <=> s \in had,
             \A j \in DOMAIN w : i < j => ~ Mine(w[j])
      PROVE  TableIn(v, s, had, T)
  <2>1. CASE i = 1
    <3>1. ASSUME NEW j \in DOMAIN v  PROVE ~ Mine(v[j])
      <4>1. j + 1 \in DOMAIN w /\ v[j] = w[j + 1] /\ i < j + 1
        BY <1>1, <2>1
      <4> QED BY <1>5, <4>1
    <3>2. ShowsPass(T[s]) <=> s \in had
      BY <1>1, <1>3, <1>5, <2>1
    <3> QED BY <3>1, <3>2 DEF TableIn
  <2>2. CASE i # 1
    <3>1. i - 1 \in DOMAIN v /\ v[i - 1] = w[i]
      BY <1>1, <2>2
    <3>2. \A j \in DOMAIN v : i - 1 < j => ~ Mine(v[j])
      BY <1>1, <1>5
    <3> QED BY <1>5, <3>1, <3>2 DEF TableIn
  <2> QED BY <2>1, <2>2
<1>6. TableIn(v, s, had, T)
  BY <1>4, <1>5 DEF TableIn, v, e, T
<1> QED BY <1>6 DEF v, e, T

LEMMA LinesReceived ==
  ASSUME NEW w \in Seq(Event), w # <<>>, NEW now, NEW shownLines, LinesIn(w, now, shownLines)
  PROVE  /\ Head(w).type = "queues" => LinesIn(Tail(w), now, Head(w).state)
         /\ Head(w).type # "queues" => LinesIn(Tail(w), now, shownLines)
<1> DEFINE v == Tail(w)
           e == Head(w)
           S == IF e.type = "queues" THEN e.state ELSE shownLines
<1>1. /\ e = w[1] /\ 1 \in DOMAIN w
      /\ \A i \in DOMAIN v : i + 1 \in DOMAIN w /\ v[i] = w[i + 1]
      /\ \A i \in DOMAIN w : i = 1 \/ (i - 1 \in DOMAIN v /\ v[i - 1] = w[i])
      /\ \A i \in DOMAIN w : i \in Nat
      /\ \A i \in DOMAIN v : i \in Nat /\ i >= 1
  <2>1. Tail(w) \in Seq(Event)
    BY HeadOfNet
  <2>2. \A i \in DOMAIN v : i \in Nat /\ i >= 1
    BY <2>1, LenProperties
  <2> QED BY <2>2, HeadOfNet
<1> HIDE DEF v, e
<1>2. ASSUME \A i \in DOMAIN w : w[i].type # "queues", shownLines = now
      PROVE  LinesIn(v, now, S)
  <2>1. \A j \in DOMAIN v : v[j].type # "queues"
    BY <1>1, <1>2
  <2> QED BY <1>1, <1>2, <2>1 DEF LinesIn
<1>3. ASSUME NEW i \in DOMAIN w, w[i].type = "queues", w[i].state = now,
             \A j \in DOMAIN w : i < j => w[j].type # "queues"
      PROVE  LinesIn(v, now, S)
  <2>1. CASE i = 1
    <3>1. \A j \in DOMAIN v : v[j].type # "queues"
      BY <1>1, <1>3, <2>1
    <3> QED BY <1>1, <1>3, <2>1, <3>1 DEF LinesIn
  <2>2. CASE i # 1
    <3>1. i - 1 \in DOMAIN v /\ v[i - 1] = w[i]
      BY <1>1, <2>2
    <3>2. \A j \in DOMAIN v : i - 1 < j => v[j].type # "queues"
      BY <1>1, <1>3
    <3> QED BY <1>3, <3>1, <3>2 DEF LinesIn
  <2> QED BY <2>1, <2>2
<1>4. LinesIn(v, now, S)
  BY <1>2, <1>3 DEF LinesIn
<1> QED BY <1>4 DEF v, e

-----------------------------------------------------------------------------
LEMMA LeastOf ==
  ASSUME NEW D \in SUBSET Nat, D # {}
  PROVE  \E d \in D : \A x \in D : d <= x
<1> DEFINE Less == {ss \in Nat \X Nat : ss[1] < ss[2]}
<1>1. OpToRel(<, Nat) = Less
  BY Zenon DEF OpToRel
<1>2. IsWellFoundedOn(Less, Nat)
  BY ONLY <1>1, NatLessThanWellFounded, Zenon
<1> HIDE DEF Less
<1>3. PICK d \in D : \A x \in D : ~ (<<x, d>> \in Less)
  BY <1>2, WFMin
<1>4. ASSUME NEW x \in D PROVE d <= x
  <2>1. ~ (x < d)
    BY <1>3, <1>4 DEF Less
  <2> QED BY <2>1
<1> QED BY <1>4

\* the ports of this second
LEMMA BufferPorts ==
  /\ ToSet(<<>>) = {}
  /\ \A b \in Seq(Server), s \in Server :
       Append(b, s) \in Seq(Server) /\ ToSet(Append(b, s)) = ToSet(b) \cup {s}
<1>1. ToSet(<<>>) = {}
  BY DEF ToSet
<1>2. ASSUME NEW b \in Seq(Server), NEW s \in Server
      PROVE  Append(b, s) \in Seq(Server) /\ ToSet(Append(b, s)) = ToSet(b) \cup {s}
  <2> DEFINE v == Append(b, s)
             n == Len(b)
  <2>1. /\ n \in Nat /\ DOMAIN b = 1 .. n /\ DOMAIN v = 1 .. n + 1 /\ v \in Seq(Server)
        /\ v[n + 1] = s /\ \A i \in 1 .. n : v[i] = b[i]
    BY LenProperties, AppendProperties
  <2> HIDE DEF v, n
  <2>2. ToSet(v) = ToSet(b) \cup {s}
    <3>1. \A i \in 1 .. n + 1 : i = n + 1 \/ i \in 1 .. n
      BY <2>1
    <3>2. 1 .. n \subseteq 1 .. n + 1 /\ n + 1 \in 1 .. n + 1
      BY <2>1
    <3> QED BY <2>1, <3>1, <3>2 DEF ToSet
  <2> QED BY <2>1, <2>2 DEF v
<1> QED BY <1>1, <1>2

LEMMA NewestAnnounced ==
  ASSUME NEW b \in Seq(Server), b # <<>>
  PROVE  NewestPort(b) \in Server /\ NewestPort(b) \in ToSet(b)
<1> DEFINE I == {i \in DOMAIN b : \A j \in 1 .. i - 1 : b[j] # b[i]}
           D == {Len(b) - i : i \in I}
<1>1. Len(b) \in Nat /\ Len(b) >= 1 /\ DOMAIN b = 1 .. Len(b)
  BY LenProperties, EmptySeq
<1>2. 1 \in I
  BY <1>1
<1>3. D \in SUBSET Nat /\ D # {}
  BY <1>1, <1>2
<1>4. PICK d \in D : \A x \in D : d <= x
  BY <1>3, LeastOf
<1>5. PICK i \in I : d = Len(b) - i
  OBVIOUS
<1>6. \A j \in I : i >= j
  <2>1. ASSUME NEW j \in I  PROVE i >= j
    <3>1. Len(b) - j \in D
      OBVIOUS
    <3>2. i \in Nat /\ j \in Nat
      BY <1>1
    <3>3. Len(b) - i <= Len(b) - j
      BY <1>4, <1>5, <3>1
    <3> HIDE DEF I, D
    <3> QED BY <1>1, <3>2, <3>3
  <2> QED BY <2>1
<1>7. Max(I) \in I
  <2> HIDE DEF I
  <2> QED BY <1>6 DEF Max
<1>8. NewestPort(b) = b[Max(I)]
  BY DEF NewestPort
<1>9. Max(I) \in DOMAIN b
  BY <1>7
<1> QED BY <1>8, <1>9, ElementOfSeq, <1>1 DEF ToSet

\* the initial tables: one of every server
LEMMA OpeningOrder ==
  ASSUME NEW order \in SetToSeqs(Server)
  PROVE  /\ order \in Seq(Server) /\ \A s \in Server : \E i \in DOMAIN order : order[i] = s
         /\ \A i, j \in DOMAIN order : order[i] = order[j] => i = j
<1> DEFINE n == Cardinality(Server)
<1>1. n \in Nat
  BY ServerAssumption, FS_CardinalityType
<1>2. order \in [1 .. n -> Server] /\ \A i, j \in 1 .. n : i # j => order[i] # order[j]
  <2>1. Cardinality(Server) = n
    BY DEF Cardinality, Cardinality
  <2> QED BY <2>1 DEF SetToSeqs
<1>3. order \in Seq(Server)
  BY <1>1, <1>2, IsASeq
<1>4. order \in Injection(1 .. n, Server)
  BY <1>2 DEF Injection, IsInjective
<1>5. IsFiniteSet(1 .. n) /\ Cardinality(1 .. n) = n
  BY <1>1, FS_Interval
<1>6. order \in Surjection(1 .. n, Server)
  BY <1>4, <1>5, FS_Injection, ServerAssumption
<1>7. \A s \in Server : \E i \in 1 .. n : order[i] = s
  BY <1>6 DEF Surjection
<1> QED BY <1>2, <1>3, <1>7

LEMMA RowTells ==
  ASSUME NEW l \in Listed, NEW s, NEW had
  PROVE  /\ Row(l, s \in had) \in Icons
         /\ ShowsPass(Row(l, s \in had)) <=> s \in had
BY DEF Row, Listed, Icons, ShowsPass
-----------------------------------------------------------------------------
(***************************************************************************)
(* The types of AdminPage.  LookInv: a look-up that is under way is of a   *)
(* server.                                                                 *)
(***************************************************************************)
LEMMA AdminInit ==
  ASSUME Init
  PROVE  TypeOK /\ AdminInv
<1>1. list \in [Server -> Listed] /\ passes \subseteq Server /\ lined \subseteq Server
  BY DEF Init, Listed
<1>2. /\ due \in [Server -> 0 .. MaxEvents] /\ queuesDue \in BOOLEAN
      /\ events \in 0 .. MaxEvents /\ Few
  <2>1. 0 \in 0 .. MaxEvents
    BY BoundAssumption
  <2>2. due \in [Server -> 0 .. MaxEvents] /\ queuesDue \in BOOLEAN /\ events \in 0 .. MaxEvents
    BY <2>1 DEF Init
  <2>3. Few
    BY DEF Init, Few
  <2> QED BY <2>2, <2>3
<1>3. initial \in [Server -> [at : {"list", "passes", "done"}, read : Listed, row : Icons]]
  BY DEF Init, Fresh, Listed, Icons
<1>4. /\ stream = "off" /\ first \subseteq Server /\ buffer \in Seq(Server)
      /\ lookUp \in LookUp /\ net \in Seq(Event)
  BY DEF Init, Idle, LookUp, Listed
<1>5. /\ playerLists \in [Server -> Icons] /\ queuesState \subseteq Server
      /\ confirmState \in Server \cup {NoServer} /\ unseen \subseteq Server /\ unheard \in BOOLEAN
  BY DEF Init, Icons
<1>6. LookInv
  BY DEF Init, Idle, LookInv
<1>7. StartInv /\ OpenInv
  BY <1>4 DEF StartInv, OpenInv
<1> QED BY <1>1, <1>2, <1>3, <1>4, <1>5, <1>6, <1>7 DEF TypeOK, AdminInv

\* Occurs: the counter has not reached its bound, and no server owes more announcements
LEMMA OneMore ==
  ASSUME TypeOK, Few, Occurs
  PROVE  /\ events' \in 0 .. MaxEvents
         /\ \A s \in Server : due[s] + 1 \in 0 .. MaxEvents /\ due[s] + 1 <= events'
         /\ \A s \in Server : due[s] <= events'
BY BoundAssumption DEF TypeOK, Few, Occurs

LEMMA BackendTypes ==
  ASSUME TypeOK, Few, NEW s \in Server,
         ChangePass(s) \/ ChangeList(s) \/ ChangeQueue(s)
  PROVE  TypeOK' /\ Few'
<1> USE DEF backend, owed, link, page, ghosts
<1>1. CASE ChangePass(s)
  <2>1. Occurs
    BY <1>1 DEF ChangePass
  <2>2. due' \in [Server -> 0 .. MaxEvents] /\ events' \in 0 .. MaxEvents /\ Few'
    BY <1>1, <2>1, OneMore DEF ChangePass, TypeOK, Few
  <2>3. passes' \subseteq Server
    BY <1>1 DEF ChangePass, TypeOK
  <2> QED BY <1>1, <2>2, <2>3 DEF ChangePass, TypeOK
<1>2. CASE ChangeList(s)
  <2>1. Occurs
    BY <1>2 DEF ChangeList
  <2>2. due' = due /\ events' \in 0 .. MaxEvents /\ Few'
    BY <1>2, <2>1, OneMore DEF ChangeList, Few
  <2>3. list' \in [Server -> Listed]
    BY <1>2 DEF ChangeList, TypeOK
  <2> QED BY <1>2, <2>2, <2>3 DEF ChangeList, TypeOK
<1>3. CASE ChangeQueue(s)
  <2>1. Occurs
    BY <1>3 DEF ChangeQueue
  <2>2. due' = due /\ events' \in 0 .. MaxEvents /\ Few'
    BY <1>3, <2>1, OneMore DEF ChangeQueue, Few
  <2>3. lined' \subseteq Server /\ queuesDue' \in BOOLEAN
    BY <1>3 DEF ChangeQueue, TypeOK
  <2> QED BY <1>3, <2>2, <2>3 DEF ChangeQueue, TypeOK
<1> QED BY <1>1, <1>2, <1>3

LEMMA AnnouncementTypes ==
  ASSUME TypeOK, Few, (\E s \in Server : Announce(s)) \/ OnQueuesUpdate
  PROVE  TypeOK' /\ Few'
<1> USE DEF backend, owed, link, page, ghosts
<1>1. ASSUME NEW s \in Server, Announce(s)
      PROVE  TypeOK' /\ Few'
  <2>1. due' \in [Server -> 0 .. MaxEvents] /\ Few'
    BY <1>1, BoundAssumption DEF Announce, TypeOK, Few
  <2>2. buffer' \in Seq(Server) /\ unseen' \subseteq Server
    <3>1. Append(buffer, s) \in Seq(Server) /\ unseen \cup {s} \subseteq Server
      BY BufferPorts DEF TypeOK
    <3> QED BY <1>1, <3>1 DEF Announce, TypeOK
  <2> QED BY <1>1, <2>1, <2>2 DEF Announce, TypeOK
<1>2. ASSUME OnQueuesUpdate
      PROVE  TypeOK' /\ Few'
  <2>1. net' \in Seq(Event) /\ unheard' \in BOOLEAN
    <3>1. Queues \in Event
      BY DEF Queues, Event, TypeOK
    <3>2. net \in Seq(Event) /\ unheard \in BOOLEAN
      BY DEF TypeOK
    <3>3. Append(net, Queues) \in Seq(Event)
      BY <3>1, <3>2, AppendProperties
    <3> HIDE DEF TypeOK
    <3> QED BY <1>2, <3>2, <3>3 DEF OnQueuesUpdate
  <2> QED BY <1>2, <2>1 DEF OnQueuesUpdate, TypeOK, Few
<1> QED BY <1>1, <1>2

LEMMA OpenedNet ==
  ASSUME TypeOK, Open
  PROVE  /\ net' \in Seq(Event)
         /\ \A s \in Server : \E i \in DOMAIN net' : net'[i] = Players(s, initial[s].row)
         /\ \A i, j \in DOMAIN net' :
              net'[i].type = "players" /\ net'[j].type = "players" /\ net'[i].port = net'[j].port
                => i = j
         /\ \E i \in DOMAIN net' :
              /\ net'[i] = [type |-> "queues", state |-> first]
              /\ \A j \in DOMAIN net' : ~ (i < j)
<1>1. PICK order \in SetToSeqs(Server) :
        net' = [i \in DOMAIN order |-> Players(order[i], initial[order[i]].row)]
                \o <<[type |-> "queues", state |-> first]>>
  BY DEF Open
<1> DEFINE tables == [i \in DOMAIN order |-> Players(order[i], initial[order[i]].row)]
           lines == [type |-> "queues", state |-> first]
           n == Len(order)
<1>2. /\ order \in Seq(Server) /\ n \in Nat /\ DOMAIN order = 1 .. n
      /\ \A i \in 1 .. n : order[i] \in Server
      /\ \A s \in Server : \E i \in 1 .. n : order[i] = s
      /\ \A i, j \in 1 .. n : order[i] = order[j] => i = j
  BY OpeningOrder, LenProperties, ElementOfSeq
<1>3. lines \in Event /\ lines.type = "queues"
  BY DEF Event, TypeOK
<1>4. \A i \in 1 .. n : tables[i] \in Event /\ tables[i] = Players(order[i], initial[order[i]].row)
  <2>1. ASSUME NEW i \in 1 .. n  PROVE tables[i] \in Event
    <3>1. initial[order[i]].row \in Icons
      BY <1>2 DEF TypeOK
    <3> QED BY <1>2, <3>1 DEF Players, Event
  <2> QED BY <1>2, <2>1
<1>5. tables \in Seq(Event) /\ Len(tables) = n
  <2>1. tables \in [1 .. n -> Event]
    BY <1>2, <1>4
  <2> HIDE DEF tables
  <2> QED BY <1>2, <2>1, IsASeq, LenProperties
<1> HIDE DEF tables, lines, n
<1>6. /\ net' \in Seq(Event) /\ DOMAIN net' = 1 .. n + 1
      /\ net'[n + 1] = lines /\ \A i \in 1 .. n : net'[i] = tables[i]
  <2>1. net' = Append(tables, lines)
    BY <1>1, <1>3, <1>5, AppendIsConcat DEF tables, lines
  <2> QED BY <1>2, <1>3, <1>5, <2>1, AppendProperties, LenProperties
<1>7. ASSUME NEW s \in Server
      PROVE  \E i \in DOMAIN net' : net'[i] = Players(s, initial[s].row)
  BY <1>2, <1>4, <1>6
<1>8. ASSUME NEW i \in DOMAIN net', NEW j \in DOMAIN net',
             net'[i].type = "players", net'[j].type = "players", net'[i].port = net'[j].port
      PROVE  i = j
  <2>1. i \in 1 .. n /\ j \in 1 .. n
    BY <1>2, <1>3, <1>6, <1>8
  <2>2. /\ net'[i] = Players(order[i], initial[order[i]].row)
        /\ net'[j] = Players(order[j], initial[order[j]].row)
    BY <1>4, <1>6, <2>1
  <2>3. net'[i].port = order[i] /\ net'[j].port = order[j]
    BY <2>2 DEF Players
  <2>4. order[i] = order[j]
    BY <1>8, <2>3
  <2> QED BY <1>2, <2>1, <2>4
<1>9. n + 1 \in DOMAIN net' /\ \A j \in DOMAIN net' : ~ (n + 1 < j)
  BY <1>2, <1>6
<1> QED BY <1>6, <1>7, <1>8, <1>9 DEF lines

LEMMA StartTypes ==
  ASSUME TypeOK, Few,
         Request \/ InitialLookUp \/ Break
  PROVE  TypeOK' /\ Few'
<1> USE DEF backend, owed, link, page, ghosts
<1> DEFINE InitialType == [Server -> [at : {"list", "passes", "done"},
                                      read : Listed, row : Icons]]
<1>1. CASE Request
  <2>1. initial' \in InitialType
    BY <1>1 DEF Request, Fresh, Listed, Icons
  <2> QED BY <1>1, <2>1 DEF Request, TypeOK, Few
<1>2. ASSUME NEW s \in Server, InitialList(s)
      PROVE  TypeOK' /\ Few'
  <2>1. initial' = [initial EXCEPT ![s] = [@ EXCEPT !.at = "passes", !.read = list[s]]]
    BY <1>2 DEF InitialList, TypeOK
  <2>2. initial' \in InitialType
    BY <1>2, <2>1 DEF TypeOK
  <2> QED BY <1>2, <2>2 DEF InitialList, TypeOK, Few
<1>3. ASSUME NEW s \in Server, InitialPasses(s)
      PROVE  TypeOK' /\ Few'
  <2>1. Row(initial[s].read, s \in passes) \in Icons
    BY RowTells DEF TypeOK
  <2>2. initial' \in InitialType
    BY <1>3, <2>1 DEF InitialPasses, TypeOK
  <2>3. stream' \in {"off", "tables", "queues", "ready", "open"} /\ unseen' \subseteq Server
    BY <1>3 DEF InitialPasses, TypeOK
  <2> QED BY <1>3, <2>2, <2>3 DEF InitialPasses, TypeOK, Few
<1>4. CASE GetQueues
  BY <1>4 DEF GetQueues, TypeOK, Few
<1>5. CASE Open
  <2>1. lookUp' \in LookUp /\ buffer' \in Seq(Server)
    BY <1>5 DEF Open, Idle, LookUp, Listed
  <2>2. net' \in Seq(Event)
    BY <1>5, OpenedNet
  <2> QED BY <1>5, <2>1, <2>2 DEF Open, TypeOK, Few
<1>6. CASE Break
  <2>1. Occurs
    BY <1>6 DEF Break
  <2>2. due' = due /\ events' \in 0 .. MaxEvents /\ Few'
    BY <1>6, <2>1, OneMore DEF Break, Few
  <2>3. lookUp' \in LookUp /\ buffer' \in Seq(Server) /\ net' \in Seq(Event)
    BY <1>6 DEF Break, Idle, LookUp, Listed
  <2> QED BY <1>6, <2>2, <2>3 DEF Break, TypeOK
<1> QED BY <1>1, <1>2, <1>3, <1>4, <1>5, <1>6 DEF InitialLookUp

LEMMA LookUpTypes ==
  ASSUME TypeOK, Few, LookInv, Tick \/ LookUpStep
  PROVE  TypeOK' /\ Few' /\ LookInv'
<1> USE DEF backend, owed, link, page, ghosts
<1>1. CASE Tick
  <2>1. NewestPort(buffer) \in Server
    BY <1>1, NewestAnnounced DEF Tick, TypeOK
  <2>2. lookUp' \in LookUp /\ LookInv'
    BY <1>1, <2>1 DEF Tick, LookUp, Listed, LookInv
  <2>3. ToSet(buffer) \subseteq Server
    BY LenProperties, ElementOfSeq DEF ToSet, TypeOK
  <2>4. lookUp.at # "done" => lookUp.port \in Server
    BY DEF LookInv
  <2>5. unseen' \subseteq Server
    BY <1>1, <2>3, <2>4 DEF Tick, TypeOK
  <2> QED BY <1>1, <2>2, <2>5 DEF Tick, TypeOK, Few
<1>2. CASE LookUpList
  <2>1. lookUp.port \in Server
    BY <1>2 DEF LookUpList, LookInv
  <2>2. lookUp' \in LookUp /\ LookInv'
    BY <1>2, <2>1 DEF LookUpList, LookUp, TypeOK, LookInv
  <2> QED BY <1>2, <2>2 DEF LookUpList, TypeOK, Few
<1>3. CASE LookUpPasses
  <2>1. lookUp.port \in Server
    BY <1>3 DEF LookUpPasses, LookInv
  <2>2. Row(lookUp.read, lookUp.port \in passes) \in Icons
    BY RowTells DEF TypeOK, LookUp
  <2>3. Players(lookUp.port, Row(lookUp.read, lookUp.port \in passes)) \in Event
    BY <2>1, <2>2 DEF Players, Event
  <2>4. net' \in Seq(Event)
    BY <1>3, <2>3 DEF LookUpPasses, TypeOK
  <2>5. lookUp' \in LookUp /\ LookInv'
    BY <1>3 DEF LookUpPasses, Idle, LookUp, Listed, LookInv
  <2> QED BY <1>3, <2>4, <2>5 DEF LookUpPasses, TypeOK, Few
<1> QED BY <1>1, <1>2, <1>3 DEF LookUpStep

LEMMA PageTypes ==
  ASSUME TypeOK, Few,
         Deliver \/ (\E s \in Server : RevokePass(s)) \/ OnConfirm \/ OnClose
  PROVE  TypeOK' /\ Few'
<1> USE DEF backend, owed, link, page, ghosts
<1>1. CASE AdminPlayersUpdateEvent
  <2>1. net \in Seq(Event) /\ net # <<>>
    BY <1>1 DEF AdminPlayersUpdateEvent, Received, TypeOK
  <2>2. Head(net) \in Event /\ Tail(net) \in Seq(Event)
    BY <2>1, HeadOfNet
  <2>3. Head(net).row \in Icons
    BY <1>1, <2>2 DEF AdminPlayersUpdateEvent, Received, Event
  <2>4. playerLists' \in [Server -> Icons]
    BY <1>1, <2>3 DEF AdminPlayersUpdateEvent, TypeOK
  <2> QED BY <1>1, <2>2, <2>4 DEF AdminPlayersUpdateEvent, Received, TypeOK, Few
<1>2. CASE AdminQueuesUpdateEvent
  <2>1. net \in Seq(Event) /\ net # <<>>
    BY <1>2 DEF AdminQueuesUpdateEvent, Received, TypeOK
  <2>2. Head(net) \in Event /\ Tail(net) \in Seq(Event)
    BY <2>1, HeadOfNet
  <2>3. queuesState' \subseteq Server
    BY <1>2, <2>2 DEF AdminQueuesUpdateEvent, Received, Event
  <2> QED BY <1>2, <2>2, <2>3 DEF AdminQueuesUpdateEvent, Received, TypeOK, Few
<1>3. ASSUME NEW s \in Server, RevokePass(s)
      PROVE  TypeOK' /\ Few'
  BY <1>3 DEF RevokePass, TypeOK, Few
<1>4. CASE OnConfirm
  <2>1. Occurs /\ confirmState \in Server
    BY <1>4 DEF OnConfirm, TypeOK
  <2>2. due' \in [Server -> 0 .. MaxEvents] /\ events' \in 0 .. MaxEvents /\ Few'
    BY <1>4, <2>1, OneMore DEF OnConfirm, TypeOK, Few
  <2>3. passes' \subseteq Server
    BY <1>4 DEF OnConfirm, TypeOK
  <2> QED BY <1>4, <2>2, <2>3 DEF OnConfirm, TypeOK
<1>5. CASE OnClose
  BY <1>5 DEF OnClose, TypeOK, Few
<1> QED BY <1>1, <1>2, <1>3, <1>4, <1>5 DEF Deliver
-----------------------------------------------------------------------------
(***************************************************************************)
(* The steps keep AdminInv.                                                *)
(***************************************************************************)
\* the invariant does not look at the rest of the state
LEMMA NothingTold ==
  ASSUME StartInv, OpenInv, lookUp'.port = lookUp.port,
         UNCHANGED <<passes, lined, due, queuesDue, stream, initial, first, buffer, net,
                     playerLists, queuesState, unseen, unheard>>
  PROVE  StartInv' /\ OpenInv'
BY DEF StartInv, OpenInv, Found, Excused, TableComes, LinesCome

\* a pass of s that changed has still to be announced
LEMMA OnePassChanged ==
  ASSUME TypeOK, StartInv, OpenInv, NEW s \in Server,
         due' = [due EXCEPT ![s] = @ + 1],
         \A t \in Server \ {s} : t \in passes' <=> t \in passes,
         UNCHANGED <<lined, queuesDue, stream, initial, first, buffer, lookUp, net, playerLists,
                     queuesState, unseen, unheard>>
  PROVE  StartInv' /\ OpenInv'
<1>1. Excused(s)'
  BY DEF Excused, TypeOK
<1>2. ASSUME NEW t \in Server \ {s}
      PROVE  (Found(t) => Found(t)') /\ (Excused(t) => Excused(t)')
             /\ (TableComes(t) => TableComes(t)')
  <2>1. due'[t] = due[t] /\ (t \in passes' <=> t \in passes)
    BY DEF TypeOK
  <2> QED BY <2>1 DEF Found, Excused, TableComes, TableIn
<1>3. StartInv'
  BY <1>1, <1>2 DEF StartInv, Found
<1>4. LinesCome' <=> LinesCome
  BY DEF LinesCome
<1> QED BY <1>1, <1>2, <1>3, <1>4 DEF OpenInv

LEMMA BackendInv ==
  ASSUME TypeOK, AdminInv, NEW s \in Server,
         ChangePass(s) \/ ChangeList(s) \/ ChangeQueue(s)
  PROVE  LookInv' /\ StartInv' /\ OpenInv'
<1> USE DEF backend, owed, link, page, ghosts, AdminInv
<1>1. LookInv'
  BY DEF ChangePass, ChangeList, ChangeQueue, LookInv
<1>2. CASE ChangePass(s)
  BY <1>1, <1>2, OnePassChanged DEF ChangePass
<1>3. CASE ChangeList(s)
  BY <1>1, <1>3, NothingTold DEF ChangeList
<1>4. CASE ChangeQueue(s)
  <2>1. \A t \in Server : (Found(t)' <=> Found(t)) /\ (Excused(t)' <=> Excused(t))
                          /\ (TableComes(t)' <=> TableComes(t))
    BY <1>4 DEF ChangeQueue, Found, Excused, TableComes
  <2> QED BY <1>1, <1>4, <2>1 DEF ChangeQueue, StartInv, OpenInv
<1> QED BY <1>2, <1>3, <1>4

LEMMA AnnouncementInv ==
  ASSUME TypeOK, AdminInv, (\E s \in Server : Announce(s)) \/ OnQueuesUpdate
  PROVE  LookInv' /\ StartInv' /\ OpenInv'
<1> USE DEF backend, owed, link, page, ghosts, AdminInv
<1>1. LookInv'
  BY DEF Announce, OnQueuesUpdate, LookInv
<1>2. ASSUME NEW s \in Server, Announce(s)
      PROVE  StartInv' /\ OpenInv'
  <2>1. ASSUME NEW t \in Server
        PROVE  /\ TableComes(t)' <=> TableComes(t)
               /\ Excused(t) => Excused(t)' \/ (stream = "open" /\ t = s)
               /\ Found(t) => Found(t)' \/ (stream = "open" /\ t = s)
    <3>1. TableComes(t)' <=> TableComes(t)
      BY <1>2 DEF Announce, TableComes
    <3>2. t # s => due'[t] = due[t]
      BY <1>2 DEF Announce, TypeOK
    <3>3. unseen \subseteq unseen' /\ (stream # "open" => s \in unseen')
      BY <1>2 DEF Announce
    <3>4. passes' = passes /\ initial' = initial
      BY <1>2 DEF Announce
    <3> QED BY <3>1, <3>2, <3>3, <3>4 DEF Excused, Found
  <2>2. /\ ToSet(buffer) \subseteq ToSet(buffer)'
        /\ stream = "open" => s \in ToSet(buffer)'
    <3>1. ToSet(Append(buffer, s)) = ToSet(buffer) \cup {s}
      BY BufferPorts DEF TypeOK
    <3> QED BY <1>2, <3>1 DEF Announce
  <2>3. LinesCome' <=> LinesCome
    BY <1>2 DEF Announce, LinesCome
  <2>4. UNCHANGED <<stream, lookUp, queuesDue, unheard, first, lined, initial>>
    BY <1>2 DEF Announce
  <2>5. StartInv'
    BY <2>1, <2>4 DEF StartInv
  <2> QED BY <2>1, <2>2, <2>3, <2>4, <2>5 DEF OpenInv
<1>3. ASSUME OnQueuesUpdate
      PROVE  StartInv' /\ OpenInv'
  <2>1. Queues \in Event /\ Queues.type = "queues" /\ Queues.state = lined
    BY DEF Queues, Event, TypeOK
  <2>2. \A t \in Server : (Excused(t)' <=> Excused(t)) /\ (Found(t)' <=> Found(t))
    BY <1>3 DEF OnQueuesUpdate, Excused, Found
  <2>3. UNCHANGED <<stream, lookUp, buffer, lined, passes, playerLists, queuesState, initial>>
    BY <1>3 DEF OnQueuesUpdate
  <2>4. stream # "open" => unheard'
    BY <1>3 DEF OnQueuesUpdate
  <2>5. StartInv'
    BY <2>2, <2>3, <2>4 DEF StartInv
  <2>6. CASE stream = "open"
    <3>1. net' = Append(net, Queues) /\ net \in Seq(Event)
      BY <1>3, <2>6 DEF OnQueuesUpdate, TypeOK
    <3>2. LinesCome'
      BY <2>1, <2>3, <3>1, LinesAppended DEF LinesCome
    <3>3. ASSUME NEW t \in Server, TableComes(t)  PROVE TableComes(t)'
      BY <2>1, <2>3, <3>1, <3>3, TableAppended DEF TableComes
    <3> QED BY <2>2, <2>3, <2>5, <3>2, <3>3 DEF OpenInv
  <2> QED BY <2>3, <2>5, <2>6 DEF OpenInv
<1> QED BY <1>1, <1>2, <1>3

LEMMA StartKept ==
  ASSUME TypeOK, AdminInv,
         Request \/ InitialLookUp \/ Break
  PROVE  LookInv' /\ StartInv' /\ OpenInv'
<1> USE DEF backend, owed, link, page, ghosts, AdminInv
<1>1. CASE Request
  <2>1. stream' = "tables" /\ LookInv' /\ \A s \in Server : initial'[s].at = "list"
    BY <1>1 DEF Request, Fresh, LookInv
  <2> QED BY <2>1 DEF StartInv, OpenInv
<1>2. ASSUME NEW s \in Server, InitialList(s)
      PROVE  LookInv' /\ StartInv' /\ OpenInv'
  <2>1. initial' = [initial EXCEPT ![s] = [@ EXCEPT !.at = "passes", !.read = list[s]]]
    BY <1>2 DEF InitialList, TypeOK
  <2>2. initial'[s].at = "passes" /\ \A t \in Server \ {s} : initial'[t] = initial[t]
    BY <2>1 DEF TypeOK
  <2>3. /\ stream' = "tables" /\ stream = "tables" /\ LookInv'
        /\ UNCHANGED <<passes, due, unseen>>
    BY <1>2 DEF InitialList, LookInv
  <2>4. StartInv'
    BY <2>2, <2>3 DEF StartInv, Found, Excused
  <2> QED BY <2>3, <2>4 DEF OpenInv
<1>3. ASSUME NEW s \in Server, InitialPasses(s)
      PROVE  LookInv' /\ StartInv' /\ OpenInv'
  <2> DEFINE row == Row(initial[s].read, s \in passes)
  <2>1. ShowsPass(row) <=> s \in passes
    BY RowTells DEF TypeOK
  <2>2. initial' = [initial EXCEPT ![s] = [@ EXCEPT !.at = "done", !.row = row]]
    BY <1>3 DEF InitialPasses, TypeOK
  <2>3. initial'[s].row = row /\ \A t \in Server \ {s} : initial'[t] = initial[t]
    BY <2>2 DEF TypeOK
  <2> HIDE DEF row
  <2>4. /\ stream = "tables" /\ stream' \in {"tables", "queues"} /\ LookInv'
        /\ stream' = "queues" => \A t \in Server \ {s} : initial[t].at = "done"
        /\ unseen' = unseen \ {s} /\ UNCHANGED <<passes, due>>
    BY <1>3 DEF InitialPasses, LookInv
  <2>5. Found(s)'
    BY <2>1, <2>3, <2>4 DEF Found
  <2>6. \A t \in Server \ {s} : Found(t) => Found(t)'
    BY <2>3, <2>4 DEF Found, Excused
  <2>7. \A t \in Server \ {s} : initial'[t].at = "done" => Found(t)'
    BY <2>3, <2>4, <2>6 DEF StartInv
  <2>8. StartInv'
    BY <2>3, <2>4, <2>5, <2>7 DEF StartInv
  <2> QED BY <2>4, <2>8 DEF OpenInv
<1>4. CASE GetQueues
  <2>1. /\ stream = "queues" /\ stream' = "ready" /\ first' = lined' /\ LookInv'
        /\ UNCHANGED <<passes, due, unseen, initial>>
    BY <1>4 DEF GetQueues, LookInv
  <2> QED BY <2>1 DEF StartInv, OpenInv, Found, Excused
<1>5. CASE Open
  <2>1. /\ stream = "ready" /\ stream' = "open"
        /\ UNCHANGED <<passes, lined, due, queuesDue, initial, first, unseen, unheard>>
        /\ LookInv'
    BY <1>5 DEF Open, Idle, LookInv
  <2>2. ASSUME NEW s \in Server  PROVE Excused(s)' \/ TableComes(s)'
    <3>1. CASE Excused(s)
      BY <2>1, <3>1 DEF Excused
    <3>2. CASE ~ Excused(s)
      <4>1. ShowsPass(initial[s].row) <=> s \in passes'
        BY <2>1, <3>2 DEF StartInv, Found
      <4>2. PICK i \in DOMAIN net' : net'[i] = Players(s, initial[s].row)
        BY <1>5, OpenedNet
      <4>3. net'[i].type = "players" /\ net'[i].port = s /\ net'[i].row = initial[s].row
        BY <4>2 DEF Players
      <4>4. net' \in Seq(Event)
            /\ \A j \in DOMAIN net' : net'[j].type = "players" /\ net'[j].port = s => i = j
        BY <1>5, <4>3, OpenedNet
      <4>5. \A j \in DOMAIN net' : i < j => ~ (net'[j].type = "players" /\ net'[j].port = s)
        BY <4>4, LenProperties
      <4> QED BY <4>1, <4>3, <4>5 DEF TableComes, TableIn
    <3> QED BY <3>1, <3>2
  <2>3. queuesDue' \/ unheard' \/ LinesCome'
    <3>1. CASE first = lined
      <4>1. PICK i \in DOMAIN net' : /\ net'[i] = [type |-> "queues", state |-> first]
                                      /\ \A j \in DOMAIN net' : ~ (i < j)
        BY <1>5, OpenedNet
      <4>2. net'[i].type = "queues" /\ net'[i].state = lined'
        BY <2>1, <3>1, <4>1
      <4> QED BY <4>1, <4>2 DEF LinesCome, LinesIn
    <3> QED BY <2>1, <3>1 DEF StartInv
  <2> QED BY <2>1, <2>2, <2>3 DEF StartInv, OpenInv
<1>6. CASE Break
  <2>1. stream' = "off" /\ LookInv'
    BY <1>6 DEF Break, Idle, LookInv
  <2> QED BY <2>1 DEF StartInv, OpenInv
<1> QED BY <1>1, <1>2, <1>3, <1>4, <1>5, <1>6 DEF InitialLookUp

LEMMA LookUpKept ==
  ASSUME TypeOK, AdminInv, Tick \/ LookUpStep
  PROVE  StartInv' /\ OpenInv'
<1> USE DEF backend, owed, link, page, ghosts, AdminInv
<1>1. CASE Tick
  <2>1. /\ stream = "open" /\ stream' = "open"
        /\ UNCHANGED <<passes, lined, due, queuesDue, net, playerLists, queuesState, unheard>>
        /\ unseen' = (unseen \cup ToSet(buffer)
                      \cup (IF lookUp.at = "done" THEN {} ELSE {lookUp.port})) \ {lookUp'.port}
    BY <1>1 DEF Tick
  <2>2. \A s \in Server : (TableComes(s)' <=> TableComes(s)) /\ (LinesCome' <=> LinesCome)
    BY <2>1 DEF TableComes, LinesCome
  <2>3. \A s \in Server : lookUp.port = s => lookUp.at # "done"
    BY ServerAssumption DEF LookInv
  <2>4. ASSUME NEW s \in Server,
               Excused(s) \/ s \in ToSet(buffer) \/ lookUp.port = s
        PROVE  Excused(s)' \/ lookUp'.port = s
    BY <2>1, <2>3, <2>4 DEF Excused
  <2>5. LinesCome' <=> LinesCome
    BY <2>1 DEF LinesCome
  <2> QED BY <2>1, <2>2, <2>4, <2>5 DEF StartInv, OpenInv
<1>2. CASE LookUpList
  <2>1. lookUp'.port = lookUp.port
    BY <1>2 DEF LookUpList, TypeOK, LookUp
  <2> QED BY <1>2, <2>1, NothingTold DEF LookUpList
<1>3. CASE LookUpPasses
  <2> DEFINE row == Row(lookUp.read, lookUp.port \in passes)
             e == Players(lookUp.port, row)
  <2>1. lookUp.port \in Server
    BY <1>3 DEF LookUpPasses, LookInv
  <2>2. row \in Icons /\ (ShowsPass(row) <=> lookUp.port \in passes)
    BY RowTells DEF TypeOK, LookUp
  <2>3. /\ e \in Event /\ e.type = "players" /\ e.port = lookUp.port
        /\ ShowsPass(e.row) <=> lookUp.port \in passes
    <3> HIDE DEF row
    <3> QED BY <2>1, <2>2 DEF Players, Event
  <2>4. /\ net' = Append(net, e)
        /\ UNCHANGED <<passes, lined, due, queuesDue, stream, initial, first, buffer,
                       playerLists, queuesState, unseen, unheard>>
    BY <1>3 DEF LookUpPasses
  <2> HIDE DEF row, e
  <2>5. net \in Seq(Event)
    BY DEF TypeOK
  <2>6. ASSUME NEW s \in Server, TableComes(s) \/ lookUp.port = s
        PROVE  TableComes(s)'
    BY <2>3, <2>4, <2>5, <2>6, TableAppended DEF TableComes
  <2>7. LinesCome => LinesCome'
    BY <2>3, <2>4, <2>5, LinesAppended DEF LinesCome
  <2>8. \A s \in Server : (Excused(s)' <=> Excused(s)) /\ (Found(s)' <=> Found(s))
    BY <2>4 DEF Excused, Found
  <2> QED BY <2>4, <2>6, <2>7, <2>8 DEF StartInv, OpenInv
<1> QED BY <1>1, <1>2, <1>3 DEF LookUpStep

LEMMA PageKept ==
  ASSUME TypeOK, AdminInv,
         Deliver \/ (\E s \in Server : RevokePass(s)) \/ OnConfirm \/ OnClose
  PROVE  LookInv' /\ StartInv' /\ OpenInv'
<1> USE DEF backend, owed, link, page, ghosts, AdminInv
<1>1. LookInv'
  BY DEF Deliver, AdminPlayersUpdateEvent, AdminQueuesUpdateEvent, Received,
         RevokePass, OnConfirm, OnClose, LookInv
<1>2. CASE Deliver
  <2>1. /\ net \in Seq(Event) /\ net # <<>> /\ net' = Tail(net)
        /\ playerLists \in [Server -> Icons]
        /\ UNCHANGED <<passes, lined, due, queuesDue, stream, initial, first, buffer, lookUp,
                       unseen, unheard>>
    BY <1>2 DEF Deliver, AdminPlayersUpdateEvent, AdminQueuesUpdateEvent,
                Received, TypeOK
  <2>2. \/ /\ Head(net).type = "players" /\ queuesState' = queuesState
           /\ playerLists' = [playerLists EXCEPT ![Head(net).port] = Head(net).row]
        \/ /\ Head(net).type = "queues" /\ playerLists' = playerLists
           /\ queuesState' = Head(net).state
    BY <1>2 DEF Deliver, AdminPlayersUpdateEvent, AdminQueuesUpdateEvent,
                Received
  <2>3. ASSUME NEW s \in Server, TableComes(s)  PROVE TableComes(s)'
    <3>1. /\ Head(net).type = "players" =>
               TableIn(Tail(net), s, passes, [playerLists EXCEPT ![Head(net).port] = Head(net).row])
          /\ Head(net).type # "players" => TableIn(Tail(net), s, passes, playerLists)
      BY <2>1, <2>3, TableReceived DEF TableComes
    <3> QED BY <2>1, <2>2, <3>1 DEF TableComes
  <2>4. ASSUME LinesCome  PROVE LinesCome'
    <3>1. /\ Head(net).type = "queues" => LinesIn(Tail(net), lined, Head(net).state)
          /\ Head(net).type # "queues" => LinesIn(Tail(net), lined, queuesState)
      BY <2>1, <2>4, LinesReceived DEF LinesCome
    <3> QED BY <2>1, <2>2, <3>1 DEF LinesCome
  <2>5. \A s \in Server : (Excused(s)' <=> Excused(s)) /\ (Found(s)' <=> Found(s))
    BY <2>1 DEF Excused, Found
  <2> QED BY <1>1, <2>1, <2>3, <2>4, <2>5 DEF StartInv, OpenInv
<1>3. ASSUME NEW s \in Server, RevokePass(s)
      PROVE  StartInv' /\ OpenInv'
  BY <1>3, NothingTold DEF RevokePass
<1>4. CASE OnConfirm
  <2>1. confirmState \in Server
    BY <1>4 DEF OnConfirm, TypeOK
  <2>2. \A t \in Server \ {confirmState} : t \in passes' <=> t \in passes
    BY <1>4 DEF OnConfirm
  <2> QED BY <1>1, <1>4, <2>1, <2>2, OnePassChanged DEF OnConfirm
<1>5. CASE OnClose
  BY <1>1, <1>5, NothingTold DEF OnClose
<1> QED BY <1>1, <1>2, <1>3, <1>4, <1>5

LEMMA AdminStep ==
  ASSUME TypeOK, AdminInv, [Next]_vars
  PROVE  TypeOK' /\ AdminInv'
<1>1. ASSUME NEW s \in Server, ChangePass(s) \/ ChangeList(s) \/ ChangeQueue(s)
      PROVE  TypeOK' /\ AdminInv'
  BY <1>1, BackendTypes, BackendInv DEF AdminInv
<1>2. CASE (\E s \in Server : Announce(s)) \/ OnQueuesUpdate
  BY <1>2, AnnouncementTypes, AnnouncementInv DEF AdminInv
<1>3. CASE Request \/ InitialLookUp \/ Break
  BY <1>3, StartTypes, StartKept DEF AdminInv
<1>4. CASE Tick \/ LookUpStep
  BY <1>4, LookUpTypes, LookUpKept DEF AdminInv
<1>5. CASE Deliver \/ (\E s \in Server : RevokePass(s)) \/ OnConfirm
           \/ OnClose
  BY <1>5, PageTypes, PageKept DEF AdminInv
<1>6. CASE UNCHANGED vars
  <2> USE <1>6 DEF vars, backend, owed, link, page, ghosts
  <2>1. TypeOK'
    BY DEF TypeOK
  <2>2. LookInv' /\ Few'
    BY DEF AdminInv, LookInv, Few
  <2>3. StartInv' /\ OpenInv'
    BY NothingTold DEF AdminInv
  <2> QED BY <2>1, <2>2, <2>3 DEF AdminInv
<1> QED BY <1>1, <1>2, <1>3, <1>4, <1>5, <1>6 DEF Next

\* what AdminInv says of an open stream is what AdminViewRight promises
LEMMA InvTells ==
  ASSUME TypeOK, AdminInv
  PROVE  AdminViewRight
<1>1. SUFFICES ASSUME stream = "open"
      PROVE  /\ \A s \in Server : OnItsWay(s) \/ s \in unseen \/ PassShown(s)
             /\ \/ queuesDue \/ unheard \/ queuesState = lined
                \/ \E i \in DOMAIN net : net[i].type = "queues"
  BY DEF AdminViewRight, QueueTable
<1>2. ASSUME NEW s \in Server
      PROVE  OnItsWay(s) \/ s \in unseen \/ PassShown(s)
  <2>1. CASE TableComes(s)
    <3>1. CASE \E i \in DOMAIN net : net[i].type = "players" /\ net[i].port = s
      BY <3>1 DEF OnItsWay
    <3>2. CASE ~ \E i \in DOMAIN net : net[i].type = "players" /\ net[i].port = s
      <4>1. ShowsPass(playerLists[s]) <=> s \in passes
        BY <2>1, <3>2 DEF TableComes, TableIn
      <4> QED BY <4>1 DEF ShowsPass, PassShown
    <3> QED BY <3>1, <3>2
  <2> QED BY <1>1, <2>1 DEF AdminInv, OpenInv, Excused, OnItsWay
<1>3. \/ queuesDue \/ unheard \/ queuesState = lined
      \/ \E i \in DOMAIN net : net[i].type = "queues"
  BY <1>1 DEF AdminInv, OpenInv, LinesCome, LinesIn
<1> QED BY <1>2, <1>3

(***************************************************************************)
(* The state of the stream and of the page keeps its types                 *)
(* (adminEvents, playerUpdateEvents, admin.tsx), with any number of        *)
(* servers, events on their way and changes.                               *)
(***************************************************************************)
THEOREM TypeCorrect == Spec => []TypeOK
<1>1. Init => TypeOK /\ AdminInv
  BY AdminInit
<1>2. TypeOK /\ AdminInv /\ [Next]_vars => (TypeOK /\ AdminInv)'
  BY AdminStep
<1> QED BY <1>1, <1>2, PTL DEF Spec

(***************************************************************************)
(* AdminViewRight: the tables and the lines of a page whose stream is open *)
(* are what the backend holds, unless news is on its way, another server's *)
(* announcement took the place of the look-up (switchMap), or a change     *)
(* came between the first look-up and the subscription.                    *)
(***************************************************************************)
THEOREM AdminViewIsRight == Spec => []AdminViewRight
<1>1. Init => TypeOK /\ AdminInv
  BY AdminInit
<1>2. TypeOK /\ AdminInv /\ [Next]_vars => (TypeOK /\ AdminInv)'
  BY AdminStep
<1>3. TypeOK /\ AdminInv => AdminViewRight
  BY InvTells
<1> QED BY <1>1, <1>2, <1>3, PTL DEF Spec
=============================================================================
