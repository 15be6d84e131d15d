--------------------------- MODULE FirewallProofs ---------------------------
(***************************************************************************)
(* Theorems about IpPasses and about its composition with the daemon,      *)
(* Firewall, for any number of players, ports, addresses, handlers,        *)
(* messages, faults and restarts.  First IpPasses: types; that what a      *)
(* daemon was told is what the tables say of the ports it was told of      *)
(* (Agree), from the moment its snapshot has collected them; and that the  *)
(* tables follow the passes and addresses in Redis (TableInv), whatever is *)
(* under way for other players.  Then Firewall: what is on its way to a    *)
(* daemon makes up the difference between what it was asked for and what   *)
(* it was told (SessionInv); so the rules in its kernel are those of the   *)
(* passes.                                                                 *)
(***************************************************************************)
EXTENDS Firewall, SequenceTheorems, FiniteSetTheorems, TLAPS

LEMMA EntryKinds ==
  ASSUME NEW e \in Entry
  PROVE  /\ e.at \in {"own", "read", "tell"} => e \in P!Call
         /\ e.at \in {"prune", "pruned", "linked"} => e \in LinkCall
         /\ e.at \in {"sources", "build"} => e \in Job
         /\ e.op = "snapshot" => e \in Job
BY DEF Entry, P!Call, LinkCall, Job

LEMMA HeadEntry ==
  ASSUME TypeOK, wire # <<>>
  PROVE  Head(wire) \in Entry /\ Tail(wire) \in Seq(Entry)
BY HeadTailProperties DEF TypeOK

LEMMA AppendEntry ==
  ASSUME NEW w \in Seq(Entry), NEW e \in Entry
  PROVE  Append(w, e) \in Seq(Entry)
BY AppendProperties

LEMMA HandlerType ==
  ASSUME NEW op \in {"allow", "revoke", "snapshot"}, NEW c \in Player, NEW todo \in SUBSET Rule
  PROVE  /\ Handler(op, c, todo) \in Job /\ Handler(op, c, todo).op = op
         /\ Handler(op, c, todo).at = "sources" /\ Handler(op, c, todo).todo = todo
<1>1. (CHOOSE s \in Server : TRUE) \in Server
  BY SourceAssumption
<1> QED BY <1>1 DEF Handler, Job

LEMMA HandlersType ==
  ASSUME TypeOK, NEW op \in {"allow", "revoke"}, NEW c \in Player
  PROVE  /\ \A s \in Server : PassHandler(op, s, c) \in Job /\ PassHandler(op, s, c).op = op
         /\ \A a \in Address : IpHandler(op, c, a) \in Job /\ IpHandler(op, c, a).op = op
<1>1. \A s \in Server : {s} \X AddressesOf(c, fresh) \in SUBSET Rule
  BY DEF Rule, AddressesOf
<1>2. \A a \in Address : P!PassesOf(c, held) \X {a} \in SUBSET Rule
  BY DEF Rule, P!PassesOf
<1> QED BY <1>1, <1>2, HandlerType DEF PassHandler, IpHandler

\* what a handler or a snapshot does with the tables
LEMMA DealType ==
  ASSUME TypeOK, NEW e \in Job, NEW T \in [Server -> SUBSET Link], NEW B \in SUBSET Server,
         NEW miss \in SUBSET Rule, NEW rest \in Seq(Entry), Deal(e, T, B, miss, rest)
  PROVE  /\ wire' \in Seq(Entry) /\ table' \in [Server -> SUBSET Link] /\ built' \subseteq Server
         /\ daemon' \in {"away", "initial", "live"} /\ told' \subseteq Rule /\ missed' \subseteq Rule
<1>1. PICK S \in SUBSET (Ports(e.todo) \cap B) :
        LET D == {r \in e.todo : r[1] \in S}
            R == e.todo \ D
        IN  /\ table' = Carried(e, D, T)
            /\ built' = B
            /\ IF e.op = "snapshot" THEN Collect(D, T, miss, R = {}) ELSE Emit(e, D, T, miss)
            /\ \/ R = {} /\ wire' = rest
               \/ \E s \in Ports(R) \ B :
                    wire' = Append(rest, [e EXCEPT !.at = "build", !.todo = R, !.port = s,
                                                   !.left = ServerPasses(s), !.found = {}])
  BY DEF Deal
<1> DEFINE D == {r \in e.todo : r[1] \in S}
           R == e.todo \ D
<1>2. /\ e.todo \in SUBSET Rule /\ e.who \in Player /\ e.op \in {"allow", "revoke", "snapshot"}
      /\ D \in SUBSET Rule /\ R \in SUBSET Rule
  BY DEF Job
<1>3. wire' \in Seq(Entry)
  <2>1. ASSUME NEW s \in Ports(R) \ B
        PROVE  [e EXCEPT !.at = "build", !.todo = R, !.port = s,
                         !.left = ServerPasses(s), !.found = {}] \in Entry
    <3>1. s \in Server /\ ServerPasses(s) \in SUBSET Player
      BY <2>1 DEF Ports, ServerPasses
    <3> QED BY <1>2, <3>1 DEF Job, Entry
  <2> QED BY <1>1, <2>1, AppendEntry
<1> HIDE DEF D, R
<1>4. Carried(e, D, T) \in [Server -> SUBSET Link]
  BY <1>2 DEF Carried, Link
<1>5. table' = Carried(e, D, T) /\ built' = B
  BY <1>1 DEF D
<1>6. told' \subseteq Rule /\ missed' \subseteq Rule /\ daemon' \in {"away", "initial", "live"}
  <2>1. CASE e.op = "snapshot"
    <3>1. Collect(D, T, miss, R = {})
      BY <1>1, <2>1 DEF D, R
    <3> QED BY <1>2, <3>1 DEF Collect, TypeOK
  <2>2. CASE e.op # "snapshot"
    <3>1. Emit(e, D, T, miss)
      BY <1>1, <2>2 DEF D, R
    <3>2. Sent(e, D, T) \in SUBSET Rule
      BY <1>2 DEF Sent
    <3> QED BY <3>1, <3>2 DEF Emit, TypeOK
  <2> QED BY <2>1, <2>2
<1> QED BY <1>3, <1>4, <1>5, <1>6

LEMMA StoreType ==
  ASSUME TypeOK, StoreTable
  PROVE  TypeOK'
<1> DEFINE e == Head(wire)
           s == e.port
           K == Keys(e.found)
           changed == IF s \in built THEN (K \ Keys(table[s])) \cup (Keys(table[s]) \ K) ELSE {}
           unheard == IF daemon = "live" \/ s \in Collected THEN {s} \X changed ELSE {}
           T == [table EXCEPT ![s] = e.found]
<1>1. /\ wire # <<>> /\ e.at = "build"
      /\ Deal(e, T, built \cup {s}, missed \cup unheard, Rest)
      /\ unsettled' = IF s \in built THEN unsettled \cup {s} ELSE unsettled
      /\ UNCHANGED <<redis, knowledge, store, uncovered, events>>
  BY DEF StoreTable, P!Resumes
<1>2. e \in Job /\ s \in Server /\ e.found \in SUBSET Link
  BY <1>1, HeadEntry, EntryKinds DEF Job
<1>3. Rest \in Seq(Entry)
  BY <1>1, HeadEntry DEF Rest
<1>4. changed \in SUBSET Address
  BY DEF Keys
<1>5. unheard \in SUBSET Rule
  BY <1>2, <1>4 DEF Rule
<1>6. T \in [Server -> SUBSET Link]
  BY <1>2 DEF TypeOK
<1> HIDE DEF e, s, changed, unheard, T
<1>7. /\ wire' \in Seq(Entry) /\ table' \in [Server -> SUBSET Link] /\ built' \subseteq Server
      /\ daemon' \in {"away", "initial", "live"} /\ told' \subseteq Rule /\ missed' \subseteq Rule
  <2>1. built \cup {s} \in SUBSET Server /\ missed \cup unheard \in SUBSET Rule
    BY <1>2, <1>5 DEF TypeOK
  <2> QED BY <1>1, <1>2, <1>3, <1>6, <2>1, DealType
<1> QED BY <1>1, <1>2, <1>7 DEF TypeOK, redis, knowledge, store

\* the order in which expired addresses are removed
LEMMA OrderType ==
  ASSUME NEW A \in SUBSET Address, NEW q \in Orders(A)
  PROVE  q \in Seq(Address) /\ \A a \in Address : (IF q = <<>> THEN a ELSE q[Len(q)]) \in Address
<1>1. Cardinality(A) \in Nat
  BY SourceAssumption, FS_Subset, FS_CardinalityType
<1>2. PICK n \in Nat : q \in [1 .. n -> Address]
  BY <1>1 DEF Orders
<1>3. q \in Seq(Address)
  BY <1>2, IsASeq
<1>4. q # <<>> => Len(q) \in 1 .. Len(q)
  BY <1>3, EmptySeq, LenProperties
<1> QED BY <1>3, <1>4, ElementOfSeq

LEMMA ZaddType ==
  ASSUME TypeOK, Zadd
  PROVE  TypeOK'
<1> DEFINE e == Head(wire)
<1>1. wire # <<>> /\ e.at = "pruned"
  BY DEF Zadd, P!Resumes
<1>2. e \in LinkCall /\ e.who \in Player /\ e.addr \in Address /\ e.old \in SUBSET Address
  BY <1>1, HeadEntry, EntryKinds DEF LinkCall
<1>3. PICK q \in Orders(e.old) :
        LET ip == IF q = <<>> THEN e.addr ELSE q[Len(q)]
            Revoke(i) == IpHandler("revoke", e.who, q[i])
        IN  /\ fresh' = fresh \cup {<<e.who, ip>>}
            /\ expired' = expired \ {<<e.who, ip>>}
            /\ wire' = Rest \o [i \in DOMAIN q |-> Revoke(i)] \o
                 <<[e EXCEPT !.at = "linked", !.addr = ip,
                             !.added = <<e.who, ip>> \notin fresh \cup expired]>>
  BY DEF Zadd
<1> DEFINE ip == IF q = <<>> THEN e.addr ELSE q[Len(q)]
           f == [i \in DOMAIN q |-> IpHandler("revoke", e.who, q[i])]
           l == [e EXCEPT !.at = "linked", !.addr = ip,
                          !.added = <<e.who, ip>> \notin fresh \cup expired]
<1>4. q \in Seq(Address) /\ ip \in Address
  BY <1>2, OrderType
<1>5. l \in Entry
  BY <1>2, <1>4 DEF LinkCall, Entry
<1>6. f \in Seq(Entry)
  <2>1. Len(q) \in Nat /\ DOMAIN q = 1 .. Len(q) /\ \A i \in DOMAIN q : q[i] \in Address
    BY <1>4, LenProperties, ElementOfSeq
  <2>2. \A i \in DOMAIN q : IpHandler("revoke", e.who, q[i]) \in Entry
    BY <1>2, <2>1, HandlersType DEF Entry
  <2>3. f \in [1 .. Len(q) -> Entry]
    BY <2>1, <2>2
  <2> QED BY <2>1, <2>3, IsASeq
<1>7. /\ fresh' = fresh \cup {<<e.who, ip>>} /\ expired' = expired \ {<<e.who, ip>>}
      /\ wire' = (Rest \o f) \o <<l>>
  BY <1>3
<1>8. Rest \in Seq(Entry)
  BY <1>1, HeadEntry DEF Rest
<1> HIDE DEF f, l, ip
<1>9. wire' \in Seq(Entry)
  <2>1. Rest \o f \in Seq(Entry)
    BY <1>6, <1>8, ConcatProperties
  <2>2. <<l>> \in Seq(Entry)
    BY <1>5
  <2> QED BY <1>7, <2>1, <2>2, ConcatProperties
<1>10. fresh' \subseteq Link /\ expired' \subseteq Link \ fresh'
  BY <1>2, <1>4, <1>7 DEF TypeOK, Link
<1>11. /\ unsettled' \subseteq Server
       /\ UNCHANGED <<redis, knowledge, rules, feed, uncovered, missed, events>>
  BY DEF Zadd, Unsettle, Building, TypeOK
<1> QED BY <1>9, <1>10, <1>11 DEF TypeOK, redis, knowledge, rules, feed

LEMMA PassStepsType ==
  ASSUME TypeOK, PassReply \/ \E p \in Offered : ChangePass(p)
  PROVE  TypeOK'
<1> USE DEF redis, knowledge, own, store, rules, feed, history, P!events, P!ghosts, P!sets
<1>1. CASE PassReply
  <2> DEFINE e == Head(wire)
  <2>1. /\ wire # <<>> /\ e \in P!Call /\ e.pass \in P!Pass
        /\ UNCHANGED <<passes, known, fresh, expired, built, table, daemon, told,
                       unsettled, uncovered, missed, events>>
        /\ held' \in {held, held \cup {e.pass}, held \ {e.pass}}
        /\ \/ wire' = Tail(wire)
           \/ \E at \in {"read", "tell"}, seen \in SUBSET Server :
                wire' = Append(Tail(wire), [e EXCEPT !.at = at, !.seen = seen])
    <3>1. wire # <<>> /\ e.at \in {"own", "read"}
      BY <1>1 DEF PassReply, P!Own, P!Mismatch, P!Disown, P!Read, P!Resumes
    <3>2. e \in P!Call /\ e.pass \in P!Pass
      BY <3>1, HeadEntry, EntryKinds DEF P!Call
    <3> QED BY <1>1, <3>1, <3>2 DEF PassReply, P!Own, P!Mismatch, P!Disown, P!Read,
                                    P!Reissue, P!End, P!PassesOf
  <2>2. wire' \in Seq(Entry)
    <3>1. \A at \in {"read", "tell"}, seen \in SUBSET Server :
            [e EXCEPT !.at = at, !.seen = seen] \in Entry
      BY <2>1 DEF P!Call, Entry
    <3> QED BY <2>1, <3>1, HeadEntry, AppendEntry
  <2> QED BY <2>1, <2>2 DEF TypeOK
<1>2. ASSUME NEW p \in Offered, ChangePass(p)  PROVE TypeOK'
  <2>1. p \in P!Pass
    BY SourceAssumption DEF P!Pass
  <2>2. /\ UNCHANGED <<held, known, fresh, expired, built, table, daemon, told,
                       uncovered, missed>>
        /\ passes' \in {passes \cup {p}, passes \ {p}} /\ events' = events + 1
        /\ unsettled' \subseteq Server
        /\ \E op \in {"add", "remove"} :
             wire' = Append(wire, [op |-> op, at |-> "own", pass |-> p, seen |-> {}])
    BY <1>2 DEF ChangePass, Occurs, Unsettle, Building, TypeOK, P!AddPassForCkey,
                P!RemoveCKeyPass, P!Start
  <2>3. wire' \in Seq(Entry)
    <3>1. \A op \in {"add", "remove"} :
            [op |-> op, at |-> "own", pass |-> p, seen |-> {}] \in Entry
      BY <2>1 DEF Entry, P!Call
    <3> QED BY <2>2, <3>1, AppendEntry DEF TypeOK
  <2> QED BY <2>1, <2>2, <2>3 DEF TypeOK
<1> QED BY <1>1, <1>2

LEMMA HandlerStepsType ==
  ASSUME TypeOK, HandlePassAdded \/ HandlePassRemoved \/ Prune \/ Linked
  PROVE  TypeOK'
<1> USE DEF redis, knowledge, store, rules, feed
<1> DEFINE e == Head(wire)
<1>0. wire # <<>> /\ e \in Entry /\ Rest \in Seq(Entry)
  BY HeadEntry DEF HandlePassAdded, HandlePassRemoved, Prune, Linked, P!Resumes, Rest
<1>1. CASE HandlePassAdded \/ HandlePassRemoved
  <2>1. e.at = "tell"
    BY <1>1 DEF HandlePassAdded, HandlePassRemoved, P!Resumes
  <2>2. e.pass \in P!Pass /\ e.pass[1] \in Server /\ e.pass[2] \in Player
    BY <1>0, <2>1, EntryKinds DEF P!Call, P!Pass
  <2>3. PICK op \in {"allow", "revoke"} :
          wire' = Append(Rest, PassHandler(op, e.pass[1], e.pass[2]))
    BY <1>1 DEF HandlePassAdded, HandlePassRemoved
  <2>4. wire' \in Seq(Entry)
    BY <1>0, <2>2, <2>3, HandlersType, AppendEntry DEF Entry
  <2>5. /\ known' \subseteq P!Pass /\ unsettled' \subseteq Server
        /\ UNCHANGED <<redis, store, rules, feed, missed, events>>
    BY <1>1, <2>2 DEF HandlePassAdded, HandlePassRemoved, P!Announced, Unsettle, Building, TypeOK
  <2>6. uncovered' \subseteq Server \X Link
    <3>1. CASE HandlePassAdded
      BY <3>1 DEF HandlePassAdded, TypeOK
    <3>2. CASE HandlePassRemoved
      <4> DEFINE s == e.pass[1]
                 c == e.pass[2]
                 gone == {<<s, <<c, a>>>> : a \in AddressesOf(c, Seen \ fresh)}
                 kept == {u \in uncovered : ~ (u[1] = s /\ u[2][1] = c)}
      <4>1. uncovered' = kept \cup gone
        BY <3>2 DEF HandlePassRemoved
      <4>2. gone \subseteq Server \X Link
        <5>1. \A a \in Address : <<s, <<c, a>>>> \in Server \X Link
          BY <2>2 DEF Link
        <5>2. AddressesOf(c, Seen \ fresh) \subseteq Address
          BY DEF AddressesOf
        <5> HIDE DEF s, c
        <5> QED BY <5>1, <5>2
      <4>3. kept \subseteq Server \X Link
        BY DEF TypeOK
      <4> QED BY <4>1, <4>2, <4>3
    <3> QED BY <1>1, <3>1, <3>2
  <2> QED BY <2>4, <2>5, <2>6 DEF TypeOK
<1>2. CASE Prune
  <2>1. e \in LinkCall
    BY <1>0, <1>2, EntryKinds DEF Prune, P!Resumes
  <2>2. [e EXCEPT !.at = "pruned"] \in Entry
    BY <2>1 DEF LinkCall, Entry
  <2>3. wire' \in Seq(Entry)
    BY <1>0, <1>2, <2>2, AppendEntry DEF Prune
  <2>4. expired' \subseteq expired /\ unsettled' \subseteq Server
    BY <1>2 DEF Prune, Unsettle, Building, TypeOK
  <2> QED BY <1>2, <2>3, <2>4 DEF Prune, TypeOK
<1>3. CASE Linked
  <2>1. e \in LinkCall /\ e.who \in Player /\ e.addr \in Address
    BY <1>0, <1>3, EntryKinds DEF Linked, P!Resumes, LinkCall
  <2>2. wire' \in Seq(Entry)
    <3>1. IpHandler("allow", e.who, e.addr) \in Entry
      BY <2>1, HandlersType DEF Entry
    <3> QED BY <1>0, <1>3, <3>1, AppendEntry DEF Linked
  <2>3. unsettled' \subseteq Server
    BY <1>3 DEF Linked, Unsettle, Building, TypeOK
  <2> QED BY <1>3, <2>2, <2>3 DEF Linked, TypeOK
<1> QED BY <1>1, <1>2, <1>3

LEMMA RuleStepsType ==
  ASSUME TypeOK, Handle \/ LookUp \/ HandleEvent
  PROVE  TypeOK'
<1> USE DEF redis, knowledge, own, store, rules, feed, history
<1>1. CASE Handle
  <2>1. wire # <<>> /\ Head(wire).at = "sources"
    BY <1>1 DEF Handle, P!Resumes
  <2>2. Head(wire) \in Job /\ Rest \in Seq(Entry)
    BY <2>1, HeadEntry, EntryKinds DEF Rest
  <2> HIDE DEF redis, knowledge, own, store, rules, feed, history
  <2>3. /\ Deal(Head(wire), table, built, missed, Rest)
        /\ UNCHANGED <<redis, knowledge, store, unsettled, uncovered, events>>
    BY <1>1 DEF Handle
  <2>4. /\ wire' \in Seq(Entry) /\ table' \in [Server -> SUBSET Link] /\ built' \subseteq Server
        /\ daemon' \in {"away", "initial", "live"} /\ told' \subseteq Rule /\ missed' \subseteq Rule
    BY <2>2, <2>3, DealType DEF TypeOK
  <2> QED BY <2>3, <2>4 DEF TypeOK, redis, knowledge, store
<1>2. CASE LookUp
  <2>1. wire # <<>> /\ Head(wire).at = "build"
    BY <1>2 DEF LookUp, P!Resumes
  <2>2. Head(wire) \in Job /\ Rest \in Seq(Entry)
    BY <2>1, HeadEntry, EntryKinds DEF Rest
  <2>3. PICK c \in Head(wire).left :
          wire' = Append(Rest, [Head(wire) EXCEPT !.left = @ \ {c},
                                  !.found = @ \cup ({c} \X AddressesOf(c, fresh))])
    BY <1>2 DEF LookUp
  <2>4. [Head(wire) EXCEPT !.left = @ \ {c},
                           !.found = @ \cup ({c} \X AddressesOf(c, fresh))] \in Entry
    <3>1. {c} \X AddressesOf(c, fresh) \in SUBSET Link
      BY <2>2, <2>3 DEF Job, AddressesOf, Link
    <3> QED BY <2>2, <3>1 DEF Job, Entry
  <2>5. wire' \in Seq(Entry)
    BY <2>2, <2>3, <2>4, AppendEntry
  <2> QED BY <1>2, <2>5 DEF LookUp, TypeOK
<1>3. CASE HandleEvent
  <2> DEFINE e == Handler("snapshot", CHOOSE c \in Player : TRUE, Rule)
  <2>1. e \in Job
    BY SourceAssumption, HandlerType
  <2> HIDE DEF redis, knowledge, own, store, rules, feed, history, e
  <2>2. /\ Deal(e, table, built, {}, wire)
        /\ UNCHANGED <<redis, knowledge, store, unsettled, uncovered, events>>
    BY <1>3 DEF HandleEvent, e
  <2>3. /\ wire' \in Seq(Entry) /\ table' \in [Server -> SUBSET Link] /\ built' \subseteq Server
        /\ daemon' \in {"away", "initial", "live"} /\ told' \subseteq Rule /\ missed' \subseteq Rule
    BY <2>1, <2>2, DealType DEF TypeOK
  <2> QED BY <2>2, <2>3 DEF TypeOK, redis, knowledge, store
<1> QED BY <1>1, <1>2, <1>3

LEMMA OtherStepsType ==
  ASSUME TypeOK,
         \/ \E c \in Player, a \in Address : LinkIp(c, a) \/ Expire(c, a)
         \/ Leave \/ Restart \/ UNCHANGED vars
  PROVE  TypeOK'
<1> USE DEF redis, knowledge, own, store, rules, feed, history
<1>1. ASSUME NEW c \in Player, NEW a \in Address, LinkIp(c, a)  PROVE TypeOK'
  <2> DEFINE l == [op |-> "link", at |-> "prune", who |-> c, addr |-> a,
                   old |-> AddressesOf(c, expired), added |-> FALSE]
  <2>1. l \in Entry
    BY DEF Entry, LinkCall, AddressesOf
  <2>2. wire' = Append(wire, l)
    BY <1>1 DEF LinkIp
  <2>3. wire' \in Seq(Entry)
    BY <2>1, <2>2, AppendEntry DEF TypeOK
  <2> QED BY <1>1, <2>3 DEF LinkIp, Occurs, TypeOK
<1>2. ASSUME NEW c \in Player, NEW a \in Address, Expire(c, a)  PROVE TypeOK'
  BY <1>2 DEF Expire, Occurs, TypeOK, Link
<1>3. CASE Leave \/ UNCHANGED vars
  BY <1>3 DEF Leave, vars, TypeOK
<1>4. CASE Restart
  <2>1. <<>> \in Seq(Entry)
    BY EmptySeq
  <2> QED BY <1>4, <2>1 DEF Restart, P!Restart, P!sets, TypeOK, Link
<1> QED BY <1>1, <1>2, <1>3, <1>4

LEMMA NextKeepsType ==
  ASSUME TypeOK, [Next]_vars
  PROVE  TypeOK'
BY PassStepsType, HandlerStepsType, ZaddType, RuleStepsType, StoreType, OtherStepsType DEF Next

LEMMA TypeInit == Init => TypeOK
<1>1. <<>> \in Seq(Entry)
  BY EmptySeq
<1> QED BY <1>1, SourceAssumption DEF Init, TypeOK, P!Pass, Link

\* Whatever handlers, logins and snapshots share the connection, what is on it are
\* calls and handlers, and no address of a player is both fresh and expired.
THEOREM TypeCorrect == Spec => []TypeOK
<1>1. TypeOK /\ [Next]_vars => TypeOK'
  BY NextKeepsType
<1> QED BY <1>1, TypeInit, PTL DEF Spec
-----------------------------------------------------------------------------
(***************************************************************************)
(* The daemon and the tables.  There is at most one snapshot on the wire;  *)
(* the ports it has not collected yet are those of its rules, and the      *)
(* daemon was told nothing of them.                                        *)
(***************************************************************************)
Holds(w, todo) == \E i \in DOMAIN w : w[i].op = "snapshot" /\ w[i].todo = todo
Single(w) == \A i, j \in DOMAIN w : w[i].op = "snapshot" /\ w[j].op = "snapshot" => i = j
NoSnapshot(w) == \A i \in DOMAIN w : w[i].op # "snapshot"

\* a snapshot deals with all the rules of a port or with none
Whole(todo) == \A r \in Rule : r[1] \in Ports(todo) => r \in todo

SnapInv ==
  /\ Single(wire)
  /\ \A i \in DOMAIN wire :
       wire[i].op = "snapshot" => daemon = "initial" /\ Whole(wire[i].todo)

\* the ports of which the daemon, or its message, has been told
Covered(s) == daemon = "live" \/ (daemon = "initial" /\ s \in Collected)

\* what is told, and which changes are missed, is right for tables T of ports B
Right(T, B, miss) ==
  \A s \in Server, a \in Address :
    Covered(s) => s \in B /\ (<<s, a>> \in miss \/ (<<s, a>> \in told <=> a \in Keys(T[s])))
Agree ==
  \A s \in Server, a \in Address :
    Covered(s) => s \in built /\ (<<s, a>> \in missed \/ (<<s, a>> \in told <=> a \in Keys(table[s])))
NotYet == \A r \in told : Covered(r[1])

FeedInv == SnapInv /\ Agree /\ NotYet

LEMMA KeysGain ==
  ASSUME NEW L \in SUBSET Link, NEW c \in Player, NEW A \in SUBSET Address, NEW a \in Address
  PROVE  a \in Keys(L \cup ({c} \X A)) <=> a \in Keys(L) \/ a \in A
BY DEF Keys

LEMMA KeysLose ==
  ASSUME NEW L \in SUBSET Link, NEW c \in Player, NEW A \in SUBSET Address, NEW a \in Address
  PROVE  /\ a \notin A => (a \in Keys(L \ ({c} \X A)) <=> a \in Keys(L))
         /\ a \in Keys(L \ ({c} \X A)) => a \in Keys(L)
BY DEF Keys

\* the head leaves the wire
LEMMA DropSnaps ==
  ASSUME NEW w \in Seq(Entry), w # <<>>, Single(w)
  PROVE  /\ Single(Tail(w))
         /\ Head(w).op = "snapshot" => NoSnapshot(Tail(w)) /\ Holds(w, Head(w).todo)
                                       /\ \A i \in DOMAIN w : w[i].op = "snapshot" => w[i] = Head(w)
         /\ Head(w).op # "snapshot" => \A todo : Holds(Tail(w), todo) <=> Holds(w, todo)
<1>1. Len(w) \in Nat /\ Len(w) >= 1 /\ DOMAIN w = 1 .. Len(w)
  BY LenProperties, EmptySeq
<1>2. /\ Tail(w) \in Seq(Entry) /\ Head(w) = w[1] /\ DOMAIN Tail(w) = 1 .. Len(w) - 1
      /\ \A i \in 1 .. Len(w) - 1 : Tail(w)[i] = w[i + 1]
  BY <1>1, HeadTailProperties, LenProperties
<1>3. \A i \in DOMAIN Tail(w) : i + 1 \in DOMAIN w /\ Tail(w)[i] = w[i + 1]
  BY <1>1, <1>2
<1>4. \A i \in DOMAIN w : i = 1 \/ (i - 1 \in DOMAIN Tail(w) /\ Tail(w)[i - 1] = w[i])
  BY <1>1, <1>2
<1>5. 1 \in DOMAIN w
  BY <1>1
<1>6. Single(Tail(w))
  BY <1>1, <1>2, <1>3 DEF Single
<1>7. Head(w).op = "snapshot" => NoSnapshot(Tail(w)) /\ Holds(w, Head(w).todo)
                                  /\ \A i \in DOMAIN w : w[i].op = "snapshot" => w[i] = Head(w)
  BY <1>1, <1>2, <1>3, <1>5 DEF Single, NoSnapshot, Holds
<1>8. ASSUME Head(w).op # "snapshot", NEW todo
      PROVE  Holds(Tail(w), todo) <=> Holds(w, todo)
  <2>1. ASSUME Holds(Tail(w), todo)  PROVE Holds(w, todo)
    <3>1. PICK i \in DOMAIN Tail(w) : Tail(w)[i].op = "snapshot" /\ Tail(w)[i].todo = todo
      BY <2>1 DEF Holds
    <3> QED BY <1>3, <3>1 DEF Holds
  <2>2. ASSUME Holds(w, todo)  PROVE Holds(Tail(w), todo)
    <3>1. PICK i \in DOMAIN w : w[i].op = "snapshot" /\ w[i].todo = todo
      BY <2>2 DEF Holds
    <3>2. i # 1
      BY <1>2, <1>8, <3>1
    <3> QED BY <1>4, <3>1, <3>2 DEF Holds
  <2> QED BY <2>1, <2>2
<1> QED BY <1>6, <1>7, <1>8

\* entries that are not snapshots are put at the end
LEMMA JoinSnaps ==
  ASSUME NEW w \in Seq(Entry), NEW f \in Seq(Entry), NoSnapshot(f)
  PROVE  /\ w \o f \in Seq(Entry) /\ (Single(w) => Single(w \o f))
         /\ \A todo : Holds(w \o f, todo) <=> Holds(w, todo)
<1>1. /\ Len(w) \in Nat /\ DOMAIN w = 1 .. Len(w) /\ Len(f) \in Nat /\ DOMAIN f = 1 .. Len(f)
      /\ w \o f \in Seq(Entry) /\ DOMAIN (w \o f) = 1 .. Len(w) + Len(f)
      /\ \A i \in 1 .. Len(w) + Len(f) : (w \o f)[i] = IF i <= Len(w) THEN w[i] ELSE f[i - Len(w)]
  BY LenProperties, ConcatProperties
<1>2. \A i \in DOMAIN w : i \in DOMAIN (w \o f) /\ (w \o f)[i] = w[i]
  BY <1>1
<1>3. ASSUME NEW i \in DOMAIN (w \o f), (w \o f)[i].op = "snapshot"
      PROVE  i \in DOMAIN w /\ (w \o f)[i] = w[i]
  <2>1. CASE i <= Len(w)
    BY <1>1, <2>1
  <2>2. CASE ~ (i <= Len(w))
    <3>1. i - Len(w) \in DOMAIN f /\ (w \o f)[i] = f[i - Len(w)]
      BY <1>1, <2>2
    <3> QED BY <1>3, <3>1 DEF NoSnapshot
  <2> QED BY <2>1, <2>2
<1>4. Single(w) => Single(w \o f)
  BY <1>3 DEF Single
<1>5. ASSUME NEW todo  PROVE Holds(w \o f, todo) <=> Holds(w, todo)
  BY <1>2, <1>3 DEF Holds
<1> QED BY <1>1, <1>4, <1>5

LEMMA AppendSnaps ==
  ASSUME NEW w \in Seq(Entry), NEW e \in Entry
  PROVE  /\ Append(w, e) \in Seq(Entry)
         /\ e.op # "snapshot" =>
              /\ Single(w) => Single(Append(w, e))
              /\ \A todo : Holds(Append(w, e), todo) <=> Holds(w, todo)
         /\ e.op = "snapshot" /\ NoSnapshot(w) =>
              /\ Single(Append(w, e)) /\ Holds(Append(w, e), e.todo)
              /\ \A i \in DOMAIN Append(w, e) : Append(w, e)[i].op = "snapshot" => Append(w, e)[i] = e
<1>1. /\ Len(w) \in Nat /\ DOMAIN w = 1 .. Len(w) /\ Append(w, e) \in Seq(Entry)
      /\ DOMAIN Append(w, e) = 1 .. Len(w) + 1 /\ Append(w, e)[Len(w) + 1] = e
      /\ \A i \in 1 .. Len(w) : Append(w, e)[i] = w[i]
  BY LenProperties, AppendProperties
<1>2. \A i \in DOMAIN Append(w, e) : i = Len(w) + 1 \/ (i \in DOMAIN w /\ Append(w, e)[i] = w[i])
  BY <1>1
<1>3. \A i \in DOMAIN w : i \in DOMAIN Append(w, e) /\ Append(w, e)[i] = w[i]
  BY <1>1
<1>4. Len(w) + 1 \in DOMAIN Append(w, e)
  BY <1>1
<1>5. ASSUME e.op # "snapshot"
      PROVE  /\ Single(w) => Single(Append(w, e))
             /\ \A todo : Holds(Append(w, e), todo) <=> Holds(w, todo)
  <2>1. Single(w) => Single(Append(w, e))
    BY <1>1, <1>2, <1>5 DEF Single
  <2>2. ASSUME NEW todo  PROVE Holds(Append(w, e), todo) <=> Holds(w, todo)
    BY <1>1, <1>2, <1>3, <1>5 DEF Holds
  <2> QED BY <2>1, <2>2
<1>6. ASSUME e.op = "snapshot", NoSnapshot(w)
      PROVE  /\ Single(Append(w, e)) /\ Holds(Append(w, e), e.todo)
             /\ \A i \in DOMAIN Append(w, e) : Append(w, e)[i].op = "snapshot" => Append(w, e)[i] = e
  BY <1>1, <1>2, <1>4, <1>6 DEF Single, Holds, NoSnapshot
<1> QED BY <1>1, <1>5, <1>6

\* a step that touches no snapshot, no table and no stream
Quiet == Single(wire') /\ \A todo : Holds(wire', todo) <=> Holds(wire, todo)

LEMMA QuietCollects ==
  ASSUME Quiet, daemon' = daemon
  PROVE  Collected' = Collected
<1>1. \A s \in Server : (\A i \in DOMAIN wire : wire[i].op = "snapshot" => s \notin Ports(wire[i].todo))
         <=> (\A todo : Holds(wire, todo) => s \notin Ports(todo))
  BY DEF Holds
<1>2. \A s \in Server : (\A i \in DOMAIN wire' : wire'[i].op = "snapshot" => s \notin Ports(wire'[i].todo))
         <=> (\A todo : Holds(wire', todo) => s \notin Ports(todo))
  BY DEF Holds
<1>3. \A s : Ports(s)' = Ports(s)
  BY DEF Ports
<1> QED BY <1>1, <1>2 DEF Quiet, Collected

LEMMA QuietSnaps ==
  ASSUME SnapInv, Quiet, daemon' = daemon
  PROVE  SnapInv'
<1>1. \A todo : Holds(wire, todo) => daemon = "initial" /\ Whole(todo)
  BY DEF SnapInv, Holds
<1>2. \A todo : Holds(wire', todo) => daemon' = "initial" /\ Whole(todo)
  BY <1>1 DEF Quiet
<1>3. \A i \in DOMAIN wire' : wire'[i].op = "snapshot" => daemon' = "initial" /\ Whole(wire'[i].todo)
  BY <1>2 DEF Holds
<1> QED BY <1>3 DEF Quiet, SnapInv, Single, Whole, Ports

LEMMA QuietKeeps ==
  ASSUME FeedInv, Quiet, UNCHANGED <<daemon, told, missed, built, table>>
  PROVE  FeedInv'
<1>1. Collected' = Collected
  BY QuietCollects
<1>2. SnapInv'
  BY QuietSnaps DEF FeedInv
<1>3. \A s \in Server : Covered(s)' <=> Covered(s)
  BY <1>1 DEF Covered
<1>4. Agree' /\ NotYet'
  BY <1>1 DEF FeedInv, Agree, NotYet, Covered, Keys
<1> QED BY <1>2, <1>4 DEF FeedInv

\* a handler deals with rules of ports in B, whose tables are T by now
LEMMA EmitKeeps ==
  ASSUME TypeOK, FeedInv, Quiet, NEW e \in Job, e.op # "snapshot",
         NEW T \in [Server -> SUBSET Link], NEW B, NEW miss, Right(T, B, miss),
         NEW D \in SUBSET Rule, Emit(e, D, T, miss), table' = Carried(e, D, T), built' = B
  PROVE  FeedInv'
<1> DEFINE C == Carried(e, D, T)
           A(s) == {a \in Address : <<s, a>> \in D}
<1>1. e.who \in Player /\ e.op \in {"allow", "revoke"}
  BY DEF Job
<1>2. daemon' = daemon
  BY DEF Emit
<1>3. Collected' = Collected
  BY <1>2, QuietCollects
<1>4. SnapInv'
  BY <1>2, QuietSnaps DEF FeedInv
<1>5. \A s \in Server : C[s] = IF e.op = "allow" THEN T[s] \cup ({e.who} \X A(s))
                                 ELSE T[s] \ ({e.who} \X A(s))
  BY <1>1 DEF Carried
<1>6. ASSUME NEW s \in Server, NEW a \in Address, <<s, a>> \notin Sent(e, D, T)
      PROVE  a \in Keys(C[s]) <=> a \in Keys(T[s])
  <2>1. T[s] \in SUBSET Link /\ A(s) \in SUBSET Address
    OBVIOUS
  <2>2. a \in A(s) <=> <<s, a>> \in D
    OBVIOUS
  <2>3. CASE e.op = "allow"
    <3>1. a \notin A(s)
      BY <1>6, <2>2, <2>3 DEF Sent
    <3>2. C[s] = T[s] \cup ({e.who} \X A(s))
      BY <1>5, <2>3
    <3> HIDE DEF A, C
    <3> QED BY <1>1, <2>1, <3>1, <3>2, KeysGain
  <2>4. CASE e.op = "revoke"
    <3>1. C[s] = T[s] \ ({e.who} \X A(s))
      BY <1>5, <2>4
    <3>2. a \in A(s) => a \in Keys(C[s])
      BY <1>6, <2>2, <2>4 DEF Sent
    <3> HIDE DEF A, C
    <3> QED BY <1>1, <2>1, <3>1, <3>2, KeysLose
  <2> QED BY <1>1, <2>3, <2>4
<1>7. ASSUME NEW s \in Server, NEW a \in Address, <<s, a>> \in Sent(e, D, T)
      PROVE  /\ <<s, a>> \in D
             /\ e.op = "allow" => a \in Keys(C[s])
             /\ e.op = "revoke" => a \notin Keys(C[s])
  <2>1. T[s] \in SUBSET Link /\ A(s) \in SUBSET Address
    OBVIOUS
  <2>2. <<s, a>> \in D
    BY <1>7 DEF Sent
  <2>3. a \in A(s)
    BY <2>2
  <2>4. CASE e.op = "allow"
    <3>1. C[s] = T[s] \cup ({e.who} \X A(s))
      BY <1>5, <2>4
    <3> HIDE DEF A, C
    <3>2. \A M \in SUBSET Address : a \in M => a \in Keys(T[s] \cup ({e.who} \X M))
      BY <1>1, <2>1, KeysGain
    <3>3. a \in Keys(C[s])
      BY <2>1, <2>3, <3>1, <3>2
    <3> QED BY <2>2, <2>4, <3>3
  <2>5. CASE e.op = "revoke"
    BY <1>7, <2>2, <2>5 DEF Sent
  <2> QED BY <1>1, <2>4, <2>5
<1> DEFINE sent == Sent(e, D, T)
<1>8. /\ told' = IF daemon # "live" THEN told
                 ELSE IF e.op = "allow" THEN told \cup sent ELSE told \ sent
      /\ missed' = IF daemon = "live" THEN miss \ sent
                   ELSE miss \cup {r \in sent : r[1] \in Collected}
  BY DEF Emit
<1> HIDE DEF C, A, sent
<1>9. ASSUME NEW s \in Server, NEW a \in Address, Covered(s)
      PROVE  s \in B /\ (<<s, a>> \in missed' \/ (<<s, a>> \in told' <=> a \in Keys(C[s])))
  <2>1. s \in B /\ (<<s, a>> \in miss \/ (<<s, a>> \in told <=> a \in Keys(T[s])))
    BY <1>9 DEF Right
  <2>2. CASE <<s, a>> \in sent
    <3>1. CASE daemon = "live"
      BY <1>1, <1>7, <1>8, <2>1, <2>2, <3>1 DEF sent
    <3>2. CASE daemon # "live"
      <4>1. s \in Collected
        BY <1>9, <3>2 DEF Covered
      <4> QED BY <1>8, <2>1, <2>2, <3>2, <4>1
    <3> QED BY <3>1, <3>2
  <2>3. CASE <<s, a>> \notin sent
    <3>1. a \in Keys(C[s]) <=> a \in Keys(T[s])
      BY <1>6, <2>3 DEF sent
    <3> QED BY <1>8, <2>1, <2>3, <3>1
  <2> QED BY <2>2, <2>3
<1>10. Agree'
  <2>1. table' = C
    BY DEF C
  <2> QED BY <1>2, <1>3, <1>9, <2>1 DEF Agree, Covered, Keys
<1>11. NotYet'
  BY <1>2, <1>3, <1>8 DEF NotYet, Covered, FeedInv
<1> QED BY <1>4, <1>10, <1>11 DEF FeedInv

\* a snapshot collects the ports in S of its rules, and leaves R
LEMMA CollectKeeps ==
  ASSUME TypeOK, NEW e \in Job, e.op = "snapshot", Whole(e.todo),
         NEW T \in [Server -> SUBSET Link], NEW B, NEW miss, NEW rest \in Seq(Entry),
         NoSnapshot(rest), Deal(e, T, B, miss, rest),
         \A s \in Server \ Ports(e.todo), a \in Address :
           s \in B /\ (<<s, a>> \in miss \/ (<<s, a>> \in told <=> a \in Keys(T[s]))),
         \A r \in told : r[1] \notin Ports(e.todo)
  PROVE  FeedInv'
<1>1. PICK S \in SUBSET (Ports(e.todo) \cap B) :
        LET D == {r \in e.todo : r[1] \in S}
            R == e.todo \ D
        IN  /\ table' = Carried(e, D, T)
            /\ built' = B
            /\ Collect(D, T, miss, R = {})
            /\ \/ R = {} /\ wire' = rest
               \/ \E s \in Ports(R) \ B :
                    wire' = Append(rest, [e EXCEPT !.at = "build", !.todo = R, !.port = s,
                                                   !.left = ServerPasses(s), !.found = {}])
  BY DEF Deal
<1> DEFINE D == {r \in e.todo : r[1] \in S}
           R == e.todo \ D
           C == Carried(e, D, T)
<1>2. e.todo \in SUBSET Rule /\ S \in SUBSET Server
  BY DEF Job, Ports
<1>3. Ports(R) = Ports(e.todo) \ S
  BY <1>2 DEF Ports
<1>4. Whole(R)
  <2>1. ASSUME NEW r \in Rule, r[1] \in Ports(R)  PROVE r \in R
    <3>1. r[1] \in Ports(e.todo) /\ r[1] \notin S
      BY <1>3, <2>1
    <3> QED BY <3>1 DEF Whole
  <2> QED BY <2>1 DEF Whole
<1>5. \A s \in S, a \in Address : <<s, a>> \in D /\ s \in B
  <2>1. \A s \in S, a \in Address : <<s, a>> \in Rule
    BY <1>2 DEF Rule
  <2> QED BY <1>2, <2>1 DEF Whole
<1>6. \A s \in Server : C[s] = T[s]
  BY DEF Carried
<1>7. /\ told' = told \cup {r \in D : r[2] \in Keys(T[r[1]])}
      /\ daemon' = (IF R = {} THEN "live" ELSE "initial") /\ missed' = miss
      /\ table' = C /\ built' = B
  BY <1>1 DEF Collect
<1>8. R # {} => \E s \in Server : s \in Ports(R)
  BY <1>2 DEF Ports, Rule
<1>9. /\ Single(wire')
      /\ R = {} => NoSnapshot(wire')
      /\ R # {} => /\ Holds(wire', R)
                   /\ \A i \in DOMAIN wire' : wire'[i].op = "snapshot" => wire'[i].todo = R
  <2>1. CASE R = {}
    <3>1. Ports(R) = {}
      BY <2>1 DEF Ports
    <3>2. wire' = rest
      BY <1>1, <3>1
    <3> QED BY <2>1, <3>2 DEF Single, NoSnapshot
  <2>2. CASE R # {}
    <3>1. PICK s \in Ports(R) \ B :
            wire' = Append(rest, [e EXCEPT !.at = "build", !.todo = R, !.port = s,
                                           !.left = ServerPasses(s), !.found = {}])
      BY <1>1, <2>2
    <3> DEFINE x == [e EXCEPT !.at = "build", !.todo = R, !.port = s,
                              !.left = ServerPasses(s), !.found = {}]
    <3>2. s \in Server /\ ServerPasses(s) \in SUBSET Player /\ R \in SUBSET Rule
      BY <1>2, <3>1 DEF Ports, ServerPasses
    <3>3. x \in Entry /\ x.op = "snapshot" /\ x.todo = R
      BY <3>2 DEF Job, Entry
    <3> HIDE DEF x, R
    <3>4. wire' = Append(rest, x)
      BY <3>1 DEF x
    <3> QED BY <2>2, <3>3, <3>4, AppendSnaps
  <2> QED BY <2>1, <2>2
<1> HIDE DEF D, R, C
<1>10. SnapInv'
  <2>1. \A i \in DOMAIN wire' : wire'[i].op = "snapshot" => daemon' = "initial" /\ Whole(wire'[i].todo)
    BY <1>4, <1>7, <1>9 DEF NoSnapshot
  <2> QED BY <1>9, <2>1 DEF SnapInv, Single, Whole, Ports
<1>11. \A s \in Server : Covered(s)' <=> s \notin Ports(R)
  <2>1. CASE R = {}
    <3>1. Ports(R) = {}
      BY <2>1 DEF Ports
    <3> QED BY <1>7, <2>1, <3>1 DEF Covered
  <2>2. CASE R # {}
    <3>1. Collected' = {s \in Server : \A i \in DOMAIN wire' :
                          wire'[i].op = "snapshot" => s \notin Ports(wire'[i].todo)}
      BY <1>7, <2>2 DEF Collected, Ports
    <3>2. \A s \in Server : s \in Collected' <=> s \notin Ports(R)
      BY <1>9, <2>2, <3>1 DEF Holds
    <3> QED BY <1>7, <2>2, <3>2 DEF Covered
  <2> QED BY <2>1, <2>2
<1>12. ASSUME NEW s \in Server, NEW a \in Address, s \notin Ports(R)
       PROVE  s \in B /\ (<<s, a>> \in missed' \/ (<<s, a>> \in told' <=> a \in Keys(C[s])))
  <2>1. CASE s \in S
    <3>1. <<s, a>> \in D /\ s \in B /\ s \in Ports(e.todo)
      BY <1>5, <2>1
    <3>2. <<s, a>> \notin told
      BY <3>1
    <3> QED BY <1>6, <1>7, <3>1, <3>2
  <2>2. CASE s \notin S
    <3>1. s \in Server \ Ports(e.todo) /\ <<s, a>> \notin D
      BY <1>3, <1>12, <2>2 DEF D
    <3> QED BY <1>6, <1>7, <3>1
  <2> QED BY <2>1, <2>2
<1>13. Agree'
  BY <1>7, <1>11, <1>12 DEF Agree, Keys
<1>14. NotYet'
  <2>1. \A r \in told' : r[1] \in Server /\ r[1] \notin Ports(R)
    BY <1>2, <1>3, <1>7 DEF D, TypeOK, Rule
  <2> QED BY <1>11, <2>1 DEF NotYet
<1> QED BY <1>10, <1>13, <1>14 DEF FeedInv

\* the head of the wire deals with its rules
LEMMA DealKeeps ==
  ASSUME TypeOK, FeedInv, wire # <<>>, Head(wire) \in Job,
         NEW T \in [Server -> SUBSET Link], NEW B, NEW miss,
         Right(T, B, miss), Deal(Head(wire), T, B, miss, Rest)
  PROVE  FeedInv'
<1> DEFINE e == Head(wire)
<1>0. wire \in Seq(Entry) /\ Rest = Tail(wire) /\ Rest \in Seq(Entry) /\ Single(wire)
  BY HeadEntry DEF Rest, TypeOK, FeedInv, SnapInv
<1>1. CASE e.op # "snapshot"
  <2>1. PICK S \in SUBSET (Ports(e.todo) \cap B) :
          LET D == {r \in e.todo : r[1] \in S}
              R == e.todo \ D
          IN  /\ table' = Carried(e, D, T)
              /\ built' = B
              /\ Emit(e, D, T, miss)
              /\ \/ R = {} /\ wire' = Rest
                 \/ \E s \in Ports(R) \ B :
                      wire' = Append(Rest, [e EXCEPT !.at = "build", !.todo = R, !.port = s,
                                                     !.left = ServerPasses(s), !.found = {}])
    BY <1>1 DEF Deal
  <2> DEFINE D == {r \in e.todo : r[1] \in S}
             R == e.todo \ D
  <2>2. D \in SUBSET Rule /\ R \in SUBSET Rule /\ e \in Job
    BY DEF Job
  <2>3. Single(Rest) /\ \A todo : Holds(Rest, todo) <=> Holds(wire, todo)
    BY <1>0, <1>1, DropSnaps
  <2>4. Quiet
    <3>1. CASE wire' = Rest
      BY <2>3, <3>1 DEF Quiet
    <3>2. ASSUME NEW s \in Ports(R) \ B,
                 wire' = Append(Rest, [e EXCEPT !.at = "build", !.todo = R, !.port = s,
                                                !.left = ServerPasses(s), !.found = {}])
          PROVE  Quiet
      <4> DEFINE x == [e EXCEPT !.at = "build", !.todo = R, !.port = s,
                                !.left = ServerPasses(s), !.found = {}]
      <4>1. s \in Server /\ ServerPasses(s) \in SUBSET Player
        BY <3>2 DEF Ports, ServerPasses
      <4>2. x \in Entry /\ x.op # "snapshot"
        BY <1>1, <2>2, <4>1 DEF Job, Entry
      <4> HIDE DEF x
      <4>3. wire' = Append(Rest, x)
        BY <3>2 DEF x
      <4> QED BY <1>0, <2>3, <4>2, <4>3, AppendSnaps DEF Quiet
    <3> QED BY <2>1, <3>1, <3>2
  <2> HIDE DEF D
  <2>5. Emit(e, D, T, miss) /\ table' = Carried(e, D, T) /\ built' = B
    BY <2>1 DEF D
  <2> HIDE DEF e
  <2> QED BY <1>1, <2>2, <2>4, <2>5, EmitKeeps
<1>2. CASE e.op = "snapshot"
  <2>1. /\ NoSnapshot(Rest) /\ Holds(wire, e.todo)
        /\ \A i \in DOMAIN wire : wire[i].op = "snapshot" => wire[i] = e
    BY <1>0, <1>2, DropSnaps
  <2>2. daemon = "initial" /\ Whole(e.todo)
    BY <2>1 DEF FeedInv, SnapInv, Holds
  <2>3. \A s \in Server : Covered(s) <=> s \notin Ports(e.todo)
    BY <2>1, <2>2 DEF Covered, Collected, Holds
  <2>4. \A s \in Server \ Ports(e.todo), a \in Address :
          s \in B /\ (<<s, a>> \in miss \/ (<<s, a>> \in told <=> a \in Keys(T[s])))
    BY <2>3 DEF Right
  <2>5. \A r \in told : r[1] \notin Ports(e.todo)
    BY <2>3 DEF FeedInv, NotYet, TypeOK, Rule
  <2> QED BY <1>0, <1>2, <2>1, <2>2, <2>4, <2>5, CollectKeeps
<1> QED BY <1>1, <1>2

LEMMA WireStepsQuiet ==
  ASSUME TypeOK, FeedInv,
         \/ PassReply \/ HandlePassAdded \/ HandlePassRemoved \/ Prune \/ Linked \/ LookUp
  PROVE  FeedInv'
<1> DEFINE e == Head(wire)
<1>1. /\ wire # <<>> /\ wire \in Seq(Entry) /\ e \in Entry
      /\ Rest = Tail(wire) /\ Rest \in Seq(Entry) /\ Single(wire)
  BY HeadEntry DEF PassReply, P!Own, P!Mismatch, P!Disown, P!Read, HandlePassAdded,
                   HandlePassRemoved, Prune, Linked, LookUp, P!Resumes, Rest, TypeOK, FeedInv, SnapInv
<1>2. UNCHANGED <<daemon, told, missed, built, table>>
  BY DEF PassReply, HandlePassAdded, HandlePassRemoved, Prune, Linked, LookUp, own, rules, feed, history
<1>3. ASSUME NEW x \in Entry, x.op # "snapshot", e.op # "snapshot",
             wire' = Rest \/ wire' = Append(Rest, x)
      PROVE  Quiet
  <2>1. Single(Rest) /\ \A todo : Holds(Rest, todo) <=> Holds(wire, todo)
    BY <1>1, <1>3, DropSnaps
  <2>2. CASE wire' = Rest
    BY <2>1, <2>2 DEF Quiet
  <2>3. CASE wire' = Append(Rest, x)
    BY <1>1, <1>3, <2>1, <2>3, AppendSnaps DEF Quiet
  <2> QED BY <1>3, <2>2, <2>3
<1>4. CASE PassReply
  <2>1. /\ e.at \in {"own", "read"}
        /\ \/ wire' = Rest
           \/ \E at \in {"read", "tell"}, seen \in SUBSET Server :
                wire' = Append(Rest, [e EXCEPT !.at = at, !.seen = seen])
    BY <1>1, <1>4 DEF PassReply, P!Own, P!Mismatch, P!Disown, P!Read, P!Resumes, P!Reissue, P!End, P!PassesOf
  <2>2. e \in P!Call
    BY <1>1, <2>1, EntryKinds
  <2>3. \A at \in {"read", "tell"}, seen \in SUBSET Server :
          /\ [e EXCEPT !.at = at, !.seen = seen] \in Entry
          /\ [e EXCEPT !.at = at, !.seen = seen].op # "snapshot"
    BY <2>2 DEF P!Call, Entry
  <2>4. e \in Entry /\ e.op # "snapshot"
    BY <1>1, <2>2 DEF P!Call
  <2>5. Quiet
    BY <1>3, <2>1, <2>3, <2>4
  <2> QED BY <1>2, <2>5, QuietKeeps
<1>5. CASE HandlePassAdded \/ HandlePassRemoved
  <2>1. e.at = "tell"
    BY <1>5 DEF HandlePassAdded, HandlePassRemoved, P!Resumes
  <2>2. e \in P!Call /\ e.pass[1] \in Server /\ e.pass[2] \in Player
    BY <1>1, <2>1, EntryKinds DEF P!Call, P!Pass
  <2>3. PICK op \in {"allow", "revoke"} :
          wire' = Append(Rest, PassHandler(op, e.pass[1], e.pass[2]))
    BY <1>5 DEF HandlePassAdded, HandlePassRemoved
  <2>4. PassHandler(op, e.pass[1], e.pass[2]) \in Job /\ PassHandler(op, e.pass[1], e.pass[2]).op = op
    BY <2>2, HandlersType
  <2>5. e.op # "snapshot"
    BY <2>2 DEF P!Call
  <2>6. PassHandler(op, e.pass[1], e.pass[2]) \in Entry
        /\ PassHandler(op, e.pass[1], e.pass[2]).op # "snapshot"
    BY <2>4 DEF Entry
  <2>7. Quiet
    BY <1>3, <2>3, <2>5, <2>6
  <2> QED BY <1>2, <2>7, QuietKeeps
<1>6. CASE Prune
  <2>1. e \in LinkCall
    BY <1>1, <1>6, EntryKinds DEF Prune, P!Resumes
  <2>2. /\ e.op # "snapshot" /\ [e EXCEPT !.at = "pruned"] \in Entry
        /\ [e EXCEPT !.at = "pruned"].op # "snapshot"
    BY <2>1 DEF LinkCall, Entry
  <2>3. wire' = Append(Rest, [e EXCEPT !.at = "pruned"])
    BY <1>6 DEF Prune
  <2>4. Quiet
    BY <1>3, <2>2, <2>3
  <2> QED BY <1>2, <2>4, QuietKeeps
<1>7. CASE Linked
  <2>1. e \in LinkCall
    BY <1>1, <1>7, EntryKinds DEF Linked, P!Resumes
  <2>2. e.op # "snapshot" /\ e.who \in Player /\ e.addr \in Address
    BY <2>1 DEF LinkCall
  <2>3. /\ IpHandler("allow", e.who, e.addr) \in Entry
        /\ IpHandler("allow", e.who, e.addr).op # "snapshot"
    BY <2>2, HandlersType DEF Entry
  <2>4. wire' = Rest \/ wire' = Append(Rest, IpHandler("allow", e.who, e.addr))
    BY <1>7 DEF Linked
  <2>5. Quiet
    BY <1>3, <2>2, <2>3, <2>4
  <2> QED BY <1>2, <2>5, QuietKeeps
<1>8. CASE LookUp
  <2>1. e \in Job
    BY <1>1, <1>8, EntryKinds DEF LookUp, P!Resumes
  <2>2. PICK c \in e.left :
          wire' = Append(Rest, [e EXCEPT !.left = @ \ {c},
                                         !.found = @ \cup ({c} \X AddressesOf(c, fresh))])
    BY <1>8 DEF LookUp
  <2> DEFINE x == [e EXCEPT !.left = @ \ {c}, !.found = @ \cup ({c} \X AddressesOf(c, fresh))]
  <2>3. {c} \X AddressesOf(c, fresh) \in SUBSET Link
    BY <2>1 DEF Job, AddressesOf, Link
  <2>4. x \in Entry /\ x.op = e.op /\ x.todo = e.todo
    BY <2>1, <2>3 DEF Job, Entry
  <2> HIDE DEF x
  <2>5. wire' = Append(Rest, x)
    BY <2>2 DEF x
  <2>6. CASE e.op # "snapshot"
    <3>1. Quiet
      BY <1>3, <2>4, <2>5, <2>6
    <3> QED BY <1>2, <3>1, QuietKeeps
  <2>7. CASE e.op = "snapshot"
    <3>1. /\ NoSnapshot(Rest) /\ Holds(wire, e.todo)
          /\ \A i \in DOMAIN wire : wire[i].op = "snapshot" => wire[i] = e
      BY <1>1, <2>7, DropSnaps
    <3>2. /\ Single(wire') /\ Holds(wire', x.todo)
          /\ \A i \in DOMAIN wire' : wire'[i].op = "snapshot" => wire'[i] = x
      BY <1>1, <2>4, <2>5, <2>7, <3>1, AppendSnaps
    <3>3. \A todo : Holds(wire, todo) <=> todo = e.todo
      BY <3>1 DEF Holds
    <3>4. \A todo : Holds(wire', todo) <=> todo = e.todo
      BY <2>4, <3>2 DEF Holds
    <3>5. Quiet
      BY <3>2, <3>3, <3>4 DEF Quiet
    <3> QED BY <1>2, <3>5, QuietKeeps
  <2> QED BY <2>6, <2>7
<1> QED BY <1>4, <1>5, <1>6, <1>7, <1>8

LEMMA ZaddQuiet ==
  ASSUME TypeOK, FeedInv, Zadd
  PROVE  FeedInv'
<1> DEFINE e == Head(wire)
<1>1. wire # <<>> /\ e.at = "pruned" /\ UNCHANGED <<daemon, told, missed, built, table>>
  BY DEF Zadd, P!Resumes, rules, feed
<1>2. /\ wire \in Seq(Entry) /\ e \in LinkCall /\ e.who \in Player /\ e.addr \in Address
      /\ e.old \in SUBSET Address /\ e.op # "snapshot"
      /\ Rest = Tail(wire) /\ Rest \in Seq(Entry) /\ Single(wire)
  BY <1>1, HeadEntry, EntryKinds DEF LinkCall, Rest, TypeOK, FeedInv, SnapInv
<1>3. PICK q \in Orders(e.old) :
        LET ip == IF q = <<>> THEN e.addr ELSE q[Len(q)]
            Revoke(i) == IpHandler("revoke", e.who, q[i])
        IN  wire' = Rest \o [i \in DOMAIN q |-> Revoke(i)] \o
              <<[e EXCEPT !.at = "linked", !.addr = ip,
                          !.added = <<e.who, ip>> \notin fresh \cup expired]>>
  BY DEF Zadd
<1> DEFINE ip == IF q = <<>> THEN e.addr ELSE q[Len(q)]
           f == [i \in DOMAIN q |-> IpHandler("revoke", e.who, q[i])]
           l == [e EXCEPT !.at = "linked", !.addr = ip,
                          !.added = <<e.who, ip>> \notin fresh \cup expired]
<1>4. q \in Seq(Address) /\ ip \in Address
  BY <1>2, OrderType
<1>5. l \in Entry /\ l.op # "snapshot"
  BY <1>2, <1>4 DEF LinkCall, Entry
<1>6. f \in Seq(Entry) /\ NoSnapshot(f)
  <2>1. Len(q) \in Nat /\ DOMAIN q = 1 .. Len(q) /\ \A i \in DOMAIN q : q[i] \in Address
    BY <1>4, LenProperties, ElementOfSeq
  <2>2. \A i \in DOMAIN q : IpHandler("revoke", e.who, q[i]) \in Entry
                            /\ IpHandler("revoke", e.who, q[i]).op = "revoke"
    BY <1>2, <2>1, HandlersType DEF Entry
  <2>3. f \in [1 .. Len(q) -> Entry]
    BY <2>1, <2>2
  <2>4. NoSnapshot(f)
    BY <2>2 DEF NoSnapshot
  <2> QED BY <2>1, <2>3, <2>4, IsASeq
<1>7. wire' = (Rest \o f) \o <<l>>
  BY <1>3
<1> HIDE DEF f, l, ip
<1>8. Single(Rest) /\ \A todo : Holds(Rest, todo) <=> Holds(wire, todo)
  BY <1>1, <1>2, DropSnaps
<1>9. Rest \o f \in Seq(Entry) /\ Single(Rest \o f) /\ \A todo : Holds(Rest \o f, todo) <=> Holds(wire, todo)
  BY <1>2, <1>6, <1>8, JoinSnaps
<1>10. <<l>> \in Seq(Entry) /\ NoSnapshot(<<l>>)
  <2>1. \A i \in DOMAIN <<l>> : <<l>>[i] = l
    OBVIOUS
  <2> QED BY <1>5, <2>1 DEF NoSnapshot
<1>11. Quiet
  BY <1>7, <1>9, <1>10, JoinSnaps DEF Quiet
<1> QED BY <1>1, <1>11, QuietKeeps

LEMMA CallsQuiet ==
  ASSUME TypeOK, FeedInv,
         \/ \E p \in Offered : ChangePass(p)
         \/ \E c \in Player, a \in Address : LinkIp(c, a) \/ Expire(c, a)
         \/ UNCHANGED vars
  PROVE  FeedInv'
<1>1. UNCHANGED <<daemon, told, missed, built, table>>
  BY DEF ChangePass, LinkIp, Expire, vars, own, rules, feed, history
<1>2. wire \in Seq(Entry) /\ Single(wire)
  BY DEF TypeOK, FeedInv, SnapInv
<1>3. wire' = wire \/ \E x \in Entry : x.op # "snapshot" /\ wire' = Append(wire, x)
  <2>1. ASSUME NEW p \in Offered, ChangePass(p)
        PROVE  \E x \in Entry : x.op # "snapshot" /\ wire' = Append(wire, x)
    <3>1. p \in P!Pass
      BY SourceAssumption DEF P!Pass
    <3>2. \E op \in {"add", "remove"} :
            wire' = Append(wire, [op |-> op, at |-> "own", pass |-> p, seen |-> {}])
      BY <2>1 DEF ChangePass, P!AddPassForCkey, P!RemoveCKeyPass, P!Start
    <3>3. \A op \in {"add", "remove"} :
            /\ [op |-> op, at |-> "own", pass |-> p, seen |-> {}] \in Entry
            /\ [op |-> op, at |-> "own", pass |-> p, seen |-> {}].op # "snapshot"
      BY <3>1 DEF Entry, P!Call
    <3> QED BY <3>2, <3>3
  <2>2. ASSUME NEW c \in Player, NEW a \in Address, LinkIp(c, a)
        PROVE  \E x \in Entry : x.op # "snapshot" /\ wire' = Append(wire, x)
    <3> DEFINE l == [op |-> "link", at |-> "prune", who |-> c, addr |-> a,
                     old |-> AddressesOf(c, expired), added |-> FALSE]
    <3>1. l \in Entry /\ l.op # "snapshot"
      BY DEF Entry, LinkCall, AddressesOf
    <3>2. wire' = Append(wire, l)
      BY <2>2 DEF LinkIp
    <3> QED BY <3>1, <3>2
  <2>3. ASSUME NEW c \in Player, NEW a \in Address, Expire(c, a)  PROVE wire' = wire
    BY <2>3 DEF Expire
  <2> QED BY <2>1, <2>2, <2>3 DEF vars
<1>4. Quiet
  <2>1. CASE wire' = wire
    BY <1>2, <2>1 DEF Quiet
  <2>2. ASSUME NEW x \in Entry, x.op # "snapshot", wire' = Append(wire, x)  PROVE Quiet
    BY <1>2, <2>2, AppendSnaps DEF Quiet
  <2> QED BY <1>3, <2>1, <2>2
<1> QED BY <1>1, <1>4, QuietKeeps

LEMMA RulesKeep ==
  ASSUME TypeOK, FeedInv, Handle \/ StoreTable
  PROVE  FeedInv'
<1> DEFINE e == Head(wire)
<1>1. CASE Handle
  <2>1. wire # <<>> /\ e.at = "sources" /\ Deal(e, table, built, missed, Rest)
    BY <1>1 DEF Handle, P!Resumes
  <2>2. e \in Job
    BY <2>1, HeadEntry, EntryKinds
  <2>3. Right(table, built, missed) /\ table \in [Server -> SUBSET Link]
    BY DEF Right, FeedInv, Agree, TypeOK
  <2> QED BY <2>1, <2>2, <2>3, DealKeeps
<1>2. CASE StoreTable
  <2> DEFINE s == e.port
             K == Keys(e.found)
             changed == IF s \in built THEN (K \ Keys(table[s])) \cup (Keys(table[s]) \ K) ELSE {}
             unheard == IF daemon = "live" \/ s \in Collected THEN {s} \X changed ELSE {}
             T == [table EXCEPT ![s] = e.found]
  <2>1. /\ wire # <<>> /\ e.at = "build"
        /\ Deal(e, T, built \cup {s}, missed \cup unheard, Rest)
    BY <1>2 DEF StoreTable, P!Resumes
  <2>2. e \in Job /\ s \in Server /\ e.found \in SUBSET Link
    BY <2>1, HeadEntry, EntryKinds DEF Job
  <2>3. T \in [Server -> SUBSET Link] /\ T[s] = e.found /\ \A r \in Server \ {s} : T[r] = table[r]
    BY <2>2 DEF TypeOK
  <2>4. Right(T, built \cup {s}, missed \cup unheard)
    <3>1. ASSUME NEW r \in Server, NEW a \in Address, Covered(r)
          PROVE  /\ r \in built \cup {s}
                 /\ <<r, a>> \in missed \cup unheard \/ (<<r, a>> \in told <=> a \in Keys(T[r]))
      <4>1. r \in built /\ (<<r, a>> \in missed \/ (<<r, a>> \in told <=> a \in Keys(table[r])))
        BY <3>1 DEF FeedInv, Agree
      <4>2. CASE r # s
        <5>1. T[r] = table[r]
          BY <2>3, <4>2
        <5> QED BY <4>1, <5>1
      <4>3. CASE r = s
        <5>1. daemon = "live" \/ s \in Collected
          BY <3>1, <4>3 DEF Covered
        <5>2. changed = (K \ Keys(table[s])) \cup (Keys(table[s]) \ K)
          BY <4>1, <4>3
        <5>3. unheard = {s} \X changed
          BY <5>1
        <5>4. Keys(T[s]) = K
          BY <2>3
        <5> HIDE DEF K, changed, unheard, T, s
        <5>5. a \in changed => <<s, a>> \in unheard
          BY <5>3
        <5>6. a \notin changed => (a \in K <=> a \in Keys(table[s]))
          BY <5>2
        <5> QED BY <4>1, <4>3, <5>4, <5>5, <5>6
      <4> QED BY <4>2, <4>3
    <3> HIDE DEF T, unheard, s
    <3> QED BY <3>1 DEF Right
  <2> HIDE DEF T, unheard, s
  <2> QED BY <2>1, <2>2, <2>3, <2>4, DealKeeps
<1> QED BY <1>1, <1>2

LEMMA StreamKeeps ==
  ASSUME TypeOK, FeedInv, HandleEvent \/ Leave \/ Restart
  PROVE  FeedInv'
<1>1. CASE HandleEvent
  <2> DEFINE e == Handler("snapshot", CHOOSE c \in Player : TRUE, Rule)
  <2>1. e \in Job /\ e.op = "snapshot" /\ e.todo = Rule
    BY SourceAssumption, HandlerType
  <2> HIDE DEF e
  <2>2. daemon = "away" /\ Deal(e, table, built, {}, wire)
    BY <1>1 DEF HandleEvent, e
  <2>3. wire \in Seq(Entry) /\ NoSnapshot(wire)
    BY <2>2 DEF TypeOK, FeedInv, SnapInv, NoSnapshot
  <2>4. Whole(Rule)
    BY DEF Whole
  <2>5. told = {}
    BY <2>2 DEF FeedInv, NotYet, Covered
  <2>6. \A s \in Server, a \in Address : s \in Ports(Rule)
    BY DEF Ports, Rule
  <2> QED BY <2>1, <2>2, <2>3, <2>4, <2>5, <2>6, CollectKeeps DEF TypeOK
<1>2. CASE Leave
  <2>1. daemon = "live" /\ daemon' = "away" /\ told' = {} /\ wire' = wire
    BY <1>2 DEF Leave
  <2>2. NoSnapshot(wire)
    BY <2>1 DEF FeedInv, SnapInv, NoSnapshot
  <2> QED BY <2>1, <2>2 DEF FeedInv, SnapInv, NoSnapshot, Single, Agree, NotYet, Covered
<1>3. CASE Restart
  <2>1. daemon' = "away" /\ told' = {} /\ wire' = <<>>
    BY <1>3 DEF Restart, P!Restart
  <2> QED BY <2>1 DEF FeedInv, SnapInv, Single, Agree, NotYet, Covered
<1> QED BY <1>1, <1>2, <1>3

LEMMA NextKeepsFeed ==
  ASSUME TypeOK, FeedInv, [Next]_vars
  PROVE  FeedInv'
BY WireStepsQuiet, ZaddQuiet, CallsQuiet, RulesKeep, StreamKeeps DEF Next

LEMMA FeedInvHolds == Spec => [](TypeOK /\ FeedInv)
<1>1. Init => FeedInv
  BY DEF Init, FeedInv, SnapInv, Single, Agree, NotYet, Covered
<1>2. TypeOK /\ FeedInv /\ [Next]_vars => FeedInv'
  BY NextKeepsFeed
<1> QED BY <1>1, <1>2, TypeCorrect, PTL DEF Spec

\* A daemon that is subscribed accepts exactly the addresses in the tables, except
\* for the changes it was not told of: however handlers, table builders and its
\* snapshot interleave, a change of a port the snapshot has collected is either
\* told or counted as missed, and one of a port it has not collected is collected.
THEOREM FirewallAgrees == Spec => []DaemonAgrees
<1>1. TypeOK /\ FeedInv => DaemonAgrees
  BY DEF FeedInv, Agree, Covered, DaemonAgrees, TypeOK
<1> QED BY <1>1, FeedInvHolds, PTL
-----------------------------------------------------------------------------
(***************************************************************************)
(* From here on: that the tables agree with Redis (TablesAgree).           *)
(*                                                                         *)
(* The wire as the proofs see it.  A step takes its head, or nothing, and  *)
(* puts entries behind it (Moved); Keeps and KeepsOrder say what that does *)
(* to what is on the wire and to who stands behind whom.                   *)
(***************************************************************************)
(***************************************************************************)
(* What stands on the wire: some entry of K; behind each of K one of M;    *)
(* ahead of each of K one of M; behind one of K none of M.                 *)
(***************************************************************************)
On(w) == {w[i] : i \in DOMAIN w}
Has(w, K) == \E x \in On(w) : x \in K
Followed(w, K, M) == \A i \in DOMAIN w : w[i] \in K => \E j \in DOMAIN w : i < j /\ w[j] \in M
Preceded(w, K, M) == \A i \in DOMAIN w : w[i] \in K => \E j \in DOMAIN w : j < i /\ w[j] \in M
NoneBehind(w, K, M) == \A i, j \in DOMAIN w : i < j /\ w[i] \in K => w[j] \notin M

\* a step takes the entries E (the head, or none) from w and puts X behind it
Moved(w, v, E, X) ==
  \E f \in Seq(Entry) :
    /\ X = On(f)
    /\ \/ E = {} /\ v = w \o f
       \/ w # <<>> /\ E = {Head(w)} /\ v = Tail(w) \o f

LEMMA MovedIndices ==
  ASSUME NEW w \in Seq(Entry), NEW v, NEW E, NEW X, Moved(w, v, E, X)
  PROVE  \E d \in {0, 1}, n \in Nat, f \in Seq(Entry) :
           /\ X = On(f) /\ DOMAIN w = 1 .. n + d /\ DOMAIN v = 1 .. n + Len(f)
           /\ DOMAIN f = 1 .. Len(f) /\ Len(f) \in Nat
           /\ \A i \in 1 .. n : v[i] = w[i + d]
           /\ \A i \in 1 .. Len(f) : v[n + i] = f[i]
           /\ (d = 0 /\ E = {}) \/ (d = 1 /\ E = {w[1]})
<1>1. PICK f \in Seq(Entry) :
        /\ X = On(f)
        /\ \/ E = {} /\ v = w \o f
           \/ w # <<>> /\ E = {Head(w)} /\ v = Tail(w) \o f
  BY DEF Moved
<1>2. Len(f) \in Nat /\ DOMAIN f = 1 .. Len(f) /\ Len(w) \in Nat /\ DOMAIN w = 1 .. Len(w)
  BY LenProperties
<1>3. CASE E = {} /\ v = w \o f
  <2>1. /\ Len(v) = Len(w) + Len(f) /\ v \in Seq(Entry)
        /\ \A i \in 1 .. Len(w) + Len(f) : v[i] = IF i <= Len(w) THEN w[i] ELSE f[i - Len(w)]
    BY <1>3, ConcatProperties
  <2>2. DOMAIN v = 1 .. Len(w) + Len(f)
    BY <2>1, LenProperties
  <2>3. \A i \in 1 .. Len(w) : v[i] = w[i + 0]
    BY <1>2, <2>1
  <2>4. \A i \in 1 .. Len(f) : v[Len(w) + i] = f[i]
    BY <1>2, <2>1
  <2>5. E = {}
    BY <1>3
  <2>6. DOMAIN w = 1 .. Len(w) + 0
    BY <1>2
  <2> WITNESS 0 \in {0, 1}, Len(w) \in Nat, f \in Seq(Entry)
  <2> QED BY <1>1, <1>2, <2>2, <2>3, <2>4, <2>5, <2>6
<1>4. CASE w # <<>> /\ E = {Head(w)} /\ v = Tail(w) \o f
  <2> DEFINE u == Tail(w)
             n == Len(u)
  <2>1. /\ u \in Seq(Entry) /\ n \in Nat /\ Len(w) = n + 1 /\ Head(w) = w[1]
        /\ \A i \in 1 .. n : u[i] = w[i + 1]
    BY <1>2, <1>4, HeadTailProperties, LenProperties, EmptySeq
  <2>2. v = u \o f
    BY <1>4
  <2> HIDE DEF u
  <2>3. /\ Len(v) = n + Len(f) /\ v \in Seq(Entry)
        /\ \A i \in 1 .. n + Len(f) : v[i] = IF i <= n THEN u[i] ELSE f[i - n]
    BY <2>1, <2>2, ConcatProperties
  <2>4. DOMAIN v = 1 .. n + Len(f) /\ DOMAIN w = 1 .. n + 1
    BY <1>2, <2>1, <2>3, LenProperties
  <2>5. \A i \in 1 .. n : v[i] = w[i + 1]
    BY <1>2, <2>1, <2>3
  <2>6. \A i \in 1 .. Len(f) : v[n + i] = f[i]
    BY <1>2, <2>1, <2>3
  <2>7. E = {w[1]}
    BY <1>4, <2>1
  <2>8. n \in Nat
    BY <2>1
  <2> HIDE DEF n
  <2> USE <2>8
  <2> WITNESS 1 \in {0, 1}, n \in Nat, f \in Seq(Entry)
  <2> QED BY <1>1, <1>2, <2>4, <2>5, <2>6, <2>7
<1> QED BY <1>1, <1>3, <1>4

LEMMA MovedHas ==
  ASSUME NEW w \in Seq(Entry), NEW v, NEW E, NEW X, Moved(w, v, E, X)
  PROVE  /\ On(v) \subseteq On(w) \cup X /\ X \subseteq On(v) /\ On(w) \subseteq On(v) \cup E
         /\ E \subseteq On(w)
         /\ \A K : Has(v, K) => Has(w, K) \/ \E x \in X : x \in K
         /\ \A K : Has(w, K) => Has(v, K) \/ \E x \in E : x \in K
         /\ \A K : (\E x \in X : x \in K) => Has(v, K)
         /\ \A K : (\E x \in E : x \in K) => Has(w, K)
<1>1. PICK d \in {0, 1}, n \in Nat, f \in Seq(Entry) :
           /\ X = On(f) /\ DOMAIN w = 1 .. n + d /\ DOMAIN v = 1 .. n + Len(f)
           /\ DOMAIN f = 1 .. Len(f) /\ Len(f) \in Nat
           /\ \A i \in 1 .. n : v[i] = w[i + d]
           /\ \A i \in 1 .. Len(f) : v[n + i] = f[i]
           /\ (d = 0 /\ E = {}) \/ (d = 1 /\ E = {w[1]})
  BY MovedIndices
<1>2. On(v) \subseteq On(w) \cup X
  <2>1. ASSUME NEW k \in DOMAIN v  PROVE v[k] \in On(w) \cup X
    <3>1. CASE k <= n
      <4>1. DOMAIN v = 1 .. n + Len(f) /\ DOMAIN w = 1 .. n + d /\ Len(f) \in Nat
        BY <1>1
      <4>2. k \in 1 .. n + Len(f)
        BY <2>1, <4>1
      <4>3. k \in 1 .. n
        BY <3>1, <4>1, <4>2
      <4>4. k + d \in 1 .. n + d
        BY <4>3
      <4> QED BY <1>1, <4>1, <4>3, <4>4 DEF On
    <3>2. CASE ~ (k <= n)
      <4>1. k - n \in 1 .. Len(f) /\ n + (k - n) = k
        <5>1. DOMAIN v = 1 .. n + Len(f) /\ Len(f) \in Nat
          BY <1>1
        <5>2. k \in 1 .. n + Len(f)
          BY <2>1, <5>1
        <5> QED BY <3>2, <5>1, <5>2
      <4>2. v[k] = f[k - n]
        BY <1>1, <4>1
      <4> QED BY <1>1, <4>1, <4>2 DEF On
    <3> QED BY <3>1, <3>2
  <2> QED BY <2>1 DEF On
<1>3. X \subseteq On(v)
  <2>1. ASSUME NEW k \in 1 .. Len(f)  PROVE f[k] \in On(v)
    <3>1. n + k \in DOMAIN v /\ v[n + k] = f[k]
      BY <1>1
    <3> QED BY <3>1 DEF On
  <2> QED BY <1>1, <2>1 DEF On
<1>4. On(w) \subseteq On(v) \cup E
  <2>1. ASSUME NEW i \in 1 .. n + d  PROVE w[i] \in On(v) \cup E
    <3>1. CASE i > d
      <4>1. i - d \in 1 .. n /\ (i - d) + d = i /\ i - d \in DOMAIN v
        BY <1>1, <3>1
      <4>2. v[i - d] = w[i]
        BY <1>1, <4>1
      <4> QED BY <4>1, <4>2 DEF On
    <3>2. CASE ~ (i > d)
      <4>1. d = 1 /\ i = 1
        BY <1>1, <3>2
      <4> QED BY <1>1, <4>1
    <3> QED BY <3>1, <3>2
  <2> QED BY <1>1, <2>1 DEF On
<1>5. E \subseteq On(w)
  <2>1. CASE d = 1
    <3>1. 1 \in DOMAIN w
      BY <1>1, <2>1
    <3> QED BY <1>1, <2>1, <3>1 DEF On
  <2> QED BY <1>1, <2>1
<1> QED BY <1>2, <1>3, <1>4, <1>5 DEF Has

LEMMA MovedOrder ==
  ASSUME NEW w \in Seq(Entry), NEW v, NEW E, NEW X, Moved(w, v, E, X), NEW K, NEW M
  PROVE  /\ Followed(w, K, M) /\ (\A x \in X : x \notin K) => Followed(v, K, M)
         /\ Followed(w, K, M) /\ (\E x \in E : x \in K) => Has(v, M)
         /\ NoneBehind(w, K, M) /\ ((\A x \in X : x \notin M) \/ ~ Has(v, K)) => NoneBehind(v, K, M)
         /\ NoneBehind(w, K, M) /\ (\E x \in E : x \in K) /\ (\A x \in X : x \notin M) => ~ Has(v, M)
         /\ Preceded(w, K, M) => \A x \in E : x \notin K
         /\ Preceded(w, K, M) /\ (\A x \in E : x \notin M) /\ (\A x \in X : x \notin K) => Preceded(v, K, M)
         /\ Preceded(w, K, M) /\ (\A x \in E : x \notin M) /\ (\A x \in X : x \notin M) /\ Has(v, M)
              => Preceded(v, K, M)
<1>1. PICK d \in {0, 1}, n \in Nat, f \in Seq(Entry) :
           /\ X = On(f) /\ DOMAIN w = 1 .. n + d /\ DOMAIN v = 1 .. n + Len(f)
           /\ DOMAIN f = 1 .. Len(f) /\ Len(f) \in Nat
           /\ \A i \in 1 .. n : v[i] = w[i + d]
           /\ \A i \in 1 .. Len(f) : v[n + i] = f[i]
           /\ (d = 0 /\ E = {}) \/ (d = 1 /\ E = {w[1]})
  BY MovedIndices
\* an entry that stays, and one that is new
<1>2. ASSUME NEW k \in DOMAIN v, k <= n
      PROVE  k + d \in DOMAIN w /\ v[k] = w[k + d]
  <2>1. k \in 1 .. n
    BY <1>1, <1>2
  <2>2. k + d \in 1 .. n + d
    BY <2>1
  <2> QED BY <1>1, <2>1, <2>2
<1>3. ASSUME NEW k \in DOMAIN v, ~ (k <= n)
      PROVE  v[k] \in X
  <2>1. k - n \in 1 .. Len(f) /\ n + (k - n) = k
    BY <1>1, <1>3
  <2>2. v[k] = f[k - n]
    BY <1>1, <2>1
  <2> QED BY <1>1, <2>1, <2>2 DEF On
<1>4. ASSUME NEW i \in DOMAIN w, i > d
      PROVE  i - d \in DOMAIN v /\ i - d \in 1 .. n /\ v[i - d] = w[i]
  <2>1. i - d \in 1 .. n /\ (i - d) + d = i
    BY <1>1, <1>4
  <2> QED BY <1>1, <2>1
<1>5. \A i \in DOMAIN w : i \in Nat /\ i > 0
  BY <1>1
<1>6. \A k \in DOMAIN v : k \in Nat /\ k > 0
  BY <1>1
<1>7. ASSUME Followed(w, K, M), NEW i \in DOMAIN w, w[i] \in K
      PROVE  \E j \in DOMAIN v : v[j] \in M /\ i - d < j
  <2>1. PICK j \in DOMAIN w : i < j /\ w[j] \in M
    BY <1>7 DEF Followed
  <2>2. j > d
    BY <1>1, <1>5, <2>1
  <2>3. j - d \in DOMAIN v /\ v[j - d] = w[j] /\ i - d < j - d
    BY <1>1, <1>4, <1>5, <2>1, <2>2
  <2> QED BY <2>1, <2>3
<1>8. ASSUME Followed(w, K, M), \A x \in X : x \notin K
      PROVE  Followed(v, K, M)
  <2>1. ASSUME NEW k \in DOMAIN v, v[k] \in K
        PROVE  \E j \in DOMAIN v : k < j /\ v[j] \in M
    <3>1. k <= n
      BY <1>3, <1>8, <2>1
    <3>2. k + d \in DOMAIN w /\ w[k + d] \in K /\ (k + d) - d = k
      BY <1>1, <1>2, <1>6, <2>1, <3>1
    <3> QED BY <1>7, <1>8, <3>2
  <2> QED BY <2>1 DEF Followed
<1>9. ASSUME Followed(w, K, M), \E x \in E : x \in K
      PROVE  Has(v, M)
  <2>1. 1 \in DOMAIN w /\ w[1] \in K
    BY <1>1, <1>9
  <2> QED BY <1>7, <1>9, <2>1 DEF Has, On
<1>10. ASSUME NoneBehind(w, K, M), (\A x \in X : x \notin M) \/ ~ Has(v, K)
       PROVE  NoneBehind(v, K, M)
  <2>1. ASSUME NEW i \in DOMAIN v, NEW j \in DOMAIN v, i < j, v[i] \in K, v[j] \in M
        PROVE  FALSE
    <3>1. \A x \in X : x \notin M
      BY <1>10, <2>1 DEF Has, On
    <3>2. j <= n /\ i <= n
      BY <1>1, <1>3, <1>6, <2>1, <3>1
    <3>3. /\ i + d \in DOMAIN w /\ j + d \in DOMAIN w /\ i + d < j + d
          /\ w[i + d] \in K /\ w[j + d] \in M
      BY <1>1, <1>2, <1>6, <2>1, <3>2
    <3> QED BY <1>10, <3>3 DEF NoneBehind
  <2> QED BY <2>1 DEF NoneBehind
<1>11. ASSUME NoneBehind(w, K, M), \E x \in E : x \in K, \A x \in X : x \notin M
       PROVE  ~ Has(v, M)
  <2>1. d = 1 /\ 1 \in DOMAIN w /\ w[1] \in K
    BY <1>1, <1>11
  <2>2. ASSUME NEW k \in DOMAIN v, v[k] \in M  PROVE FALSE
    <3>1. k <= n
      BY <1>3, <1>11, <2>2
    <3>2. k + 1 \in DOMAIN w /\ w[k + 1] \in M /\ 1 < k + 1
      BY <1>2, <1>6, <2>1, <2>2, <3>1
    <3> QED BY <1>11, <2>1, <3>2 DEF NoneBehind
  <2> QED BY <2>2 DEF Has, On
<1>12. ASSUME Preceded(w, K, M), NEW x \in E, x \in K
       PROVE  FALSE
  <2>1. 1 \in DOMAIN w /\ w[1] \in K
    BY <1>1, <1>12
  <2> QED BY <1>5, <1>12, <2>1 DEF Preceded
<1>13. ASSUME Preceded(w, K, M), \A x \in E : x \notin M, NEW k \in DOMAIN v, v[k] \in K, k <= n
       PROVE  \E j \in DOMAIN v : j < k /\ v[j] \in M
  <2>1. k + d \in DOMAIN w /\ w[k + d] \in K
    BY <1>2, <1>13
  <2>2. PICK j \in DOMAIN w : j < k + d /\ w[j] \in M
    BY <1>13, <2>1 DEF Preceded
  <2>3. j > d
    BY <1>1, <1>5, <1>13, <2>2
  <2>4. j - d \in DOMAIN v /\ v[j - d] = w[j] /\ j - d < k
    BY <1>1, <1>4, <1>5, <1>6, <2>2, <2>3
  <2> QED BY <2>2, <2>4
<1>14. ASSUME Preceded(w, K, M), \A x \in E : x \notin M, \A x \in X : x \notin K
       PROVE  Preceded(v, K, M)
  BY <1>3, <1>13, <1>14 DEF Preceded
<1>15. ASSUME Preceded(w, K, M), \A x \in E : x \notin M, \A x \in X : x \notin M, Has(v, M)
       PROVE  Preceded(v, K, M)
  <2>1. PICK j \in DOMAIN v : v[j] \in M
    BY <1>15 DEF Has, On
  <2>2. j <= n
    BY <1>3, <1>15, <2>1
  <2>3. ASSUME NEW k \in DOMAIN v, v[k] \in K, ~ (k <= n)
        PROVE  \E i \in DOMAIN v : i < k /\ v[i] \in M
    <3>1. j < k
      BY <1>6, <2>1, <2>2, <2>3
    <3> QED BY <2>1, <3>1
  <2> QED BY <1>13, <1>15, <2>3 DEF Preceded
<1> QED BY <1>8, <1>9, <1>10, <1>11, <1>12, <1>14, <1>15

\* the last entry follows all the others
LEMMA LastFollows ==
  ASSUME NEW w \in Seq(Entry), NEW x \in Entry, NEW K, NEW M, x \in M, x \notin K
  PROVE  Followed(Append(w, x), K, M)
<1>1. /\ Len(w) \in Nat /\ DOMAIN Append(w, x) = 1 .. Len(w) + 1
      /\ Append(w, x)[Len(w) + 1] = x
  BY AppendProperties, LenProperties
<1>2. \A i \in DOMAIN Append(w, x) : Append(w, x)[i] \in K => i < Len(w) + 1
  BY <1>1
<1> QED BY <1>1, <1>2 DEF Followed

LEMMA MovesOne ==
  ASSUME NEW w \in Seq(Entry), NEW x \in Entry
  PROVE  /\ Moved(w, Append(w, x), {}, {x}) /\ Moved(w, w, {}, {})
         /\ w # <<>> => /\ Moved(w, Append(Tail(w), x), {Head(w)}, {x})
                        /\ Moved(w, Tail(w), {Head(w)}, {})
<1>1. \A u \in Seq(Entry) : Append(u, x) = u \o <<x>> /\ u = u \o <<>>
  BY AppendIsConcat, ConcatEmptySeq
<1>2. <<x>> \in Seq(Entry) /\ On(<<x>>) = {x}
  <2>1. DOMAIN <<x>> = {1} /\ <<x>>[1] = x
    OBVIOUS
  <2> QED BY <2>1 DEF On
<1>3. <<>> \in Seq(Entry) /\ On(<<>>) = {}
  BY DEF On
<1>4. w # <<>> => Tail(w) \in Seq(Entry)
  BY HeadTailProperties
<1> QED BY <1>1, <1>2, <1>3, <1>4 DEF Moved

\* what a step does to the sets of entries, and to their order
Keeps(w, v, E, X) ==
  /\ On(v) \subseteq On(w) \cup X /\ X \subseteq On(v) /\ On(w) \subseteq On(v) \cup E
  /\ E \subseteq On(w)
  /\ \A K : /\ Has(v, K) => Has(w, K) \/ \E x \in X : x \in K
            /\ Has(w, K) => Has(v, K) \/ \E x \in E : x \in K
            /\ (\E x \in X : x \in K) => Has(v, K)
            /\ (\E x \in E : x \in K) => Has(w, K)
KeepsOrder(w, v, E, X) ==
  \A K, M :
    /\ Followed(w, K, M) /\ (\A x \in X : x \notin K) => Followed(v, K, M)
    /\ Followed(w, K, M) /\ (\E x \in E : x \in K) => Has(v, M)
    /\ NoneBehind(w, K, M) /\ ((\A x \in X : x \notin M) \/ ~ Has(v, K)) => NoneBehind(v, K, M)
    /\ NoneBehind(w, K, M) /\ (\E x \in E : x \in K) /\ (\A x \in X : x \notin M) => ~ Has(v, M)
    /\ Preceded(w, K, M) => \A x \in E : x \notin K
    /\ Preceded(w, K, M) /\ (\A x \in E : x \notin M) /\ (\A x \in X : x \notin K) => Preceded(v, K, M)
    /\ Preceded(w, K, M) /\ (\A x \in E : x \notin M) /\ (\A x \in X : x \notin M) /\ Has(v, M)
         => Preceded(v, K, M)
-----------------------------------------------------------------------------
(***************************************************************************)
(* Passes.  The call of the last change of a pass comes last at every      *)
(* stage: once it has passed, held and the events agree with it.           *)
(***************************************************************************)
Calls(op, at, p) == {x \in Entry : x.op = op /\ x.at = at /\ x.pass = p}
Links(c, at) == {x \in Entry : x.op = "link" /\ x.at = at /\ x.who = c}
Stale(c, at) == {x \in Links(c, at) : x.old # {}}
Finds(c, at, a) == {x \in Links(c, at) : a \in x.old}
Adds(c, a) == {x \in Links(c, "linked") : x.added /\ x.addr = a}
Jobs(op, at, c, r) == {x \in Entry : x.op = op /\ x.at = at /\ x.who = c /\ r \in x.todo}
Several(op, at, c, r) == {x \in Jobs(op, at, c, r) : Ports(x.todo) # {r[1]}}
Builders(s) == {x \in Entry : x.at = "build" /\ x.port = s}

OwnInv(p) ==
  /\ p \in passes => Followed(wire, Calls("remove", "own", p), Calls("add", "own", p))
  /\ p \notin passes => Followed(wire, Calls("add", "own", p), Calls("remove", "own", p))
  /\ \/ Has(wire, Calls("add", "own", p)) \/ Has(wire, Calls("remove", "own", p))
     \/ p \in passes <=> p \in held

LastSays(p, op, other) ==
  /\ Followed(wire, Calls(other, "read", p), Calls(op, "read", p))
  /\ Has(wire, Calls(op, "read", p)) \/ Followed(wire, Calls(other, "tell", p), Calls(op, "tell", p))
HeldInv(p) == IF p \in held THEN LastSays(p, "add", "remove") ELSE LastSays(p, "remove", "add")

PassInv == \A p \in P!Pass : HeldInv(p) /\ (p \notin cut => OwnInv(p))

LEMMA KindOf ==
  ASSUME NEW x \in Entry
  PROVE  /\ x.op \in {"add", "remove", "link", "allow", "revoke", "snapshot"}
         /\ x.op \in {"add", "remove"} => x \in P!Call /\ x.at \in {"own", "read", "tell"} /\ x.pass \in P!Pass
         /\ x.op = "link" => x \in LinkCall /\ x.at \in {"prune", "pruned", "linked"}
         /\ x.op \in {"allow", "revoke", "snapshot"} => x \in Job /\ x.at \in {"sources", "build"}
         /\ x.at = "build" => x.op \in {"allow", "revoke", "snapshot"}
BY DEF Entry, P!Call, LinkCall, Job

LEMMA CallSets ==
  ASSUME NEW x \in Entry
  PROVE  /\ \A op, at, p : x \in Calls(op, at, p) <=> x.op = op /\ x.at = at /\ x.pass = p
         /\ x.op # "link" => \A c, at : /\ x \notin Links(c, at) /\ x \notin Stale(c, at)
                                        /\ \A a : x \notin Finds(c, at, a) /\ x \notin Adds(c, a)
         /\ x.at # "build" => \A s : x \notin Builders(s)
         /\ \A op, at, c, r : x.op # op => x \notin Jobs(op, at, c, r) /\ x \notin Several(op, at, c, r)
BY DEF Calls, Links, Stale, Finds, Adds, Builders, Jobs, Several

LEMMA StepKeeps ==
  ASSUME NEW w \in Seq(Entry), NEW v, NEW E, NEW X, Moved(w, v, E, X)
  PROVE  Keeps(w, v, E, X) /\ KeepsOrder(w, v, E, X)
<1>1. Keeps(w, v, E, X)
  BY MovedHas DEF Keeps
<1>2. KeepsOrder(w, v, E, X)
  BY MovedOrder DEF KeepsOrder
<1> QED BY <1>1, <1>2

LEMMA ReplyMoves ==
  ASSUME TypeOK, PassReply
  PROVE  LET e == Head(wire) IN
         /\ e \in Entry /\ e.op \in {"add", "remove"} /\ UNCHANGED <<passes, cut, own, events>>
         /\ \/ /\ Moved(wire, wire', {e}, {}) /\ e.op = "add" /\ e.at = "own"
               /\ e.pass \in held /\ held' = held
            \/ \E x \in Entry :
                 /\ Moved(wire, wire', {e}, {x}) /\ wire' = Append(Tail(wire), x)
                 /\ x.op = e.op /\ x.pass = e.pass
                 /\ \/ /\ e.at = "own" /\ x.at = "read"
                       /\ held' = IF e.op = "add" THEN held \cup {e.pass} ELSE held \ {e.pass}
                    \/ e.at = "read" /\ x.at = "tell" /\ held' = held
<1> DEFINE e == Head(wire)
<1>1. wire # <<>> /\ e.at \in {"own", "read"} /\ UNCHANGED <<passes, cut, own, events>>
  BY DEF PassReply, P!Own, P!Mismatch, P!Disown, P!Read, P!Resumes, P!sets, P!ghosts
<1>2. e \in Entry /\ e \in P!Call /\ wire \in Seq(Entry)
  BY <1>1, HeadEntry, EntryKinds DEF TypeOK
<1>3. \A at \in {"read", "tell"}, seen \in SUBSET Server :
        LET x == [e EXCEPT !.at = at, !.seen = seen] IN
        x \in Entry /\ x.op = e.op /\ x.pass = e.pass /\ x.at = at
  BY <1>2 DEF P!Call, Entry
<1>4. CASE P!Mismatch
  BY <1>1, <1>2, <1>4, MovesOne DEF P!Mismatch, P!Resumes, P!End, P!sets
<1>5. CASE P!Own \/ P!Disown \/ P!Read
  <2>1. PICK at \in {"read", "tell"}, seen \in SUBSET Server :
          /\ wire' = Append(Tail(wire), [e EXCEPT !.at = at, !.seen = seen])
          /\ \/ /\ e.at = "own" /\ at = "read"
                /\ held' = IF e.op = "add" THEN held \cup {e.pass} ELSE held \ {e.pass}
             \/ e.at = "read" /\ at = "tell" /\ held' = held
    <3> DEFINE S == P!PassesOf(e.pass[2], held)
    <3>1. S \in SUBSET Server /\ {} \in SUBSET Server
      BY DEF P!PassesOf
    <3>2. CASE P!Own
      BY <3>1, <3>2 DEF P!Own, P!Resumes, P!Reissue
    <3>3. CASE P!Disown
      BY <3>1, <3>3 DEF P!Disown, P!Resumes, P!Reissue
    <3>4. CASE P!Read
      <4>1. wire' = Append(Tail(wire), [e EXCEPT !.at = "tell", !.seen = S]) /\ e.at = "read" /\ held' = held
        BY <3>4 DEF P!Read, P!Resumes, P!Reissue, P!sets
      <4> QED BY <3>1, <4>1
    <3> QED BY <1>5, <3>2, <3>3, <3>4
  <2> DEFINE x == [e EXCEPT !.at = at, !.seen = seen]
  <2>2. x \in Entry /\ x.op = e.op /\ x.pass = e.pass /\ x.at = at
    BY <1>3
  <2> HIDE DEF x, e
  <2>3. Moved(wire, wire', {e}, {x}) /\ wire' = Append(Tail(wire), x)
    BY <1>1, <1>2, <2>1, <2>2, MovesOne DEF x, e
  <2> QED BY <1>1, <1>2, <2>1, <2>2, <2>3 DEF e, P!Call
<1> QED BY <1>1, <1>4, <1>5 DEF PassReply

LEMMA ReplyKeepsPass ==
  ASSUME TypeOK, PassInv, PassReply
  PROVE  PassInv'
<1> DEFINE e == Head(wire)
<1> SUFFICES ASSUME NEW p \in P!Pass PROVE HeldInv(p)' /\ (p \notin cut => OwnInv(p)')
  BY ReplyMoves DEF PassInv
<1>1. /\ e \in Entry /\ e.op \in {"add", "remove"} /\ UNCHANGED <<passes, cut, own, events>>
  BY ReplyMoves
<1>0. wire \in Seq(Entry)
  BY DEF TypeOK
<1>2. HeldInv(p) /\ (p \notin cut => OwnInv(p))
  BY DEF PassInv
<1>3. ASSUME Moved(wire, wire', {e}, {}), e.op = "add", e.at = "own",
                e.pass \in held, held' = held
      PROVE HeldInv(p)' /\ (p \notin cut => OwnInv(p)')
  <2>1. Keeps(wire, wire', {e}, {}) /\ KeepsOrder(wire, wire', {e}, {})
    BY <1>0, <1>3, StepKeeps
  <2> HIDE DEF e
  <2>2. HeldInv(p)'
    BY <1>1, <1>2, <1>3, <2>1, CallSets DEF HeldInv, LastSays, Keeps, KeepsOrder
  <2>3. p \notin cut => OwnInv(p)'
    BY <1>1, <1>2, <1>3, <2>1, CallSets DEF OwnInv, Keeps, KeepsOrder
  <2> QED BY <2>2, <2>3
<1>4. ASSUME NEW x \in Entry, Moved(wire, wire', {e}, {x}), wire' = Append(Tail(wire), x),
             x.op = e.op, x.pass = e.pass,
             \/ /\ e.at = "own" /\ x.at = "read"
                /\ held' = IF e.op = "add" THEN held \cup {e.pass} ELSE held \ {e.pass}
             \/ e.at = "read" /\ x.at = "tell" /\ held' = held
      PROVE HeldInv(p)' /\ (p \notin cut => OwnInv(p)')
  <2>1. Keeps(wire, wire', {e}, {x}) /\ KeepsOrder(wire, wire', {e}, {x})
    BY <1>0, <1>4, StepKeeps
  <2>2. \A K, M : x \in M /\ x \notin K => Followed(wire', K, M)
    <3>1. Tail(wire) \in Seq(Entry)
      BY <1>0, <1>4, HeadTailProperties DEF Moved
    <3> QED BY <1>4, <3>1, LastFollows
  <2> HIDE DEF e
  <2>3. HeldInv(p)'
    BY <1>1, <1>2, <1>4, <2>1, <2>2, CallSets DEF HeldInv, LastSays, Keeps, KeepsOrder
  <2>4. p \notin cut => OwnInv(p)'
    BY <1>1, <1>2, <1>4, <2>1, <2>2, CallSets DEF OwnInv, Keeps, KeepsOrder
  <2> QED BY <2>3, <2>4
<1> QED BY <1>3, <1>4, ReplyMoves
-----------------------------------------------------------------------------
(***************************************************************************)
(* Each action as a move on the wire.                                      *)
(***************************************************************************)
LEMMA AskMoves ==
  ASSUME TypeOK, NEW p \in Offered, ChangePass(p)
  PROVE  /\ p \in P!Pass /\ UNCHANGED <<held, cut, store, rules, uncovered>> /\ Unsettle
         /\ \E x \in Entry :
              /\ Moved(wire, wire', {}, {x}) /\ wire' = Append(wire, x)
              /\ x.at = "own" /\ x.pass = p
              /\ \/ x.op = "add" /\ passes' = passes \cup {p}
                 \/ x.op = "remove" /\ passes' = passes \ {p}
<1>1. p \in P!Pass
  BY SourceAssumption DEF P!Pass
<1>2. \A op \in {"add", "remove"} :
        LET x == [op |-> op, at |-> "own", pass |-> p, seen |-> {}] IN
        x \in Entry /\ x.op = op /\ x.at = "own" /\ x.pass = p
  BY <1>1 DEF P!Call, Entry
<1>3. wire \in Seq(Entry)
  BY DEF TypeOK
<1>4. CASE P!AddPassForCkey(p)
  BY <1>1, <1>2, <1>3, <1>4, MovesOne DEF ChangePass, P!AddPassForCkey, P!Start, P!events, P!ghosts
<1>5. CASE P!RemoveCKeyPass(p)
  BY <1>1, <1>2, <1>3, <1>5, MovesOne DEF ChangePass, P!RemoveCKeyPass, P!Start, P!events, P!ghosts
<1> QED BY <1>4, <1>5 DEF ChangePass

LEMMA TellMoves ==
  ASSUME TypeOK, HandlePassAdded \/ HandlePassRemoved
  PROVE  LET e == Head(wire)
             s == Head(wire).pass[1]
             c == Head(wire).pass[2]
         IN
         /\ e \in Entry /\ e.at = "tell" /\ e.pass \in P!Pass
         /\ UNCHANGED <<redis, cut, store, rules>> /\ Unsettle
         /\ \E x \in Entry :
              /\ Moved(wire, wire', {e}, {x}) /\ wire' = Append(Tail(wire), x)
              /\ x.at = "sources" /\ x.who = c /\ x.todo = {s} \X AddressesOf(c, fresh)
              /\ \/ e.op = "add" /\ x.op = "allow" /\ uncovered' = uncovered
                 \/ /\ e.op = "remove" /\ x.op = "revoke"
                    /\ uncovered' = {u \in uncovered : ~ (u[1] = s /\ u[2][1] = c)} \cup
                                      {<<s, <<c, a>>>> : a \in AddressesOf(c, Seen \ fresh)}
<1> DEFINE e == Head(wire)
<1>1. wire # <<>> /\ e.at = "tell" /\ wire \in Seq(Entry)
      /\ UNCHANGED <<redis, cut, store, rules>> /\ Unsettle
  BY DEF HandlePassAdded, HandlePassRemoved, P!Resumes, TypeOK
<1>2. e \in Entry /\ e.pass \in P!Pass /\ e.pass[1] \in Server /\ e.pass[2] \in Player
  BY <1>1, HeadEntry, EntryKinds DEF P!Call, P!Pass
<1>3. \A op \in {"allow", "revoke"} :
        LET x == PassHandler(op, e.pass[1], e.pass[2]) IN
        /\ x \in Entry /\ x.op = op /\ x.at = "sources" /\ x.who = e.pass[2]
        /\ x.todo = {e.pass[1]} \X AddressesOf(e.pass[2], fresh)
  <2>1. {e.pass[1]} \X AddressesOf(e.pass[2], fresh) \in SUBSET Rule
    BY <1>2 DEF Rule, AddressesOf
  <2> QED BY <1>2, <2>1, HandlerType DEF PassHandler, Handler, Entry
<1>4. CASE HandlePassAdded
  <2>1. e.op = "add" /\ wire' = Append(Tail(wire), PassHandler("allow", e.pass[1], e.pass[2]))
        /\ uncovered' = uncovered
    BY <1>4 DEF HandlePassAdded, Rest
  <2> HIDE DEF e
  <2>2. Moved(wire, wire', {e}, {PassHandler("allow", e.pass[1], e.pass[2])})
    BY <1>1, <1>3, <2>1, MovesOne DEF e
  <2> QED BY <1>1, <1>2, <1>3, <2>1, <2>2 DEF e
<1>5. CASE HandlePassRemoved
  <2>1. e.op = "remove" /\ wire' = Append(Tail(wire), PassHandler("revoke", e.pass[1], e.pass[2]))
        /\ uncovered' = {u \in uncovered : ~ (u[1] = e.pass[1] /\ u[2][1] = e.pass[2])} \cup
                          {<<e.pass[1], <<e.pass[2], a>>>> : a \in AddressesOf(e.pass[2], Seen \ fresh)}
    BY <1>5 DEF HandlePassRemoved, Rest
  <2> HIDE DEF e
  <2>2. Moved(wire, wire', {e}, {PassHandler("revoke", e.pass[1], e.pass[2])})
    BY <1>1, <1>3, <2>1, MovesOne DEF e
  <2> QED BY <1>1, <1>2, <1>3, <2>1, <2>2 DEF e
<1> QED BY <1>4, <1>5

LEMMA LinkIpMoves ==
  ASSUME TypeOK, NEW c \in Player, NEW a \in Address, LinkIp(c, a)
  PROVE  /\ UNCHANGED <<redis, knowledge, own>> /\ <<c, a>> \in Seen
         /\ \E x \in Entry :
              /\ Moved(wire, wire', {}, {x}) /\ wire' = Append(wire, x)
              /\ x.op = "link" /\ x.at = "prune" /\ x.who = c /\ x.addr = a
              /\ x.old = AddressesOf(c, expired)
<1> DEFINE x == [op |-> "link", at |-> "prune", who |-> c, addr |-> a,
                 old |-> AddressesOf(c, expired), added |-> FALSE]
<1>1. x \in Entry
  BY DEF Entry, LinkCall, AddressesOf
<1>2. wire' = Append(wire, x) /\ wire \in Seq(Entry)
      /\ UNCHANGED <<redis, knowledge, own>> /\ <<c, a>> \in Seen
  BY DEF LinkIp, TypeOK
<1>3. x.op = "link" /\ x.at = "prune" /\ x.who = c /\ x.addr = a /\ x.old = AddressesOf(c, expired)
  OBVIOUS
<1> HIDE DEF x
<1> QED BY <1>1, <1>2, <1>3, MovesOne

LEMMA PruneMoves ==
  ASSUME TypeOK, Prune
  PROVE  LET e == Head(wire) IN
         /\ e \in Entry /\ e.op = "link" /\ e.at = "prune" /\ e.who \in Player
         /\ UNCHANGED <<redis, cut, fresh, rules, uncovered>> /\ Unsettle
         /\ expired' = expired \ ({e.who} \X e.old)
         /\ \E x \in Entry :
              /\ Moved(wire, wire', {e}, {x}) /\ wire' = Append(Tail(wire), x)
              /\ x.op = "link" /\ x.at = "pruned" /\ x.who = e.who /\ x.addr = e.addr /\ x.old = e.old
<1> DEFINE e == Head(wire)
           x == [e EXCEPT !.at = "pruned"]
<1>1. wire # <<>> /\ e.at = "prune" /\ wire \in Seq(Entry)
      /\ UNCHANGED <<redis, cut, fresh, rules, uncovered>> /\ Unsettle
      /\ expired' = expired \ ({e.who} \X e.old) /\ wire' = Append(Tail(wire), x)
  BY DEF Prune, P!Resumes, TypeOK, Rest, knowledge
<1>2. e \in Entry /\ e \in LinkCall
  BY <1>1, HeadEntry, EntryKinds
<1>3. /\ x \in Entry /\ e.op = "link" /\ e.who \in Player
      /\ x.op = "link" /\ x.at = "pruned" /\ x.who = e.who /\ x.addr = e.addr /\ x.old = e.old
  BY <1>2 DEF LinkCall, Entry
<1> HIDE DEF x
<1>4. Moved(wire, wire', {e}, {x})
  BY <1>1, <1>3, MovesOne
<1> HIDE DEF e
<1> QED BY <1>1, <1>2, <1>3, <1>4 DEF e

LEMMA LinkedMoves ==
  ASSUME TypeOK, Linked
  PROVE  LET e == Head(wire) IN
         /\ e \in Entry /\ e.op = "link" /\ e.at = "linked" /\ e.who \in Player /\ e.addr \in Address
         /\ UNCHANGED <<redis, cut, store, rules, uncovered>> /\ Unsettle
         /\ \/ ~ e.added /\ Moved(wire, wire', {e}, {})
            \/ /\ e.added
               /\ \E x \in Entry :
                    /\ Moved(wire, wire', {e}, {x}) /\ wire' = Append(Tail(wire), x)
                    /\ x.op = "allow" /\ x.at = "sources" /\ x.who = e.who
                    /\ x.todo = P!PassesOf(e.who, held) \X {e.addr}
<1> DEFINE e == Head(wire)
           x == IpHandler("allow", e.who, e.addr)
<1>1. wire # <<>> /\ e.at = "linked" /\ wire \in Seq(Entry)
      /\ UNCHANGED <<redis, cut, store, rules, uncovered>> /\ Unsettle
      /\ wire' = IF e.added THEN Append(Tail(wire), x) ELSE Tail(wire)
  BY DEF Linked, P!Resumes, TypeOK, Rest, knowledge
<1>2. e \in Entry /\ e \in LinkCall
  BY <1>1, HeadEntry, EntryKinds
<1>3. e.op = "link" /\ e.who \in Player /\ e.addr \in Address /\ e.added \in BOOLEAN
  BY <1>2 DEF LinkCall
<1>4. /\ x \in Entry /\ x.op = "allow" /\ x.at = "sources" /\ x.who = e.who
      /\ x.todo = P!PassesOf(e.who, held) \X {e.addr}
  <2>1. P!PassesOf(e.who, held) \X {e.addr} \in SUBSET Rule
    BY <1>3 DEF Rule, P!PassesOf
  <2> QED BY <1>3, <2>1, HandlerType DEF IpHandler, Handler, Entry
<1> HIDE DEF x
<1>5. CASE e.added
  <2>1. Moved(wire, wire', {e}, {x})
    BY <1>1, <1>4, <1>5, MovesOne
  <2> HIDE DEF e
  <2> QED BY <1>1, <1>2, <1>3, <1>4, <1>5, <2>1 DEF e
<1>6. CASE ~ e.added
  <2>1. Moved(wire, wire', {e}, {})
    BY <1>1, <1>4, <1>6, MovesOne
  <2> HIDE DEF e
  <2> QED BY <1>1, <1>2, <1>3, <1>6, <2>1 DEF e
<1> QED BY <1>5, <1>6

\* the members of a finite set in any order
LEMMA OrderOf ==
  ASSUME NEW A, IsFiniteSet(A), NEW q \in Orders(A)
  PROVE  /\ q \in Seq(A)
         /\ \A i \in DOMAIN q : q[i] \in A
         /\ \A a \in A : \E i \in DOMAIN q : q[i] = a
<1>1. Cardinality(A) \in Nat
  BY FS_CardinalityType
<1> DEFINE n == Cardinality(A)
<1>2. q \in [1 .. n -> A] /\ \A i, j \in DOMAIN q : q[i] = q[j] => i = j
  BY <1>1 DEF Orders
<1> DEFINE B == {q[i] : i \in 1 .. n}
<1>3. B \subseteq A /\ IsFiniteSet(1 .. n) /\ Cardinality(1 .. n) = n
  BY <1>1, <1>2, FS_Interval
<1>4. q \in Bijection(1 .. n, B)
  <2>1. q \in [1 .. n -> B]
    BY <1>2
  <2> QED BY <1>2, <2>1 DEF Bijection, Injection, Surjection, IsInjective
<1>5. Cardinality(B) = n
  BY <1>1, <1>3, <1>4, FS_Bijection DEF ExistsBijection
<1>6. B = A
  BY <1>1, <1>3, <1>5, FS_Subset
<1>7. \A a \in A : \E i \in DOMAIN q : q[i] = a
  BY <1>2, <1>6
<1>8. q \in Seq(A)
  BY <1>1, <1>2, IsASeq
<1> QED BY <1>2, <1>7, <1>8

\* the removed addresses are all of those found, each once
LEMMA OrderCovers ==
  ASSUME NEW A \in SUBSET Address, NEW q \in Orders(A)
  PROVE  /\ \A i \in DOMAIN q : q[i] \in A
         /\ \A a \in A : \E i \in DOMAIN q : q[i] = a
         /\ q = <<>> <=> A = {}
         /\ q # <<>> => q[Len(q)] \in A
<1>1. /\ q \in Seq(A) /\ \A i \in DOMAIN q : q[i] \in A
      /\ \A a \in A : \E i \in DOMAIN q : q[i] = a
  BY SourceAssumption, FS_Subset, OrderOf
<1>2. Len(q) \in Nat /\ DOMAIN q = 1 .. Len(q) /\ (q = <<>> <=> Len(q) = 0)
  BY <1>1, LenProperties, EmptySeq
<1>3. q # <<>> => Len(q) \in DOMAIN q
  BY <1>2
<1>4. A = {} => DOMAIN q = {}
  BY <1>1
<1>5. DOMAIN q = {} => q = <<>>
  BY <1>3
<1> QED BY <1>1, <1>2, <1>3, <1>4, <1>5

\* linkIp ends in two moves: the handlers of IpRemoved, and its own way to IpAdded
ZaddStep(e, u, l, R) ==
  /\ Moved(wire, u, {e}, R) /\ Moved(u, wire', {}, {l}) /\ wire' = Append(u, l)
  /\ \A x \in R : /\ x.op = "revoke" /\ x.at = "sources" /\ x.who = e.who
                  /\ \E a \in e.old : x.todo = P!PassesOf(e.who, held) \X {a}
  /\ \A a \in e.old : \E x \in R : x.todo = P!PassesOf(e.who, held) \X {a}
  /\ l.op = "link" /\ l.at = "linked" /\ l.who = e.who /\ l.old = e.old
  /\ l.addr \in Address /\ (IF e.old = {} THEN l.addr = e.addr ELSE l.addr \in e.old)
  /\ l.added <=> <<e.who, l.addr>> \notin fresh \cup expired
  /\ fresh' = fresh \cup {<<e.who, l.addr>>}
  /\ expired' = expired \ {<<e.who, l.addr>>}

LEMMA ZaddMoves ==
  ASSUME TypeOK, Zadd
  PROVE  LET e == Head(wire) IN
         /\ e \in Entry /\ e.op = "link" /\ e.at = "pruned" /\ e.who \in Player
         /\ UNCHANGED <<redis, cut, rules, uncovered>> /\ Unsettle
         /\ \E u \in Seq(Entry), l \in Entry, R \in SUBSET Entry : ZaddStep(e, u, l, R)
<1> DEFINE e == Head(wire)
<1>1. wire # <<>> /\ e.at = "pruned" /\ wire \in Seq(Entry)
      /\ UNCHANGED <<redis, cut, rules, uncovered>> /\ Unsettle
  BY DEF Zadd, P!Resumes, TypeOK, knowledge
<1>2. e \in Entry /\ e \in LinkCall /\ e.op = "link" /\ e.who \in Player
      /\ e.addr \in Address /\ e.old \in SUBSET Address
  BY <1>1, HeadEntry, EntryKinds DEF LinkCall
<1>3. PICK q \in Orders(e.old) :
        LET ip == IF q = <<>> THEN e.addr ELSE q[Len(q)]
            Revoke(i) == IpHandler("revoke", e.who, q[i])
        IN  /\ fresh' = fresh \cup {<<e.who, ip>>}
            /\ expired' = expired \ {<<e.who, ip>>}
            /\ wire' = Rest \o [i \in DOMAIN q |-> Revoke(i)] \o
                 <<[e EXCEPT !.at = "linked", !.addr = ip,
                             !.added = <<e.who, ip>> \notin fresh \cup expired]>>
  BY DEF Zadd
<1> DEFINE ip == IF q = <<>> THEN e.addr ELSE q[Len(q)]
           f == [i \in DOMAIN q |-> IpHandler("revoke", e.who, q[i])]
           l == [e EXCEPT !.at = "linked", !.addr = ip,
                          !.added = <<e.who, ip>> \notin fresh \cup expired]
           u == Tail(wire) \o f
<1>4. q \in Seq(Address) /\ ip \in Address
  BY <1>2, OrderType
<1>5. /\ \A i \in DOMAIN q : q[i] \in e.old
      /\ \A a \in e.old : \E i \in DOMAIN q : q[i] = a
      /\ IF e.old = {} THEN ip = e.addr ELSE ip \in e.old
  BY <1>2, OrderCovers
<1>6. /\ l \in Entry /\ l.op = "link" /\ l.at = "linked" /\ l.who = e.who /\ l.old = e.old
      /\ l.addr = ip /\ (l.added <=> <<e.who, ip>> \notin fresh \cup expired)
  BY <1>2, <1>4 DEF LinkCall, Entry
<1>7. ASSUME NEW i \in DOMAIN q
      PROVE  /\ f[i] \in Entry /\ f[i].op = "revoke" /\ f[i].at = "sources" /\ f[i].who = e.who
             /\ f[i].todo = P!PassesOf(e.who, held) \X {q[i]}
  <2>1. q[i] \in Address
    BY <1>2, <1>5
  <2>2. P!PassesOf(e.who, held) \X {q[i]} \in SUBSET Rule
    BY <2>1 DEF Rule, P!PassesOf
  <2> QED BY <1>2, <2>2, HandlerType DEF IpHandler, Handler, Entry
<1>8. f \in Seq(Entry) /\ DOMAIN f = DOMAIN q
  <2>1. Len(q) \in Nat /\ DOMAIN q = 1 .. Len(q)
    BY <1>4, LenProperties
  <2>2. f \in [1 .. Len(q) -> Entry]
    BY <1>7, <2>1
  <2> QED BY <2>1, <2>2, IsASeq
<1>9. /\ fresh' = fresh \cup {<<e.who, ip>>} /\ expired' = expired \ {<<e.who, ip>>}
      /\ wire' = u \o <<l>>
  BY <1>3 DEF Rest
<1> HIDE DEF f, l, ip
<1>10. u \in Seq(Entry) /\ Moved(wire, u, {e}, On(f))
  <2>1. Tail(wire) \in Seq(Entry)
    BY <1>1, HeadTailProperties
  <2>2. u \in Seq(Entry)
    BY <1>8, <2>1, ConcatProperties
  <2> QED BY <1>1, <1>8, <2>2 DEF Moved
<1> HIDE DEF u
<1>11. wire' = Append(u, l)
  BY <1>6, <1>9, <1>10, AppendIsConcat
<1>12. Moved(u, wire', {}, {l})
  BY <1>6, <1>10, <1>11, MovesOne
<1>13. /\ On(f) \in SUBSET Entry
       /\ \A x \in On(f) : /\ x.op = "revoke" /\ x.at = "sources" /\ x.who = e.who
                           /\ \E a \in e.old : x.todo = P!PassesOf(e.who, held) \X {a}
       /\ \A a \in e.old : \E x \in On(f) : x.todo = P!PassesOf(e.who, held) \X {a}
  BY <1>5, <1>7, <1>8 DEF On
<1> DEFINE R == On(f)
<1>14. R \in SUBSET Entry /\ Moved(wire, u, {e}, R)
  BY <1>10, <1>13
<1> HIDE DEF e, R
<1>15. /\ \A x \in R : /\ x.op = "revoke" /\ x.at = "sources" /\ x.who = e.who
                       /\ \E a \in e.old : x.todo = P!PassesOf(e.who, held) \X {a}
       /\ \A a \in e.old : \E x \in R : x.todo = P!PassesOf(e.who, held) \X {a}
  BY <1>13 DEF R
<1>16. ZaddStep(e, u, l, R)
  BY <1>4, <1>5, <1>6, <1>9, <1>10, <1>11, <1>12, <1>14, <1>15 DEF ZaddStep
<1> QED BY <1>1, <1>2, <1>6, <1>10, <1>14, <1>16 DEF e

LEMMA LookUpMoves ==
  ASSUME TypeOK, LookUp
  PROVE  LET e == Head(wire) IN
         /\ e \in Entry /\ e.at = "build"
         /\ UNCHANGED <<redis, cut, store, rules, unsettled, uncovered>>
         /\ \E x \in Entry, d \in Player :
              /\ Moved(wire, wire', {e}, {x})
              /\ x.op = e.op /\ x.at = "build" /\ x.who = e.who /\ x.todo = e.todo /\ x.port = e.port
              /\ d \in e.left /\ x.left = e.left \ {d}
              /\ x.found = e.found \cup ({d} \X AddressesOf(d, fresh))
<1> DEFINE e == Head(wire)
<1>1. wire # <<>> /\ e.at = "build" /\ wire \in Seq(Entry)
      /\ UNCHANGED <<redis, cut, store, rules, unsettled, uncovered>>
  BY DEF LookUp, P!Resumes, TypeOK, knowledge, own, history
<1>2. e \in Entry /\ e \in Job
  BY <1>1, HeadEntry, EntryKinds
<1>3. PICK d \in e.left :
        wire' = Append(Tail(wire), [e EXCEPT !.left = @ \ {d},
                                    !.found = @ \cup ({d} \X AddressesOf(d, fresh))])
  BY DEF LookUp, Rest
<1> DEFINE x == [e EXCEPT !.left = @ \ {d}, !.found = @ \cup ({d} \X AddressesOf(d, fresh))]
<1>4. {d} \X AddressesOf(d, fresh) \in SUBSET Link /\ d \in Player
  BY <1>2 DEF Job, AddressesOf, Link
<1>5. /\ x \in Entry /\ x.op = e.op /\ x.at = "build" /\ x.who = e.who
      /\ x.todo = e.todo /\ x.port = e.port /\ x.left = e.left \ {d}
      /\ x.found = e.found \cup ({d} \X AddressesOf(d, fresh))
  BY <1>1, <1>2, <1>4 DEF Job, Entry
<1>6. wire' = Append(Tail(wire), x)
  BY <1>3
<1> HIDE DEF x
<1>7. Moved(wire, wire', {e}, {x})
  BY <1>1, <1>5, <1>6, MovesOne
<1> HIDE DEF e
<1>8. \E xx \in Entry, dd \in Player :
        /\ Moved(wire, wire', {e}, {xx})
        /\ xx.op = e.op /\ xx.at = "build" /\ xx.who = e.who /\ xx.todo = e.todo /\ xx.port = e.port
        /\ dd \in e.left /\ xx.left = e.left \ {dd}
        /\ xx.found = e.found \cup ({dd} \X AddressesOf(dd, fresh))
  BY <1>3, <1>4, <1>5, <1>7
<1> QED BY <1>1, <1>2, <1>8 DEF e

\* the rules S deals with, and what waits for a table
Dealt(e, T, B, S, X) ==
  /\ S \subseteq Ports(e.todo) \cap B /\ (e.at = "build" => e.port \in S)
  /\ built' = B
  /\ \A s \in Server, c \in Player, a \in Address :
       <<c, a>> \in table'[s] <=>
         IF s \in S /\ <<s, a>> \in e.todo /\ c = e.who /\ e.op # "snapshot" THEN e.op = "allow"
         ELSE <<c, a>> \in T[s]
  /\ \/ X = {} /\ \A r \in e.todo : r[1] \in S
     \/ \E x \in Entry :
          /\ X = {x} /\ x.op = e.op /\ x.at = "build" /\ x.who = e.who
          /\ x.todo = {r \in e.todo : r[1] \notin S}
          /\ x.port \in Ports(x.todo) \ B /\ x.left = ServerPasses(x.port) /\ x.found = {}

LEMMA DealMoves ==
  ASSUME TypeOK, NEW e \in Job, NEW T \in [Server -> SUBSET Link], NEW B \in SUBSET Server,
         NEW miss, NEW rest \in Seq(Entry), Deal(e, T, B, miss, rest)
  PROVE  \E S, X : Dealt(e, T, B, S, X) /\ Moved(rest, wire', {}, X)
<1>1. PICK S \in SUBSET (Ports(e.todo) \cap B) :
        LET D == {r \in e.todo : r[1] \in S}
            R == e.todo \ D
        IN  /\ e.at = "build" => e.port \in S
            /\ table' = Carried(e, D, T)
            /\ built' = B
            /\ \/ R = {} /\ wire' = rest
               \/ \E s \in Ports(R) \ B :
                    wire' = Append(rest, [e EXCEPT !.at = "build", !.todo = R, !.port = s,
                                                   !.left = ServerPasses(s), !.found = {}])
  BY DEF Deal
<1> DEFINE D == {r \in e.todo : r[1] \in S}
           R == e.todo \ D
<1>2. /\ e.todo \in SUBSET Rule /\ e.who \in Player /\ e.op \in {"allow", "revoke", "snapshot"}
      /\ R \in SUBSET Rule /\ R = {r \in e.todo : r[1] \notin S}
  BY DEF Job
<1>3. ASSUME NEW s \in Server, NEW c \in Player, NEW a \in Address
      PROVE  <<c, a>> \in table'[s] <=>
               IF s \in S /\ <<s, a>> \in e.todo /\ c = e.who /\ e.op # "snapshot" THEN e.op = "allow"
               ELSE <<c, a>> \in T[s]
  <2> DEFINE mine == {e.who} \X {b \in Address : <<s, b>> \in D}
  <2>1. table'[s] = CASE e.op = "allow" -> T[s] \cup mine
                      [] e.op = "revoke" -> T[s] \ mine
                      [] e.op = "snapshot" -> T[s]
    BY <1>1 DEF Carried
  <2>2. <<c, a>> \in mine <=> s \in S /\ <<s, a>> \in e.todo /\ c = e.who
    BY <1>2
  <2> HIDE DEF mine
  <2>3. CASE e.op = "allow"
    BY <2>1, <2>2, <2>3
  <2>4. CASE e.op = "revoke"
    BY <2>1, <2>2, <2>4
  <2>5. CASE e.op = "snapshot"
    BY <2>1, <2>2, <2>5
  <2> QED BY <1>2, <2>3, <2>4, <2>5
<1>4. CASE R = {} /\ wire' = rest
  <2>1. Dealt(e, T, B, S, {})
    BY <1>1, <1>2, <1>3, <1>4 DEF Dealt
  <2>2. Moved(rest, wire', {}, {})
    <3>1. <<>> \in Seq(Entry) /\ On(<<>>) = {} /\ rest = rest \o <<>>
      BY ConcatEmptySeq DEF On
    <3> QED BY <1>4, <3>1 DEF Moved
  <2> QED BY <2>1, <2>2
<1>5. ASSUME NEW s \in Ports(R) \ B,
             wire' = Append(rest, [e EXCEPT !.at = "build", !.todo = R, !.port = s,
                                            !.left = ServerPasses(s), !.found = {}])
      PROVE  \E SS, X : Dealt(e, T, B, SS, X) /\ Moved(rest, wire', {}, X)
  <2> DEFINE x == [e EXCEPT !.at = "build", !.todo = R, !.port = s,
                            !.left = ServerPasses(s), !.found = {}]
  <2>1. s \in Server /\ ServerPasses(s) \in SUBSET Player
    BY <1>5 DEF Ports, ServerPasses
  <2>2. /\ x \in Entry /\ x.op = e.op /\ x.at = "build" /\ x.who = e.who /\ x.todo = R
        /\ x.port = s /\ x.left = ServerPasses(s) /\ x.found = {}
    BY <1>2, <2>1 DEF Job, Entry
  <2> HIDE DEF x
  <2>3. wire' = Append(rest, x)
    BY <1>5 DEF x
  <2>4. Moved(rest, wire', {}, {x})
    BY <2>2, <2>3, MovesOne
  <2> HIDE DEF R
  <2>5. /\ {x} = {x} /\ x.op = e.op /\ x.at = "build" /\ x.who = e.who
        /\ x.todo = {r \in e.todo : r[1] \notin S}
        /\ x.port \in Ports(x.todo) \ B /\ x.left = ServerPasses(x.port) /\ x.found = {}
    BY <1>2, <1>5, <2>2
  <2>6. Dealt(e, T, B, S, {x})
    BY <1>1, <1>3, <2>2, <2>5 DEF Dealt
  <2> QED BY <2>4, <2>6
<1> QED BY <1>1, <1>4, <1>5

\* after the head has gone
LEMMA AfterHead ==
  ASSUME NEW w \in Seq(Entry), w # <<>>, NEW v, NEW X, Moved(Tail(w), v, {}, X)
  PROVE  Moved(w, v, {Head(w)}, X)
BY DEF Moved

RuleStep(e, T, B, S, X) ==
  /\ Dealt(e, T, B, S, X) /\ X \subseteq Entry
  /\ \/ /\ e.at = "sources" /\ Moved(wire, wire', {e}, X)
        /\ T = table /\ B = built /\ unsettled' = unsettled
     \/ /\ e.at = "build" /\ Moved(wire, wire', {e}, X) /\ e.left = {}
        /\ T = [table EXCEPT ![e.port] = e.found] /\ B = built \cup {e.port}
        /\ unsettled' = IF e.port \in built THEN unsettled \cup {e.port} ELSE unsettled
     \/ /\ e.op = "snapshot" /\ e.at = "sources" /\ Moved(wire, wire', {}, X)
        /\ T = table /\ B = built /\ unsettled' = unsettled

LEMMA RuleMoves ==
  ASSUME TypeOK, Handle \/ StoreTable \/ HandleEvent
  PROVE  /\ UNCHANGED <<redis, cut, store, uncovered>>
         /\ \E e \in Job, T \in [Server -> SUBSET Link], B \in SUBSET Server, S \in SUBSET Server, X \in SUBSET Entry :
              RuleStep(e, T, B, S, X)
<1>1. wire \in Seq(Entry) /\ table \in [Server -> SUBSET Link] /\ built \in SUBSET Server
  BY DEF TypeOK
<1>2. ASSUME NEW e, NEW T, NEW B, NEW S, NEW X, Dealt(e, T, B, S, X)
      PROVE  X \in SUBSET Entry /\ S \in SUBSET Server
  BY <1>2 DEF Dealt, Ports
<1>3. CASE Handle
  <2> DEFINE e == Head(wire)
  <2>1. wire # <<>> /\ e.at = "sources" /\ Deal(e, table, built, missed, Tail(wire))
        /\ UNCHANGED <<redis, cut, store, uncovered, unsettled>>
    BY <1>3 DEF Handle, P!Resumes, Rest, knowledge
  <2>2. e \in Job /\ Tail(wire) \in Seq(Entry)
    BY <2>1, HeadEntry, EntryKinds
  <2>3. PICK S, X : Dealt(e, table, built, S, X) /\ Moved(Tail(wire), wire', {}, X)
    BY <1>1, <2>1, <2>2, DealMoves
  <2>4. Moved(wire, wire', {e}, X)
    BY <1>1, <2>1, <2>3, AfterHead
  <2> HIDE DEF e
  <2>5. RuleStep(e, table, built, S, X) /\ S \in SUBSET Server /\ X \in SUBSET Entry
    BY <1>2, <2>1, <2>3, <2>4 DEF RuleStep
  <2> QED BY <1>1, <2>1, <2>2, <2>5
<1>4. CASE StoreTable
  <2> DEFINE e == Head(wire)
             T == [table EXCEPT ![e.port] = e.found]
             B == built \cup {e.port}
  <2>1. /\ wire # <<>> /\ e.at = "build" /\ e.left = {} /\ \E miss : Deal(e, T, B, miss, Tail(wire))
        /\ unsettled' = IF e.port \in built THEN unsettled \cup {e.port} ELSE unsettled
        /\ UNCHANGED <<redis, cut, store, uncovered>>
    BY <1>4 DEF StoreTable, P!Resumes, Rest, knowledge
  <2>2. e \in Job /\ Tail(wire) \in Seq(Entry)
    BY <2>1, HeadEntry, EntryKinds
  <2>3. T \in [Server -> SUBSET Link] /\ B \in SUBSET Server
    BY <1>1, <2>2 DEF Job
  <2> HIDE DEF T, B
  <2>4. PICK S, X : Dealt(e, T, B, S, X) /\ Moved(Tail(wire), wire', {}, X)
    BY <1>1, <2>1, <2>2, <2>3, DealMoves
  <2>5. Moved(wire, wire', {e}, X)
    BY <1>1, <2>1, <2>4, AfterHead
  <2>6. T = [table EXCEPT ![e.port] = e.found] /\ B = built \cup {e.port}
    BY DEF T, B
  <2> HIDE DEF e
  <2>7. RuleStep(e, T, B, S, X) /\ S \in SUBSET Server /\ X \in SUBSET Entry
    BY <1>2, <2>1, <2>4, <2>5, <2>6 DEF RuleStep
  <2> QED BY <2>1, <2>2, <2>3, <2>7
<1>5. CASE HandleEvent
  <2> DEFINE e == Handler("snapshot", CHOOSE c \in Player : TRUE, Rule)
  <2>1. e \in Job /\ e.op = "snapshot" /\ e.at = "sources"
    BY SourceAssumption, HandlerType
  <2> HIDE DEF e
  <2>2. Deal(e, table, built, {}, wire) /\ UNCHANGED <<redis, cut, store, uncovered, unsettled>>
    BY <1>5 DEF HandleEvent, e, knowledge
  <2>3. PICK S, X : Dealt(e, table, built, S, X) /\ Moved(wire, wire', {}, X)
    BY <1>1, <2>1, <2>2, DealMoves
  <2>4. RuleStep(e, table, built, S, X) /\ S \in SUBSET Server /\ X \in SUBSET Entry
    BY <1>2, <2>1, <2>2, <2>3 DEF RuleStep
  <2> QED BY <1>1, <2>1, <2>2, <2>4
<1> QED BY <1>3, <1>4, <1>5

LEMMA MovedTwice ==
  ASSUME NEW w \in Seq(Entry), NEW u, NEW v, NEW E, NEW R, NEW l \in Entry,
         Moved(w, u, E, R), Moved(u, v, {}, {l}), v = Append(u, l)
  PROVE  Moved(w, v, E, R \cup {l})
<1>1. PICK f \in Seq(Entry) :
        /\ R = On(f)
        /\ \/ E = {} /\ u = w \o f
           \/ w # <<>> /\ E = {Head(w)} /\ u = Tail(w) \o f
  BY DEF Moved
<1>2. f \o <<l>> = Append(f, l) /\ Append(f, l) \in Seq(Entry)
  BY AppendIsConcat, AppendProperties
<1>3. On(Append(f, l)) = On(f) \cup {l}
  <2>1. /\ Len(f) \in Nat /\ DOMAIN f = 1 .. Len(f) /\ DOMAIN Append(f, l) = 1 .. Len(f) + 1
        /\ Append(f, l)[Len(f) + 1] = l /\ \A i \in 1 .. Len(f) : Append(f, l)[i] = f[i]
    BY AppendProperties, LenProperties
  <2>2. ASSUME NEW i \in 1 .. Len(f) + 1  PROVE Append(f, l)[i] \in On(f) \cup {l}
    <3>1. i \in 1 .. Len(f) \/ i = Len(f) + 1
      BY <2>1
    <3> QED BY <2>1, <3>1 DEF On
  <2>3. ASSUME NEW i \in 1 .. Len(f)  PROVE f[i] \in On(Append(f, l))
    <3>1. i \in 1 .. Len(f) + 1
      BY <2>1
    <3> QED BY <2>1, <3>1 DEF On
  <2>4. l \in On(Append(f, l))
    <3>1. Len(f) + 1 \in 1 .. Len(f) + 1
      BY <2>1
    <3> QED BY <2>1, <3>1 DEF On
  <2> QED BY <2>1, <2>2, <2>3, <2>4 DEF On
<1>4. \A t \in Seq(Entry) : Append(t \o f, l) = t \o Append(f, l)
  <2> TAKE t \in Seq(Entry)
  <2>1. t \o f \in Seq(Entry) /\ <<l>> \in Seq(Entry)
    BY ConcatProperties
  <2>2. Append(t \o f, l) = (t \o f) \o <<l>>
    BY <2>1, AppendIsConcat
  <2>3. (t \o f) \o <<l>> = t \o (f \o <<l>>)
    BY <2>1, ConcatAssociative
  <2> QED BY <1>2, <2>2, <2>3
<1>5. w # <<>> => Tail(w) \in Seq(Entry)
  BY HeadTailProperties
<1>6. CASE E = {} /\ u = w \o f
  BY <1>1, <1>2, <1>3, <1>4, <1>6 DEF Moved
<1>7. CASE w # <<>> /\ E = {Head(w)} /\ u = Tail(w) \o f
  BY <1>1, <1>2, <1>3, <1>4, <1>5, <1>7 DEF Moved
<1> QED BY <1>1, <1>6, <1>7

\* the kinds of entries that come and go in a step
LEMMA KindMoves ==
  ASSUME TypeOK, [Next]_vars, ~ Restart
  PROVE  \E E, X \in SUBSET Entry :
           /\ Moved(wire, wire', E, X)
           /\ \/ /\ PassReply \/ HandlePassAdded \/ HandlePassRemoved \/ \E p \in Offered : ChangePass(p)
                 /\ \A x \in E \cup X : x.op # "link" /\ x.at # "build"
                 /\ \A x \in E : x.op \in {"add", "remove"}
                 /\ UNCHANGED <<store, cut, rules>>
              \/ /\ \/ Prune \/ Zadd \/ Linked
                    \/ \E c \in Player, a \in Address : LinkIp(c, a) \/ Expire(c, a)
                 /\ \A x \in E \cup X : x.op \notin {"add", "remove"} /\ x.at # "build"
                 /\ UNCHANGED <<redis, cut, rules, uncovered>>
              \/ /\ Handle \/ StoreTable \/ HandleEvent \/ LookUp
                 /\ \A x \in E \cup X : x.op \notin {"add", "remove", "link"}
                 /\ UNCHANGED <<redis, cut, store, uncovered>>
              \/ E = {} /\ X = {} /\ UNCHANGED <<redis, cut, store, rules, unsettled, uncovered, wire>>
<1>0. wire \in Seq(Entry)
  BY DEF TypeOK
<1> DEFINE Goal(E, X) ==
           /\ Moved(wire, wire', E, X)
           /\ \/ /\ PassReply \/ HandlePassAdded \/ HandlePassRemoved \/ \E p \in Offered : ChangePass(p)
                 /\ \A x \in E \cup X : x.op # "link" /\ x.at # "build"
                 /\ \A x \in E : x.op \in {"add", "remove"}
                 /\ UNCHANGED <<store, cut, rules>>
              \/ /\ \/ Prune \/ Zadd \/ Linked
                    \/ \E c \in Player, a \in Address : LinkIp(c, a) \/ Expire(c, a)
                 /\ \A x \in E \cup X : x.op \notin {"add", "remove"} /\ x.at # "build"
                 /\ UNCHANGED <<redis, cut, rules, uncovered>>
              \/ /\ Handle \/ StoreTable \/ HandleEvent \/ LookUp
                 /\ \A x \in E \cup X : x.op \notin {"add", "remove", "link"}
                 /\ UNCHANGED <<redis, cut, store, uncovered>>
              \/ E = {} /\ X = {} /\ UNCHANGED <<redis, cut, store, rules, unsettled, uncovered, wire>>
<1> SUFFICES \E E, X \in SUBSET Entry : Goal(E, X)
  OBVIOUS
<1>1. CASE PassReply
  <2> DEFINE e == Head(wire)
  <2>0. /\ e \in Entry /\ e.op \in {"add", "remove"} /\ UNCHANGED <<cut, own>>
        /\ \/ Moved(wire, wire', {e}, {})
           \/ \E x \in Entry : Moved(wire, wire', {e}, {x}) /\ x.op = e.op
    BY <1>1, ReplyMoves
  <2>4. UNCHANGED <<store, cut, rules>>
    BY <2>0 DEF own
  <2> HIDE DEF e
  <2>1. \A x \in Entry : x.op \in {"add", "remove"} => x.op # "link" /\ x.at # "build"
    BY KindOf
  <2>2. ASSUME Moved(wire, wire', {e}, {})  PROVE Goal({e}, {})
    BY <1>1, <2>0, <2>1, <2>2, <2>4
  <2>3. ASSUME NEW x \in Entry, Moved(wire, wire', {e}, {x}), x.op = e.op  PROVE Goal({e}, {x})
    BY <1>1, <2>0, <2>1, <2>3, <2>4
  <2>5. {e} \in SUBSET Entry /\ {} \in SUBSET Entry /\ \A x \in Entry : {x} \in SUBSET Entry
    BY <2>0
  <2> HIDE DEF Goal
  <2> QED BY <2>0, <2>2, <2>3, <2>5
<1>2. ASSUME NEW p \in Offered, ChangePass(p)  PROVE \E E, X \in SUBSET Entry : Goal(E, X)
  <2>1. PICK x \in Entry : Moved(wire, wire', {}, {x}) /\ x.at = "own" /\ x.op \in {"add", "remove"}
    BY <1>2, AskMoves
  <2>2. UNCHANGED <<store, cut, rules>>
    BY <1>2, AskMoves
  <2>3. Goal({}, {x})
    BY <1>2, <2>1, <2>2
  <2> HIDE DEF Goal
  <2> QED BY <2>3
<1>3. CASE HandlePassAdded \/ HandlePassRemoved
  <2> DEFINE e == Head(wire)
  <2>1. PICK x \in Entry : /\ Moved(wire, wire', {e}, {x}) /\ x.at = "sources"
                           /\ x.op \in {"allow", "revoke"} /\ e.op \in {"add", "remove"}
    BY <1>3, TellMoves
  <2>2. e \in Entry /\ UNCHANGED <<store, cut, rules>>
    BY <1>3, TellMoves
  <2>3. e.at # "build"
    BY <2>1, <2>2, KindOf
  <2> HIDE DEF e
  <2>4. Goal({e}, {x})
    BY <1>3, <2>1, <2>2, <2>3
  <2> HIDE DEF Goal
  <2> QED BY <2>2, <2>4
<1>4. ASSUME NEW c \in Player, NEW a \in Address, LinkIp(c, a) \/ Expire(c, a)
      PROVE  \E E, X \in SUBSET Entry : Goal(E, X)
  <2>1. CASE LinkIp(c, a)
    <3>1. PICK x \in Entry : Moved(wire, wire', {}, {x}) /\ x.at = "prune" /\ x.op = "link"
      BY <2>1, LinkIpMoves
    <3>2. UNCHANGED <<redis, cut, rules, uncovered>>
      BY <2>1, LinkIpMoves DEF knowledge, own, history
    <3>3. Goal({}, {x})
      BY <2>1, <3>1, <3>2
    <3> HIDE DEF Goal
    <3> QED BY <3>3
  <2>2. CASE Expire(c, a)
    <3>1. UNCHANGED <<redis, cut, rules, uncovered>> /\ wire' = wire
      BY <2>2 DEF Expire, knowledge, own, history
    <3>2. Moved(wire, wire', {}, {})
      <4>1. <<>> \in Seq(Entry) /\ On(<<>>) = {} /\ wire = wire \o <<>>
        BY <1>0, ConcatEmptySeq DEF On
      <4> QED BY <3>1, <4>1 DEF Moved
    <3>3. Goal({}, {})
      BY <2>2, <3>1, <3>2
    <3> HIDE DEF Goal
    <3> QED BY <3>3
  <2> QED BY <1>4, <2>1, <2>2
<1>5. CASE Prune
  <2> DEFINE e == Head(wire)
  <2>1. PICK x \in Entry : Moved(wire, wire', {e}, {x}) /\ x.at = "pruned" /\ x.op = "link"
    BY <1>5, PruneMoves
  <2>2. e \in Entry /\ e.at = "prune" /\ e.op = "link" /\ UNCHANGED <<redis, cut, rules, uncovered>>
    BY <1>5, PruneMoves
  <2> HIDE DEF e
  <2>3. Goal({e}, {x})
    BY <1>5, <2>1, <2>2
  <2> HIDE DEF Goal
  <2> QED BY <2>2, <2>3
<1>6. CASE Linked
  <2> DEFINE e == Head(wire)
  <2>1. /\ e \in Entry /\ e.at = "linked" /\ e.op = "link" /\ UNCHANGED <<redis, cut, rules, uncovered>>
        /\ \/ Moved(wire, wire', {e}, {})
           \/ \E x \in Entry : Moved(wire, wire', {e}, {x}) /\ x.op = "allow" /\ x.at = "sources"
    BY <1>6, LinkedMoves
  <2> HIDE DEF e
  <2>2. ASSUME Moved(wire, wire', {e}, {})  PROVE Goal({e}, {})
    BY <1>6, <2>1, <2>2
  <2>3. ASSUME NEW x \in Entry, Moved(wire, wire', {e}, {x}), x.op = "allow", x.at = "sources"
        PROVE  Goal({e}, {x})
    BY <1>6, <2>1, <2>3
  <2>4. {e} \in SUBSET Entry /\ {} \in SUBSET Entry /\ \A x \in Entry : {x} \in SUBSET Entry
    BY <2>1
  <2> HIDE DEF Goal
  <2> QED BY <2>1, <2>2, <2>3, <2>4
<1>7. CASE Zadd
  <2> DEFINE e == Head(wire)
  <2>0. PICK u \in Seq(Entry), l \in Entry, R \in SUBSET Entry : ZaddStep(e, u, l, R)
    BY <1>7, ZaddMoves
  <2>1. /\ Moved(wire, u, {e}, R) /\ Moved(u, wire', {}, {l}) /\ wire' = Append(u, l)
        /\ \A x \in R : x.op = "revoke" /\ x.at = "sources"
        /\ l.op = "link" /\ l.at = "linked"
    BY <2>0 DEF ZaddStep
  <2>2. e \in Entry /\ e.at = "pruned" /\ e.op = "link" /\ UNCHANGED <<redis, cut, rules, uncovered>>
    BY <1>7, ZaddMoves
  <2> HIDE DEF e
  <2>3. Moved(wire, wire', {e}, R \cup {l})
    BY <1>0, <2>1, MovedTwice
  <2>4. R \cup {l} \in SUBSET Entry /\ \A x \in {e} \cup (R \cup {l}) : x.op \notin {"add", "remove"} /\ x.at # "build"
    BY <2>1, <2>2
  <2>5. Goal({e}, R \cup {l})
    BY <1>7, <2>2, <2>3, <2>4
  <2> HIDE DEF Goal
  <2> QED BY <2>2, <2>4, <2>5
<1>8. CASE LookUp
  <2> DEFINE e == Head(wire)
  <2>1. PICK x \in Entry : Moved(wire, wire', {e}, {x}) /\ x.op = e.op
    BY <1>8, LookUpMoves
  <2>2. e \in Entry /\ e.at = "build" /\ UNCHANGED <<redis, cut, store, uncovered>>
    BY <1>8, LookUpMoves
  <2>3. e.op \in {"allow", "revoke", "snapshot"}
    BY <2>2, KindOf
  <2> HIDE DEF e
  <2>4. Goal({e}, {x})
    BY <1>8, <2>1, <2>2, <2>3
  <2> HIDE DEF Goal
  <2> QED BY <2>2, <2>4
<1>9. CASE Handle \/ StoreTable \/ HandleEvent
  <2>0. PICK e \in Job, T \in [Server -> SUBSET Link], B \in SUBSET Server, S \in SUBSET Server, X \in SUBSET Entry :
          RuleStep(e, T, B, S, X)
    BY <1>9, RuleMoves
  <2>1. /\ Dealt(e, T, B, S, X) /\ X \subseteq Entry
        /\ Moved(wire, wire', {e}, X) \/ Moved(wire, wire', {}, X)
    BY <2>0 DEF RuleStep
  <2>2. UNCHANGED <<redis, cut, store, uncovered>>
    BY <1>9, RuleMoves
  <2>3. e \in Entry /\ \A x \in {e} \cup X : x.op \notin {"add", "remove", "link"}
    BY <2>1 DEF Dealt, Entry, Job
  <2>4. \A E \in SUBSET {e} : E \in SUBSET Entry /\ \A x \in E \cup X : x.op \notin {"add", "remove", "link"}
    BY <2>3
  <2>5. PICK E \in SUBSET {e} : Moved(wire, wire', E, X)
    BY <2>1
  <2>6. Goal(E, X)
    BY <1>9, <2>2, <2>4, <2>5
  <2> QED BY <2>1, <2>4, <2>6
<1>10. CASE Leave \/ UNCHANGED vars
  <2>1. UNCHANGED <<redis, cut, store, rules, unsettled, uncovered, wire>>
    BY <1>10 DEF Leave, vars, knowledge, own, history
  <2>2. Moved(wire, wire', {}, {})
    <3>1. <<>> \in Seq(Entry) /\ On(<<>>) = {} /\ wire = wire \o <<>>
      BY <1>0, ConcatEmptySeq DEF On
    <3> QED BY <2>1, <3>1 DEF Moved
  <2>3. Goal({}, {})
    BY <2>1, <2>2
  <2> HIDE DEF Goal
  <2> QED BY <2>3
<1> HIDE DEF Goal
<1> QED BY <1>1, <1>2, <1>3, <1>4, <1>5, <1>6, <1>7, <1>8, <1>9, <1>10 DEF Next

LEMMA NextKeepsPass ==
  ASSUME TypeOK, PassInv, [Next]_vars
  PROVE  PassInv'
<1>0. wire \in Seq(Entry)
  BY DEF TypeOK
<1>1. CASE PassReply
  BY <1>1, ReplyKeepsPass
<1>2. ASSUME NEW q \in Offered, ChangePass(q)
      PROVE  PassInv'
  <2> SUFFICES ASSUME NEW p \in P!Pass PROVE HeldInv(p)' /\ (p \notin cut => OwnInv(p)')
    BY <1>2, AskMoves DEF PassInv
  <2>1. PICK x \in Entry :
              /\ Moved(wire, wire', {}, {x}) /\ wire' = Append(wire, x)
              /\ x.at = "own" /\ x.pass = q
              /\ \/ x.op = "add" /\ passes' = passes \cup {q}
                 \/ x.op = "remove" /\ passes' = passes \ {q}
    BY <1>2, AskMoves
  <2>2. Keeps(wire, wire', {}, {x}) /\ KeepsOrder(wire, wire', {}, {x})
    BY <1>0, <2>1, StepKeeps
  <2>3. \A K, M : x \in M /\ x \notin K => Followed(wire', K, M)
    BY <1>0, <2>1, LastFollows
  <2>4. HeldInv(p) /\ (p \notin cut => OwnInv(p)) /\ held' = held
    BY <1>2, AskMoves DEF PassInv
  <2>5. HeldInv(p)'
    BY <2>1, <2>2, <2>4, CallSets DEF HeldInv, LastSays, Keeps, KeepsOrder
  <2>6. p \notin cut => OwnInv(p)'
    BY <2>1, <2>2, <2>3, <2>4, CallSets DEF OwnInv, Keeps, KeepsOrder
  <2> QED BY <2>5, <2>6
<1>3. CASE HandlePassAdded \/ HandlePassRemoved
  <2> DEFINE e == Head(wire)
  <2> SUFFICES ASSUME NEW p \in P!Pass PROVE HeldInv(p)' /\ (p \notin cut => OwnInv(p)')
    BY <1>3, TellMoves DEF PassInv
  <2>1. PICK x \in Entry : Moved(wire, wire', {e}, {x}) /\ x.at = "sources"
    BY <1>3, TellMoves
  <2>2. e \in Entry /\ e.at = "tell" /\ UNCHANGED redis
    BY <1>3, TellMoves
  <2>3. Keeps(wire, wire', {e}, {x}) /\ KeepsOrder(wire, wire', {e}, {x})
    BY <1>0, <2>1, StepKeeps
  <2>4. HeldInv(p) /\ (p \notin cut => OwnInv(p)) /\ held' = held /\ passes' = passes
    BY <2>2 DEF PassInv, redis
  <2> HIDE DEF e
  <2>5. HeldInv(p)'
    BY <2>1, <2>2, <2>3, <2>4, CallSets DEF HeldInv, LastSays, Keeps, KeepsOrder
  <2>6. p \notin cut => OwnInv(p)'
    BY <2>1, <2>2, <2>3, <2>4, CallSets DEF OwnInv, Keeps, KeepsOrder
  <2> QED BY <2>5, <2>6
<1>4. CASE Restart
  <2>1. wire' = <<>> /\ cut' = cut \cup (passes \ held) \cup (held \ passes) /\ UNCHANGED redis
    BY <1>4 DEF Restart, P!Restart, redis, P!sets
  <2> QED BY <2>1 DEF PassInv, HeldInv, OwnInv, LastSays, Followed, redis
<1>5. ASSUME NEW E \in SUBSET Entry, NEW X \in SUBSET Entry, Moved(wire, wire', E, X),
             \A x \in E \cup X : x.op \notin {"add", "remove"}, UNCHANGED <<redis, cut>>
      PROVE  PassInv'
  <2> SUFFICES ASSUME NEW p \in P!Pass PROVE HeldInv(p)' /\ (p \notin cut => OwnInv(p)')
    BY <1>5 DEF PassInv
  <2>1. Keeps(wire, wire', E, X) /\ KeepsOrder(wire, wire', E, X)
    BY <1>0, <1>5, StepKeeps
  <2>2. HeldInv(p) /\ (p \notin cut => OwnInv(p)) /\ held' = held /\ passes' = passes
    BY <1>5 DEF PassInv, redis
  <2>3. \A x \in E \cup X : \A at : x \notin Calls("add", at, p) /\ x \notin Calls("remove", at, p)
    BY <1>5 DEF Calls
  <2>4. HeldInv(p)'
    BY <2>1, <2>2, <2>3 DEF HeldInv, LastSays, Keeps, KeepsOrder
  <2>5. p \notin cut => OwnInv(p)'
    BY <2>1, <2>2, <2>3 DEF OwnInv, Keeps, KeepsOrder
  <2> QED BY <2>4, <2>5
<1> QED BY <1>1, <1>2, <1>3, <1>4, <1>5, KindMoves
-----------------------------------------------------------------------------
(***************************************************************************)
(* What has been seen, and what is being built.                            *)
(***************************************************************************)
\* what has left fresh is known to have been seen
SeenEntry(x) ==
  /\ x.op = "link" => <<x.who, x.addr>> \in Seen /\ \A a \in x.old : <<x.who, a>> \in Seen
  /\ x.op = "allow" => \A s \in Server, a \in Address : <<s, a>> \in x.todo => <<x.who, a>> \in Seen
  /\ x.at = "build" => x.found \subseteq Seen
SeenInv ==
  /\ fresh \cup expired \subseteq Seen /\ \A s \in Server : table[s] \subseteq Seen
  /\ \A x \in On(wire) : SeenEntry(x)

\* a call builds a table for its own rules, and a port without one has no rules
PortInv ==
  /\ \A x \in On(wire) : x.at = "build" => x.port \in Ports(x.todo)
  /\ \A s \in Server \ built : table[s] = {}

LEMMA HeadOn ==
  ASSUME NEW w, NEW v, NEW E, NEW X, w \in Seq(Entry), Moved(w, v, E, X)
  PROVE  E \subseteq On(w) /\ On(v) \subseteq On(w) \cup X /\ On(w) \subseteq Entry
<1>1. \A i \in DOMAIN w : w[i] \in Entry
  BY LenProperties
<1> QED BY <1>1, MovedHas DEF On

LEMMA RulesKeepSeen ==
  ASSUME TypeOK, TypeOK', SeenInv, Handle \/ StoreTable \/ HandleEvent
  PROVE  SeenInv'
<1>0. wire \in Seq(Entry) /\ table \in [Server -> SUBSET Link]
  BY DEF TypeOK
<1>1. PICK e \in Job, T \in [Server -> SUBSET Link], B \in SUBSET Server, S \in SUBSET Server, X \in SUBSET Entry :
        RuleStep(e, T, B, S, X)
  BY RuleMoves
<1>2. UNCHANGED store
  BY RuleMoves
<1>3. /\ Dealt(e, T, B, S, X)
      /\ \/ Moved(wire, wire', {e}, X) /\ (T = table \/ (e.at = "build" /\ T = [table EXCEPT ![e.port] = e.found]))
         \/ Moved(wire, wire', {}, X) /\ T = table /\ e.op = "snapshot" /\ e.at = "sources"
  BY <1>1 DEF RuleStep
<1>4. SeenEntry(e)
  <2>1. CASE e \in On(wire)
    BY <2>1 DEF SeenInv
  <2>2. CASE e.op = "snapshot" /\ e.at = "sources"
    BY <2>2 DEF SeenEntry
  <2>3. Moved(wire, wire', {e}, X) => e \in On(wire)
    BY <1>0, HeadOn
  <2> QED BY <1>3, <2>1, <2>2, <2>3
<1>5. On(wire') \subseteq On(wire) \cup X
  BY <1>0, <1>3, HeadOn
<1>6. \A x \in X : SeenEntry(x)
  <2>1. X = {} \/ \E x \in Entry : /\ X = {x} /\ x.op = e.op
          /\ x.todo = {r \in e.todo : r[1] \notin S} /\ x.found = {}
    BY <1>3 DEF Dealt
  <2>2. e.op # "link"
    BY DEF Job
  <2>3. ASSUME NEW x \in X  PROVE SeenEntry(x)
    <3>1. x.op = e.op /\ x.todo \subseteq e.todo /\ x.found = {}
      BY <2>1
    <3>2. x.who = e.who
      BY <1>3 DEF Dealt
    <3> QED BY <1>4, <2>2, <3>1, <3>2 DEF SeenEntry
  <2> QED BY <2>3
<1>7. \A s \in Server : T[s] \subseteq Seen
  BY <1>0, <1>3, <1>4 DEF SeenEntry, SeenInv
<1>8. ASSUME NEW s \in Server  PROVE table'[s] \subseteq Seen
  <2>1. table'[s] \subseteq Link
    BY DEF TypeOK
  <2>2. ASSUME NEW c \in Player, NEW a \in Address, <<c, a>> \in table'[s]
        PROVE  <<c, a>> \in Seen
    <3>1. IF s \in S /\ <<s, a>> \in e.todo /\ c = e.who /\ e.op # "snapshot" THEN e.op = "allow"
          ELSE <<c, a>> \in T[s]
      BY <1>3, <2>2 DEF Dealt
    <3> QED BY <1>4, <1>7, <3>1 DEF SeenEntry
  <2> QED BY <2>1, <2>2 DEF Link
<1> QED BY <1>2, <1>5, <1>6, <1>8 DEF SeenInv, store

LEMMA NextKeepsSeen ==
  ASSUME TypeOK, TypeOK', SeenInv, [Next]_vars
  PROVE  SeenInv'
<1>0. wire \in Seq(Entry) /\ fresh \subseteq Link /\ expired \subseteq Link
  BY DEF TypeOK
<1> DEFINE e == Head(wire)
\* a step that leaves the addresses to the tables, and puts X behind
<1>1. ASSUME NEW E, NEW X, Moved(wire, wire', E, X), fresh' \cup expired' \subseteq Seen,
             UNCHANGED table, \A x \in X : SeenEntry(x)
      PROVE  SeenInv'
  <2>1. On(wire') \subseteq On(wire) \cup X
    BY <1>0, <1>1, HeadOn
  <2> QED BY <1>1, <2>1 DEF SeenInv
<1>2. \A x \in Entry : x.op \in {"add", "remove"} => SeenEntry(x)
  BY KindOf DEF SeenEntry
<1>3. CASE PassReply
  <2>1. /\ e \in Entry /\ e.op \in {"add", "remove"} /\ UNCHANGED own
        /\ \/ Moved(wire, wire', {e}, {})
           \/ \E x \in Entry : Moved(wire, wire', {e}, {x}) /\ x.op = e.op
    BY <1>3, ReplyMoves
  <2>2. fresh' \cup expired' \subseteq Seen /\ UNCHANGED table
    BY <2>1 DEF own, store, rules, SeenInv
  <2> HIDE DEF e
  <2>3. CASE Moved(wire, wire', {e}, {})
    BY <1>1, <2>2, <2>3
  <2>4. ASSUME NEW x \in Entry, Moved(wire, wire', {e}, {x}), x.op = e.op  PROVE SeenInv'
    BY <1>1, <1>2, <2>1, <2>2, <2>4
  <2> QED BY <2>1, <2>3, <2>4
<1>4. ASSUME NEW p \in Offered, ChangePass(p)  PROVE SeenInv'
  <2>1. PICK x \in Entry : Moved(wire, wire', {}, {x}) /\ x.at = "own" /\ x.op \in {"add", "remove"}
    BY <1>4, AskMoves
  <2>2. UNCHANGED <<store, rules>>
    BY <1>4, AskMoves
  <2>3. fresh' \cup expired' \subseteq Seen /\ UNCHANGED table
    BY <2>2 DEF store, rules, SeenInv
  <2> QED BY <1>1, <1>2, <2>1, <2>3
<1>5. CASE HandlePassAdded \/ HandlePassRemoved
  <2> DEFINE s == e.pass[1]
             c == e.pass[2]
  <2>1. PICK x \in Entry : /\ Moved(wire, wire', {e}, {x}) /\ x.at = "sources" /\ x.op \in {"allow", "revoke"}
                           /\ x.who = c /\ x.todo = {s} \X AddressesOf(c, fresh)
    BY <1>5, TellMoves
  <2>2. UNCHANGED <<store, rules>>
    BY <1>5, TellMoves
  <2>3. fresh' \cup expired' \subseteq Seen /\ UNCHANGED table
    BY <2>2 DEF store, rules, SeenInv
  <2>4. SeenEntry(x)
    BY <2>1 DEF SeenEntry, AddressesOf, SeenInv
  <2> HIDE DEF e
  <2> QED BY <1>1, <2>1, <2>3, <2>4
<1>6. ASSUME NEW c \in Player, NEW a \in Address, LinkIp(c, a)  PROVE SeenInv'
  <2>1. PICK x \in Entry :
          /\ Moved(wire, wire', {}, {x}) /\ wire' = Append(wire, x)
          /\ x.op = "link" /\ x.at = "prune" /\ x.who = c /\ x.addr = a
          /\ x.old = AddressesOf(c, expired)
    BY <1>6, LinkIpMoves
  <2>2. <<c, a>> \in Seen /\ UNCHANGED own
    BY <1>6, LinkIpMoves
  <2>3. fresh' \cup expired' \subseteq Seen /\ UNCHANGED table
    BY <2>2 DEF own, store, rules, SeenInv
  <2>4. SeenEntry(x)
    BY <2>1, <2>2 DEF SeenEntry, AddressesOf, SeenInv
  <2> QED BY <1>1, <2>1, <2>3, <2>4
<1>7. ASSUME NEW c \in Player, NEW a \in Address, Expire(c, a)  PROVE SeenInv'
  BY <1>7 DEF Expire, SeenInv, rules
<1>8. CASE Prune
  <2>1. PICK x \in Entry : /\ Moved(wire, wire', {e}, {x}) /\ x.op = "link" /\ x.at = "pruned"
                           /\ x.who = e.who /\ x.addr = e.addr /\ x.old = e.old
    BY <1>8, PruneMoves
  <2>2. e.op = "link" /\ UNCHANGED <<fresh, rules>> /\ expired' \subseteq expired
    BY <1>8, PruneMoves
  <2>3. fresh' \cup expired' \subseteq Seen /\ UNCHANGED table
    BY <2>2 DEF rules, SeenInv
  <2>4. SeenEntry(e)
    BY <1>0, <2>1, HeadOn DEF SeenInv
  <2> HIDE DEF e
  <2>5. SeenEntry(x)
    BY <2>1, <2>2, <2>4 DEF SeenEntry
  <2> QED BY <1>1, <2>1, <2>3, <2>5
<1>9. CASE Zadd
  <2>1. PICK u \in Seq(Entry), l \in Entry, R \in SUBSET Entry : ZaddStep(e, u, l, R)
    BY <1>9, ZaddMoves
  <2>2. e.op = "link" /\ UNCHANGED rules /\ e \in Entry
    BY <1>9, ZaddMoves
  <2> HIDE DEF e
  <2>3. Moved(wire, wire', {e}, R \cup {l})
    BY <1>0, <2>1, MovedTwice DEF ZaddStep
  <2>4. SeenEntry(e)
    BY <1>0, <2>3, HeadOn DEF SeenInv
  <2>5. <<e.who, l.addr>> \in Seen
    BY <2>1, <2>2, <2>4 DEF SeenEntry, ZaddStep
  <2>6. fresh' \cup expired' \subseteq Seen /\ UNCHANGED table
    BY <2>1, <2>2, <2>5 DEF rules, SeenInv, ZaddStep
  <2>7. \A x \in R \cup {l} : SeenEntry(x)
    BY <2>1, <2>2, <2>4, <2>5 DEF SeenEntry, ZaddStep
  <2> QED BY <1>1, <2>3, <2>6, <2>7
<1>10. CASE Linked
  <2>1. /\ e.op = "link" /\ e \in Entry /\ UNCHANGED <<store, rules>>
        /\ \/ Moved(wire, wire', {e}, {})
           \/ \E x \in Entry :
                    /\ Moved(wire, wire', {e}, {x})
                    /\ x.op = "allow" /\ x.at = "sources" /\ x.who = e.who
                    /\ x.todo = P!PassesOf(e.who, held) \X {e.addr}
    BY <1>10, LinkedMoves
  <2> HIDE DEF e
  <2>2. fresh' \cup expired' \subseteq Seen /\ UNCHANGED table
    BY <2>1 DEF store, rules, SeenInv
  <2>3. SeenEntry(e)
    BY <1>0, <2>1, HeadOn DEF SeenInv
  <2>4. CASE Moved(wire, wire', {e}, {})
    BY <1>1, <2>2, <2>4
  <2>5. ASSUME NEW x \in Entry, Moved(wire, wire', {e}, {x}),
               x.op = "allow", x.at = "sources", x.who = e.who,
               x.todo = P!PassesOf(e.who, held) \X {e.addr}
        PROVE  SeenInv'
    <3>1. SeenEntry(x)
      BY <2>1, <2>3, <2>5 DEF SeenEntry
    <3> QED BY <1>1, <2>2, <2>5, <3>1
  <2> QED BY <2>1, <2>4, <2>5
<1>11. CASE Handle \/ StoreTable \/ HandleEvent
  BY <1>11, RulesKeepSeen
<1>12. CASE LookUp
  <2>1. PICK x \in Entry, d \in Player :
          /\ Moved(wire, wire', {e}, {x})
          /\ x.op = e.op /\ x.at = "build" /\ x.who = e.who /\ x.todo = e.todo /\ x.port = e.port
          /\ d \in e.left /\ x.left = e.left \ {d}
          /\ x.found = e.found \cup ({d} \X AddressesOf(d, fresh))
    BY <1>12, LookUpMoves
  <2>2. e \in Entry /\ e.at = "build" /\ UNCHANGED <<store, rules>>
    BY <1>12, LookUpMoves
  <2>3. SeenEntry(e)
    BY <1>0, <2>1, HeadOn DEF SeenInv
  <2>4. e.op # "link"
    BY <2>2, KindOf
  <2> HIDE DEF e
  <2>5. SeenEntry(x)
    BY <2>1, <2>2, <2>3, <2>4 DEF SeenEntry, AddressesOf, SeenInv
  <2>6. fresh' \cup expired' \subseteq Seen /\ UNCHANGED table
    BY <2>2 DEF store, rules, SeenInv
  <2> QED BY <1>1, <2>1, <2>5, <2>6
<1>13. CASE Restart
  BY <1>13 DEF Restart, P!Restart, SeenInv, store, On
<1>14. CASE Leave \/ UNCHANGED vars
  BY <1>14 DEF Leave, vars, own, store, rules, SeenInv
<1> QED BY <1>3, <1>4, <1>5, <1>6, <1>7, <1>8, <1>9, <1>10, <1>11, <1>12, <1>13, <1>14 DEF Next

LEMMA NextKeepsPort ==
  ASSUME TypeOK, TypeOK', PortInv, [Next]_vars
  PROVE  PortInv'
<1>0. wire \in Seq(Entry) /\ table \in [Server -> SUBSET Link]
  BY DEF TypeOK
<1>1. ASSUME NEW E, NEW X, Moved(wire, wire', E, X), UNCHANGED rules, \A x \in X : x.at # "build"
      PROVE  PortInv'
  <2>1. On(wire') \subseteq On(wire) \cup X
    BY <1>0, <1>1, HeadOn
  <2> QED BY <1>1, <2>1 DEF PortInv, rules
<1>2. CASE LookUp
  <2> DEFINE e == Head(wire)
  <2>1. PICK x \in Entry, d \in Player :
          /\ Moved(wire, wire', {e}, {x})
          /\ x.op = e.op /\ x.at = "build" /\ x.who = e.who /\ x.todo = e.todo /\ x.port = e.port
    BY <1>2, LookUpMoves
  <2>2. e \in Entry /\ e.at = "build" /\ UNCHANGED rules
    BY <1>2, LookUpMoves
  <2>3. e \in On(wire) /\ On(wire') \subseteq On(wire) \cup {x}
    BY <1>0, <2>1, HeadOn
  <2> HIDE DEF e
  <2> QED BY <2>1, <2>2, <2>3 DEF PortInv, rules
<1>3. CASE Handle \/ StoreTable \/ HandleEvent
  <2>1. PICK e \in Job, T \in [Server -> SUBSET Link], B \in SUBSET Server, S \in SUBSET Server, X \in SUBSET Entry :
          RuleStep(e, T, B, S, X)
    BY <1>3, RuleMoves
  <2>2. On(wire') \subseteq On(wire) \cup X
    BY <1>0, <2>1, HeadOn DEF RuleStep
  <2>3. \A x \in X : x.at = "build" => x.port \in Ports(x.todo)
    BY <2>1 DEF RuleStep, Dealt
  <2>4. \A s \in Server \ B : T[s] = {}
    BY <1>0, <2>1 DEF RuleStep, PortInv
  <2>5. ASSUME NEW s \in Server \ built'  PROVE table'[s] = {}
    <3>1. s \notin S /\ s \notin B /\ T[s] = {} /\ table'[s] \subseteq Link
      BY <2>1, <2>4, <2>5 DEF RuleStep, Dealt, TypeOK
    <3>2. \A c \in Player, a \in Address : <<c, a>> \notin table'[s]
      BY <2>1, <3>1 DEF RuleStep, Dealt
    <3> QED BY <3>1, <3>2 DEF Link
  <2> QED BY <2>2, <2>3, <2>5 DEF PortInv
<1>4. CASE Restart
  BY <1>4 DEF Restart, P!Restart, PortInv, On
<1> QED BY <1>1, <1>2, <1>3, <1>4, KindMoves DEF rules
-----------------------------------------------------------------------------
(***************************************************************************)
(* linkIp.  While no address expires in the middle of it, the calls of a   *)
(* player that found expired addresses come first, and what one of them    *)
(* adds is linked until IpAdded has been emitted.                          *)
(***************************************************************************)
\* as long as no address expires in the middle of a linkIp: of the logins of c that
\* are under way, those that have found expired addresses come first
LinkInv(c) ==
  /\ Has(wire, Links(c, "pruned")) \/ Has(wire, Links(c, "linked")) => AddressesOf(c, expired) = {}
  /\ \A x \in On(wire) : x \in Links(c, "prune") =>
       AddressesOf(c, expired) \subseteq x.old /\ x.old \cap AddressesOf(c, fresh) = {}
  /\ Has(wire, Links(c, "linked")) => ~ Has(wire, Stale(c, "prune"))
  /\ NoneBehind(wire, Links(c, "pruned"), Stale(c, "prune"))
  /\ NoneBehind(wire, Links(c, "linked"), Stale(c, "pruned"))
  /\ \A a \in AddressesOf(c, fresh) : Has(wire, Finds(c, "pruned", a)) => Has(wire, Adds(c, a))
  /\ \A a \in Address : Has(wire, Adds(c, a)) => a \in AddressesOf(c, fresh)
LinksInv == unsettled # Server => \A c \in Player : LinkInv(c)

LEMMA LinkSets ==
  ASSUME NEW x \in Entry
  PROVE  /\ \A c, at : /\ x \in Links(c, at) <=> x.op = "link" /\ x.at = at /\ x.who = c
                       /\ x \in Stale(c, at) <=> x \in Links(c, at) /\ x.old # {}
                       /\ \A a : x \in Finds(c, at, a) <=> x \in Links(c, at) /\ a \in x.old
         /\ \A c, a : x \in Adds(c, a) <=> x \in Links(c, "linked") /\ x.added /\ x.addr = a
BY DEF Links, Stale, Finds, Adds

LEMMA SomeStale ==
  ASSUME NEW w, NEW c, NEW at, NEW a, Has(w, Finds(c, at, a))
  PROVE  Has(w, Stale(c, at))
BY DEF Has, Finds, Stale

LEMMA UnsettledGrows ==
  ASSUME TypeOK, [Next]_vars, ~ Restart
  PROVE  unsettled \subseteq unsettled'
<1>1. CASE PassReply
  BY <1>1 DEF PassReply, own, history
<1>2. CASE \/ HandlePassAdded \/ HandlePassRemoved \/ Prune \/ Zadd \/ Linked
           \/ \E p \in Offered : ChangePass(p)
  BY <1>2 DEF HandlePassAdded, HandlePassRemoved, Prune, Zadd, Linked, ChangePass, Unsettle
<1>3. CASE \E c \in Player, a \in Address : LinkIp(c, a) \/ Expire(c, a)
  BY <1>3 DEF LinkIp, Expire, own, history, TypeOK
<1>4. CASE Handle \/ LookUp \/ StoreTable \/ HandleEvent \/ Leave \/ UNCHANGED vars
  BY <1>4 DEF Handle, LookUp, StoreTable, HandleEvent, Leave, vars, own, history
<1> QED BY <1>1, <1>2, <1>3, <1>4 DEF Next

\* a step that does not touch the logins of c
LEMMA OthersKeepLink ==
  ASSUME TypeOK, NEW c \in Player, LinkInv(c), NEW E, NEW X, Moved(wire, wire', E, X),
         \A x \in E \cup X : x \in Entry /\ (x.op = "link" => x.who # c),
         AddressesOf(c, fresh') = AddressesOf(c, fresh), AddressesOf(c, expired') = AddressesOf(c, expired)
  PROVE  LinkInv(c)'
<1>1. wire \in Seq(Entry)
  BY DEF TypeOK
<1>2. Keeps(wire, wire', E, X) /\ KeepsOrder(wire, wire', E, X)
  BY <1>1, StepKeeps
<1>3. \A x \in E \cup X : \A at : /\ x \notin Links(c, at) /\ x \notin Stale(c, at)
                                  /\ \A a : x \notin Finds(c, at, a) /\ x \notin Adds(c, a)
  BY LinkSets
<1>4. AddressesOf(c, fresh)' = AddressesOf(c, fresh) /\ AddressesOf(c, expired)' = AddressesOf(c, expired)
  BY DEF AddressesOf
<1>5. Has(wire', Links(c, "pruned")) \/ Has(wire', Links(c, "linked")) => AddressesOf(c, expired)' = {}
  BY <1>2, <1>3, <1>4 DEF LinkInv, Keeps
<1>6. \A x \in On(wire') : x \in Links(c, "prune") =>
       AddressesOf(c, expired)' \subseteq x.old /\ x.old \cap AddressesOf(c, fresh)' = {}
  BY <1>2, <1>3, <1>4 DEF LinkInv, Keeps
<1>7. Has(wire', Links(c, "linked")) => ~ Has(wire', Stale(c, "prune"))
  BY <1>2, <1>3 DEF LinkInv, Keeps
<1>8. /\ NoneBehind(wire', Links(c, "pruned"), Stale(c, "prune"))
      /\ NoneBehind(wire', Links(c, "linked"), Stale(c, "pruned"))
  BY <1>2, <1>3 DEF LinkInv, KeepsOrder
<1>9. \A a \in AddressesOf(c, fresh)' : Has(wire', Finds(c, "pruned", a)) => Has(wire', Adds(c, a))
  BY <1>2, <1>3, <1>4 DEF LinkInv, Keeps
<1>10. \A a \in Address : Has(wire', Adds(c, a)) => a \in AddressesOf(c, fresh)'
  BY <1>2, <1>3, <1>4 DEF LinkInv, Keeps
<1> QED BY <1>5, <1>6, <1>7, <1>8, <1>9, <1>10 DEF LinkInv

LEMMA LinkIpKeepsLink ==
  ASSUME TypeOK, NEW c \in Player, LinkInv(c), NEW a0 \in Address, LinkIp(c, a0)
  PROVE  LinkInv(c)'
<1>1. wire \in Seq(Entry) /\ fresh \cap expired = {}
  BY DEF TypeOK
<1>2. PICK x \in Entry :
          /\ Moved(wire, wire', {}, {x}) /\ wire' = Append(wire, x)
          /\ x.op = "link" /\ x.at = "prune" /\ x.who = c /\ x.addr = a0
          /\ x.old = AddressesOf(c, expired)
  BY LinkIpMoves
<1>3. fresh' = fresh /\ expired' = expired
  BY LinkIpMoves DEF own, store
<1>4. Keeps(wire, wire', {}, {x}) /\ KeepsOrder(wire, wire', {}, {x})
  BY <1>1, <1>2, StepKeeps
<1>5. AddressesOf(c, fresh)' = AddressesOf(c, fresh) /\ AddressesOf(c, expired)' = AddressesOf(c, expired)
      /\ AddressesOf(c, fresh) \cap AddressesOf(c, expired) = {}
  BY <1>1, <1>3 DEF AddressesOf
<1>6. Has(wire', Links(c, "pruned")) \/ Has(wire', Links(c, "linked")) => AddressesOf(c, expired)' = {}
  BY <1>2, <1>4, <1>5, LinkSets DEF LinkInv, Keeps
<1>7. \A y \in On(wire') : y \in Links(c, "prune") =>
       AddressesOf(c, expired)' \subseteq y.old /\ y.old \cap AddressesOf(c, fresh)' = {}
  BY <1>2, <1>4, <1>5, LinkSets DEF LinkInv, Keeps
<1>8. Has(wire', Links(c, "linked")) => ~ Has(wire', Stale(c, "prune"))
  BY <1>2, <1>4, LinkSets DEF LinkInv, Keeps
<1>9. NoneBehind(wire', Links(c, "pruned"), Stale(c, "prune"))
  BY <1>2, <1>4, <1>5, <1>6, LinkSets DEF LinkInv, KeepsOrder
<1>10. NoneBehind(wire', Links(c, "linked"), Stale(c, "pruned"))
  BY <1>2, <1>4, LinkSets DEF LinkInv, KeepsOrder
<1>11. \A a \in AddressesOf(c, fresh)' : Has(wire', Finds(c, "pruned", a)) => Has(wire', Adds(c, a))
  BY <1>2, <1>4, <1>5, LinkSets DEF LinkInv, Keeps
<1>12. \A a \in Address : Has(wire', Adds(c, a)) => a \in AddressesOf(c, fresh)'
  BY <1>2, <1>4, <1>5, LinkSets DEF LinkInv, Keeps
<1> QED BY <1>6, <1>7, <1>8, <1>9, <1>10, <1>11, <1>12 DEF LinkInv

LEMMA PruneKeepsLink ==
  ASSUME TypeOK, NEW c \in Player, LinkInv(c), Prune, Head(wire).who = c
  PROVE  LinkInv(c)'
<1> DEFINE e == Head(wire)
<1>1. wire \in Seq(Entry) /\ fresh' = fresh /\ expired' = expired \ ({c} \X e.old)
      /\ e \in Entry /\ e.op = "link" /\ e.at = "prune"
  BY PruneMoves DEF TypeOK
<1>2. PICK x \in Entry : /\ Moved(wire, wire', {e}, {x}) /\ x.op = "link" /\ x.at = "pruned"
                         /\ x.who = c /\ x.old = e.old
  BY PruneMoves
<1>3. Keeps(wire, wire', {e}, {x}) /\ KeepsOrder(wire, wire', {e}, {x})
  BY <1>1, <1>2, StepKeeps
<1>4. e.who = c
  OBVIOUS
<1> HIDE DEF e
<1>5. /\ e \in On(wire) /\ e \in Links(c, "prune") /\ x \in Links(c, "pruned")
      /\ AddressesOf(c, expired) \subseteq e.old /\ e.old \cap AddressesOf(c, fresh) = {}
  BY <1>1, <1>2, <1>3, <1>4, LinkSets DEF LinkInv, Keeps
<1>6. AddressesOf(c, fresh)' = AddressesOf(c, fresh) /\ AddressesOf(c, expired)' = {}
  BY <1>1, <1>5 DEF AddressesOf
<1>7. \A y \in On(wire') : y \in Links(c, "prune") => y.old \cap AddressesOf(c, fresh)' = {}
  BY <1>2, <1>3, <1>6, LinkSets DEF LinkInv, Keeps
<1>8. Has(wire', Links(c, "linked")) => ~ Has(wire', Stale(c, "prune"))
  BY <1>2, <1>3, LinkSets DEF LinkInv, Keeps
<1>9. NoneBehind(wire', Links(c, "pruned"), Stale(c, "prune"))
  BY <1>2, <1>3, LinkSets DEF LinkInv, KeepsOrder
<1>10. NoneBehind(wire', Links(c, "linked"), Stale(c, "pruned"))
  <2>1. x \in Stale(c, "pruned") => ~ Has(wire', Links(c, "linked"))
    BY <1>2, <1>3, <1>5, LinkSets, <1>1 DEF LinkInv, Keeps
  <2> QED BY <1>3, <2>1 DEF LinkInv, KeepsOrder
<1>11. \A a \in AddressesOf(c, fresh)' : Has(wire', Finds(c, "pruned", a)) => Has(wire', Adds(c, a))
  BY <1>1, <1>2, <1>3, <1>5, <1>6, LinkSets DEF LinkInv, Keeps
<1>12. \A a \in Address : Has(wire', Adds(c, a)) => a \in AddressesOf(c, fresh)'
  BY <1>2, <1>3, <1>6, LinkSets DEF LinkInv, Keeps
<1> QED BY <1>6, <1>7, <1>8, <1>9, <1>10, <1>11, <1>12 DEF LinkInv

LEMMA ZaddKeepsLink ==
  ASSUME TypeOK, NEW c \in Player, LinkInv(c), Zadd, Head(wire).who = c
  PROVE  LinkInv(c)'
<1> DEFINE e == Head(wire)
<1>1. PICK u \in Seq(Entry), l \in Entry, R \in SUBSET Entry : ZaddStep(e, u, l, R)
  BY ZaddMoves
<1>2. e \in Entry /\ e.op = "link" /\ e.at = "pruned" /\ wire \in Seq(Entry)
  BY ZaddMoves DEF TypeOK
<1>3. e.who = c
  OBVIOUS
<1> DEFINE X == R \cup {l}
<1> HIDE DEF e
<1>4. Moved(wire, wire', {e}, X)
  BY <1>1, <1>2, MovedTwice DEF ZaddStep
<1>5. /\ \A x \in X : x \in Entry /\ (x.op = "revoke" \/ x = l)
      /\ l \in X /\ l.op = "link" /\ l.at = "linked" /\ l.who = c /\ l.addr \in Address
      /\ (l.added <=> <<c, l.addr>> \notin fresh \cup expired)
      /\ fresh' = fresh \cup {<<c, l.addr>>} /\ expired' = expired \ {<<c, l.addr>>}
  BY <1>1, <1>3 DEF ZaddStep
<1> HIDE DEF X
<1>6. Keeps(wire, wire', {e}, X) /\ KeepsOrder(wire, wire', {e}, X)
  BY <1>2, <1>4, StepKeeps
<1>7. e \in Links(c, "pruned") /\ Has(wire, Links(c, "pruned")) /\ l \in Links(c, "linked")
  BY <1>2, <1>3, <1>5, <1>6, LinkSets DEF Keeps
<1>8. \A x \in X : \A a : /\ x \notin Links(c, "prune") /\ x \notin Links(c, "pruned")
                          /\ x \notin Stale(c, "prune") /\ x \notin Stale(c, "pruned")
                          /\ x \notin Finds(c, "pruned", a)
                          /\ (x \in Adds(c, a) => x = l)
  <2>1. ASSUME NEW x \in X, NEW a
        PROVE  /\ x \notin Links(c, "prune") /\ x \notin Links(c, "pruned")
               /\ x \notin Stale(c, "prune") /\ x \notin Stale(c, "pruned")
               /\ x \notin Finds(c, "pruned", a) /\ (x \in Adds(c, a) => x = l)
    <3>1. x \in Entry /\ (x.op = "revoke" \/ x = l)
      BY <1>5
    <3>2. CASE x.op = "revoke"
      BY <3>1, <3>2, CallSets
    <3>3. CASE x = l
      BY <1>5, <3>3 DEF Links, Stale, Finds
    <3> QED BY <3>1, <3>2, <3>3
  <2> QED BY <2>1
<1>9. AddressesOf(c, expired) = {}
  BY <1>7 DEF LinkInv
<1>10. AddressesOf(c, fresh)' = AddressesOf(c, fresh) \cup {l.addr} /\ AddressesOf(c, expired)' = {}
  BY <1>5, <1>9 DEF AddressesOf
<1>11. ~ Has(wire', Stale(c, "prune"))
  BY <1>6, <1>7, <1>8 DEF LinkInv, KeepsOrder
<1>12. \A y \in On(wire') : y \in Links(c, "prune") => y.old = {}
  BY <1>11 DEF Has, Stale
<1>13. NoneBehind(wire', Links(c, "pruned"), Stale(c, "prune"))
  BY <1>6, <1>8 DEF LinkInv, KeepsOrder
<1>14. NoneBehind(wire', Links(c, "linked"), Stale(c, "pruned"))
  BY <1>6, <1>8 DEF LinkInv, KeepsOrder
<1>15. ASSUME NEW a \in AddressesOf(c, fresh)', Has(wire', Finds(c, "pruned", a))
       PROVE  Has(wire', Adds(c, a))
  <2>1. Has(wire, Finds(c, "pruned", a))
    BY <1>6, <1>8, <1>15 DEF Keeps
  <2>2. CASE a \in AddressesOf(c, fresh)
    <3>1. Has(wire, Adds(c, a)) /\ e \notin Adds(c, a)
      BY <1>2, <2>1, <2>2, LinkSets DEF LinkInv
    <3> QED BY <1>6, <3>1 DEF Keeps
  <2>3. CASE a \notin AddressesOf(c, fresh)
    <3>1. a = l.addr /\ l.added
      BY <1>5, <1>9, <1>10, <1>15, <2>3 DEF AddressesOf
    <3>2. l \in Adds(c, a)
      BY <1>7, <3>1, LinkSets
    <3> QED BY <1>5, <1>6, <3>2 DEF Keeps
  <2> QED BY <2>2, <2>3
<1>16. \A a \in Address : Has(wire', Adds(c, a)) => a \in AddressesOf(c, fresh)'
  <2>1. \A a : l \in Adds(c, a) => a = l.addr
    BY LinkSets
  <2> QED BY <1>6, <1>8, <1>10, <2>1 DEF LinkInv, Keeps
<1> QED BY <1>10, <1>11, <1>12, <1>13, <1>14, <1>15, <1>16 DEF LinkInv

LEMMA LinkedKeepsLink ==
  ASSUME TypeOK, NEW c \in Player, LinkInv(c), Linked, Head(wire).who = c
  PROVE  LinkInv(c)'
<1> DEFINE e == Head(wire)
<1>1. /\ e \in Entry /\ e.op = "link" /\ e.at = "linked" /\ UNCHANGED <<store>>
      /\ \/ Moved(wire, wire', {e}, {})
         \/ \E x \in Entry : Moved(wire, wire', {e}, {x}) /\ x.op = "allow"
  BY LinkedMoves
<1>2. PICK X \in SUBSET Entry : Moved(wire, wire', {e}, X) /\ \A x \in X : x.op = "allow"
  <2> DEFINE G(X) == Moved(wire, wire', {e}, X) /\ \A x \in X : x.op = "allow"
  <2> SUFFICES \E X \in SUBSET Entry : G(X)
    OBVIOUS
  <2>1. CASE Moved(wire, wire', {e}, {})
    <3>1. G({})
      BY <2>1
    <3> HIDE DEF G
    <3> QED BY <3>1
  <2>2. ASSUME NEW x \in Entry, Moved(wire, wire', {e}, {x}), x.op = "allow"
        PROVE  \E X \in SUBSET Entry : G(X)
    <3>1. G({x})
      BY <2>2
    <3> HIDE DEF G
    <3> QED BY <3>1
  <2> QED BY <1>1, <2>1, <2>2
<1>3. e.who = c /\ wire \in Seq(Entry)
  BY DEF TypeOK
<1> HIDE DEF e
<1>4. Keeps(wire, wire', {e}, X) /\ KeepsOrder(wire, wire', {e}, X)
  BY <1>2, <1>3, StepKeeps
<1>5. \A x \in X : \A at : /\ x \notin Links(c, at) /\ x \notin Stale(c, at)
                           /\ \A a : x \notin Finds(c, at, a) /\ x \notin Adds(c, a)
  BY <1>2, LinkSets
<1>6. AddressesOf(c, fresh)' = AddressesOf(c, fresh) /\ AddressesOf(c, expired)' = AddressesOf(c, expired)
  BY <1>1 DEF AddressesOf, store
<1>7. e \in Links(c, "linked")
  BY <1>1, <1>3, LinkSets
<1>8. ~ Has(wire', Stale(c, "pruned"))
  BY <1>4, <1>5, <1>7 DEF LinkInv, KeepsOrder
<1>9. \A a : ~ Has(wire', Finds(c, "pruned", a))
  BY <1>8, SomeStale
<1>10. Has(wire', Links(c, "pruned")) \/ Has(wire', Links(c, "linked")) => AddressesOf(c, expired)' = {}
  BY <1>4, <1>5, <1>6 DEF LinkInv, Keeps
<1>11. \A y \in On(wire') : y \in Links(c, "prune") =>
       AddressesOf(c, expired)' \subseteq y.old /\ y.old \cap AddressesOf(c, fresh)' = {}
  BY <1>4, <1>5, <1>6 DEF LinkInv, Keeps
<1>12. Has(wire', Links(c, "linked")) => ~ Has(wire', Stale(c, "prune"))
  BY <1>4, <1>5 DEF LinkInv, Keeps
<1>13. /\ NoneBehind(wire', Links(c, "pruned"), Stale(c, "prune"))
       /\ NoneBehind(wire', Links(c, "linked"), Stale(c, "pruned"))
  BY <1>4, <1>5 DEF LinkInv, KeepsOrder
<1>14. \A a \in Address : Has(wire', Adds(c, a)) => a \in AddressesOf(c, fresh)'
  BY <1>4, <1>5, <1>6 DEF LinkInv, Keeps
<1> QED BY <1>9, <1>10, <1>11, <1>12, <1>13, <1>14 DEF LinkInv

LEMMA NextKeepsLinks ==
  ASSUME TypeOK, TypeOK', LinksInv, [Next]_vars
  PROVE  LinksInv'
<1> SUFFICES ASSUME unsettled' # Server, NEW c \in Player  PROVE LinkInv(c)'
  BY DEF LinksInv
<1>0. wire \in Seq(Entry)
  BY DEF TypeOK
<1>1. CASE Restart
  <2>1. wire' = <<>>
    BY <1>1 DEF Restart, P!Restart
  <2> QED BY <2>1 DEF LinkInv, Has, NoneBehind, On
<1>2. CASE ~ Restart
  <2>1. LinkInv(c)
    <3>1. unsettled \subseteq unsettled'
      BY <1>2, UnsettledGrows
    <3>2. unsettled \subseteq Server /\ unsettled' \subseteq Server
      BY DEF TypeOK
    <3> QED BY <3>1, <3>2 DEF LinksInv
  <2>2. PICK E \in SUBSET Entry, X \in SUBSET Entry :
           /\ Moved(wire, wire', E, X)
           /\ \/ /\ \A x \in E \cup X : x.op # "link"
                 /\ UNCHANGED store
              \/ Prune \/ Zadd \/ Linked
              \/ \E d \in Player, a \in Address : LinkIp(d, a) \/ Expire(d, a)
    BY <1>2, KindMoves
  <2>3. CASE UNCHANGED store /\ \A x \in E \cup X : x.op # "link"
    <3>1. AddressesOf(c, fresh') = AddressesOf(c, fresh) /\ AddressesOf(c, expired') = AddressesOf(c, expired)
      BY <2>3 DEF store
    <3> QED BY <2>1, <2>2, <2>3, <3>1, OthersKeepLink
  <2>4. ASSUME NEW d \in Player, NEW a \in Address, LinkIp(d, a)  PROVE LinkInv(c)'
    <3>1. CASE d = c
      BY <2>1, <2>4, <3>1, LinkIpKeepsLink
    <3>2. CASE d # c
      <4>1. PICK x \in Entry :
          /\ Moved(wire, wire', {}, {x}) /\ wire' = Append(wire, x)
          /\ x.op = "link" /\ x.at = "prune" /\ x.who = d /\ x.addr = a
          /\ x.old = AddressesOf(d, expired)
        BY <2>4, LinkIpMoves
      <4>2. UNCHANGED store
        BY <2>4 DEF LinkIp, own
      <4>3. AddressesOf(c, fresh') = AddressesOf(c, fresh) /\ AddressesOf(c, expired') = AddressesOf(c, expired)
        BY <4>2 DEF store
      <4> QED BY <2>1, <3>2, <4>1, <4>3, OthersKeepLink
    <3> QED BY <3>1, <3>2
  <2>5. ASSUME NEW d \in Player, NEW a \in Address, Expire(d, a)  PROVE LinkInv(c)'
    <3>1. LinkOf(d) = {} /\ wire' = wire
      BY <2>5 DEF Expire
    <3>2. CASE d = c
      <4>1. \A x \in On(wire) : x.op = "link" => x.who # c
        BY <3>1, <3>2 DEF LinkOf, On
      <4>2. \A at : ~ Has(wire, Links(c, at)) /\ ~ Has(wire, Stale(c, at))
        BY <4>1 DEF Has, Links, Stale
      <4>3. \A a1 : ~ Has(wire, Finds(c, "pruned", a1)) /\ ~ Has(wire, Adds(c, a1))
        BY <4>1 DEF Has, Finds, Adds, Links
      <4>4. \A x \in On(wire) : \A at : x \notin Links(c, at) /\ x \notin Stale(c, at)
        BY <4>2 DEF Has
      <4>5. \A K, M : NoneBehind(wire, Links(c, K), M)
        BY <4>4 DEF NoneBehind, On
      <4> QED BY <3>1, <4>2, <4>3, <4>4, <4>5 DEF LinkInv
    <3>3. CASE d # c
      <4>1. AddressesOf(c, fresh') = AddressesOf(c, fresh) /\ AddressesOf(c, expired') = AddressesOf(c, expired)
        BY <2>5, <3>3 DEF Expire, AddressesOf
      <4>2. Moved(wire, wire, {}, {})
        <5>1. <<>> \in Seq(Entry) /\ On(<<>>) = {} /\ wire = wire \o <<>>
          BY <1>0, ConcatEmptySeq DEF On
        <5> QED BY <5>1 DEF Moved
      <4> QED BY <2>1, <3>1, <4>1, <4>2, OthersKeepLink
    <3> QED BY <3>2, <3>3
  <2>6. CASE Prune /\ Head(wire).who # c
    <3> DEFINE e == Head(wire)
    <3>1. PICK x \in Entry : Moved(wire, wire', {e}, {x}) /\ x.who = e.who
      BY <2>6, PruneMoves
    <3>2. e \in Entry /\ fresh' = fresh /\ expired' = expired \ ({e.who} \X e.old)
      BY <2>6, PruneMoves
    <3>3. AddressesOf(c, fresh') = AddressesOf(c, fresh) /\ AddressesOf(c, expired') = AddressesOf(c, expired)
      BY <2>6, <3>2 DEF AddressesOf
    <3>4. \A y \in {e} \cup {x} : y \in Entry /\ y.who # c
      BY <2>6, <3>1, <3>2
    <3> HIDE DEF e
    <3> QED BY <2>1, <3>1, <3>3, <3>4, OthersKeepLink
  <2>7. CASE Zadd /\ Head(wire).who # c
    <3> DEFINE e == Head(wire)
    <3>1. PICK u \in Seq(Entry), l \in Entry, R \in SUBSET Entry : ZaddStep(e, u, l, R)
      BY <2>7, ZaddMoves
    <3>2. e \in Entry
      BY <2>7, ZaddMoves
    <3>3. Moved(wire, wire', {e}, R \cup {l})
      BY <1>0, <3>1, MovedTwice DEF ZaddStep
    <3>4. \A x \in {e} \cup (R \cup {l}) : x \in Entry /\ x.who # c
      BY <2>7, <3>1, <3>2 DEF ZaddStep
    <3>5. AddressesOf(c, fresh') = AddressesOf(c, fresh) /\ AddressesOf(c, expired') = AddressesOf(c, expired)
      BY <2>7, <3>1 DEF AddressesOf, ZaddStep
    <3> QED BY <2>1, <3>3, <3>4, <3>5, OthersKeepLink
  <2>8. CASE Linked /\ Head(wire).who # c
    <3> DEFINE e == Head(wire)
    <3>1. /\ e \in Entry /\ UNCHANGED <<store>>
          /\ \/ Moved(wire, wire', {e}, {})
             \/ \E x \in Entry : Moved(wire, wire', {e}, {x}) /\ x.who = e.who
      BY <2>8, LinkedMoves
    <3>2. AddressesOf(c, fresh') = AddressesOf(c, fresh) /\ AddressesOf(c, expired') = AddressesOf(c, expired)
      BY <3>1 DEF store
    <3>3. CASE Moved(wire, wire', {e}, {})
      BY <2>1, <2>8, <3>1, <3>2, <3>3, OthersKeepLink
    <3>4. ASSUME NEW x \in Entry, Moved(wire, wire', {e}, {x}), x.who = e.who  PROVE LinkInv(c)'
      BY <2>1, <2>8, <3>1, <3>2, <3>4, OthersKeepLink
    <3> QED BY <3>1, <3>3, <3>4
  <2>9. CASE (Prune \/ Zadd \/ Linked) /\ Head(wire).who = c
    BY <2>1, <2>9, PruneKeepsLink, ZaddKeepsLink, LinkedKeepsLink
  <2> QED BY <2>2, <2>3, <2>4, <2>5, <2>6, <2>7, <2>8, <2>9
<1> QED BY <1>1, <1>2
-----------------------------------------------------------------------------
(***************************************************************************)
(* The rules of the tables.  RuleInv says of one rule <<s, <<c, a>>>> what *)
(* justifies it when it is listed (Justified), what completes the table    *)
(* when it is missing (Complete), and what handlers may do about it yet.   *)
(***************************************************************************)
In(c, a) == <<c, a>> \in fresh \cup expired
Fresh(c, a) == <<c, a>> \in fresh
Mine(s, c) == <<s, c>> \in held
Lost(s, c, a) == <<s, <<c, a>>>> \in uncovered
Listed(s, c, a) == <<c, a>> \in table[s]
Leaves(s, c) == Has(wire, Calls("remove", "read", <<s, c>>)) \/ Has(wire, Calls("remove", "tell", <<s, c>>))
Comes(s, c, a) == \/ Has(wire, Calls("add", "read", <<s, c>>)) \/ Has(wire, Calls("add", "tell", <<s, c>>))
                  \/ Has(wire, Adds(c, a))
Some(op, s, c, a) == Has(wire, Jobs(op, "sources", c, <<s, a>>)) \/ Has(wire, Jobs(op, "build", c, <<s, a>>))

\* the table of s that is being built, for the first time
BuildRight(s, c, a) ==
  s \notin built =>
    /\ NoneBehind(wire, Builders(s), Calls("add", "own", <<s, c>>))
    /\ NoneBehind(wire, Builders(s), Calls("remove", "own", <<s, c>>))
    /\ \A x \in On(wire) : x \in Builders(s) =>
         /\ c \in x.left => <<s, c>> \in passes
         /\ <<c, a>> \in x.found => <<s, c>> \in passes /\ In(c, a)
         /\ <<s, c>> \in passes /\ Fresh(c, a) => c \in x.left \/ <<c, a>> \in x.found

\* a rule of the table is right, or uncovered, or will be revoked
Justified(s, c, a) ==
  Listed(s, c, a) =>
    \/ Mine(s, c) /\ (In(c, a) \/ Has(wire, Finds(c, "pruned", a)))
    \/ Lost(s, c, a) \/ Leaves(s, c) \/ Some("revoke", s, c, a)

\* what is to be allowed is linked
Allowed(s, c, a) ==
  /\ Some("allow", s, c, a) => In(c, a)
  /\ NoneBehind(wire, Finds(c, "prune", a), Jobs("allow", "sources", c, <<s, a>>))

\* what is allowed without a pass will be revoked, or is uncovered
Withdrawn(s, c, a) ==
  /\ \/ Mine(s, c) \/ Lost(s, c, a) \/ Leaves(s, c)
     \/ Followed(wire, Jobs("allow", "sources", c, <<s, a>>), Jobs("revoke", "sources", c, <<s, a>>))
  /\ s \notin built /\ Has(wire, Jobs("allow", "build", c, <<s, a>>)) =>
       Mine(s, c) \/ Lost(s, c, a) \/ Leaves(s, c) \/ Some("revoke", s, c, a)

\* the same of an ALLOW for several ports, which can wait for another one
LateWithdrawn(s, c, a) ==
  /\ \/ Mine(s, c) \/ Has(wire, Calls("remove", "read", <<s, c>>))
     \/ Followed(wire, Several("allow", "sources", c, <<s, a>>), Calls("remove", "tell", <<s, c>>))
  /\ Has(wire, Several("allow", "build", c, <<s, a>>)) => Mine(s, c) \/ Leaves(s, c)

\* a rule that is missing will be added, after all that revokes it
Complete(s, c, a) ==
  Mine(s, c) /\ Fresh(c, a) =>
    /\ s \in built /\ ~ Listed(s, c, a) => Comes(s, c, a) \/ Some("allow", s, c, a)
    /\ \/ Comes(s, c, a)
       \/ Followed(wire, Jobs("revoke", "sources", c, <<s, a>>), Jobs("allow", "sources", c, <<s, a>>))
    /\ s \notin built /\ Has(wire, Jobs("revoke", "build", c, <<s, a>>)) =>
         Comes(s, c, a) \/ Some("allow", s, c, a)

\* a REVOKE that waits for other ports is overtaken by the end of its linkIp
Overtaken(s, c, a) ==
  /\ Followed(wire, Several("revoke", "sources", c, <<s, a>>), Links(c, "linked"))
  /\ Preceded(wire, Several("revoke", "build", c, <<s, a>>), Links(c, "linked"))

RuleInv(s, c, a) ==
  /\ Justified(s, c, a) /\ Allowed(s, c, a) /\ Withdrawn(s, c, a) /\ LateWithdrawn(s, c, a)
  /\ Complete(s, c, a) /\ Overtaken(s, c, a)
RulesInv ==
  \A s \in Server, c \in Player, a \in Address :
    s \notin unsettled /\ <<s, c>> \notin cut => BuildRight(s, c, a) /\ RuleInv(s, c, a)

LEMMA JobSets ==
  ASSUME NEW x \in Entry
  PROVE  \A op, at, c, s, a :
           /\ x \in Jobs(op, at, c, <<s, a>>) <=> x.op = op /\ x.at = at /\ x.who = c /\ <<s, a>> \in x.todo
           /\ x \in Several(op, at, c, <<s, a>>) <=> x \in Jobs(op, at, c, <<s, a>>) /\ Ports(x.todo) # {s}
BY DEF Jobs, Several

LEMMA SomeJob ==
  ASSUME NEW w, NEW op, NEW at, NEW c, NEW r, Has(w, Several(op, at, c, r))
  PROVE  Has(w, Jobs(op, at, c, r))
BY DEF Has, Several

\* a step that leaves alone what concerns the rule
Aside(x, s, c, a) ==
  /\ \A op \in {"add", "remove"}, at \in {"read", "tell"} : x \notin Calls(op, at, <<s, c>>)
  /\ x \notin Finds(c, "pruned", a) /\ x \notin Links(c, "linked") /\ x \notin Adds(c, a)
  /\ \A op \in {"allow", "revoke"}, at \in {"sources", "build"} :
       x \notin Jobs(op, at, c, <<s, a>>) /\ x \notin Several(op, at, c, <<s, a>>)

LEMMA OthersKeepRule ==
  ASSUME TypeOK, NEW s \in Server, NEW c \in Player, NEW a \in Address, RuleInv(s, c, a),
         NEW E, NEW X, Moved(wire, wire', E, X), \A x \in E \cup X : Aside(x, s, c, a),
         Fresh(c, a)' => Fresh(c, a), In(c, a)' <=> In(c, a), Mine(s, c)' <=> Mine(s, c),
         Lost(s, c, a)' <=> Lost(s, c, a), Listed(s, c, a)' <=> Listed(s, c, a),
         s \in built' <=> s \in built
  PROVE  RuleInv(s, c, a)'
<1>1. wire \in Seq(Entry)
  BY DEF TypeOK
<1>2. Keeps(wire, wire', E, X) /\ KeepsOrder(wire, wire', E, X)
  BY <1>1, StepKeeps
<1>3. Leaves(s, c)' <=> Leaves(s, c)
  BY <1>2 DEF Leaves, Keeps, Aside
<1>4. Comes(s, c, a)' <=> Comes(s, c, a)
  BY <1>2 DEF Comes, Keeps, Aside
<1>5. \A op \in {"allow", "revoke"} : Some(op, s, c, a)' <=> Some(op, s, c, a)
  BY <1>2 DEF Some, Keeps, Aside
<1>6. Justified(s, c, a)'
  BY <1>2, <1>3, <1>5 DEF RuleInv, Justified, Keeps, Aside
<1>7. Allowed(s, c, a)'
  BY <1>2, <1>5 DEF RuleInv, Allowed, KeepsOrder, Aside
<1>8. Withdrawn(s, c, a)'
  BY <1>2, <1>3, <1>5 DEF RuleInv, Withdrawn, Keeps, KeepsOrder, Aside
<1>9. LateWithdrawn(s, c, a)'
  BY <1>2, <1>3 DEF RuleInv, LateWithdrawn, Keeps, KeepsOrder, Aside
<1>10. Complete(s, c, a)'
  BY <1>2, <1>4, <1>5 DEF RuleInv, Complete, Keeps, KeepsOrder, Aside
<1>11. Overtaken(s, c, a)'
  BY <1>2 DEF RuleInv, Overtaken, KeepsOrder, Aside
<1> QED BY <1>6, <1>7, <1>8, <1>9, <1>10, <1>11 DEF RuleInv

\* what changes under way unsettles the port: no call builds its table, or waits with its rules
LEMMA NobodyBuilds ==
  ASSUME TypeOK, PortInv, Unsettle, NEW s \in Server \ unsettled', NEW E, NEW X,
         Moved(wire, wire', E, X), \A x \in X : x.at # "build"
  PROVE  /\ ~ Has(wire', Builders(s)) /\ \A x \in On(wire') : x \notin Builders(s)
         /\ \A op, c, a : /\ ~ Has(wire', Jobs(op, "build", c, <<s, a>>))
                          /\ ~ Has(wire', Several(op, "build", c, <<s, a>>))
         /\ \A op, c, a, M : Preceded(wire', Several(op, "build", c, <<s, a>>), M)
         /\ \A M : NoneBehind(wire', Builders(s), M)
<1>1. wire \in Seq(Entry)
  BY DEF TypeOK
<1>2. \A x \in On(wire) : x.at = "build" => s \notin Ports(x.todo)
  BY DEF Unsettle, Building, On
<1>3. \A x \in On(wire') : x.at = "build" => s \notin Ports(x.todo) /\ x.port # s
  BY <1>1, <1>2, HeadOn DEF PortInv
<1>4. \A x \in On(wire') : x \notin Builders(s)
  BY <1>3 DEF Builders
<1>5. ASSUME NEW x \in On(wire'), NEW op, NEW c, NEW a, x \in Jobs(op, "build", c, <<s, a>>)
      PROVE  FALSE
  <2>1. x \in Entry /\ x.at = "build" /\ <<s, a>> \in x.todo
    BY <1>5 DEF Jobs
  <2>2. x \in Job
    BY <2>1, KindOf
  <2>3. a \in Address
    BY <2>1, <2>2 DEF Job, Rule
  <2>4. s \in Ports(x.todo)
    BY <2>1, <2>3 DEF Ports
  <2> QED BY <1>3, <2>1, <2>4
<1>6. \A op, c, a : Several(op, "build", c, <<s, a>>) \subseteq Jobs(op, "build", c, <<s, a>>)
  BY DEF Several
<1> QED BY <1>4, <1>5, <1>6 DEF Has, Preceded, NoneBehind, On

LEMMA ReplyKeepsRule ==
  ASSUME TypeOK, NEW s \in Server, NEW c \in Player, NEW a \in Address, RuleInv(s, c, a), PassReply
  PROVE  RuleInv(s, c, a)'
<1> DEFINE e == Head(wire)
           p == <<s, c>>
<1>1. /\ e \in Entry /\ e.op \in {"add", "remove"} /\ UNCHANGED own /\ wire \in Seq(Entry)
      /\ \/ /\ Moved(wire, wire', {e}, {}) /\ e.op = "add" /\ e.at = "own" /\ held' = held
         \/ \E x \in Entry :
              /\ Moved(wire, wire', {e}, {x}) /\ wire' = Append(Tail(wire), x)
              /\ x.op = e.op /\ x.pass = e.pass
              /\ \/ /\ e.at = "own" /\ x.at = "read"
                    /\ held' = IF e.op = "add" THEN held \cup {e.pass} ELSE held \ {e.pass}
                 \/ e.at = "read" /\ x.at = "tell" /\ held' = held
  BY ReplyMoves DEF TypeOK
<1>2. /\ Fresh(c, a)' = Fresh(c, a) /\ In(c, a)' = In(c, a)
      /\ Lost(s, c, a)' = Lost(s, c, a) /\ Listed(s, c, a)' = Listed(s, c, a)
      /\ built' = built
  BY <1>1 DEF Fresh, In, Lost, Listed, own, store, rules, history
<1>3. wire # <<>>
  BY DEF PassReply, P!Own, P!Mismatch, P!Disown, P!Read, P!Resumes
<1>4. Tail(wire) \in Seq(Entry)
  BY <1>1, <1>3, HeadTailProperties
<1> HIDE DEF e
\* of these calls only those for the pass matter
<1>5. ASSUME NEW x \in Entry, x.op \in {"add", "remove"}, x.at = "own" \/ x.pass # p
      PROVE  Aside(x, s, c, a)
  BY <1>5, CallSets, LinkSets, ZenonT(60) DEF Aside
<1>6. CASE Moved(wire, wire', {e}, {}) /\ e.at = "own" /\ held' = held
  <2>1. \A x \in {e} \cup {} : Aside(x, s, c, a)
    BY <1>1, <1>5, <1>6
  <2>2. Mine(s, c)' <=> Mine(s, c)
    BY <1>6 DEF Mine
  <2> QED BY <1>2, <1>6, <2>1, <2>2, OthersKeepRule
<1>7. ASSUME NEW x \in Entry, Moved(wire, wire', {e}, {x}), wire' = Append(Tail(wire), x),
             x.op = e.op, x.pass = e.pass,
             \/ /\ e.at = "own" /\ x.at = "read"
                /\ held' = IF e.op = "add" THEN held \cup {e.pass} ELSE held \ {e.pass}
             \/ e.at = "read" /\ x.at = "tell" /\ held' = held
      PROVE  RuleInv(s, c, a)'
  <2>1. CASE e.pass # p
    <3>1. \A y \in {e} \cup {x} : Aside(y, s, c, a)
      BY <1>1, <1>5, <1>7, <2>1
    <3>2. Mine(s, c)' <=> Mine(s, c)
      BY <1>7, <2>1 DEF Mine
    <3> QED BY <1>2, <1>7, <3>1, <3>2, OthersKeepRule
  <2>2. CASE e.pass = p
    <3>1. Keeps(wire, wire', {e}, {x}) /\ KeepsOrder(wire, wire', {e}, {x})
      BY <1>1, <1>7, StepKeeps
    <3>2. \A K, M : x \in M /\ x \notin K => Followed(wire', K, M)
      BY <1>4, <1>7, LastFollows
    <3>3. \A y \in {e, x} : \A op \in {"allow", "revoke"} : \A at :
            /\ y \notin Jobs(op, at, c, <<s, a>>) /\ y \notin Several(op, at, c, <<s, a>>)
            /\ y \notin Finds(c, at, a) /\ y \notin Links(c, at) /\ y \notin Adds(c, a)
      <4>1. ASSUME NEW y \in Entry, y.op \in {"add", "remove"}, NEW op \in {"allow", "revoke"}, NEW at
            PROVE  /\ y \notin Jobs(op, at, c, <<s, a>>) /\ y \notin Several(op, at, c, <<s, a>>)
                   /\ y \notin Finds(c, at, a) /\ y \notin Links(c, at) /\ y \notin Adds(c, a)
        BY <4>1, CallSets
      <4>2. e \in Entry /\ x \in Entry /\ e.op \in {"add", "remove"} /\ x.op \in {"add", "remove"}
        BY <1>1, <1>7
      <4> QED BY <4>1, <4>2
    <3>0. \A op, at : /\ e \in Calls(op, at, p) <=> e.op = op /\ e.at = at
                      /\ x \in Calls(op, at, p) <=> e.op = op /\ x.at = at
      <4>1. e \in Entry
        BY <1>1
      <4> QED BY <1>7, <2>2, <4>1 DEF Calls
    <3>4. /\ Leaves(s, c) => Leaves(s, c)'
          /\ e.op = "remove" => Leaves(s, c)'
      BY <1>7, <3>0, <3>1 DEF Leaves, Keeps
    <3>5. /\ Comes(s, c, a) => Comes(s, c, a)'
          /\ e.op = "add" => Comes(s, c, a)'
      BY <1>7, <3>0, <3>1, <3>3 DEF Comes, Keeps
    <3>6. \A op \in {"allow", "revoke"} : Some(op, s, c, a)' <=> Some(op, s, c, a)
      BY <3>1, <3>3 DEF Some, Keeps
    <3>7. IF e.op = "remove" THEN Mine(s, c)' => Mine(s, c) ELSE Mine(s, c) => Mine(s, c)'
      BY <1>1, <1>7 DEF Mine
    <3>8. e.op = "add" /\ ~ Mine(s, c)' => (Mine(s, c)' <=> Mine(s, c))
      BY <3>7
    <3>9. Justified(s, c, a)'
      BY <1>1, <1>2, <3>1, <3>3, <3>4, <3>6, <3>7 DEF RuleInv, Justified, Keeps
    <3>10. Allowed(s, c, a)'
      BY <1>2, <3>1, <3>3, <3>6 DEF RuleInv, Allowed, KeepsOrder
    <3>11. Withdrawn(s, c, a)'
      BY <1>1, <1>2, <3>1, <3>3, <3>4, <3>6, <3>7 DEF RuleInv, Withdrawn, Keeps, KeepsOrder
    <3>12. LateWithdrawn(s, c, a)'
      <4>1. CASE e.op = "add"
        <5>1. Has(wire, Calls("remove", "read", p)) => Has(wire', Calls("remove", "read", p))
          BY <3>0, <3>1, <4>1 DEF Keeps
        <5> QED BY <1>1, <3>1, <3>3, <3>4, <3>7, <4>1, <5>1 DEF RuleInv, LateWithdrawn, Keeps, KeepsOrder
      <4>2. CASE e.op = "remove" /\ x.at = "read"
        <5>1. Has(wire', Calls("remove", "read", p))
          BY <1>7, <2>2, <3>1, <4>2, CallSets DEF Keeps
        <5> QED BY <3>4, <4>2, <5>1 DEF LateWithdrawn
      <4>3. CASE e.op = "remove" /\ x.at = "tell"
        <5>1. x \in Calls("remove", "tell", p)
          BY <1>7, <2>2, <4>3, CallSets
        <5>2. Followed(wire', Several("allow", "sources", c, <<s, a>>), Calls("remove", "tell", p))
          BY <3>2, <3>3, <5>1
        <5> QED BY <3>4, <4>3, <5>2 DEF LateWithdrawn
      <4> QED BY <1>1, <1>7, <4>1, <4>2, <4>3
    <3>13. Complete(s, c, a)'
      BY <1>1, <1>2, <3>1, <3>3, <3>5, <3>6, <3>7 DEF RuleInv, Complete, Keeps, KeepsOrder
    <3>14. Overtaken(s, c, a)'
      BY <3>1, <3>3 DEF RuleInv, Overtaken, KeepsOrder
    <3> QED BY <3>9, <3>10, <3>11, <3>12, <3>13, <3>14 DEF RuleInv
  <2> QED BY <2>1, <2>2
<1> QED BY <1>1, <1>6, <1>7

\* an entry that concerns another pass, player or address
LEMMA ElseAside ==
  ASSUME NEW x \in Entry, NEW s \in Server, NEW c \in Player, NEW a \in Address,
         x.op \in {"add", "remove"} => x.pass # <<s, c>> \/ x.at = "own",
         x.op = "link" => x.who # c \/ (x.at = "prune"),
         x.op \in {"allow", "revoke"} => x.who # c \/ <<s, a>> \notin x.todo
  PROVE  Aside(x, s, c, a)
<1>1. x.op \in {"add", "remove", "link", "allow", "revoke", "snapshot"}
  BY KindOf
<1>2. \A op \in {"add", "remove"}, at \in {"read", "tell"} : x \notin Calls(op, at, <<s, c>>)
  BY CallSets
<1>3. x \notin Finds(c, "pruned", a) /\ x \notin Links(c, "linked") /\ x \notin Adds(c, a)
  BY DEF Finds, Links, Adds
<1>4. \A op \in {"allow", "revoke"}, at \in {"sources", "build"} :
       x \notin Jobs(op, at, c, <<s, a>>) /\ x \notin Several(op, at, c, <<s, a>>)
  BY JobSets
<1> QED BY <1>2, <1>3, <1>4 DEF Aside

\* nothing of K is on the wire, so all of it is followed
LEMMA NoneFollowed ==
  ASSUME NEW w, NEW K, NEW M, ~ Has(w, K)
  PROVE  Followed(w, K, M) /\ Preceded(w, K, M)
BY DEF Has, Followed, Preceded, On

LEMMA AddTellKeepsRule ==
  ASSUME TypeOK, PortInv, NEW s \in Server \ unsettled', NEW c \in Player, NEW a \in Address,
         LinkInv(c), HeldInv(<<s, c>>), RuleInv(s, c, a),
         HandlePassAdded, Head(wire).pass = <<s, c>>, Head(wire).op = "add"
  PROVE  RuleInv(s, c, a)'
<1> DEFINE e == Head(wire)
           p == <<s, c>>
<1>0. PICK x \in Entry :
              /\ Moved(wire, wire', {e}, {x}) /\ wire' = Append(Tail(wire), x)
              /\ x.at = "sources" /\ x.who = e.pass[2] /\ x.todo = {e.pass[1]} \X AddressesOf(e.pass[2], fresh)
              /\ \/ e.op = "add" /\ x.op = "allow" /\ uncovered' = uncovered
                 \/ /\ e.op = "remove" /\ x.op = "revoke"
                    /\ uncovered' = {u \in uncovered : ~ (u[1] = e.pass[1] /\ u[2][1] = e.pass[2])} \cup
                                      {<<e.pass[1], <<e.pass[2], b>>>> : b \in AddressesOf(e.pass[2], Seen \ fresh)}
  BY TellMoves
<1>1.   /\ Moved(wire, wire', {e}, {x}) /\ wire' = Append(Tail(wire), x)
        /\ x.at = "sources" /\ x.who = c /\ x.todo = {s} \X AddressesOf(c, fresh)
        /\ x.op = "allow" /\ uncovered' = uncovered
  BY <1>0
<1>2. /\ e \in Entry /\ e.at = "tell" /\ wire # <<>>
      /\ UNCHANGED <<redis, cut, store, rules>> /\ Unsettle
  BY TellMoves DEF HandlePassAdded, P!Resumes
<1>3. e.op = "add" /\ e.pass = p /\ wire \in Seq(Entry)
  BY DEF TypeOK
<1> HIDE DEF e
<1>4. /\ Fresh(c, a)' = Fresh(c, a) /\ In(c, a)' = In(c, a) /\ Mine(s, c)' = Mine(s, c)
      /\ Lost(s, c, a)' = Lost(s, c, a) /\ Listed(s, c, a)' = Listed(s, c, a)
      /\ built' = built
  BY <1>1, <1>2 DEF Fresh, In, Mine, Lost, Listed, store, rules, redis
<1>5. Keeps(wire, wire', {e}, {x}) /\ KeepsOrder(wire, wire', {e}, {x})
  BY <1>1, <1>3, StepKeeps
<1>6. \A K, M : x \in M /\ x \notin K => Followed(wire', K, M)
  BY <1>1, <1>2, <1>3, HeadTailProperties, LastFollows
<1>7. /\ \A op, at : ~ Has(wire', Jobs(op, "build", c, <<s, a>>)) /\ ~ Has(wire', Several(op, "build", c, <<s, a>>))
      /\ \A op, M : Preceded(wire', Several(op, "build", c, <<s, a>>), M)
  <2>1. \A y \in {x} : y.at # "build"
    BY <1>1
  <2> QED BY <1>1, <1>2, <2>1, NobodyBuilds
<1>8. /\ e \in Calls("add", "tell", p) /\ \A at : e \notin Calls("remove", at, p)
      /\ e \notin Calls("add", "read", p)
      /\ \A at : e \notin Finds(c, at, a) /\ e \notin Links(c, at) /\ e \notin Adds(c, a)
      /\ \A op \in {"allow", "revoke"} : \A at : e \notin Jobs(op, at, c, <<s, a>>) /\ e \notin Several(op, at, c, <<s, a>>)
  BY <1>2, <1>3 DEF Calls, Finds, Links, Adds, Jobs, Several
<1>9. /\ \A op \in {"add", "remove"} : \A at : x \notin Calls(op, at, p)
      /\ \A at : x \notin Finds(c, at, a) /\ x \notin Links(c, at) /\ x \notin Adds(c, a)
      /\ \A at : x \notin Jobs("revoke", at, c, <<s, a>>) /\ x \notin Several("revoke", at, c, <<s, a>>)
  BY <1>1, CallSets
<1>10. /\ x \in Jobs("allow", "sources", c, <<s, a>>) <=> Fresh(c, a)
       /\ x \notin Several("allow", "sources", c, <<s, a>>)
  <2>1. <<s, a>> \in x.todo <=> Fresh(c, a)
    BY <1>1 DEF AddressesOf, Fresh
  <2>2. <<s, a>> \in x.todo => Ports(x.todo) = {s}
    BY <1>1 DEF Ports, AddressesOf
  <2> QED BY <1>1, <2>1, <2>2 DEF Jobs, Several
<1>11. Leaves(s, c) => Leaves(s, c)'
  BY <1>5, <1>8 DEF Leaves, Keeps
<1>12. Some("revoke", s, c, a) => Some("revoke", s, c, a)'
  BY <1>5, <1>8 DEF Some, Keeps
<1>13. Fresh(c, a) => Some("allow", s, c, a)'
  BY <1>5, <1>10 DEF Some, Keeps
\* the pass is held, or the call that took it away is still to be told
<1>14. Mine(s, c)' \/ Leaves(s, c)'
  BY <1>4, <1>5, <1>8 DEF HeldInv, LastSays, Mine, Leaves, Keeps, KeepsOrder
<1>15. Justified(s, c, a)'
  BY <1>4, <1>5, <1>8, <1>11, <1>12 DEF RuleInv, Justified, Keeps
<1>16. Allowed(s, c, a)'
  <2>1. Some("allow", s, c, a)' => Some("allow", s, c, a) \/ Fresh(c, a)
    BY <1>5, <1>7, <1>10 DEF Some, Keeps
  <2>2. Fresh(c, a) => In(c, a)
    BY DEF Fresh, In
  <2>3. Fresh(c, a) => ~ Has(wire', Finds(c, "prune", a))
    <3>1. ASSUME Fresh(c, a), NEW y \in On(wire'), y \in Finds(c, "prune", a)  PROVE FALSE
      <4>1. y \in On(wire) /\ y \in Links(c, "prune") /\ a \in y.old
        BY <1>5, <1>9, <3>1 DEF Keeps, Finds
      <4>2. a \in AddressesOf(c, fresh)
        BY <3>1 DEF Fresh, AddressesOf
      <4> QED BY <4>1, <4>2 DEF LinkInv
    <3> QED BY <3>1 DEF Has
  <2> QED BY <1>4, <1>5, <1>10, <2>1, <2>2, <2>3 DEF RuleInv, Allowed, KeepsOrder
<1>17. Withdrawn(s, c, a)'
  BY <1>7, <1>14 DEF Withdrawn
<1>18. LateWithdrawn(s, c, a)'
  <2>1. Has(wire, Calls("remove", "read", p)) => Has(wire', Calls("remove", "read", p))
    BY <1>5, <1>8 DEF Keeps
  <2> QED BY <1>4, <1>5, <1>7, <1>10, <2>1 DEF RuleInv, LateWithdrawn, KeepsOrder
<1>19. Complete(s, c, a)'
  <2>1. Fresh(c, a) => Followed(wire', Jobs("revoke", "sources", c, <<s, a>>), Jobs("allow", "sources", c, <<s, a>>))
    BY <1>6, <1>9, <1>10
  <2> QED BY <1>4, <1>7, <1>13, <2>1 DEF Complete
<1>20. Overtaken(s, c, a)'
  BY <1>5, <1>7, <1>9 DEF RuleInv, Overtaken, KeepsOrder
<1> QED BY <1>15, <1>16, <1>17, <1>18, <1>19, <1>20 DEF RuleInv

LEMMA RemoveTellKeepsRule ==
  ASSUME TypeOK, PortInv, SeenInv, NEW s \in Server \ unsettled', NEW c \in Player, NEW a \in Address,
         HeldInv(<<s, c>>), RuleInv(s, c, a),
         HandlePassRemoved, Head(wire).pass = <<s, c>>, Head(wire).op = "remove"
  PROVE  RuleInv(s, c, a)'
<1> DEFINE e == Head(wire)
           p == <<s, c>>
<1>0. PICK x \in Entry :
              /\ Moved(wire, wire', {e}, {x}) /\ wire' = Append(Tail(wire), x)
              /\ x.at = "sources" /\ x.who = e.pass[2] /\ x.todo = {e.pass[1]} \X AddressesOf(e.pass[2], fresh)
              /\ \/ e.op = "add" /\ x.op = "allow" /\ uncovered' = uncovered
                 \/ /\ e.op = "remove" /\ x.op = "revoke"
                    /\ uncovered' = {u \in uncovered : ~ (u[1] = e.pass[1] /\ u[2][1] = e.pass[2])} \cup
                                      {<<e.pass[1], <<e.pass[2], b>>>> : b \in AddressesOf(e.pass[2], Seen \ fresh)}
  BY TellMoves
<1>00. e.op = "remove" /\ e.pass[1] = s /\ e.pass[2] = c
  OBVIOUS
<1>1.   /\ Moved(wire, wire', {e}, {x}) /\ wire' = Append(Tail(wire), x)
        /\ x.at = "sources" /\ x.who = c /\ x.todo = {s} \X AddressesOf(c, fresh)
        /\ x.op = "revoke"
        /\ uncovered' = {u \in uncovered : ~ (u[1] = s /\ u[2][1] = c)} \cup
                          {<<s, <<c, b>>>> : b \in AddressesOf(c, Seen \ fresh)}
  <2> HIDE DEF e
  <2> QED BY <1>0, <1>00
<1>2. /\ e \in Entry /\ e.at = "tell" /\ wire # <<>>
      /\ UNCHANGED <<redis, cut, store, rules>> /\ Unsettle
  BY TellMoves DEF HandlePassRemoved, P!Resumes
<1>3. e.op = "remove" /\ e.pass = p /\ wire \in Seq(Entry)
  BY DEF TypeOK
<1> HIDE DEF e
<1>4. /\ Fresh(c, a)' = Fresh(c, a) /\ In(c, a)' = In(c, a) /\ Mine(s, c)' = Mine(s, c)
      /\ Listed(s, c, a)' = Listed(s, c, a) /\ built' = built
      /\ ~ Fresh(c, a) /\ <<c, a>> \in Seen => Lost(s, c, a)'
  BY <1>1, <1>2 DEF Fresh, In, Mine, Lost, Listed, store, rules, redis, AddressesOf
<1>5. Keeps(wire, wire', {e}, {x}) /\ KeepsOrder(wire, wire', {e}, {x})
  BY <1>1, <1>3, StepKeeps
<1>6. \A K, M : x \in M /\ x \notin K => Followed(wire', K, M)
  BY <1>1, <1>2, <1>3, HeadTailProperties, LastFollows
<1>7. /\ \A op, at : ~ Has(wire', Jobs(op, "build", c, <<s, a>>)) /\ ~ Has(wire', Several(op, "build", c, <<s, a>>))
      /\ \A op, M : Preceded(wire', Several(op, "build", c, <<s, a>>), M)
  <2>1. \A y \in {x} : y.at # "build"
    BY <1>1
  <2> QED BY <1>1, <1>2, <2>1, NobodyBuilds
<1>8. /\ e \in Calls("remove", "tell", p) /\ \A at : e \notin Calls("add", at, p)
      /\ e \notin Calls("remove", "read", p)
      /\ \A at : e \notin Finds(c, at, a) /\ e \notin Links(c, at) /\ e \notin Adds(c, a)
      /\ \A op \in {"allow", "revoke"} : \A at : e \notin Jobs(op, at, c, <<s, a>>) /\ e \notin Several(op, at, c, <<s, a>>)
  BY <1>2, <1>3 DEF Calls, Finds, Links, Adds, Jobs, Several
<1>9. /\ \A op \in {"add", "remove"} : \A at : x \notin Calls(op, at, p)
      /\ \A at : x \notin Finds(c, at, a) /\ x \notin Links(c, at) /\ x \notin Adds(c, a)
      /\ \A at : x \notin Jobs("allow", at, c, <<s, a>>) /\ x \notin Several("allow", at, c, <<s, a>>)
  BY <1>1, CallSets
<1>10. /\ x \in Jobs("revoke", "sources", c, <<s, a>>) <=> Fresh(c, a)
       /\ x \notin Several("revoke", "sources", c, <<s, a>>)
  <2>1. <<s, a>> \in x.todo <=> Fresh(c, a)
    BY <1>1 DEF AddressesOf, Fresh
  <2>2. <<s, a>> \in x.todo => Ports(x.todo) = {s}
    BY <1>1 DEF Ports, AddressesOf
  <2> QED BY <1>1, <2>1, <2>2 DEF Jobs, Several
\* the pass is not held, or the call that brought it back is still to be told
<1>11. Mine(s, c)' => Comes(s, c, a)'
  BY <1>4, <1>5, <1>8 DEF HeldInv, LastSays, Mine, Comes, Keeps, KeepsOrder
<1>12. Fresh(c, a) => Some("revoke", s, c, a)'
  BY <1>5, <1>10 DEF Some, Keeps
<1>13. Justified(s, c, a)'
  <2>1. Listed(s, c, a) => <<c, a>> \in Seen
    BY DEF Listed, SeenInv
  <2> QED BY <1>4, <1>12, <2>1 DEF Justified
<1>14. Allowed(s, c, a)'
  <2>1. Some("allow", s, c, a)' => Some("allow", s, c, a)
    BY <1>5, <1>9 DEF Some, Keeps
  <2> QED BY <1>4, <1>5, <1>9, <2>1 DEF RuleInv, Allowed, KeepsOrder
<1>15. Withdrawn(s, c, a)'
  <2>1. CASE Fresh(c, a)
    <3>1. Followed(wire', Jobs("allow", "sources", c, <<s, a>>), Jobs("revoke", "sources", c, <<s, a>>))
      BY <1>6, <1>9, <1>10, <2>1
    <3> QED BY <1>7, <3>1 DEF Withdrawn
  <2>2. CASE ~ Fresh(c, a) /\ <<c, a>> \in Seen
    BY <1>4, <2>2 DEF Withdrawn
  <2>3. CASE <<c, a>> \notin Seen
    <3>1. ~ Has(wire, Jobs("allow", "sources", c, <<s, a>>))
      BY <2>3 DEF SeenInv, SeenEntry, Has, Jobs
    <3>2. ~ Has(wire', Jobs("allow", "sources", c, <<s, a>>))
      BY <1>5, <1>9, <3>1 DEF Keeps
    <3> QED BY <1>7, <3>2, NoneFollowed DEF Withdrawn
  <2> QED BY <2>1, <2>2, <2>3
<1>16. LateWithdrawn(s, c, a)'
  <2>1. Has(wire, Calls("remove", "read", p)) => Has(wire', Calls("remove", "read", p))
    BY <1>5, <1>8 DEF Keeps
  <2> QED BY <1>4, <1>5, <1>7, <1>9, <2>1 DEF RuleInv, LateWithdrawn, KeepsOrder
<1>17. Complete(s, c, a)'
  BY <1>11 DEF Complete
<1>18. Overtaken(s, c, a)'
  BY <1>5, <1>7, <1>10 DEF RuleInv, Overtaken, KeepsOrder
<1> QED BY <1>13, <1>14, <1>15, <1>16, <1>17, <1>18 DEF RuleInv

LEMMA TellKeepsRule ==
  ASSUME TypeOK, PortInv, SeenInv, NEW s \in Server \ unsettled', NEW c \in Player, NEW a \in Address,
         LinkInv(c), HeldInv(<<s, c>>), RuleInv(s, c, a), HandlePassAdded \/ HandlePassRemoved
  PROVE  RuleInv(s, c, a)'
<1> DEFINE e == Head(wire)
<1>1. CASE e.pass = <<s, c>>
  <2>1. HandlePassAdded => e.op = "add"
    BY DEF HandlePassAdded
  <2>2. HandlePassRemoved => e.op = "remove"
    BY DEF HandlePassRemoved
  <2> QED BY <1>1, <2>1, <2>2, AddTellKeepsRule, RemoveTellKeepsRule
<1>2. CASE e.pass # <<s, c>>
  <2>1. PICK x \in Entry :
              /\ Moved(wire, wire', {e}, {x}) /\ wire' = Append(Tail(wire), x)
              /\ x.at = "sources" /\ x.who = e.pass[2] /\ x.todo = {e.pass[1]} \X AddressesOf(e.pass[2], fresh)
              /\ \/ e.op = "add" /\ x.op = "allow" /\ uncovered' = uncovered
                 \/ /\ e.op = "remove" /\ x.op = "revoke"
                    /\ uncovered' = {u \in uncovered : ~ (u[1] = e.pass[1] /\ u[2][1] = e.pass[2])} \cup
                                      {<<e.pass[1], <<e.pass[2], b>>>> : b \in AddressesOf(e.pass[2], Seen \ fresh)}
    BY TellMoves
  <2>2. e \in Entry /\ e.pass \in P!Pass /\ UNCHANGED <<redis, cut, store, rules>>
    BY TellMoves
  <2>3. e.pass[1] # s \/ e.pass[2] # c
    BY <1>2, <2>2 DEF P!Pass
  <2> HIDE DEF e
  <2>4. /\ Fresh(c, a)' = Fresh(c, a) /\ In(c, a)' = In(c, a) /\ Mine(s, c)' = Mine(s, c)
        /\ Listed(s, c, a)' = Listed(s, c, a) /\ built' = built
    BY <2>2 DEF Fresh, In, Mine, Listed, store, rules, redis
  <2>5. Lost(s, c, a)' = Lost(s, c, a)
    BY <2>1, <2>3 DEF Lost
  <2>6. Aside(e, s, c, a)
    BY <1>2, <2>1, <2>2, ElseAside
  <2>7. Aside(x, s, c, a)
    <3>1. x.who # c \/ <<s, a>> \notin x.todo
      BY <2>1, <2>3
    <3> QED BY <2>1, <3>1, ElseAside
  <2> QED BY <2>1, <2>4, <2>5, <2>6, <2>7, OthersKeepRule
<1> QED BY <1>1, <1>2

LEMMA PruneKeepsRule ==
  ASSUME TypeOK, PortInv, NEW s \in Server \ unsettled', NEW c \in Player, NEW a \in Address,
         RuleInv(s, c, a), Prune
  PROVE  RuleInv(s, c, a)'
<1> DEFINE e == Head(wire)
<1>0. /\ e \in Entry /\ e.op = "link" /\ e.at = "prune" /\ e.who \in Player
      /\ UNCHANGED <<redis, cut, fresh, rules, uncovered>> /\ Unsettle
      /\ expired' = expired \ ({e.who} \X e.old)
  BY PruneMoves
<1>1. PICK x \in Entry :
        /\ Moved(wire, wire', {e}, {x}) /\ wire' = Append(Tail(wire), x)
        /\ x.op = "link" /\ x.at = "pruned" /\ x.who = e.who /\ x.addr = e.addr /\ x.old = e.old
  BY PruneMoves
<1>2. wire \in Seq(Entry)
  BY DEF TypeOK
<1> HIDE DEF e
<1>3. /\ Fresh(c, a)' = Fresh(c, a) /\ Mine(s, c)' = Mine(s, c) /\ Lost(s, c, a)' = Lost(s, c, a)
      /\ Listed(s, c, a)' = Listed(s, c, a) /\ built' = built
  BY <1>0 DEF Fresh, Mine, Lost, Listed, rules, redis
<1>4. CASE e.who # c
  <2>1. In(c, a)' = In(c, a)
    BY <1>0, <1>4 DEF In
  <2>2. Aside(e, s, c, a) /\ Aside(x, s, c, a)
    BY <1>0, <1>1, <1>4, ElseAside
  <2> QED BY <1>1, <1>3, <2>1, <2>2, OthersKeepRule
<1>5. CASE e.who = c
  <2>1. Keeps(wire, wire', {e}, {x}) /\ KeepsOrder(wire, wire', {e}, {x})
    BY <1>1, <1>2, StepKeeps
  <2>2. /\ \A op, at : ~ Has(wire', Jobs(op, "build", c, <<s, a>>)) /\ ~ Has(wire', Several(op, "build", c, <<s, a>>))
        /\ \A op, M : Preceded(wire', Several(op, "build", c, <<s, a>>), M)
    <3>1. \A y \in {x} : y.at # "build"
      BY <1>1
    <3> QED BY <1>0, <1>1, <3>1, NobodyBuilds
  <2>3. /\ \A op \in {"add", "remove"} : \A at : e \notin Calls(op, at, <<s, c>>) /\ x \notin Calls(op, at, <<s, c>>)
        /\ \A op \in {"allow", "revoke"} : \A at : /\ e \notin Jobs(op, at, c, <<s, a>>) /\ e \notin Several(op, at, c, <<s, a>>)
                                               /\ x \notin Jobs(op, at, c, <<s, a>>) /\ x \notin Several(op, at, c, <<s, a>>)
    BY <1>0, <1>1 DEF Calls, Jobs, Several
  <2>4. /\ e \notin Finds(c, "pruned", a) /\ e \notin Links(c, "linked") /\ e \notin Adds(c, a)
        /\ x \notin Links(c, "linked") /\ x \notin Adds(c, a)
        /\ e \in Finds(c, "prune", a) <=> a \in e.old
        /\ x \in Finds(c, "pruned", a) <=> a \in e.old
    BY <1>0, <1>1, <1>5 DEF Finds, Links, Adds
  <2>5. In(c, a) /\ a \notin e.old => In(c, a)'
    BY <1>0 DEF In
  <2>6. Leaves(s, c)' <=> Leaves(s, c)
    BY <2>1, <2>3 DEF Leaves, Keeps
  <2>7. Comes(s, c, a) <=> Comes(s, c, a)'
    BY <2>1, <2>3, <2>4 DEF Comes, Keeps
  <2>8. \A op \in {"allow", "revoke"} : Some(op, s, c, a) <=> Some(op, s, c, a)'
    BY <2>1, <2>3 DEF Some, Keeps
  <2>9. Justified(s, c, a)'
    BY <1>3, <2>1, <2>4, <2>5, <2>6, <2>8 DEF RuleInv, Justified, Keeps
  <2>10. Allowed(s, c, a)'
    <3>1. a \in e.old => ~ Has(wire', Jobs("allow", "sources", c, <<s, a>>))
      BY <2>1, <2>3, <2>4 DEF RuleInv, Allowed, KeepsOrder
    <3>2. Some("allow", s, c, a)' => In(c, a)'
      BY <2>2, <2>5, <2>8, <3>1 DEF RuleInv, Allowed, Some
    <3> QED BY <2>1, <2>3, <3>2 DEF RuleInv, Allowed, KeepsOrder
  <2>11. Withdrawn(s, c, a)'
    BY <1>3, <2>1, <2>2, <2>3, <2>6 DEF RuleInv, Withdrawn, KeepsOrder
  <2>12. LateWithdrawn(s, c, a)'
    BY <1>3, <2>1, <2>2, <2>3 DEF RuleInv, LateWithdrawn, Keeps, KeepsOrder
  <2>13. Complete(s, c, a)'
    BY <1>3, <2>1, <2>2, <2>3, <2>7, <2>8 DEF RuleInv, Complete, KeepsOrder
  <2>14. Overtaken(s, c, a)'
    BY <2>1, <2>2, <2>3 DEF RuleInv, Overtaken, KeepsOrder
  <2> QED BY <2>9, <2>10, <2>11, <2>12, <2>13, <2>14 DEF RuleInv
<1> QED BY <1>4, <1>5

LEMMA ZaddKeepsRule ==
  ASSUME TypeOK, PortInv, NEW s \in Server \ unsettled', NEW c \in Player, NEW a \in Address,
         LinkInv(c), RuleInv(s, c, a), Zadd
  PROVE  RuleInv(s, c, a)'
<1> DEFINE e == Head(wire)
<1>0. /\ e \in Entry /\ e.op = "link" /\ e.at = "pruned" /\ e.who \in Player
      /\ UNCHANGED <<redis, cut, rules, uncovered>> /\ Unsettle
  BY ZaddMoves
<1>1. PICK u \in Seq(Entry), l \in Entry, R \in SUBSET Entry : ZaddStep(e, u, l, R)
  BY ZaddMoves
<1>2. wire \in Seq(Entry)
  BY DEF TypeOK
<1> HIDE DEF e
<1> DEFINE X == R \cup {l}
<1>3. Moved(wire, wire', {e}, X)
  BY <1>1, <1>2, MovedTwice DEF ZaddStep
<1>4. /\ \A x \in X : x \in Entry /\ (x = l \/ x \in R)
      /\ \A x \in R : /\ x \in Entry /\ x \in X /\ x.op = "revoke" /\ x.at = "sources" /\ x.who = e.who
                      /\ \E b \in e.old : x.todo = P!PassesOf(e.who, held) \X {b}
      /\ \A b \in e.old : \E x \in R : x.todo = P!PassesOf(e.who, held) \X {b}
      /\ l \in X /\ l.op = "link" /\ l.at = "linked" /\ l.who = e.who /\ l.addr \in Address
      /\ (l.added <=> <<e.who, l.addr>> \notin fresh \cup expired)
      /\ fresh' = fresh \cup {<<e.who, l.addr>>} /\ expired' = expired \ {<<e.who, l.addr>>}
  BY <1>1 DEF ZaddStep
<1> HIDE DEF X
<1>5. /\ Mine(s, c)' = Mine(s, c) /\ Lost(s, c, a)' = Lost(s, c, a)
      /\ Listed(s, c, a)' = Listed(s, c, a) /\ built' = built
  BY <1>0 DEF Mine, Lost, Listed, rules, redis
<1>6. CASE e.who # c
  <2>1. In(c, a)' = In(c, a) /\ Fresh(c, a)' = Fresh(c, a)
    BY <1>4, <1>6 DEF In, Fresh
  <2>2. \A x \in {e} \cup X : x \in Entry /\ (x.op = "link" \/ x.op = "revoke") /\ x.who # c
    BY <1>0, <1>4, <1>6
  <2>3. \A x \in {e} \cup X : Aside(x, s, c, a)
    BY <2>2, ElseAside
  <2> QED BY <1>3, <1>5, <2>1, <2>3, OthersKeepRule
<1>7. CASE e.who = c
  <2>1. Keeps(wire, wire', {e}, X) /\ KeepsOrder(wire, wire', {e}, X)
    BY <1>2, <1>3, StepKeeps
  <2>2. /\ \A op, at : ~ Has(wire', Jobs(op, "build", c, <<s, a>>)) /\ ~ Has(wire', Several(op, "build", c, <<s, a>>))
        /\ \A op, M : Preceded(wire', Several(op, "build", c, <<s, a>>), M)
    <3>1. \A y \in X : y.at # "build"
      BY <1>4
    <3> QED BY <1>0, <1>3, <3>1, NobodyBuilds
  <2>3. /\ \A op \in {"add", "remove"} : \A at : e \notin Calls(op, at, <<s, c>>)
        /\ \A op \in {"allow", "revoke"} : \A at : e \notin Jobs(op, at, c, <<s, a>>) /\ e \notin Several(op, at, c, <<s, a>>)
        /\ e \notin Links(c, "linked") /\ e \notin Adds(c, a)
        /\ e \in Links(c, "pruned") /\ (e \in Finds(c, "pruned", a) <=> a \in e.old)
    BY <1>0, <1>7 DEF Calls, Jobs, Several, Finds, Links, Adds
  <2>4. ASSUME NEW x \in X
        PROVE  /\ \A op \in {"add", "remove"} : \A at : x \notin Calls(op, at, <<s, c>>)
               /\ \A at : x \notin Jobs("allow", at, c, <<s, a>>) /\ x \notin Several("allow", at, c, <<s, a>>)
               /\ x \notin Finds(c, "pruned", a)
    <3>1. x.op \in {"link", "revoke"} /\ (x.op = "link" => x.at = "linked")
      BY <1>4
    <3> QED BY <3>1 DEF Calls, Jobs, Several, Finds, Links
  <2>5. l \in Links(c, "linked") /\ l \notin Several("revoke", "sources", c, <<s, a>>)
        /\ (l \in Adds(c, a) <=> l.added /\ l.addr = a)
        /\ l \notin Jobs("revoke", "sources", c, <<s, a>>)
    BY <1>4, <1>7 DEF Links, Several, Jobs, Adds
  <2>6. ASSUME Mine(s, c), a \in e.old
        PROVE  \E x \in X : x \in Jobs("revoke", "sources", c, <<s, a>>)
    <3>1. PICK x \in R : x.todo = P!PassesOf(e.who, held) \X {a}
      BY <1>4, <2>6
    <3>2. x \in Entry /\ x \in X /\ x.op = "revoke" /\ x.at = "sources" /\ x.who = c
      BY <1>4, <1>7, <3>1
    <3>3. <<s, a>> \in x.todo
      BY <1>7, <2>6, <3>1 DEF Mine, P!PassesOf
    <3> QED BY <3>2, <3>3 DEF Jobs
  <2>7. ASSUME NEW x \in X, x \in Jobs("revoke", "sources", c, <<s, a>>)  PROVE a \in e.old
    <3>1. x \in R /\ <<s, a>> \in x.todo
      BY <1>4, <2>5, <2>7 DEF Jobs
    <3>2. PICK b \in e.old : x.todo = P!PassesOf(e.who, held) \X {b}
      BY <1>4, <3>1
    <3> QED BY <3>1, <3>2
  \* no address of c is expired by now: what ZADD adds is new
  <2>8. AddressesOf(c, expired) = {}
    BY <2>1, <2>3 DEF LinkInv, Keeps
  <2>9. /\ In(c, a) => In(c, a)'
        /\ Fresh(c, a)' => Fresh(c, a) \/ l \in Adds(c, a)
    BY <1>4, <1>7, <2>5, <2>8 DEF In, Fresh, AddressesOf
  <2>10. Leaves(s, c)' <=> Leaves(s, c)
    BY <2>1, <2>3, <2>4 DEF Leaves, Keeps
  <2>11. /\ Comes(s, c, a) => Comes(s, c, a)'
         /\ l \in Adds(c, a) => Comes(s, c, a)'
    BY <1>4, <2>1, <2>3, <2>4 DEF Comes, Keeps
  <2>12. /\ Some("allow", s, c, a) <=> Some("allow", s, c, a)'
         /\ Some("revoke", s, c, a) => Some("revoke", s, c, a)'
         /\ Mine(s, c) /\ a \in e.old => Some("revoke", s, c, a)'
    BY <2>1, <2>3, <2>4, <2>6, SMTT(30) DEF Some, Keeps
  <2>13. Justified(s, c, a)'
    BY <1>5, <2>1, <2>3, <2>9, <2>10, <2>12 DEF RuleInv, Justified, Keeps
  <2>14. Allowed(s, c, a)'
    BY <2>1, <2>4, <2>9, <2>12 DEF RuleInv, Allowed, KeepsOrder
  <2>15. Withdrawn(s, c, a)'
    BY <1>5, <2>1, <2>2, <2>4, <2>10 DEF RuleInv, Withdrawn, KeepsOrder
  <2>16. LateWithdrawn(s, c, a)'
    BY <1>5, <2>1, <2>2, <2>3, <2>4, SMTT(30) DEF RuleInv, LateWithdrawn, Keeps, KeepsOrder
  <2>17. Complete(s, c, a)'
    <3>1. ASSUME Fresh(c, a), a \in e.old  PROVE Comes(s, c, a)'
      <4>1. Has(wire, Finds(c, "pruned", a)) /\ a \in AddressesOf(c, fresh)
        BY <2>1, <2>3, <3>1 DEF Keeps, Fresh, AddressesOf
      <4>2. Comes(s, c, a)
        BY <4>1 DEF LinkInv, Comes
      <4> QED BY <2>11, <4>2
    <3>2. a \notin e.old => \A x \in X : x \notin Jobs("revoke", "sources", c, <<s, a>>)
      BY <2>7
    <3> QED BY <1>5, <2>1, <2>2, <2>9, <2>11, <2>12, <3>1, <3>2 DEF RuleInv, Complete, KeepsOrder
  <2>18. Overtaken(s, c, a)'
    <3>1. wire' = Append(u, l)
      BY <1>1 DEF ZaddStep
    <3>2. Followed(wire', Several("revoke", "sources", c, <<s, a>>), Links(c, "linked"))
      BY <2>5, <3>1, LastFollows
    <3> QED BY <2>2, <3>2 DEF Overtaken
  <2> QED BY <2>13, <2>14, <2>15, <2>16, <2>17, <2>18 DEF RuleInv
<1> QED BY <1>6, <1>7

LEMMA LinkedKeepsRule ==
  ASSUME TypeOK, PortInv, NEW s \in Server \ unsettled', NEW c \in Player, NEW a \in Address,
         LinkInv(c), RuleInv(s, c, a), Linked
  PROVE  RuleInv(s, c, a)'
<1> DEFINE e == Head(wire)
           K == Jobs("allow", "sources", c, <<s, a>>)
<1>0. /\ e \in Entry /\ e.op = "link" /\ e.at = "linked" /\ e.who \in Player /\ e.addr \in Address
      /\ UNCHANGED <<redis, cut, store, rules, uncovered>> /\ Unsettle
      /\ \/ ~ e.added /\ Moved(wire, wire', {e}, {})
         \/ /\ e.added
            /\ \E x \in Entry :
                 /\ Moved(wire, wire', {e}, {x}) /\ wire' = Append(Tail(wire), x)
                 /\ x.op = "allow" /\ x.at = "sources" /\ x.who = e.who
                 /\ x.todo = P!PassesOf(e.who, held) \X {e.addr}
  BY LinkedMoves
<1>1. wire \in Seq(Entry) /\ wire # <<>>
  BY DEF TypeOK, Linked, P!Resumes
<1>2. Tail(wire) \in Seq(Entry)
  BY <1>1, HeadTailProperties
<1> HIDE DEF e
<1>3. /\ Fresh(c, a)' = Fresh(c, a) /\ In(c, a)' = In(c, a) /\ Mine(s, c)' = Mine(s, c)
      /\ Lost(s, c, a)' = Lost(s, c, a) /\ Listed(s, c, a)' = Listed(s, c, a) /\ built' = built
  BY <1>0 DEF In, Fresh, Mine, Lost, Listed, store, rules, redis
<1> HIDE DEF K
\* X is what becomes of the call: nothing, or the handler of IpAdded
<1>4. ASSUME NEW X \in SUBSET Entry, Moved(wire, wire', {e}, X),
             \A x \in X : /\ e.added /\ wire' = Append(Tail(wire), x)
                          /\ x.op = "allow" /\ x.at = "sources" /\ x.who = e.who
                          /\ x.todo = P!PassesOf(e.who, held) \X {e.addr},
             e.added => X # {}
      PROVE  RuleInv(s, c, a)'
  <2>1. CASE e.who # c
    <3>1. \A x \in {e} \cup X : x \in Entry /\ x.op \in {"link", "allow"} /\ x.who # c
      BY <1>0, <1>4, <2>1
    <3>2. \A x \in {e} \cup X : Aside(x, s, c, a)
      BY <3>1, ElseAside
    <3> QED BY <1>3, <1>4, <3>2, OthersKeepRule
  <2>2. CASE e.who = c
    <3>1. Keeps(wire, wire', {e}, X) /\ KeepsOrder(wire, wire', {e}, X)
      BY <1>1, <1>4, StepKeeps
    <3>2. /\ \A op, at : ~ Has(wire', Jobs(op, "build", c, <<s, a>>)) /\ ~ Has(wire', Several(op, "build", c, <<s, a>>))
          /\ \A op, M : Preceded(wire', Several(op, "build", c, <<s, a>>), M)
      <4>1. \A y \in X : y.at # "build"
        BY <1>4
      <4> QED BY <1>0, <1>4, <4>1, NobodyBuilds
    <3>3. /\ \A op \in {"add", "remove"} : \A at : e \notin Calls(op, at, <<s, c>>)
          /\ \A op \in {"allow", "revoke"} : \A at : e \notin Jobs(op, at, c, <<s, a>>) /\ e \notin Several(op, at, c, <<s, a>>)
          /\ e \in Links(c, "linked") /\ (e \in Adds(c, a) <=> e.added /\ e.addr = a)
          /\ e \notin Finds(c, "pruned", a) /\ e \notin K
      BY <1>0, <2>2 DEF Calls, Jobs, Several, Finds, Links, Adds, K
    <3>4. ASSUME NEW x \in X
          PROVE  /\ \A op \in {"add", "remove"} : \A at : x \notin Calls(op, at, <<s, c>>)
                 /\ \A at : x \notin Jobs("revoke", at, c, <<s, a>>) /\ x \notin Several("revoke", at, c, <<s, a>>)
                 /\ x \notin Finds(c, "pruned", a) /\ x \notin Links(c, "linked") /\ x \notin Adds(c, a)
                 /\ x \in K <=> Mine(s, c) /\ e.addr = a
                 /\ x \in Several("allow", "sources", c, <<s, a>>) => Mine(s, c)
      <4>1. x \in Entry /\ x.op = "allow" /\ x.at = "sources" /\ x.who = c
        BY <1>4, <2>2
      <4>2. <<s, a>> \in x.todo <=> Mine(s, c) /\ e.addr = a
        BY <1>4, <2>2 DEF Mine, P!PassesOf
      <4> QED BY <4>1, <4>2 DEF Calls, Jobs, Several, Finds, Links, Adds, K
    \* IpAdded is told of an address that is linked
    <3>5. e.added /\ e.addr = a => Fresh(c, a) /\ In(c, a) /\ ~ Has(wire', Finds(c, "prune", a))
      <4>1. ASSUME e.added, e.addr = a  PROVE Has(wire, Adds(c, a))
        BY <3>1, <3>3, <4>1 DEF Keeps
      <4>2. Has(wire, Adds(c, a)) => a \in AddressesOf(c, fresh)
        BY DEF LinkInv
      <4>3. ASSUME a \in AddressesOf(c, fresh), NEW y \in On(wire'), y \in Finds(c, "prune", a)  PROVE FALSE
        <5>1. y \in Links(c, "prune") /\ a \in y.old /\ y.op = "link"
          BY <4>3 DEF Finds, Links
        <5>2. y \in On(wire)
          BY <1>4, <3>1, <5>1 DEF Keeps
        <5> QED BY <4>3, <5>1, <5>2 DEF LinkInv
      <4> QED BY <4>1, <4>2, <4>3 DEF Has, Fresh, In, AddressesOf
    <3>6. Leaves(s, c)' <=> Leaves(s, c)
      BY <3>1, <3>3, <3>4 DEF Leaves, Keeps
    <3>7. Mine(s, c) /\ e.added /\ e.addr = a => Has(wire', K) /\ Followed(wire', Jobs("revoke", "sources", c, <<s, a>>), K)
      <4>1. ASSUME Mine(s, c), e.added, e.addr = a
            PROVE  Has(wire', K) /\ Followed(wire', Jobs("revoke", "sources", c, <<s, a>>), K)
        <5>1. PICK x \in X : x \in K /\ x \notin Jobs("revoke", "sources", c, <<s, a>>)
          BY <1>4, <3>4, <4>1
        <5>2. Has(wire', K)
          BY <3>1, <5>1 DEF Keeps
        <5>3. wire' = Append(Tail(wire), x) /\ x \in Entry
          BY <1>4
        <5> QED BY <1>2, <5>1, <5>2, <5>3, LastFollows
      <4> QED BY <4>1
    <3>8. Comes(s, c, a) => Comes(s, c, a)' \/ (e.added /\ e.addr = a)
      BY <3>1, <3>3 DEF Comes, Keeps
    <3>9. /\ Some("allow", s, c, a) => Some("allow", s, c, a)'
          /\ Some("revoke", s, c, a) <=> Some("revoke", s, c, a)'
      BY <3>1, <3>3, <3>4 DEF Some, Keeps
    <3>10. Some("allow", s, c, a)' => Some("allow", s, c, a) \/ (e.added /\ e.addr = a)
      BY <1>4, <3>1, <3>2, <3>4 DEF Some, Keeps, K
    <3>11. Justified(s, c, a)'
      BY <1>3, <3>1, <3>3, <3>6, <3>9 DEF RuleInv, Justified, Keeps
    <3>12. Allowed(s, c, a)'
      <4>1. (\A x \in X : x \notin K) \/ ~ Has(wire', Finds(c, "prune", a))
        BY <1>4, <3>4, <3>5
      <4> QED BY <1>3, <3>1, <3>5, <3>10, <4>1 DEF RuleInv, Allowed, KeepsOrder, K
    <3>13. Withdrawn(s, c, a)'
      BY <1>3, <3>1, <3>2, <3>4, <3>6 DEF RuleInv, Withdrawn, KeepsOrder, K
    <3>14. LateWithdrawn(s, c, a)'
      BY <1>3, <3>1, <3>2, <3>3, <3>4 DEF RuleInv, LateWithdrawn, Keeps, KeepsOrder
    <3>15. Complete(s, c, a)'
      <4>1. Mine(s, c) /\ e.added /\ e.addr = a => Some("allow", s, c, a)'
        BY <3>7 DEF Some, K
      <4> QED BY <1>3, <3>1, <3>2, <3>4, <3>7, <3>8, <3>9, <4>1 DEF RuleInv, Complete, KeepsOrder, K
    <3>16. Overtaken(s, c, a)'
      BY <3>1, <3>2, <3>4 DEF RuleInv, Overtaken, KeepsOrder
    <3> QED BY <3>11, <3>12, <3>13, <3>14, <3>15, <3>16 DEF RuleInv
  <2> QED BY <2>1, <2>2
<1>5. CASE ~ e.added /\ Moved(wire, wire', {e}, {})
  <2> DEFINE X == {}
  <2>1. /\ X \in SUBSET Entry /\ Moved(wire, wire', {e}, X) /\ (e.added => X # {})
        /\ \A x \in X : FALSE
    BY <1>5
  <2> HIDE DEF X
  <2> QED BY <1>4, <2>1
<1>6. ASSUME e.added, NEW x \in Entry,
             Moved(wire, wire', {e}, {x}), wire' = Append(Tail(wire), x),
             x.op = "allow", x.at = "sources", x.who = e.who,
             x.todo = P!PassesOf(e.who, held) \X {e.addr}
      PROVE  RuleInv(s, c, a)'
  <2> DEFINE X == {x}
  <2>1. /\ X \in SUBSET Entry /\ Moved(wire, wire', {e}, X) /\ (e.added => X # {})
        /\ \A y \in X : y = x
    BY <1>6
  <2> HIDE DEF X
  <2> QED BY <1>4, <1>6, <2>1
<1> QED BY <1>0, <1>5, <1>6

LEMMA LookUpKeepsRule ==
  ASSUME TypeOK, NEW s \in Server, NEW c \in Player, NEW a \in Address, RuleInv(s, c, a), LookUp
  PROVE  RuleInv(s, c, a)'
<1> DEFINE e == Head(wire)
<1>0. e \in Entry /\ e.at = "build" /\ UNCHANGED <<redis, cut, store, rules, unsettled, uncovered>>
  BY LookUpMoves
<1>1. PICK x \in Entry, d \in Player :
              /\ Moved(wire, wire', {e}, {x})
              /\ x.op = e.op /\ x.at = "build" /\ x.who = e.who /\ x.todo = e.todo /\ x.port = e.port
              /\ d \in e.left /\ x.left = e.left \ {d}
              /\ x.found = e.found \cup ({d} \X AddressesOf(d, fresh))
  BY LookUpMoves
<1>2. wire \in Seq(Entry) /\ e.op \in {"allow", "revoke", "snapshot"}
  BY <1>0, KindOf DEF TypeOK
<1> HIDE DEF e
<1>3. /\ Fresh(c, a)' = Fresh(c, a) /\ In(c, a)' = In(c, a) /\ Mine(s, c)' = Mine(s, c)
      /\ Lost(s, c, a)' = Lost(s, c, a) /\ Listed(s, c, a)' = Listed(s, c, a) /\ built' = built
  BY <1>0 DEF In, Fresh, Mine, Lost, Listed, store, rules, redis
<1>4. Keeps(wire, wire', {e}, {x}) /\ KeepsOrder(wire, wire', {e}, {x})
  BY <1>1, <1>2, StepKeeps
<1>5. ASSUME NEW y \in {e, x}
      PROVE  /\ \A op \in {"add", "remove"} : \A at : y \notin Calls(op, at, <<s, c>>)
             /\ \A at : y \notin Links(c, at) /\ y \notin Finds(c, at, a)
             /\ y \notin Adds(c, a)
             /\ \A op \in {"allow", "revoke"} : /\ y \notin Jobs(op, "sources", c, <<s, a>>)
                                                /\ y \notin Several(op, "sources", c, <<s, a>>)
  <2>1. y.op \in {"allow", "revoke", "snapshot"} /\ y.at = "build"
    BY <1>0, <1>1, <1>2
  <2> QED BY <2>1 DEF Calls, Links, Finds, Adds, Jobs, Several
<1>6. \A op : /\ x \in Jobs(op, "build", c, <<s, a>>) <=> e \in Jobs(op, "build", c, <<s, a>>)
              /\ x \in Several(op, "build", c, <<s, a>>) <=> e \in Several(op, "build", c, <<s, a>>)
  BY <1>0, <1>1 DEF Jobs, Several
<1>7. Leaves(s, c)' <=> Leaves(s, c)
  BY <1>4, <1>5 DEF Leaves, Keeps
<1>8. Comes(s, c, a) <=> Comes(s, c, a)'
  BY <1>4, <1>5 DEF Comes, Keeps
<1>9. \A op \in {"allow", "revoke"} :
        /\ Has(wire', Jobs(op, "build", c, <<s, a>>)) <=> Has(wire, Jobs(op, "build", c, <<s, a>>))
        /\ Has(wire', Several(op, "build", c, <<s, a>>)) <=> Has(wire, Several(op, "build", c, <<s, a>>))
        /\ Some(op, s, c, a) <=> Some(op, s, c, a)'
  BY <1>4, <1>5, <1>6 DEF Some, Keeps
<1>10. Justified(s, c, a)'
  BY <1>3, <1>4, <1>5, <1>7, <1>9 DEF RuleInv, Justified, Keeps
<1>11. Allowed(s, c, a)'
  BY <1>3, <1>4, <1>5, <1>9 DEF RuleInv, Allowed, KeepsOrder
<1>12. Withdrawn(s, c, a)'
  BY <1>3, <1>4, <1>5, <1>7, <1>9 DEF RuleInv, Withdrawn, KeepsOrder
<1>13. LateWithdrawn(s, c, a)'
  BY <1>3, <1>4, <1>5, <1>7, <1>9 DEF RuleInv, LateWithdrawn, Keeps, KeepsOrder
<1>14. Complete(s, c, a)'
  BY <1>3, <1>4, <1>5, <1>8, <1>9 DEF RuleInv, Complete, KeepsOrder
<1>15. Overtaken(s, c, a)'
  BY <1>4, <1>5, <1>6 DEF RuleInv, Overtaken, KeepsOrder
<1> QED BY <1>10, <1>11, <1>12, <1>13, <1>14, <1>15 DEF RuleInv
-----------------------------------------------------------------------------
(***************************************************************************)
(* The handlers, and the first table of a port.                            *)
(***************************************************************************)
\* what a handler or a builder is not
LEMMA JobAside ==
  ASSUME NEW y \in Entry, y.op \in {"allow", "revoke", "snapshot"}, NEW s, NEW c, NEW a
  PROVE  /\ \A op \in {"add", "remove"} : \A at : y \notin Calls(op, at, <<s, c>>)
         /\ \A at : y \notin Links(c, at) /\ y \notin Finds(c, at, a)
         /\ y \notin Adds(c, a)
         /\ \A op, at : y.op # op \/ y.at # at =>
              y \notin Jobs(op, at, c, <<s, a>>) /\ y \notin Several(op, at, c, <<s, a>>)
BY DEF Calls, Links, Finds, Adds, Jobs, Several

\* rules that are dealt with, or wait for another port, while s keeps or lacks its table
LEMMA DealtKeepsRule ==
  ASSUME TypeOK, PortInv, NEW s \in Server, NEW c \in Player, NEW a \in Address, RuleInv(s, c, a),
         UNCHANGED <<redis, store, uncovered>>,
         NEW e \in Job, NEW T \in [Server -> SUBSET Link], NEW B, NEW S, NEW X,
         Dealt(e, T, B, S, X), X \subseteq Entry, Moved(wire, wire', {e}, X), e \in On(wire),
         T[s] = table[s], s \in B <=> s \in built, e.at = "build" => e.port # s,
         e.op \in {"allow", "revoke"}, e.who = c, <<s, a>> \in e.todo
  PROVE  RuleInv(s, c, a)'
<1>1. wire \in Seq(Entry) /\ e \in Entry /\ e.at \in {"sources", "build"}
  BY DEF TypeOK, Entry, Job
<1>2. /\ Fresh(c, a)' = Fresh(c, a) /\ In(c, a)' = In(c, a) /\ Mine(s, c)' = Mine(s, c)
      /\ Lost(s, c, a)' = Lost(s, c, a)
  BY DEF In, Fresh, Mine, Lost, store, redis
<1>3. Keeps(wire, wire', {e}, X) /\ KeepsOrder(wire, wire', {e}, X)
  BY <1>1, StepKeeps
<1>4. \A x \in X : /\ x \in Entry /\ x.op = e.op /\ x.at = "build" /\ x.who = c
                   /\ x.todo = {r \in e.todo : r[1] \notin S}
  BY DEF Dealt
<1>5. /\ \A op \in {"add", "remove"} : \A at : e \notin Calls(op, at, <<s, c>>)
      /\ \A at : e \notin Links(c, at) /\ e \notin Finds(c, at, a)
      /\ e \notin Adds(c, a)
      /\ \A op, at : e.op # op \/ e.at # at =>
           e \notin Jobs(op, at, c, <<s, a>>) /\ e \notin Several(op, at, c, <<s, a>>)
      /\ e \in Jobs(e.op, e.at, c, <<s, a>>)
  <2>1. e \in Jobs(e.op, e.at, c, <<s, a>>)
    BY <1>1, JobSets
  <2> QED BY <1>1, <2>1, JobAside
<1>6. ASSUME NEW x \in X
      PROVE  /\ \A op \in {"add", "remove"} : \A at : x \notin Calls(op, at, <<s, c>>)
             /\ \A at : x \notin Links(c, at) /\ x \notin Finds(c, at, a)
             /\ x \notin Adds(c, a)
             /\ \A op, at : e.op # op \/ "build" # at =>
                  x \notin Jobs(op, at, c, <<s, a>>) /\ x \notin Several(op, at, c, <<s, a>>)
  <2>1. x \in Entry /\ x.op = e.op /\ x.op \in {"allow", "revoke", "snapshot"} /\ x.at = "build"
    BY <1>4
  <2> QED BY <2>1, JobAside
\* a rule of s that waits for the table of another port is one of several
<1>7. e.at = "build" => e \in Several(e.op, "build", c, <<s, a>>)
  <2>1. e.at = "build" => e.port \in Ports(e.todo) /\ e.port # s
    BY DEF PortInv
  <2> QED BY <1>5, <2>1 DEF Several
<1>8. Leaves(s, c)' <=> Leaves(s, c)
  BY <1>3, <1>5, <1>6 DEF Leaves, Keeps
<1>9. Comes(s, c, a) <=> Comes(s, c, a)'
  BY <1>3, <1>5, <1>6 DEF Comes, Keeps
<1>10. \A op \in {"allow", "revoke"} : op # e.op => (Some(op, s, c, a) <=> Some(op, s, c, a)')
  BY <1>3, <1>5, <1>6 DEF Some, Keeps
<1>11. Some(e.op, s, c, a)
  BY <1>1, <1>3, <1>5 DEF Some, Keeps
<1>12. ~ (e.op = "revoke" /\ e.at = "build")
  BY <1>3, <1>7 DEF RuleInv, Overtaken, KeepsOrder
<1>13. e.op = "allow" => \/ Mine(s, c) \/ Lost(s, c, a) \/ Leaves(s, c)'
                         \/ Has(wire', Jobs("revoke", "sources", c, <<s, a>>))
  <2>1. CASE e.at = "sources"
    BY <1>3, <1>5, <1>8, <2>1 DEF RuleInv, Withdrawn, KeepsOrder
  <2>2. CASE e.at = "build"
    BY <1>3, <1>7, <1>8, <2>2 DEF RuleInv, LateWithdrawn, Keeps
  <2> QED BY <1>1, <2>1, <2>2
<1>14. e.op = "revoke" /\ Mine(s, c) /\ Fresh(c, a) =>
         Comes(s, c, a)' \/ Has(wire', Jobs("allow", "sources", c, <<s, a>>))
  BY <1>1, <1>3, <1>5, <1>9, <1>12 DEF RuleInv, Complete, KeepsOrder
<1>15. CASE s \in S
  <2>1. s \in built /\ s \in built' /\ (Listed(s, c, a)' <=> e.op = "allow")
    BY <1>15 DEF Dealt, Listed
  <2>2. \A x \in X : \A op, at : x \notin Jobs(op, at, c, <<s, a>>) /\ x \notin Several(op, at, c, <<s, a>>)
    BY <1>4, <1>15 DEF Jobs, Several
  <2>3. \A op \in {"allow", "revoke"} : Some(op, s, c, a)' => Some(op, s, c, a)
    BY <1>3, <2>2 DEF Some, Keeps
  <2>4. Justified(s, c, a)'
    <3>1. e.op = "allow" => In(c, a)'
      BY <1>2, <1>11 DEF RuleInv, Allowed
    <3> QED BY <1>2, <1>13, <2>1, <3>1 DEF Justified, Some
  <2>5. Allowed(s, c, a)'
    BY <1>2, <1>3, <2>2, <2>3 DEF RuleInv, Allowed, KeepsOrder
  <2>6. Withdrawn(s, c, a)'
    BY <1>2, <1>3, <1>8, <2>1, <2>2 DEF RuleInv, Withdrawn, KeepsOrder
  <2>7. LateWithdrawn(s, c, a)'
    BY <1>2, <1>3, <1>5, <1>8, <2>2 DEF RuleInv, LateWithdrawn, Keeps, KeepsOrder
  <2>8. Complete(s, c, a)'
    <3>1. CASE e.op = "allow"
      BY <1>2, <1>3, <1>9, <2>1, <2>2, <3>1 DEF RuleInv, Complete, KeepsOrder
    <3>2. CASE e.op = "revoke"
      BY <1>2, <1>3, <1>9, <1>14, <2>1, <2>2, <3>2 DEF RuleInv, Complete, KeepsOrder, Some
    <3> QED BY <3>1, <3>2
  <2>9. Overtaken(s, c, a)'
    BY <1>3, <1>5, <2>2 DEF RuleInv, Overtaken, KeepsOrder
  <2> QED BY <2>4, <2>5, <2>6, <2>7, <2>8, <2>9 DEF RuleInv
<1>16. CASE s \notin S
  <2>1. (s \in built' <=> s \in built) /\ (Listed(s, c, a)' <=> Listed(s, c, a))
    BY <1>16 DEF Dealt, Listed
  <2>2. PICK x \in X : x \in Jobs(e.op, "build", c, <<s, a>>)
    <3>1. X # {}
      BY <1>16 DEF Dealt
    <3>2. \A y \in X : <<s, a>> \in y.todo
      BY <1>4, <1>16
    <3> QED BY <1>4, <3>1, <3>2, JobSets
  <2>3. Has(wire', Jobs(e.op, "build", c, <<s, a>>)) /\ Some(e.op, s, c, a)'
    BY <1>3, <2>2 DEF Keeps, Some
  <2>4. \A op \in {"allow", "revoke"} : Some(op, s, c, a)' <=> Some(op, s, c, a)
    BY <1>10, <1>11, <2>3
  <2>5. \A y \in X : y \in Several(e.op, "build", c, <<s, a>>) => e \in Several(e.op, e.at, c, <<s, a>>)
    <3>1. ASSUME NEW y \in X, Ports(y.todo) # {s}, <<s, a>> \in y.todo  PROVE Ports(e.todo) # {s}
      BY <1>4, <3>1 DEF Ports
    <3> QED BY <1>5, <3>1 DEF Several, Jobs
  <2>6. Justified(s, c, a)'
    BY <1>2, <1>3, <1>5, <1>8, <2>1, <2>4 DEF RuleInv, Justified, Keeps
  <2>7. Allowed(s, c, a)'
    BY <1>2, <1>3, <1>6, <2>4 DEF RuleInv, Allowed, KeepsOrder
  <2>8. Withdrawn(s, c, a)'
    <3>1. \/ Mine(s, c) \/ Lost(s, c, a) \/ Leaves(s, c)
          \/ Followed(wire', Jobs("allow", "sources", c, <<s, a>>), Jobs("revoke", "sources", c, <<s, a>>))
      BY <1>3, <1>6 DEF RuleInv, Withdrawn, KeepsOrder
    <3>2. s \notin built /\ Has(wire', Jobs("allow", "build", c, <<s, a>>)) =>
            Mine(s, c) \/ Lost(s, c, a) \/ Leaves(s, c)' \/ Some("revoke", s, c, a)'
      <4>1. CASE e.op = "allow"
        BY <1>13, <4>1 DEF Some
      <4>2. CASE e.op = "revoke"
        BY <1>3, <1>6, <1>8, <2>4, <4>2 DEF RuleInv, Withdrawn, Keeps
      <4> QED BY <4>1, <4>2
    <3> QED BY <1>2, <1>8, <2>1, <3>1, <3>2 DEF Withdrawn
  <2>9. LateWithdrawn(s, c, a)'
    <3>1. \/ Mine(s, c) \/ Has(wire', Calls("remove", "read", <<s, c>>))
          \/ Followed(wire', Several("allow", "sources", c, <<s, a>>), Calls("remove", "tell", <<s, c>>))
      BY <1>3, <1>5, <1>6 DEF RuleInv, LateWithdrawn, Keeps, KeepsOrder
    <3>2. e \in Several("allow", e.at, c, <<s, a>>) => Mine(s, c) \/ Leaves(s, c)'
      <4>1. CASE e.at = "sources"
        BY <1>3, <1>5, <1>8, <4>1 DEF RuleInv, LateWithdrawn, KeepsOrder, Leaves
      <4>2. CASE e.at = "build"
        BY <1>3, <1>8, <4>2 DEF RuleInv, LateWithdrawn, Keeps
      <4> QED BY <1>1, <4>1, <4>2
    <3>3. Has(wire', Several("allow", "build", c, <<s, a>>)) => Mine(s, c) \/ Leaves(s, c)'
      <4>1. CASE Has(wire, Several("allow", "build", c, <<s, a>>))
        BY <1>8, <4>1 DEF RuleInv, LateWithdrawn
      <4>2. CASE \E y \in X : y \in Several("allow", "build", c, <<s, a>>)
        BY <1>6, <2>5, <3>2, <4>2
      <4> QED BY <1>3, <4>1, <4>2 DEF Keeps
    <3> QED BY <1>2, <3>1, <3>3 DEF LateWithdrawn
  <2>10. Complete(s, c, a)'
    <3>1. CASE e.op = "allow"
      BY <1>2, <1>3, <1>6, <1>9, <2>1, <2>4, <3>1 DEF RuleInv, Complete, Keeps, KeepsOrder
    <3>2. CASE e.op = "revoke"
      BY <1>2, <1>3, <1>6, <1>9, <1>14, <2>1, <2>4, <3>2 DEF RuleInv, Complete, KeepsOrder, Some
    <3> QED BY <3>1, <3>2
  <2>11. Overtaken(s, c, a)'
    <3>1. Followed(wire', Several("revoke", "sources", c, <<s, a>>), Links(c, "linked"))
      BY <1>3, <1>6 DEF RuleInv, Overtaken, KeepsOrder
    <3>2. CASE \A y \in X : y \notin Several("revoke", "build", c, <<s, a>>)
      BY <1>3, <1>5, <3>1, <3>2 DEF RuleInv, Overtaken, KeepsOrder
    <3>3. CASE \E y \in X : y \in Several("revoke", "build", c, <<s, a>>)
      <4>1. e \in Several("revoke", "sources", c, <<s, a>>)
        BY <1>1, <1>6, <1>12, <2>5, <3>3
      <4>2. Has(wire', Links(c, "linked"))
        BY <1>3, <4>1 DEF RuleInv, Overtaken, KeepsOrder
      <4> QED BY <1>3, <1>5, <1>6, <3>1, <4>2 DEF RuleInv, Overtaken, KeepsOrder
    <3> QED BY <3>2, <3>3
  <2> QED BY <2>6, <2>7, <2>8, <2>9, <2>10, <2>11 DEF RuleInv
<1> QED BY <1>15, <1>16

\* the first table of a port: what was found while nothing changed, and the rules carried out
LEMMA BuiltKeepsRule ==
  ASSUME TypeOK, PortInv, NEW s \in Server \ built, NEW c \in Player, NEW a \in Address,
         BuildRight(s, c, a), OwnInv(<<s, c>>), RuleInv(s, c, a),
         UNCHANGED <<redis, store, uncovered>>,
         NEW e \in Job, NEW T \in [Server -> SUBSET Link], NEW B, NEW S, NEW X,
         Dealt(e, T, B, S, X), X \subseteq Entry, Moved(wire, wire', {e}, X), e \in On(wire),
         e.at = "build", e.port = s, e.left = {}, T[s] = e.found, s \in B
  PROVE  RuleInv(s, c, a)'
<1>1. wire \in Seq(Entry) /\ e \in Entry /\ e.op \in {"allow", "revoke", "snapshot"}
  BY DEF TypeOK, Entry, Job
<1>2. /\ Fresh(c, a)' = Fresh(c, a) /\ In(c, a)' = In(c, a) /\ Mine(s, c)' = Mine(s, c)
      /\ Lost(s, c, a)' = Lost(s, c, a)
  BY DEF In, Fresh, Mine, Lost, store, redis
<1>3. Keeps(wire, wire', {e}, X) /\ KeepsOrder(wire, wire', {e}, X)
  BY <1>1, StepKeeps
<1>4. \A x \in X : /\ x \in Entry /\ x.op = e.op /\ x.at = "build" /\ <<s, a>> \notin x.todo
  BY DEF Dealt
<1>5. /\ \A op \in {"add", "remove"} : \A at : e \notin Calls(op, at, <<s, c>>)
      /\ \A at : e \notin Links(c, at) /\ e \notin Finds(c, at, a)
      /\ e \notin Adds(c, a)
      /\ \A op, at : e.op # op \/ "build" # at =>
           e \notin Jobs(op, at, c, <<s, a>>) /\ e \notin Several(op, at, c, <<s, a>>)
  BY <1>1, JobAside
<1>6. ASSUME NEW x \in X
      PROVE  /\ \A op \in {"add", "remove"} : \A at : x \notin Calls(op, at, <<s, c>>)
             /\ \A at : x \notin Links(c, at) /\ x \notin Finds(c, at, a)
             /\ x \notin Adds(c, a)
             /\ \A op, at : x \notin Jobs(op, at, c, <<s, a>>) /\ x \notin Several(op, at, c, <<s, a>>)
  <2>1. x \in Entry /\ x.op \in {"allow", "revoke", "snapshot"} /\ <<s, a>> \notin x.todo
    BY <1>1, <1>4
  <2> QED BY <2>1, JobAside, JobSets
\* its call reads the set of passes while no call changes it
<1>7. Mine(s, c) <=> <<s, c>> \in passes
  <2>1. e \in Builders(s)
    BY <1>1 DEF Builders
  <2>2. ~ Has(wire', Calls("add", "own", <<s, c>>)) /\ ~ Has(wire', Calls("remove", "own", <<s, c>>))
    BY <1>3, <1>6, <2>1 DEF BuildRight, KeepsOrder
  <2>3. ~ Has(wire, Calls("add", "own", <<s, c>>)) /\ ~ Has(wire, Calls("remove", "own", <<s, c>>))
    BY <1>3, <1>5, <2>2 DEF Keeps
  <2> QED BY <2>3 DEF OwnInv, Mine
<1>8. /\ <<c, a>> \in e.found => Mine(s, c) /\ In(c, a)
      /\ Mine(s, c) /\ Fresh(c, a) => <<c, a>> \in e.found
  <2>1. e \in Builders(s)
    BY <1>1 DEF Builders
  <2> QED BY <1>7, <2>1 DEF BuildRight
<1>9. /\ s \in built'
      /\ Listed(s, c, a)' <=> IF <<s, a>> \in e.todo /\ c = e.who /\ e.op # "snapshot" THEN e.op = "allow"
                              ELSE <<c, a>> \in e.found
  BY DEF Dealt, Listed
<1>10. <<s, a>> \in e.todo /\ c = e.who => e \in Jobs(e.op, "build", c, <<s, a>>)
  BY <1>1, JobSets
<1>11. Leaves(s, c)' <=> Leaves(s, c)
  BY <1>3, <1>5, <1>6 DEF Leaves, Keeps
<1>12. Comes(s, c, a) <=> Comes(s, c, a)'
  BY <1>3, <1>5, <1>6 DEF Comes, Keeps
<1>13. \A op : /\ Some(op, s, c, a)' => Some(op, s, c, a)
               /\ Some(op, s, c, a) => Some(op, s, c, a)' \/ e.op = op
  BY <1>3, <1>5, <1>6 DEF Some, Keeps
<1>14. Justified(s, c, a)'
  <2>1. CASE <<s, a>> \in e.todo /\ c = e.who /\ e.op = "allow"
    <3>1. Has(wire, Jobs("allow", "build", c, <<s, a>>))
      BY <1>3, <1>10, <2>1 DEF Keeps
    <3>2. In(c, a) /\ (Mine(s, c) \/ Lost(s, c, a) \/ Leaves(s, c) \/ Some("revoke", s, c, a))
      BY <3>1 DEF RuleInv, Allowed, Withdrawn, Some
    <3> QED BY <1>2, <1>11, <1>13, <2>1, <3>2 DEF Justified
  <2>2. CASE <<c, a>> \in e.found
    BY <1>2, <1>8, <2>2 DEF Justified
  <2> QED BY <1>9, <2>1, <2>2 DEF Justified
<1>15. Allowed(s, c, a)'
  BY <1>2, <1>3, <1>6, <1>13 DEF RuleInv, Allowed, KeepsOrder
<1>16. Withdrawn(s, c, a)'
  BY <1>2, <1>3, <1>6, <1>9, <1>11 DEF RuleInv, Withdrawn, KeepsOrder
<1>17. LateWithdrawn(s, c, a)'
  BY <1>2, <1>3, <1>5, <1>6, <1>11 DEF RuleInv, LateWithdrawn, Keeps, KeepsOrder
<1>18. Complete(s, c, a)'
  <2>1. ASSUME Mine(s, c), Fresh(c, a), ~ Listed(s, c, a)'
        PROVE  Comes(s, c, a)' \/ Some("allow", s, c, a)'
    <3>1. <<s, a>> \in e.todo /\ c = e.who /\ e.op = "revoke"
      BY <1>1, <1>8, <1>9, <2>1
    <3>2. Has(wire, Jobs("revoke", "build", c, <<s, a>>))
      BY <1>3, <1>10, <3>1 DEF Keeps
    <3> QED BY <1>12, <1>13, <2>1, <3>1, <3>2 DEF RuleInv, Complete
  <2>2. Mine(s, c) /\ Fresh(c, a) =>
          \/ Comes(s, c, a)'
          \/ Followed(wire', Jobs("revoke", "sources", c, <<s, a>>), Jobs("allow", "sources", c, <<s, a>>))
    BY <1>3, <1>6, <1>12 DEF RuleInv, Complete, KeepsOrder
  <2> QED BY <1>2, <1>9, <2>1, <2>2 DEF Complete
<1>19. Overtaken(s, c, a)'
  BY <1>3, <1>5, <1>6 DEF RuleInv, Overtaken, KeepsOrder
<1> QED BY <1>14, <1>15, <1>16, <1>17, <1>18, <1>19 DEF RuleInv

\* what the handlers, the builders and the gateway do
LEMMA RulesKeepRule ==
  ASSUME TypeOK, PortInv, NEW s \in Server \ unsettled', NEW c \in Player, NEW a \in Address,
         BuildRight(s, c, a), OwnInv(<<s, c>>), RuleInv(s, c, a), Handle \/ StoreTable \/ HandleEvent
  PROVE  RuleInv(s, c, a)'
<1>1. UNCHANGED <<redis, store, uncovered>> /\ wire \in Seq(Entry)
  BY RuleMoves DEF TypeOK
<1>2. PICK e \in Job, T \in [Server -> SUBSET Link], B \in SUBSET Server, S \in SUBSET Server, X \in SUBSET Entry :
        RuleStep(e, T, B, S, X)
  BY RuleMoves
<1>3. Dealt(e, T, B, S, X) /\ X \subseteq Entry /\ e \in Entry
  BY <1>2 DEF RuleStep, Entry
<1>4. \A x \in X : /\ x.op = e.op /\ x.who = e.who /\ x.todo \subseteq e.todo
                   /\ x.op \in {"allow", "revoke", "snapshot"}
  BY <1>3 DEF Dealt, Job
<1>5. CASE e.at = "build" /\ e.port = s
  <2>1. /\ Moved(wire, wire', {e}, X) /\ e.left = {} /\ T = [table EXCEPT ![s] = e.found]
        /\ B = built \cup {s} /\ s \notin built
    BY <1>2, <1>5 DEF RuleStep
  <2>2. e \in On(wire)
    BY <1>1, <2>1, HeadOn
  <2>3. T[s] = e.found
    BY <2>1 DEF TypeOK
  <2>4. s \in Server \ built /\ s \in B
    BY <2>1
  <2>5. Dealt(e, T, B, S, X) /\ X \subseteq Entry /\ e.at = "build" /\ e.port = s /\ e.left = {}
    BY <1>3, <1>5, <2>1
  <2>6. Moved(wire, wire', {e}, X)
    BY <2>1
  <2> QED BY <1>1, <2>2, <2>3, <2>4, <2>5, <2>6, BuiltKeepsRule
<1>6. CASE ~ (e.at = "build" /\ e.port = s)
  <2>1. T[s] = table[s] /\ (s \in B <=> s \in built)
    BY <1>2, <1>6 DEF RuleStep, TypeOK
  <2>2. CASE e.op \in {"allow", "revoke"} /\ e.who = c /\ <<s, a>> \in e.todo
    <3>1. Moved(wire, wire', {e}, X)
      BY <1>2, <2>2 DEF RuleStep
    <3>2. e \in On(wire)
      BY <1>1, <3>1, HeadOn
    <3> QED BY <1>1, <1>3, <1>6, <2>1, <2>2, <3>1, <3>2, DealtKeepsRule
  <2>3. CASE ~ (e.op \in {"allow", "revoke"} /\ e.who = c /\ <<s, a>> \in e.todo)
    <3>1. \A x \in {e} \cup X : Aside(x, s, c, a)
      <4>1. \A x \in {e} \cup X :
              /\ x \in Entry /\ x.op \in {"allow", "revoke", "snapshot"}
              /\ x.op \in {"allow", "revoke"} => x.who # c \/ <<s, a>> \notin x.todo
        BY <1>3, <1>4, <2>3 DEF Job
      <4> QED BY <4>1, ElseAside
    <3>2. (Listed(s, c, a)' <=> Listed(s, c, a)) /\ (s \in built' <=> s \in built)
      <4>1. e.op \in {"allow", "revoke", "snapshot"}
        BY DEF Job
      <4> QED BY <1>3, <2>1, <2>3, <4>1 DEF Dealt, Listed
    <3>3. PICK E \in {{}, {e}} : Moved(wire, wire', E, X)
      BY <1>2 DEF RuleStep
    <3>4. /\ Fresh(c, a)' = Fresh(c, a) /\ In(c, a)' = In(c, a) /\ Mine(s, c)' = Mine(s, c)
          /\ Lost(s, c, a)' = Lost(s, c, a)
      BY <1>1 DEF In, Fresh, Mine, Lost, store, redis
    <3> QED BY <3>1, <3>2, <3>3, <3>4, OthersKeepRule
  <2> QED BY <2>2, <2>3
<1> QED BY <1>5, <1>6
-----------------------------------------------------------------------------
(***************************************************************************)
(* Every step keeps the rules right.                                       *)
(***************************************************************************)
\* a step that adds nothing wrong to what is found for the first table of s
LEMMA OthersKeepBuild ==
  ASSUME TypeOK, NEW s \in Server, NEW c \in Player, NEW a \in Address, BuildRight(s, c, a),
         NEW E, NEW X, Moved(wire, wire', E, X), UNCHANGED passes,
         s \notin built' => s \notin built, In(c, a) => In(c, a)', Fresh(c, a)' => Fresh(c, a),
         \A x \in X : /\ x \notin Calls("add", "own", <<s, c>>) /\ x \notin Calls("remove", "own", <<s, c>>)
                      /\ x \in Builders(s) /\ s \notin built' =>
                           /\ c \in x.left => <<s, c>> \in passes
                           /\ <<c, a>> \in x.found => <<s, c>> \in passes /\ In(c, a)
                           /\ <<s, c>> \in passes /\ Fresh(c, a) => c \in x.left \/ <<c, a>> \in x.found
  PROVE  BuildRight(s, c, a)'
<1>1. wire \in Seq(Entry)
  BY DEF TypeOK
<1>2. Keeps(wire, wire', E, X) /\ KeepsOrder(wire, wire', E, X)
  BY <1>1, StepKeeps
<1> SUFFICES ASSUME s \notin built'
             PROVE  /\ NoneBehind(wire', Builders(s), Calls("add", "own", <<s, c>>))
                    /\ NoneBehind(wire', Builders(s), Calls("remove", "own", <<s, c>>))
                    /\ \A x \in On(wire') : x \in Builders(s) =>
                         /\ c \in x.left => <<s, c>> \in passes'
                         /\ <<c, a>> \in x.found => <<s, c>> \in passes' /\ In(c, a)'
                         /\ <<s, c>> \in passes' /\ Fresh(c, a)' => c \in x.left \/ <<c, a>> \in x.found
  BY DEF BuildRight
<1>3. /\ NoneBehind(wire', Builders(s), Calls("add", "own", <<s, c>>))
      /\ NoneBehind(wire', Builders(s), Calls("remove", "own", <<s, c>>))
  BY <1>2 DEF BuildRight, KeepsOrder
<1>4. \A x \in On(wire') : x \in On(wire) \/ x \in X
  BY <1>2 DEF Keeps
<1> QED BY <1>3, <1>4 DEF BuildRight

\* a change under way unsettles the ports that are being built
LEMMA ChangesKeepRule ==
  ASSUME TypeOK, PassInv, PortInv, SeenInv, NEW s \in Server \ unsettled', NEW c \in Player, NEW a \in Address,
         LinkInv(c), RuleInv(s, c, a),
         \/ \E p \in Offered : ChangePass(p)
         \/ HandlePassAdded \/ HandlePassRemoved \/ Prune \/ Zadd \/ Linked
  PROVE  BuildRight(s, c, a)' /\ RuleInv(s, c, a)'
<1>1. Unsettle
  BY DEF ChangePass, HandlePassAdded, HandlePassRemoved, Prune, Zadd, Linked
<1>2. BuildRight(s, c, a)'
  <2>1. PICK E, X : Moved(wire, wire', E, X) /\ \A x \in X : x.at # "build"
    <3> DEFINE Goal(E, X) == Moved(wire, wire', E, X) /\ \A x \in X : x.at # "build"
    <3>1. ASSUME NEW p \in Offered, ChangePass(p)  PROVE \E E, X : Goal(E, X)
      <4>1. PICK x \in Entry : Moved(wire, wire', {}, {x}) /\ x.at = "own"
        BY <3>1, AskMoves
      <4> QED BY <4>1
    <3>2. CASE HandlePassAdded \/ HandlePassRemoved
      <4>1. PICK x \in Entry : Moved(wire, wire', {Head(wire)}, {x}) /\ x.at = "sources"
        BY <3>2, TellMoves
      <4> QED BY <4>1
    <3>3. CASE Prune
      <4>1. PICK x \in Entry : Moved(wire, wire', {Head(wire)}, {x}) /\ x.at = "pruned"
        BY <3>3, PruneMoves
      <4> QED BY <4>1
    <3>4. CASE Zadd
      <4>1. PICK u \in Seq(Entry), l \in Entry, R \in SUBSET Entry : ZaddStep(Head(wire), u, l, R)
        BY <3>4, ZaddMoves
      <4>2. Moved(wire, wire', {Head(wire)}, R \cup {l})
        BY <4>1, MovedTwice DEF ZaddStep, TypeOK
      <4>3. \A x \in R \cup {l} : x.at # "build"
        BY <4>1 DEF ZaddStep
      <4> DEFINE Z == R \cup {l}
      <4>4. Moved(wire, wire', {Head(wire)}, Z) /\ \A x \in Z : x.at # "build"
        BY <4>2, <4>3
      <4> HIDE DEF Z
      <4> QED BY <4>4
    <3>5. CASE Linked
      <4>1. \/ Moved(wire, wire', {Head(wire)}, {})
            \/ \E x \in Entry : Moved(wire, wire', {Head(wire)}, {x}) /\ x.at = "sources"
        BY <3>5, LinkedMoves
      <4>2. CASE Moved(wire, wire', {Head(wire)}, {})
        BY <4>2
      <4>3. ASSUME NEW x \in Entry, Moved(wire, wire', {Head(wire)}, {x}), x.at = "sources"
            PROVE  \E E, X : Goal(E, X)
        BY <4>3
      <4> QED BY <4>1, <4>2, <4>3
    <3> QED BY <3>1, <3>2, <3>3, <3>4, <3>5
  <2> QED BY <1>1, <2>1, NobodyBuilds DEF BuildRight
<1>3. RuleInv(s, c, a)'
  <2>1. HeldInv(<<s, c>>)
    BY DEF PassInv, P!Pass
  <2>2. ASSUME NEW p \in Offered, ChangePass(p)  PROVE RuleInv(s, c, a)'
    <3>1. UNCHANGED <<held, store, rules, uncovered>>
      BY <2>2, AskMoves
    <3>2. PICK x \in Entry : Moved(wire, wire', {}, {x}) /\ x.at = "own" /\ x.op \in {"add", "remove"}
      BY <2>2, AskMoves
    <3>3. Aside(x, s, c, a)
      BY <3>2, ElseAside
    <3>4. /\ Fresh(c, a)' = Fresh(c, a) /\ In(c, a)' = In(c, a) /\ Mine(s, c)' = Mine(s, c)
          /\ Lost(s, c, a)' = Lost(s, c, a) /\ Listed(s, c, a)' = Listed(s, c, a) /\ built' = built
      BY <3>1 DEF In, Fresh, Mine, Lost, Listed, store, rules
    <3> QED BY <3>2, <3>3, <3>4, OthersKeepRule
  <2>3. CASE HandlePassAdded \/ HandlePassRemoved
    BY <2>1, <2>3, TellKeepsRule
  <2>4. CASE Prune
    BY <2>4, PruneKeepsRule
  <2>5. CASE Zadd
    BY <2>5, ZaddKeepsRule
  <2>6. CASE Linked
    BY <2>6, LinkedKeepsRule
  <2> QED BY <2>2, <2>3, <2>4, <2>5, <2>6
<1> QED BY <1>2, <1>3

\* the steps that change nothing a table that is being built depends on
LEMMA RulesKeepBuild ==
  ASSUME TypeOK, NEW s \in Server, NEW c \in Player, NEW a \in Address, BuildRight(s, c, a),
         Handle \/ StoreTable \/ HandleEvent \/ LookUp
  PROVE  BuildRight(s, c, a)'
<1>1. CASE Handle \/ StoreTable \/ HandleEvent
  <2>1. UNCHANGED <<passes, store>>
    BY <1>1, RuleMoves DEF redis
  <2>2. PICK e \in Job, T \in [Server -> SUBSET Link], B \in SUBSET Server, S \in SUBSET Server, X \in SUBSET Entry :
          RuleStep(e, T, B, S, X)
    BY <1>1, RuleMoves
  <2>3. PICK E : Moved(wire, wire', E, X)
    BY <2>2 DEF RuleStep
  <2>4. built \subseteq built' /\ X \subseteq Entry
    BY <2>2 DEF RuleStep, Dealt
  <2>5. ASSUME NEW x \in X
        PROVE  /\ x \notin Calls("add", "own", <<s, c>>) /\ x \notin Calls("remove", "own", <<s, c>>)
               /\ x \in Builders(s) => (c \in x.left <=> <<s, c>> \in passes) /\ x.found = {}
    <3>1. /\ x.op \in {"allow", "revoke", "snapshot"} /\ x.at = "build"
          /\ x.left = ServerPasses(x.port) /\ x.found = {}
      BY <2>2 DEF RuleStep, Dealt, Job
    <3> QED BY <3>1 DEF Calls, Builders, ServerPasses
  <2>6. (In(c, a) => In(c, a)') /\ (Fresh(c, a)' => Fresh(c, a)) /\ UNCHANGED passes
    BY <2>1 DEF In, Fresh, store
  <2> QED BY <2>3, <2>4, <2>5, <2>6, OthersKeepBuild
<1>2. CASE LookUp
  <2> DEFINE e == Head(wire)
  <2>1. e \in Entry /\ e.at = "build" /\ UNCHANGED <<redis, store, rules>>
    BY <1>2, LookUpMoves
  <2>2. PICK x \in Entry, d \in Player :
              /\ Moved(wire, wire', {e}, {x})
              /\ x.op = e.op /\ x.at = "build" /\ x.who = e.who /\ x.todo = e.todo /\ x.port = e.port
              /\ d \in e.left /\ x.left = e.left \ {d}
              /\ x.found = e.found \cup ({d} \X AddressesOf(d, fresh))
    BY <1>2, LookUpMoves
  <2> HIDE DEF e
  <2>3. e \in On(wire)
    BY <2>2, HeadOn DEF TypeOK
  <2>4. x \notin Calls("add", "own", <<s, c>>) /\ x \notin Calls("remove", "own", <<s, c>>)
    BY <2>2 DEF Calls
  <2>5. (In(c, a) <=> In(c, a)') /\ (Fresh(c, a)' <=> Fresh(c, a)) /\ UNCHANGED <<passes, built>>
    BY <2>1 DEF In, Fresh, store, rules, redis
  <2>6. ASSUME x \in Builders(s), s \notin built
        PROVE  /\ c \in x.left => <<s, c>> \in passes
               /\ <<c, a>> \in x.found => <<s, c>> \in passes /\ In(c, a)
               /\ <<s, c>> \in passes /\ Fresh(c, a) => c \in x.left \/ <<c, a>> \in x.found
    <3>1. e \in Builders(s)
      BY <2>1, <2>2, <2>6 DEF Builders
    <3>2. /\ c \in e.left => <<s, c>> \in passes
          /\ <<c, a>> \in e.found => <<s, c>> \in passes /\ In(c, a)
          /\ <<s, c>> \in passes /\ Fresh(c, a) => c \in e.left \/ <<c, a>> \in e.found
      BY <2>3, <2>6, <3>1 DEF BuildRight
    <3>3. <<c, a>> \in {d} \X AddressesOf(d, fresh) <=> c = d /\ Fresh(c, a)
      BY DEF AddressesOf, Fresh
    <3>4. Fresh(c, a) => In(c, a)
      BY DEF Fresh, In
    <3> QED BY <2>2, <3>2, <3>3, <3>4
  <2> QED BY <2>2, <2>4, <2>5, <2>6, OthersKeepBuild
<1> QED BY <1>1, <1>2

\* what the other steps leave to the tables
LEMMA QuietKeepsRule ==
  ASSUME TypeOK, NEW s \in Server, NEW c \in Player, NEW a \in Address,
         BuildRight(s, c, a), RuleInv(s, c, a),
         \/ PassReply \/ Leave \/ UNCHANGED vars
         \/ \E d \in Player, b \in Address : LinkIp(d, b) \/ Expire(d, b)
  PROVE  BuildRight(s, c, a)' /\ RuleInv(s, c, a)'
<1>0. Moved(wire, wire, {}, {}) /\ wire \in Seq(Entry)
  <2>1. <<>> \in Seq(Entry) /\ On(<<>>) = {} /\ wire = wire \o <<>> /\ wire \in Seq(Entry)
    BY ConcatEmptySeq DEF On, TypeOK
  <2> QED BY <2>1 DEF Moved
<1>1. CASE PassReply
  <2>1. UNCHANGED <<passes, own>>
    BY <1>1, ReplyMoves
  <2>2. PICK E, X : Moved(wire, wire', E, X) /\ \A x \in X : x.at # "own" /\ x.at # "build"
    <3> DEFINE e == Head(wire)
    <3>1. \/ Moved(wire, wire', {e}, {})
          \/ \E x \in Entry : Moved(wire, wire', {e}, {x}) /\ x.at \in {"read", "tell"}
      BY <1>1, ReplyMoves
    <3>2. CASE Moved(wire, wire', {e}, {})
      BY <3>2
    <3>3. ASSUME NEW x \in Entry, Moved(wire, wire', {e}, {x}), x.at \in {"read", "tell"}
          PROVE  \E E, X : Moved(wire, wire', E, X) /\ \A y \in X : y.at # "own" /\ y.at # "build"
      BY <3>3
    <3> QED BY <3>1, <3>2, <3>3
  <2>3. UNCHANGED built /\ (In(c, a) <=> In(c, a)') /\ (Fresh(c, a)' <=> Fresh(c, a))
    BY <2>1 DEF own, store, rules, In, Fresh
  <2>4. \A x \in X : x \notin Calls("add", "own", <<s, c>>) /\ x \notin Calls("remove", "own", <<s, c>>) /\ x \notin Builders(s)
    BY <2>2 DEF Calls, Builders
  <2>5. BuildRight(s, c, a)'
    BY <2>1, <2>2, <2>3, <2>4, OthersKeepBuild
  <2> QED BY <1>1, <2>5, ReplyKeepsRule
<1>2. CASE \/ Leave \/ UNCHANGED vars
           \/ \E d \in Player, b \in Address : LinkIp(d, b) \/ Expire(d, b)
  <2>1. UNCHANGED <<redis, rules, uncovered>> /\ (In(c, a)' <=> In(c, a)) /\ (Fresh(c, a)' => Fresh(c, a))
    <3>1. CASE Leave \/ UNCHANGED vars
      BY <3>1 DEF Leave, vars, own, store, rules, history, redis, In, Fresh
    <3>2. ASSUME NEW d \in Player, NEW b \in Address, LinkIp(d, b)
          PROVE  UNCHANGED <<redis, rules, uncovered>> /\ (In(c, a)' <=> In(c, a)) /\ (Fresh(c, a)' => Fresh(c, a))
      BY <3>2 DEF LinkIp, own, store, history, In, Fresh
    <3>3. ASSUME NEW d \in Player, NEW b \in Address, Expire(d, b)
          PROVE  UNCHANGED <<redis, rules, uncovered>> /\ (In(c, a)' <=> In(c, a)) /\ (Fresh(c, a)' => Fresh(c, a))
      BY <3>3 DEF Expire, In, Fresh
    <3> QED BY <1>2, <3>1, <3>2, <3>3
  <2>2. PICK X \in SUBSET Entry : Moved(wire, wire', {}, X) /\ \A x \in X : x.op = "link" /\ x.at = "prune"
    <3>1. CASE UNCHANGED wire
      BY <1>0, <3>1
    <3>2. ASSUME NEW d \in Player, NEW b \in Address, LinkIp(d, b)
          PROVE  \E X \in SUBSET Entry : Moved(wire, wire', {}, X) /\ \A x \in X : x.op = "link" /\ x.at = "prune"
      <4>1. PICK x \in Entry : Moved(wire, wire', {}, {x}) /\ x.op = "link" /\ x.at = "prune"
        BY <3>2, LinkIpMoves
      <4> QED BY <4>1
    <3>3. CASE Leave \/ UNCHANGED vars \/ \E d \in Player, b \in Address : Expire(d, b)
      BY <3>1, <3>3 DEF Leave, vars, Expire
    <3> QED BY <1>2, <3>2, <3>3
  <2>3. \A x \in X : x \notin Calls("add", "own", <<s, c>>) /\ x \notin Calls("remove", "own", <<s, c>>) /\ x \notin Builders(s)
    BY <2>2 DEF Calls, Builders
  <2>4. UNCHANGED <<passes, built>> /\ (Mine(s, c)' <=> Mine(s, c)) /\ (Lost(s, c, a)' <=> Lost(s, c, a))
        /\ (Listed(s, c, a)' <=> Listed(s, c, a))
    BY <2>1 DEF redis, rules, Mine, Lost, Listed
  <2>5. BuildRight(s, c, a)'
    BY <2>1, <2>2, <2>3, <2>4, OthersKeepBuild
  <2>6. \A x \in X : Aside(x, s, c, a)
    BY <2>2, ElseAside
  <2>7. RuleInv(s, c, a)'
    BY <2>1, <2>2, <2>4, <2>6, OthersKeepRule
  <2> QED BY <2>5, <2>7
<1> QED BY <1>1, <1>2

LEMMA NextKeepsRules ==
  ASSUME TypeOK, TypeOK', PassInv, SeenInv, PortInv, LinksInv, RulesInv, [Next]_vars
  PROVE  RulesInv'
<1>1. CASE Restart
  <2>1. wire' = <<>> /\ built' = {} /\ table' = [s \in Server |-> {}]
    BY <1>1 DEF Restart, P!Restart
  <2>2. ASSUME NEW s \in Server, NEW c \in Player, NEW a \in Address
        PROVE  BuildRight(s, c, a)' /\ RuleInv(s, c, a)'
    <3>1. /\ \A K : ~ Has(wire', K)
          /\ \A K, M : Followed(wire', K, M) /\ Preceded(wire', K, M) /\ NoneBehind(wire', K, M)
          /\ On(wire') = {} /\ s \notin built' /\ ~ Listed(s, c, a)'
      BY <2>1 DEF Has, Followed, Preceded, NoneBehind, On, Listed
    <3>2. BuildRight(s, c, a)'
      BY <3>1 DEF BuildRight
    <3>3. RuleInv(s, c, a)'
      BY <3>1 DEF RuleInv, Justified, Allowed, Withdrawn, LateWithdrawn, Complete, Overtaken, Some
    <3> QED BY <3>2, <3>3
  <2> QED BY <2>2 DEF RulesInv
<1>2. CASE ~ Restart
  <2> SUFFICES ASSUME NEW s \in Server, NEW c \in Player, NEW a \in Address, s \notin unsettled', <<s, c>> \notin cut'
               PROVE  BuildRight(s, c, a)' /\ RuleInv(s, c, a)'
    BY DEF RulesInv
  <2>1. s \in Server \ unsettled' /\ s \notin unsettled
    BY <1>2, UnsettledGrows
  <2>2. cut' = cut
    <3>1. PICK E \in SUBSET Entry, X \in SUBSET Entry : UNCHANGED cut
      BY <1>2, KindMoves
    <3> QED BY <3>1
  <2>3. BuildRight(s, c, a) /\ RuleInv(s, c, a) /\ OwnInv(<<s, c>>) /\ LinkInv(c)
    BY <2>1, <2>2 DEF RulesInv, PassInv, LinksInv, P!Pass
  <2>4. CASE \/ \E p \in Offered : ChangePass(p)
             \/ HandlePassAdded \/ HandlePassRemoved \/ Prune \/ Zadd \/ Linked
    BY <2>1, <2>3, <2>4, ChangesKeepRule
  <2>5. CASE Handle \/ StoreTable \/ HandleEvent
    BY <2>1, <2>3, <2>5, RulesKeepRule, RulesKeepBuild
  <2>6. CASE LookUp
    BY <2>3, <2>6, LookUpKeepsRule, RulesKeepBuild
  <2>7. CASE \/ PassReply \/ Leave \/ UNCHANGED vars
             \/ \E d \in Player, b \in Address : LinkIp(d, b) \/ Expire(d, b)
    BY <2>3, <2>7, QuietKeepsRule
  <2> QED BY <1>2, <2>4, <2>5, <2>6, <2>7 DEF Next
<1> QED BY <1>1, <1>2
-----------------------------------------------------------------------------
(***************************************************************************)
(* A player about whom nothing is under way.                               *)
(***************************************************************************)
TableInv == PassInv /\ SeenInv /\ PortInv /\ LinksInv /\ RulesInv

LEMMA TablesInit == Init => TableInv
<1> SUFFICES ASSUME Init PROVE TableInv
  OBVIOUS
<1>1. /\ wire = <<>> /\ passes = held /\ table = [s \in Server |-> {}] /\ built = {}
      /\ fresh = LinkedAtFirst /\ expired = {}
  BY DEF Init
<1>2. /\ \A K : ~ Has(wire, K)
      /\ \A K, M : Followed(wire, K, M) /\ Preceded(wire, K, M) /\ NoneBehind(wire, K, M)
      /\ On(wire) = {}
  BY <1>1 DEF Has, Followed, Preceded, NoneBehind, On
<1>3. PassInv
  BY <1>1, <1>2 DEF PassInv, HeldInv, LastSays, OwnInv
<1>4. SeenInv /\ PortInv
  BY <1>1, <1>2, SourceAssumption DEF SeenInv, PortInv
<1>5. LinksInv
  BY <1>2 DEF LinksInv, LinkInv
<1>6. ASSUME NEW s \in Server, NEW c \in Player, NEW a \in Address
      PROVE  BuildRight(s, c, a) /\ RuleInv(s, c, a)
  <2>1. ~ Listed(s, c, a) /\ s \notin built
    BY <1>1 DEF Listed
  <2>2. BuildRight(s, c, a)
    BY <1>2 DEF BuildRight
  <2> QED BY <1>2, <2>1, <2>2 DEF RuleInv, Justified, Allowed, Withdrawn, LateWithdrawn, Complete, Overtaken, Some
<1> QED BY <1>3, <1>4, <1>5, <1>6 DEF TableInv, RulesInv

LEMMA SettledAgrees ==
  ASSUME TypeOK, TableInv
  PROVE  TableAgrees
<1> SUFFICES ASSUME NEW s \in built \ unsettled, NEW c \in Player, Settled(c), <<s, c>> \notin cut
             PROVE  /\ <<s, c>> \in passes => AddressesOf(c, fresh) \subseteq AddressesOf(c, table[s])
                    /\ \A a \in AddressesOf(c, table[s]) :
                         \/ <<s, c>> \in passes /\ <<c, a>> \in fresh \cup expired
                         \/ <<s, <<c, a>>>> \in uncovered
  BY DEF TableAgrees
<1>1. s \in Server /\ <<s, c>> \in P!Pass /\ wire \in Seq(Entry)
  BY DEF TypeOK, P!Pass
<1>2. \A x \in On(wire) : /\ x \in Entry
                          /\ IF x.op \in {"add", "remove"} THEN x.pass[2] # c ELSE x.op = "snapshot" \/ x.who # c
  <2>1. \A i \in DOMAIN wire : wire[i] \in Entry
    BY <1>1, LenProperties
  <2> QED BY <2>1 DEF Settled, On
<1>3. /\ \A op \in {"add", "remove"} : \A at : ~ Has(wire, Calls(op, at, <<s, c>>))
      /\ \A a : ~ Has(wire, Finds(c, "pruned", a)) /\ ~ Has(wire, Adds(c, a))
      /\ \A op \in {"allow", "revoke"} : \A at, r : ~ Has(wire, Jobs(op, at, c, r))
  BY <1>2 DEF Has, Calls, Finds, Adds, Links, Jobs
<1>4. /\ ~ Leaves(s, c)
      /\ \A a : ~ Comes(s, c, a) /\ ~ Some("allow", s, c, a) /\ ~ Some("revoke", s, c, a)
  BY <1>3 DEF Leaves, Comes, Some
<1>5. <<s, c>> \in passes <=> Mine(s, c)
  <2>1. OwnInv(<<s, c>>)
    BY <1>1 DEF TableInv, PassInv
  <2> QED BY <1>3, <2>1 DEF OwnInv, Mine
<1>6. \A a \in Address : RuleInv(s, c, a)
  BY <1>1 DEF TableInv, RulesInv
<1>7. ASSUME <<s, c>> \in passes, NEW a \in AddressesOf(c, fresh)
      PROVE  a \in AddressesOf(c, table[s])
  <2>1. a \in Address /\ Fresh(c, a) /\ Mine(s, c)
    BY <1>5, <1>7 DEF AddressesOf, Fresh
  <2>2. Listed(s, c, a)
    BY <1>4, <1>6, <2>1 DEF RuleInv, Complete
  <2> QED BY <2>1, <2>2 DEF Listed, AddressesOf
<1>8. ASSUME NEW a \in AddressesOf(c, table[s])
      PROVE  \/ <<s, c>> \in passes /\ <<c, a>> \in fresh \cup expired
             \/ <<s, <<c, a>>>> \in uncovered
  <2>1. a \in Address /\ Listed(s, c, a)
    BY DEF AddressesOf, Listed
  <2> QED BY <1>3, <1>4, <1>5, <1>6, <2>1 DEF RuleInv, Justified, In, Lost
<1> QED BY <1>7, <1>8

\* For any number of players, ports, addresses and restarts: once nothing is under
\* way for a player, the table of a port that was not built during a change lists
\* exactly the addresses of the passes Redis holds, but for what the removal of the
\* pass could not know (an address that had expired by then).
THEOREM TablesAgree == Spec => []TableAgrees
<1> DEFINE Inv == TypeOK /\ TableInv
<1>1. Init => Inv
  BY TypeInit, TablesInit
<1>2. Inv /\ [Next]_vars => Inv'
  <2>1. ASSUME Inv, [Next]_vars PROVE Inv'
    <3>1. TypeOK'
      BY <2>1, NextKeepsType
    <3>2. PassInv'
      BY <2>1, NextKeepsPass DEF TableInv
    <3>3. SeenInv' /\ PortInv' /\ LinksInv'
      BY <2>1, <3>1, NextKeepsSeen, NextKeepsPort, NextKeepsLinks DEF TableInv
    <3>4. RulesInv'
      BY <2>1, <3>1, NextKeepsRules DEF TableInv
    <3> QED BY <3>1, <3>2, <3>3, <3>4 DEF TableInv
  <2> QED BY <2>1
<1>3. Inv => TableAgrees
  BY SettledAgrees
<1> HIDE DEF Inv
<1> QED BY <1>1, <1>2, <1>3, PTL DEF Spec
-----------------------------------------------------------------------------
(***************************************************************************)
(* From here on: the backend and the daemon together.                      *)
(***************************************************************************)
Fp == INSTANCE DaemonProofs
  WITH Port <- Server, at <- pc, todo <- undone, port <- target, rest <- hooks

-----------------------------------------------------------------------------
(***************************************************************************)
(* The channel.  What the daemon will make of <<s, a>>, when it has read   *)
(* all that is on its way, is what the last message about it says, or what *)
(* it was told before.                                                     *)
(***************************************************************************)
Message == Fw!Initial \cup Fw!Event

Concerns(m, s, a) == m.kind = "Initial" \/ (m.port = s /\ m.address = a)
Grants(m, s, a) == IF m.kind = "Initial" THEN a \in m.accepts[s] ELSE m.kind = "ALLOW"

\* w on its way to a daemon that was asked for `wanted` makes it accept D
Replay(w, wanted, D, s, a) ==
  /\ \A i \in DOMAIN w :
       Concerns(w[i], s, a) /\ (\A j \in DOMAIN w : i < j => ~ Concerns(w[j], s, a)) =>
         (Grants(w[i], s, a) <=> <<s, a>> \in D)
  /\ (\A j \in DOMAIN w : ~ Concerns(w[j], s, a)) => (a \in wanted[s] <=> <<s, a>> \in D)

LEMMA JoinedAt ==
  ASSUME NEW S, NEW w \in Seq(S), NEW q \in Seq(S)
  PROVE  /\ w \o q \in Seq(S)
         /\ \A i \in DOMAIN w : i \in DOMAIN (w \o q) /\ (w \o q)[i] = w[i]
         /\ \A i \in DOMAIN q : /\ Len(w) + i \in DOMAIN (w \o q) /\ (w \o q)[Len(w) + i] = q[i]
                                /\ \A j \in DOMAIN w : j < Len(w) + i
         /\ \A i \in DOMAIN (w \o q) :
              i \in DOMAIN w \/ \E j \in DOMAIN q : i = Len(w) + j
<1> DEFINE v == w \o q
<1>1. /\ Len(w) \in Nat /\ DOMAIN w = 1 .. Len(w) /\ Len(q) \in Nat /\ DOMAIN q = 1 .. Len(q)
  BY LenProperties
<1>2. /\ v \in Seq(S) /\ Len(v) = Len(w) + Len(q)
      /\ \A i \in 1 .. Len(w) + Len(q) : v[i] = IF i <= Len(w) THEN w[i] ELSE q[i - Len(w)]
  BY ConcatProperties
<1>3. DOMAIN v = 1 .. Len(w) + Len(q)
  BY <1>2, LenProperties
<1> HIDE DEF v
<1>4. \A i \in DOMAIN v : i \in DOMAIN w \/ \E j \in DOMAIN q : i = Len(w) + j
  <2>1. ASSUME NEW i \in DOMAIN v, i \notin DOMAIN w PROVE \E j \in DOMAIN q : i = Len(w) + j
    <3>1. i - Len(w) \in DOMAIN q /\ i = Len(w) + (i - Len(w))
      BY <1>1, <1>3, <2>1
    <3> QED BY <3>1
  <2> QED BY <2>1
<1>5. \A i \in DOMAIN w : i \in DOMAIN v /\ v[i] = w[i]
  BY <1>1, <1>2, <1>3
<1>6. \A i \in DOMAIN q : /\ Len(w) + i \in DOMAIN v /\ v[Len(w) + i] = q[i]
                          /\ \A j \in DOMAIN w : j < Len(w) + i
  <2>1. ASSUME NEW i \in DOMAIN q
        PROVE  /\ Len(w) + i \in DOMAIN v /\ v[Len(w) + i] = q[i]
               /\ \A j \in DOMAIN w : j < Len(w) + i
    <3>1. /\ Len(w) + i \in 1 .. Len(w) + Len(q) /\ ~ (Len(w) + i <= Len(w))
          /\ (Len(w) + i) - Len(w) = i /\ \A j \in DOMAIN w : j < Len(w) + i
      BY <1>1
    <3> QED BY <1>2, <1>3, <3>1
  <2> QED BY <2>1
<1> QED BY <1>2, <1>4, <1>5, <1>6 DEF v

\* what is appended is, for each rule, the change of it
LEMMA ReplayJoined ==
  ASSUME NEW w \in Seq(Message), NEW q \in Seq(Message), NEW wanted, NEW D, NEW E,
         NEW s \in Server, NEW a \in Address, Replay(w, wanted, D, s, a),
         \A i \in DOMAIN q : Concerns(q[i], s, a) => (Grants(q[i], s, a) <=> <<s, a>> \in E),
         (<<s, a>> \in D <=> <<s, a>> \in E) \/ \E i \in DOMAIN q : Concerns(q[i], s, a)
  PROVE  Replay(w \o q, wanted, E, s, a)
<1> DEFINE v == w \o q
           n == Len(w)
<1>1. /\ \A i \in DOMAIN w : i \in DOMAIN v /\ v[i] = w[i]
      /\ \A i \in DOMAIN q : /\ n + i \in DOMAIN v /\ v[n + i] = q[i]
                             /\ \A j \in DOMAIN w : j < n + i
      /\ \A i \in DOMAIN v : i \in DOMAIN w \/ \E j \in DOMAIN q : i = n + j
  BY JoinedAt
<1> HIDE DEF v, n
<1>2. ASSUME NEW i \in DOMAIN v, Concerns(v[i], s, a),
             \A j \in DOMAIN v : i < j => ~ Concerns(v[j], s, a)
      PROVE  Grants(v[i], s, a) <=> <<s, a>> \in E
  <2>1. CASE i \in DOMAIN w
    <3>1. v[i] = w[i]
      BY <1>1, <2>1
    <3>2. \A j \in DOMAIN w : i < j => ~ Concerns(w[j], s, a)
      BY <1>1, <1>2
    <3>3. \A j \in DOMAIN q : ~ Concerns(q[j], s, a)
      BY <1>1, <1>2, <2>1
    <3> QED BY <1>2, <2>1, <3>1, <3>2, <3>3 DEF Replay
  <2>2. ASSUME NEW j \in DOMAIN q, i = n + j
        PROVE  Grants(v[i], s, a) <=> <<s, a>> \in E
    BY <1>1, <1>2, <2>2
  <2> QED BY <1>1, <2>1, <2>2
<1>3. ASSUME \A j \in DOMAIN v : ~ Concerns(v[j], s, a)
      PROVE  a \in wanted[s] <=> <<s, a>> \in E
  <2>1. \A j \in DOMAIN w : ~ Concerns(w[j], s, a)
    BY <1>1, <1>3
  <2>2. \A j \in DOMAIN q : ~ Concerns(q[j], s, a)
    BY <1>1, <1>3
  <2> QED BY <2>1, <2>2 DEF Replay
<1>4. Replay(v, wanted, E, s, a)
  BY <1>2, <1>3 DEF Replay
<1> QED BY <1>4 DEF v

\* what is received
LEMMA ReplayTail ==
  ASSUME NEW w \in Seq(Message), w # <<>>, NEW wanted, NEW now, NEW D,
         NEW s \in Server, NEW a \in Address, Replay(w, wanted, D, s, a),
         IF Concerns(Head(w), s, a) THEN a \in now[s] <=> Grants(Head(w), s, a)
                                    ELSE a \in now[s] <=> a \in wanted[s]
  PROVE  Replay(Tail(w), now, D, s, a)
<1> DEFINE v == Tail(w)
           m == Head(w)
<1>1. Len(w) \in Nat /\ Len(w) >= 1 /\ DOMAIN w = 1 .. Len(w)
  BY LenProperties, EmptySeq
<1>2. v \in Seq(Message) /\ m = w[1] /\ DOMAIN v = 1 .. Len(w) - 1
      /\ \A i \in 1 .. Len(w) - 1 : v[i] = w[i + 1]
  BY <1>1, HeadTailProperties, LenProperties
<1>3. /\ 1 \in DOMAIN w
      /\ \A i \in DOMAIN v : i + 1 \in DOMAIN w /\ v[i] = w[i + 1] /\ 1 < i + 1
      /\ \A i \in DOMAIN w : i = 1 \/ (i - 1 \in DOMAIN v /\ v[i - 1] = w[i])
      /\ \A i \in DOMAIN w : i \in Nat
      /\ \A i \in DOMAIN v : i \in Nat
  BY <1>1, <1>2
<1> HIDE DEF v, m
<1>4. ASSUME NEW i \in DOMAIN v, Concerns(v[i], s, a),
             \A j \in DOMAIN v : i < j => ~ Concerns(v[j], s, a)
      PROVE  Grants(v[i], s, a) <=> <<s, a>> \in D
  <2>1. ASSUME NEW j \in DOMAIN w, i + 1 < j PROVE ~ Concerns(w[j], s, a)
    <3>1. j - 1 \in DOMAIN v /\ v[j - 1] = w[j] /\ i < j - 1
      BY <1>3, <2>1
    <3> QED BY <1>4, <3>1
  <2> QED BY <1>3, <1>4, <2>1 DEF Replay
<1>5. ASSUME \A j \in DOMAIN v : ~ Concerns(v[j], s, a)
      PROVE  a \in now[s] <=> <<s, a>> \in D
  <2>1. \A j \in DOMAIN w : j = 1 \/ ~ Concerns(w[j], s, a)
    BY <1>3, <1>5
  <2>2. CASE Concerns(m, s, a)
    <3>1. \A j \in DOMAIN w : 1 < j => ~ Concerns(w[j], s, a)
      BY <1>3, <2>1
    <3> QED BY <1>2, <1>3, <2>2, <3>1 DEF Replay, m
  <2>3. CASE ~ Concerns(m, s, a)
    <3>1. \A j \in DOMAIN w : ~ Concerns(w[j], s, a)
      BY <1>2, <2>1, <2>3
    <3> QED BY <2>3, <3>1 DEF Replay, m
  <2> QED BY <2>2, <2>3
<1>6. Replay(v, now, D, s, a)
  BY <1>4, <1>5 DEF Replay
<1> QED BY <1>6 DEF v
-----------------------------------------------------------------------------
(***************************************************************************)
(* The daemon's connection.  A daemon whose messages come from a stream    *)
(* that is live has its Initial message, or will read it before anything   *)
(* else: every change since is on the channel behind it.                   *)
(***************************************************************************)
\* the ports the daemon has read the rules of, or will before its next message
Served == have \cup undone \cup (IF pc \in Fw!Preparing THEN {target} ELSE {})

Waits == pc = "next" /\ channel # <<>> /\ Head(channel).kind = "Initial"

SessionInv ==
  /\ socket # "none" => pc \in {"next"} \cup Fw!Serving
  /\ socket = "asked" => channel = <<>> /\ pc = "next"
  /\ socket = "up" /\ daemon # "live" => daemon = "initial" /\ channel = <<>> /\ pc = "next"
  /\ socket = "up" /\ daemon = "live" =>
       /\ Waits \/ Server \subseteq Served
       /\ \A s \in Server, a \in Address : Replay(channel, want, told, s, a)

ChannelInv == channel \in Seq(Message)

LEMMA MessagesAreRules ==
  ASSUME TypeOK
  PROVE  /\ InitialMessage \in Message /\ InitialMessage.kind = "Initial"
         /\ \A s \in Server, a \in Address : Grants(InitialMessage, s, a) <=> <<s, a>> \in told
<1>1. \A s \in Server : ToldOf(s) \in SUBSET Address
  BY DEF ToldOf
<1>2. InitialMessage \in Message
  BY <1>1 DEF InitialMessage, Message, Fw!Initial
<1> QED BY <1>2 DEF InitialMessage, Grants, ToldOf

LEMMA EventsOfRules ==
  ASSUME NEW r \in Rule
  PROVE  /\ \A k \in {"ALLOW", "REVOKE"} : EventMessage(k, r) \in Fw!Event /\ EventMessage(k, r) \in Message
         /\ \A k \in {"ALLOW", "REVOKE"}, s \in Server, a \in Address :
              /\ Concerns(EventMessage(k, r), s, a) <=> r = <<s, a>>
              /\ Grants(EventMessage(k, r), s, a) <=> k = "ALLOW"
<1>1. PICK s1 \in Server, a1 \in Address : r = <<s1, a1>>
  BY DEF Rule
<1>2. \A k \in {"ALLOW", "REVOKE"} :
        /\ EventMessage(k, r) \in Fw!Event /\ EventMessage(k, r).kind = k
        /\ EventMessage(k, r).port = s1 /\ EventMessage(k, r).address = a1
  BY <1>1 DEF EventMessage, Fw!Event
<1>3. \A k \in {"ALLOW", "REVOKE"}, s \in Server, a \in Address :
        Concerns(EventMessage(k, r), s, a) <=> r = <<s, a>>
  BY <1>1, <1>2 DEF Concerns
<1>4. \A k \in {"ALLOW", "REVOKE"}, s \in Server, a \in Address :
        Grants(EventMessage(k, r), s, a) <=> k = "ALLOW"
  BY <1>2 DEF Grants
<1> QED BY <1>2, <1>3, <1>4 DEF Message

LEMMA ChangesFinite ==
  ASSUME FirewallConstants, TypeOK, TypeOK'
  PROVE  IsFiniteSet(Changes) /\ Changes \subseteq Message
<1> DEFINE New == told' \ told
           Old == told \ told'
           A == {EventMessage("ALLOW", r) : r \in New}
           R == {EventMessage("REVOKE", r) : r \in Old}
<1>1. New \subseteq Rule /\ Old \subseteq Rule
  BY DEF TypeOK
<1>2. IsFiniteSet(Rule)
  BY SourceAssumption, FS_Product DEF Rule, FirewallConstants
<1>3. IsFiniteSet(New) /\ IsFiniteSet(Old)
  BY <1>1, <1>2, FS_Subset
<1>4. IsFiniteSet(A)
  <2> DEFINE f == [r \in New |-> EventMessage("ALLOW", r)]
  <2>1. f \in Surjection(New, A)
    BY DEF Surjection
  <2> QED BY <1>3, <2>1, FS_Surjection
<1>5. IsFiniteSet(R)
  <2> DEFINE f == [r \in Old |-> EventMessage("REVOKE", r)]
  <2>1. f \in Surjection(Old, R)
    BY DEF Surjection
  <2> QED BY <1>3, <2>1, FS_Surjection
<1>6. Changes = A \cup R
  BY DEF Changes
<1>7. \A m \in A \cup R : m \in Message
  BY <1>1, EventsOfRules
<1> QED BY <1>4, <1>5, <1>6, <1>7, FS_Union

\* one event for every rule that has changed
LEMMA ChangesSay ==
  ASSUME TypeOK, TypeOK', NEW s \in Server, NEW a \in Address
  PROVE  /\ \A m \in Changes : Concerns(m, s, a) => (Grants(m, s, a) <=> <<s, a>> \in told')
         /\ (<<s, a>> \in told <=> <<s, a>> \in told') \/ \E m \in Changes : Concerns(m, s, a)
<1>1. told \subseteq Rule /\ told' \subseteq Rule /\ <<s, a>> \in Rule
  BY DEF TypeOK, Rule
<1>2. ASSUME NEW m \in Changes, Concerns(m, s, a)
      PROVE  Grants(m, s, a) <=> <<s, a>> \in told'
  <2>1. \/ \E r \in told' \ told : m = EventMessage("ALLOW", r)
        \/ \E r \in told \ told' : m = EventMessage("REVOKE", r)
    BY DEF Changes
  <2>2. ASSUME NEW r \in told' \ told, m = EventMessage("ALLOW", r)
        PROVE  Grants(m, s, a) <=> <<s, a>> \in told'
    <3>1. r = <<s, a>> /\ Grants(m, s, a)
      BY <1>1, <1>2, <2>2, EventsOfRules
    <3> QED BY <3>1
  <2>3. ASSUME NEW r \in told \ told', m = EventMessage("REVOKE", r)
        PROVE  Grants(m, s, a) <=> <<s, a>> \in told'
    <3>1. r = <<s, a>> /\ ~ Grants(m, s, a)
      BY <1>1, <1>2, <2>3, EventsOfRules
    <3> QED BY <3>1
  <2> QED BY <2>1, <2>2, <2>3
<1>3. ASSUME ~ (<<s, a>> \in told <=> <<s, a>> \in told')
      PROVE  \E m \in Changes : Concerns(m, s, a)
  <2>1. CASE <<s, a>> \in told' \ told
    <3>1. EventMessage("ALLOW", <<s, a>>) \in Changes
      BY <2>1 DEF Changes
    <3> QED BY <1>1, <3>1, EventsOfRules
  <2>2. CASE <<s, a>> \in told \ told'
    <3>1. EventMessage("REVOKE", <<s, a>>) \in Changes
      BY <2>2 DEF Changes
    <3> QED BY <1>1, <3>1, EventsOfRules
  <2> QED BY <1>3, <2>1, <2>2
<1> QED BY <1>2, <1>3

\* what the gateway puts on the channel
LEMMA SendType ==
  ASSUME FirewallConstants, TypeOK, TypeOK', ChannelInv, Send
  PROVE  ChannelInv'
<1>1. CASE UNCHANGED channel
  BY <1>1 DEF ChannelInv
<1>2. CASE channel' = Append(channel, InitialMessage')
  <2>1. InitialMessage' \in Message
    <3>1. \A s \in Server : ToldOf(s)' \in SUBSET Address
      BY DEF ToldOf
    <3> QED BY <3>1 DEF InitialMessage, Message, Fw!Initial
  <2> QED BY <1>2, <2>1, AppendProperties DEF ChannelInv
<1>3. ASSUME NEW q \in Orders(Changes), channel' = channel \o q  PROVE ChannelInv'
  <2>1. q \in Seq(Message)
    <3>1. IsFiniteSet(Changes) /\ Changes \subseteq Message
      BY ChangesFinite
    <3>2. q \in Seq(Changes)
      BY <3>1, OrderOf
    <3> QED BY <3>1, <3>2, SeqMonotonic
  <2> QED BY <1>3, <2>1, ConcatProperties DEF ChannelInv
<1> QED BY <1>1, <1>2, <1>3 DEF Send

LEMMA SendReplays ==
  ASSUME FirewallConstants, TypeOK, TypeOK', ChannelInv, Send, socket' = "up",
         daemon = "live", daemon' = "live", NEW s \in Server, NEW a \in Address,
         Replay(channel, want, told, s, a)
  PROVE  Replay(channel', want, told', s, a)
<1>1. PICK q \in Orders(Changes) : channel' = channel \o q
  BY DEF Send
<1>2. IsFiniteSet(Changes) /\ Changes \subseteq Message
  BY ChangesFinite
<1>3. /\ q \in Seq(Changes) /\ \A i \in DOMAIN q : q[i] \in Changes
      /\ \A m \in Changes : \E i \in DOMAIN q : q[i] = m
  BY <1>2, OrderOf
<1>4. q \in Seq(Message)
  BY <1>2, <1>3, SeqMonotonic
<1>5. \A i \in DOMAIN q : Concerns(q[i], s, a) => (Grants(q[i], s, a) <=> <<s, a>> \in told')
  BY <1>3, ChangesSay
<1>6. (<<s, a>> \in told <=> <<s, a>> \in told') \/ \E i \in DOMAIN q : Concerns(q[i], s, a)
  BY <1>3, ChangesSay
<1> QED BY <1>1, <1>4, <1>5, <1>6, ReplayJoined DEF ChannelInv

\* the Initial message is the first of its stream
LEMMA SendOpens ==
  ASSUME TypeOK', channel = <<>>, Send, socket' = "up", daemon # "live", daemon' = "live"
  PROVE  /\ channel' # <<>> /\ Head(channel').kind = "Initial"
         /\ \A s \in Server, a \in Address : Replay(channel', want', told', s, a)
<1>1. channel' = <<InitialMessage'>>
  BY DEF Send
<1>2. InitialMessage'.kind = "Initial"
  BY DEF InitialMessage
<1>3. \A s \in Server, a \in Address : Grants(InitialMessage', s, a) <=> <<s, a>> \in told'
  BY DEF InitialMessage, Grants, ToldOf
<1>4. channel' # <<>> /\ Head(channel').kind = "Initial"
  BY <1>1, <1>2
<1>5. /\ DOMAIN channel' = {1} /\ channel'[1] = InitialMessage'
  BY <1>1
<1> HIDE DEF InitialMessage
<1>6. ASSUME NEW s \in Server, NEW a \in Address  PROVE Replay(channel', want', told', s, a)
  BY <1>2, <1>3, <1>5 DEF Replay, Concerns
<1> QED BY <1>4, <1>6
-----------------------------------------------------------------------------
(***************************************************************************)
(* The steps.                                                              *)
(***************************************************************************)
\* the stream of a daemon ends only where Leave and Restart end it
LEMMA BackendStream ==
  ASSUME TypeOK, FeedInv, Backend
  PROVE  /\ daemon = "live" => daemon' = "live"
         /\ daemon = "initial" => daemon' \in {"initial", "live"}
<1>1. CASE \/ \E p \in Offered : ChangePass(p)
           \/ PassReply \/ HandlePassAdded \/ HandlePassRemoved
           \/ \E c \in Player, a \in Address : LinkIp(c, a) \/ Expire(c, a)
           \/ Prune \/ Zadd \/ Linked \/ LookUp
  <2>1. UNCHANGED daemon
    BY <1>1 DEF ChangePass, PassReply, HandlePassAdded, HandlePassRemoved, LinkIp, Expire, Prune,
                Zadd, Linked, LookUp, own, feed
  <2> QED BY <2>1
<1>2. CASE Handle \/ StoreTable
  <2>1. PICK T, B, miss, rest : Deal(Head(wire), T, B, miss, rest)
    BY <1>2 DEF Handle, StoreTable
  <2>2. CASE Head(wire).op # "snapshot"
    <3>1. UNCHANGED daemon
      BY <2>1, <2>2 DEF Deal, Emit
    <3> QED BY <3>1
  <2>3. CASE Head(wire).op = "snapshot"
    <3>1. daemon' \in {"initial", "live"}
      BY <2>1, <2>3 DEF Deal, Collect
    <3>2. wire # <<>> /\ wire \in Seq(Entry)
      BY <1>2 DEF Handle, StoreTable, P!Resumes, TypeOK
    <3>3. 1 \in DOMAIN wire /\ Head(wire) = wire[1]
      BY <3>2, EmptySeq, LenProperties
    <3>4. daemon = "initial"
      BY <2>3, <3>3 DEF FeedInv, SnapInv
    <3> QED BY <3>1, <3>4
  <2> QED BY <2>2, <2>3
<1> QED BY <1>1, <1>2 DEF Backend

LEMMA SubscribeStream ==
  ASSUME HandleEvent
  PROVE  daemon = "away" /\ daemon' \in {"initial", "live"}
<1> DEFINE e == Handler("snapshot", CHOOSE c \in Player : TRUE, Rule)
<1>1. Deal(e, table, built, {}, wire)
  BY DEF HandleEvent
<1>2. e.op = "snapshot"
  BY DEF Handler
<1> HIDE DEF e
<1>3. daemon' \in {"initial", "live"}
  BY <1>1, <1>2 DEF Deal, Collect
<1> QED BY <1>3 DEF HandleEvent

\* every step is one of the backend, or leaves it alone
LEMMA StepsOfBackend == [FirewallNext]_firewallVars => [Next]_vars
<1>1. ASSUME BackendStep \/ Subscribe \/ Part \/ BackendRestart  PROVE Next
  BY <1>1 DEF BackendStep, Backend, Subscribe, Part, BackendRestart, Next
<1>2. ASSUME Connect \/ NextMessage \/ Command \/ Fail  PROVE UNCHANGED vars
  BY <1>2, Zenon DEF Connect, NextMessage, Command, Fail
<1>3. ASSUME UNCHANGED firewallVars  PROVE UNCHANGED vars
  BY <1>3 DEF firewallVars
<1> QED BY <1>1, <1>2, <1>3 DEF FirewallNext

LEMMA StepsOfDaemon ==
  ASSUME ChannelInv, [FirewallNext]_firewallVars
  PROVE  [Fw!Next]_Fw!vars
<1> USE DEF Fw!vars, Fw!kernel, Fw!memory
<1>1. CASE BackendStep \/ Subscribe \/ Part \/ BackendRestart \/ UNCHANGED firewallVars
  BY <1>1 DEF BackendStep, Subscribe, Part, BackendRestart, firewallVars, process
<1>2. CASE NextMessage
  <2>1. Head(channel) \in Fw!Initial \cup Fw!Event
    BY <1>2, HeadTailProperties DEF NextMessage, ChannelInv, Message
  <2> QED BY <1>2, <2>1 DEF NextMessage, Fw!Next
<1>3. CASE Connect \/ Command \/ Fail
  BY <1>3 DEF Connect, Command, Fail, Fw!Next, Fw!Run
<1> QED BY <1>1, <1>2, <1>3 DEF FirewallNext

LEMMA NextKeepsChannel ==
  ASSUME FirewallConstants, TypeOK, TypeOK', ChannelInv, [FirewallNext]_firewallVars
  PROVE  ChannelInv'
<1>1. CASE BackendStep \/ Subscribe
  BY <1>1, SendType DEF BackendStep, Subscribe
<1>2. CASE Part \/ BackendRestart \/ Command \/ UNCHANGED firewallVars
  <2>1. UNCHANGED channel
    BY <1>2, Zenon DEF Part, BackendRestart, Command, firewallVars
  <2> QED BY <2>1 DEF ChannelInv
<1>3. CASE NextMessage
  BY <1>3, HeadTailProperties DEF NextMessage, ChannelInv
<1>4. CASE Connect \/ Fail
  <2>1. channel' = <<>>
    BY <1>4, Zenon DEF Connect, Fail
  <2> QED BY <2>1, EmptySeq DEF ChannelInv
<1> QED BY <1>1, <1>2, <1>3, <1>4 DEF FirewallNext

\* after what the daemon has read, its rules are to be what it is told of them
LEMMA ReceivedReplays ==
  ASSUME ChannelInv, channel # <<>>, Fw!Receive(Head(channel)), want \in [Server -> SUBSET Address],
         Server \subseteq have \/ Head(channel).kind = "Initial",
         NEW s \in Server, NEW a \in Address, NEW D, Replay(channel, want, D, s, a)
  PROVE  Replay(Tail(channel), want', D, s, a)
<1> DEFINE m == Head(channel)
<1>1. m \in Message
  BY HeadTailProperties DEF ChannelInv
<1>2. IF Concerns(m, s, a) THEN a \in want'[s] <=> Grants(m, s, a) ELSE a \in want'[s] <=> a \in want[s]
  <2>1. CASE m.kind = "Initial"
    <3>1. want' = m.accepts
      BY <2>1 DEF Fw!Receive
    <3> QED BY <2>1, <3>1 DEF Concerns, Grants
  <2>2. CASE m.kind # "Initial"
    <3>1. m.port \in Server /\ m.address \in Address /\ m.kind \in {"ALLOW", "REVOKE"}
      BY <1>1, <2>2 DEF Message, Fw!Initial, Fw!Event
    <3>2. Fw!Before(m.port) = want[m.port]
      BY <2>2, <3>1 DEF Fw!Before
    <3>3. CASE m.kind = "ALLOW"
      <4>1. want' = [want EXCEPT ![m.port] = want[m.port] \cup {m.address}]
        BY <3>2, <3>3 DEF Fw!Receive
      <4> HIDE DEF m
      <4> QED BY <3>1, <3>3, <4>1 DEF Concerns, Grants
    <3>4. CASE m.kind = "REVOKE"
      <4>1. want' = [want EXCEPT ![m.port] = want[m.port] \ {m.address}]
        BY <3>2, <3>4 DEF Fw!Receive
      <4> HIDE DEF m
      <4> QED BY <3>1, <3>4, <4>1 DEF Concerns, Grants
    <3> QED BY <3>1, <3>3, <3>4
  <2> QED BY <2>1, <2>2
<1> HIDE DEF m
<1>3. channel \in Seq(Message)
  BY DEF ChannelInv
<1> QED BY <1>2, <1>3, ReplayTail DEF m

LEMMA BackendKeepsSession ==
  ASSUME FirewallConstants, TypeOK, TypeOK', FeedInv, ChannelInv, SessionInv,
         BackendStep \/ Subscribe \/ Part \/ BackendRestart
  PROVE  SessionInv'
<1>1. UNCHANGED <<pc, have, undone, target, want>>
  BY DEF BackendStep, Subscribe, Part, BackendRestart, process
<1>2. Served' = Served /\ (pc' \in Fw!Serving <=> pc \in Fw!Serving)
  BY <1>1 DEF Served, Fw!Serving, Fw!Preparing
<1>3. CASE BackendStep
  <2>1. Backend /\ Send /\ socket' = socket
    BY <1>3 DEF BackendStep
  <2>2. socket \notin {"up"} => UNCHANGED channel
    BY <2>1 DEF Send
  <2>3. CASE socket # "up"
    BY <1>1, <1>2, <2>1, <2>2, <2>3 DEF SessionInv
  <2>4. CASE socket = "up" /\ daemon # "live"
    <3>1. daemon = "initial" /\ channel = <<>> /\ pc = "next" /\ daemon' \in {"initial", "live"}
      BY <2>1, <2>4, BackendStream DEF SessionInv
    <3>2. CASE daemon' = "live"
      BY <1>1, <2>1, <2>4, <3>1, <3>2, SendOpens DEF SessionInv, Waits
    <3>3. CASE daemon' = "initial"
      <4>1. UNCHANGED channel
        BY <2>1, <3>3 DEF Send
      <4> QED BY <1>1, <2>1, <2>4, <3>1, <3>3, <4>1 DEF SessionInv
    <3> QED BY <3>1, <3>2, <3>3
  <2>5. CASE socket = "up" /\ daemon = "live"
    <3>1. daemon' = "live"
      BY <2>1, <2>5, BackendStream
    <3>2. \A s \in Server, a \in Address : Replay(channel', want', told', s, a)
      BY <1>1, <2>1, <2>5, <3>1, SendReplays DEF SessionInv
    <3>3. Waits => Waits'
      <4>1. PICK q \in Orders(Changes) : channel' = channel \o q
        BY <2>1, <2>5, <3>1 DEF Send
      <4>2. q \in Seq(Message)
        BY <4>1, ChangesFinite, OrderOf, SeqMonotonic
      <4>3. channel # <<>> => channel' # <<>> /\ Head(channel') = Head(channel)
        <5>1. channel # <<>> => 1 \in 1 .. Len(channel) /\ Len(channel) \in Nat /\ Len(q) \in Nat
          BY <4>2, EmptySeq, LenProperties DEF ChannelInv
        <5> QED BY <4>1, <4>2, <5>1, ConcatProperties, EmptySeq DEF ChannelInv
      <4> QED BY <1>1, <4>3 DEF Waits
    <3>4. Waits' \/ Server \subseteq Served'
      BY <1>2, <2>5, <3>3 DEF SessionInv
    <3>5. socket # "none" /\ pc' \in {"next"} \cup Fw!Serving'
      BY <1>1, <2>5 DEF SessionInv, Fw!Serving, Fw!Preparing
    <3> QED BY <2>1, <2>5, <3>1, <3>2, <3>4, <3>5 DEF SessionInv
  <2> QED BY <2>3, <2>4, <2>5
<1>4. CASE Subscribe
  <2>1. socket = "asked" /\ HandleEvent /\ socket' = "up" /\ Send
    BY <1>4 DEF Subscribe
  <2>2. channel = <<>> /\ pc = "next" /\ daemon = "away" /\ daemon' \in {"initial", "live"}
    BY <2>1, SubscribeStream DEF SessionInv
  <2>3. CASE daemon' = "live"
    BY <1>1, <2>1, <2>2, <2>3, SendOpens DEF SessionInv, Waits
  <2>4. CASE daemon' = "initial"
    <3>1. UNCHANGED channel
      BY <2>1, <2>4 DEF Send
    <3> QED BY <1>1, <2>1, <2>2, <2>4, <3>1 DEF SessionInv
  <2> QED BY <2>2, <2>3, <2>4
<1>5. CASE Part \/ BackendRestart
  <2>1. /\ socket' # "up" /\ (socket' = "asked" => socket = "asked") /\ (socket' # "none" => socket # "none")
        /\ UNCHANGED channel
    BY <1>5 DEF Part, BackendRestart
  <2> QED BY <1>1, <1>2, <2>1 DEF SessionInv
<1> QED BY <1>3, <1>4, <1>5

LEMMA CommandKeepsSession ==
  ASSUME SessionInv, Command, pc = "next" => undone = {}
  PROVE  SessionInv'
<1>1. UNCHANGED <<want, socket, channel, daemon, told>>
  BY DEF Command, vars, own, feed, Fw!ProvideChain, Fw!Prepare, Fw!Create, Fw!Unredirect, Fw!Redirect,
         Fw!Unhook, Fw!Hook, Fw!Restore, Fw!Update, Fw!RemoveAccept, Fw!AddAccept, Fw!Updated,
         Fw!Handled, Fw!Drop, Fw!Flush, Fw!DeleteJump, Fw!DeleteChain, Fw!Exit, Fw!memory
<1>2. SUFFICES ASSUME socket # "none"
               PROVE  /\ pc # "next" /\ pc' \in {"next"} \cup Fw!Serving
                      /\ Server \subseteq Served => Server \subseteq Served'
  <2>1. CASE socket = "none"
    BY <1>1, <2>1 DEF SessionInv
  <2>2. CASE socket # "none"
    <3>1. /\ pc # "next" /\ pc' \in {"next"} \cup Fw!Serving
          /\ Server \subseteq Served => Server \subseteq Served'
      BY <1>2, <2>2
    <3> QED BY <1>1, <2>2, <3>1 DEF SessionInv, Waits, Fw!Serving, Fw!Preparing
  <2> QED BY <2>1, <2>2
<1> USE DEF Fw!Serving, Fw!Preparing
<1>3. pc \in {"next"} \cup Fw!Serving
  BY <1>2 DEF SessionInv
<1>4. ASSUME NEW s \in Server, Fw!ProvideChain(s)
      PROVE  /\ pc # "next" /\ pc' \in {"next"} \cup Fw!Serving
             /\ Server \subseteq Served => Server \subseteq Served'
  BY <1>4 DEF Fw!ProvideChain, Served
<1>5. CASE Fw!Prepare
  BY <1>5 DEF Fw!Prepare, Fw!Create, Fw!Unredirect, Fw!Redirect, Fw!Unhook, Fw!Hook, Fw!Restore,
              Fw!memory, Served
<1>6. CASE Fw!Update
  BY <1>6 DEF Fw!Update, Fw!RemoveAccept, Fw!AddAccept, Fw!Updated, Served
<1>7. CASE Fw!Handled
  BY <1>7 DEF Fw!Handled, Served
<1>8. CASE Fw!Drop
  BY <1>3, <1>8 DEF Fw!Drop, Fw!Flush, Fw!DeleteJump, Fw!DeleteChain, Fw!Exit
<1> QED BY <1>4, <1>5, <1>6, <1>7, <1>8 DEF Command

LEMMA NextKeepsSession ==
  ASSUME FirewallConstants, TypeOK, TypeOK', FeedInv, ChannelInv, SessionInv, [FirewallNext]_firewallVars,
         pc = "next" => undone = {}, want \in [Server -> SUBSET Address]
  PROVE  SessionInv'
<1>1. CASE NextMessage
  <2>1. /\ channel # <<>> /\ Fw!Receive(Head(channel)) /\ channel' = Tail(channel)
        /\ UNCHANGED <<socket, daemon, told>>
    BY <1>1 DEF NextMessage, vars, own, feed
  <2>2. pc = "next" /\ pc' = "port" /\ have' = have
    BY <2>1 DEF Fw!Receive
  <2>3. CASE socket # "up"
    BY <2>1, <2>2, <2>3 DEF SessionInv, Fw!Serving
  <2>4. CASE socket = "up"
    <3>1. daemon = "live"
      BY <2>1, <2>4 DEF SessionInv
    <3>2. Head(channel).kind = "Initial" \/ Server \subseteq have
      BY <2>2, <2>4, <3>1 DEF SessionInv, Waits, Served, Fw!Preparing
    <3>3. \A s \in Server, a \in Address : Replay(channel', want', told', s, a)
      BY <2>1, <2>4, <3>1, <3>2, ReceivedReplays DEF SessionInv
    <3>4. Server \subseteq Served'
      <4>1. CASE Head(channel).kind = "Initial"
        <5>1. undone' = Server
          BY <2>1, <4>1 DEF Fw!Receive
        <5> QED BY <5>1 DEF Served
      <4>2. CASE Server \subseteq have
        BY <2>2, <4>2 DEF Served
      <4> QED BY <3>2, <4>1, <4>2
    <3> QED BY <2>1, <2>2, <2>4, <3>1, <3>3, <3>4 DEF SessionInv, Fw!Serving
  <2> QED BY <2>3, <2>4
<1>2. CASE Connect
  <2>1. socket' = "asked" /\ channel' = <<>> /\ pc' = "next"
    BY <1>2 DEF Connect, Fw!Start
  <2> QED BY <2>1 DEF SessionInv
<1>3. CASE Fail
  <2>1. socket' = "none"
    BY <1>3, Zenon DEF Fail
  <2> QED BY <2>1 DEF SessionInv
<1>4. CASE UNCHANGED firewallVars
  BY <1>4 DEF firewallVars, vars, own, feed, process, SessionInv, Waits, Served, Fw!Serving, Fw!Preparing
<1> QED BY <1>1, <1>2, <1>3, <1>4, BackendKeepsSession, CommandKeepsSession DEF FirewallNext
-----------------------------------------------------------------------------
(***************************************************************************)
(* The whole.                                                              *)
(***************************************************************************)
\* Fw and Fp are the same instance of Daemon
LEMMA SameDaemon ==
  /\ Fw!Spec => Fp!Spec
  /\ Fp!RulesMatch => Fw!RulesMatch
  /\ Fp!ServedPortsGuarded => Fw!ServedPortsGuarded
  /\ Fp!RuleInv => (pc = "next" => undone = {}) /\ want \in [Server -> SUBSET Address]
<1>1. Fw!Spec => Fp!Spec
  BY DEF Fw!Spec, Fw!Init, Fw!NothingInMind, Fw!NoMessage, Fw!Next, Fw!Receive, Fw!Before, Fw!RulesOf,
         Fw!Initial, Fw!Event, Fw!Run, Fw!Start, Fw!ProvideChain, Fw!GoalOf, Fw!Prepare, Fw!Create,
         Fw!Unredirect, Fw!Redirect, Fw!Unhook, Fw!Hook, Fw!Restore, Fw!Update, Fw!RemoveAccept,
         Fw!AddAccept, Fw!Updated, Fw!Handled, Fw!Drop, Fw!Flush, Fw!DeleteJump, Fw!DeleteChain,
         Fw!Exit, Fw!Forget, Fw!Stop, Fw!Panic, Fw!PanicInDrop, Fw!Kill, Fw!Fault, Fw!Preparing,
         Fw!vars, Fw!kernel, Fw!memory,
         Fp!Spec, Fp!Init, Fp!NothingInMind, Fp!NoMessage, Fp!Next, Fp!Receive, Fp!Before, Fp!RulesOf,
         Fp!Initial, Fp!Event, Fp!Run, Fp!Start, Fp!ProvideChain, Fp!GoalOf, Fp!Prepare, Fp!Create,
         Fp!Unredirect, Fp!Redirect, Fp!Unhook, Fp!Hook, Fp!Restore, Fp!Update, Fp!RemoveAccept,
         Fp!AddAccept, Fp!Updated, Fp!Handled, Fp!Drop, Fp!Flush, Fp!DeleteJump, Fp!DeleteChain,
         Fp!Exit, Fp!Forget, Fp!Stop, Fp!Panic, Fp!PanicInDrop, Fp!Kill, Fp!Fault, Fp!Preparing,
         Fp!vars, Fp!kernel, Fp!memory
<1>2. Fp!RulesMatch => Fw!RulesMatch
  BY DEF Fp!RulesMatch, Fw!RulesMatch, Fp!RulesOf, Fw!RulesOf
<1>3. Fp!ServedPortsGuarded => Fw!ServedPortsGuarded
  BY DEF Fp!ServedPortsGuarded, Fw!ServedPortsGuarded, Fp!Guarded, Fw!Guarded, Fp!Dropping, Fw!Dropping
<1>4. Fp!RuleInv => (pc = "next" => undone = {}) /\ want \in [Server -> SUBSET Address]
  BY DEF Fp!RuleInv, Fp!DoneAsWanted, Fp!TypeOK
<1> QED BY <1>1, <1>2, <1>3, <1>4

\* the backend behaves as IpPasses says, whatever becomes of the daemon
LEMMA BackendBehaves == FirewallSpec => Spec
<1>1. FirewallInit => Init
  BY DEF FirewallInit
<1> QED BY <1>1, StepsOfBackend, PTL DEF FirewallSpec, Spec

LEMMA ChannelHolds == FirewallConstants /\ FirewallSpec => []ChannelInv
<1>1. FirewallInit => ChannelInv
  BY EmptySeq DEF FirewallInit, ChannelInv
<1>2. FirewallConstants /\ TypeOK /\ TypeOK' /\ ChannelInv /\ [FirewallNext]_firewallVars => ChannelInv'
  BY NextKeepsChannel
<1>3. FirewallConstants => FirewallConstants'
  BY DEF FirewallConstants
<1> QED BY <1>1, <1>2, <1>3, BackendBehaves, TypeCorrect, PTL DEF FirewallSpec

LEMMA DaemonBehaves == FirewallConstants /\ FirewallSpec => Fw!Spec
<1>1. FirewallInit => Fw!Init
  BY DEF FirewallInit
<1>2. ChannelInv /\ [FirewallNext]_firewallVars => [Fw!Next]_Fw!vars
  BY StepsOfDaemon
<1> QED BY <1>1, <1>2, ChannelHolds, PTL DEF FirewallSpec, Fw!Spec

\* what is proved of Daemon, for these ports
LEMMA DaemonProved ==
  ASSUME FirewallConstants
  PROVE  /\ Fp!Spec => []Fp!RuleInv
         /\ Fp!Spec => []Fp!RulesMatch
         /\ Fp!Spec => []Fp!ServedPortsGuarded
<1>1. NoPort \notin Server /\ MaxFaults \in Nat
  BY DEF FirewallConstants
<1>2. Fp!Spec => []Fp!RuleInv
  BY <1>1, Fp!RuleInvHolds
<1>3. Fp!Spec => []Fp!RulesMatch
  BY <1>1, Fp!RulesAreRight
<1>4. Fp!Spec => []Fp!ServedPortsGuarded
  BY <1>1, Fp!PortsStayGuarded
<1> QED BY <1>2, <1>3, <1>4

LEMMA DaemonInvs ==
  FirewallConstants /\ FirewallSpec => [](Fp!RuleInv /\ Fp!RulesMatch /\ Fp!ServedPortsGuarded)
<1>1. Fw!Spec => Fp!Spec
  BY SameDaemon
<1>2. /\ FirewallConstants /\ Fp!Spec => []Fp!RuleInv
      /\ FirewallConstants /\ Fp!Spec => []Fp!RulesMatch
      /\ FirewallConstants /\ Fp!Spec => []Fp!ServedPortsGuarded
  BY DaemonProved
<1> QED BY <1>1, <1>2, DaemonBehaves, PTL

\* Whatever else goes on, the backend of the composed system is one of IpPasses and
\* its process one of Daemon: what the two modules promise holds here too, and each
\* message the process handles is one of those that Daemon allows for.
THEOREM PartsBehave == FirewallConstants /\ FirewallSpec => Spec /\ Fw!Spec
BY BackendBehaves, DaemonBehaves

LEMMA SessionHolds == FirewallConstants /\ FirewallSpec => []SessionInv
<1>1. FirewallInit => SessionInv
  BY DEF FirewallInit, SessionInv
<1>2. /\ FirewallConstants /\ TypeOK /\ TypeOK' /\ FeedInv /\ ChannelInv /\ Fp!RuleInv
      /\ SessionInv /\ [FirewallNext]_firewallVars
      => SessionInv'
  BY NextKeepsSession, SameDaemon
<1>3. FirewallConstants => FirewallConstants'
  BY DEF FirewallConstants
<1>4. Spec => [](TypeOK /\ FeedInv)
  BY FeedInvHolds
<1> QED BY <1>1, <1>2, <1>3, <1>4, BackendBehaves, ChannelHolds, DaemonInvs, PTL DEF FirewallSpec

LEMMA SessionFollows ==
  ASSUME SessionInv, Fp!RuleInv, Fp!RulesMatch
  PROVE  RulesFollow /\ (UpToDate => Server \subseteq have)
<1> SUFFICES ASSUME UpToDate
             PROVE  Server \subseteq have /\ \A s \in Server : Fw!RulesOf(s) = ToldOf(s)
  BY DEF RulesFollow
<1>1. socket = "up" /\ daemon = "live" /\ channel = <<>> /\ pc = "next"
  BY DEF UpToDate
<1>2. undone = {} /\ want \in [Server -> SUBSET Address] /\ Fw!RulesMatch
  BY <1>1, SameDaemon
<1>3. Server \subseteq have
  BY <1>1, <1>2 DEF SessionInv, Waits, Served, Fw!Preparing
<1>4. ASSUME NEW s \in Server  PROVE Fw!RulesOf(s) = ToldOf(s)
  <2>1. Fw!RulesOf(s) = want[s] /\ want[s] \subseteq Address
    BY <1>1, <1>2, <1>3 DEF Fw!RulesMatch
  <2>2. ASSUME NEW a \in Address  PROVE a \in want[s] <=> <<s, a>> \in told
    <3>1. Replay(channel, want, told, s, a)
      BY <1>1 DEF SessionInv
    <3>2. DOMAIN channel = {}
      BY <1>1
    <3> QED BY <3>1, <3>2 DEF Replay
  <2> QED BY <2>1, <2>2 DEF ToldOf
<1> QED BY <1>3, <1>4

\* A daemon that has handled what was sent to it has, for every port, exactly the
\* rules the gateway has told it of, for any number of restarts of the backend, lost
\* connections, panics and kills before: no change falls between the snapshot and
\* the stream, and nothing an earlier process has left survives the snapshot.
THEOREM RulesFollowTold == FirewallConstants /\ FirewallSpec => []RulesFollow
<1>1. SessionInv /\ Fp!RuleInv /\ Fp!RulesMatch => RulesFollow
  BY SessionFollows
<1> QED BY <1>1, SessionHolds, DaemonInvs, PTL

LEMMA PassesAreRules ==
  ASSUME TypeOK, FeedInv, TableAgrees, RulesFollow, Fw!ServedPortsGuarded,
         UpToDate => Server \subseteq have
  PROVE  PortsRight
<1> SUFFICES ASSUME UpToDate, NEW s \in Server \ unsettled
             PROVE  /\ Fw!Guarded(s)
                    /\ \A a \in Address : <<s, a>> \notin missed =>
                         /\ \A c \in Player :
                              AtRest(s, c) /\ <<s, c>> \in passes /\ <<c, a>> \in fresh => <<s, a>> \in accept
                         /\ <<s, a>> \in accept =>
                              \E c \in Player :
                                \/ ~ AtRest(s, c) \/ <<s, <<c, a>>>> \in uncovered
                                \/ <<s, c>> \in passes /\ <<c, a>> \in fresh \cup expired
  BY DEF PortsRight
<1>1. daemon = "live" /\ pc = "next"
  BY DEF UpToDate
<1>2. Fw!Guarded(s)
  BY <1>1 DEF Fw!ServedPortsGuarded, Fw!Dropping
<1>3. ASSUME NEW a \in Address, <<s, a>> \notin missed
      PROVE  s \in built /\ (<<s, a>> \in accept <=> \E c \in Player : <<c, a>> \in table[s])
  <2>1. s \in built /\ (<<s, a>> \in told <=> a \in Keys(table[s]))
    BY <1>1, <1>3 DEF FeedInv, Agree, Covered
  <2>2. <<s, a>> \in accept <=> <<s, a>> \in told
    <3>1. Fw!RulesOf(s) = ToldOf(s)
      BY DEF RulesFollow
    <3> QED BY <3>1 DEF Fw!RulesOf, ToldOf
  <2> QED BY <2>1, <2>2 DEF Keys
<1>4. ASSUME NEW a \in Address, s \in built, NEW c \in Player, AtRest(s, c)
      PROVE  /\ <<s, c>> \in passes /\ <<c, a>> \in fresh => <<c, a>> \in table[s]
             /\ <<c, a>> \in table[s] => \/ <<s, c>> \in passes /\ <<c, a>> \in fresh \cup expired
                                         \/ <<s, <<c, a>>>> \in uncovered
  BY <1>4 DEF TableAgrees, AtRest, AddressesOf
<1> QED BY <1>2, <1>3, <1>4

\* From Redis to the kernel, for any number of players, ports and addresses: with a
\* daemon that is up to date every port whose table was not built during a change is
\* guarded, lets in the addresses of the players that hold a pass for it, and of
\* nobody else, but for players about whom something is under way, for changes that
\* fell into the snapshot's gap and for addresses that had expired.
THEOREM PortsAreRight == FirewallConstants /\ FirewallSpec => []PortsRight
<1>1. /\ TypeOK /\ FeedInv /\ TableAgrees
      /\ SessionInv /\ Fp!RuleInv /\ Fp!RulesMatch /\ Fp!ServedPortsGuarded
      => PortsRight
  BY SessionFollows, PassesAreRules, SameDaemon
<1>2. Spec => [](TypeOK /\ FeedInv)
  BY FeedInvHolds
<1>3. Spec => []TableAgrees
  BY TablesAgree
<1> QED BY <1>1, <1>2, <1>3, SessionHolds, DaemonInvs, BackendBehaves, PTL
=============================================================================
