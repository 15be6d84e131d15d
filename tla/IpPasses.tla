------------------------------ MODULE IpPasses ------------------------------
(***************************************************************************)
(* From passes and addresses to the firewall: IpLinkService                *)
(* (queue-backend/src/ipLink), which keeps the addresses each player was   *)
(* seen at and drops those that expired, and IptablesEventsService with    *)
(* its gateway (queue-backend/src/iptablesEvents), which keeps a table of  *)
(* addresses per port and tells the daemon about the changes.              *)
(*                                                                         *)
(* Composed with Passes: its calls and those of this module share one      *)
(* Redis connection, `wire`.  A command takes effect when it is issued;    *)
(* the entry on the wire is the call that goes on when its reply comes.    *)
(* Handlers of an event start in the step that emits it.                   *)
(***************************************************************************)
EXTENDS Naturals, Sequences, FiniteSets

CONSTANTS
  Player, Server, MaxWire, MaxRestarts,   \* as in Passes
  MaxEvents,    \* bound: pass changes, logins and expiries there are at most
  Address,      \* IPv4 addresses (linkIp returns at once for any other)
  Seen,         \* pairs <<c, a>>: the addresses from which each player comes
  Offered,      \* pairs <<s, c>>: the passes that come and go
  HeldAtFirst, LinkedAtFirst  \* what Redis holds when the process starts

ASSUME SourceAssumption ==
  /\ Server # {} /\ Player # {} /\ IsFiniteSet(Address)
  /\ Seen \subseteq Player \X Address /\ LinkedAtFirst \subseteq Seen
  /\ Offered \subseteq Server \X Player /\ HeldAtFirst \subseteq Server \X Player

VARIABLES
  passes, held, wire, known, shown, mismatches, cut, restarts,  \* as in Passes
  fresh,        \* ip_of:{c} entries younger than ip_expire, as <<c, a>>
  expired,      \* ip_of:{c} entries that are older
  built,        \* ports whose table ipPasses[s] exists
  table,        \* table[s]: who may come from where, as <<c, a>>
  daemon,       \* the gateway's stream: "away", "initial" or "live"
  told,         \* what its daemon was told to accept, as <<s, a>>
  unsettled,    \* ports whose table was built while its sources changed, or with
                \* an address that expired in the middle of a linkIp
  uncovered,    \* <<s, <<c, a>>>>: the last removal of c's pass for s did not
                \* revoke a, which had expired or been pruned by then
  missed,       \* <<s, a>>: a change the daemon was not told of
  events        \* pass changes, logins and expiries so far

P == INSTANCE Passes

redis == <<passes, held>>
knowledge == <<known, shown, mismatches, cut, restarts>>
store == <<fresh, expired>>
rules == <<built, table>>
feed == <<daemon, told>>
history == <<unsettled, uncovered, missed>>
own == <<store, rules, feed, history>>
vars == <<redis, wire, knowledge, own, events>>

Link == Player \X Address
\* accepts: an address may reach a port
Rule == Server \X Address

\* a call of linkIp: the address of the login, the expired ones it has found
LinkCall == [op : {"link"}, at : {"prune", "pruned", "linked"}, who : Player,
             addr : Address, old : SUBSET Address, added : BOOLEAN]
\* a handler or the gateway's snapshot, and the rules it has still to deal with;
\* while it builds the table of `port`, the players to look up and what it found
Job == [op : {"allow", "revoke", "snapshot"}, at : {"sources", "build"},
        who : Player, todo : SUBSET Rule, port : Server,
        left : SUBSET Player, found : SUBSET Link]

Entry == P!Call \cup LinkCall \cup Job

TypeOK ==
  /\ passes \subseteq P!Pass /\ held \subseteq P!Pass /\ known \subseteq P!Pass
  /\ wire \in Seq(Entry)
  /\ fresh \subseteq Link /\ expired \subseteq Link \ fresh
  /\ built \subseteq Server /\ table \in [Server -> SUBSET Link]
  /\ daemon \in {"away", "initial", "live"} /\ told \subseteq Rule
  /\ unsettled \subseteq Server /\ uncovered \subseteq Server \X Link
  /\ missed \subseteq Rule /\ events \in Nat

\* the process starts with whatever Redis holds
Init ==
  /\ passes = HeldAtFirst /\ held = HeldAtFirst /\ known = HeldAtFirst
  /\ shown = [c \in Player |-> P!PassesOf(c, HeldAtFirst)]
  /\ fresh = LinkedAtFirst /\ expired = {}
  /\ wire = <<>> /\ mismatches = {} /\ cut = {} /\ restarts = 0
  /\ built = {} /\ table = [s \in Server |-> {}]
  /\ daemon = "away" /\ told = {}
  /\ unsettled = {} /\ uncovered = {} /\ missed = {} /\ events = 0
-----------------------------------------------------------------------------
AddressesOf(c, links) == {a \in Address : <<c, a>> \in links}
Keys(links) == {a \in Address : \E c \in Player : <<c, a>> \in links}
Ports(todo) == {s \in Server : \E a \in Address : <<s, a>> \in todo}
ServerPasses(s) == {c \in Player : <<s, c>> \in passes}
\* ports whose table is being built, or whose rules wait for one that is
Building == {s \in Server : \E i \in DOMAIN wire :
                              wire[i].at = "build" /\ s \in Ports(wire[i].todo)}

\* the head of the wire is resumed and leaves it
Rest == Tail(wire)
LinkOf(c) == {i \in DOMAIN wire : wire[i].op = "link" /\ wire[i].who = c}

\* a handler has issued its first command, whose answer gives the rules it
\* deals with: getIp for a pass, SMEMBERS pass:{c} for an address
Handler(op, c, todo) ==
  [op |-> op, at |-> "sources", who |-> c, todo |-> todo,
   port |-> CHOOSE s \in Server : TRUE, left |-> {}, found |-> {}]
PassHandler(op, s, c) == Handler(op, c, {s} \X AddressesOf(c, fresh))
IpHandler(op, c, a) == Handler(op, c, P!PassesOf(c, held) \X {a})
-----------------------------------------------------------------------------
(***************************************************************************)
(* Passes, and what its events start                                       *)
(***************************************************************************)
Occurs == events < MaxEvents /\ events' = events + 1

\* what now changes may come too late for a table that is being built, or be
\* overtaken by what waits for one
Unsettle == unsettled' = unsettled \cup Building

ChangePass(p) ==
  /\ Occurs
  /\ P!AddPassForCkey(p) \/ P!RemoveCKeyPass(p)
  /\ Unsettle
  /\ UNCHANGED <<store, rules, feed, uncovered, missed>>

PassReply ==
  /\ P!Own \/ P!Mismatch \/ P!Disown \/ P!Read
  /\ UNCHANGED <<own, events>>

\* PassAdded starts handlePassAdded, which awaits getIp
HandlePassAdded ==
  /\ P!Resumes("tell") /\ Head(wire).op = "add"
  /\ P!Announced
  /\ wire' = Append(Rest, PassHandler("allow", Head(wire).pass[1], Head(wire).pass[2]))
  /\ Unsettle
  /\ UNCHANGED <<redis, mismatches, cut, restarts, store, rules, feed, uncovered, missed, events>>

\* PassRemoved starts handlePassRemoved: the addresses that have expired, or
\* were pruned, are not among those it revokes
HandlePassRemoved ==
  /\ P!Resumes("tell") /\ Head(wire).op = "remove"
  /\ P!Announced
  /\ LET s == Head(wire).pass[1]
         c == Head(wire).pass[2]
     IN  /\ wire' = Append(Rest, PassHandler("revoke", s, c))
         /\ uncovered' = {u \in uncovered : ~ (u[1] = s /\ u[2][1] = c)} \cup
              {<<s, <<c, a>>>> : a \in AddressesOf(c, Seen \ fresh)}
  /\ Unsettle
  /\ UNCHANGED <<redis, mismatches, cut, restarts, store, rules, feed, missed, events>>
-----------------------------------------------------------------------------
(***************************************************************************)
(* linkIp                                                                  *)
(***************************************************************************)
\* ZRANGEBYSCORE finds the expired addresses
LinkIp(c, a) ==
  /\ Occurs
  /\ Len(wire) < MaxWire
  /\ <<c, a>> \in Seen
  /\ wire' = Append(wire, [op |-> "link", at |-> "prune", who |-> c, addr |-> a,
                           old |-> AddressesOf(c, expired), added |-> FALSE])
  /\ UNCHANGED <<redis, knowledge, own>>

\* ZREMRANGEBYSCORE, up to the time of the first command
Prune ==
  /\ P!Resumes("prune")
  /\ expired' = expired \ ({Head(wire).who} \X Head(wire).old)
  /\ wire' = Append(Rest, [Head(wire) EXCEPT !.at = "pruned"])
  /\ Unsettle
  /\ UNCHANGED <<redis, knowledge, fresh, rules, feed, uncovered, missed, events>>

Orders(S) == {q \in [1 .. Cardinality(S) -> S] : \A i, j \in DOMAIN q : q[i] = q[j] => i = j}

\* mutant: ZADD to another key
ZaddAside ==
  /\ P!Resumes("pruned")
  /\ LET e == Head(wire)
     IN  /\ fresh' = fresh \cup {<<e.who, e.addr>>}
         /\ wire' = Append(Rest, [e EXCEPT !.at = "linked", !.added = TRUE])
  /\ Unsettle
  /\ UNCHANGED <<redis, knowledge, expired, rules, feed, uncovered, missed, events>>

\* IpRemoved for each of them; the loop assigns `ip`, so ZADD then stores the
\* last of them and not the address of the login
Zadd ==
  /\ P!Resumes("pruned")
  /\ LET e == Head(wire)
         c == Head(wire).who
     IN  \E q \in Orders(e.old) :
           LET ip == IF q = <<>> THEN e.addr ELSE q[Len(q)]
               Revoke(i) == IpHandler("revoke", c, q[i])
           IN  /\ fresh' = fresh \cup {<<c, ip>>}
               /\ expired' = expired \ {<<c, ip>>}
               /\ wire' = Rest \o [i \in DOMAIN q |-> Revoke(i)] \o
                    <<[e EXCEPT !.at = "linked", !.addr = ip,
                                !.added = <<c, ip>> \notin fresh \cup expired]>>
  /\ Unsettle
  /\ UNCHANGED <<redis, knowledge, rules, feed, uncovered, missed, events>>

\* mutant: IpAdded for an address that was there already
LinkedAgain ==
  /\ P!Resumes("linked")
  /\ LET e == Head(wire)
     IN  wire' = IF e.added THEN Rest ELSE Append(Rest, IpHandler("allow", e.who, e.addr))
  /\ Unsettle
  /\ UNCHANGED <<redis, knowledge, store, rules, feed, uncovered, missed, events>>

\* IpAdded, if ZADD has added anything
Linked ==
  /\ P!Resumes("linked")
  /\ LET e == Head(wire)
     IN  wire' = IF e.added THEN Append(Rest, IpHandler("allow", e.who, e.addr)) ELSE Rest
  /\ Unsettle
  /\ UNCHANGED <<redis, knowledge, store, rules, feed, uncovered, missed, events>>

\* ip_expire has passed since the last login from there
Expire(c, a) ==
  /\ Occurs
  /\ <<c, a>> \in fresh
  /\ fresh' = fresh \ {<<c, a>>}
  /\ expired' = expired \cup {<<c, a>>}
  /\ unsettled' = IF LinkOf(c) = {} THEN unsettled ELSE Server
  /\ UNCHANGED <<redis, wire, knowledge, rules, feed, uncovered, missed>>
-----------------------------------------------------------------------------
(***************************************************************************)
(* The tables.  The rules J of e whose port has a table, among those in T, *)
(* are dealt with in one go; for the first port without one, the table is  *)
(* built before e goes on.  (Whether `filter` leaves anyone decides about  *)
(* the REVOKE, so the order within one go does not matter.)                *)
(***************************************************************************)
Carried(e, D, T) ==
  [s \in Server |->
    LET mine == {e.who} \X {a \in Address : <<s, a>> \in D}
    IN  CASE e.op = "allow" -> T[s] \cup mine
          [] e.op = "revoke" -> T[s] \ mine
          [] e.op = "snapshot" -> T[s]]

\* mutant: REVOKE although another player comes from there
SentAll(e, D, T) == D

\* ALLOW for each rule; REVOKE when nobody is left at the address
Sent(e, D, T) ==
  IF e.op = "allow" THEN D ELSE {r \in D : r[2] \notin Keys(Carried(e, D, T)[r[1]])}

\* the daemon's Initial message already holds these ports, but it is not sent
Collected == IF daemon # "initial" THEN {}
             ELSE {s \in Server : \A i \in DOMAIN wire :
                     wire[i].op = "snapshot" => s \notin Ports(wire[i].todo)}

\* eventsSubject.next: those of the daemon's ports, if it is subscribed
Emit(e, D, T, miss) ==
  LET sent == Sent(e, D, T) IN
  /\ told' = IF daemon # "live" THEN told
             ELSE IF e.op = "allow" THEN told \cup sent ELSE told \ sent
  /\ missed' = IF daemon = "live" THEN miss \ sent
               ELSE miss \cup {r \in sent : r[1] \in Collected}
  /\ UNCHANGED daemon

\* getIpPasses of some ports; concat subscribes when the last one is there
Collect(D, T, miss, complete) ==
  /\ told' = told \cup {r \in D : r[2] \in Keys(T[r[1]])}
  /\ daemon' = IF complete THEN "live" ELSE "initial"
  /\ missed' = miss

Deal(e, T, B, miss, rest) ==
  \E S \in SUBSET (Ports(e.todo) \cap B) :
    LET D == {r \in e.todo : r[1] \in S}
        R == e.todo \ D
    IN  /\ e.at = "build" => e.port \in S
        /\ table' = Carried(e, D, T)
        /\ built' = B
        /\ IF e.op = "snapshot" THEN Collect(D, T, miss, R = {}) ELSE Emit(e, D, T, miss)
        /\ \/ R = {} /\ wire' = rest
           \/ \E s \in Ports(R) \ B :
                wire' = Append(rest, [e EXCEPT !.at = "build", !.todo = R, !.port = s,
                                               !.left = ServerPasses(s), !.found = {}])

\* the answer to a handler's first command
Handle ==
  /\ P!Resumes("sources")
  /\ Deal(Head(wire), table, built, missed, Rest)
  /\ UNCHANGED <<redis, knowledge, store, unsettled, uncovered, events>>

\* provideIpPassesFor: getIp for the next of the players with a pass
LookUp ==
  /\ P!Resumes("build") /\ Head(wire).left # {}
  /\ \E c \in Head(wire).left :
       wire' = Append(Rest, [Head(wire) EXCEPT !.left = @ \ {c},
                               !.found = @ \cup ({c} \X AddressesOf(c, fresh))])
  /\ UNCHANGED <<redis, knowledge, own, events>>

\* the table replaces whatever another one may have stored meanwhile
StoreTable ==
  /\ P!Resumes("build") /\ Head(wire).left = {}
  /\ LET e == Head(wire)
         s == Head(wire).port
         K == Keys(e.found)
         changed == IF s \in built THEN (K \ Keys(table[s])) \cup (Keys(table[s]) \ K) ELSE {}
         unheard == IF daemon = "live" \/ s \in Collected THEN {s} \X changed ELSE {}
     IN  /\ Deal(e, [table EXCEPT ![s] = e.found], built \cup {s}, missed \cup unheard, Rest)
         /\ unsettled' = IF s \in built THEN unsettled \cup {s} ELSE unsettled
  /\ UNCHANGED <<redis, knowledge, store, uncovered, events>>
-----------------------------------------------------------------------------
(***************************************************************************)
(* The gateway, and a restart                                              *)
(***************************************************************************)
\* a daemon subscribes to all ports
HandleEvent ==
  /\ daemon = "away"
  /\ Deal(Handler("snapshot", CHOOSE c \in Player : TRUE, Rule), table, built, {}, wire)
  /\ UNCHANGED <<redis, knowledge, store, unsettled, uncovered, events>>

\* it goes away (not while its snapshot is collected)
Leave ==
  /\ daemon = "live"
  /\ daemon' = "away" /\ told' = {} /\ missed' = {}
  /\ UNCHANGED <<redis, wire, knowledge, store, rules, unsettled, uncovered, events>>

Restart ==
  /\ P!Restart
  /\ built' = {} /\ table' = [s \in Server |-> {}]
  /\ daemon' = "away" /\ told' = {}
  /\ unsettled' = {} /\ uncovered' = {} /\ missed' = {}
  /\ UNCHANGED <<store, events>>

Next ==
  \/ \E p \in Offered : ChangePass(p)
  \/ PassReply \/ HandlePassAdded \/ HandlePassRemoved
  \/ \E c \in Player, a \in Address : LinkIp(c, a) \/ Expire(c, a)
  \/ Prune \/ Zadd \/ Linked
  \/ Handle \/ LookUp \/ StoreTable
  \/ HandleEvent \/ Leave \/ Restart

Spec == Init /\ [][Next]_vars
-----------------------------------------------------------------------------
\* no call or handler for c is under way
Settled(c) ==
  \A i \in DOMAIN wire :
    IF wire[i].op \in {"add", "remove"} THEN wire[i].pass[2] # c
    ELSE wire[i].op = "snapshot" \/ wire[i].who # c

(***************************************************************************)
(* Once nothing is under way for a player, the table of a port lists the   *)
(* player's addresses if it holds a pass there, and nothing else of it,    *)
(* unless the table was built while passes or addresses changed, the rule  *)
(* was left behind because its address had expired when the pass went, or  *)
(* a restart cut the update of the pass.                                   *)
(***************************************************************************)
TableAgrees ==
  \A s \in built \ unsettled : \A c \in Player :
    Settled(c) /\ <<s, c>> \notin cut =>
      /\ <<s, c>> \in passes => AddressesOf(c, fresh) \subseteq AddressesOf(c, table[s])
      /\ \A a \in AddressesOf(c, table[s]) :
           \/ <<s, c>> \in passes /\ <<c, a>> \in fresh \cup expired
           \/ <<s, <<c, a>>>> \in uncovered

(***************************************************************************)
(* A daemon that is subscribed accepts exactly the addresses in the        *)
(* tables: shared addresses are revoked with their last player, and only a *)
(* change between its snapshot and its subscription, or a table that was   *)
(* built twice, is kept from it.                                           *)
(***************************************************************************)
DaemonAgrees ==
  daemon = "live" =>
    \A s \in built, a \in Address :
      <<s, a>> \in missed \/ (<<s, a>> \in told <=> a \in Keys(table[s]))
=============================================================================
