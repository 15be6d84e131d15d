----------------------------- MODULE Admission -----------------------------
(***************************************************************************)
(* PlayerListService (queue-backend/src/playerList) with the calls that    *)
(* reach it: ticks of the queue that admit a player, requests of staff and *)
(* donators that skip the line, and the sync with the game servers that    *)
(* runs every 10 s.  Each server has a list of entries in Redis, one JSON  *)
(* value that is read, changed and written back under a mutex.  An entry   *)
(* holds its player's seat; a pass lets the player through the firewall.   *)
(*                                                                         *)
(* Tasks interleave at every await.  The line (Queue) is a set here and a  *)
(* pass (Passes) is added or removed in one step.  Whether a player is     *)
(* staff or a donator does not change.                                     *)
(***************************************************************************)
EXTENDS Naturals, FiniteSets

CONSTANTS
  Player,       \* ckeys
  Server,       \* queued ports
  Max,          \* Max[s]: the seats of server s
  Staff,        \* players whose entries do not count as occupied seats
  Privileged,   \* <<s, c>>: addToQueue admits c to s without the line
  Visitors,     \* players that enter and leave the games
  Tick,         \* ticks of processQueues; several of them may overlap
  Request,      \* addToQueue requests that skip the line
  MaxRestarts,  \* bound: how often the process may be restarted
  NoPlayer, NoServer

Task == Tick \cup Request
Seat == Server \X Player

ASSUME SeatAssumption == Max \in [Server -> Nat]
ASSUME PlayerAssumption ==
  /\ IsFiniteSet(Player) /\ NoPlayer \notin Player
  /\ Staff \subseteq Player /\ Visitors \subseteq Player
  /\ Privileged \subseteq Seat /\ NoServer \notin Server
ASSUME TaskAssumption == Tick \cap Request = {} /\ IsFiniteSet(Tick) /\ MaxRestarts \in Nat

VARIABLES
  queued,       \* queued[s]: the players in the line of s
  listed,       \* listed[s]: the players with an entry in the player list of s
  overdue,      \* entries whose `time` is older than ghost_away_threshold
  pass,         \* the passes there are
  there,        \* there[s]: the players in the game of s
  at,           \* at[t]: where task t is
  who, port,    \* the player and the server of task t
  snap,         \* snap[t]: the player list t has read
  sync,         \* where the sync is
  left,         \* the servers the sync has not done yet
  here, last,   \* the fetched player list and the saved one of the server it does
  todo, kept,   \* the players it has to visit, and its updated list
  fresh,        \* the player it has just given a pass
  current,      \* the server it does
  fromLine,     \* fromLine[s]: entries a tick has written
  stray,        \* passes a failed sync or a restart left without an entry
  restarts      \* how often the process was restarted

redis == <<queued, listed, overdue, pass>>
tasks == <<at, who, port, snap>>
syncing == <<sync, left, here, last, todo, kept, fresh, current>>
ghosts == <<fromLine, stray, restarts>>
vars == <<redis, there, tasks, syncing, ghosts>>

Critical == {"locked", "read", "written"}
Admitting == {"lookup", "waiting"} \cup Critical

TypeOK ==
  /\ queued \in [Server -> SUBSET Player]
  /\ listed \in [Server -> SUBSET Player]
  /\ overdue \subseteq Seat /\ pass \subseteq Seat
  /\ there \in [Server -> SUBSET Player]
  /\ at \in [Task -> {"idle", "room"} \cup Admitting]
  /\ who \in [Task -> Player \cup {NoPlayer}]
  /\ port \in [Task -> Server \cup {NoServer}]
  /\ snap \in [Task -> SUBSET Player]
  /\ \A t \in Task : /\ at[t] # "idle" => port[t] \in Server
                     /\ at[t] \in Admitting => who[t] \in Player
  /\ sync \in {"idle", "waiting", "next", "visit", "lookup"}
  /\ left \subseteq Server
  /\ here \subseteq Player /\ last \subseteq Player
  /\ todo \subseteq Player /\ kept \subseteq Player
  /\ fresh \in Player \cup {NoPlayer}
  /\ current \in Server \cup {NoServer}
  /\ sync = "lookup" => fresh \in Player
  /\ sync \in {"visit", "lookup"} => current \in Server
  /\ fromLine \in [Server -> SUBSET Player]
  /\ stray \subseteq Seat
  /\ restarts \in Nat

SyncAtRest ==
  /\ left = {} /\ here = {} /\ last = {} /\ todo = {} /\ kept = {}
  /\ fresh = NoPlayer /\ current = NoServer

Init ==
  /\ queued = [s \in Server |-> {}] /\ listed = [s \in Server |-> {}]
  /\ overdue = {} /\ pass = {} /\ there = [s \in Server |-> {}]
  /\ at = [t \in Task |-> "idle"]
  /\ who = [t \in Task |-> NoPlayer] /\ port = [t \in Task |-> NoServer]
  /\ snap = [t \in Task |-> {}]
  /\ sync = "idle" /\ SyncAtRest
  /\ fromLine = [s \in Server |-> {}] /\ stray = {} /\ restarts = 0
-----------------------------------------------------------------------------
\* getPlayerCount: entries of staff are not counted
Occupied(s) == Cardinality(listed[s] \ Staff)

Unlisted == {p \in pass : p[2] \notin listed[p[1]]}

\* playerListMutex: nobody is inside runExclusive, which is left on every exit
MutexFree ==
  /\ \A t \in Task : at[t] \notin Critical
  /\ sync \in {"idle", "waiting"}

Goto(t, where) == at' = [at EXCEPT ![t] = where]
End(t) ==
  /\ Goto(t, "idle")
  /\ who' = [who EXCEPT ![t] = NoPlayer] /\ port' = [port EXCEPT ![t] = NoServer]
  /\ snap' = [snap EXCEPT ![t] = {}]
-----------------------------------------------------------------------------
(***************************************************************************)
(* The line, the games and the clock.                                      *)
(***************************************************************************)
Join(c, s) ==
  /\ <<s, c>> \notin pass \cup Privileged
  /\ c \notin queued[s]
  /\ queued' = [queued EXCEPT ![s] = @ \cup {c}]
  /\ UNCHANGED <<listed, overdue, pass, there, tasks, syncing, ghosts>>

Leave(c, s) ==
  /\ c \in queued[s]
  /\ queued' = [queued EXCEPT ![s] = @ \ {c}]
  /\ UNCHANGED <<listed, overdue, pass, there, tasks, syncing, ghosts>>

EnterGame(c, s) ==
  /\ c \in Visitors \ there[s]
  /\ there' = [there EXCEPT ![s] = @ \cup {c}]
  /\ UNCHANGED <<redis, tasks, syncing, ghosts>>

ExitGame(c, s) ==
  /\ c \in there[s]
  /\ there' = [there EXCEPT ![s] = @ \ {c}]
  /\ UNCHANGED <<redis, tasks, syncing, ghosts>>

\* an entry was not refreshed for longer than ghost_away_threshold
Lapse(c, s) ==
  /\ c \in listed[s]
  /\ <<s, c>> \notin overdue
  /\ overdue' = overdue \cup {<<s, c>>}
  /\ UNCHANGED <<queued, listed, pass, there, tasks, syncing, ghosts>>

\* an admin revokes a pass, without the mutex
Revoke(c, s) ==
  /\ <<s, c>> \in pass
  /\ pass' = pass \ {<<s, c>>}
  /\ stray' = stray \ {<<s, c>>}
  /\ UNCHANGED <<queued, listed, overdue, there, tasks, syncing, fromLine, restarts>>
-----------------------------------------------------------------------------
(***************************************************************************)
(* Ways into addFromQueue.                                                 *)
(***************************************************************************)
\* addToQueue of a player that needs no place in the line
SkipLine(t, c, s) ==
  /\ at[t] = "idle"
  /\ <<s, c>> \in Privileged \ pass
  /\ Goto(t, "lookup")
  /\ who' = [who EXCEPT ![t] = c] /\ port' = [port EXCEPT ![t] = s]
  /\ UNCHANGED <<redis, there, snap, syncing, ghosts>>

\* mutant: occupied > max
RoomForOneMore(t, s) ==
  /\ at[t] = "idle"
  /\ queued[s] # {}
  /\ Occupied(s) <= Max[s]
  /\ Goto(t, "room") /\ port' = [port EXCEPT ![t] = s]
  /\ UNCHANGED <<redis, there, who, snap, syncing, ghosts>>

\* processQueue finds somebody in the line, and a seat
Room(t, s) ==
  /\ at[t] = "idle"
  /\ queued[s] # {}
  /\ Occupied(s) < Max[s]
  /\ Goto(t, "room") /\ port' = [port EXCEPT ![t] = s]
  /\ UNCHANGED <<redis, there, who, snap, syncing, ghosts>>

Pop(t) ==
  /\ at[t] = "room"
  /\ \E c \in queued[port[t]] :
       /\ queued' = [queued EXCEPT ![port[t]] = @ \ {c}]
       /\ who' = [who EXCEPT ![t] = c]
  /\ Goto(t, "lookup")
  /\ UNCHANGED <<listed, overdue, pass, there, port, snap, syncing, ghosts>>

\* mutant: the tick goes on with nobody
PopNobody(t) ==
  /\ at[t] = "room"
  /\ queued[port[t]] = {}
  /\ Goto(t, "lookup")
  /\ UNCHANGED <<redis, there, who, port, snap, syncing, ghosts>>

\* the line has become empty: LPOP answers null and the tick ends with an error
PopNull(t) ==
  /\ at[t] = "room"
  /\ queued[port[t]] = {}
  /\ End(t)
  /\ UNCHANGED <<redis, there, syncing, ghosts>>
-----------------------------------------------------------------------------
(***************************************************************************)
(* addFromQueue.                                                           *)
(***************************************************************************)
\* the privileges of the player are looked up in the data base
Lookup(t) ==
  /\ at[t] = "lookup"
  /\ Goto(t, "waiting")
  /\ UNCHANGED <<redis, there, who, port, snap, syncing, ghosts>>

\* an error: the player is neither queued nor admitted
LookupFails(t) ==
  /\ at[t] = "lookup"
  /\ End(t)
  /\ UNCHANGED <<redis, there, syncing, ghosts>>

\* mutant: no mutex
LockAnyway(t) ==
  /\ at[t] = "waiting"
  /\ Goto(t, "locked")
  /\ UNCHANGED <<redis, there, who, port, snap, syncing, ghosts>>

Lock(t) ==
  /\ at[t] = "waiting"
  /\ MutexFree
  /\ Goto(t, "locked")
  /\ UNCHANGED <<redis, there, who, port, snap, syncing, ghosts>>

\* mutant: a mutex that waits without limit
TimesOutNever(t) ==
  /\ at[t] = "waiting" /\ FALSE
  /\ UNCHANGED vars

\* 'Player list mutation timed out', after 20 s
TimesOut(t) ==
  /\ at[t] = "waiting"
  /\ End(t)
  /\ UNCHANGED <<redis, there, syncing, ghosts>>

ReadList(t) ==
  /\ at[t] = "locked"
  /\ Goto(t, "read")
  /\ snap' = [snap EXCEPT ![t] = listed[port[t]]]
  /\ UNCHANGED <<redis, there, who, port, syncing, ghosts>>

WriteList(t) ==
  LET c == who[t]  s == port[t] IN
  /\ at[t] = "read"
  /\ Goto(t, "written")
  /\ listed' = [listed EXCEPT ![s] = snap[t] \cup {c}]
  /\ overdue' = overdue \ {<<s, c>>}
  /\ fromLine' = IF t \in Tick THEN [fromLine EXCEPT ![s] = @ \cup {c}] ELSE fromLine
  /\ stray' = stray \ {<<s, c>>}
  /\ UNCHANGED <<queued, pass, there, who, port, snap, syncing, restarts>>

AddPass(t) ==
  /\ at[t] = "written"
  /\ pass' = pass \cup {<<port[t], who[t]>>}
  /\ End(t)
  /\ UNCHANGED <<queued, listed, overdue, there, syncing, ghosts>>
-----------------------------------------------------------------------------
(***************************************************************************)
(* handleUpdateByondPlayerlist.                                            *)
(***************************************************************************)
SyncStart ==
  /\ sync = "idle"
  /\ sync' = "waiting"
  /\ UNCHANGED <<redis, there, tasks, left, here, last, todo, kept, fresh, current, ghosts>>

SyncTimesOut ==
  /\ sync = "waiting"
  /\ sync' = "idle"
  /\ UNCHANGED <<redis, there, tasks, left, here, last, todo, kept, fresh, current, ghosts>>

SyncLock ==
  /\ sync = "waiting"
  /\ MutexFree
  /\ sync' = "next"
  /\ left' = Server
  /\ UNCHANGED <<redis, there, tasks, here, last, todo, kept, fresh, current, ghosts>>

\* the game server does not answer, or with no list: what was known is left alone
FetchFails(s) ==
  /\ sync = "next" /\ s \in left
  /\ left' = left \ {s}
  /\ UNCHANGED <<redis, there, tasks, sync, here, last, todo, kept, fresh, current, ghosts>>

\* the players in the game and the entries; those in both keep their entries,
\* with a new time
Fetch(s) ==
  /\ sync = "next" /\ s \in left
  /\ sync' = "visit"
  /\ current' = s /\ left' = left \ {s}
  /\ here' = there[s] /\ last' = listed[s]
  /\ todo' = (there[s] \ listed[s]) \cup (listed[s] \ there[s])
  /\ kept' = there[s] \cap listed[s]
  /\ UNCHANGED <<redis, there, tasks, fresh, ghosts>>

\* away, but not for long: the entry stays as it is
SyncKeep(c) ==
  /\ sync = "visit" /\ c \in todo \cap last
  /\ <<current, c>> \notin overdue
  /\ todo' = todo \ {c} /\ kept' = kept \cup {c}
  /\ UNCHANGED <<redis, there, tasks, sync, left, here, last, fresh, current, ghosts>>

\* mutant: the entry goes, the pass stays
ExpireEntryOnly(c) ==
  /\ sync = "visit" /\ c \in todo \cap last
  /\ <<current, c>> \in overdue
  /\ todo' = todo \ {c}
  /\ UNCHANGED <<redis, there, tasks, sync, left, here, last, kept, fresh, current, ghosts>>

\* away for too long: removePlayer takes the pass, the entry is not written again
SyncExpire(c) ==
  /\ sync = "visit" /\ c \in todo \cap last
  /\ <<current, c>> \in overdue
  /\ todo' = todo \ {c}
  /\ pass' = pass \ {<<current, c>>}
  /\ stray' = stray \ {<<current, c>>}
  /\ UNCHANGED <<queued, listed, overdue, there, tasks, sync, left, here, last, kept,
                 fresh, current, fromLine, restarts>>

\* in the game without an entry: gets a pass first (saved entries come first)
SyncGrant(c) ==
  /\ sync = "visit" /\ c \in todo /\ todo \cap last = {}
  /\ pass' = pass \cup {<<current, c>>}
  /\ fresh' = c
  /\ sync' = "lookup"
  /\ UNCHANGED <<queued, listed, overdue, there, tasks, left, here, last, todo, kept, current, ghosts>>

\* then its privileges are looked up for the entry
SyncLookup ==
  /\ sync = "lookup"
  /\ todo' = todo \ {fresh} /\ kept' = kept \cup {fresh}
  /\ fresh' = NoPlayer
  /\ sync' = "visit"
  /\ UNCHANGED <<redis, there, tasks, left, here, last, current, ghosts>>

SyncRest ==
  /\ sync' = "idle"
  /\ left' = {} /\ here' = {} /\ last' = {} /\ todo' = {} /\ kept' = {}
  /\ fresh' = NoPlayer /\ current' = NoServer

\* the look-up throws: the sync ends, nothing is written for this server
SyncAborts ==
  /\ sync = "lookup"
  /\ SyncRest
  /\ stray' = Unlisted
  /\ UNCHANGED <<redis, there, tasks, fromLine, restarts>>

SyncWrite ==
  /\ sync = "visit" /\ todo = {}
  /\ listed' = [listed EXCEPT ![current] = kept]
  /\ overdue' = overdue \ {<<current, c>> : c \in here \cup (Player \ kept)}
  /\ fromLine' = [fromLine EXCEPT ![current] = @ \cap kept]
  /\ stray' = stray \ {<<current, c>> : c \in kept}
  /\ sync' = "next"
  /\ here' = {} /\ last' = {} /\ kept' = {} /\ current' = NoServer
  /\ UNCHANGED <<queued, pass, there, tasks, left, todo, fresh, restarts>>

SyncEnds ==
  /\ sync = "next" /\ left = {}
  /\ SyncRest
  /\ UNCHANGED <<redis, there, tasks, ghosts>>
-----------------------------------------------------------------------------
\* tasks and mutex live in memory, queues, lists and passes in Redis
Restart ==
  /\ restarts < MaxRestarts
  /\ restarts' = restarts + 1
  /\ at' = [t \in Task |-> "idle"]
  /\ who' = [t \in Task |-> NoPlayer] /\ port' = [t \in Task |-> NoServer]
  /\ snap' = [t \in Task |-> {}]
  /\ SyncRest
  /\ stray' = Unlisted
  /\ UNCHANGED <<redis, there, fromLine>>

World(c, s) ==
  \/ Join(c, s) \/ Leave(c, s) \/ EnterGame(c, s) \/ ExitGame(c, s)
  \/ Lapse(c, s) \/ Revoke(c, s)

Begin(t) ==
  \E s \in Server :
    \/ t \in Tick /\ Room(t, s)
    \/ t \in Request /\ \E c \in Player : SkipLine(t, c, s)

AddFromQueue(t) ==
  \/ Lookup(t) \/ LookupFails(t) \/ Lock(t) \/ TimesOut(t)
  \/ ReadList(t) \/ WriteList(t) \/ AddPass(t)

Continue(t) == Pop(t) \/ PopNull(t) \/ AddFromQueue(t)

SyncStep ==
  \/ SyncStart \/ SyncTimesOut \/ SyncLock \/ SyncEnds
  \/ \E s \in Server : Fetch(s) \/ FetchFails(s)
  \/ \E c \in Player : SyncKeep(c) \/ SyncExpire(c) \/ SyncGrant(c)
  \/ SyncLookup \/ SyncAborts \/ SyncWrite

Next ==
  \/ \E c \in Player, s \in Server : World(c, s)
  \/ \E t \in Task : Begin(t) \/ Continue(t)
  \/ SyncStep
  \/ Restart

Spec == Init /\ [][Next]_vars

(***************************************************************************)
(* A task that has begun goes on: Redis and the data base answer or fail,  *)
(* and the 20 s timer of the mutex fires.  The sync need not go on: it may *)
(* hang on a game server that never answers.                               *)
(***************************************************************************)
FairSpec == Spec /\ \A t \in Task : WF_vars(Continue(t))
-----------------------------------------------------------------------------
(***************************************************************************)
(* "Mutex needed to avoid write conflicts" (playerList.service.ts:42): no  *)
(* write of one task wipes out the entry another has written, although     *)
(* both read, wait and write back the whole list.  An entry goes only when *)
(* it was away too long.                                                   *)
(***************************************************************************)
NoLostEntry ==
  [][\A s \in Server : \A c \in listed[s] \ listed'[s] : <<s, c>> \in overdue]_vars

(***************************************************************************)
(* No pass outlives its entry: whoever has a pass to a server has an entry *)
(* in its list (so that the sync will take the pass away some day), or is  *)
(* being given one by the sync; a sync that failed or was cut may leave a  *)
(* stray pass.                                                             *)
(***************************************************************************)
BeingListed(s, c) ==
  sync \in {"visit", "lookup"} /\ current = s /\ c \in here \ last

EveryPassListed ==
  \A s \in Server, c \in Player :
    <<s, c>> \in pass => c \in listed[s] \/ BeingListed(s, c) \/ <<s, c>> \in stray

(***************************************************************************)
(* Ticks that overlap may admit more players than there are seats, for the *)
(* seats are counted before the mutex is taken: but not more than one for  *)
(* each other tick.                                                        *)
(***************************************************************************)
SeatsFromLine(s) == Cardinality(fromLine[s] \ Staff)

OverrunBounded ==
  \A s \in Server : SeatsFromLine(s) > 0 => SeatsFromLine(s) < Max[s] + Cardinality(Tick)

(***************************************************************************)
(* README.md:3, "limit players on all of our game servers": the line never *)
(* fills more seats than the server has.                                   *)
(***************************************************************************)
SlotsRespected == \A s \in Server : SeatsFromLine(s) <= Max[s]

(***************************************************************************)
(* Whatever the sync does, even if it hangs with the mutex held, every     *)
(* admission that has begun ends: it is made or it has failed.             *)
(***************************************************************************)
AdmissionSettles == \A t \in Task : at[t] # "idle" ~> at[t] = "idle"
=============================================================================
