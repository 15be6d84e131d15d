-------------------------- MODULE AdmissionProofs --------------------------
(***************************************************************************)
(* Theorems about Admission, for any number of players, servers, seats,    *)
(* overlapping ticks and requests.                                         *)
(*                                                                         *)
(* What a task has read of a player list under the mutex is still the list *)
(* when it writes (ReadIsCurrent, SyncIsCurrent): from this follow that no *)
(* entry is lost and that no pass is left without an entry.                *)
(***************************************************************************)
EXTENDS AdmissionRefinement, FiniteSetTheorems, TLAPS

\* one task at a time is in the critical section, or the sync
Exclusive ==
  /\ \A t, u \in Task : at[t] \in Critical /\ at[u] \in Critical => t = u
  /\ \A t \in Task : at[t] \in Critical => sync \in {"idle", "waiting"}

ReadIsCurrent ==
  \A t \in Task : /\ at[t] = "read" => snap[t] = listed[port[t]]
                  /\ at[t] = "written" => who[t] \in listed[port[t]]

\* what the sync has read is the list, and who was visited is kept or expired
SyncIsCurrent ==
  sync \in {"visit", "lookup"} =>
    /\ last = listed[current]
    /\ todo \subseteq here \cup last
    /\ \A c \in last :
         c \in todo \/ c \in kept \/ <<current, c>> \in overdue \ pass
    /\ \A c \in here \ last : c \in todo \/ c \in kept
    /\ sync = "lookup" => fresh \in here \ last

LineIsListed == \A s \in Server : fromLine[s] \subseteq listed[s]

\* ticks that have found a seat and not written an entry
InFlight(s) ==
  {t \in Tick : port[t] = s /\ at[t] \in {"room", "lookup", "waiting", "locked", "read"}}

Promised(s) == SeatsFromLine(s) + Cardinality(InFlight(s))

SeatsBounded == \A s \in Server : Promised(s) > 0 => Promised(s) < Max[s] + Cardinality(Tick)

ListInv == TypeOK /\ Exclusive /\ ReadIsCurrent /\ SyncIsCurrent /\ EveryPassListed
IInv == ListInv /\ LineIsListed /\ SeatsBounded
-----------------------------------------------------------------------------
\* nothing is listed, nothing is under way
LEMMA InitListInv == Init => ListInv
BY DEF Init, SyncAtRest, ListInv, TypeOK, Exclusive, ReadIsCurrent, SyncIsCurrent,
       EveryPassListed, Critical, Admitting

\* what no task and no sync does
LEMMA WorldKeeps ==
  ASSUME ListInv, NEW c \in Player, NEW s \in Server, World(c, s)
  PROVE  ListInv'
<1> USE DEF ListInv
<1>1. UNCHANGED <<listed, tasks, syncing, fromLine, restarts>>
  BY DEF World, Join, Leave, EnterGame, ExitGame, Lapse, Revoke, redis, ghosts
<1>2. /\ queued' \in [Server -> SUBSET Player] /\ there' \in [Server -> SUBSET Player]
      /\ overdue' \subseteq Seat /\ overdue \subseteq overdue'
      /\ pass' \subseteq pass /\ stray' \subseteq Seat
      /\ \A p \in pass' : p \in stray => p \in stray'
  BY PlayerAssumption DEF World, Join, Leave, EnterGame, ExitGame, Lapse, Revoke, redis, ghosts, TypeOK, Seat
<1>3. TypeOK'
  BY <1>1, <1>2 DEF TypeOK, tasks, syncing
<1>4. Exclusive' /\ ReadIsCurrent'
  BY <1>1 DEF Exclusive, ReadIsCurrent, tasks, syncing
<1>5. SyncIsCurrent'
  BY <1>1, <1>2 DEF SyncIsCurrent, syncing
<1>6. EveryPassListed'
  BY <1>1, <1>2 DEF EveryPassListed, BeingListed, syncing
<1> QED BY <1>3, <1>4, <1>5, <1>6

\* types, step by step
LEMMA QuietTaskTypes ==
  ASSUME TypeOK, NEW t \in Task,
         \/ Begin(t) \/ Pop(t) \/ PopNull(t) \/ Lookup(t) \/ LookupFails(t) \/ TimesOut(t)
         \/ Lock(t) \/ ReadList(t)
  PROVE  TypeOK'
<1> USE DEF TypeOK, Goto, Admitting, Critical, syncing, ghosts, redis
<1>1. ASSUME NEW s \in Server, Room(t, s)
      PROVE  TypeOK'
  BY <1>1 DEF Room
<1>2. ASSUME NEW s \in Server, NEW c \in Player, SkipLine(t, c, s)
      PROVE  TypeOK'
  BY <1>2 DEF SkipLine
<1>3. CASE Pop(t)
  <2>1. port[t] \in Server
    BY <1>3 DEF Pop
  <2>2. PICK c \in queued[port[t]] :
          /\ queued' = [queued EXCEPT ![port[t]] = @ \ {c}]
          /\ who' = [who EXCEPT ![t] = c]
    BY <1>3 DEF Pop
  <2>3. c \in Player /\ queued' \in [Server -> SUBSET Player]
    BY <2>1, <2>2
  <2> QED BY <1>3, <2>2, <2>3 DEF Pop
<1>4. CASE PopNull(t) \/ LookupFails(t) \/ TimesOut(t)
  <2>1. End(t) /\ UNCHANGED <<redis, there, syncing, ghosts>>
    BY <1>4 DEF PopNull, LookupFails, TimesOut
  <2> QED BY <2>1 DEF End
<1>5. CASE Lookup(t) \/ Lock(t)
  <2>1. at[t] \in {"lookup", "waiting"} /\ Goto(t, IF Lookup(t) THEN "waiting" ELSE "locked")
        /\ UNCHANGED <<redis, there, who, port, snap, syncing, ghosts>>
    BY <1>5 DEF Lookup, Lock
  <2> QED BY <2>1
<1>6. CASE ReadList(t)
  BY <1>6 DEF ReadList
<1> QED BY <1>1, <1>2, <1>3, <1>4, <1>5, <1>6 DEF Begin

\* a task begins, or goes on without touching lists and passes
LEMMA QuietTaskKeeps ==
  ASSUME ListInv, NEW t \in Task,
         \/ Begin(t) \/ Pop(t) \/ PopNull(t) \/ Lookup(t) \/ LookupFails(t) \/ TimesOut(t)
         \/ Lock(t) \/ ReadList(t)
  PROVE  ListInv'
<1> USE DEF ListInv
<1>1. UNCHANGED <<listed, overdue, pass, there, syncing, ghosts>>
  BY DEF Begin, Room, SkipLine, Pop, PopNull, Lookup, LookupFails, TimesOut, Lock, ReadList, redis
<1>2. TypeOK'
  BY QuietTaskTypes
<1>3. /\ \A u \in Task : u # t => at'[u] = at[u] /\ who'[u] = who[u] /\ port'[u] = port[u] /\ snap'[u] = snap[u]
      /\ at'[t] # "written"
      /\ at'[t] = "read" => at[t] = "locked" /\ snap'[t] = listed[port'[t]]
      /\ at'[t] = "locked" => MutexFree
  BY DEF Begin, Room, SkipLine, Pop, PopNull, Lookup, LookupFails, TimesOut, Lock, ReadList,
         End, Goto, TypeOK
<1>4. Exclusive'
  BY <1>1, <1>3 DEF Exclusive, MutexFree, Critical, syncing
<1>5. ReadIsCurrent'
  BY <1>1, <1>3 DEF ReadIsCurrent
<1>6. SyncIsCurrent' /\ EveryPassListed'
  BY <1>1 DEF SyncIsCurrent, EveryPassListed, BeingListed, syncing, ghosts
<1> QED BY <1>2, <1>4, <1>5, <1>6
\* the list that is written back is the one that was read, with one more entry
LEMMA WriteKeeps ==
  ASSUME ListInv, NEW t \in Task, WriteList(t)
  PROVE  ListInv'
<1> USE DEF ListInv
<1> DEFINE c == who[t]
           s == port[t]
<1>1. at[t] = "read" /\ c \in Player /\ s \in Server /\ sync \in {"idle", "waiting"}
  BY DEF WriteList, TypeOK, Admitting, Critical, Exclusive
<1>2. listed' = [listed EXCEPT ![s] = @ \cup {c}]
  BY <1>1 DEF WriteList, ReadIsCurrent, TypeOK
<1>3. /\ at' = [at EXCEPT ![t] = "written"] /\ overdue' = overdue \ {<<s, c>>}
      /\ stray' = stray \ {<<s, c>>}
      /\ UNCHANGED <<queued, pass, there, who, port, snap, syncing, restarts>>
  BY DEF WriteList, Goto
<1>4. fromLine' \in [Server -> SUBSET Player]
  BY <1>1 DEF WriteList, TypeOK
<1> HIDE DEF c, s
<1>5. TypeOK'
  <2>1. listed' \in [Server -> SUBSET Player]
    BY <1>1, <1>2 DEF TypeOK
  <2> QED BY <1>1, <1>3, <1>4, <2>1 DEF TypeOK, syncing, Admitting, Critical
<1>6. \A u \in Task : u # t => at[u] \notin Critical
  BY <1>1 DEF Exclusive, Critical
<1>7. at'[t] = "written" /\ \A u \in Task : u # t => at'[u] = at[u]
  BY <1>3 DEF TypeOK
<1>8. Exclusive'
  BY <1>1, <1>3, <1>6, <1>7 DEF Exclusive, Critical, syncing
<1>9. ReadIsCurrent'
  <2>1. c \in listed'[s]
    BY <1>1, <1>2 DEF TypeOK
  <2> QED BY <2>1, <1>3, <1>6, <1>7 DEF ReadIsCurrent, Critical, c, s
<1>10. SyncIsCurrent'
  BY <1>1, <1>3 DEF SyncIsCurrent, syncing
<1>11. EveryPassListed'
  <2> SUFFICES ASSUME NEW p \in Server, NEW d \in Player, <<p, d>> \in pass
               PROVE  d \in listed'[p] \/ <<p, d>> \in stray'
    BY <1>3 DEF EveryPassListed
  <2>1. d \in listed[p] \/ <<p, d>> \in stray
    BY <1>1 DEF EveryPassListed, BeingListed
  <2> QED BY <2>1, <1>1, <1>2, <1>3 DEF TypeOK
<1> QED BY <1>5, <1>8, <1>9, <1>10, <1>11

\* the pass comes after the entry, before the mutex is released
LEMMA AddPassKeeps ==
  ASSUME ListInv, NEW t \in Task, AddPass(t)
  PROVE  ListInv'
<1> USE DEF ListInv
<1>1. /\ at[t] = "written" /\ sync \in {"idle", "waiting"}
      /\ who[t] \in Player /\ port[t] \in Server /\ who[t] \in listed[port[t]]
  BY DEF AddPass, TypeOK, Admitting, Critical, Exclusive, ReadIsCurrent
<1>2. /\ pass' = pass \cup {<<port[t], who[t]>>} /\ End(t)
      /\ UNCHANGED <<queued, listed, overdue, there, syncing, ghosts>>
  BY DEF AddPass
<1>3. /\ \A u \in Task : u # t => at'[u] = at[u] /\ who'[u] = who[u] /\ port'[u] = port[u] /\ snap'[u] = snap[u]
      /\ at'[t] = "idle"
  BY <1>2 DEF End, Goto, TypeOK
<1>4. TypeOK'
  <2>1. pass' \subseteq Seat
    BY <1>1, <1>2 DEF TypeOK, Seat
  <2> QED BY <2>1, <1>2 DEF TypeOK, End, Goto, syncing, ghosts, Admitting, Critical
<1>5. Exclusive'
  BY <1>1, <1>2, <1>3 DEF Exclusive, syncing, Critical
<1>6. ReadIsCurrent'
  BY <1>2, <1>3 DEF ReadIsCurrent
<1>7. SyncIsCurrent'
  BY <1>1, <1>2 DEF SyncIsCurrent, syncing
<1>8. EveryPassListed'
  BY <1>1, <1>2 DEF EveryPassListed, BeingListed, ghosts, syncing
<1> QED BY <1>4, <1>5, <1>6, <1>7, <1>8

\* the sync waits, begins, skips a server or ends
LEMMA SyncIdleKeeps ==
  ASSUME ListInv,
         SyncStart \/ SyncTimesOut \/ SyncLock \/ SyncEnds \/ \E s \in Server : FetchFails(s)
  PROVE  ListInv'
<1> USE DEF ListInv
<1>1. UNCHANGED <<redis, there, tasks, ghosts>>
  BY DEF SyncStart, SyncTimesOut, SyncLock, SyncEnds, FetchFails
<1>2. sync \in {"idle", "waiting", "next"} /\ sync' \in {"idle", "waiting", "next"}
  BY DEF SyncStart, SyncTimesOut, SyncLock, SyncEnds, SyncRest, FetchFails
<1>3. sync' = "next" => sync = "next" \/ MutexFree
  BY DEF SyncStart, SyncTimesOut, SyncLock, SyncEnds, SyncRest, FetchFails
<1>4. /\ left' \subseteq Server /\ here' \subseteq Player /\ last' \subseteq Player
      /\ todo' \subseteq Player /\ kept' \subseteq Player
      /\ fresh' \in Player \cup {NoPlayer} /\ current' \in Server \cup {NoServer}
  BY DEF SyncStart, SyncTimesOut, SyncLock, SyncEnds, SyncRest, FetchFails, TypeOK
<1>5. TypeOK'
  BY <1>1, <1>2, <1>4 DEF TypeOK, redis, tasks, ghosts
<1>6. Exclusive'
  BY <1>1, <1>2, <1>3 DEF Exclusive, MutexFree, tasks
<1>7. ReadIsCurrent' /\ SyncIsCurrent' /\ EveryPassListed'
  BY <1>1, <1>2 DEF ReadIsCurrent, SyncIsCurrent, EveryPassListed, BeingListed, redis, tasks, ghosts
<1> QED BY <1>5, <1>6, <1>7

\* the sync reads the list of a server, and visits its players
LEMMA SyncVisitKeeps ==
  ASSUME ListInv,
         \/ \E s \in Server : Fetch(s)
         \/ \E c \in Player : SyncKeep(c) \/ SyncExpire(c) \/ SyncGrant(c)
         \/ SyncLookup
  PROVE  ListInv'
<1> USE DEF ListInv
<1>1. UNCHANGED <<queued, listed, overdue, there, tasks, fromLine, restarts>>
  BY DEF Fetch, SyncKeep, SyncExpire, SyncGrant, SyncLookup, redis, ghosts
<1>2. sync \in {"next", "visit", "lookup"} /\ sync' \in {"visit", "lookup"}
  BY DEF Fetch, SyncKeep, SyncExpire, SyncGrant, SyncLookup
<1>3. Exclusive' /\ ReadIsCurrent'
  BY <1>1, <1>2 DEF Exclusive, ReadIsCurrent, tasks
<1>4. ASSUME NEW s \in Server, Fetch(s)
      PROVE  TypeOK' /\ SyncIsCurrent' /\ EveryPassListed'
  <2>1. /\ sync' = "visit" /\ current' = s /\ left' = left \ {s}
        /\ here' = there[s] /\ last' = listed[s] /\ kept' = there[s] \cap listed[s]
        /\ todo' = (there[s] \ listed[s]) \cup (listed[s] \ there[s])
        /\ fresh' = fresh /\ UNCHANGED <<redis, there, tasks, ghosts>>
    BY <1>4 DEF Fetch
  <2>2. TypeOK'
    BY <2>1 DEF TypeOK, redis, tasks, ghosts
  <2>3. SyncIsCurrent'
    BY <2>1 DEF SyncIsCurrent, redis
  <2>4. EveryPassListed'
    BY <1>4, <2>1 DEF EveryPassListed, BeingListed, Fetch, redis, ghosts
  <2> QED BY <2>2, <2>3, <2>4
<1>5. ASSUME NEW c \in Player, SyncKeep(c)
      PROVE  TypeOK' /\ SyncIsCurrent' /\ EveryPassListed'
  BY <1>5 DEF SyncKeep, TypeOK, SyncIsCurrent, EveryPassListed, BeingListed, redis, tasks, ghosts
<1>6. ASSUME NEW c \in Player, SyncExpire(c)
      PROVE  TypeOK' /\ SyncIsCurrent' /\ EveryPassListed'
  <2>1. TypeOK'
    BY <1>6 DEF SyncExpire, TypeOK, tasks
  <2>2. SyncIsCurrent'
    BY <1>6 DEF SyncExpire, SyncIsCurrent
  <2>3. EveryPassListed'
    BY <1>6 DEF SyncExpire, EveryPassListed, BeingListed
  <2> QED BY <2>1, <2>2, <2>3
<1>7. ASSUME NEW c \in Player, SyncGrant(c)
      PROVE  TypeOK' /\ SyncIsCurrent' /\ EveryPassListed'
  <2>1. current \in Server /\ c \in here \ last
    BY <1>7 DEF SyncGrant, TypeOK, SyncIsCurrent
  <2>2. TypeOK'
    BY <1>7, <2>1 DEF SyncGrant, TypeOK, Seat, tasks, ghosts
  <2>3. SyncIsCurrent'
    BY <1>7, <2>1 DEF SyncGrant, SyncIsCurrent
  <2>4. EveryPassListed'
    BY <1>7, <2>1 DEF SyncGrant, EveryPassListed, BeingListed, ghosts
  <2> QED BY <2>2, <2>3, <2>4
<1>8. ASSUME SyncLookup
      PROVE  TypeOK' /\ SyncIsCurrent' /\ EveryPassListed'
  <2>1. TypeOK'
    BY <1>8 DEF SyncLookup, TypeOK, redis, tasks, ghosts
  <2>2. SyncIsCurrent'
    BY <1>8 DEF SyncLookup, SyncIsCurrent, redis
  <2>3. EveryPassListed'
    BY <1>8 DEF SyncLookup, EveryPassListed, BeingListed, redis, ghosts
  <2> QED BY <2>1, <2>2, <2>3
<1> QED BY <1>3, <1>4, <1>5, <1>6, <1>7, <1>8

\* the sync writes the list back; who is left out was expired
LEMMA SyncWriteKeeps ==
  ASSUME ListInv, SyncWrite
  PROVE  /\ ListInv'
         /\ \A s \in Server : \A c \in listed[s] \ listed'[s] : <<s, c>> \in overdue
<1> USE DEF ListInv
<1>1. sync = "visit" /\ todo = {} /\ current \in Server /\ sync' = "next"
  BY DEF SyncWrite, TypeOK
<1>2. /\ listed' = [listed EXCEPT ![current] = kept]
      /\ stray' = stray \ {<<current, c>> : c \in kept}
      /\ UNCHANGED <<queued, pass, there, tasks, left, fresh, restarts>>
  BY DEF SyncWrite
<1>3. TypeOK'
  <2>1. listed' \in [Server -> SUBSET Player] /\ fromLine' \in [Server -> SUBSET Player]
    BY <1>1, <1>2 DEF SyncWrite, TypeOK
  <2>2. overdue' \subseteq Seat /\ stray' \subseteq Seat
    BY DEF SyncWrite, TypeOK
  <2> QED BY <1>1, <1>2, <2>1, <2>2 DEF SyncWrite, TypeOK, tasks
<1>4. \A t \in Task : at[t] \notin Critical
  BY <1>1 DEF Exclusive
<1>5. Exclusive' /\ ReadIsCurrent' /\ SyncIsCurrent'
  BY <1>1, <1>2, <1>4 DEF Exclusive, ReadIsCurrent, SyncIsCurrent, tasks, Critical
<1>6. ASSUME NEW c \in listed[current], c \notin kept
      PROVE  <<current, c>> \in overdue \ pass
  BY <1>1, <1>6 DEF SyncIsCurrent
<1>7. EveryPassListed'
  <2> SUFFICES ASSUME NEW s \in Server, NEW c \in Player, <<s, c>> \in pass
               PROVE  c \in listed'[s] \/ <<s, c>> \in stray'
    BY <1>2 DEF EveryPassListed
  <2>1. CASE s # current
    <3>1. c \in listed[s] \/ <<s, c>> \in stray
      BY <2>1 DEF EveryPassListed, BeingListed
    <3> QED BY <3>1, <2>1, <1>2 DEF TypeOK
  <2>2. CASE s = current
    <3>1. c \in kept \/ <<s, c>> \in stray
      BY <2>2, <1>1, <1>6 DEF EveryPassListed, BeingListed, SyncIsCurrent
    <3>2. listed'[s] = kept
      BY <2>2, <1>1, <1>2 DEF TypeOK
    <3> QED BY <3>1, <3>2, <1>2, <2>2
  <2> QED BY <2>1, <2>2
<1>8. \A s \in Server : \A c \in listed[s] \ listed'[s] : <<s, c>> \in overdue
  BY <1>1, <1>2, <1>6 DEF TypeOK
<1> QED BY <1>3, <1>5, <1>7, <1>8

\* what a failed sync or a restart leaves without an entry is stray
LEMMA AbortKeeps ==
  ASSUME ListInv, SyncAborts \/ Restart
  PROVE  ListInv'
<1> USE DEF ListInv
<1>1. UNCHANGED <<redis, there, fromLine>> /\ SyncRest /\ stray' = Unlisted
  BY DEF SyncAborts, Restart
<1>2. \/ UNCHANGED <<tasks, restarts>> /\ sync = "lookup"
      \/ /\ at' = [t \in Task |-> "idle"] /\ who' = [t \in Task |-> NoPlayer]
         /\ port' = [t \in Task |-> NoServer] /\ snap' = [t \in Task |-> {}]
         /\ restarts' = restarts + 1
  BY DEF SyncAborts, Restart
<1>3. TypeOK'
  <2>1. stray' \subseteq Seat
    BY <1>1 DEF Unlisted, TypeOK
  <2> QED BY <1>1, <1>2, <2>1 DEF TypeOK, SyncRest, redis, tasks, Admitting, Critical
<1>4. Exclusive' /\ ReadIsCurrent' /\ SyncIsCurrent'
  BY <1>1, <1>2 DEF Exclusive, ReadIsCurrent, SyncIsCurrent, SyncRest, redis, tasks, Critical
<1>5. EveryPassListed'
  BY <1>1 DEF EveryPassListed, Unlisted, redis
<1> QED BY <1>3, <1>4, <1>5

\* nothing happens
LEMMA StutterKeeps ==
  ASSUME ListInv, UNCHANGED vars
  PROVE  ListInv'
BY DEF ListInv, vars, redis, tasks, syncing, ghosts, TypeOK, Exclusive, ReadIsCurrent,
       SyncIsCurrent, EveryPassListed, BeingListed

\* every step, or none, keeps the invariant of lists and passes
LEMMA NextKeepsListInv == ListInv /\ [Next]_vars => ListInv'
BY WorldKeeps, QuietTaskKeeps, WriteKeeps, AddPassKeeps, SyncIdleKeeps, SyncVisitKeeps,
   SyncWriteKeeps, AbortKeeps, StutterKeeps
   DEF Next, Continue, AddFromQueue, SyncStep

\* the invariant of lists and passes holds in every reachable state
LEMMA ListInvHolds == Spec => []ListInv
BY InitListInv, NextKeepsListInv, PTL DEF Spec
-----------------------------------------------------------------------------
(***************************************************************************)
(* Redis, the tasks and the sync keep their types; a task that is to write *)
(* an entry has a player and a server.                                     *)
(***************************************************************************)
THEOREM TypeCorrect == Spec => []TypeOK
BY ListInvHolds, PTL DEF ListInv

(***************************************************************************)
(* No pass without an entry, unless a failed sync or a restart left it.    *)
(***************************************************************************)
THEOREM PassesAreListed == Spec => []EveryPassListed
BY ListInvHolds, PTL DEF ListInv

(***************************************************************************)
(* The mutex does what its comment says: no entry is wiped out.            *)
(***************************************************************************)
THEOREM EntriesSurvive == Spec => NoLostEntry
<1>1. ASSUME ListInv, [Next]_vars, NEW s \in Server, NEW c \in listed[s] \ listed'[s]
      PROVE  <<s, c>> \in overdue
  <2>1. listed' # listed
    BY <1>1
  <2>2. SyncWrite \/ \E t \in Task : WriteList(t)
    BY <1>1, <2>1 DEF Next, World, Join, Leave, EnterGame, ExitGame, Lapse, Revoke,
       Begin, Room, SkipLine, Continue, Pop, PopNull, AddFromQueue, Lookup, LookupFails, Lock,
       TimesOut, ReadList, AddPass, SyncStep, SyncStart, SyncTimesOut, SyncLock, SyncEnds,
       Fetch, FetchFails, SyncKeep, SyncExpire, SyncGrant, SyncLookup, SyncAborts, Restart,
       redis, vars
  <2>3. CASE SyncWrite
    BY <2>3, <1>1, SyncWriteKeeps
  <2>4. ASSUME NEW t \in Task, WriteList(t) PROVE FALSE
    <3>1. listed' = [listed EXCEPT ![port[t]] = @ \cup {who[t]}]
      BY <1>1, <2>4 DEF WriteList, ListInv, ReadIsCurrent, TypeOK
    <3> QED BY <3>1, <1>1 DEF ListInv, TypeOK
  <2> QED BY <2>2, <2>3, <2>4
<1>2. ListInv /\ [Next]_vars =>
        [\A s \in Server : \A c \in listed[s] \ listed'[s] : <<s, c>> \in overdue]_vars
  BY <1>1
<1> QED BY <1>2, ListInvHolds, PTL DEF Spec, NoLostEntry
-----------------------------------------------------------------------------
(***************************************************************************)
(* Seats.                                                                  *)
(***************************************************************************)
\* the sets that are counted are finite
LEMMA Countable ==
  ASSUME TypeOK, NEW s \in Server
  PROVE  /\ IsFiniteSet(fromLine[s] \ Staff) /\ IsFiniteSet(listed[s] \ Staff)
         /\ IsFiniteSet(InFlight(s))
         /\ SeatsFromLine(s) \in Nat /\ Occupied(s) \in Nat /\ Cardinality(Tick) \in Nat
         /\ Cardinality(InFlight(s)) \in Nat /\ Cardinality(InFlight(s)) <= Cardinality(Tick)
<1>1. IsFiniteSet(Player) /\ IsFiniteSet(Tick)
  BY PlayerAssumption, TaskAssumption
<1>2. fromLine[s] \ Staff \subseteq Player /\ listed[s] \ Staff \subseteq Player /\ InFlight(s) \subseteq Tick
  BY DEF TypeOK, InFlight
<1>3. IsFiniteSet(fromLine[s] \ Staff) /\ IsFiniteSet(listed[s] \ Staff) /\ IsFiniteSet(InFlight(s))
  BY <1>1, <1>2, FS_Subset
<1>4. Cardinality(InFlight(s)) <= Cardinality(Tick)
  BY <1>1, <1>2, FS_Subset
<1> QED BY <1>1, <1>3, <1>4, FS_CardinalityType DEF SeatsFromLine, Occupied

\* a step that promises no seat and fills none keeps the bound
LEMMA FewerSeats ==
  ASSUME SeatsBounded, TypeOK, TypeOK', NEW s \in Server,
         fromLine'[s] \subseteq fromLine[s], InFlight(s)' \subseteq InFlight(s)
  PROVE  Promised(s)' > 0 => Promised(s)' < Max[s] + Cardinality(Tick)
<1>1. /\ SeatsFromLine(s) \in Nat /\ Cardinality(InFlight(s)) \in Nat /\ Cardinality(Tick) \in Nat
      /\ IsFiniteSet(fromLine[s] \ Staff) /\ IsFiniteSet(InFlight(s))
  BY Countable
<1>2. fromLine'[s] \ Staff \subseteq fromLine[s] \ Staff
  OBVIOUS
<1>3. /\ SeatsFromLine(s)' \in Nat /\ SeatsFromLine(s)' <= SeatsFromLine(s)
  BY <1>1, <1>2, FS_Subset, FS_CardinalityType DEF SeatsFromLine
<1>4. /\ Cardinality(InFlight(s)') \in Nat /\ Cardinality(InFlight(s)') <= Cardinality(InFlight(s))
  BY <1>1, FS_Subset, FS_CardinalityType
<1>5. Promised(s) > 0 => Promised(s) < Max[s] + Cardinality(Tick)
  BY DEF SeatsBounded
<1>6. Max[s] \in Nat
  BY SeatAssumption
<1>7. Promised(s)' = SeatsFromLine(s)' + Cardinality(InFlight(s)')
  BY DEF Promised
<1> QED BY <1>1, <1>3, <1>4, <1>5, <1>6, <1>7 DEF Promised

\* a seat was free: at most the other ticks are in flight
LEMMA RoomKeepsSeats ==
  ASSUME TypeOK, TypeOK', LineIsListed, SeatsBounded, NEW t \in Tick, NEW s \in Server, Room(t, s)
  PROVE  SeatsBounded'
<1>1. fromLine' = fromLine
  BY DEF Room, ghosts
<1> SUFFICES ASSUME NEW p \in Server
             PROVE  Promised(p)' > 0 => Promised(p)' < Max[p] + Cardinality(Tick)
  BY DEF SeatsBounded
<1>2. CASE p # s
  <2>1. InFlight(p)' \subseteq InFlight(p)
    BY <1>2 DEF InFlight, Room, Goto, TypeOK, Task
  <2> QED BY <1>1, <2>1, FewerSeats
<1>3. CASE p = s
  <2>1. SeatsFromLine(s) <= Occupied(s)
    <3>1. fromLine[s] \ Staff \subseteq listed[s] \ Staff
      BY DEF LineIsListed
    <3> QED BY <3>1, Countable, FS_Subset DEF SeatsFromLine, Occupied
  <2>2. SeatsFromLine(s)' = SeatsFromLine(s)
    BY <1>1 DEF SeatsFromLine
  <2>3. Cardinality(InFlight(s)') \in Nat /\ Cardinality(InFlight(s)') <= Cardinality(Tick)
    <3>1. InFlight(s)' \subseteq Tick
      BY DEF InFlight
    <3> QED BY <3>1, TaskAssumption, FS_Subset, FS_CardinalityType
  <2>4. Promised(s)' = SeatsFromLine(s)' + Cardinality(InFlight(s)')
    BY DEF Promised
  <2>5. Max[s] \in Nat /\ Occupied(s) < Max[s]
    BY SeatAssumption DEF Room
  <2>6. SeatsFromLine(s) \in Nat /\ Occupied(s) \in Nat /\ Cardinality(Tick) \in Nat
    BY Countable
  <2>7. Promised(s)' < Max[s] + Cardinality(Tick)
    BY <2>1, <2>2, <2>3, <2>4, <2>5, <2>6
  <2> QED BY <1>3, <2>7
<1> QED BY <1>2, <1>3

\* a seat that was promised is filled
LEMMA WriteKeepsSeats ==
  ASSUME TypeOK, TypeOK', SeatsBounded, NEW t \in Task, WriteList(t)
  PROVE  SeatsBounded'
<1> DEFINE c == who[t]
           s == port[t]
<1>1. /\ at[t] = "read" /\ c \in Player /\ s \in Server
      /\ at' = [at EXCEPT ![t] = "written"] /\ port' = port
      /\ fromLine' = IF t \in Tick THEN [fromLine EXCEPT ![s] = @ \cup {c}] ELSE fromLine
  BY DEF WriteList, Goto, TypeOK, Admitting, Critical
<1> SUFFICES ASSUME NEW p \in Server
             PROVE  Promised(p)' > 0 => Promised(p)' < Max[p] + Cardinality(Tick)
  BY DEF SeatsBounded
<1>2. InFlight(p)' = InFlight(p) \ {t}
  BY <1>1 DEF InFlight, TypeOK, Task
<1>3. CASE ~ (t \in Tick /\ p = s)
  <2>1. fromLine'[p] = fromLine[p]
    BY <1>1, <1>3 DEF TypeOK
  <2> QED BY <2>1, <1>2, FewerSeats
<1>4. CASE t \in Tick /\ p = s
  <2> DEFINE F == fromLine[p] \ Staff
             I == InFlight(p)
  <2>1. fromLine'[p] = fromLine[p] \cup {c}
    BY <1>1, <1>4 DEF TypeOK
  <2>2. /\ IsFiniteSet(F) /\ IsFiniteSet(I) /\ Cardinality(F) \in Nat /\ Cardinality(I) \in Nat
        /\ Cardinality(Tick) \in Nat /\ Max[p] \in Nat
    BY Countable, SeatAssumption DEF SeatsFromLine
  <2>3. t \in I
    BY <1>1, <1>4 DEF InFlight
  <2>4. SeatsFromLine(p)' = Cardinality(fromLine'[p] \ Staff) /\ SeatsFromLine(p) = Cardinality(F)
    BY DEF SeatsFromLine
  <2>5. Promised(p)' = SeatsFromLine(p)' + Cardinality(I \ {t})
    BY <1>2 DEF Promised
  <2>6. fromLine'[p] \ Staff \subseteq F \cup {c}
    BY <2>1
  <2>7. Promised(p) = Cardinality(F) + Cardinality(I)
    BY <2>4 DEF Promised
  <2>8. Promised(p) > 0 => Promised(p) < Max[p] + Cardinality(Tick)
    BY DEF SeatsBounded
  <2> HIDE DEF F, I, c, s
  <2>9. IsFiniteSet(F \cup {c}) /\ Cardinality(F \cup {c}) <= Cardinality(F) + 1
        /\ Cardinality(F \cup {c}) \in Nat
    <3>1. IsFiniteSet(F \cup {c}) /\ Cardinality(F \cup {c}) = IF c \in F THEN Cardinality(F) ELSE Cardinality(F) + 1
      BY <2>2, FS_AddElement
    <3> QED BY <3>1, <2>2
  <2>10. /\ Cardinality(fromLine'[p] \ Staff) <= Cardinality(F \cup {c})
         /\ Cardinality(fromLine'[p] \ Staff) \in Nat
    BY <2>6, <2>9, FS_Subset, FS_CardinalityType
  <2>11. Cardinality(I \ {t}) = Cardinality(I) - 1
    BY <2>2, <2>3, FS_RemoveElement
  <2>12. Cardinality(I) # 0
    BY <2>2, <2>3, FS_EmptySet
  <2>13. Promised(p)' <= Promised(p) /\ Promised(p) > 0 /\ Promised(p) \in Nat /\ Promised(p)' \in Int
    BY <2>2, <2>4, <2>5, <2>7, <2>9, <2>10, <2>11, <2>12
  <2> QED BY <2>2, <2>8, <2>13
<1> QED BY <1>3, <1>4

\* the steps that promise no seat
LEMMA QuietSeats ==
  ASSUME TypeOK, [Next]_vars, ~ \E t \in Tick, s \in Server : Room(t, s),
         ~ \E t \in Task : WriteList(t), NEW p \in Server
  PROVE  fromLine'[p] \subseteq fromLine[p] /\ InFlight(p)' \subseteq InFlight(p)
<1> USE DEF TypeOK, InFlight, tasks, ghosts, Task
<1>1. ASSUME NEW c \in Player, NEW s \in Server, World(c, s)
      PROVE  UNCHANGED <<fromLine, at, port>>
  BY <1>1 DEF World, Join, Leave, EnterGame, ExitGame, Lapse, Revoke
<1>2. ASSUME NEW t \in Request, NEW s \in Server, NEW c \in Player, SkipLine(t, c, s)
      PROVE  fromLine' = fromLine /\ InFlight(p)' \subseteq InFlight(p)
  <2>1. \A u \in Tick : at'[u] = at[u] /\ port'[u] = port[u]
    BY <1>2, TaskAssumption DEF SkipLine, Goto
  <2> QED BY <2>1, <1>2 DEF SkipLine
<1>3. ASSUME NEW t \in Task, Pop(t) \/ PopNull(t) \/ AddFromQueue(t)
      PROVE  fromLine' = fromLine /\ InFlight(p)' \subseteq InFlight(p)
  <2>1. CASE Pop(t) \/ Lookup(t) \/ Lock(t) \/ ReadList(t)
    <3>1. at[t] \in {"room", "lookup", "waiting", "locked"} /\ fromLine' = fromLine /\ port' = port
      BY <2>1 DEF Pop, Lookup, Lock, ReadList
    <3>2. \A u \in Task : u # t => at'[u] = at[u]
      BY <2>1 DEF Pop, Lookup, Lock, ReadList, Goto
    <3> QED BY <3>1, <3>2
  <2>2. CASE PopNull(t) \/ LookupFails(t) \/ TimesOut(t) \/ AddPass(t)
    <3>1. End(t) /\ fromLine' = fromLine
      BY <2>2 DEF PopNull, LookupFails, TimesOut, AddPass
    <3>2. \A u \in Task : at'[u] # "idle" => at'[u] = at[u] /\ port'[u] = port[u]
      BY <3>1 DEF End, Goto
    <3> QED BY <3>1, <3>2
  <2> QED BY <1>3, <2>1, <2>2 DEF AddFromQueue
<1>4. CASE SyncStep
  <2>1. UNCHANGED <<at, port>>
    BY <1>4 DEF SyncStep, SyncStart, SyncTimesOut, SyncLock, SyncEnds, Fetch, FetchFails, SyncKeep,
       SyncExpire, SyncGrant, SyncLookup, SyncAborts, SyncWrite
  <2>2. fromLine'[p] \subseteq fromLine[p]
    BY <1>4 DEF SyncStep, SyncStart, SyncTimesOut, SyncLock, SyncEnds, Fetch, FetchFails, SyncKeep,
       SyncExpire, SyncGrant, SyncLookup, SyncAborts, SyncWrite
  <2> QED BY <2>1, <2>2
<1>5. CASE Restart
  BY <1>5 DEF Restart
<1>6. CASE UNCHANGED vars
  BY <1>6 DEF vars
<1> QED BY <1>1, <1>2, <1>3, <1>4, <1>5, <1>6 DEF Next, Begin, Continue

\* an entry a tick has written is an entry
LEMMA LineStaysListed ==
  ASSUME ListInv, LineIsListed, [Next]_vars
  PROVE  LineIsListed'
<1>1. ASSUME NEW t \in Task, WriteList(t)
      PROVE  LineIsListed'
  <2>1. /\ port[t] \in Server
        /\ listed' = [listed EXCEPT ![port[t]] = @ \cup {who[t]}]
    BY <1>1 DEF WriteList, ListInv, ReadIsCurrent, TypeOK
  <2>2. fromLine' = [fromLine EXCEPT ![port[t]] = @ \cup {who[t]}] \/ fromLine' = fromLine
    BY <1>1 DEF WriteList
  <2> QED BY <2>1, <2>2 DEF LineIsListed, ListInv, TypeOK
<1>2. CASE SyncWrite
  BY <1>2 DEF SyncWrite, LineIsListed, ListInv, TypeOK
<1>3. CASE UNCHANGED <<listed, fromLine>>
  BY <1>3 DEF LineIsListed
<1>4. (\E t \in Task : WriteList(t)) \/ SyncWrite \/ UNCHANGED <<listed, fromLine>>
  BY ZenonT(60) DEF Next, World, Join, Leave, EnterGame, ExitGame, Lapse, Revoke,
     Begin, Room, SkipLine, Continue, Pop, PopNull, AddFromQueue, Lookup, LookupFails, Lock,
     TimesOut, ReadList, AddPass, SyncStep, SyncStart, SyncTimesOut, SyncLock, SyncEnds,
     Fetch, FetchFails, SyncKeep, SyncExpire, SyncGrant, SyncLookup, SyncAborts, Restart,
     redis, ghosts, vars
<1> QED BY <1>1, <1>2, <1>3, <1>4

\* at the start no seat is taken
LEMMA InitSeats == Init => LineIsListed /\ SeatsBounded
<1> SUFFICES ASSUME Init PROVE LineIsListed /\ SeatsBounded
  OBVIOUS
<1>1. LineIsListed
  BY DEF Init, LineIsListed
<1>2. ASSUME NEW s \in Server PROVE Promised(s) = 0
  <2>1. fromLine[s] \ Staff = {} /\ InFlight(s) = {}
    BY <1>2 DEF Init, InFlight, Task
  <2> QED BY <2>1, FS_EmptySet DEF Promised, SeatsFromLine
<1> QED BY <1>1, <1>2 DEF SeatsBounded

\* every step, or none, keeps the inductive invariant
LEMMA NextKeepsIInv == IInv /\ [Next]_vars => IInv'
<1> SUFFICES ASSUME IInv, [Next]_vars PROVE IInv'
  OBVIOUS
<1>1. ListInv' /\ LineIsListed'
  BY NextKeepsListInv, LineStaysListed DEF IInv
<1>2. SeatsBounded'
  <2>0. TypeOK /\ TypeOK' /\ LineIsListed /\ SeatsBounded
    BY <1>1 DEF IInv, ListInv
  <2>1. CASE \E t \in Tick, s \in Server : Room(t, s)
    BY <2>0, <2>1, RoomKeepsSeats
  <2>2. CASE \E t \in Task : WriteList(t)
    BY <2>0, <2>2, WriteKeepsSeats
  <2>3. CASE ~ (\E t \in Tick, s \in Server : Room(t, s)) /\ ~ \E t \in Task : WriteList(t)
    <3>1. ASSUME NEW p \in Server
          PROVE  Promised(p)' > 0 => Promised(p)' < Max[p] + Cardinality(Tick)
      BY <2>0, <2>3, QuietSeats, FewerSeats
    <3> QED BY <3>1 DEF SeatsBounded
  <2> QED BY <2>1, <2>2, <2>3
<1> QED BY <1>1, <1>2 DEF IInv

(***************************************************************************)
(* However many ticks overlap, the line overfills a server by less than    *)
(* their number.                                                           *)
(***************************************************************************)
THEOREM OverrunIsBounded == Spec => []OverrunBounded
<1>1. Init => IInv
  BY InitListInv, InitSeats DEF IInv
<1>2. Spec => []IInv
  BY <1>1, NextKeepsIInv, PTL DEF Spec
<1>3. ASSUME IInv, NEW s \in Server, SeatsFromLine(s) > 0
      PROVE  SeatsFromLine(s) < Max[s] + Cardinality(Tick)
  <2>1. SeatsFromLine(s) \in Nat /\ Cardinality(InFlight(s)) \in Nat /\ Cardinality(Tick) \in Nat
    BY <1>3, Countable DEF IInv, ListInv
  <2>2. Max[s] \in Nat
    BY SeatAssumption
  <2>3. Promised(s) > 0 => Promised(s) < Max[s] + Cardinality(Tick)
    BY <1>3 DEF IInv, SeatsBounded
  <2> QED BY <2>1, <2>2, <2>3, <1>3 DEF Promised
<1>4. IInv => OverrunBounded
  BY <1>3 DEF OverrunBounded
<1> QED BY <1>2, <1>4, PTL
-----------------------------------------------------------------------------
(***************************************************************************)
(* Refinement: every step of the tasks and of the sync is one step of      *)
(* SeatContract or changes nothing it sees.                                *)
(***************************************************************************)
Mapped == [Seats!Next]_Seats!vars

\* what one task asks for, when it begins, goes on or ends
LEMMA AskedOf ==
  ASSUME NEW t \in Task,
         \A u \in Task : u # t => /\ at'[u] = at[u] /\ who'[u] = who[u]
                                  /\ port'[u] = port[u]
  PROVE  /\ at[t] \notin Admitting /\ at'[t] \in Admitting =>
              Asked' = Asked \cup {<<port'[t], who'[t]>>}
         /\ /\ at[t] \in Admitting /\ at'[t] \in Admitting
            /\ who'[t] = who[t] /\ port'[t] = port[t]
            => Asked' = Asked
         /\ at[t] \notin Admitting /\ at'[t] \notin Admitting => Asked' = Asked
         /\ at'[t] \notin Admitting =>
              Asked' \subseteq Asked /\ Asked \ {<<port[t], who[t]>>} \subseteq Asked'
BY DEF Asked

\* the sync neither moves a task nor a list, unless it writes
LEMMA MetOf ==
  ASSUME UNCHANGED syncing
  PROVE  Met' = Met
BY DEF Met, syncing

\* the line, the games and the clock
LEMMA WorldMaps ==
  ASSUME ListInv, NEW c \in Player, NEW s \in Server, World(c, s)
  PROVE  Mapped
<1>1. UNCHANGED <<listed, tasks, syncing>>
  BY DEF World, Join, Leave, EnterGame, ExitGame, Lapse, Revoke, redis
<1>2. Asked' = Asked /\ Met' = Met
  BY <1>1 DEF Asked, Met, tasks, syncing
<1>3. CASE Join(c, s) \/ Leave(c, s) \/ Lapse(c, s) \/ Revoke(c, s)
  <2>1. Seats!Join(s, c) \/ Seats!Leave(s, c) \/ Seats!Lapse(s, c) \/ Seats!Withdraw(s, c)
    BY <1>2, <1>3 DEF Join, Leave, Lapse, Revoke,
       Seats!Join, Seats!Leave, Seats!Lapse, Seats!Withdraw
  <2> QED BY <2>1 DEF Mapped, Seats!Next, Seats!Step
<1>4. CASE EnterGame(c, s) \/ ExitGame(c, s)
  BY <1>2, <1>4 DEF EnterGame, ExitGame, redis, Mapped, Seats!vars
<1> QED BY <1>3, <1>4 DEF World

\* a tick finds a seat; nobody is asked for yet
LEMMA RoomMaps ==
  ASSUME ListInv, NEW t \in Task, NEW s \in Server, Room(t, s)
  PROVE  Mapped
<1>1. /\ at[t] = "idle" /\ at'[t] = "room"
      /\ \A u \in Task : u # t => at'[u] = at[u] /\ who'[u] = who[u] /\ port'[u] = port[u]
  BY DEF Room, Goto, ListInv, TypeOK
<1>2. Asked' = Asked
  BY <1>1, AskedOf DEF Admitting, Critical
<1>3. Met' = Met
  BY MetOf DEF Room
<1> QED BY <1>2, <1>3 DEF Room, redis, Mapped, Seats!vars

\* an admission of a privilege
LEMMA SkipMaps ==
  ASSUME ListInv, NEW t \in Task, NEW s \in Server, NEW c \in Player, SkipLine(t, c, s)
  PROVE  Mapped
<1>1. /\ at[t] = "idle" /\ at'[t] = "lookup" /\ who'[t] = c /\ port'[t] = s
      /\ \A u \in Task : u # t => at'[u] = at[u] /\ who'[u] = who[u] /\ port'[u] = port[u]
  BY DEF SkipLine, Goto, ListInv, TypeOK
<1>2. Asked' = Asked \cup {<<s, c>>}
  BY <1>1, AskedOf DEF Admitting, Critical
<1>3. Met' = Met
  BY MetOf DEF SkipLine
<1>4. Seats!Skip(s, c)
  BY <1>2, <1>3 DEF SkipLine, redis, Seats!Skip
<1> QED BY <1>4 DEF Mapped, Seats!Next, Seats!Step

\* an admission out of the line
LEMMA PopMaps ==
  ASSUME ListInv, NEW t \in Task, Pop(t)
  PROVE  Mapped
<1>1. at[t] = "room" /\ port[t] \in Server
  BY DEF Pop, ListInv, TypeOK
<1>2. PICK c \in queued[port[t]] :
        /\ queued' = [queued EXCEPT ![port[t]] = @ \ {c}]
        /\ who' = [who EXCEPT ![t] = c]
  BY DEF Pop
<1>3. c \in Player
  BY <1>1, <1>2 DEF ListInv, TypeOK
<1>4. /\ at'[t] = "lookup" /\ who'[t] = c /\ port'[t] = port[t]
      /\ \A u \in Task : u # t => at'[u] = at[u] /\ who'[u] = who[u] /\ port'[u] = port[u]
  BY <1>2 DEF Pop, Goto, ListInv, TypeOK
<1>5. Asked' = Asked \cup {<<port[t], c>>}
  BY <1>1, <1>4, AskedOf DEF Admitting, Critical
<1>6. Met' = Met
  BY MetOf DEF Pop
<1>7. Seats!Take(port[t], c)
  BY <1>2, <1>5, <1>6 DEF Pop, Seats!Take
<1> QED BY <1>1, <1>3, <1>7 DEF Mapped, Seats!Next, Seats!Step

\* a task ends with nothing done
LEMMA EndMaps ==
  ASSUME ListInv, NEW t \in Task, PopNull(t) \/ LookupFails(t) \/ TimesOut(t)
  PROVE  Mapped
<1>1. End(t) /\ UNCHANGED <<redis, syncing>>
  BY DEF PopNull, LookupFails, TimesOut
<1>2. /\ at'[t] = "idle"
      /\ \A u \in Task : u # t => at'[u] = at[u] /\ who'[u] = who[u] /\ port'[u] = port[u]
  BY <1>1 DEF End, Goto, ListInv, TypeOK
<1>3. Asked' \subseteq Asked
  BY <1>2, AskedOf DEF Admitting, Critical
<1>4. Met' = Met
  BY <1>1, MetOf
<1>5. Seats!Lose
  BY <1>1, <1>3, <1>4 DEF redis, Seats!Lose
<1> QED BY <1>5 DEF Mapped, Seats!Next

\* a task looks up privileges, takes the mutex, reads the list
LEMMA QuietMaps ==
  ASSUME ListInv, NEW t \in Task, Lookup(t) \/ Lock(t) \/ ReadList(t)
  PROVE  Mapped
<1>1. /\ at[t] \in Admitting /\ at'[t] \in Admitting
      /\ \A u \in Task : u # t => at'[u] = at[u]
      /\ UNCHANGED <<redis, who, port, syncing>>
  BY DEF Lookup, Lock, ReadList, Goto, Admitting, Critical, ListInv, TypeOK
<1>2. Asked' = Asked
  BY <1>1, AskedOf
<1>3. Met' = Met
  BY <1>1, MetOf
<1> QED BY <1>1, <1>2, <1>3 DEF redis, Mapped, Seats!vars

\* the list written back is the present one and the new entry
LEMMA WriteMaps ==
  ASSUME ListInv, NEW t \in Task, WriteList(t)
  PROVE  Mapped
<1>1. /\ at[t] = "read" /\ at[t] \in Admitting /\ at'[t] \in Admitting
      /\ who[t] \in Player /\ port[t] \in Server
      /\ \A u \in Task : u # t => at'[u] = at[u]
      /\ UNCHANGED <<queued, pass, who, port, syncing>>
  BY DEF WriteList, Goto, Admitting, Critical, ListInv, TypeOK
<1>2. listed' = [listed EXCEPT ![port[t]] = @ \cup {who[t]}]
  BY <1>1 DEF WriteList, ListInv, ReadIsCurrent, TypeOK
<1>3. Asked' = Asked /\ Met' = Met
  BY <1>1, AskedOf, MetOf
<1>4. <<port[t], who[t]>> \in Asked
  BY <1>1 DEF Asked
<1>5. overdue' = overdue \ {<<port[t], who[t]>>}
  BY DEF WriteList
<1>6. Seats!Enter(port[t], who[t])
  BY <1>1, <1>2, <1>3, <1>4, <1>5 DEF Seats!Enter
<1> QED BY <1>1, <1>6 DEF Mapped, Seats!Next, Seats!Step

\* the pass comes when the entry is there
LEMMA AddPassMaps ==
  ASSUME ListInv, NEW t \in Task, AddPass(t)
  PROVE  Mapped
<1>1. /\ at[t] = "written" /\ at[t] \in Admitting
      /\ who[t] \in Player /\ port[t] \in Server /\ who[t] \in listed[port[t]]
  BY DEF AddPass, ListInv, TypeOK, Admitting, Critical, ReadIsCurrent
<1>2. /\ at'[t] = "idle"
      /\ \A u \in Task : u # t => at'[u] = at[u] /\ who'[u] = who[u] /\ port'[u] = port[u]
  BY DEF AddPass, End, Goto, ListInv, TypeOK
<1>3. <<port[t], who[t]>> \in Asked
  BY <1>1 DEF Asked
<1>4. Asked' \subseteq Asked /\ Asked \ {<<port[t], who[t]>>} \subseteq Asked'
  BY <1>2, AskedOf DEF Admitting, Critical
<1>5. Asked' \in {Asked, Asked \ {<<port[t], who[t]>>}}
  BY <1>4
<1>6. Met' = Met
  BY MetOf DEF AddPass
<1>7. Seats!Grant(port[t], who[t])
  BY <1>1, <1>3, <1>5, <1>6 DEF AddPass, Seats!Grant
<1> QED BY <1>1, <1>7 DEF Mapped, Seats!Next, Seats!Step

\* the sync waits, begins, skips a server, reads a list or ends
LEMMA SyncIdleMaps ==
  ASSUME ListInv,
         \/ SyncStart \/ SyncTimesOut \/ SyncLock \/ SyncEnds
         \/ \E s \in Server : FetchFails(s) \/ Fetch(s)
  PROVE  Mapped
<1>1. UNCHANGED <<redis, tasks>> /\ sync \notin {"visit", "lookup"}
  BY DEF SyncStart, SyncTimesOut, SyncLock, SyncEnds, FetchFails, Fetch
<1>2. \/ sync' \notin {"visit", "lookup"}
      \/ sync' = "visit" /\ kept' \subseteq last'
  BY DEF SyncStart, SyncTimesOut, SyncLock, SyncEnds, SyncRest, FetchFails, Fetch
<1>3. Met = {} /\ Met' = {}
  BY <1>1, <1>2 DEF Met
<1>4. Asked' = Asked
  BY <1>1 DEF Asked, tasks
<1> QED BY <1>1, <1>3, <1>4 DEF redis, Mapped, Seats!vars

\* the sync visits the players of a server
LEMMA SyncVisitMaps ==
  ASSUME ListInv, (\E c \in Player : SyncKeep(c) \/ SyncExpire(c) \/ SyncGrant(c)) \/ SyncLookup
  PROVE  Mapped
<1>1. UNCHANGED <<queued, listed, overdue, tasks, current, last>> /\ current \in Server
  BY DEF SyncKeep, SyncExpire, SyncGrant, SyncLookup, redis, ListInv, TypeOK
<1>2. Asked' = Asked
  BY <1>1 DEF Asked, tasks
<1>3. ASSUME NEW c \in Player, SyncKeep(c)
      PROVE  Mapped
  <2>1. Met' = Met /\ pass' = pass
    BY <1>3 DEF SyncKeep, Met, redis
  <2> QED BY <1>1, <1>2, <2>1 DEF Mapped, Seats!vars
<1>4. ASSUME NEW c \in Player, SyncExpire(c)
      PROVE  Mapped
  <2>1. Met' = Met /\ pass' = pass \ {<<current, c>>}
    BY <1>4 DEF SyncExpire, Met
  <2>2. Seats!Withdraw(current, c)
    BY <1>1, <1>2, <2>1 DEF Seats!Withdraw
  <2> QED BY <1>1, <2>2 DEF Mapped, Seats!Next, Seats!Step
<1>5. ASSUME NEW c \in Player, SyncGrant(c)
      PROVE  Mapped
  <2>1. c \notin listed[current]
    BY <1>5 DEF SyncGrant, ListInv, SyncIsCurrent
  <2>2. Met' = Met \cup {<<current, c>>} /\ pass' = pass \cup {<<current, c>>}
    BY <1>5 DEF SyncGrant, Met
  <2>3. Seats!Meet(current, c)
    BY <1>1, <1>2, <2>1, <2>2 DEF Seats!Meet
  <2> QED BY <1>1, <2>3 DEF Mapped, Seats!Next, Seats!Step
<1>6. CASE SyncLookup
  <2>1. fresh \notin last
    BY <1>6 DEF SyncLookup, ListInv, SyncIsCurrent
  <2>2. Met' = Met /\ pass' = pass
    BY <1>6, <2>1 DEF SyncLookup, Met, redis
  <2> QED BY <1>1, <1>2, <2>2 DEF Mapped, Seats!vars
<1> QED BY <1>3, <1>4, <1>5, <1>6

\* the list the sync writes is the present one, without who was expired and with who was met
LEMMA SyncWriteMaps ==
  ASSUME ListInv, SyncWrite
  PROVE  Mapped
<1> DEFINE gone == last \ kept
<1>1. /\ sync = "visit" /\ current \in Server /\ last = listed[current]
      /\ kept \subseteq Player /\ here \subseteq Player /\ last \subseteq Player
      /\ \A c \in gone : <<current, c>> \in overdue \ pass
  BY DEF SyncWrite, ListInv, TypeOK, SyncIsCurrent
<1>2. Met = {current} \X (kept \ last) /\ Met' = {}
  BY <1>1 DEF SyncWrite, Met
<1>3. {c \in Player : <<current, c>> \in Met} = kept \ last
  BY <1>1, <1>2
<1>4. kept = (listed[current] \ gone) \cup {c \in Player : <<current, c>> \in Met}
  BY <1>1, <1>3
<1>5. /\ listed' = [listed EXCEPT ![current] = (@ \ gone) \cup {c \in Player : <<current, c>> \in Met}]
      /\ listed'[current] = kept
  BY <1>1, <1>4 DEF SyncWrite, ListInv, TypeOK
<1>6. overdue' = overdue \ {<<current, c>> : c \in here \cup (Player \ listed'[current])}
  BY <1>5 DEF SyncWrite
<1>7. Met' = {m \in Met : m[1] # current}
  BY <1>2
<1>8. Asked' = Asked /\ UNCHANGED <<queued, pass>>
  BY DEF SyncWrite, Asked, tasks
<1>9. Seats!Sync(current, gone, here)
  BY <1>1, <1>5, <1>6, <1>7, <1>8 DEF Seats!Sync
<1> QED BY <1>1, <1>9 DEF Mapped, Seats!Next

\* a sync fails, or the process is restarted
LEMMA AbortMaps ==
  ASSUME ListInv, SyncAborts \/ Restart
  PROVE  Mapped
<1>1. UNCHANGED redis /\ sync' = "idle" /\ (UNCHANGED tasks \/ at' = [u \in Task |-> "idle"])
  BY DEF SyncAborts, Restart, SyncRest
<1>2. Met' = {}
  BY <1>1 DEF Met
<1>3. Asked' \subseteq Asked
  BY <1>1 DEF Asked, tasks, Admitting, Critical
<1>4. Seats!Lose
  BY <1>1, <1>2, <1>3 DEF redis, Seats!Lose
<1> QED BY <1>4 DEF Mapped, Seats!Next

\* every step is a step of the contract, or none
LEMMA NextMaps == ListInv /\ [Next]_vars => Mapped
<1>1. ASSUME UNCHANGED vars
      PROVE  Mapped
  BY <1>1 DEF vars, redis, tasks, syncing, Asked, Met, Mapped, Seats!vars
<1>2. ASSUME ListInv, NEW t \in Task, Begin(t) \/ Continue(t)
      PROVE  Mapped
  BY <1>2, RoomMaps, SkipMaps, PopMaps, EndMaps, QuietMaps, WriteMaps, AddPassMaps
     DEF Begin, Continue, AddFromQueue
<1>3. ASSUME ListInv, SyncStep
      PROVE  Mapped
  BY <1>3, SyncIdleMaps, SyncVisitMaps, SyncWriteMaps, AbortMaps DEF SyncStep
<1> QED BY <1>1, <1>2, <1>3, WorldMaps, AbortMaps DEF Next

\* nobody is asked for or met in the beginning
LEMMA InitMaps == Init => Seats!Init
BY DEF Init, Seats!Init, Asked, Met, Admitting, Critical

(***************************************************************************)
(* Whatever the tasks and the sync do to each other, the lists and passes  *)
(* change only by the steps of SeatContract.                               *)
(***************************************************************************)
THEOREM ListsChangeAtOnce == Spec => ListsAreAtomic
<1>1. ListInv /\ [Next]_vars => [Seats!Next]_Seats!vars
  BY NextMaps DEF Mapped
<1> QED BY <1>1, InitMaps, ListInvHolds, PTL DEF Spec, ListsAreAtomic, Seats!Spec
=============================================================================
