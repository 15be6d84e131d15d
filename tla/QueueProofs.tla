---------------------------- MODULE QueueProofs ----------------------------
(***************************************************************************)
(* Theorems about Queue, for every set of players, servers and tasks:      *)
(* its invariants, and that it implements QueueContract.                   *)
(***************************************************************************)
EXTENDS QueueRefinement, FiniteSetTheorems, SequenceTheorems, WellFoundedInduction, TLAPS

LEMMA EarliestIsFirst ==
  ASSUME NEW P \in SUBSET Nat, P # {}
  PROVE  Earliest(P) \in P /\ \A q \in P : Earliest(P) <= q
<1> DEFINE Less == {ss \in Nat \X Nat : ss[1] < ss[2]}
<1>1. IsWellFoundedOn(Less, Nat)
  <2>1. OpToRel(<, Nat) = Less
    BY Zenon DEF OpToRel
  <2>2. QED
    BY ONLY <2>1, NatLessThanWellFounded, Zenon
<1>2. \E p \in P : \A q \in P : p <= q
  <2> HIDE DEF Less
  <2>1. PICK p \in P : \A q \in P : ~ (<<q, p>> \in Less)
    BY <1>1, WFMin
  <2>2. ASSUME NEW q \in P  PROVE p <= q
    <3>1. ~ (<<q, p>> \in Less)
      BY <2>1
    <3>2. ~ (q < p)
      BY <3>1 DEF Less
    <3>3. QED
      BY ONLY <3>2, p \in Nat, q \in Nat
  <2>3. QED
    BY <2>2
<1>3. QED
  BY <1>2 DEF Earliest

-----------------------------------------------------------------------------
(***************************************************************************)
(* Type correctness.                                                       *)
(***************************************************************************)
LEMMA LaterServer ==
  ASSUME NEW s \in Nat, Later(s) # {}
  PROVE  Earliest(Later(s)) \in Port
<1>1. Later(s) \subseteq Port
  BY PortAssumption DEF Later
<1>2. Port \subseteq Nat
  BY PortAssumption DEF Port
<1>3. QED
  BY <1>1, <1>2, EarliestIsFirst

TaskState == {Idle} \cup Seeking \cup Engaged

LEMMA SetTask ==
  ASSUME TypeOK, NEW t \in Task, NEW r \in TaskState, task' = [task EXCEPT ![t] = r]
  PROVE  task' \in [Task -> TaskState]
BY DEF TypeOK, TaskState

\* what the location of a task says of it
LEMMA TaskKind ==
  ASSUME TypeOK, NEW t \in Task
  PROVE  /\ task[t].at = "start" => task[t] = Idle
         /\ task[t].at \in {"peek", "slots"} => task[t] \in Seeking
         /\ task[t].at \in Where => task[t] \in Engaged
         /\ task[t].at \in {"start", "peek", "slots"} \cup Where
BY DEF TypeOK, Idle, Seeking, Engaged, Where

LEMMA FinishKeepsType ==
  ASSUME TypeOK, NEW t \in Task, Finish(t)
  PROVE  task' \in [Task -> TaskState]
BY SetTask DEF Finish, TaskState

LEMMA GotoKeepsType ==
  ASSUME TypeOK, NEW t \in Task, NEW at, Goto(t, at),
         \/ task[t].at \in Where /\ at \in Where
         \/ task[t].at = "peek" /\ at = "slots"
  PROVE  task' \in [Task -> TaskState]
<1> DEFINE r == [task[t] EXCEPT !.at = at]
<1>1. r \in TaskState
  <2>1. CASE task[t].at \in Where /\ at \in Where
    <3>1. task[t] \in Engaged
      BY <2>1, TaskKind
    <3>2. r \in Engaged
      BY <2>1, <3>1 DEF Engaged
    <3>3. QED
      BY <3>2 DEF TaskState
  <2>2. CASE task[t].at = "peek" /\ at = "slots"
    <3>1. task[t] \in Seeking
      BY <2>2, TaskKind
    <3>2. r \in Seeking
      BY <2>2, <3>1 DEF Seeking
    <3>3. QED
      BY <3>2 DEF TaskState
  <2>3. QED
    BY <2>1, <2>2
<1>2. task' = [task EXCEPT ![t] = r]
  BY DEF Goto, TypeOK
<1>3. QED
  BY <1>1, <1>2, SetTask

LEMMA AdvanceKeepsType ==
  ASSUME TypeOK, NEW t \in Task, NEW at, Advance(t, task[t].port, at),
         \/ task[t].at \in Where /\ at \in Where
         \/ task[t].at \in {"peek", "slots"} /\ at = "peek"
  PROVE  task' \in [Task -> TaskState]
<1>1. CASE Later(task[t].port) = {}
  BY <1>1, FinishKeepsType DEF Advance
<1>2. CASE Later(task[t].port) # {}
  <2> DEFINE s == Earliest(Later(task[t].port))
             r == [task[t] EXCEPT !.port = s, !.at = at]
  <2>1. task[t].port \in Nat
    BY TaskKind, PortAssumption DEF Seeking, Engaged, Port
  <2>2. s \in Port
    BY <1>2, <2>1, LaterServer
  <2> HIDE DEF s
  <2>3. ASSUME task[t].at \in Where, at \in Where  PROVE r \in TaskState
    <3>1. task[t] \in Engaged
      BY <2>3, TaskKind
    <3>2. r \in Engaged
      BY <2>2, <2>3, <3>1 DEF Engaged
    <3>3. QED
      BY <3>2 DEF TaskState
  <2>4. ASSUME task[t].at \in {"peek", "slots"}, at = "peek"  PROVE r \in TaskState
    <3>1. task[t] \in Seeking
      BY <2>4, TaskKind
    <3>2. r \in Seeking
      BY <2>2, <2>4, <3>1 DEF Seeking
    <3>3. QED
      BY <3>2 DEF TaskState
  <2>5. r \in TaskState
    BY <2>3, <2>4
  <2>6. task' = [task EXCEPT ![t] = r]
    BY <1>2 DEF Advance, TypeOK, s
  <2>7. QED
    BY <2>5, <2>6, SetTask
<1>3. QED
  BY <1>1, <1>2

LEMMA BeginKeepsType ==
  ASSUME TypeOK, NEW t \in Task, NEW op, NEW at, NEW c, NEW s \in Port,
         Begin(t, op, at, c, s),
         \/ op \in {"add", "remove", "cleanup", "status"} /\ at \in Where /\ c \in Player
         \/ op = "tick" /\ at = "peek" /\ c = Nobody
  PROVE  task' \in [Task -> TaskState]
<1> DEFINE r == [op |-> op, at |-> at, who |-> c, port |-> s]
<1>1. r \in Seeking \cup Engaged
  BY DEF Seeking, Engaged
<1>2. QED
  BY <1>1, SetTask DEF Begin, TaskState

LEMMA WireType ==
  ASSUME TypeOK, NEW t \in Task, Await(t) \/ Replied(t) \/ Reissue(t)
  PROVE  wire' \in Seq(Task)
<1>1. CASE Await(t)
  BY <1>1, AppendProperties DEF Await, TypeOK
<1>2. CASE Replied(t)
  BY <1>2, HeadTailProperties DEF Replied, FirstOnWire, TypeOK
<1>3. CASE Reissue(t)
  BY <1>3, HeadTailProperties, AppendProperties DEF Reissue, FirstOnWire, TypeOK
<1>4. QED
  BY <1>1, <1>2, <1>3

LEMMA LremType ==
  ASSUME NEW q \in Seq(Player), NEW c, NEW n \in 0 .. Len(q),
         NEW f \in InOrder(Kept(q, c), n)
  PROVE  [i \in 1 .. n |-> q[f[i]]] \in Seq(Player)
<1>1. \A i \in 1 .. n : f[i] \in 1 .. Len(q)
  BY DEF InOrder, Kept
<1>2. \A i \in 1 .. n : q[f[i]] \in Player
  BY <1>1, ElementOfSeq
<1>3. n \in Nat
  BY LenProperties
<1>4. [i \in 1 .. n |-> q[f[i]]] \in [1 .. n -> Player]
  BY <1>2
<1>5. QED
  BY <1>3, <1>4, SeqDef

LEMMA AskKeepsType ==
  ASSUME TypeOK, NEW t \in Request, NEW c \in Player, Ask(t, c)
  PROVE  TypeOK'
<1>0. t \in Task
  BY DEF Task
<1> USE <1>0, BeginKeepsType, WireType DEF Where, TaskState
<1>1. ASSUME NEW s \in Port, AddToQueue(t, c, s)
      PROVE  TypeOK'
  BY <1>1 DEF AddToQueue, TypeOK, ghosts
<1>2. ASSUME NEW s \in Port, RemoveFromQueue(t, c, s)
      PROVE  TypeOK'
  BY <1>2 DEF RemoveFromQueue, Srem, TypeOK, ghosts
<1>3. CASE StartCleanup(t, c)
  BY <1>3, LaterServer DEF StartCleanup, TypeOK, queues, ghosts
<1>4. CASE StartStatus(t, c)
  BY <1>4, LaterServer DEF StartStatus, TypeOK, queues, ghosts
<1>5. QED
  BY <1>1, <1>2, <1>3, <1>4 DEF Ask

LEMMA NotifyKeepsType ==
  ASSUME TypeOK, NEW t \in Task, NotifyQueuesUpdate(t) \/ TickNotify(t)
  PROVE  TypeOK'
<1>1. Announce(t)
  BY DEF NotifyQueuesUpdate, TickNotify
<1>2. \A s \in Queued : line[s] \in Seq(Player)
  BY PortAssumption DEF TypeOK
<1>3. published' \in [Queued -> Seq(Player)]
  BY <1>1, <1>2 DEF Announce
<1>4. task' \in [Task -> TaskState]
  BY <1>1, AdvanceKeepsType, FinishKeepsType DEF NotifyQueuesUpdate, TickNotify, Announce, Where
<1>5. wire' \in Seq(Task)
  BY WireType DEF NotifyQueuesUpdate, TickNotify, TypeOK
<1>6. QED
  BY <1>1, <1>3, <1>4, <1>5 DEF Announce, TypeOK, TaskState, queues, ghosts

LEMMA ServeKeepsType ==
  ASSUME TypeOK, NEW t \in Request, Serve(t)
  PROVE  TypeOK'
<1>0. t \in Task
  BY DEF Task
<1> USE <1>0, GotoKeepsType, AdvanceKeepsType, WireType DEF Where, TaskState
<1>1. CASE Rpush(t)
  <2>1. task[t].port \in Port /\ task[t].who \in Player
    BY <1>1, TaskKind DEF Rpush, Engaged
  <2>2. line' \in [Port -> Seq(Player)]
    BY <1>1, <2>1, AppendProperties DEF Rpush, TypeOK
  <2>3. QED
    BY <1>1, <2>2 DEF Rpush, TypeOK, ghosts
<1>2. CASE Lrem(t)
  <2>1. task[t].port \in Port
    BY <1>2, TaskKind DEF Lrem, Engaged
  <2> DEFINE q == line[task[t].port]
  <2>2. q \in Seq(Player)
    BY <2>1 DEF TypeOK
  <2>3. PICK n \in 0 .. Len(q) : \E f \in InOrder(Kept(q, task[t].who), n) :
          line' = [line EXCEPT ![task[t].port] = [i \in 1 .. n |-> q[f[i]]]]
    BY <1>2 DEF Lrem
  <2>4. PICK f \in InOrder(Kept(q, task[t].who), n) :
          line' = [line EXCEPT ![task[t].port] = [i \in 1 .. n |-> q[f[i]]]]
    BY <2>3
  <2>5. [i \in 1 .. n |-> q[f[i]]] \in Seq(Player)
    BY <2>2, LremType
  <2>6. line' \in [Port -> Seq(Player)]
    BY <2>4, <2>5 DEF TypeOK
  <2>7. QED
    BY <1>2, <2>6 DEF Lrem, TypeOK, ghosts
<1>3. CASE Probe(t)
  BY <1>3 DEF Probe, TypeOK, queues, ghosts
<1>4. CASE CleanupSrem(t)
  BY <1>4 DEF CleanupSrem, Srem, TypeOK, queues, ghosts
<1>5. CASE Look(t)
  BY <1>5 DEF Look, TypeOK, queues, ghosts
<1>6. CASE Rank(t)
  BY <1>6 DEF Rank, TypeOK, queues, ghosts
<1>7. CASE NotifyQueuesUpdate(t)
  BY <1>7, NotifyKeepsType
<1>8. QED
  BY <1>1, <1>2, <1>3, <1>4, <1>5, <1>6, <1>7 DEF Serve

LEMMA WorkKeepsType ==
  ASSUME TypeOK, NEW t \in Tick, Work(t) \/ StartTick(t)
  PROVE  TypeOK'
<1>0. t \in Task
  BY DEF Task
<1> USE <1>0, GotoKeepsType, AdvanceKeepsType, FinishKeepsType, WireType DEF Where, TaskState
<1>1. CASE Peek(t)
  BY <1>1 DEF Peek, TypeOK, queues, ghosts
<1>2. CASE Full(t)
  BY <1>2 DEF Full, TypeOK, queues, ghosts
<1>3. CASE Lpop(t)
  <2> DEFINE s == task[t].port
             r == [task[t] EXCEPT !.at = "unset", !.who = Head(line[s])]
  <2>1. task[t] \in Seeking /\ s \in Port
    BY <1>3, TaskKind DEF Lpop, Seeking
  <2>2. Head(line[s]) \in Player /\ Tail(line[s]) \in Seq(Player)
    BY <1>3, <2>1, HeadTailProperties DEF Lpop, TypeOK
  <2>3. r \in TaskState
    BY <2>1, <2>2 DEF Seeking, Engaged
  <2>4. task' = [task EXCEPT ![t] = r]
    BY <1>3 DEF Lpop, TypeOK
  <2>5. task' \in [Task -> TaskState]
    BY <2>3, <2>4, SetTask
  <2>6. line' \in [Port -> Seq(Player)]
    BY <1>3, <2>1, <2>2 DEF Lpop, TypeOK
  <2>7. QED
    BY <1>3, <2>5, <2>6 DEF Lpop, TypeOK, ghosts
<1>4. CASE LpopNull(t)
  BY <1>4 DEF LpopNull, TypeOK, queues, ghosts
<1>5. CASE TickSrem(t)
  BY <1>5 DEF TickSrem, TypeOK, ghosts
<1>6. CASE Admit(t)
  BY <1>6 DEF Admit, TypeOK, queues, ghosts
<1>7. CASE AdmissionFails(t)
  BY <1>7 DEF AdmissionFails, TypeOK, queues, ghosts
<1>8. CASE TickNotify(t)
  BY <1>8, NotifyKeepsType
<1>9. CASE StartTick(t)
  BY <1>9, BeginKeepsType, LaterServer DEF StartTick, TypeOK, queues, ghosts
<1>10. QED
  BY <1>1, <1>2, <1>3, <1>4, <1>5, <1>6, <1>7, <1>8, <1>9 DEF Work

LEMMA RestartKeepsType ==
  ASSUME TypeOK, Restart
  PROVE  TypeOK'
<1>1. \A t \in Cut({"push", "unlist", "unset"}) :
        <<task[t].port, task[t].who>> \in Port \X Player
  BY TaskKind DEF Cut, Engaged, Where
<1>2. stranded' \subseteq Port \X Player
  BY <1>1 DEF Restart, TypeOK
<1>3. unannounced' \in BOOLEAN
  BY DEF Restart, TypeOK
<1>4. QED
  BY <1>2, <1>3 DEF Restart, TypeOK, queues

LEMMA InitType == Init => TypeOK
<1> SUFFICES ASSUME Init  PROVE TypeOK
  OBVIOUS
<1>1. task \in [Task -> TaskState]
  BY DEF Init, TaskState
<1>2. /\ line \in [Port -> Seq(Player)] /\ wire \in Seq(Task)
      /\ published \in [Queued -> Seq(Player)] /\ members \in [Port -> SUBSET Player]
  BY EmptySeq DEF Init
<1>3. QED
  BY <1>1, <1>2 DEF Init, TypeOK, TaskState

(***************************************************************************)
(* Sets, lists, tasks and the connection keep their types; in particular a *)
(* task that pushes, unlists or pops always has a player and a server.     *)
(***************************************************************************)
THEOREM TypeCorrect == Spec => []TypeOK
<1>1. TypeOK /\ [Next]_vars => TypeOK'
  <2>1. ASSUME TypeOK, Next  PROVE TypeOK'
    BY <2>1, AskKeepsType, ServeKeepsType, WorkKeepsType, RestartKeepsType DEF Next
  <2>2. ASSUME TypeOK, UNCHANGED vars  PROVE TypeOK'
    BY <2>2 DEF TypeOK, vars, ghosts
  <2>3. QED
    BY <2>1, <2>2
<1>2. QED
  BY InitType, <1>1, PTL DEF Spec

-----------------------------------------------------------------------------
(***************************************************************************)
(* No phantom members.  The invariant alone is not inductive: it also      *)
(* needs that a task awaits one reply at a time.                           *)
(***************************************************************************)
WireInv ==
  /\ \A i, j \in 1 .. Len(wire) : wire[i] = wire[j] => i = j
  /\ \A i \in 1 .. Len(wire) :
       \/ task[wire[i]].at \in {"push", "unlist", "rank", "unset"}
       \/ task[wire[i]].at = "notify" /\ wire[i] \in Request

IInv == TypeOK /\ WireInv /\ NoPhantomMember

\* a step of t takes t from the head of the wire (k = 1) or finds it not there
\* (k = 0), may put it at the end, and leaves the other tasks alone
Resumes(t, k) ==
  /\ k \in {0, 1}
  /\ Len(wire') \in {Len(wire) - k, Len(wire) - k + 1}
  /\ \A i \in 1 .. Len(wire) - k : wire'[i] = wire[i + k]
  /\ \A i \in 1 .. Len(wire') : i > Len(wire) - k => wire'[i] = t
  /\ IF k = 1 THEN Len(wire) > 0 /\ wire[1] = t
     ELSE \A i \in 1 .. Len(wire) : wire[i] # t
  /\ \A u \in Task \ {t} : task'[u] = task[u]

LEMMA WireLength ==
  ASSUME TypeOK
  PROVE  Len(wire) \in Nat /\ \A i \in 1 .. Len(wire) : wire[i] \in Task
BY LenProperties, ElementOfSeq DEF TypeOK

LEMMA OthersStay ==
  ASSUME TypeOK, TypeOK', WireInv, NEW t \in Task, NEW k, Resumes(t, k),
         NEW i \in 1 .. Len(wire'), i <= Len(wire) - k
  PROVE  /\ i + k \in 1 .. Len(wire) /\ wire'[i] = wire[i + k] /\ wire'[i] # t
         /\ task'[wire'[i]] = task[wire[i + k]]
<1>1. Len(wire) \in Nat /\ Len(wire') \in Nat
  BY WireLength, LenProperties DEF TypeOK
<1>2. k \in {0, 1} /\ i + k \in 1 .. Len(wire) /\ wire'[i] = wire[i + k]
  BY <1>1 DEF Resumes
<1>3. wire[i + k] # t
  <2>1. CASE k = 0
    BY <1>2, <2>1 DEF Resumes
  <2>2. CASE k = 1
    BY <1>1, <1>2, <2>2 DEF Resumes, WireInv
  <2>3. QED
    BY <1>2, <2>1, <2>2
<1>4. wire[i + k] \in Task
  BY <1>2, WireLength
<1>5. QED
  BY <1>2, <1>3, <1>4 DEF Resumes

LEMMA WireInvKept ==
  ASSUME TypeOK, TypeOK', WireInv, NEW t \in Task, NEW k, Resumes(t, k),
         \/ Len(wire') = Len(wire) - k
         \/ task'[t].at \in {"push", "unlist", "rank", "unset"}
         \/ task'[t].at = "notify" /\ t \in Request
  PROVE  WireInv'
<1>1. Len(wire) \in Nat /\ Len(wire') \in Nat /\ k \in {0, 1}
  BY WireLength, LenProperties DEF TypeOK, Resumes
<1>2. ASSUME NEW i \in 1 .. Len(wire'), NEW j \in 1 .. Len(wire'), wire'[i] = wire'[j]
      PROVE  i = j
  <2>1. CASE i <= Len(wire) - k /\ j <= Len(wire) - k
    <3>1. i + k = j + k
      BY <1>2, <2>1, OthersStay DEF WireInv
    <3>2. QED
      BY <1>1, <3>1
  <2>2. CASE i > Len(wire) - k /\ j > Len(wire) - k
    BY <1>1, <2>2 DEF Resumes
  <2>3. CASE i > Len(wire) - k /\ j <= Len(wire) - k
    <3>1. wire'[i] = t
      BY <2>3 DEF Resumes
    <3>2. wire'[j] # t
      BY <2>3, OthersStay
    <3>3. QED
      BY <1>2, <3>1, <3>2
  <2>4. CASE i <= Len(wire) - k /\ j > Len(wire) - k
    <3>1. wire'[j] = t
      BY <2>4 DEF Resumes
    <3>2. wire'[i] # t
      BY <2>4, OthersStay
    <3>3. QED
      BY <1>2, <3>1, <3>2
  <2>5. QED
    BY <1>1, <2>1, <2>2, <2>3, <2>4
<1>3. ASSUME NEW i \in 1 .. Len(wire')
      PROVE  \/ task'[wire'[i]].at \in {"push", "unlist", "rank", "unset"}
             \/ task'[wire'[i]].at = "notify" /\ wire'[i] \in Request
  <2>1. CASE i <= Len(wire) - k
    BY <2>1, OthersStay DEF WireInv
  <2>2. CASE i > Len(wire) - k
    BY <1>1, <2>2 DEF Resumes
  <2>3. QED
    BY <1>1, <2>1, <2>2
<1>4. QED
  BY <1>2, <1>3 DEF WireInv

ArrivingAfter(k, c, s) ==
  \E i \in k + 1 .. Len(wire) :
    /\ AwaitsAt(i, "push", c, s)
    /\ \A j \in i + 1 .. Len(wire) : ~ AwaitsAt(j, "unlist", c, s)

LEMMA ArrivingKept ==
  ASSUME TypeOK, TypeOK', WireInv, NEW t \in Task, NEW k, Resumes(t, k), NEW c, NEW s,
         ArrivingAfter(k, c, s),
         ~ (task'[t].at = "unlist" /\ Queueing(t, c, s)')
  PROVE  Arriving(c, s)'
<1>1. Len(wire) \in Nat /\ Len(wire') \in Nat /\ k \in {0, 1}
  BY WireLength, LenProperties DEF TypeOK, Resumes
<1>2. PICK i \in k + 1 .. Len(wire) :
         /\ AwaitsAt(i, "push", c, s)
         /\ \A j \in i + 1 .. Len(wire) : ~ AwaitsAt(j, "unlist", c, s)
  BY DEF ArrivingAfter
<1>3. i - k \in 1 .. Len(wire') /\ i - k <= Len(wire) - k
  BY <1>1, <1>2 DEF Resumes, AwaitsAt, Queueing
<1>4. wire'[i - k] = wire[i] /\ task'[wire'[i - k]] = task[wire[i]]
  <2>1. (i - k) + k = i
    BY <1>1
  <2>2. QED
    BY <1>3, <2>1, OthersStay
<1>5. AwaitsAt(i - k, "push", c, s)'
  BY <1>2, <1>4 DEF AwaitsAt, Queueing
<1>6. ASSUME NEW j \in (i - k) + 1 .. Len(wire')
      PROVE  ~ AwaitsAt(j, "unlist", c, s)'
  <2>1. j \in 1 .. Len(wire')
    BY <1>1, <1>3
  <2>2. CASE j <= Len(wire) - k
    <3>1. task'[wire'[j]] = task[wire[j + k]] /\ j + k \in i + 1 .. Len(wire)
      BY <1>1, <2>1, <2>2, OthersStay
    <3>2. QED
      BY <1>2, <3>1 DEF AwaitsAt, Queueing
  <2>3. CASE j > Len(wire) - k
    <3>1. wire'[j] = t
      BY <2>1, <2>3 DEF Resumes
    <3>2. QED
      BY <3>1 DEF AwaitsAt, Queueing
  <2>4. QED
    BY <1>1, <2>1, <2>2, <2>3
<1>7. QED
  BY <1>3, <1>5, <1>6 DEF Arriving

LEMMA WaitingKept ==
  ASSUME TypeOK, TypeOK', WireInv, NEW t \in Task, NEW k, Resumes(t, k), NEW c, NEW s,
         Listed(c, s)',
         \A i \in k + 1 .. Len(wire) : ~ AwaitsAt(i, "unlist", c, s),
         ~ (task'[t].at = "unlist" /\ Queueing(t, c, s)')
  PROVE  Waiting(c, s)'
<1>1. Len(wire) \in Nat /\ Len(wire') \in Nat /\ k \in {0, 1}
  BY WireLength, LenProperties DEF TypeOK, Resumes
<1>2. ASSUME NEW j \in 1 .. Len(wire')
      PROVE  ~ AwaitsAt(j, "unlist", c, s)'
  <2>1. CASE j <= Len(wire) - k
    <3>1. task'[wire'[j]] = task[wire[j + k]] /\ j + k \in k + 1 .. Len(wire)
      BY <1>1, <2>1, OthersStay
    <3>2. QED
      BY <3>1 DEF AwaitsAt, Queueing
  <2>2. CASE j > Len(wire) - k
    <3>1. wire'[j] = t
      BY <2>2 DEF Resumes
    <3>2. QED
      BY <3>1 DEF AwaitsAt, Queueing
  <2>3. QED
    BY <1>1, <2>1, <2>2
<1>3. QED
  BY <1>2 DEF Waiting

LEMMA WireMoves ==
  ASSUME TypeOK, WireInv, NEW t \in Task,
         \A u \in Task \ {t} : task'[u] = task[u]
  PROVE  /\ FirstOnWire(t) /\ wire' = Tail(wire)
            => Resumes(t, 1) /\ Len(wire') = Len(wire) - 1
         /\ Reissue(t) => Resumes(t, 1)
         /\ wire' = wire /\ (\A i \in 1 .. Len(wire) : wire[i] # t)
            => Resumes(t, 0) /\ Len(wire') = Len(wire) - 0
         /\ Await(t) /\ (\A i \in 1 .. Len(wire) : wire[i] # t) => Resumes(t, 0)
<1>1. wire \in Seq(Task) /\ Len(wire) \in Nat
  BY WireLength DEF TypeOK
<1>2. ASSUME FirstOnWire(t)
      PROVE  /\ Len(wire) > 0 /\ wire[1] = t
             /\ Tail(wire) \in Seq(Task) /\ Len(Tail(wire)) = Len(wire) - 1
             /\ \A i \in 1 .. Len(wire) - 1 : Tail(wire)[i] = wire[i + 1]
  BY <1>1, <1>2, HeadTailProperties, EmptySeq DEF FirstOnWire
<1>3. ASSUME FirstOnWire(t), wire' = Tail(wire)
      PROVE  Resumes(t, 1) /\ Len(wire') = Len(wire) - 1
  BY <1>1, <1>2, <1>3 DEF Resumes
<1>4. ASSUME Reissue(t)
      PROVE  Resumes(t, 1)
  <2>1. FirstOnWire(t) /\ wire' = Append(Tail(wire), t)
    BY <1>4 DEF Reissue
  <2>2. /\ Len(wire') = Len(wire)
        /\ \A i \in 1 .. Len(wire) - 1 : wire'[i] = wire[i + 1]
        /\ wire'[Len(wire)] = t
    BY <1>1, <1>2, <2>1, AppendProperties
  <2>3. \A i \in 1 .. Len(wire') : i > Len(wire) - 1 => wire'[i] = t
    BY <1>1, <2>2
  <2>4. Len(wire') \in {Len(wire) - 1, Len(wire) - 1 + 1}
    BY <1>1, <2>2
  <2>5. Len(wire) > 0 /\ wire[1] = t
    BY <1>2, <2>1
  <2>6. \A i \in 1 .. Len(wire) - 1 : wire'[i] = wire[i + 1]
    BY <2>2
  <2>7. QED
    BY <2>3, <2>4, <2>5, <2>6 DEF Resumes
<1>5. ASSUME wire' = wire, \A i \in 1 .. Len(wire) : wire[i] # t
      PROVE  Resumes(t, 0) /\ Len(wire') = Len(wire) - 0
  BY <1>1, <1>5 DEF Resumes
<1>6. ASSUME Await(t), \A i \in 1 .. Len(wire) : wire[i] # t
      PROVE  Resumes(t, 0)
  <2>1. /\ Len(wire') = Len(wire) + 1
        /\ \A i \in 1 .. Len(wire) : wire'[i] = wire[i]
        /\ wire'[Len(wire) + 1] = t
    BY <1>1, <1>6, AppendProperties DEF Await
  <2>2. QED
    BY <1>1, <1>6, <2>1 DEF Resumes
<1>7. QED
  BY <1>3, <1>4, <1>5, <1>6

Placed(c, s) == Arriving(c, s) \/ Waiting(c, s) \/ Leaving(c, s) \/ <<s, c>> \in stranded

\* what a step has to respect to leave a player in its place
LEMMA PlaceKept ==
  ASSUME TypeOK, TypeOK', WireInv, NEW t \in Task, NEW k, Resumes(t, k), NEW c, NEW s,
         Placed(c, s), stranded' = stranded,
         k = 1 /\ task[t].at = "push" /\ Queueing(t, c, s) => Listed(c, s)',
         Waiting(c, s) => Listed(c, s)' \/ Leaving(c, s)',
         ~ (task'[t].at = "unlist" /\ Queueing(t, c, s)'),
         ~ (task[t].at = "unset" /\ Queueing(t, c, s))
  PROVE  Placed(c, s)'
<1>1. Len(wire) \in Nat /\ k \in {0, 1}
  BY WireLength DEF Resumes
<1>2. CASE Arriving(c, s)
  <2>1. PICK i \in 1 .. Len(wire) :
           /\ AwaitsAt(i, "push", c, s)
           /\ \A j \in i + 1 .. Len(wire) : ~ AwaitsAt(j, "unlist", c, s)
    BY <1>2 DEF Arriving
  <2>2. CASE i > k
    <3>1. ArrivingAfter(k, c, s)
      BY <1>1, <2>1, <2>2 DEF ArrivingAfter
    <3>2. QED
      BY <3>1, ArrivingKept DEF Placed
  <2>3. CASE i <= k
    <3>1. k = 1 /\ i = 1 /\ wire[1] = t
      BY <1>1, <2>3 DEF Resumes
    <3>2. Listed(c, s)'
      BY <2>1, <3>1 DEF AwaitsAt, Queueing
    <3>3. Waiting(c, s)'
      BY <2>1, <3>1, <3>2, WaitingKept
    <3>4. QED
      BY <3>3 DEF Placed
  <2>4. QED
    BY <1>1, <2>2, <2>3
<1>3. CASE Waiting(c, s)
  <2>1. CASE Listed(c, s)'
    <3>1. \A i \in k + 1 .. Len(wire) : ~ AwaitsAt(i, "unlist", c, s)
      BY <1>1, <1>3 DEF Waiting
    <3>2. QED
      BY <2>1, <3>1, WaitingKept DEF Placed
  <2>2. QED
    BY <1>3, <2>1 DEF Placed
<1>4. CASE Leaving(c, s)
  <2>1. PICK u \in Tick : task[u].at = "unset" /\ Queueing(u, c, s)
    BY <1>4 DEF Leaving
  <2>2. u # t /\ u \in Task
    BY <2>1 DEF Task
  <2>3. task'[u] = task[u]
    BY <2>2 DEF Resumes
  <2>4. QED
    BY <2>1, <2>3 DEF Leaving, Queueing, Placed
<1>5. QED
  BY <1>2, <1>3, <1>4 DEF Placed

\* a step that adds nobody to a set and respects the places keeps the invariant
LEMMA StepKeepsInv ==
  ASSUME IInv, TypeOK', NEW t \in Task, NEW k, Resumes(t, k),
         \/ Len(wire') = Len(wire) - k
         \/ task'[t].at \in {"push", "unlist", "rank", "unset"}
         \/ task'[t].at = "notify" /\ t \in Request,
         stranded' = stranded,
         \A s \in Port : members'[s] \subseteq members[s],
         \A s \in Port : \A c \in members'[s] :
           /\ k = 1 /\ task[t].at = "push" /\ Queueing(t, c, s) => Listed(c, s)'
           /\ Waiting(c, s) => Listed(c, s)' \/ Leaving(c, s)'
           /\ ~ (task'[t].at = "unlist" /\ Queueing(t, c, s)')
           /\ ~ (task[t].at = "unset" /\ Queueing(t, c, s))
  PROVE  IInv'
<1>1. WireInv'
  BY WireInvKept DEF IInv
<1>2. ASSUME NEW s \in Port, NEW c \in members'[s]
      PROVE  Placed(c, s)'
  <2>1. Placed(c, s)
    BY DEF IInv, NoPhantomMember, Placed
  <2>2. QED
    BY <2>1, PlaceKept DEF IInv
<1>3. QED
  BY <1>1, <1>2 DEF IInv, NoPhantomMember, Placed

LEMMA OffWire ==
  ASSUME WireInv, NEW t \in Task,
         task[t].at \notin {"push", "unlist", "rank", "unset"},
         ~ (task[t].at = "notify" /\ t \in Request)
  PROVE  \A i \in 1 .. Len(wire) : wire[i] # t
BY DEF WireInv

LEMMA OthersUntouched ==
  ASSUME TypeOK, NEW t \in Task, NEW op, NEW at, NEW c, NEW s,
         Goto(t, at) \/ Finish(t) \/ Begin(t, op, at, c, s) \/ Advance(t, s, at)
  PROVE  \A u \in Task \ {t} : task'[u] = task[u]
<1>1. \A r : task' = [task EXCEPT ![t] = r] => \A u \in Task \ {t} : task'[u] = task[u]
  BY DEF TypeOK
<1>2. QED
  BY <1>1 DEF Goto, Finish, Begin, Advance

\* where a step leaves its task
LEMMA TaskFields ==
  ASSUME TypeOK, NEW t \in Task
  PROVE  DOMAIN task[t] = {"op", "at", "who", "port"}
<1>1. task[t] \in {Idle} \cup Seeking \cup Engaged
  BY DEF TypeOK
<1>2. QED
  BY <1>1 DEF Idle, Seeking, Engaged

LEMMA AfterGoto ==
  ASSUME TypeOK, NEW t \in Task, NEW at, Goto(t, at)
  PROVE  /\ task'[t].at = at
         /\ task'[t].who = task[t].who /\ task'[t].port = task[t].port
         /\ \A c, s : Queueing(t, c, s)' <=> Queueing(t, c, s)
<1>1. task'[t] = [task[t] EXCEPT !.at = at]
  BY DEF Goto, TypeOK
<1>2. /\ task'[t].at = at
      /\ task'[t].who = task[t].who /\ task'[t].port = task[t].port
  BY <1>1, TaskFields
<1>3. QED
  BY <1>2 DEF Queueing

LEMMA AfterFinish ==
  ASSUME TypeOK, NEW t \in Task, Finish(t)
  PROVE  task'[t] = Idle /\ task'[t].at = "start"
<1>1. task'[t] = Idle
  BY DEF Finish, TypeOK
<1>2. QED
  BY <1>1 DEF Idle

LEMMA AfterBegin ==
  ASSUME TypeOK, NEW t \in Task, NEW op, NEW at, NEW c, NEW s, Begin(t, op, at, c, s)
  PROVE  task'[t].at = at /\ task'[t].who = c /\ task'[t].port = s
<1>1. task'[t] = [op |-> op, at |-> at, who |-> c, port |-> s]
  BY DEF Begin, TypeOK
<1>2. QED
  BY <1>1

LEMMA AfterAdvance ==
  ASSUME TypeOK, NEW t \in Task, NEW at, NEW s, Advance(t, s, at)
  PROVE  task'[t].at \in {"start", at}
<1>1. CASE Later(s) = {}
  BY <1>1, AfterFinish DEF Advance
<1>2. CASE Later(s) # {}
  <2>1. task'[t] = [task[t] EXCEPT !.port = Earliest(Later(s)), !.at = at]
    BY <1>2 DEF Advance, TypeOK
  <2>2. QED
    BY <2>1, TaskFields
<1>3. QED
  BY <1>1, <1>2

\* a step that touches neither a set nor a list nor the wire
LEMMA QuietStep ==
  ASSUME IInv, TypeOK', NEW t \in Task,
         \A u \in Task \ {t} : task'[u] = task[u],
         task[t].at \notin {"push", "unlist", "rank", "unset"},
         ~ (task[t].at = "notify" /\ t \in Request),
         task'[t].at # "unlist",
         UNCHANGED <<members, line, wire, stranded>>
  PROVE  IInv'
<1>1. Resumes(t, 0) /\ Len(wire') = Len(wire) - 0
  BY OffWire, WireMoves DEF IInv
<1>2. \A c, s : Listed(c, s)' <=> Listed(c, s)
  BY DEF Listed
<1>3. QED
  BY <1>1, <1>2, StepKeepsInv DEF Waiting

LEMMA AskKeepsInv ==
  ASSUME IInv, NEW t \in Request, NEW c \in Player, Ask(t, c)
  PROVE  IInv'
<1>0. t \in Task /\ TypeOK /\ TypeOK' /\ WireInv /\ Idle.at = "start"
  BY AskKeepsType DEF Task, IInv, Idle
<1> USE <1>0
<1>1. ASSUME NEW s \in Port, AddToQueue(t, c, s)
      PROVE  IInv'
  <2>1. /\ task[t] = Idle /\ Begin(t, "add", "push", c, s) /\ Await(t)
        /\ members' = [members EXCEPT ![s] = @ \cup {c}]
        /\ line' = line /\ stranded' = stranded
    BY <1>1 DEF AddToQueue, Accepts, ghosts
  <2>2. Resumes(t, 0)
    BY <2>1, OffWire, OthersUntouched, WireMoves
  <2>3. task'[t].at = "push" /\ task'[t].who = c /\ task'[t].port = s
    BY <2>1, AfterBegin
  <2>4. WireInv'
    BY <2>2, <2>3, WireInvKept
  <2>5. ASSUME NEW p \in Port, NEW d \in members[p]
        PROVE  Placed(d, p)'
    <3>1. Placed(d, p)
      BY DEF IInv, NoPhantomMember, Placed
    <3>2. Listed(d, p)' <=> Listed(d, p)
      BY <2>1 DEF Listed
    <3>3. QED
      BY <2>1, <2>2, <2>3, <3>1, <3>2, PlaceKept DEF Waiting
  <2>6. Arriving(c, s)'
    <3>1. PICK n \in Nat : n = Len(wire) + 1
      BY WireLength
    <3>2. Len(wire') = n /\ wire'[n] = t
      BY <2>1, <3>1, AppendProperties DEF Await, TypeOK
    <3>3. AwaitsAt(n, "push", c, s)'
      BY <2>3, <3>2 DEF AwaitsAt, Queueing
    <3>4. n \in 1 .. Len(wire') /\ (n + 1 .. Len(wire')) = {}
      BY <3>1, <3>2, WireLength
    <3>5. QED
      BY <3>3, <3>4 DEF Arriving
  <2>7. ASSUME NEW p \in Port, NEW d \in members'[p]
        PROVE  Placed(d, p)'
    BY <2>1, <2>5, <2>6 DEF Placed, TypeOK
  <2>8. QED
    BY <2>4, <2>7 DEF IInv, NoPhantomMember, Placed
<1>2. ASSUME NEW s \in Port, RemoveFromQueue(t, c, s)
      PROVE  IInv'
  <2>1. /\ task[t] = Idle /\ Begin(t, "remove", "unlist", c, s) /\ Await(t)
        /\ members' = [members EXCEPT ![s] = @ \ {c}]
        /\ line' = line /\ stranded' = stranded
    BY <1>2 DEF RemoveFromQueue, Accepts, Srem, ghosts
  <2>2. Resumes(t, 0)
    BY <2>1, OffWire, OthersUntouched, WireMoves
  <2>3. task'[t].at = "unlist" /\ task'[t].who = c /\ task'[t].port = s
    BY <2>1, AfterBegin
  <2>4. \A p \in Port : members'[p] \subseteq members[p]
    BY <2>1 DEF TypeOK
  <2>5. \A p \in Port : \A d \in members'[p] : ~ Queueing(t, d, p)'
    BY <2>1, <2>3 DEF Queueing, TypeOK
  <2>6. QED
    BY <2>1, <2>2, <2>3, <2>4, <2>5, StepKeepsInv DEF Waiting, Listed
<1>3. CASE StartCleanup(t, c)
  <2>1. task[t] = Idle /\ Begin(t, "cleanup", "probe", c, Earliest(Later(0)))
    BY <1>3 DEF StartCleanup, Accepts
  <2>2. UNCHANGED <<members, line, wire, stranded>>
    BY <1>3 DEF StartCleanup, queues, ghosts
  <2>3. QED
    BY <2>1, <2>2, OthersUntouched, AfterBegin, QuietStep
<1>4. CASE StartStatus(t, c)
  <2>1. task[t] = Idle /\ Begin(t, "status", "look", c, Earliest(Later(0)))
    BY <1>4 DEF StartStatus, Accepts
  <2>2. UNCHANGED <<members, line, wire, stranded>>
    BY <1>4 DEF StartStatus, queues, ghosts
  <2>3. QED
    BY <2>1, <2>2, OthersUntouched, AfterBegin, QuietStep
<1>5. QED
  BY <1>1, <1>2, <1>3, <1>4 DEF Ask

LEMMA ServeKeepsInv ==
  ASSUME IInv, NEW t \in Request, Serve(t)
  PROVE  IInv'
<1>0. t \in Task /\ TypeOK /\ TypeOK' /\ WireInv
  BY ServeKeepsType DEF Task, IInv
<1> USE <1>0
<1>1. CASE Rpush(t)
  <2>1. /\ task[t].at = "push" /\ Goto(t, "notify") /\ Reissue(t)
        /\ line' = [line EXCEPT ![task[t].port] = Append(@, task[t].who)]
        /\ members' = members /\ stranded' = stranded
    BY <1>1 DEF Rpush, ghosts
  <2>2. Resumes(t, 1)
    BY <2>1, OthersUntouched, WireMoves
  <2>3. task'[t].at = "notify"
    BY <2>1, AfterGoto
  <2>4. ASSUME NEW s \in Port, NEW c \in members[s]
        PROVE  /\ Queueing(t, c, s) => Listed(c, s)'
               /\ Listed(c, s) => Listed(c, s)'
    <3>1. line[s] \in Seq(Player) /\ Len(line[s]) \in Nat /\ task[t].who \in Player
      BY <2>1, LenProperties, TaskKind DEF TypeOK, Engaged, Where
    <3>2. CASE task[t].port = s
      <4>1. line'[s] = Append(line[s], task[t].who)
        BY <2>1, <3>2 DEF TypeOK
      <4>2. /\ Len(line'[s]) = Len(line[s]) + 1
            /\ line'[s][Len(line[s]) + 1] = task[t].who
            /\ \A i \in 1 .. Len(line[s]) : line'[s][i] = line[s][i]
        BY <3>1, <4>1, AppendProperties
      <4>3. Queueing(t, c, s) => Listed(c, s)'
        BY <3>1, <4>2 DEF Queueing, Listed
      <4>4. Listed(c, s) => Listed(c, s)'
        BY <3>1, <4>2 DEF Listed
      <4>5. QED
        BY <4>3, <4>4
    <3>3. CASE task[t].port # s
      <4>1. line'[s] = line[s]
        BY <2>1, <3>3 DEF TypeOK
      <4>2. QED
        BY <3>3, <4>1 DEF Queueing, Listed
    <3>4. QED
      BY <3>2, <3>3
  <2>5. QED
    BY <2>1, <2>2, <2>3, <2>4, StepKeepsInv DEF Waiting
<1>2. CASE Lrem(t)
  <2> DEFINE p == task[t].port
             q == line[p]
  <2>1. /\ task[t].at = "unlist" /\ Goto(t, "notify") /\ Reissue(t)
        /\ members' = members /\ stranded' = stranded
    BY <1>2 DEF Lrem, ghosts
  <2>2. Resumes(t, 1) /\ wire[1] = t /\ Len(wire) > 0 /\ Len(wire) \in Nat
    BY <2>1, OthersUntouched, WireMoves, WireLength DEF Resumes
  <2>3. task'[t].at = "notify"
    BY <2>1, AfterGoto
  <2>4. p \in Port /\ q \in Seq(Player)
    BY <2>1, TaskKind DEF TypeOK, Engaged, Where
  <2>5. PICK n \in 0 .. Len(q) : \E f \in InOrder(Kept(q, task[t].who), n) :
          line' = [line EXCEPT ![p] = [i \in 1 .. n |-> q[f[i]]]]
    BY <1>2 DEF Lrem
  <2>6. PICK f \in InOrder(Kept(q, task[t].who), n) :
          line' = [line EXCEPT ![p] = [i \in 1 .. n |-> q[f[i]]]]
    BY <2>5
  <2>7. ASSUME NEW s \in Port, NEW c \in members[s], Waiting(c, s)
        PROVE  Listed(c, s)'
    <3>1. CASE s # p
      BY <2>6, <2>7, <3>1 DEF Waiting, Listed, TypeOK
    <3>2. CASE s = p
      <4>1. c # task[t].who
        BY <2>1, <2>2, <2>7, <3>2 DEF Waiting, AwaitsAt, Queueing
      <4>2. PICK i \in 1 .. Len(q) : q[i] = c
        BY <2>7, <3>2 DEF Waiting, Listed
      <4>3. i \in Kept(q, task[t].who)
        BY <4>1, <4>2 DEF Kept
      <4>4. PICK j \in 1 .. n : f[j] = i
        BY <4>3 DEF InOrder
      <4>5. line'[s] = [k \in 1 .. n |-> q[f[k]]] /\ n \in Nat
        <5>1. n \in Nat
          BY <2>4, LenProperties
        <5>2. \A r : line' = [line EXCEPT ![p] = r] => line'[s] = r
          BY <2>4, <3>2 DEF TypeOK
        <5>3. QED
          BY <2>6, <5>1, <5>2
      <4>6. Len(line'[s]) = n /\ line'[s][j] = c
        BY <4>2, <4>4, <4>5
      <4>7. QED
        BY <4>4, <4>6 DEF Listed
    <3>3. QED
      BY <3>1, <3>2
  <2>8. QED
    BY <2>1, <2>2, <2>3, <2>7, StepKeepsInv
<1>3. CASE Probe(t)
  <2>1. /\ task[t].at = "probe" /\ UNCHANGED <<members, line, wire, stranded>>
        /\ Goto(t, "srem") \/ Advance(t, task[t].port, "probe")
    BY <1>3 DEF Probe, queues, ghosts
  <2>2. \A u \in Task \ {t} : task'[u] = task[u]
    BY <2>1, OthersUntouched
  <2>3. task'[t].at # "unlist"
    BY <2>1, AfterGoto, AfterAdvance
  <2>4. QED
    BY <2>1, <2>2, <2>3, QuietStep
<1>4. CASE CleanupSrem(t)
  <2>1. CASE task[t].who \in members[task[t].port]
    <3>1. /\ task[t].at = "srem" /\ Goto(t, "unlist") /\ Await(t)
          /\ members' = [members EXCEPT ![task[t].port] = @ \ {task[t].who}]
          /\ line' = line /\ stranded' = stranded
      BY <1>4, <2>1 DEF CleanupSrem, Srem, ghosts
    <3>2. Resumes(t, 0)
      BY <3>1, OffWire, OthersUntouched, WireMoves
    <3>3. task'[t].at = "unlist" /\ \A c, s : Queueing(t, c, s)' <=> Queueing(t, c, s)
      BY <3>1, AfterGoto
    <3>4. \A s \in Port : members'[s] \subseteq members[s]
      BY <3>1 DEF TypeOK
    <3>5. \A s \in Port : \A c \in members'[s] : ~ Queueing(t, c, s)
      BY <3>1 DEF Queueing, TypeOK
    <3>6. QED
      BY <3>1, <3>2, <3>3, <3>4, <3>5, StepKeepsInv DEF Waiting, Listed
  <2>2. CASE task[t].who \notin members[task[t].port]
    <3>1. /\ task[t].at = "srem" /\ UNCHANGED <<members, line, wire, stranded>>
          /\ Advance(t, task[t].port, "probe")
      BY <1>4, <2>2 DEF CleanupSrem, queues, ghosts
    <3>2. \A u \in Task \ {t} : task'[u] = task[u]
      BY <3>1, OthersUntouched
    <3>3. task'[t].at # "unlist"
      BY <3>1, AfterAdvance
    <3>4. QED
      BY <3>1, <3>2, <3>3, QuietStep
  <2>3. QED
    BY <2>1, <2>2
<1>5. CASE Look(t)
  <2>1. CASE task[t].who \in members[task[t].port]
    <3>1. /\ task[t].at = "look" /\ Goto(t, "rank") /\ Await(t)
          /\ UNCHANGED <<members, line, stranded>>
      BY <1>5, <2>1 DEF Look, queues, ghosts
    <3>2. Resumes(t, 0)
      BY <3>1, OffWire, OthersUntouched, WireMoves
    <3>3. task'[t].at = "rank"
      BY <3>1, AfterGoto
    <3>4. QED
      BY <3>1, <3>2, <3>3, StepKeepsInv DEF Waiting, Listed
  <2>2. CASE task[t].who \notin members[task[t].port]
    <3>1. /\ task[t].at = "look" /\ UNCHANGED <<members, line, wire, stranded>>
          /\ Advance(t, task[t].port, "look")
      BY <1>5, <2>2 DEF Look, queues, ghosts
    <3>2. \A u \in Task \ {t} : task'[u] = task[u]
      BY <3>1, OthersUntouched
    <3>3. task'[t].at # "unlist"
      BY <3>1, AfterAdvance
    <3>4. QED
      BY <3>1, <3>2, <3>3, QuietStep
  <2>3. QED
    BY <2>1, <2>2
<1>6. CASE Rank(t)
  <2>1. /\ task[t].at = "rank" /\ FirstOnWire(t) /\ wire' = Tail(wire)
        /\ UNCHANGED <<members, line, stranded>> /\ Advance(t, task[t].port, "look")
    BY <1>6 DEF Rank, Replied, queues, ghosts
  <2>2. Resumes(t, 1) /\ Len(wire') = Len(wire) - 1
    BY <2>1, OthersUntouched, WireMoves
  <2>3. task'[t].at \in {"start", "look"}
    BY <2>1, AfterAdvance
  <2>4. QED
    BY <2>1, <2>2, <2>3, StepKeepsInv DEF Waiting, Listed
<1>7. CASE NotifyQueuesUpdate(t)
  <2>1. /\ task[t].at = "notify" /\ FirstOnWire(t) /\ wire' = Tail(wire)
        /\ UNCHANGED <<members, line, stranded>>
        /\ Finish(t) \/ Advance(t, task[t].port, "probe")
    BY <1>7 DEF NotifyQueuesUpdate, Announce, Replied, queues, ghosts
  <2>2. Resumes(t, 1) /\ Len(wire') = Len(wire) - 1
    BY <2>1, OthersUntouched, WireMoves
  <2>3. task'[t].at \in {"start", "probe"}
    BY <2>1, AfterFinish, AfterAdvance
  <2>4. QED
    BY <2>1, <2>2, <2>3, StepKeepsInv DEF Waiting, Listed
<1>8. QED
  BY <1>1, <1>2, <1>3, <1>4, <1>5, <1>6, <1>7 DEF Serve

LEMMA WorkKeepsInv ==
  ASSUME IInv, NEW t \in Tick, Work(t) \/ StartTick(t)
  PROVE  IInv'
<1>0. t \in Task /\ t \notin Request /\ TypeOK /\ TypeOK' /\ WireInv /\ Idle.at = "start"
  BY WorkKeepsType, TaskAssumption DEF Task, IInv, Idle
<1> USE <1>0
<1>1. CASE Lpop(t)
  <2> DEFINE s == task[t].port
  <2>1. /\ task[t].at = "slots" /\ Await(t) /\ line[s] # <<>>
        /\ line' = [line EXCEPT ![s] = Tail(@)]
        /\ task' = [task EXCEPT ![t].at = "unset", ![t].who = Head(line[s])]
        /\ members' = members /\ stranded' = stranded
    BY <1>1 DEF Lpop, ghosts
  <2>2. s \in Port /\ line[s] \in Seq(Player)
    BY <2>1, TaskKind DEF TypeOK, Seeking
  <2>3. \A u \in Task \ {t} : task'[u] = task[u]
    BY <2>1 DEF TypeOK
  <2>4. task'[t].at = "unset" /\ task'[t].who = Head(line[s]) /\ task'[t].port = s
    <3>1. task'[t] = [task[t] EXCEPT !.at = "unset", !.who = Head(line[s])]
      BY <2>1 DEF TypeOK
    <3>2. QED
      BY <3>1, TaskFields
  <2>5. Resumes(t, 0)
    BY <2>1, <2>3, OffWire, WireMoves
  <2>6. ASSUME NEW p \in Port, NEW c, Listed(c, p)
        PROVE  Listed(c, p)' \/ Leaving(c, p)'
    <3>1. CASE p # s
      BY <2>1, <2>6, <3>1 DEF Listed, TypeOK
    <3>2. CASE p = s
      <4>1. PICK i \in 1 .. Len(line[s]) : line[s][i] = c
        BY <2>6, <3>2 DEF Listed
      <4>2. CASE i = 1
        <5>1. c = Head(line[s])
          BY <2>1, <2>2, <4>1, <4>2, HeadTailProperties
        <5>2. Queueing(t, c, p)'
          BY <2>4, <3>2, <5>1 DEF Queueing
        <5>3. QED
          BY <2>4, <5>2 DEF Leaving
      <4>3. CASE i # 1
        <5>1. line'[p] = Tail(line[s])
          BY <2>1, <2>2, <3>2 DEF TypeOK
        <5>2. /\ Len(line[s]) \in Nat /\ Len(line'[p]) = Len(line[s]) - 1
              /\ \A j \in 1 .. Len(line[s]) - 1 : line'[p][j] = line[s][j + 1]
          BY <2>1, <2>2, <5>1, HeadTailProperties, LenProperties
        <5>3. i - 1 \in 1 .. Len(line'[p]) /\ line'[p][i - 1] = c
          BY <4>1, <4>3, <5>2
        <5>4. QED
          BY <5>3 DEF Listed
      <4>4. QED
        BY <4>2, <4>3
    <3>3. QED
      BY <3>1, <3>2
  <2>7. QED
    BY <2>1, <2>4, <2>5, <2>6, StepKeepsInv DEF Waiting
<1>2. CASE TickSrem(t)
  <2>1. /\ task[t].at = "unset" /\ FirstOnWire(t) /\ wire' = Tail(wire) /\ Goto(t, "admit")
        /\ members' = [members EXCEPT ![task[t].port] = @ \ {task[t].who}]
        /\ line' = line /\ stranded' = stranded
    BY <1>2 DEF TickSrem, Replied, ghosts
  <2>2. Resumes(t, 1) /\ Len(wire') = Len(wire) - 1
    BY <2>1, OthersUntouched, WireMoves
  <2>3. task'[t].at = "admit"
    BY <2>1, AfterGoto
  <2>4. \A s \in Port : members'[s] \subseteq members[s]
    BY <2>1 DEF TypeOK
  <2>5. \A s \in Port : \A c \in members'[s] : ~ Queueing(t, c, s)
    BY <2>1 DEF Queueing, TypeOK
  <2>6. QED
    BY <2>1, <2>2, <2>3, <2>4, <2>5, StepKeepsInv DEF Waiting, Listed
<1>3. CASE Peek(t) \/ Full(t) \/ LpopNull(t) \/ Admit(t) \/ AdmissionFails(t)
           \/ TickNotify(t) \/ StartTick(t)
  <2>1. UNCHANGED <<members, line, wire, stranded>>
    BY <1>3 DEF Peek, Full, LpopNull, Admit, AdmissionFails, TickNotify, Announce,
                StartTick, queues, ghosts
  <2>2. task[t].at \in {"start", "peek", "slots", "admit", "notify"}
    BY <1>3 DEF Peek, Full, LpopNull, Admit, AdmissionFails, TickNotify, Announce, StartTick
  <2>3. \/ Goto(t, "slots") \/ Goto(t, "notify") \/ Finish(t)
        \/ Advance(t, task[t].port, "peek")
        \/ Begin(t, "tick", "peek", Nobody, Earliest(Later(0)))
    BY <1>3 DEF Peek, Full, LpopNull, Admit, AdmissionFails, TickNotify, StartTick
  <2>4. \A u \in Task \ {t} : task'[u] = task[u]
    BY <2>3, OthersUntouched
  <2>5. task'[t].at # "unlist"
    BY <2>3, AfterGoto, AfterFinish, AfterAdvance, AfterBegin
  <2>6. QED
    BY <2>1, <2>2, <2>4, <2>5, QuietStep
<1>4. QED
  BY <1>1, <1>2, <1>3 DEF Work

LEMMA RestartKeepsInv ==
  ASSUME IInv, Restart
  PROVE  IInv'
<1>1. TypeOK /\ TypeOK' /\ WireInv'
  BY RestartKeepsType, EmptySeq DEF IInv, Restart, WireInv
<1>2. ASSUME NEW s \in Port, NEW c \in members'[s]
      PROVE  Placed(c, s)'
  <2>1. /\ members' = members /\ line' = line /\ wire' = <<>> /\ stranded \subseteq stranded'
        /\ \A t \in Cut({"push", "unlist", "unset"}) :
             <<task[t].port, task[t].who>> \in stranded'
    BY DEF Restart, queues
  <2>2. Placed(c, s)
    BY <2>1 DEF IInv, NoPhantomMember, Placed
  <2>3. CASE Arriving(c, s)
    <3>1. PICK i \in 1 .. Len(wire) : AwaitsAt(i, "push", c, s)
      BY <2>3 DEF Arriving
    <3>2. wire[i] \in Cut({"push", "unlist", "unset"})
      BY <1>1, <3>1, WireLength DEF AwaitsAt, Cut
    <3>3. QED
      BY <2>1, <3>1, <3>2 DEF AwaitsAt, Queueing, Placed
  <2>4. CASE Waiting(c, s)
    <3>1. Listed(c, s)' /\ Len(wire') = 0
      BY <2>1, <2>4, EmptySeq DEF Waiting, Listed
    <3>2. QED
      BY <3>1 DEF Waiting, Placed
  <2>5. CASE Leaving(c, s)
    <3>1. PICK t \in Tick : task[t].at = "unset" /\ Queueing(t, c, s)
      BY <2>5 DEF Leaving
    <3>2. t \in Cut({"push", "unlist", "unset"})
      BY <3>1 DEF Cut, Task
    <3>3. QED
      BY <2>1, <3>1, <3>2 DEF Queueing, Placed
  <2>6. CASE <<s, c>> \in stranded
    BY <2>1, <2>6 DEF Placed
  <2>7. QED
    BY <2>2, <2>3, <2>4, <2>5, <2>6 DEF Placed
<1>3. QED
  BY <1>1, <1>2 DEF IInv, NoPhantomMember, Placed

LEMMA InitIInv == Init => IInv
<1> SUFFICES ASSUME Init  PROVE IInv
  OBVIOUS
<1>1. WireInv
  BY EmptySeq DEF Init, WireInv
<1>2. NoPhantomMember
  BY DEF Init, NoPhantomMember
<1>3. QED
  BY <1>1, <1>2, InitType DEF IInv

LEMMA NextKeepsIInv == IInv /\ [Next]_vars => IInv'
<1>1. ASSUME IInv, Next  PROVE IInv'
  BY <1>1, AskKeepsInv, ServeKeepsInv, WorkKeepsInv, RestartKeepsInv DEF Next
<1>2. ASSUME IInv, UNCHANGED vars  PROVE IInv'
  <2>1. /\ TypeOK' <=> TypeOK
        /\ WireInv' <=> WireInv
    BY <1>2 DEF vars, ghosts, TypeOK, WireInv
  <2>2. NoPhantomMember' <=> NoPhantomMember
    BY <1>2 DEF vars, ghosts, NoPhantomMember, Arriving, Waiting, Leaving, Listed,
                AwaitsAt, Queueing
  <2>3. QED
    BY <1>2, <2>1, <2>2 DEF IInv
<1>3. QED
  BY <1>1, <1>2

LEMMA IInvHolds == Spec => []IInv
BY InitIInv, NextKeepsIInv, PTL DEF Spec

(***************************************************************************)
(* A player Redis counts as queued is on the list, about to be put there,  *)
(* or being taken out by a tick, for every interleaving of any number of   *)
(* requests, cleanups and overlapping ticks; otherwise a restart cut an    *)
(* update of that very player.                                             *)
(***************************************************************************)
THEOREM NoPhantoms == Spec => []NoPhantomMember
<1>1. IInv => NoPhantomMember
  BY DEF IInv
<1>2. QED
  BY <1>1, IInvHolds, PTL

-----------------------------------------------------------------------------
(***************************************************************************)
(* The broadcast.  Whoever changes a list goes on to a place from which it *)
(* can only leave by an announcement, by dying, or by an exception.        *)
(***************************************************************************)
Owing == {"unset", "admit", "notify"}

LEMMA DebtKept ==
  ASSUME TypeOK, BroadcastCurrent, NEW t \in Task,
         \A u \in Task \ {t} : task'[u] = task[u],
         \/ task'[t].at \in Owing
         \/ task[t].at \notin Owing /\ line' = line,
         published' = published, unannounced' = unannounced
  PROVE  BroadcastCurrent'
<1>1. CASE task'[t].at \in Owing
  BY <1>1 DEF BroadcastCurrent, Cut, Owing
<1>2. CASE task[t].at \notin Owing /\ line' = line
  <2>1. \A u \in Cut(Owing) : task'[u].at \in Owing
    BY <1>2 DEF Cut
  <2>2. QED
    BY <1>2, <2>1 DEF BroadcastCurrent, Cut, Owing
<1>3. QED
  BY <1>1, <1>2

LEMMA AnnouncedIsCurrent ==
  ASSUME NEW t \in Task, Announce(t)
  PROVE  BroadcastCurrent'
BY DEF Announce, BroadcastCurrent, queues

LEMMA NextKeepsBroadcast == TypeOK /\ BroadcastCurrent /\ [Next]_vars => BroadcastCurrent'
<1> SUFFICES ASSUME TypeOK, BroadcastCurrent, [Next]_vars  PROVE BroadcastCurrent'
  OBVIOUS
<1> USE DEF queues, ghosts
<1>0. Idle.at = "start" /\ Request \subseteq Task /\ Tick \subseteq Task
  BY DEF Idle, Task
<1>1. ASSUME NEW t \in Request, NEW c \in Player, Ask(t, c)  PROVE BroadcastCurrent'
  <2>1. task[t] = Idle /\ UNCHANGED <<line, published, unannounced>>
    BY <1>1 DEF Ask, AddToQueue, RemoveFromQueue, StartCleanup, StartStatus, Accepts, Srem
  <2>2. \A u \in Task \ {t} : task'[u] = task[u]
    BY <1>0, <1>1, OthersUntouched
       DEF Ask, AddToQueue, RemoveFromQueue, StartCleanup, StartStatus
  <2>3. QED
    BY <1>0, <2>1, <2>2, DebtKept DEF Owing
<1>2. ASSUME NEW t \in Request, Serve(t)  PROVE BroadcastCurrent'
  <2>1. CASE NotifyQueuesUpdate(t)
    BY <1>0, <2>1, AnnouncedIsCurrent DEF NotifyQueuesUpdate
  <2>2. CASE Rpush(t) \/ Lrem(t)
    <3>1. Goto(t, "notify") /\ UNCHANGED <<published, unannounced>>
      BY <2>2 DEF Rpush, Lrem
    <3>2. QED
      BY <1>0, <3>1, AfterGoto, OthersUntouched, DebtKept DEF Owing
  <2>3. CASE Probe(t) \/ CleanupSrem(t) \/ Look(t) \/ Rank(t)
    <3>1. /\ task[t].at \notin Owing /\ UNCHANGED <<line, published, unannounced>>
          /\ \E at : Goto(t, at) \/ Advance(t, task[t].port, at)
      BY <2>3 DEF Probe, CleanupSrem, Srem, Look, Rank, Owing
    <3>2. QED
      BY <1>0, <3>1, OthersUntouched, DebtKept
  <2>4. QED
    BY <1>2, <2>1, <2>2, <2>3 DEF Serve
<1>3. ASSUME NEW t \in Tick, Work(t) \/ StartTick(t)  PROVE BroadcastCurrent'
  <2>1. CASE TickNotify(t)
    BY <1>0, <2>1, AnnouncedIsCurrent DEF TickNotify
  <2>2. CASE AdmissionFails(t)
    BY <2>2 DEF AdmissionFails, BroadcastCurrent
  <2>3. CASE TickSrem(t) \/ Admit(t)
    <3>1. /\ \E at \in {"admit", "notify"} : Goto(t, at)
          /\ UNCHANGED <<published, unannounced>>
      BY <2>3 DEF TickSrem, Admit
    <3>2. QED
      BY <1>0, <3>1, AfterGoto, OthersUntouched, DebtKept DEF Owing
  <2>4. CASE Lpop(t)
    <3>1. /\ task' = [task EXCEPT ![t].at = "unset", ![t].who = Head(line[task[t].port])]
          /\ UNCHANGED <<published, unannounced>>
      BY <2>4 DEF Lpop
    <3>2. \A u \in Task \ {t} : task'[u] = task[u]
      BY <3>1 DEF TypeOK
    <3>3. task'[t] = [task[t] EXCEPT !.at = "unset", !.who = Head(line[task[t].port])]
      BY <1>0, <3>1 DEF TypeOK
    <3>4. task'[t].at = "unset"
      BY <1>0, <3>3, TaskFields
    <3>5. QED
      BY <1>0, <3>1, <3>2, <3>4, DebtKept DEF Owing
  <2>5. CASE Peek(t) \/ Full(t) \/ LpopNull(t) \/ StartTick(t)
    <3>1. /\ task[t].at \notin Owing /\ UNCHANGED <<line, published, unannounced>>
          /\ \/ Goto(t, "slots") \/ Finish(t) \/ Advance(t, task[t].port, "peek")
             \/ Begin(t, "tick", "peek", Nobody, Earliest(Later(0)))
      BY <1>0, <2>5 DEF Peek, Full, LpopNull, StartTick, Owing
    <3>2. QED
      BY <1>0, <3>1, OthersUntouched, DebtKept
  <2>6. QED
    BY <1>3, <2>1, <2>2, <2>3, <2>4, <2>5 DEF Work
<1>4. CASE Restart
  BY <1>4 DEF Restart, BroadcastCurrent
<1>5. CASE UNCHANGED vars
  BY <1>5 DEF vars, BroadcastCurrent, Cut
<1>6. QED
  BY <1>1, <1>2, <1>3, <1>4, <1>5 DEF Next

(***************************************************************************)
(* The last QueuesUpdate shows the lists as they are, unless somebody who  *)
(* changed one is still to announce it or failed before it could, for any  *)
(* number of handlers and ticks at once.                                   *)
(***************************************************************************)
THEOREM BroadcastIsCurrent == Spec => []BroadcastCurrent
<1>1. Init => BroadcastCurrent
  BY PortAssumption DEF Init, BroadcastCurrent
<1>2. QED
  BY <1>1, TypeCorrect, NextKeepsBroadcast, PTL DEF Spec

-----------------------------------------------------------------------------
(***************************************************************************)
(* One place.  For a player c that asks one thing at a time: its place is  *)
(* unique; a place that c does not own is about to be cleared; while its   *)
(* RPUSH is due it is in the set, off the list, and no tick is about to    *)
(* take it out; a tick that is about to do so is the only one, and c is    *)
(* still in the set or a request of c stands behind that tick.             *)
(***************************************************************************)
Unlisting(c, s) == \E i \in 1 .. Len(wire) : AwaitsAt(i, "unlist", c, s)

Single(c, s) ==
  \A i, j \in 1 .. Len(line[s]) : line[s][i] = c /\ line[s][j] = c => i = j

Owned(c, s) == Listed(c, s) => c \in members[s] \/ Unlisting(c, s)

NobodyUnsets(c, s) == \A j \in 1 .. Len(wire) : ~ AwaitsAt(j, "unset", c, s)

Joining(c, s) ==
  \A i \in 1 .. Len(wire) : AwaitsAt(i, "push", c, s) =>
    c \in members[s] /\ ~ Listed(c, s) /\ NobodyUnsets(c, s)

Behind(i, c, s) == \E j \in i + 1 .. Len(wire) : AwaitsAt(j, "notify", c, s)

Popped(c, s) ==
  \A i \in 1 .. Len(wire) : AwaitsAt(i, "unset", c, s) =>
    /\ ~ Listed(c, s)
    /\ \A j \in 1 .. Len(wire) : AwaitsAt(j, "unset", c, s) => i = j
    /\ c \in members[s] \/ Unlisting(c, s) \/ Behind(i, c, s)

OnePlace(c, s) == Single(c, s) /\ Owned(c, s) /\ Joining(c, s) /\ Popped(c, s)

\* who does what
Roles ==
  \A t \in Task : /\ task[t].at \in {"push", "unlist"} => t \in Request
                  /\ task[t].at = "unset" => t \in Tick

OneRequest ==
  \A c \in Serial : \A t, u \in Request : task[t].who = c /\ task[u].who = c => t = u

SerialInv ==
  /\ Roles /\ OneRequest
  /\ \A s \in Port : \A c \in Serial : <<s, c>> \in stranded \/ OnePlace(c, s)

\* what awaited at a place does so one place further to the front, and conversely
LEMMA AwaitsBefore ==
  ASSUME TypeOK, TypeOK', WireInv, NEW t \in Task, NEW k, Resumes(t, k),
         NEW at, NEW c, NEW s, NEW i \in 1 .. Len(wire'), AwaitsAt(i, at, c, s)',
         ~ (task'[t].at = at /\ Queueing(t, c, s)')
  PROVE  /\ i <= Len(wire) - k /\ i + k \in 1 .. Len(wire)
         /\ AwaitsAt(i + k, at, c, s) /\ wire[i + k] # t
<1>1. Len(wire) \in Nat /\ Len(wire') \in Nat /\ k \in {0, 1}
  BY WireLength, LenProperties DEF TypeOK, Resumes
<1>2. i <= Len(wire) - k
  <2>1. ASSUME i > Len(wire) - k  PROVE FALSE
    <3>1. wire'[i] = t
      BY <2>1 DEF Resumes
    <3>2. QED
      BY <3>1 DEF AwaitsAt, Queueing
  <2>2. QED
    BY <1>1, <2>1
<1>3. QED
  BY <1>2, OthersStay DEF AwaitsAt, Queueing

LEMMA AwaitsAfter ==
  ASSUME TypeOK, TypeOK', WireInv, NEW t \in Task, NEW k, Resumes(t, k),
         NEW at, NEW c, NEW s, NEW j \in k + 1 .. Len(wire), AwaitsAt(j, at, c, s)
  PROVE  j - k \in 1 .. Len(wire') /\ AwaitsAt(j - k, at, c, s)'
<1>1. Len(wire) \in Nat /\ Len(wire') \in Nat /\ k \in {0, 1}
  BY WireLength, LenProperties DEF TypeOK, Resumes
<1>2. j - k \in 1 .. Len(wire') /\ j - k <= Len(wire) - k
  <2>1. Len(wire') >= Len(wire) - k
    BY <1>1 DEF Resumes
  <2>2. QED
    BY <1>1, <2>1
<1>3. task'[wire'[j - k]] = task[wire[j]]
  <2>1. (j - k) + k = j
    BY <1>1
  <2>2. QED
    BY <1>2, <2>1, OthersStay
<1>4. wire'[j - k] = wire[j]
  <2>1. (j - k) + k = j
    BY <1>1
  <2>2. QED
    BY <1>2, <2>1, OthersStay
<1>5. QED
  BY <1>2, <1>3, <1>4 DEF AwaitsAt, Queueing

\* an LREM that is due stays due, but for the one that is resumed
LEMMA UnlistingKept ==
  ASSUME TypeOK, TypeOK', WireInv, NEW t \in Task, NEW k, Resumes(t, k), NEW c, NEW s,
         Unlisting(c, s), ~ (k = 1 /\ task[t].at = "unlist" /\ Queueing(t, c, s))
  PROVE  Unlisting(c, s)'
<1>1. Len(wire) \in Nat /\ k \in {0, 1}
  BY WireLength DEF Resumes
<1>2. PICK j \in 1 .. Len(wire) : AwaitsAt(j, "unlist", c, s)
  BY DEF Unlisting
<1>3. j > k
  <2>1. ASSUME j <= k  PROVE FALSE
    <3>1. k = 1 /\ j = 1 /\ wire[1] = t
      BY <1>1, <2>1 DEF Resumes
    <3>2. QED
      BY <1>2, <3>1 DEF AwaitsAt, Queueing
  <2>2. QED
    BY <1>1, <2>1
<1>4. j \in k + 1 .. Len(wire)
  BY <1>1, <1>3
<1>5. QED
  BY <1>2, <1>4, AwaitsAfter DEF Unlisting

LEMMA BehindKept ==
  ASSUME TypeOK, TypeOK', WireInv, NEW t \in Task, NEW k, Resumes(t, k), NEW c, NEW s,
         NEW i \in 1 .. Len(wire'), Behind(i + k, c, s)
  PROVE  Behind(i, c, s)'
<1>1. Len(wire) \in Nat /\ Len(wire') \in Nat /\ k \in {0, 1}
  BY WireLength, LenProperties DEF TypeOK, Resumes
<1>2. PICK j \in (i + k) + 1 .. Len(wire) : AwaitsAt(j, "notify", c, s)
  BY DEF Behind
<1>3. j \in k + 1 .. Len(wire) /\ j - k > i
  BY <1>1
<1>4. j - k \in 1 .. Len(wire') /\ AwaitsAt(j - k, "notify", c, s)'
  BY <1>2, <1>3, AwaitsAfter
<1>5. j - k \in i + 1 .. Len(wire')
  BY <1>1, <1>3, <1>4
<1>6. QED
  BY <1>4, <1>5 DEF Behind

\* a step that does nothing new at the place of c
LEMMA OnePlaceKept ==
  ASSUME TypeOK, TypeOK', WireInv, NEW t \in Task, NEW k, Resumes(t, k), NEW c, NEW s,
         OnePlace(c, s),
         c \in members[s] => c \in members'[s],
         Listed(c, s)' => Listed(c, s), Single(c, s)',
         ~ (k = 1 /\ task[t].at = "unlist" /\ Queueing(t, c, s)),
         ~ (task'[t].at \in {"push", "unset"} /\ Queueing(t, c, s)')
  PROVE  OnePlace(c, s)'
<1>1. Unlisting(c, s) => Unlisting(c, s)'
  BY UnlistingKept
<1>2. Owned(c, s)'
  BY <1>1 DEF OnePlace, Owned
<1>3. ASSUME NEW i \in 1 .. Len(wire'), AwaitsAt(i, "unset", c, s)'
      PROVE  i + k \in 1 .. Len(wire) /\ AwaitsAt(i + k, "unset", c, s)
  BY <1>3, AwaitsBefore
<1>4. Joining(c, s)'
  <2>1. SUFFICES ASSUME NEW i \in 1 .. Len(wire'), AwaitsAt(i, "push", c, s)'
        PROVE  c \in members'[s] /\ ~ Listed(c, s)' /\ NobodyUnsets(c, s)'
    BY DEF Joining
  <2>2. i + k \in 1 .. Len(wire) /\ AwaitsAt(i + k, "push", c, s)
    BY <2>1, AwaitsBefore
  <2>3. c \in members[s] /\ ~ Listed(c, s) /\ NobodyUnsets(c, s)
    BY <2>2 DEF OnePlace, Joining
  <2>4. NobodyUnsets(c, s)'
    BY <1>3, <2>3 DEF NobodyUnsets
  <2>5. QED
    BY <2>3, <2>4
<1>5. Popped(c, s)'
  <2>1. SUFFICES ASSUME NEW i \in 1 .. Len(wire'), AwaitsAt(i, "unset", c, s)'
        PROVE  /\ ~ Listed(c, s)'
               /\ \A j \in 1 .. Len(wire') : AwaitsAt(j, "unset", c, s)' => i = j
               /\ c \in members'[s] \/ Unlisting(c, s)' \/ Behind(i, c, s)'
    BY DEF Popped
  <2>2. i + k \in 1 .. Len(wire) /\ AwaitsAt(i + k, "unset", c, s)
    BY <2>1, <1>3
  <2>3. /\ ~ Listed(c, s)
        /\ \A j \in 1 .. Len(wire) : AwaitsAt(j, "unset", c, s) => i + k = j
        /\ c \in members[s] \/ Unlisting(c, s) \/ Behind(i + k, c, s)
    BY <2>2 DEF OnePlace, Popped
  <2>4. ASSUME NEW j \in 1 .. Len(wire'), AwaitsAt(j, "unset", c, s)'
        PROVE  i = j
    <3>1. i + k = j + k
      BY <1>3, <2>3, <2>4
    <3>2. k \in {0, 1}
      BY DEF Resumes
    <3>3. QED
      BY <3>1, <3>2
  <2>5. QED
    BY <1>1, <2>3, <2>4, BehindKept
<1>6. QED
  BY <1>2, <1>4, <1>5 DEF OnePlace

\* the list of s loses some places and keeps the order of the others
LEMMA FewerPlaces ==
  ASSUME NEW c, NEW s, NEW g,
         \A i \in 1 .. Len(line'[s]) : g[i] \in 1 .. Len(line[s]) /\ line'[s][i] = line[s][g[i]],
         \A i, j \in 1 .. Len(line'[s]) : g[i] = g[j] => i = j,
         Single(c, s)
  PROVE  (Listed(c, s)' => Listed(c, s)) /\ Single(c, s)'
<1>1. ASSUME Listed(c, s)'  PROVE Listed(c, s)
  <2>1. PICK i \in 1 .. Len(line'[s]) : line'[s][i] = c
    BY <1>1 DEF Listed
  <2>2. g[i] \in 1 .. Len(line[s]) /\ line[s][g[i]] = c
    BY <2>1
  <2>3. QED
    BY <2>2 DEF Listed
<1>2. ASSUME NEW i \in 1 .. Len(line'[s]), NEW j \in 1 .. Len(line'[s]),
             line'[s][i] = c, line'[s][j] = c
      PROVE  i = j
  <2>1. /\ g[i] \in 1 .. Len(line[s]) /\ line[s][g[i]] = c
        /\ g[j] \in 1 .. Len(line[s]) /\ line[s][g[j]] = c
    BY <1>2
  <2>2. g[i] = g[j]
    BY <2>1 DEF Single
  <2>3. QED
    BY <2>2
<1>3. Single(c, s)'
  BY <1>2 DEF Single
<1>4. QED
  BY <1>1, <1>3

\* handlers of the same request
LEMMA OnlyRequest ==
  ASSUME TypeOK, WireInv, Roles, OneRequest, NEW c \in Serial, NEW s, NEW t \in Request,
         task[t].who = c, NEW i \in 1 .. Len(wire), NEW at \in {"push", "unlist", "notify"},
         AwaitsAt(i, at, c, s)
  PROVE  wire[i] = t
<1>1. wire[i] \in Request
  BY WireLength DEF AwaitsAt, WireInv, Roles
<1>2. QED
  BY <1>1 DEF AwaitsAt, Queueing, OneRequest

LEMMA NoRequest ==
  ASSUME TypeOK, WireInv, Roles, NEW c, NEW s, ~ InFlight(c),
         NEW i \in 1 .. Len(wire), NEW at \in {"push", "unlist", "notify"}
  PROVE  ~ AwaitsAt(i, at, c, s)
<1>1. SUFFICES ASSUME AwaitsAt(i, at, c, s)  PROVE FALSE
  OBVIOUS
<1>2. wire[i] \in Request
  BY <1>1, WireLength DEF AwaitsAt, WireInv, Roles
<1>3. QED
  BY <1>1, <1>2 DEF AwaitsAt, Queueing, InFlight

LEMMA AwaitedLast ==
  ASSUME TypeOK, NEW t \in Task, NEW at, NEW c, NEW s,
         Await(t), task'[t].at = at, Queueing(t, c, s)'
  PROVE  \E n \in 1 .. Len(wire') : AwaitsAt(n, at, c, s)'
<1>1. wire \in Seq(Task) /\ Len(wire) \in Nat
  BY WireLength DEF TypeOK
<1>2. Len(wire') = Len(wire) + 1 /\ wire'[Len(wire) + 1] = t
  BY <1>1, AppendProperties DEF Await
<1>3. PICK n \in Nat : n = Len(wire) + 1
  BY <1>1
<1>4. n \in 1 .. Len(wire') /\ AwaitsAt(n, at, c, s)'
  BY <1>2, <1>3 DEF AwaitsAt, Queueing
<1>5. QED
  BY <1>4

\* SADD by a player with no other request
LEMMA AddKeepsPlace ==
  ASSUME TypeOK, TypeOK', WireInv, Roles, NEW t \in Task, Resumes(t, 0), NEW c, NEW s,
         OnePlace(c, s), ~ InFlight(c), c \notin members[s],
         c \in members'[s], line' = line, task'[t].at = "push"
  PROVE  OnePlace(c, s)'
<1>1. ~ Unlisting(c, s)
  BY NoRequest DEF Unlisting
<1>2. ~ Listed(c, s)'
  BY <1>1 DEF OnePlace, Owned, Listed
<1>3. \A i \in 1 .. Len(wire) : ~ Behind(i, c, s)
  <2>1. Len(wire) \in Nat
    BY WireLength
  <2>2. QED
    BY <2>1, NoRequest DEF Behind
<1>4. NobodyUnsets(c, s)
  BY <1>1, <1>3 DEF OnePlace, Popped, NobodyUnsets
<1>5. NobodyUnsets(c, s)'
  <2>1. SUFFICES ASSUME NEW i \in 1 .. Len(wire'), AwaitsAt(i, "unset", c, s)'  PROVE FALSE
    BY DEF NobodyUnsets
  <2>2. i + 0 \in 1 .. Len(wire) /\ AwaitsAt(i + 0, "unset", c, s)
    BY <2>1, AwaitsBefore
  <2>3. QED
    BY <1>4, <2>2 DEF NobodyUnsets
<1>6. QED
  BY <1>2, <1>5 DEF OnePlace, Single, Owned, Joining, Popped, NobodyUnsets

\* RPUSH
LEMMA PushKeepsPlace ==
  ASSUME TypeOK, TypeOK', WireInv, Roles, OneRequest, NEW t \in Request, Resumes(t, 1),
         NEW c \in Serial, NEW s \in Port, OnePlace(c, s),
         task[t].at = "push", Queueing(t, c, s), task'[t].at = "notify",
         line'[s] = Append(line[s], c), members' = members
  PROVE  OnePlace(c, s)'
<1>0. t \in Task /\ wire[1] = t /\ 1 \in 1 .. Len(wire) /\ c \in Player
  <2>1. Len(wire) \in Nat
    BY WireLength
  <2>2. QED
    BY <2>1, PlayerAssumption DEF Task, Resumes
<1>1. AwaitsAt(1, "push", c, s)
  BY <1>0 DEF AwaitsAt, Queueing
<1>2. c \in members'[s] /\ ~ Listed(c, s) /\ NobodyUnsets(c, s)
  BY <1>0, <1>1 DEF OnePlace, Joining
<1>3. Single(c, s)'
  <2>1. line[s] \in Seq(Player) /\ Len(line[s]) \in Nat
    BY LenProperties DEF TypeOK
  <2>2. /\ Len(line'[s]) = Len(line[s]) + 1
        /\ \A i \in 1 .. Len(line[s]) : line'[s][i] = line[s][i]
    BY <1>0, <2>1, AppendProperties
  <2>3. \A i \in 1 .. Len(line'[s]) : line'[s][i] = c => i = Len(line[s]) + 1
    BY <1>2, <2>1, <2>2 DEF Listed
  <2>4. QED
    BY <2>3 DEF Single
<1>4. NobodyUnsets(c, s)'
  <2>1. SUFFICES ASSUME NEW i \in 1 .. Len(wire'), AwaitsAt(i, "unset", c, s)'  PROVE FALSE
    BY DEF NobodyUnsets
  <2>2. i + 1 \in 1 .. Len(wire) /\ AwaitsAt(i + 1, "unset", c, s)
    BY <1>0, <2>1, AwaitsBefore
  <2>3. QED
    BY <1>2, <2>2 DEF NobodyUnsets
<1>5. \A i \in 1 .. Len(wire') : ~ AwaitsAt(i, "push", c, s)'
  <2>1. SUFFICES ASSUME NEW i \in 1 .. Len(wire'), AwaitsAt(i, "push", c, s)'  PROVE FALSE
    OBVIOUS
  <2>2. i + 1 \in 1 .. Len(wire) /\ AwaitsAt(i + 1, "push", c, s) /\ wire[i + 1] # t
    BY <1>0, <2>1, AwaitsBefore
  <2>3. QED
    BY <2>2, OnlyRequest DEF Queueing
<1>6. QED
  BY <1>2, <1>3, <1>4, <1>5 DEF OnePlace, Owned, Joining, Popped, NobodyUnsets

\* SREM by a request of c, whose LREM is due from then on
LEMMA SremKeepsPlace ==
  ASSUME TypeOK, TypeOK', WireInv, NEW t \in Task, Resumes(t, 0), Await(t),
         NEW c, NEW s, OnePlace(c, s), task'[t].at = "unlist", Queueing(t, c, s)',
         \A i \in 1 .. Len(wire) : ~ AwaitsAt(i, "push", c, s),
         line' = line
  PROVE  OnePlace(c, s)'
<1>1. Unlisting(c, s)'
  BY AwaitedLast DEF Unlisting
<1>2. \A i \in 1 .. Len(wire') : ~ AwaitsAt(i, "push", c, s)'
  <2>1. SUFFICES ASSUME NEW i \in 1 .. Len(wire'), AwaitsAt(i, "push", c, s)'  PROVE FALSE
    OBVIOUS
  <2>2. i + 0 \in 1 .. Len(wire) /\ AwaitsAt(i + 0, "push", c, s)
    BY <2>1, AwaitsBefore
  <2>3. QED
    BY <2>2
<1>3. ASSUME NEW i \in 1 .. Len(wire'), AwaitsAt(i, "unset", c, s)'
      PROVE  i \in 1 .. Len(wire) /\ AwaitsAt(i, "unset", c, s)
  <2>1. i + 0 \in 1 .. Len(wire) /\ AwaitsAt(i + 0, "unset", c, s)
    BY <1>3, AwaitsBefore
  <2>2. QED
    BY <2>1
<1>4. Popped(c, s)'
  BY <1>1, <1>3 DEF OnePlace, Popped, Listed
<1>5. QED
  BY <1>1, <1>2, <1>4 DEF OnePlace, Single, Owned, Joining

\* LREM
LEMMA LremKeepsPlace ==
  ASSUME TypeOK, TypeOK', WireInv, Roles, OneRequest, NEW t \in Request, Resumes(t, 1),
         Reissue(t), NEW c \in Serial, NEW s, OnePlace(c, s),
         task[t].at = "unlist", Queueing(t, c, s),
         task'[t].at = "notify", Queueing(t, c, s)', ~ Listed(c, s)'
  PROVE  OnePlace(c, s)'
<1>0. t \in Task /\ Len(wire) \in Nat /\ Len(wire') = Len(wire) /\ Len(wire) > 0
  BY WireLength, HeadTailProperties, AppendProperties DEF Task, Reissue, FirstOnWire, Resumes, TypeOK
<1>1. PICK n \in Nat : n = Len(wire') /\ AwaitsAt(n, "notify", c, s)'
  <2>1. PICK n \in Nat : n = Len(wire')
    BY <1>0
  <2>2. wire'[n] = t
    BY <1>0, <2>1 DEF Resumes
  <2>3. QED
    BY <2>1, <2>2 DEF AwaitsAt, Queueing
<1>2. \A i \in 1 .. Len(wire') : ~ AwaitsAt(i, "push", c, s)'
  <2>1. SUFFICES ASSUME NEW i \in 1 .. Len(wire'), AwaitsAt(i, "push", c, s)'  PROVE FALSE
    OBVIOUS
  <2>2. i + 1 \in 1 .. Len(wire) /\ AwaitsAt(i + 1, "push", c, s) /\ wire[i + 1] # t
    BY <1>0, <2>1, AwaitsBefore
  <2>3. QED
    BY <2>2, OnlyRequest DEF Queueing
<1>3. Popped(c, s)'
  <2>1. ASSUME NEW i \in 1 .. Len(wire'), AwaitsAt(i, "unset", c, s)'
        PROVE  i < Len(wire') /\ i + 1 \in 1 .. Len(wire) /\ AwaitsAt(i + 1, "unset", c, s)
    <3>1. i <= Len(wire) - 1 /\ i + 1 \in 1 .. Len(wire) /\ AwaitsAt(i + 1, "unset", c, s)
      BY <1>0, <2>1, AwaitsBefore
    <3>2. QED
      BY <1>0, <3>1
  <2>2. ASSUME NEW i \in 1 .. Len(wire'), AwaitsAt(i, "unset", c, s)',
               NEW j \in 1 .. Len(wire'), AwaitsAt(j, "unset", c, s)'
        PROVE  i = j
    <3>1. i + 1 = j + 1
      BY <2>1, <2>2 DEF OnePlace, Popped
    <3>2. QED
      BY <3>1
  <2>3. ASSUME NEW i \in 1 .. Len(wire'), AwaitsAt(i, "unset", c, s)'
        PROVE  Behind(i, c, s)'
    <3>1. n \in i + 1 .. Len(wire')
      BY <1>0, <1>1, <2>1, <2>3
    <3>2. QED
      BY <1>1, <3>1 DEF Behind
  <2>4. QED
    BY <2>2, <2>3 DEF Popped
<1>4. Single(c, s)'
  BY DEF Single, Listed
<1>5. QED
  BY <1>2, <1>3, <1>4 DEF OnePlace, Owned, Joining

\* LPOP
LEMMA PopKeepsPlace ==
  ASSUME TypeOK, TypeOK', WireInv, NEW t \in Task, Resumes(t, 0),
         NEW c, NEW s, OnePlace(c, s), Listed(c, s), ~ Listed(c, s)',
         task'[t].at = "unset", members' = members
  PROVE  OnePlace(c, s)'
<1>1. c \in members'[s] \/ Unlisting(c, s)'
  BY UnlistingKept DEF OnePlace, Owned
<1>2. \A i \in 1 .. Len(wire') : ~ AwaitsAt(i, "push", c, s)'
  <2>1. SUFFICES ASSUME NEW i \in 1 .. Len(wire'), AwaitsAt(i, "push", c, s)'  PROVE FALSE
    OBVIOUS
  <2>2. i + 0 \in 1 .. Len(wire) /\ AwaitsAt(i + 0, "push", c, s)
    BY <2>1, AwaitsBefore
  <2>3. QED
    BY <2>2 DEF OnePlace, Joining
<1>3. ASSUME NEW i \in 1 .. Len(wire'), AwaitsAt(i, "unset", c, s)'
      PROVE  wire'[i] = t
  <2>1. SUFFICES ASSUME wire'[i] # t  PROVE FALSE
    OBVIOUS
  <2>2. Len(wire) \in Nat /\ i <= Len(wire)
    BY <2>1, WireLength DEF Resumes
  <2>3. /\ i + 0 \in 1 .. Len(wire) /\ wire'[i] = wire[i + 0]
        /\ task'[wire'[i]] = task[wire[i + 0]]
    BY <2>2, OthersStay
  <2>4. AwaitsAt(i + 0, "unset", c, s)
    BY <1>3, <2>3 DEF AwaitsAt, Queueing
  <2>5. QED
    BY <2>3, <2>4 DEF OnePlace, Popped
<1>4. \A i, j \in 1 .. Len(wire') : wire'[i] = t /\ wire'[j] = t => i = j
  BY WireInvKept DEF WireInv
<1>5. Popped(c, s)'
  BY <1>1, <1>3, <1>4 DEF Popped
<1>6. Single(c, s)'
  BY DEF Single, Listed
<1>7. QED
  BY <1>2, <1>5, <1>6 DEF OnePlace, Owned, Joining

\* SREM by the tick that has popped c
LEMMA UnsetKeepsPlace ==
  ASSUME TypeOK, TypeOK', WireInv, NEW t \in Task, Resumes(t, 1),
         NEW c, NEW s, OnePlace(c, s), task[t].at = "unset", Queueing(t, c, s),
         task'[t].at = "admit", line' = line
  PROVE  OnePlace(c, s)'
<1>1. 1 \in 1 .. Len(wire) /\ wire[1] = t /\ Len(wire) \in Nat
  BY WireLength DEF Resumes
<1>2. AwaitsAt(1, "unset", c, s)
  BY <1>1 DEF AwaitsAt, Queueing
<1>3. ~ Listed(c, s)'
  BY <1>1, <1>2 DEF OnePlace, Popped, Listed
<1>4. NobodyUnsets(c, s)'
  <2>1. SUFFICES ASSUME NEW i \in 1 .. Len(wire'), AwaitsAt(i, "unset", c, s)'  PROVE FALSE
    BY DEF NobodyUnsets
  <2>2. i + 1 \in 1 .. Len(wire) /\ AwaitsAt(i + 1, "unset", c, s)
    BY <2>1, AwaitsBefore
  <2>3. 1 = i + 1
    BY <1>1, <1>2, <2>2 DEF OnePlace, Popped
  <2>4. QED
    BY <2>3
<1>5. \A i \in 1 .. Len(wire') : ~ AwaitsAt(i, "push", c, s)'
  <2>1. SUFFICES ASSUME NEW i \in 1 .. Len(wire'), AwaitsAt(i, "push", c, s)'  PROVE FALSE
    OBVIOUS
  <2>2. i + 1 \in 1 .. Len(wire) /\ AwaitsAt(i + 1, "push", c, s)
    BY <2>1, AwaitsBefore
  <2>3. QED
    BY <1>1, <1>2, <2>2 DEF OnePlace, Joining, NobodyUnsets
<1>6. QED
  BY <1>3, <1>4, <1>5 DEF OnePlace, Single, Listed, Owned, Joining, Popped, NobodyUnsets

PlacesHold == \A s \in Port : \A c \in Serial : <<s, c>> \in stranded \/ OnePlace(c, s)

LEMMA RolesKept ==
  ASSUME Roles, NEW t \in Task, \A u \in Task \ {t} : task'[u] = task[u],
         task'[t].at \in {"push", "unlist"} => t \in Request,
         task'[t].at = "unset" => t \in Tick
  PROVE  Roles'
BY DEF Roles

LEMMA WhoKept ==
  ASSUME TypeOK, NEW t \in Task, NEW at, NEW s, Goto(t, at) \/ Finish(t) \/ Advance(t, s, at)
  PROVE  task'[t].who \in {task[t].who, Nobody}
<1>1. CASE Goto(t, at)
  BY <1>1, AfterGoto
<1>2. CASE Finish(t)
  BY <1>2, AfterFinish DEF Idle
<1>3. CASE Advance(t, s, at) /\ Later(s) # {}
  <2>1. task'[t] = [task[t] EXCEPT !.port = Earliest(Later(s)), !.at = at]
    BY <1>3 DEF Advance, TypeOK
  <2>2. QED
    BY <2>1, TaskFields
<1>4. QED
  BY <1>1, <1>2, <1>3 DEF Advance

LEMMA OneRequestKept ==
  ASSUME OneRequest, NEW t \in Task, \A u \in Task \ {t} : task'[u] = task[u],
         t \in Request => task'[t].who \in {task[t].who, Nobody}
  PROVE  OneRequest'
<1>1. ASSUME NEW c \in Serial, NEW u \in Request, task'[u].who = c
      PROVE  task[u].who = c
  <2>1. c # Nobody /\ u \in Task
    BY PlayerAssumption DEF Task
  <2>2. QED
    BY <1>1, <2>1
<1>2. QED
  BY <1>1 DEF OneRequest

LEMMA BeginKeepsOneRequest ==
  ASSUME OneRequest, NEW t \in Request, NEW op, NEW c, Accepts(op, t, c),
         \A u \in Task \ {t} : task'[u] = task[u], task'[t].who = c
  PROVE  OneRequest'
<1>1. ASSUME NEW d \in Serial, NEW u \in Request, task'[u].who = d, u # t
      PROVE  task[u].who = d
  BY <1>1 DEF Task
<1>2. c \in Serial => \A u \in Request : task[u].who # c
  BY DEF Accepts, InFlight
<1>3. QED
  BY <1>1, <1>2 DEF OneRequest

LEMMA SameLine ==
  ASSUME NEW s, line'[s] = line[s], NEW c
  PROVE  /\ Listed(c, s)' <=> Listed(c, s)
         /\ Single(c, s)' <=> Single(c, s)
BY DEF Listed, Single

\* a step that touches neither a set nor a list
LEMMA PlainKeepsPlaces ==
  ASSUME TypeOK, TypeOK', WireInv, PlacesHold, NEW t \in Task, NEW k, Resumes(t, k),
         UNCHANGED <<members, line, stranded>>,
         task[t].at # "unlist", task'[t].at \notin {"push", "unset"}
  PROVE  PlacesHold'
BY OnePlaceKept, SameLine DEF PlacesHold, OnePlace

LEMMA AskKeepsPlaces ==
  ASSUME TypeOK, TypeOK', WireInv, SerialInv, NEW t \in Request, NEW d \in Player, Ask(t, d)
  PROVE  SerialInv'
<1>0. /\ t \in Task /\ Roles /\ OneRequest /\ PlacesHold
      /\ Idle.at = "start" /\ Idle.who = Nobody
  BY DEF Task, SerialInv, PlacesHold, Idle
<1> USE <1>0
<1>1. ASSUME NEW p \in Port, AddToQueue(t, d, p)
      PROVE  SerialInv'
  <2>1. /\ task[t] = Idle /\ Begin(t, "add", "push", d, p) /\ Await(t) /\ Accepts("add", t, d)
        /\ members' = [members EXCEPT ![p] = @ \cup {d}] /\ d \notin members[p]
        /\ line' = line /\ stranded' = stranded
    BY <1>1 DEF AddToQueue, Accepts, ghosts
  <2>2. /\ \A u \in Task \ {t} : task'[u] = task[u]
        /\ task'[t].at = "push" /\ task'[t].who = d /\ task'[t].port = p
    BY <2>1, OthersUntouched, AfterBegin
  <2>3. Resumes(t, 0)
    BY <2>1, <2>2, OffWire, WireMoves
  <2>4. Roles' /\ OneRequest'
    BY <2>1, <2>2, RolesKept, BeginKeepsOneRequest
  <2>5. ASSUME NEW s \in Port, NEW c \in Serial, OnePlace(c, s)
        PROVE  OnePlace(c, s)'
    <3>1. CASE c = d /\ s = p
      <4>1. ~ InFlight(c) /\ c \notin members[s] /\ c \in members'[s]
        BY <2>1, <3>1 DEF Accepts, TypeOK
      <4>2. QED
        BY <2>1, <2>2, <2>3, <2>5, <4>1, AddKeepsPlace
    <3>2. CASE ~ (c = d /\ s = p)
      <4>1. c \in members[s] => c \in members'[s]
        BY <2>1 DEF TypeOK
      <4>2. ~ Queueing(t, c, s)'
        BY <2>2, <3>2 DEF Queueing
      <4>3. Single(c, s)' /\ (Listed(c, s)' => Listed(c, s))
        BY <2>1, <2>5, SameLine DEF OnePlace
      <4>4. QED
        BY <2>3, <2>5, <4>1, <4>2, <4>3, OnePlaceKept
    <3>3. QED
      BY <3>1, <3>2
  <2>6. QED
    BY <2>1, <2>4, <2>5 DEF SerialInv
<1>2. ASSUME NEW p \in Port, RemoveFromQueue(t, d, p)
      PROVE  SerialInv'
  <2>1. /\ task[t] = Idle /\ Begin(t, "remove", "unlist", d, p) /\ Await(t)
        /\ Accepts("remove", t, d)
        /\ members' = [members EXCEPT ![p] = @ \ {d}]
        /\ line' = line /\ stranded' = stranded
    BY <1>2 DEF RemoveFromQueue, Accepts, Srem, ghosts
  <2>2. /\ \A u \in Task \ {t} : task'[u] = task[u]
        /\ task'[t].at = "unlist" /\ task'[t].who = d /\ task'[t].port = p
    BY <2>1, OthersUntouched, AfterBegin
  <2>3. Resumes(t, 0)
    BY <2>1, <2>2, OffWire, WireMoves
  <2>4. Roles' /\ OneRequest'
    BY <2>1, <2>2, RolesKept, BeginKeepsOneRequest
  <2>5. ASSUME NEW s \in Port, NEW c \in Serial, OnePlace(c, s)
        PROVE  OnePlace(c, s)'
    <3>1. CASE c = d /\ s = p
      <4>1. Queueing(t, c, s)' /\ ~ InFlight(c)
        BY <2>1, <2>2, <3>1 DEF Queueing, Accepts
      <4>2. \A i \in 1 .. Len(wire) : ~ AwaitsAt(i, "push", c, s)
        BY <4>1, NoRequest
      <4>3. QED
        BY <2>1, <2>2, <2>3, <2>5, <4>1, <4>2, SremKeepsPlace
    <3>2. CASE ~ (c = d /\ s = p)
      <4>1. c \in members[s] => c \in members'[s]
        BY <2>1, <3>2 DEF TypeOK
      <4>2. Single(c, s)' /\ (Listed(c, s)' => Listed(c, s))
        BY <2>1, <2>5, SameLine DEF OnePlace
      <4>3. QED
        BY <2>2, <2>3, <2>5, <4>1, <4>2, OnePlaceKept
    <3>3. QED
      BY <3>1, <3>2
  <2>6. QED
    BY <2>1, <2>4, <2>5 DEF SerialInv
<1>3. CASE StartCleanup(t, d) \/ StartStatus(t, d)
  <2>1. PICK op \in {"cleanup", "status"}, at \in {"probe", "look"} :
          /\ Accepts(op, t, d) /\ Begin(t, op, at, d, Earliest(Later(0)))
          /\ UNCHANGED <<members, line, stranded, wire>> /\ task[t] = Idle
    BY <1>3 DEF StartCleanup, StartStatus, Accepts, queues, ghosts
  <2>2. /\ \A u \in Task \ {t} : task'[u] = task[u]
        /\ task'[t].at \in {"probe", "look"} /\ task'[t].who = d
    BY <2>1, OthersUntouched, AfterBegin
  <2>3. Resumes(t, 0)
    BY <2>1, <2>2, OffWire, WireMoves
  <2>4. Roles' /\ OneRequest'
    BY <2>1, <2>2, RolesKept, BeginKeepsOneRequest
  <2>5. PlacesHold'
    BY <2>1, <2>2, <2>3, PlainKeepsPlaces
  <2>6. QED
    BY <2>4, <2>5 DEF SerialInv, PlacesHold
<1>4. QED
  BY <1>1, <1>2, <1>3 DEF Ask

LEMMA ServeKeepsPlaces ==
  ASSUME TypeOK, TypeOK', WireInv, SerialInv, NEW t \in Request, Serve(t)
  PROVE  SerialInv'
<1>0. t \in Task /\ Roles /\ OneRequest /\ PlacesHold
  BY DEF Task, SerialInv, PlacesHold
<1> USE <1>0
<1> DEFINE p == task[t].port
           d == task[t].who
<1>1. CASE Rpush(t)
  <2>1. /\ task[t].at = "push" /\ Goto(t, "notify") /\ Reissue(t)
        /\ line' = [line EXCEPT ![p] = Append(@, d)]
        /\ members' = members /\ stranded' = stranded
    BY <1>1 DEF Rpush, ghosts
  <2>2. /\ \A u \in Task \ {t} : task'[u] = task[u]
        /\ task'[t].at = "notify" /\ task'[t].who = d /\ task'[t].port = p
    BY <2>1, OthersUntouched, AfterGoto
  <2>3. Resumes(t, 1)
    BY <2>1, <2>2, WireMoves
  <2>4. Roles' /\ OneRequest'
    BY <2>1, <2>2, RolesKept, OneRequestKept
  <2>5. ASSUME NEW s \in Port, NEW c \in Serial, OnePlace(c, s)
        PROVE  OnePlace(c, s)'
    <3>1. CASE c = d /\ s = p
      <4>1. Queueing(t, c, s) /\ line'[s] = Append(line[s], c)
        BY <2>1, <3>1 DEF Queueing, TypeOK
      <4>2. QED
        BY <2>1, <2>2, <2>3, <2>5, <4>1, PushKeepsPlace
    <3>2. CASE ~ (c = d /\ s = p)
      <4>1. Single(c, s)' /\ (Listed(c, s)' => Listed(c, s))
        <5>1. CASE s # p
          <6>1. line'[s] = line[s]
            BY <2>1, <5>1 DEF TypeOK
          <6>2. QED
            BY <2>5, <6>1, SameLine DEF OnePlace
        <5>2. CASE s = p
          <6>1. line[s] \in Seq(Player) /\ Len(line[s]) \in Nat /\ d \in Player /\ c # d
            BY <2>1, <3>2, <5>2, LenProperties, TaskKind DEF TypeOK, Engaged, Where
          <6>2. line'[s] = Append(line[s], d)
            BY <2>1, <5>2 DEF TypeOK
          <6>3. /\ Len(line'[s]) = Len(line[s]) + 1
                /\ line'[s][Len(line[s]) + 1] = d
                /\ \A i \in 1 .. Len(line[s]) : line'[s][i] = line[s][i]
            BY <6>1, <6>2, AppendProperties
          <6>4. \A i \in 1 .. Len(line'[s]) : line'[s][i] = c =>
                  i \in 1 .. Len(line[s]) /\ line[s][i] = c
            BY <6>1, <6>3
          <6>5. QED
            BY <2>5, <6>4 DEF OnePlace, Single, Listed
        <5>3. QED
          BY <5>1, <5>2
      <4>2. QED
        BY <2>1, <2>2, <2>3, <2>5, <4>1, OnePlaceKept
    <3>3. QED
      BY <3>1, <3>2
  <2>6. QED
    BY <2>1, <2>4, <2>5 DEF SerialInv
<1>2. CASE Lrem(t)
  <2> DEFINE q == line[p]
  <2>1. /\ task[t].at = "unlist" /\ Goto(t, "notify") /\ Reissue(t)
        /\ members' = members /\ stranded' = stranded
    BY <1>2 DEF Lrem, ghosts
  <2>2. /\ \A u \in Task \ {t} : task'[u] = task[u]
        /\ task'[t].at = "notify" /\ task'[t].who = d /\ task'[t].port = p
    BY <2>1, OthersUntouched, AfterGoto
  <2>3. Resumes(t, 1)
    BY <2>1, <2>2, WireMoves
  <2>4. Roles' /\ OneRequest'
    BY <2>1, <2>2, RolesKept, OneRequestKept
  <2>5. p \in Port /\ q \in Seq(Player) /\ Len(q) \in Nat
    BY <2>1, TaskKind, LenProperties DEF TypeOK, Engaged, Where
  <2>6. PICK n \in 0 .. Len(q) : \E f \in InOrder(Kept(q, d), n) :
          line' = [line EXCEPT ![p] = [i \in 1 .. n |-> q[f[i]]]]
    BY <1>2 DEF Lrem
  <2>7. PICK f \in InOrder(Kept(q, d), n) :
          line' = [line EXCEPT ![p] = [i \in 1 .. n |-> q[f[i]]]]
    BY <2>6
  <2>8. /\ n \in Nat /\ line'[p] = [i \in 1 .. n |-> q[f[i]]] /\ Len(line'[p]) = n
        /\ \A s \in Port \ {p} : line'[s] = line[s]
    <3>1. n \in Nat
      BY <2>5
    <3>2. \A r : line' = [line EXCEPT ![p] = r] =>
                 line'[p] = r /\ \A s \in Port \ {p} : line'[s] = line[s]
      BY <2>5 DEF TypeOK
    <3>3. /\ line'[p] = [i \in 1 .. n |-> q[f[i]]]
          /\ \A s \in Port \ {p} : line'[s] = line[s]
      BY <2>7, <3>2
    <3>4. Len(line'[p]) = n
      BY <3>1, <3>3
    <3>5. QED
      BY <3>1, <3>3, <3>4
  <2>9. \A i \in 1 .. n : /\ f[i] \in 1 .. Len(q) /\ q[f[i]] # d /\ line'[p][i] = q[f[i]]
                          /\ \A j \in 1 .. n : f[i] = f[j] => i = j
    <3>1. ASSUME NEW i \in 1 .. n, NEW j \in 1 .. n, f[i] = f[j]  PROVE i = j
      <4>1. f[i] \in Nat /\ f[j] \in Nat
        BY <2>5, <2>7 DEF InOrder, Kept
      <4>2. ~ (i < j) /\ ~ (j < i)
        BY <3>1, <4>1, <2>7 DEF InOrder
      <4>3. QED
        BY <2>8, <4>2
    <3>2. \A i \in 1 .. n : f[i] \in Kept(q, d)
      BY <2>7 DEF InOrder
    <3>3. QED
      BY <2>8, <3>1, <3>2 DEF Kept
  <2>10. ASSUME NEW s \in Port, NEW c \in Serial, OnePlace(c, s)
        PROVE  OnePlace(c, s)'
    <3>1. CASE c = d /\ s = p
      <4>1. Queueing(t, c, s) /\ Queueing(t, c, s)' /\ ~ Listed(c, s)'
        BY <2>2, <2>8, <2>9, <3>1 DEF Queueing, Listed
      <4>2. QED
        BY <2>1, <2>2, <2>3, <2>10, <4>1, LremKeepsPlace
    <3>2. CASE ~ (c = d /\ s = p)
      <4>1. Single(c, s)' /\ (Listed(c, s)' => Listed(c, s))
        <5>1. CASE s # p
          BY <2>8, <2>10, <5>1, SameLine DEF OnePlace
        <5>2. CASE s = p
          <6>1. \A i \in 1 .. Len(line'[s]) :
                  f[i] \in 1 .. Len(line[s]) /\ line'[s][i] = line[s][f[i]]
            BY <2>8, <2>9, <5>2
          <6>2. \A i, j \in 1 .. Len(line'[s]) : f[i] = f[j] => i = j
            BY <2>8, <2>9, <5>2
          <6>3. QED
            BY <2>10, <6>1, <6>2, FewerPlaces DEF OnePlace
        <5>3. QED
          BY <5>1, <5>2
      <4>2. ~ Queueing(t, c, s)
        BY <3>2 DEF Queueing
      <4>3. QED
        BY <2>1, <2>2, <2>3, <2>10, <4>1, <4>2, OnePlaceKept
    <3>3. QED
      BY <3>1, <3>2
  <2>11. QED
    BY <2>1, <2>4, <2>10 DEF SerialInv
<1>3. CASE CleanupSrem(t) /\ d \in members[p]
  <2>1. /\ task[t].at = "srem" /\ Goto(t, "unlist") /\ Await(t)
        /\ members' = [members EXCEPT ![p] = @ \ {d}]
        /\ line' = line /\ stranded' = stranded
    BY <1>3 DEF CleanupSrem, Srem, ghosts
  <2>2. /\ \A u \in Task \ {t} : task'[u] = task[u]
        /\ task'[t].at = "unlist" /\ task'[t].who = d /\ task'[t].port = p
    BY <2>1, OthersUntouched, AfterGoto
  <2>3. Resumes(t, 0) /\ \A i \in 1 .. Len(wire) : wire[i] # t
    BY <2>1, <2>2, OffWire, WireMoves
  <2>4. Roles' /\ OneRequest'
    BY <2>1, <2>2, RolesKept, OneRequestKept
  <2>5. ASSUME NEW s \in Port, NEW c \in Serial, OnePlace(c, s)
        PROVE  OnePlace(c, s)'
    <3>1. CASE c = d /\ s = p
      <4>1. Queueing(t, c, s)'
        BY <2>2, <3>1 DEF Queueing
      <4>2. \A i \in 1 .. Len(wire) : ~ AwaitsAt(i, "push", c, s)
        BY <2>3, <3>1, OnlyRequest
      <4>3. QED
        BY <2>1, <2>2, <2>3, <2>5, <4>1, <4>2, SremKeepsPlace
    <3>2. CASE ~ (c = d /\ s = p)
      <4>1. c \in members[s] => c \in members'[s]
        BY <2>1, <3>2 DEF TypeOK
      <4>2. Single(c, s)' /\ (Listed(c, s)' => Listed(c, s))
        BY <2>1, <2>5, SameLine DEF OnePlace
      <4>3. QED
        BY <2>2, <2>3, <2>5, <4>1, <4>2, OnePlaceKept
    <3>3. QED
      BY <3>1, <3>2
  <2>6. QED
    BY <2>1, <2>4, <2>5 DEF SerialInv
<1>4. CASE \/ Probe(t) \/ Look(t) \/ Rank(t) \/ NotifyQueuesUpdate(t)
           \/ CleanupSrem(t) /\ d \notin members[p]
  <2>1. /\ UNCHANGED <<members, line, stranded>>
        /\ task[t].at \in {"probe", "srem", "look", "rank", "notify"}
    BY <1>4 DEF Probe, CleanupSrem, Look, Rank, NotifyQueuesUpdate, Announce, queues, ghosts
  <2>2. \/ Goto(t, "srem") \/ Goto(t, "rank") \/ Finish(t)
        \/ Advance(t, p, "probe") \/ Advance(t, p, "look")
    BY <1>4 DEF Probe, CleanupSrem, Look, Rank, NotifyQueuesUpdate
  <2>3. /\ \A u \in Task \ {t} : task'[u] = task[u]
        /\ task'[t].at \in {"start", "srem", "rank", "probe", "look"}
        /\ task'[t].who \in {d, Nobody}
    <3>1. \A u \in Task \ {t} : task'[u] = task[u]
      BY <2>2, OthersUntouched
    <3>2. task'[t].at \in {"start", "srem", "rank", "probe", "look"}
      BY <2>2, AfterGoto, AfterFinish, AfterAdvance
    <3>3. task'[t].who \in {d, Nobody}
      BY <2>2, WhoKept
    <3>4. QED
      BY <3>1, <3>2, <3>3
  <2>4. \E k : Resumes(t, k)
    <3>1. CASE Rank(t) \/ NotifyQueuesUpdate(t)
      BY <2>3, <3>1, WireMoves DEF Rank, NotifyQueuesUpdate, Replied
    <3>2. CASE \/ Probe(t) \/ Look(t)
               \/ CleanupSrem(t) /\ d \notin members[p]
      <4>1. task[t].at \in {"probe", "srem", "look"} /\ (wire' = wire \/ Await(t))
        BY <3>2 DEF Probe, CleanupSrem, Look
      <4>2. QED
        BY <2>3, <4>1, OffWire, WireMoves
    <3>3. QED
      BY <1>4, <3>1, <3>2
  <2>5. Roles' /\ OneRequest'
    BY <2>3, RolesKept, OneRequestKept
  <2>6. PlacesHold'
    BY <2>1, <2>3, <2>4, PlainKeepsPlaces
  <2>7. QED
    BY <2>5, <2>6 DEF SerialInv, PlacesHold
<1>5. QED
  BY <1>1, <1>2, <1>3, <1>4 DEF Serve

LEMMA TailShifts ==
  ASSUME NEW S, NEW q \in Seq(S), q # <<>>
  PROVE  /\ Len(q) \in Nat \ {0} /\ Len(Tail(q)) = Len(q) - 1
         /\ \A j \in 1 .. Len(q) - 1 : Tail(q)[j] = q[j + 1]
         /\ q[1] = Head(q)
<1>1. Len(q) \in Nat \ {0}
  BY LenProperties, EmptySeq
<1>2. Len(Tail(q)) = Len(q) - 1 /\ \A j \in 1 .. Len(Tail(q)) : Tail(q)[j] = q[j + 1]
  BY HeadTailProperties
<1>3. q[1] = Head(q)
  OBVIOUS
<1>4. QED
  BY <1>1, <1>2, <1>3

LEMMA WorkKeepsPlaces ==
  ASSUME TypeOK, TypeOK', WireInv, SerialInv, NEW t \in Tick, Work(t) \/ StartTick(t)
  PROVE  SerialInv'
<1>0. /\ t \in Task /\ t \notin Request /\ Roles /\ OneRequest /\ PlacesHold
      /\ Idle.at = "start"
  BY TaskAssumption DEF Task, SerialInv, PlacesHold, Idle
<1> USE <1>0
<1> DEFINE p == task[t].port
<1>1. CASE Lpop(t)
  <2>1. /\ task[t].at = "slots" /\ Await(t) /\ line[p] # <<>>
        /\ line' = [line EXCEPT ![p] = Tail(@)]
        /\ task' = [task EXCEPT ![t].at = "unset", ![t].who = Head(line[p])]
        /\ members' = members /\ stranded' = stranded
    BY <1>1 DEF Lpop, ghosts
  <2>2. p \in Port /\ line[p] \in Seq(Player)
    BY <2>1, TaskKind DEF TypeOK, Seeking
  <2>3. \A u \in Task \ {t} : task'[u] = task[u]
    BY <2>1 DEF TypeOK
  <2>4. task'[t].at = "unset" /\ task'[t].who = Head(line[p]) /\ task'[t].port = p
    <3>1. task'[t] = [task[t] EXCEPT !.at = "unset", !.who = Head(line[p])]
      BY <2>1 DEF TypeOK
    <3>2. QED
      BY <3>1, TaskFields
  <2>5. Resumes(t, 0)
    BY <2>1, <2>3, OffWire, WireMoves
  <2>6. Roles' /\ OneRequest'
    BY <2>3, <2>4, RolesKept, OneRequestKept
  <2>7. /\ line'[p] = Tail(line[p])
        /\ Len(line[p]) \in Nat \ {0} /\ Len(line'[p]) = Len(line[p]) - 1
        /\ \A j \in 1 .. Len(line[p]) - 1 : line'[p][j] = line[p][j + 1]
        /\ line[p][1] = Head(line[p])
    <3>1. line'[p] = Tail(line[p])
      BY <2>1, <2>2 DEF TypeOK
    <3>2. QED
      BY <2>1, <2>2, <3>1, TailShifts, ZenonT(60)
  <2>8. ASSUME NEW s \in Port, NEW c \in Serial, OnePlace(c, s)
        PROVE  OnePlace(c, s)'
    <3>1. CASE c = Head(line[p]) /\ s = p
      <4>1. Listed(c, s)
        BY <2>7, <3>1 DEF Listed
      <4>2. ~ Listed(c, s)'
        <5>1. SUFFICES ASSUME NEW j \in 1 .. Len(line'[s]), line'[s][j] = c  PROVE FALSE
          BY DEF Listed
        <5>2. j + 1 \in 1 .. Len(line[s]) /\ line[s][j + 1] = c /\ line[s][1] = c
          <6> PICK n \in Nat \ {0} : n = Len(line[p])
            BY <2>7
          <6>1. j \in 1 .. n - 1 /\ line'[p][j] = c
            BY <2>7, <3>1, <5>1
          <6>2. j + 1 \in 1 .. n /\ line[p][j + 1] = c
            BY <2>7, <6>1
          <6>3. QED
            BY <2>7, <3>1, <6>2
        <5>3. 1 \in 1 .. Len(line[s])
          BY <2>7, <3>1
        <5>4. j + 1 = 1
          BY <2>8, <5>2, <5>3 DEF OnePlace, Single
        <5>5. QED
          BY <5>4
      <4>3. QED
        BY <2>1, <2>4, <2>5, <2>8, <4>1, <4>2, PopKeepsPlace
    <3>2. CASE ~ (c = Head(line[p]) /\ s = p)
      <4>1. Single(c, s)' /\ (Listed(c, s)' => Listed(c, s))
        <5>1. CASE s # p
          <6>1. line'[s] = line[s]
            BY <2>1, <5>1 DEF TypeOK
          <6>2. QED
            BY <2>8, <6>1, SameLine DEF OnePlace
        <5>2. CASE s = p
          <6> DEFINE g == [i \in 1 .. Len(line'[s]) |-> i + 1]
          <6> PICK n \in Nat \ {0} : n = Len(line[s]) /\ n - 1 = Len(line'[s])
            BY <2>7, <5>2
          <6>a. \A i \in 1 .. n - 1 : i + 1 \in 1 .. n
            OBVIOUS
          <6>b. n - 1 = Len(line[p]) - 1 /\ line[s] = line[p] /\ line'[s] = line'[p]
            BY <5>2
          <6> HIDE DEF p
          <6>c. \A i \in 1 .. n - 1 : line'[s][i] = line[s][i + 1]
            BY <2>7, <6>b
          <6>0. \A i \in 1 .. n - 1 : i + 1 \in 1 .. n /\ line'[s][i] = line[s][i + 1]
            BY <6>a, <6>c
          <6>1. \A i \in 1 .. Len(line'[s]) :
                  g[i] \in 1 .. Len(line[s]) /\ line'[s][i] = line[s][g[i]]
            BY <6>0
          <6>2. \A i, j \in 1 .. Len(line'[s]) : g[i] = g[j] => i = j
            BY <2>7, <5>2
          <6> HIDE DEF g
          <6>3. QED
            BY <2>8, <6>1, <6>2, FewerPlaces DEF OnePlace
        <5>3. QED
          BY <5>1, <5>2
      <4>2. ~ Queueing(t, c, s)'
        BY <2>4, <3>2 DEF Queueing
      <4>3. QED
        BY <2>1, <2>5, <2>8, <4>1, <4>2, OnePlaceKept
    <3>3. QED
      BY <3>1, <3>2
  <2>9. QED
    BY <2>1, <2>6, <2>8 DEF SerialInv
<1>2. CASE TickSrem(t)
  <2>1. /\ task[t].at = "unset" /\ FirstOnWire(t) /\ wire' = Tail(wire) /\ Goto(t, "admit")
        /\ members' = [members EXCEPT ![p] = @ \ {task[t].who}]
        /\ line' = line /\ stranded' = stranded
    BY <1>2 DEF TickSrem, Replied, ghosts
  <2>2. (\A u \in Task \ {t} : task'[u] = task[u]) /\ task'[t].at = "admit"
    BY <2>1, OthersUntouched, AfterGoto
  <2>3. Resumes(t, 1)
    BY <2>1, <2>2, WireMoves
  <2>4. Roles' /\ OneRequest'
    BY <2>2, RolesKept, OneRequestKept
  <2>5. ASSUME NEW s \in Port, NEW c \in Serial, OnePlace(c, s)
        PROVE  OnePlace(c, s)'
    <3>1. CASE Queueing(t, c, s)
      BY <2>1, <2>2, <2>3, <2>5, <3>1, UnsetKeepsPlace
    <3>2. CASE ~ Queueing(t, c, s)
      <4>1. c \in members[s] => c \in members'[s]
        BY <2>1, <3>2 DEF Queueing, TypeOK
      <4>2. Single(c, s)' /\ (Listed(c, s)' => Listed(c, s))
        BY <2>1, <2>5, SameLine DEF OnePlace
      <4>3. QED
        BY <2>2, <2>3, <2>5, <3>2, <4>1, <4>2, OnePlaceKept
    <3>3. QED
      BY <3>1, <3>2
  <2>6. QED
    BY <2>1, <2>4, <2>5 DEF SerialInv
<1>3. CASE Peek(t) \/ Full(t) \/ LpopNull(t) \/ Admit(t) \/ AdmissionFails(t)
           \/ TickNotify(t) \/ StartTick(t)
  <2>1. UNCHANGED <<members, line, wire, stranded>>
    BY <1>3 DEF Peek, Full, LpopNull, Admit, AdmissionFails, TickNotify, Announce,
                StartTick, queues, ghosts
  <2>2. task[t].at \in {"start", "peek", "slots", "admit", "notify"}
    BY <1>3 DEF Peek, Full, LpopNull, Admit, AdmissionFails, TickNotify, Announce, StartTick
  <2>3. \/ Goto(t, "slots") \/ Goto(t, "notify") \/ Finish(t)
        \/ Advance(t, p, "peek")
        \/ Begin(t, "tick", "peek", Nobody, Earliest(Later(0)))
    BY <1>3 DEF Peek, Full, LpopNull, Admit, AdmissionFails, TickNotify, StartTick
  <2>4. \A u \in Task \ {t} : task'[u] = task[u]
    BY <2>3, OthersUntouched
  <2>5. task'[t].at \in {"start", "peek", "slots", "notify"}
    BY <2>3, AfterGoto, AfterFinish, AfterAdvance, AfterBegin
  <2>6. Resumes(t, 0)
    BY <2>1, <2>2, <2>4, OffWire, WireMoves
  <2>7. Roles' /\ OneRequest'
    BY <2>4, <2>5, RolesKept, OneRequestKept
  <2>8. PlacesHold'
    BY <2>1, <2>2, <2>5, <2>6, PlainKeepsPlaces
  <2>9. QED
    BY <2>7, <2>8 DEF SerialInv, PlacesHold
<1>4. QED
  BY <1>1, <1>2, <1>3 DEF Work

\* what a restart cuts in two it strands; nothing else is due afterwards
LEMMA RestartKeepsPlaces ==
  ASSUME TypeOK, WireInv, SerialInv, Restart
  PROVE  SerialInv'
<1>1. /\ members' = members /\ line' = line /\ wire' = <<>> /\ Len(wire') = 0
      /\ stranded \subseteq stranded' /\ task' = [t \in Task |-> Idle]
      /\ \A t \in Cut({"push", "unlist", "unset"}) :
           <<task[t].port, task[t].who>> \in stranded'
  BY EmptySeq DEF Restart, queues
<1>2. Roles' /\ OneRequest'
  <2>1. Idle.at = "start" /\ Idle.who = Nobody /\ Request \subseteq Task
    BY DEF Idle, Task
  <2>2. QED
    BY <1>1, <2>1, PlayerAssumption DEF Roles, OneRequest
<1>3. ASSUME NEW s \in Port, NEW c \in Serial, <<s, c>> \notin stranded'
      PROVE  OnePlace(c, s)'
  <2>1. OnePlace(c, s)
    BY <1>1, <1>3 DEF SerialInv
  <2>2. ~ Unlisting(c, s)
    <3>1. SUFFICES ASSUME NEW i \in 1 .. Len(wire), AwaitsAt(i, "unlist", c, s)  PROVE FALSE
      BY DEF Unlisting
    <3>2. wire[i] \in Cut({"push", "unlist", "unset"})
      BY <3>1, WireLength DEF AwaitsAt, Cut
    <3>3. QED
      BY <1>1, <1>3, <3>1, <3>2 DEF AwaitsAt, Queueing
  <2>3. Listed(c, s)' => c \in members'[s]
    BY <1>1, <2>1, <2>2 DEF OnePlace, Owned, Listed
  <2>4. QED
    BY <1>1, <2>1, <2>3 DEF OnePlace, Single, Owned, Joining, Popped
<1>4. QED
  BY <1>2, <1>3 DEF SerialInv

LEMMA NextKeepsPlaces == IInv /\ IInv' /\ SerialInv /\ [Next]_vars => SerialInv'
<1> SUFFICES ASSUME IInv, IInv', SerialInv, [Next]_vars  PROVE SerialInv'
  OBVIOUS
<1>1. TypeOK /\ TypeOK' /\ WireInv
  BY DEF IInv
<1>2. CASE Next
  BY <1>1, <1>2, AskKeepsPlaces, ServeKeepsPlaces, WorkKeepsPlaces, RestartKeepsPlaces
     DEF Next
<1>3. CASE UNCHANGED vars
  BY <1>3 DEF vars, ghosts, SerialInv, Roles, OneRequest, OnePlace, Single, Owned, Joining,
              Popped, Listed, Unlisting, NobodyUnsets, Behind, AwaitsAt, Queueing
<1>4. QED
  BY <1>2, <1>3

LEMMA InitSerialInv == Init => SerialInv
<1> SUFFICES ASSUME Init  PROVE SerialInv
  OBVIOUS
<1>1. Idle.at = "start" /\ Idle.who = Nobody /\ Request \subseteq Task
  BY DEF Idle, Task
<1>2. Roles /\ OneRequest
  BY <1>1, PlayerAssumption DEF Init, Roles, OneRequest
<1>3. ASSUME NEW s \in Port, NEW c  PROVE OnePlace(c, s)
  <2>1. Len(wire) = 0 /\ Len(line[s]) = 0
    BY EmptySeq DEF Init
  <2>2. QED
    BY <2>1 DEF OnePlace, Single, Owned, Joining, Popped, Listed
<1>4. QED
  BY <1>2, <1>3 DEF SerialInv

(***************************************************************************)
(* A player that asks one thing at a time has at most one place in a line, *)
(* and a place it does not own is about to be cleared, however its own     *)
(* requests, the other players' and any number of overlapping ticks        *)
(* interleave; unless a restart cut an update of this very player.  The    *)
(* proof needs the order of the connection: a SREM of a tick that is still *)
(* due stands before the end of the request that could let the player join *)
(* again.                                                                  *)
(***************************************************************************)
THEOREM SerialPlayersAreUnique == Spec => []SerialPlayersHoldOnePlace
<1>1. SerialInv => SerialPlayersHoldOnePlace
  BY DEF SerialInv, OnePlace, Single, Owned, Unlisting, SerialPlayersHoldOnePlace
<1>2. QED
  BY <1>1, IInvHolds, InitSerialInv, NextKeepsPlaces, PTL DEF Spec

(***************************************************************************)
(* The order of a set by a key.                                            *)
(***************************************************************************)
Sorted(q, W, k) ==
  /\ q \in Seq(W)
  /\ \A c \in W : \E i \in 1 .. Len(q) : q[i] = c
  /\ \A i, j \in 1 .. Len(q) : i < j => k[q[i]] < k[q[j]]

LEMMA SortedOnce ==
  ASSUME NEW W, NEW k \in [W -> Nat], NEW q, Sorted(q, W, k)
  PROVE  /\ Len(q) \in Nat /\ DOMAIN q = 1 .. Len(q)
         /\ \A i \in 1 .. Len(q) : q[i] \in W /\ k[q[i]] \in Nat
         /\ \A i, j \in 1 .. Len(q) : q[i] = q[j] => i = j
         /\ \A i, j \in 1 .. Len(q) : k[q[i]] < k[q[j]] <=> i < j
<1>1. /\ Len(q) \in Nat /\ DOMAIN q = 1 .. Len(q)
      /\ \A i \in 1 .. Len(q) : q[i] \in W
  BY LenProperties, ElementOfSeq DEF Sorted
<1>2. /\ \A i \in 1 .. Len(q) : k[q[i]] \in Nat
      /\ \A i, j \in 1 .. Len(q) : i < j => k[q[i]] < k[q[j]]
  BY <1>1 DEF Sorted
<1>3. ASSUME NEW i \in 1 .. Len(q), NEW j \in 1 .. Len(q), q[i] = q[j]
      PROVE  i = j
  <2>1. ~ (i < j) /\ ~ (j < i)
    BY <1>2, <1>3
  <2>2. QED
    BY <1>1, <2>1
<1>4. ASSUME NEW i \in 1 .. Len(q), NEW j \in 1 .. Len(q), k[q[i]] < k[q[j]]
      PROVE  i < j
  <2>1. ~ (j < i) /\ i # j
    BY <1>2, <1>4
  <2>2. QED
    BY <1>1, <2>1
<1>5. QED
  BY <1>1, <1>2, <1>3, <1>4

\* the n-th of the sorted sequence is the one with n - 1 before it
LEMMA SortedIsLine ==
  ASSUME NEW W, NEW k \in [W -> Nat], NEW q, Sorted(q, W, k)
  PROVE  LineOf(W, k) = q
<1> DEFINE Before(c) == {d \in W : k[d] < k[c]}
<1>1. /\ Len(q) \in Nat /\ DOMAIN q = 1 .. Len(q)
      /\ \A i \in 1 .. Len(q) : q[i] \in W
      /\ \A i, j \in 1 .. Len(q) : q[i] = q[j] => i = j
      /\ \A i, j \in 1 .. Len(q) : k[q[i]] < k[q[j]] <=> i < j
      /\ \A c \in W : \E i \in 1 .. Len(q) : q[i] = c
  <2>1. \A c \in W : \E i \in 1 .. Len(q) : q[i] = c
    BY DEF Sorted
  <2>2. QED
    BY <2>1, SortedOnce
<1>2. ASSUME NEW n \in 1 .. Len(q)
      PROVE  Cardinality(Before(q[n])) = n - 1
  <2> DEFINE f == [m \in 1 .. n - 1 |-> q[m]]
  <2>1. n \in Nat /\ n - 1 \in Nat /\ 1 .. n - 1 \subseteq 1 .. Len(q)
    BY <1>1
  <2>2. \A m \in 1 .. n - 1 : f[m] \in Before(q[n])
    BY <1>1, <2>1
  <2>3. ASSUME NEW d \in Before(q[n])
        PROVE  \E m \in 1 .. n - 1 : f[m] = d
    <3>1. PICK m \in 1 .. Len(q) : q[m] = d
      BY <1>1
    <3>2. m < n
      BY <1>1, <3>1
    <3>3. m \in 1 .. n - 1
      BY <1>1, <2>1, <3>2
    <3>4. QED
      BY <3>1, <3>3
  <2>4. \A i, m \in 1 .. n - 1 : f[i] = f[m] => i = m
    BY <1>1, <2>1
  <2>5. f \in Bijection(1 .. n - 1, Before(q[n]))
    <3>1. f \in [1 .. n - 1 -> Before(q[n])]
      BY <2>2
    <3> HIDE DEF f, Before
    <3>2. QED
      BY <2>3, <2>4, <3>1 DEF Bijection, Injection, IsInjective, Surjection
  <2>6. IsFiniteSet(1 .. n - 1) /\ Cardinality(1 .. n - 1) = n - 1
    BY <2>1, FS_Interval
  <2> HIDE DEF f, Before
  <2>7. ExistsBijection(1 .. n - 1, Before(q[n]))
    BY <2>5 DEF ExistsBijection
  <2>8. QED
    BY <2>6, <2>7, FS_Bijection
<1>3. Cardinality(W) = Len(q)
  <2>1. q \in [1 .. Len(q) -> W]
    BY <1>1, LenProperties DEF Sorted
  <2>2. q \in Bijection(1 .. Len(q), W)
    BY <1>1, <2>1 DEF Bijection, Injection, IsInjective, Surjection
  <2>3. IsFiniteSet(1 .. Len(q)) /\ Cardinality(1 .. Len(q)) = Len(q)
    BY <1>1, FS_Interval
  <2>4. ExistsBijection(1 .. Len(q), W)
    BY <2>2 DEF ExistsBijection
  <2>5. QED
    BY <2>3, <2>4, FS_Bijection
<1>4. ASSUME NEW n \in 1 .. Len(q)
      PROVE  (CHOOSE c \in W : Cardinality(Before(c)) = n - 1) = q[n]
  <2>1. q[n] \in W /\ Cardinality(Before(q[n])) = n - 1
    BY <1>1, <1>2
  <2>2. ASSUME NEW c \in W, Cardinality(Before(c)) = n - 1
        PROVE  c = q[n]
    <3>1. PICK m \in 1 .. Len(q) : q[m] = c
      BY <1>1
    <3>2. Cardinality(Before(q[m])) = m - 1
      BY <1>2
    <3>3. m - 1 = n - 1
      BY <2>2, <3>1, <3>2
    <3>4. QED
      BY <1>1, <3>1, <3>3
  <2> HIDE DEF Before
  <2>3. QED
    BY <2>1, <2>2
<1>5. LineOf(W, k) = [n \in 1 .. Cardinality(W) |-> CHOOSE c \in W : Cardinality(Before(c)) = n - 1]
  BY DEF LineOf
<1>6. q = [n \in 1 .. Len(q) |-> q[n]]
  <2>1. q \in [1 .. Len(q) -> W]
    BY <1>1, LenProperties DEF Sorted
  <2>2. QED
    BY <2>1
<1> HIDE DEF Before
<1>7. QED
  BY <1>3, <1>4, <1>5, <1>6

\* another key with the same order
LEMMA SortedStays ==
  ASSUME NEW W, NEW k \in [W -> Nat], NEW q, Sorted(q, W, k), NEW m \in [W -> Nat],
         \A c, d \in W : k[c] < k[d] => m[c] < m[d]
  PROVE  Sorted(q, W, m)
BY SortedOnce DEF Sorted

\* one more, behind all others
LEMMA SortedGrows ==
  ASSUME NEW W, NEW k \in [W -> Nat], NEW q, Sorted(q, W, k), NEW c, c \notin W,
         NEW m \in [W \cup {c} -> Nat],
         \A d, e \in W : k[d] < k[e] => m[d] < m[e],
         \A d \in W : m[d] < m[c]
  PROVE  Sorted(Append(q, c), W \cup {c}, m)
<1> DEFINE r == Append(q, c)
           n == Len(q)
<1>1. n \in Nat /\ \A i \in 1 .. n : q[i] \in W
  BY SortedOnce
<1>2. q \in Seq(W \cup {c})
  BY <1>1, LenProperties, IsASeq DEF Sorted
<1>3. /\ r \in Seq(W \cup {c}) /\ Len(r) = n + 1 /\ r[n + 1] = c
      /\ \A i \in 1 .. n : r[i] = q[i]
  BY <1>2, AppendProperties
<1> HIDE DEF r, n
<1>4. ASSUME NEW d \in W \cup {c}  PROVE \E i \in 1 .. Len(r) : r[i] = d
  <2>1. CASE d = c
    <3>1. n + 1 \in 1 .. Len(r)
      BY <1>1, <1>3
    <3>2. QED
      BY <1>3, <2>1, <3>1
  <2>2. CASE d \in W
    <3>1. PICK i \in 1 .. n : q[i] = d
      BY <2>2 DEF Sorted, n
    <3>2. i \in 1 .. Len(r) /\ r[i] = d
      BY <1>1, <1>3, <3>1
    <3>3. QED
      BY <3>2
  <2>3. QED
    BY <2>1, <2>2
<1>5. ASSUME NEW i \in 1 .. Len(r), NEW j \in 1 .. Len(r), i < j
      PROVE  m[r[i]] < m[r[j]]
  <2>1. i \in 1 .. n /\ r[i] = q[i] /\ q[i] \in W
    BY <1>1, <1>3, <1>5
  <2>2. CASE j = n + 1
    BY <1>3, <2>1, <2>2
  <2>3. CASE j \in 1 .. n
    <3>1. k[q[i]] < k[q[j]] /\ q[j] \in W /\ r[j] = q[j]
      BY <1>1, <1>3, <1>5, <2>1, <2>3 DEF Sorted, n
    <3>2. QED
      BY <2>1, <3>1
  <2>4. QED
    BY <1>1, <1>3, <2>2, <2>3
<1>6. QED
  BY <1>3, <1>4, <1>5 DEF Sorted, r
\* the line without c
Without(q, i) == SubSeq(q, 1, i - 1) \o SubSeq(q, i + 1, Len(q))

LEMMA WithoutPlaces ==
  ASSUME NEW S, NEW q \in Seq(S), NEW i \in 1 .. Len(q)
  PROVE  /\ Len(q) \in Nat /\ Without(q, i) \in Seq(S) /\ Len(Without(q, i)) = Len(q) - 1
         /\ \A j \in 1 .. Len(q) - 1 : Without(q, i)[j] = q[IF j < i THEN j ELSE j + 1]
<1> DEFINE n == Len(q)
           a == SubSeq(q, 1, i - 1)
           b == SubSeq(q, i + 1, n)
<1>1. n \in Nat /\ i \in Nat /\ \A j \in 1 .. n : q[j] \in S
  BY LenProperties, ElementOfSeq
<1>2. /\ a \in Seq(S) /\ Len(a) = i - 1
      /\ \A j \in 1 .. i - 1 : a[j] = q[j]
  <2>1. \A j \in 1 .. i - 1 : q[j] \in S
    BY <1>1
  <2>2. /\ a \in Seq(S) /\ Len(a) = IF 1 <= i - 1 THEN (i - 1) - 1 + 1 ELSE 0
        /\ \A j \in 1 .. (i - 1) - 1 + 1 : a[j] = q[1 + j - 1]
    BY <1>1, <2>1, SubSeqProperties
  <2>3. QED
    BY <1>1, <2>2
<1>3. /\ b \in Seq(S) /\ Len(b) = n - i
      /\ \A j \in 1 .. n - i : b[j] = q[i + j]
  <2>1. \A j \in i + 1 .. n : q[j] \in S
    BY <1>1
  <2>2. /\ b \in Seq(S) /\ Len(b) = IF i + 1 <= n THEN n - (i + 1) + 1 ELSE 0
        /\ \A j \in 1 .. n - (i + 1) + 1 : b[j] = q[(i + 1) + j - 1]
    BY <1>1, <2>1, SubSeqProperties
  <2>3. QED
    BY <1>1, <2>2
<1>4. Without(q, i) = a \o b
  BY DEF Without
<1> HIDE DEF a, b, n
<1>5. /\ a \o b \in Seq(S) /\ Len(a \o b) = n - 1
      /\ \A j \in 1 .. n - 1 : (a \o b)[j] = IF j <= i - 1 THEN a[j] ELSE b[j - (i - 1)]
  <2>1. /\ a \o b \in Seq(S) /\ Len(a \o b) = Len(a) + Len(b)
        /\ \A j \in 1 .. Len(a) + Len(b) : (a \o b)[j] = IF j <= Len(a) THEN a[j] ELSE b[j - Len(a)]
    BY <1>2, <1>3, ConcatProperties
  <2>2. Len(a) + Len(b) = n - 1
    BY <1>1, <1>2, <1>3
  <2>3. QED
    BY <1>2, <2>1, <2>2
<1>6. ASSUME NEW j \in 1 .. n - 1
      PROVE  (a \o b)[j] = q[IF j < i THEN j ELSE j + 1]
  <2>1. CASE j < i
    BY <1>1, <1>2, <1>5, <2>1
  <2>2. CASE ~ (j < i)
    <3>1. (a \o b)[j] = b[j - (i - 1)] /\ j - (i - 1) \in 1 .. n - i /\ i + (j - (i - 1)) = j + 1
      BY <1>1, <1>5, <2>2, i \in 1 .. n DEF n
    <3>2. QED
      BY <1>3, <2>2, <3>1
  <2>3. QED
    BY <2>1, <2>2
<1>7. QED
  BY <1>1, <1>4, <1>5, <1>6 DEF n

LEMMA SortedShrinks ==
  ASSUME NEW W, NEW k \in [W -> Nat], NEW q, Sorted(q, W, k), NEW i \in 1 .. Len(q),
         NEW m \in [W \ {q[i]} -> Nat],
         \A d, e \in W \ {q[i]} : k[d] < k[e] => m[d] < m[e]
  PROVE  Sorted(Without(q, i), W \ {q[i]}, m)
<1> DEFINE r == Without(q, i)
           n == Len(q)
           V == W \ {q[i]}
           To(j) == IF j < i THEN j ELSE j + 1
<1>1. /\ n \in Nat /\ i \in 1 .. n /\ \A j \in 1 .. n : q[j] \in W
      /\ \A j, l \in 1 .. n : q[j] = q[l] => j = l
      /\ \A j, l \in 1 .. n : k[q[j]] < k[q[l]] <=> j < l
  BY SortedOnce
<1>2. r \in Seq(W) /\ Len(r) = n - 1 /\ \A j \in 1 .. n - 1 : r[j] = q[To(j)]
  <2>1. q \in Seq(W)
    BY DEF Sorted
  <2>2. QED
    BY <2>1, WithoutPlaces
<1>3. /\ \A j \in 1 .. n - 1 : To(j) \in 1 .. n /\ To(j) # i
      /\ \A j, l \in 1 .. n - 1 : j < l => To(j) < To(l)
  BY <1>1
<1>4. ASSUME NEW j \in 1 .. n, j # i
      PROVE  \E l \in 1 .. n - 1 : To(l) = j
  <2>1. CASE j < i
    <3>1. j \in 1 .. n - 1 /\ To(j) = j
      BY <1>1, <2>1
    <3>2. QED
      BY <3>1
  <2>2. CASE ~ (j < i)
    <3>1. j - 1 \in 1 .. n - 1 /\ To(j - 1) = j
      BY <1>1, <1>4, <2>2
    <3>2. QED
      BY <3>1
  <2>3. QED
    BY <2>1, <2>2
<1>5. \A c \in W : \E j \in 1 .. n : q[j] = c
  BY DEF Sorted
<1> HIDE DEF r, n, To
<1>6. \A j \in 1 .. n - 1 : r[j] \in V
  BY <1>1, <1>2, <1>3
<1>7. r \in Seq(V)
  <2>1. r \in [1 .. n - 1 -> W] /\ n - 1 \in Nat
    BY <1>1, <1>2, LenProperties
  <2>2. r \in [1 .. n - 1 -> V]
    BY <1>6, <2>1
  <2>3. QED
    BY <2>1, <2>2, SeqDef
<1>8. ASSUME NEW c \in V  PROVE \E j \in 1 .. Len(r) : r[j] = c
  <2>1. PICK j \in 1 .. n : q[j] = c /\ j # i
    BY <1>5
  <2>2. PICK l \in 1 .. n - 1 : To(l) = j
    BY <1>4, <2>1
  <2>3. QED
    BY <1>2, <2>1, <2>2
<1>9. ASSUME NEW j \in 1 .. Len(r), NEW l \in 1 .. Len(r), j < l
      PROVE  m[r[j]] < m[r[l]]
  <2>1. j \in 1 .. n - 1 /\ l \in 1 .. n - 1
    BY <1>2
  <2>2. To(j) \in 1 .. n /\ To(l) \in 1 .. n /\ To(j) < To(l)
    BY <1>3, <1>9, <2>1
  <2>3. k[q[To(j)]] < k[q[To(l)]]
    BY <1>1, <2>2
  <2>4. k[r[j]] < k[r[l]]
    BY <1>2, <2>1, <2>3
  <2>5. r[j] \in V /\ r[l] \in V
    BY <1>6, <2>1
  <2>6. QED
    BY <2>4, <2>5
<1>10. QED
  BY <1>7, <1>8, <1>9 DEF Sorted, r

\* the head is the one with the least key
LEMMA SortedServed ==
  ASSUME NEW W, NEW k \in [W -> Nat], NEW q, Sorted(q, W, k), NEW c \in W,
         \A d \in W : d # c => k[c] < k[d],
         NEW m \in [W \ {c} -> Nat],
         \A d, e \in W \ {c} : k[d] < k[e] => m[d] < m[e]
  PROVE  q # <<>> /\ Sorted(Tail(q), W \ {c}, m)
<1>1. PICK i \in 1 .. Len(q) : q[i] = c
  BY DEF Sorted
<1>2. i = 1 /\ Len(q) \in Nat
  <2>1. /\ Len(q) \in Nat /\ \A j \in 1 .. Len(q) : q[j] \in W
        /\ \A j, l \in 1 .. Len(q) : q[j] = q[l] => j = l
        /\ \A j, l \in 1 .. Len(q) : k[q[j]] < k[q[l]] <=> j < l
    BY SortedOnce
  <2>2. ASSUME i # 1  PROVE FALSE
    <3>1. 1 \in 1 .. Len(q) /\ ~ (i < 1)
      BY <2>1
    <3>2. q[1] # c /\ q[1] \in W
      BY <1>1, <2>1, <2>2, <3>1
    <3>3. k[q[i]] < k[q[1]]
      BY <1>1, <3>2
    <3>4. QED
      BY <2>1, <3>1, <3>3
  <2>3. QED
    BY <2>1, <2>2
<1>3. q # <<>>
  BY <1>1, <1>2, EmptySeq
<1>4. Sorted(Without(q, 1), W \ {c}, m)
  BY <1>1, <1>2, SortedShrinks
<1>5. Without(q, 1) = Tail(q)
  <2>1. q \in Seq(W)
    BY DEF Sorted
  <2>2. Tail(q) = SubSeq(q, 2, Len(q)) /\ Tail(q) \in Seq(W)
    BY <1>3, <2>1, TailIsSubSeq, HeadTailProperties
  <2>3. SubSeq(q, 1, 1 - 1) = <<>>
    BY SubSeqEmpty
  <2>4. <<>> \o Tail(q) = Tail(q)
    BY <2>2, ConcatEmptySeq
  <2>5. 1 + 1 = 2
    OBVIOUS
  <2>6. QED
    BY <2>2, <2>3, <2>4, <2>5 DEF Without
<1>6. QED
  BY <1>3, <1>4, <1>5

-----------------------------------------------------------------------------
\* what the other invariants say; a command that is due is on the connection,
\* and a player whose LREM is due is no longer in the set
Due(t) == task[t].at \in {"push", "unlist", "unset"}

Orderly ==
  /\ IInv /\ SerialInv
  /\ \A t \in Task : Due(t) => \E i \in 1 .. Len(wire) : wire[i] = t
  /\ \A s \in Port : \A c \in Unbroken(s) : Unlisting(c, s) => c \notin members[s]

LEMMA OrderlyFacts ==
  ASSUME Orderly
  PROVE  /\ TypeOK /\ WireInv /\ Roles /\ OneRequest
         /\ \A s \in Port : \A c \in Unbroken(s) : OnePlace(c, s)
         /\ \A s \in Port : \A c \in Unbroken(s) : Unlisting(c, s) => c \notin members[s]
BY DEF Orderly, IInv, SerialInv, Unbroken

\* n is a place of c: on the list, or behind it on the connection
StandsAt(c, s, n) ==
  \/ n \in 1 .. Len(line[s]) /\ line[s][n] = c
  \/ /\ n - Len(line[s]) \in 1 .. Len(wire)
     /\ AwaitsAt(n - Len(line[s]), "push", c, s)

StandingRight ==
  \A s \in Port : \A c \in Unbroken(s) :
    /\ Listed(c, s) \/ Pushing(c, s) =>
         Standing(c, s) \in Nat /\ StandsAt(c, s, Standing(c, s))
    /\ \A n \in Nat : StandsAt(c, s, n) =>
         Standing(c, s) = n /\ (Listed(c, s) \/ Pushing(c, s))

LEMMA OrderlyStands == Orderly => StandingRight
<1> SUFFICES ASSUME Orderly, NEW s \in Port, NEW c \in Unbroken(s)
    PROVE  /\ Listed(c, s) \/ Pushing(c, s) =>
                Standing(c, s) \in Nat /\ StandsAt(c, s, Standing(c, s))
           /\ \A n \in Nat : StandsAt(c, s, n) =>
                Standing(c, s) = n /\ (Listed(c, s) \/ Pushing(c, s))
  BY DEF StandingRight
<1> DEFINE L == Len(line[s])
           i == CHOOSE k \in 1 .. L : line[s][k] = c
           j == CHOOSE k \in 1 .. Len(wire) : AwaitsAt(k, "push", c, s)
<1>1. /\ TypeOK /\ WireInv /\ Roles /\ OneRequest /\ OnePlace(c, s) /\ c \in Serial
      /\ L \in Nat /\ Len(wire) \in Nat
  BY OrderlyFacts, WireLength, LenProperties DEF TypeOK, Unbroken
<1>2. Standing(c, s) = IF Listed(c, s) THEN i ELSE L + j
  BY DEF Standing
<1>3. ASSUME NEW n \in 1 .. Len(wire), AwaitsAt(n, "push", c, s)
      PROVE  ~ Listed(c, s)
  BY <1>1, <1>3 DEF OnePlace, Joining
<1>4. ASSUME NEW n \in 1 .. Len(wire), AwaitsAt(n, "push", c, s),
             NEW m \in 1 .. Len(wire), AwaitsAt(m, "push", c, s)
      PROVE  n = m
  <2>1. wire[m] \in Request /\ task[wire[m]].who = c
    BY <1>1, <1>4, WireLength DEF AwaitsAt, Queueing, Roles
  <2>2. wire[n] = wire[m]
    BY <1>1, <1>4, <2>1, OnlyRequest
  <2>3. QED
    BY <1>1, <2>2 DEF WireInv
<1>5. ASSUME Listed(c, s)
      PROVE  i \in 1 .. L /\ line[s][i] = c
  BY <1>5 DEF Listed
<1>6. ASSUME Pushing(c, s)
      PROVE  j \in 1 .. Len(wire) /\ AwaitsAt(j, "push", c, s)
  BY <1>6 DEF Pushing
<1> HIDE DEF i, j
<1>7. ASSUME Listed(c, s) \/ Pushing(c, s)
      PROVE  Standing(c, s) \in Nat /\ StandsAt(c, s, Standing(c, s))
  <2>1. CASE Listed(c, s)
    BY <1>1, <1>2, <1>5, <2>1 DEF StandsAt
  <2>2. CASE ~ Listed(c, s)
    <3>1. j \in 1 .. Len(wire) /\ AwaitsAt(j, "push", c, s) /\ Standing(c, s) = L + j
      BY <1>2, <1>6, <1>7, <2>2
    <3>2. Standing(c, s) - L = j /\ Standing(c, s) \in Nat
      BY <1>1, <3>1
    <3>3. QED
      BY <3>1, <3>2 DEF StandsAt
  <2>3. QED
    BY <2>1, <2>2
<1>8. ASSUME NEW n \in Nat, StandsAt(c, s, n)
      PROVE  Standing(c, s) = n /\ (Listed(c, s) \/ Pushing(c, s))
  <2>1. CASE n \in 1 .. L /\ line[s][n] = c
    <3>1. Listed(c, s)
      BY <2>1 DEF Listed
    <3>2. i = n
      BY <1>1, <1>5, <2>1, <3>1 DEF OnePlace, Single
    <3>3. QED
      BY <1>2, <3>1, <3>2
  <2>2. CASE n - L \in 1 .. Len(wire) /\ AwaitsAt(n - L, "push", c, s)
    <3>1. Pushing(c, s) /\ ~ Listed(c, s)
      BY <1>3, <2>2 DEF Pushing
    <3>2. j = n - L
      BY <1>4, <1>6, <2>2, <3>1
    <3>3. QED
      BY <1>1, <1>2, <3>1, <3>2
  <2>3. QED
    BY <1>8, <2>1, <2>2 DEF StandsAt
<1>9. QED
  BY <1>7, <1>8

LEMMA OrderlyStandsNext == Orderly' => StandingRight'
BY OrderlyStands, PTL

Places(s) == [c \in Waiters(s) |-> Standing(c, s)]

\* the waiters of s can be put in order
Ordered(s) == \E q : Sorted(q, Waiters(s), Places(s))

\* the waiters V of s move to other places without overtaking
Moves(h, V, s) ==
  /\ \A c \in V : \A n \in Nat : StandsAt(c, s, n) => h[n] \in Nat /\ StandsAt(c, s, h[n])'
  /\ \A c, d \in V : \A m, n \in Nat :
       StandsAt(c, s, m) /\ StandsAt(d, s, n) /\ m < n => h[m] < h[n]

LEMMA PlacesType == Orderly => \A s \in Port : Places(s) \in [Waiters(s) -> Nat]
<1> SUFFICES ASSUME Orderly, NEW s \in Port, NEW c \in Waiters(s)
    PROVE  Standing(c, s) \in Nat
  BY DEF Places
<1>1. QED
  BY OrderlyStands DEF StandingRight, Waiters

LEMMA PlacesTypeNext == Orderly' => \A s \in Port : Places(s)' \in [Waiters(s)' -> Nat]
<1>1. (Orderly => \A s \in Port : Places(s) \in [Waiters(s) -> Nat])'
  BY PlacesType, PTL
<1>2. QED
  BY <1>1

LEMMA OrderMoves ==
  ASSUME Orderly, Orderly', NEW s \in Port, NEW h,
         NEW V \in SUBSET Waiters(s), V \subseteq Waiters(s)', Moves(h, V, s)
  PROVE  /\ \A c \in V : Places(s)'[c] = h[Places(s)[c]]
         /\ \A c, d \in V : Places(s)[c] < Places(s)[d] => Places(s)'[c] < Places(s)'[d]
<1>1. ASSUME NEW c \in V
      PROVE  /\ Places(s)[c] \in Nat /\ StandsAt(c, s, Places(s)[c])
             /\ Places(s)'[c] = h[Places(s)[c]]
  <2>1. c \in Unbroken(s) /\ (Listed(c, s) \/ Pushing(c, s))
    BY DEF Waiters
  <2>0. c \in Waiters(s) /\ c \in Waiters(s)'
    OBVIOUS
  <2>2. Places(s)[c] = Standing(c, s) /\ Places(s)'[c] = Standing(c, s)'
    <3>1. Places(s)[c] = Standing(c, s)
      BY <2>0 DEF Places
    <3>2. Places(s)'[c] = Standing(c, s)'
      BY <2>0 DEF Places
    <3>3. QED
      BY <3>1, <3>2
  <2>3. Standing(c, s) \in Nat /\ StandsAt(c, s, Standing(c, s))
    BY <2>1, OrderlyStands DEF StandingRight
  <2>4. PICK m \in Nat : m = Standing(c, s)
    BY <2>3
  <2>5. h[m] \in Nat /\ StandsAt(c, s, h[m])'
    BY <2>3, <2>4 DEF Moves
  <2>6. c \in Unbroken(s)'
    BY <2>0 DEF Waiters
  <2>8. Standing(c, s)' = h[m]
    BY <2>5, <2>6, OrderlyStandsNext DEF StandingRight
  <2>7. QED
    BY <2>2, <2>3, <2>4, <2>8
<1>2. QED
  BY <1>1 DEF Moves


LEMMA WaitingLineIs ==
  ASSUME NEW s
  PROVE  /\ WaitingLine(s) = LineOf(Waiters(s), Places(s))
         /\ WaitingLine(s)' = LineOf(Waiters(s)', Places(s)')
BY DEF WaitingLine, Places

\* everybody stays
LEMMA LineStays ==
  ASSUME Orderly, Orderly', NEW s \in Port, Ordered(s), NEW h,
         NEW V, V = Waiters(s), V = Waiters(s)', Moves(h, V, s)
  PROVE  Ordered(s)' /\ WaitingLine(s)' = WaitingLine(s)
<1>1. /\ Places(s) \in [V -> Nat] /\ Places(s)' \in [V -> Nat]
      /\ \A c, d \in V : Places(s)[c] < Places(s)[d] => Places(s)'[c] < Places(s)'[d]
  BY PlacesType, PlacesTypeNext, OrderMoves
<1>2. PICK q : Sorted(q, V, Places(s))
  BY DEF Ordered
<1>3. Sorted(q, V, Places(s)')
  BY <1>1, <1>2, SortedStays
<1>4. LineOf(V, Places(s)) = q /\ LineOf(V, Places(s)') = q
  BY <1>1, <1>2, <1>3, SortedIsLine
<1>5. Ordered(s)'
  BY <1>3 DEF Ordered
<1>6. QED
  BY <1>4, <1>5, WaitingLineIs

\* c comes, behind everybody
LEMMA LineGrows ==
  ASSUME Orderly, Orderly', NEW s \in Port, Ordered(s), NEW h,
         NEW V, V = Waiters(s), NEW c, c \notin V, Waiters(s)' = V \cup {c},
         Moves(h, V, s), NEW n \in Nat, StandsAt(c, s, n)',
         \A d \in V : \A m \in Nat : StandsAt(d, s, m)' => m < n
  PROVE  /\ Ordered(s)' /\ WaitingLine(s)' = Append(WaitingLine(s), c)
         /\ \A i \in 1 .. Len(WaitingLine(s)) : WaitingLine(s)[i] # c
<1>1. /\ Places(s) \in [V -> Nat] /\ Places(s)' \in [V \cup {c} -> Nat]
      /\ \A d, e \in V : Places(s)[d] < Places(s)[e] => Places(s)'[d] < Places(s)'[e]
  BY PlacesType, PlacesTypeNext, OrderMoves
<1>2. \A d \in V : Places(s)'[d] < Places(s)'[c]
  <2>1. Places(s)'[c] = n
    <3>1. c \in Waiters(s)' /\ c \in Unbroken(s)'
      BY DEF Waiters
    <3>2. Standing(c, s)' = n
      BY <3>1, OrderlyStandsNext DEF StandingRight
    <3>3. QED
      BY <3>1, <3>2 DEF Places
  <2>2. ASSUME NEW d \in V  PROVE Places(s)'[d] < n
    <3>1. d \in Waiters(s)'
      OBVIOUS
    <3>2. d \in Unbroken(s)' /\ (Listed(d, s) \/ Pushing(d, s))'
      BY <3>1 DEF Waiters
    <3>3. Standing(d, s)' \in Nat /\ StandsAt(d, s, Standing(d, s))'
      BY <3>2, OrderlyStandsNext DEF StandingRight
    <3>4. PICK m \in Nat : m = Standing(d, s)'
      BY <3>3
    <3>5. StandsAt(d, s, m)'
      BY <3>3, <3>4
    <3>6. Places(s)'[d] = m
      BY <3>1, <3>4 DEF Places
    <3>7. QED
      BY <3>5, <3>6
  <2>3. QED
    BY <2>1, <2>2
<1>3. PICK q : Sorted(q, V, Places(s))
  BY DEF Ordered
<1>4. Sorted(Append(q, c), V \cup {c}, Places(s)')
  BY <1>1, <1>2, <1>3, SortedGrows
<1>5. LineOf(V, Places(s)) = q /\ LineOf(V \cup {c}, Places(s)') = Append(q, c)
  BY <1>1, <1>3, <1>4, SortedIsLine
<1>6. Ordered(s)'
  BY <1>4 DEF Ordered
<1>7. \A i \in 1 .. Len(q) : q[i] # c
  BY <1>1, <1>3, SortedOnce
<1>8. QED
  BY <1>5, <1>6, <1>7, WaitingLineIs

\* c leaves, from any place
LEMMA LineShrinks ==
  ASSUME Orderly, Orderly', NEW s \in Port, Ordered(s), NEW h,
         NEW V, V = Waiters(s), NEW c \in V, Waiters(s)' = V \ {c}, Moves(h, V \ {c}, s)
  PROVE  /\ Ordered(s)'
         /\ \E i \in 1 .. Len(WaitingLine(s)) :
              WaitingLine(s)[i] = c /\ WaitingLine(s)' = Without(WaitingLine(s), i)
<1>1. /\ Places(s) \in [V -> Nat] /\ Places(s)' \in [V \ {c} -> Nat]
      /\ \A d, e \in V \ {c} : Places(s)[d] < Places(s)[e] => Places(s)'[d] < Places(s)'[e]
  BY PlacesType, PlacesTypeNext, OrderMoves
<1>2. PICK q : Sorted(q, V, Places(s))
  BY DEF Ordered
<1>3. PICK i \in 1 .. Len(q) : q[i] = c
  BY <1>2 DEF Sorted
<1>4. Sorted(Without(q, i), V \ {c}, Places(s)')
  BY <1>1, <1>2, <1>3, SortedShrinks
<1>5. LineOf(V, Places(s)) = q /\ LineOf(V \ {c}, Places(s)') = Without(q, i)
  BY <1>1, <1>2, <1>4, SortedIsLine
<1>6. Ordered(s)'
  BY <1>4 DEF Ordered
<1>7. QED
  BY <1>3, <1>5, <1>6, WaitingLineIs

\* c, at the head of the list, is served
LEMMA LineServed ==
  ASSUME Orderly, Orderly', NEW s \in Port, Ordered(s), NEW h,
         NEW V, V = Waiters(s), NEW c \in V, Waiters(s)' = V \ {c}, Moves(h, V \ {c}, s),
         StandsAt(c, s, 1), \A d \in V \ {c} : ~ StandsAt(d, s, 1) /\ ~ StandsAt(d, s, 0)
  PROVE  /\ Ordered(s)'
         /\ WaitingLine(s) # <<>> /\ WaitingLine(s)' = Tail(WaitingLine(s))
<1>1. /\ Places(s) \in [V -> Nat] /\ Places(s)' \in [V \ {c} -> Nat]
      /\ \A d, e \in V \ {c} : Places(s)[d] < Places(s)[e] => Places(s)'[d] < Places(s)'[e]
  BY PlacesType, PlacesTypeNext, OrderMoves
<1>2. PICK q : Sorted(q, V, Places(s))
  BY DEF Ordered
<1>3. \A d \in V : d # c => Places(s)[c] < Places(s)[d]
  <2>1. c \in Unbroken(s) /\ Standing(c, s) = 1
    BY OrderlyStands DEF StandingRight, Waiters
  <2>2. Places(s)[c] = 1
    BY <2>1 DEF Places
  <2>3. ASSUME NEW d \in V \ {c}  PROVE Places(s)[d] \in Nat /\ Places(s)[d] \notin {0, 1}
    <3>1. d \in Unbroken(s) /\ (Listed(d, s) \/ Pushing(d, s)) /\ Places(s)[d] = Standing(d, s)
      BY DEF Waiters, Places
    <3>2. Standing(d, s) \in Nat /\ StandsAt(d, s, Standing(d, s))
      BY <3>1, OrderlyStands DEF StandingRight
    <3>3. QED
      BY <3>1, <3>2
  <2>4. QED
    BY <2>2, <2>3
<1>4. q # <<>> /\ Sorted(Tail(q), V \ {c}, Places(s)')
  BY <1>1, <1>2, <1>3, SortedServed
<1>5. LineOf(V, Places(s)) = q /\ LineOf(V \ {c}, Places(s)') = Tail(q)
  BY <1>1, <1>2, <1>4, SortedIsLine
<1>6. Ordered(s)'
  BY <1>4 DEF Ordered
<1>7. QED
  BY <1>4, <1>5, <1>6, WaitingLineIs

-----------------------------------------------------------------------------
Present(c, s) == Listed(c, s) \/ Pushing(c, s)

LEMMA PushingKept ==
  ASSUME TypeOK, TypeOK', WireInv, NEW t \in Task, NEW k, Resumes(t, k), NEW c, NEW s
  PROVE  /\ Pushing(c, s) /\ ~ (k = 1 /\ task[t].at = "push" /\ Queueing(t, c, s))
              => Pushing(c, s)'
         /\ Pushing(c, s)' /\ ~ (task'[t].at = "push" /\ Queueing(t, c, s)')
              => Pushing(c, s)
<1>1. ASSUME Pushing(c, s), ~ (k = 1 /\ task[t].at = "push" /\ Queueing(t, c, s))
      PROVE  Pushing(c, s)'
  <2>1. Len(wire) \in Nat /\ k \in {0, 1}
    BY WireLength DEF Resumes
  <2>2. PICK j \in 1 .. Len(wire) : AwaitsAt(j, "push", c, s)
    BY <1>1 DEF Pushing
  <2>3. j > k
    <3>1. ASSUME j <= k  PROVE FALSE
      <4>1. k = 1 /\ j = 1 /\ wire[1] = t
        BY <2>1, <3>1 DEF Resumes
      <4>2. QED
        BY <1>1, <2>2, <4>1 DEF AwaitsAt, Queueing
    <3>2. QED
      BY <2>1, <3>1
  <2>4. j \in k + 1 .. Len(wire)
    BY <2>1, <2>3
  <2>5. QED
    BY <2>2, <2>4, AwaitsAfter DEF Pushing
<1>2. ASSUME Pushing(c, s)', ~ (task'[t].at = "push" /\ Queueing(t, c, s)')
      PROVE  Pushing(c, s)
  <2>1. PICK i \in 1 .. Len(wire') : AwaitsAt(i, "push", c, s)'
    BY <1>2 DEF Pushing
  <2>2. i + k \in 1 .. Len(wire) /\ AwaitsAt(i + k, "push", c, s)
    BY <1>2, <2>1, AwaitsBefore
  <2>3. QED
    BY <2>2 DEF Pushing
<1>3. QED
  BY <1>1, <1>2

\* how a place behind a list of length L moves when that list becomes M long
LEMMA Shifted ==
  ASSUME NEW L \in Nat, NEW M \in Nat, NEW k \in {0, 1}, NEW n \in Nat, n - L > k
  PROVE  /\ n > L /\ M + (n - L) - k \in Nat /\ M + (n - L) - k > M
         /\ (M + (n - L) - k) - M = (n - L) - k
OBVIOUS

LEMMA ShiftedInOrder ==
  ASSUME NEW L \in Nat, NEW M \in Nat, NEW k \in {0, 1}, NEW m \in Nat, NEW n \in Nat, m < n
  PROVE  M + (m - L) - k < M + (n - L) - k
OBVIOUS

\* on the list, those of V move by g without overtaking
ListMoves(g, V, s) ==
  /\ \A i \in 1 .. Len(line[s]) : line[s][i] \in V =>
       g[i] \in 1 .. Len(line'[s]) /\ line'[s][g[i]] = line[s][i]
  /\ \A i, j \in 1 .. Len(line[s]) :
       line[s][i] \in V /\ line[s][j] \in V /\ i < j => g[i] < g[j]

\* then those on the connection, who move up together, stay behind them
LEMMA ShiftMoves ==
  ASSUME TypeOK, TypeOK', WireInv, NEW t \in Task, NEW k, Resumes(t, k), NEW s \in Port,
         NEW V, NEW g, ListMoves(g, V, s),
         \A c \in V : ~ (k = 1 /\ task[t].at = "push" /\ Queueing(t, c, s))
  PROVE  \E h : Moves(h, V, s)
<1> PICK L, M : L = Len(line[s]) /\ M = Len(line'[s])
  OBVIOUS
<1> DEFINE h == [n \in Nat |-> IF n <= L THEN g[n] ELSE M + (n - L) - k]
<1>1. /\ L \in Nat /\ M \in Nat /\ k \in {0, 1} /\ Len(wire) \in Nat
  BY WireLength, LenProperties DEF TypeOK, Resumes
<1>g. /\ \A i \in 1 .. L : line[s][i] \in V => g[i] \in 1 .. M /\ line'[s][g[i]] = line[s][i]
      /\ \A i, j \in 1 .. L : line[s][i] \in V /\ line[s][j] \in V /\ i < j => g[i] < g[j]
  BY DEF ListMoves
<1>0. \A n \in Nat : h[n] = IF n <= L THEN g[n] ELSE M + (n - L) - k
  OBVIOUS
<1> HIDE DEF h
<1>2. ASSUME NEW c \in V, NEW n \in Nat, StandsAt(c, s, n)
      PROVE  /\ h[n] \in Nat /\ StandsAt(c, s, h[n])'
             /\ \/ n \in 1 .. L /\ line[s][n] = c /\ h[n] = g[n] /\ g[n] \in 1 .. M
                \/ n > L /\ h[n] = M + (n - L) - k /\ h[n] > M
  <2>1. CASE n \in 1 .. L /\ line[s][n] = c
    <3>1. g[n] \in 1 .. M /\ line'[s][g[n]] = c /\ h[n] = g[n]
      BY <1>0, <1>1, <1>g, <2>1
    <3>2. StandsAt(c, s, g[n])'
      BY <3>1 DEF StandsAt
    <3>3. QED
      BY <1>1, <2>1, <3>1, <3>2
  <2>2. CASE n - L \in 1 .. Len(wire) /\ AwaitsAt(n - L, "push", c, s)
    <3>1. n - L > k
      <4>1. ASSUME n - L <= k  PROVE FALSE
        <5>1. k = 1 /\ n - L = 1 /\ wire[1] = t
          BY <1>1, <2>2, <4>1 DEF Resumes
        <5>2. QED
          BY <1>2, <2>2, <5>1 DEF AwaitsAt, Queueing
      <4>2. QED
        BY <1>1, <4>1
    <3>2. PICK j \in k + 1 .. Len(wire) : j = n - L
      BY <1>1, <2>2, <3>1
    <3>3. j - k \in 1 .. Len(wire') /\ AwaitsAt(j - k, "push", c, s)'
      BY <2>2, <3>2, AwaitsAfter
    <3> DEFINE m == M + (n - L) - k
    <3>4. n > L /\ m \in Nat /\ m > M /\ m - M = j - k
      BY ONLY <1>1, <3>1, <3>2, Shifted, n \in Nat
    <3>5. h[n] = m
      BY ONLY <1>0, <1>1, <3>4, n \in Nat
    <3> HIDE DEF m
    <3>6. StandsAt(c, s, m)'
      <4>1. PICK l \in Nat : l = m
        BY <3>4
      <4>2. l > M /\ l - M = j - k
        BY <3>4, <4>1
      <4>3. StandsAt(c, s, l)'
        BY <3>3, <4>2 DEF StandsAt
      <4>4. QED
        BY <4>1, <4>3
    <3>7. QED
      BY <3>4, <3>5, <3>6 DEF m
  <2>3. QED
    BY <1>2, <2>1, <2>2 DEF StandsAt
<1>3. ASSUME NEW c \in V, NEW d \in V, NEW m \in Nat, NEW n \in Nat,
             StandsAt(c, s, m), StandsAt(d, s, n), m < n
      PROVE  h[m] < h[n]
  <2>1. /\ h[m] \in Nat /\ h[n] \in Nat
        /\ \/ m \in 1 .. L /\ line[s][m] = c /\ h[m] = g[m] /\ g[m] \in 1 .. M
           \/ m > L /\ h[m] = M + (m - L) - k /\ h[m] > M
        /\ \/ n \in 1 .. L /\ line[s][n] = d /\ h[n] = g[n] /\ g[n] \in 1 .. M
           \/ n > L /\ h[n] = M + (n - L) - k /\ h[n] > M
    BY <1>2, <1>3
  <2>2. CASE n \in 1 .. L
    <3>1. m \in 1 .. L /\ h[m] = g[m] /\ h[n] = g[n] /\ line[s][m] = c /\ line[s][n] = d
      BY ONLY <1>1, <1>3, <2>1, <2>2
    <3>2. QED
      BY <1>3, <1>g, <2>2, <3>1
  <2>3. CASE m \in 1 .. L /\ n > L
    <3>1. h[m] \in 1 .. M /\ h[n] > M
      BY ONLY <1>1, <2>1, <2>3
    <3>2. QED
      BY ONLY <1>1, <2>1, <3>1
  <2>4. CASE m > L /\ n > L
    <3>1. h[m] = M + (m - L) - k /\ h[n] = M + (n - L) - k
      BY ONLY <1>1, <2>1, <2>4
    <3>2. QED
      BY ONLY <1>1, <1>3, <3>1, ShiftedInOrder, m \in Nat, n \in Nat
  <2>5. QED
    BY ONLY <1>1, <2>1, <2>2, <2>3, <2>4, m \in Nat, n \in Nat
<1>4. Moves(h, V, s)
  BY <1>2, <1>3 DEF Moves
<1>5. QED
  BY <1>4

\* the list stays as it is
LEMMA SameListMoves ==
  ASSUME TypeOK, TypeOK', WireInv, NEW t \in Task, NEW k, Resumes(t, k), NEW s \in Port,
         NEW V, line'[s] = line[s],
         \A c \in V : ~ (k = 1 /\ task[t].at = "push" /\ Queueing(t, c, s))
  PROVE  \E h : Moves(h, V, s)
<1> DEFINE g == [i \in 1 .. Len(line[s]) |-> i]
<1>1. ListMoves(g, V, s)
  BY DEF ListMoves
<1> HIDE DEF g
<1>2. QED
  BY <1>1, ShiftMoves

\* a step that leaves the list and the sets of those who are present alone
LEMMA PlainStep ==
  ASSUME Orderly, Orderly', NEW t \in Task, NEW k, Resumes(t, k), NEW s \in Port, Ordered(s),
         line'[s] = line[s], stranded' = stranded,
         \A c \in Unbroken(s) : Present(c, s) => (c \in members'[s] <=> c \in members[s]),
         \A c \in Unbroken(s) : ~ (task[t].at = "push" /\ Queueing(t, c, s)),
         \A c \in Unbroken(s) : ~ (task'[t].at = "push" /\ Queueing(t, c, s)')
  PROVE  Ordered(s)' /\ WaitingLine(s)' = WaitingLine(s)
<1>1. TypeOK /\ TypeOK' /\ WireInv
  BY OrderlyFacts DEF Orderly, IInv
<1>2. ASSUME NEW c \in Unbroken(s)  PROVE Present(c, s)' <=> Present(c, s)
  <2>1. Listed(c, s)' <=> Listed(c, s)
    BY SameLine
  <2>2. Pushing(c, s)' <=> Pushing(c, s)
    BY <1>1, PushingKept
  <2>3. QED
    BY <2>1, <2>2 DEF Present
<1>3. Waiters(s)' = Waiters(s)
  BY <1>2 DEF Waiters, Unbroken, Present
<1>4. PICK V : V = Waiters(s)
  OBVIOUS
<1>5. V \subseteq Unbroken(s)
  BY <1>4 DEF Waiters
<1>6. PICK h : Moves(h, V, s)
  BY <1>1, <1>5, SameListMoves
<1>7. QED
  BY <1>3, <1>4, <1>6, LineStays

-----------------------------------------------------------------------------
(***************************************************************************)
(* What changes of the lines mean for the contract.                        *)
(***************************************************************************)
Lines == [s \in Port |-> WaitingLine(s)]

LEMMA LinesChange ==
  /\ \A s \in Port : Lines[s] = WaitingLine(s)
  /\ \A p \in Port : \A r :
       WaitingLine(p)' = r /\ (\A s \in Port \ {p} : WaitingLine(s)' = WaitingLine(s))
       => Lines' = [Lines EXCEPT ![p] = r]
BY DEF Lines

LEMMA Stutters ==
  ASSUME restarts' = restarts, \A s \in Port : WaitingLine(s)' = WaitingLine(s)
  PROVE  UNCHANGED Contract!vars
<1>1. Lines' = Lines
  BY DEF Lines
<1>2. QED
  BY <1>1 DEF Contract!vars, Lines

LEMMA Joins ==
  ASSUME restarts' = restarts, NEW p \in Port, NEW c \in Serial,
         \A s \in Port \ {p} : WaitingLine(s)' = WaitingLine(s),
         WaitingLine(p)' = Append(WaitingLine(p), c),
         \A i \in 1 .. Len(WaitingLine(p)) : WaitingLine(p)[i] # c
  PROVE  Contract!Next
<1>1. /\ Lines[p] = WaitingLine(p)
      /\ Lines' = [Lines EXCEPT ![p] = Append(WaitingLine(p), c)]
  BY LinesChange
<1>2. Contract!Join(c, p)
  <2>1. ~ Contract!In(c, p)
    BY <1>1 DEF Contract!In, Lines
  <2>2. Lines' = [Lines EXCEPT ![p] = Append(@, c)]
    BY <1>1
  <2>3. QED
    BY <2>1, <2>2 DEF Contract!Join, Lines
<1>3. QED
  BY <1>2 DEF Contract!Next

LEMMA Leaves ==
  ASSUME restarts' = restarts, NEW p \in Port, NEW c \in Serial,
         \A s \in Port \ {p} : WaitingLine(s)' = WaitingLine(s),
         NEW i \in 1 .. Len(WaitingLine(p)), WaitingLine(p)[i] = c,
         WaitingLine(p)' = Without(WaitingLine(p), i)
  PROVE  Contract!Next
<1>1. /\ Lines[p] = WaitingLine(p)
      /\ Lines' = [Lines EXCEPT ![p] = Without(WaitingLine(p), i)]
  BY LinesChange
<1>2. Contract!Leave(c, p)
  <2>1. i \in 1 .. Len(Lines[p]) /\ Lines[p][i] = c
    BY <1>1
  <2>2. Lines' = [Lines EXCEPT ![p] = SubSeq(@, 1, i - 1) \o SubSeq(@, i + 1, Len(@))]
    BY <1>1 DEF Without
  <2>3. QED
    BY <2>1, <2>2 DEF Contract!Leave, Lines
<1>3. QED
  BY <1>2 DEF Contract!Next

LEMMA Serves ==
  ASSUME restarts' = restarts, NEW p \in Port,
         \A s \in Port \ {p} : WaitingLine(s)' = WaitingLine(s),
         WaitingLine(p) # <<>>, WaitingLine(p)' = Tail(WaitingLine(p))
  PROVE  Contract!Next
<1>1. /\ Lines[p] = WaitingLine(p)
      /\ Lines' = [Lines EXCEPT ![p] = Tail(WaitingLine(p))]
  BY LinesChange
<1>2. Contract!Admit(p)
  <2>1. Lines[p] # <<>>
    BY <1>1
  <2>2. Lines' = [Lines EXCEPT ![p] = Tail(@)]
    BY <1>1
  <2>3. QED
    BY <2>1, <2>2 DEF Contract!Admit, Lines
<1>3. QED
  BY <1>2 DEF Contract!Next

Held == \A s \in Port : Ordered(s)

Conforms == Orderly' /\ Held' /\ [Contract!Next]_Contract!vars

\* the commands that are due stay on the connection
LEMMA DueStays ==
  ASSUME TypeOK, TypeOK', WireInv, NEW t \in Task, NEW k, Resumes(t, k),
         Due(t)' => Len(wire') = Len(wire) - k + 1,
         \A u \in Task : Due(u) => \E i \in 1 .. Len(wire) : wire[i] = u
  PROVE  \A u \in Task : Due(u)' => \E i \in 1 .. Len(wire') : wire'[i] = u
<1>1. Len(wire) \in Nat /\ Len(wire') \in Nat /\ k \in {0, 1}
  BY WireLength, LenProperties DEF TypeOK, Resumes
<1>2. ASSUME Due(t)'  PROVE \E i \in 1 .. Len(wire') : wire'[i] = t
  <2>1. Len(wire') \in 1 .. Len(wire') /\ Len(wire') > Len(wire) - k
    <3>1. Len(wire) - k >= 0
      BY <1>1 DEF Resumes
    <3>2. Len(wire') = Len(wire) - k + 1
      BY <1>2
    <3>3. QED
      BY <1>1, <3>1, <3>2
  <2>2. wire'[Len(wire')] = t
    BY <2>1 DEF Resumes
  <2>3. QED
    BY <2>1, <2>2
<1>3. ASSUME NEW u \in Task \ {t}, Due(u)'  PROVE \E i \in 1 .. Len(wire') : wire'[i] = u
  <2>1. PICK i \in 1 .. Len(wire) : wire[i] = u
    BY <1>3 DEF Due, Resumes
  <2>2. i > k
    BY <1>1, <2>1 DEF Resumes
  <2>3. i - k \in 1 .. Len(wire) - k /\ (i - k) + k = i /\ i - k \in 1 .. Len(wire')
    BY <1>1, <2>2 DEF Resumes
  <2>4. wire'[i - k] = wire[(i - k) + k]
    BY <2>3 DEF Resumes
  <2>5. QED
    BY <2>1, <2>3, <2>4
<1>4. QED
  BY <1>2, <1>3

LEMMA OrderlyKept ==
  ASSUME Orderly, IInv', SerialInv', stranded' = stranded,
         NEW t \in Task, NEW k, Resumes(t, k), Due(t)' => Len(wire') = Len(wire) - k + 1,
         \A s \in Port : \A c \in Unbroken(s) :
           /\ c \in members'[s] => c \in members[s] \/ ~ Unlisting(c, s)
           /\ task'[t].at = "unlist" /\ Queueing(t, c, s)' => c \notin members'[s]
  PROVE  Orderly'
<1>1. TypeOK /\ TypeOK' /\ WireInv
  BY OrderlyFacts DEF IInv
<1>2. ASSUME NEW s \in Port, NEW c \in Unbroken(s), Unlisting(c, s)'  PROVE c \notin members'[s]
  <2>1. CASE task'[t].at = "unlist" /\ Queueing(t, c, s)'
    BY <2>1
  <2>2. CASE ~ (task'[t].at = "unlist" /\ Queueing(t, c, s)')
    <3>1. PICK i \in 1 .. Len(wire') : AwaitsAt(i, "unlist", c, s)'
      BY <1>2 DEF Unlisting
    <3>2. i + k \in 1 .. Len(wire) /\ AwaitsAt(i + k, "unlist", c, s)
      BY <1>1, <2>2, <3>1, AwaitsBefore
    <3>3. Unlisting(c, s)
      BY <3>2 DEF Unlisting
    <3>4. c \notin members[s]
      BY <3>3, OrderlyFacts
    <3>5. QED
      BY <3>3, <3>4
  <2>3. QED
    BY <2>1, <2>2
<1>3. \A u \in Task : Due(u)' => \E i \in 1 .. Len(wire') : wire'[i] = u
  BY <1>1, DueStays DEF Orderly
<1>4. QED
  BY <1>2, <1>3 DEF Orderly, Unbroken

\* the servers the step is not about
LEMMA OtherLines ==
  ASSUME Orderly, Orderly', Held, NEW t \in Task, NEW k, Resumes(t, k), NEW P \in SUBSET Port,
         stranded' = stranded,
         \A s \in P : line'[s] = line[s],
         \A s \in P : \A c \in Unbroken(s) :
           /\ Present(c, s) => (c \in members'[s] <=> c \in members[s])
           /\ ~ (task[t].at = "push" /\ Queueing(t, c, s))
           /\ ~ (task'[t].at = "push" /\ Queueing(t, c, s)')
  PROVE  \A s \in P : Ordered(s)' /\ WaitingLine(s)' = WaitingLine(s)
<1>1. ASSUME NEW s \in P  PROVE Ordered(s)' /\ WaitingLine(s)' = WaitingLine(s)
  <2>1. s \in Port /\ Ordered(s)
    BY DEF Held
  <2>2. QED
    BY <2>1, PlainStep
<1>2. QED
  BY <1>1

LEMMA NoLineMoves ==
  ASSUME Orderly, Orderly', Held, NEW t \in Task, NEW k, Resumes(t, k),
         restarts' = restarts, stranded' = stranded,
         \A s \in Port : line'[s] = line[s],
         \A s \in Port : \A c \in Unbroken(s) :
           /\ Present(c, s) => (c \in members'[s] <=> c \in members[s])
           /\ ~ (task[t].at = "push" /\ Queueing(t, c, s))
           /\ ~ (task'[t].at = "push" /\ Queueing(t, c, s)')
  PROVE  Conforms
<1>1. \A s \in Port : Ordered(s)' /\ WaitingLine(s)' = WaitingLine(s)
  BY OtherLines
<1>2. Held'
  BY <1>1 DEF Held
<1>3. UNCHANGED Contract!vars
  BY <1>1, Stutters
<1>4. QED
  BY <1>2, <1>3 DEF Conforms

LEMMA AwaitedLength ==
  ASSUME TypeOK, NEW t \in Task
  PROVE  /\ Await(t) => Len(wire') = Len(wire) - 0 + 1
         /\ Reissue(t) => Len(wire') = Len(wire) - 1 + 1
<1>1. wire \in Seq(Task) /\ Len(wire) \in Nat
  BY LenProperties DEF TypeOK
<1>2. ASSUME Await(t)  PROVE Len(wire') = Len(wire) - 0 + 1
  BY <1>1, <1>2, AppendProperties DEF Await
<1>3. ASSUME Reissue(t)  PROVE Len(wire') = Len(wire) - 1 + 1
  <2>1. wire # <<>> /\ Tail(wire) \in Seq(Task) /\ Len(Tail(wire)) = Len(wire) - 1
    BY <1>1, <1>3, HeadTailProperties DEF Reissue, FirstOnWire
  <2>2. QED
    BY <1>1, <1>3, <2>1, AppendProperties DEF Reissue
<1>4. QED
  BY <1>2, <1>3

\* SADD
LEMMA AddConforms ==
  ASSUME Orderly, IInv', SerialInv', Held, NEW t \in Request, NEW d \in Player,
         NEW p \in Port, AddToQueue(t, d, p)
  PROVE  Conforms
<1>0. t \in Task /\ TypeOK /\ TypeOK' /\ WireInv /\ Idle.at = "start"
  BY OrderlyFacts DEF Task, IInv, Idle
<1>1. /\ task[t] = Idle /\ Begin(t, "add", "push", d, p) /\ Await(t) /\ Accepts("add", t, d)
      /\ members' = [members EXCEPT ![p] = @ \cup {d}] /\ d \notin members[p]
      /\ line' = line /\ stranded' = stranded /\ restarts' = restarts
  BY DEF AddToQueue, Accepts, ghosts
<1>2. /\ \A u \in Task \ {t} : task'[u] = task[u]
      /\ task'[t].at = "push" /\ task'[t].who = d /\ task'[t].port = p
  BY <1>0, <1>1, OthersUntouched, AfterBegin
<1>3. Resumes(t, 0) /\ \A i \in 1 .. Len(wire) : wire[i] # t
  BY <1>0, <1>1, <1>2, OffWire, WireMoves
<1>4. /\ \A s \in Port \ {p} : members'[s] = members[s]
      /\ members'[p] = members[p] \cup {d}
  BY <1>0, <1>1 DEF TypeOK
<1>5. d \in Serial => ~ InFlight(d)
  BY <1>1 DEF Accepts
<1>6. ASSUME NEW s \in Port, d \in Unbroken(s)  PROVE ~ Unlisting(d, s) /\ ~ Pushing(d, s)
  BY <1>0, <1>5, <1>6, OrderlyFacts, NoRequest DEF Unlisting, Pushing, Unbroken
<1>7. Orderly'
  <2>1. \A s \in Port : \A c \in Unbroken(s) :
           c \in members'[s] => c \in members[s] \/ ~ Unlisting(c, s)
    BY <1>4, <1>6
  <2>2. Len(wire') = Len(wire) - 0 + 1
    BY <1>0, <1>1, AwaitedLength
  <2>3. QED
    BY <1>0, <1>1, <1>2, <1>3, <2>1, <2>2, OrderlyKept
<1>8. CASE d \notin Unbroken(p)
  <2>1. \A s \in Port : \A c \in Unbroken(s) :
           /\ Present(c, s) => (c \in members'[s] <=> c \in members[s])
           /\ ~ (task[t].at = "push" /\ Queueing(t, c, s))
           /\ ~ (task'[t].at = "push" /\ Queueing(t, c, s)')
    BY <1>0, <1>1, <1>2, <1>4, <1>8 DEF Queueing
  <2>2. QED
    BY <1>0, <1>1, <1>3, <1>7, <2>1, NoLineMoves
<1>9. CASE d \in Unbroken(p)
  <2>1. \A s \in Port \ {p} : Ordered(s)' /\ WaitingLine(s)' = WaitingLine(s)
    <3>1. \A s \in Port \ {p} : \A c \in Unbroken(s) :
             /\ Present(c, s) => (c \in members'[s] <=> c \in members[s])
             /\ ~ (task[t].at = "push" /\ Queueing(t, c, s))
             /\ ~ (task'[t].at = "push" /\ Queueing(t, c, s)')
      BY <1>0, <1>1, <1>2, <1>4 DEF Queueing
    <3>2. QED
      BY <1>0, <1>1, <1>3, <1>7, <3>1, OtherLines
  <2>2. PICK V : V = Waiters(p)
    OBVIOUS
  <2>3. PICK h : Moves(h, V, p)
    BY <1>0, <1>1, <1>3, SameListMoves
  <2>4. d \notin V
    BY <1>1, <2>2 DEF Waiters
  <2>5. /\ \A c \in Unbroken(p) \ {d} : Pushing(c, p)' <=> Pushing(c, p)
        /\ Pushing(d, p)'
    <3>1. \A c \in Unbroken(p) \ {d} : ~ Queueing(t, c, p)'
      BY <1>2 DEF Queueing
    <3>2. ~ (0 = 1)
      OBVIOUS
    <3>3. Pushing(d, p)'
      BY <1>0, <1>1, <1>2, AwaitedLast DEF Queueing, Pushing
    <3>4. QED
      BY <1>0, <1>3, <3>1, <3>2, <3>3, PushingKept
  <2>6. Waiters(p)' = V \cup {d}
    <3>1. \A c : Listed(c, p)' <=> Listed(c, p)
      BY <1>1 DEF Listed
    <3>2. Waiters(p)' = {c \in Unbroken(p) \cap members'[p] : Listed(c, p)' \/ Pushing(c, p)'}
      BY <1>1 DEF Waiters, Unbroken
    <3>3. V = {c \in Unbroken(p) \cap members[p] : Listed(c, p) \/ Pushing(c, p)}
      BY <2>2 DEF Waiters
    <3>4. QED
      BY <1>1, <1>4, <1>9, <2>5, <3>1, <3>2, <3>3 DEF Unbroken
  <2>7. PICK n \in Nat : /\ StandsAt(d, p, n)'
                         /\ \A c \in V : \A m \in Nat : StandsAt(c, p, m)' => m < n
    <3>1. Len(line[p]) \in Nat /\ Len(wire) \in Nat /\ wire \in Seq(Task)
      BY <1>0, LenProperties DEF TypeOK
    <3>2. Len(wire') = Len(wire) + 1 /\ wire'[Len(wire) + 1] = t
      BY <1>0, <1>1, <3>1, AppendProperties DEF Await
    <3>3. PICK L \in Nat, w \in Nat : /\ L = Len(line[p]) /\ L = Len(line'[p])
                                     /\ w = Len(wire) + 1 /\ w = Len(wire') /\ w \in 1 .. w
      BY <1>1, <3>1, <3>2
    <3>4. PICK n \in Nat : n = L + w /\ n - L = w
      OBVIOUS
    <3>5. AwaitsAt(w, "push", d, p)'
      BY <1>2, <3>2, <3>3 DEF AwaitsAt, Queueing
    <3>6. StandsAt(d, p, n)'
      BY <3>3, <3>4, <3>5 DEF StandsAt
    <3>7. ASSUME NEW c \in V, NEW m \in Nat, StandsAt(c, p, m)'
          PROVE  m < n
      <4>1. \/ m \in 1 .. L
            \/ m - L \in 1 .. w /\ AwaitsAt(m - L, "push", c, p)'
        BY <3>3, <3>7 DEF StandsAt
      <4>2. ASSUME m - L = w, AwaitsAt(m - L, "push", c, p)'  PROVE FALSE
        <5>1. AwaitsAt(w, "push", c, p)'
          BY <4>2
        <5>2. c = d
          BY <3>5, <5>1 DEF AwaitsAt, Queueing
        <5>3. QED
          BY <2>4, <5>2
      <4>3. m \in 1 .. L \/ (m - L \in 1 .. w /\ m - L # w)
        BY <4>1, <4>2
      <4>4. w \in 1 .. w
        BY <3>3
      <4>5. QED
        BY ONLY <3>4, <4>3, <4>4, m \in Nat, n \in Nat, L \in Nat, w \in Nat
    <3>8. QED
      BY <3>6, <3>7
  <2>8. /\ Ordered(p)' /\ WaitingLine(p)' = Append(WaitingLine(p), d)
        /\ \A i \in 1 .. Len(WaitingLine(p)) : WaitingLine(p)[i] # d
    BY <1>7, <1>9, <2>2, <2>3, <2>4, <2>6, <2>7, LineGrows DEF Held
  <2>9. Contract!Next
    BY <1>1, <1>7, <1>9, <2>1, <2>8, Joins DEF Unbroken
  <2>10. Held'
    BY <2>1, <2>8 DEF Held
  <2>11. QED
    BY <1>7, <2>9, <2>10 DEF Conforms
<1>10. QED
  BY <1>8, <1>9

\* RPUSH: its player goes from the first place on the connection to the last
\* on the list, which is the same place
LEMMA PushConforms ==
  ASSUME Orderly, IInv', SerialInv', Held, NEW t \in Request, Rpush(t)
  PROVE  Conforms
<1> DEFINE p == task[t].port
           d == task[t].who
<1>0. t \in Task /\ TypeOK /\ TypeOK' /\ WireInv
  BY OrderlyFacts DEF Task, IInv
<1>1. /\ task[t].at = "push" /\ Goto(t, "notify") /\ Reissue(t)
      /\ line' = [line EXCEPT ![p] = Append(@, d)]
      /\ members' = members /\ stranded' = stranded /\ restarts' = restarts
  BY DEF Rpush, ghosts
<1>2. /\ \A u \in Task \ {t} : task'[u] = task[u]
      /\ task'[t].at = "notify" /\ task'[t].who = d /\ task'[t].port = p
      /\ p \in Port /\ d \in Player
  BY <1>0, <1>1, OthersUntouched, AfterGoto, TaskKind DEF Engaged, Where
<1>3. Resumes(t, 1)
  BY <1>0, <1>1, <1>2, WireMoves
<1>4. Orderly'
  BY <1>0, <1>1, <1>2, <1>3, OrderlyKept DEF Due
<1>5. PICK P, D : P = p /\ D = d
  OBVIOUS
<1>6. \A c, s : Queueing(t, c, s) <=> c = D /\ s = P
  BY <1>5 DEF Queueing
<1> HIDE DEF p, d
<1>7. \A s \in Port \ {P} : Ordered(s)' /\ WaitingLine(s)' = WaitingLine(s)
  <2>1. \A s \in Port \ {P} : line'[s] = line[s]
    BY <1>0, <1>1, <1>5 DEF TypeOK
  <2>2. QED
    BY <1>0, <1>1, <1>2, <1>3, <1>4, <1>6, <2>1, OtherLines
<1>8. PICK L \in Nat : /\ L = Len(line[P]) /\ Len(line'[P]) = L + 1
                       /\ line'[P][L + 1] = D
                       /\ \A i \in 1 .. L : line'[P][i] = line[P][i]
  <2>1. line[P] \in Seq(Player) /\ line'[P] = Append(line[P], D)
    BY <1>0, <1>1, <1>2, <1>5 DEF TypeOK
  <2>2. Len(line[P]) \in Nat /\ D \in Player
    BY <1>2, <1>5, <2>1, LenProperties
  <2>3. QED
    BY <2>1, <2>2, AppendProperties
<1>9. wire[1] = t /\ Len(wire) \in Nat /\ Len(wire) > 0 /\ AwaitsAt(1, "push", D, P)
  BY <1>0, <1>1, <1>3, <1>6, WireLength DEF Resumes, AwaitsAt
<1>10. ASSUME NEW c \in Unbroken(P)  PROVE Present(c, P)' <=> Present(c, P)
  <2>1. CASE c = D
    <3>1. Pushing(c, P)
      BY <1>9, <2>1 DEF Pushing
    <3>2. Listed(c, P)'
      BY <1>8, <2>1 DEF Listed
    <3>3. QED
      BY <3>1, <3>2 DEF Present
  <2>2. CASE c # D
    <3>1. Pushing(c, P)' <=> Pushing(c, P)
      BY <1>0, <1>2, <1>3, <1>6, <2>2, PushingKept
    <3>2. Listed(c, P)' <=> Listed(c, P)
      <4>1. \A i \in 1 .. L + 1 : i \in 1 .. L \/ i = L + 1
        OBVIOUS
      <4>2. \A i \in 1 .. L : i \in 1 .. L + 1
        OBVIOUS
      <4>3. QED
        BY <1>8, <2>2, <4>1, <4>2 DEF Listed
    <3>3. QED
      BY <3>1, <3>2 DEF Present
  <2>3. QED
    BY <2>1, <2>2
<1>11. PICK V : V = Waiters(P)
  OBVIOUS
<1>12. Waiters(P)' = V
  BY <1>1, <1>10, <1>11 DEF Waiters, Unbroken, Present
<1> DEFINE h == [n \in Nat |-> n]
<1>13. Moves(h, V, P)
  <2>1. \A n \in Nat : h[n] = n
    OBVIOUS
  <2> HIDE DEF h
  <2>2. ASSUME NEW c \in V, NEW n \in Nat, StandsAt(c, P, n)
        PROVE  StandsAt(c, P, n)'
    <3>1. CASE n \in 1 .. L /\ line[P][n] = c
      <4>1. n \in 1 .. Len(line'[P]) /\ line'[P][n] = c
        BY <1>8, <3>1
      <4>2. QED
        BY <4>1 DEF StandsAt
    <3>2. CASE n - L \in 1 .. Len(wire) /\ AwaitsAt(n - L, "push", c, P)
      <4>1. CASE n - L = 1
        <5>1. AwaitsAt(1, "push", c, P)
          BY <3>2, <4>1
        <5>2. c = D
          BY <1>9, <5>1 DEF AwaitsAt, Queueing
        <5>3. n = L + 1 /\ n \in 1 .. L + 1
          BY <4>1
        <5>4. QED
          BY <1>8, <5>2, <5>3 DEF StandsAt
      <4>2. CASE n - L # 1
        <5>1. PICK j \in 1 + 1 .. Len(wire) : j = n - L
          BY <1>9, <3>2, <4>2
        <5>2. j - 1 \in 1 .. Len(wire') /\ AwaitsAt(j - 1, "push", c, P)'
          BY <1>0, <1>3, <3>2, <5>1, AwaitsAfter
        <5>3. n - (L + 1) = j - 1
          BY <5>1
        <5>4. QED
          BY <1>8, <5>2, <5>3 DEF StandsAt
      <4>3. QED
        BY <4>1, <4>2
    <3>3. QED
      BY <1>8, <2>2, <3>1, <3>2 DEF StandsAt
  <2>3. QED
    BY <2>1, <2>2 DEF Moves
<1> HIDE DEF h
<1>14. Ordered(P)' /\ WaitingLine(P)' = WaitingLine(P)
  BY <1>2, <1>4, <1>5, <1>11, <1>12, <1>13, LineStays DEF Held
<1>15. Held' /\ \A s \in Port : WaitingLine(s)' = WaitingLine(s)
  BY <1>7, <1>14 DEF Held
<1>16. UNCHANGED Contract!vars
  BY <1>1, <1>15, Stutters
<1>17. QED
  BY <1>4, <1>15, <1>16 DEF Conforms

\* SREM by a request: a waiter leaves
LEMMA SremConforms ==
  ASSUME Orderly, IInv', SerialInv', Held, NEW t \in Task, NEW D, NEW P \in Port,
         task[t].at \notin {"push", "unlist", "rank", "unset", "notify"},
         \A u \in Task \ {t} : task'[u] = task[u],
         task'[t].at = "unlist", task'[t].who = D, task'[t].port = P, Await(t),
         D \in members[P], members' = [members EXCEPT ![P] = @ \ {D}], line' = line,
         UNCHANGED <<stranded, restarts>>
  PROVE  Conforms
<1>0. TypeOK /\ TypeOK' /\ WireInv
  BY OrderlyFacts DEF IInv
<1>1. Resumes(t, 0)
  BY <1>0, OffWire, WireMoves
<1>2. /\ \A s \in Port \ {P} : members'[s] = members[s]
      /\ members'[P] = members[P] \ {D}
  BY <1>0 DEF TypeOK
<1>3. \A c, s : Queueing(t, c, s)' <=> c = D /\ s = P
  BY DEF Queueing
<1>4. Orderly'
  <2>1. \A s \in Port : \A c \in Unbroken(s) :
           /\ c \in members'[s] => c \in members[s] \/ ~ Unlisting(c, s)
           /\ task'[t].at = "unlist" /\ Queueing(t, c, s)' => c \notin members'[s]
    BY <1>2, <1>3
  <2>2. QED
    BY <1>0, <1>1, <2>1, AwaitedLength, OrderlyKept
<1>5. PICK V : V = Waiters(P)
  OBVIOUS
<1>6. CASE D \notin V
  <2>1. \A s \in Port : \A c \in Unbroken(s) :
           Present(c, s) => (c \in members'[s] <=> c \in members[s])
    BY <1>2, <1>5, <1>6 DEF Waiters, Present
  <2>2. QED
    BY <1>1, <1>4, <2>1, NoLineMoves
<1>7. CASE D \in V
  <2>1. \A s \in Port \ {P} : Ordered(s)' /\ WaitingLine(s)' = WaitingLine(s)
    <3>1. \A s \in Port \ {P} : \A c \in Unbroken(s) :
             Present(c, s) => (c \in members'[s] <=> c \in members[s])
      BY <1>2
    <3>2. QED
      BY <1>1, <1>4, <3>1, OtherLines
  <2>2. PICK h : Moves(h, V \ {D}, P)
    BY <1>0, <1>1, SameListMoves
  <2>3. \A c : Present(c, P)' <=> Present(c, P)
    <3>1. \A c : Listed(c, P)' <=> Listed(c, P)
      BY DEF Listed
    <3>2. \A c : Pushing(c, P)' <=> Pushing(c, P)
      BY <1>0, <1>1, PushingKept
    <3>3. QED
      BY <3>1, <3>2 DEF Present
  <2>4. Waiters(P)' = V \ {D}
    BY <1>2, <1>5, <2>3 DEF Waiters, Unbroken, Present
  <2>5. /\ Ordered(P)'
        /\ \E i \in 1 .. Len(WaitingLine(P)) :
             WaitingLine(P)[i] = D /\ WaitingLine(P)' = Without(WaitingLine(P), i)
    BY <1>4, <1>5, <1>7, <2>2, <2>4, LineShrinks DEF Held
  <2>6. D \in Serial
    BY <1>5, <1>7 DEF Waiters, Unbroken
  <2>7. PICK n : n = Len(WaitingLine(P))
    OBVIOUS
  <2>8. PICK i \in 1 .. n :
          WaitingLine(P)[i] = D /\ WaitingLine(P)' = Without(WaitingLine(P), i)
    BY <2>5, <2>7
  <2>9. Contract!Next
    BY <1>4, <2>1, <2>6, <2>7, <2>8, Leaves
  <2>10. Held'
    BY <2>1, <2>5 DEF Held
  <2>11. QED
    BY <1>4, <2>9, <2>10 DEF Conforms
<1>8. QED
  BY <1>6, <1>7


\* LREM of D at P takes D's places and moves the others up
Taken(D, P) ==
  /\ P \in Port /\ \A s \in Port \ {P} : line'[s] = line[s]
  /\ \A i \in 1 .. Len(line'[P]) : /\ line'[P][i] # D
                                  /\ \E j \in 1 .. Len(line[P]) : line'[P][i] = line[P][j]
  /\ \E g : ListMoves(g, Player \ {D}, P)

LEMMA LremTakes ==
  ASSUME TypeOK, NEW t \in Task, Lrem(t)
  PROVE  Taken(task[t].who, task[t].port)
<1> DEFINE P == task[t].port
           D == task[t].who
           q == line[P]
<1>1. P \in Port /\ q \in Seq(Player) /\ Len(q) \in Nat
  BY TaskKind, LenProperties DEF Lrem, TypeOK, Engaged, Where
<1>2. PICK n \in 0 .. Len(q) : \E f \in InOrder(Kept(q, D), n) :
        line' = [line EXCEPT ![P] = [i \in 1 .. n |-> q[f[i]]]]
  BY DEF Lrem
<1>3. PICK f \in InOrder(Kept(q, D), n) :
        line' = [line EXCEPT ![P] = [i \in 1 .. n |-> q[f[i]]]]
  BY <1>2
<1>4. n \in Nat
  BY <1>1
<1>5. /\ line'[P] = [i \in 1 .. n |-> q[f[i]]]
      /\ \A s \in Port \ {P} : line'[s] = line[s]
  BY <1>1, <1>3 DEF TypeOK
<1>6. Len(line'[P]) = n
  BY <1>4, <1>5
<1>7. /\ \A i \in 1 .. n : f[i] \in 1 .. Len(q) /\ q[f[i]] # D
      /\ \A i, j \in 1 .. n : i < j => f[i] < f[j]
      /\ \A k \in 1 .. Len(q) : q[k] # D => \E i \in 1 .. n : f[i] = k
  BY <1>3 DEF InOrder, Kept
<1> DEFINE g == [k \in 1 .. Len(q) |-> CHOOSE i \in 1 .. n : f[i] = k]
<1>8. ASSUME NEW k \in 1 .. Len(q), q[k] # D
      PROVE  g[k] \in 1 .. n /\ f[g[k]] = k
  BY <1>7, <1>8
<1> HIDE DEF g
<1>9. ASSUME NEW i \in 1 .. Len(q), NEW j \in 1 .. Len(q), q[i] # D, q[j] # D, i < j
      PROVE  g[i] < g[j]
  <2>1. g[i] \in 1 .. n /\ f[g[i]] = i /\ g[j] \in 1 .. n /\ f[g[j]] = j
    BY <1>8, <1>9
  <2>2. ~ (g[j] < g[i]) /\ g[i] # g[j]
    <3>1. ASSUME g[j] < g[i]  PROVE FALSE
      <4>1. f[g[j]] < f[g[i]]
        BY <1>7, <2>1, <3>1
      <4>2. QED
        BY <1>1, <1>9, <2>1, <4>1
    <3>2. QED
      BY <1>1, <1>9, <2>1, <3>1
  <2>3. QED
    BY <1>4, <2>1, <2>2
<1>10. ListMoves(g, Player \ {D}, P)
  <2>1. ASSUME NEW i \in 1 .. Len(line[P]), line[P][i] \in Player \ {D}
        PROVE  g[i] \in 1 .. Len(line'[P]) /\ line'[P][g[i]] = line[P][i]
    BY <1>5, <1>6, <1>8, <2>1
  <2>2. QED
    BY <1>9, <2>1 DEF ListMoves
<1>11. QED
  <2>1. \A i \in 1 .. Len(line'[P]) : /\ line'[P][i] # D
                                     /\ \E j \in 1 .. Len(line[P]) : line'[P][i] = line[P][j]
    BY <1>5, <1>6, <1>7
  <2>2. QED
    BY <1>1, <1>5, <1>10, <2>1 DEF Taken

\* LREM: nobody who waits is taken off
LEMMA LremConforms ==
  ASSUME Orderly, IInv', SerialInv', Held, NEW t \in Request, Lrem(t)
  PROVE  Conforms
<1>0. t \in Task /\ TypeOK /\ TypeOK' /\ WireInv
  BY OrderlyFacts DEF Task, IInv
<1>1. /\ task[t].at = "unlist" /\ Goto(t, "notify") /\ Reissue(t)
      /\ members' = members /\ stranded' = stranded /\ restarts' = restarts
  BY DEF Lrem, ghosts
<1>2. /\ \A u \in Task \ {t} : task'[u] = task[u]
      /\ task'[t].at = "notify"
  BY <1>0, <1>1, OthersUntouched, AfterGoto
<1>3. Resumes(t, 1)
  BY <1>0, <1>1, <1>2, WireMoves
<1>4. Orderly'
  BY <1>0, <1>1, <1>2, <1>3, OrderlyKept DEF Due
<1>5. PICK P, D : P = task[t].port /\ D = task[t].who
  OBVIOUS
<1>6. Taken(D, P) /\ P \in Port /\ \A s \in Port \ {P} : line'[s] = line[s]
  <2>1. Taken(D, P)
    BY <1>0, <1>5, LremTakes
  <2>2. QED
    BY <2>1 DEF Taken
<1>7. \A s \in Port \ {P} : Ordered(s)' /\ WaitingLine(s)' = WaitingLine(s)
  BY <1>0, <1>1, <1>2, <1>3, <1>4, <1>6, OtherLines
<1>8. PICK V : V = Waiters(P)
  OBVIOUS
<1>9. V \subseteq Player \ {D}
  <2>1. D \in Unbroken(P) => D \notin members[P]
    <3>1. wire[1] = t /\ 1 \in 1 .. Len(wire)
      BY <1>0, <1>3, WireLength DEF Resumes
    <3>2. Unlisting(D, P)
      BY <1>1, <1>5, <3>1 DEF Unlisting, AwaitsAt, Queueing
    <3>3. QED
      BY <1>6, <3>2, OrderlyFacts
  <2>2. QED
    BY <1>8, <2>1, PlayerAssumption DEF Waiters, Unbroken
<1>10. PICK g : ListMoves(g, Player \ {D}, P)
  BY <1>6 DEF Taken
<1>11. PICK h : Moves(h, V, P)
  <2>1. ListMoves(g, V, P)
    BY <1>9, <1>10 DEF ListMoves
  <2>2. QED
    BY <1>0, <1>1, <1>3, <1>6, <2>1, ShiftMoves
<1>12. ASSUME NEW c \in Unbroken(P) \cap members[P]  PROVE Present(c, P)' <=> Present(c, P)
  <2>1. Pushing(c, P)' <=> Pushing(c, P)
    BY <1>0, <1>1, <1>2, <1>3, PushingKept
  <2>2. Listed(c, P)' => Listed(c, P)
    BY <1>6 DEF Listed, Taken
  <2>3. Listed(c, P) => Listed(c, P)'
    <3>1. SUFFICES ASSUME Listed(c, P)  PROVE Listed(c, P)'
      OBVIOUS
    <3>2. c \in V
      BY <1>8, <3>1 DEF Waiters
    <3>3. PICK i \in 1 .. Len(line[P]) : line[P][i] = c
      BY <3>1 DEF Listed
    <3>4. g[i] \in 1 .. Len(line'[P]) /\ line'[P][g[i]] = c
      BY <1>9, <1>10, <3>2, <3>3 DEF ListMoves
    <3>5. PICK j : j = g[i]
      OBVIOUS
    <3>6. QED
      BY <3>4, <3>5 DEF Listed
  <2>4. QED
    BY <2>1, <2>2, <2>3 DEF Present
<1>13. Waiters(P)' = V
  BY <1>1, <1>8, <1>12 DEF Waiters, Unbroken, Present
<1>14. Ordered(P)' /\ WaitingLine(P)' = WaitingLine(P)
  BY <1>4, <1>6, <1>8, <1>11, <1>13, LineStays DEF Held
<1>15. Held' /\ \A s \in Port : WaitingLine(s)' = WaitingLine(s)
  BY <1>7, <1>14 DEF Held
<1>16. UNCHANGED Contract!vars
  BY <1>1, <1>15, Stutters
<1>17. QED
  BY <1>4, <1>15, <1>16 DEF Conforms

\* LPOP: the head of the list is served, if it is a waiter
LEMMA PopConforms ==
  ASSUME Orderly, IInv', SerialInv', Held, NEW t \in Tick, Lpop(t)
  PROVE  Conforms
<1>0. t \in Task /\ TypeOK /\ TypeOK' /\ WireInv
  BY OrderlyFacts DEF Task, IInv
<1>1. PICK P : P = task[t].port
  OBVIOUS
<1>2. /\ task[t].at = "slots" /\ Await(t) /\ line[P] # <<>>
      /\ line' = [line EXCEPT ![P] = Tail(@)]
      /\ task' = [task EXCEPT ![t].at = "unset", ![t].who = Head(line[P])]
      /\ members' = members /\ stranded' = stranded /\ restarts' = restarts
  BY <1>1 DEF Lpop, ghosts
<1>3. P \in Port /\ line[P] \in Seq(Player)
  BY <1>0, <1>1, <1>2, TaskKind DEF TypeOK, Seeking
<1>4. (\A u \in Task \ {t} : task'[u] = task[u]) /\ task'[t].at = "unset"
  <2>1. task'[t] = [task[t] EXCEPT !.at = "unset", !.who = Head(line[P])]
    BY <1>0, <1>2 DEF TypeOK
  <2>2. QED
    BY <1>0, <1>2, <2>1, TaskFields DEF TypeOK
<1>5. Resumes(t, 0)
  BY <1>0, <1>2, <1>4, OffWire, WireMoves
<1>6. Orderly'
  BY <1>0, <1>2, <1>4, <1>5, AwaitedLength, OrderlyKept
<1>7. line'[P] = Tail(line[P]) /\ \A s \in Port \ {P} : line'[s] = line[s]
  BY <1>0, <1>2, <1>3 DEF TypeOK
<1>8. \A s \in Port \ {P} : Ordered(s)' /\ WaitingLine(s)' = WaitingLine(s)
  BY <1>0, <1>2, <1>4, <1>5, <1>6, <1>7, OtherLines
<1>9. PICK L, D : /\ L \in Nat \ {0} /\ L = Len(line[P]) /\ D = line[P][1]
                  /\ Len(line'[P]) = L - 1
                  /\ \A j \in 1 .. L - 1 : line'[P][j] = line[P][j + 1]
  <2>1. Len(line[P]) \in Nat \ {0}
    BY <1>2, <1>3
  <2>2. /\ Len(line'[P]) = Len(line[P]) - 1
        /\ \A j \in 1 .. Len(line[P]) - 1 : line'[P][j] = line[P][j + 1]
    BY <1>2, <1>3, <1>7, TailShifts, ZenonT(60)
  <2>3. QED
    BY <2>1, <2>2
<1>10. PICK V : V = Waiters(P)
  OBVIOUS
<1>11. PICK h : Moves(h, V \ {D}, P)
  <2> DEFINE g == [i \in 1 .. L |-> i - 1]
  <2>1. ASSUME NEW i \in 1 .. L, line[P][i] \in V \ {D}
        PROVE  g[i] \in 1 .. L - 1 /\ line'[P][g[i]] = line[P][i]
    <3>1. i # 1
      BY <1>9, <2>1
    <3>2. i - 1 \in 1 .. L - 1 /\ (i - 1) + 1 = i
      BY <1>9, <3>1
    <3>3. QED
      BY <1>9, <3>2
  <2>2. \A i, j \in 1 .. L : i < j => g[i] < g[j]
    OBVIOUS
  <2> HIDE DEF g
  <2>3. ListMoves(g, V \ {D}, P)
    BY <1>9, <2>1, <2>2 DEF ListMoves
  <2>4. QED
    BY <1>0, <1>3, <1>5, <2>3, ShiftMoves
<1>12. \A c : Pushing(c, P)' <=> Pushing(c, P)
  BY <1>0, <1>4, <1>5, PushingKept
<1>13. ASSUME NEW c, c # D  PROVE Listed(c, P)' <=> Listed(c, P)
  <2>1. ASSUME Listed(c, P)'  PROVE Listed(c, P)
    <3>1. PICK j \in 1 .. L - 1 : line'[P][j] = c
      BY <1>9, <2>1 DEF Listed
    <3>2. j + 1 \in 1 .. L /\ line[P][j + 1] = c
      BY <1>9, <3>1
    <3>3. QED
      BY <1>9, <3>2 DEF Listed
  <2>2. ASSUME Listed(c, P)  PROVE Listed(c, P)'
    <3>1. PICK i \in 1 .. L : line[P][i] = c /\ i # 1
      BY <1>9, <1>13, <2>2 DEF Listed
    <3>2. i - 1 \in 1 .. L - 1 /\ (i - 1) + 1 = i
      BY <1>9, <3>1
    <3>3. i - 1 \in 1 .. Len(line'[P]) /\ line'[P][i - 1] = c
      BY <1>9, <3>1, <3>2
    <3>4. QED
      BY <3>3 DEF Listed
  <2>3. QED
    BY <2>1, <2>2
<1>14. Listed(D, P)
  BY <1>9 DEF Listed
<1>15. CASE D \notin V
  <2>1. Waiters(P)' = V
    <3>1. ASSUME NEW c \in Unbroken(P) \cap members[P]
          PROVE  Listed(c, P)' \/ Pushing(c, P)' <=> Listed(c, P) \/ Pushing(c, P)
      <4>1. c # D
        BY <1>10, <1>14, <1>15 DEF Waiters
      <4>2. QED
        BY <1>12, <1>13, <4>1
    <3>2. QED
      BY <1>2, <1>10, <3>1 DEF Waiters, Unbroken
  <2>2. V \ {D} = V
    BY <1>15
  <2>3. Moves(h, V, P)
    BY <1>11, <2>2
  <2>4. Ordered(P)' /\ WaitingLine(P)' = WaitingLine(P)
    BY <1>3, <1>6, <1>10, <2>1, <2>3, LineStays DEF Held
  <2>5. Held' /\ \A s \in Port : WaitingLine(s)' = WaitingLine(s)
    BY <1>8, <2>4 DEF Held
  <2>6. UNCHANGED Contract!vars
    BY <1>2, <2>5, Stutters
  <2>7. QED
    BY <1>6, <2>5, <2>6 DEF Conforms
<1>16. CASE D \in V
  <2>1. D \in Unbroken(P) /\ OnePlace(D, P)
    BY <1>3, <1>10, <1>16, OrderlyFacts DEF Waiters
  <2>2. ~ Pushing(D, P)
    BY <1>14, <2>1 DEF OnePlace, Joining, Pushing
  <2>3. ~ Listed(D, P)'
    <3>1. SUFFICES ASSUME NEW j \in 1 .. L - 1, line'[P][j] = D  PROVE FALSE
      BY <1>9 DEF Listed
    <3>2. j + 1 \in 1 .. L /\ 1 \in 1 .. L /\ line[P][j + 1] = D /\ j + 1 # 1
      BY <1>9, <3>1
    <3>3. QED
      BY <1>9, <2>1, <3>2 DEF OnePlace, Single
  <2>4. Waiters(P)' = V \ {D}
    <3>1. ~ Pushing(D, P)'
      BY <1>12, <2>2
    <3>2. \A c \in Unbroken(P) \cap members[P] : c # D =>
            (Listed(c, P)' \/ Pushing(c, P)' <=> Listed(c, P) \/ Pushing(c, P))
      BY <1>12, <1>13
    <3>3. QED
      BY <1>2, <1>10, <2>3, <3>1, <3>2 DEF Waiters, Unbroken
  <2>5. StandsAt(D, P, 1) /\ \A c \in V \ {D} : ~ StandsAt(c, P, 1) /\ ~ StandsAt(c, P, 0)
    <3>1. 1 \in 1 .. L /\ 0 \notin 1 .. L
      BY <1>9
    <3>2. \A w \in Nat : 1 - L \notin 1 .. w /\ 0 - L \notin 1 .. w
      BY <1>9
    <3>3. Len(wire) \in Nat
      BY <1>0, WireLength
    <3>4. QED
      BY <1>9, <3>1, <3>2, <3>3 DEF StandsAt
  <2>6. /\ Ordered(P)'
        /\ WaitingLine(P) # <<>> /\ WaitingLine(P)' = Tail(WaitingLine(P))
    BY <1>3, <1>6, <1>10, <1>11, <1>16, <2>4, <2>5, LineServed DEF Held
  <2>7. Contract!Next
    BY <1>2, <1>3, <1>8, <2>6, Serves
  <2>8. Held'
    BY <1>8, <2>6 DEF Held
  <2>9. QED
    BY <1>6, <2>7, <2>8 DEF Conforms
<1>17. QED
  BY <1>15, <1>16

\* SREM by a tick: the player it takes out of the set does not wait any more
LEMMA UnsetConforms ==
  ASSUME Orderly, IInv', SerialInv', Held, NEW t \in Tick, TickSrem(t)
  PROVE  Conforms
<1> DEFINE p == task[t].port
           d == task[t].who
<1>0. t \in Task /\ TypeOK /\ TypeOK' /\ WireInv
  BY OrderlyFacts DEF Task, IInv
<1>1. /\ task[t].at = "unset" /\ FirstOnWire(t) /\ wire' = Tail(wire) /\ Goto(t, "admit")
      /\ members' = [members EXCEPT ![p] = @ \ {d}]
      /\ line' = line /\ stranded' = stranded /\ restarts' = restarts
  BY DEF TickSrem, Replied, ghosts
<1>2. (\A u \in Task \ {t} : task'[u] = task[u]) /\ task'[t].at = "admit"
  BY <1>0, <1>1, OthersUntouched, AfterGoto
<1>3. Resumes(t, 1)
  BY <1>0, <1>1, <1>2, WireMoves
<1>4. /\ \A s \in Port : members'[s] \subseteq members[s]
      /\ \A s \in Port : \A c : ~ Queueing(t, c, s) => (c \in members'[s] <=> c \in members[s])
  BY <1>0, <1>1 DEF TypeOK, Queueing
<1>5. Orderly'
  BY <1>0, <1>1, <1>2, <1>3, <1>4, OrderlyKept DEF Due
<1>6. ASSUME NEW s \in Port, NEW c \in Unbroken(s), Present(c, s)  PROVE ~ Queueing(t, c, s)
  <2>1. SUFFICES ASSUME Queueing(t, c, s)  PROVE FALSE
    OBVIOUS
  <2>2. 1 \in 1 .. Len(wire) /\ AwaitsAt(1, "unset", c, s)
    BY <1>0, <1>1, <1>3, <2>1, WireLength DEF Resumes, AwaitsAt, Queueing
  <2>3. ~ Listed(c, s) /\ ~ Pushing(c, s)
    BY <2>2, OrderlyFacts DEF OnePlace, Popped, Joining, NobodyUnsets, Pushing
  <2>4. QED
    BY <1>6, <2>3 DEF Present
<1>7. QED
  BY <1>0, <1>1, <1>2, <1>3, <1>4, <1>5, <1>6, NoLineMoves

\* a step that touches neither a set nor a list
LEMMA QuietConforms ==
  ASSUME Orderly, IInv', SerialInv', Held, NEW t \in Task, NEW k, Resumes(t, k),
         UNCHANGED <<members, line, stranded, restarts>>,
         task[t].at # "push", task'[t].at \notin {"push", "unlist", "unset"}
  PROVE  Conforms
<1>1. Orderly'
  BY OrderlyKept DEF Due
<1>2. QED
  BY <1>1, NoLineMoves

LEMMA AskConforms ==
  ASSUME Orderly, IInv', SerialInv', Held, NEW t \in Request, NEW d \in Player, Ask(t, d)
  PROVE  Conforms
<1>0. t \in Task /\ TypeOK /\ TypeOK' /\ WireInv /\ Idle.at = "start"
  BY OrderlyFacts DEF Task, IInv, Idle
<1>1. ASSUME NEW p \in Port, RemoveFromQueue(t, d, p)  PROVE Conforms
  <2>1. /\ task[t] = Idle /\ Begin(t, "remove", "unlist", d, p) /\ Await(t) /\ d \in members[p]
        /\ members' = [members EXCEPT ![p] = @ \ {d}]
        /\ line' = line /\ stranded' = stranded /\ restarts' = restarts
    BY <1>1 DEF RemoveFromQueue, Accepts, Srem, ghosts
  <2>2. /\ \A u \in Task \ {t} : task'[u] = task[u]
        /\ task'[t].at = "unlist" /\ task'[t].who = d /\ task'[t].port = p
    BY <1>0, <2>1, OthersUntouched, AfterBegin
  <2>3. QED
    BY <1>0, <2>1, <2>2, SremConforms
<1>2. CASE StartCleanup(t, d) \/ StartStatus(t, d)
  <2>1. PICK op \in {"cleanup", "status"}, at \in {"probe", "look"} :
          /\ Begin(t, op, at, d, Earliest(Later(0))) /\ task[t] = Idle
          /\ UNCHANGED <<members, line, stranded, restarts, wire>>
    BY <1>2 DEF StartCleanup, StartStatus, Accepts, queues, ghosts
  <2>2. /\ \A u \in Task \ {t} : task'[u] = task[u]
        /\ task'[t].at \in {"probe", "look"}
    BY <1>0, <2>1, OthersUntouched, AfterBegin
  <2>3. Resumes(t, 0)
    BY <1>0, <2>1, <2>2, OffWire, WireMoves
  <2>4. QED
    BY <1>0, <2>1, <2>2, <2>3, QuietConforms
<1>3. QED
  BY <1>1, <1>2, AddConforms DEF Ask

LEMMA ServeConforms ==
  ASSUME Orderly, IInv', SerialInv', Held, NEW t \in Request, Serve(t)
  PROVE  Conforms
<1> DEFINE p == task[t].port
           d == task[t].who
<1>0. t \in Task /\ TypeOK /\ TypeOK' /\ WireInv
  BY OrderlyFacts DEF Task, IInv
<1>1. CASE CleanupSrem(t) /\ d \in members[p]
  <2>1. /\ task[t].at = "srem" /\ Goto(t, "unlist") /\ Await(t)
        /\ members' = [members EXCEPT ![p] = @ \ {d}]
        /\ line' = line /\ stranded' = stranded /\ restarts' = restarts
    BY <1>1 DEF CleanupSrem, Srem, ghosts
  <2>2. /\ \A u \in Task \ {t} : task'[u] = task[u]
        /\ task'[t].at = "unlist" /\ task'[t].who = d /\ task'[t].port = p /\ p \in Port
    BY <1>0, <2>1, OthersUntouched, AfterGoto, TaskKind DEF Engaged, Where
  <2>3. PICK P, D : P = p /\ D = d
    OBVIOUS
  <2> HIDE DEF p, d
  <2>4. QED
    BY <1>0, <1>1, <2>1, <2>2, <2>3, SremConforms
<1>2. CASE \/ Probe(t) \/ Look(t) \/ Rank(t) \/ NotifyQueuesUpdate(t)
           \/ CleanupSrem(t) /\ d \notin members[p]
  <2>1. /\ UNCHANGED <<members, line, stranded, restarts>>
        /\ task[t].at \in {"probe", "srem", "look", "rank", "notify"}
    BY <1>2 DEF Probe, CleanupSrem, Look, Rank, NotifyQueuesUpdate, Announce, queues, ghosts
  <2>2. \/ Goto(t, "srem") \/ Goto(t, "rank") \/ Finish(t)
        \/ Advance(t, p, "probe") \/ Advance(t, p, "look")
    BY <1>2 DEF Probe, CleanupSrem, Look, Rank, NotifyQueuesUpdate
  <2>3. \A u \in Task \ {t} : task'[u] = task[u]
    BY <1>0, <2>2, OthersUntouched
  <2>4. task'[t].at \in {"start", "srem", "rank", "probe", "look"}
    BY <1>0, <2>2, AfterGoto, AfterFinish, AfterAdvance
  <2>5. PICK k : Resumes(t, k)
    <3>1. CASE Rank(t) \/ NotifyQueuesUpdate(t)
      BY <1>0, <2>3, <3>1, WireMoves DEF Rank, NotifyQueuesUpdate, Replied
    <3>2. CASE Probe(t) \/ Look(t) \/ (CleanupSrem(t) /\ d \notin members[p])
      <4>1. task[t].at \in {"probe", "srem", "look"} /\ (wire' = wire \/ Await(t))
        BY <3>2 DEF Probe, CleanupSrem, Look
      <4>2. QED
        BY <1>0, <2>3, <4>1, OffWire, WireMoves
    <3>3. QED
      BY <1>2, <3>1, <3>2
  <2>6. QED
    BY <1>0, <2>1, <2>4, <2>5, QuietConforms
<1>3. QED
  BY <1>1, <1>2, PushConforms, LremConforms DEF Serve

LEMMA WorkConforms ==
  ASSUME Orderly, IInv', SerialInv', Held, NEW t \in Tick, Work(t) \/ StartTick(t)
  PROVE  Conforms
<1> DEFINE p == task[t].port
<1>0. /\ t \in Task /\ t \notin Request /\ TypeOK /\ TypeOK' /\ WireInv /\ Idle.at = "start"
  BY OrderlyFacts, TaskAssumption DEF Task, IInv, Idle
<1>1. CASE Peek(t) \/ Full(t) \/ LpopNull(t) \/ Admit(t) \/ AdmissionFails(t)
           \/ TickNotify(t) \/ StartTick(t)
  <2>1. UNCHANGED <<members, line, wire, stranded, restarts>>
    BY <1>1 DEF Peek, Full, LpopNull, Admit, AdmissionFails, TickNotify, Announce,
                StartTick, queues, ghosts
  <2>2. task[t].at \in {"start", "peek", "slots", "admit", "notify"}
    BY <1>0, <1>1 DEF Peek, Full, LpopNull, Admit, AdmissionFails, TickNotify, Announce, StartTick
  <2>3. \/ Goto(t, "slots") \/ Goto(t, "notify") \/ Finish(t)
        \/ Advance(t, p, "peek")
        \/ Begin(t, "tick", "peek", Nobody, Earliest(Later(0)))
    BY <1>1 DEF Peek, Full, LpopNull, Admit, AdmissionFails, TickNotify, StartTick
  <2>4. \A u \in Task \ {t} : task'[u] = task[u]
    BY <1>0, <2>3, OthersUntouched
  <2>5. task'[t].at \in {"start", "peek", "slots", "notify"}
    BY <1>0, <2>3, AfterGoto, AfterFinish, AfterAdvance, AfterBegin
  <2>6. Resumes(t, 0)
    BY <1>0, <2>1, <2>2, <2>4, OffWire, WireMoves
  <2>7. QED
    BY <1>0, <2>1, <2>2, <2>5, <2>6, QuietConforms
<1>2. QED
  BY <1>1, PopConforms, UnsetConforms DEF Work

-----------------------------------------------------------------------------
(***************************************************************************)
(* A restart, and the refinement.                                          *)
(***************************************************************************)
\* those up to a key are the first in the order
LEMMA SortedPrefix ==
  ASSUME NEW W, NEW k \in [W -> Nat], NEW q, Sorted(q, W, k), NEW L \in Nat,
         NEW U \in SUBSET W, \A c \in W : c \in U <=> k[c] <= L,
         NEW m \in [U -> Nat], \A c \in U : m[c] = k[c]
  PROVE  \E n \in 0 .. Len(q) : Sorted(SubSeq(q, 1, n), U, m)
<1>1. /\ Len(q) \in Nat
      /\ \A i \in 1 .. Len(q) : q[i] \in W /\ k[q[i]] \in Nat
      /\ \A i, j \in 1 .. Len(q) : k[q[i]] < k[q[j]] <=> i < j
  BY SortedOnce
<1> DEFINE Beyond == {i \in 1 .. Len(q) + 1 : i \in 1 .. Len(q) => ~ (k[q[i]] <= L)}
<1>2. PICK e \in Beyond : \A i \in Beyond : e <= i
  <2>1. Beyond \in SUBSET Nat /\ Len(q) + 1 \in Beyond
    BY <1>1
  <2> HIDE DEF Beyond
  <2>2. QED
    BY <2>1, EarliestIsFirst
<1>3. PICK n \in 0 .. Len(q) : n = e - 1
  BY <1>1, <1>2
<1>4. ASSUME NEW i \in 1 .. Len(q)  PROVE i \in 1 .. n <=> k[q[i]] <= L
  <2>1. CASE i \in 1 .. n
    <3>1. i \notin Beyond
      BY <1>1, <1>2, <1>3, <2>1
    <3>2. QED
      BY <1>1, <2>1, <3>1
  <2>2. CASE i \notin 1 .. n
    <3>1. e \in 1 .. Len(q) /\ (e = i \/ e < i)
      BY <1>1, <1>2, <1>3, <2>2
    <3>2. ~ (k[q[e]] <= L) /\ (e = i \/ k[q[e]] < k[q[i]])
      BY <1>1, <1>2, <3>1
    <3>3. k[q[e]] \in Nat /\ k[q[i]] \in Nat
      BY <1>1, <3>1
    <3>4. QED
      BY <2>2, <3>2, <3>3
  <2>3. QED
    BY <2>1, <2>2
<1> HIDE DEF Beyond
<1>5. PICK r : r = SubSeq(q, 1, n)
  OBVIOUS
<1>6. r \in Seq(U) /\ Len(r) = n /\ \A i \in 1 .. n : r[i] = q[i]
  <2>1. n \in Int /\ \A i \in 1 .. n : i \in 1 .. Len(q)
    BY <1>1
  <2>2. \A i \in 1 .. n : q[i] \in U
    BY <1>1, <1>4, <2>1
  <2>3. /\ SubSeq(q, 1, n) \in Seq(U)
        /\ Len(SubSeq(q, 1, n)) = IF 1 <= n THEN n - 1 + 1 ELSE 0
        /\ \A i \in 1 .. n - 1 + 1 : SubSeq(q, 1, n)[i] = q[1 + i - 1]
    BY <2>1, <2>2, SubSeqProperties
  <2>4. n - 1 + 1 = n /\ \A i \in 1 .. n : 1 + i - 1 = i
    BY <2>1
  <2>5. QED
    BY <1>1, <1>5, <2>1, <2>3, <2>4
<1>7. ASSUME NEW c \in U  PROVE \E i \in 1 .. n : r[i] = c
  <2>1. PICK i \in 1 .. Len(q) : q[i] = c
    BY DEF Sorted
  <2>2. i \in 1 .. n
    BY <1>4, <2>1
  <2>3. QED
    BY <1>6, <2>1, <2>2
<1>8. ASSUME NEW i \in 1 .. n, NEW j \in 1 .. n, i < j  PROVE m[r[i]] < m[r[j]]
  <2>1. i \in 1 .. Len(q) /\ j \in 1 .. Len(q) /\ r[i] = q[i] /\ r[j] = q[j]
    BY <1>1, <1>6
  <2>2. r[i] \in U /\ r[j] \in U
    BY <1>1, <1>4, <2>1
  <2>3. k[q[i]] < k[q[j]]
    BY <1>1, <1>8, <2>1
  <2>4. QED
    BY <2>1, <2>2, <2>3
<1>9. Sorted(r, U, m)
  BY <1>6, <1>7, <1>8 DEF Sorted
<1>10. QED
  BY <1>5, <1>9

\* a restart takes out those behind the list
LEMMA RestartLines ==
  ASSUME Orderly, Held, IInv', SerialInv', Restart, NEW s \in Port
  PROVE  /\ Orderly' /\ Ordered(s)'
         /\ \E n \in 0 .. Len(WaitingLine(s)) : WaitingLine(s)' = SubSeq(WaitingLine(s), 1, n)
<1>0. /\ TypeOK /\ TypeOK' /\ WireInv /\ Idle.at = "start"
  BY OrderlyFacts DEF IInv, Idle
<1>1. /\ line' = line /\ members' = members /\ Len(wire') = 0
      /\ \A t \in Task : task'[t] = Idle
      /\ stranded' = stranded \cup {<<task[t].port, task[t].who>> : t \in Cut({"push", "unlist", "unset"})}
  BY EmptySeq DEF Restart, queues
<1>2. Orderly'
  BY <1>0, <1>1 DEF Orderly, Due, Unlisting
<1>3. PICK L \in Nat : L = Len(line[s])
  BY <1>0, LenProperties DEF TypeOK
<1>4. ASSUME NEW c \in Waiters(s)
      PROVE  /\ c \in Unbroken(s) /\ Places(s)[c] \in Nat /\ StandsAt(c, s, Places(s)[c])
             /\ Listed(c, s) <=> Places(s)[c] <= L
  <2>1. /\ c \in Unbroken(s) /\ Places(s)[c] = Standing(c, s)
        /\ Standing(c, s) \in Nat /\ StandsAt(c, s, Standing(c, s))
    BY OrderlyStands DEF StandingRight, Waiters, Places
  <2>2. ASSUME Listed(c, s)  PROVE Standing(c, s) <= L
    <3>1. PICK i \in 1 .. L : line[s][i] = c
      BY <1>3, <2>2 DEF Listed
    <3>2. i \in Nat /\ StandsAt(c, s, i)
      BY <1>3, <3>1 DEF StandsAt
    <3>3. Standing(c, s) = i
      BY <2>1, <3>2, OrderlyStands DEF StandingRight
    <3>4. QED
      BY <3>1, <3>3
  <2>3. ASSUME Standing(c, s) <= L  PROVE Listed(c, s)
    <3>1. PICK n \in Nat : n = Standing(c, s)
      BY <2>1
    <3>2. n - L \notin 1 .. Len(wire)
      BY <1>0, <2>3, <3>1, WireLength
    <3>3. n \in 1 .. L /\ line[s][n] = c
      BY <1>3, <2>1, <3>1, <3>2 DEF StandsAt
    <3>4. QED
      BY <1>3, <3>3 DEF Listed
  <2>4. QED
    BY <2>1, <2>2, <2>3
<1>5. ASSUME NEW c \in Waiters(s), Listed(c, s)  PROVE <<s, c>> \notin stranded'
  <2>1. c \in Unbroken(s) /\ c \in members[s] /\ OnePlace(c, s) /\ ~ Unlisting(c, s)
    BY OrderlyFacts DEF Waiters
  <2>2. SUFFICES ASSUME NEW t \in Task, Due(t), Queueing(t, c, s)  PROVE FALSE
    BY <1>1, <2>1 DEF Unbroken, Cut, Due, Queueing
  <2>3. PICK i \in 1 .. Len(wire) : wire[i] = t
    BY <2>2 DEF Orderly
  <2>4. AwaitsAt(i, "push", c, s) \/ AwaitsAt(i, "unlist", c, s) \/ AwaitsAt(i, "unset", c, s)
    BY <2>2, <2>3 DEF AwaitsAt, Due
  <2>5. QED
    BY <1>5, <2>1, <2>3, <2>4 DEF OnePlace, Joining, Popped, Unlisting
<1>6. PICK W, k : W = Waiters(s) /\ k = Places(s) /\ k \in [W -> Nat]
  BY PlacesType
<1>7. PICK U : U = {c \in W : k[c] <= L}
  OBVIOUS
<1>8. Waiters(s)' = U
  <2>1. \A c : Listed(c, s)' <=> Listed(c, s)
    BY <1>1 DEF Listed
  <2>2. \A c : ~ Pushing(c, s)'
    BY <1>1 DEF Pushing
  <2>3. ASSUME NEW c \in Waiters(s)'  PROVE c \in U
    <3>1. c \in Waiters(s) /\ Listed(c, s)
      BY <1>1, <2>1, <2>2 DEF Waiters, Unbroken
    <3>2. QED
      BY <1>4, <1>6, <1>7, <3>1
  <2>4. ASSUME NEW c \in U  PROVE c \in Waiters(s)'
    <3>1. c \in Waiters(s) /\ Listed(c, s)
      BY <1>4, <1>6, <1>7
    <3>2. <<s, c>> \notin stranded'
      BY <1>5, <3>1
    <3>3. QED
      BY <1>1, <2>1, <3>1, <3>2 DEF Waiters, Unbroken
  <2>5. QED
    BY <2>3, <2>4
<1>9. PICK m : m = Places(s)' /\ m \in [U -> Nat]
  BY <1>2, <1>8, PlacesTypeNext
<1>10. ASSUME NEW c \in U  PROVE m[c] = k[c]
  <2>1. c \in Waiters(s) /\ c \in Waiters(s)' /\ c \in Unbroken(s)'
    BY <1>6, <1>7, <1>8 DEF Waiters
  <2>2. PICK n \in Nat : n = Places(s)[c]
    BY <1>4, <2>1
  <2>3. StandsAt(c, s, n) /\ n <= L
    BY <1>4, <1>6, <1>7, <2>1, <2>2
  <2>4. n - L \notin 1 .. Len(wire)
    BY <1>0, <2>3, WireLength
  <2>5. StandsAt(c, s, n)'
    BY <1>1, <1>3, <2>3, <2>4 DEF StandsAt
  <2>6. Standing(c, s)' = n
    BY <1>2, <2>1, <2>5, OrderlyStandsNext DEF StandingRight
  <2>7. Places(s)'[c] = n
    BY <2>1, <2>6 DEF Places
  <2>8. QED
    BY <1>6, <1>9, <2>2, <2>7
<1>11. PICK q : Sorted(q, W, k)
  BY <1>6 DEF Held, Ordered
<1>12. PICK n \in 0 .. Len(q) : Sorted(SubSeq(q, 1, n), U, m)
  <2>1. /\ k \in [W -> Nat] /\ m \in [U -> Nat] /\ \A c \in U : m[c] = k[c]
        /\ Sorted(q, W, k) /\ L \in Nat /\ U \in SUBSET W /\ \A c \in W : c \in U <=> k[c] <= L
    BY <1>6, <1>7, <1>9, <1>10, <1>11
  <2>2. QED
    BY <2>1, SortedPrefix
<1>13. WaitingLine(s) = q /\ WaitingLine(s)' = SubSeq(q, 1, n)
  BY <1>6, <1>8, <1>9, <1>11, <1>12, SortedIsLine, WaitingLineIs
<1>14. Ordered(s)'
  BY <1>8, <1>9, <1>12 DEF Ordered
<1>15. QED
  BY <1>2, <1>13, <1>14

LEMMA RestartConforms ==
  ASSUME Orderly, Held, IInv', SerialInv', Restart
  PROVE  Conforms
<1>1. Orderly'
  BY EmptySeq DEF Orderly, Due, Unlisting, Restart, Idle
<1>2. Held'
  BY RestartLines DEF Held
<1>3. \A s \in Port : \E n \in 0 .. Len(Lines[s]) : Lines'[s] = SubSeq(Lines[s], 1, n)
  BY RestartLines DEF Lines
<1>4. DOMAIN Lines' = Port
  BY DEF Lines
<1>5. restarts' = restarts + 1
  BY DEF Restart
<1>6. Contract!Crash
  BY <1>3, <1>4, <1>5 DEF Contract!Crash, Lines
<1>7. QED
  BY <1>1, <1>2, <1>6 DEF Conforms, Contract!Next

LineInv == Orderly /\ Held

LEMMA InitLines == Init => LineInv /\ Contract!Init
<1> SUFFICES ASSUME Init  PROVE LineInv /\ Contract!Init
  OBVIOUS
<1>1. IInv /\ SerialInv
  BY InitIInv, InitSerialInv
<1>2. restarts = 0 /\ Len(wire) = 0 /\ \A t \in Task : task[t].at = "start"
  BY EmptySeq DEF Init, Idle
<1>3. Orderly
  BY <1>1, <1>2 DEF Orderly, Due, Unlisting
<1>4. ASSUME NEW s \in Port  PROVE Ordered(s) /\ WaitingLine(s) = <<>>
  <2>1. Waiters(s) = {}
    BY <1>4 DEF Init, Waiters
  <2>2. Len(<<>>) = 0 /\ <<>> \in Seq(Waiters(s))
    BY EmptySeq
  <2>3. Sorted(<<>>, Waiters(s), Places(s))
    BY <2>1, <2>2 DEF Sorted
  <2>4. Places(s) \in [Waiters(s) -> Nat]
    BY <2>1 DEF Places
  <2>5. LineOf(Waiters(s), Places(s)) = <<>>
    BY <2>3, <2>4, SortedIsLine
  <2>6. QED
    BY <2>3, <2>5 DEF Ordered, WaitingLine, Places
<1>5. Lines = [s \in Port |-> <<>>]
  BY <1>4 DEF Lines
<1>6. Contract!Init
  BY <1>2, <1>5 DEF Contract!Init, Lines
<1>7. QED
  BY <1>3, <1>4, <1>6 DEF LineInv, Held

LEMMA StepLines ==
  LineInv /\ IInv' /\ SerialInv' /\ [Next]_vars => LineInv' /\ [Contract!Next]_Contract!vars
<1> SUFFICES ASSUME LineInv, IInv', SerialInv', [Next]_vars
    PROVE  LineInv' /\ [Contract!Next]_Contract!vars
  OBVIOUS
<1>1. Orderly /\ Held
  BY DEF LineInv
<1>2. CASE Next
  <2>1. Conforms
    BY <1>1, <1>2, AskConforms, ServeConforms, WorkConforms, RestartConforms DEF Next
  <2>2. QED
    BY <2>1 DEF Conforms, LineInv
<1>3. CASE UNCHANGED vars
  <2>1. /\ members' = members /\ line' = line /\ task' = task /\ wire' = wire
        /\ stranded' = stranded /\ restarts' = restarts
    BY <1>3 DEF vars, ghosts
  <2>2. ASSUME NEW s \in Port  PROVE Ordered(s)' /\ WaitingLine(s)' = WaitingLine(s)
    <3>1. Waiters(s)' = Waiters(s)
      BY <2>1 DEF Waiters, Unbroken, Listed, Pushing, AwaitsAt, Queueing
    <3>2. ASSUME NEW c  PROVE Standing(c, s)' = Standing(c, s)
      BY <2>1 DEF Standing, Listed, AwaitsAt, Queueing
    <3>3. Places(s)' = Places(s)
      BY <3>1, <3>2 DEF Places
    <3>4. Ordered(s)'
      BY <1>1, <3>1, <3>3 DEF Held, Ordered
    <3>5. WaitingLine(s)' = WaitingLine(s)
      BY <3>1, <3>3 DEF WaitingLine, Places
    <3>6. QED
      BY <3>4, <3>5
  <2>3. Orderly'
    BY <1>1, <2>1 DEF Orderly, Due, Unbroken, Unlisting, AwaitsAt, Queueing
  <2>4. UNCHANGED Contract!vars
    BY <2>1, <2>2, Stutters
  <2>5. QED
    BY <2>2, <2>3, <2>4 DEF LineInv, Held
<1>4. QED
  BY <1>2, <1>3

(***************************************************************************)
(* The service keeps its contract, for every number of serial players,     *)
(* other players, servers, overlapping requests and ticks, and restarts.   *)
(* The waiters of a server stand on the list, and behind it on the         *)
(* connection, where their RPUSHs run in the order their SADDs ran; no     *)
(* step lets one pass another, and a restart takes out those who stand on  *)
(* the connection.                                                         *)
(***************************************************************************)
THEOREM ServedInTheirOrder == Spec => ServedInOrder
<1>1. Spec => [](IInv /\ SerialInv)
  BY IInvHolds, InitSerialInv, NextKeepsPlaces, PTL DEF Spec
<1>2. QED
  BY <1>1, InitLines, StepLines, PTL DEF Spec, ServedInOrder, Contract!Spec
=============================================================================
