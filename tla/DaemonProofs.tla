---------------------------- MODULE DaemonProofs ----------------------------
(***************************************************************************)
(* Theorems about Daemon, for any number of ports, addresses, interfaces   *)
(* and faults.  The invariant says, for every point of the process, what   *)
(* the kernel holds: what is in memory is what was found or written there  *)
(* (MemoryIsKernel), and what is left to be done leads to what was asked   *)
(* for (GoalIsWanted).                                                     *)
(***************************************************************************)
EXTENDS Daemon, TLAPS

MemoryIsKernel == at \notin Dropping => \A p \in have : accepts[p] = RulesOf(p)

\* handling the message now would make of p what it is to be
Leads(p) == GoalOf(RulesOf(p), p) = want[p]

GoalIsWanted ==
  /\ at \in Serving => \A p \in todo : Leads(p)
  /\ at \in Preparing => Leads(port)
  /\ at = "update" => goal = want[port]

DoneAsWanted ==
  /\ at \notin Dropping =>
       \A p \in have \ todo : (at = "update" /\ p = port) \/ RulesOf(p) = want[p]
  /\ at \in Preparing \cup {"update"} => port \notin todo
  /\ at \in {"down", "next"} => todo = {}
  /\ at = "down" => have = {}

HalfReady ==
  /\ at \in {"unredirect", "redirect", "jumps"} => port \in chain
  /\ at = "jumps" => /\ port \in redirect
                     /\ \A i \in Interface \ rest : <<port, i>> \in jump

Emptied == at = "unjump" => port \notin redirect /\ RulesOf(port) = {}

RuleInv == TypeOK /\ MemoryIsKernel /\ GoalIsWanted /\ DoneAsWanted
GuardInv == TypeOK /\ HalfReady /\ Emptied /\ ServedPortsGuarded /\ NothingDangles
-----------------------------------------------------------------------------
(***************************************************************************)
(* Types                                                                   *)
(***************************************************************************)
\* whatever a message makes of an address set is one
LEMMA GoalType ==
  ASSUME TypeOK, at \in Serving, NEW p \in Port, NEW A \in SUBSET Address
  PROVE  GoalOf(A, p) \in SUBSET Address
<1>1. message \in Initial \/ message \in Event
  BY DEF TypeOK
<1>2. CASE message \in Initial
  BY <1>2 DEF GoalOf, Initial
<1>3. CASE message \in Event
  BY <1>3 DEF GoalOf, Event
<1> QED BY <1>1, <1>2, <1>3

\* a message arrives
LEMMA ReceiveType ==
  ASSUME TypeOK, NEW m \in Initial \cup Event, Receive(m)
  PROVE  TypeOK'
<1>1. NoMessage.kind = "none"
  BY DEF NoMessage
<1>2. m # NoMessage
  BY <1>1 DEF Initial, Event
<1>3. CASE m \in Initial
  BY <1>2, <1>3 DEF TypeOK, Receive, Initial, kernel, Serving, Preparing, Dropping
<1>4. CASE m \in Event
  <2>1. m.port \in Port /\ m.address \in Address /\ m.kind # "Initial"
    BY <1>4 DEF Event
  <2>2. Before(m.port) \in SUBSET Address
    BY <2>1 DEF Before, RulesOf, TypeOK
  <2>3. want' \in [Port -> SUBSET Address] /\ todo' \subseteq Port
    BY <2>1, <2>2 DEF Receive, TypeOK
  <2>4. /\ at' = "port" /\ message' = m
        /\ UNCHANGED <<chain, redirect, accept, jump, have, accepts, port, rest, goal, faults>>
    BY DEF Receive, kernel
  <2> QED BY <1>2, <1>4, <2>3, <2>4 DEF TypeOK, Serving, Preparing, Dropping
<1> QED BY <1>3, <1>4

\* a chain is provided
LEMMA PrepareType ==
  ASSUME TypeOK, Prepare \/ \E p \in Port : ProvideChain(p)
  PROVE  TypeOK'
<1>1. ASSUME NEW p \in Port, ProvideChain(p)  PROVE TypeOK'
  <2>1. at \in Serving
    BY <1>1 DEF ProvideChain, Serving
  <2>2. GoalOf(accepts[p], p) \in SUBSET Address
    BY <2>1, GoalType DEF TypeOK
  <2> QED BY <1>1, <2>1, <2>2 DEF TypeOK, ProvideChain, kernel, Serving, Preparing, Dropping
<1>2. CASE Create \/ Unredirect \/ Redirect
  BY <1>2 DEF TypeOK, Create, Unredirect, Redirect, memory, Serving, Preparing, Dropping
<1>3. ASSUME NEW i \in Interface, Unhook(i) \/ Hook(i)  PROVE TypeOK'
  <2>1. at = "jumps" /\ at' = "jumps" /\ port' = port /\ jump' \subseteq jump \cup {<<port, i>>}
        /\ rest' \subseteq rest
    BY <1>3 DEF Unhook, Hook, memory
  <2>2. port \in Port
    BY <2>1 DEF TypeOK, Preparing
  <2>3. UNCHANGED <<chain, redirect, accept, have, accepts, message, todo, goal, want, faults>>
    BY <1>3 DEF Unhook, Hook, memory
  <2> QED BY <2>1, <2>2, <2>3 DEF TypeOK, Serving, Preparing, Dropping
<1>4. CASE Restore
  <2>1. at \in Serving /\ port \in Port
    BY <1>4 DEF Restore, Serving, Preparing, TypeOK
  <2>2. RulesOf(port) \in SUBSET Address
    BY DEF RulesOf
  <2>3. GoalOf(RulesOf(port), port) \in SUBSET Address
    BY <2>1, <2>2, GoalType
  <2> QED BY <1>4, <2>1, <2>2, <2>3 DEF TypeOK, Restore, kernel, Serving, Preparing, Dropping
<1> QED BY <1>1, <1>2, <1>3, <1>4 DEF Prepare

\* the other steps
LEMMA OthersType ==
  ASSUME TypeOK, Start \/ Update \/ Handled \/ Drop \/ Stop \/ Panic \/ PanicInDrop \/ Kill
  PROVE  TypeOK'
<1> USE DEF Serving, Preparing, Dropping
<1>1. CASE Start \/ Handled
  BY <1>1 DEF TypeOK, Start, Handled, kernel, memory
<1>2. CASE Update
  <2>1. port \in have /\ port \in Port
    BY <1>2 DEF Update, RemoveAccept, AddAccept, Updated, TypeOK
  <2>2. ASSUME NEW a \in Address, RemoveAccept(a) \/ AddAccept(a)  PROVE TypeOK'
    BY <2>1, <2>2 DEF TypeOK, RemoveAccept, AddAccept
  <2>3. CASE Updated
    BY <2>3 DEF TypeOK, Updated, kernel
  <2> QED BY <1>2, <2>2, <2>3 DEF Update
<1>3. CASE Drop
  <2>1. ASSUME NEW p \in Port, Flush(p)  PROVE TypeOK'
    BY <2>1 DEF TypeOK, Flush
  <2>2. ASSUME NEW i \in Interface, DeleteJump(i)  PROVE TypeOK'
    BY <2>2 DEF TypeOK, DeleteJump, memory
  <2>3. CASE DeleteChain
    BY <2>3 DEF TypeOK, DeleteChain
  <2>4. CASE Exit
    BY <2>4 DEF TypeOK, Exit, Forget, kernel
  <2> QED BY <1>3, <2>1, <2>2, <2>3, <2>4 DEF Drop
<1>4. CASE Stop \/ Panic
  BY <1>4, DaemonAssumption DEF TypeOK, Stop, Panic, Fault, kernel, memory
<1>5. CASE PanicInDrop \/ Kill
  BY <1>5, DaemonAssumption DEF TypeOK, PanicInDrop, Kill, Fault, Forget, kernel
<1> QED BY <1>1, <1>2, <1>3, <1>4, <1>5

\* every step keeps the types
LEMMA NextType == TypeOK /\ [Next]_vars => TypeOK'
<1>1. ASSUME TypeOK, Next  PROVE TypeOK'
  BY <1>1, ReceiveType, PrepareType, OthersType DEF Next, Run
<1>2. ASSUME TypeOK, UNCHANGED vars  PROVE TypeOK'
  BY <1>2 DEF TypeOK, vars, kernel, memory
<1> QED BY <1>1, <1>2

(***************************************************************************)
(* The nat table, the memory of the daemon and the message it handles keep *)
(* their types; rules are only written for a port whose chain is known.    *)
(***************************************************************************)
THEOREM TypeCorrect == Spec => []TypeOK
<1>1. Init => TypeOK
  BY DaemonAssumption DEF Init, NothingInMind, TypeOK, Serving, Preparing
<1> QED BY <1>1, NextType, PTL DEF Spec
-----------------------------------------------------------------------------
(***************************************************************************)
(* Rules                                                                   *)
(***************************************************************************)
\* while the rules and the message stay, so does what is to become of a port
LEMMA SameLeads ==
  ASSUME UNCHANGED <<accept, message, want>>, NEW p
  PROVE  Leads(p)' <=> Leads(p)
BY DEF Leads, GoalOf, RulesOf

LEMMA ReceiveRules ==
  ASSUME RuleInv, NEW m \in Initial \cup Event, Receive(m)
  PROVE  (MemoryIsKernel /\ GoalIsWanted /\ DoneAsWanted)'
<1> USE DEF RuleInv
<1>1. /\ at = "next" /\ at' = "port" /\ todo = {} /\ message' = m
      /\ UNCHANGED <<accept, have, accepts, goal>>
  BY DEF Receive, DoneAsWanted, kernel
<1>2. \A p \in have : p \in Port /\ accepts[p] = RulesOf(p) /\ RulesOf(p) = want[p]
  BY <1>1 DEF MemoryIsKernel, DoneAsWanted, Dropping, TypeOK
<1>3. \A p : RulesOf(p)' = RulesOf(p)
  BY <1>1 DEF RulesOf
<1>4. CASE m \in Initial
  <2>1. m.kind = "Initial" /\ todo' = Port /\ want' = m.accepts
    BY <1>4 DEF Receive, Initial
  <2>2. \A p \in Port : Leads(p)'
    BY <1>1, <2>1 DEF Leads, GoalOf
  <2> QED BY <1>1, <1>2, <1>3, <2>1, <2>2
          DEF MemoryIsKernel, GoalIsWanted, DoneAsWanted, Preparing, Serving, Dropping
<1>5. CASE m \in Event
  <2> DEFINE p == m.port
  <2>1. p \in Port /\ m.kind \in {"ALLOW", "REVOKE"}
    BY <1>5 DEF Event
  <2>2. Before(p) = RulesOf(p)
    BY <1>2 DEF Before
  <2>3. /\ todo' = {p}
        /\ want' = [want EXCEPT ![p] = IF m.kind = "ALLOW" THEN RulesOf(p) \cup {m.address}
                                       ELSE RulesOf(p) \ {m.address}]
    BY <2>1, <2>2 DEF Receive
  <2>4. Leads(p)'
    BY <1>1, <1>3, <2>1, <2>3 DEF Leads, GoalOf, TypeOK
  <2>5. \A q \in Port \ {p} : want'[q] = want[q]
    BY <2>1, <2>3 DEF TypeOK
  <2> HIDE DEF p
  <2> QED BY <1>1, <1>2, <1>3, <2>3, <2>4, <2>5
          DEF MemoryIsKernel, GoalIsWanted, DoneAsWanted, Preparing, Serving, Dropping
<1> QED BY <1>4, <1>5

LEMMA PrepareRules ==
  ASSUME RuleInv, Prepare \/ \E p \in Port : ProvideChain(p)
  PROVE  (MemoryIsKernel /\ GoalIsWanted /\ DoneAsWanted)'
<1> USE DEF RuleInv
<1>1. UNCHANGED <<accept, message, want>>
  BY DEF Prepare, ProvideChain, Create, Unredirect, Redirect, Unhook, Hook, Restore, kernel, memory
<1>2. /\ \A p : Leads(p)' <=> Leads(p)
      /\ \A p : RulesOf(p)' = RulesOf(p)
  BY <1>1, SameLeads DEF RulesOf
<1>3. ASSUME NEW p \in Port, ProvideChain(p)
      PROVE  (MemoryIsKernel /\ GoalIsWanted /\ DoneAsWanted)'
  <2>1. /\ at = "port" /\ p \in todo /\ todo' = todo \ {p} /\ port' = p
        /\ UNCHANGED <<have, accepts>>
    BY <1>3 DEF ProvideChain
  <2>2. Leads(p)
    BY <2>1 DEF GoalIsWanted, Serving
  <2>3. CASE p \in have
    <3>1. at' = "update" /\ goal' = GoalOf(accepts[p], p)
      BY <1>3, <2>3 DEF ProvideChain
    <3>2. accepts[p] = RulesOf(p)
      BY <2>1, <2>3 DEF MemoryIsKernel, Dropping
    <3> QED BY <1>1, <1>2, <2>1, <2>2, <3>1, <3>2
            DEF Leads, MemoryIsKernel, GoalIsWanted, DoneAsWanted, Preparing, Serving, Dropping
  <2>4. CASE p \notin have
    <3>1. at' = "create"
      BY <1>3, <2>4 DEF ProvideChain
    <3> QED BY <1>1, <1>2, <2>1, <2>2, <2>4, <3>1
            DEF MemoryIsKernel, GoalIsWanted, DoneAsWanted, Preparing, Serving, Dropping
  <2> QED BY <2>3, <2>4
<1>4. ASSUME \/ Create \/ Unredirect \/ Redirect
             \/ \E i \in Interface : Unhook(i) \/ Hook(i)
      PROVE  (MemoryIsKernel /\ GoalIsWanted /\ DoneAsWanted)'
  <2>1. /\ at \in Preparing /\ at' \in Preparing
        /\ UNCHANGED <<have, accepts, todo, port>>
    BY <1>4 DEF Create, Unredirect, Redirect, Unhook, Hook, Preparing, memory
  <2> QED BY <1>1, <1>2, <2>1
          DEF MemoryIsKernel, GoalIsWanted, DoneAsWanted, Preparing, Serving, Dropping
<1>5. CASE Restore
  <2>1. /\ at = "jumps" /\ at' = "update" /\ have' = have \cup {port}
        /\ accepts' = [accepts EXCEPT ![port] = RulesOf(port)]
        /\ goal' = GoalOf(RulesOf(port), port)
        /\ UNCHANGED <<todo, port>>
    BY <1>5 DEF Restore
  <2>2. Leads(port) /\ port \in Port
    BY <2>1 DEF GoalIsWanted, Preparing, TypeOK
  <2>3. MemoryIsKernel'
    BY <1>2, <2>1, <2>2 DEF MemoryIsKernel, TypeOK, Dropping
  <2>4. GoalIsWanted'
    BY <1>1, <1>2, <2>1, <2>2 DEF GoalIsWanted, Leads, Serving, Preparing
  <2>5. DoneAsWanted'
    BY <1>1, <1>2, <2>1 DEF DoneAsWanted, Preparing, Dropping
  <2> QED BY <2>3, <2>4, <2>5
<1> QED BY <1>3, <1>4, <1>5 DEF Prepare

LEMMA UpdateRules ==
  ASSUME RuleInv, Update
  PROVE  (MemoryIsKernel /\ GoalIsWanted /\ DoneAsWanted)'
<1> USE DEF RuleInv
<1>1. /\ at = "update" /\ port \in have /\ port \in Port /\ port \notin todo
      /\ accepts[port] = RulesOf(port) /\ goal = want[port]
      /\ UNCHANGED <<have, message, todo, want>>
  BY DEF Update, RemoveAccept, AddAccept, Updated, kernel, TypeOK, MemoryIsKernel, GoalIsWanted,
     DoneAsWanted, Dropping
<1>2. ASSUME NEW a \in Address, RemoveAccept(a) \/ AddAccept(a)
      PROVE  (MemoryIsKernel /\ GoalIsWanted /\ DoneAsWanted)'
  <2>1. /\ at' = "update" /\ port' = port /\ goal' = goal
        /\ \A p \in Port \ {port} : accepts'[p] = accepts[p] /\ RulesOf(p)' = RulesOf(p)
    BY <1>1, <1>2 DEF RemoveAccept, AddAccept, RulesOf, TypeOK
  <2>2. accepts'[port] = RulesOf(port)'
    BY <1>1, <1>2 DEF RemoveAccept, AddAccept, RulesOf, TypeOK
  <2>3. \A p \in todo : p \in Port \ {port} /\ (Leads(p)' <=> Leads(p))
    BY <1>1, <2>1 DEF Leads, GoalOf, TypeOK
  <2>4. MemoryIsKernel'
    BY <1>1, <2>1, <2>2 DEF MemoryIsKernel, TypeOK, Dropping
  <2>5. GoalIsWanted'
    BY <1>1, <2>1, <2>3 DEF GoalIsWanted, Serving, Preparing
  <2>6. DoneAsWanted'
    BY <1>1, <2>1 DEF DoneAsWanted, TypeOK, Dropping, Preparing
  <2> QED BY <2>4, <2>5, <2>6
<1>3. CASE Updated
  <2>1. at' = "port" /\ RulesOf(port) = want[port] /\ UNCHANGED <<accept, accepts>>
    BY <1>1, <1>3 DEF Updated, kernel
  <2>2. /\ \A p : Leads(p)' <=> Leads(p)
        /\ \A p : RulesOf(p)' = RulesOf(p)
    BY <1>1, <2>1, SameLeads DEF RulesOf
  <2> QED BY <1>1, <2>1, <2>2
          DEF MemoryIsKernel, GoalIsWanted, DoneAsWanted, Preparing, Serving, Dropping
<1> QED BY <1>2, <1>3 DEF Update

LEMMA OthersRules ==
  ASSUME RuleInv, Start \/ Handled \/ Drop \/ Stop \/ Panic \/ PanicInDrop \/ Kill
  PROVE  (MemoryIsKernel /\ GoalIsWanted /\ DoneAsWanted)'
<1> USE DEF RuleInv
<1>1. CASE Start \/ Handled
  <2>1. /\ at' = "next" /\ todo = {} /\ at \in {"down", "port"}
        /\ UNCHANGED <<accept, have, accepts, todo, want>>
    BY <1>1 DEF Start, Handled, DoneAsWanted, kernel, memory
  <2>2. \A p : RulesOf(p)' = RulesOf(p)
    BY <2>1 DEF RulesOf
  <2> QED BY <2>1, <2>2
          DEF MemoryIsKernel, GoalIsWanted, DoneAsWanted, Preparing, Serving, Dropping
<1>2. CASE Stop \/ Panic \/ (Drop /\ ~ Exit)
  <2>1. at' \in Dropping
    BY <1>2 DEF Stop, Panic, Drop, Flush, DeleteJump, DeleteChain, Dropping
  <2> QED BY <2>1
          DEF MemoryIsKernel, GoalIsWanted, DoneAsWanted, Preparing, Serving, Dropping
<1>3. CASE Exit \/ PanicInDrop \/ Kill
  <2>1. at' = "down" /\ have' = {} /\ todo' = {}
    BY <1>3 DEF Exit, PanicInDrop, Kill, Forget
  <2> QED BY <2>1
          DEF MemoryIsKernel, GoalIsWanted, DoneAsWanted, Preparing, Serving, Dropping
<1> QED BY <1>1, <1>2, <1>3

LEMMA NextRules == RuleInv /\ [Next]_vars => RuleInv'
<1>1. ASSUME RuleInv, Next  PROVE (MemoryIsKernel /\ GoalIsWanted /\ DoneAsWanted)'
  BY <1>1, ReceiveRules, PrepareRules, UpdateRules, OthersRules DEF Next, Run
<1>2. ASSUME RuleInv, UNCHANGED vars  PROVE (MemoryIsKernel /\ GoalIsWanted /\ DoneAsWanted)'
  BY <1>2 DEF RuleInv, MemoryIsKernel, GoalIsWanted, DoneAsWanted, Leads, GoalOf, RulesOf,
     vars, kernel, memory
<1> QED BY <1>1, <1>2, NextType DEF RuleInv

LEMMA RuleInvHolds == Spec => []RuleInv
<1>1. Init => RuleInv
  BY DaemonAssumption DEF Init, NothingInMind, RuleInv, TypeOK, MemoryIsKernel, GoalIsWanted,
     DoneAsWanted, Serving, Preparing
<1> QED BY <1>1, NextRules, PTL DEF Spec

(***************************************************************************)
(* Between two messages the rules are what the messages ask for, whatever  *)
(* an earlier process has left behind.                                     *)
(***************************************************************************)
THEOREM RulesAreRight == Spec => []RulesMatch
<1>1. RuleInv => RulesMatch
  BY DEF RuleInv, RulesMatch, MemoryIsKernel, DoneAsWanted, Dropping
<1> QED BY <1>1, RuleInvHolds, PTL

(***************************************************************************)
(* An update changes the difference and nothing else.                      *)
(***************************************************************************)
THEOREM UpdatesDoNotFlicker == Spec => NoFlicker
<1> DEFINE Step == /\ \A r \in accept \ accept' : at = "drop" \/ r[2] \notin want[r[1]]
                   /\ \A r \in accept' \ accept : r[2] \in want[r[1]]
<1>1. ASSUME RuleInv, [Next]_vars  PROVE Step
  <2>1. CASE accept' = accept
    BY <2>1
  <2>2. ASSUME NEW p \in Port, Flush(p)  PROVE Step
    BY <2>2 DEF Flush
  <2>3. ASSUME NEW a \in Address, RemoveAccept(a) \/ AddAccept(a)  PROVE Step
    <3>1. goal = want[port]
      BY <1>1, <2>3 DEF RuleInv, GoalIsWanted, RemoveAccept, AddAccept
    <3> QED BY <2>3, <3>1 DEF RemoveAccept, AddAccept
  <2>4. \/ accept' = accept \/ (\E p \in Port : Flush(p))
        \/ \E a \in Address : RemoveAccept(a) \/ AddAccept(a)
    BY <1>1 DEF Next, Run, Start, Receive, ProvideChain, Prepare, Create, Unredirect, Redirect,
       Unhook, Hook, Restore, Update, Updated, Handled, Drop, DeleteJump, DeleteChain, Exit,
       Stop, Panic, PanicInDrop, Kill, vars, kernel
  <2> QED BY <2>1, <2>2, <2>3, <2>4
<1>2. RuleInv /\ [Next]_vars => [Step]_vars
  BY <1>1
<1> QED BY <1>2, RuleInvHolds, PTL DEF Spec, NoFlicker
-----------------------------------------------------------------------------
(***************************************************************************)
(* The guard of the ports                                                  *)
(***************************************************************************)
\* neither the chains nor the way to them are touched
LEMMA SameKernel ==
  ASSUME GuardInv, UNCHANGED <<chain, redirect, jump, have>>,
         at \notin Dropping,
         \A r \in accept' : r \in accept \/ r[1] \in have
  PROVE  (ServedPortsGuarded /\ NothingDangles)'
<1>1. \A r \in accept' : r[1] \in chain
  BY DEF GuardInv, NothingDangles, ServedPortsGuarded, Guarded
<1> QED BY <1>1 DEF GuardInv, ServedPortsGuarded, NothingDangles, Guarded

LEMMA PrepareGuard ==
  ASSUME GuardInv, Prepare
  PROVE  (HalfReady /\ Emptied /\ ServedPortsGuarded /\ NothingDangles)'
<1> USE DEF GuardInv
<1>1. /\ port \in Port /\ port \notin have /\ at \notin Dropping /\ at' \notin Dropping
      /\ UNCHANGED <<accept, port>>
  BY DEF Prepare, Create, Unredirect, Redirect, Unhook, Hook, Restore, kernel, memory, TypeOK,
     Preparing, Dropping
<1>2. Emptied'
  BY <1>1 DEF Emptied, Dropping
<1>3. CASE Create \/ Unredirect \/ Redirect
  <2>1. /\ UNCHANGED <<have, jump>>
        /\ \A p \in have : p \in chain => p \in chain'
        /\ \A p \in have : p \in redirect => p \in redirect'
    BY <1>1, <1>3 DEF Create, Unredirect, Redirect, memory
  <2>2. ServedPortsGuarded'
    BY <1>1, <2>1 DEF ServedPortsGuarded, Guarded
  <2>3. NothingDangles' /\ HalfReady'
    BY <1>1, <1>3 DEF NothingDangles, HalfReady, Create, Unredirect, Redirect, memory
  <2> QED BY <1>2, <2>2, <2>3
<1>4. ASSUME NEW i \in Interface, Unhook(i) \/ Hook(i)
      PROVE  (HalfReady /\ ServedPortsGuarded /\ NothingDangles)'
  <2>1. /\ at = "jumps" /\ at' = "jumps" /\ UNCHANGED <<chain, redirect, have>>
        /\ \/ jump' = jump \ {<<port, i>>} /\ rest' = rest /\ i \in rest
           \/ jump' = jump \cup {<<port, i>>} /\ rest' = rest \ {i}
    BY <1>4 DEF Unhook, Hook, memory
  <2>2. \A p \in have, e \in Interface : <<p, e>> \in jump => <<p, e>> \in jump'
    BY <1>1, <2>1
  <2>3. ServedPortsGuarded'
    BY <1>1, <2>1, <2>2 DEF ServedPortsGuarded, Guarded
  <2>4. \A e \in Interface \ rest' : <<port, e>> \in jump'
    BY <2>1 DEF HalfReady
  <2>5. HalfReady'
    BY <1>1, <2>1, <2>4 DEF HalfReady
  <2>6. NothingDangles'
    BY <1>1, <2>1 DEF NothingDangles, HalfReady
  <2> QED BY <2>3, <2>5, <2>6
<1>5. CASE Restore
  <2>1. /\ at = "jumps" /\ rest = {} /\ at' = "update" /\ have' = have \cup {port}
        /\ UNCHANGED <<chain, redirect, jump>>
    BY <1>5 DEF Restore, kernel
  <2>2. Guarded(port)
    BY <2>1 DEF HalfReady, Guarded
  <2>3. ServedPortsGuarded'
    BY <1>1, <2>1, <2>2 DEF ServedPortsGuarded, Guarded
  <2> QED BY <1>1, <1>2, <2>1, <2>3 DEF NothingDangles, HalfReady
<1> QED BY <1>2, <1>3, <1>4, <1>5 DEF Prepare

LEMMA DropGuard ==
  ASSUME GuardInv, Drop
  PROVE  (HalfReady /\ Emptied /\ ServedPortsGuarded /\ NothingDangles)'
<1> USE DEF GuardInv
<1>1. ASSUME NEW p \in Port, Flush(p)
      PROVE  (HalfReady /\ Emptied /\ ServedPortsGuarded /\ NothingDangles)'
  <2>1. RulesOf(p)' = {}
    BY <1>1 DEF Flush, RulesOf
  <2> QED BY <1>1, <2>1 DEF Flush, HalfReady, Emptied, ServedPortsGuarded, NothingDangles, Dropping
<1>2. ASSUME NEW i \in Interface, DeleteJump(i)
      PROVE  (HalfReady /\ Emptied /\ ServedPortsGuarded /\ NothingDangles)'
  <2>1. at = "unjump" /\ at' = "unjump" /\ UNCHANGED <<chain, redirect, accept, port>>
        /\ jump' \subseteq jump
    BY <1>2 DEF DeleteJump, memory
  <2>2. RulesOf(port)' = RulesOf(port)
    BY <2>1 DEF RulesOf
  <2> QED BY <2>1, <2>2 DEF HalfReady, Emptied, ServedPortsGuarded, NothingDangles, Dropping
<1>3. CASE DeleteChain
  <2>1. /\ at = "unjump" /\ at' = "drop" /\ chain' = chain \ {port}
        /\ \A i \in Interface : <<port, i>> \notin jump
        /\ UNCHANGED <<redirect, accept, jump>>
    BY <1>3 DEF DeleteChain
  <2>2. port \notin redirect /\ \A r \in accept : r[1] # port
    BY <2>1 DEF Emptied, RulesOf, TypeOK
  <2>3. \A j \in jump : j[1] # port
    BY <2>1 DEF TypeOK
  <2> QED BY <2>1, <2>2, <2>3 DEF HalfReady, Emptied, ServedPortsGuarded, NothingDangles, Dropping
<1>4. CASE Exit
  BY <1>4 DEF Exit, Forget, kernel, HalfReady, Emptied, ServedPortsGuarded, NothingDangles
<1> QED BY <1>1, <1>2, <1>3, <1>4 DEF Drop

LEMMA OthersGuard ==
  ASSUME GuardInv,
         \/ \E m \in Initial \cup Event : Receive(m)
         \/ Start \/ (\E p \in Port : ProvideChain(p)) \/ Update \/ Handled
         \/ Stop \/ Panic \/ PanicInDrop \/ Kill
  PROVE  (HalfReady /\ Emptied /\ ServedPortsGuarded /\ NothingDangles)'
<1> USE DEF GuardInv
<1>1. CASE PanicInDrop \/ Kill
  <2>1. at' = "down" /\ have' = {} /\ UNCHANGED kernel
    BY <1>1 DEF PanicInDrop, Kill, Forget
  <2> QED BY <2>1 DEF kernel, HalfReady, Emptied, ServedPortsGuarded, NothingDangles
<1>2. CASE ~ (PanicInDrop \/ Kill)
  <2>1. /\ UNCHANGED <<chain, redirect, jump, have>>
        /\ at' \notin {"unredirect", "redirect", "jumps", "unjump"}
        /\ at \notin Dropping
    BY <1>2 DEF Receive, Start, ProvideChain, Update, RemoveAccept, AddAccept, Updated, Handled,
       Stop, Panic, kernel, memory, Dropping, Preparing
  <2>2. \A r \in accept' : r \in accept \/ r[1] \in have
    BY <1>2 DEF Receive, Start, ProvideChain, Update, RemoveAccept, AddAccept, Updated, Handled,
       Stop, Panic, kernel, TypeOK
  <2>3. HalfReady' /\ Emptied'
    BY <2>1 DEF HalfReady, Emptied
  <2> QED BY <2>1, <2>2, <2>3, SameKernel
<1> QED BY <1>1, <1>2

LEMMA NextGuard == GuardInv /\ [Next]_vars => GuardInv'
<1>1. ASSUME GuardInv, Next
      PROVE  (HalfReady /\ Emptied /\ ServedPortsGuarded /\ NothingDangles)'
  BY <1>1, PrepareGuard, DropGuard, OthersGuard DEF Next, Run
<1>2. ASSUME GuardInv, UNCHANGED vars
      PROVE  (HalfReady /\ Emptied /\ ServedPortsGuarded /\ NothingDangles)'
  BY <1>2 DEF GuardInv, HalfReady, Emptied, ServedPortsGuarded, NothingDangles, Guarded, RulesOf,
     vars, kernel, memory
<1> QED BY <1>1, <1>2, NextType DEF GuardInv

LEMMA GuardInvHolds == Spec => []GuardInv
<1>1. Init => GuardInv
  BY DaemonAssumption DEF Init, NothingInMind, GuardInv, TypeOK, HalfReady, Emptied,
     ServedPortsGuarded, NothingDangles, Serving, Preparing
<1> QED BY <1>1, NextGuard, PTL DEF Spec

(***************************************************************************)
(* A port the daemon serves is never open to everybody.                    *)
(***************************************************************************)
THEOREM PortsStayGuarded == Spec => []ServedPortsGuarded
BY GuardInvHolds, PTL DEF GuardInv

(***************************************************************************)
(* cleanup takes rules, jumps and chain in an order iptables accepts, also *)
(* when an earlier attempt was cut.                                        *)
(***************************************************************************)
THEOREM NoDanglingRules == Spec => []NothingDangles
BY GuardInvHolds, PTL DEF GuardInv
=============================================================================
