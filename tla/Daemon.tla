------------------------------- MODULE Daemon -------------------------------
(***************************************************************************)
(* iptables-control-daemon (main.rs, fwmanage.rs).  For every allowed port *)
(* there is a chain in the nat table: ACCEPT rules for the addresses of    *)
(* players with a pass, then a REDIRECT of everybody else.  PREROUTING     *)
(* jumps to the chain.  The backend sends the addresses once (Initial) and *)
(* then the changes (ALLOW, REVOKE).                                       *)
(*                                                                         *)
(* A step is one iptables command with the memory it goes with.  A command *)
(* may fail: unwrap panics and FwState is dropped, which takes the chains  *)
(* away.  The process may be killed before any command; the rules stay and *)
(* the next process finds them.  ACCEPT rules are inserted at the top and  *)
(* REDIRECT is appended, so rules are kept as sets here.                   *)
(***************************************************************************)
EXTENDS Naturals

CONSTANTS
  Port,         \* allow_ports
  Address,      \* addresses of players
  Interface,    \* redirect_interfaces
  MaxFaults,    \* bound: commands that fail, kills and shutdowns
  NoPort

ASSUME DaemonAssumption == NoPort \notin Port /\ MaxFaults \in Nat

VARIABLES
  chain,        \* the ports whose chain SS_ENTRY_{p} exists
  redirect,     \* the ports whose chain ends with REDIRECT
  accept,       \* <<p, a>>: the chain of p has an ACCEPT rule for a
  jump,         \* <<p, i>>: PREROUTING jumps to the chain of p from interface i
  at,           \* where the process is
  have,         \* the ports in FwState::chains
  accepts,      \* accepts[p]: FwChain::accepts
  message,      \* the message that is handled
  todo,         \* its ports that are still to be done
  port, rest,   \* the port that is done, and its interfaces still to be done
  goal,         \* the addresses it is to have
  want,         \* want[p]: what the messages so far say of p
  faults        \* how many faults there were

kernel == <<chain, redirect, accept, jump>>
memory == <<have, accepts, message, todo, port, rest, goal>>
vars == <<kernel, at, memory, want, faults>>

Initial == [kind : {"Initial"}, accepts : [Port -> SUBSET Address]]
Event == [kind : {"ALLOW", "REVOKE"}, port : Port, address : Address]
NoMessage == [kind |-> "none"]

Preparing == {"create", "unredirect", "redirect", "jumps"}
Serving == {"port", "update"} \cup Preparing
Dropping == {"drop", "unjump"}

TypeOK ==
  /\ chain \subseteq Port /\ redirect \subseteq Port
  /\ accept \subseteq Port \X Address /\ jump \subseteq Port \X Interface
  /\ at \in {"down", "next"} \cup Serving \cup Dropping
  /\ have \subseteq Port
  /\ accepts \in [Port -> SUBSET Address]
  /\ message \in {NoMessage} \cup Initial \cup Event
  /\ todo \subseteq Port /\ port \in Port \cup {NoPort} /\ rest \subseteq Interface
  /\ goal \subseteq Address
  /\ at \in Serving => message # NoMessage
  /\ at \in Preparing => port \in Port \ have
  /\ at \in {"update", "unjump"} => port \in have
  /\ want \in [Port -> SUBSET Address]
  /\ faults \in Nat

NothingInMind ==
  /\ have = {} /\ accepts = [p \in Port |-> {}]
  /\ message = NoMessage /\ todo = {} /\ port = NoPort /\ rest = {} /\ goal = {}

Init ==
  /\ chain = {} /\ redirect = {} /\ accept = {} /\ jump = {}
  /\ at = "down" /\ NothingInMind
  /\ want = [p \in Port |-> {}] /\ faults = 0

RulesOf(p) == {a \in Address : <<p, a>> \in accept}
-----------------------------------------------------------------------------
\* main: connected, the subscription is sent
Start ==
  /\ at = "down"
  /\ at' = "next"
  /\ UNCHANGED <<kernel, memory, want, faults>>

\* what p has before an event: what it was told, or else what init will find
Before(p) == IF p \in have THEN want[p] ELSE RulesOf(p)

Receive(m) ==
  /\ at = "next"
  /\ at' = "port"
  /\ message' = m
  /\ \/ /\ m.kind = "Initial"
        /\ todo' = Port
        /\ want' = m.accepts
     \/ /\ m.kind = "ALLOW"
        /\ todo' = {m.port}
        /\ want' = [want EXCEPT ![m.port] = Before(m.port) \cup {m.address}]
     \/ /\ m.kind = "REVOKE"
        /\ todo' = {m.port}
        /\ want' = [want EXCEPT ![m.port] = Before(m.port) \ {m.address}]
  /\ UNCHANGED <<kernel, have, accepts, port, rest, goal, faults>>

\* what add_accept, remove_accept or update_accepts will make of p
GoalOf(before, p) ==
  CASE message.kind = "Initial" -> message.accepts[p]
    [] message.kind = "ALLOW" -> before \cup {message.address}
    [] message.kind = "REVOKE" -> before \ {message.address}

\* provide_chain: there is a chain in memory, or a new one is initialised
ProvideChain(p) ==
  /\ at = "port"
  /\ p \in todo
  /\ todo' = todo \ {p} /\ port' = p
  /\ IF p \in have
     THEN at' = "update" /\ goal' = GoalOf(accepts[p], p)
     ELSE at' = "create" /\ goal' = {}
  /\ UNCHANGED <<kernel, have, accepts, message, rest, want, faults>>

\* mutant: new_chain is called although the chain exists, which is an error
CreateAlways ==
  /\ at = "create"
  /\ at' = IF port \in chain THEN "drop" ELSE "unredirect"
  /\ chain' = chain \cup {port}
  /\ UNCHANGED <<redirect, accept, jump, memory, want, faults>>

\* new_chain, unless list_chains shows it
Create ==
  /\ at = "create"
  /\ at' = "unredirect"
  /\ chain' = chain \cup {port}
  /\ UNCHANGED <<redirect, accept, jump, memory, want, faults>>

\* append_replace deletes the rule if there is one
Unredirect ==
  /\ at = "unredirect"
  /\ at' = "redirect"
  /\ redirect' = redirect \ {port}
  /\ UNCHANGED <<chain, accept, jump, memory, want, faults>>

\* mutant: the rule is deleted and not appended
RedirectForgotten ==
  /\ at = "redirect"
  /\ at' = "jumps" /\ rest' = Interface
  /\ UNCHANGED <<kernel, have, accepts, message, todo, port, goal, want, faults>>

\* and appends it
Redirect ==
  /\ at = "redirect"
  /\ at' = "jumps" /\ rest' = Interface
  /\ redirect' = redirect \cup {port}
  /\ UNCHANGED <<chain, accept, jump, have, accepts, message, todo, port, goal, want, faults>>

\* the same for each interface in PREROUTING
Unhook(i) ==
  /\ at = "jumps" /\ i \in rest
  /\ <<port, i>> \in jump
  /\ jump' = jump \ {<<port, i>>}
  /\ UNCHANGED <<chain, redirect, accept, at, memory, want, faults>>

Hook(i) ==
  /\ at = "jumps" /\ i \in rest
  /\ <<port, i>> \notin jump
  /\ jump' = jump \cup {<<port, i>>}
  /\ rest' = rest \ {i}
  /\ UNCHANGED <<chain, redirect, accept, at, have, accepts, message, todo, port, goal, want, faults>>

\* mutant: the rules of an earlier process are not read
RestoreNothing ==
  /\ at = "jumps" /\ rest = {}
  /\ at' = "update"
  /\ accepts' = [accepts EXCEPT ![port] = {}]
  /\ goal' = GoalOf({}, port)
  /\ have' = have \cup {port}
  /\ UNCHANGED <<kernel, message, todo, port, rest, want, faults>>

\* mutant: the chain is not entered into the map
RestoreUnkept ==
  /\ at = "jumps" /\ rest = {}
  /\ at' = "update"
  /\ accepts' = [accepts EXCEPT ![port] = RulesOf(port)]
  /\ goal' = GoalOf(RulesOf(port), port)
  /\ UNCHANGED <<kernel, have, message, todo, port, rest, want, faults>>

\* restore reads the ACCEPT rules that are there
Restore ==
  /\ at = "jumps" /\ rest = {}
  /\ at' = "update"
  /\ accepts' = [accepts EXCEPT ![port] = RulesOf(port)]
  /\ goal' = GoalOf(RulesOf(port), port)
  /\ have' = have \cup {port}
  /\ UNCHANGED <<kernel, message, todo, port, rest, want, faults>>

\* mutant: all addresses are removed, to add the new ones afterwards
RemoveAny(a) ==
  /\ at = "update" /\ a \in accepts[port]
  /\ accepts' = [accepts EXCEPT ![port] = @ \ {a}]
  /\ accept' = accept \ {<<port, a>>}
  /\ UNCHANGED <<chain, redirect, jump, at, have, message, todo, port, rest, goal, want, faults>>

RemoveAccept(a) ==
  /\ at = "update" /\ a \in accepts[port] \ goal
  /\ accepts' = [accepts EXCEPT ![port] = @ \ {a}]
  /\ accept' = accept \ {<<port, a>>}
  /\ UNCHANGED <<chain, redirect, jump, at, have, message, todo, port, rest, goal, want, faults>>

\* update_accepts removes first
AddAccept(a) ==
  /\ at = "update" /\ accepts[port] \subseteq goal /\ a \in goal \ accepts[port]
  /\ accepts' = [accepts EXCEPT ![port] = @ \cup {a}]
  /\ accept' = accept \cup {<<port, a>>}
  /\ UNCHANGED <<chain, redirect, jump, at, have, message, todo, port, rest, goal, want, faults>>

Updated ==
  /\ at = "update" /\ accepts[port] = goal
  /\ at' = "port" /\ port' = NoPort /\ goal' = {}
  /\ UNCHANGED <<kernel, have, accepts, message, todo, rest, want, faults>>

Handled ==
  /\ at = "port" /\ todo = {}
  /\ at' = "next" /\ message' = NoMessage
  /\ UNCHANGED <<kernel, have, accepts, todo, port, rest, goal, want, faults>>
-----------------------------------------------------------------------------
(***************************************************************************)
(* FwState::drop and FwChain::cleanup                                      *)
(***************************************************************************)
Flush(p) ==
  /\ at = "drop" /\ p \in have
  /\ at' = "unjump" /\ port' = p
  /\ accept' = accept \ ({p} \X Address)
  /\ redirect' = redirect \ {p}
  /\ UNCHANGED <<chain, jump, have, accepts, message, todo, rest, goal, want, faults>>

DeleteJump(i) ==
  /\ at = "unjump" /\ <<port, i>> \in jump
  /\ jump' = jump \ {<<port, i>>}
  /\ UNCHANGED <<chain, redirect, accept, at, memory, want, faults>>

\* mutant: the chain goes while PREROUTING may still refer to it
DeleteChainEarly ==
  /\ at = "unjump"
  /\ at' = "drop" /\ have' = have \ {port}
  /\ chain' = chain \ {port}
  /\ UNCHANGED <<redirect, accept, jump, accepts, message, todo, port, rest, goal, want, faults>>

DeleteChain ==
  /\ at = "unjump" /\ \A i \in Interface : <<port, i>> \notin jump
  /\ at' = "drop" /\ have' = have \ {port}
  /\ chain' = chain \ {port}
  /\ UNCHANGED <<redirect, accept, jump, accepts, message, todo, port, rest, goal, want, faults>>

Forget ==
  /\ at' = "down"
  /\ have' = {} /\ accepts' = [p \in Port |-> {}]
  /\ message' = NoMessage /\ todo' = {} /\ port' = NoPort /\ rest' = {} /\ goal' = {}

Exit ==
  /\ at = "drop" /\ have = {}
  /\ Forget
  /\ UNCHANGED <<kernel, want, faults>>
-----------------------------------------------------------------------------
Fault == faults < MaxFaults /\ faults' = faults + 1

\* the connection is closed, or SIGINT
Stop ==
  /\ at = "next" /\ Fault
  /\ at' = "drop"
  /\ UNCHANGED <<kernel, memory, want>>

\* an iptables command fails: panic, the chains in memory are dropped
Panic ==
  /\ \/ at \in Preparing
     \/ at = "update" /\ accepts[port] # goal
  /\ Fault
  /\ at' = "drop"
  /\ UNCHANGED <<kernel, memory, want>>

\* one fails while they are dropped: the process ends
PanicInDrop ==
  /\ \/ at = "unjump"
     \/ at = "drop" /\ have # {}
  /\ Fault
  /\ Forget
  /\ UNCHANGED <<kernel, want>>

\* the process is killed
Kill ==
  /\ at # "down" /\ Fault
  /\ Forget
  /\ UNCHANGED <<kernel, want>>

Prepare ==
  \/ Create \/ Unredirect \/ Redirect
  \/ \E i \in Interface : Unhook(i) \/ Hook(i)
  \/ Restore

Update ==
  \/ \E a \in Address : RemoveAccept(a) \/ AddAccept(a)
  \/ Updated

Drop ==
  \/ \E p \in Port : Flush(p)
  \/ \E i \in Interface : DeleteJump(i)
  \/ DeleteChain \/ Exit

Run == Start \/ (\E p \in Port : ProvideChain(p)) \/ Prepare \/ Update \/ Handled \/ Drop

Next ==
  \/ \E m \in Initial \cup Event : Receive(m)
  \/ Run
  \/ Stop \/ Panic \/ PanicInDrop \/ Kill

Spec == Init /\ [][Next]_vars

(***************************************************************************)
(* systemd starts the daemon again (Restart=always), its commands return,  *)
(* and the gateway answers every subscription with an Initial message.     *)
(***************************************************************************)
Fairness ==
  /\ WF_vars(Run)
  /\ SF_vars(have # Port /\ \E m \in Initial : Receive(m))

FairSpec == Spec /\ Fairness
-----------------------------------------------------------------------------
(***************************************************************************)
(* Between two messages the rules of every port that is served are those   *)
(* that the messages ask for, and what the daemon believes they are:       *)
(* whatever rules a killed process, a failed command or a panic left.      *)
(***************************************************************************)
RulesMatch ==
  at = "next" => \A p \in have : RulesOf(p) = want[p] /\ accepts[p] = want[p]

(***************************************************************************)
(* While a port is served, nobody without an ACCEPT rule gets through: its *)
(* chain redirects and every interface jumps to it, also during updates.   *)
(***************************************************************************)
Guarded(p) ==
  /\ p \in chain /\ p \in redirect
  /\ \A i \in Interface : <<p, i>> \in jump

ServedPortsGuarded == at \notin Dropping => \A p \in have : Guarded(p)

(***************************************************************************)
(* No rule and no jump ever refers to a chain that is gone, and no chain   *)
(* goes that is not empty (iptables refuses both).                         *)
(***************************************************************************)
NothingDangles ==
  /\ redirect \subseteq chain
  /\ \A r \in accept : r[1] \in chain
  /\ \A j \in jump : j[1] \in chain

(***************************************************************************)
(* An update touches nothing but the difference: an address that had its   *)
(* rule and is to keep it has it all the time, and nobody who is not to    *)
(* have one gets one meanwhile.  Only the shutdown takes all rules.        *)
(***************************************************************************)
NoFlicker ==
  [][/\ \A r \in accept \ accept' : at = "drop" \/ r[2] \notin want[r[1]]
     /\ \A r \in accept' \ accept : r[2] \in want[r[1]]]_vars

(***************************************************************************)
(* Once faults cease, every allowed port is guarded for good, whatever     *)
(* state the faults have left the nat table in.                            *)
(***************************************************************************)
GuardedInTheEnd == <>[](\A p \in Port : Guarded(p))
=============================================================================
