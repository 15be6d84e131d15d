------------------------------ MODULE Firewall ------------------------------
(***************************************************************************)
(* From Redis to the ports: the backend (IpPasses), the websocket and      *)
(* iptables-control-daemon (Daemon) together.  A daemon connects and       *)
(* subscribes to its ports; the gateway answers with one Initial message   *)
(* when its snapshot is complete, and with an event for every later change *)
(* (iptablesEvents.gateway.ts).  Messages arrive in order, and are lost    *)
(* with their connection; then the process ends, drops its chains, and     *)
(* systemd starts another one.                                             *)
(*                                                                         *)
(* Each step is one of IpPasses or one of Daemon.  An event that changes   *)
(* nothing of what the daemon was told is not put on the channel: with all *)
(* chains in memory it changes nothing there either.                       *)
(***************************************************************************)
EXTENDS IpPasses

CONSTANTS Interface, MaxFaults, NoPort   \* as in Daemon

\* what the theorems suppose of them, besides SourceAssumption
FirewallConstants == NoPort \notin Server /\ MaxFaults \in Nat /\ IsFiniteSet(Server)

VARIABLES
  \* as in Daemon, whose at, todo, port and rest are pc, undone, target and hooks here
  chain, redirect, accept, jump,
  pc, have, accepts, message, undone, target, hooks, goal, want, faults,
  socket,       \* the connection of the daemon that runs: "none", "asked" (it has
                \* subscribed), "up" (the gateway serves it) or "cut" (it has ended
                \* for the gateway; the daemon does not know yet)
  channel       \* the messages on their way to the daemon, oldest first

\* allow_ports are the servers of the backend
Fw == INSTANCE Daemon
  WITH Port <- Server, at <- pc, todo <- undone, port <- target, rest <- hooks

process == <<chain, redirect, accept, jump, pc, have, accepts, message, undone,
             target, hooks, goal, want, faults>>
firewallVars == <<vars, process, socket, channel>>

FirewallInit == Init /\ Fw!Init /\ socket = "none" /\ channel = <<>>
-----------------------------------------------------------------------------
(***************************************************************************)
(* The gateway                                                             *)
(***************************************************************************)
ToldOf(s) == {a \in Address : <<s, a>> \in told}

InitialMessage == [kind |-> "Initial", accepts |-> [s \in Server |-> ToldOf(s)]]

EventMessage(kind, r) == [kind |-> kind, port |-> r[1], address |-> r[2]]

\* what a step of the backend changes, one event for each rule
Changes ==
  {EventMessage("ALLOW", r) : r \in told' \ told} \cup
  {EventMessage("REVOKE", r) : r \in told \ told'}

\* concat: the snapshot as the first message, then eventsSubject
Send ==
  IF socket' = "up" /\ daemon' = "live"
  THEN IF daemon = "live" THEN \E q \in Orders(Changes) : channel' = channel \o q
                          ELSE channel' = Append(channel, InitialMessage')
  ELSE UNCHANGED channel

\* passes, logins and tables
Backend ==
  \/ \E p \in Offered : ChangePass(p)
  \/ PassReply \/ HandlePassAdded \/ HandlePassRemoved
  \/ \E c \in Player, a \in Address : LinkIp(c, a) \/ Expire(c, a)
  \/ Prune \/ Zadd \/ Linked
  \/ Handle \/ LookUp \/ StoreTable

BackendStep == Backend /\ UNCHANGED <<process, socket>> /\ Send

\* the subscription of the daemon that runs
Subscribe ==
  /\ socket = "asked"
  /\ HandleEvent
  /\ socket' = "up" /\ Send
  /\ UNCHANGED process

\* the gateway finds a connection closed: of this daemon, or of an earlier one
Part ==
  /\ Leave
  /\ socket' = IF socket = "up" THEN "cut" ELSE socket
  /\ UNCHANGED <<process, channel>>

\* a restart of the backend closes every connection
BackendRestart ==
  /\ Restart
  /\ socket' = IF socket = "none" THEN "none" ELSE "cut"
  /\ UNCHANGED <<process, channel>>
-----------------------------------------------------------------------------
(***************************************************************************)
(* The daemon                                                              *)
(***************************************************************************)
Connect ==
  /\ Fw!Start
  /\ socket' = "asked" /\ channel' = <<>>
  /\ UNCHANGED vars

NextMessage ==
  /\ channel # <<>>
  /\ Fw!Receive(Head(channel))
  /\ channel' = Tail(channel)
  /\ UNCHANGED <<vars, socket>>

\* one iptables command, or what the process does between two of them
Command ==
  /\ (\E s \in Server : Fw!ProvideChain(s)) \/ Fw!Prepare \/ Fw!Update \/ Fw!Handled \/ Fw!Drop
  /\ UNCHANGED <<vars, socket, channel>>

\* the connection goes with the process, and what is on its way with it; Stop is
\* also what the daemon does when it finds the connection closed
Fail ==
  /\ Fw!Stop \/ Fw!Panic \/ Fw!PanicInDrop \/ Fw!Kill
  /\ socket' = "none" /\ channel' = <<>>
  /\ UNCHANGED vars

FirewallNext ==
  \/ BackendStep \/ Subscribe \/ Part \/ BackendRestart
  \/ Connect \/ NextMessage \/ Command \/ Fail

FirewallSpec == FirewallInit /\ [][FirewallNext]_firewallVars
-----------------------------------------------------------------------------
\* the daemon has had its snapshot and has done what it was told so far
UpToDate == socket = "up" /\ daemon = "live" /\ channel = <<>> /\ pc = "next"

(***************************************************************************)
(* A daemon that is up to date has the rules the gateway has told it of,   *)
(* for every port, whatever earlier processes, connections and restarts    *)
(* have left: the snapshot and the events after it leave no gap.           *)
(***************************************************************************)
RulesFollow == UpToDate => \A s \in Server : Fw!RulesOf(s) = ToldOf(s)

\* nothing is under way for c, and no restart has cut its pass for s
AtRest(s, c) == Settled(c) /\ <<s, c>> \notin cut

(***************************************************************************)
(* What the whole is for: with a daemon that is up to date, a port lets in *)
(* the addresses of the players that hold a pass for it, and nobody else.  *)
(* The reservations are those of TableAgrees and DaemonAgrees: an update   *)
(* that is under way, a table built during a change, a change that fell    *)
(* into the snapshot's gap, and addresses that have expired.               *)
(***************************************************************************)
PortsRight ==
  UpToDate =>
    \A s \in Server \ unsettled :
      /\ Fw!Guarded(s)
      /\ \A a \in Address : <<s, a>> \notin missed =>
           /\ \A c \in Player :
                AtRest(s, c) /\ <<s, c>> \in passes /\ <<c, a>> \in fresh => <<s, a>> \in accept
           /\ <<s, a>> \in accept =>
                \E c \in Player :
                  \/ ~ AtRest(s, c) \/ <<s, <<c, a>>>> \in uncovered
                  \/ <<s, c>> \in passes /\ <<c, a>> \in fresh \cup expired
=============================================================================
