---------------------------- MODULE SeatContract ----------------------------
(***************************************************************************)
(* What PlayerListService promises, with the tasks, the mutex, what they   *)
(* read and the visits of the sync left out: the list of a server changes  *)
(* in single steps, each of which starts from the list as it is.           *)
(***************************************************************************)
CONSTANTS Player, Server, Privileged

VARIABLES
  queued,   \* queued[s]: the players in the line of s
  asked,    \* <<s, c>>: c is being admitted to s
  listed,   \* listed[s]: the players with an entry in the list of s
  overdue,  \* entries that may go
  pass,     \* the passes there are
  met       \* <<s, c>>: c was found in the game of s without an entry

vars == <<queued, asked, listed, overdue, pass, met>>

Init ==
  /\ queued = [s \in Server |-> {}] /\ listed = [s \in Server |-> {}]
  /\ asked = {} /\ overdue = {} /\ pass = {} /\ met = {}

Join(s, c) ==
  /\ <<s, c>> \notin pass \cup Privileged
  /\ queued' = [queued EXCEPT ![s] = @ \cup {c}]
  /\ UNCHANGED <<asked, listed, overdue, pass, met>>

Leave(s, c) ==
  /\ queued' = [queued EXCEPT ![s] = @ \ {c}]
  /\ UNCHANGED <<asked, listed, overdue, pass, met>>

\* an admission comes from the line, or of a privilege
Take(s, c) ==
  /\ c \in queued[s]
  /\ queued' = [queued EXCEPT ![s] = @ \ {c}]
  /\ asked' = asked \cup {<<s, c>>}
  /\ UNCHANGED <<listed, overdue, pass, met>>

Skip(s, c) ==
  /\ <<s, c>> \in Privileged \ pass
  /\ asked' = asked \cup {<<s, c>>}
  /\ UNCHANGED <<queued, listed, overdue, pass, met>>

\* errors, timeouts and restarts
Lose ==
  /\ asked' \subseteq asked /\ met' \subseteq met
  /\ UNCHANGED <<queued, listed, overdue, pass>>

\* an admission adds one entry and touches no other
Enter(s, c) ==
  /\ <<s, c>> \in asked
  /\ listed' = [listed EXCEPT ![s] = @ \cup {c}]
  /\ overdue' = overdue \ {<<s, c>>}
  /\ UNCHANGED <<queued, asked, pass, met>>

\* the entry comes before the pass
Grant(s, c) ==
  /\ <<s, c>> \in asked /\ c \in listed[s]
  /\ pass' = pass \cup {<<s, c>>}
  /\ asked' \in {asked, asked \ {<<s, c>>}}
  /\ UNCHANGED <<queued, listed, overdue, met>>

Lapse(s, c) ==
  /\ c \in listed[s]
  /\ overdue' = overdue \cup {<<s, c>>}
  /\ UNCHANGED <<queued, asked, listed, pass, met>>

Withdraw(s, c) ==
  /\ pass' = pass \ {<<s, c>>}
  /\ UNCHANGED <<queued, asked, listed, overdue, met>>

\* in the game, with no entry: a pass now, the entry with the next Sync
Meet(s, c) ==
  /\ c \notin listed[s]
  /\ pass' = pass \cup {<<s, c>>}
  /\ met' = met \cup {<<s, c>>}
  /\ UNCHANGED <<queued, asked, listed, overdue>>

\* overdue entries without a pass go, the players met come, all others stay;
\* an entry is overdue no more when its player is back
Sync(s, gone, back) ==
  /\ \A c \in gone : <<s, c>> \in overdue \ pass
  /\ listed' = [listed EXCEPT ![s] = (@ \ gone) \cup {c \in Player : <<s, c>> \in met}]
  /\ overdue' = overdue \ {<<s, c>> : c \in back \cup (Player \ listed'[s])}
  /\ met' = {m \in met : m[1] # s}
  /\ UNCHANGED <<queued, asked, pass>>

Step(s, c) ==
  \/ Join(s, c) \/ Leave(s, c) \/ Take(s, c) \/ Skip(s, c)
  \/ Enter(s, c) \/ Grant(s, c) \/ Lapse(s, c) \/ Withdraw(s, c) \/ Meet(s, c)

Next ==
  \/ Lose
  \/ \E s \in Server : \/ \E c \in Player : Step(s, c)
                       \/ \E gone, back \in SUBSET Player : Sync(s, gone, back)

Spec == Init /\ [][Next]_vars
=============================================================================
