------------------------------- MODULE Passes -------------------------------
(***************************************************************************)
(* PassService (queue-backend/src/pass/pass.service.ts): who may join      *)
(* which game server.  A pass is kept twice in Redis, in a set per server  *)
(* and in a set per player, updated by one command each; then the player's *)
(* passes are read and the change is announced.  The calls come from the   *)
(* player list (admissions, expiries) and, at any time, from an admin who  *)
(* revokes a pass.                                                         *)
(*                                                                         *)
(* All commands go through one Redis connection: they run in the order     *)
(* they are issued and their replies resume the calls in that order.       *)
(***************************************************************************)
EXTENDS Naturals, Sequences

CONSTANTS
  Player,       \* ckeys
  Server,       \* ports
  MaxWire,      \* bound: so many calls are in flight at most
  MaxRestarts   \* bound: how often the process may be restarted

Pass == Server \X Player

ASSUME PassBoundAssumption == MaxWire \in Nat /\ MaxRestarts \in Nat

VARIABLES
  passes,       \* the Redis sets passes_{s}, as pairs <<s, c>>
  held,         \* the Redis sets pass:{c}, as pairs <<s, c>>
  wire,         \* the calls that await a reply, oldest command first
  known,        \* what PassAdded and PassRemoved have announced last
  shown,        \* shown[c]: the passes in the last PassUpdate for c
  mismatches,   \* passes for which "Has mismatch in passes" was logged
  cut,          \* passes a restart has left in one set and not in the other
  restarts      \* how often the process was restarted

sets == <<passes, held>>
events == <<known, shown>>
ghosts == <<mismatches, cut, restarts>>
vars == <<sets, wire, events, ghosts>>

\* what a call does with its next reply: update the player's set, read the
\* player's passes, or announce what it has read
Call == [op : {"add", "remove"}, at : {"own", "read", "tell"}, pass : Pass,
         seen : SUBSET Server]

TypeOK ==
  /\ passes \subseteq Pass /\ held \subseteq Pass
  /\ wire \in Seq(Call)
  /\ known \subseteq Pass
  /\ shown \in [Player -> SUBSET Server]
  /\ mismatches \subseteq Pass /\ cut \subseteq Pass
  /\ restarts \in Nat

Init ==
  /\ passes = {} /\ held = {} /\ wire = <<>>
  /\ known = {} /\ shown = [c \in Player |-> {}]
  /\ mismatches = {} /\ cut = {} /\ restarts = 0
-----------------------------------------------------------------------------
PassesOf(c, pairs) == {s \in Server : <<s, c>> \in pairs}

\* a call begins with the update of the server's set
Start(op, p) ==
  wire' = Append(wire, [op |-> op, at |-> "own", pass |-> p, seen |-> {}])

\* the call that has its reply issues its next command, or ends
Reissue(at, seen) ==
  wire' = Append(Tail(wire), [Head(wire) EXCEPT !.at = at, !.seen = seen])
End == wire' = Tail(wire)
Resumes(at) == wire # <<>> /\ Head(wire).at = at

\* mutant: the answer of SADD on the server's set is not looked at
AddUnchecked(p) ==
  /\ Len(wire) < MaxWire
  /\ passes' = passes \cup {p}
  /\ Start("add", p)
  /\ UNCHANGED <<held, events, ghosts>>

\* mutant: ckey and port are swapped in the first SADD
AddSwapped(p) ==
  /\ Len(wire) < MaxWire
  /\ p \notin passes
  /\ passes' = passes \cup {<<p[2], p[1]>>}
  /\ Start("add", p)
  /\ UNCHANGED <<held, events, ghosts>>

\* addPassForCkey; SADD answers 0 for a pass that is there: nothing is done
AddPassForCkey(p) ==
  /\ Len(wire) < MaxWire
  /\ p \notin passes
  /\ passes' = passes \cup {p}
  /\ Start("add", p)
  /\ UNCHANGED <<held, events, ghosts>>

\* removeCKeyPass does not look at the answers
RemoveCKeyPass(p) ==
  /\ Len(wire) < MaxWire
  /\ passes' = passes \ {p}
  /\ Start("remove", p)
  /\ UNCHANGED <<held, events, ghosts>>

\* SADD on the player's set
Own ==
  /\ Resumes("own") /\ Head(wire).op = "add"
  /\ Head(wire).pass \notin held
  /\ held' = held \cup {Head(wire).pass}
  /\ Reissue("read", {})
  /\ UNCHANGED <<passes, events, ghosts>>

\* SADD answers 0: a mismatch is logged and nothing announced
Mismatch ==
  /\ Resumes("own") /\ Head(wire).op = "add"
  /\ Head(wire).pass \in held
  /\ mismatches' = mismatches \cup {Head(wire).pass}
  /\ End
  /\ UNCHANGED <<sets, events, cut, restarts>>

\* mutant: the SREM on the player's set is forgotten
DisownForgotten ==
  /\ Resumes("own") /\ Head(wire).op = "remove"
  /\ Reissue("read", {})
  /\ UNCHANGED <<sets, events, ghosts>>

\* SREM on the player's set
Disown ==
  /\ Resumes("own") /\ Head(wire).op = "remove"
  /\ held' = held \ {Head(wire).pass}
  /\ Reissue("read", {})
  /\ UNCHANGED <<passes, events, ghosts>>

\* mutant: a removal does not read again, it announces what the client was shown
ReadNothing ==
  /\ Resumes("read")
  /\ LET c == Head(wire).pass[2] IN
     Reissue("tell", IF Head(wire).op = "add" THEN PassesOf(c, held) ELSE shown[c])
  /\ UNCHANGED <<sets, events, ghosts>>

\* notifyPassUpdate: SMEMBERS of the player's set
Read ==
  /\ Resumes("read")
  /\ Reissue("tell", PassesOf(Head(wire).pass[2], held))
  /\ UNCHANGED <<sets, events, ghosts>>

\* mutant: removeCKeyPass announces the pass as added
TellAdded ==
  /\ Resumes("tell")
  /\ shown' = [shown EXCEPT ![Head(wire).pass[2]] = Head(wire).seen]
  /\ known' = known \cup {Head(wire).pass}
  /\ End
  /\ UNCHANGED <<sets, ghosts>>

\* PassUpdate, then PassAdded or PassRemoved
Announced ==
  /\ shown' = [shown EXCEPT ![Head(wire).pass[2]] = Head(wire).seen]
  /\ known' = IF Head(wire).op = "add" THEN known \cup {Head(wire).pass}
              ELSE known \ {Head(wire).pass}

Tell ==
  /\ Resumes("tell")
  /\ Announced
  /\ End
  /\ UNCHANGED <<sets, ghosts>>

Reply == Own \/ Mismatch \/ Disown \/ Read \/ Tell

\* Redis keeps its data; the listeners read passes_{s} again when they need it,
\* the pages ask for pass:{c}
Restart ==
  /\ restarts < MaxRestarts
  /\ restarts' = restarts + 1
  /\ wire' = <<>>
  /\ cut' = cut \cup (passes \ held) \cup (held \ passes)
  /\ known' = passes
  /\ shown' = [c \in Player |-> PassesOf(c, held)]
  /\ UNCHANGED <<sets, mismatches>>

Next ==
  \/ \E p \in Pass : AddPassForCkey(p) \/ RemoveCKeyPass(p)
  \/ Reply
  \/ Restart

Spec == Init /\ [][Next]_vars

(***************************************************************************)
(* Redis answers; nobody need ask for anything.                            *)
(***************************************************************************)
FairSpec == Spec /\ WF_vars(Reply)
-----------------------------------------------------------------------------
Is(i, p, at) == wire[i].pass = p /\ wire[i].at = at
Pending(p, at) == \E i \in DOMAIN wire : Is(i, p, at)

(***************************************************************************)
(* Whatever calls overlap, the server's set (the firewall's source) and    *)
(* the player's set (checkPass) agree once the calls for that pass are     *)
(* through, unless a restart cut one: concurrent additions and removals of *)
(* one pass reach both sets in the same order.                             *)
(***************************************************************************)
SetsAgree ==
  \A p \in Pass \ cut : ~ Pending(p, "own") => (p \in passes <=> p \in held)

(***************************************************************************)
(* "Has mismatch in passes" (pass.service.ts:27) is logged for a pass only *)
(* if a restart cut one of its updates before.                             *)
(***************************************************************************)
MismatchOnlyAfterRestart == mismatches \subseteq cut

(***************************************************************************)
(* Once no call is under way for a pass, the last of PassAdded and         *)
(* PassRemoved that the listeners were told says what Redis says.          *)
(***************************************************************************)
Busy(p) == \E at \in {"own", "read", "tell"} : Pending(p, at)

ListenersAgree ==
  \A p \in Pass \ cut : ~ Busy(p) => (p \in known <=> p \in passes)

(***************************************************************************)
(* Once no call is under way for a player, the last PassUpdate its clients *)
(* got lists the passes it holds.                                          *)
(***************************************************************************)
ShownCurrent ==
  \A c \in Player :
    (\A s \in Server : ~ Busy(<<s, c>>)) => shown[c] = PassesOf(c, held)
=============================================================================
