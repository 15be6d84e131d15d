---------------------------- MODULE VisitorProofs ----------------------------
(***************************************************************************)
(* Theorems about what the backend holds of a visitor: whether it is there *)
(* (Connections), for any number of players, streams and restarts, and     *)
(* what it may do (Access), for any number of clients, any rows, lifetime  *)
(* and clock.                                                              *)
(***************************************************************************)
EXTENDS Connections, Access, FiniteSetTheorems, TLAPS
-----------------------------------------------------------------------------
(***************************************************************************)
(* Connections.  The inductive invariant is the type invariant with the    *)
(* two facts that hold each other up: the counter is the number of counted *)
(* streams, and a counter has its timer running exactly while it is zero.  *)
(***************************************************************************)
CountInv == ConnTypeOK /\ CountIsStreams /\ TimerWhenIdle

(***************************************************************************)
(* The counted streams of a player are finitely many.                      *)
(***************************************************************************)
LEMMA CountedFinite ==
  ASSUME NEW c \in Player
  PROVE  IsFiniteSet(Counted(c)) /\ Cardinality(Counted(c)) \in Nat
<1>1. IsFiniteSet(Counted(c))
  BY StreamAssumption, FS_Subset, Counted(c) \subseteq Stream DEF Counted
<1> QED BY <1>1, FS_CardinalityType

(***************************************************************************)
(* A player without a counter, or with a counter at zero, has no counted   *)
(* stream.                                                                 *)
(***************************************************************************)
LEMMA ZeroMeansNone ==
  ASSUME CountIsStreams, NEW c \in Player, c \notin tracked \/ count[c] = 0
  PROVE  Counted(c) = {}
<1>1. Cardinality(Counted(c)) = 0
  BY DEF CountIsStreams
<1> QED BY <1>1, CountedFinite, FS_EmptySet

(***************************************************************************)
(* A step that moves no stream between counted and not counted, and leaves *)
(* count and the set of tracked players alone, keeps CountIsStreams.       *)
(***************************************************************************)
LEMMA SameStreamsCounted ==
  ASSUME CountIsStreams, UNCHANGED <<tracked, count>>,
         \A c \in Player : Counted(c)' = Counted(c)
  PROVE  CountIsStreams'
BY DEF CountIsStreams

\* at the start no stream is counted and no counter exists
LEMMA InitCountInv == ConnInit => CountInv
<1> SUFFICES ASSUME ConnInit PROVE CountInv
  OBVIOUS
<1>1. ConnTypeOK
  BY StreamAssumption DEF ConnInit, ConnTypeOK
<1>2. CountIsStreams
  <2> SUFFICES ASSUME NEW c \in Player PROVE Cardinality(Counted(c)) = 0
    BY DEF CountIsStreams, ConnInit
  <2>1. Counted(c) = {}
    BY DEF Counted, ConnInit
  <2> QED BY <2>1, FS_EmptySet
<1>3. TimerWhenIdle
  BY DEF TimerWhenIdle, ConnInit
<1> QED BY <1>1, <1>2, <1>3 DEF CountInv

\* requests that wait for linkIp, or go away meanwhile, are not counted
LEMMA ConnectKeeps ==
  ASSUME CountInv, NEW x \in Stream, Connect(x) \/ Drop(x)
  PROVE  CountInv'
<1> USE DEF CountInv
<1>1. ConnTypeOK'
  BY DEF ConnTypeOK, Connect, Drop, counters
<1>2. \A c \in Player : Counted(c)' = Counted(c)
  BY DEF Counted, ConnTypeOK, Connect, Drop
<1>3. CountIsStreams'
  BY <1>2, SameStreamsCounted DEF Connect, Drop, counters
<1>4. TimerWhenIdle'
  BY DEF TimerWhenIdle, Connect, Drop, counters
<1> QED BY <1>1, <1>3, <1>4

\* onClientConnect: one more stream of the player, one more in its counter
LEMMA CountKeeps ==
  ASSUME CountInv, NEW x \in Stream, Count(x)
  PROVE  CountInv'
<1> DEFINE o == Owner[x]
<1> USE DEF CountInv
<1>0. o \in Player
  BY StreamAssumption
<1>1. ConnTypeOK'
  BY <1>0 DEF ConnTypeOK, Count
<1>2. CountIsStreams'
  <2> SUFFICES ASSUME NEW c \in Player
               PROVE  Cardinality(Counted(c)') = IF c \in tracked' THEN count'[c] ELSE 0
    BY DEF CountIsStreams
  <2>1. CASE c = o
    <3>1. Counted(c)' = Counted(c) \cup {x}
      BY <2>1 DEF Counted, Count, ConnTypeOK
    <3>2. x \notin Counted(c)
      BY DEF Counted, Count
    <3>3. Cardinality(Counted(c)') = Cardinality(Counted(c)) + 1
      BY <3>1, <3>2, CountedFinite, FS_AddElement
    <3> QED BY <2>1, <3>3, <1>0 DEF CountIsStreams, Count, ConnTypeOK
  <2>2. CASE c # o
    <3>1. Counted(c)' = Counted(c)
      BY <2>2 DEF Counted, Count, ConnTypeOK
    <3> QED BY <2>2, <3>1 DEF CountIsStreams, Count, ConnTypeOK
  <2> QED BY <2>1, <2>2
<1>3. TimerWhenIdle'
  BY <1>0 DEF TimerWhenIdle, Count, ConnTypeOK
<1> QED BY <1>1, <1>2, <1>3

\* onClientDisconnect: there is a counter above zero to take the stream from
LEMMA CloseKeeps ==
  ASSUME CountInv, NEW x \in Stream, Close(x)
  PROVE  CountInv'
<1> DEFINE o == Owner[x]
<1> USE DEF CountInv
<1>0. o \in Player
  BY StreamAssumption
<1>1. ConnTypeOK'
  BY <1>0 DEF ConnTypeOK, Close
<1>2. o \in tracked /\ count[o] > 0
  <2>1. x \in Counted(o)
    BY DEF Counted, Close
  <2>2. Counted(o) # {}
    BY <2>1
  <2> QED BY <2>2, <1>0, ZeroMeansNone DEF ConnTypeOK
<1>3. CountIsStreams'
  <2> SUFFICES ASSUME NEW c \in Player
               PROVE  Cardinality(Counted(c)') = IF c \in tracked' THEN count'[c] ELSE 0
    BY DEF CountIsStreams
  <2>1. CASE c = o
    <3>1. Counted(c)' = Counted(c) \ {x} /\ x \in Counted(c)
      BY <2>1 DEF Counted, Close, ConnTypeOK
    <3>2. Cardinality(Counted(c)') = Cardinality(Counted(c)) - 1
      BY <3>1, CountedFinite, FS_RemoveElement
    <3> QED BY <2>1, <3>2, <1>0, <1>2 DEF CountIsStreams, Close, ConnTypeOK
  <2>2. CASE c # o
    <3>1. Counted(c)' = Counted(c)
      BY <2>2 DEF Counted, Close, ConnTypeOK
    <3> QED BY <2>2, <3>1 DEF CountIsStreams, Close, ConnTypeOK
  <2> QED BY <2>1, <2>2
<1>4. TimerWhenIdle'
  BY <1>0, <1>2 DEF TimerWhenIdle, Close, ConnTypeOK
<1> QED BY <1>1, <1>3, <1>4

\* the timer's callback deletes a counter that stands at zero
LEMMA ExpireKeeps ==
  ASSUME CountInv, NEW c \in Player, Expire(c)
  PROVE  CountInv'
<1> USE DEF CountInv
<1>1. ConnTypeOK'
  BY DEF ConnTypeOK, Expire
<1>2. c \in tracked /\ count[c] = 0
  BY DEF TimerWhenIdle, Expire
<1>3. CountIsStreams'
  <2> SUFFICES ASSUME NEW d \in Player
               PROVE  Cardinality(Counted(d)') = IF d \in tracked' THEN count'[d] ELSE 0
    BY DEF CountIsStreams
  <2>1. Counted(d)' = Counted(d)
    BY DEF Counted, Expire
  <2> QED BY <2>1, <1>2 DEF CountIsStreams, Expire
<1>4. TimerWhenIdle'
  BY <1>2 DEF TimerWhenIdle, Expire
<1> QED BY <1>1, <1>3, <1>4

\* a restart loses streams and counters together
LEMMA RestartKeeps ==
  ASSUME CountInv, Restart
  PROVE  CountInv'
<1> USE DEF CountInv
<1>1. ConnTypeOK'
  BY RestartAssumption DEF ConnTypeOK, Restart
<1>2. CountIsStreams'
  <2> SUFFICES ASSUME NEW c \in Player PROVE Cardinality(Counted(c)') = 0
    BY DEF CountIsStreams, Restart
  <2>1. Counted(c)' = {}
    BY DEF Counted, Restart
  <2> QED BY <2>1, FS_EmptySet
<1>3. TimerWhenIdle'
  BY DEF TimerWhenIdle, Restart
<1> QED BY <1>1, <1>2, <1>3

\* steps of the queues, and stuttering
LEMMA OtherKeeps ==
  ASSUME CountInv,
         \/ \E x \in Stream : Join(x)
         \/ \E c \in Player : Clean(c) \/ Depart(c)
         \/ UNCHANGED connVars
  PROVE  CountInv'
<1> USE DEF CountInv
<1>1. ConnTypeOK'
  BY StreamAssumption DEF ConnTypeOK, Join, Clean, Depart, connVars, counters
<1>2. UNCHANGED <<stream, counters>>
  BY DEF Join, Clean, Depart, connVars
<1>3. CountIsStreams'
  BY <1>2, SameStreamsCounted DEF Counted, counters
<1>4. TimerWhenIdle'
  BY <1>2 DEF TimerWhenIdle, counters
<1> QED BY <1>1, <1>3, <1>4

\* every step, or none, keeps the inductive invariant
LEMMA NextKeepsCountInv == CountInv /\ [ConnNext]_connVars => CountInv'
BY ConnectKeeps, CountKeeps, CloseKeeps, ExpireKeeps, RestartKeeps, OtherKeeps DEF ConnNext

\* the inductive invariant holds in every reachable state
LEMMA CountInvHolds == ConnSpec => []CountInv
BY InitCountInv, NextKeepsCountInv, PTL DEF ConnSpec

(***************************************************************************)
(* Streams, counters, timers and queues keep their types.                  *)
(***************************************************************************)
THEOREM ConnTypeCorrect == ConnSpec => []ConnTypeOK
BY CountInvHolds, PTL DEF CountInv

(***************************************************************************)
(* However streams open, close and leak, the counter of a player is the    *)
(* number of its counted streams (ClientConnectionCounter.count).          *)
(***************************************************************************)
THEOREM CountsAreRight == ConnSpec => []CountIsStreams
BY CountInvHolds, PTL DEF CountInv

(***************************************************************************)
(* The 5 s timer runs exactly while a counter is at zero.                  *)
(***************************************************************************)
THEOREM TimersAreRight == ConnSpec => []TimerWhenIdle
BY CountInvHolds, PTL DEF CountInv

(***************************************************************************)
(* The event that takes a player off the queues is never emitted while the *)
(* player has an open stream.                                              *)
(***************************************************************************)
THEOREM CleanedOnlyWhenGone == ConnSpec => NobodyCleanedWhileStreaming
<1>1. ASSUME CountInv, [ConnNext]_connVars, NEW c \in cleaning' \ cleaning
      PROVE  Counted(c) = {}
  <2>1. c \in Player /\ Expire(c) /\ count[c] = 0
    BY <1>1 DEF ConnNext, Connect, Drop, Count, Close, Join, Expire, Clean, Depart, Restart, connVars
  <2> QED BY <2>1, <1>1, ZeroMeansNone DEF CountInv
<1>2. CountInv /\ [ConnNext]_connVars => [\A c \in cleaning' \ cleaning : Counted(c) = {}]_connVars
  BY <1>1
<1> QED BY <1>2, CountInvHolds, PTL DEF ConnSpec, NobodyCleanedWhileStreaming
-----------------------------------------------------------------------------
(***************************************************************************)
(* Access.  What a query returned is remembered for as long as it was      *)
(* right: at the moment of the query (Asking), since the signature         *)
(* (Signed), while no time passes between the two.                         *)
(***************************************************************************)
\* the rights whose table the request has read
Known(at, r) ==
  \/ r \in {"staff", "admin", "list"} /\ at \in {"budget", "whitelist", "ban"}
  \/ r = "donor" /\ at \in {"whitelist", "ban"}
  \/ r = "whitelisted" /\ at = "ban"

SeenNow == \A r \in Right : seen[r][Entitled(r)] = 0

Asking ==
  \A c \in Client : \A r \in Right :
    Known(request[c].at, r) => seen[r][Granted(request[c].user, r)] = 0

\* what the token grants was right at its signature, or later
Signed(u) ==
  u.until > 0 => /\ u.until <= clock + Life
                 /\ \A r \in Right : u.until + seen[r][Granted(u, r)] <= clock + Life

AllSigned ==
  Signed(token) /\ \A c \in Client : request[c].at \in Answer => Signed(request[c].user)

\* units since no ban was last active
Free == seen["play"][TRUE]

\* a ban window is that of a banned player's page.  With nothing in it, the ban was
\* over after the signature, or the token was no longer valid
WindowRight ==
  /\ window # "closed" => token.banned
  /\ window = "empty" /\ clock < token.until => token.until + Free <= clock + Life

RightsInv == SeenNow /\ Asking /\ AllSigned /\ WindowRight
-----------------------------------------------------------------------------
(***************************************************************************)
(* Types                                                                   *)
(***************************************************************************)
LEMMA GrantedCases ==
  ASSUME NEW u
  PROVE  /\ Granted(u, "play") = (~ u.banned)
         /\ Granted(u, "staff") = (u.flags \cap {"R_MENTOR", "R_MOD", "R_ADMIN", "R_SERVER"} # {})
         /\ Granted(u, "donor") = (u.tier >= 2)
         /\ Granted(u, "admin") = ({"R_ADMIN", "R_SERVER"} \subseteq u.flags)
         /\ Granted(u, "list") = ({"R_ADMIN", "R_BAN"} \subseteq u.flags)
         /\ Granted(u, "whitelisted") = u.whitelisted
<1>1. Granted(u, "play") = (~ u.banned)
  BY DEF Granted, NotBannedGuard
<1>2. Granted(u, "staff") = (u.flags \cap {"R_MENTOR", "R_MOD", "R_ADMIN", "R_SERVER"} # {})
  BY DEF Granted, isStaff
<1>3. Granted(u, "donor") = (u.tier >= 2)
  BY DEF Granted
<1>4. Granted(u, "admin") = ({"R_ADMIN", "R_SERVER"} \subseteq u.flags)
  BY DEF Granted, RolesGuard
<1>5. Granted(u, "list") = ({"R_ADMIN", "R_BAN"} \subseteq u.flags)
  BY DEF Granted, getPlayerlistExt, RolesGuard
<1>6. Granted(u, "whitelisted") = u.whitelisted
  BY DEF Granted
<1> QED BY <1>1, <1>2, <1>3, <1>4, <1>5, <1>6

LEMMA EntitledCases ==
  /\ Entitled("play") = \/ ban.job \/ ban.unbanned \/ ban.duration = 0
                        \/ ban.duration > 0 /\ ban.till <= clock
  /\ Entitled("staff") = (~ admin.removed /\ admin.flags \ {"R_BAN"} # {})
  /\ Entitled("donor") = (budget.amount >= 300 /\ budget.till - Shift > clock)
  /\ Entitled("admin") = (~ admin.removed /\ {"R_ADMIN", "R_SERVER"} \subseteq admin.flags)
  /\ Entitled("list") = (~ admin.removed /\ {"R_ADMIN", "R_BAN"} \subseteq admin.flags)
  /\ Entitled("whitelisted") = (whitelist - Shift > clock)
<1>1. Entitled("play") = \/ ban.job \/ ban.unbanned \/ ban.duration = 0
                         \/ ban.duration > 0 /\ ban.till <= clock
  BY DEF Entitled
<1>2. Entitled("staff") = (~ admin.removed /\ admin.flags \ {"R_BAN"} # {})
  BY DEF Entitled
<1>3. Entitled("donor") = (budget.amount >= 300 /\ budget.till - Shift > clock)
  BY DEF Entitled
<1>4. Entitled("admin") = (~ admin.removed /\ {"R_ADMIN", "R_SERVER"} \subseteq admin.flags)
  BY DEF Entitled
<1>5. Entitled("list") = (~ admin.removed /\ {"R_ADMIN", "R_BAN"} \subseteq admin.flags)
  BY DEF Entitled
<1>6. Entitled("whitelisted") = (whitelist - Shift > clock)
  BY DEF Entitled
<1> QED BY <1>1, <1>2, <1>3, <1>4, <1>5, <1>6

LEMMA GrantedType ==
  ASSUME NEW u \in Token, NEW r \in Right
  PROVE  Granted(u, r) \in BOOLEAN
<1>1. u.banned \in BOOLEAN /\ u.whitelisted \in BOOLEAN /\ u.tier \in 0 .. 4
  BY DEF Token
<1>2. Granted(u, "play") \in BOOLEAN
  BY <1>1, GrantedCases
<1>3. Granted(u, "staff") \in BOOLEAN
  BY <1>1, GrantedCases
<1>4. Granted(u, "donor") \in BOOLEAN
  <2>1. (u.tier >= 2) \in BOOLEAN
    BY <1>1
  <2> QED BY <2>1, GrantedCases
<1>5. Granted(u, "admin") \in BOOLEAN
  BY <1>1, GrantedCases
<1>6. Granted(u, "list") \in BOOLEAN
  BY <1>1, GrantedCases
<1>7. Granted(u, "whitelisted") \in BOOLEAN
  BY <1>1, GrantedCases
<1> QED BY <1>2, <1>3, <1>4, <1>5, <1>6, <1>7 DEF Right

LEMMA EntitledType ==
  ASSUME TypeOK, NEW r \in Right
  PROVE  Entitled(r) \in BOOLEAN
<1>1. Entitled("play") \in BOOLEAN
  BY EntitledCases
<1>2. Entitled("staff") \in BOOLEAN
  BY EntitledCases
<1>3. Entitled("donor") \in BOOLEAN
  BY EntitledCases
<1>4. Entitled("admin") \in BOOLEAN
  BY EntitledCases
<1>5. Entitled("list") \in BOOLEAN
  BY EntitledCases
<1>6. Entitled("whitelisted") \in BOOLEAN
  <2>1. (whitelist - Shift > clock) \in BOOLEAN
    BY TimeAssumption DEF TypeOK
  <2> QED BY <2>1, EntitledCases
<1> QED BY <1>1, <1>2, <1>3, <1>4, <1>5, <1>6 DEF Right

EntitledTypes == \A r \in Right : Entitled(r) \in BOOLEAN

LEMMA TypesEntitled == TypeOK => EntitledTypes
BY EntitledType DEF EntitledTypes

LEMMA QueryTypes ==
  ASSUME TypeOK
  PROVE  /\ AdminFlags \in SUBSET Flag /\ DonatorTier \in 0 .. 4
         /\ WhitelistPass \in BOOLEAN /\ ActiveBan \in BOOLEAN /\ dateNormilized \in Nat
<1>1. AdminFlags \in SUBSET Flag
  BY DEF TypeOK, AdminRow, AdminFlags
<1>2. Budget \in Nat
  BY DEF TypeOK, BudgetRow, Budget
<1>3. DonatorTier \in 0 .. 4
  BY <1>2 DEF DonatorTier
<1>4. WhitelistPass \in BOOLEAN /\ ActiveBan \in BOOLEAN /\ dateNormilized \in Nat
  BY TimeAssumption DEF TypeOK, BanRow, WhitelistPass, ActiveBan, dateNormilized
<1> QED BY <1>1, <1>3, <1>4

\* the record of what the player was entitled to
LEMMA RecordedType ==
  ASSUME TypeOK, NEW n \in {0, 1}, Recorded(n)
  PROVE  /\ seen' \in [Right -> [BOOLEAN -> 0 .. Life]]
         /\ \A r \in Right : \A b \in BOOLEAN :
              /\ Entitled(r)' = b => seen'[r][b] = 0
              /\ seen'[r][b] <= seen[r][b] + n
<1>1. \A r \in Right : \A b \in BOOLEAN :
        /\ Aged(seen[r][b], n) \in 0 .. Life
        /\ Aged(seen[r][b], n) <= seen[r][b] + n
  BY TimeAssumption DEF TypeOK, Aged
<1>2. \A r \in Right : \A b \in BOOLEAN :
        seen'[r][b] = IF Entitled(r)' = b THEN 0 ELSE Aged(seen[r][b], n)
  BY DEF Recorded
<1>3. \A r \in Right : \A b \in BOOLEAN : 0 <= seen[r][b] + n /\ 0 \in 0 .. Life
  BY TimeAssumption DEF TypeOK
<1>4. seen' \in [Right -> [BOOLEAN -> 0 .. Life]]
  BY <1>1, <1>3 DEF Recorded
<1> QED BY <1>1, <1>2, <1>3, <1>4

\* the types are kept by a step of the webhook
LEMMA MovesType ==
  ASSUME TypeOK, NEW c \in Client, NEW user \in Token, NEW from,
         NEW to \in {"none", "sent"} \cup Query \cup Answer, Moves(c, from, to, user)
  PROVE  TypeOK'
BY DEF TypeOK, Moves, database, page, history

LEMMA NoTokenType == NoToken \in Token
BY DEF NoToken, Token

\* the lobby handles the requests that are complete
LEMMA HandledType ==
  ASSUME TypeOK, Fire
  PROVE  /\ TypeOK'
         /\ \/ UNCHANGED page
            \/ window' = "closed" /\ \E c \in Complete : token' = request[c].user
<1>1. \A c \in Complete :
        Shown(c) \in {"new", "waiting", "redirected", "page", "stuck", "gone"}
  BY DEF TypeOK, Complete, Answer, Shown
<1>2. client' \in [Client -> {"new", "waiting", "redirected", "page", "stuck", "gone"}]
  BY <1>1 DEF TypeOK, Fire, Handled
<1>3. \/ UNCHANGED page
      \/ /\ profile' = FALSE /\ window' = "closed"
         /\ \E c \in Complete : token' = request[c].user
  BY DEF Fire, Handled
<1>4. token' \in Token /\ profile' \in BOOLEAN /\ window' \in {"closed", "ban", "empty"}
  <2>1. CASE UNCHANGED page
    BY <2>1 DEF TypeOK, page
  <2>2. ASSUME NEW c \in Complete, token' = request[c].user,
               profile' = FALSE, window' = "closed"
        PROVE  token' \in Token /\ profile' \in BOOLEAN /\ window' \in {"closed", "ban", "empty"}
    BY <2>2 DEF TypeOK, Complete
  <2> QED BY <1>3, <2>1, <2>2
<1>5. request' \in [Client -> [at : {"none", "sent"} \cup Query \cup Answer, user : Token]]
  BY NoTokenType DEF TypeOK, Fire, Handled
<1>6. UNCHANGED <<clock, database, history>>
  BY DEF Fire, Handled
<1> QED BY <1>2, <1>3, <1>4, <1>5, <1>6 DEF TypeOK, database, history

LEMMA NextKeepsType ==
  ASSUME TypeOK, [Next]_vars
  PROVE  TypeOK'
<1> USE DEF database, page, history
<1>1. CASE Tick
  <2>1. seen' \in [Right -> [BOOLEAN -> 0 .. Life]]
    BY <1>1, RecordedType DEF Tick
  <2>2. clock' \in 0 .. MaxClock
    BY <1>1, TimeAssumption DEF Tick, TypeOK
  <2> QED BY <1>1, <2>1, <2>2 DEF Tick, TypeOK
<1>2. CASE Change
  <2>1. seen' \in [Right -> [BOOLEAN -> 0 .. Life]]
    BY <1>2, RecordedType DEF Change
  <2>2. /\ admin' \in AdminRow /\ budget' \in BudgetRow
        /\ whitelist' \in Nat /\ ban' \in BanRow
    BY <1>2, RowAssumption DEF Change, TypeOK
  <2>3. changes' \in 0 .. MaxChanges
    BY <1>2, RowAssumption DEF Change, TypeOK
  <2> QED BY <1>2, <2>1, <2>2, <2>3 DEF Change, TypeOK
<1>3. CASE Fire
  BY <1>3, HandledType
<1>4. ASSUME NEW c \in Client, New(c)  PROVE TypeOK'
  BY <1>4, NoTokenType DEF New, TypeOK
<1>5. ASSUME NEW c \in Client, Leave(c)  PROVE TypeOK'
  BY <1>5 DEF Leave, TypeOK
<1>6. ASSUME NEW c \in Client, Webhook(c)  PROVE TypeOK'
  <2>1. request[c].user \in Token /\ clock + Life \in Int
    BY TimeAssumption DEF TypeOK
  <2>2. CASE ProcessLobbyConnect(c)
    BY <2>2, MovesType, NoTokenType DEF ProcessLobbyConnect, Query, Answer
  <2>3. CASE ReadAdmin(c)
    <3>1. [NoToken EXCEPT !.flags = AdminFlags] \in Token
      BY QueryTypes, NoTokenType DEF Token
    <3> QED BY <2>3, <3>1, MovesType DEF ReadAdmin, Query
  <2>4. CASE ReadBudget(c)
    <3>1. [request[c].user EXCEPT !.tier = DonatorTier] \in Token
      BY <2>1, QueryTypes DEF Token
    <3> QED BY <2>4, <3>1, MovesType DEF ReadBudget, Query
  <2>5. CASE ReadWhitelist(c)
    <3>1. [request[c].user EXCEPT !.whitelisted = WhitelistPass] \in Token
      BY <2>1, QueryTypes DEF Token
    <3> QED BY <2>5, <3>1, MovesType DEF ReadWhitelist, Query
  <2>6. CASE GenerateUserToken(c)
    <3>1. [request[c].user EXCEPT !.banned = ActiveBan, !.until = clock + Life] \in Token
      BY <2>1, QueryTypes DEF Token
    <3> QED BY <2>6, <3>1, MovesType DEF GenerateUserToken, Answer
  <2>7. CASE Fail(c)
    BY <2>7, MovesType, NoTokenType DEF Fail, Answer
  <2> QED BY <1>6, <2>2, <2>3, <2>4, <2>5, <2>6, <2>7 DEF Webhook
<1>7. CASE LoadProfile
  BY <1>7 DEF LoadProfile, TypeOK
<1>8. CASE BanModal
  BY <1>8 DEF BanModal, GetActiveBan, TypeOK
<1>9. CASE UNCHANGED vars
  BY <1>9 DEF vars, TypeOK
<1> QED BY <1>1, <1>2, <1>3, <1>4, <1>5, <1>6, <1>7, <1>8, <1>9 DEF Next

LEMMA InitType ==
  ASSUME Init
  PROVE  TypeOK
<1>1. /\ clock \in 0 .. MaxClock /\ changes \in 0 .. MaxChanges
      /\ admin \in AdminRow /\ budget \in BudgetRow /\ whitelist \in Nat /\ ban \in BanRow
  BY TimeAssumption, RowAssumption DEF Init, AdminRow, BudgetRow, BanRow
<1>2. /\ token \in Token /\ profile \in BOOLEAN /\ window \in {"closed", "ban", "empty"}
      /\ client \in [Client -> {"new", "waiting", "redirected", "page", "stuck", "gone"}]
      /\ request \in [Client -> [at : {"none", "sent"} \cup Query \cup Answer, user : Token]]
  BY NoTokenType DEF Init
<1>3. seen \in [Right -> [BOOLEAN -> 0 .. Life]]
  BY TimeAssumption DEF Init
<1> QED BY <1>1, <1>2, <1>3 DEF TypeOK

\* Whatever the database holds and however many clients ask, a request is at one
\* point of the webhook, and what is signed is a token.
THEOREM TypeCorrect == Spec => []TypeOK
<1>1. Init => TypeOK
  BY InitType
<1>2. TypeOK /\ [Next]_vars => TypeOK'
  BY NextKeepsType
<1> QED BY <1>1, <1>2, PTL DEF Spec
-----------------------------------------------------------------------------
(***************************************************************************)
(* What the queries tell                                                   *)
(***************************************************************************)
LEMMA BanRead ==
  ASSUME TypeOK
  PROVE  (~ ActiveBan) = Entitled("play")
<1>1. /\ ban.duration \in Nat \cup {-1} /\ ban.till \in Nat /\ clock \in Nat
      /\ ban.job \in BOOLEAN /\ ban.unbanned \in BOOLEAN
  BY TimeAssumption DEF TypeOK, BanRow
<1>2. ActiveBan \in BOOLEAN /\ Entitled("play") \in BOOLEAN
  BY <1>1, QueryTypes, EntitledType DEF Right
<1>3. \/ ban.duration = -1
      \/ ban.duration = 0
      \/ ban.duration > 0 /\ ban.duration # -1 /\ ban.duration # 0
  BY <1>1
<1>4. /\ ban.till > clock <=> ~ (ban.till <= clock)
      /\ ban.duration = -1 => ban.duration # 0 /\ ~ (ban.duration > 0)
      /\ ban.duration = 0 => ban.duration # -1 /\ ~ (ban.duration > 0)
  BY <1>1
<1>5. Entitled("play") <=> \/ ban.job \/ ban.unbanned \/ ban.duration = 0
                           \/ ban.duration > 0 /\ ban.till <= clock
  BY EntitledCases
<1>6. ~ ActiveBan <=> Entitled("play")
  BY <1>3, <1>4, <1>5, Zenon DEF ActiveBan
<1> QED BY <1>2, <1>6

\* each right is judged by one field of the token, which says what its table says
LEMMA TablesRead ==
  ASSUME TypeOK, NEW u \in Token
  PROVE  /\ u.flags = AdminFlags =>
              \A r \in {"staff", "admin", "list"} : Granted(u, r) = Entitled(r)
         /\ u.tier = DonatorTier => Granted(u, "donor") = Entitled("donor")
         /\ u.whitelisted = WhitelistPass => Granted(u, "whitelisted") = Entitled("whitelisted")
         /\ u.banned = ActiveBan => Granted(u, "play") = Entitled("play")
<1>1. ASSUME u.flags = AdminFlags
      PROVE  \A r \in {"staff", "admin", "list"} : Granted(u, r) = Entitled(r)
  <2>1. admin.removed \in BOOLEAN /\ admin.flags \in SUBSET Flag
    BY DEF TypeOK, AdminRow
  <2>2. Granted(u, "staff") = Entitled("staff")
    BY <1>1, <2>1, GrantedCases, EntitledCases DEF AdminFlags, Flag
  <2>3. Granted(u, "admin") = Entitled("admin") /\ Granted(u, "list") = Entitled("list")
    BY <1>1, <2>1, GrantedCases, EntitledCases DEF AdminFlags
  <2> QED BY <2>2, <2>3
<1>2. ASSUME u.tier = DonatorTier
      PROVE  Granted(u, "donor") = Entitled("donor")
  <2>0. Budget \in Nat
    BY DEF TypeOK, BudgetRow, Budget
  <2>1. DonatorTier >= 2 <=> Budget >= 300
    BY <2>0 DEF DonatorTier
  <2>2. Budget >= 300 <=> budget.amount >= 300 /\ budget.till - Shift > clock
    BY TimeAssumption DEF TypeOK, BudgetRow, Budget, dateNormilized
  <2> QED BY <1>2, <2>1, <2>2, GrantedCases, EntitledCases
<1>3. ASSUME u.whitelisted = WhitelistPass
      PROVE  Granted(u, "whitelisted") = Entitled("whitelisted")
  <2>1. (whitelist > clock + Shift) = (whitelist - Shift > clock)
    BY TimeAssumption DEF TypeOK
  <2> QED BY <1>3, <2>1, GrantedCases, EntitledCases DEF WhitelistPass, dateNormilized
<1>4. ASSUME u.banned = ActiveBan
      PROVE  Granted(u, "play") = Entitled("play")
  BY <1>4, BanRead, GrantedCases
<1> QED BY <1>1, <1>2, <1>3, <1>4

\* a query changes one field and leaves the rights of the others
LEMMA FieldsApart ==
  ASSUME NEW u, NEW v
  PROVE  /\ u.flags = v.flags =>
              \A r \in {"staff", "admin", "list"} : Granted(u, r) = Granted(v, r)
         /\ u.tier = v.tier => Granted(u, "donor") = Granted(v, "donor")
         /\ u.whitelisted = v.whitelisted => Granted(u, "whitelisted") = Granted(v, "whitelisted")
BY GrantedCases
-----------------------------------------------------------------------------
(***************************************************************************)
(* Rights                                                                  *)
(***************************************************************************)
\* what was right lately still was: after a step that only records
LEMMA RecordedRights ==
  ASSUME TypeOK, TypeOK', RightsInv, NEW n \in {0, 1}, Recorded(n), clock' = clock + n,
         UNCHANGED <<request, page>>,
         n = 1 => \A c \in Client : request[c].at \notin Query \cup {"sent"}
  PROVE  RightsInv'
<1>1. /\ \A r \in Right : \A b \in BOOLEAN :
           /\ Entitled(r)' = b => seen'[r][b] = 0
           /\ seen'[r][b] <= seen[r][b] + n
           /\ seen[r][b] \in Nat /\ seen'[r][b] \in Nat
  BY RecordedType, TimeAssumption DEF TypeOK
<1>2. SeenNow'
  <2>1. \A r \in Right : Entitled(r)' \in BOOLEAN
    <3>1. (TypeOK => EntitledTypes)'
      BY TypesEntitled, PTL
    <3> QED BY <3>1 DEF EntitledTypes
  <2> QED BY <1>1, <2>1 DEF SeenNow
<1>3. ASSUME NEW c \in Client, NEW r \in Right, Known(request[c].at, r)
      PROVE  seen'[r][Granted(request[c].user, r)] = 0
  <2>1. request[c].at \in Query /\ n = 0
    BY <1>3 DEF Known, Query
  <2>2. Granted(request[c].user, r) \in BOOLEAN
    BY GrantedType DEF TypeOK
  <2>3. seen[r][Granted(request[c].user, r)] = 0
    BY <1>3 DEF RightsInv, Asking
  <2> QED BY <1>1, <2>1, <2>2, <2>3
<1>4. ASSUME NEW u \in Token, Signed(u)
      PROVE  Signed(u)'
  <2>1. SUFFICES ASSUME u.until > 0
                 PROVE  /\ u.until <= clock' + Life
                        /\ \A r \in Right : u.until + seen'[r][Granted(u, r)] <= clock' + Life
    BY DEF Signed
  <2>2. u.until \in Int /\ clock \in Int /\ clock' = clock + n
    BY DEF Token, TypeOK
  <2>3. u.until <= clock' + Life
    BY <1>4, <2>1, <2>2, TimeAssumption DEF Signed
  <2>4. ASSUME NEW r \in Right
        PROVE  u.until + seen'[r][Granted(u, r)] <= clock' + Life
    <3> DEFINE b == Granted(u, r)
    <3>1. b \in BOOLEAN
      BY GrantedType
    <3>2. u.until + seen[r][b] <= clock + Life
      BY <1>4, <2>1 DEF Signed
    <3> HIDE DEF b
    <3>3. seen'[r][b] <= seen[r][b] + n /\ seen[r][b] \in Nat /\ seen'[r][b] \in Nat
      BY <1>1, <3>1
    <3>4. u.until + seen'[r][b] <= clock' + Life
      BY <2>2, <3>2, <3>3, TimeAssumption
    <3> QED BY <3>4 DEF b
  <2> QED BY <2>3, <2>4
<1>5. Asking'
  BY <1>3 DEF Asking
<1>6. AllSigned'
  <2>1. Signed(token)'
    BY <1>4 DEF RightsInv, AllSigned, TypeOK, page
  <2>2. \A c \in Client : request[c].at \in Answer => Signed(request[c].user)'
    BY <1>4 DEF RightsInv, AllSigned, TypeOK
  <2> QED BY <2>1, <2>2 DEF AllSigned
<1>7. WindowRight'
  <2>1. Free' <= Free + n /\ Free \in Nat /\ Free' \in Nat
    <3>1. "play" \in Right /\ TRUE \in BOOLEAN
      BY DEF Right
    <3> QED BY <1>1, <3>1, Zenon DEF Free
  <2>2. token.until \in Int /\ clock \in Int /\ UNCHANGED <<token, window>>
    BY DEF Token, TypeOK, page
  <2>3. window # "closed" => token.banned
    BY DEF RightsInv, WindowRight
  <2>4. ASSUME window = "empty", clock' < token.until
        PROVE  token.until + Free' <= clock' + Life
    <3>1. clock < token.until
      BY <2>2, <2>4
    <3>2. token.until + Free <= clock + Life
      BY <2>4, <3>1 DEF RightsInv, WindowRight
    <3>3. Life \in Int /\ clock' = clock + n /\ n \in Int
      BY TimeAssumption
    <3> QED BY <2>1, <2>2, <3>2, <3>3
  <2> QED BY <2>2, <2>3, <2>4 DEF WindowRight
<1> QED BY <1>2, <1>5, <1>6, <1>7 DEF RightsInv

\* a step of a request, which leaves the record alone
LEMMA SameRecord ==
  ASSUME UNCHANGED <<clock, database, seen>>
  PROVE  /\ SeenNow = SeenNow'
         /\ \A u : Signed(u) = Signed(u)'
         /\ UNCHANGED <<token, window>> => WindowRight = WindowRight'
<1>1. \A r : Entitled(r)' = Entitled(r)
  BY DEF Entitled, database
<1>2. SeenNow = SeenNow'
  BY <1>1 DEF SeenNow
<1>3. \A u : Signed(u) = Signed(u)'
  BY DEF Signed
<1>4. UNCHANGED <<token, window>> => WindowRight = WindowRight'
  BY DEF WindowRight, Free
<1> QED BY <1>2, <1>3, <1>4

LEMMA MovesRights ==
  ASSUME TypeOK, RightsInv, NEW c \in Client, NEW user \in Token, NEW from,
         NEW to \in {"none", "sent"} \cup Query \cup Answer, Moves(c, from, to, user),
         \A r \in Right : Known(to, r) => seen[r][Granted(user, r)] = 0,
         to \in Answer => Signed(user)
  PROVE  RightsInv'
<1>1. /\ UNCHANGED <<clock, database, seen, token, window>>
      /\ request'[c].at = to /\ request'[c].user = user
      /\ \A d \in Client \ {c} : request'[d] = request[d]
  BY DEF Moves, page, history, TypeOK
<1>2. SeenNow' /\ WindowRight'
  BY <1>1, SameRecord DEF RightsInv
<1>3. Asking'
  <2>1. SUFFICES ASSUME NEW d \in Client, NEW r \in Right, Known(request'[d].at, r)
                 PROVE  seen[r][Granted(request'[d].user, r)] = 0
    BY <1>1 DEF Asking
  <2> QED BY <1>1, <2>1 DEF RightsInv, Asking
<1>4. AllSigned'
  <2>1. Signed(token)'
    BY <1>1, SameRecord DEF RightsInv, AllSigned
  <2>2. ASSUME NEW d \in Client, request'[d].at \in Answer
        PROVE  Signed(request[d].user)'
    <3>1. Signed(request'[d].user)
      BY <1>1, <2>2 DEF RightsInv, AllSigned
    <3> QED BY <1>1, <3>1, SameRecord DEF Signed
  <2> QED BY <2>1, <2>2 DEF AllSigned
<1> QED BY <1>2, <1>3, <1>4 DEF RightsInv

\* the queries, one after the other
LEMMA WebhookRights ==
  ASSUME TypeOK, RightsInv, NEW c \in Client, Webhook(c)
  PROVE  RightsInv'
<1> DEFINE u == request[c].user
<1>1. /\ u \in Token /\ clock \in Nat
      /\ \A r \in Right : seen[r][Entitled(r)] = 0
      /\ \A r \in Right : Known(request[c].at, r) => seen[r][Granted(u, r)] = 0
      /\ Right = {"staff", "admin", "list"} \cup {"donor", "whitelisted", "play"}
  BY TimeAssumption DEF TypeOK, RightsInv, SeenNow, Asking, Right
<1>2. NoToken \in Token /\ Signed(NoToken)
  BY NoTokenType DEF Signed, NoToken
<1>3. CASE ProcessLobbyConnect(c)
  BY <1>2, <1>3, MovesRights DEF ProcessLobbyConnect, Known, Query, Answer
<1>4. CASE ReadAdmin(c)
  <2> DEFINE v == [NoToken EXCEPT !.flags = AdminFlags]
  <2>1. v \in Token /\ v.flags = AdminFlags
    BY <1>2, QueryTypes DEF Token, NoToken
  <2> HIDE DEF v
  <2>2. \A r \in {"staff", "admin", "list"} : Granted(v, r) = Entitled(r)
    BY <2>1, TablesRead
  <2>3. \A r \in Right : Known("budget", r) => seen[r][Granted(v, r)] = 0
    BY <1>1, <2>2 DEF Known
  <2>4. Moves(c, "admin", "budget", v)
    BY <1>4 DEF ReadAdmin, v
  <2> QED BY <2>1, <2>3, <2>4, MovesRights DEF Query, Answer
<1>5. CASE ReadBudget(c)
  <2> DEFINE v == [u EXCEPT !.tier = DonatorTier]
  <2>1. v \in Token /\ v.flags = u.flags /\ v.tier = DonatorTier
    BY <1>1, QueryTypes DEF Token
  <2>2. Moves(c, "budget", "whitelist", v)
    BY <1>5 DEF ReadBudget
  <2> HIDE DEF v, u
  <2>3. /\ \A r \in {"staff", "admin", "list"} : Granted(v, r) = Granted(u, r)
        /\ Granted(v, "donor") = Entitled("donor")
    BY <2>1, TablesRead, FieldsApart
  <2>4. \A r \in Right : Known("whitelist", r) => seen[r][Granted(v, r)] = 0
    BY <1>1, <2>2, <2>3 DEF Known, Moves
  <2> QED BY <2>1, <2>2, <2>4, MovesRights DEF Query, Answer
<1>6. CASE ReadWhitelist(c)
  <2> DEFINE v == [u EXCEPT !.whitelisted = WhitelistPass]
  <2>1. v \in Token /\ v.flags = u.flags /\ v.tier = u.tier /\ v.whitelisted = WhitelistPass
    BY <1>1, QueryTypes DEF Token
  <2>2. Moves(c, "whitelist", "ban", v)
    BY <1>6 DEF ReadWhitelist
  <2> HIDE DEF v, u
  <2>3. /\ \A r \in {"staff", "admin", "list"} : Granted(v, r) = Granted(u, r)
        /\ Granted(v, "donor") = Granted(u, "donor")
        /\ Granted(v, "whitelisted") = Entitled("whitelisted")
    BY <2>1, TablesRead, FieldsApart
  <2>4. \A r \in Right : Known("ban", r) => seen[r][Granted(v, r)] = 0
    BY <1>1, <2>2, <2>3 DEF Known, Moves
  <2> QED BY <2>1, <2>2, <2>4, MovesRights DEF Query, Answer
<1>7. CASE GenerateUserToken(c)
  <2> DEFINE v == [u EXCEPT !.banned = ActiveBan, !.until = clock + Life]
  <2>1. /\ v \in Token /\ v.flags = u.flags /\ v.tier = u.tier
        /\ v.whitelisted = u.whitelisted /\ v.banned = ActiveBan /\ v.until = clock + Life
    <3>1. ActiveBan \in BOOLEAN /\ clock + Life \in Int
      BY <1>1, QueryTypes, TimeAssumption
    <3>2. [u EXCEPT !.banned = ActiveBan] \in Token
      BY <1>1, <3>1 DEF Token
    <3> QED BY <1>1, <3>1, <3>2 DEF Token
  <2>2. Moves(c, "ban", "token", v)
    BY <1>7 DEF GenerateUserToken
  <2> HIDE DEF v, u
  <2>3. /\ \A r \in {"staff", "admin", "list", "donor", "whitelisted"} :
             Granted(v, r) = Granted(u, r)
        /\ Granted(v, "play") = Entitled("play")
    BY <2>1, TablesRead, FieldsApart
  <2>4. \A r \in Right : seen[r][Granted(v, r)] = 0
    BY <1>1, <2>2, <2>3 DEF Known, Moves
  <2>5. Signed(v)
    BY <1>1, <2>1, <2>4, TimeAssumption DEF Signed
  <2> QED BY <2>1, <2>2, <2>4, <2>5, MovesRights DEF Answer
<1>8. CASE Fail(c)
  BY <1>2, <1>8, MovesRights DEF Fail, Known, Answer
<1> QED BY <1>3, <1>4, <1>5, <1>6, <1>7, <1>8 DEF Webhook

\* the lobby opens the page with a token that was signed
LEMMA FireRights ==
  ASSUME TypeOK, RightsInv, Fire
  PROVE  RightsInv'
<1>1. /\ UNCHANGED <<clock, database, seen>>
      /\ \/ UNCHANGED <<token, window>>
         \/ window' = "closed" /\ \E c \in Complete : token' = request[c].user
      /\ \A c \in Client : request'[c] = request[c] \/ request'[c].at = "none"
  BY HandledType DEF Fire, Handled, page, history
<1>2. SeenNow'
  BY <1>1, SameRecord DEF RightsInv
<1>3. Asking'
  <2>1. SUFFICES ASSUME NEW c \in Client, NEW r \in Right, Known(request'[c].at, r)
                 PROVE  seen[r][Granted(request'[c].user, r)] = 0
    BY <1>1 DEF Asking
  <2>2. request'[c] = request[c]
    BY <1>1, <2>1 DEF Known
  <2> QED BY <2>1, <2>2 DEF RightsInv, Asking
<1>4. AllSigned'
  <2>1. Signed(token')
    BY <1>1 DEF RightsInv, AllSigned, Complete
  <2>2. Signed(token)'
    BY <1>1, <2>1, SameRecord DEF Signed
  <2>3. ASSUME NEW c \in Client, request'[c].at \in Answer
        PROVE  Signed(request[c].user)'
    <3>1. Signed(request'[c].user)
      BY <1>1, <2>3 DEF RightsInv, AllSigned, Answer
    <3> QED BY <1>1, <3>1, SameRecord DEF Signed
  <2> QED BY <2>2, <2>3 DEF AllSigned
<1>5. WindowRight'
  BY <1>1, SameRecord DEF RightsInv, WindowRight
<1> QED BY <1>2, <1>3, <1>4, <1>5 DEF RightsInv

\* the ban window: no ban is found by who is let in, if the ban has ended since
LEMMA BanModalRights ==
  ASSUME TypeOK, RightsInv, BanModal
  PROVE  RightsInv'
<1>1. /\ UNCHANGED <<clock, database, seen, token, request>>
      /\ token.banned /\ window' = GetActiveBan
  BY DEF BanModal, history
<1>2. SeenNow' /\ Asking' /\ AllSigned'
  BY <1>1, SameRecord DEF RightsInv, Asking, AllSigned, Signed
<1>3. ASSUME window' = "empty", clock < token.until
      PROVE  token.until + Free <= clock + Life
  <2>1. ~ ActiveBan
    BY <1>1, <1>3 DEF GetActiveBan, JwtAuthGuard
  <2>2. Free = 0
    <3>1. Entitled("play") = TRUE
      BY <2>1, BanRead
    <3> QED BY <3>1 DEF RightsInv, SeenNow, Right, Free
  <2>3. token.until \in Int /\ clock \in Nat
    BY TimeAssumption DEF TypeOK, Token
  <2>4. token.until <= clock + Life
    BY <1>3, <2>3 DEF RightsInv, AllSigned, Signed
  <2> QED BY <2>2, <2>3, <2>4, TimeAssumption
<1>4. WindowRight'
  BY <1>1, <1>3 DEF WindowRight, Free
<1> QED BY <1>2, <1>4 DEF RightsInv

LEMMA NextKeepsRights ==
  ASSUME TypeOK, RightsInv, [Next]_vars
  PROVE  RightsInv'
<1>0. TypeOK'
  BY NextKeepsType
<1>1. CASE Tick
  BY <1>0, <1>1, RecordedRights DEF Tick
<1>2. CASE Change
  <2>1. Recorded(0) /\ clock' = clock + 0 /\ UNCHANGED <<request, page>>
    BY <1>2 DEF Change, TypeOK
  <2> QED BY <1>0, <2>1, RecordedRights
<1>3. CASE Fire
  BY <1>3, FireRights
<1>4. ASSUME NEW c \in Client, New(c)  PROVE RightsInv'
  <2>1. /\ UNCHANGED <<clock, database, seen, token, window>>
        /\ request' = [request EXCEPT ![c] = [at |-> "sent", user |-> NoToken]]
    BY <1>4 DEF New, page, history
  <2>3. \A d \in Client : request'[d] = request[d] \/ request'[d].at = "sent"
    BY <2>1 DEF TypeOK
  <2>4. SeenNow' /\ WindowRight' /\ \A u : Signed(u) = Signed(u)'
    BY <2>1, SameRecord DEF RightsInv
  <2>5. Asking'
    <3>1. SUFFICES ASSUME NEW d \in Client, NEW r \in Right, Known(request'[d].at, r)
                   PROVE  seen[r][Granted(request'[d].user, r)] = 0
      BY <2>1 DEF Asking
    <3> QED BY <2>3, <3>1 DEF RightsInv, Asking, Known
  <2>6. ASSUME NEW d \in Client, request'[d].at \in Answer
        PROVE  Signed(request[d].user)'
    <3>1. Signed(request'[d].user)
      BY <2>3, <2>6 DEF RightsInv, AllSigned, Answer
    <3> QED BY <2>1, <3>1 DEF Signed
  <2>7. Signed(token)'
    BY <2>1, <2>4 DEF RightsInv, AllSigned, Signed
  <2> QED BY <2>4, <2>5, <2>6, <2>7 DEF RightsInv, AllSigned
<1>5. CASE \/ UNCHANGED vars \/ LoadProfile
           \/ \E c \in Client : Leave(c)
  <2>1. UNCHANGED <<clock, database, seen, token, window, request>>
    BY <1>5 DEF vars, LoadProfile, Leave, page, history
  <2> QED BY <2>1, SameRecord DEF RightsInv, Asking, AllSigned, Signed
<1>6. ASSUME NEW c \in Client, Webhook(c)  PROVE RightsInv'
  BY <1>6, WebhookRights
<1>7. CASE BanModal
  BY <1>7, BanModalRights
<1> QED BY <1>1, <1>2, <1>3, <1>4, <1>5, <1>6, <1>7 DEF Next

\* Whatever becomes of the rows while a token is made and afterwards, what it
\* grants or refuses was right less than a lifetime ago: each table is read at
\* the moment of the request, which no time separates from the signature.  The
\* page shows the admins' link to who may follow it, and an empty ban window
\* only to a player whose ban has ended since the signature.
THEOREM RightsHold == Spec => []RightsAreRecent
<1>1. Init => TypeOK /\ RightsInv
  <2>1. ASSUME Init  PROVE TypeOK /\ RightsInv
    <3>1. TypeOK
      BY <2>1, InitType
    <3>2. /\ Entitled("play") = TRUE /\ Entitled("staff") = FALSE /\ Entitled("donor") = FALSE
          /\ Entitled("admin") = FALSE /\ Entitled("list") = FALSE
          /\ Entitled("whitelisted") = FALSE
      <4>1. Entitled("play") = TRUE
        BY <2>1, EntitledType, EntitledCases, <3>1 DEF Init, Right
      <4>2. Entitled("staff") = FALSE /\ Entitled("admin") = FALSE /\ Entitled("list") = FALSE
        BY <2>1, EntitledCases DEF Init
      <4>3. Entitled("donor") = FALSE
        <5>1. ~ (budget.amount >= 300)
          BY <2>1 DEF Init
        <5>2. ~ Entitled("donor") /\ Entitled("donor") \in BOOLEAN
          BY <3>1, <5>1, EntitledCases, EntitledType DEF Right
        <5> QED BY <5>2
      <4>4. ~ (whitelist - Shift > clock)
        BY <2>1, TimeAssumption DEF Init
      <4>5. Entitled("whitelisted") = FALSE
        <5>1. ~ Entitled("whitelisted") /\ Entitled("whitelisted") \in BOOLEAN
          BY <3>1, <4>4, EntitledCases, EntitledType DEF Right
        <5> QED BY <5>1
      <4> QED BY <4>1, <4>2, <4>3, <4>5
    <3>3. SeenNow
      BY <2>1, <3>2 DEF Init, SeenNow, Right
    <3>4. Asking /\ AllSigned /\ WindowRight
      BY <2>1 DEF Init, Asking, Known, AllSigned, Signed, WindowRight, NoToken, Answer
    <3> QED BY <3>1, <3>3, <3>4 DEF RightsInv
  <2> QED BY <2>1
<1>2. (TypeOK /\ RightsInv) /\ [Next]_vars => (TypeOK /\ RightsInv)'
  BY NextKeepsType, NextKeepsRights
<1>3. TypeOK /\ RightsInv => RightsAreRecent
  <2>1. SUFFICES ASSUME TypeOK, RightsInv, clock < token.until
                 PROVE  /\ \A r \in Right : seen[r][Granted(token, r)] < Life
                        /\ AdminLink => Granted(token, "admin")
                        /\ window = "empty" => /\ ~ Granted(token, "play")
                                               /\ seen["play"][TRUE] < Life
    BY DEF RightsAreRecent, JwtAuthGuard
  <2>2. clock \in Nat /\ token \in Token /\ token.until \in Int
    BY <2>1, TimeAssumption DEF TypeOK, Token
  <2>3. ASSUME NEW r \in Right
        PROVE  seen[r][Granted(token, r)] < Life
    <3>1. token.until + seen[r][Granted(token, r)] <= clock + Life
      BY <2>1, <2>2 DEF RightsInv, AllSigned, Signed
    <3>2. seen[r][Granted(token, r)] \in Nat
      BY <2>1, <2>2, GrantedType, TimeAssumption DEF TypeOK
    <3> QED BY <2>1, <2>2, <3>1, <3>2, TimeAssumption
  <2>4. AdminLink => Granted(token, "admin")
    BY GrantedCases DEF AdminLink
  <2>5. ASSUME window = "empty"
        PROVE  ~ Granted(token, "play") /\ seen["play"][TRUE] < Life
    <3>1. WindowRight /\ window # "closed"
      BY <2>1, <2>5 DEF RightsInv
    <3>2. token.banned /\ token.until + Free <= clock + Life
      BY <2>1, <2>5, <3>1 DEF WindowRight
    <3>3. ~ Granted(token, "play")
      BY <3>2, GrantedCases, Zenon
    <3>4. Free \in Nat
      <4>1. \A b \in BOOLEAN : seen["play"][b] \in Nat
        BY <2>1, TimeAssumption DEF TypeOK, Right
      <4> QED BY <4>1, Zenon DEF Free
    <3>5. Free < Life
      BY <2>1, <2>2, <3>2, <3>4, TimeAssumption
    <3> QED BY <3>3, <3>5 DEF Free
  <2> QED BY <2>3, <2>4, <2>5
<1> QED BY <1>1, <1>2, <1>3, PTL DEF Spec
=============================================================================
