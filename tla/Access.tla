------------------------------- MODULE Access -------------------------------
(***************************************************************************)
(* How a player gets in, and what it may do.  A client of the lobby makes  *)
(* one asynchronous request (lobby.dm, http.dm) to the webhook, which      *)
(* looks the player's privileges up in the database, one query after the   *)
(* other, and signs them into a token (WebhooksService, AuthService,       *)
(* UsersService).  For as long as the token lives, the guards of every     *)
(* controller judge by the token alone.  One player, several clients, one  *)
(* row of each table.                                                      *)
(*                                                                         *)
(* Times are counted in units of three hours.  Dates of donations and      *)
(* whitelists are compared with dateNormilized, which is Shift ahead;      *)
(* those of bans are not.  A request takes no time on this scale.          *)
(***************************************************************************)
EXTENDS Integers

CONSTANTS
  Client,       \* connections of the player to the lobby, each made once
  Admins,       \* rows of `admin`, see AdminRow
  Budgets,      \* rows of `budget`
  Whitelists,   \* ends of rows of `ckey_whitelist`
  Bans,         \* rows of `ban`
  Life,         \* expiresIn: 12h
  Shift,        \* dateNormilized: 3h
  MaxClock,     \* bound: the last moment
  MaxChanges    \* bound: changes of the database

Flag == {"R_ADMIN", "R_BAN", "R_SERVER", "R_MOD", "R_MENTOR"}
AdminRow == [removed : BOOLEAN, flags : SUBSET Flag]
BudgetRow == [amount : Nat, till : Nat]
\* the games write -1 for a ban without an end
BanRow == [duration : Nat \cup {-1}, till : Nat, unbanned : BOOLEAN, job : BOOLEAN]

ASSUME TimeAssumption == Life \in Nat \ {0} /\ Shift \in Nat /\ MaxClock \in Nat
ASSUME RowAssumption ==
  /\ Admins \subseteq AdminRow /\ Budgets \subseteq BudgetRow
  /\ Whitelists \subseteq Nat /\ Bans \subseteq BanRow /\ MaxChanges \in Nat

VARIABLES
  clock,        \* units since the start
  admin,        \* the row of `admin`: removed if there is none
  budget,       \* the row of `budget`: amount 0 if there is none
  whitelist,    \* when the whitelist of the server ends
  ban,          \* the row of `ban`: duration 0 if there is none
  client,       \* "new", "waiting", "redirected", "page", "stuck" or "gone"
  request,      \* request[c]: how far the webhook is, and its answer; "none" if it is
                \* not in active_async_requests
  token,        \* the token of the page that was opened last
  profile,      \* that page has loaded the profile, which is the user of the token
  window,       \* its ban window: "closed", with a "ban", or "empty"
  seen,         \* seen[r][b]: units since it last was b that r is a right
  changes       \* changes of the database so far

database == <<admin, budget, whitelist, ban>>
page == <<token, profile, window>>
history == <<seen, changes>>
vars == <<clock, database, client, request, page, history>>

Right == {"play", "staff", "donor", "admin", "list", "whitelisted"}
Token == [flags : SUBSET Flag, tier : 0 .. 4, whitelisted : BOOLEAN, banned : BOOLEAN,
          until : Int]
NoToken == [flags |-> {}, tier |-> 0, whitelisted |-> FALSE, banned |-> FALSE, until |-> -1]
Query == {"admin", "budget", "whitelist", "ban"}
Answer == {"redirect", "token", "failed", "errored"}

TypeOK ==
  /\ clock \in 0 .. MaxClock
  /\ admin \in AdminRow /\ budget \in BudgetRow /\ whitelist \in Nat /\ ban \in BanRow
  /\ client \in [Client -> {"new", "waiting", "redirected", "page", "stuck", "gone"}]
  /\ request \in [Client -> [at : {"none", "sent"} \cup Query \cup Answer, user : Token]]
  /\ token \in Token /\ profile \in BOOLEAN /\ window \in {"closed", "ban", "empty"}
  /\ seen \in [Right -> [BOOLEAN -> 0 .. Life]] /\ changes \in 0 .. MaxChanges
-----------------------------------------------------------------------------
(***************************************************************************)
(* UsersService                                                            *)
(***************************************************************************)
dateNormilized == clock + Shift

AdminFlags == IF admin.removed THEN {} ELSE admin.flags

Budget == IF budget.till > dateNormilized THEN budget.amount ELSE 0

\* mutant: the sum instead of the tier
DonatorSum == Budget

DonatorTier ==
  CASE Budget >= 1000 -> 4
    [] Budget \in 500 .. 999 -> 3
    [] Budget \in 300 .. 499 -> 2
    [] Budget \in 100 .. 299 -> 1
    [] OTHER -> 0

WhitelistPass == whitelist > dateNormilized

\* mutant: a ban that was lifted counts
LiftedBan == ~ ban.job /\ (ban.duration = -1 \/ (ban.duration > 0 /\ ban.till > clock))

ActiveBan ==
  ~ ban.job /\ ~ ban.unbanned
  /\ (ban.duration = -1 \/ (ban.duration > 0 /\ ban.till > clock))
-----------------------------------------------------------------------------
(***************************************************************************)
(* The guards, and what the handlers ask of the user themselves            *)
(***************************************************************************)
JwtAuthGuard(t) == clock < t.until
NotBannedGuard(t) == ~ t.banned
RolesGuard(t, flags) == flags \subseteq t.flags
isStaff(t) == t.flags \cap {"R_MENTOR", "R_MOD", "R_ADMIN", "R_SERVER"} # {}
getPlayerlistExt(t) == RolesGuard(t, {"R_ADMIN", "R_BAN"})

\* play: the queues are open.  staff, donor: either gives a pass without waiting
\* (on one port staff needs the whitelist too).  admin: the admins' page and the revocation of passes.
\* list: playerlist_ext.
Granted(t, right) ==
  CASE right = "play" -> NotBannedGuard(t)
    [] right = "staff" -> isStaff(t)
    [] right = "donor" -> t.tier >= 2
    [] right = "admin" -> RolesGuard(t, {"R_ADMIN", "R_SERVER"})
    [] right = "list" -> getPlayerlistExt(t)
    [] right = "whitelisted" -> t.whitelisted

\* what the database means, as its tables define it
Entitled(right) ==
  CASE right = "play" -> \/ ban.job \/ ban.unbanned \/ ban.duration = 0
                         \/ ban.duration > 0 /\ ban.till <= clock
    [] right = "staff" -> ~ admin.removed /\ admin.flags \ {"R_BAN"} # {}
    [] right = "donor" -> budget.amount >= 300 /\ budget.till - Shift > clock
    [] right = "admin" -> ~ admin.removed /\ {"R_ADMIN", "R_SERVER"} \subseteq admin.flags
    [] right = "list" -> ~ admin.removed /\ {"R_ADMIN", "R_BAN"} \subseteq admin.flags
    [] right = "whitelisted" -> whitelist - Shift > clock

Aged(n, units) == IF n + units < Life THEN n + units ELSE Life

Recorded(units) ==
  seen' = [r \in Right |-> [b \in BOOLEAN |->
             IF Entitled(r)' = b THEN 0 ELSE Aged(seen[r][b], units)]]

Init ==
  /\ clock = 0 /\ changes = 0
  /\ admin = [removed |-> TRUE, flags |-> {}] /\ budget = [amount |-> 0, till |-> 0]
  /\ whitelist = 0 /\ ban = [duration |-> 0, till |-> 0, unbanned |-> FALSE, job |-> FALSE]
  /\ client = [c \in Client |-> "new"]
  /\ request = [c \in Client |-> [at |-> "none", user |-> NoToken]]
  /\ token = NoToken /\ profile = FALSE /\ window = "closed"
  /\ seen = [r \in Right |-> [b \in BOOLEAN |-> IF b = (r = "play") THEN 0 ELSE Life]]
-----------------------------------------------------------------------------
(***************************************************************************)
(* Time and the database                                                   *)
(***************************************************************************)
Tick ==
  /\ clock < MaxClock
  /\ \A c \in Client : request[c].at \notin Query \cup {"sent"}
  /\ clock' = clock + 1
  /\ UNCHANGED <<database, client, request, page, changes>>
  /\ Recorded(1)

Change ==
  /\ changes < MaxChanges /\ changes' = changes + 1
  /\ \/ admin' \in Admins \ {admin} /\ UNCHANGED <<budget, whitelist, ban>>
     \/ budget' \in Budgets \ {budget} /\ UNCHANGED <<admin, whitelist, ban>>
     \/ whitelist' \in Whitelists \ {whitelist} /\ UNCHANGED <<admin, budget, ban>>
     \/ ban' \in Bans \ {ban} /\ UNCHANGED <<admin, budget, whitelist>>
  /\ UNCHANGED <<clock, client, request, page>>
  /\ Recorded(0)
-----------------------------------------------------------------------------
(***************************************************************************)
(* The webhook: processLobbyConnect and generateUserToken                  *)
(***************************************************************************)
Moves(c, from, to, user) ==
  /\ request[c].at = from
  /\ request' = [request EXCEPT ![c] = [at |-> to, user |-> user]]
  /\ UNCHANGED <<clock, database, client, page, history>>

\* linkIp, then checkPass: a player with a pass needs no token
ProcessLobbyConnect(c) ==
  \E to \in {"redirect", "admin"} : Moves(c, "sent", to, NoToken)

ReadAdmin(c) == Moves(c, "admin", "budget", [NoToken EXCEPT !.flags = AdminFlags])

ReadBudget(c) == Moves(c, "budget", "whitelist", [request[c].user EXCEPT !.tier = DonatorTier])

ReadWhitelist(c) ==
  Moves(c, "whitelist", "ban", [request[c].user EXCEPT !.whitelisted = WhitelistPass])

\* the last query, and the signature
GenerateUserToken(c) ==
  Moves(c, "ban", "token", [request[c].user EXCEPT !.banned = ActiveBan,
                                                   !.until = clock + Life])

\* a query fails or a guard refuses: the answer is an error in JSON.  Or no
\* answer can be read at all.
Fail(c) ==
  /\ request[c].at \in Query \cup {"sent"}
  /\ \E answer \in {"failed", "errored"} : Moves(c, request[c].at, answer, NoToken)
-----------------------------------------------------------------------------
(***************************************************************************)
(* The lobby                                                               *)
(***************************************************************************)
\* client/New: create_async_request
New(c) ==
  /\ client[c] = "new"
  /\ client' = [client EXCEPT ![c] = "waiting"]
  /\ request' = [request EXCEPT ![c] = [at |-> "sent", user |-> NoToken]]
  /\ UNCHANGED <<clock, database, page, history>>

\* the callback of a client that is gone has no object any more; who leaves after
\* the answer changes nothing, for the page stays in the browser
Leave(c) ==
  /\ client[c] = "waiting"
  /\ client' = [client EXCEPT ![c] = "gone"]
  /\ UNCHANGED <<clock, database, request, page, history>>

\* on_client_authorize.  An error in JSON has no redirect and no token either;
\* json_decode of nothing ends the callback.
Shown(c) ==
  IF client[c] # "waiting" THEN client[c]
  ELSE CASE request[c].at = "redirect" -> "redirected"
         [] request[c].at \in {"token", "failed"} -> "page"
         [] request[c].at = "errored" -> "stuck"

Handled(done) ==
  /\ done # {}
  /\ client' = [c \in Client |-> IF c \in done THEN Shown(c) ELSE client[c]]
  /\ LET opened == {c \in done : client[c] = "waiting" /\ Shown(c) = "page"} IN
     IF opened = {} THEN UNCHANGED page
     ELSE /\ token' \in {request[c].user : c \in opened}
          /\ profile' = FALSE /\ window' = "closed"
  /\ request' = [c \in Client |-> IF c \in done THEN [at |-> "none", user |-> NoToken]
                                  ELSE request[c]]
  /\ UNCHANGED <<clock, database, history>>

Complete == {c \in Client : request[c].at \in Answer}

\* mutant: a callback without its client ends the loop before its request is
\* taken out, every time
FireAborted == (\A c \in Complete : client[c] # "gone") /\ Handled(Complete)

\* one pass over the list: nothing in it sleeps, so nobody comes or goes
Fire == Handled(Complete)
-----------------------------------------------------------------------------
(***************************************************************************)
(* The page: the profile, the link to the admins' page, the ban window     *)
(***************************************************************************)
AdminLink == profile /\ "R_ADMIN" \in token.flags /\ "R_SERVER" \in token.flags

LoadProfile ==
  /\ ~ profile /\ JwtAuthGuard(token)
  /\ profile' = TRUE
  /\ UNCHANGED <<clock, database, client, request, token, window, history>>

\* GET users/ban: no active ban and no living token are errors, which are JSON too
GetActiveBan == IF JwtAuthGuard(token) /\ ActiveBan THEN "ban" ELSE "empty"

\* asked for when the profile tells of a ban, and again whenever the player comes
\* back to the page; whatever the answer, the window is shown with it
BanModal ==
  /\ profile /\ token.banned
  /\ window' = GetActiveBan
  /\ UNCHANGED <<clock, database, client, request, token, profile, history>>
-----------------------------------------------------------------------------
Webhook(c) ==
  \/ ProcessLobbyConnect(c) \/ ReadAdmin(c) \/ ReadBudget(c) \/ ReadWhitelist(c)
  \/ GenerateUserToken(c) \/ Fail(c)

Next ==
  \/ Tick \/ Change \/ Fire
  \/ LoadProfile \/ BanModal
  \/ \E c \in Client : New(c) \/ Leave(c) \/ Webhook(c)

Spec == Init /\ [][Next]_vars

\* the backend answers, and the lobby's loop goes on
FairSpec == Spec /\ WF_vars(Fire) /\ \A c \in Client : WF_vars(Webhook(c))
-----------------------------------------------------------------------------
(***************************************************************************)
(* What the guards grant on a token is right, or was within the lifetime   *)
(* of a token: a removed admin, a donation or whitelist that has ended, a  *)
(* ban, and also a ban that was lifted, are all noticed by then, although  *)
(* each is looked up at another moment and nothing revokes a token.  (A    *)
(* stream is judged only when it is opened.)  Each right rests on one      *)
(* table.  What either of two gives, no waiting, may be refused to who had *)
(* it all the time: staff since the row of `admin` was read, and a donator *)
(* until that of `budget` was.                                             *)
(*   The page keeps to that: its link leads an admin to no refusal, and a  *)
(* ban window with nothing in it is shown only to a player who is still    *)
(* kept from the queues by a ban that has ended within the lifetime.       *)
(***************************************************************************)
RightsAreRecent ==
  JwtAuthGuard(token) =>
    /\ \A r \in Right : seen[r][Granted(token, r)] < Life
    /\ AdminLink => Granted(token, "admin")
    /\ window = "empty" => ~ Granted(token, "play") /\ seen["play"][TRUE] < Life

(***************************************************************************)
(* A client of the lobby does not wait for ever, whatever becomes of the   *)
(* others: it is sent to the game or to the page, or it left; or its       *)
(* answer could not be read, which nothing tells the player.               *)
(***************************************************************************)
ClientAnswered ==
  \A c \in Client : client[c] = "waiting" ~> client[c] # "waiting"
=============================================================================
