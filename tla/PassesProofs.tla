---------------------------- MODULE PassesProofs ----------------------------
(***************************************************************************)
(* Theorems about Passes, for any number of players, servers, overlapping  *)
(* calls and restarts.                                                     *)
(*                                                                         *)
(* A change of a pass travels through four copies: the server's set, the   *)
(* player's set, what is being read, what was announced.  The inductive    *)
(* invariant says of each copy and the next that the last call between     *)
(* them carries the difference: it stands in the wire with the operation   *)
(* that made the copy what it is, and without such a call both are equal.  *)
(* The second part proves that Passes implements PassContract.             *)
(***************************************************************************)
EXTENDS PassRefinement, SequenceTheorems, FiniteSetTheorems, WellFoundedInduction, TLAPS

\* a call of the set K is in w; x is the last one
Has(w, K) == \E i \in DOMAIN w : w[i] \in K
LastOf(w, K, x) ==
  \E i \in DOMAIN w : w[i] = x /\ x \in K /\ \A j \in DOMAIN w : i < j => w[j] \notin K

Calls(p, at) == {x \in Call : x.pass = p /\ x.at = at}
CallsFor(c, at) == {x \in Call : x.pass[2] = c /\ x.at = at}

\* the difference between passes and held is on the wire
OwnCarries ==
  \A p \in Pass \ cut :
    /\ \A x \in Call : LastOf(wire, Calls(p, "own"), x) => (p \in passes <=> x.op = "add")
    /\ ~ Has(wire, Calls(p, "own")) => (p \in passes <=> p \in held)

\* so is the difference between held and known
ReadCarries ==
  \A p \in Pass \ cut :
    \A x \in Call : LastOf(wire, Calls(p, "read"), x) => (p \in held <=> x.op = "add")

TellCarries ==
  \A p \in Pass \ cut : ~ Has(wire, Calls(p, "read")) =>
    /\ \A x \in Call : LastOf(wire, Calls(p, "tell"), x) => (p \in held <=> x.op = "add")
    /\ ~ Has(wire, Calls(p, "tell")) => (p \in held <=> p \in known)

\* an addition that is about to update the player's set follows a removal, or
\* finds the pass missing
Alternates(w, p, own) ==
  \A i \in DOMAIN w :
    w[i] \in Calls(p, "own") /\ w[i].op = "add" =>
      \/ p \notin own /\ \A j \in DOMAIN w : j < i => w[j] \notin Calls(p, "own")
      \/ \E k \in DOMAIN w :
           /\ k < i /\ w[k] \in Calls(p, "own") /\ w[k].op = "remove"
           /\ \A j \in DOMAIN w : k < j /\ j < i => w[j] \notin Calls(p, "own")

AddsAlternate == \A p \in Pass \ cut : Alternates(wire, p, held)

\* the last thing to be shown to a player is what it holds
ShownCarries ==
  \A c \in Player : ~ Has(wire, CallsFor(c, "read")) =>
    /\ \A x \in Call : LastOf(wire, CallsFor(c, "tell"), x) => x.seen = PassesOf(c, held)
    /\ ~ Has(wire, CallsFor(c, "tell")) => shown[c] = PassesOf(c, held)

IInv ==
  /\ TypeOK /\ OwnCarries /\ ReadCarries /\ TellCarries /\ AddsAlternate
  /\ ShownCarries /\ MismatchOnlyAfterRestart
-----------------------------------------------------------------------------
(***************************************************************************)
(* A call that is put at the end is the last of its kind, and leaves the   *)
(* other kinds as they were.                                               *)
(***************************************************************************)
LEMMA AppendedIsLast ==
  ASSUME NEW w \in Seq(Call), NEW e \in Call, NEW K, e \in K
  PROVE  /\ Has(Append(w, e), K)
         /\ \A x : LastOf(Append(w, e), K, x) => x = e
<1> DEFINE v == Append(w, e)
<1>1. /\ Len(w) \in Nat /\ DOMAIN v = 1 .. Len(w) + 1
      /\ v[Len(w) + 1] = e
  BY AppendProperties, LenProperties
<1> HIDE DEF v
<1>2. Has(v, K)
  BY <1>1 DEF Has
<1>3. ASSUME NEW x, LastOf(v, K, x)
      PROVE  x = e
  <2>1. PICK i \in DOMAIN v : v[i] = x /\ x \in K /\ \A j \in DOMAIN v : i < j => v[j] \notin K
    BY <1>3 DEF LastOf
  <2>2. ~ (i < Len(w) + 1)
    BY <2>1, <1>1
  <2> QED BY <2>1, <2>2, <1>1
<1> QED BY <1>2, <1>3 DEF v

LEMMA AppendedOther ==
  ASSUME NEW w \in Seq(Call), NEW e \in Call, NEW K, e \notin K
  PROVE  /\ Has(Append(w, e), K) <=> Has(w, K)
         /\ \A x : LastOf(Append(w, e), K, x) <=> LastOf(w, K, x)
<1> DEFINE v == Append(w, e)
<1>1. /\ Len(w) \in Nat /\ DOMAIN w = 1 .. Len(w) /\ DOMAIN v = 1 .. Len(w) + 1
      /\ v[Len(w) + 1] = e /\ \A i \in 1 .. Len(w) : v[i] = w[i]
  BY AppendProperties, LenProperties
<1> HIDE DEF v
<1>2. \A i \in DOMAIN v : v[i] \in K => i \in DOMAIN w /\ w[i] = v[i]
  BY <1>1
<1>3. \A i \in DOMAIN w : i \in DOMAIN v /\ v[i] = w[i]
  BY <1>1
<1>4. Has(v, K) <=> Has(w, K)
  BY <1>2, <1>3 DEF Has
<1>5. ASSUME NEW x
      PROVE  LastOf(v, K, x) <=> LastOf(w, K, x)
  BY <1>2, <1>3 DEF LastOf
<1> QED BY <1>4, <1>5 DEF v

(***************************************************************************)
(* When the first call is taken off, the other kinds stay as they were,    *)
(* and of its own kind the last one stays the last, if it was not it.      *)
(***************************************************************************)
LEMMA TailIndices ==
  ASSUME NEW w \in Seq(Call), w # <<>>
  PROVE  /\ Tail(w) \in Seq(Call) /\ Head(w) \in Call /\ Head(w) = w[1]
         /\ Len(w) \in Nat /\ Len(w) > 0
         /\ DOMAIN w = 1 .. Len(w) /\ DOMAIN Tail(w) = 1 .. Len(w) - 1
         /\ \A i \in 1 .. Len(w) - 1 : Tail(w)[i] = w[i + 1]
BY HeadTailProperties, LenProperties, EmptySeq

LEMMA TailOther ==
  ASSUME NEW w \in Seq(Call), w # <<>>, NEW K, Head(w) \notin K
  PROVE  /\ Has(Tail(w), K) <=> Has(w, K)
         /\ \A x : LastOf(Tail(w), K, x) <=> LastOf(w, K, x)
<1> DEFINE v == Tail(w)
           n == Len(w)
<1>1. /\ n \in Nat /\ n > 0 /\ DOMAIN w = 1 .. n /\ DOMAIN v = 1 .. n - 1
      /\ w[1] \notin K /\ \A i \in 1 .. n - 1 : v[i] = w[i + 1]
  BY TailIndices
<1> HIDE DEF v, n
<1>2. ASSUME NEW i \in 1 .. n, w[i] \in K
      PROVE  i - 1 \in 1 .. n - 1 /\ v[i - 1] = w[i]
  BY <1>1, <1>2
<1>3. Has(v, K) <=> Has(w, K)
  <2>1. ASSUME Has(v, K) PROVE Has(w, K)
    <3>1. PICK i \in 1 .. n - 1 : v[i] \in K
      BY <2>1, <1>1 DEF Has
    <3>2. i + 1 \in 1 .. n /\ w[i + 1] \in K
      BY <3>1, <1>1
    <3> QED BY <3>2, <1>1 DEF Has
  <2>2. ASSUME Has(w, K) PROVE Has(v, K)
    BY <2>2, <1>1, <1>2 DEF Has
  <2> QED BY <2>1, <2>2
<1>4. ASSUME NEW x, LastOf(v, K, x)
      PROVE  LastOf(w, K, x)
  <2>1. PICK i \in 1 .. n - 1 : v[i] = x /\ x \in K /\ \A j \in 1 .. n - 1 : i < j => v[j] \notin K
    BY <1>4, <1>1 DEF LastOf
  <2>2. i + 1 \in 1 .. n /\ w[i + 1] = x
    BY <2>1, <1>1
  <2>3. ASSUME NEW j \in 1 .. n, i + 1 < j PROVE w[j] \notin K
    <3>1. j - 1 \in 1 .. n - 1 /\ i < j - 1 /\ v[j - 1] = w[j]
      BY <2>3, <1>1
    <3> QED BY <3>1, <2>1
  <2> QED BY <2>1, <2>2, <2>3, <1>1 DEF LastOf
<1>5. ASSUME NEW x, LastOf(w, K, x)
      PROVE  LastOf(v, K, x)
  <2>1. PICK i \in 1 .. n : w[i] = x /\ x \in K /\ \A j \in 1 .. n : i < j => w[j] \notin K
    BY <1>5, <1>1 DEF LastOf
  <2>2. i - 1 \in 1 .. n - 1 /\ v[i - 1] = x
    BY <2>1, <1>2
  <2>3. ASSUME NEW j \in 1 .. n - 1, i - 1 < j PROVE v[j] \notin K
    <3>1. j + 1 \in 1 .. n /\ i < j + 1 /\ v[j] = w[j + 1]
      BY <2>3, <1>1
    <3> QED BY <3>1, <2>1
  <2> QED BY <2>1, <2>2, <2>3, <1>1 DEF LastOf
<1> QED BY <1>3, <1>4, <1>5 DEF v

LEMMA TailOwn ==
  ASSUME NEW w \in Seq(Call), w # <<>>, NEW K, Head(w) \in K
  PROVE  /\ \A x : LastOf(Tail(w), K, x) => LastOf(w, K, x)
         /\ ~ Has(Tail(w), K) => LastOf(w, K, Head(w))
<1> DEFINE v == Tail(w)
           n == Len(w)
<1>1. /\ n \in Nat /\ n > 0 /\ DOMAIN w = 1 .. n /\ DOMAIN v = 1 .. n - 1
      /\ w[1] = Head(w) /\ \A i \in 1 .. n - 1 : v[i] = w[i + 1]
  BY TailIndices
<1> HIDE DEF v, n
<1>2. ASSUME NEW x, LastOf(v, K, x)
      PROVE  LastOf(w, K, x)
  <2>1. PICK i \in 1 .. n - 1 : v[i] = x /\ x \in K /\ \A j \in 1 .. n - 1 : i < j => v[j] \notin K
    BY <1>2, <1>1 DEF LastOf
  <2>2. i + 1 \in 1 .. n /\ w[i + 1] = x
    BY <2>1, <1>1
  <2>3. ASSUME NEW j \in 1 .. n, i + 1 < j PROVE w[j] \notin K
    <3>1. j - 1 \in 1 .. n - 1 /\ i < j - 1 /\ v[j - 1] = w[j]
      BY <2>3, <1>1
    <3> QED BY <3>1, <2>1
  <2> QED BY <2>1, <2>2, <2>3, <1>1 DEF LastOf
<1>3. ASSUME ~ Has(v, K)
      PROVE  LastOf(w, K, Head(w))
  <2>1. ASSUME NEW j \in 1 .. n, 1 < j PROVE w[j] \notin K
    <3>1. j - 1 \in 1 .. n - 1 /\ v[j - 1] = w[j]
      BY <2>1, <1>1
    <3> QED BY <3>1, <1>3, <1>1 DEF Has
  <2>2. 1 \in 1 .. n
    BY <1>1
  <2> QED BY <2>1, <2>2, <1>1 DEF LastOf
<1> QED BY <1>2, <1>3 DEF v

(***************************************************************************)
(* A set of naturals that is not empty has a least element.                *)
(***************************************************************************)
LEMMA Minimum ==
  ASSUME NEW D \in SUBSET Nat, D # {}
  PROVE  \E d \in D : \A x \in D : d <= x
<1> DEFINE Less == {ss \in Nat \X Nat : ss[1] < ss[2]}
<1>1. OpToRel(<, Nat) = Less
  BY Zenon DEF OpToRel
<1>2. IsWellFoundedOn(Less, Nat)
  BY ONLY <1>1, NatLessThanWellFounded, Zenon
<1> HIDE DEF Less
<1>3. PICK d \in D : \A x \in D : ~ (<<x, d>> \in Less)
  BY <1>2, WFMin
<1>4. ASSUME NEW x \in D PROVE d <= x
  <2>1. ~ (x < d)
    BY <1>3 DEF Less
  <2> QED BY ONLY <2>1, x \in Nat, d \in Nat
<1> QED BY <1>4

(***************************************************************************)
(* If there is a call of a kind there is a last one.                       *)
(***************************************************************************)
LEMMA HasLast ==
  ASSUME NEW w \in Seq(Call), NEW K, Has(w, K)
  PROVE  \E x : LastOf(w, K, x)
<1> DEFINE I == {i \in DOMAIN w : w[i] \in K}
           D == {Len(w) - i : i \in I}
<1>1. Len(w) \in Nat /\ DOMAIN w = 1 .. Len(w)
  BY LenProperties
<1>2. D \in SUBSET Nat /\ D # {}
  BY <1>1 DEF Has
<1>3. PICK d \in D : \A x \in D : d <= x
  BY <1>2, Minimum
<1>4. PICK i \in I : d = Len(w) - i
  OBVIOUS
<1>5. ASSUME NEW j \in DOMAIN w, i < j PROVE w[j] \notin K
  <2>1. SUFFICES ASSUME w[j] \in K PROVE FALSE
    OBVIOUS
  <2>2. Len(w) - j \in D
    BY <2>1
  <2>3. d <= Len(w) - j
    BY <2>2, <1>3
  <2> QED BY ONLY <2>3, <1>4, <1>5, <1>1, i \in DOMAIN w, j \in DOMAIN w
<1>6. LastOf(w, K, w[i])
  BY <1>5 DEF LastOf
<1> QED BY <1>6

\* without a call of a kind there is no last one
LEMMA NoneNoLast ==
  ASSUME NEW w, NEW K, NEW x, LastOf(w, K, x)
  PROVE  Has(w, K)
BY DEF LastOf, Has
(***************************************************************************)
(* The alternation of additions and removals survives what is done to the  *)
(* wire.                                                                   *)
(***************************************************************************)
LEMMA AlternatesAppend ==
  ASSUME NEW w \in Seq(Call), NEW e \in Call, NEW p, NEW own, Alternates(w, p, own),
         \/ e \notin Calls(p, "own")
         \/ e.op = "remove"
         \/ p \notin own /\ ~ Has(w, Calls(p, "own"))
         \/ \E x \in Call : x.op = "remove" /\ LastOf(w, Calls(p, "own"), x)
  PROVE  Alternates(Append(w, e), p, own)
<1> DEFINE v == Append(w, e)
           n == Len(w)
           K == Calls(p, "own")
<1>1. /\ n \in Nat /\ DOMAIN w = 1 .. n /\ DOMAIN v = 1 .. n + 1
      /\ v[n + 1] = e /\ \A i \in 1 .. n : v[i] = w[i]
  BY AppendProperties, LenProperties
<1>2. \A i \in 1 .. n : w[i] \in K /\ w[i].op = "add" =>
        \/ p \notin own /\ \A j \in 1 .. n : j < i => w[j] \notin K
        \/ \E k \in 1 .. n :
             /\ k < i /\ w[k] \in K /\ w[k].op = "remove"
             /\ \A j \in 1 .. n : k < j /\ j < i => w[j] \notin K
  BY <1>1 DEF Alternates
<1> HIDE DEF v, n, K
<1> SUFFICES ASSUME NEW i \in 1 .. n + 1, v[i] \in K, v[i].op = "add"
             PROVE  \/ p \notin own /\ \A j \in 1 .. n + 1 : j < i => v[j] \notin K
                    \/ \E k \in 1 .. n + 1 :
                         /\ k < i /\ v[k] \in K /\ v[k].op = "remove"
                         /\ \A j \in 1 .. n + 1 : k < j /\ j < i => v[j] \notin K
  BY <1>1 DEF Alternates, v, K
<1>3. CASE i \in 1 .. n
  <2>1. w[i] = v[i] /\ \A j \in 1 .. n + 1 : j < i => j \in 1 .. n /\ v[j] = w[j]
    BY <1>1, <1>3
  <2>2. CASE p \notin own /\ \A j \in 1 .. n : j < i => w[j] \notin K
    BY <2>1, <2>2
  <2>3. CASE \E k \in 1 .. n : /\ k < i /\ w[k] \in K /\ w[k].op = "remove"
                               /\ \A j \in 1 .. n : k < j /\ j < i => w[j] \notin K
    <3>1. PICK k \in 1 .. n : /\ k < i /\ w[k] \in K /\ w[k].op = "remove"
                               /\ \A j \in 1 .. n : k < j /\ j < i => w[j] \notin K
      BY <2>3
    <3>2. k \in 1 .. n + 1 /\ v[k] = w[k]
      BY <1>1
    <3> QED BY <3>1, <3>2, <2>1
  <2> QED BY <2>1, <2>2, <2>3, <1>2, <1>3
<1>4. CASE i = n + 1
  <2>1. v[i] = e
    BY <1>1, <1>4
  <2>2. CASE p \notin own /\ ~ Has(w, K)
    <3>1. \A j \in 1 .. n + 1 : j < i => v[j] \notin K
      BY <2>2, <1>1, <1>4 DEF Has
    <3> QED BY <2>2, <3>1
  <2>3. CASE \E x \in Call : x.op = "remove" /\ LastOf(w, K, x)
    <3>1. PICK x \in Call : x.op = "remove" /\ LastOf(w, K, x)
      BY <2>3
    <3>2. PICK k \in 1 .. n : w[k] = x /\ x \in K /\ \A j \in 1 .. n : k < j => w[j] \notin K
      BY <3>1, <1>1 DEF LastOf
    <3>3. k \in 1 .. n + 1 /\ v[k] = w[k] /\ k < i
      BY <1>1, <1>4
    <3>4. \A j \in 1 .. n + 1 : k < j /\ j < i => v[j] \notin K
      BY <3>2, <1>1, <1>4
    <3> QED BY <3>1, <3>2, <3>3, <3>4
  <2> QED BY <2>1, <2>2, <2>3 DEF K
<1> QED BY <1>3, <1>4, <1>1

LEMMA AlternatesTail ==
  ASSUME NEW w \in Seq(Call), w # <<>>, NEW p, NEW own, NEW new, Alternates(w, p, own),
         \/ Head(w) \notin Calls(p, "own") /\ (p \in new <=> p \in own)
         \/ Head(w) \in Calls(p, "own") /\ (Head(w).op = "remove" => p \notin new)
  PROVE  Alternates(Tail(w), p, new)
<1> DEFINE v == Tail(w)
           n == Len(w)
           K == Calls(p, "own")
<1>1. /\ n \in Nat /\ n > 0 /\ DOMAIN w = 1 .. n /\ DOMAIN v = 1 .. n - 1
      /\ Head(w) = w[1] /\ \A i \in 1 .. n - 1 : v[i] = w[i + 1]
  BY TailIndices
<1>2. \A i \in 1 .. n : w[i] \in K /\ w[i].op = "add" =>
        \/ p \notin own /\ \A j \in 1 .. n : j < i => w[j] \notin K
        \/ \E k \in 1 .. n :
             /\ k < i /\ w[k] \in K /\ w[k].op = "remove"
             /\ \A j \in 1 .. n : k < j /\ j < i => w[j] \notin K
  BY <1>1 DEF Alternates
<1>3. \/ w[1] \notin K /\ (p \in new <=> p \in own)
      \/ w[1] \in K /\ (w[1].op = "remove" => p \notin new)
  BY <1>1
<1> HIDE DEF v, n, K
<1> SUFFICES ASSUME NEW i \in 1 .. n - 1, v[i] \in K, v[i].op = "add"
             PROVE  \/ p \notin new /\ \A j \in 1 .. n - 1 : j < i => v[j] \notin K
                    \/ \E k \in 1 .. n - 1 :
                         /\ k < i /\ v[k] \in K /\ v[k].op = "remove"
                         /\ \A j \in 1 .. n - 1 : k < j /\ j < i => v[j] \notin K
  BY <1>1 DEF Alternates, v, K
<1>4. i + 1 \in 1 .. n /\ v[i] = w[i + 1] /\ \A j \in 1 .. n - 1 : j + 1 \in 1 .. n /\ v[j] = w[j + 1]
  BY <1>1
<1>5. 1 \in 1 .. n /\ 1 < i + 1
  BY <1>1
<1>6. CASE p \notin own /\ \A j \in 1 .. n : j < i + 1 => w[j] \notin K
  <2>1. w[1] \notin K
    BY <1>5, <1>6
  <2>2. \A j \in 1 .. n - 1 : j < i => v[j] \notin K
    BY <1>4, <1>6
  <2> QED BY <2>1, <2>2, <1>3, <1>6
<1>7. CASE \E k \in 1 .. n : /\ k < i + 1 /\ w[k] \in K /\ w[k].op = "remove"
                             /\ \A j \in 1 .. n : k < j /\ j < i + 1 => w[j] \notin K
  <2>1. PICK k \in 1 .. n : /\ k < i + 1 /\ w[k] \in K /\ w[k].op = "remove"
                             /\ \A j \in 1 .. n : k < j /\ j < i + 1 => w[j] \notin K
    BY <1>7
  <2>2. \A j \in 1 .. n - 1 : k - 1 < j /\ j < i => v[j] \notin K
    BY <1>4, <2>1
  <2>3. CASE k = 1
    <3>1. p \notin new
      BY <2>1, <2>3, <1>3
    <3>2. \A j \in 1 .. n - 1 : j < i => v[j] \notin K
      BY <2>2, <2>3
    <3> QED BY <3>1, <3>2
  <2>4. CASE k # 1
    <3>1. k - 1 \in 1 .. n - 1 /\ k - 1 < i /\ v[k - 1] = w[k]
      BY <1>1, <2>1, <2>4
    <3> QED BY <3>1, <2>1, <2>2
  <2> QED BY <2>3, <2>4
<1> QED BY <1>2, <1>4, <1>6, <1>7
-----------------------------------------------------------------------------
(***************************************************************************)
(* What the steps do to the wire.                                          *)
(***************************************************************************)
LEMMA Asked ==
  ASSUME TypeOK, NEW p \in Pass, NEW op \in {"add", "remove"}, Start(op, p), NEW K
  PROVE  LET e == [op |-> op, at |-> "own", pass |-> p, seen |-> {}] IN
         /\ wire' = Append(wire, e) /\ e \in Call /\ wire' \in Seq(Call)
         /\ e \notin K => /\ Has(wire', K) <=> Has(wire, K)
                         /\ \A x : LastOf(wire', K, x) <=> LastOf(wire, K, x)
         /\ e \in K => Has(wire', K) /\ \A x : LastOf(wire', K, x) => x = e
<1> DEFINE e == [op |-> op, at |-> "own", pass |-> p, seen |-> {}]
<1>1. e \in Call /\ wire' = Append(wire, e)
  BY DEF Call, Start
<1>2. wire \in Seq(Call)
  BY DEF TypeOK
<1> HIDE DEF e
<1>3. wire' \in Seq(Call)
  BY <1>1, <1>2, AppendProperties
<1>4. e \notin K => /\ Has(wire', K) <=> Has(wire, K)
                  /\ \A x : LastOf(wire', K, x) <=> LastOf(wire, K, x)
  BY <1>1, <1>2, AppendedOther
<1>5. e \in K => Has(wire', K) /\ \A x : LastOf(wire', K, x) => x = e
  BY <1>1, <1>2, AppendedIsLast
<1> QED BY <1>1, <1>3, <1>4, <1>5 DEF e

LEMMA Reissued ==
  ASSUME TypeOK, wire # <<>>, NEW e \in Call, wire' = Append(Tail(wire), e), NEW K
  PROVE  /\ wire' \in Seq(Call)
         /\ Head(wire) \notin K /\ e \notin K =>
              /\ Has(wire', K) <=> Has(wire, K)
              /\ \A x : LastOf(wire', K, x) <=> LastOf(wire, K, x)
         /\ Head(wire) \in K /\ e \notin K =>
              /\ \A x : LastOf(wire', K, x) => LastOf(wire, K, x)
              /\ ~ Has(wire', K) => LastOf(wire, K, Head(wire))
         /\ e \in K => Has(wire', K) /\ \A x : LastOf(wire', K, x) => x = e
<1>1. wire \in Seq(Call) /\ Tail(wire) \in Seq(Call)
  BY TailIndices DEF TypeOK
<1>2. e \in K => Has(wire', K) /\ \A x : LastOf(wire', K, x) => x = e
  BY <1>1, AppendedIsLast
<1>3. e \notin K => /\ Has(wire', K) <=> Has(Tail(wire), K)
                  /\ \A x : LastOf(wire', K, x) <=> LastOf(Tail(wire), K, x)
  BY <1>1, AppendedOther
<1>4. wire' \in Seq(Call)
  BY <1>1, AppendProperties
<1>5. Head(wire) \notin K =>
        /\ Has(Tail(wire), K) <=> Has(wire, K)
        /\ \A x : LastOf(Tail(wire), K, x) <=> LastOf(wire, K, x)
  BY <1>1, TailOther
<1>6. Head(wire) \in K =>
        /\ \A x : LastOf(Tail(wire), K, x) => LastOf(wire, K, x)
        /\ ~ Has(Tail(wire), K) => LastOf(wire, K, Head(wire))
  BY <1>1, TailOwn
<1> QED BY <1>2, <1>3, <1>4, <1>5, <1>6

LEMMA Ended ==
  ASSUME TypeOK, wire # <<>>, End, NEW K
  PROVE  /\ wire' \in Seq(Call)
         /\ Head(wire) \notin K =>
              /\ Has(wire', K) <=> Has(wire, K)
              /\ \A x : LastOf(wire', K, x) <=> LastOf(wire, K, x)
         /\ Head(wire) \in K =>
              /\ \A x : LastOf(wire', K, x) => LastOf(wire, K, x)
              /\ ~ Has(wire', K) => LastOf(wire, K, Head(wire))
BY TailIndices, TailOther, TailOwn DEF TypeOK, End
-----------------------------------------------------------------------------
(***************************************************************************)
(* Every step keeps the invariant.                                         *)
(***************************************************************************)
\* at the start there is no pass and no call
LEMMA InitIInv == Init => IInv
<1> SUFFICES ASSUME Init PROVE IInv
  OBVIOUS
<1>1. TypeOK
  BY EmptySeq DEF Init, TypeOK
<1>2. \A K : ~ Has(wire, K) /\ \A x : ~ LastOf(wire, K, x)
  BY DEF Init, Has, LastOf
<1>3. AddsAlternate
  BY DEF AddsAlternate, Alternates, Init
<1> QED BY <1>1, <1>2, <1>3 DEF IInv, Init, OwnCarries, ReadCarries, TellCarries,
                               ShownCarries, PassesOf, MismatchOnlyAfterRestart

\* an addition is accepted, or a removal begins: the server's set changes and
\* the change is carried by the last call on the wire
LEMMA AskKeeps ==
  ASSUME IInv, NEW p \in Pass, NEW op \in {"add", "remove"}, Start(op, p),
         op = "add" => p \notin passes,
         passes' = IF op = "add" THEN passes \cup {p} ELSE passes \ {p},
         UNCHANGED <<held, events, ghosts>>
  PROVE  IInv'
<1> USE DEF IInv
<1> DEFINE e == [op |-> op, at |-> "own", pass |-> p, seen |-> {}]
<1>1. e \in Call /\ wire' = Append(wire, e) /\ wire' \in Seq(Call)
  BY Asked
<1>2. e.op = op /\ e.at = "own" /\ e.pass = p
  OBVIOUS
<1>3. \A K : e \notin K =>
        /\ Has(wire', K) <=> Has(wire, K)
        /\ \A x : LastOf(wire', K, x) <=> LastOf(wire, K, x)
  BY Asked
<1>4. ASSUME NEW K, e \in K
      PROVE  Has(wire', K) /\ \A x : LastOf(wire', K, x) => x = e
  <2> HIDE DEF e
  <2> QED BY <1>1, <1>4, AppendedIsLast DEF TypeOK
<1>5. \A q : e \in Calls(q, "own") <=> q = p
  BY <1>1, <1>2 DEF Calls
<1>6. \A q : e \notin Calls(q, "read") /\ e \notin Calls(q, "tell")
  BY <1>2 DEF Calls
<1>7. \A c : e \notin CallsFor(c, "read") /\ e \notin CallsFor(c, "tell")
  BY <1>2 DEF CallsFor
<1> HIDE DEF e
<1>8. UNCHANGED <<held, known, shown, mismatches, cut, restarts>>
  BY DEF events, ghosts
<1>9. TypeOK'
  BY <1>1, <1>8 DEF TypeOK
<1>10. OwnCarries'
  <2> SUFFICES ASSUME NEW q \in Pass \ cut
               PROVE  /\ \A x \in Call : LastOf(wire', Calls(q, "own"), x) => (q \in passes' <=> x.op = "add")
                      /\ ~ Has(wire', Calls(q, "own")) => (q \in passes' <=> q \in held)
    BY <1>8 DEF OwnCarries
  <2>1. CASE q = p
    BY <2>1, <1>2, <1>4, <1>5
  <2>2. CASE q # p
    <3>1. q \in passes' <=> q \in passes
      BY <2>2
    <3> QED BY <2>2, <3>1, <1>3, <1>5 DEF OwnCarries
  <2> QED BY <2>1, <2>2
<1>11. ReadCarries'
  BY <1>3, <1>6, <1>8 DEF ReadCarries
<1>12. TellCarries'
  BY <1>3, <1>6, <1>8 DEF Announced, TellCarries
<1>13. ShownCarries'
  BY <1>3, <1>7, <1>8 DEF ShownCarries, PassesOf
<1>14. AddsAlternate'
  <2> SUFFICES ASSUME NEW q \in Pass \ cut
               PROVE  Alternates(wire', q, held)
    BY <1>8 DEF AddsAlternate
  <2>1. Alternates(wire, q, held) /\ wire \in Seq(Call)
    BY DEF AddsAlternate, TypeOK
  <2>2. CASE q # p \/ op = "remove"
    BY <2>1, <2>2, <1>1, <1>2, <1>5, AlternatesAppend
  <2>3. CASE q = p /\ op = "add"
    <3>1. p \notin passes
      BY <2>3
    <3>2. CASE ~ Has(wire, Calls(p, "own"))
      <4>1. p \notin held
        BY <3>1, <3>2, <2>3 DEF OwnCarries
      <4> QED BY <2>1, <2>3, <3>2, <4>1, <1>1, AlternatesAppend
    <3>3. CASE Has(wire, Calls(p, "own"))
      <4>1. PICK x : LastOf(wire, Calls(p, "own"), x)
        BY <3>3, <2>1, HasLast
      <4>2. x \in Call
        BY <4>1 DEF LastOf, Calls
      <4>3. x.op = "remove"
        BY <4>1, <4>2, <3>1, <2>3 DEF OwnCarries, Call
      <4> QED BY <2>1, <2>3, <4>1, <4>2, <4>3, <1>1, AlternatesAppend
    <3> QED BY <3>2, <3>3
  <2> QED BY <2>2, <2>3
<1>15. MismatchOnlyAfterRestart'
  BY <1>8 DEF MismatchOnlyAfterRestart
<1> QED BY <1>9, <1>10, <1>11, <1>12, <1>13, <1>14, <1>15
\* addPassForCkey and removeCKeyPass
LEMMA NewCallKeeps ==
  ASSUME IInv, NEW p \in Pass, AddPassForCkey(p) \/ RemoveCKeyPass(p)
  PROVE  IInv'
<1>1. CASE AddPassForCkey(p)
  BY <1>1, AskKeeps DEF AddPassForCkey
<1>2. CASE RemoveCKeyPass(p)
  BY <1>2, AskKeeps DEF RemoveCKeyPass
<1> QED BY <1>1, <1>2

\* the first call on the wire, and of which kinds it is
LEMMA HeadKind ==
  ASSUME TypeOK, NEW at, Resumes(at)
  PROVE  /\ wire \in Seq(Call) /\ wire # <<>> /\ Head(wire) \in Call
         /\ Head(wire).pass \in Pass /\ Head(wire).at = at
         /\ \A q, b : Head(wire) \in Calls(q, b) <=> q = Head(wire).pass /\ b = at
         /\ \A c, b : Head(wire) \in CallsFor(c, b) <=> c = Head(wire).pass[2] /\ b = at
<1>1. wire \in Seq(Call) /\ wire # <<>> /\ Head(wire) \in Call
  BY TailIndices DEF TypeOK, Resumes
<1>2. Head(wire).at = at /\ Head(wire).pass \in Pass
  BY <1>1 DEF Call, Resumes
<1> QED BY <1>1, <1>2 DEF Calls, CallsFor

\* a call that goes on, and of which kinds it is then
LEMMA NextKind ==
  ASSUME TypeOK, wire # <<>>, NEW at \in {"read", "tell"}, NEW seen \in SUBSET Server,
         Reissue(at, seen)
  PROVE  \E e \in Call :
           /\ wire' = Append(Tail(wire), e)
           /\ e.at = at /\ e.pass = Head(wire).pass /\ e.op = Head(wire).op /\ e.seen = seen
           /\ \A q, b : e \in Calls(q, b) <=> q = Head(wire).pass /\ b = at
           /\ \A c, b : e \in CallsFor(c, b) <=> c = Head(wire).pass[2] /\ b = at
<1> DEFINE h == Head(wire)
           e == [h EXCEPT !.at = at, !.seen = seen]
<1>1. h \in Call
  BY TailIndices DEF TypeOK
<1>2. /\ e \in Call /\ e.at = at /\ e.pass = h.pass /\ e.op = h.op /\ e.seen = seen
  BY <1>1 DEF Call
<1>3. wire' = Append(Tail(wire), e)
  BY DEF Reissue
<1> HIDE DEF e
<1>4. /\ \A q, b : e \in Calls(q, b) <=> q = h.pass /\ b = at
      /\ \A c, b : e \in CallsFor(c, b) <=> c = h.pass[2] /\ b = at
  BY <1>2 DEF Calls, CallsFor
<1> QED BY <1>2, <1>3, <1>4
\* the player's set follows the server's set: the difference goes from the
\* calls that are to update it to those that are to read it
LEMMA OwnKeeps ==
  ASSUME IInv, Own \/ Disown
  PROVE  IInv'
<1> USE DEF IInv
<1> DEFINE h == Head(wire)
           p == h.pass
<1>1. Resumes("own") /\ Reissue("read", {})
  BY DEF Own, Disown
<1>2. /\ wire \in Seq(Call) /\ wire # <<>> /\ h \in Call /\ p \in Pass
      /\ \A q, b : h \in Calls(q, b) <=> q = p /\ b = "own"
      /\ \A c, b : h \in CallsFor(c, b) <=> c = p[2] /\ b = "own"
  BY <1>1, HeadKind
<1>3. /\ held' \subseteq Pass
      /\ p \in held' <=> h.op = "add"
      /\ \A q : q # p => (q \in held' <=> q \in held)
  BY <1>2 DEF Own, Disown, TypeOK
<1>4. UNCHANGED <<passes, known, shown, mismatches, cut, restarts>>
  BY DEF Own, Disown, events, ghosts
<1>5. PICK e \in Call :
        /\ wire' = Append(Tail(wire), e) /\ e.op = h.op
        /\ \A q, b : e \in Calls(q, b) <=> q = p /\ b = "read"
        /\ \A c, b : e \in CallsFor(c, b) <=> c = p[2] /\ b = "read"
  BY <1>1, <1>2, NextKind
<1> HIDE DEF h, p
<1>6. TypeOK'
  BY <1>2, <1>3, <1>4, <1>5, Reissued DEF TypeOK
<1>7. OwnCarries'
  <2> SUFFICES ASSUME NEW q \in Pass \ cut
               PROVE  /\ \A x \in Call : LastOf(wire', Calls(q, "own"), x) => (q \in passes <=> x.op = "add")
                      /\ ~ Has(wire', Calls(q, "own")) => (q \in passes <=> q \in held')
    BY <1>4 DEF OwnCarries
  <2>0. e \notin Calls(q, "own")
    BY <1>5
  <2>1. CASE q = p
    <3>1. /\ \A x : LastOf(wire', Calls(q, "own"), x) => LastOf(wire, Calls(q, "own"), x)
          /\ ~ Has(wire', Calls(q, "own")) => LastOf(wire, Calls(q, "own"), h)
      BY <2>0, <2>1, <1>2, <1>5, Reissued DEF h
    <3> QED BY <3>1, <2>1, <1>2, <1>3 DEF OwnCarries
  <2>2. CASE q # p
    <3>1. /\ Has(wire', Calls(q, "own")) <=> Has(wire, Calls(q, "own"))
          /\ \A x : LastOf(wire', Calls(q, "own"), x) <=> LastOf(wire, Calls(q, "own"), x)
      BY <2>0, <2>2, <1>2, <1>5, Reissued DEF h
    <3> QED BY <3>1, <2>2, <1>3 DEF OwnCarries
  <2> QED BY <2>1, <2>2
<1>8. ASSUME NEW q \in Pass \ cut, q = p
      PROVE  Has(wire', Calls(q, "read")) /\ \A x : LastOf(wire', Calls(q, "read"), x) => x = e
  BY <1>2, <1>5, <1>8, Reissued
<1>9. ASSUME NEW q \in Pass \ cut, q # p, NEW b \in {"read", "tell"}
      PROVE  /\ Has(wire', Calls(q, b)) <=> Has(wire, Calls(q, b))
             /\ \A x : LastOf(wire', Calls(q, b), x) <=> LastOf(wire, Calls(q, b), x)
  BY <1>2, <1>5, <1>9, Reissued DEF h
<1>10. ReadCarries'
  BY <1>3, <1>4, <1>5, <1>8, <1>9 DEF ReadCarries
<1>11. TellCarries'
  BY <1>3, <1>4, <1>8, <1>9 DEF Announced, TellCarries
<1>12. AddsAlternate'
  <2> SUFFICES ASSUME NEW q \in Pass \ cut
               PROVE  Alternates(wire', q, held')
    BY <1>4 DEF AddsAlternate
  <2>1. Alternates(wire, q, held)
    BY DEF AddsAlternate
  <2>2. h.op \in {"add", "remove"}
    BY <1>2 DEF Call
  <2>3. Alternates(Tail(wire), q, held')
    BY <2>1, <2>2, <1>2, <1>3, AlternatesTail DEF h
  <2>4. e \notin Calls(q, "own") /\ Tail(wire) \in Seq(Call)
    BY <1>2, <1>5, TailIndices
  <2> QED BY <2>3, <2>4, <1>5, AlternatesAppend
<1>13. ShownCarries'
  <2> SUFFICES ASSUME NEW c \in Player, ~ Has(wire', CallsFor(c, "read"))
               PROVE  /\ \A x \in Call : LastOf(wire', CallsFor(c, "tell"), x) => x.seen = PassesOf(c, held')
                      /\ ~ Has(wire', CallsFor(c, "tell")) => shown[c] = PassesOf(c, held')
    BY <1>4 DEF ShownCarries, PassesOf
  <2>1. c # p[2]
    BY <1>2, <1>5, Reissued
  <2>2. PassesOf(c, held') = PassesOf(c, held)
    <3>1. \A s \in Server : <<s, c>> # p
      BY <2>1
    <3> QED BY <3>1, <1>3 DEF PassesOf
  <2>3. ASSUME NEW b \in {"read", "tell"}
        PROVE  /\ Has(wire', CallsFor(c, b)) <=> Has(wire, CallsFor(c, b))
               /\ \A x : LastOf(wire', CallsFor(c, b), x) <=> LastOf(wire, CallsFor(c, b), x)
    BY <2>1, <1>2, <1>5, Reissued DEF h
  <2> QED BY <2>2, <2>3 DEF ShownCarries
<1>14. MismatchOnlyAfterRestart'
  BY <1>4 DEF MismatchOnlyAfterRestart
<1> QED BY <1>6, <1>7, <1>10, <1>11, <1>12, <1>13, <1>14

\* an addition that finds its pass in the player's set: a restart has cut it
LEMMA MismatchKeeps ==
  ASSUME IInv, Mismatch
  PROVE  IInv'
<1> USE DEF IInv
<1> DEFINE h == Head(wire)
           p == h.pass
<1>1. Resumes("own") /\ End /\ h.op = "add" /\ p \in held
  BY DEF Mismatch
<1>2. /\ wire \in Seq(Call) /\ wire # <<>> /\ h \in Call /\ p \in Pass
      /\ \A q, b : h \in Calls(q, b) <=> q = p /\ b = "own"
      /\ \A c, b : h \in CallsFor(c, b) <=> c = p[2] /\ b = "own"
  BY <1>1, HeadKind
<1>3. p \in cut
  <2> SUFFICES ASSUME p \notin cut PROVE FALSE
    OBVIOUS
  <2>1. Alternates(wire, p, held)
    BY <1>2 DEF AddsAlternate
  <2>2. 1 \in DOMAIN wire /\ wire[1] = h /\ \A k \in DOMAIN wire : ~ (k < 1)
    BY <1>2, TailIndices
  <2> QED BY <2>1, <2>2, <1>1, <1>2 DEF Alternates
<1>4. UNCHANGED <<passes, held, known, shown, cut, restarts>>
      /\ mismatches' = mismatches \cup {p}
  BY DEF Mismatch, events, sets
<1> HIDE DEF h, p
<1>5. TypeOK'
  BY <1>1, <1>2, <1>4, Ended DEF TypeOK
<1>6. ASSUME NEW q \in Pass \ cut, NEW b \in {"own", "read", "tell"}
      PROVE  /\ Has(wire', Calls(q, b)) <=> Has(wire, Calls(q, b))
             /\ \A x : LastOf(wire', Calls(q, b), x) <=> LastOf(wire, Calls(q, b), x)
  BY <1>1, <1>2, <1>3, Ended DEF h
<1>7. OwnCarries' /\ ReadCarries' /\ TellCarries'
  BY <1>4, <1>6 DEF OwnCarries, ReadCarries, TellCarries
<1>8. AddsAlternate'
  <2> SUFFICES ASSUME NEW q \in Pass \ cut
               PROVE  Alternates(wire', q, held)
    BY <1>4 DEF AddsAlternate
  <2> QED BY <1>1, <1>2, <1>3, AlternatesTail DEF AddsAlternate, End, h
<1>9. ShownCarries'
  <2>1. ASSUME NEW c \in Player, NEW b \in {"read", "tell"}
        PROVE  /\ Has(wire', CallsFor(c, b)) <=> Has(wire, CallsFor(c, b))
               /\ \A x : LastOf(wire', CallsFor(c, b), x) <=> LastOf(wire, CallsFor(c, b), x)
    BY <1>1, <1>2, Ended DEF h
  <2> QED BY <2>1, <1>4 DEF ShownCarries, PassesOf
<1>10. MismatchOnlyAfterRestart'
  BY <1>3, <1>4 DEF MismatchOnlyAfterRestart
<1> QED BY <1>5, <1>7, <1>8, <1>9, <1>10
\* SMEMBERS: what was read is what is to be told
LEMMA ReadKeeps ==
  ASSUME IInv, Read
  PROVE  IInv'
<1> USE DEF IInv
<1> DEFINE h == Head(wire)
           p == h.pass
           S == PassesOf(p[2], held)
<1>1. Resumes("read") /\ Reissue("tell", S) /\ UNCHANGED <<sets, events, ghosts>>
  BY DEF Read
<1>2. /\ wire \in Seq(Call) /\ wire # <<>> /\ h \in Call /\ p \in Pass
      /\ \A q, b : h \in Calls(q, b) <=> q = p /\ b = "read"
      /\ \A c, b : h \in CallsFor(c, b) <=> c = p[2] /\ b = "read"
  BY <1>1, HeadKind
<1>3. S \in SUBSET Server
  BY DEF PassesOf
<1>4. PICK e \in Call :
        /\ wire' = Append(Tail(wire), e) /\ e.op = h.op /\ e.seen = S
        /\ \A q, b : e \in Calls(q, b) <=> q = p /\ b = "tell"
        /\ \A c, b : e \in CallsFor(c, b) <=> c = p[2] /\ b = "tell"
  <2> HIDE DEF S
  <2> QED BY <1>1, <1>2, <1>3, NextKind
<1>5. UNCHANGED <<passes, held, known, shown, mismatches, cut, restarts>>
  BY <1>1 DEF sets, events, ghosts
<1> HIDE DEF h, p, S
<1>6. TypeOK'
  BY <1>2, <1>4, <1>5, Reissued DEF TypeOK
<1>7. ASSUME NEW q \in Pass
      PROVE  /\ Has(wire', Calls(q, "own")) <=> Has(wire, Calls(q, "own"))
             /\ \A x : LastOf(wire', Calls(q, "own"), x) <=> LastOf(wire, Calls(q, "own"), x)
  BY <1>2, <1>4, Reissued DEF h
<1>8. OwnCarries'
  BY <1>5, <1>7 DEF OwnCarries
<1>9. ASSUME NEW q, NEW x, LastOf(wire', Calls(q, "read"), x)
      PROVE  LastOf(wire, Calls(q, "read"), x)
  BY <1>2, <1>4, <1>9, Reissued DEF h
<1>10. ReadCarries'
  BY <1>5, <1>9 DEF ReadCarries
<1>11. TellCarries'
  <2> SUFFICES ASSUME NEW q \in Pass \ cut, ~ Has(wire', Calls(q, "read"))
               PROVE  /\ \A x \in Call : LastOf(wire', Calls(q, "tell"), x) => (q \in held <=> x.op = "add")
                      /\ ~ Has(wire', Calls(q, "tell")) => (q \in held <=> q \in known)
    BY <1>5 DEF Announced, TellCarries
  <2>1. CASE q = p
    <3>1. Has(wire', Calls(q, "tell")) /\ \A x : LastOf(wire', Calls(q, "tell"), x) => x = e
      BY <2>1, <1>2, <1>4, Reissued
    <3>2. h \in Calls(q, "read") /\ e \notin Calls(q, "read")
      BY <2>1, <1>2, <1>4
    <3>3. LastOf(wire, Calls(q, "read"), h)
      BY <3>2, <1>2, <1>4, Reissued DEF h
    <3>4. q \in held <=> e.op = "add"
      BY <3>3, <1>2, <1>4 DEF ReadCarries
    <3> QED BY <3>1, <3>4
  <2>2. CASE q # p
    <3>1. ASSUME NEW b \in {"read", "tell"}
          PROVE  /\ Has(wire', Calls(q, b)) <=> Has(wire, Calls(q, b))
                 /\ \A x : LastOf(wire', Calls(q, b), x) <=> LastOf(wire, Calls(q, b), x)
      BY <2>2, <1>2, <1>4, Reissued DEF h
    <3> QED BY <3>1 DEF Announced, TellCarries
  <2> QED BY <2>1, <2>2
<1>12. AddsAlternate'
  <2> SUFFICES ASSUME NEW q \in Pass \ cut
               PROVE  Alternates(wire', q, held)
    BY <1>5 DEF AddsAlternate
  <2>1. Alternates(Tail(wire), q, held)
    BY <1>2, AlternatesTail DEF AddsAlternate, h
  <2>2. e \notin Calls(q, "own") /\ Tail(wire) \in Seq(Call)
    BY <1>2, <1>4, TailIndices
  <2> QED BY <2>1, <2>2, <1>4, AlternatesAppend
<1>13. ShownCarries'
  <2> SUFFICES ASSUME NEW c \in Player, ~ Has(wire', CallsFor(c, "read"))
               PROVE  /\ \A x \in Call : LastOf(wire', CallsFor(c, "tell"), x) => x.seen = PassesOf(c, held)
                      /\ ~ Has(wire', CallsFor(c, "tell")) => shown[c] = PassesOf(c, held)
    BY <1>5 DEF ShownCarries, PassesOf
  <2>1. CASE c = p[2]
    <3>1. Has(wire', CallsFor(c, "tell")) /\ \A x : LastOf(wire', CallsFor(c, "tell"), x) => x = e
      BY <2>1, <1>2, <1>4, Reissued
    <3> QED BY <3>1, <2>1, <1>4 DEF S
  <2>2. CASE c # p[2]
    <3>1. ASSUME NEW b \in {"read", "tell"}
          PROVE  /\ Has(wire', CallsFor(c, b)) <=> Has(wire, CallsFor(c, b))
                 /\ \A x : LastOf(wire', CallsFor(c, b), x) <=> LastOf(wire, CallsFor(c, b), x)
      BY <2>2, <1>2, <1>4, Reissued DEF h
    <3> QED BY <3>1 DEF ShownCarries
  <2> QED BY <2>1, <2>2
<1>14. MismatchOnlyAfterRestart'
  BY <1>5 DEF MismatchOnlyAfterRestart
<1> QED BY <1>6, <1>8, <1>10, <1>11, <1>12, <1>13, <1>14

\* what was announced is what was carried by the last call to announce it
LEMMA TellKeeps ==
  ASSUME IInv, Tell
  PROVE  IInv'
<1> USE DEF IInv
<1> DEFINE h == Head(wire)
           p == h.pass
<1>1. Resumes("tell") /\ End
  BY DEF Announced, Tell
<1>2. /\ wire \in Seq(Call) /\ wire # <<>> /\ h \in Call /\ p \in Pass
      /\ \A q, b : h \in Calls(q, b) <=> q = p /\ b = "tell"
      /\ \A c, b : h \in CallsFor(c, b) <=> c = p[2] /\ b = "tell"
  BY <1>1, HeadKind
<1>3. UNCHANGED <<passes, held, mismatches, cut, restarts>>
  BY DEF Announced, Tell, sets, ghosts
<1>4. /\ known' \subseteq Pass
      /\ p \in known' <=> h.op = "add"
      /\ \A q : q # p => (q \in known' <=> q \in known)
  BY <1>2 DEF Announced, Tell, TypeOK
<1>5. /\ p[2] \in Player /\ h.seen \subseteq Server
      /\ shown' = [shown EXCEPT ![p[2]] = h.seen]
  BY <1>2 DEF Announced, Tell, Call, Pass
<1> HIDE DEF h, p
<1>6. TypeOK'
  BY <1>1, <1>2, <1>3, <1>4, <1>5, Ended DEF TypeOK
<1>7. ASSUME NEW q, NEW b \in {"own", "read"}
      PROVE  /\ Has(wire', Calls(q, b)) <=> Has(wire, Calls(q, b))
             /\ \A x : LastOf(wire', Calls(q, b), x) <=> LastOf(wire, Calls(q, b), x)
  BY <1>1, <1>2, Ended DEF h
<1>8. OwnCarries' /\ ReadCarries'
  BY <1>3, <1>7 DEF OwnCarries, ReadCarries
<1>9. TellCarries'
  <2> SUFFICES ASSUME NEW q \in Pass \ cut, ~ Has(wire', Calls(q, "read"))
               PROVE  /\ \A x \in Call : LastOf(wire', Calls(q, "tell"), x) => (q \in held <=> x.op = "add")
                      /\ ~ Has(wire', Calls(q, "tell")) => (q \in held <=> q \in known')
    BY <1>3 DEF Announced, TellCarries
  <2>0. ~ Has(wire, Calls(q, "read"))
    BY <1>7
  <2>1. CASE q = p
    <3>1. /\ \A x : LastOf(wire', Calls(q, "tell"), x) => LastOf(wire, Calls(q, "tell"), x)
          /\ ~ Has(wire', Calls(q, "tell")) => LastOf(wire, Calls(q, "tell"), h)
      BY <2>1, <1>1, <1>2, Ended DEF h
    <3> QED BY <2>0, <2>1, <3>1, <1>2, <1>4 DEF Announced, TellCarries
  <2>2. CASE q # p
    <3>1. /\ Has(wire', Calls(q, "tell")) <=> Has(wire, Calls(q, "tell"))
          /\ \A x : LastOf(wire', Calls(q, "tell"), x) <=> LastOf(wire, Calls(q, "tell"), x)
      BY <2>2, <1>1, <1>2, Ended DEF h
    <3> QED BY <2>0, <2>2, <3>1, <1>4 DEF Announced, TellCarries
  <2> QED BY <2>1, <2>2
<1>10. AddsAlternate'
  <2> SUFFICES ASSUME NEW q \in Pass \ cut
               PROVE  Alternates(wire', q, held)
    BY <1>3 DEF AddsAlternate
  <2> QED BY <1>1, <1>2, AlternatesTail DEF AddsAlternate, End, h
<1>11. ShownCarries'
  <2> SUFFICES ASSUME NEW c \in Player, ~ Has(wire', CallsFor(c, "read"))
               PROVE  /\ \A x \in Call : LastOf(wire', CallsFor(c, "tell"), x) => x.seen = PassesOf(c, held)
                      /\ ~ Has(wire', CallsFor(c, "tell")) => shown'[c] = PassesOf(c, held)
    BY <1>3 DEF ShownCarries, PassesOf
  <2>0. ~ Has(wire, CallsFor(c, "read"))
    BY <1>1, <1>2, Ended DEF h
  <2>1. CASE c = p[2]
    <3>1. /\ \A x : LastOf(wire', CallsFor(c, "tell"), x) => LastOf(wire, CallsFor(c, "tell"), x)
          /\ ~ Has(wire', CallsFor(c, "tell")) => LastOf(wire, CallsFor(c, "tell"), h)
      BY <2>1, <1>1, <1>2, Ended DEF h
    <3>2. shown'[c] = h.seen
      BY <2>1, <1>5 DEF TypeOK
    <3> QED BY <2>0, <3>1, <3>2, <1>2 DEF ShownCarries
  <2>2. CASE c # p[2]
    <3>1. /\ Has(wire', CallsFor(c, "tell")) <=> Has(wire, CallsFor(c, "tell"))
          /\ \A x : LastOf(wire', CallsFor(c, "tell"), x) <=> LastOf(wire, CallsFor(c, "tell"), x)
      BY <2>2, <1>1, <1>2, Ended DEF h
    <3>2. shown'[c] = shown[c]
      BY <2>2, <1>5 DEF TypeOK
    <3> QED BY <2>0, <3>1, <3>2 DEF ShownCarries
  <2> QED BY <2>1, <2>2
<1>12. MismatchOnlyAfterRestart'
  BY <1>3 DEF MismatchOnlyAfterRestart
<1> QED BY <1>6, <1>8, <1>9, <1>10, <1>11, <1>12

\* a restart ends all calls; what they leave apart is cut
LEMMA RestartKeeps ==
  ASSUME IInv, Restart
  PROVE  IInv'
<1> USE DEF IInv
<1>1. wire' = <<>> /\ UNCHANGED <<passes, held, mismatches>>
  BY DEF Restart, sets
<1>2. \A K : ~ Has(wire', K) /\ \A x : ~ LastOf(wire', K, x)
  BY <1>1 DEF Has, LastOf
<1>3. TypeOK'
  BY <1>1, EmptySeq, PassBoundAssumption DEF Restart, TypeOK, PassesOf, Pass
<1>4. AddsAlternate'
  BY <1>1 DEF AddsAlternate, Alternates
<1>5. \A p \in Pass \ cut' : (p \in passes' <=> p \in held') /\ (p \in held' <=> p \in known')
  BY <1>1 DEF Restart
<1>6. OwnCarries' /\ ReadCarries' /\ TellCarries'
  BY <1>2, <1>5 DEF OwnCarries, ReadCarries, TellCarries
<1>7. ShownCarries'
  BY <1>1, <1>2 DEF ShownCarries, Restart, PassesOf
<1>8. MismatchOnlyAfterRestart'
  BY <1>1 DEF MismatchOnlyAfterRestart, Restart
<1> QED BY <1>3, <1>4, <1>6, <1>7, <1>8

\* nothing happens
LEMMA StutterKeeps ==
  ASSUME IInv, UNCHANGED vars
  PROVE  IInv'
BY DEF vars, sets, events, ghosts, IInv, TypeOK, OwnCarries, ReadCarries, TellCarries,
       AddsAlternate, Alternates, ShownCarries, PassesOf, MismatchOnlyAfterRestart, Has, LastOf

\* every step, or none, keeps the inductive invariant
LEMMA NextKeepsIInv == IInv /\ [Next]_vars => IInv'
BY NewCallKeeps, OwnKeeps, MismatchKeeps, ReadKeeps, TellKeeps, RestartKeeps, StutterKeeps
   DEF Next, Reply

\* the inductive invariant holds in every reachable state
LEMMA IInvHolds == Spec => []IInv
BY InitIInv, NextKeepsIInv, PTL DEF Spec
-----------------------------------------------------------------------------
\* a call of a kind that the wire has is one that is pending
LEMMA PendingIsHas ==
  ASSUME TypeOK, NEW p, NEW at
  PROVE  Has(wire, Calls(p, at)) <=> Pending(p, at)
<1>1. \A i \in DOMAIN wire : wire[i] \in Call
  BY ElementOfSeq, LenProperties DEF TypeOK
<1> QED BY <1>1 DEF Has, Calls, Pending, Is

(***************************************************************************)
(* The copies of the passes, the calls and what was announced keep their   *)
(* types.                                                                  *)
(***************************************************************************)
THEOREM TypeCorrect == Spec => []TypeOK
BY IInvHolds, PTL DEF IInv

(***************************************************************************)
(* However calls for the same pass overlap, the server's set and the       *)
(* player's set agree when they are through.                               *)
(***************************************************************************)
THEOREM BothSetsAgree == Spec => []SetsAgree
<1>1. IInv => SetsAgree
  BY PendingIsHas DEF IInv, OwnCarries, SetsAgree
<1> QED BY <1>1, IInvHolds, PTL

(***************************************************************************)
(* The mismatch that addPassForCkey logs has a restart behind it.          *)
(***************************************************************************)
THEOREM MismatchNeedsRestart == Spec => []MismatchOnlyAfterRestart
BY IInvHolds, PTL DEF IInv

(***************************************************************************)
(* PassAdded and PassRemoved leave every listener with what Redis holds.   *)
(***************************************************************************)
THEOREM ListenersAreCurrent == Spec => []ListenersAgree
<1>1. ASSUME IInv, NEW p \in Pass \ cut, ~ Busy(p)
      PROVE  p \in known <=> p \in passes
  <2>1. \A at \in {"own", "read", "tell"} : ~ Has(wire, Calls(p, at))
    BY <1>1, PendingIsHas DEF Busy, IInv
  <2> QED BY <2>1, <1>1 DEF IInv, OwnCarries, TellCarries
<1>2. IInv => ListenersAgree
  BY <1>1 DEF ListenersAgree
<1> QED BY <1>2, IInvHolds, PTL

(***************************************************************************)
(* PassUpdate leaves every client with the passes its player holds.        *)
(***************************************************************************)
THEOREM ShownIsCurrent == Spec => []ShownCurrent
<1>1. ASSUME IInv, NEW c \in Player, \A s \in Server : ~ Busy(<<s, c>>)
      PROVE  shown[c] = PassesOf(c, held)
  <2>1. ASSUME NEW at \in {"read", "tell"}, NEW i \in DOMAIN wire, wire[i] \in CallsFor(c, at)
        PROVE  FALSE
    <3>1. wire[i].pass \in Pass /\ wire[i].pass[2] = c /\ wire[i].at = at
      BY <2>1 DEF CallsFor, Call
    <3>2. PICK s \in Server : wire[i].pass = <<s, c>>
      BY <3>1 DEF Pass
    <3>3. Busy(<<s, c>>)
      BY <3>1, <3>2 DEF Busy, Pending, Is
    <3> QED BY <3>3, <1>1
  <2>2. ~ Has(wire, CallsFor(c, "read")) /\ ~ Has(wire, CallsFor(c, "tell"))
    BY <2>1 DEF Has
  <2> QED BY <2>2, <1>1 DEF IInv, ShownCarries
<1>2. IInv => ShownCurrent
  BY <1>1 DEF ShownCurrent
<1> QED BY <1>2, IInvHolds, PTL
-----------------------------------------------------------------------------
(***************************************************************************)
(* Passes implements PassContract.  g lists the calls of w in the order in *)
(* which they will be announced.                                           *)
(***************************************************************************)
Lists(g, w) ==
  /\ g \in [DOMAIN w -> DOMAIN w]
  /\ \A m, n \in DOMAIN w : m < n => Before(w, g[m], g[n])

Change(x) == <<x.op, x.pass>>

LEMMA Ranks ==
  ASSUME NEW w \in Seq(Call)
  PROVE  /\ Len(w) \in Nat /\ DOMAIN w = 1 .. Len(w)
         /\ \A i \in DOMAIN w : w[i] \in Call /\ Rank[w[i].at] \in 1 .. 3
         /\ \A i, j \in DOMAIN w : w[i].at = w[j].at <=> Rank[w[i].at] = Rank[w[j].at]
<1>1. Len(w) \in Nat /\ DOMAIN w = 1 .. Len(w) /\ \A i \in DOMAIN w : w[i] \in Call
  BY LenProperties, ElementOfSeq
<1>2. \A i \in DOMAIN w : w[i].at \in {"own", "read", "tell"}
  BY <1>1 DEF Call
<1>3. Rank["own"] = 1 /\ Rank["read"] = 2 /\ Rank["tell"] = 3
  BY DEF Rank
<1> QED BY <1>1, <1>2, <1>3

\* no call is announced before itself, and of two only one before the other
LEMMA BeforeStrict ==
  ASSUME NEW w \in Seq(Call), NEW i \in DOMAIN w, NEW j \in DOMAIN w, Before(w, i, j)
  PROVE  ~ Before(w, j, i) /\ i # j
BY Ranks, SMTT(30) DEF Before

LEMMA ListsAll ==
  ASSUME NEW w \in Seq(Call), NEW g, Lists(g, w)
  PROVE  /\ \A m, n \in DOMAIN w : g[m] = g[n] => m = n
         /\ \A i \in DOMAIN w : \E n \in DOMAIN w : g[n] = i
<1>1. Len(w) \in Nat /\ DOMAIN w = 1 .. Len(w)
  BY Ranks
<1>2. ASSUME NEW m \in DOMAIN w, NEW n \in DOMAIN w, g[m] = g[n]
      PROVE  m = n
  <2>1. g[m] \in DOMAIN w /\ g[n] \in DOMAIN w
    BY DEF Lists
  <2>2. ~ (m < n) /\ ~ (n < m)
    BY <1>2, <2>1, BeforeStrict DEF Lists
  <2> QED BY <1>1, <2>2
<1>3. g \in Injection(DOMAIN w, DOMAIN w)
  BY <1>2 DEF Lists, Injection, IsInjective
<1>4. IsFiniteSet(DOMAIN w)
  BY <1>1, FS_Interval
<1>5. g \in Surjection(DOMAIN w, DOMAIN w)
  BY <1>3, <1>4, FS_Injection
<1> QED BY <1>2, <1>5 DEF Surjection

LEMMA NewsListed ==
  ASSUME NEW w \in Seq(Call), NEW g, Lists(g, w)
  PROVE  NewsOf(w) = [n \in DOMAIN w |-> Change(w[g[n]])]
<1> DEFINE D == DOMAIN w
<1>1. Len(w) \in Nat /\ D = 1 .. Len(w) /\ g \in [D -> D]
  BY Ranks DEF Lists
<1>2. ASSUME NEW n \in D
      PROVE  Cardinality(Earlier(w, g[n])) = n - 1
  <2> DEFINE f == [m \in 1 .. n - 1 |-> g[m]]
  <2>1. n \in Nat /\ n - 1 \in Nat /\ 1 .. n - 1 \subseteq D
    BY <1>1
  <2>2. \A m \in 1 .. n - 1 : f[m] \in Earlier(w, g[n])
    BY <1>1, <2>1 DEF Lists, Earlier
  <2>3. ASSUME NEW i \in Earlier(w, g[n])
        PROVE  \E m \in 1 .. n - 1 : f[m] = i
    <3>1. i \in D /\ Before(w, i, g[n])
      BY <2>3 DEF Earlier
    <3>2. PICK m \in D : g[m] = i
      BY <3>1, ListsAll
    <3>3. ~ (n < m) /\ n # m
      BY <1>1, <3>1, <3>2, BeforeStrict DEF Lists
    <3>4. m \in 1 .. n - 1
      BY <1>1, <2>1, <3>3
    <3> QED BY <3>2, <3>4
  <2>4. \A k, m \in 1 .. n - 1 : f[k] = f[m] => k = m
    BY <2>1, ListsAll
  <2>5. f \in Bijection(1 .. n - 1, Earlier(w, g[n]))
    <3>1. f \in [1 .. n - 1 -> Earlier(w, g[n])]
      BY <2>2
    <3> HIDE DEF f
    <3> QED BY <2>3, <2>4, <3>1 DEF Bijection, Injection, IsInjective, Surjection
  <2>6. IsFiniteSet(1 .. n - 1) /\ Cardinality(1 .. n - 1) = n - 1
    BY <2>1, FS_Interval
  <2> HIDE DEF f
  <2>7. ExistsBijection(1 .. n - 1, Earlier(w, g[n]))
    BY <2>5 DEF ExistsBijection
  <2> QED BY <2>6, <2>7, FS_Bijection
<1>3. ASSUME NEW n \in D
      PROVE  (CHOOSE k \in D : Cardinality(Earlier(w, k)) = n - 1) = g[n]
  <2>1. g[n] \in D /\ Cardinality(Earlier(w, g[n])) = n - 1
    BY <1>1, <1>2
  <2>2. ASSUME NEW k \in D, Cardinality(Earlier(w, k)) = n - 1
        PROVE  k = g[n]
    <3>1. PICK m \in D : g[m] = k
      BY ListsAll
    <3>2. m - 1 = n - 1
      BY <1>2, <2>2, <3>1
    <3> QED BY <1>1, <3>1, <3>2
  <2> QED BY <2>1, <2>2
<1>4. NewsOf(w) = [n \in D |-> LET i == CHOOSE k \in D : Cardinality(Earlier(w, k)) = n - 1
                              IN  Change(w[i])]
  BY DEF NewsOf, Change
<1> HIDE DEF D
<1> QED BY <1>3, <1>4 DEF D

\* a call that begins comes last
LEMMA NewsAppended ==
  ASSUME NEW w \in Seq(Call), NEW g, Lists(g, w), NEW e \in Call, e.at = "own"
  PROVE  /\ \E h : Lists(h, Append(w, e))
         /\ NewsOf(Append(w, e)) = Append(NewsOf(w), Change(e))
<1> DEFINE v == Append(w, e)
           n == Len(w)
           h == [m \in 1 .. n + 1 |-> IF m = n + 1 THEN n + 1 ELSE g[m]]
<1>1. /\ n \in Nat /\ DOMAIN w = 1 .. n /\ v \in Seq(Call) /\ DOMAIN v = 1 .. n + 1
      /\ v[n + 1] = e /\ \A i \in 1 .. n : v[i] = w[i]
  BY AppendProperties, LenProperties
<1>2. g \in [1 .. n -> 1 .. n] /\ \A k, m \in 1 .. n : k < m => Before(w, g[k], g[m])
  BY <1>1 DEF Lists
<1> HIDE DEF v, n
<1>3. /\ h[n + 1] = n + 1 /\ \A m \in 1 .. n : h[m] = g[m]
      /\ h \in [1 .. n + 1 -> 1 .. n + 1]
  <2>1. \A m \in 1 .. n + 1 : h[m] \in 1 .. n + 1
    BY <1>1, <1>2
  <2> QED BY <1>1, <2>1
<1> HIDE DEF h
<1>4. \A i \in 1 .. n : Before(v, i, n + 1)
  BY <1>1, Ranks DEF Before, Rank
<1>5. \A i, j \in 1 .. n : Before(w, i, j) => Before(v, i, j)
  BY <1>1 DEF Before
<1>6. Lists(h, v)
  <2>1. ASSUME NEW k \in 1 .. n + 1, NEW m \in 1 .. n + 1, k < m
        PROVE  Before(v, h[k], h[m])
    <3>1. k \in 1 .. n
      BY <1>1, <2>1
    <3>2. CASE m = n + 1
      BY <1>2, <1>3, <1>4, <3>1, <3>2
    <3>3. CASE m \in 1 .. n
      BY <1>2, <1>3, <1>5, <2>1, <3>1, <3>3
    <3> QED BY <1>1, <3>2, <3>3
  <2> QED BY <1>1, <1>3, <2>1 DEF Lists
<1>7. NewsOf(v) = [m \in 1 .. n + 1 |-> Change(v[h[m]])] /\ NewsOf(w) = [m \in 1 .. n |-> Change(w[g[m]])]
  BY <1>1, <1>6, NewsListed
<1>8. \A m \in 1 .. n : Change(v[h[m]]) = Change(w[g[m]])
  BY <1>1, <1>2, <1>3
<1>9. NewsOf(v) = Append(NewsOf(w), Change(e))
  <2> DEFINE a == [m \in 1 .. n |-> Change(w[g[m]])]
  <2>1. a \in Seq({Change(w[g[m]]) : m \in 1 .. n} \cup {Change(e)}) /\ Len(a) = n
    BY <1>1, LenProperties, IsASeq
  <2>2. /\ DOMAIN Append(a, Change(e)) = 1 .. n + 1 /\ Append(a, Change(e))[n + 1] = Change(e)
        /\ \A m \in 1 .. n : Append(a, Change(e))[m] = a[m]
        /\ Append(a, Change(e)) \in Seq({Change(w[g[m]]) : m \in 1 .. n} \cup {Change(e)})
    BY <1>1, <2>1, AppendProperties, LenProperties
  <2>3. \A m \in 1 .. n + 1 : Append(a, Change(e))[m] = Change(v[h[m]])
    BY <1>1, <1>3, <1>8, <2>2
  <2> DEFINE b == Append(a, Change(e))
  <2>4. NewsOf(w) = a
    BY <1>7
  <2> HIDE DEF a
  <2>5. DOMAIN b = 1 .. n + 1 /\ b \in Seq({Change(w[g[m]]) : m \in 1 .. n} \cup {Change(e)})
        /\ \A m \in 1 .. n + 1 : b[m] = Change(v[h[m]])
    BY <2>2, <2>3
  <2> HIDE DEF b
  <2>6. b = [m \in 1 .. n + 1 |-> b[m]]
    BY <2>5, LenProperties
  <2>7. NewsOf(v) = b
    BY <1>7, <2>5, <2>6
  <2> QED BY <2>4, <2>7 DEF b
<1> QED BY <1>6, <1>9 DEF v

\* a call that issues its next command keeps its place
LEMMA NewsReissued ==
  ASSUME NEW w \in Seq(Call), w # <<>>, NEW g, Lists(g, w), NEW e \in Call,
         Change(e) = Change(Head(w)), Rank[e.at] = Rank[Head(w).at] + 1
  PROVE  /\ \E h : Lists(h, Append(Tail(w), e))
         /\ NewsOf(Append(Tail(w), e)) = NewsOf(w)
<1> DEFINE v == Append(Tail(w), e)
           n == Len(w)
           To(i) == IF i = 1 THEN n ELSE i - 1
           h == [m \in 1 .. n |-> To(g[m])]
<1>1. /\ n \in Nat /\ n > 0 /\ DOMAIN w = 1 .. n /\ Head(w) = w[1]
      /\ v \in Seq(Call) /\ DOMAIN v = 1 .. n /\ v[n] = e /\ \A i \in 1 .. n - 1 : v[i] = w[i + 1]
  <2>1. /\ n \in Nat /\ n > 0 /\ DOMAIN w = 1 .. n /\ Head(w) = w[1] /\ Tail(w) \in Seq(Call)
        /\ DOMAIN Tail(w) = 1 .. n - 1 /\ \A i \in 1 .. n - 1 : Tail(w)[i] = w[i + 1]
    BY TailIndices
  <2>2. Len(Tail(w)) = n - 1
    BY <2>1, LenProperties
  <2>3. /\ v \in Seq(Call) /\ DOMAIN v = 1 .. (n - 1) + 1 /\ v[(n - 1) + 1] = e
        /\ \A i \in 1 .. n - 1 : v[i] = Tail(w)[i]
    BY <2>1, <2>2, AppendProperties, LenProperties
  <2> QED BY <2>1, <2>3
<1>2. g \in [1 .. n -> 1 .. n] /\ \A k, m \in 1 .. n : k < m => Before(w, g[k], g[m])
  BY <1>1 DEF Lists
<1> HIDE DEF v, n
<1>3. /\ \A i \in 1 .. n : To(i) \in 1 .. n
      /\ To(1) = n /\ \A i \in 1 .. n : i # 1 => To(i) = i - 1 /\ i - 1 \in 1 .. n - 1
  BY <1>1
<1>4. v[n] = e /\ \A i \in 1 .. n : i # 1 => v[To(i)] = w[i]
  BY <1>1, <1>3
<1> HIDE DEF To
<1>5. h \in [1 .. n -> 1 .. n] /\ \A m \in 1 .. n : h[m] = To(g[m])
  BY <1>2, <1>3
<1> HIDE DEF h
<1>6. ASSUME NEW i \in 1 .. n, NEW j \in 1 .. n, Before(w, i, j)
      PROVE  Before(v, To(i), To(j))
  <2>1. /\ \A k \in 1 .. n : Rank[w[k].at] \in 1 .. 3
        /\ \A k, l \in 1 .. n : w[k].at = w[l].at <=> Rank[w[k].at] = Rank[w[l].at]
        /\ \A k \in 1 .. n : Rank[v[k].at] \in 1 .. 3
        /\ \A k, l \in 1 .. n : v[k].at = v[l].at <=> Rank[v[k].at] = Rank[v[l].at]
    <3>1. /\ \A k \in DOMAIN w : Rank[w[k].at] \in 1 .. 3
          /\ \A k, l \in DOMAIN w : w[k].at = w[l].at <=> Rank[w[k].at] = Rank[w[l].at]
      BY Ranks
    <3>2. /\ \A k \in DOMAIN v : Rank[v[k].at] \in 1 .. 3
          /\ \A k, l \in DOMAIN v : v[k].at = v[l].at <=> Rank[v[k].at] = Rank[v[l].at]
      BY <1>1, Ranks
    <3> QED BY <1>1, <3>1, <3>2
  <2>2. Rank[e.at] = Rank[w[1].at] + 1
    BY <1>1
  <2>3. i # j
    BY <1>1, <1>6, BeforeStrict
  <2>4. Rank[w[i].at] > Rank[w[j].at] \/ (Rank[w[i].at] = Rank[w[j].at] /\ i < j)
    BY <1>6 DEF Before
  <2>5. CASE i # 1 /\ j # 1
    <3>1. To(i) = i - 1 /\ To(j) = j - 1 /\ v[To(i)] = w[i] /\ v[To(j)] = w[j]
      BY <1>3, <1>4, <2>5
    <3> QED BY <1>6, <3>1 DEF Before
  <2>6. CASE j = 1
    <3>1. i # 1 /\ To(i) \in 1 .. n - 1 /\ v[To(i)] = w[i] /\ To(j) = n /\ v[To(j)] = e
      BY <1>3, <1>4, <2>3, <2>6
    <3>2. Rank[w[i].at] > Rank[w[1].at]
      BY <2>4, <2>6
    <3>3. To(i) < To(j) /\ To(i) \in 1 .. n /\ To(j) \in 1 .. n
      BY <1>1, <3>1
    <3>4. Rank[v[To(i)].at] \in 1 .. 3 /\ Rank[v[To(j)].at] \in 1 .. 3 /\ Rank[w[1].at] \in 1 .. 3
      BY <1>1, <2>1, <3>3
    <3>5. Rank[v[To(i)].at] > Rank[w[1].at] /\ Rank[v[To(j)].at] = Rank[w[1].at] + 1
      BY <2>2, <3>1, <3>2
    <3>6. Rank[v[To(i)].at] > Rank[v[To(j)].at] \/ Rank[v[To(i)].at] = Rank[v[To(j)].at]
      BY <3>4, <3>5
    <3> QED BY <2>1, <3>3, <3>6 DEF Before
  <2>7. CASE i = 1
    <3>1. j # 1 /\ v[To(j)] = w[j] /\ v[To(i)] = e
      BY <1>3, <1>4, <2>3, <2>7
    <3>2. Rank[w[1].at] >= Rank[w[j].at]
      BY <1>1, <2>1, <2>4, <2>7
    <3>3. Rank[w[1].at] \in 1 .. 3 /\ Rank[w[j].at] \in 1 .. 3
      BY <1>1, <2>1
    <3>4. Rank[v[To(i)].at] = Rank[w[1].at] + 1 /\ Rank[v[To(j)].at] = Rank[w[j].at]
      BY <2>2, <3>1
    <3>5. Rank[v[To(i)].at] > Rank[v[To(j)].at]
      BY <3>2, <3>3, <3>4
    <3> QED BY <3>5 DEF Before
  <2> QED BY <2>5, <2>6, <2>7
<1>7. Lists(h, v)
  <2>1. ASSUME NEW k \in 1 .. n, NEW m \in 1 .. n, k < m
        PROVE  Before(v, h[k], h[m])
    <3>1. g[k] \in 1 .. n /\ g[m] \in 1 .. n /\ Before(w, g[k], g[m])
      BY <1>2, <2>1
    <3> QED BY <1>5, <1>6, <3>1
  <2> QED BY <1>1, <1>5, <2>1 DEF Lists
<1>8. NewsOf(v) = [m \in 1 .. n |-> Change(v[h[m]])] /\ NewsOf(w) = [m \in 1 .. n |-> Change(w[g[m]])]
  BY <1>1, <1>7, NewsListed, ZenonT(60)
<1>9. ASSUME NEW m \in 1 .. n
      PROVE  Change(v[h[m]]) = Change(w[g[m]])
  BY <1>1, <1>2, <1>3, <1>4, <1>5
<1> QED BY <1>7, <1>8, <1>9 DEF v

\* the first of those that are announced next is the first of all
LEMMA NewsTold ==
  ASSUME NEW w \in Seq(Call), w # <<>>, NEW g, Lists(g, w), Head(w).at = "tell"
  PROVE  /\ \E h : Lists(h, Tail(w))
         /\ NewsOf(w) # <<>> /\ NewsOf(Tail(w)) = Tail(NewsOf(w))
<1> DEFINE v == Tail(w)
           n == Len(w)
           h == [m \in 1 .. n - 1 |-> g[m + 1] - 1]
<1>1. /\ n \in Nat /\ n > 0 /\ DOMAIN w = 1 .. n /\ Head(w) = w[1]
      /\ v \in Seq(Call) /\ DOMAIN v = 1 .. n - 1 /\ \A i \in 1 .. n - 1 : v[i] = w[i + 1]
  BY TailIndices
<1>2. g \in [1 .. n -> 1 .. n] /\ \A k, m \in 1 .. n : k < m => Before(w, g[k], g[m])
  BY <1>1 DEF Lists
<1>3. g[1] = 1
  <2>1. PICK k \in 1 .. n : g[k] = 1
    BY <1>1, ListsAll
  <2>2. SUFFICES ASSUME 1 < k  PROVE FALSE
    BY <1>1, <2>1
  <2>3. Before(w, g[1], 1) /\ g[1] \in 1 .. n
    BY <1>1, <1>2, <2>1, <2>2
  <2>4. Rank[w[1].at] = 3 /\ Rank[w[g[1]].at] \in 1 .. 3
    BY <1>1, <2>3, Ranks DEF Rank
  <2> QED BY <1>1, <2>3, <2>4 DEF Before
<1>4. \A m \in 2 .. n : g[m] \in 2 .. n
  <2>1. ASSUME NEW m \in 2 .. n  PROVE g[m] # 1
    <3>1. m \in 1 .. n /\ 1 \in 1 .. n /\ m # 1
      BY <1>1
    <3>2. \A k, l \in DOMAIN w : g[k] = g[l] => k = l
      BY ListsAll
    <3> HIDE DEF n
    <3> QED BY <1>1, <1>3, <3>1, <3>2
  <2> QED BY <1>1, <1>2, <2>1
<1> HIDE DEF v, n
<1>5. /\ \A m \in 1 .. n - 1 : h[m] = g[m + 1] - 1 /\ m + 1 \in 2 .. n /\ m + 1 \in 1 .. n
      /\ h \in [1 .. n - 1 -> 1 .. n - 1]
  <2>1. \A m \in 1 .. n - 1 : m + 1 \in 2 .. n /\ m + 1 \in 1 .. n
    BY <1>1
  <2>2. \A m \in 1 .. n - 1 : g[m + 1] - 1 \in 1 .. n - 1
    BY <1>1, <1>4, <2>1
  <2> QED BY <2>1, <2>2
<1> HIDE DEF h
<1>6. ASSUME NEW m \in 1 .. n - 1
      PROVE  h[m] \in 1 .. n - 1 /\ v[h[m]] = w[g[m + 1]]
  <2>1. h[m] \in 1 .. n - 1 /\ h[m] + 1 = g[m + 1]
    <3>1. h[m] \in 1 .. n - 1 /\ h[m] = g[m + 1] - 1 /\ m + 1 \in 1 .. n
      BY <1>5
    <3>2. g[m + 1] \in 1 .. n
      BY <1>2, <3>1
    <3> QED BY ONLY <3>1, <3>2
  <2> QED BY <1>1, <2>1
<1>7. Lists(h, v)
  <2>1. ASSUME NEW k \in 1 .. n - 1, NEW m \in 1 .. n - 1, k < m
        PROVE  Before(v, h[k], h[m])
    <3>1. k + 1 \in 1 .. n /\ m + 1 \in 1 .. n /\ k + 1 < m + 1
      BY <1>1, <1>5, <2>1
    <3>2. Before(w, g[k + 1], g[m + 1]) /\ g[k + 1] \in 1 .. n /\ g[m + 1] \in 1 .. n
      BY <1>2, <3>1
    <3>3. h[k] = g[k + 1] - 1 /\ h[m] = g[m + 1] - 1
      BY <1>5
    <3>4. g[k + 1] < g[m + 1] => h[k] < h[m]
      BY <1>1, <3>2, <3>3
    <3>5. v[h[k]] = w[g[k + 1]] /\ v[h[m]] = w[g[m + 1]]
      BY <1>6
    <3> QED BY <3>2, <3>4, <3>5 DEF Before
  <2> QED BY <1>1, <1>5, <2>1 DEF Lists
<1>8. NewsOf(v) = [m \in 1 .. n - 1 |-> Change(v[h[m]])] /\ NewsOf(w) = [m \in 1 .. n |-> Change(w[g[m]])]
  BY <1>1, <1>7, NewsListed, ZenonT(60)
<1>9. \A m \in 1 .. n - 1 : Change(v[h[m]]) = Change(w[g[m + 1]])
  BY <1>6
<1>10. NewsOf(w) # <<>> /\ NewsOf(v) = Tail(NewsOf(w))
  <2> DEFINE a == [m \in 1 .. n |-> Change(w[g[m]])]
             A == {Change(w[g[m]]) : m \in 1 .. n}
  <2>1. a \in Seq(A) /\ Len(a) = n
    <3>1. a \in [1 .. n -> A]
      OBVIOUS
    <3> HIDE DEF a, A
    <3> QED BY <1>1, <3>1, LenProperties, IsASeq
  <2> HIDE DEF A
  <2>2. a # <<>>
    BY <1>1, <2>1, EmptySeq
  <2>3. \A m \in 1 .. n - 1 : a[m + 1] = Change(w[g[m + 1]])
    BY <1>5
  <2> HIDE DEF a
  <2>4. /\ Tail(a) \in Seq(A) /\ Len(Tail(a)) = n - 1
        /\ \A m \in 1 .. n - 1 : Tail(a)[m] = a[m + 1]
    BY <2>1, <2>2, HeadTailProperties
  <2>5. Tail(a) = [m \in 1 .. n - 1 |-> Tail(a)[m]]
    BY <2>4, LenProperties
  <2>6. NewsOf(v) = Tail(a)
    BY <1>8, <1>9, <2>3, <2>4, <2>5
  <2>7. NewsOf(w) = a
    BY <1>8 DEF a
  <2> QED BY <2>2, <2>6, <2>7
<1> QED BY <1>7, <1>10 DEF v

\* what the mapping needs before the first restart
Ordered == restarts = 0 => cut = {} /\ \E g : Lists(g, wire)

LEMMA InitImplements ==
  ASSUME Init
  PROVE  Contract!Init /\ Ordered
<1>1. wire = <<>> /\ restarts = 0 /\ cut = {} /\ passes = {}
  BY DEF Init
<1>2. DOMAIN wire = {}
  BY <1>1
<1>3. NewsOf(wire) = <<>>
  BY <1>2 DEF NewsOf
<1>4. Lists([n \in {} |-> 0], wire)
  BY <1>2 DEF Lists
<1> QED BY <1>1, <1>3, <1>4 DEF Contract!Init, Ordered

\* a call accepted, announced, or cut by a restart is a step of the contract; the rest is not seen
LEMMA StepImplements ==
  ASSUME IInv, IInv', Ordered, [Next]_vars
  PROVE  [Contract!Next]_Contract!vars /\ Ordered'
<1>1. wire \in Seq(Call) /\ restarts \in Nat
  BY DEF IInv, TypeOK
<1>2. CASE restarts # 0
  <2>1. restarts > 0 /\ restarts' > 0
    BY <1>1, <1>2 DEF Next, Reply, AddPassForCkey, RemoveCKeyPass, Own, Mismatch, Disown, Read,
                      Tell, Restart, vars, ghosts
  <2> QED BY <2>1 DEF Ordered, Contract!vars
<1>3. CASE restarts = 0
  <2> USE <1>3
  <2>1. PICK g : Lists(g, wire)
    BY DEF Ordered
  <2>2. ASSUME NEW p \in Pass, AddPassForCkey(p)
        PROVE  Contract!Next /\ Ordered'
    <3> DEFINE e == [op |-> "add", at |-> "own", pass |-> p, seen |-> {}]
    <3>1. e \in Call /\ wire' = Append(wire, e) /\ Change(e) = <<"add", p>> /\ e.at = "own"
      BY <2>2 DEF AddPassForCkey, Start, Call, Change
    <3> HIDE DEF e
    <3>2. NewsOf(wire') = Append(NewsOf(wire), <<"add", p>>) /\ \E h : Lists(h, wire')
      BY <1>1, <2>1, <3>1, NewsAppended
    <3>3. p \notin passes /\ passes' = passes \cup {p} /\ restarts' = 0 /\ cut' = cut
      BY <2>2 DEF AddPassForCkey, ghosts
    <3>4. Contract!Add(p)
      BY <3>2, <3>3 DEF Contract!Add
    <3> QED BY <3>2, <3>3, <3>4 DEF Contract!Next, Ordered
  <2>3. ASSUME NEW p \in Pass, RemoveCKeyPass(p)
        PROVE  Contract!Next /\ Ordered'
    <3> DEFINE e == [op |-> "remove", at |-> "own", pass |-> p, seen |-> {}]
    <3>1. e \in Call /\ wire' = Append(wire, e) /\ Change(e) = <<"remove", p>> /\ e.at = "own"
      BY <2>3 DEF RemoveCKeyPass, Start, Call, Change
    <3> HIDE DEF e
    <3>2. NewsOf(wire') = Append(NewsOf(wire), <<"remove", p>>) /\ \E h : Lists(h, wire')
      BY <1>1, <2>1, <3>1, NewsAppended
    <3>3. passes' = passes \ {p} /\ restarts' = 0 /\ cut' = cut
      BY <2>3 DEF RemoveCKeyPass, ghosts
    <3>4. Contract!Remove(p)
      BY <3>2, <3>3 DEF Contract!Remove
    <3> QED BY <3>2, <3>3, <3>4 DEF Contract!Next, Ordered
  <2>4. CASE Own \/ Disown \/ Read
    <3>1. UNCHANGED <<passes, restarts, cut>> /\ wire # <<>>
      BY <2>4 DEF Own, Disown, Read, Resumes, ghosts, sets
    <3>2. Head(wire) \in Call
      BY <1>1, <3>1, TailIndices
    <3>3. PICK e \in Call : /\ wire' = Append(Tail(wire), e) /\ Change(e) = Change(Head(wire))
                            /\ Rank[e.at] = Rank[Head(wire).at] + 1
      <4>1. PICK at \in {"read", "tell"}, seen \in SUBSET Server :
              Reissue(at, seen) /\ Rank[at] = Rank[Head(wire).at] + 1
        <5>1. CASE Own \/ Disown
          BY <5>1 DEF Own, Disown, Resumes, Rank
        <5>2. CASE Read
          <6>1. PassesOf(Head(wire).pass[2], held) \in SUBSET Server
            BY DEF PassesOf
          <6> QED BY <5>2, <6>1 DEF Read, Resumes, Rank
        <5> QED BY <2>4, <5>1, <5>2
      <4> DEFINE e == [Head(wire) EXCEPT !.at = at, !.seen = seen]
      <4>2. e \in Call /\ e.op = Head(wire).op /\ e.pass = Head(wire).pass /\ e.at = at
        BY <3>2 DEF Call
      <4>3. wire' = Append(Tail(wire), e)
        BY <4>1 DEF Reissue
      <4> HIDE DEF e
      <4> QED BY <4>1, <4>2, <4>3 DEF Change
    <3>4. NewsOf(wire') = NewsOf(wire) /\ \E h : Lists(h, wire')
      BY <1>1, <2>1, <3>1, <3>3, NewsReissued
    <3> QED BY <3>1, <3>4 DEF Contract!vars, Ordered
  <2>5. CASE Mismatch
    <3>1. Head(wire).pass \in mismatches' /\ cut' = cut /\ cut = {}
      BY <2>5 DEF Mismatch, Ordered
    <3> QED BY <3>1 DEF IInv, MismatchOnlyAfterRestart
  <2>6. CASE Tell
    <3>1. UNCHANGED <<passes, restarts, cut>> /\ wire # <<>> /\ wire' = Tail(wire)
          /\ Head(wire).at = "tell"
      BY <2>6 DEF Tell, Resumes, End, ghosts, sets
    <3>2. NewsOf(wire) # <<>> /\ NewsOf(wire') = Tail(NewsOf(wire)) /\ \E h : Lists(h, wire')
      BY <1>1, <2>1, <3>1, NewsTold
    <3>3. Contract!Announce
      BY <3>1, <3>2 DEF Contract!Announce
    <3> QED BY <3>1, <3>2, <3>3 DEF Contract!Next, Ordered
  <2>7. CASE Restart
    <3>1. restarts' > 0 /\ restarts' # 0
      BY <2>7 DEF Restart
    <3>2. Contract!Die
      BY <3>1 DEF Contract!Die
    <3> QED BY <3>1, <3>2 DEF Contract!Next, Ordered
  <2>8. CASE UNCHANGED vars
    <3>1. UNCHANGED <<passes, wire, restarts, cut>>
      BY <2>8 DEF vars, sets, ghosts
    <3> QED BY <3>1 DEF Contract!vars, Ordered
  <2> QED BY <2>2, <2>3, <2>4, <2>5, <2>6, <2>7, <2>8 DEF Next, Reply
<1> QED BY <1>2, <1>3

(***************************************************************************)
(* Whatever calls overlap, PassService does what PassContract says until   *)
(* its first restart: the changes Redis accepted are announced in the      *)
(* order in which it took them, none twice and none that was not made.     *)
(***************************************************************************)
THEOREM AnnouncementsInOrder == Spec => Contract!Spec
<1>1. Init => Contract!Init /\ Ordered
  BY InitImplements
<1>2. IInv /\ IInv' /\ Ordered /\ [Next]_vars => [Contract!Next]_Contract!vars /\ Ordered'
  BY StepImplements
<1> QED BY <1>1, <1>2, IInvHolds, PTL DEF Spec, Contract!Spec
=============================================================================
