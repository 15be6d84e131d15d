---------------------------- MODULE PassContract ----------------------------
(***************************************************************************)
(* What PassService promises, with Redis left out: one set of passes, and  *)
(* one announcement for each accepted change, in the order of the changes, *)
(* until the process dies.                                                 *)
(***************************************************************************)
EXTENDS Sequences

CONSTANT Pass

VARIABLES
  passes,   \* the passes there are
  news,     \* accepted changes not announced yet, oldest first
  up        \* the process has not been restarted

vars == <<passes, news, up>>

Init == passes = {} /\ news = <<>> /\ up = TRUE

Add(p) ==
  /\ up /\ p \notin passes
  /\ passes' = passes \cup {p}
  /\ news' = Append(news, <<"add", p>>)
  /\ UNCHANGED up

Remove(p) ==
  /\ up
  /\ passes' = passes \ {p}
  /\ news' = Append(news, <<"remove", p>>)
  /\ UNCHANGED up

Announce ==
  /\ news # <<>>
  /\ news' = Tail(news)
  /\ UNCHANGED <<passes, up>>

\* a restart ends the promise
Die ==
  /\ up
  /\ passes' = {} /\ news' = <<>> /\ up' = FALSE

Next == Announce \/ Die \/ \E p \in Pass : Add(p) \/ Remove(p)

Spec == Init /\ [][Next]_vars

FairSpec == Spec /\ WF_vars(Announce)
=============================================================================
