------------------------- MODULE AdmissionRefinement -------------------------
(***************************************************************************)
(* Admission implements SeatContract: what the tasks and the sync read,    *)
(* keep and write back under the mutex amounts to single steps.            *)
(***************************************************************************)
EXTENDS Admission

\* the players the tasks are admitting
Asked == {<<port[t], who[t]>> : t \in {u \in Task : at[u] \in Admitting}}

\* the players the sync has given a pass and will write into the list
Met ==
  IF sync \notin {"visit", "lookup"} THEN {}
  ELSE {current} \X ((kept \ last) \cup IF sync = "lookup" THEN {fresh} ELSE {})

Seats == INSTANCE SeatContract WITH asked <- Asked, met <- Met

(***************************************************************************)
(* Although addFromQueue and the sync read a list, wait and write back the *)
(* whole of it (playerList.service.ts:43-52, 131-190), the lists and the   *)
(* passes change as if each of them were changed at once: an admission     *)
(* adds one entry and then a pass, for a player out of the line or with a  *)
(* privilege, and a sync takes only overdue entries without a pass and     *)
(* adds only players it has given one.                                     *)
(***************************************************************************)
ListsAreAtomic == Seats!Spec
=============================================================================
