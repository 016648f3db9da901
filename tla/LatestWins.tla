------------------------------ MODULE LatestWins ------------------------------
(***************************************************************************)
(* What the publication side promises its reader D, with no mechanism in   *)
(* it: requests take numbered tickets, a new ticket closes every earlier   *)
(* one, a ticket may also be closed by its owner, and the value on display *)
(* is replaced only by the owner of the newest ticket while it is open.    *)
(* The coordinator, the stores and their tokens appear in the modules that *)
(* implement this one.                                                     *)
(***************************************************************************)
EXTENDS Naturals

VARIABLES
  tickets,   \* how many tickets were handed out
  closed,    \* tickets that can no longer be honoured
  shown      \* ticket of the result on display, 0 when there is none

vars == <<tickets, closed, shown>>

Init ==
  /\ tickets = 0
  /\ closed = {}
  /\ shown = 0

(* A new request: earlier tickets close.  The display survives it or, when *)
(* the request belongs to another context, is blanked.                     *)
Issue ==
  /\ tickets' = tickets + 1
  /\ closed' = closed \cup 1..tickets
  /\ shown' \in {0, shown}

(* An owner gives its ticket back.                                         *)
Close ==
  /\ \E k \in 1..tickets : closed' = closed \cup {k}
  /\ UNCHANGED <<tickets, shown>>

(* The newest ticket is honoured.                                          *)
Show ==
  /\ tickets \in (1..tickets) \ closed
  /\ shown' = tickets
  /\ UNCHANGED <<tickets, closed>>

Next == Issue \/ Close \/ Show

Spec == Init /\ [][Next]_vars

===============================================================================
