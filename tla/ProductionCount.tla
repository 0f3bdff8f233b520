--------------------------- MODULE ProductionCount ---------------------------
(***************************************************************************)
(* What a plant's production count promises, whoever does the counting:    *)
(* machines make units, and units are booked - late, in any portions, some *)
(* perhaps never, but never more than were made and never taken back.      *)
(* (docs/decisions/0004: never invent production.)                         *)
(***************************************************************************)
EXTENDS Naturals

CONSTANT Counter  \* the machine counters of the plant

VARIABLES
  made,    \* units each counter's machine has really made
  booked   \* units of it the MES has booked as production

vars == <<made, booked>>

Init ==
  /\ made = [c \in Counter |-> 0]
  /\ booked = [c \in Counter |-> 0]

Make(c) ==
  /\ made' = [made EXCEPT ![c] = @ + 1]
  /\ UNCHANGED booked

\* One booking may carry units of several counters.
Book ==
  /\ booked' \in [Counter -> Nat]
  /\ \A c \in Counter : booked[c] <= booked'[c] /\ booked'[c] <= made[c]
  /\ UNCHANGED made

Next == Book \/ \E c \in Counter : Make(c)

Spec == Init /\ [][Next]_vars
=============================================================================
