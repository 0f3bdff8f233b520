----------------------------- MODULE AtLeastOnce -----------------------------
(***************************************************************************)
(* What a reader of the outbox promises of each message, over whatever     *)
(* transport: it arrives before it is recorded as delivered, perhaps more  *)
(* than once, and only while it is owed; what does not arrive is given up  *)
(* and kept, for a person to decide about. One transaction may conclude    *)
(* several messages.                                                       *)
(***************************************************************************)
EXTENDS Naturals

CONSTANT Message

VARIABLES
  fate,    \* what the MES knows of each message
  arrived  \* times the other side has taken it

vars == <<fate, arrived>>

Fate == {"none", "owed", "delivered", "given up"}

Init ==
  /\ fate = [m \in Message |-> "none"]
  /\ arrived = [m \in Message |-> 0]

Stay(m) == fate'[m] = fate[m] /\ arrived'[m] = arrived[m]

Owe(m) == fate[m] = "none" /\ fate'[m] = "owed" /\ arrived'[m] = arrived[m]

Arrive(m) == fate[m] = "owed" /\ fate'[m] = "owed" /\ arrived'[m] = arrived[m] + 1

Conclude(m) ==
  /\ fate[m] = "owed"
  /\ fate'[m] = "given up" \/ (fate'[m] = "delivered" /\ arrived[m] > 0)
  /\ arrived'[m] = arrived[m]

\* Somebody wants it sent, or sent again.
PutBack(m) ==
  /\ fate[m] \in {"delivered", "given up"} /\ fate'[m] = "owed"
  /\ arrived'[m] = arrived[m]

Next ==
  /\ fate' \in [Message -> Fate]
  /\ arrived' \in [Message -> Nat]
  /\ \A m \in Message : Stay(m) \/ Owe(m) \/ Arrive(m) \/ Conclude(m) \/ PutBack(m)

Spec == Init /\ [][Next]_vars
=============================================================================
