---------------------------- MODULE BrokerCounter ----------------------------
(***************************************************************************)
(* A machine's counter that reaches the MES over MQTT: a gateway publishes *)
(* its running total, `fsmes inbound subscribe` listens, and books rises   *)
(* above the last total it remembers. What it remembers is in memory only; *)
(* the broker promises at least once, and forgets a listener that goes.    *)
(***************************************************************************)
EXTENDS Integers, Sequences, SequencesExt

CONSTANTS
  Unknown,
  Retain,     \* the gateway publishes its total as a retained message
  Window,     \* messages it publishes before the oldest is acknowledged
  MaxMade, MaxResets, MaxRepeats, MaxBreaks  \* bounds

ASSUME TotalsAssumption == Unknown \notin Nat
ASSUME CounterBounds ==
  /\ Retain \in BOOLEAN /\ Window \in Nat \ {0}
  /\ MaxMade \in Nat /\ MaxResets \in Nat /\ MaxRepeats \in Nat /\ MaxBreaks \in Nat

VARIABLES
  plc, made,    \* what the counter shows, and what was really made
  told,         \* the total the gateway published last
  unacked,      \* what it published and was not acknowledged
  kept,         \* the broker's retained message
  listening,    \* the subscriber's connection
  sent,         \* on its way to the subscriber: [total, retained]
  last,         \* Ingest.last_counts
  booked,       \* units booked as production
  since,        \* the first baseline of this process, with what was booked then
  missed,       \* a booking failed, or the process is not the first
  resets, repeats, breaks

gateway == <<plc, made, told, unacked>>
books == <<last, booked, since, missed>>
counterBounds == <<resets, repeats, breaks>>
counterVars == <<gateway, kept, listening, sent, books, counterBounds>>

Total == Nat \cup {Unknown}
OnWire == [total : Nat, retained : BOOLEAN]

CounterTypeOK ==
  /\ plc \in Nat /\ made \in Nat /\ told \in Total
  /\ unacked \in Seq(Nat) /\ Len(unacked) <= Window
  /\ kept \in Total /\ listening \in BOOLEAN /\ sent \in Seq(OnWire)
  /\ last \in Total /\ booked \in Nat /\ since \in Total /\ missed \in BOOLEAN
  /\ resets \in 0..MaxResets /\ repeats \in 0..MaxRepeats /\ breaks \in 0..MaxBreaks

CounterInit ==
  /\ plc = 0 /\ made = 0 /\ told = Unknown /\ unacked = <<>>
  /\ kept = Unknown /\ listening = FALSE /\ sent = <<>>
  /\ last = Unknown /\ booked = 0 /\ since = Unknown /\ missed = FALSE
  /\ resets = 0 /\ repeats = 0 /\ breaks = 0

Break == breaks < MaxBreaks /\ breaks' = breaks + 1 /\ UNCHANGED <<resets, repeats>>

-----------------------------------------------------------------------------
(* The gateway and the broker *)

Make ==
  /\ made < MaxMade /\ made' = made + 1 /\ plc' = plc + 1
  /\ UNCHANGED <<told, unacked, kept, listening, sent, books, counterBounds>>

Reset ==
  /\ plc > 0 /\ plc' = 0
  /\ resets < MaxResets /\ resets' = resets + 1
  /\ UNCHANGED <<made, told, unacked, kept, listening, sent, books, repeats, breaks>>

\* The broker passes on what is published, and has nothing for who is away.
Deliver(totals) ==
  /\ sent' = IF listening
             THEN sent \o [i \in DOMAIN totals |-> [total |-> totals[i], retained |-> FALSE]]
             ELSE sent
  /\ kept' = IF Retain THEN Last(totals) ELSE kept

Publish ==
  /\ told # plc /\ told' = plc
  /\ Len(unacked) < Window /\ unacked' = Append(unacked, plc)
  /\ Deliver(<<plc>>)
  /\ UNCHANGED <<plc, made, listening, books, counterBounds>>

Acknowledge ==
  /\ unacked # <<>> /\ unacked' = Tail(unacked)
  /\ UNCHANGED <<plc, made, told, kept, listening, sent, books, counterBounds>>

\* A gateway that lost its connection sends again what nobody acknowledged.
Republish ==
  /\ unacked # <<>> /\ Deliver(unacked)
  /\ repeats < MaxRepeats /\ repeats' = repeats + 1
  /\ UNCHANGED <<gateway, listening, books, resets, breaks>>

-----------------------------------------------------------------------------
(* The listener: MqttSource.messages, run and Ingest *)

\* A clean session: the retained message, and what is published from now on.
Subscribe ==
  /\ ~listening /\ listening' = TRUE
  /\ sent' = IF kept = Unknown THEN <<>> ELSE <<[total |-> kept, retained |-> TRUE]>>
  /\ UNCHANGED <<gateway, kept, books, counterBounds>>

\* run reconnects with the same Ingest: it still knows the last total.
LinkLost ==
  /\ listening /\ listening' = FALSE /\ sent' = <<>>
  /\ Break
  /\ UNCHANGED <<gateway, kept, books>>

Restart ==
  /\ Break
  /\ listening' = FALSE /\ sent' = <<>>
  /\ last' = Unknown /\ since' = Unknown /\ missed' = TRUE
  /\ UNCHANGED <<gateway, kept, booked>>

\* Mutant of Rise: the first total counts from nothing.
RiseFromNothing(total) ==
  LET from == IF last = Unknown THEN 0 ELSE last
  IN IF 2 * total < from \/ total <= from THEN 0 ELSE total - from

\* _counter_delta: what to book of a total ...
Rise(total) == IF last = Unknown \/ total <= last THEN 0 ELSE total - last

\* ... and what to remember of it: a fall to less than half is a reset.
Remembered(total) ==
  IF last = Unknown \/ 2 * total < last \/ total > last THEN total ELSE last

Baseline(total) ==
  /\ last' = total
  /\ since' = IF since = Unknown THEN total ELSE since

\* Only a baseline is taken from a retained message.
HandleRetained ==
  /\ sent # <<>> /\ Head(sent).retained /\ sent' = Tail(sent)
  /\ Baseline(Head(sent).total)
  /\ missed' = (missed \/ (last # Unknown /\ last # Head(sent).total))
  /\ UNCHANGED <<gateway, kept, listening, booked, counterBounds>>

\* _tag: the total is remembered before its booking commits, ...
Handle ==
  /\ sent # <<>> /\ ~Head(sent).retained /\ sent' = Tail(sent)
  /\ Baseline(Remembered(Head(sent).total))
  /\ booked' = booked + Rise(Head(sent).total)
  /\ UNCHANGED <<gateway, kept, listening, missed, counterBounds>>

\* ... and is not forgotten when the booking fails.
HandleFails ==
  /\ sent # <<>> /\ ~Head(sent).retained /\ sent' = Tail(sent)
  /\ Break
  /\ Baseline(Remembered(Head(sent).total))
  /\ missed' = TRUE
  /\ UNCHANGED <<gateway, kept, listening, booked>>

Listen == Subscribe \/ HandleRetained \/ Handle

CounterNext ==
  \/ Make \/ Reset \/ Publish \/ Acknowledge \/ Republish
  \/ Listen \/ LinkLost \/ Restart \/ HandleFails

CounterSpec == CounterInit /\ [][CounterNext]_counterVars

-----------------------------------------------------------------------------
(* Properties *)

(* "A counter is a total, never an increment": whatever is sent twice,     *)
(* lost or reset, no unit is booked that was not made; and without a reset,*)
(* a failed booking, a retained message or a restart, every unit since the *)
(* first total is, across lost connections, which the memory survives.     *)
CountIsRise ==
  /\ booked <= made
  /\ resets = 0 /\ ~missed /\ last # Unknown => booked = last - since
=============================================================================
