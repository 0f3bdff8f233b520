--------------------------- MODULE MachineHistory ---------------------------
(***************************************************************************)
(* What the MES writes down of one machine: the intervals of its state     *)
(* and, apart from them, whether anybody can see it. The reader's _Link    *)
(* records that a machine can be seen and that it no longer can, the       *)
(* consumer's threads book the states they were told of, and people and    *)
(* triggers enter states of their own.                                     *)
(*                                                                         *)
(* The link dies before the watchdog notices; between the two the MES      *)
(* thinks it watches. A disconnection is therefore written back to the     *)
(* last proof of the link. Every database transaction is one step, with    *)
(* SQLite's one writer in mind.                                            *)
(***************************************************************************)
EXTENDS Integers, Sequences, FiniteSets, SequencesExt

CONSTANTS
  State,      \* equipment states
  None,
  Attempts,   \* [controls] book_attempts
  QuietStop,  \* TRUE: a connection does not end over a booking thread
  Unwritten,  \* the ways in which a write of the _Link may leave no row
  MaxTime, MaxChanges, MaxEntries, MaxFaults  \* bounds

ASSUME NoneAssumption ==
  None \notin State \cup Nat \cup {"reader", "other", "link"} \cup [up : BOOLEAN, from : Nat]
ASSUME WayAssumption == QuietStop \in BOOLEAN /\ Unwritten \subseteq {"raises", "not held"}
ASSUME BoundAssumption ==
  /\ Attempts \in Nat \ {0}
  /\ MaxTime \in Nat /\ MaxChanges \in Nat /\ MaxEntries \in Nat /\ MaxFaults \in Nat

VARIABLES
  now,
  machine,  \* the state the machine is in
  alive,    \* the OPC server answers
  states,   \* equipment_states, the last two: [state, from, to, by, ended]
  visible,  \* equipment_connections, the open row: [up, from]
  link,     \* where run is with its connection
  said,     \* what the _Link remembers of what it wrote
  seen,     \* its last proof of the link
  inbox,    \* states received and not yet taken by the consumer
  thread,   \* the consumer's thread and flush's: [batch, tries]
  blind,    \* moments since the process began in which it could not see the machine
  drift,    \* the open state need not be the machine's: entered by hand, or lost
  changes, entries, faults

tables == <<states, visible>>
process == <<link, said, seen, inbox, thread>>
bounds == <<changes, entries, faults>>
vars == <<now, machine, alive, tables, process, blind, drift, bounds>>

Time == 0..MaxTime
Worker == {"consumer", "flush"}
Busy(w) == thread[w].batch # <<>>
Idle == [batch |-> <<>>, tries |-> 0]

Interval == [state : State, from : Time, to : Time \cup {None},
             by : {"reader", "other"}, ended : {None, "reader", "other", "link"}]
Link == [up : BOOLEAN, from : Time]

(* equipment: the history is "a sequence of intervals that do not overlap":*)
(* at most the last is open, none is negative, although a disconnection is *)
(* written back to before it was noticed.                                  *)
Timeline(seq) ==
  /\ \A i \in DOMAIN seq : seq[i].to # None => seq[i].from <= seq[i].to
  /\ \A i \in 1..(Len(seq) - 1) : seq[i].to # None /\ seq[i].to <= seq[i + 1].from

TypeOK ==
  /\ now \in Time /\ machine \in State /\ alive \in BOOLEAN
  /\ states \in Seq(Interval) /\ Timeline(states)
  /\ visible \in Link \cup {None}
  /\ link \in {"away", "subscribed", "watched", "closing"}
  /\ said \in {"nothing", "connected", "disconnected"}
  /\ seen \in Time \cup {None}
  /\ inbox \in Seq(State)
  /\ thread \in [Worker -> [batch : Seq(State), tries : 0..(Attempts - 1)]]
  /\ blind \subseteq Time /\ drift \in BOOLEAN
  /\ changes \in 0..MaxChanges /\ entries \in 0..MaxEntries /\ faults \in 0..MaxFaults

Init ==
  /\ now = 0 /\ machine \in State /\ alive = FALSE
  /\ states = <<>> /\ visible = None
  /\ link = "away" /\ said = "nothing" /\ seen = None
  /\ inbox = <<>> /\ thread = [w \in Worker |-> Idle]
  /\ blind = {} /\ drift = FALSE
  /\ changes = 0 /\ entries = 0 /\ faults = 0

Another == faults < MaxFaults /\ faults' = faults + 1 /\ UNCHANGED <<changes, entries>>

Later(a, b) == IF a > b THEN a ELSE b

-----------------------------------------------------------------------------
(* The two histories *)

HasOpen(seq) == seq # <<>> /\ Last(seq).to = None

OpenState == IF HasOpen(states) THEN Last(states).state ELSE None

\* The last two: what has ended before is never read or written again.
Extend(seq, interval) ==
  LET all == Append(seq, interval) IN SubSeq(all, Later(1, Len(all) - 1), Len(all))

\* What a history's rows become when the open one ends at a moment, which
\* never lies before its start.
Ending(seq, at, ended) ==
  IF ~HasOpen(seq) THEN seq
  ELSE [seq EXCEPT ![Len(seq)] = [@ EXCEPT !.to = Later(at, Last(seq).from), !.ended = ended]]

\* Mutant of WithState: a change opens its interval and ends no other.
WithStateOnly(seq, s, by) ==
  IF HasOpen(seq) /\ Last(seq).state = s THEN seq
  ELSE Extend(seq, [state |-> s, from |-> now, to |-> None, by |-> by, ended |-> None])

\* set_state: nothing if unchanged, otherwise the open interval ends and the
\* new one begins, now.
WithState(seq, s, by) ==
  IF HasOpen(seq) /\ Last(seq).state = s THEN seq
  ELSE LET from == IF HasOpen(seq) THEN Later(now, Last(seq).from) ELSE now
       IN Extend(Ending(seq, now, by),
                 [state |-> s, from |-> from, to |-> None, by |-> by, ended |-> None])

Recorded(up) == visible # None /\ visible.up = up

\* A new row begins where the open one is made to end.
RowFrom(at) == IF visible = None THEN at ELSE Later(at, visible.from)

\* Mutant of SetConnection: the state goes on as if somebody watched.
SetConnectionOnly(up, at) ==
  IF Recorded(up) THEN UNCHANGED tables
  ELSE visible' = [up |-> up, from |-> RowFrom(at)] /\ UNCHANGED states

\* Mutant of SetConnection: the state ends when the loss was noticed.
SetConnectionNoticed(up, at) ==
  IF Recorded(up) THEN UNCHANGED tables
  ELSE /\ visible' = [up |-> up, from |-> RowFrom(at)]
       /\ states' = IF up THEN states ELSE Ending(states, now, "link")

\* set_connection: a disconnection ends the open state too, and opens nothing.
SetConnection(up, at) ==
  IF Recorded(up) THEN UNCHANGED tables
  ELSE /\ visible' = [up |-> up, from |-> RowFrom(at)]
       /\ states' = IF up THEN states
                    ELSE Ending(states, RowFrom(at), "link")

-----------------------------------------------------------------------------
(* Time, the plant and its people *)

\* A process that has once said what it sees is blind when it sees nothing.
Tick ==
  /\ now < MaxTime /\ now' = now + 1
  /\ blind' = IF said # "nothing" /\ ~(alive /\ link # "away")
              THEN blind \cup {now} ELSE blind
  /\ UNCHANGED <<machine, alive, tables, process, drift, bounds>>

\* OPC UA notifies on change, as long as there is a subscription.
Change(s) ==
  /\ s # machine /\ machine' = s
  /\ changes < MaxChanges /\ changes' = changes + 1
  /\ inbox' = IF alive /\ link \in {"subscribed", "watched"} THEN Append(inbox, s) ELSE inbox
  /\ UNCHANGED <<now, alive, tables, link, said, seen, thread, blind, drift, entries, faults>>

LinkDies ==
  /\ link = "watched" /\ alive /\ alive' = FALSE
  /\ Another
  /\ UNCHANGED <<now, machine, tables, process, blind, drift>>

\* A person's POST of a state, or a trigger that sets the machine down.
Enter(s) ==
  /\ entries < MaxEntries /\ entries' = entries + 1
  /\ states' = WithState(states, s, "other")
  /\ drift' = TRUE
  /\ UNCHANGED <<now, machine, alive, visible, process, blind, changes, faults>>

-----------------------------------------------------------------------------
(* The reader's connection: run and its _Link *)

\* _Link._write. A machine whose set_connection raises is logged and stepped
\* over, and the _Link remembers it as written; a node that does not hold the
\* role writes nothing, and remembers what it had said before. (A commit that
\* raises ends run, as losing the role for good does; the next run, when there
\* is one, has a _Link of its own: Crash.)
Write(up, at) ==
  LET state == IF up THEN "connected" ELSE "disconnected"
  IN \/ said' = state /\ SetConnection(up, at) /\ UNCHANGED bounds
     \/ "raises" \in Unwritten /\ Another /\ said' = state /\ UNCHANGED tables
     \/ "not held" \in Unwritten /\ Another /\ UNCHANGED <<said, tables>>

\* _Link.connected writes only a change, and has its proof in any case.
Connected ==
  /\ seen' = now
  /\ IF said = "connected" THEN UNCHANGED <<said, tables, bounds>> ELSE Write(TRUE, now)

\* _Link.disconnected writes only a change, since the last proof if any.
Disconnected ==
  IF said = "disconnected" THEN UNCHANGED <<said, tables, bounds>>
  ELSE Write(FALSE, IF seen = None THEN now ELSE seen)

\* A subscription begins with the value its nodes have. (A thread of the last
\* connection that still runs would go on beside this one's: left out.)
Connect ==
  /\ link = "away" /\ \A w \in Worker : ~Busy(w)
  /\ link' = "subscribed" /\ alive' = TRUE
  /\ inbox' = <<machine>>
  /\ UNCHANGED <<now, machine, tables, said, seen, thread, blind, drift, bounds>>

\* An attempt that fails says so, unless one before it has.
CannotConnect ==
  /\ link = "away" /\ said # "disconnected"
  /\ Disconnected
  /\ UNCHANGED <<now, machine, alive, link, seen, inbox, thread, blind, drift>>

\* The handler has started. (Left out: that recording it fails as a whole, and
\* that the link or the process dies just before it.)
Record ==
  /\ link = "subscribed" /\ link' = "watched"
  /\ Connected
  /\ UNCHANGED <<now, machine, alive, inbox, thread, blind, drift>>

\* The watchdog's check, answered.
Proof ==
  /\ link = "watched" /\ alive /\ seen # now
  /\ seen' = now
  /\ UNCHANGED <<now, machine, alive, tables, link, said, inbox, thread, blind, drift, bounds>>

\* Mutant of Close: nobody asks whether the server is still there.
CloseUnwatched ==
  /\ link = "watched" /\ Another
  /\ QuietStop => ~Busy("consumer")
  /\ link' = "closing"
  /\ thread' = [thread EXCEPT !["flush"].batch = inbox] /\ inbox' = <<>>
  /\ UNCHANGED <<now, machine, alive, tables, said, seen, blind, drift>>

\* The watchdog fails, or the connection ends for a reason of its own. The
\* consumer is cancelled, not its thread, and flush takes what is waiting.
Close ==
  /\ link = "watched"
  /\ (~alive /\ UNCHANGED bounds) \/ Another
  /\ QuietStop => ~Busy("consumer")
  /\ link' = "closing"
  /\ thread' = [thread EXCEPT !["flush"].batch = inbox] /\ inbox' = <<>>
  /\ UNCHANGED <<now, machine, alive, tables, said, seen, blind, drift>>

\* Every way out of a connection.
Disconnect ==
  /\ link = "closing" /\ ~Busy("flush")
  /\ link' = "away"
  /\ Disconnected
  /\ UNCHANGED <<now, machine, alive, seen, inbox, thread, blind, drift>>

\* The process ends, killed or stopped with its connection closed, or its run
\* does; another begins, some time later, from the same tables.
Crash ==
  /\ link # "subscribed" /\ Another
  /\ link' = "away" /\ said' = "nothing" /\ seen' = None
  /\ inbox' = <<>> /\ thread' = [w \in Worker |-> Idle] /\ blind' = {}
  /\ UNCHANGED <<now, machine, alive, tables, drift>>

-----------------------------------------------------------------------------
(* Booking the states it was told of *)

Begin ==
  /\ link # "closing" /\ inbox # <<>> /\ ~Busy("consumer")
  /\ thread' = [thread EXCEPT !["consumer"].batch = inbox] /\ inbox' = <<>>
  /\ UNCHANGED <<now, machine, alive, tables, link, said, seen, blind, drift, bounds>>

Done(w) == thread' = [thread EXCEPT ![w] = Idle]

\* Mutant of Book: the first state of the batch stands for all of it.
BookFirst(w) ==
  /\ Busy(w) /\ Done(w)
  /\ states' = WithState(states, Head(thread[w].batch), "reader")
  /\ drift' = FALSE
  /\ UNCHANGED <<now, machine, alive, visible, link, said, seen, inbox, blind, bounds>>

\* What a history's rows become when the states of a batch are booked, in
\* order, except those whose own savepoint is rolled back.
WithStates(seq, batch, lost) ==
  LET after[i \in 0..Len(batch)] ==
        IF i = 0 THEN seq
        ELSE IF i \in lost THEN after[i - 1]
        ELSE WithState(after[i - 1], batch[i], "reader")
  IN after[Len(batch)]

\* All of them in one transaction; one that fails by itself is not tried again.
Book(w) ==
  /\ Busy(w) /\ Done(w)
  /\ \E lost \in SUBSET (DOMAIN thread[w].batch) :
       /\ \/ lost = {} /\ UNCHANGED bounds
          \/ lost # {} /\ Another
       /\ states' = WithStates(states, thread[w].batch, lost)
       /\ drift' = (Len(thread[w].batch) \in lost)
  /\ UNCHANGED <<now, machine, alive, visible, link, said, seen, inbox, blind>>

\* It fails and is tried again after a backoff; after the last try the
\* states are dropped, and no later reading brings them back.
BookFails(w) ==
  /\ Busy(w) /\ Another
  /\ IF thread[w].tries + 1 = Attempts
     THEN Done(w) /\ drift' = TRUE
     ELSE thread' = [thread EXCEPT ![w].tries = @ + 1] /\ UNCHANGED drift
  /\ UNCHANGED <<now, machine, alive, tables, link, said, seen, inbox, blind>>

Reader ==
  \/ Record \/ Close \/ Disconnect \/ Begin
  \/ \E w \in Worker : Book(w)

Next ==
  \/ Tick \/ LinkDies \/ \E s \in State : Change(s) \/ Enter(s)
  \/ Connect \/ CannotConnect \/ Proof
  \/ Reader \/ \E w \in Worker : BookFails(w)
  \/ Crash

Spec == Init /\ [][Next]_vars

FairSpec == Spec /\ WF_vars(Reader)

-----------------------------------------------------------------------------
(* Properties *)

(* connection: while a machine is recorded as disconnected it has no open  *)
(* state, except one that somebody entered since.                          *)
NothingAccruesUnseen ==
  Recorded(FALSE) /\ link = "away" /\ HasOpen(states) =>
    Last(states).by = "other" /\ Last(states).from >= visible.from

(* "The state history stops where the evidence stops": an interval of the  *)
(* reader's that a disconnection ended holds no moment in which the reader *)
(* was blind, however late it noticed.                                     *)
EndsAtEvidence ==
  \A i \in DOMAIN states :
    states[i].by = "reader" /\ states[i].ended = "link" =>
      blind \cap states[i].from..(states[i].to - 1) = {}

(* A machine that is watched, and of which nothing waits to be booked, was *)
(* dropped or was entered by hand, has its own state open.                 *)
Follows ==
  link = "watched" /\ alive /\ inbox = <<>> /\ (\A w \in Worker : ~Busy(w)) /\ ~drift
    => OpenState = machine

(* A link that dies is recorded as lost, unless the process dies too.      *)
LossIsRecorded ==
  link = "watched" /\ ~alive ~> Recorded(FALSE) \/ said = "nothing"
=============================================================================
