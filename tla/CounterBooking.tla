--------------------------- MODULE CounterBooking ---------------------------
(***************************************************************************)
(* The reader: how an absolute machine counter becomes booked production.  *)
(*                                                                         *)
(* A connection to the OPC server has one handler. Its callback appends    *)
(* readings; a consumer task takes them as a batch and books the batch in  *)
(* a thread; when the connection ends, stop() cancels the consumer task    *)
(* and books the rest in a second thread. A booking measures each counter  *)
(* from the handler's own last_counts, and writes the production and the   *)
(* counter_baselines rows in one transaction. Only after the commit does   *)
(* last_counts move.                                                       *)
(*                                                                         *)
(* A batch keeps only the last reading of each counter, as _book coalesces *)
(* it; states, reasons and history are not modelled here.                  *)
(***************************************************************************)
EXTENDS Integers

CONSTANTS
  Counter,       \* (machine, tag) pairs that count
  Machine,
  MachineOf,     \* the machine of each counter
  Node,          \* the boxes that run a reader
  Conn,          \* the connections ever made, numbered; each has its own handler
  None,          \* no value
  Attempts,      \* BOOK_ATTEMPTS
  QuietStop,     \* TRUE: a connection ends only while no booking is under way
  MaxMade,       \* bound: units made per counter
  MaxResets,     \* bound: PLC resets
  MaxFaults,     \* bound: booking transactions that fail
  MaxRefusals,   \* bound: machines whose booking fails in its savepoint
  MaxLoadFaults  \* bound: connections that could not read the baselines

ASSUME ConnAssumption == Conn \subseteq Nat
ASSUME CountersAssumption == MachineOf \in [Counter -> Machine]
ASSUME NoneAssumption == None \notin Nat /\ None \notin Node
ASSUME BoundsAssumption ==
  /\ Attempts \in Nat \ {0} /\ QuietStop \in BOOLEAN
  /\ MaxMade \in Nat /\ MaxResets \in Nat /\ MaxFaults \in Nat
  /\ MaxRefusals \in Nat /\ MaxLoadFaults \in Nat

VARIABLES
  plc,      \* the value each counter shows
  made,     \* units its machine has really made
  base,     \* the counter_baselines table
  booked,   \* units booked as production, on an order or unassigned
  gate,     \* the answer of holds() on each node
  link,     \* where each connection is in its life
  owner,    \* the node that made it
  mem,      \* its handler's last_counts
  told,     \* the value of each counter its subscription sent last
  inbox,    \* its handler's _pending, the last reading of each counter
  pc,       \* where each booking thread is
  tries,    \* the attempt it is at
  batch,    \* the readings it has to book
  pending,  \* what its committed booking will leave in last_counts
  resets, faults, refusals, loadFaults  \* counters of the bounds

plant == <<plc, made>>
tables == <<base, booked>>
handler == <<mem, told, inbox>>
thread == <<pc, tries, batch, pending>>
bounds == <<resets, faults, refusals, loadFaults>>
vars == <<plant, tables, gate, link, owner, handler, thread, bounds>>

Worker == Conn \X {"consumer", "flush"}

Reading == Nat \cup {None}
Nothing == [c \in Counter |-> None]

Up == {k \in Conn : link[k] \in {"open", "closing", "flushing"}}

TypeOK ==
  /\ plc \in [Counter -> Nat]
  /\ made \in [Counter -> Nat]
  /\ base \in [Counter -> Reading]
  /\ booked \in [Counter -> Nat]
  /\ gate \in [Node -> BOOLEAN]
  /\ link \in [Conn -> {"new", "open", "closing", "flushing", "closed"}]
  /\ owner \in [Conn -> Node \cup {None}]
  /\ mem \in [Conn -> [Counter -> Reading]]
  /\ told \in [Conn -> [Counter -> Reading]]
  /\ inbox \in [Conn -> [Counter -> Reading]]
  /\ pc \in [Worker -> {"idle", "ready", "booking", "booked"}]
  /\ tries \in [Worker -> 0..Attempts]
  /\ batch \in [Worker -> [Counter -> Reading]]
  /\ pending \in [Worker -> [Counter -> Reading]]
  /\ resets \in Nat /\ faults \in Nat /\ refusals \in Nat /\ loadFaults \in Nat

InitBooking ==
  /\ plc = [c \in Counter |-> 0]
  /\ made = [c \in Counter |-> 0]
  /\ base = Nothing
  /\ booked = [c \in Counter |-> 0]
  /\ link = [k \in Conn |-> "new"]
  /\ owner = [k \in Conn |-> None]
  /\ mem = [k \in Conn |-> Nothing]
  /\ told = [k \in Conn |-> Nothing]
  /\ inbox = [k \in Conn |-> Nothing]
  /\ pc = [w \in Worker |-> "idle"]
  /\ tries = [w \in Worker |-> 0]
  /\ batch = [w \in Worker |-> Nothing]
  /\ pending = [w \in Worker |-> Nothing]
  /\ resets = 0 /\ faults = 0 /\ refusals = 0 /\ loadFaults = 0

\* On one box nothing is leased and the gate is `lambda: True`.
Init == InitBooking /\ gate = [n \in Node |-> TRUE]

-----------------------------------------------------------------------------
(* The plant *)

Make(c) ==
  /\ made[c] < MaxMade
  /\ made' = [made EXCEPT ![c] = @ + 1]
  /\ plc' = [plc EXCEPT ![c] = @ + 1]
  /\ UNCHANGED <<tables, gate, link, owner, handler, thread, bounds>>

\* The PLC restarts, or somebody zeroes the counter at the start of a shift.
Reset(c) ==
  /\ resets < MaxResets
  /\ plc[c] > 0
  /\ plc' = [plc EXCEPT ![c] = 0]
  /\ resets' = resets + 1
  /\ UNCHANGED <<made, tables, gate, link, owner, handler, thread, faults, refusals, loadFaults>>

\* The subscription sends the first value, then every change it samples.
Notify(k, c) ==
  /\ k \in Up
  /\ told[k][c] # plc[c]
  /\ told' = [told EXCEPT ![k][c] = plc[c]]
  /\ inbox' = [inbox EXCEPT ![k][c] = plc[c]]
  /\ UNCHANGED <<plant, tables, gate, link, owner, mem, thread, bounds>>

-----------------------------------------------------------------------------
(* The connection: run() makes them one at a time on a node *)

Connect(k, n) ==
  /\ link[k] = "new" /\ \A j \in Conn : j < k => link[j] # "new"
  /\ \A j \in Up : owner[j] # n
  /\ link' = [link EXCEPT ![k] = "open"]
  /\ owner' = [owner EXCEPT ![k] = n]
  /\ \/ mem' = [mem EXCEPT ![k] = base] /\ UNCHANGED loadFaults
     \/ /\ loadFaults < MaxLoadFaults
        /\ loadFaults' = loadFaults + 1
        /\ mem' = [mem EXCEPT ![k] = Nothing]
  /\ UNCHANGED <<plant, tables, gate, told, inbox, thread, resets, faults, refusals>>

\* stop() cancels the consumer task; the thread it waits for goes on.
\* The link is lost while the consumer is anywhere, or only while it waits.
Stop(k) ==
  /\ link[k] = "open"
  /\ QuietStop => pc[<<k, "consumer">>] = "idle"
  /\ link' = [link EXCEPT ![k] = "closing"]
  /\ UNCHANGED <<plant, tables, gate, owner, handler, thread, bounds>>

\* A thread begins _process with everything that has arrived.
Begin(w) ==
  /\ pc' = [pc EXCEPT ![w] = "ready"]
  /\ tries' = [tries EXCEPT ![w] = 1]
  /\ batch' = [batch EXCEPT ![w] = inbox[w[1]]]
  /\ inbox' = [inbox EXCEPT ![w[1]] = Nothing]
  /\ UNCHANGED <<plant, tables, gate, owner, mem, told, pending, bounds>>

Drain(k) ==
  /\ link[k] = "open"
  /\ inbox[k] # Nothing
  /\ pc[<<k, "consumer">>] = "idle"
  /\ Begin(<<k, "consumer">>)
  /\ UNCHANGED link

Flush(k) ==
  /\ link[k] = "closing"
  /\ link' = [link EXCEPT ![k] = "flushing"]
  /\ IF inbox[k] # Nothing
       THEN Begin(<<k, "flush">>)
       ELSE UNCHANGED <<plant, tables, gate, owner, handler, thread, bounds>>

\* stop() returns; a reading that came during the flush goes with the handler,
\* which only a consumer thread still running keeps alive.
Close(k) ==
  /\ link[k] = "flushing"
  /\ pc[<<k, "flush">>] = "idle"
  /\ link' = [link EXCEPT ![k] = "closed"]
  /\ inbox' = [inbox EXCEPT ![k] = Nothing]
  /\ told' = [told EXCEPT ![k] = Nothing]
  /\ mem' = [mem EXCEPT ![k] = IF pc[<<k, "consumer">>] = "idle" THEN Nothing ELSE @]
  /\ UNCHANGED <<plant, tables, gate, owner, thread, bounds>>

\* The process dies: its connections, their threads and their memory go.
Die(n) ==
  LET Lose(f, nil) == [k \in Conn |-> IF owner[k] = n THEN nil ELSE f[k]]
      LoseOf(f, nil) == [w \in Worker |-> IF owner[w[1]] = n THEN nil ELSE f[w]]
  IN /\ link' = Lose(link, "closed")
     /\ mem' = Lose(mem, Nothing)
     /\ told' = Lose(told, Nothing)
     /\ inbox' = Lose(inbox, Nothing)
     /\ pc' = LoseOf(pc, "idle")
     /\ tries' = LoseOf(tries, 0)
     /\ batch' = LoseOf(batch, Nothing)
     /\ pending' = LoseOf(pending, Nothing)
     /\ UNCHANGED <<plant, tables, owner, bounds>>

Crash(n) ==
  /\ \E k \in Up : owner[k] = n
  /\ Die(n)
  /\ UNCHANGED gate

-----------------------------------------------------------------------------
(* _book_with_retry, in a thread *)

\* The thread is through: with the batch booked, given up, or another node's.
GiveUp(w) ==
  /\ pc' = [pc EXCEPT ![w] = "idle"]
  /\ tries' = [tries EXCEPT ![w] = 0]
  /\ batch' = [batch EXCEPT ![w] = Nothing]

\* Mutant of AskGate: only the connection asks it, not the attempt.
AskGateOpen(w) ==
  /\ pc[w] = "ready"
  /\ pc' = [pc EXCEPT ![w] = "booking"]
  /\ UNCHANGED <<plant, tables, gate, link, owner, handler, tries, batch, pending, bounds>>

\* Every attempt asks the gate first.
AskGate(w) ==
  /\ pc[w] = "ready"
  /\ IF gate[owner[w[1]]]
       THEN pc' = [pc EXCEPT ![w] = "booking"] /\ UNCHANGED <<tries, batch>>
       ELSE GiveUp(w)
  /\ UNCHANGED <<plant, tables, gate, link, owner, handler, pending, bounds>>

\* Mutant of AttemptFails: a batch has one try.
AttemptFailsOnce(w) ==
  /\ pc[w] = "booking"
  /\ faults < MaxFaults
  /\ faults' = faults + 1
  /\ GiveUp(w)
  /\ UNCHANGED <<plant, tables, gate, link, owner, handler, pending, resets, refusals, loadFaults>>

\* The transaction rolls back; the thread sleeps in its backoff, or gives up.
AttemptFails(w) ==
  /\ pc[w] = "booking"
  /\ faults < MaxFaults
  /\ faults' = faults + 1
  /\ IF tries[w] < Attempts
       THEN /\ pc' = [pc EXCEPT ![w] = "ready"]
            /\ tries' = [tries EXCEPT ![w] = @ + 1]
            /\ UNCHANGED batch
       ELSE GiveUp(w)
  /\ UNCHANGED <<plant, tables, gate, link, owner, handler, pending, resets, refusals, loadFaults>>

\* _counter_delta: a first value or a reset is a new baseline and no units.
Moves(last, v) == v # None /\ (last = None \/ v < last \div 2 \/ v > last)

\* Mutant of Gain: a counter that fell takes its units back.
GainSigned(last, v) == IF last # None /\ v # None THEN v - last ELSE 0

Gain(last, v) == IF last # None /\ v # None /\ v > last THEN v - last ELSE 0

\* execution.report raised for the machines in F: their units stay owed, and
\* none of their counters moves. A machine with nothing to report is not asked.
Refused(w, F) ==
  {c \in Counter : \E d \in Counter :
     /\ MachineOf[c] \in F /\ MachineOf[d] = MachineOf[c]
     /\ Gain(mem[w[1]][d], batch[w][d]) > 0}

Kept(w, F) == {c \in Counter : Moves(mem[w[1]][c], batch[w][c])} \ Refused(w, F)

\* Mutant of Commit: the baseline moves although the units were refused.
CommitRefused(w, F) ==
  /\ pc[w] = "booking"
  /\ IF F = {} THEN UNCHANGED refusals
     ELSE refusals < MaxRefusals /\ refusals' = refusals + 1
  /\ booked' = [c \in Counter |->
                  booked[c] + IF c \in Kept(w, F) THEN Gain(mem[w[1]][c], batch[w][c]) ELSE 0]
  /\ base' = [c \in Counter |-> IF c \in Kept(w, {}) THEN batch[w][c] ELSE base[c]]
  /\ pending' = [pending EXCEPT ![w] =
                   [c \in Counter |-> IF c \in Kept(w, {}) THEN batch[w][c] ELSE None]]
  /\ pc' = [pc EXCEPT ![w] = "booked"]
  /\ tries' = [tries EXCEPT ![w] = 0]
  /\ batch' = [batch EXCEPT ![w] = Nothing]
  /\ UNCHANGED <<plant, gate, link, owner, handler, resets, faults, loadFaults>>

\* _book and the commit: production and baselines in one transaction.
Commit(w, F) ==
  /\ pc[w] = "booking"
  /\ IF F = {} THEN UNCHANGED refusals
     ELSE refusals < MaxRefusals /\ refusals' = refusals + 1
  /\ booked' = [c \in Counter |->
                  booked[c] + IF c \in Kept(w, F) THEN Gain(mem[w[1]][c], batch[w][c]) ELSE 0]
  /\ base' = [c \in Counter |-> IF c \in Kept(w, F) THEN batch[w][c] ELSE base[c]]
  /\ pending' = [pending EXCEPT ![w] =
                   [c \in Counter |-> IF c \in Kept(w, F) THEN batch[w][c] ELSE None]]
  /\ pc' = [pc EXCEPT ![w] = "booked"]
  /\ tries' = [tries EXCEPT ![w] = 0]
  /\ batch' = [batch EXCEPT ![w] = Nothing]
  /\ UNCHANGED <<plant, gate, link, owner, handler, resets, faults, loadFaults>>

\* last_counts.update(pending), after the commit.
Remember(w) ==
  /\ pc[w] = "booked"
  /\ mem' = [mem EXCEPT ![w[1]] =
               [c \in Counter |-> IF pending[w][c] # None THEN pending[w][c] ELSE @[c]]]
  /\ pending' = [pending EXCEPT ![w] = Nothing]
  /\ pc' = [pc EXCEPT ![w] = "idle"]
  /\ UNCHANGED <<plant, tables, gate, link, owner, told, inbox, tries, batch, bounds>>

Book(w) == \/ AskGate(w) \/ AttemptFails(w) \/ Remember(w)
           \/ \E F \in SUBSET Machine : Commit(w, F)

-----------------------------------------------------------------------------

Plant == \E c \in Counter : Make(c) \/ Reset(c)

Reader ==
  \/ \E k \in Conn : \/ \E c \in Counter : Notify(k, c)
                     \/ Drain(k) \/ Flush(k) \/ Close(k)
  \/ \E w \in Worker : Book(w)

\* The life of a reader on its own. A reader always comes back: the bound on
\* connections is not reached by one that ended.
Another == \E k \in Conn : link[k] = "new"

Life ==
  \/ \E k \in Conn, n \in Node : Connect(k, n)
  \/ \E k \in Conn : Another /\ Stop(k)
  \/ \E n \in Node : Another /\ Crash(n)

Next == Plant \/ Reader \/ Life

Spec == Init /\ [][Next]_vars

-----------------------------------------------------------------------------
(* Properties *)

(* _counter_delta's "one rule that outranks all others": never invent      *)
(* production. Whatever resets, retries, refused bookings and restarts     *)
(* come between, no counter has more units booked than its machine made.   *)
NeverInvent == \A c \in Counter : booked[c] <= made[c]

(* counters.py: "the two cannot disagree". Every step that books a counter *)
(* moves its baseline row by exactly the units it books, and a baseline    *)
(* row that rises is a booking: no unit is booked twice or skipped by a    *)
(* reader that measures from a memory the table has left behind. Only a    *)
(* connection that could not read the table skips units.                   *)
BaselineIsBooking ==
  [][ \A c \in Counter :
        LET units == booked'[c] - booked[c] IN
        base[c] # None /\ loadFaults = 0 =>
          /\ base'[c] # None
          /\ units # 0 => base'[c] = base[c] + units
          /\ base'[c] > base[c] => units = base'[c] - base[c] ]_vars

(* The reader keeps the promise of an honest production count.             *)
Count == INSTANCE ProductionCount
HonestCount == Count!Spec
=============================================================================
