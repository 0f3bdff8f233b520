----------------------------- MODULE ReaderProofs -----------------------------
(***************************************************************************)
(* Proofs about the reader, for any counters, machines, connections and    *)
(* bounds: CounterBooking on one box, and RedundantReader on the boxes of  *)
(* a redundant plant, for every set of nodes and all the lease's times.    *)
(*                                                                         *)
(* Both take the same steps of the reader, and what a step preserves is    *)
(* stated once, as a lemma about BookingStep: whoever may commit a booking *)
(* (Writers) is a single connection. On one box that is so because a box   *)
(* makes its connections one at a time. On several it is the lease that    *)
(* makes it so, and LeaseProofs that says why.                             *)
(*                                                                         *)
(* NeverInvent needs connections that end only while no booking is under   *)
(* way; the runs show what happens without.                                *)
(***************************************************************************)
EXTENDS RedundantReader, TLAPS

LP == INSTANCE LeaseProofs WITH held <- gate

\* A step of any reader, whatever happens to the gates meanwhile.
BookingStep ==
  \/ Plant \/ Reader
  \/ \E k \in Conn : Stop(k) \/ \E n \in Node : Connect(k, n)
  \/ \E n \in Node : Die(n)
  \/ UNCHANGED bookingVars

LEMMA OneBoxSteps == ASSUME [Next]_vars PROVE BookingStep
<1>1. CASE Next
  BY <1>1 DEF Next, Life, Crash, BookingStep
<1>2. CASE UNCHANGED vars
  BY <1>2 DEF vars, bookingVars, BookingStep
<1> QED
  BY <1>1, <1>2

LEMMA SeveralBoxesSteps == ASSUME [RNext]_allVars PROVE BookingStep
<1> USE DEF BookingStep
<1>1. CASE Tick
  BY <1>1 DEF Tick
<1>2. ASSUME NEW n \in Node, LeaseStep(n) \/ Exit(n) PROVE BookingStep
  BY <1>2 DEF LeaseStep, Exit
<1>3. CASE ReaderStep
  BY <1>3 DEF ReaderStep, WorkConnects, LinkLost, RoleLost
<1>4. CASE UNCHANGED allVars
  BY <1>4 DEF allVars, vars, bookingVars
<1> QED
  BY <1>1, <1>2, <1>3, <1>4 DEF RNext

-----------------------------------------------------------------------------
LEMMA WorkerParts ==
  ASSUME NEW w \in Worker
  PROVE  w[1] \in Conn /\ w[2] \in {"consumer", "flush"} /\ w = <<w[1], w[2]>>
BY DEF Worker

LEMMA WorkersOf ==
  ASSUME NEW k \in Conn
  PROVE  <<k, "consumer">> \in Worker /\ <<k, "flush">> \in Worker
BY DEF Worker

LEMMA NothingType == Nothing \in [Counter -> Reading]
BY DEF Nothing, Reading

LEMMA GainType ==
  ASSUME NEW last \in Reading, NEW v \in Reading
  PROVE  Gain(last, v) \in Nat
BY NoneAssumption DEF Gain, Reading

LEMMA BeginType ==
  ASSUME TypeOK, NEW w \in Worker, Begin(w),
         link' \in [Conn -> {"new", "open", "closing", "flushing", "closed"}]
  PROVE  TypeOK'
<1> USE NothingType, BoundsAssumption DEF plant, tables, bounds
<1>1. w[1] \in Conn
  BY WorkerParts
<1>2. pc' \in [Worker -> {"idle", "ready", "booking", "booked"}] /\ tries' \in [Worker -> 0..Attempts]
  BY DEF TypeOK, Begin
<1>3. batch' \in [Worker -> [Counter -> Reading]] /\ inbox' \in [Conn -> [Counter -> Reading]]
  BY <1>1 DEF TypeOK, Begin
<1> QED
  BY <1>2, <1>3 DEF TypeOK, Begin

LEMMA TypeSteps ==
  ASSUME TypeOK, BookingStep, gate' \in [Node -> BOOLEAN]
  PROVE  TypeOK'
<1> USE NothingType, BoundsAssumption
        DEF plant, tables, handler, thread, bounds
<1>1. ASSUME NEW c \in Counter, Make(c) PROVE TypeOK'
  BY <1>1 DEF Make, TypeOK
<1>2. ASSUME NEW c \in Counter, Reset(c) PROVE TypeOK'
  BY <1>2 DEF Reset, TypeOK
<1>3. ASSUME NEW k \in Conn, NEW c \in Counter, Notify(k, c) PROVE TypeOK'
  BY <1>3 DEF Notify, TypeOK, Reading
<1>4. ASSUME NEW k \in Conn, NEW n \in Node, Connect(k, n) PROVE TypeOK'
  <2>1. mem' \in [Conn -> [Counter -> Reading]]
    <3>1. CASE mem' = [mem EXCEPT ![k] = base]
      BY <3>1 DEF TypeOK
    <3>2. CASE mem' = [mem EXCEPT ![k] = Nothing]
      BY <3>2 DEF TypeOK
    <3> QED
      BY <1>4, <3>1, <3>2 DEF Connect
  <2>2. loadFaults' \in Nat
    BY <1>4 DEF Connect, TypeOK
  <2>3. /\ link' = [link EXCEPT ![k] = "open"] /\ owner' = [owner EXCEPT ![k] = n]
        /\ UNCHANGED <<plc, made, base, booked, gate, told, inbox, pc, tries, batch,
                       pending, resets, faults, refusals>>
    BY <1>4 DEF Connect
  <2> QED
    BY <2>1, <2>2, <2>3 DEF TypeOK
<1>5. ASSUME NEW k \in Conn, Stop(k) PROVE TypeOK'
  BY <1>5 DEF Stop, TypeOK
<1>6. ASSUME NEW k \in Conn, Drain(k) PROVE TypeOK'
  BY <1>6, BeginType, WorkersOf DEF Drain, TypeOK
<1>7. ASSUME NEW k \in Conn, Flush(k) PROVE TypeOK'
  <2>1. link' \in [Conn -> {"new", "open", "closing", "flushing", "closed"}]
    BY <1>7 DEF Flush, TypeOK
  <2>2. CASE inbox[k] # Nothing
    BY <1>7, <2>1, <2>2, BeginType, WorkersOf DEF Flush
  <2>3. CASE inbox[k] = Nothing
    BY <1>7, <2>1, <2>3 DEF Flush, TypeOK
  <2> QED
    BY <2>2, <2>3
<1>8. ASSUME NEW k \in Conn, Close(k) PROVE TypeOK'
  BY <1>8 DEF Close, TypeOK
<1>9. ASSUME NEW n \in Node, Die(n) PROVE TypeOK'
  BY <1>9 DEF Die, TypeOK
<1>10. ASSUME NEW w \in Worker, AskGate(w) \/ AttemptFails(w) PROVE TypeOK'
  <2>1. pc' \in [Worker -> {"idle", "ready", "booking", "booked"}] /\ tries' \in [Worker -> 0..Attempts]
        /\ batch' \in [Worker -> [Counter -> Reading]]
    <3>1. CASE GiveUp(w)
      BY <3>1 DEF GiveUp, TypeOK
    <3>2. CASE pc' = [pc EXCEPT ![w] = "booking"] /\ UNCHANGED <<tries, batch>>
      BY <3>2 DEF TypeOK
    <3>3. CASE /\ tries[w] < Attempts /\ pc' = [pc EXCEPT ![w] = "ready"]
               /\ tries' = [tries EXCEPT ![w] = @ + 1] /\ UNCHANGED batch
      <4>1. tries[w] + 1 \in 0..Attempts
        BY <3>3 DEF TypeOK
      <4> QED
        BY <3>3, <4>1 DEF TypeOK
    <3> QED
      BY <1>10, <3>1, <3>2, <3>3 DEF AskGate, AttemptFails
  <2>2. UNCHANGED <<plc, made, base, booked, gate, link, owner, mem, told, inbox, pending>>
        /\ resets' = resets /\ faults' \in Nat /\ refusals' = refusals /\ loadFaults' = loadFaults
    BY <1>10 DEF AskGate, AttemptFails, TypeOK
  <2> QED
    BY <2>1, <2>2 DEF TypeOK
<1>11. ASSUME NEW w \in Worker, NEW F \in SUBSET Machine, Commit(w, F) PROVE TypeOK'
  <2>1. \A c \in Counter : Gain(mem[w[1]][c], batch[w][c]) \in Nat
    BY GainType, WorkerParts DEF TypeOK
  <2>2. booked' \in [Counter -> Nat]
    BY <1>11, <2>1 DEF Commit, TypeOK
  <2>3. base' \in [Counter -> Reading] /\ pending' \in [Worker -> [Counter -> Reading]]
    BY <1>11 DEF Commit, TypeOK, Reading
  <2>4. refusals' \in Nat
    BY <1>11 DEF Commit, TypeOK
  <2> QED
    BY <1>11, <2>2, <2>3, <2>4 DEF Commit, TypeOK
<1>12. ASSUME NEW w \in Worker, Remember(w) PROVE TypeOK'
  <2>1. mem' \in [Conn -> [Counter -> Reading]]
    BY <1>12, WorkerParts DEF Remember, TypeOK
  <2> QED
    BY <1>12, <2>1 DEF Remember, TypeOK
<1>13. CASE UNCHANGED bookingVars
  BY <1>13 DEF bookingVars, TypeOK
<1> QED
  BY <1>1, <1>2, <1>3, <1>4, <1>5, <1>6, <1>7, <1>8, <1>9, <1>10, <1>11, <1>12, <1>13
     DEF BookingStep, Plant, Reader, Book

LEMMA GateOfOneBox == ASSUME TypeOK, [Next]_vars PROVE UNCHANGED gate
<1> USE DEF Begin
<1>1. CASE Plant \/ Reader
  BY <1>1 DEF Plant, Make, Reset, Reader, Notify, Drain, Flush, Close,
              Book, AskGate, AttemptFails, Commit, Remember
<1>2. CASE Life
  BY <1>2 DEF Life, Connect, Stop, Crash
<1>3. CASE UNCHANGED vars
  BY <1>3 DEF vars
<1> QED
  BY <1>1, <1>2, <1>3 DEF Next

LEMMA InitTypes == InitBooking /\ gate \in [Node -> BOOLEAN] => TypeOK
BY NothingType, BoundsAssumption DEF InitBooking, TypeOK, Reading

(* Every variable keeps its type: baselines and readings are counts or     *)
(* None, and no attempt exceeds BOOK_ATTEMPTS (agent.py's retry loop).     *)
THEOREM TypeCorrect == Spec => []TypeOK
<1>1. Init => TypeOK
  BY InitTypes DEF Init
<1>2. TypeOK /\ [Next]_vars => TypeOK'
  BY TypeSteps, OneBoxSteps, GateOfOneBox DEF TypeOK
<1> QED
  BY <1>1, <1>2, PTL DEF Spec

-----------------------------------------------------------------------------
(* What connections that end quietly keep in order, on any number of       *)
(* boxes: a box has one connection at a time, whose consumer books while   *)
(* it is open and whose flush books while it ends.                         *)
Apart == \A j, k \in Up : owner[j] = owner[k] => j = k

Owned == \A k \in Up : owner[k] \in Node

InTurn == \A k \in Conn : /\ pc[<<k, "consumer">>] # "idle" => link[k] = "open"
                          /\ pc[<<k, "flush">>] # "idle" => link[k] = "flushing"

\* Readings are where a thread or a live handler holds them, and nowhere else.
Tidy == /\ \A k \in Conn : k \notin Up => inbox[k] = Nothing
        /\ \A w \in Worker : /\ pc[w] \in {"idle", "booked"} => batch[w] = Nothing
                             /\ pc[w] # "booked" => pending[w] = Nothing

Quiet == Apart /\ Owned /\ InTurn /\ Tidy

LEMMA InitQuiet == InitBooking => Quiet
BY DEF InitBooking, Quiet, Apart, Owned, InTurn, Tidy, Up, Worker

LEMMA QuietSteps == ASSUME QuietStop, TypeOK, Quiet, BookingStep PROVE Quiet'
<1> USE DEF TypeOK, Quiet, Apart, Owned, InTurn, Tidy, Up,
            plant, tables, handler, thread, bounds
<1>1. ASSUME NEW c \in Counter, Make(c) \/ Reset(c) PROVE Quiet'
  BY <1>1 DEF Make, Reset
<1>2. ASSUME NEW k \in Conn, NEW c \in Counter, Notify(k, c) PROVE Quiet'
  BY <1>2 DEF Notify
<1>3. ASSUME NEW k \in Conn, NEW n \in Node, Connect(k, n) PROVE Quiet'
  <2>1. /\ link' = [link EXCEPT ![k] = "open"] /\ owner' = [owner EXCEPT ![k] = n] /\ link[k] = "new"
        /\ UNCHANGED <<inbox, pc, batch, pending>>
    BY <1>3 DEF Connect
  <2>2. Up' = Up \cup {k} /\ k \notin Up
    BY <2>1
  <2>3. Apart' /\ Owned'
    <3>1. \A j \in Up : owner[j] # n
      BY <1>3 DEF Connect
    <3> QED
      BY <2>1, <2>2, <3>1
  <2>4. InTurn'
    BY <2>1, WorkersOf
  <2>5. Tidy'
    BY <2>1, <2>2
  <2> QED
    BY <2>3, <2>4, <2>5
<1>4. ASSUME NEW k \in Conn, Stop(k) PROVE Quiet'
  <2>1. /\ UNCHANGED <<owner, inbox, pc, batch, pending>> /\ link[k] = "open"
        /\ pc[<<k, "consumer">>] = "idle" /\ link' = [link EXCEPT ![k] = "closing"]
    BY <1>4, QuietStop DEF Stop
  <2>2. Up' = Up
    BY <2>1
  <2>3. InTurn'
    BY <2>1, WorkersOf
  <2> QED
    BY <2>1, <2>2, <2>3
<1>5. ASSUME NEW k \in Conn, Drain(k) PROVE Quiet'
  <2> DEFINE w == <<k, "consumer">>
  <2>0. w \in Worker /\ w[1] = k /\ <<k, "flush">> # w
    BY WorkersOf
  <2> HIDE DEF w
  <2>1. /\ UNCHANGED <<link, owner, pending>> /\ link[k] = "open" /\ pc[w] = "idle"
        /\ pc' = [pc EXCEPT ![w] = "ready"] /\ batch' = [batch EXCEPT ![w] = inbox[k]]
        /\ inbox' = [inbox EXCEPT ![k] = Nothing]
    BY <1>5, <2>0 DEF Drain, Begin, w
  <2>2. Apart' /\ Owned'
    BY <2>1
  <2>3. InTurn'
    BY <2>0, <2>1, WorkersOf DEF w
  <2>4. Tidy'
    BY <2>0, <2>1
  <2> QED
    BY <2>2, <2>3, <2>4
<1>6. ASSUME NEW k \in Conn, Flush(k) PROVE Quiet'
  <2> DEFINE w == <<k, "flush">>
  <2>0. w \in Worker /\ w[1] = k /\ <<k, "consumer">> # w
    BY WorkersOf
  <2> HIDE DEF w
  <2>1. /\ UNCHANGED <<owner, pending>> /\ link[k] = "closing" /\ pc[w] = "idle"
        /\ pc[<<k, "consumer">>] = "idle" /\ link' = [link EXCEPT ![k] = "flushing"]
    BY <1>6, <2>0, WorkersOf DEF Flush, Begin, w
  <2>2. \/ /\ pc' = [pc EXCEPT ![w] = "ready"] /\ batch' = [batch EXCEPT ![w] = inbox[k]]
           /\ inbox' = [inbox EXCEPT ![k] = Nothing]
        \/ UNCHANGED <<pc, batch, inbox>>
    BY <1>6, <2>0 DEF Flush, Begin, w
  <2>3. Up' = Up
    BY <2>1
  <2>4. Apart' /\ Owned'
    BY <2>1, <2>3
  <2>5. InTurn'
    <3> SUFFICES ASSUME NEW j \in Conn PROVE InTurn!(j)'
      OBVIOUS
    <3>1. CASE j = k
      BY <2>0, <2>1, <2>2, <3>1, WorkersOf DEF w
    <3>2. CASE j # k
      <4>1. <<j, "consumer">> # w /\ <<j, "flush">> # w
        BY <3>2 DEF w
      <4> QED
        BY <2>1, <2>2, <3>2, <4>1, WorkersOf
    <3> QED
      BY <3>1, <3>2
  <2>6. Tidy'
    BY <2>0, <2>1, <2>2, <2>3
  <2> QED
    BY <2>4, <2>5, <2>6
<1>7. ASSUME NEW k \in Conn, Close(k) PROVE Quiet'
  <2>1. /\ UNCHANGED <<owner, pc, batch, pending>> /\ link[k] = "flushing"
        /\ pc[<<k, "flush">>] = "idle" /\ link' = [link EXCEPT ![k] = "closed"]
        /\ inbox' = [inbox EXCEPT ![k] = Nothing]
    BY <1>7 DEF Close
  <2>2. Up' \subseteq Up
    BY <2>1
  <2>3. Apart' /\ Owned'
    BY <2>1, <2>2
  <2>4. InTurn'
    BY <2>1, WorkersOf
  <2>5. Tidy'
    BY <2>1
  <2> QED
    BY <2>3, <2>4, <2>5
<1>8. ASSUME NEW n \in Node, Die(n) PROVE Quiet'
  <2>1. /\ owner' = owner
        /\ link' = [k \in Conn |-> IF owner[k] = n THEN "closed" ELSE link[k]]
        /\ inbox' = [k \in Conn |-> IF owner[k] = n THEN Nothing ELSE inbox[k]]
        /\ pc' = [w \in Worker |-> IF owner[w[1]] = n THEN "idle" ELSE pc[w]]
        /\ batch' = [w \in Worker |-> IF owner[w[1]] = n THEN Nothing ELSE batch[w]]
        /\ pending' = [w \in Worker |-> IF owner[w[1]] = n THEN Nothing ELSE pending[w]]
    BY <1>8 DEF Die
  <2>2. Up' \subseteq Up
    BY <2>1
  <2>3. Apart' /\ Owned'
    BY <2>1, <2>2
  <2>4. InTurn'
    <3> SUFFICES ASSUME NEW k \in Conn PROVE InTurn!(k)'
      OBVIOUS
    <3>1. /\ pc'[<<k, "consumer">>] = IF owner[k] = n THEN "idle" ELSE pc[<<k, "consumer">>]
          /\ pc'[<<k, "flush">>] = IF owner[k] = n THEN "idle" ELSE pc[<<k, "flush">>]
      BY <2>1, WorkersOf
    <3> QED
      BY <2>1, <3>1
  <2>5. Tidy'
    BY <2>1
  <2> QED
    BY <2>3, <2>4, <2>5
<1>9. ASSUME NEW w \in Worker, Book(w) PROVE Quiet'
  <2>1. /\ UNCHANGED <<link, owner, inbox>>
        /\ \A v \in Worker : v # w =>
             pc'[v] = pc[v] /\ batch'[v] = batch[v] /\ pending'[v] = pending[v]
        /\ pc[w] # "idle"
        /\ pc'[w] \in {"idle", "booked"} => batch'[w] = Nothing
        /\ pc'[w] # "booked" => pending'[w] = Nothing
    BY <1>9 DEF Book, AskGate, AttemptFails, GiveUp, Commit, Remember
  <2> QED
    BY <2>1, WorkersOf, WorkerParts
<1>10. CASE UNCHANGED bookingVars
  BY <1>10 DEF bookingVars
<1> QED
  BY <1>1, <1>2, <1>3, <1>4, <1>5, <1>6, <1>7, <1>8, <1>9, <1>10
     DEF BookingStep, Plant, Reader

LEMMA QuietInvariant == ASSUME QuietStop PROVE Spec => []Quiet
<1>1. Init => Quiet
  BY InitQuiet DEF Init
<1>2. TypeOK /\ Quiet /\ [Next]_vars => Quiet'
  BY QuietSteps, OneBoxSteps
<1> QED
  BY <1>1, <1>2, TypeCorrect, PTL DEF Spec

LEMMA BusyIsUp ==
  ASSUME TypeOK, Quiet, NEW w \in Worker, pc[w] # "idle"
  PROVE  /\ w[1] \in Up
         /\ w[2] = "consumer" => link[w[1]] = "open"
         /\ w[2] = "flush" => link[w[1]] = "flushing"
<1>1. PICK k \in Conn, t \in {"consumer", "flush"} : w = <<k, t>>
  BY DEF Worker
<1>2. w[1] = k /\ w[2] = t
  BY <1>1
<1> QED
  BY <1>1, <1>2 DEF Quiet, InTurn, Up

\* A connection has one thread at work.
LEMMA OneBusy ==
  ASSUME TypeOK, Quiet, NEW w \in Worker, pc[w] # "idle",
         NEW v \in Worker, v # w, v[1] = w[1]
  PROVE  pc[v] = "idle"
<1> SUFFICES ASSUME pc[v] # "idle" PROVE FALSE
  BY DEF TypeOK
<1>1. v[2] = w[2]
  BY BusyIsUp, WorkerParts
<1> QED
  BY <1>1, WorkerParts

-----------------------------------------------------------------------------
(* The connections that can still commit a booking: their box holds its    *)
(* gate open, or an attempt of theirs has passed it already.               *)
Writers ==
  {k \in Up : gate[owner[k]] \/ \E t \in {"consumer", "flush"} : pc[<<k, t>>] = "booking"}

Single == \A j, k \in Writers : j = k

\* Nobody becomes one but a connection just made.
NoneRejoins == \A k \in Conn : (k \in Writers)' => k \in Writers \/ link[k] = "new"

LEMMA BookerWrites ==
  ASSUME TypeOK, Quiet, NEW w \in Worker, pc[w] = "booking"
  PROVE  w[1] \in Writers
<1>1. w[1] \in Up
  BY BusyIsUp
<1> QED
  BY <1>1, WorkerParts DEF Writers

\* But for a new connection, a step leaves no more writers than there were.
LEMMA WritersStay ==
  ASSUME TypeOK, BookingStep, NoneRejoins,
         ~\E k \in Conn, n \in Node : Connect(k, n)
  PROVE  Writers' \subseteq Writers
<1> SUFFICES \A k \in Conn : link[k] = "new" => link'[k] \notin {"open", "closing", "flushing"}
  BY DEF NoneRejoins, Writers, Up, TypeOK
<1> USE DEF plant, tables, handler, thread, bounds, TypeOK
<1>1. CASE Plant
  BY <1>1 DEF Plant, Make, Reset
<1>2. ASSUME NEW k \in Conn, NEW c \in Counter, Notify(k, c) PROVE link' = link
  BY <1>2 DEF Notify
<1>3. ASSUME NEW k \in Conn, Drain(k) \/ Flush(k) \/ Close(k) \/ Stop(k)
      PROVE  \A j \in Conn : link[j] = "new" => link'[j] = "new"
  BY <1>3 DEF Drain, Flush, Close, Stop, Begin
<1>4. ASSUME NEW w \in Worker, Book(w) PROVE link' = link
  BY <1>4 DEF Book, AskGate, AttemptFails, Commit, Remember
<1>5. ASSUME NEW n \in Node, Die(n)
      PROVE  \A j \in Conn : link[j] = "new" => link'[j] \in {"new", "closed"}
  BY <1>5 DEF Die
<1>6. CASE UNCHANGED bookingVars
  BY <1>6 DEF bookingVars
<1> QED
  BY <1>1, <1>2, <1>3, <1>4, <1>5, <1>6 DEF BookingStep, Reader

-----------------------------------------------------------------------------
(* The units a counter still has to give: how far the values rise from the *)
(* baseline over the batch being booked and the readings that wait to what *)
(* the counter shows now. A value that is missing is skipped, a fall (a    *)
(* reset) gives nothing.                                                   *)
Rise(x, y) == IF y > x THEN y - x ELSE 0

First(x, y) == IF x # None THEN x ELSE y

Owed(last, b, i, q) ==
  LET a == First(i, q)
      t == First(b, a)
  IN  Rise(First(last, t), t) + Rise(t, a) + Rise(a, q)

LEMMA OwedSteps ==
  ASSUME NEW last \in Reading, NEW b \in Reading, NEW i \in Reading, NEW q \in Nat
  PROVE  /\ Owed(last, b, i, q) \in Nat
         /\ Owed(last, b, i, q + 1) <= Owed(last, b, i, q) + 1
         /\ Owed(last, b, i, 0) <= Owed(last, b, i, q)
         /\ Owed(last, b, q, q) <= Owed(last, b, i, q)
         /\ Owed(last, i, None, q) <= Owed(last, None, i, q)
         /\ Owed(last, None, i, q) <= Owed(last, b, i, q)
         /\ Owed(last, b, None, q) <= Owed(last, b, i, q)
         /\ Owed(last, None, None, q) <= Owed(last, b, i, q)
<1> USE NoneAssumption DEF Owed, Rise, First, Reading
<1>1. CASE last = None
  BY <1>1
<1>2. CASE last \in Nat
  BY <1>2
<1> QED
  BY <1>1, <1>2

(* A booking measured from the baseline, or from nothing, books no more    *)
(* than the counter owed, and leaves the rest owed from the new baseline.  *)
LEMMA OwedBooked ==
  ASSUME NEW last \in Reading, NEW b \in Reading, NEW i \in Reading, NEW q \in Nat,
         NEW mine \in {None, last}, b # None
  PROVE  /\ Gain(mine, b) + Owed(b, None, i, q) <= Owed(last, b, i, q)
         /\ Gain(mine, b) \in Nat
<1> USE NoneAssumption DEF Owed, Rise, First, Reading, Gain
<1>1. CASE last = None
  BY <1>1
<1>2. CASE last \in Nat
  BY <1>2
<1> QED
  BY <1>1, <1>2

-----------------------------------------------------------------------------
(* last_counts follows the table: a handler that can commit remembers the  *)
(* committed baseline, or nothing when it could not be loaded, except      *)
(* between a commit and its update. On a box that lost the role it does    *)
(* not: the next box books meanwhile.                                      *)
Known(c) == IF loadFaults = 0 THEN {base[c]} ELSE {None, base[c]}

Follows ==
  /\ \A k \in Writers, c \in Counter :
       \/ mem[k][c] \in Known(c)
       \/ \E t \in {"consumer", "flush"} :
            pc[<<k, t>>] = "booked" /\ pending[<<k, t>>][c] # None
  /\ \A w \in Worker, c \in Counter :
       w[1] \in Writers /\ pc[w] = "booked" => pending[w][c] \in {None, base[c]}

LEMMA InitFollows == InitBooking => Follows
BY DEF InitBooking, Follows, Writers, Up

LEMMA FollowsSteps ==
  ASSUME TypeOK, Quiet, Single, Follows, BookingStep, NoneRejoins
  PROVE  Follows'
<1> USE DEF plant, tables, handler, thread, bounds
\* A step that leaves what the writers know and have committed alone.
<1>1. CASE /\ UNCHANGED <<base, loadFaults>> /\ Writers' \subseteq Writers
           /\ \A k \in Writers' : mem'[k] = mem[k]
           /\ \A w \in Worker : w[1] \in Writers' =>
                pending'[w] = pending[w] /\ (pc'[w] = "booked" <=> pc[w] = "booked")
  <2>1. ASSUME NEW k \in Writers', NEW c \in Counter
        PROVE  \/ mem'[k][c] \in Known(c)'
               \/ \E t \in {"consumer", "flush"} :
                    pc'[<<k, t>>] = "booked" /\ pending'[<<k, t>>][c] # None
    <3>1. Known(c)' = Known(c) /\ k \in Writers
      BY <1>1 DEF Known
    <3>2. k \in Conn
      BY <3>1 DEF Writers, Up
    <3>3. \A t \in {"consumer", "flush"} : <<k, t>> \in Worker /\ <<k, t>>[1] = k
      BY <3>2, WorkersOf
    <3> QED
      BY <1>1, <3>1, <3>3 DEF Follows
  <2>2. \A w \in Worker, c \in Counter :
          w[1] \in Writers' /\ pc'[w] = "booked" => pending'[w][c] \in {None, base'[c]}
    BY <1>1 DEF Follows
  <2> QED
    BY <2>1, <2>2 DEF Follows
<1>2. ASSUME NEW c \in Counter, Make(c) \/ Reset(c) PROVE Follows'
  BY <1>1, <1>2 DEF Make, Reset, Writers, Up
<1>3. ASSUME NEW k \in Conn, NEW c \in Counter, Notify(k, c) PROVE Follows'
  BY <1>1, <1>3 DEF Notify, Writers, Up
<1>4. ASSUME NEW k \in Conn, NEW n \in Node, Connect(k, n) PROVE Follows'
  <2>1. UNCHANGED <<base, pc, pending>> /\ Writers' \subseteq Writers \cup {k}
    <3>1. UNCHANGED <<base, pc, pending>> /\ \A j \in Conn : j # k => link'[j] = link[j]
      BY <1>4 DEF Connect, TypeOK
    <3> QED
      BY <3>1 DEF NoneRejoins, Writers, Up
  <2>2. \A c \in Counter : mem'[k][c] \in Known(c)' /\ Known(c) \subseteq Known(c)'
    <3>1. CASE mem' = [mem EXCEPT ![k] = base] /\ UNCHANGED loadFaults
      BY <2>1, <3>1 DEF TypeOK, Known
    <3>2. CASE mem' = [mem EXCEPT ![k] = Nothing] /\ loadFaults' = loadFaults + 1
      <4>1. loadFaults' # 0
        BY <3>2 DEF TypeOK
      <4> QED
        BY <2>1, <3>2, <4>1 DEF TypeOK, Nothing, Known
    <3> QED
      BY <1>4, <3>1, <3>2 DEF Connect
  <2>3. \A j \in Writers' : j # k => j \in Writers /\ j \in Conn /\ mem'[j] = mem[j]
    <3>1. \/ mem' = [mem EXCEPT ![k] = base]
          \/ mem' = [mem EXCEPT ![k] = Nothing]
      BY <1>4 DEF Connect
    <3>2. Writers' \subseteq Conn /\ DOMAIN mem = Conn
      BY DEF Writers, Up, TypeOK
    <3> QED
      BY <2>1, <3>1, <3>2
  <2>4. ASSUME NEW j \in Writers', NEW c \in Counter
        PROVE  \/ mem'[j][c] \in Known(c)'
               \/ \E t \in {"consumer", "flush"} :
                    pc'[<<j, t>>] = "booked" /\ pending'[<<j, t>>][c] # None
    <3>1. CASE j = k
      BY <2>2, <3>1
    <3>2. CASE j # k
      BY <2>1, <2>2, <2>3, <3>2 DEF Follows
    <3> QED
      BY <3>1, <3>2
  <2>5. ASSUME NEW w \in Worker, NEW c \in Counter, w[1] \in Writers', pc'[w] = "booked"
        PROVE  pending'[w][c] \in {None, base'[c]}
    <3>1. pc[w] = "booked" /\ w[1] # k
      <4>1. pc[w] = "booked"
        BY <2>1, <2>5
      <4>2. w[1] \in Up /\ k \notin Up
        BY <1>4, <4>1, BusyIsUp DEF Connect, Up
      <4> QED
        BY <4>1, <4>2
    <3> QED
      BY <2>1, <2>3, <2>5, <3>1 DEF Follows
  <2> QED
    BY <2>4, <2>5 DEF Follows
<1>5. CASE ~\E k \in Conn, n \in Node : Connect(k, n)
  <2>0. Writers' \subseteq Writers
    BY <1>5, WritersStay
  <2>1. ASSUME NEW k \in Conn, Stop(k) PROVE Follows'
    BY <1>1, <2>0, <2>1 DEF Stop
  <2>2. ASSUME NEW k \in Conn, Drain(k) \/ Flush(k) PROVE Follows'
    <3>1. UNCHANGED <<base, mem, pending, loadFaults>>
      BY <2>2 DEF Drain, Flush, Begin
    <3>2. \A w \in Worker : pc'[w] = "booked" <=> pc[w] = "booked"
      <4>1. CASE Begin(<<k, "consumer">>) /\ pc[<<k, "consumer">>] = "idle"
        BY <4>1, WorkersOf DEF Begin, TypeOK
      <4>2. CASE Begin(<<k, "flush">>) /\ link[k] = "closing"
        <5>1. pc[<<k, "flush">>] = "idle"
          BY <4>2, WorkersOf DEF Quiet, InTurn
        <5> QED
          BY <4>2, <5>1, WorkersOf DEF Begin, TypeOK
      <4>3. CASE UNCHANGED pc
        BY <4>3
      <4> QED
        BY <2>2, <4>1, <4>2, <4>3 DEF Drain, Flush
    <3> QED
      BY <1>1, <2>0, <3>1, <3>2
  <2>3. ASSUME NEW k \in Conn, Close(k) PROVE Follows'
    <3>1. k \notin Writers' /\ \A j \in Conn : j # k => mem'[j] = mem[j]
      BY <2>3 DEF Close, Writers, Up, TypeOK
    <3>2. \A j \in Writers' : mem'[j] = mem[j]
      BY <3>1 DEF Writers, Up
    <3> QED
      BY <1>1, <2>0, <2>3, <3>2 DEF Close
  <2>4. ASSUME NEW n \in Node, Die(n) PROVE Follows'
    <3>1. \A j \in Writers' : j \in Conn /\ owner[j] # n
      BY <2>4 DEF Die, Writers, Up
    <3>2. \A j \in Writers' : mem'[j] = mem[j]
      BY <2>4, <3>1 DEF Die
    <3>3. \A w \in Worker : w[1] \in Writers' => pending'[w] = pending[w] /\ pc'[w] = pc[w]
      BY <2>4, <3>1 DEF Die
    <3>4. UNCHANGED <<base, loadFaults>>
      BY <2>4 DEF Die
    <3> QED
      BY <1>1, <2>0, <3>2, <3>3, <3>4
  <2>5. ASSUME NEW w \in Worker, AskGate(w) \/ AttemptFails(w) PROVE Follows'
    <3>1. UNCHANGED <<base, mem, pending, loadFaults>>
      BY <2>5 DEF AskGate, AttemptFails
    <3>2. pc[w] # "booked" /\ \E s \in {"idle", "ready", "booking"} : pc' = [pc EXCEPT ![w] = s]
      BY <2>5 DEF AskGate, AttemptFails, GiveUp
    <3>3. \A v \in Worker : pc'[v] = "booked" <=> pc[v] = "booked"
      BY <3>2 DEF TypeOK
    <3> QED
      BY <1>1, <2>0, <3>1, <3>3
  <2>6. ASSUME NEW w \in Worker, NEW F \in SUBSET Machine, Commit(w, F) PROVE Follows'
    <3>1. /\ pc[w] = "booking" /\ UNCHANGED <<mem, link, loadFaults>>
          /\ pc' = [pc EXCEPT ![w] = "booked"]
          /\ \A c \in Counter :
               /\ pending'[w][c] = IF c \in Kept(w, F) THEN batch[w][c] ELSE None
               /\ base'[c] = IF c \in Kept(w, F) THEN batch[w][c] ELSE base[c]
          /\ \A c \in Kept(w, F) : batch[w][c] # None
      BY <2>6 DEF Commit, Kept, Moves, TypeOK
    <3>2. \A k \in Writers : k = w[1]
      BY <3>1, BookerWrites DEF Single
    <3>3. \A v \in Worker : v # w /\ v[1] = w[1] => pc[v] = "idle" /\ pc'[v] = "idle"
      BY <3>1, OneBusy DEF TypeOK
    <3>4. \A v \in Worker, c \in Counter :
            v[1] \in Writers' /\ pc'[v] = "booked" => pending'[v][c] \in {None, base'[c]}
      BY <2>0, <3>1, <3>2, <3>3
    <3>5. ASSUME NEW k \in Writers', NEW c \in Counter
          PROVE  \/ mem'[k][c] \in Known(c)'
                 \/ \E t \in {"consumer", "flush"} :
                      pc'[<<k, t>>] = "booked" /\ pending'[<<k, t>>][c] # None
      <4>1. k \in Writers /\ k \in Conn /\ w[1] = k
        BY <2>0, <3>2 DEF Writers, Up
      <4>2. w = <<k, w[2]>> /\ w[2] \in {"consumer", "flush"} /\ pc'[w] = "booked"
        BY <3>1, <4>1, WorkerParts DEF TypeOK
      <4>3. CASE c \in Kept(w, F)
        BY <3>1, <4>2, <4>3
      <4>4. CASE c \notin Kept(w, F)
        <5>1. \A t \in {"consumer", "flush"} : pc[<<k, t>>] # "booked"
          BY <3>1, <3>3, <4>1, WorkersOf
        <5>2. mem[k][c] \in Known(c)
          BY <4>1, <5>1 DEF Follows
        <5>3. Known(c)' = Known(c)
          BY <3>1, <4>4 DEF Known
        <5> QED
          BY <3>1, <5>2, <5>3
      <4> QED
        BY <4>3, <4>4
    <3> QED
      BY <3>4, <3>5 DEF Follows
  <2>7. ASSUME NEW w \in Worker, Remember(w) PROVE Follows'
    <3>1. /\ pc[w] = "booked" /\ UNCHANGED <<base, link, loadFaults>>
          /\ pc' = [pc EXCEPT ![w] = "idle"]
          /\ mem' = [mem EXCEPT ![w[1]] =
                 [c \in Counter |-> IF pending[w][c] # None THEN pending[w][c] ELSE @[c]]]
          /\ \A v \in Worker : v # w => pending'[v] = pending[v] /\ pc'[v] = pc[v]
      BY <2>7 DEF Remember, TypeOK
    <3>2. CASE w[1] \notin Writers
      <4>1. \A j \in Writers' : j \in Conn /\ j # w[1]
        BY <2>0, <3>2 DEF Writers, Up
      <4>3. \A j \in Writers' : mem'[j] = mem[j]
        BY <3>1, <4>1 DEF TypeOK
      <4>2. \A v \in Worker : v[1] \in Writers' => pending'[v] = pending[v] /\ pc'[v] = pc[v]
        BY <2>0, <3>1, <3>2
      <4> QED
        BY <1>1, <2>0, <3>1, <4>2, <4>3
    <3>3. CASE w[1] \in Writers
      <4>0. \A k \in Writers : k = w[1]
        BY <3>3 DEF Single
      <4>1. \A v \in Worker : v[1] \in Writers' => pc'[v] = "idle"
        BY <2>0, <3>1, <4>0, OneBusy DEF TypeOK
      <4>2. ASSUME NEW k \in Writers', NEW c \in Counter PROVE mem'[k][c] \in Known(c)'
        <5>1. k \in Writers /\ k \in Conn /\ w[1] = k /\ w = <<k, w[2]>>
          BY <2>0, <4>0, WorkerParts DEF Writers, Up
        <5>2. mem'[k][c] = IF pending[w][c] # None THEN pending[w][c] ELSE mem[k][c]
          <6>1. mem \in [Conn -> [Counter -> Reading]]
            BY DEF TypeOK
          <6>2. mem'[k] = [d \in Counter |-> IF pending[w][d] # None THEN pending[w][d] ELSE mem[k][d]]
            BY <3>1, <5>1, <6>1
          <6> QED
            BY <6>2
        <5>3. pending[w][c] \in {None, base[c]}
          BY <3>1, <3>3 DEF Follows, Known
        <5>4. ASSUME NEW t \in {"consumer", "flush"}, pc[<<k, t>>] = "booked" PROVE <<k, t>> = w
          BY <3>1, <5>1, <5>4, OneBusy, WorkersOf
        <5>5. mem[k][c] \in Known(c) \/ pending[w][c] # None
          BY <5>1, <5>4, SMTT(30) DEF Follows, Known
        <5> QED
          BY <3>1, <5>2, <5>3, <5>5 DEF Known
      <4> QED
        BY <4>1, <4>2 DEF Follows, Known
    <3> QED
      BY <3>2, <3>3
  <2>8. CASE UNCHANGED bookingVars
    BY <1>1, <2>0, <2>8 DEF bookingVars
  <2> QED
    BY <1>2, <1>3, <1>5, <2>1, <2>2, <2>3, <2>4, <2>5, <2>6, <2>7, <2>8
       DEF BookingStep, Plant, Reader, Book
<1> QED
  BY <1>4, <1>5

-----------------------------------------------------------------------------
\* The reading of c that a thread of connection k has still to book.
BatchOf(k, c) == First(batch[<<k, "consumer">>][c], batch[<<k, "flush">>][c])

\* The units of c that connection k still has to give.
OwedBy(k, c) == Owed(base[c], BatchOf(k, c), inbox[k][c], plc[c])

(* The strengthening of NeverInvent: what is booked, with all that is      *)
(* still owed on the way from the machine to the table through a           *)
(* connection that can commit it, was really made.                         *)
Covers ==
  \A c \in Counter :
    /\ booked[c] + Owed(base[c], None, None, plc[c]) <= made[c]
    /\ \A k \in Writers : booked[c] + OwedBy(k, c) <= made[c]

LEMMA CoverTypes ==
  ASSUME TypeOK, NEW k \in Conn, NEW c \in Counter
  PROVE  /\ base[c] \in Reading /\ inbox[k][c] \in Reading
         /\ plc[c] \in Nat /\ made[c] \in Nat /\ booked[c] \in Nat
         /\ batch[<<k, "consumer">>][c] \in Reading /\ batch[<<k, "flush">>][c] \in Reading
         /\ BatchOf(k, c) \in Reading
BY WorkersOf DEF TypeOK, BatchOf, First

\* A thread that books is the only one at work, so its batch is all there is.
LEMMA OneBatch ==
  ASSUME TypeOK, Quiet, NEW w \in Worker, pc[w] # "idle", NEW c \in Counter
  PROVE  BatchOf(w[1], c) = batch[w][c]
<1>1. PICK k \in Conn, t \in {"consumer", "flush"} : w = <<k, t>>
  BY DEF Worker
<1>2. w[1] = k
  BY <1>1
<1>3. \A v \in Worker : v # w /\ v[1] = k => batch[v][c] = None
  BY <1>2, OneBusy DEF Quiet, Tidy, Nothing
<1>4. CASE t = "consumer"
  <2>1. batch[<<k, "flush">>][c] = None
    BY <1>1, <1>3, <1>4, WorkersOf
  <2> QED
    BY <1>1, <1>2, <1>4, <2>1 DEF BatchOf, First
<1>5. CASE t = "flush"
  <2>1. batch[<<k, "consumer">>][c] = None
    BY <1>1, <1>3, <1>5, WorkersOf
  <2> QED
    BY <1>1, <1>2, <1>5, <2>1 DEF BatchOf, First
<1> QED
  BY <1>4, <1>5

LEMMA NoBatch ==
  ASSUME TypeOK, Quiet, NEW k \in Conn, NEW c \in Counter,
         pc[<<k, "consumer">>] = "idle", pc[<<k, "flush">>] = "idle"
  PROVE  BatchOf(k, c) = None
BY WorkersOf DEF Quiet, Tidy, Nothing, BatchOf, First

LEMMA InitCovers == InitBooking => Covers
<1> SUFFICES ASSUME InitBooking PROVE Covers
  OBVIOUS
<1>1. Writers = {}
  BY DEF InitBooking, Writers, Up
<1>2. ASSUME NEW c \in Counter
      PROVE  booked[c] + Owed(base[c], None, None, plc[c]) <= made[c]
  <2>1. base[c] = None /\ booked[c] = 0 /\ made[c] = 0 /\ plc[c] = 0
    BY DEF InitBooking, Nothing
  <2> QED
    BY <2>1, NoneAssumption DEF Owed, Rise, First
<1> QED
  BY <1>1, <1>2 DEF Covers

LEMMA CoversSteps ==
  ASSUME TypeOK, TypeOK', Quiet, Single, Follows, Covers, BookingStep, NoneRejoins
  PROVE  Covers'
<1> USE DEF plant, tables, handler, thread, bounds
<1>4. ASSUME NEW k \in Conn, NEW n \in Node, Connect(k, n) PROVE Covers'
  <2>1. /\ UNCHANGED <<plc, made, base, booked, batch, inbox, pc>>
        /\ \A j \in Conn : j # k => link'[j] = link[j]
        /\ k \notin Up
    BY <1>4 DEF Connect, Up, TypeOK
  <2>2. Writers' \subseteq Writers \cup {k}
    BY <2>1 DEF NoneRejoins, Writers, Up
  <2>3. ASSUME NEW c \in Counter PROVE booked'[c] + OwedBy(k, c)' <= made'[c]
    <3>1. inbox[k][c] = None
      BY <2>1 DEF Quiet, Tidy, Nothing
    <3>2. pc[<<k, "consumer">>] = "idle" /\ pc[<<k, "flush">>] = "idle"
      BY <2>1 DEF Quiet, InTurn, Up
    <3>3. BatchOf(k, c) = None
      BY <3>2, NoBatch
    <3>4. OwedBy(k, c)' = Owed(base[c], None, None, plc[c])
      BY <2>1, <3>1, <3>3 DEF OwedBy, BatchOf
    <3> QED
      BY <2>1, <3>4 DEF Covers
  <2>4. \A j \in Writers, c \in Counter : OwedBy(j, c)' = OwedBy(j, c)
    BY <2>1 DEF OwedBy, BatchOf
  <2> QED
    BY <2>1, <2>2, <2>3, <2>4 DEF Covers
\* Any other step leaves no more writers than there were.
<1> SUFFICES ASSUME ~\E k \in Conn, n \in Node : Connect(k, n) PROVE Covers'
  BY <1>4
<1>5. Writers' \subseteq Writers
  BY WritersStay
\* A step that leaves plant and tables alone and adds nothing that is owed.
<1>0. ASSUME UNCHANGED <<plc, made, base, booked>>,
             \A k \in Writers', c \in Counter : OwedBy(k, c)' <= OwedBy(k, c)
      PROVE  Covers'
  <2>1. \A k \in Writers', c \in Counter : booked'[c] + OwedBy(k, c)' <= made'[c]
    <3> SUFFICES ASSUME NEW k \in Writers', NEW c \in Counter
                 PROVE  booked'[c] + OwedBy(k, c)' <= made'[c]
      OBVIOUS
    <3>1. k \in Conn /\ booked[c] + OwedBy(k, c) <= made[c]
      BY <1>5 DEF Covers, Writers, Up
    <3>2. OwedBy(k, c) \in Nat /\ booked[c] \in Nat /\ made[c] \in Nat
      BY <3>1, CoverTypes, OwedSteps DEF OwedBy
    <3>3. OwedBy(k, c)' \in Nat
      <4>1. /\ base'[c] \in Reading /\ inbox'[k][c] \in Reading /\ plc'[c] \in Nat
            /\ BatchOf(k, c)' \in Reading
        BY <3>1, WorkersOf DEF TypeOK, BatchOf, First
      <4> QED
        BY <4>1, OwedSteps DEF OwedBy
    <3> QED
      BY <1>0, <3>1, <3>2, <3>3
  <2>2. \A c \in Counter : booked'[c] + Owed(base'[c], None, None, plc'[c]) <= made'[c]
    BY <1>0 DEF Covers
  <2> QED
    BY <2>1, <2>2 DEF Covers
<1>1. ASSUME NEW c \in Counter, Make(c) PROVE Covers'
  <2>1. /\ made' = [made EXCEPT ![c] = @ + 1] /\ plc' = [plc EXCEPT ![c] = @ + 1]
        /\ UNCHANGED <<base, booked, batch, inbox>>
    BY <1>1 DEF Make
  <2> SUFFICES ASSUME NEW d \in Counter
               PROVE  /\ booked[d] + Owed(base[d], None, None, plc'[d]) <= made'[d]
                      /\ \A k \in Writers : booked[d] + Owed(base[d], BatchOf(k, d), inbox[k][d], plc'[d]) <= made'[d]
    BY <1>5, <2>1 DEF Covers, OwedBy, BatchOf
  <2>2. CASE d # c
    BY <2>1, <2>2 DEF Covers, OwedBy, TypeOK
  <2>3. CASE d = c
    <3>1. plc'[d] = plc[d] + 1 /\ made'[d] = made[d] + 1
      BY <2>1, <2>3 DEF TypeOK
    <3>2. ASSUME NEW b \in Reading, NEW i \in Reading, booked[d] + Owed(base[d], b, i, plc[d]) <= made[d]
          PROVE  booked[d] + Owed(base[d], b, i, plc[d] + 1) <= made[d] + 1
      <4>1. /\ base[d] \in Reading /\ plc[d] \in Nat /\ plc[d] + 1 \in Nat
            /\ made[d] \in Nat /\ booked[d] \in Nat
        BY DEF TypeOK
      <4>2. /\ Owed(base[d], b, i, plc[d] + 1) <= Owed(base[d], b, i, plc[d]) + 1
            /\ Owed(base[d], b, i, plc[d]) \in Nat
        BY <4>1, OwedSteps
      <4>3. Owed(base[d], b, i, plc[d] + 1) \in Nat
        BY <4>1, OwedSteps
      <4> QED
        BY <3>2, <4>1, <4>2, <4>3
    <3>3. None \in Reading
      BY DEF Reading
    <3>4. \A k \in Writers : BatchOf(k, d) \in Reading /\ inbox[k][d] \in Reading
      BY CoverTypes DEF Writers, Up
    <3> QED
      BY <3>1, <3>2, <3>3, <3>4 DEF Covers, OwedBy
  <2> QED
    BY <2>2, <2>3
<1>2. ASSUME NEW c \in Counter, Reset(c) PROVE Covers'
  <2>1. /\ plc' = [plc EXCEPT ![c] = 0]
        /\ UNCHANGED <<made, base, booked, batch, inbox>>
    BY <1>2 DEF Reset
  <2> SUFFICES ASSUME NEW d \in Counter
               PROVE  /\ booked[d] + Owed(base[d], None, None, plc'[d]) <= made[d]
                      /\ \A k \in Writers : booked[d] + Owed(base[d], BatchOf(k, d), inbox[k][d], plc'[d]) <= made[d]
    BY <1>5, <2>1 DEF Covers, OwedBy, BatchOf
  <2>2. CASE d # c
    BY <2>1, <2>2 DEF Covers, OwedBy, TypeOK
  <2>3. CASE d = c
    <3>1. plc'[d] = 0
      BY <2>1, <2>3 DEF TypeOK
    <3>2. ASSUME NEW b \in Reading, NEW i \in Reading, booked[d] + Owed(base[d], b, i, plc[d]) <= made[d]
          PROVE  booked[d] + Owed(base[d], b, i, 0) <= made[d]
      <4>1. base[d] \in Reading /\ plc[d] \in Nat /\ made[d] \in Nat /\ booked[d] \in Nat
        BY DEF TypeOK
      <4>2. /\ Owed(base[d], b, i, 0) <= Owed(base[d], b, i, plc[d])
            /\ Owed(base[d], b, i, plc[d]) \in Nat /\ Owed(base[d], b, i, 0) \in Nat
        BY <4>1, OwedSteps
      <4> QED
        BY <3>2, <4>1, <4>2
    <3>3. None \in Reading
      BY DEF Reading
    <3>4. \A k \in Writers : BatchOf(k, d) \in Reading /\ inbox[k][d] \in Reading
      BY CoverTypes DEF Writers, Up
    <3> QED
      BY <3>1, <3>2, <3>3, <3>4 DEF Covers, OwedBy
  <2> QED
    BY <2>2, <2>3
<1>3. ASSUME NEW k \in Conn, NEW c \in Counter, Notify(k, c) PROVE Covers'
  <2>1. /\ inbox' = [inbox EXCEPT ![k][c] = plc[c]]
        /\ UNCHANGED <<plc, made, base, booked, batch>>
    BY <1>3 DEF Notify
  <2> SUFFICES ASSUME NEW j \in Writers, NEW d \in Counter PROVE OwedBy(j, d)' <= OwedBy(j, d)
    BY <1>0, <1>5, <2>1
  <2>2. j \in Conn
    BY DEF Writers, Up
  <2>3. inbox'[j][d] = IF j = k /\ d = c THEN plc[d] ELSE inbox[j][d]
    BY <2>1, <2>2 DEF TypeOK
  <2>4. Owed(base[d], BatchOf(j, d), plc[d], plc[d]) <= OwedBy(j, d) /\ OwedBy(j, d) \in Nat
    BY <2>2, CoverTypes, OwedSteps DEF OwedBy
  <2> QED
    BY <2>1, <2>3, <2>4 DEF OwedBy, BatchOf
\* A step that leaves what is owed as it is.
<1>6. ASSUME UNCHANGED <<plc, made, base, booked, batch, inbox>> PROVE Covers'
  BY <1>5, <1>6 DEF Covers, OwedBy, BatchOf
\* A thread takes what has arrived.
<1>7. ASSUME NEW k \in Conn, NEW t \in {"consumer", "flush"}, Begin(<<k, t>>),
             pc[<<k, "consumer">>] = "idle", pc[<<k, "flush">>] = "idle"
      PROVE  Covers'
  <2>1. /\ UNCHANGED <<plc, made, base, booked>>
        /\ batch' = [batch EXCEPT ![<<k, t>>] = inbox[k]]
        /\ inbox' = [inbox EXCEPT ![k] = Nothing]
    BY <1>7 DEF Begin
  <2> SUFFICES ASSUME NEW j \in Writers, NEW d \in Counter PROVE OwedBy(j, d)' <= OwedBy(j, d)
    BY <1>0, <1>5, <2>1
  <2>2. CASE j # k
    <3>1. j \in Conn
      BY DEF Writers, Up
    <3>2. inbox'[j] = inbox[j] /\ \A s \in {"consumer", "flush"} : batch'[<<j, s>>] = batch[<<j, s>>]
      BY <2>1, <2>2, <3>1, WorkersOf DEF TypeOK
    <3>3. OwedBy(j, d)' = OwedBy(j, d)
      BY <2>1, <3>2 DEF OwedBy, BatchOf
    <3>4. OwedBy(j, d) \in Nat
      BY <3>1, CoverTypes, OwedSteps DEF OwedBy
    <3> QED
      BY <3>3, <3>4
  <2>3. BatchOf(k, d) = None
    BY <1>7, NoBatch
  <2>4. inbox'[k][d] = None
    BY <2>1 DEF TypeOK, Nothing
  <2>5. BatchOf(k, d)' = inbox[k][d]
    <3>1. batch[<<k, "consumer">>][d] = None /\ batch[<<k, "flush">>][d] = None
      BY <1>7, WorkersOf DEF Quiet, Tidy, Nothing
    <3>2. CASE t = "consumer"
      <4>1. batch'[<<k, "consumer">>][d] = inbox[k][d] /\ batch'[<<k, "flush">>][d] = None
        BY <2>1, <3>1, <3>2, WorkersOf DEF TypeOK
      <4> QED
        BY <4>1 DEF BatchOf, First
    <3>3. CASE t = "flush"
      <4>1. batch'[<<k, "flush">>][d] = inbox[k][d] /\ batch'[<<k, "consumer">>][d] = None
        BY <2>1, <3>1, <3>3, WorkersOf DEF TypeOK
      <4> QED
        BY <4>1 DEF BatchOf, First
    <3> QED
      BY <3>2, <3>3
  <2>6. Owed(base[d], inbox[k][d], None, plc[d]) <= Owed(base[d], None, inbox[k][d], plc[d])
    BY CoverTypes, OwedSteps
  <2>7. CASE j = k
    BY <2>1, <2>3, <2>4, <2>5, <2>6, <2>7 DEF OwedBy
  <2> QED
    BY <2>2, <2>7
<1>8. ASSUME NEW k \in Conn, Drain(k) \/ Flush(k) PROVE Covers'
  <2>1. CASE Drain(k)
    <3>1. pc[<<k, "consumer">>] = "idle" /\ pc[<<k, "flush">>] = "idle"
      BY <2>1 DEF Drain, Quiet, InTurn
    <3> QED
      BY <1>7, <2>1, <3>1 DEF Drain
  <2>2. CASE Flush(k)
    <3>1. pc[<<k, "consumer">>] = "idle" /\ pc[<<k, "flush">>] = "idle"
      BY <2>2 DEF Flush, Quiet, InTurn
    <3> QED
      BY <1>6, <1>7, <2>2, <3>1 DEF Flush
  <2> QED
    BY <1>8, <2>1, <2>2
<1>9. ASSUME NEW k \in Conn, Close(k) PROVE Covers'
  <2>1. /\ UNCHANGED <<plc, made, base, booked, batch>> /\ inbox' = [inbox EXCEPT ![k] = Nothing]
        /\ k \notin Writers'
    BY <1>9 DEF Close, Writers, Up, TypeOK
  <2>2. \A j \in Writers' : inbox'[j] = inbox[j]
    BY <2>1 DEF Writers, Up, TypeOK
  <2>3. \A j \in Writers', c \in Counter : OwedBy(j, c)' = OwedBy(j, c)
    BY <2>1, <2>2 DEF OwedBy, BatchOf
  <2> QED
    BY <1>5, <2>1, <2>3 DEF Covers
<1>10. ASSUME NEW n \in Node, Die(n) PROVE Covers'
  <2>1. UNCHANGED <<plc, made, base, booked>>
    BY <1>10 DEF Die
  <2>2. \A j \in Writers' : j \in Conn /\ owner[j] # n
    BY <1>10 DEF Die, Writers, Up
  <2>3. \A j \in Writers' : /\ inbox'[j] = inbox[j]
                            /\ batch'[<<j, "consumer">>] = batch[<<j, "consumer">>]
                            /\ batch'[<<j, "flush">>] = batch[<<j, "flush">>]
    BY <1>10, <2>2, WorkersOf DEF Die
  <2>4. \A j \in Writers', c \in Counter : OwedBy(j, c)' = OwedBy(j, c)
    BY <2>1, <2>3 DEF OwedBy, BatchOf
  <2> QED
    BY <1>5, <2>1, <2>4 DEF Covers
\* A thread goes on with its batch, or lets it go.
<1>11. ASSUME NEW w \in Worker, AskGate(w) \/ AttemptFails(w) \/ Remember(w) PROVE Covers'
  <2>1. /\ pc[w] # "idle" /\ UNCHANGED <<plc, made, base, booked, inbox>>
        /\ batch' = batch \/ batch' = [batch EXCEPT ![w] = Nothing]
    BY <1>11 DEF AskGate, AttemptFails, GiveUp, Remember
  <2>2. CASE batch' = batch
    BY <1>6, <2>1, <2>2
  <2>3. CASE batch' = [batch EXCEPT ![w] = Nothing]
    <3> SUFFICES ASSUME NEW j \in Writers, NEW c \in Counter PROVE OwedBy(j, c)' <= OwedBy(j, c)
      BY <1>0, <1>5, <2>1
    <3>1. j \in Conn
      BY DEF Writers, Up
    <3>2. OwedBy(j, c) \in Nat
      BY <3>1, CoverTypes, OwedSteps DEF OwedBy
    <3>3. CASE j = w[1]
      <4>1. \A v \in Worker : v[1] = j => batch'[v][c] = None
        BY <2>1, <2>3, <3>3, OneBusy DEF TypeOK, Quiet, Tidy, Nothing
      <4>2. BatchOf(j, c)' = None
        BY <3>1, <4>1, WorkersOf DEF BatchOf, First
      <4>3. Owed(base[c], None, inbox[j][c], plc[c]) <= OwedBy(j, c)
        BY <3>1, CoverTypes, OwedSteps DEF OwedBy
      <4> QED
        BY <2>1, <4>2, <4>3 DEF OwedBy
    <3>4. CASE j # w[1]
      <4>1. \A t \in {"consumer", "flush"} : batch'[<<j, t>>] = batch[<<j, t>>]
        BY <2>3, <3>1, <3>4, WorkersOf DEF TypeOK
      <4>2. OwedBy(j, c)' = OwedBy(j, c)
        BY <2>1, <4>1 DEF OwedBy, BatchOf
      <4> QED
        BY <3>2, <4>2
    <3> QED
      BY <3>3, <3>4
  <2> QED
    BY <2>1, <2>2, <2>3
<1>12. ASSUME NEW w \in Worker, NEW F \in SUBSET Machine, Commit(w, F) PROVE Covers'
  <2>1. /\ pc[w] = "booking" /\ UNCHANGED <<plc, made, inbox, mem, link>>
        /\ batch' = [batch EXCEPT ![w] = Nothing]
        /\ \A c \in Counter :
             IF c \in Kept(w, F)
               THEN base'[c] = batch[w][c] /\ booked'[c] = booked[c] + Gain(mem[w[1]][c], batch[w][c])
               ELSE base'[c] = base[c] /\ booked'[c] = booked[c] + 0
        /\ \A c \in Kept(w, F) : batch[w][c] # None
    BY <1>12 DEF Commit, Kept, Moves
  <2>2. w[1] \in Conn /\ w[1] \in Writers /\ \A j \in Writers : j = w[1]
    BY <2>1, BookerWrites DEF Writers, Up, Single
  <2> SUFFICES ASSUME NEW c \in Counter
               PROVE  /\ booked'[c] + Owed(base'[c], None, None, plc[c]) <= made[c]
                      /\ booked'[c] + Owed(base'[c], None, inbox[w[1]][c], plc[c]) <= made[c]
    <3>1. ASSUME NEW v \in Worker, v[1] = w[1], NEW d \in Counter PROVE batch'[v][d] = None
      <4>1. CASE v = w
        BY <2>1, <4>1 DEF TypeOK, Nothing
      <4>2. CASE v # w
        <5>1. batch[v] = Nothing
          BY <2>1, <3>1, <4>2, OneBusy DEF Quiet, Tidy
        <5> QED
          BY <2>1, <4>2, <5>1 DEF TypeOK, Nothing
      <4> QED
        BY <4>1, <4>2
    <3>2. \A d \in Counter : BatchOf(w[1], d)' = None
      BY <2>2, <3>1, WorkersOf DEF BatchOf, First
    <3> QED
      BY <1>5, <2>1, <2>2, <3>2 DEF Covers, OwedBy
  <2> DEFINE i == inbox[w[1]][c]
  <2>3. /\ base[c] \in Reading /\ batch[w][c] \in Reading /\ i \in Reading
        /\ plc[c] \in Nat /\ made[c] \in Nat /\ booked[c] \in Nat
    BY <2>2 DEF TypeOK
  <2>4. booked[c] + Owed(base[c], batch[w][c], i, plc[c]) <= made[c]
    BY <2>1, <2>2, OneBatch DEF Covers, OwedBy
  <2>5. CASE c \in Kept(w, F)
    <3>1. mem[w[1]][c] \in {None, base[c]}
      <4>1. \A t \in {"consumer", "flush"} : pc[<<w[1], t>>] # "booked"
        BY <2>1, <2>2, OneBusy, WorkersOf
      <4> QED
        BY <2>2, <4>1, ZenonT(60) DEF Follows, Known
    <3> DEFINE g == Gain(mem[w[1]][c], batch[w][c])
    <3>2. /\ g + Owed(batch[w][c], None, i, plc[c]) <= Owed(base[c], batch[w][c], i, plc[c])
          /\ g \in Nat
      BY <2>1, <2>3, <2>5, <3>1, OwedBooked
    <3>3. /\ Owed(batch[w][c], None, None, plc[c]) <= Owed(batch[w][c], None, i, plc[c])
          /\ Owed(batch[w][c], None, None, plc[c]) \in Nat /\ Owed(batch[w][c], None, i, plc[c]) \in Nat
          /\ Owed(base[c], batch[w][c], i, plc[c]) \in Nat
      <4>1. None \in Reading
        BY DEF Reading
      <4> QED
        BY <2>3, <4>1, OwedSteps
    <3>4. base'[c] = batch[w][c] /\ booked'[c] = booked[c] + g
      BY <2>1, <2>5
    <3> HIDE DEF g, i
    <3> QED
      BY <2>3, <2>4, <3>2, <3>3, <3>4 DEF i
  <2>6. CASE c \notin Kept(w, F)
    <3>1. base'[c] = base[c] /\ booked'[c] = booked[c]
      BY <2>1, <2>3, <2>6
    <3>2. /\ Owed(base[c], None, i, plc[c]) <= Owed(base[c], batch[w][c], i, plc[c])
          /\ Owed(base[c], None, None, plc[c]) <= Owed(base[c], batch[w][c], i, plc[c])
          /\ Owed(base[c], batch[w][c], i, plc[c]) \in Nat
      BY <2>3, OwedSteps
    <3>3. Owed(base[c], None, None, plc[c]) \in Nat /\ Owed(base[c], None, i, plc[c]) \in Nat
      <4>1. None \in Reading
        BY DEF Reading
      <4> QED
        BY <2>3, <4>1, OwedSteps
    <3> QED
      BY <2>3, <2>4, <3>1, <3>2, <3>3
  <2> QED
    BY <2>5, <2>6
<1>13. ASSUME NEW k \in Conn, Stop(k) PROVE Covers'
  BY <1>6, <1>13 DEF Stop
<1>14. CASE UNCHANGED bookingVars
  BY <1>6, <1>14 DEF bookingVars
<1> QED
  BY <1>1, <1>2, <1>3, <1>8, <1>9, <1>10, <1>11, <1>12, <1>13, <1>14
     DEF BookingStep, Plant, Reader, Book

\* What was booked was made, whatever is still owed.
LEMMA CoversMeans == TypeOK /\ Covers => NeverInvent
<1> SUFFICES ASSUME TypeOK, Covers, NEW c \in Counter PROVE booked[c] <= made[c]
  BY DEF NeverInvent
<1>1. /\ base[c] \in Reading /\ plc[c] \in Nat /\ made[c] \in Nat /\ booked[c] \in Nat
      /\ None \in Reading
  BY DEF TypeOK, Reading
<1>2. Owed(base[c], None, None, plc[c]) \in Nat
  BY <1>1, OwedSteps
<1> QED
  BY <1>1, <1>2 DEF Covers

-----------------------------------------------------------------------------
(* How a connection comes to be a writer: it is made, and later an attempt *)
(* of its thread finds the gate open.                                      *)
LEMMA UpStays ==
  ASSUME TypeOK, BookingStep, NEW k \in Conn, k \in Up', link[k] # "new"
  PROVE  k \in Up /\ owner'[k] = owner[k]
<1> USE DEF plant, tables, handler, thread, bounds, TypeOK, Up
<1>1. CASE Plant
  BY <1>1 DEF Plant, Make, Reset
<1>2. ASSUME NEW j \in Conn, NEW c \in Counter, Notify(j, c) PROVE k \in Up /\ owner'[k] = owner[k]
  BY <1>2 DEF Notify
<1>3. ASSUME NEW j \in Conn, Drain(j) \/ Flush(j) \/ Close(j) \/ Stop(j)
      PROVE  k \in Up /\ owner'[k] = owner[k]
  BY <1>3 DEF Drain, Flush, Close, Stop, Begin
<1>4. ASSUME NEW w \in Worker, Book(w) PROVE k \in Up /\ owner'[k] = owner[k]
  BY <1>4 DEF Book, AskGate, AttemptFails, Commit, Remember
<1>5. ASSUME NEW n \in Node, Die(n) PROVE k \in Up /\ owner'[k] = owner[k]
  BY <1>5 DEF Die
<1>6. ASSUME NEW j \in Conn, NEW n \in Node, Connect(j, n) PROVE k \in Up /\ owner'[k] = owner[k]
  BY <1>6 DEF Connect
<1>7. CASE UNCHANGED bookingVars
  BY <1>7 DEF bookingVars
<1> QED
  BY <1>1, <1>2, <1>3, <1>4, <1>5, <1>6, <1>7 DEF BookingStep, Reader

\* A connection keeps its box for good.
LEMMA OwnerStays ==
  ASSUME TypeOK, BookingStep, NEW k \in Conn, link[k] # "new"
  PROVE  owner'[k] = owner[k]
<1> USE DEF plant, tables, handler, thread, bounds, TypeOK
<1>1. CASE Plant
  BY <1>1 DEF Plant, Make, Reset
<1>2. CASE Reader
  BY <1>2 DEF Reader, Notify, Drain, Flush, Close, Begin, Book, AskGate, AttemptFails,
              Commit, Remember
<1>3. ASSUME NEW j \in Conn, NEW n \in Node, Connect(j, n) PROVE owner'[k] = owner[k]
  BY <1>3 DEF Connect
<1>4. ASSUME NEW j \in Conn, Stop(j) PROVE owner'[k] = owner[k]
  BY <1>4 DEF Stop
<1>5. ASSUME NEW n \in Node, Die(n) PROVE owner'[k] = owner[k]
  BY <1>5 DEF Die
<1>6. CASE UNCHANGED bookingVars
  BY <1>6 DEF bookingVars
<1> QED
  BY <1>1, <1>2, <1>3, <1>4, <1>5, <1>6 DEF BookingStep

LEMMA BookingPassedTheGate ==
  ASSUME TypeOK, BookingStep, NEW w \in Worker, pc'[w] = "booking"
  PROVE  pc[w] = "booking" \/ (pc[w] = "ready" /\ AskGate(w) /\ gate[owner[w[1]]])
<1> USE DEF plant, tables, handler, thread, bounds, TypeOK
<1> DEFINE Goal == pc[w] = "booking" \/ (pc[w] = "ready" /\ AskGate(w) /\ gate[owner[w[1]]])
<1>1. CASE Plant
  BY <1>1 DEF Plant, Make, Reset
<1>2. ASSUME NEW j \in Conn, NEW c \in Counter, Notify(j, c) PROVE Goal
  BY <1>2 DEF Notify
<1>3. ASSUME NEW j \in Conn, Drain(j) \/ Flush(j) \/ Close(j) \/ Stop(j) PROVE Goal
  BY <1>3, WorkersOf DEF Drain, Flush, Close, Stop, Begin
<1>4. ASSUME NEW v \in Worker, AskGate(v) PROVE Goal
  BY <1>4 DEF AskGate, GiveUp
<1>5. ASSUME NEW v \in Worker, AttemptFails(v) \/ Remember(v) \/ \E F \in SUBSET Machine : Commit(v, F)
      PROVE  Goal
  BY <1>5 DEF AttemptFails, GiveUp, Commit, Remember
<1>6. ASSUME NEW n \in Node, Die(n) PROVE Goal
  BY <1>6 DEF Die
<1>7. ASSUME NEW j \in Conn, NEW n \in Node, Connect(j, n) PROVE Goal
  BY <1>7 DEF Connect
<1>8. CASE UNCHANGED bookingVars
  BY <1>8 DEF bookingVars
<1> QED
  BY <1>1, <1>2, <1>3, <1>4, <1>5, <1>6, <1>7, <1>8 DEF BookingStep, Reader, Book

\* So a connection that has its box's gate closed to it stays out.
LEMMA NobodyRejoins ==
  ASSUME TypeOK, BookingStep,
         \A k \in Up : gate'[owner[k]] => gate[owner[k]] \/ k \notin Up'
  PROVE  NoneRejoins
<1> SUFFICES ASSUME NEW k \in Conn, (k \in Writers)', link[k] # "new" PROVE k \in Writers
  BY DEF NoneRejoins
<1>1. k \in Up' /\ k \in Up /\ owner'[k] = owner[k]
  BY UpStays DEF Writers
<1>2. CASE gate'[owner'[k]]
  BY <1>1, <1>2 DEF Writers
<1>3. ASSUME NEW t \in {"consumer", "flush"}, pc'[<<k, t>>] = "booking" PROVE k \in Writers
  <2>1. <<k, t>> \in Worker /\ <<k, t>>[1] = k
    BY WorkersOf
  <2> QED
    BY <1>1, <1>3, <2>1, BookingPassedTheGate DEF Writers
<1> QED
  BY <1>2, <1>3 DEF Writers

-----------------------------------------------------------------------------
(* One box: its gate is always open, and it has one connection at a time.  *)
OneBox == \A m, n \in Node : m = n

GatesOpen == \A n \in Node : gate[n]

LEMMA GatesStayOpen == Spec => []GatesOpen
<1>1. Init => GatesOpen
  BY DEF Init, GatesOpen
<1>2. TypeOK /\ GatesOpen /\ [Next]_vars => GatesOpen'
  BY GateOfOneBox DEF GatesOpen
<1> QED
  BY <1>1, <1>2, TypeCorrect, PTL DEF Spec

LEMMA OneBoxIsSingle == ASSUME OneBox, Quiet PROVE Single
BY DEF Quiet, Apart, Owned, OneBox, Single, Writers

LEMMA NobodyRejoinsOneBox ==
  ASSUME TypeOK, Quiet, GatesOpen, [Next]_vars PROVE NoneRejoins
BY NobodyRejoins, OneBoxSteps DEF Quiet, Owned, GatesOpen

LEMMA FollowsOneBox == ASSUME OneBox, QuietStop PROVE Spec => []Follows
<1>1. Init => Follows
  BY InitFollows DEF Init
<1>2. TypeOK /\ Quiet /\ GatesOpen /\ Follows /\ [Next]_vars => Follows'
  BY FollowsSteps, OneBoxSteps, OneBoxIsSingle, NobodyRejoinsOneBox
<1> QED
  BY <1>1, <1>2, TypeCorrect, QuietInvariant, GatesStayOpen, PTL DEF Spec

LEMMA CoversOneBox == ASSUME OneBox, QuietStop PROVE Spec => []Covers
<1>1. Init => Covers
  BY InitCovers DEF Init
<1>2. TypeOK /\ TypeOK' /\ Quiet /\ GatesOpen /\ Follows /\ Covers /\ [Next]_vars => Covers'
  BY CoversSteps, OneBoxSteps, OneBoxIsSingle, NobodyRejoinsOneBox
<1> QED
  BY <1>1, <1>2, TypeCorrect, QuietInvariant, GatesStayOpen, FollowsOneBox, PTL DEF Spec

(* _counter_delta's "never invent production", for any number of counters, *)
(* machines, connections, resets, failures and restarts: on one box, when  *)
(* no connection is stopped over a booking thread that is still at work.   *)
THEOREM NeverInventOnOneBox == ASSUME OneBox, QuietStop PROVE Spec => []NeverInvent
BY CoversMeans, TypeCorrect, CoversOneBox, PTL

-----------------------------------------------------------------------------
(* Only a commit touches what is booked and the baselines. *)
LEMMA OnlyCommits ==
  ASSUME BookingStep, \A w \in Worker, F \in SUBSET Machine : ~Commit(w, F)
  PROVE  UNCHANGED <<base, booked>>
<1> USE DEF tables
<1>1. ASSUME NEW c \in Counter, Make(c) \/ Reset(c) PROVE UNCHANGED <<base, booked>>
  BY <1>1 DEF Make, Reset
<1>2. ASSUME NEW k \in Conn, NEW c \in Counter, Notify(k, c) PROVE UNCHANGED <<base, booked>>
  BY <1>2 DEF Notify
<1>3. ASSUME NEW k \in Conn, NEW n \in Node, Connect(k, n) PROVE UNCHANGED <<base, booked>>
  BY <1>3 DEF Connect
<1>4. ASSUME NEW k \in Conn, Stop(k) \/ Drain(k) \/ Flush(k) \/ Close(k)
      PROVE  UNCHANGED <<base, booked>>
  BY <1>4 DEF Stop, Drain, Flush, Close, Begin
<1>5. ASSUME NEW n \in Node, Die(n) PROVE UNCHANGED <<base, booked>>
  BY <1>5 DEF Die
<1>6. ASSUME NEW w \in Worker, Book(w) PROVE UNCHANGED <<base, booked>>
  BY <1>6 DEF Book, AskGate, AttemptFails, Remember
<1>7. CASE UNCHANGED bookingVars
  BY <1>7 DEF bookingVars
<1> QED
  BY <1>1, <1>2, <1>3, <1>4, <1>5, <1>6, <1>7 DEF BookingStep, Plant, Reader

LEMMA BaselineSteps ==
  ASSUME TypeOK, Quiet, Follows, BookingStep, NEW c \in Counter, base[c] # None,
         loadFaults = 0
  PROVE  /\ base'[c] # None
         /\ booked'[c] - booked[c] # 0 => base'[c] = base[c] + (booked'[c] - booked[c])
         /\ base'[c] > base[c] => booked'[c] - booked[c] = base'[c] - base[c]
<1> DEFINE Goal ==
      /\ base'[c] # None
      /\ booked'[c] - booked[c] # 0 => base'[c] = base[c] + (booked'[c] - booked[c])
      /\ base'[c] > base[c] => booked'[c] - booked[c] = base'[c] - base[c]
<1>1. base[c] \in Nat /\ booked[c] \in Nat
  BY DEF TypeOK, Reading
<1>2. ASSUME NEW w \in Worker, NEW F \in SUBSET Machine, Commit(w, F) PROVE Goal
  <2>1. /\ pc[w] = "booking"
        /\ base'[c] = IF c \in Kept(w, F) THEN batch[w][c] ELSE base[c]
        /\ booked'[c] = booked[c] + IF c \in Kept(w, F) THEN Gain(mem[w[1]][c], batch[w][c]) ELSE 0
    BY <1>2 DEF Commit
  <2>2. CASE c \notin Kept(w, F)
    <3>1. base'[c] = base[c] /\ booked'[c] = booked[c]
      BY <1>1, <2>1, <2>2
    <3> QED
      BY <1>1, <3>1
  <2>3. CASE c \in Kept(w, F)
    <3>1. w[1] \in Writers /\ w[1] \in Conn
      BY <2>1, BookerWrites DEF Writers, Up
    <3>2. \A t \in {"consumer", "flush"} : pc[<<w[1], t>>] # "booked"
      BY <2>1, <3>1, OneBusy, WorkersOf
    <3>3. mem[w[1]][c] = base[c]
      BY <3>1, <3>2, loadFaults = 0 DEF Follows, Known
    <3> DEFINE v == batch[w][c]
    <3>4. v \in Nat /\ Moves(base[c], v)
      BY <2>3, <3>3 DEF Kept, Moves, TypeOK, Reading
    <3>5. base'[c] = v /\ booked'[c] = booked[c] + Gain(base[c], v)
      BY <2>1, <2>3, <3>3
    <3> HIDE DEF v
    <3>6. Gain(base[c], v) = IF v > base[c] THEN v - base[c] ELSE 0
      BY <1>1, <3>4, NoneAssumption DEF Gain
    <3>7. CASE v > base[c]
      <4>1. booked'[c] - booked[c] = v - base[c]
        BY <1>1, <3>4, <3>5, <3>6, <3>7
      <4> QED
        BY <1>1, <3>4, <3>5, <4>1, NoneAssumption
    <3>8. CASE ~(v > base[c])
      <4>1. booked'[c] - booked[c] = 0
        BY <1>1, <3>4, <3>5, <3>6, <3>8
      <4> QED
        BY <1>1, <3>4, <3>5, <3>8, <4>1, NoneAssumption
    <3> QED
      BY <3>7, <3>8
  <2> QED
    BY <2>2, <2>3
<1>3. CASE UNCHANGED <<base, booked>>
  BY <1>1, <1>3
<1> QED
  BY <1>2, <1>3, OnlyCommits

(* counters.py's "the two cannot disagree", on one box whose connections   *)
(* end quietly, until one cannot load its baselines: every booking moves   *)
(* the baseline by the units it books, and nothing else raises a baseline. *)
THEOREM BaselinesAreBookings ==
  ASSUME OneBox, QuietStop PROVE Spec => BaselineIsBooking
<1>1. TypeOK /\ Quiet /\ Follows /\ [Next]_vars
      => [\A c \in Counter : LET units == booked'[c] - booked[c] IN
            base[c] # None /\ loadFaults = 0 =>
              /\ base'[c] # None
              /\ units # 0 => base'[c] = base[c] + units
              /\ base'[c] > base[c] => units = base'[c] - base[c]]_vars
  BY BaselineSteps, OneBoxSteps
<1> QED
  BY <1>1, TypeCorrect, QuietInvariant, FollowsOneBox, PTL DEF Spec, BaselineIsBooking

(* Every step of a reader that invents nothing is a step of the honest     *)
(* production count: a unit made, a booking of units that were made, or    *)
(* nothing the plant can see.                                              *)
LEMMA CountSteps ==
  ASSUME TypeOK, TypeOK', NeverInvent', BookingStep
  PROVE  [Count!Next]_(Count!vars)
<1> USE DEF Count!Next, Count!vars
<1>1. ASSUME NEW c \in Counter, Make(c) PROVE Count!Next
  BY <1>1 DEF Make, tables, Count!Make
<1>2. ASSUME NEW w \in Worker, NEW F \in SUBSET Machine, Commit(w, F) PROVE Count!Next
  <2>1. made' = made
    BY <1>2 DEF Commit, plant
  <2>2. ASSUME NEW c \in Counter PROVE booked[c] <= booked'[c]
    <3>1. Gain(mem[w[1]][c], batch[w][c]) \in Nat /\ booked[c] \in Nat
      BY GainType, WorkerParts DEF TypeOK
    <3> QED
      BY <1>2, <3>1 DEF Commit
  <2>3. \A c \in Counter : booked'[c] <= made[c]
    BY <2>1 DEF NeverInvent
  <2> QED
    BY <2>1, <2>2, <2>3 DEF TypeOK, Count!Book
<1>3. ASSUME ~\E c \in Counter : Make(c) PROVE made' = made
  <2>1. ASSUME NEW c \in Counter, Reset(c) PROVE made' = made
    BY <2>1 DEF Reset
  <2>2. ASSUME Reader PROVE made' = made
    BY <2>2 DEF Reader, Notify, Drain, Flush, Close, Begin, Book, AskGate, AttemptFails,
                Commit, Remember, plant
  <2>3. ASSUME NEW k \in Conn, NEW n \in Node, Connect(k, n) PROVE made' = made
    BY <2>3 DEF Connect, plant
  <2>4. CASE UNCHANGED bookingVars
    BY <2>4 DEF bookingVars, plant
  <2>5. ASSUME NEW k \in Conn, Stop(k) PROVE made' = made
    BY <2>5 DEF Stop, plant
  <2>6. ASSUME NEW n \in Node, Die(n) PROVE made' = made
    BY <2>6 DEF Die, plant
  <2> QED
    BY <1>3, <2>1, <2>2, <2>3, <2>4, <2>5, <2>6 DEF BookingStep, Plant
<1> QED
  BY <1>1, <1>2, <1>3, OnlyCommits

(* The reader on one box implements the honest production count.           *)
THEOREM CountIsHonest == ASSUME OneBox, QuietStop PROVE Spec => HonestCount
<1>1. Init => Count!Init
  BY DEF Init, InitBooking, Count!Init
<1>2. TypeOK /\ TypeOK' /\ NeverInvent' /\ [Next]_vars => [Count!Next]_(Count!vars)
  BY CountSteps, OneBoxSteps
<1> QED
  BY <1>1, <1>2, TypeCorrect, NeverInventOnOneBox, PTL DEF Spec, HonestCount, Count!Spec

-----------------------------------------------------------------------------
(* Several boxes. What their lease promises is proved in LeaseProofs; the  *)
(* reader's steps are steps of the lease, or leave it alone.               *)

LEMMA LeaseAssumptions == LP!TimesAssumption /\ LP!SlackAssumption /\ LP!NoRowAssumption
BY LeaseAssumption

LEMMA SameLease ==
  ASSUME NEW n \in Node
  PROVE  /\ L!AskClock(n) <=> LP!AskClock(n)
         /\ L!Claim(n) <=> LP!ClaimUpdate(n) \/ LP!ClaimSelect(n) \/ LP!ClaimInsert(n)
         /\ L!Taken(n) <=> LP!Taken(n)
         /\ L!Refused(n) <=> LP!Refused(n)
         /\ L!AskFails(n) <=> LP!AskFails(n)
         /\ L!Shutdown(n) <=> LP!Shutdown(n)
         /\ L!Crash(n) <=> LP!Crash(n)
         /\ L!Restart(n) <=> LP!Restart(n)
<1> USE DEF L!NoClaim, LP!NoClaim, L!Learn, LP!Learn, L!Proceed, LP!Proceed,
            L!Slept, LP!Slept, L!Gone, LP!Gone
<1>1. L!AskClock(n) <=> LP!AskClock(n)
  BY DEF L!AskClock, LP!AskClock
<1>2. L!Claim(n) <=> LP!ClaimUpdate(n) \/ LP!ClaimSelect(n) \/ LP!ClaimInsert(n)
  BY DEF L!Claim, L!ClaimUpdate, L!ClaimSelect, L!ClaimInsert, L!Free, L!LeaseOf,
         LP!ClaimUpdate, LP!ClaimSelect, LP!ClaimInsert, LP!Free, LP!LeaseOf
<1>3. L!Taken(n) <=> LP!Taken(n)
  BY DEF L!Taken, LP!Taken
<1>4. L!Refused(n) <=> LP!Refused(n)
  BY DEF L!Refused, LP!Refused
<1>5. L!AskFails(n) <=> LP!AskFails(n)
  BY DEF L!AskFails, LP!AskFails
<1>6. L!Shutdown(n) <=> LP!Shutdown(n)
  BY DEF L!Shutdown, LP!Shutdown
<1>7. L!Crash(n) <=> LP!Crash(n)
  BY DEF L!Crash, LP!Crash
<1>8. L!Restart(n) <=> LP!Restart(n)
  BY DEF L!Restart, LP!Restart
<1> QED
  BY <1>1, <1>2, <1>3, <1>4, <1>5, <1>6, <1>7, <1>8

\* The reader leaves the gates to the lease.
LEMMA ReaderLeavesGate == ASSUME ReaderStep PROVE UNCHANGED <<gate, leaseVars>>
<1> USE DEF Begin
<1>1. CASE Plant \/ Reader
  BY <1>1 DEF ReaderStep, Plant, Make, Reset, Reader, Notify, Drain, Flush, Close,
              Book, AskGate, AttemptFails, Commit, Remember
<1>2. ASSUME NEW k \in Conn, NEW n \in Node, Stop(k) \/ Connect(k, n) PROVE UNCHANGED gate
  BY <1>2 DEF Stop, Connect
<1>3. ASSUME NEW k \in Conn, Stop(k) PROVE UNCHANGED gate
  BY <1>3 DEF Stop
<1> QED
  BY <1>1, <1>2, <1>3 DEF ReaderStep, WorkConnects, LinkLost, RoleLost

LEMMA LeaseSpec == RSpec => LP!Spec
<1>1. RInit => LP!Init
  BY DEF RInit, L!Init, LP!Init
<1>2. [RNext]_allVars => [LP!Next]_(LP!vars)
  <2> USE DEF LP!Next
  <2>1. CASE Tick
    BY <2>1 DEF Tick, L!Tick, LP!Tick, L!Due, LP!Due
  <2>2. ASSUME NEW n \in Node, LeaseStep(n) PROVE LP!Next
    BY <2>2, SameLease DEF LeaseStep
  <2>3. ASSUME NEW n \in Node, Exit(n) PROVE LP!Next
    BY <2>3, SameLease DEF Exit
  <2>4. CASE ReaderStep
    BY <2>4, ReaderLeavesGate DEF leaseVars, LP!vars
  <2>5. CASE UNCHANGED allVars
    BY <2>5 DEF allVars, vars, leaseVars, LP!vars
  <2> QED
    BY <2>1, <2>2, <2>3, <2>4, <2>5 DEF RNext
<1> QED
  BY <1>1, <1>2, PTL DEF RSpec, LP!Spec

LEMMA LeaseTypes == RSpec => []LP!TypeOK
BY LeaseSpec, LP!TypeCorrect, LeaseAssumptions, PTL

(* Every variable of the reader keeps its type on several boxes too.       *)
THEOREM TypeCorrectOnSeveralBoxes == RSpec => []TypeOK
<1>1. RInit => TypeOK
  BY InitTypes DEF RInit, L!Init
<1>2. TypeOK /\ LP!TypeOK' /\ [RNext]_allVars => TypeOK'
  <2> SUFFICES ASSUME TypeOK, LP!TypeOK', [RNext]_allVars PROVE TypeOK'
    OBVIOUS
  <2>1. gate' \in [Node -> BOOLEAN]
    BY DEF LP!TypeOK
  <2> QED
    BY <2>1, TypeSteps, SeveralBoxesSteps
<1> QED
  BY <1>1, <1>2, LeaseTypes, PTL DEF RSpec

-----------------------------------------------------------------------------
(* A gate is open only on a node that works. A node that does not, and may *)
(* come to work by a claim of its own, has no connection left: so a        *)
(* connection that lost its gate does not get it back.                     *)
Dropped(n) == phase[n] # "work" /\ (phase[n] = "standby" => ask[n] # "idle")

GateIsWork ==
  \A n \in Node : /\ gate[n] => phase[n] = "work"
                  /\ phase[n] # "ended"
                  /\ phase[n] \in {"stopped", "down"} => ask[n] = "idle"

OutIsTornDown == \A n \in Node : Dropped(n) => TornDown(n)

LEMMA GateIsWorkInvariant == RSpec => []GateIsWork
<1>1. RInit => GateIsWork
  BY DEF RInit, L!Init, GateIsWork
<1>2. LP!TypeOK /\ GateIsWork /\ [RNext]_allVars => GateIsWork'
  <2> SUFFICES ASSUME LP!TypeOK, GateIsWork, [RNext]_allVars PROVE GateIsWork'
    OBVIOUS
  <2> USE DEF LP!TypeOK, GateIsWork
  <2>1. CASE Tick
    BY <2>1 DEF Tick, L!Tick
  <2>2. ASSUME NEW n \in Node, L!AskClock(n) \/ L!Claim(n) PROVE GateIsWork'
    BY <2>2 DEF L!AskClock, L!Claim, L!ClaimUpdate, L!ClaimSelect, L!ClaimInsert
  <2>3. ASSUME NEW n \in Node, L!Taken(n) \/ L!Refused(n) \/ L!AskFails(n) PROVE GateIsWork'
    <3>1. /\ ask[n] # "idle" /\ phase[n] \in {"standby", "work"}
          /\ ask' = [ask EXCEPT ![n] = "idle"]
      BY <2>3 DEF L!Taken, L!Refused, L!AskFails, L!Learn, L!NoClaim
    <3>2. \E got \in BOOLEAN :
            /\ gate' = [gate EXCEPT ![n] = got]
            /\ phase' = [phase EXCEPT ![n] = IF got THEN "work" ELSE "standby"]
      BY <2>3, <3>1 DEF L!Taken, L!Refused, L!AskFails, L!Learn, L!Proceed
    <3> QED
      BY <3>1, <3>2
  <2>4. ASSUME NEW n \in Node, L!Restart(n) \/ L!Shutdown(n) \/ L!Crash(n) PROVE GateIsWork'
    BY <2>4 DEF L!Restart, L!Shutdown, L!Crash, L!Gone, L!NoClaim
  <2>5. CASE UNCHANGED <<gate, phase, ask>>
    BY <2>5
  <2>6. ReaderStep \/ UNCHANGED allVars => UNCHANGED <<gate, phase, ask>>
    BY ReaderLeavesGate DEF leaseVars, allVars, vars
  <2> QED
    BY <2>1, <2>2, <2>3, <2>4, <2>5, <2>6 DEF RNext, LeaseStep, Exit
<1> QED
  BY <1>1, <1>2, LeaseTypes, PTL DEF RSpec

\* A step makes no connection but on a node that works.
LEMMA ConnectedAtWork ==
  ASSUME TypeOK, [RNext]_allVars, NEW k \in Conn, k \in Up'
  PROVE  \/ k \in Up /\ owner'[k] = owner[k]
         \/ \E n \in Node : phase[n] = "work" /\ owner'[k] = n /\ UNCHANGED <<gate, leaseVars>>
<1> USE DEF plant, tables, handler, thread, bounds, TypeOK, Up
<1>1. CASE link[k] # "new"
  BY <1>1, UpStays, SeveralBoxesSteps
<1>2. CASE link[k] = "new"
  <2>1. ASSUME UNCHANGED bookingVars PROVE FALSE
    BY <1>2, <2>1 DEF bookingVars
  <2>2. ASSUME NEW n \in Node, Die(n) PROVE FALSE
    BY <1>2, <2>2 DEF Die
  <2>3. ASSUME Plant PROVE FALSE
    BY <1>2, <2>3 DEF Plant, Make, Reset
  <2>4. ASSUME Reader PROVE FALSE
    <3>1. ASSUME NEW j \in Conn, NEW c \in Counter, Notify(j, c) PROVE FALSE
      BY <1>2, <3>1 DEF Notify
    <3>2. ASSUME NEW j \in Conn, Drain(j) \/ Flush(j) \/ Close(j) PROVE FALSE
      BY <1>2, <3>2 DEF Drain, Flush, Close, Begin
    <3>3. ASSUME NEW w \in Worker, Book(w) PROVE FALSE
      BY <1>2, <3>3 DEF Book, AskGate, AttemptFails, Commit, Remember
    <3> QED
      BY <2>4, <3>1, <3>2, <3>3 DEF Reader
  <2>5. ASSUME NEW j \in Conn, Stop(j) PROVE FALSE
    BY <1>2, <2>5 DEF Stop
  <2>6. ASSUME NEW j \in Conn, NEW n \in Node, WorkConnects(j, n)
        PROVE  phase[n] = "work" /\ owner'[k] = n
    BY <1>2, <2>6 DEF WorkConnects, Connect
  <2>7. ReaderStep /\ \E j \in Conn, n \in Node : WorkConnects(j, n)
    <3>1. ~Tick
      BY <2>1 DEF Tick
    <3>2. ~\E n \in Node : LeaseStep(n)
      BY <2>1 DEF LeaseStep
    <3>3. ~\E n \in Node : Exit(n)
      BY <2>2 DEF Exit
    <3>4. ~UNCHANGED allVars
      BY <2>1 DEF allVars, vars, bookingVars
    <3>5. ReaderStep
      BY <3>1, <3>2, <3>3, <3>4 DEF RNext
    <3> QED
      BY <2>3, <2>4, <2>5, <3>5 DEF ReaderStep, LinkLost, RoleLost
  <2> QED
    BY <2>6, <2>7, ReaderLeavesGate
<1> QED
  BY <1>1, <1>2

LEMMA OutIsTornDownInvariant == RSpec => []OutIsTornDown
<1>1. RInit => OutIsTornDown
  BY DEF RInit, InitBooking, OutIsTornDown, TornDown, Up
<1>2. TypeOK /\ LP!TypeOK /\ GateIsWork /\ OutIsTornDown /\ [RNext]_allVars => OutIsTornDown'
  <2> SUFFICES ASSUME TypeOK, LP!TypeOK, GateIsWork, OutIsTornDown, [RNext]_allVars
               PROVE  OutIsTornDown'
    OBVIOUS
  \* A node that had no connection left gets none, unless it works.
  <2>1. ASSUME NEW n \in Node, TornDown(n), phase[n] # "work" PROVE TornDown(n)'
    BY <2>1, ConnectedAtWork DEF TornDown, Up
  <2>2. ASSUME \A n \in Node : Dropped(n)' => Dropped(n) PROVE OutIsTornDown'
    BY <2>1, <2>2 DEF OutIsTornDown, Dropped
  <2> USE DEF LP!TypeOK, Dropped
  <2>3. CASE UNCHANGED <<phase, ask>>
    BY <2>2, <2>3
  <2>4. CASE Tick
    BY <2>3, <2>4 DEF Tick, L!Tick
  <2>5. ASSUME NEW n \in Node, L!AskClock(n), phase[n] = "standby" => TornDown(n) PROVE OutIsTornDown'
    <3>1. /\ phase' = phase /\ phase[n] \in {"standby", "work"}
          /\ ask' = [ask EXCEPT ![n] = "update"]
      BY <2>5 DEF L!AskClock
    <3>2. \A m \in Node \ {n} : Dropped(m)' => Dropped(m)
      BY <3>1
    <3>3. Dropped(n)' => TornDown(n) /\ phase[n] # "work"
      BY <2>5, <3>1
    <3> QED
      BY <2>1, <3>2, <3>3 DEF OutIsTornDown
  <2>6. ASSUME NEW n \in Node, L!Claim(n) PROVE OutIsTornDown'
    <3>1. ask[n] # "idle" /\ phase' = phase /\ \A m \in Node \ {n} : ask'[m] = ask[m]
      BY <2>6 DEF L!Claim, L!ClaimUpdate, L!ClaimSelect, L!ClaimInsert
    <3> QED
      BY <2>2, <3>1
  <2>7. ASSUME NEW n \in Node, L!Taken(n) \/ L!Refused(n) \/ L!AskFails(n) PROVE OutIsTornDown'
    <3>1. ask[n] # "idle" /\ ask' = [ask EXCEPT ![n] = "idle"]
      BY <2>7 DEF L!Taken, L!Refused, L!AskFails, L!Learn, L!NoClaim
    <3>2. phase[n] \in {"standby", "work"}
      BY <3>1 DEF GateIsWork
    <3>3. phase'[n] \in {"standby", "work"} /\ \A m \in Node \ {n} : phase'[m] = phase[m]
      BY <2>7, <3>2 DEF L!Taken, L!Refused, L!AskFails, L!Learn, L!Proceed
    <3> QED
      BY <2>2, <3>1, <3>3
  <2>8. ASSUME NEW n \in Node, L!Restart(n) PROVE OutIsTornDown'
    BY <2>2, <2>8 DEF L!Restart, L!NoClaim
  <2>9. ASSUME NEW n \in Node, Exit(n) PROVE OutIsTornDown'
    <3>1. TornDown(n)'
      BY <2>9 DEF Exit, Die, TornDown, Up
    <3>2. \A m \in Node \ {n} : Dropped(m)' => Dropped(m)
      BY <2>9 DEF Exit, L!Shutdown, L!Crash, L!Gone, L!NoClaim
    <3>3. \A m \in Node \ {n} : Dropped(m)' => TornDown(m)'
      BY <2>1, <3>2 DEF OutIsTornDown
    <3> QED
      BY <3>1, <3>3 DEF OutIsTornDown
  <2>10. ReaderStep \/ UNCHANGED allVars => UNCHANGED <<phase, ask>>
    BY ReaderLeavesGate DEF leaseVars, allVars, vars
  <2> QED
    BY <2>3, <2>4, <2>5, <2>6, <2>7, <2>8, <2>9, <2>10 DEF RNext, LeaseStep
<1> QED
  BY <1>1, <1>2, TypeCorrectOnSeveralBoxes, LeaseTypes, GateIsWorkInvariant, PTL DEF RSpec

-----------------------------------------------------------------------------
(* A booking under way on a timely plant: the box whose connection it is   *)
(* holds the live row until the transaction ends, even if it learns of a   *)
(* lost answer and closes its gate meanwhile. The clock does not pass the  *)
(* end of the lease, and nobody takes over a row that is live.             *)
Placed ==
  \A k \in Conn : /\ link[k] = "new" => \A t \in {"consumer", "flush"} : pc[<<k, t>>] = "idle"
                  /\ link[k] # "new" => owner[k] \in Node

BookerHolds == \A w \in Worker : pc[w] = "booking" => LP!Live /\ row.holder = owner[w[1]]

LEMMA PlacedBooker ==
  ASSUME Placed, NEW w \in Worker, pc[w] # "idle"
  PROVE  link[w[1]] # "new" /\ owner[w[1]] \in Node
<1>1. PICK k \in Conn, t \in {"consumer", "flush"} : w = <<k, t>>
  BY DEF Worker
<1>2. w[1] = k
  BY <1>1
<1> QED
  BY <1>1, <1>2 DEF Placed

LEMMA PlacedSteps == ASSUME TypeOK, Placed, BookingStep PROVE Placed'
<1> USE DEF plant, tables, handler, thread, bounds, TypeOK, Placed
<1>1. ASSUME UNCHANGED <<link, owner, pc>> PROVE Placed'
  BY <1>1
<1>2. CASE Plant
  BY <1>1, <1>2 DEF Plant, Make, Reset
<1>3. ASSUME NEW k \in Conn, NEW c \in Counter, Notify(k, c) PROVE Placed'
  BY <1>1, <1>3 DEF Notify
<1>4. ASSUME NEW k \in Conn, Stop(k) \/ Close(k) PROVE Placed'
  BY <1>4 DEF Stop, Close
<1>5. ASSUME NEW k \in Conn, NEW n \in Node, Connect(k, n) PROVE Placed'
  BY <1>5 DEF Connect
<1>6. ASSUME NEW k \in Conn, Drain(k) \/ Flush(k) PROVE Placed'
  <2>1. link[k] \in {"open", "closing"} /\ link'[k] # "new" /\ owner' = owner
    BY <1>6 DEF Drain, Flush, Begin
  <2>2. \A j \in Conn : j # k =>
          link'[j] = link[j] /\ \A t \in {"consumer", "flush"} : pc'[<<j, t>>] = pc[<<j, t>>]
    BY <1>6, WorkersOf DEF Drain, Flush, Begin
  <2> QED
    BY <2>1, <2>2
<1>7. ASSUME NEW w \in Worker, Book(w) PROVE Placed'
  <2>1. /\ UNCHANGED <<link, owner>> /\ pc[w] # "idle"
        /\ \A v \in Worker : v # w => pc'[v] = pc[v]
    BY <1>7 DEF Book, AskGate, AttemptFails, GiveUp, Commit, Remember
  <2>2. link[w[1]] # "new"
    BY <2>1, PlacedBooker
  <2>3. ASSUME NEW k \in Conn, k # w[1], NEW t \in {"consumer", "flush"}
        PROVE  pc'[<<k, t>>] = pc[<<k, t>>]
    <3>1. <<k, t>> \in Worker /\ <<k, t>>[1] = k
      BY WorkersOf
    <3> QED
      BY <2>1, <2>3, <3>1
  <2> QED
    BY <2>1, <2>2, <2>3
<1>8. ASSUME NEW n \in Node, Die(n) PROVE Placed'
  BY <1>8, WorkersOf DEF Die
<1>9. CASE UNCHANGED bookingVars
  BY <1>1, <1>9 DEF bookingVars
<1> QED
  BY <1>2, <1>3, <1>4, <1>5, <1>6, <1>7, <1>8, <1>9 DEF BookingStep, Reader

LEMMA PlacedInvariant == RSpec => []Placed
<1>1. RInit => Placed
  BY WorkersOf DEF RInit, InitBooking, Placed
<1>2. TypeOK /\ Placed /\ [RNext]_allVars => Placed'
  BY PlacedSteps, SeveralBoxesSteps
<1> QED
  BY <1>1, <1>2, TypeCorrectOnSeveralBoxes, PTL DEF RSpec

\* A live row stays live and with its holder while the clock stands still.
LEMMA LiveStays ==
  ASSUME LP!TypeOK, LP!AskedPast, LP!TimelyInv, NEW n \in Node,
         LeaseStep(n) \/ Exit(n), LP!Live
  PROVE  LP!Live' /\ row'.holder = row.holder
<1> USE LeaseAssumptions DEF LP!TypeOK, LP!Row, LP!Live
<1>1. CASE now' = now /\ row' = row
  BY <1>1
<1>2. CASE LP!ClaimUpdate(n) /\ LP!Free(n)
  <2>1. asked[n] <= now /\ now <= asked[n] + MaxDelay
    BY <1>2 DEF LP!ClaimUpdate, LP!AskedPast, LP!TimelyInv, LP!ClaimInTime
  <2>2. row.holder = n
    BY <1>2, <2>1 DEF LP!Free
  <2>3. row' = [holder |-> n, expires |-> asked[n] + LeaseTime] /\ now' = now
    BY <1>2 DEF LP!ClaimUpdate, LP!LeaseOf
  <2>4. asked[n] + LeaseTime > now
    BY <2>1
  <2>5. row' # NoRow
    BY <2>3
  <2> QED
    BY <2>2, <2>3, <2>4, <2>5
<1>3. CASE LP!ClaimUpdate(n) /\ ~LP!Free(n)
  BY <1>1, <1>3 DEF LP!ClaimUpdate
<1>4. CASE LP!ClaimSelect(n) \/ LP!ClaimInsert(n)
  BY <1>1, <1>4 DEF LP!ClaimSelect, LP!ClaimInsert
<1>5. CASE LP!AskClock(n) \/ LP!Taken(n) \/ LP!Refused(n) \/ LP!AskFails(n)
  BY <1>1, <1>5 DEF LP!AskClock, LP!Taken, LP!Refused, LP!AskFails, LP!Learn
<1>6. CASE LP!Shutdown(n) \/ LP!Crash(n) \/ LP!Restart(n)
  BY <1>1, <1>6 DEF LP!Shutdown, LP!Crash, LP!Gone, LP!Restart
<1> QED
  BY <1>2, <1>3, <1>4, <1>5, <1>6, SameLease DEF LeaseStep, Exit

LEMMA BookerHoldsInvariant == ASSUME Timely PROVE RSpec => []BookerHolds
<1> DEFINE Inv == /\ TypeOK /\ Placed /\ GateIsWork /\ BookerHolds
                  /\ LP!TypeOK /\ LP!AskedPast /\ LP!TimelyInv /\ LP!GateHonest
<1>1. RInit => BookerHolds
  BY DEF RInit, InitBooking, BookerHolds
<1>2. Inv /\ [RNext]_allVars => BookerHolds'
  <2> SUFFICES ASSUME Inv, [RNext]_allVars, NEW w \in Worker, pc'[w] = "booking"
               PROVE  LP!Live' /\ row'.holder = owner'[w[1]]
    BY DEF BookerHolds
  <2>1. CASE Tick
    BY <2>1, Timely DEF Tick, bookingVars, thread
  <2>2. ASSUME NEW n \in Node, LeaseStep(n) PROVE LP!Live' /\ row'.holder = owner'[w[1]]
    <3>1. UNCHANGED <<pc, owner>>
      BY <2>2 DEF LeaseStep, bookingVars, thread
    <3> QED
      BY <2>2, <3>1, LiveStays DEF BookerHolds
  <2>3. ASSUME NEW n \in Node, Exit(n) PROVE LP!Live' /\ row'.holder = owner'[w[1]]
    <3>1. pc[w] = "booking" /\ owner' = owner
      BY <2>3 DEF Exit, Die
    <3> QED
      BY <2>3, <3>1, LiveStays DEF BookerHolds
  <2>4. CASE ReaderStep
    <3>1. UNCHANGED <<now, row>>
      BY <2>4, ReaderLeavesGate DEF leaseVars
    <3>2. LP!Live' = LP!Live
      BY <3>1 DEF LP!Live
    <3>3. pc[w] = "booking" \/ (AskGate(w) /\ gate[owner[w[1]]])
      BY BookingPassedTheGate, SeveralBoxesSteps
    <3>4. pc[w] # "idle"
      BY <3>3 DEF AskGate
    <3>5. link[w[1]] # "new" /\ owner[w[1]] \in Node
      BY <3>4, PlacedBooker
    <3>6. owner'[w[1]] = owner[w[1]]
      BY <2>4, <3>5, OwnerStays, SeveralBoxesSteps, WorkerParts
    <3>7. CASE pc[w] = "booking"
      BY <3>1, <3>2, <3>6, <3>7 DEF BookerHolds
    <3>8. CASE gate[owner[w[1]]]
      <4>1. LP!Live /\ row.holder = owner[w[1]]
        BY <3>5, <3>8 DEF GateIsWork, LP!GateHonest, LP!Works
      <4> QED
        BY <3>1, <3>2, <3>6, <4>1
    <3> QED
      BY <3>3, <3>7, <3>8
  <2>5. CASE UNCHANGED allVars
    BY <2>5 DEF allVars, vars, leaseVars, thread, BookerHolds, LP!Live
  <2> QED
    BY <2>1, <2>2, <2>3, <2>4, <2>5 DEF RNext
<1>3. RSpec => [](LP!TypeOK /\ LP!AskedPast /\ LP!TimelyInv /\ LP!GateHonest)
  BY LeaseSpec, LP!TypeCorrect, LP!AskedPastInvariant, LP!TimelyInvInvariant,
     LP!GateHonestWhenTimely, LeaseAssumptions, Timely, PTL
<1> QED
  BY <1>1, <1>2, <1>3, TypeCorrectOnSeveralBoxes, PlacedInvariant, GateIsWorkInvariant,
     PTL DEF RSpec

(* What the reader's lease exists to prevent, for any number of boxes and  *)
(* all times of the lease: on a timely plant two boxes are never inside a  *)
(* booking transaction together.                                           *)
THEOREM OneBookerWhenTimely == ASSUME Timely PROVE RSpec => []OneBooker
<1>1. BookerHolds => OneBooker
  BY DEF BookerHolds, OneBooker
<1> QED
  BY <1>1, BookerHoldsInvariant, Timely, PTL

-----------------------------------------------------------------------------
(* So on a timely plant whose connections end quietly a single connection  *)
(* can commit, and the steps of a reader keep what they keep on one box.   *)
AtWork == /\ TypeOK /\ Quiet /\ GateIsWork /\ OutIsTornDown /\ BookerHolds
          /\ LP!TypeOK /\ LP!TimelyInv /\ LP!GateHonest

LEMMA QuietOnSeveralBoxes == ASSUME QuietStop PROVE RSpec => []Quiet
<1>1. RInit => Quiet
  BY InitQuiet DEF RInit
<1>2. TypeOK /\ Quiet /\ [RNext]_allVars => Quiet'
  BY QuietSteps, SeveralBoxesSteps
<1> QED
  BY <1>1, <1>2, TypeCorrectOnSeveralBoxes, PTL DEF RSpec

LEMMA AtWorkInvariant == ASSUME Timely, QuietStop PROVE RSpec => []AtWork
<1>1. LP!Spec => [](LP!TypeOK /\ LP!TimelyInv /\ LP!GateHonest)
  BY LP!TypeCorrect, LP!TimelyInvInvariant, LP!GateHonestWhenTimely, LeaseAssumptions,
     Timely, PTL
<1> QED
  BY <1>1, LeaseSpec, TypeCorrectOnSeveralBoxes, QuietOnSeveralBoxes, GateIsWorkInvariant,
     OutIsTornDownInvariant, BookerHoldsInvariant, Timely, QuietStop, PTL DEF AtWork

LEMMA SingleOnSeveralBoxes == ASSUME AtWork PROVE Single
<1>1. ASSUME NEW k \in Writers PROVE row.holder = owner[k]
  <2>1. owner[k] \in Node
    BY DEF AtWork, Quiet, Owned, Writers
  <2>2. CASE gate[owner[k]]
    BY <2>1, <2>2 DEF AtWork, GateIsWork, LP!GateHonest, LP!Works
  <2>3. ASSUME NEW t \in {"consumer", "flush"}, pc[<<k, t>>] = "booking"
        PROVE  row.holder = owner[k]
    <3>1. <<k, t>> \in Worker /\ <<k, t>>[1] = k
      BY WorkersOf DEF Writers, Up
    <3> QED
      BY <2>3, <3>1 DEF AtWork, BookerHolds
  <2> QED
    BY <2>2, <2>3 DEF Writers
<1> QED
  BY <1>1 DEF Single, AtWork, Quiet, Apart, Writers

LEMMA NobodyRejoinsSeveralBoxes ==
  ASSUME AtWork, [RNext]_allVars PROVE NoneRejoins
<1> SUFFICES ASSUME NEW k \in Up, gate'[owner[k]], ~gate[owner[k]] PROVE k \notin Up'
  BY NobodyRejoins, SeveralBoxesSteps DEF AtWork
<1> DEFINE n == owner[k]
<1>0. n \in Node
  BY DEF AtWork, Quiet, Owned
<1> HIDE DEF n
<1> USE <1>0 DEF LP!TypeOK, AtWork
<1>1. gate[n] # gate'[n] /\ gate'[n]
  BY DEF n
\* Only an answer opens a gate, and its node then has no connection left.
<1>2. ASSUME NEW m \in Node, L!Taken(m) \/ L!Refused(m) \/ L!AskFails(m) PROVE FALSE
  <2>1. m = n /\ ask[n] # "idle"
    BY <1>1, <1>2 DEF L!Taken, L!Refused, L!AskFails, L!Learn
  <2>2. phase[n] # "work"
    BY <1>1 DEF LP!TimelyInv, LP!Holding
  <2>3. TornDown(n)
    BY <2>1, <2>2 DEF OutIsTornDown, Dropped
  <2> QED
    BY <2>3 DEF TornDown, n
<1>3. ASSUME NEW m \in Node, L!AskClock(m) \/ L!Claim(m) PROVE FALSE
  BY <1>1, <1>3 DEF L!AskClock, L!Claim, L!ClaimUpdate, L!ClaimSelect, L!ClaimInsert
<1>4. ASSUME NEW m \in Node, L!Restart(m) \/ L!Shutdown(m) \/ L!Crash(m) PROVE FALSE
  BY <1>1, <1>4 DEF L!Restart, L!Shutdown, L!Crash, L!Gone
<1>5. CASE Tick
  BY <1>1, <1>5 DEF Tick, L!Tick
<1>6. CASE ReaderStep \/ UNCHANGED allVars
  BY <1>1, <1>6, ReaderLeavesGate DEF allVars, vars
<1> QED
  BY <1>2, <1>3, <1>4, <1>5, <1>6 DEF RNext, LeaseStep, Exit

LEMMA FollowsOnSeveralBoxes == ASSUME Timely, QuietStop PROVE RSpec => []Follows
<1>1. RInit => Follows
  BY InitFollows DEF RInit
<1>2. AtWork /\ Follows /\ [RNext]_allVars => Follows'
  <2> SUFFICES ASSUME AtWork, Follows, [RNext]_allVars PROVE Follows'
    OBVIOUS
  <2>1. TypeOK /\ Quiet
    BY DEF AtWork
  <2> QED
    BY <2>1, FollowsSteps, SeveralBoxesSteps, SingleOnSeveralBoxes, NobodyRejoinsSeveralBoxes
<1> QED
  BY <1>1, <1>2, AtWorkInvariant, Timely, QuietStop, PTL DEF RSpec

LEMMA CoversOnSeveralBoxes == ASSUME Timely, QuietStop PROVE RSpec => []Covers
<1>1. RInit => Covers
  BY InitCovers DEF RInit
<1>2. AtWork /\ AtWork' /\ Follows /\ Covers /\ [RNext]_allVars => Covers'
  <2> SUFFICES ASSUME AtWork, AtWork', Follows, Covers, [RNext]_allVars PROVE Covers'
    OBVIOUS
  <2>1. TypeOK /\ TypeOK' /\ Quiet
    BY DEF AtWork
  <2> QED
    BY <2>1, CoversSteps, SeveralBoxesSteps, SingleOnSeveralBoxes, NobodyRejoinsSeveralBoxes
<1> QED
  BY <1>1, <1>2, AtWorkInvariant, FollowsOnSeveralBoxes, Timely, QuietStop, PTL DEF RSpec

(* "Never invent production" on a redundant plant, for any number of       *)
(* boxes, counters, connections, crashes and takeovers: if the plant is    *)
(* timely and no connection is stopped over a thread still at work, no     *)
(* counter has more units booked than its machine made.                    *)
THEOREM NeverInventOnSeveralBoxes ==
  ASSUME Timely, QuietStop PROVE RSpec => []NeverInvent
BY CoversMeans, TypeCorrectOnSeveralBoxes, CoversOnSeveralBoxes, Timely, QuietStop, PTL

(* And the baselines go on from box to box: each box's bookings move them  *)
(* by the units it books, until one cannot load them.                      *)
THEOREM BaselinesOnSeveralBoxes ==
  ASSUME Timely, QuietStop PROVE RSpec => BaselineIsBooking
<1>1. AtWork /\ Follows /\ [RNext]_allVars
      => [\A c \in Counter : LET units == booked'[c] - booked[c] IN
            base[c] # None /\ loadFaults = 0 =>
              /\ base'[c] # None
              /\ units # 0 => base'[c] = base[c] + units
              /\ base'[c] > base[c] => units = base'[c] - base[c]]_vars
  BY BaselineSteps, SeveralBoxesSteps DEF AtWork
<1> QED
  BY <1>1, AtWorkInvariant, FollowsOnSeveralBoxes, Timely, QuietStop, PTL
     DEF RSpec, BaselineIsBooking

(* Seen from the plant, the boxes are one honest production count.         *)
THEOREM SeveralBoxesCountHonestly ==
  ASSUME Timely, QuietStop PROVE RSpec => HonestCount
<1>1. RInit => Count!Init
  BY DEF RInit, InitBooking, Count!Init
<1>2. TypeOK /\ TypeOK' /\ NeverInvent' /\ [RNext]_allVars => [Count!Next]_(Count!vars)
  BY CountSteps, SeveralBoxesSteps
<1> QED
  BY <1>1, <1>2, TypeCorrectOnSeveralBoxes, NeverInventOnSeveralBoxes, Timely, QuietStop,
     PTL DEF RSpec, HonestCount, Count!Spec
=============================================================================
