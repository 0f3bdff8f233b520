---------------------------- MODULE ErpSyncProofs ----------------------------
(***************************************************************************)
(* Theorems about ErpSync: for any orders, messages and connectors, any    *)
(* allowance of ERPNext, and any number of failures and put-backs.         *)
(***************************************************************************)
EXTENDS ErpSync, TLAPS

\* What every send is, whatever it came to.
SendStep(m) ==
  /\ step = "deliver" /\ m \in First(todo)
  /\ step' = "mark" /\ answer' \in {"ok", "failed", "refused"}
  /\ arrived' = arrived \/ Arrives(m)
  /\ faults' \in {faults, faults + 1} /\ UNCHANGED putBacks
  /\ UNCHANGED <<connector, mes, offer, rows, todo>>

(* Each way a send may go is a SendStep that touches ERPNext's books only  *)
(* for a completion: makes the entry if there is none, or asks for it.     *)
LEMMA SendIsStep ==
  ASSUME TypeOK, NEW m \in Message, Send(m)
  PROVE  /\ SendStep(m)
         /\ \/ UNCHANGED entries
            \/ m \in Stocked /\ entries[m] = 0 /\ Enter(m)
         /\ \/ UNCHANGED coming
            \/ m \in Stocked /\ coming' = [coming EXCEPT ![m] = @ + 1]
         /\ UNCHANGED outlived
<1> USE DEF TypeOK, SendStep, Answered, Another, books, bounds
<1>1. CASE connector = "erpnext" /\ m \in Stocked
  <2>1. SendCompletion(m) /\ step = "deliver" /\ m \in First(todo)
        /\ UNCHANGED <<connector, mes, offer, rows, todo>>
    BY <1>1 DEF Send
  <2>2. CASE SendFails(m)
    BY <2>1, <2>2 DEF SendFails
  <2>3. CASE Manufacture(m) /\ UNCHANGED <<coming, outlived>>
             /\ \/ Arrives(m) /\ Answered("ok") /\ UNCHANGED bounds
                \/ Another /\ Answered("failed") /\ (Arrives(m) \/ UNCHANGED arrived)
    BY <1>1, <2>1, <2>3 DEF Manufacture, HasEntry
  <2> QED
    BY <1>1, <2>1, <2>2, <2>3 DEF SendCompletion
<1>2. CASE ~(connector = "erpnext" /\ m \in Stocked)
  <2>1. SendPlain(m) /\ step = "deliver" /\ m \in First(todo)
        /\ UNCHANGED <<connector, mes, offer, rows, todo>>
    BY <1>2 DEF Send
  <2> QED
    BY <2>1 DEF SendPlain, SendFails
<1> QED
  BY <1>1, <1>2

(* What the worker has in hand is owed: nobody but the worker concludes a  *)
(* message, whoever puts one back. Without it a message that is marked     *)
(* failed could be one that no longer backs off.                           *)
DueIsOwed == \A m \in todo : status[m] = "pending"

LEMMA OwedInvariant == Spec => [](TypeOK /\ DueIsOwed)
<1>1. Init => TypeOK /\ DueIsOwed
  BY DEF Init, TypeOK, DueIsOwed
<1>2. TypeOK /\ DueIsOwed /\ [Next]_vars => (TypeOK /\ DueIsOwed)'
  <2> SUFFICES ASSUME TypeOK, DueIsOwed, [Next]_vars PROVE (TypeOK /\ DueIsOwed)'
    OBVIOUS
  <2> USE DEF TypeOK, DueIsOwed, mes, erp, books, worker, bounds
  <2>1. ASSUME NEW o \in Order, Plan(o) PROVE (TypeOK /\ DueIsOwed)'
    BY <2>1 DEF Plan
  <2>2. ASSUME NEW m \in Message, Queue(m) PROVE (TypeOK /\ DueIsOwed)'
    BY <2>2 DEF Queue, Becomes
  <2>3. ASSUME NEW m \in Message, BackoffEnds(m) PROVE (TypeOK /\ DueIsOwed)'
    BY <2>3 DEF BackoffEnds
  <2>4. ASSUME NEW m \in Message, PutBack(m) PROVE (TypeOK /\ DueIsOwed)'
    BY <2>4, BoundAssumption DEF PutBack, Becomes
  <2>5. ASSUME NEW m \in Message, Land(m) PROVE (TypeOK /\ DueIsOwed)'
    BY <2>5 DEF Land
  <2>6. CASE Fetch
    BY <2>6 DEF Fetch, New
  <2>7. ASSUME NEW o \in Order, Import(o) PROVE (TypeOK /\ DueIsOwed)'
    BY <2>7 DEF Import
  <2>8. ASSUME NEW o \in Order, Acknowledge(o) PROVE (TypeOK /\ DueIsOwed)'
    BY <2>8 DEF Acknowledge, Taken
  <2>9. CASE Ends
    BY <2>9 DEF Ends, Another, Taken
  <2>10. CASE Collect
    BY <2>10 DEF Collect
  <2>11. ASSUME NEW m \in Message, Send(m) PROVE (TypeOK /\ DueIsOwed)'
    BY <2>11, SendIsStep DEF SendStep, Arrives, Enter
  <2>12. ASSUME NEW m \in Message, MarkSent(m) PROVE (TypeOK /\ DueIsOwed)'
    BY <2>12 DEF MarkSent, Marked, First, Becomes
  <2>13. ASSUME NEW m \in Message, MarkError(m) PROVE (TypeOK /\ DueIsOwed)'
    BY <2>13 DEF MarkError, Marked, First, Becomes
  <2>14. ASSUME NEW m \in Message, MarkRefused(m) PROVE (TypeOK /\ DueIsOwed)'
    BY <2>14 DEF MarkRefused, Marked, First, Becomes
  <2>15. CASE Rest
    BY <2>15 DEF Rest
  <2>16. CASE UNCHANGED vars
    BY <2>16 DEF vars
  <2> QED
    BY <2>1, <2>2, <2>3, <2>4, <2>5, <2>6, <2>7, <2>8, <2>9, <2>10, <2>11, <2>12,
       <2>13, <2>14, <2>15, <2>16 DEF Next, Worker
<1> QED
  BY <1>1, <1>2, PTL DEF Spec

(* Every variable keeps its type, and only a message that is owed backs    *)
(* off.                                                                    *)
THEOREM TypeCorrect == Spec => []TypeOK
BY OwedInvariant, PTL

-----------------------------------------------------------------------------
(* Inbound *)

(* An order that waits to be acknowledged is recorded, and so is every     *)
(* order an API's connector has acknowledged.                              *)
RecordedFirst ==
  /\ step = "acknowledge" => \A o \in First(rows) : logged[o] # "none"
  /\ connector # "file" => \A o \in Order : offer[o] = "taken" => logged[o] # "none"

LEMMA RecordedFirstInvariant == Spec => []RecordedFirst
<1>1. Init => RecordedFirst
  BY DEF Init, RecordedFirst
<1>2. TypeOK /\ RecordedFirst /\ [Next]_vars => RecordedFirst'
  <2> SUFFICES ASSUME TypeOK, RecordedFirst, [Next]_vars PROVE RecordedFirst'
    OBVIOUS
  <2> USE DEF TypeOK, RecordedFirst, mes, erp, worker
  <2>1. ASSUME NEW o \in Order, Plan(o) PROVE RecordedFirst'
    BY <2>1 DEF Plan
  <2>2. CASE Fetch
    BY <2>2 DEF Fetch
  <2>3. ASSUME NEW o \in Order, Import(o) PROVE RecordedFirst'
    <3>1. First(rows') = First(rows) /\ \A p \in First(rows) : p = o
      BY <2>3, OrderAssumption DEF Import, First
    <3> QED
      BY <2>3, <3>1 DEF Import
  <2>4. ASSUME NEW o \in Order, Acknowledge(o) PROVE RecordedFirst'
    BY <2>4 DEF Acknowledge, Taken
  <2>5. CASE Ends
    BY <2>5 DEF Ends, Taken, First
  <2>6. ASSUME step' # "acknowledge", UNCHANGED <<connector, offer, logged>>
        PROVE  RecordedFirst'
    BY <2>6
  <2>7. ASSUME UNCHANGED <<connector, offer, logged, step, rows>> PROVE RecordedFirst'
    BY <2>7 DEF First
  <2>8. ASSUME NEW m \in Message, Send(m) PROVE RecordedFirst'
    BY <2>6, <2>8, SendIsStep DEF SendStep
  <2>9. ASSUME NEW m \in Message, MarkSent(m) \/ MarkError(m) \/ MarkRefused(m)
        PROVE  RecordedFirst'
    BY <2>6, <2>9 DEF MarkSent, MarkError, MarkRefused, Marked
  <2>10. CASE Collect \/ Rest
    BY <2>6, <2>10 DEF Collect, Rest
  <2>11. ASSUME NEW m \in Message, Queue(m) \/ BackoffEnds(m) \/ PutBack(m) \/ Land(m)
         PROVE  RecordedFirst'
    BY <2>7, <2>11 DEF Queue, BackoffEnds, PutBack, Land
  <2>12. CASE UNCHANGED vars
    BY <2>7, <2>12 DEF vars
  <2> QED
    BY <2>1, <2>2, <2>3, <2>4, <2>5, <2>8, <2>9, <2>10, <2>11, <2>12 DEF Next, Worker
<1> QED
  BY <1>1, <1>2, TypeCorrect, PTL DEF Spec

(* sync's "the interface never loses a message", for orders and an API's   *)
(* connector: what is acknowledged is recorded, wherever a cycle ends.     *)
THEOREM OrdersAreKept == Spec => []OrdersKept
<1>1. RecordedFirst => OrdersKept
  BY OrderAssumption DEF RecordedFirst, OrdersKept, NoOrderLost
<1> QED
  BY <1>1, RecordedFirstInvariant, PTL

-----------------------------------------------------------------------------
(* Outbound *)

(* A message that is about to be marked sent has arrived, and ERPNext has  *)
(* the stock entry of it; so has it of every completion that was.          *)
SentIsThere ==
  /\ step = "mark" /\ answer = "ok" =>
       \A m \in First(todo) :
         /\ arrived[m] > 0
         /\ connector = "erpnext" /\ m \in Stocked => entries[m] > 0
  /\ \A m \in Stocked : entries[m] <= 1 + outlived[m]
  /\ connector = "erpnext" =>
       \A m \in Stocked : status[m] = "sent" => entries[m] > 0

(* A send that went well has arrived, and made what ERPNext had not.       *)
LEMMA SendsArrive ==
  ASSUME TypeOK, NEW m \in Message, Send(m), answer' = "ok"
  PROVE  /\ arrived'[m] > 0
         /\ connector = "erpnext" /\ m \in Stocked => entries'[m] > 0
<1> USE DEF TypeOK, Answered, Arrives
<1>1. CASE connector = "erpnext" /\ m \in Stocked
  <2>1. SendCompletion(m)
    BY <1>1 DEF Send
  <2> QED
    BY <1>1, <2>1 DEF SendCompletion, SendFails, Manufacture, HasEntry, Enter
<1>2. CASE ~(connector = "erpnext" /\ m \in Stocked)
  BY <1>2 DEF Send, SendPlain, SendFails
<1> QED
  BY <1>1, <1>2

LEMMA SentIsThereInvariant == Spec => []SentIsThere
<1>1. Init => SentIsThere
  BY MessageAssumption DEF Init, SentIsThere
<1>2. TypeOK /\ SentIsThere /\ [Next]_vars => SentIsThere'
  <2> SUFFICES ASSUME TypeOK, SentIsThere, [Next]_vars PROVE SentIsThere'
    OBVIOUS
  <2> USE DEF TypeOK, SentIsThere, mes, erp, books, worker, bounds
  <2>1. ASSUME step' # "mark",
               UNCHANGED <<connector, entries, outlived>>,
               \A m \in Stocked : status'[m] = "sent" => status[m] = "sent"
        PROVE  SentIsThere'
    BY <2>1
  <2>2. ASSUME UNCHANGED <<connector, step, answer, todo, arrived, entries, outlived>>,
               \A m \in Stocked : status'[m] = "sent" => status[m] = "sent"
        PROVE  SentIsThere'
    BY <2>2 DEF First
  <2>3. ASSUME NEW m \in Message, Send(m) PROVE SentIsThere'
    <3>1. m \in First(todo) /\ UNCHANGED <<connector, status, todo, outlived>>
      BY <2>3, SendIsStep DEF SendStep
    <3>2. First(todo') = First(todo) /\ \A n \in First(todo) : n = m
      BY <3>1, MessageAssumption DEF First
    <3>3. \A n \in Stocked :
            /\ entries'[n] \in Nat /\ entries'[n] >= entries[n]
            /\ entries'[n] <= 1 + outlived[n]
      BY <2>3, SendIsStep DEF Enter
    <3> QED
      BY <2>3, <3>1, <3>2, <3>3, SendsArrive
  <2>4. ASSUME NEW m \in Message, MarkSent(m) PROVE SentIsThere'
    BY <2>4, MessageAssumption DEF MarkSent, Marked, Becomes
  <2>5. ASSUME NEW m \in Message, MarkError(m) \/ MarkRefused(m) PROVE SentIsThere'
    BY <2>1, <2>5, MessageAssumption DEF MarkError, MarkRefused, Marked, Becomes
  <2>6. ASSUME NEW m \in Message, Land(m) PROVE SentIsThere'
    BY <2>6 DEF Land, First
  <2>7. ASSUME NEW m \in Message, Queue(m) \/ BackoffEnds(m) \/ PutBack(m)
        PROVE  SentIsThere'
    BY <2>2, <2>7, MessageAssumption DEF Queue, BackoffEnds, PutBack, Becomes
  <2>8. CASE Fetch \/ Ends \/ Collect \/ Rest
    BY <2>1, <2>8 DEF Fetch, Ends, Collect, Rest
  <2>9. ASSUME NEW o \in Order, Import(o) \/ Acknowledge(o) PROVE SentIsThere'
    BY <2>1, <2>9 DEF Import, Acknowledge
  <2>10. ASSUME NEW o \in Order, Plan(o) PROVE SentIsThere'
    BY <2>2, <2>10 DEF Plan
  <2>11. CASE UNCHANGED vars
    BY <2>2, <2>11 DEF vars
  <2> QED
    BY <2>3, <2>4, <2>5, <2>6, <2>7, <2>8, <2>9, <2>10, <2>11 DEF Next, Worker
<1> QED
  BY <1>1, <1>2, TypeCorrect, PTL DEF Spec

(* The ERPNext page's "exactly one stock entry", for any allowance and any *)
(* number of failures, retries and put-backs: a second is one ERPNext made *)
(* after the MES had given up on it, and what is marked sent has one.      *)
THEOREM OneEntryOfEach == Spec => []OneEntry
<1>1. TypeOK /\ SentIsThere => OneEntry
  BY DEF SentIsThere, OneEntry
<1> QED
  BY <1>1, TypeCorrect, SentIsThereInvariant, PTL

-----------------------------------------------------------------------------
(* The worker's outbox implements AtLeastOnce: the initial states map to   *)
(* its initial state; a send is an arrival or nothing, a mark concludes    *)
(* one message, and every other step leaves or puts back what it touches.  *)
THEOREM OutboxIsDelivered == Spec => DeliversOutbox
<1> DEFINE fate == [m \in Message |-> CASE status[m] = "none"    -> "none"
                                        [] status[m] = "pending" -> "owed"
                                        [] status[m] = "sent"    -> "delivered"
                                        [] status[m] = "dead"    -> "given up"]
<1>1. Init => Out!Init
  BY DEF Init, Out!Init
<1>2. TypeOK /\ TypeOK' /\ DueIsOwed /\ SentIsThere /\ [Next]_vars => [Out!Next]_(Out!vars)
  <2> SUFFICES ASSUME TypeOK, TypeOK', DueIsOwed, SentIsThere, [Next]_vars
               PROVE  Out!Next \/ UNCHANGED Out!vars
    OBVIOUS
  <2> USE DEF TypeOK, mes, erp, worker
  <2>1. ASSUME UNCHANGED <<status, arrived>> PROVE UNCHANGED Out!vars
    BY <2>1 DEF Out!vars
  <2> DEFINE Step(m) == Out!Stay(m) \/ Out!Owe(m) \/ Out!Arrive(m) \/ Out!Conclude(m)
                          \/ Out!PutBack(m)
  <2>2. ASSUME NEW m \in Message, Step(m),
               \A n \in Message \ {m} : status'[n] = status[n] /\ arrived'[n] = arrived[n]
        PROVE  Out!Next
    <3>1. fate' \in [Message -> Out!Fate] /\ arrived' \in [Message -> Nat]
      BY DEF Out!Fate
    <3>2. \A n \in Message \ {m} : Out!Stay(n)
      BY <2>2 DEF Out!Stay
    <3> QED
      BY <2>2, <3>1, <3>2, ZenonT(60) DEF Out!Next
  <2>3. ASSUME NEW m \in Message, Queue(m) PROVE Out!Next
    BY <2>2, <2>3 DEF Queue, Becomes, Out!Owe
  <2>4. ASSUME NEW m \in Message, PutBack(m) PROVE Out!Next
    BY <2>2, <2>4 DEF PutBack, Becomes, Out!PutBack, Out!Stay
  <2>5. ASSUME NEW m \in Message, Send(m) PROVE Out!Next
    <3>1. status[m] = "pending" /\ UNCHANGED status
      BY <2>5, SendIsStep DEF SendStep, DueIsOwed, First
    <3>2. UNCHANGED arrived \/ arrived' = [arrived EXCEPT ![m] = @ + 1]
      BY <2>5, SendIsStep DEF SendStep, Arrives
    <3> QED
      BY <2>2, <3>1, <3>2 DEF Out!Arrive, Out!Stay
  <2>6. ASSUME NEW m \in Message, MarkSent(m) \/ MarkError(m) \/ MarkRefused(m)
        PROVE  Out!Next
    <3>1. status[m] = "pending" /\ UNCHANGED arrived
      BY <2>6 DEF MarkSent, MarkError, MarkRefused, Marked, DueIsOwed, First
    <3>2. \/ status' = [status EXCEPT ![m] = "sent"] /\ arrived[m] > 0
          \/ status' = [status EXCEPT ![m] = "dead"]
          \/ UNCHANGED status
      BY <2>6 DEF MarkSent, MarkError, MarkRefused, Marked, Becomes, SentIsThere
    <3>3. CASE UNCHANGED status
      BY <2>2, <3>1, <3>3 DEF Out!Stay
    <3>4. CASE status' = [status EXCEPT ![m] = "sent"] /\ arrived[m] > 0
      <4>1. status'[m] = "sent"
        BY <3>4
      <4> QED
        BY <2>2, <3>1, <3>4, <4>1 DEF Out!Conclude
    <3>5. CASE status' = [status EXCEPT ![m] = "dead"]
      <4>1. status'[m] = "dead"
        BY <3>5
      <4> QED
        BY <2>2, <3>1, <3>5, <4>1 DEF Out!Conclude
    <3> QED
      BY <3>2, <3>3, <3>4, <3>5
  <2>7. CASE Fetch \/ Collect \/ Rest \/ Ends
    BY <2>1, <2>7 DEF Fetch, Collect, Rest, Ends
  <2>8. ASSUME NEW o \in Order, Plan(o) \/ Import(o) \/ Acknowledge(o)
        PROVE  UNCHANGED Out!vars
    BY <2>1, <2>8 DEF Plan, Import, Acknowledge
  <2>9. ASSUME NEW m \in Message, BackoffEnds(m) \/ Land(m) PROVE UNCHANGED Out!vars
    BY <2>1, <2>9 DEF BackoffEnds, Land
  <2>10. CASE UNCHANGED vars
    BY <2>1, <2>10 DEF vars
  <2> QED
    BY <2>3, <2>4, <2>5, <2>6, <2>7, <2>8, <2>9, <2>10 DEF Next, Worker
<1> QED
  BY <1>1, <1>2, OwedInvariant, SentIsThereInvariant, PTL DEF Spec, DeliversOutbox, Out!Spec
=============================================================================
