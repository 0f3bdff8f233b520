-------------------------- MODULE WorkOrdersProofs --------------------------
(***************************************************************************)
(* Theorems about WorkOrders, for any orders, routings, machines and       *)
(* requests. Type correctness holds on every database. The rest is about   *)
(* transactions that run one at a time (Serial): with only that, no        *)
(* request decides on something it read before somebody else wrote.        *)
(***************************************************************************)
EXTENDS WorkOrders, TLAPS

Now == [status |-> status, step |-> step, good |-> good]

-----------------------------------------------------------------------------
(* What the session writes back *)

(* Saving keeps the types of the columns, whoever else wrote meanwhile.    *)
LEMMA SaveTyped ==
  ASSUME TypeOK, NEW p \in Request, Open(p), NEW new \in View, Save(p, new)
  PROVE  /\ status' \in [Order -> OrderStatus]
         /\ step' \in [Line -> OperationStatus]
         /\ good' \in [Line -> Nat]
         /\ view' \in [Request -> View \cup {None}]
<1>1. view' = [view EXCEPT ![p] = None]
  BY DEF Save
<1>2. status' = [x \in Order |-> IF new.status[x] = view[p].status[x]
                                  THEN status[x] ELSE new.status[x]]
  BY DEF Save, Written, TypeOK
<1>3. step' = [x \in Line |-> IF new.step[x] = view[p].step[x]
                               THEN step[x] ELSE new.step[x]]
  BY DEF Save, Written, TypeOK
<1>4. good' = [x \in Line |-> IF new.good[x] = view[p].good[x]
                               THEN good[x] ELSE new.good[x]]
  BY DEF Save, Written, TypeOK
<1>5. /\ new.status \in [Order -> OrderStatus]
      /\ new.step \in [Line -> OperationStatus]
      /\ new.good \in [Line -> Nat]
  BY DEF View
<1> QED
  BY <1>1, <1>2, <1>3, <1>4, <1>5 DEF TypeOK

(* What nobody else touched since is written back whole.                   *)
LEMMA SaveWhole ==
  ASSUME TypeOK, NEW p \in Request, view[p] = Now, NEW new \in View, Save(p, new)
  PROVE  /\ status' = new.status /\ step' = new.step /\ good' = new.good
         /\ view' = [view EXCEPT ![p] = None]
<1>1. /\ view[p].status = status /\ view[p].step = step /\ view[p].good = good
  BY DEF Now
<1>2. /\ new.status \in [Order -> OrderStatus]
      /\ new.step \in [Line -> OperationStatus]
      /\ new.good \in [Line -> Nat]
  BY DEF View
<1>3. status' = new.status
  <2>1. status' = [x \in Order |-> new.status[x]]
    BY <1>1 DEF Save, Written, TypeOK
  <2> QED
    BY <1>2, <2>1
<1>4. step' = new.step
  <2>1. step' = [x \in Line |-> new.step[x]]
    BY <1>1 DEF Save, Written, TypeOK
  <2> QED
    BY <1>2, <2>1
<1>5. good' = new.good
  <2>1. good' = [x \in Line |-> new.good[x]]
    BY <1>1 DEF Save, Written, TypeOK
  <2> QED
    BY <1>2, <2>1
<1> QED
  BY <1>3, <1>4, <1>5 DEF Save

(* What an operation makes of a view is a view again.                      *)
LEMMA Views ==
  ASSUME NEW v \in View, NEW o \in Order, NEW s \in Operation
  PROVE  /\ \A t \in OrderStatus : AsMoved(v, o, t) \in View
         /\ AsStarted(v, o, s) \in View
         /\ AsDone(v, o, s) \in View
         /\ AsMoved(AsDone(v, o, s), o, "completed") \in View
         /\ AsBooked(v, o, s) \in View
<1> USE DEF View, OrderStatus, OperationStatus, Line
<1>1. ASSUME NEW t \in OrderStatus PROVE AsMoved(v, o, t) \in View
  BY <1>1 DEF AsMoved
<1>2. AsStarted(v, o, s) \in View
  BY DEF AsStarted
<1>3. AsDone(v, o, s) \in View
  BY DEF AsDone
<1>4. AsMoved(AsDone(v, o, s), o, "completed") \in View
  <2>1. "completed" \in OrderStatus
    OBVIOUS
  <2> QED
    BY <1>3, <2>1 DEF AsMoved
<1>5. AsBooked(v, o, s) \in View
  <2> DEFINE more == [v.good EXCEPT ![<<o, s>>] = @ + 1]
  <2>1. more \in [Line -> Nat]
    OBVIOUS
  <2> HIDE DEF more
  <2>2. [v EXCEPT !.good = more] \in View
    BY <2>1
  <2> QED
    BY <2>2 DEF more, AsBooked
<1> QED
  BY <1>1, <1>2, <1>3, <1>4, <1>5

-----------------------------------------------------------------------------
(* Every column, record and reading keeps its type, on either database.    *)
THEOREM TypeCorrect == Spec => []TypeOK
<1>1. Init => TypeOK
  BY DEF Init, TypeOK, OrderStatus, OperationStatus
<1>2. TypeOK /\ [Next]_vars => TypeOK'
  <2> SUFFICES ASSUME TypeOK, [Next]_vars PROVE TypeOK'
    OBVIOUS
  <2> DEFINE Records ==
        /\ logged' \in [Line -> Nat]
        /\ unassigned' \in [Machine -> Nat]
        /\ confirmed' \in [Line -> Nat \cup {None}]
        /\ completion' \in [Order -> Nat \cup {None}]
        /\ lot' \in [Order -> Nat \cup {None}]
  <2>0. ASSUME NEW p \in Request, Open(p), NEW new \in View, Save(p, new), Records
        PROVE  TypeOK'
    BY <2>0, SaveTyped DEF TypeOK
  <2>1. \A p \in Request : Open(p) => view[p] \in View
    BY DEF TypeOK, Open
  <2>2. ASSUME UNCHANGED records PROVE Records
    BY <2>2 DEF records, TypeOK
  <2>3. ASSUME NEW p \in Request, Begin(p) PROVE TypeOK'
    BY <2>3 DEF Begin, TypeOK, View, columns, records
  <2>4. ASSUME NEW p \in Request, Rollback(p) PROVE TypeOK'
    BY <2>4 DEF Rollback, TypeOK, columns, records
  <2>5. ASSUME NEW p \in Request, NEW o \in Order, NEW t \in OrderStatus,
               Transition(p, o, t)
        PROVE  TypeOK'
    <3>1. PICK s \in Operation : TRUE
      BY RoutingAssumption
    <3> QED
      BY <2>0, <2>1, <2>2, <2>5, Views DEF Transition
  <2>6. ASSUME NEW p \in Request, NEW o \in Order, Create(p, o) PROVE TypeOK'
    <3>1. PICK s \in Operation : TRUE
      BY RoutingAssumption
    <3>2. "planned" \in OrderStatus
      BY DEF OrderStatus
    <3> QED
      BY <2>0, <2>1, <2>2, <2>6, <3>2, Views DEF Create
  <2>7. ASSUME NEW p \in Request, NEW o \in Order, NEW s \in Operation,
               StartOperation(p, o, s)
        PROVE  TypeOK'
    BY <2>0, <2>1, <2>2, <2>7, Views DEF StartOperation
  <2>8. ASSUME NEW p \in Request, NEW o \in Order, NEW s \in Operation,
               Open(p)
        PROVE  /\ <<o, s>> \in Line
               /\ view[p].good[<<o, s>>] \in Nat /\ view[p].good[<<o, Final>>] \in Nat
    BY <2>1, <2>8, RoutingAssumption DEF View, Line
  <2>9. ASSUME NEW p \in Request, NEW o \in Order, NEW s \in Operation,
               CompleteOperation(p, o, s)
        PROVE  TypeOK'
    <3>1. confirmed' \in [Line -> Nat \cup {None}]
      BY <2>8, <2>9 DEF CompleteOperation, Queue, TypeOK
    <3>2. Records
      BY <2>9, <3>1 DEF CompleteOperation, TypeOK
    <3> QED
      BY <2>0, <2>1, <2>9, <3>2, Views DEF CompleteOperation
  <2>10. ASSUME NEW p \in Request, NEW o \in Order, NEW s \in Operation,
                CompleteOrder(p, o, s)
         PROVE  TypeOK'
    <3>1. confirmed' \in [Line -> Nat \cup {None}]
      BY <2>8, <2>10 DEF CompleteOrder, Queue, TypeOK
    <3>2. completion' \in [Order -> Nat \cup {None}]
      BY <2>8, <2>10 DEF CompleteOrder, Queue, TypeOK
    <3>3. lot' \in [Order -> Nat \cup {None}]
      BY <2>8, <2>10 DEF CompleteOrder, TypeOK
    <3>4. Records
      BY <2>10, <3>1, <3>2, <3>3 DEF CompleteOrder, TypeOK
    <3> QED
      BY <2>0, <2>1, <2>10, <3>4, Views DEF CompleteOrder
  <2>11. ASSUME NEW p \in Request, NEW o \in Order, NEW s \in Operation,
                NEW counted \in BOOLEAN, Open(p), BookOn(p, o, s, counted)
         PROVE  TypeOK'
    <3>1. PICK v \in View : Book(p, v, o, s)
      BY <2>1, <2>11, Views DEF BookOn
    <3>2. logged' \in [Line -> Nat]
      <4>1. <<o, s>> \in Line
        BY DEF Line
      <4>2. logged' = [logged EXCEPT ![<<o, s>>] = @ + 1]
        BY <3>1 DEF Book
      <4> QED
        BY <4>1, <4>2 DEF TypeOK
    <3>3. Records
      BY <3>1, <3>2 DEF Book, TypeOK
    <3> QED
      BY <2>0, <2>11, <3>1, <3>3, Views DEF Book
  <2>12. ASSUME NEW p \in Request, NEW m \in Machine, ReportUnassigned(p, m)
         PROVE  TypeOK'
    <3>1. Records
      BY <2>12 DEF ReportUnassigned, TypeOK
    <3> QED
      BY <2>0, <2>1, <2>12, <3>1 DEF ReportUnassigned
  <2>13. CASE UNCHANGED vars
    BY <2>13 DEF vars, columns, records, TypeOK
  <2>14. {"released", "cancelled", "on_hold", "running", "closed"} \subseteq OrderStatus
    BY DEF OrderStatus
  <2>15. ASSUME NEW p \in Request, NEW o \in Order,
                \/ Release(p, o) \/ Cancel(p, o) \/ Hold(p, o)
                \/ Resume(p, o) \/ Close(p, o)
         PROVE  TypeOK'
    <3>1. PICK t \in OrderStatus : Transition(p, o, t)
      BY <2>14, <2>15 DEF Release, Cancel, Hold, Resume, Close
    <3> QED
      BY <2>5, <3>1
  <2>16. ASSUME NEW p \in Request, NEW o \in Order, NEW s \in Operation,
                NEW counted \in BOOLEAN,
                \/ \E seqs \in {{s}, Operation} : ReportOrder(p, o, seqs, s, counted)
                \/ ReportMachine(p, o, s, counted)
         PROVE  TypeOK'
    <3>1. Open(p) /\ BookOn(p, o, s, counted)
      BY <2>16 DEF ReportOrder, ReportMachine
    <3> QED
      BY <2>11, <3>1
  <2> QED
    BY <2>3, <2>4, <2>6, <2>7, <2>9, <2>10, <2>12, <2>13, <2>15, <2>16 DEF Next
<1> QED
  BY <1>1, <1>2, PTL DEF Spec

-----------------------------------------------------------------------------
(* One transaction at a time                                               *)

Atomic ==
  /\ \A p \in Request : Open(p) => view[p] = Now
  /\ \A p, q \in Request : Open(p) /\ Open(q) => p = q

(* What a request does then is done to the order as it is. Nothing here    *)
(* reads a view.                                                           *)

Created(o) ==
  /\ status[o] = "none" /\ status' = [status EXCEPT ![o] = "planned"]
  /\ UNCHANGED <<step, good, records>>

Moved(o, t) ==
  /\ t \in Transitions(status[o]) \ {"completed"}
  /\ t = "running" => \E s \in Operation : step[<<o, s>>] # "pending"
  /\ status' = [status EXCEPT ![o] = t]
  /\ UNCHANGED <<step, good, records>>

Begun(o, s) ==
  /\ status[o] \in {"released", "running"} /\ step[<<o, s>>] = "pending"
  /\ status' = [status EXCEPT ![o] = "running"]
  /\ step' = [step EXCEPT ![<<o, s>>] = "running"]

Booked(o, s) ==
  /\ status[o] \notin {"none", "on_hold"}
  /\ \/ Begun(o, s)
     \/ step[<<o, s>>] = "running" /\ UNCHANGED <<status, step>>
  /\ good' = [good EXCEPT ![<<o, s>>] = @ + 1]
  /\ logged' = [logged EXCEPT ![<<o, s>>] = @ + 1]
  /\ UNCHANGED <<confirmed, completion, lot>>

Done(o, s) ==
  /\ step[<<o, s>>] = "running"
  /\ step' = [step EXCEPT ![<<o, s>>] = "done"]
  /\ confirmed' = Queue(confirmed, <<o, s>>, good[<<o, s>>])
  /\ UNCHANGED <<good, logged>>

NotLast(o, s) ==
  /\ Done(o, s) /\ ~\A r \in Operation : step'[<<o, r>>] = "done"
  /\ UNCHANGED <<status, completion, lot>>

Last(o, s) ==
  /\ Done(o, s) /\ \A r \in Operation : step'[<<o, r>>] = "done"
  /\ status[o] = "running" /\ status' = [status EXCEPT ![o] = "completed"]
  /\ completion' = Queue(completion, o, good[<<o, Final>>])
  /\ \/ good[<<o, Final>>] = 0 /\ UNCHANGED lot
     \/ good[<<o, Final>>] > 0 /\ lot' = [lot EXCEPT ![o] = good[<<o, Final>>]]

Nothing == UNCHANGED <<columns, logged, confirmed, completion, lot>>

AtomicStep ==
  \/ Nothing
  \/ \E o \in Order :
       \/ Created(o)
       \/ \E t \in OrderStatus : Moved(o, t)
       \/ \E s \in Operation :
            \/ Begun(o, s) /\ UNCHANGED <<good, records>>
            \/ Booked(o, s) \/ NotLast(o, s) \/ Last(o, s)

(* The columns of what an operation makes of a view.                       *)
LEMMA MovedColumns ==
  ASSUME NEW v \in View, NEW o \in Order, NEW t \in OrderStatus
  PROVE  /\ AsMoved(v, o, t).status = [v.status EXCEPT ![o] = t]
         /\ AsMoved(v, o, t).step = v.step
         /\ AsMoved(v, o, t).good = v.good
<1>1. v = [status |-> v.status, step |-> v.step, good |-> v.good]
  BY DEF View
<1> QED
  BY <1>1 DEF AsMoved

LEMMA StartedColumns ==
  ASSUME NEW v \in View, NEW o \in Order, NEW s \in Operation
  PROVE  /\ AsStarted(v, o, s).status = [v.status EXCEPT ![o] = "running"]
         /\ AsStarted(v, o, s).step = [v.step EXCEPT ![<<o, s>>] = "running"]
         /\ AsStarted(v, o, s).good = v.good
<1>1. v = [status |-> v.status, step |-> v.step, good |-> v.good]
  BY DEF View
<1> QED
  BY <1>1 DEF AsStarted

LEMMA DoneColumns ==
  ASSUME NEW v \in View, NEW o \in Order, NEW s \in Operation
  PROVE  /\ AsDone(v, o, s).status = v.status
         /\ AsDone(v, o, s).step = [v.step EXCEPT ![<<o, s>>] = "done"]
         /\ AsDone(v, o, s).good = v.good
<1>1. v = [status |-> v.status, step |-> v.step, good |-> v.good]
  BY DEF View
<1> QED
  BY <1>1 DEF AsDone

LEMMA BookedColumns ==
  ASSUME NEW v \in View, NEW o \in Order, NEW s \in Operation
  PROVE  /\ AsBooked(v, o, s).status = v.status
         /\ AsBooked(v, o, s).step = v.step
         /\ AsBooked(v, o, s).good = [v.good EXCEPT ![<<o, s>>] = @ + 1]
<1>1. v = [status |-> v.status, step |-> v.step, good |-> v.good]
  BY DEF View
<1> QED
  BY <1>1 DEF AsBooked

(* One transaction at a time is all that Serial says, and all it takes:    *)
(* each step of the requests is a step on the orders as they are.          *)
LEMMA Steps ==
  ASSUME Serial, TypeOK, Atomic, [Next]_vars
  PROVE  Atomic' /\ AtomicStep
<1> DEFINE Goal == Atomic' /\ AtomicStep
<1>0. \A p \in Request : Open(p) => view[p] = Now /\ Now \in View
  BY DEF Atomic, TypeOK, Now, View
<1>1. ASSUME NEW p \in Request, Open(p), view' = [view EXCEPT ![p] = None]
      PROVE  Atomic'
  BY <1>1 DEF Atomic, Open, TypeOK
<1>2. ASSUME NEW p \in Request, Open(p), NEW new \in View, Save(p, new)
      PROVE  /\ status' = new.status /\ step' = new.step /\ good' = new.good
             /\ Atomic'
  BY <1>0, <1>1, <1>2, SaveWhole
<1>3. Now.status = status /\ Now.step = step /\ Now.good = good
  BY DEF Now
<1>4. ASSUME NEW p \in Request, Begin(p) PROVE Goal
  <2>1. Atomic'
    BY <1>4 DEF Begin, Atomic, Open, TypeOK, Now, columns
  <2> QED
    BY <1>4, <2>1 DEF Begin, AtomicStep, Nothing, records
<1>5. ASSUME NEW p \in Request, Rollback(p) PROVE Goal
  BY <1>1, <1>5 DEF Rollback, AtomicStep, Nothing, records
<1>6. ASSUME NEW p \in Request, NEW o \in Order, Create(p, o) PROVE Goal
  <2>1. PICK s \in Operation : TRUE
    BY RoutingAssumption
  <2>2. Save(p, AsMoved(Now, o, "planned")) /\ Now \in View
    BY <1>0, <1>6 DEF Create
  <2>3. "planned" \in OrderStatus
    BY DEF OrderStatus
  <2>4. /\ status' = [status EXCEPT ![o] = "planned"]
        /\ step' = step /\ good' = good /\ Atomic'
    <3> DEFINE new == AsMoved(Now, o, "planned")
    <3>1. Save(p, new) /\ Open(p)
      BY <1>6, <2>2 DEF Create
    <3>2. new \in View
      BY <2>2, <2>3, Views
    <3>3. /\ new.status = [Now.status EXCEPT ![o] = "planned"]
          /\ new.step = Now.step /\ new.good = Now.good
      BY <2>2, <2>3, MovedColumns
    <3> HIDE DEF new
    <3>4. status' = new.status /\ step' = new.step /\ good' = new.good /\ Atomic'
      BY <1>2, <3>1, <3>2
    <3> QED
      BY <1>3, <3>3, <3>4
  <2>5. Created(o)
    BY <1>6, <2>4 DEF Create, Created
  <2> QED
    BY <2>4, <2>5 DEF AtomicStep
<1>7. ASSUME NEW p \in Request, NEW o \in Order, NEW t \in OrderStatus,
             Transition(p, o, t), t # "completed",
             t = "running" => Started(Now, o)
      PROVE  Goal
  <2>1. PICK s \in Operation : TRUE
    BY RoutingAssumption
  <2>2. /\ Save(p, AsMoved(Now, o, t)) /\ Now \in View
        /\ t \in Transitions(status[o])
    BY <1>0, <1>3, <1>7 DEF Transition
  <2>3. /\ status' = [status EXCEPT ![o] = t]
        /\ step' = step /\ good' = good /\ Atomic'
    <3> DEFINE new == AsMoved(Now, o, t)
    <3>1. Save(p, new) /\ Open(p)
      BY <1>7, <2>2 DEF Transition
    <3>2. new \in View
      BY <2>2, Views
    <3>3. /\ new.status = [Now.status EXCEPT ![o] = t]
          /\ new.step = Now.step /\ new.good = Now.good
      BY <2>2, MovedColumns
    <3> HIDE DEF new
    <3>4. status' = new.status /\ step' = new.step /\ good' = new.good /\ Atomic'
      BY <1>2, <3>1, <3>2
    <3> QED
      BY <1>3, <3>3, <3>4
  <2>4. t = "running" => \E r \in Operation : step[<<o, r>>] # "pending"
    BY <1>3, <1>7 DEF Started
  <2>5. Moved(o, t)
    BY <1>7, <2>2, <2>3, <2>4 DEF Transition, Moved
  <2> QED
    BY <2>3, <2>5 DEF AtomicStep
<1>8. ASSUME NEW p \in Request, NEW o \in Order,
             \/ Release(p, o) \/ Cancel(p, o) \/ Hold(p, o)
             \/ Resume(p, o) \/ Close(p, o)
      PROVE  Goal
  <2>1. \A t \in {"released", "cancelled", "on_hold", "closed", "running"} :
           t \in OrderStatus /\ t # "completed"
    BY DEF OrderStatus
  <2>2. ASSUME Resume(p, o) PROVE Goal
    <3>1. view[p] = Now
      BY <1>0, <2>2 DEF Resume
    <3>2. CASE Started(Now, o)
      BY <1>7, <2>1, <2>2, <3>1, <3>2 DEF Resume
    <3>3. CASE ~Started(Now, o)
      <4>1. Transition(p, o, "released")
        BY <2>2, <3>1, <3>3 DEF Resume
      <4> QED
        BY <1>7, <2>1, <4>1
    <3> QED
      BY <3>2, <3>3
  <2>3. CASE Release(p, o)
    BY <1>7, <2>1, <2>3 DEF Release
  <2>4. CASE Cancel(p, o)
    BY <1>7, <2>1, <2>4 DEF Cancel
  <2>5. CASE Hold(p, o)
    BY <1>7, <2>1, <2>5 DEF Hold
  <2>6. CASE Close(p, o)
    BY <1>7, <2>1, <2>6 DEF Close
  <2> QED
    BY <1>8, <2>2, <2>3, <2>4, <2>5, <2>6
<1>9. ASSUME NEW p \in Request, NEW o \in Order, NEW s \in Operation,
             StartOperation(p, o, s)
      PROVE  Goal
  <2>1. Save(p, AsStarted(Now, o, s)) /\ Now \in View /\ MayStart(Now, o, s)
    BY <1>0, <1>9 DEF StartOperation
  <2>2. /\ status' = [status EXCEPT ![o] = "running"]
        /\ step' = [step EXCEPT ![<<o, s>>] = "running"]
        /\ good' = good /\ Atomic'
    <3> DEFINE new == AsStarted(Now, o, s)
    <3>1. Save(p, new) /\ Open(p)
      BY <1>9, <2>1 DEF StartOperation
    <3>2. new \in View
      BY <2>1, Views
    <3>3. /\ new.status = [Now.status EXCEPT ![o] = "running"]
          /\ new.step = [Now.step EXCEPT ![<<o, s>>] = "running"]
          /\ new.good = Now.good
      BY <2>1, StartedColumns
    <3> HIDE DEF new
    <3>4. status' = new.status /\ step' = new.step /\ good' = new.good /\ Atomic'
      BY <1>2, <3>1, <3>2
    <3> QED
      BY <1>3, <3>3, <3>4
  <2>3. Begun(o, s) /\ UNCHANGED <<good, records>>
    BY <1>3, <1>9, <2>1, <2>2 DEF StartOperation, Begun, MayStart
  <2> QED
    BY <2>2, <2>3 DEF AtomicStep
<1>10. ASSUME NEW p \in Request, NEW o \in Order, NEW s \in Operation,
              CompleteOperation(p, o, s)
       PROVE  Goal
  <2>1. /\ Save(p, AsDone(Now, o, s)) /\ Now \in View
        /\ step[<<o, s>>] = "running" /\ ~AllDone(AsDone(Now, o, s), o)
        /\ confirmed' = Queue(confirmed, <<o, s>>, good[<<o, s>>])
    BY <1>0, <1>3, <1>10 DEF CompleteOperation
  <2>2. /\ status' = status /\ step' = [step EXCEPT ![<<o, s>>] = "done"]
        /\ good' = good /\ Atomic' /\ AsDone(Now, o, s).step = step'
    <3> DEFINE new == AsDone(Now, o, s)
    <3>1. Save(p, new) /\ Open(p)
      BY <1>10, <2>1 DEF CompleteOperation
    <3>2. new \in View
      BY <2>1, Views
    <3>3. /\ new.status = Now.status
          /\ new.step = [Now.step EXCEPT ![<<o, s>>] = "done"]
          /\ new.good = Now.good
      BY <2>1, DoneColumns
    <3> HIDE DEF new
    <3>4. status' = new.status /\ step' = new.step /\ good' = new.good /\ Atomic'
      BY <1>2, <3>1, <3>2
    <3> QED
      BY <1>3, <3>3, <3>4 DEF new
  <2>3. ~\A r \in Operation : step'[<<o, r>>] = "done"
    BY <2>1, <2>2 DEF AllDone
  <2>4. NotLast(o, s)
    BY <1>10, <2>1, <2>2, <2>3 DEF CompleteOperation, NotLast, Done
  <2> QED
    BY <2>2, <2>4 DEF AtomicStep
<1>11. ASSUME NEW p \in Request, NEW o \in Order, NEW s \in Operation,
              CompleteOrder(p, o, s)
       PROVE  Goal
  <2> DEFINE done == AsDone(Now, o, s)
  <2>1. /\ Save(p, AsMoved(done, o, "completed")) /\ Now \in View
        /\ step[<<o, s>>] = "running" /\ AllDone(done, o)
        /\ "completed" \in Transitions(status[o])
        /\ confirmed' = Queue(confirmed, <<o, s>>, good[<<o, s>>])
        /\ completion' = Queue(completion, o, good[<<o, Final>>])
        /\ \/ good[<<o, Final>>] = 0 /\ UNCHANGED lot
           \/ good[<<o, Final>>] > 0 /\ lot' = [lot EXCEPT ![o] = good[<<o, Final>>]]
        /\ UNCHANGED <<logged, unassigned>>
    BY <1>0, <1>3, <1>11 DEF CompleteOrder
  <2>2. /\ done.status = status /\ done.good = good
        /\ done.step = [step EXCEPT ![<<o, s>>] = "done"] /\ done \in View
    <3>1. /\ done.status = Now.status /\ done.good = Now.good
          /\ done.step = [Now.step EXCEPT ![<<o, s>>] = "done"]
      BY <2>1, DoneColumns
    <3>2. done \in View
      BY <2>1, Views
    <3> HIDE DEF done
    <3> QED
      BY <1>3, <3>1, <3>2
  <2>3. Open(p) /\ "completed" \in OrderStatus
    BY <1>11 DEF CompleteOrder, OrderStatus
  <2> HIDE DEF done
  <2>4. AsMoved(done, o, "completed") \in View
    BY <2>2, <2>3, Views
  <2>5. /\ AsMoved(done, o, "completed").status =
              [status EXCEPT ![o] = "completed"]
        /\ AsMoved(done, o, "completed").step = done.step
        /\ AsMoved(done, o, "completed").good = good
    BY <2>2, <2>3, MovedColumns
  <2>6. /\ status' = [status EXCEPT ![o] = "completed"]
        /\ step' = [step EXCEPT ![<<o, s>>] = "done"]
        /\ good' = good /\ Atomic' /\ done.step = step'
    <3> DEFINE new == AsMoved(done, o, "completed")
    <3>1. Save(p, new) /\ new \in View
      BY <2>1, <2>4
    <3>2. /\ new.status = [status EXCEPT ![o] = "completed"]
          /\ new.step = done.step /\ new.good = good
      BY <2>5
    <3> HIDE DEF new
    <3>3. status' = new.status /\ step' = new.step /\ good' = new.good /\ Atomic'
      BY <1>2, <2>3, <3>1
    <3> QED
      BY <2>2, <3>2, <3>3
  <2>7. \A r \in Operation : step'[<<o, r>>] = "done"
    BY <2>1, <2>6 DEF AllDone
  <2>8. status[o] = "running"
    BY <2>1 DEF Transitions, TypeOK, OrderStatus
  <2>9. Last(o, s)
    BY <2>1, <2>6, <2>7, <2>8 DEF Last, Done
  <2> QED
    BY <2>6, <2>9 DEF AtomicStep
<1>12. ASSUME NEW p \in Request, NEW o \in Order, NEW s \in Operation,
              NEW counted \in BOOLEAN, Open(p), BookOn(p, o, s, counted),
              status[o] \notin {"none", "on_hold"}, step[<<o, s>>] # "done"
       PROVE  Goal
  <2> DEFINE Rest == /\ logged' = [logged EXCEPT ![<<o, s>>] = @ + 1]
                     /\ UNCHANGED <<confirmed, completion, lot>>
  <2>0. step[<<o, s>>] \in OperationStatus
    BY DEF TypeOK, Line
  <2>1. ASSUME NEW v \in View, Book(p, v, o, s)
        PROVE  /\ status' = v.status /\ step' = v.step
               /\ good' = [v.good EXCEPT ![<<o, s>>] = @ + 1]
               /\ Atomic' /\ Rest
    <3>1. Save(p, AsBooked(v, o, s)) /\ Rest
      BY <2>1 DEF Book
    <3> DEFINE new == AsBooked(v, o, s)
    <3>2. new \in View /\ Save(p, new)
      BY <3>1, Views
    <3>3. /\ new.status = v.status /\ new.step = v.step
          /\ new.good = [v.good EXCEPT ![<<o, s>>] = @ + 1]
      BY BookedColumns
    <3> HIDE DEF new
    <3>4. status' = new.status /\ step' = new.step /\ good' = new.good /\ Atomic'
      BY <1>2, <1>12, <3>2
    <3> QED
      BY <3>1, <3>3, <3>4
  <2>2. view[p] = Now /\ Now \in View
    BY <1>0, <1>12
  <2>3. CASE step[<<o, s>>] # "pending" /\ Book(p, Now, o, s)
    <3>1. step[<<o, s>>] = "running"
      BY <1>12, <2>0, <2>3 DEF OperationStatus
    <3>2. Booked(o, s) /\ Atomic'
      BY <1>3, <1>12, <2>1, <2>2, <2>3, <3>1 DEF Booked
    <3> QED
      BY <3>2 DEF AtomicStep
  <2>4. CASE MayStart(Now, o, s) /\ Book(p, AsStarted(Now, o, s), o, s)
    <3>1. AsStarted(Now, o, s) \in View
      BY <2>2, Views
    <3>2. /\ AsStarted(Now, o, s).status = [status EXCEPT ![o] = "running"]
          /\ AsStarted(Now, o, s).step = [step EXCEPT ![<<o, s>>] = "running"]
          /\ AsStarted(Now, o, s).good = good
      <4>1. /\ AsStarted(Now, o, s).status = [Now.status EXCEPT ![o] = "running"]
            /\ AsStarted(Now, o, s).step = [Now.step EXCEPT ![<<o, s>>] = "running"]
            /\ AsStarted(Now, o, s).good = Now.good
        BY <2>2, StartedColumns
      <4> QED
        BY <1>3, <4>1
    <3>3. /\ status' = [status EXCEPT ![o] = "running"]
          /\ step' = [step EXCEPT ![<<o, s>>] = "running"]
          /\ good' = [good EXCEPT ![<<o, s>>] = @ + 1]
          /\ Atomic' /\ Rest
      BY <2>1, <2>4, <3>1, <3>2
    <3>4. Begun(o, s)
      BY <1>3, <2>4, <3>3 DEF Begun, MayStart
    <3>5. Booked(o, s)
      BY <1>12, <3>3, <3>4 DEF Booked
    <3> QED
      BY <3>3, <3>5 DEF AtomicStep
  <2> QED
    BY <1>3, <1>12, <2>2, <2>3, <2>4 DEF BookOn
<1>13. ASSUME NEW p \in Request, NEW o \in Order, NEW s \in Operation,
              NEW counted \in BOOLEAN,
              \/ \E seqs \in {{s}, Operation} : ReportOrder(p, o, seqs, s, counted)
              \/ ReportMachine(p, o, s, counted)
       PROVE  Goal
  <2>1. Open(p) /\ BookOn(p, o, s, counted)
    BY <1>13 DEF ReportOrder, ReportMachine
  <2>2. view[p].status = status /\ view[p].step = step
    BY <1>0, <1>3, <2>1
  <2>3. status[o] \notin {"none", "on_hold"} /\ step[<<o, s>>] # "done"
    BY <1>13, <2>2 DEF ReportOrder, ReportMachine, FirstOpen, OpenAt
  <2> QED
    BY <1>12, <2>1, <2>3
<1>14. ASSUME NEW p \in Request, NEW m \in Machine, ReportUnassigned(p, m) PROVE Goal
  <2>1. Open(p) /\ Save(p, Now) /\ Now \in View
    BY <1>0, <1>14 DEF ReportUnassigned
  <2>2. status' = status /\ step' = step /\ good' = good /\ Atomic'
    BY <1>2, <1>3, <2>1
  <2> QED
    BY <1>14, <2>2 DEF ReportUnassigned, AtomicStep, Nothing, columns
<1>15. CASE UNCHANGED vars
  <2>1. Atomic'
    BY <1>15 DEF vars, columns, Atomic, Open, Now
  <2> QED
    BY <1>15, <2>1 DEF vars, AtomicStep, Nothing, records
<1> QED
  BY <1>4, <1>5, <1>6, <1>8, <1>9, <1>10, <1>11, <1>13, <1>14, <1>15 DEF Next

-----------------------------------------------------------------------------
(* What holds of the orders *)

(* Which way an order's status can move.                                   *)
LEMMA Moves ==
  ASSUME NEW a \in OrderStatus, NEW t \in Transitions(a)
  PROVE  /\ t \notin {"none", "planned"} /\ a \notin {"none", "closed", "cancelled"}
         /\ a = "completed" <=> t = "closed"
         /\ t \in {"running", "on_hold", "released", "cancelled", "completed", "closed"}
  BY DEF Transitions, OrderStatus

(* Each step of one request keeps the three invariants. None of them is    *)
(* inductive alone: that a booking comes before the confirmation of its    *)
(* order follows from LastCompletes.                                       *)
LEMMA Kept ==
  ASSUME TypeOK, LastCompletes, RunningIsStarted, ConfirmedIsBooked, AtomicStep
  PROVE  LastCompletes' /\ RunningIsStarted' /\ ConfirmedIsBooked'
<1> DEFINE Goal == LastCompletes' /\ RunningIsStarted' /\ ConfirmedIsBooked'
<1>0. Final \in Operation /\ None \notin Nat
  BY RoutingAssumption, NoneAssumption
<1>1. ASSUME Nothing PROVE Goal
  BY <1>1 DEF Nothing, columns, LastCompletes, RunningIsStarted, ConfirmedIsBooked
<1>2. ASSUME NEW o \in Order, Created(o) PROVE Goal
  <2>1. \A q \in Order : status'[q] = IF q = o THEN "planned" ELSE status[q]
    BY <1>2 DEF Created, TypeOK
  <2>2. /\ step' = step /\ good' = good /\ logged' = logged
        /\ confirmed' = confirmed /\ completion' = completion /\ lot' = lot
    BY <1>2 DEF Created, records
  <2>3. LastCompletes'
    BY <1>2, <2>1, <2>2 DEF Created, LastCompletes
  <2>4. RunningIsStarted'
    BY <1>2, <2>1, <2>2 DEF Created, RunningIsStarted
  <2>5. ConfirmedIsBooked'
    BY <1>2, <2>1, <2>2 DEF Created, ConfirmedIsBooked
  <2> QED
    BY <2>3, <2>4, <2>5
<1>3. ASSUME NEW o \in Order, NEW t \in OrderStatus, Moved(o, t) PROVE Goal
  <2>1. \A q \in Order : status'[q] = IF q = o THEN t ELSE status[q]
    BY <1>3 DEF Moved, TypeOK
  <2>2. /\ step' = step /\ good' = good /\ logged' = logged
        /\ confirmed' = confirmed /\ completion' = completion /\ lot' = lot
    BY <1>3 DEF Moved, records
  <2>3. status[o] \in OrderStatus
    BY DEF TypeOK
  <2>4. /\ t \notin {"none", "planned", "completed"}
        /\ status[o] = "completed" <=> t = "closed"
        /\ status[o] \notin {"none", "closed", "cancelled"}
    BY <1>3, <2>3, Moves DEF Moved
  <2>5. LastCompletes'
    BY <2>1, <2>2, <2>4 DEF LastCompletes
  <2>6. RunningIsStarted'
    BY <1>3, <2>1, <2>2, <2>4 DEF Moved, RunningIsStarted
  <2>7. ConfirmedIsBooked'
    BY <2>1, <2>2, <2>4 DEF ConfirmedIsBooked
  <2> QED
    BY <2>5, <2>6, <2>7
<1>4. ASSUME NEW o \in Order, NEW s \in Operation, Begun(o, s)
      PROVE  /\ LastCompletes' /\ RunningIsStarted'
             /\ \A l \in Line : step'[l] = "done" <=> step[l] = "done"
             /\ \A q \in Order : status'[q] \in {"completed", "closed"}
                                   <=> status[q] \in {"completed", "closed"}
  <2>1. \A q \in Order : status'[q] = IF q = o THEN "running" ELSE status[q]
    BY <1>4 DEF Begun, TypeOK
  <2>2. \A l \in Line : step'[l] = IF l = <<o, s>> THEN "running" ELSE step[l]
    BY <1>4 DEF Begun, TypeOK
  <2>3. \A q \in Order, r \in Operation :
          step'[<<q, r>>] = IF q = o /\ r = s THEN "running" ELSE step[<<q, r>>]
    BY <2>2 DEF Line
  <2>4. step[<<o, s>>] = "pending" /\ status[o] \in {"released", "running"}
    BY <1>4 DEF Begun
  <2>5. LastCompletes'
    BY <2>1, <2>3, <2>4 DEF LastCompletes
  <2>6. RunningIsStarted'
    BY <2>1, <2>3, <2>4, ZenonT(60) DEF RunningIsStarted
  <2> QED
    BY <2>1, <2>2, <2>4, <2>5, <2>6
<1>5. ASSUME NEW o \in Order, NEW s \in Operation,
             Begun(o, s), UNCHANGED <<good, records>>
      PROVE  Goal
  <2>1. ConfirmedIsBooked'
    BY <1>4, <1>5 DEF ConfirmedIsBooked, records
  <2> QED
    BY <1>4, <1>5, <2>1
<1>6. ASSUME NEW o \in Order, NEW s \in Operation, Booked(o, s) PROVE Goal
  <2>1. /\ LastCompletes' /\ RunningIsStarted'
        /\ \A l \in Line : step'[l] = "done" <=> step[l] = "done"
        /\ \A q \in Order : status'[q] \in {"completed", "closed"}
                              <=> status[q] \in {"completed", "closed"}
    BY <1>4, <1>6 DEF Booked, LastCompletes, RunningIsStarted
  <2>2. step[<<o, s>>] # "done"
    BY <1>6 DEF Booked, Begun
  <2>3. status[o] \notin {"completed", "closed"}
    BY <2>2 DEF LastCompletes
  <2>4. \A l \in Line :
          /\ good'[l] = IF l = <<o, s>> THEN good[l] + 1 ELSE good[l]
          /\ logged'[l] = IF l = <<o, s>> THEN logged[l] + 1 ELSE logged[l]
    BY <1>6 DEF Booked, TypeOK
  <2>5. \A q \in Order : q # o => logged'[<<q, Final>>] = logged[<<q, Final>>]
    BY <1>0, <2>4 DEF Line
  <2>6. confirmed' = confirmed /\ completion' = completion /\ lot' = lot
    BY <1>6 DEF Booked
  <2>7. \A l \in Line :
          /\ good'[l] = logged'[l]
          /\ confirmed'[l] = IF step'[l] = "done" THEN logged'[l] ELSE None
    BY <2>1, <2>2, <2>4, <2>6 DEF ConfirmedIsBooked
  <2>8. \A q \in Order :
          LET yield == logged'[<<q, Final>>] IN
          IF status'[q] \in {"completed", "closed"}
            THEN completion'[q] = yield /\ lot'[q] = (IF yield > 0 THEN yield ELSE None)
            ELSE completion'[q] = None /\ lot'[q] = None
    BY <2>1, <2>3, <2>5, <2>6 DEF ConfirmedIsBooked
  <2> QED
    BY <2>1, <2>7, <2>8 DEF ConfirmedIsBooked
<1>7. ASSUME NEW o \in Order, NEW s \in Operation, Done(o, s)
      PROVE  /\ \A q \in Order, r \in Operation :
                   step'[<<q, r>>] = IF q = o /\ r = s THEN "done" ELSE step[<<q, r>>]
             /\ \A l \in Line :
                   /\ good'[l] = logged'[l]
                   /\ confirmed'[l] = IF step'[l] = "done" THEN logged'[l] ELSE None
             /\ good' = good /\ logged' = logged
             /\ step[<<o, s>>] = "running"
             /\ status[o] \notin {"none", "planned", "completed", "closed"}
  <2>1. \A l \in Line : step'[l] = IF l = <<o, s>> THEN "done" ELSE step[l]
    BY <1>7 DEF Done, TypeOK
  <2>2. \A q \in Order, r \in Operation :
          step'[<<q, r>>] = IF q = o /\ r = s THEN "done" ELSE step[<<q, r>>]
    BY <2>1 DEF Line
  <2>3. /\ step[<<o, s>>] = "running" /\ good' = good /\ logged' = logged
        /\ confirmed' = Queue(confirmed, <<o, s>>, good[<<o, s>>])
    BY <1>7 DEF Done
  <2>4. <<o, s>> \in Line
    BY DEF Line
  <2>5. confirmed[<<o, s>>] = None
    BY <2>3, <2>4 DEF ConfirmedIsBooked
  <2>6. \A l \in Line :
          confirmed'[l] = IF l = <<o, s>> THEN good[<<o, s>>] ELSE confirmed[l]
    BY <2>3, <2>5 DEF Queue, TypeOK
  <2>7. \A l \in Line :
          /\ good'[l] = logged'[l]
          /\ confirmed'[l] = IF step'[l] = "done" THEN logged'[l] ELSE None
    BY <2>1, <2>3, <2>4, <2>6 DEF ConfirmedIsBooked
  <2>8. status[o] \notin {"completed", "closed"}
    BY <2>3 DEF LastCompletes
  <2>9. status[o] \notin {"none", "planned"}
    BY <2>3 DEF RunningIsStarted
  <2> QED
    BY <2>2, <2>3, <2>7, <2>8, <2>9
<1>8. ASSUME NEW o \in Order, NEW s \in Operation, NotLast(o, s) PROVE Goal
  <2>1. Done(o, s) /\ status' = status /\ completion' = completion /\ lot' = lot
    BY <1>8 DEF NotLast
  <2>2. ~\A r \in Operation : step'[<<o, r>>] = "done"
    BY <1>8 DEF NotLast
  <2>3. \A q \in Order, r \in Operation :
          step'[<<q, r>>] = IF q = o /\ r = s THEN "done" ELSE step[<<q, r>>]
    BY <1>7, <2>1
  <2>4. /\ step[<<o, s>>] = "running" /\ good' = good /\ logged' = logged
        /\ status[o] \notin {"none", "planned", "completed", "closed"}
    BY <1>7, <2>1
  <2>5. LastCompletes'
    BY <2>1, <2>2, <2>3, <2>4 DEF LastCompletes
  <2>6. RunningIsStarted'
    BY <2>1, <2>3, <2>4 DEF RunningIsStarted
  <2>7. ConfirmedIsBooked'
    <3>1. \A l \in Line :
            /\ good'[l] = logged'[l]
            /\ confirmed'[l] = IF step'[l] = "done" THEN logged'[l] ELSE None
      BY <1>7, <2>1
    <3> QED
      BY <2>1, <2>4, <3>1 DEF ConfirmedIsBooked
  <2> QED
    BY <2>5, <2>6, <2>7
<1>9. ASSUME NEW o \in Order, NEW s \in Operation, Last(o, s) PROVE Goal
  <2>1. Done(o, s) /\ \A r \in Operation : step'[<<o, r>>] = "done"
    BY <1>9 DEF Last
  <2>2. \A q \in Order : status'[q] = IF q = o THEN "completed" ELSE status[q]
    BY <1>9 DEF Last, TypeOK
  <2>3. \A q \in Order, r \in Operation :
          step'[<<q, r>>] = IF q = o /\ r = s THEN "done" ELSE step[<<q, r>>]
    BY <1>7, <2>1, ZenonT(60)
  <2>4. /\ step[<<o, s>>] = "running" /\ good' = good /\ logged' = logged
        /\ status[o] \notin {"none", "planned", "completed", "closed"}
    BY <1>7, <2>1
  <2>5. LastCompletes'
    BY <2>1, <2>2, <2>3, <2>4 DEF LastCompletes
  <2>6. RunningIsStarted'
    BY <2>2, <2>3, <2>4, ZenonT(60) DEF RunningIsStarted
  <2>7. completion[o] = None /\ lot[o] = None
    BY <2>4 DEF ConfirmedIsBooked
  <2>8. <<o, Final>> \in Line /\ good[<<o, Final>>] \in Nat
    BY <1>0 DEF TypeOK, Line
  <2>9. good[<<o, Final>>] = logged[<<o, Final>>]
    BY <2>8 DEF ConfirmedIsBooked
  <2>10. \A q \in Order :
          /\ completion'[q] = IF q = o THEN good[<<o, Final>>] ELSE completion[q]
          /\ lot'[q] = IF q = o
                         THEN IF good[<<o, Final>>] > 0 THEN good[<<o, Final>>] ELSE None
                         ELSE lot[q]
    BY <1>9, <2>7, <2>8 DEF Last, Queue, TypeOK
  <2>11. \A q \in Order :
          LET yield == logged'[<<q, Final>>] IN
          IF status'[q] \in {"completed", "closed"}
            THEN completion'[q] = yield /\ lot'[q] = (IF yield > 0 THEN yield ELSE None)
            ELSE completion'[q] = None /\ lot'[q] = None
    BY <2>2, <2>9, <2>10, <2>4 DEF ConfirmedIsBooked
  <2>12. ConfirmedIsBooked'
    <3>1. \A l \in Line :
            /\ good'[l] = logged'[l]
            /\ confirmed'[l] = IF step'[l] = "done" THEN logged'[l] ELSE None
      BY <1>7, <2>1
    <3> QED
      BY <2>11, <3>1 DEF ConfirmedIsBooked
  <2> QED
    BY <2>5, <2>6, <2>12
<1> QED
  BY <1>1, <1>2, <1>3, <1>5, <1>6, <1>8, <1>9 DEF AtomicStep

Whole == Atomic /\ LastCompletes /\ RunningIsStarted /\ ConfirmedIsBooked

(* While transactions run one at a time, what a request has read is the    *)
(* database as it is, an order completes with its last operation and not   *)
(* before, and what the ERP is told is what was booked.                    *)
THEOREM Invariants == Serial => (Spec => []Whole)
<1> SUFFICES ASSUME Serial PROVE Spec => []Whole
  OBVIOUS
<1>1. Init => Whole
  <2> SUFFICES ASSUME Init PROVE Whole
    OBVIOUS
  <2>1. Final \in Operation
    BY RoutingAssumption
  <2>2. Atomic
    BY DEF Init, Atomic, Open
  <2>3. \A o \in Order, s \in Operation : <<o, s>> \in Line
    BY DEF Line
  <2>4. LastCompletes /\ RunningIsStarted
    BY <2>1, <2>3 DEF Init, LastCompletes, RunningIsStarted
  <2>5. ConfirmedIsBooked
    BY <2>1, <2>3 DEF Init, ConfirmedIsBooked
  <2> QED
    BY <2>2, <2>4, <2>5 DEF Whole
<1>2. TypeOK /\ Whole /\ [Next]_vars => Whole'
  BY Steps, Kept DEF Whole
<1> QED
  BY <1>1, <1>2, TypeCorrect, PTL DEF Spec

(* "Completing the last operation completes the order", and nothing else   *)
(* does.                                                                   *)
THEOREM LastOneCompletes == Serial => (Spec => []LastCompletes)
<1> SUFFICES ASSUME Serial PROVE Spec => []LastCompletes
  OBVIOUS
<1>1. Whole => LastCompletes
  BY DEF Whole
<1> QED
  BY <1>1, Invariants, PTL

(* Every confirmation queued for the ERP, and the finished-goods lot, is   *)
(* for the units in the log, and stays so.                                 *)
THEOREM ErpIsToldWhatWasBooked == Serial => (Spec => []ConfirmedIsBooked)
<1> SUFFICES ASSUME Serial PROVE Spec => []ConfirmedIsBooked
  OBVIOUS
<1>1. Whole => ConfirmedIsBooked
  BY DEF Whole
<1> QED
  BY <1>1, Invariants, PTL

(* A running order has been started, and a planned one has not.            *)
THEOREM NoProgressIsClaimed == Serial => (Spec => []RunningIsStarted)
<1> SUFFICES ASSUME Serial PROVE Spec => []RunningIsStarted
  OBVIOUS
<1>1. Whole => RunningIsStarted
  BY DEF Whole
<1> QED
  BY <1>1, Invariants, PTL

(* An order that is held, finished or not yet released gets no production. *)
THEOREM HeldGetsNothing == Serial => (Spec => NothingBooksWhileHeld)
<1> SUFFICES ASSUME Serial PROVE Spec => NothingBooksWhileHeld
  OBVIOUS
<1> DEFINE Still == \A l \in Line :
      logged'[l] # logged[l] =>
        status[l[1]] \notin {"planned", "on_hold", "completed", "closed"}
<1>1. TypeOK /\ Whole /\ [Next]_vars => Still
  <2> SUFFICES ASSUME TypeOK, Whole, [Next]_vars PROVE Still
    OBVIOUS
  <2>1. CASE logged' = logged
    BY <2>1
  <2>2. ASSUME NEW o \in Order, NEW s \in Operation, Booked(o, s) PROVE Still
    <3>1. \A l \in Line : l # <<o, s>> => logged'[l] = logged[l]
      BY <2>2 DEF Booked, TypeOK
    <3>2. status[o] \notin {"none", "on_hold"}
      BY <2>2 DEF Booked
    <3>3. status[o] \notin {"planned", "completed", "closed"}
      <4>1. CASE Begun(o, s)
        BY <4>1 DEF Begun
      <4>2. CASE step[<<o, s>>] = "running"
        BY <4>2 DEF Whole, RunningIsStarted, LastCompletes
      <4> QED
        BY <2>2, <4>1, <4>2 DEF Booked
    <3> QED
      BY <3>1, <3>2, <3>3
  <2>3. AtomicStep
    BY Steps DEF Whole
  <2> QED
    BY <2>1, <2>2, <2>3
       DEF AtomicStep, Nothing, Created, Moved, NotLast, Last, Done, records
<1> HIDE DEF Still
<1>2. Spec => [][Still]_vars
  BY <1>1, TypeCorrect, Invariants, PTL DEF Spec
<1> QED
  BY <1>2 DEF NothingBooksWhileHeld, Still

(* What is finished stays finished, and no operation goes back.            *)
THEOREM FinishedIsFinal == Serial => (Spec => FinishedStays)
<1> SUFFICES ASSUME Serial PROVE Spec => FinishedStays
  OBVIOUS
<1> DEFINE
  Forward == \A l \in Line :
               /\ step[l] = "done" => step'[l] = "done"
               /\ step[l] = "running" => step'[l] # "pending"
  Ended == \A o \in Order :
             /\ status[o] \in {"closed", "cancelled"} => status'[o] = status[o]
             /\ status[o] = "completed" => status'[o] \in {"completed", "closed"}
  Stays == /\ Forward
           /\ Ended
<1>1. TypeOK /\ Whole /\ [Next]_vars => Forward /\ Ended
  <2> SUFFICES ASSUME TypeOK, Whole, [Next]_vars PROVE Forward /\ Ended
    OBVIOUS
  <2>1. AtomicStep
    BY Steps DEF Whole
  <2>2. ASSUME UNCHANGED step PROVE Forward
    BY <2>2
  <2>3. ASSUME UNCHANGED status PROVE Ended
    BY <2>3
  <2>4. ASSUME NEW o \in Order, NEW t \in OrderStatus,
               status' = [status EXCEPT ![o] = t],
               status[o] \notin {"closed", "cancelled"},
               status[o] = "completed" => t = "closed"
        PROVE  Ended
    BY <2>4 DEF TypeOK
  <2>5. ASSUME Nothing PROVE Forward /\ Ended
    BY <2>2, <2>3, <2>5 DEF Nothing, columns
  <2>6. ASSUME NEW o \in Order, Created(o) PROVE Forward /\ Ended
    BY <2>2, <2>4, <2>6 DEF Created, OrderStatus
  <2>7. ASSUME NEW o \in Order, NEW t \in OrderStatus, Moved(o, t)
        PROVE  Forward /\ Ended
    <3>1. status[o] \in OrderStatus
      BY DEF TypeOK
    <3>2. /\ status[o] \notin {"closed", "cancelled"}
          /\ status[o] = "completed" => t = "closed"
      BY <2>7, <3>1, Moves DEF Moved
    <3> QED
      BY <2>2, <2>4, <2>7, <3>2 DEF Moved
  <2>8. ASSUME NEW o \in Order, NEW s \in Operation, Begun(o, s)
        PROVE  Forward /\ Ended
    <3>1. \A l \in Line : step'[l] = IF l = <<o, s>> THEN "running" ELSE step[l]
      BY <2>8 DEF Begun, TypeOK
    <3>2. Forward
      BY <2>8, <3>1 DEF Begun
    <3>3. Ended
      BY <2>4, <2>8 DEF Begun, OrderStatus
    <3> QED
      BY <3>2, <3>3
  <2>9. ASSUME NEW o \in Order, NEW s \in Operation, Booked(o, s)
        PROVE  Forward /\ Ended
    BY <2>2, <2>3, <2>8, <2>9 DEF Booked
  <2>10. ASSUME NEW o \in Order, NEW s \in Operation, Done(o, s) PROVE Forward
    <3>1. \A l \in Line : step'[l] = IF l = <<o, s>> THEN "done" ELSE step[l]
      BY <2>10 DEF Done, TypeOK
    <3> QED
      BY <3>1
  <2>11. ASSUME NEW o \in Order, NEW s \in Operation, NotLast(o, s)
         PROVE  Forward /\ Ended
    BY <2>3, <2>10, <2>11 DEF NotLast
  <2>12. ASSUME NEW o \in Order, NEW s \in Operation, Last(o, s)
         PROVE  Forward /\ Ended
    BY <2>4, <2>10, <2>12 DEF Last, OrderStatus
  <2> HIDE DEF Forward, Ended
  <2> QED
    BY <2>1, <2>5, <2>6, <2>7, <2>8, <2>9, <2>11, <2>12 DEF AtomicStep
<1>2. TypeOK /\ Whole /\ [Next]_vars => Stays
  BY <1>1
<1> HIDE DEF Stays
<1>3. Spec => [][Stays]_vars
  BY <1>2, TypeCorrect, Invariants, PTL DEF Spec
<1> QED
  BY <1>3 DEF FinishedStays, Stays, Forward, Ended
=============================================================================
