----------------------------- MODULE WorkOrders -----------------------------
(***************************************************************************)
(* Work orders, their operations, what is booked on them, and what the ERP *)
(* is told: services/workorders.py, execution.report and the confirmations *)
(* services/erp.py queues. Every request is one transaction: it reads the  *)
(* order and its operations into its session, decides, and writes the      *)
(* columns it changed.                                                     *)
(*                                                                         *)
(* On SQLite a transaction begins IMMEDIATE, so one is open at a time      *)
(* (Serial). On PostgreSQL nothing locks the rows a request has read:      *)
(* others commit between its reading and its writing.                      *)
(***************************************************************************)
EXTENDS Integers

CONSTANTS
  Order,      \* numbered as the reader prefers them: by priority, then id
  Operation,  \* the seqs of the routing all of them are built from
  Final,      \* the last of these
  Machine,
  MachineAt,  \* the machine of each operation
  Request,    \* the requests that may be under way at once
  Serial,
  None,
  MaxUnits    \* bound: units in each operation's log, and unassigned of each machine

ASSUME OrderAssumption == Order \subseteq Nat
ASSUME RoutingAssumption ==
  /\ Operation \subseteq Nat
  /\ Final \in Operation /\ \A s \in Operation : s <= Final
  /\ MachineAt \in [Operation -> Machine]
ASSUME NoneAssumption == None \notin Nat
ASSUME BoundAssumption == Serial \in BOOLEAN /\ MaxUnits \in Nat

VARIABLES
  status,      \* of each order; "none" before it is created
  step,        \* status of each operation of each order
  good,        \* good_qty of each operation
  logged,      \* units in the production log of each operation
  unassigned,  \* units each machine counted with no order open
  confirmed,   \* the quantity in each operation's confirmation to the ERP
  completion,  \* the quantity in each order's
  lot,         \* and in its finished-goods lot
  view         \* what each request under way has read

columns == <<status, step, good>>
records == <<logged, unassigned, confirmed, completion, lot>>
vars == <<columns, records, view>>

OrderStatus ==
  {"none", "planned", "released", "running", "on_hold", "completed", "closed",
   "cancelled"}
OperationStatus == {"pending", "running", "done"}
Line == Order \X Operation

View == [status : [Order -> OrderStatus], step : [Line -> OperationStatus],
         good : [Line -> Nat]]

TypeOK ==
  /\ status \in [Order -> OrderStatus]
  /\ step \in [Line -> OperationStatus]
  /\ good \in [Line -> Nat]
  /\ logged \in [Line -> Nat]
  /\ unassigned \in [Machine -> Nat]
  /\ confirmed \in [Line -> Nat \cup {None}]
  /\ completion \in [Order -> Nat \cup {None}]
  /\ lot \in [Order -> Nat \cup {None}]
  /\ view \in [Request -> View \cup {None}]

Init ==
  /\ status = [o \in Order |-> "none"]
  /\ step = [l \in Line |-> "pending"]
  /\ good = [l \in Line |-> 0]
  /\ logged = [l \in Line |-> 0]
  /\ unassigned = [m \in Machine |-> 0]
  /\ confirmed = [l \in Line |-> None]
  /\ completion = [o \in Order |-> None]
  /\ lot = [o \in Order |-> None]
  /\ view = [p \in Request |-> None]

-----------------------------------------------------------------------------
(* A request's transaction *)

Open(p) == view[p] # None

Begin(p) ==
  /\ ~Open(p)
  /\ Serial => \A q \in Request : ~Open(q)
  /\ view' = [view EXCEPT ![p] = [status |-> status, step |-> step, good |-> good]]
  /\ UNCHANGED <<columns, records>>

\* It refuses, fails, or its process dies: nothing of it was ever there.
Rollback(p) ==
  /\ Open(p)
  /\ view' = [view EXCEPT ![p] = None]
  /\ UNCHANGED <<columns, records>>

\* An UPDATE names the columns the session knows it changed, and no others.
Written(read, new, now) == [x \in DOMAIN now |-> IF new[x] = read[x] THEN now[x] ELSE new[x]]

Save(p, new) ==
  /\ status' = Written(view[p].status, new.status, status)
  /\ step' = Written(view[p].step, new.step, step)
  /\ good' = Written(view[p].good, new.good, good)
  /\ view' = [view EXCEPT ![p] = None]

\* outbox.record: the same message key queued twice is one message.
Queue(messages, key, quantity) ==
  IF messages[key] = None THEN [messages EXCEPT ![key] = quantity] ELSE messages

-----------------------------------------------------------------------------
(* The order *)

Transitions(s) ==
  CASE s = "planned"   -> {"released", "cancelled"}
    [] s = "released"  -> {"running", "on_hold", "cancelled"}
    [] s = "running"   -> {"completed", "on_hold"}
    [] s = "on_hold"   -> {"released", "running", "cancelled"}
    [] s = "completed" -> {"closed"}
    [] OTHER           -> {}

AsMoved(v, o, s) == [v EXCEPT !.status[o] = s]

Transition(p, o, s) ==
  /\ Open(p)
  /\ s \in Transitions(view[p].status[o])
  /\ Save(p, AsMoved(view[p], o, s))
  /\ UNCHANGED records

\* Mutant of Create: the status is left to a default the enum does not have.
CreateDraft(p, o) ==
  /\ Open(p)
  /\ view[p].status[o] = "none" /\ status[o] = "none"
  /\ Save(p, AsMoved(view[p], o, "draft"))
  /\ UNCHANGED records

\* By a person, a pack or the ERP; the code is unique.
Create(p, o) ==
  /\ Open(p)
  /\ view[p].status[o] = "none" /\ status[o] = "none"
  /\ Save(p, AsMoved(view[p], o, "planned"))
  /\ UNCHANGED records

Release(p, o) == Transition(p, o, "released")

Cancel(p, o) == Transition(p, o, "cancelled")

Hold(p, o) == Transition(p, o, "on_hold")

Started(v, o) == \E s \in Operation : v.step[<<o, s>>] # "pending"

\* Mutant of Resume: held work is taken to have been running.
ResumeRunning(p, o) ==
  /\ Open(p) /\ view[p].status[o] = "on_hold"
  /\ Transition(p, o, "running")

Resume(p, o) ==
  /\ Open(p) /\ view[p].status[o] = "on_hold"
  /\ Transition(p, o, IF Started(view[p], o) THEN "running" ELSE "released")

Close(p, o) == Transition(p, o, "closed")

-----------------------------------------------------------------------------
(* Its operations *)

\* Mutant of MayStart: an operation that is done may be started again.
MayRestart(v, o, s) ==
  v.status[o] \in {"released", "running"} /\ v.step[<<o, s>>] # "running"

MayStart(v, o, s) ==
  v.status[o] \in {"released", "running"} /\ v.step[<<o, s>>] = "pending"

\* start_operation: the order runs with it.
AsStarted(v, o, s) == [v EXCEPT !.step[<<o, s>>] = "running", !.status[o] = "running"]

StartOperation(p, o, s) ==
  /\ Open(p) /\ MayStart(view[p], o, s)
  /\ Save(p, AsStarted(view[p], o, s))
  /\ UNCHANGED records

\* Mutant of AllDone: the order is what its final operation is.
FinalDone(v, o) == v.step[<<o, Final>>] = "done"

AllDone(v, o) == \A s \in Operation : v.step[<<o, s>>] = "done"

AsDone(v, o, s) == [v EXCEPT !.step[<<o, s>>] = "done"]

\* complete_operation, with other operations of the order still to do.
CompleteOperation(p, o, s) ==
  /\ Open(p) /\ view[p].step[<<o, s>>] = "running"
  /\ ~AllDone(AsDone(view[p], o, s), o)
  /\ Save(p, AsDone(view[p], o, s))
  /\ confirmed' = Queue(confirmed, <<o, s>>, view[p].good[<<o, s>>])
  /\ UNCHANGED <<logged, unassigned, completion, lot>>

\* complete_operation of the last one, and _complete_order with it: the order
\* has to be one that may complete, and to have no finished-goods lot yet.
CompleteOrder(p, o, s) ==
  /\ Open(p) /\ view[p].step[<<o, s>>] = "running"
  /\ AllDone(AsDone(view[p], o, s), o)
  /\ "completed" \in Transitions(view[p].status[o])
  /\ Save(p, AsMoved(AsDone(view[p], o, s), o, "completed"))
  /\ confirmed' = Queue(confirmed, <<o, s>>, view[p].good[<<o, s>>])
  /\ completion' = Queue(completion, o, view[p].good[<<o, Final>>])
  /\ \/ view[p].good[<<o, Final>>] = 0 /\ UNCHANGED lot
     \/ /\ view[p].good[<<o, Final>>] > 0 /\ lot[o] = None
        /\ lot' = [lot EXCEPT ![o] = view[p].good[<<o, Final>>]]
  /\ UNCHANGED <<logged, unassigned>>

-----------------------------------------------------------------------------
(* execution.report of one unit *)

AsBooked(v, o, s) == [v EXCEPT !.good[<<o, s>>] = @ + 1]

Book(p, v, o, s) ==
  /\ logged[<<o, s>>] < MaxUnits
  /\ Save(p, AsBooked(v, o, s))
  /\ logged' = [logged EXCEPT ![<<o, s>>] = @ + 1]
  /\ UNCHANGED <<unassigned, confirmed, completion, lot>>

\* Not pending any more, or started by the booking, if the units were counted
\* elsewhere: what a person reports starts nothing.
BookOn(p, o, s, counted) ==
  \/ view[p].step[<<o, s>>] # "pending" /\ Book(p, view[p], o, s)
  \/ counted /\ MayStart(view[p], o, s) /\ Book(p, AsStarted(view[p], o, s), o, s)

\* Mutant of FirstOpen: the operation is looked up by its seq alone.
FirstNamed(v, o, seqs, s) == s \in seqs /\ \A r \in seqs : s <= r

FirstOpen(v, o, seqs, s) ==
  /\ s \in seqs /\ v.step[<<o, s>>] # "done"
  /\ \A r \in seqs : v.step[<<o, r>>] # "done" => s <= r

\* Addressed by order, and by operation or not.
ReportOrder(p, o, seqs, s, counted) ==
  /\ Open(p)
  /\ view[p].status[o] \notin {"none", "on_hold"}
  /\ FirstOpen(view[p], o, seqs, s)
  /\ BookOn(p, o, s, counted)

\* The machine's operations that are not done, of orders that are on.
OpenAt(v, m) ==
  {l \in Line : /\ MachineAt[l[2]] = m
                /\ v.step[l] # "done"
                /\ v.status[l[1]] \in {"released", "running"}}

\* Addressed by machine: the first of its open operations.
ReportMachine(p, o, s, counted) ==
  /\ Open(p)
  /\ <<o, s>> \in OpenAt(view[p], MachineAt[s])
  /\ \A l \in OpenAt(view[p], MachineAt[s]) : o < l[1] \/ (o = l[1] /\ s <= l[2])
  /\ BookOn(p, o, s, counted)

\* record_unassigned: what a machine counted is kept without an order.
ReportUnassigned(p, m) ==
  /\ Open(p)
  /\ OpenAt(view[p], m) = {}
  /\ unassigned[m] < MaxUnits
  /\ unassigned' = [unassigned EXCEPT ![m] = @ + 1]
  /\ Save(p, view[p])
  /\ UNCHANGED <<logged, confirmed, completion, lot>>

-----------------------------------------------------------------------------
Next ==
  \E p \in Request :
    \/ Begin(p) \/ Rollback(p)
    \/ \E o \in Order :
         \/ Create(p, o) \/ Release(p, o) \/ Cancel(p, o) \/ Hold(p, o)
         \/ Resume(p, o) \/ Close(p, o)
         \/ \E s \in Operation :
              \/ StartOperation(p, o, s) \/ CompleteOperation(p, o, s)
              \/ CompleteOrder(p, o, s)
              \/ \E counted \in BOOLEAN :
                   \/ \E seqs \in {{s}, Operation} : ReportOrder(p, o, seqs, s, counted)
                   \/ ReportMachine(p, o, s, counted)
    \/ \E m \in Machine : ReportUnassigned(p, m)

Spec == Init /\ [][Next]_vars

-----------------------------------------------------------------------------
(* Properties *)

(* "Completing the last operation completes the order": an order is        *)
(* completed, or closed after that, exactly when all its operations are    *)
(* done, in whatever order people finished them, and however it was held,  *)
(* resumed or released in between.                                         *)
LastCompletes ==
  \A o \in Order :
    status[o] \in {"completed", "closed"} <=> \A s \in Operation : step[<<o, s>>] = "done"

(* The ERP and the lot are told what was booked: a done operation has one  *)
(* confirmation, of all the units in its log and its column, and no unit   *)
(* joins them later; a completed order has one, and a lot if it yielded.   *)
ConfirmedIsBooked ==
  /\ \A l \in Line :
       /\ good[l] = logged[l]
       /\ confirmed[l] = IF step[l] = "done" THEN logged[l] ELSE None
  /\ \A o \in Order :
       LET yield == logged[<<o, Final>>] IN
       IF status[o] \in {"completed", "closed"}
         THEN completion[o] = yield /\ lot[o] = (IF yield > 0 THEN yield ELSE None)
         ELSE completion[o] = None /\ lot[o] = None

(* report: "nothing books against it". An order that was never released,   *)
(* that is held, or that is finished gets no production, neither by name   *)
(* nor by what its machines count.                                         *)
NothingBooksWhileHeld ==
  [][ \A l \in Line :
        logged'[l] # logged[l] =>
          status[l[1]] \notin {"planned", "on_hold", "completed", "closed"} ]_vars

(* A running order has been started, and a planned one has not: no hold    *)
(* and no resume claims progress that never happened.                      *)
RunningIsStarted ==
  \A o \in Order :
    LET started == \E s \in Operation : step[<<o, s>>] # "pending" IN
    /\ status[o] = "running" => started
    /\ status[o] \in {"none", "planned"} => ~started

(* What is finished stays finished, and no operation goes back, whatever   *)
(* is reported, held or resumed around it.                                 *)
FinishedStays ==
  [][ /\ \A l \in Line :
           /\ step[l] = "done" => step'[l] = "done"
           /\ step[l] = "running" => step'[l] # "pending"
      /\ \A o \in Order :
           /\ status[o] \in {"closed", "cancelled"} => status'[o] = status[o]
           /\ status[o] = "completed" => status'[o] \in {"completed", "closed"} ]_vars
=============================================================================
