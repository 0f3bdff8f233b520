------------------------------- MODULE ErpSync -------------------------------
(***************************************************************************)
(* The ERP sync worker, its outbox and the ERP: one loop that takes the    *)
(* ERP's new orders and delivers the confirmations that are due, over a    *)
(* REST API, a folder of files, or ERPNext.                                *)
(*                                                                         *)
(* Every database transaction is a step of its own and so is every call of *)
(* the ERP, which may fail, or work and lose its answer. The process may   *)
(* die, and any step may raise, which ends the cycle. A person may put any *)
(* message back at any time. The quantity of a completion is one lump,     *)
(* which ERPNext books as one stock entry.                                 *)
(***************************************************************************)
EXTENDS Integers, FiniteSets, FiniteSetsExt

CONSTANTS
  Connector,    \* the connectors considered, of "rest", "file" and "erpnext"
  Order,        \* the ERP's orders, numbered in the order it lists them
  Readable,     \* those whose row the connector can read
  Known,        \* those this plant can make; others are refused
  Message,      \* confirmations, numbered as the outbox numbers them
  Stocked,      \* completions that ERPNext books as a stock entry
  Room,         \* how many of a completion's entries ERPNext's allowance admits
  MaxAttempts,  \* [erp] max_attempts
  MaxFaults, MaxPutBacks  \* bounds: steps that fail, messages put back by hand

ASSUME ConnectorAssumption == Connector \subseteq {"rest", "file", "erpnext"}
ASSUME OrderAssumption == Order \subseteq Nat /\ Readable \subseteq Order /\ Known \subseteq Order
ASSUME MessageAssumption ==
  Message \subseteq Nat /\ Stocked \subseteq Message /\ Room \in [Stocked -> Nat]
ASSUME AttemptsAssumption == MaxAttempts \in Nat \ {0}
ASSUME BoundAssumption == MaxFaults \in Nat /\ MaxPutBacks \in Nat

VARIABLES
  connector,
  offer,      \* each order at the ERP: not made, new to be taken, or taken
  logged,     \* what the MES has recorded of each order the ERP sent
  status,     \* of each message in the outbox
  attempts,   \* of each message
  resting,    \* messages that back off
  arrived,    \* times the ERP has taken each message
  entries,    \* stock entries ERPNext has for each completion
  coming,     \* entries it was asked for and has yet to make, unawaited
  outlived,   \* entries asked for that came after the MES gave up on them
  step,       \* where the worker's cycle is
  rows,       \* orders it has fetched and not dealt with
  todo,       \* messages it found due and has not dealt with
  answer,     \* what the last send came to
  faults, putBacks

mes == <<logged, status, attempts, resting>>
books == <<entries, coming, outlived>>
erp == <<offer, arrived, books>>
worker == <<step, rows, todo, answer>>
bounds == <<faults, putBacks>>
vars == <<connector, mes, erp, worker, bounds>>

TypeOK ==
  /\ connector \in Connector
  /\ offer \in [Order -> {"none", "new", "taken"}]
  /\ logged \in [Order -> {"none", "processed", "error"}]
  /\ status \in [Message -> {"none", "pending", "sent", "dead"}]
  /\ attempts \in [Message -> Nat]
  /\ resting \subseteq {m \in Message : status[m] = "pending"}
  /\ arrived \in [Message -> Nat]
  /\ entries \in [Stocked -> Nat]
  /\ coming \in [Stocked -> Nat] /\ outlived \in [Stocked -> Nat]
  /\ step \in {"sleep", "import", "acknowledge", "deliver", "mark"}
  /\ rows \subseteq Order
  /\ todo \subseteq Message
  /\ answer \in {"none", "ok", "failed", "refused"}
  /\ faults \in Nat /\ putBacks \in Nat

Init ==
  /\ connector \in Connector
  /\ offer = [o \in Order |-> "none"]
  /\ logged = [o \in Order |-> "none"]
  /\ status = [m \in Message |-> "none"]
  /\ attempts = [m \in Message |-> 0]
  /\ resting = {}
  /\ arrived = [m \in Message |-> 0]
  /\ entries = [m \in Stocked |-> 0]
  /\ coming = [m \in Stocked |-> 0] /\ outlived = [m \in Stocked |-> 0]
  /\ step = "sleep" /\ rows = {} /\ todo = {} /\ answer = "none"
  /\ faults = 0 /\ putBacks = 0

First(S) == {x \in S : \A y \in S : x <= y}

Becomes(m, s) == status' = [status EXCEPT ![m] = s]

\* One more step fails.
Another == faults < MaxFaults /\ faults' = faults + 1 /\ UNCHANGED putBacks

-----------------------------------------------------------------------------
(* The ERP, the plant and its people *)

Plan(o) ==
  /\ offer[o] = "none"
  /\ offer' = [offer EXCEPT ![o] = "new"]
  /\ UNCHANGED <<connector, mes, arrived, books, worker, bounds>>

\* A finished operation or order queues its confirmation with its own commit.
Queue(m) ==
  /\ status[m] = "none"
  /\ Becomes(m, "pending")
  /\ UNCHANGED <<connector, logged, attempts, resting, erp, worker, bounds>>

BackoffEnds(m) ==
  /\ m \in resting
  /\ resting' = resting \ {m}
  /\ UNCHANGED <<connector, logged, status, attempts, erp, worker, bounds>>

\* retry: whatever has become of it, and with the attempts it has had.
PutBack(m) ==
  /\ status[m] # "none"
  /\ status[m] # "pending" \/ m \in resting
  /\ putBacks < MaxPutBacks /\ putBacks' = putBacks + 1
  /\ Becomes(m, "pending")
  /\ resting' = resting \ {m}
  /\ UNCHANGED <<connector, logged, attempts, erp, worker, faults>>

\* An entry the MES no longer waits for is made, if there is room for it yet.
Land(m) ==
  /\ m \in Stocked /\ coming[m] > 0
  /\ coming' = [coming EXCEPT ![m] = @ - 1]
  /\ outlived' = [outlived EXCEPT ![m] = @ + 1]
  /\ entries' = IF entries[m] < Room[m] THEN [entries EXCEPT ![m] = @ + 1] ELSE entries
  /\ UNCHANGED <<connector, mes, offer, arrived, worker, bounds>>

-----------------------------------------------------------------------------
(* Inbound *)

New == {o \in Order : offer[o] = "new"}

\* Mutant of Fetch: every connector takes what it fetches.
FetchAndTake ==
  /\ step = "sleep"
  /\ connector # "file" => New \subseteq Readable
  /\ rows' = New \cap Readable
  /\ offer' = [o \in Order |-> IF o \in New THEN "taken" ELSE offer[o]]
  /\ step' = "import"
  /\ UNCHANGED <<connector, mes, arrived, books, todo, answer, bounds>>

\* fetch_orders. A row that cannot be read is an exception for an API's
\* connector, which ends the cycle before it began; a file is moved aside.
\* The file connector archives a file as it reads it: there it is taken.
Fetch ==
  /\ step = "sleep"
  /\ connector # "file" => New \subseteq Readable
  /\ rows' = New \cap Readable
  /\ offer' = [o \in Order |->
       IF o \in New /\ connector = "file" THEN "taken" ELSE offer[o]]
  /\ step' = "import"
  /\ UNCHANGED <<connector, mes, arrived, books, todo, answer, bounds>>

\* process_inbound, in a transaction of its own: an order the plant cannot
\* make is recorded with its error, and one it has is brought up to date.
Import(o) ==
  /\ step = "import" /\ o \in First(rows)
  /\ logged' = [logged EXCEPT ![o] = IF o \in Known THEN "processed" ELSE "error"]
  /\ step' = "acknowledge"
  /\ UNCHANGED <<connector, status, attempts, resting, erp, rows, todo, answer, bounds>>

Taken(o) == offer' = [offer EXCEPT ![o] = "taken"]

Acknowledge(o) ==
  /\ step = "acknowledge" /\ o \in First(rows)
  /\ Taken(o)
  /\ rows' = rows \ {o}
  /\ step' = "import"
  /\ UNCHANGED <<connector, mes, arrived, books, todo, answer, bounds>>

\* The cycle ends here, in an exception or with the process.
Ends ==
  /\ step # "sleep"
  /\ Another
  /\ step' = "sleep" /\ rows' = {} /\ todo' = {} /\ answer' = "none"
  /\ UNCHANGED <<connector, mes, arrived, books>>
  /\ \/ UNCHANGED offer
     \/ step = "acknowledge" /\ \E o \in First(rows) : Taken(o)

-----------------------------------------------------------------------------
(* Outbound *)

\* pending_outbound, once the last order has been acknowledged.
Collect ==
  /\ step = "import" /\ rows = {}
  /\ todo' = {m \in Message : status[m] = "pending"} \ resting
  /\ step' = "deliver"
  /\ UNCHANGED <<connector, mes, erp, rows, answer, bounds>>

Answered(a) == answer' = a /\ step' = "mark"

Arrives(m) == arrived' = [arrived EXCEPT ![m] = @ + 1]

\* A send that fails before the ERP has taken the message.
SendFails(m) ==
  /\ Another
  /\ Answered("failed")
  /\ UNCHANGED <<arrived, books>>

\* A file is there when it is renamed into place, and nothing follows that.
\* An API may have taken the message when its answer does not come back.
SendPlain(m) ==
  \/ SendFails(m)
  \/ /\ Arrives(m)
     /\ \/ Answered("ok") /\ UNCHANGED bounds
        \/ connector # "file" /\ Another /\ Answered("failed")
     /\ UNCHANGED books

HasEntry(m) == entries[m] > 0

Enter(m) == entries' = [entries EXCEPT ![m] = @ + 1]

\* Mutant of Manufacture: it does not ask what ERPNext has produced already.
ManufactureAgain(m) == entries[m] < Room[m] /\ Enter(m)

\* Only what is missing from what ERPNext has produced is posted.
Manufacture(m) == IF HasEntry(m) THEN UNCHANGED entries ELSE entries[m] < Room[m] /\ Enter(m)

\* The quantities are written, the stock entry is made unless ERPNext has it,
\* and the comment follows. Each may fail when what came before it has worked,
\* and ERPNext may still be about to make the entry when the MES gives up.
SendCompletion(m) ==
  \/ SendFails(m)
  \/ ~HasEntry(m) /\ entries[m] >= Room[m]
     /\ Answered("refused") /\ UNCHANGED <<arrived, books, bounds>>
  \/ /\ Manufacture(m) /\ UNCHANGED <<coming, outlived>>
     /\ \/ Arrives(m) /\ Answered("ok") /\ UNCHANGED bounds
        \/ Another /\ Answered("failed") /\ (Arrives(m) \/ UNCHANGED arrived)
  \/ /\ ~HasEntry(m) /\ coming' = [coming EXCEPT ![m] = @ + 1]
     /\ Another /\ Answered("failed") /\ UNCHANGED <<arrived, entries, outlived>>

Send(m) ==
  /\ step = "deliver" /\ m \in First(todo)
  /\ IF connector = "erpnext" /\ m \in Stocked THEN SendCompletion(m) ELSE SendPlain(m)
  /\ UNCHANGED <<connector, mes, offer, rows, todo>>

Marked(m) ==
  /\ step = "mark" /\ m \in First(todo)
  /\ todo' = todo \ {m}
  /\ step' = "deliver" /\ answer' = "none"
  /\ UNCHANGED <<connector, logged, erp, rows, bounds>>

MarkSent(m) ==
  /\ answer = "ok" /\ Marked(m)
  /\ Becomes(m, "sent")
  /\ resting' = resting \ {m}
  /\ UNCHANGED attempts

\* Mutant of MarkError: a dead message goes on backing off.
MarkErrorResting(m) ==
  /\ answer = "failed" /\ Marked(m)
  /\ attempts' = [attempts EXCEPT ![m] = @ + 1]
  /\ resting' = resting \cup {m}
  /\ IF attempts[m] + 1 >= MaxAttempts THEN Becomes(m, "dead") ELSE UNCHANGED status

MarkError(m) ==
  /\ answer = "failed" /\ Marked(m)
  /\ attempts' = [attempts EXCEPT ![m] = @ + 1]
  /\ IF attempts[m] + 1 >= MaxAttempts
     THEN Becomes(m, "dead") /\ resting' = resting \ {m}
     ELSE UNCHANGED status /\ resting' = resting \cup {m}

\* Mutant of MarkRefused: a refusal backs off and is not counted.
MarkRefusedLater(m) ==
  /\ answer = "refused" /\ Marked(m)
  /\ resting' = resting \cup {m}
  /\ UNCHANGED <<status, attempts>>

\* Mutant of MarkRefused: the ERP has read it, so it is delivered.
MarkRefusedSent(m) ==
  /\ answer = "refused" /\ Marked(m)
  /\ attempts' = [attempts EXCEPT ![m] = @ + 1]
  /\ Becomes(m, "sent") /\ resting' = resting \ {m}

\* mark_refused: time does not repair a refusal, so it is not tried again.
MarkRefused(m) ==
  /\ answer = "refused" /\ Marked(m)
  /\ attempts' = [attempts EXCEPT ![m] = @ + 1]
  /\ Becomes(m, "dead") /\ resting' = resting \ {m}

Rest ==
  /\ step = "deliver" /\ todo = {}
  /\ step' = "sleep"
  /\ UNCHANGED <<connector, mes, erp, rows, todo, answer, bounds>>

Worker ==
  \/ Fetch \/ Collect \/ Rest
  \/ \E o \in Order : Import(o) \/ Acknowledge(o)
  \/ \E m \in Message : Send(m) \/ MarkSent(m) \/ MarkError(m) \/ MarkRefused(m)

Next ==
  \/ Worker
  \/ Ends
  \/ \E o \in Order : Plan(o)
  \/ \E m \in Message : Queue(m) \/ BackoffEnds(m) \/ PutBack(m) \/ Land(m)

Spec == Init /\ [][Next]_vars

Fairness ==
  /\ WF_vars(Worker)
  /\ \A m \in Message : WF_vars(BackoffEnds(m))

FairSpec == Spec /\ Fairness

-----------------------------------------------------------------------------
(* Properties *)

(* sync: "The interface never loses a message". An order the ERP regards   *)
(* as taken is recorded in the MES, or the worker has it in hand.          *)
NoOrderLost ==
  \A o \in Readable : offer[o] = "taken" => logged[o] # "none" \/ o \in rows

(* An API's connector acknowledges an order only after the transaction     *)
(* that recorded it, so no crash and no exception between the two, and no  *)
(* order the plant cannot make, loses it.                                  *)
OrdersKept == connector # "file" => NoOrderLost

(* The ERPNext page: "sending the same confirmation twice still leaves     *)
(* exactly one stock entry". Whatever fails, repeats or is put back, there *)
(* is no second, except one ERPNext was asked for and made after the MES   *)
(* had given up on it; and what is marked sent has one.                    *)
OneEntry ==
  \A m \in Stocked :
    /\ entries[m] <= 1 + outlived[m]
    /\ connector = "erpnext" /\ status[m] = "sent" => entries[m] > 0

\* The worker cannot get past a row it cannot read.
Stalled == connector # "file" /\ ~(New \subseteq Readable)

(* sync: the interface "never stalls on a bad one". Every message the     *)
(* plant owes is delivered some day or left to a person, and every order   *)
(* recorded, unless an unreadable row of an API stops the worker or the    *)
(* file connector has lost the order.                                      *)
NeverStalls ==
  /\ \A m \in Message : status[m] = "pending" ~> status[m] \in {"sent", "dead"} \/ Stalled
  /\ \A o \in Readable :
       offer[o] = "new" ~> logged[o] # "none" \/ connector = "file" \/ Stalled

Out == INSTANCE AtLeastOnce WITH
  fate <- [m \in Message |-> CASE status[m] = "none"    -> "none"
                               [] status[m] = "pending" -> "owed"
                               [] status[m] = "sent"    -> "delivered"
                               [] status[m] = "dead"    -> "given up"],
  arrived <- arrived

(* The worker's outbox implements AtLeastOnce: nothing is marked sent that *)
(* has not arrived, and nothing arrives that is not owed.                  *)
DeliversOutbox == Out!Spec
=============================================================================
