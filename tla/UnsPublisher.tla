---------------------------- MODULE UnsPublisher ----------------------------
(***************************************************************************)
(* The unified-namespace publisher: the second reader of the outbox, with  *)
(* a publication row of its own for every message, and its broker.         *)
(*                                                                         *)
(* A cycle enrols what is new, selects what is due, publishes it in groups *)
(* of Inflight messages, in the order of the outbox, and records the whole *)
(* batch in one transaction after the last answer. The transport connects  *)
(* lazily: a group that starts with a connection keeps its order over it,  *)
(* and in any other group each publish opens a connection of its own. A    *)
(* publish may fail, or work and lose its acknowledgement; the worker may  *)
(* stop or die between any two.                                            *)
(***************************************************************************)
EXTENDS Integers, FiniteSets

CONSTANTS
  Message,      \* outbox messages, numbered as the outbox numbers them
  TopicOf,      \* the topic each is published on
  MaxAttempts,  \* [controls] uns_max_attempts
  Batch,        \* uns_batch
  Inflight,     \* uns_inflight
  MaxFaults, MaxPutBacks  \* bounds, as in ErpSync

ASSUME MessageAssumption == Message \subseteq Nat
ASSUME SettingsAssumption ==
  MaxAttempts \in Nat \ {0} /\ Batch \in Nat \ {0} /\ Inflight \in Nat \ {0}
ASSUME BoundAssumption == MaxFaults \in Nat /\ MaxPutBacks \in Nat

VARIABLES
  queued,    \* messages whose transaction has committed
  status,    \* of each publication; "none" before it is enrolled
  attempts,  \* of each publication
  resting,   \* publications that back off
  step,      \* where the cycle is
  batch,     \* what it selected and has not started to publish
  group,     \* what it is publishing, together
  spread,    \* the group's publishes go over connections of their own
  client,    \* the transport holds a connection
  outcome,   \* what the publishes of this cycle came to
  arrived,   \* times the broker has taken each message
  excused,   \* messages that failed once, or were seen after a later one
  loose,     \* messages that were spread together with a later one
  faults, putBacks

publications == <<status, attempts, resting>>
sending == <<group, spread, client>>
worker == <<step, batch, sending, outcome>>
marks == <<excused, loose>>
bounds == <<faults, putBacks>>
vars == <<queued, publications, worker, arrived, marks, bounds>>

TypeOK ==
  /\ queued \subseteq Message
  /\ status \in [Message -> {"none", "pending", "sent", "dead"}]
  /\ attempts \in [Message -> Nat]
  /\ resting \subseteq {m \in Message : status[m] = "pending"}
  /\ step \in {"sleep", "select", "publish"}
  /\ batch \subseteq queued /\ group \subseteq queued
  /\ spread \in BOOLEAN /\ client \in BOOLEAN
  /\ outcome \in [Message -> {"none", "ok", "failed"}]
  /\ arrived \in [Message -> Nat]
  /\ excused \subseteq Message /\ loose \subseteq Message
  /\ faults \in Nat /\ putBacks \in Nat

NoOutcome == [m \in Message |-> "none"]

\* run: it connects before its first cycle, or goes on without.
Init ==
  /\ queued = {}
  /\ status = [m \in Message |-> "none"]
  /\ attempts = [m \in Message |-> 0]
  /\ resting = {}
  /\ step = "sleep" /\ batch = {} /\ outcome = NoOutcome
  /\ arrived = [m \in Message |-> 0]
  /\ group = {} /\ spread = FALSE /\ client \in BOOLEAN
  /\ excused = {} /\ loose = {}
  /\ faults = 0 /\ putBacks = 0

Later(m) == {n \in Message : n > m /\ TopicOf[n] = TopicOf[m]}

Another == faults < MaxFaults /\ faults' = faults + 1 /\ UNCHANGED putBacks

-----------------------------------------------------------------------------
(* The plant and its people *)

\* Several workers write the outbox: a number may commit after a higher one.
Queue(m) ==
  /\ m \notin queued
  /\ queued' = queued \cup {m}
  /\ excused' = IF \E n \in Later(m) : status[n] # "none" THEN excused \cup {m} ELSE excused
  /\ UNCHANGED <<publications, worker, arrived, loose, bounds>>

BackoffEnds(m) ==
  /\ m \in resting
  /\ resting' = resting \ {m}
  /\ UNCHANGED <<queued, status, attempts, worker, arrived, marks, bounds>>

\* retry: a dead publication or one that backs off, never a published one.
PutBack(m) ==
  /\ status[m] = "dead" \/ m \in resting
  /\ putBacks < MaxPutBacks /\ putBacks' = putBacks + 1
  /\ status' = [status EXCEPT ![m] = "pending"]
  /\ resting' = resting \ {m}
  /\ UNCHANGED <<queued, attempts, worker, arrived, marks, faults>>

-----------------------------------------------------------------------------
(* The cycle *)

Enrolled(new) ==
  /\ step = "sleep"
  /\ status' = [m \in Message |-> IF m \in new THEN "pending" ELSE status[m]]
  /\ step' = "select"
  /\ UNCHANGED <<queued, attempts, resting, batch, sending, outcome, arrived, marks, bounds>>

\* Mutant of Enrol: from the highest message enrolled so far.
EnrolOnwards ==
  Enrolled({m \in queued : \A n \in Message : status[n] # "none" => n < m})

\* Every message without a publication, whatever its number.
Enrol == Enrolled({m \in queued : status[m] = "none"})

Due == {m \in Message : status[m] = "pending"} \ resting

\* Mutant of Select: the newest that are due.
SelectNewest ==
  /\ step = "select"
  /\ batch' = {m \in Due : Cardinality({n \in Due : m < n}) < Batch}
  /\ step' = "publish"
  /\ UNCHANGED <<queued, publications, sending, outcome, arrived, marks, bounds>>

\* The oldest of them, so many at most.
Oldest(set, limit) == {m \in set : Cardinality({n \in set : n < m}) < limit}

\* The oldest that are due, as many as fit in a batch.
Select ==
  /\ step = "select"
  /\ batch' = Oldest(Due, Batch)
  /\ step' = "publish"
  /\ UNCHANGED <<queued, publications, sending, outcome, arrived, marks, bounds>>

\* Those of a set that have a later message of their topic beside them.
Unordered(set) == {m \in set : set \cap Later(m) # {}}

\* _in_flight: the next group goes out together. Without a connection every
\* publish of it finds none, and opens one.
StartGroup ==
  /\ step = "publish" /\ group = {} /\ batch # {}
  /\ group' = Oldest(batch, Inflight)
  /\ batch' = batch \ group'
  /\ spread' = ~client
  /\ loose' = IF client THEN loose ELSE loose \cup Unordered(group')
  /\ UNCHANGED <<queued, publications, step, client, outcome, arrived, excused, bounds>>

Ended(m, o) ==
  /\ group' = group \ {m}
  /\ outcome' = [outcome EXCEPT ![m] = o]

Arrives(m) == arrived' = [arrived EXCEPT ![m] = @ + 1]

\* One connection keeps the order of what it is given; several keep none,
\* and leave the transport with the last that was opened, if any.
Succeeds(m) ==
  /\ spread \/ \A n \in group : m <= n
  /\ Ended(m, "ok") /\ Arrives(m)
  /\ client' \in (IF spread THEN {client, TRUE} ELSE {client})
  /\ UNCHANGED <<spread, marks, bounds>>

\* A failure holds nothing back. It drops the connection, unless it could not
\* open one, and what follows it in the group opens another.
Fails(m) ==
  /\ Another
  /\ Ended(m, "failed") /\ (Arrives(m) \/ UNCHANGED arrived)
  /\ client' \in (IF spread THEN {client, FALSE} ELSE {FALSE})
  /\ spread' = TRUE
  /\ excused' = excused \cup {m}
  /\ loose' = loose \cup Unordered(group)

Publish(m) ==
  /\ step = "publish" /\ m \in group
  /\ Succeeds(m) \/ Fails(m)
  /\ UNCHANGED <<queued, publications, step, batch>>

Failed == {m \in Message : outcome[m] = "failed"}
Died == {m \in Failed : attempts[m] + 1 >= MaxAttempts}
Published == {m \in Message : outcome[m] = "ok"}

\* Mutant of Record: whatever was tried is published.
RecordSent ==
  /\ step = "publish" /\ batch = {} /\ group = {}
  /\ status' = [m \in Message |-> IF outcome[m] # "none" THEN "sent" ELSE status[m]]
  /\ step' = "sleep" /\ outcome' = NoOutcome
  /\ UNCHANGED <<queued, attempts, resting, batch, sending, arrived, marks, bounds>>

\* Mutant of Record: the last attempt backs off as the others do.
RecordResting ==
  /\ step = "publish" /\ batch = {} /\ group = {}
  /\ status' = [m \in Message |-> IF m \in Published THEN "sent"
                                  ELSE IF m \in Died THEN "dead" ELSE status[m]]
  /\ attempts' = [m \in Message |-> IF m \in Failed THEN attempts[m] + 1 ELSE attempts[m]]
  /\ resting' = (resting \ Published) \cup Failed
  /\ step' = "sleep" /\ outcome' = NoOutcome
  /\ UNCHANGED <<queued, batch, sending, arrived, marks, bounds>>

\* record: every outcome of the cycle in one transaction.
Record ==
  /\ step = "publish" /\ batch = {} /\ group = {}
  /\ status' = [m \in Message |-> IF m \in Published THEN "sent"
                                  ELSE IF m \in Died THEN "dead" ELSE status[m]]
  /\ attempts' = [m \in Message |-> IF m \in Failed THEN attempts[m] + 1 ELSE attempts[m]]
  /\ resting' = ((resting \ Published) \ Died) \cup (Failed \ Died)
  /\ step' = "sleep" /\ outcome' = NoOutcome
  /\ UNCHANGED <<queued, batch, sending, arrived, marks, bounds>>

\* A cycle that is cancelled, raises or dies: what it knew is lost. The next
\* keeps the connection, or is of a worker that starts again.
Ends ==
  /\ step # "sleep"
  /\ Another
  /\ step' = "sleep" /\ batch' = {} /\ group' = {} /\ outcome' = NoOutcome
  /\ client' \in BOOLEAN
  /\ UNCHANGED <<queued, publications, spread, arrived, marks>>

Worker == Enrol \/ Select \/ StartGroup \/ Record \/ \E m \in Message : Publish(m)

Next ==
  \/ Worker
  \/ Ends
  \/ \E m \in Message : Queue(m) \/ BackoffEnds(m) \/ PutBack(m)

Spec == Init /\ [][Next]_vars

Fairness ==
  /\ WF_vars(Worker)
  /\ \A m \in Message : WF_vars(BackoffEnds(m))

FairSpec == Spec /\ Fairness

-----------------------------------------------------------------------------
(* Properties *)

InOrderOf(set) ==
  \A m \in set : arrived[m] = 0 /\ arrived'[m] > 0 => \A n \in Later(m) : arrived[n] = 0

(* due: "A namespace that delivers a shift out of order is worse than one  *)
(* that is an hour behind". What the code keeps of it: no message arrives  *)
(* first after a later one of its topic, unless it had failed, had not     *)
(* committed when the later one was enrolled, or was in one group with a   *)
(* later one that did not go out over one connection.                      *)
OvertakenOnlyIfExcused == [][InOrderOf(Message \ (excused \cup loose))]_vars

(* docs/operate/uns.md: "Events still go onto the wire oldest first". What *)
(* neither failed nor committed late is not overtaken, whatever connection *)
(* its group went out over. The code keeps it in groups of one only.       *)
OldestFirstOnTheWire == [][InOrderOf(Message \ excused)]_vars

(* enrol: nothing is stepped over. Every message of the outbox, in whatever*)
(* order the transactions committed, is some day published or left dead.   *)
NothingSteppedOver ==
  \A m \in Message : m \in queued ~> status[m] \in {"sent", "dead"}

Out == INSTANCE AtLeastOnce WITH
  fate <- [m \in Message |-> CASE m \notin queued      -> "none"
                               [] status[m] = "sent"   -> "delivered"
                               [] status[m] = "dead"   -> "given up"
                               [] OTHER                -> "owed"],
  arrived <- arrived

(* The publisher's rows implement AtLeastOnce, from the moment a message   *)
(* is in the outbox: what is marked published has reached the broker.      *)
DeliversOutbox == Out!Spec
=============================================================================
