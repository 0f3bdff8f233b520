-------------------------- MODULE UnsPublisherProofs --------------------------
(***************************************************************************)
(* Theorems about UnsPublisher: for any messages and topics, any size of   *)
(* a batch and of a group, any attempts, and any number of failures and    *)
(* put-backs.                                                              *)
(***************************************************************************)
EXTENDS UnsPublisher, FiniteSetTheorems, TLAPS

(* What is in hand is owed: only Record concludes a publication, and it    *)
(* comes after the batch. What went well has arrived.                      *)
InHandIsOwed ==
  \A m \in Message :
    /\ status[m] # "none" => m \in queued
    /\ m \in batch \cup group \/ outcome[m] # "none" => status[m] = "pending"
    /\ outcome[m] = "ok" \/ status[m] = "sent" => arrived[m] > 0

LEMMA InHandInvariant == Spec => [](TypeOK /\ InHandIsOwed)
<1> DEFINE Inv == TypeOK /\ InHandIsOwed
<1>1. Init => Inv
  <2>1. Init => spread \in BOOLEAN /\ client \in BOOLEAN
    BY Zenon DEF Init
  <2> QED
    BY <2>1 DEF Init, TypeOK, InHandIsOwed, NoOutcome
<1>2. Inv /\ [Next]_vars => Inv'
  <2> SUFFICES ASSUME TypeOK, InHandIsOwed, [Next]_vars PROVE Inv'
    OBVIOUS
  <2> USE DEF TypeOK, InHandIsOwed, publications, worker, sending, marks, bounds
  <2>1. ASSUME NEW m \in Message, Queue(m) PROVE Inv'
    BY <2>1 DEF Queue
  <2>2. ASSUME NEW m \in Message, BackoffEnds(m) PROVE Inv'
    BY <2>2 DEF BackoffEnds
  <2>3. ASSUME NEW m \in Message, PutBack(m) PROVE Inv'
    BY <2>3 DEF PutBack
  <2>4. CASE Enrol
    BY <2>4 DEF Enrol, Enrolled
  <2>5. CASE Select
    BY <2>5 DEF Select, Oldest, Due
  <2>10. CASE StartGroup
    BY <2>10 DEF StartGroup, Oldest, Unordered
  <2>6. ASSUME NEW m \in Message, Publish(m) PROVE Inv'
    <3>1. PICK o \in {"ok", "failed"} : Ended(m, o) /\ (o = "ok" => Arrives(m))
      BY <2>6 DEF Publish, Succeeds, Fails
    <3>2. m \in group /\ UNCHANGED <<queued, publications, step, batch>>
          /\ (Succeeds(m) \/ Fails(m))
      BY <2>6 DEF Publish
    <3>3. /\ Arrives(m) \/ UNCHANGED arrived
          /\ excused' \subseteq Message /\ loose' \subseteq Message
          /\ faults' \in Nat /\ putBacks' \in Nat
      <4>1. CASE Succeeds(m)
        BY <4>1 DEF Succeeds
      <4>2. CASE Fails(m)
        BY <4>2 DEF Fails, Another, Unordered
      <4> QED
        BY <3>2, <4>1, <4>2
    <3>4. client' \in BOOLEAN /\ spread' \in BOOLEAN
      <4>1. CASE Succeeds(m)
        BY <4>1, ZenonT(30) DEF Succeeds
      <4>2. CASE Fails(m)
        BY <4>2, ZenonT(30) DEF Fails
      <4> QED
        BY <3>2, <4>1, <4>2
    <3> QED
      BY <3>1, <3>2, <3>3, <3>4 DEF Ended, Arrives
  <2>7. CASE Record
    BY <2>7 DEF Record, NoOutcome, Failed, Died, Published
  <2>8. CASE Ends
    BY <2>8 DEF Ends, Another, NoOutcome
  <2>9. CASE UNCHANGED vars
    BY <2>9 DEF vars
  <2> QED
    BY <2>1, <2>2, <2>3, <2>4, <2>5, <2>6, <2>7, <2>8, <2>9, <2>10 DEF Next, Worker
<1> QED
  BY <1>1, <1>2, PTL DEF Spec

(* Every variable keeps its type, and only an owed publication backs off.  *)
THEOREM TypeCorrect == Spec => []TypeOK
BY InHandInvariant, PTL

-----------------------------------------------------------------------------
(* The order of a topic *)

(* Of a message that committed before the later ones of its topic were     *)
(* enrolled, never failed and was never spread with a later one, the       *)
(* publisher keeps the order: it enrols it no later, has it in every batch *)
(* and every group that holds a later one until it is there, shares a      *)
(* connection with a later one of its group, and no later one is there     *)
(* before it.                                                              *)
InOrder ==
  /\ \A m \in Message :
       /\ arrived[m] > 0 => status[m] # "none"
       /\ m \in resting \/ status[m] = "dead" \/ outcome[m] = "failed" => m \in excused
  /\ \A m \in queued \ (excused \cup loose) : \A n \in Later(m) :
       /\ status[n] # "none" => status[m] # "none"
       /\ n \in batch => m \in batch \cup group \/ arrived[m] > 0
       /\ n \in group => m \in group \/ arrived[m] > 0
       /\ {m, n} \subseteq group => ~spread
       /\ arrived[m] = 0 => arrived[n] = 0

(* The oldest of a set: what is in it and older than one of them is        *)
(* another of them, whatever their number.                                 *)
LEMMA OldestFirst ==
  ASSUME NEW D \in SUBSET Nat, NEW limit \in Nat, NEW m \in D, NEW n \in Oldest(D, limit),
         m < n
  PROVE  m \in Oldest(D, limit)
<1> DEFINE Before(x) == {k \in D : k < x}
<1>1. IsFiniteSet(Before(n))
  <2>1. n \in D
    BY DEF Oldest
  <2> QED
    BY <2>1, FS_BoundedSetOfNaturals
<1>2. Before(m) \in SUBSET Before(n)
  <2>1. \A k \in Nat : k < m => k < n
    BY m \in Nat, n \in Nat DEF Oldest
  <2> QED
    BY <2>1
<1>3. Cardinality(Before(m)) \in Nat /\ Cardinality(Before(n)) \in Nat
      /\ Cardinality(Before(m)) <= Cardinality(Before(n))
  BY <1>1, <1>2, FS_Subset, FS_CardinalityType
<1> QED
  BY <1>3 DEF Oldest

LEMMA InOrderInvariant == Spec => []InOrder
<1>1. Init => InOrder
  BY DEF Init, InOrder, NoOutcome
<1>2. TypeOK /\ InHandIsOwed /\ InOrder /\ [Next]_vars => InOrder'
  <2> SUFFICES ASSUME TypeOK, InHandIsOwed, InOrder, [Next]_vars PROVE InOrder'
    OBVIOUS
  <2> USE DEF TypeOK, InHandIsOwed, InOrder, publications, worker, sending, marks
  <2>1. ASSUME NEW m \in Message, Queue(m) PROVE InOrder'
    <3>1. \A n \in Later(m) : m \notin excused' => n \notin batch \cup group /\ arrived[n] = 0
      BY <2>1 DEF Queue, Later
    <3> QED
      BY <2>1, <3>1 DEF Queue, Later
  <2>2. ASSUME NEW m \in Message, BackoffEnds(m) PROVE InOrder'
    BY <2>2 DEF BackoffEnds, Later
  <2>3. ASSUME NEW m \in Message, PutBack(m) PROVE InOrder'
    BY <2>3 DEF PutBack, Later
  <2>4. CASE Enrol
    BY <2>4 DEF Enrol, Enrolled, Later
  <2>5. CASE Select
    <3>1. ASSUME NEW m \in queued \ (excused \cup loose), NEW n \in Later(m), n \in batch'
          PROVE  m \in batch' \/ arrived[m] > 0
      <4>1. n \in Oldest(Due, Batch) /\ m < n /\ m \in Message /\ n \in Message
        BY <2>5, <3>1 DEF Select, Later
      <4>2. n \in Due
        BY <4>1 DEF Oldest
      <4>3. status[m] \in {"pending", "sent"}
        BY <3>1, <4>1, <4>2 DEF Due
      <4>4. CASE status[m] = "pending"
        <5>1. m \in Due /\ Due \in SUBSET Nat
          BY <3>1, <4>1, <4>4, MessageAssumption DEF Due
        <5> QED
          BY <2>5, <4>1, <5>1, OldestFirst, SettingsAssumption DEF Select
      <4> QED
        BY <4>1, <4>3, <4>4
    <3> QED
      BY <2>5, <3>1, SMTT(30) DEF Select, Later
  <2>10. CASE StartGroup
    <3>1. /\ group = {} /\ group' = Oldest(batch, Inflight) /\ batch' = batch \ group'
          /\ group' \subseteq batch
          /\ UNCHANGED <<queued, publications, step, outcome, arrived, excused>>
          /\ loose \subseteq loose' /\ (spread' => Unordered(group') \subseteq loose')
      BY <2>10 DEF StartGroup, Oldest
    <3>2. ASSUME NEW m \in batch, NEW n \in Later(m), n \in group' PROVE m \in group'
      <4>1. batch \in SUBSET Nat /\ m < n
        BY MessageAssumption DEF Later
      <4> QED
        BY <3>1, <3>2, <4>1, OldestFirst, SettingsAssumption
    <3>3. ASSUME NEW m \in group', NEW n \in Later(m), n \in group', spread' PROVE m \in loose'
      BY <3>1, <3>3 DEF Unordered
    <3> QED
      BY <3>1, <3>2, <3>3, SMTT(30) DEF Later
  <2>6. ASSUME NEW k \in Message, Publish(k) PROVE InOrder'
    <3>1. /\ k \in group /\ group' = group \ {k} /\ UNCHANGED <<queued, publications, batch>>
          /\ arrived' = arrived \/ arrived' = [arrived EXCEPT ![k] = @ + 1]
      BY <2>6 DEF Publish, Succeeds, Fails, Ended, Arrives
    <3>2. CASE Succeeds(k)
      <4>1. /\ spread \/ \A n \in group : k <= n
            /\ arrived' = [arrived EXCEPT ![k] = @ + 1]
            /\ outcome' = [outcome EXCEPT ![k] = "ok"]
            /\ UNCHANGED <<spread, excused, loose>>
        BY <3>2 DEF Succeeds, Ended, Arrives
      <4>2. ASSUME NEW m \in queued \ (excused \cup loose), k \in Later(m), arrived[m] = 0
            PROVE  FALSE
        <5>1. m \in group /\ ~spread /\ m < k
          BY <3>1, <4>2 DEF Later
        <5> QED
          BY <3>1, <4>1, <4>2, <5>1, MessageAssumption
      <4> QED
        BY <3>1, <4>1, <4>2, SMTT(30) DEF Later
    <3>3. CASE Fails(k)
      <4>1. /\ excused' = excused \cup {k} /\ loose' = loose \cup Unordered(group)
            /\ outcome' = [outcome EXCEPT ![k] = "failed"]
        BY <3>3 DEF Fails, Ended
      <4>2. ASSUME NEW m \in group, NEW n \in Later(m), n \in group PROVE m \in loose'
        BY <4>1, <4>2 DEF Unordered
      <4> QED
        BY <3>1, <4>1, <4>2, SMTT(30) DEF Later
    <3> QED
      BY <2>6, <3>2, <3>3 DEF Publish
  <2>7. CASE Record
    BY <2>7 DEF Record, NoOutcome, Failed, Died, Published, Later
  <2>8. CASE Ends
    BY <2>8 DEF Ends, NoOutcome, Later
  <2>9. CASE UNCHANGED vars
    BY <2>9 DEF vars, Later
  <2> QED
    BY <2>1, <2>2, <2>3, <2>4, <2>5, <2>6, <2>7, <2>8, <2>9, <2>10 DEF Next, Worker
<1> QED
  BY <1>1, <1>2, InHandInvariant, PTL DEF Spec

(* What is kept of due's order, for any topics, batches, groups and        *)
(* failures: no message arrives first after a later one of its topic       *)
(* unless it failed, committed after the later one was enrolled, or went   *)
(* out in a group of several connections.                                  *)
THEOREM TopicInOrder == Spec => OvertakenOnlyIfExcused
<1> DEFINE Kept == InOrderOf(Message \ (excused \cup loose))
<1>1. TypeOK /\ InHandIsOwed /\ InOrder /\ [Next]_vars => [Kept]_vars
  <2> SUFFICES ASSUME TypeOK, InHandIsOwed, InOrder, Next PROVE Kept
    OBVIOUS
  <2>1. ASSUME NEW k \in Message, Publish(k) PROVE Kept
    <3>1. k \in queued /\ (arrived' = arrived \/ arrived' = [arrived EXCEPT ![k] = @ + 1])
      BY <2>1 DEF Publish, Succeeds, Fails, Arrives, TypeOK
    <3> QED
      BY <3>1 DEF TypeOK, InOrder, InOrderOf
  <2>2. CASE UNCHANGED arrived
    BY <2>2 DEF TypeOK, InOrderOf
  <2> QED
    BY <2>1, <2>2
    DEF Next, Worker, Queue, BackoffEnds, PutBack, Enrol, Enrolled, Select, StartGroup, Record,
        Ends
<1> QED
  BY <1>1, InHandInvariant, InOrderInvariant, PTL DEF Spec, OvertakenOnlyIfExcused

(* A group of one has nothing to be spread with.                           *)
Alone == loose = {} /\ \A m, n \in group : m = n

LEMMA AloneInvariant == ASSUME Inflight = 1 PROVE Spec => []Alone
<1> SUFFICES ASSUME Inflight = 1 PROVE Spec => []Alone
  OBVIOUS
<1>1. Init => Alone
  BY DEF Init, Alone
<1>2. TypeOK /\ Alone /\ [Next]_vars => Alone'
  <2> SUFFICES ASSUME TypeOK, Alone, [Next]_vars PROVE Alone'
    OBVIOUS
  <2>1. ASSUME NEW S \in SUBSET Message, \A m, n \in S : m = n PROVE Unordered(S) = {}
    <3>1. ASSUME NEW m \in S, NEW n \in S, n \in Later(m) PROVE FALSE
      <4>1. n = m /\ n > m /\ m \in Nat
        BY <2>1, <3>1, MessageAssumption DEF Later
      <4> QED
        BY <4>1
    <3> QED
      BY <3>1 DEF Unordered
  <2>2. CASE StartGroup
    <3>1. ASSUME NEW m \in group', NEW n \in group', m < n PROVE FALSE
      <4>1. n \in batch /\ m \in batch /\ batch \in SUBSET Nat
            /\ Cardinality({k \in batch : k < n}) < 1
        BY <2>2, <3>1, MessageAssumption, Inflight = 1 DEF StartGroup, Oldest, TypeOK
      <4>2. IsFiniteSet({k \in batch : k < n}) /\ {m} \in SUBSET {k \in batch : k < n}
        BY <3>1, <4>1, FS_BoundedSetOfNaturals
      <4>3. Cardinality({m}) = 1 /\ Cardinality({k \in batch : k < n}) \in Nat
            /\ Cardinality({m}) <= Cardinality({k \in batch : k < n})
        BY <4>2, FS_Subset, FS_CardinalityType, FS_Singleton
      <4> QED
        BY <4>1, <4>3
    <3>2. group' \in SUBSET Message /\ group' \in SUBSET Nat
      BY <2>2, MessageAssumption DEF StartGroup, Oldest, TypeOK
    <3>3. \A m, n \in group' : m = n
      BY <3>1, <3>2
    <3> QED
      BY <2>1, <2>2, <3>2, <3>3 DEF StartGroup, Alone
  <2>3. ASSUME NEW k \in Message, Publish(k) PROVE Alone'
    <3>1. Unordered(group) = {}
      BY <2>1 DEF Alone, TypeOK
    <3> QED
      BY <2>3, <3>1 DEF Publish, Succeeds, Fails, Ended, Alone, marks
  <2> QED
    BY <2>2, <2>3
    DEF Next, Worker, Queue, BackoffEnds, PutBack, Enrol, Enrolled, Select, Record, Ends,
        Alone, vars, worker, sending, marks
<1> QED
  BY <1>1, <1>2, InHandInvariant, PTL DEF Spec

(* uns_inflight of 1 "restores the old one-at-a-time behaviour": whatever  *)
(* connections come and go, nothing that neither failed nor was late is    *)
(* overtaken by a later message of its topic.                              *)
THEOREM OneInFlightInOrder == ASSUME Inflight = 1 PROVE Spec => OldestFirstOnTheWire
<1>1. Alone /\ [InOrderOf(Message \ (excused \cup loose))]_vars
      => [InOrderOf(Message \ excused)]_vars
  BY DEF Alone
<1> QED
  BY <1>1, AloneInvariant, TopicInOrder, PTL
  DEF OvertakenOnlyIfExcused, OldestFirstOnTheWire

-----------------------------------------------------------------------------
(* The publications implement AtLeastOnce: the initial states map to its   *)
(* initial state, a publish is an arrival or nothing, and one Record       *)
(* concludes as many messages as the batch had.                            *)
THEOREM OutboxIsDelivered == Spec => DeliversOutbox
<1>1. Init => Out!Init
  BY DEF Init, Out!Init
<1>2. TypeOK /\ TypeOK' /\ InHandIsOwed /\ [Next]_vars => [Out!Next]_(Out!vars)
  <2> SUFFICES ASSUME TypeOK, TypeOK', InHandIsOwed, [Next]_vars
               PROVE  Out!Next \/ UNCHANGED Out!vars
    OBVIOUS
  <2> USE DEF TypeOK, InHandIsOwed, publications, worker
  <2> DEFINE fate == [m \in Message |-> CASE m \notin queued    -> "none"
                                          [] status[m] = "sent" -> "delivered"
                                          [] status[m] = "dead" -> "given up"
                                          [] OTHER              -> "owed"]
             Step(m) == Out!Stay(m) \/ Out!Owe(m) \/ Out!Arrive(m) \/ Out!Conclude(m)
                          \/ Out!PutBack(m)
  <2>1. fate' \in [Message -> Out!Fate] /\ arrived' \in [Message -> Nat]
    BY DEF Out!Fate
  <2>2. ASSUME \A m \in Message : Step(m) PROVE Out!Next
    BY <2>1, <2>2 DEF Out!Next
  <2>3. ASSUME NEW m \in Message, Queue(m) PROVE Out!Next
    <3>1. \A n \in Message : n # m => Out!Stay(n)
      BY <2>3 DEF Queue, Out!Stay
    <3>2. Out!Owe(m)
      BY <2>3 DEF Queue, Out!Owe
    <3> QED
      BY <2>2, <3>1, <3>2
  <2>4. ASSUME NEW m \in Message, PutBack(m) PROVE Out!Next
    <3>1. \A n \in Message : n # m => Out!Stay(n)
      BY <2>4 DEF PutBack, Out!Stay
    <3>2. Out!PutBack(m) \/ Out!Stay(m)
      BY <2>4 DEF PutBack, Out!PutBack, Out!Stay
    <3> QED
      BY <2>2, <3>1, <3>2
  <2>5. CASE Enrol
    <3>1. \A m \in Message : Out!Stay(m)
      BY <2>5 DEF Enrol, Enrolled, Out!Stay
    <3> QED
      BY <2>2, <3>1
  <2>6. ASSUME NEW m \in Message, Publish(m) PROVE Out!Next
    <3>1. UNCHANGED <<queued, status>> /\ m \in queued /\ status[m] = "pending"
          /\ (UNCHANGED arrived \/ arrived' = [arrived EXCEPT ![m] = @ + 1])
      BY <2>6 DEF Publish, Succeeds, Fails, Arrives
    <3>2. \A n \in Message : n # m => Out!Stay(n)
      BY <3>1 DEF Out!Stay
    <3>3. Out!Arrive(m) \/ Out!Stay(m)
      BY <3>1 DEF Out!Arrive, Out!Stay
    <3> QED
      BY <2>2, <3>2, <3>3
  <2>7. CASE Record
    <3>1. ASSUME NEW m \in Message, outcome[m] = "ok" PROVE Out!Conclude(m)
      BY <2>7, <3>1 DEF Record, Published, Out!Conclude
    <3>2. ASSUME NEW m \in Message, m \in Died PROVE Out!Conclude(m)
      BY <2>7, <3>2 DEF Record, Published, Died, Failed, Out!Conclude
    <3>3. ASSUME NEW m \in Message, outcome[m] # "ok", m \notin Died PROVE Out!Stay(m)
      BY <2>7, <3>3 DEF Record, Published, Out!Stay
    <3> QED
      BY <2>2, <3>1, <3>2, <3>3
  <2>8. CASE UNCHANGED <<queued, status, arrived>>
    BY <2>8 DEF Out!vars
  <2> QED
    BY <2>3, <2>4, <2>5, <2>6, <2>7, <2>8 
    DEF Next, Worker, BackoffEnds, Select, StartGroup, Ends, vars
<1> QED
  BY <1>1, <1>2, InHandInvariant, PTL DEF Spec, DeliversOutbox, Out!Spec
=============================================================================
