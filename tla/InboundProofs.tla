---------------------------- MODULE InboundProofs ----------------------------
(***************************************************************************)
(* Theorems about the inbound drivers: Inbound's events, for any rows,     *)
(* batches, files and messages, and BrokerCounter's totals. MCInbound      *)
(* lets a behaviour be of either.                                          *)
(***************************************************************************)
EXTENDS MCInbound, FiniteSetTheorems, SequenceTheorems, WellFoundedInduction, TLAPS

-----------------------------------------------------------------------------
(* Finite sets of numbers *)

LEMMA LeastNumber ==
  ASSUME NEW T \in SUBSET Nat, T # {}
  PROVE  \E n \in T : \A k \in T : n <= k
<1>1. PICK n \in T : \A k \in T : ~(<<k, n>> \in OpToRel(<, Nat))
  BY WFMin, NatLessThanWellFounded
<1>2. \A k \in T : ~(k < n)
  BY <1>1 DEF OpToRel
<1> QED
  BY <1>2

(* Every finite set of numbers has a largest: of those that had none, one  *)
(* with the fewest numbers would leave such a set when it loses any.       *)
LEMMA LargestNumber ==
  ASSUME NEW S \in SUBSET Nat, IsFiniteSet(S), S # {}
  PROVE  \E m \in S : \A x \in S : x <= m
<1> DEFINE Largest(R) == \E m \in R : \A x \in R : x <= m
           Sizes == {c \in Nat : \E R \in SUBSET Nat :
                       IsFiniteSet(R) /\ R # {} /\ Cardinality(R) = c /\ ~Largest(R)}
<1>1. SUFFICES ASSUME ~Largest(S) PROVE FALSE
  OBVIOUS
<1>2. Cardinality(S) \in Sizes
  BY <1>1, FS_CardinalityType
<1>3. PICK c \in Sizes : \A d \in Sizes : c <= d
  BY <1>2, LeastNumber
<1>4. PICK R \in SUBSET Nat :
        IsFiniteSet(R) /\ R # {} /\ Cardinality(R) = c /\ ~Largest(R)
  BY <1>3
<1>5. PICK x \in R : TRUE
  BY <1>4
<1> DEFINE Rest == R \ {x}
<1>6. IsFiniteSet(Rest) /\ Cardinality(Rest) = c - 1 /\ c - 1 \in Nat /\ Rest \in SUBSET Nat
  <2>1. IsFiniteSet(Rest) /\ Cardinality(Rest) = c - 1
    BY <1>4, <1>5, FS_RemoveElement
  <2>2. Cardinality(Rest) \in Nat
    BY <2>1, FS_CardinalityType
  <2> QED
    BY <2>1, <2>2
<1>7. CASE Rest = {}
  BY <1>4, <1>5, <1>7
<1>8. CASE Rest # {}
  <2>1. Largest(Rest)
    <3>1. c - 1 \notin Sizes
      BY <1>3, <1>6
    <3> QED
      BY <1>6, <1>8, <3>1
  <2>2. PICK m \in Rest : \A y \in Rest : y <= m
    BY <2>1
  <2>3. x \in Nat /\ m \in Nat /\ m \in R /\ \A y \in R : y = x \/ y <= m
    BY <1>4, <1>5, <2>2
  <2>4. CASE x <= m
    BY <1>4, <2>3, <2>4
  <2>5. CASE m < x
    BY <1>4, <1>5, <2>3, <2>5
  <2> QED
    BY <2>3, <2>4, <2>5
<1> QED
  BY <1>7, <1>8

LEMMA MaxIsLargest ==
  ASSUME NEW S \in SUBSET Nat, IsFiniteSet(S), S # {}
  PROVE  Max(S) \in S /\ \A x \in S : x <= Max(S)
BY LargestNumber DEF Max

-----------------------------------------------------------------------------
(* A behaviour of either side is a behaviour of each: the other stutters.  *)

LEMMA BothSides == Spec => EventsSpec /\ CounterSpec
<1>1. Init => EventsInit /\ CounterInit
  BY DEF Init
<1>2. [Next]_allVars => [EventsNext]_eventVars /\ [CounterNext]_counterVars
  BY DEF Next, Events, Totals, allVars
<1> QED
  BY <1>1, <1>2, PTL DEF Spec, EventsSpec, CounterSpec

-----------------------------------------------------------------------------
(* Events *)

(* What is there is a finite part of the column, and a batch is a first    *)
(* part of what was there, behind its cursor: as many rows as fit.         *)
Finite ==
  /\ IsFiniteSet(there)
  /\ batch # None => IsFiniteSet(batch.rows) /\ batch.rows \subseteq there

(* The rows asked for are finite, and no more than a batch takes.          *)
LEMMA BatchFits ==
  ASSUME EventsTypeOK, Finite
  PROVE  LET rows == NextRows(cursor)
         IN rows \in SUBSET there /\ IsFiniteSet(rows) /\ Cardinality(rows) <= MaxRows
<1> DEFINE rows == NextRows(cursor)
           after == {e \in there : e > cursor}
           upTo(e) == {f \in after : f <= e}
<1>1. rows \in SUBSET there /\ IsFiniteSet(rows)
  BY FS_Subset DEF NextRows, Finite
<1>2. CASE rows = {}
  BY <1>1, <1>2, FS_EmptySet, InboundBounds
<1>3. CASE rows # {}
  <2>1. rows \in SUBSET Nat
    BY <1>1, EventAssumption DEF EventsTypeOK
  <2>2. PICK m \in rows : \A e \in rows : e <= m
    BY <1>1, <1>3, <2>1, LargestNumber
  <2>3. Cardinality(upTo(m)) <= MaxRows /\ rows \in SUBSET upTo(m)
    BY <2>2 DEF NextRows
  <2>4. IsFiniteSet(upTo(m))
    BY FS_Subset DEF Finite
  <2>5. /\ Cardinality(rows) <= Cardinality(upTo(m))
        /\ Cardinality(rows) \in Nat /\ Cardinality(upTo(m)) \in Nat
    BY <1>1, <2>3, <2>4, FS_Subset, FS_CardinalityType
  <2> QED
    BY <1>1, <2>3, <2>5, InboundBounds
<1> QED
  BY <1>1, <1>2, <1>3

LEMMA EventsInvariant == EventsSpec => [](EventsTypeOK /\ Finite)
<1> DEFINE Inv == EventsTypeOK /\ Finite
<1>1. EventsInit => Inv
  <2> SUFFICES ASSUME EventsInit PROVE Inv
    OBVIOUS
  <2> USE InboundBounds DEF EventsInit, EventsTypeOK, Position, Place, Driver
  <2>1. there = {} /\ IsFiniteSet({}) /\ batch = None
    BY FS_EmptySet
  <2>2. applied \in [Event -> Nat]
    OBVIOUS
  <2>3. view \in [Driver -> (SUBSET Event) \cup {None}]
    OBVIOUS
  <2>4. EventsTypeOK
    BY <2>1, <2>2, <2>3
  <2> QED
    BY <2>1, <2>4 DEF Finite
<1>2. Inv /\ [EventsNext]_eventVars => Inv'
  <2> SUFFICES ASSUME EventsTypeOK, Finite, [EventsNext]_eventVars PROVE Inv'
    OBVIOUS
  <2> USE InboundBounds
      DEF EventsTypeOK, Finite, writing, polling, filing, eventBounds, Fault, Position, Place
  <2>0. ASSUME NEW d \in Driver, Opened(d) \/ Ended(d)
        PROVE  view' \in [Driver -> (SUBSET Event) \cup {None}]
    BY <2>0 DEF Opened, Ended
  <2>1. ASSUME NEW e \in Event, Insert(e) PROVE Inv'
    BY <2>1, FS_AddElement DEF Insert
  <2>2. ASSUME NEW e \in Event, Teach(e) PROVE Inv'
    BY <2>2 DEF Teach
  <2>3. ASSUME NEW to \in Position, SetWatermark(to) PROVE Inv'
    BY <2>3 DEF SetWatermark
  <2>4. CASE Drop
    BY <2>4 DEF Drop
  <2>5. ASSUME NEW e \in Sent, Send(e) PROVE Inv'
    BY <2>5 DEF Send
  <2>6. CASE Ask
    <3>1. LET rows == NextRows(cursor)
          IN rows \in SUBSET there /\ IsFiniteSet(rows) /\ Cardinality(rows) <= MaxRows
      BY BatchFits
    <3> QED
      BY <2>6, <3>1 DEF Ask
  <2>7. ASSUME NEW d \in Driver, NEW rows \in SUBSET Event, Write(d, rows)
        PROVE  ledger' \in SUBSET Event /\ applied' \in [Event -> Nat]
               /\ view' \in [Driver -> (SUBSET Event) \cup {None}]
    <3>1. Fresh(d, rows) \subseteq Event
      BY DEF Fresh
    <3> QED
      BY <2>0, <2>7, <3>1 DEF Write
  <2>8. CASE PollBegins
    BY <2>0, <2>8 DEF PollBegins, Driver
  <2>9. CASE PollEnds
    <3>1. Write("sql", batch.rows) /\ batch # None /\ batch.rows \in SUBSET Event
      BY <2>9 DEF PollEnds
    <3>2. cursor' \in Position
      <4> DEFINE through == Through(batch.rows, Problems("sql", batch.rows))
      <4>1. through \in SUBSET Nat /\ IsFiniteSet(through) /\ through \subseteq Event
        BY <3>1, FS_Subset, EventAssumption DEF Through
      <4>2. through # {} => Max(through) \in Event
        BY <4>1, MaxIsLargest
      <4> QED
        BY <2>9, <4>2 DEF PollEnds
    <3> QED
      BY <2>7, <2>9, <3>1, <3>2 DEF PollEnds, Driver
  <2>10. CASE PollFails
    BY <2>0, <2>10 DEF PollFails, Driver
  <2>11. CASE FileBegins
    BY <2>0, <2>11 DEF FileBegins, Driver
  <2>12. CASE FileRecorded
    BY <2>7, <2>12, EventAssumption DEF FileRecorded, Driver
  <2>13. CASE FileMoved
    BY <2>13 DEF FileMoved
  <2>14. CASE FolderDies
    BY <2>0, <2>14 DEF FolderDies, Driver
  <2>15. CASE MessageBegins
    BY <2>0, <2>15 DEF MessageBegins, Driver
  <2>16. ASSUME NEW e \in Sent, MessageEnds(e) PROVE Inv'
    BY <2>7, <2>16, EventAssumption DEF MessageEnds, Driver
  <2>17. CASE ListenerLost
    BY <2>0, <2>17 DEF ListenerLost, Driver
  <2>18. CASE UNCHANGED eventVars
    BY <2>18 DEF eventVars
  <2> QED
    BY <2>1, <2>2, <2>3, <2>4, <2>5, <2>6, <2>8, <2>9, <2>10, <2>11, <2>12, <2>13, <2>14,
       <2>15, <2>16, <2>17, <2>18 DEF EventsNext, Poll
<1> QED
  BY <1>1, <1>2, PTL DEF EventsSpec

(* What a driver's transaction records was recorded by none before, and is *)
(* remembered with it.                                                     *)
LEMMA OnceEachInvariant == EventsSpec => []OnceEach
<1> DEFINE Inv == EventsTypeOK /\ OnceEach
<1>1. EventsInit => OnceEach
  BY DEF EventsInit, OnceEach
<1>2. EventsTypeOK /\ OnceEach /\ [EventsNext]_eventVars => OnceEach'
  <2> SUFFICES ASSUME EventsTypeOK, OnceEach, [EventsNext]_eventVars PROVE OnceEach'
    OBVIOUS
  <2>1. ASSUME UNCHANGED writing PROVE OnceEach'
    BY <2>1 DEF OnceEach, writing
  <2>2. ASSUME NEW d \in Driver, NEW rows \in SUBSET Event, Write(d, rows) PROVE OnceEach'
    <3> SUFFICES ASSUME NEW e \in Event
                 PROVE  applied'[e] = IF e \in ledger' THEN 1 ELSE 0
      BY DEF OnceEach
    <3>1. applied[e] = IF e \in ledger THEN 1 ELSE 0
      BY DEF OnceEach
    <3>2. applied'[e] = applied[e] + (IF e \in Fresh(d, rows) THEN 1 ELSE 0)
      BY <2>2 DEF Write
    <3>3. e \in Fresh(d, rows) => e \notin ledger
      BY DEF Fresh
    <3>4. ledger' = ledger \cup Fresh(d, rows)
      BY <2>2 DEF Write
    <3> QED
      BY <3>1, <3>2, <3>3, <3>4
  <2>3. CASE PollEnds
    <3>1. batch.rows \in SUBSET Event
      BY <2>3 DEF PollEnds, EventsTypeOK
    <3> QED
      BY <2>2, <2>3, <3>1 DEF PollEnds, Driver
  <2>4. CASE FileRecorded
    BY <2>2, <2>4, EventAssumption DEF FileRecorded, Driver
  <2>5. ASSUME NEW e \in Sent, MessageEnds(e) PROVE OnceEach'
    BY <2>2, <2>5, EventAssumption DEF MessageEnds, Driver
  <2> QED
    BY <2>1, <2>3, <2>4, <2>5
       DEF EventsNext, Insert, Teach, SetWatermark, Drop, Send, Poll, Ask, PollBegins, PollFails,
           FileBegins, FileMoved, FolderDies, MessageBegins, ListenerLost, eventVars
<1> QED
  BY <1>1, <1>2, EventsInvariant, PTL DEF EventsSpec

(* Whatever lies at or before a position is recorded, or a person stepped  *)
(* over it.                                                                *)
Passed(position) == \A e \in Event : e <= position => e \in ledger \cup stepped

(* Inductive with EventsTypeOK and Finite: what is there is a first part   *)
(* of the column, a batch leaves out nothing that lies between its cursor  *)
(* and a row of it, what a transaction has seen is still recorded, and     *)
(* both the cursor and the place a batch was asked from are passed.        *)
Behind ==
  /\ \A e \in there, f \in Event : f < e => f \in there
  /\ batch # None => \A e \in there, r \in batch.rows :
                       batch.from < e /\ e <= r => e \in batch.rows
  /\ \A d \in Driver : ~Free(d) => view[d] \subseteq ledger
  /\ Passed(cursor)
  /\ batch # None => Passed(batch.from)

LEMMA BehindInvariant ==
  ASSUME Ordered
  PROVE  EventsSpec => []Behind
<1>0. Position \subseteq Nat
  BY EventAssumption DEF Position
<1>1. EventsInit => Behind
  BY EventAssumption DEF EventsInit, Behind, Passed, Free
<1>2. EventsTypeOK /\ Finite /\ Behind /\ [EventsNext]_eventVars => Behind'
  <2> SUFFICES ASSUME EventsTypeOK, Finite, Behind, [EventsNext]_eventVars PROVE Behind'
    OBVIOUS
  <2> USE DEF writing, polling, filing
  \* What does not touch the positions, and forgets nothing that was recorded.
  <2>1. ASSUME UNCHANGED there, UNCHANGED polling, ledger \subseteq ledger',
               \A d \in Driver : view'[d] \in {view[d], None, ledger}
        PROVE  Behind'
    BY <2>1 DEF Behind, Passed, Free
  <2>2. ASSUME NEW d \in Driver, NEW rows, Write(d, rows)
        PROVE  ledger \subseteq ledger' /\ \A c \in Driver : view'[c] \in {view[c], None}
    BY <2>2 DEF Write, Ended, EventsTypeOK
  <2>3. ASSUME NEW d \in Driver, Opened(d)
        PROVE  \A c \in Driver : view'[c] \in {view[c], ledger}
    BY <2>3 DEF Opened, EventsTypeOK
  <2>4. ASSUME NEW d \in Driver, Ended(d)
        PROVE  \A c \in Driver : view'[c] \in {view[c], None}
    BY <2>4 DEF Ended, EventsTypeOK
  <2>5. ASSUME NEW e \in Event, Insert(e) PROVE Behind'
    <3>1. \A x \in there', y \in Event : y < x => y \in there'
      BY <2>5, EventAssumption DEF Insert, Behind, EventsTypeOK
    <3>2. batch # None => \A x \in there', r \in batch.rows :
                            batch.from < x /\ x <= r => x \in batch.rows
      <4> SUFFICES ASSUME batch # None, NEW x \in there', NEW r \in batch.rows,
                          batch.from < x, x <= r
                   PROVE  x \in batch.rows
        OBVIOUS
      <4>1. r \in there /\ r \in Nat /\ x \in Nat /\ x \in Event
        BY <2>5, EventAssumption DEF Insert, Finite, EventsTypeOK
      <4>2. x \in there
        BY <4>1 DEF Behind
      <4> QED
        BY <4>2 DEF Behind
    <3> QED
      BY <2>5, <3>1, <3>2 DEF Insert, Behind, Passed, Free
  <2>6. ASSUME NEW to \in Position, SetWatermark(to) PROVE Behind'
    BY <2>6, EventAssumption DEF SetWatermark, Behind, Passed, Free, EventsTypeOK, Position
  <2>7. CASE Ask
    <3> DEFINE after == {f \in there : f > cursor}
               upTo(e) == {f \in after : f <= e}
    <3>1. \A e \in there, r \in NextRows(cursor) : cursor < e /\ e <= r => e \in NextRows(cursor)
      <4> SUFFICES ASSUME NEW e \in there, NEW r \in NextRows(cursor), cursor < e, e <= r
                   PROVE  e \in NextRows(cursor)
        OBVIOUS
      <4>1. there \subseteq Nat /\ cursor \in Nat
        BY <1>0, EventAssumption DEF EventsTypeOK
      <4>2. r \in there /\ Cardinality(upTo(r)) <= MaxRows
        BY DEF NextRows
      <4>3. upTo(e) \in SUBSET upTo(r)
        <5>1. \A f \in there : f <= e => f <= r
          BY <4>1, <4>2
        <5> QED
          BY <5>1
      <4>4. upTo(r) \in SUBSET there /\ IsFiniteSet(there)
        BY DEF Finite
      <4>5. IsFiniteSet(upTo(r))
        BY <4>4, FS_Subset
      <4>6. /\ Cardinality(upTo(e)) <= Cardinality(upTo(r))
            /\ Cardinality(upTo(e)) \in Nat /\ Cardinality(upTo(r)) \in Nat
        BY <4>3, <4>5, FS_Subset, FS_CardinalityType
      <4>7. e \in after /\ Cardinality(upTo(e)) <= MaxRows
        BY <4>1, <4>2, <4>6, InboundBounds
      <4> QED
        BY <4>7 DEF NextRows
    <3> QED
      BY <2>7, <3>1 DEF Ask, Behind, Passed, Free
  <2>8. CASE PollBegins
    BY <2>1, <2>3, <2>8 DEF PollBegins, Driver
  <2>9. CASE PollEnds
    <3> DEFINE rows == batch.rows
               problems == Problems("sql", rows)
               through == Through(rows, problems)
    <3>1. /\ batch # None /\ ~Free("sql") /\ Write("sql", rows) /\ batch' = None
          /\ cursor' = IF through = {} THEN batch.from ELSE Max(through)
          /\ UNCHANGED <<there, stepped>>
      BY <2>9 DEF PollEnds
    <3>2. ledger' = ledger \cup Fresh("sql", rows) /\ Seen("sql", rows) \subseteq ledger
      BY <3>1 DEF Write, Seen, Behind, Driver
    <3>3. Passed(cursor)'
      <4>1. CASE through = {}
        BY <3>1, <3>2, <4>1 DEF Behind, Passed
      <4>2. CASE through # {}
        <5>1. through \in SUBSET Nat /\ IsFiniteSet(through) /\ through \subseteq rows
          BY <3>1, FS_Subset, EventAssumption DEF Through, EventsTypeOK, Finite
        <5>2. cursor' \in through
          BY <3>1, <4>2, <5>1, MaxIsLargest
        <5> SUFFICES ASSUME NEW e \in Event, e <= cursor', ~(e <= batch.from)
                     PROVE  e \in ledger' \cup stepped
          BY <3>1, <3>2 DEF Behind, Passed
        <5>3. cursor' \in there /\ cursor' \in rows /\ cursor' \in Nat /\ e \in Nat
          BY <3>1, <5>1, <5>2, EventAssumption DEF Finite
        <5>4. e \in there
          BY <5>3 DEF Behind
        <5>5. batch.from \in Nat
          BY <1>0, <3>1 DEF EventsTypeOK
        <5>6. e \in rows
          BY <3>1, <5>3, <5>4, <5>5 DEF Behind
        <5>7. e \notin problems
          BY <5>2, <5>3 DEF Through
        <5> QED
          BY <3>2, <5>6, <5>7 DEF Problems
      <4> QED
        BY <4>1, <4>2
    <3>4. \A d \in Driver : view'[d] \in {view[d], None}
      BY <2>2, <3>1, EventsTypeOK DEF EventsTypeOK, Driver
    <3> QED
      BY <3>1, <3>2, <3>3, <3>4 DEF Behind, Free
  <2>10. CASE PollFails
    BY <2>4, <2>10 DEF PollFails, Driver, Behind, Passed, Free
  <2>11. CASE FileRecorded
    BY <2>1, <2>2, <2>11 DEF FileRecorded, Driver
  <2>12. ASSUME NEW e \in Sent, MessageEnds(e) PROVE Behind'
    BY <2>1, <2>2, <2>12 DEF MessageEnds, Driver
  <2>13. CASE FileBegins \/ MessageBegins
    BY <2>1, <2>3, <2>13 DEF FileBegins, MessageBegins, Driver
  <2>14. CASE FolderDies \/ ListenerLost
    BY <2>1, <2>4, <2>14 DEF FolderDies, ListenerLost, Driver
  <2> QED
    BY <2>1, <2>5, <2>6, <2>7, <2>8, <2>9, <2>10, <2>11, <2>12, <2>13, <2>14
       DEF EventsNext, Teach, Drop, Send, Poll, FileMoved, eventVars
<1> QED
  BY <1>1, <1>2, EventsInvariant, PTL DEF EventsSpec

-----------------------------------------------------------------------------
(* The theorems about events *)

THEOREM EventsTypeCorrect == Spec => []EventsTypeOK
BY EventsInvariant, BothSides, PTL

(* Nothing is recorded twice, and nothing is remembered that was not       *)
(* recorded: whichever drivers bring an event, at once, again or after a   *)
(* crash, for any events, batch size, files and messages.                  *)
THEOREM RecordedOnce == Spec => []OnceEach
BY OnceEachInvariant, BothSides, PTL

(* While the supplier commits its positions in their order, the query's    *)
(* cursor passes no row that is not recorded unless a person moved it,     *)
(* whatever the size of a batch and wherever its first bad row lies.       *)
THEOREM NoRowIsSteppedOver ==
  ASSUME Ordered
  PROVE  Spec => []NothingSteppedOver
<1>1. EventsTypeOK /\ Behind => NothingSteppedOver
  BY DEF Behind, Passed, NothingSteppedOver, EventsTypeOK
<1> QED
  BY <1>1, EventsInvariant, BehindInvariant, BothSides, PTL

-----------------------------------------------------------------------------
(* Totals *)

LEMMA DeliverTypes ==
  ASSUME CounterTypeOK, NEW totals \in Seq(Nat), totals # <<>>, Deliver(totals)
  PROVE  sent' \in Seq(OnWire) /\ kept' \in Total
<1> DEFINE messages == [i \in DOMAIN totals |-> [total |-> totals[i], retained |-> FALSE]]
<1>1. messages \in Seq(OnWire)
  <2>1. DOMAIN totals = 1..Len(totals) /\ Len(totals) \in Nat
    BY LenProperties
  <2>2. messages \in [1..Len(totals) -> OnWire]
    BY <2>1, ElementOfSeq DEF OnWire
  <2> QED
    BY <2>1, <2>2, SeqDef
<1>2. Last(totals) \in Nat
  BY DEF Last
<1> QED
  BY <1>1, <1>2, ConcatProperties DEF Deliver, CounterTypeOK, Total

(* What is handled is a total, and leaves one to remember.                 *)
LEMMA HandledTypes ==
  ASSUME CounterTypeOK, sent # <<>>
  PROVE  /\ Head(sent) \in OnWire /\ Head(sent).total \in Nat /\ Tail(sent) \in Seq(OnWire)
         /\ Remembered(Head(sent).total) \in Nat /\ Rise(Head(sent).total) \in Nat
<1>1. Head(sent) \in OnWire /\ Tail(sent) \in Seq(OnWire)
  BY DEF CounterTypeOK
<1> QED
  BY <1>1 DEF CounterTypeOK, OnWire, Total, Remembered, Rise

LEMMA CounterTypeInvariant == CounterSpec => []CounterTypeOK
<1>1. CounterInit => CounterTypeOK
  <2>1. <<>> \in Seq(OnWire) /\ <<>> \in Seq(Nat) /\ Len(<<>>) = 0
    BY EmptySeq
  <2> QED
    <3> SUFFICES ASSUME CounterInit PROVE CounterTypeOK
      OBVIOUS
    <3>1. resets \in 0..MaxResets /\ repeats \in 0..MaxRepeats /\ breaks \in 0..MaxBreaks
      BY CounterBounds DEF CounterInit
    <3>2. Len(unacked) <= Window
      BY <2>1, CounterBounds DEF CounterInit
    <3>3. listening \in BOOLEAN /\ missed \in BOOLEAN
      BY DEF CounterInit
    <3> QED
      BY <2>1, <3>1, <3>2, <3>3 DEF CounterInit, CounterTypeOK, Total
<1>2. CounterTypeOK /\ [CounterNext]_counterVars => CounterTypeOK'
  <2> SUFFICES ASSUME CounterTypeOK, [CounterNext]_counterVars PROVE CounterTypeOK'
    OBVIOUS
  <2> USE CounterBounds DEF gateway, books, counterBounds, Break
  <2>0. <<>> \in Seq(OnWire)
    BY EmptySeq
  <2>1. CASE Make \/ Reset
    <3>0. plc \in Nat /\ made \in Nat /\ resets \in 0..MaxResets
      BY DEF CounterTypeOK
    <3>1. plc' \in Nat /\ made' \in Nat /\ resets' \in 0..MaxResets
      BY <2>1, <3>0 DEF Make, Reset
    <3>2. UNCHANGED <<told, unacked, kept, sent, listening, last, booked, since, missed,
                      repeats, breaks>>
      BY <2>1 DEF Make, Reset
    <3> QED
      BY <3>1, <3>2 DEF CounterTypeOK
  <2>2. CASE Publish
    <3>1. <<plc>> \in Seq(Nat) /\ <<plc>> # <<>>
      BY DEF CounterTypeOK
    <3>2. sent' \in Seq(OnWire) /\ kept' \in Total
      BY <2>2, <3>1, DeliverTypes DEF Publish
    <3>3. unacked' \in Seq(Nat) /\ Len(unacked') <= Window
      BY <2>2 DEF Publish, CounterTypeOK
    <3> QED
      BY <2>2, <3>2, <3>3 DEF Publish, CounterTypeOK, Total
  <2>3. CASE Acknowledge
    <3>1. unacked' \in Seq(Nat) /\ Len(unacked') <= Window
      BY <2>3 DEF Acknowledge, CounterTypeOK
    <3> QED
      BY <2>3, <3>1 DEF Acknowledge, CounterTypeOK
  <2>4. CASE Republish
    <3>1. sent' \in Seq(OnWire) /\ kept' \in Total
      BY <2>4, DeliverTypes DEF Republish, CounterTypeOK
    <3> QED
      BY <2>4, <3>1 DEF Republish, CounterTypeOK
  <2>5. CASE Subscribe
    <3>1. CASE kept = Unknown
      BY <2>5, <2>0, <3>1 DEF Subscribe, CounterTypeOK
    <3>2. CASE kept # Unknown
      <4>1. [total |-> kept, retained |-> TRUE] \in OnWire
        BY <3>2 DEF OnWire, CounterTypeOK, Total
      <4> QED
        BY <2>5, <3>2, <4>1 DEF Subscribe, CounterTypeOK
    <3> QED
      BY <3>1, <3>2
  <2>6. CASE LinkLost \/ Restart
    <3>1. breaks' \in 0..MaxBreaks
      BY <2>6 DEF LinkLost, Restart, CounterTypeOK
    <3>2. listening' \in BOOLEAN /\ missed' \in BOOLEAN
      BY <2>6 DEF LinkLost, Restart, CounterTypeOK
    <3> QED
      BY <2>0, <2>6, <3>1, <3>2 DEF LinkLost, Restart, CounterTypeOK, Total
  <2>7. CASE HandleRetained \/ Handle \/ HandleFails
    <3>1. sent # <<>>
      BY <2>7 DEF HandleRetained, Handle, HandleFails
    <3>2. sent' \in Seq(OnWire) /\ last' \in Nat /\ since' \in Total
      BY <2>7, <3>1, HandledTypes
         DEF HandleRetained, Handle, HandleFails, Baseline, CounterTypeOK, Total
    <3>3. breaks' \in 0..MaxBreaks
      BY <2>7 DEF HandleRetained, Handle, HandleFails, CounterTypeOK
    <3>4. booked' \in Nat
      BY <2>7, <3>1, HandledTypes DEF HandleRetained, Handle, HandleFails, CounterTypeOK
    <3>5. missed' \in BOOLEAN
      BY <2>7 DEF HandleRetained, Handle, HandleFails, CounterTypeOK
    <3> QED
      BY <2>7, <3>2, <3>3, <3>4, <3>5 DEF HandleRetained, Handle, HandleFails, CounterTypeOK, Total
  <2>8. CASE UNCHANGED counterVars
    BY <2>8 DEF counterVars, CounterTypeOK
  <2> QED
    BY <2>1, <2>2, <2>3, <2>4, <2>5, <2>6, <2>7, <2>8 DEF CounterNext, Listen
<1> QED
  BY <1>1, <1>2, PTL DEF CounterSpec

(* A total w, shown when t units had been made, comes after a total v,     *)
(* shown when s had: it is no more above v than was made in between, for   *)
(* the counter counts what is made, or is reset.                           *)
Follows(v, s, w, t) == s <= t /\ w - v <= t - s

LEMMA FollowsIsTransitive ==
  ASSUME NEW u \in Nat, NEW r \in Nat, NEW v \in Nat, NEW s \in Nat, NEW w \in Nat, NEW t \in Nat,
         Follows(u, r, v, s), Follows(v, s, w, t)
  PROVE  Follows(u, r, w, t)
BY DEF Follows

LEMMA FollowsItself == \A v, s \in Nat : Follows(v, s, v, s)
BY DEF Follows

LEMMA StillFollows ==
  ASSUME NEW v \in Nat, NEW s \in Nat, NEW w \in Nat, NEW t \in Nat, NEW x \in Nat, NEW u \in Nat,
         Follows(v, s, w, t), t <= u, x = 0 \/ x - w <= u - t
  PROVE  Follows(v, s, x, u)
BY DEF Follows

(* With one total in flight whatever the gateway sends again, and whatever *)
(* the broker keeps, is what was told last.                                *)
Published ==
  /\ told = Unknown => sent = <<>> /\ last = Unknown
  /\ kept \in {Unknown, told} /\ (Retain \/ kept = Unknown)
  /\ \A i \in 1..Len(unacked) : unacked[i] = told

(* How many units had been made when each total was shown: s0 when the one *)
(* the listener remembers was, s[i] for those on their way to it, st for   *)
(* the one told last. Each follows those before it, and the counter now    *)
(* follows them all; and no more is booked than was made at the first.     *)
Stamped(s0, s, st) ==
  /\ booked <= s0 /\ s0 <= st
  /\ IF told = Unknown THEN st <= made ELSE Follows(told, st, plc, made)
  /\ last # Unknown => Follows(last, s0, told, st)
  /\ \A i \in 1..Len(sent) :
       /\ s0 <= s[i] /\ Follows(sent[i].total, s[i], told, st)
       /\ last # Unknown => Follows(last, s0, sent[i].total, s[i])
       /\ \A j \in 1..Len(sent) : i < j => Follows(sent[i].total, s[i], sent[j].total, s[j])

Counted == \E s0, st \in Nat, s \in [Nat -> Nat] : Stamped(s0, s, st)

(* Until the counter is reset its totals only rise.                        *)
Climbing ==
  resets = 0 =>
    /\ told # Unknown => told <= plc
    /\ last # Unknown => last <= told
    /\ \A i \in 1..Len(sent) :
         /\ sent[i].total <= told
         /\ last # Unknown => last <= sent[i].total
         /\ \A j \in 1..Len(sent) : i < j => sent[i].total <= sent[j].total

(* Until a total is missed what is booked is the rise since the first.     *)
BookedRise ==
  ~missed => IF last = Unknown THEN since = Unknown /\ booked = 0
             ELSE since # Unknown /\ (resets = 0 => booked = last - since)

(* What is delivered is sent after all the rest, or to nobody.             *)
LEMMA DeliveredLast ==
  ASSUME CounterTypeOK, NEW t \in Nat, Deliver(<<t>>)
  PROVE  /\ Len(sent') \in {Len(sent), Len(sent) + 1}
         /\ \A i \in 1..Len(sent) : sent'[i] = sent[i]
         /\ \A i \in 1..Len(sent') : i > Len(sent) => i = Len(sent) + 1 /\ sent'[i].total = t
         /\ kept' = IF Retain THEN t ELSE kept
<1> DEFINE messages == [i \in DOMAIN <<t>> |-> [total |-> <<t>>[i], retained |-> FALSE]]
<1>1. messages \in Seq(OnWire) /\ Len(messages) = 1 /\ messages[1].total = t
  <2>1. messages \in [1..1 -> OnWire] /\ messages[1].total = t
    BY DEF OnWire
  <2>2. messages \in Seq(OnWire)
    BY <2>1, SeqDef
  <2> QED
    BY <2>1, <2>2, LenProperties
<1>2. sent' = sent \/ sent' = sent \o messages
  BY DEF Deliver
<1>3. Last(<<t>>) = t
  BY DEF Last
<1>4. sent \in Seq(OnWire) /\ Len(sent) \in Nat
  BY LenProperties DEF CounterTypeOK
<1>5. CASE sent' = sent
  BY <1>3, <1>4, <1>5 DEF Deliver
<1>6. CASE sent' = sent \o messages
  <2> HIDE DEF messages
  <2>1. /\ Len(sent \o messages) = Len(sent) + Len(messages)
        /\ \A i \in 1..Len(sent) + Len(messages) :
             (sent \o messages)[i] = IF i <= Len(sent) THEN sent[i] ELSE messages[i - Len(sent)]
    BY <1>1, <1>4, ConcatProperties
  <2> QED
    BY <1>1, <1>3, <1>4, <1>6, <2>1 DEF Deliver
<1> QED
  BY <1>2, <1>5, <1>6

LEMMA OneInFlight ==
  ASSUME Window = 1, CounterTypeOK, Published, unacked # <<>>
  PROVE  unacked = <<told>> /\ told \in Nat
<1>1. unacked \in Seq(Nat) /\ unacked # <<>> /\ Len(unacked) <= 1
  BY DEF CounterTypeOK
<1>2. Len(unacked) = 1
  <2> DEFINE length == Len(unacked)
  <2>1. length \in Nat \ {0}
    BY <1>1, EmptySeq
  <2>2. length <= 1
    BY <1>1
  <2> HIDE DEF length
  <2>3. length = 1
    BY <2>1, <2>2
  <2> QED
    BY <2>3 DEF length
<1>3. unacked[1] = told /\ unacked[1] \in Nat
  BY <1>1, <1>2 DEF Published
<1>4. <<told>> \in Seq(Nat) /\ Len(<<told>>) = 1 /\ <<told>>[1] = told
  BY <1>3
<1> QED
  BY <1>1, <1>2, <1>3, <1>4, SeqEqual

LEMMA PublishedInvariant ==
  ASSUME Window = 1
  PROVE  CounterTypeOK /\ Published /\ [CounterNext]_counterVars => Published'
<1> SUFFICES ASSUME CounterTypeOK, Published, [CounterNext]_counterVars PROVE Published'
  OBVIOUS
<1> USE DEF gateway, books, counterBounds
<1>1. CASE Publish
  <2>1. plc \in Nat /\ Deliver(<<plc>>) /\ told' = plc /\ UNCHANGED last /\ Len(unacked) = 0
    BY <1>1, LenProperties DEF Publish, CounterTypeOK
  <2>2. unacked' = Append(unacked, plc)
    BY <1>1 DEF Publish
  <2>3. \A i \in 1..Len(unacked') : unacked'[i] = plc
    BY <2>1, <2>2 DEF CounterTypeOK
  <2> QED
    BY <2>1, <2>3, DeliveredLast, TotalsAssumption DEF Published
<1>2. CASE Acknowledge
  <2>1. \A i \in 1..Len(unacked') : unacked'[i] = unacked[i + 1] /\ i + 1 \in 1..Len(unacked)
    BY <1>2, HeadTailProperties, LenProperties DEF Acknowledge, CounterTypeOK
  <2> QED
    BY <1>2, <2>1 DEF Acknowledge, Published
<1>3. CASE Republish
  <2>1. unacked = <<told>> /\ told \in Nat
    BY <1>3, OneInFlight DEF Republish
  <2>2. Deliver(<<told>>) /\ UNCHANGED <<told, last, unacked>>
    BY <1>3, <2>1 DEF Republish
  <2> QED
    BY <2>1, <2>2, DeliveredLast, TotalsAssumption DEF Published
<1>4. CASE Subscribe
  BY <1>4 DEF Subscribe, Published
<1>5. CASE HandleRetained \/ Handle \/ HandleFails
  <2>1. told # Unknown
    BY <1>5 DEF HandleRetained, Handle, HandleFails, Published
  <2> QED
    BY <1>5, <2>1 DEF HandleRetained, Handle, HandleFails, Published
<1> QED
  BY <1>1, <1>2, <1>3, <1>4, <1>5
     DEF CounterNext, Listen, Make, Reset, LinkLost, Restart, counterVars, Published

(* A message that is handled was the first, and the rest move up.          *)
LEMMA HandledFirst ==
  ASSUME CounterTypeOK, sent # <<>>
  PROVE  /\ Head(sent) = sent[1] /\ 1 \in 1..Len(sent) /\ Len(sent) \in Nat
         /\ Len(Tail(sent)) = Len(sent) - 1
         /\ \A i \in 1..Len(Tail(sent)) : Tail(sent)[i] = sent[i + 1] /\ i + 1 \in 2..Len(sent)
         /\ \A i \in 1..Len(sent) : sent[i].total \in Nat
<1>1. sent \in Seq(OnWire)
  BY DEF CounterTypeOK
<1>2. Len(sent) \in Nat \ {0}
  BY <1>1, EmptySeq
<1>3. ASSUME NEW i \in 1..Len(sent) PROVE sent[i].total \in Nat
  <2>1. sent[i] \in OnWire
    BY <1>1, ElementOfSeq
  <2> QED
    BY <2>1 DEF OnWire
<1>4. /\ Len(Tail(sent)) = Len(sent) - 1
      /\ \A i \in 1..Len(Tail(sent)) : Tail(sent)[i] = sent[i + 1]
  BY <1>1, HeadTailProperties
<1>5. Head(sent) = sent[1]
  BY <1>1
<1> QED
  BY <1>2, <1>3, <1>4, <1>5

LEMMA RiseFits ==
  ASSUME NEW b \in Nat, NEW v \in Nat, NEW l \in Nat, NEW s \in Nat, NEW r \in Nat,
         b <= s, v - l <= r - s
  PROVE  b + v - l <= r
OBVIOUS

(* Handling the first message remembers its total or what was remembered,  *)
(* and books at most how far that has risen.                               *)
LEMMA HandleKeepsCount ==
  ASSUME CounterTypeOK, Counted, sent # <<>>, sent' = Tail(sent),
         UNCHANGED <<plc, made, told>>, told # Unknown,
         \/ last' = Head(sent).total /\ booked' = booked
         \/ last # Unknown /\ last' = Head(sent).total
            /\ booked' = booked + Head(sent).total - last
         \/ last # Unknown /\ UNCHANGED <<last, booked>>
  PROVE  Counted'
<1>1. PICK s0 \in Nat, st \in Nat, s \in [Nat -> Nat] : Stamped(s0, s, st)
  BY DEF Counted
<1> DEFINE up == [i \in Nat |-> s[i + 1]]
<1>2. up \in [Nat -> Nat] /\ s[1] \in Nat
  OBVIOUS
<1>3. /\ booked \in Nat /\ made \in Nat /\ plc \in Nat /\ told \in Nat
      /\ last \in Nat \/ last = Unknown
  BY DEF CounterTypeOK, Total
<1>4. ASSUME NEW i \in 1..Len(sent')
      PROVE  i + 1 \in 1..Len(sent) /\ 1 < i + 1 /\ sent'[i] = sent[i + 1] /\ up[i] = s[i + 1]
  BY HandledFirst
<1>5. /\ 1 \in 1..Len(sent) /\ Head(sent) = sent[1] /\ sent[1].total \in Nat
  BY HandledFirst
<1> HIDE DEF up
\* The rest follow each other, what was remembered and what was handled.
<1>6. ASSUME NEW i \in 1..Len(sent')
      PROVE  /\ s0 <= up[i] /\ Follows(sent'[i].total, up[i], told, st)
             /\ last # Unknown => Follows(last, s0, sent'[i].total, up[i])
             /\ Follows(sent[1].total, s[1], sent'[i].total, up[i])
             /\ \A j \in 1..Len(sent') :
                  i < j => Follows(sent'[i].total, up[i], sent'[j].total, up[j])
  <2>1. /\ s0 <= up[i] /\ Follows(sent'[i].total, up[i], told, st)
        /\ last # Unknown => Follows(last, s0, sent'[i].total, up[i])
        /\ Follows(sent[1].total, s[1], sent'[i].total, up[i])
    BY <1>1, <1>4, <1>5 DEF Stamped
  <2>2. ASSUME NEW j \in 1..Len(sent'), i < j
        PROVE  Follows(sent'[i].total, up[i], sent'[j].total, up[j])
    <3>1. i + 1 < j + 1
      BY <2>2
    <3>2. i + 1 \in 1..Len(sent) /\ sent'[i] = sent[i + 1] /\ up[i] = s[i + 1]
      BY <1>4
    <3>3. j + 1 \in 1..Len(sent) /\ sent'[j] = sent[j + 1] /\ up[j] = s[j + 1]
      BY <1>4
    <3> QED
      BY <1>1, <3>1, <3>2, <3>3 DEF Stamped
  <2> QED
    BY <2>1, <2>2
<1>7. CASE last # Unknown /\ UNCHANGED <<last, booked>>
  <2>1. Stamped(s0, up, st)'
    BY <1>1, <1>6, <1>7 DEF Stamped
  <2> QED
    BY <1>2, <2>1 DEF Counted
<1>8. CASE /\ last' = Head(sent).total
           /\ \/ booked' = booked
              \/ last # Unknown /\ booked' = booked + Head(sent).total - last
  <2>1. /\ s0 <= s[1] /\ booked <= s0
        /\ last # Unknown => Follows(last, s0, sent[1].total, s[1])
    BY <1>1, <1>5 DEF Stamped
  <2>2. booked' <= s[1]
    <3>1. CASE booked' = booked
      BY <1>2, <1>3, <2>1, <3>1
    <3>2. CASE last # Unknown /\ booked' = booked + sent[1].total - last
      <4>1. sent[1].total - last <= s[1] - s0 /\ last \in Nat
        BY <1>3, <2>1, <3>2 DEF Follows
      <4> QED
        BY <1>2, <1>3, <1>5, <2>1, <3>2, <4>1, RiseFits
    <3> QED
      BY <1>5, <1>8, <3>1, <3>2
  <2>3. Follows(sent[1].total, s[1], told, st) /\ Follows(told, st, plc, made)
    BY <1>1, <1>5 DEF Stamped
  <2>4. s[1] <= st
    BY <2>3 DEF Follows
  <2>5. \A i \in 1..Len(sent') : s[1] <= up[i]
    BY <1>6 DEF Follows
  <2>6. Stamped(s[1], up, st)'
    BY <1>5, <1>6, <1>8, <2>2, <2>3, <2>4, <2>5 DEF Stamped
  <2> QED
    BY <1>2, <2>6 DEF Counted
<1> QED
  BY <1>7, <1>8

(* What is delivered is the total told now, shown when st had been made.   *)
LEMMA DeliverKeepsCount ==
  ASSUME CounterTypeOK, Counted, NEW t \in Nat, Deliver(<<t>>), UNCHANGED <<plc, made, last, booked>>,
         told' = t, t \in {told, plc}, Published
  PROVE  Counted'
<1>1. PICK s0 \in Nat, st \in Nat, s \in [Nat -> Nat] : Stamped(s0, s, st)
  BY DEF Counted
<1>2. /\ booked \in Nat /\ made \in Nat /\ plc \in Nat
      /\ last \in Nat \/ last = Unknown
      /\ told \in Nat \/ told = Unknown
  BY DEF CounterTypeOK, Total
<1>3. Len(sent) \in Nat
  BY LenProperties DEF CounterTypeOK
<1>4. ASSUME NEW i \in 1..Len(sent) PROVE sent[i].total \in Nat
  <2>1. sent # <<>>
    BY EmptySeq
  <2> QED
    BY <2>1, HandledFirst
<1>5. PICK now \in Nat : now = IF t = told THEN st ELSE made
  BY <1>2
<1>10. PICK more \in [Nat -> Nat] : /\ more[Len(sent) + 1] = now
                                    /\ \A i \in 1..Len(sent) : more[i] = s[i]
  <2> DEFINE added == [s EXCEPT ![Len(sent) + 1] = now]
  <2>1. Len(sent) + 1 \in Nat /\ \A i \in 1..Len(sent) : i \in Nat /\ i # Len(sent) + 1
    BY <1>3, SMTT(30)
  <2>2. added \in [Nat -> Nat] /\ added[Len(sent) + 1] = now
    BY <2>1
  <2>3. \A i \in 1..Len(sent) : added[i] = s[i]
    BY <2>1
  <2> QED
    BY <2>2, <2>3
<1>6. /\ s0 <= now /\ Follows(t, now, plc, made)
      /\ last # Unknown => Follows(last, s0, t, now)
      /\ \A i \in 1..Len(sent) : Follows(sent[i].total, s[i], t, now)
  <2>1. CASE t = told
    BY <1>1, <1>2, <1>5, <2>1, TotalsAssumption DEF Stamped
  <2>2. CASE t # told
    <3>1. t = plc /\ now = made /\ Follows(t, now, plc, made)
      BY <1>2, <1>5, <2>2 DEF Follows
    <3>2. CASE told = Unknown
      <4>1. s0 <= made /\ sent = <<>> /\ last = Unknown
        BY <1>1, <1>2, <3>2 DEF Stamped, Published
      <4> QED
        BY <3>1, <4>1, EmptySeq
    <3>3. CASE told # Unknown
      <4>1. s0 <= st /\ Follows(told, st, plc, made)
        BY <1>1, <3>3 DEF Stamped
      <4>2. last # Unknown => Follows(last, s0, plc, made)
        <5>1. last # Unknown => last \in Nat /\ Follows(last, s0, told, st)
          BY <1>1, <1>2 DEF Stamped
        <5> QED
          BY <1>2, <3>3, <4>1, <5>1, FollowsIsTransitive
      <4>3. ASSUME NEW i \in 1..Len(sent) PROVE Follows(sent[i].total, s[i], plc, made)
        <5>1. Follows(sent[i].total, s[i], told, st) /\ sent[i].total \in Nat /\ s[i] \in Nat
          BY <1>1, <1>4 DEF Stamped
        <5> QED
          BY <1>2, <3>3, <4>1, <5>1, FollowsIsTransitive
      <4>4. s0 <= made
        BY <1>2, <4>1 DEF Follows
      <4> QED
        BY <3>1, <4>2, <4>3, <4>4
    <3> QED
      BY <3>2, <3>3
  <2> QED
    BY <2>1, <2>2
<1>7. ASSUME NEW i \in 1..Len(sent')
      PROVE  \/ i \in 1..Len(sent) /\ sent'[i] = sent[i] /\ more[i] = s[i]
             \/ i = Len(sent) + 1 /\ sent'[i].total = t /\ more[i] = now
  <2>1. CASE i > Len(sent)
    BY <1>10, <2>1, DeliveredLast
  <2>2. CASE i <= Len(sent)
    <3>1. i \in 1..Len(sent)
      BY <1>3, <2>2
    <3> QED
      BY <1>10, <3>1, DeliveredLast
  <2> QED
    BY <1>3, <2>1, <2>2
<1>8. ASSUME NEW i \in 1..Len(sent')
      PROVE  /\ s0 <= more[i] /\ Follows(sent'[i].total, more[i], t, now)
             /\ last # Unknown => Follows(last, s0, sent'[i].total, more[i])
             /\ \A j \in 1..Len(sent') :
                  i < j => Follows(sent'[i].total, more[i], sent'[j].total, more[j])
  <2>1. CASE i = Len(sent) + 1 /\ sent'[i].total = t /\ more[i] = now
    <3>1. Follows(t, now, t, now)
      BY FollowsItself
    <3>2. ASSUME NEW j \in 1..Len(sent') PROVE ~(i < j)
      <4>1. j \in 1..Len(sent) \/ j = Len(sent) + 1
        BY <1>7
      <4>2. \A n \in Nat : ~(n + 1 < n + 1) /\ \A k \in 1..n : ~(n + 1 < k)
        OBVIOUS
      <4> QED
        BY <1>3, <2>1, <4>1, <4>2
    <3> QED
      BY <1>6, <2>1, <3>1, <3>2
  <2>2. CASE i \in 1..Len(sent) /\ sent'[i] = sent[i] /\ more[i] = s[i]
    <3>1. /\ s0 <= s[i]
          /\ last # Unknown => Follows(last, s0, sent[i].total, s[i])
      BY <1>1, <2>2 DEF Stamped
    <3>2. ASSUME NEW j \in 1..Len(sent'), i < j
          PROVE  Follows(sent'[i].total, more[i], sent'[j].total, more[j])
      <4>1. CASE j = Len(sent) + 1 /\ sent'[j].total = t /\ more[j] = now
        BY <1>6, <2>2, <4>1
      <4>2. CASE j \in 1..Len(sent) /\ sent'[j] = sent[j] /\ more[j] = s[j]
        BY <1>1, <2>2, <3>2, <4>2 DEF Stamped
      <4> QED
        BY <1>7, <4>1, <4>2
    <3> QED
      BY <1>6, <2>2, <3>1, <3>2
  <2> QED
    BY <1>7, <2>1, <2>2
<1>9. Stamped(s0, more, now)'
  <2>1. booked' <= s0 /\ told' # Unknown
    BY <1>1, TotalsAssumption DEF Stamped
  <2>2. /\ s0 <= now /\ Follows(told', now, plc', made')
        /\ last' # Unknown => Follows(last', s0, told', now)
    BY <1>6
  <2>3. ASSUME NEW i \in 1..Len(sent')
        PROVE  /\ s0 <= more[i] /\ Follows(sent'[i].total, more[i], told', now)
               /\ last' # Unknown => Follows(last', s0, sent'[i].total, more[i])
               /\ \A j \in 1..Len(sent') :
                    i < j => Follows(sent'[i].total, more[i], sent'[j].total, more[j])
    BY <1>8
  <2> QED
    BY <2>1, <2>2, <2>3 DEF Stamped
<1> QED
  BY <1>9 DEF Counted

LEMMA CountedInvariant ==
  ASSUME Window = 1
  PROVE  CounterTypeOK /\ Published /\ Counted /\ [CounterNext]_counterVars => Counted'
<1> SUFFICES ASSUME CounterTypeOK, Published, Counted, [CounterNext]_counterVars PROVE Counted'
  OBVIOUS
<1> USE DEF gateway, books
<1>1. PICK s0 \in Nat, st \in Nat, s \in [Nat -> Nat] : Stamped(s0, s, st)
  BY DEF Counted
<1>2. /\ booked \in Nat /\ made \in Nat /\ plc \in Nat
      /\ last \in Nat \/ last = Unknown
      /\ told \in Nat \/ told = Unknown
  BY DEF CounterTypeOK, Total
<1>3. CASE Make \/ Reset
  <2>1. IF told = Unknown THEN st <= made' ELSE Follows(told, st, plc', made')
    <3>1. IF told = Unknown THEN st <= made ELSE Follows(told, st, plc, made)
      BY <1>1 DEF Stamped
    <3>2. /\ made' \in {made, made + 1} /\ plc' \in Nat
          /\ plc' = 0 \/ plc' - plc <= made' - made
      BY <1>2, <1>3 DEF Make, Reset
    <3>3. CASE told = Unknown
      BY <1>2, <3>1, <3>2, <3>3
    <3>4. CASE told # Unknown
      <4>1. /\ told \in Nat /\ made \in Nat /\ plc \in Nat
            /\ st <= made /\ plc - told <= made - st
        BY <1>2, <3>1, <3>4 DEF Follows
      <4>2. made' \in Nat /\ made <= made' /\ plc' \in Nat
        BY <3>2, <4>1
      <4>3. Follows(told, st, plc', made')
        BY <3>2, <3>4, <4>1, <4>2, StillFollows DEF Follows
      <4> QED
        BY <3>4, <4>3
    <3> QED
      BY <3>3, <3>4
  <2>2. Stamped(s0, s, st)'
    BY <1>1, <1>3, <2>1 DEF Make, Reset, Stamped
  <2> QED
    BY <2>2 DEF Counted
<1>4. CASE Publish
  BY <1>2, <1>4, DeliverKeepsCount DEF Publish
<1>5. CASE Republish
  <2>1. unacked = <<told>> /\ told \in Nat
    BY <1>5, OneInFlight DEF Republish
  <2> QED
    BY <1>5, <2>1, DeliverKeepsCount DEF Republish
<1>6. CASE Subscribe
  <2>1. \/ sent' = <<>>
        \/ told # Unknown /\ sent' = <<[total |-> told, retained |-> TRUE]>>
    BY <1>6 DEF Subscribe, Published
  <2>2. CASE sent' = <<>>
    <3>1. Stamped(s0, s, st)'
      BY <1>1, <1>6, <2>2, EmptySeq DEF Subscribe, Stamped
    <3> QED
      BY <3>1 DEF Counted
  <2>3. CASE told # Unknown /\ sent' = <<[total |-> told, retained |-> TRUE]>>
    <3>1. Len(sent') = 1 /\ sent'[1].total = told
      BY <2>3
    <3>2. PICK r \in [Nat -> Nat] : r[1] = st
      <4>1. [i \in Nat |-> st] \in [Nat -> Nat] /\ [i \in Nat |-> st][1] = st
        OBVIOUS
      <4> QED
        BY <4>1
    <3>3. Follows(told, st, told, st)
      BY <1>2, <2>3, FollowsItself
    <3>4. \A i \in 1..Len(sent') : i = 1 /\ \A j \in 1..Len(sent') : ~(i < j)
      BY <3>1
    <3>5. Stamped(s0, r, st)'
      BY <1>1, <1>6, <2>3, <3>1, <3>2, <3>3, <3>4 DEF Subscribe, Stamped
    <3> QED
      BY <3>5 DEF Counted
  <2> QED
    BY <2>1, <2>2, <2>3
<1>7. CASE LinkLost \/ Restart
  <2>1. Stamped(s0, s, st)'
    BY <1>1, <1>7, EmptySeq, SMTT(30) DEF LinkLost, Restart, Stamped
  <2> QED
    BY <2>1 DEF Counted
<1>8. CASE HandleRetained \/ Handle \/ HandleFails
  <2>1. sent # <<>> /\ sent' = Tail(sent) /\ UNCHANGED <<plc, made, told>> /\ told # Unknown
    BY <1>8 DEF HandleRetained, Handle, HandleFails, Published
  <2>2. Head(sent).total \in Nat
    BY <2>1, HandledTypes
  <2>3. CASE HandleRetained
    BY <2>1, <2>3, HandleKeepsCount DEF HandleRetained, Baseline
  <2>4. CASE HandleFails
    BY <2>1, <2>4, HandleKeepsCount DEF HandleFails, Baseline, Remembered
  <2>5. CASE Handle
    <3>1. \/ last' = Head(sent).total /\ booked' = booked
          \/ last # Unknown /\ last' = Head(sent).total
             /\ booked' = booked + Head(sent).total - last
          \/ last # Unknown /\ UNCHANGED <<last, booked>>
      <4> DEFINE total == Head(sent).total
      <4>1. last' = Remembered(total) /\ booked' = booked + Rise(total)
        BY <2>5 DEF Handle, Baseline
      <4>2. CASE last = Unknown
        BY <1>2, <4>1, <4>2 DEF Remembered, Rise
      <4>3. CASE last # Unknown /\ total > last
        <5>1. last' = total /\ booked' = booked + (total - last)
          BY <4>1, <4>3, <1>2, <2>2 DEF Remembered, Rise
        <5> QED
          BY <1>2, <2>2, <4>3, <5>1
      <4>4. CASE last # Unknown /\ total <= last
        <5>1. last' \in {total, last} /\ booked' = booked
          BY <4>1, <4>4, <1>2, <2>2 DEF Remembered, Rise
        <5> QED
          BY <4>4, <5>1
      <4> QED
        BY <1>2, <2>2, <4>2, <4>3, <4>4
    <3> QED
      BY <2>1, <3>1, HandleKeepsCount
  <2> QED
    BY <1>8, <2>3, <2>4, <2>5
<1>9. CASE Acknowledge \/ UNCHANGED counterVars
  <2>1. Stamped(s0, s, st)'
    BY <1>1, <1>9 DEF Acknowledge, counterVars, Stamped
  <2> QED
    BY <2>1 DEF Counted
<1> QED
  BY <1>3, <1>4, <1>5, <1>6, <1>7, <1>8, <1>9 DEF CounterNext, Listen

LEMMA DeliverKeepsClimbing ==
  ASSUME CounterTypeOK, Published, Climbing, NEW t \in Nat, Deliver(<<t>>),
         UNCHANGED <<plc, last, resets>>, told' = t, t \in {told, plc}
  PROVE  Climbing'
<1> SUFFICES ASSUME resets = 0 PROVE Climbing'
  BY DEF Climbing
<1>1. /\ plc \in Nat /\ (last \in Nat \/ last = Unknown)
      /\ (told \in Nat \/ told = Unknown)
  BY DEF CounterTypeOK, Total
<1>2. t <= plc /\ (told # Unknown => told <= t) /\ (last # Unknown => last <= t)
  <2>1. told = Unknown => last = Unknown
    BY DEF Published
  <2>2. (told # Unknown => told <= plc) /\ (last # Unknown => last <= told)
    BY DEF Climbing
  <2>3. CASE told = Unknown
    BY <1>1, <2>1, <2>3, TotalsAssumption
  <2>4. CASE told # Unknown
    BY <1>1, <2>2, <2>4
  <2> QED
    BY <2>3, <2>4
<1>3. ASSUME NEW i \in 1..Len(sent)
      PROVE  sent[i].total \in Nat /\ sent[i].total <= t
  <2>1. sent # <<>>
    BY EmptySeq
  <2>2. sent[i].total \in Nat
    BY <2>1, HandledFirst
  <2>3. sent[i].total <= told /\ told # Unknown
    BY <2>1 DEF Climbing, Published
  <2> QED
    BY <1>1, <1>2, <2>2, <2>3
<1>4. Len(sent) \in Nat
  BY LenProperties DEF CounterTypeOK
<1>5. ASSUME NEW i \in 1..Len(sent')
      PROVE  \/ i \in 1..Len(sent) /\ sent'[i] = sent[i]
             \/ i = Len(sent) + 1 /\ sent'[i].total = t
  <2>1. CASE i > Len(sent)
    BY <2>1, DeliveredLast
  <2>2. CASE i <= Len(sent)
    <3>1. i \in 1..Len(sent)
      BY <1>4, <2>2
    <3> QED
      BY <3>1, DeliveredLast
  <2> QED
    BY <1>4, <2>1, <2>2
<1>6. ASSUME NEW i \in 1..Len(sent')
      PROVE  /\ sent'[i].total <= t
             /\ last # Unknown => last <= sent'[i].total
             /\ \A j \in 1..Len(sent') : i < j => sent'[i].total <= sent'[j].total
  <2>1. CASE i = Len(sent) + 1 /\ sent'[i].total = t
    <3>1. ASSUME NEW j \in 1..Len(sent') PROVE ~(i < j)
      <4>1. j \in 1..Len(sent) \/ j = Len(sent) + 1
        BY <1>5
      <4>2. \A n \in Nat : ~(n + 1 < n + 1) /\ \A k \in 1..n : ~(n + 1 < k)
        OBVIOUS
      <4> QED
        BY <1>4, <2>1, <4>1, <4>2
    <3> QED
      BY <1>2, <2>1, <3>1
  <2>2. CASE i \in 1..Len(sent) /\ sent'[i] = sent[i]
    <3>1. ASSUME NEW j \in 1..Len(sent'), i < j PROVE sent'[i].total <= sent'[j].total
      <4>1. CASE j = Len(sent) + 1 /\ sent'[j].total = t
        BY <1>3, <2>2, <4>1
      <4>2. CASE j \in 1..Len(sent) /\ sent'[j] = sent[j]
        BY <2>2, <3>1, <4>2 DEF Climbing
      <4> QED
        BY <1>5, <4>1, <4>2
    <3>2. last # Unknown => last <= sent[i].total
      BY <2>2 DEF Climbing
    <3> QED
      BY <1>3, <2>2, <3>1, <3>2
  <2> QED
    BY <1>5, <2>1, <2>2
<1>7. (told' # Unknown => told' <= plc') /\ (last' # Unknown => last' <= told')
  BY <1>2
<1>8. ASSUME NEW i \in 1..Len(sent')
      PROVE  /\ sent'[i].total <= told'
             /\ last' # Unknown => last' <= sent'[i].total
             /\ \A j \in 1..Len(sent') : i < j => sent'[i].total <= sent'[j].total
  BY <1>6
<1> QED
  BY <1>7, <1>8 DEF Climbing

LEMMA ClimbingInvariant ==
  ASSUME Window = 1
  PROVE  CounterTypeOK /\ Published /\ Climbing /\ [CounterNext]_counterVars => Climbing'
<1> SUFFICES ASSUME CounterTypeOK, Published, Climbing, [CounterNext]_counterVars PROVE Climbing'
  OBVIOUS
<1> USE DEF gateway, books, counterBounds
<1>1. /\ plc \in Nat /\ resets \in Nat
      /\ last \in Nat \/ last = Unknown
      /\ told \in Nat \/ told = Unknown
  BY CounterBounds DEF CounterTypeOK, Total
<1>2. CASE Reset
  BY <1>1, <1>2 DEF Reset, Climbing
<1>3. CASE Make
  <2>1. resets = 0 /\ told # Unknown => told <= plc'
    BY <1>1, <1>3 DEF Make, Climbing
  <2> QED
    BY <1>3, <2>1 DEF Make, Climbing
<1>4. CASE Publish
  BY <1>1, <1>4, DeliverKeepsClimbing DEF Publish
<1>5. CASE Republish
  <2>1. unacked = <<told>> /\ told \in Nat
    BY <1>5, OneInFlight DEF Republish
  <2> QED
    BY <1>5, <2>1, DeliverKeepsClimbing DEF Republish
<1>6. CASE Subscribe
  <2>1. CASE sent' = <<>>
    BY <1>6, <2>1, EmptySeq DEF Subscribe, Climbing
  <2>2. CASE kept # Unknown /\ sent' = <<[total |-> kept, retained |-> TRUE]>>
    <3>1. Len(sent') = 1 /\ sent'[1].total = told /\ told \in Nat
      BY <1>1, <2>2 DEF Published
    <3>2. \A i \in 1..Len(sent') : i = 1 /\ \A j \in 1..Len(sent') : ~(i < j)
      BY <3>1
    <3>3. UNCHANGED <<told, last, plc, resets>> /\ told <= told
      BY <1>6, <3>1 DEF Subscribe
    <3> QED
      BY <3>1, <3>2, <3>3 DEF Climbing
  <2> QED
    BY <1>6, <2>1, <2>2 DEF Subscribe
<1>7. CASE LinkLost \/ Restart
  BY <1>7, EmptySeq DEF LinkLost, Restart, Break, Climbing
<1>8. CASE HandleRetained \/ Handle \/ HandleFails
  <2>1. /\ sent # <<>> /\ sent' = Tail(sent) /\ UNCHANGED <<plc, told, resets>>
        /\ last' \in {Head(sent).total, last}
    BY <1>8 DEF HandleRetained, Handle, HandleFails, Baseline, Remembered, Break
  <2>2. ASSUME NEW i \in 1..Len(sent')
        PROVE  i + 1 \in 1..Len(sent) /\ 1 < i + 1 /\ sent'[i] = sent[i + 1]
    BY <2>1, HandledFirst
  <2>3. 1 \in 1..Len(sent) /\ Head(sent) = sent[1]
    BY <2>1, HandledFirst
  <2> SUFFICES ASSUME resets = 0 PROVE Climbing'
    BY <2>1 DEF Climbing
  <2>4. (told # Unknown => told <= plc) /\ (last' # Unknown => last' <= told)
    BY <2>1, <2>3 DEF Climbing
  <2>5. ASSUME NEW i \in 1..Len(sent')
        PROVE  sent'[i].total <= told /\ (last' # Unknown => last' <= sent'[i].total)
    <3>1. sent[i + 1].total <= told /\ (last # Unknown => last <= sent[i + 1].total)
      BY <2>2 DEF Climbing
    <3>2. sent[1].total <= sent[i + 1].total
      BY <2>2, <2>3 DEF Climbing
    <3> QED
      BY <2>1, <2>2, <2>3, <3>1, <3>2
  <2>6. ASSUME NEW i \in 1..Len(sent'), NEW j \in 1..Len(sent'), i < j
        PROVE  sent'[i].total <= sent'[j].total
    <3>1. i + 1 < j + 1
      BY <2>6
    <3>2. i + 1 \in 1..Len(sent) /\ sent'[i] = sent[i + 1]
      BY <2>2
    <3>3. j + 1 \in 1..Len(sent) /\ sent'[j] = sent[j + 1]
      BY <2>2
    <3> QED
      BY <3>1, <3>2, <3>3 DEF Climbing
  <2> QED
    BY <2>1, <2>4, <2>5, <2>6 DEF Climbing
<1>9. CASE Acknowledge \/ UNCHANGED counterVars
  BY <1>9 DEF Acknowledge, counterVars, Climbing
<1> QED
  BY <1>2, <1>3, <1>4, <1>5, <1>6, <1>7, <1>8, <1>9 DEF CounterNext, Listen

LEMMA BookedRiseInvariant ==
  CounterTypeOK /\ Climbing /\ BookedRise /\ [CounterNext]_counterVars => BookedRise'
<1> SUFFICES ASSUME CounterTypeOK, Climbing, BookedRise, [CounterNext]_counterVars, ~missed'
             PROVE  BookedRise'
  BY DEF BookedRise
<1> USE DEF gateway, books, counterBounds
<1>1. /\ resets \in Nat /\ booked \in Nat
      /\ last \in Nat \/ last = Unknown
      /\ since \in Nat \/ since = Unknown
  BY CounterBounds DEF CounterTypeOK, Total
<1>2. CASE UNCHANGED <<last, since, booked, missed>> /\ (resets' = resets \/ resets' # 0)
  BY <1>2 DEF BookedRise
<1>3. CASE Reset
  BY <1>1, <1>2, <1>3 DEF Reset
<1>4. CASE Restart \/ HandleFails
  BY <1>4 DEF Restart, HandleFails
<1>5. CASE HandleRetained
  <2>1. Head(sent).total \in Nat
    BY <1>5, HandledTypes DEF HandleRetained
  <2>2. /\ last' = Head(sent).total /\ (last # Unknown => last' = last)
        /\ since' = IF since = Unknown THEN last' ELSE since
        /\ ~missed /\ UNCHANGED <<booked, resets>>
    BY <1>5 DEF HandleRetained, Baseline
  <2> QED
    BY <1>1, <2>1, <2>2, TotalsAssumption DEF BookedRise
<1>6. CASE Handle
  <2> DEFINE total == Head(sent).total
  <2>1. total \in Nat /\ Remembered(total) \in Nat
    BY <1>6, HandledTypes DEF Handle
  <2>2. /\ last' = Remembered(total) /\ booked' = booked + Rise(total)
        /\ since' = IF since = Unknown THEN last' ELSE since
        /\ ~missed /\ UNCHANGED resets
    BY <1>6 DEF Handle, Baseline
  <2>3. CASE last = Unknown
    <3>1. since = Unknown /\ booked = 0 /\ last' = total /\ booked' = booked + 0
      BY <2>2, <2>3 DEF BookedRise, Remembered, Rise
    <3> QED
      BY <2>1, <2>2, <3>1, TotalsAssumption DEF BookedRise
  <2>4. CASE last # Unknown
    <3>1. since # Unknown /\ (resets = 0 => booked = last - since)
      BY <2>2, <2>4 DEF BookedRise
    <3>2. since' = since /\ last' # Unknown
      BY <2>1, <2>2, <3>1, TotalsAssumption
    <3>3. ASSUME resets = 0 PROVE booked' = last' - since'
      <4>1. last <= total
        BY <1>6, <2>4, <3>3, HandledFirst DEF Climbing, Handle
      <4>2. last' = total /\ booked' = booked + (total - last)
        BY <1>1, <2>1, <2>2, <2>4, <4>1 DEF Remembered, Rise
      <4> QED
        BY <1>1, <2>1, <2>4, <3>1, <3>2, <3>3, <4>2
    <3> QED
      BY <2>2, <3>2, <3>3 DEF BookedRise
  <2> QED
    BY <2>3, <2>4
<1> QED
  BY <1>2, <1>3, <1>4, <1>5, <1>6
     DEF CounterNext, Listen, Make, Publish, Acknowledge, Republish, Subscribe, LinkLost, Break,
         counterVars

LEMMA TotalsInvariant ==
  ASSUME Window = 1
  PROVE  CounterSpec => []CountIsRise
<1> DEFINE Inv == CounterTypeOK /\ Published /\ Counted /\ Climbing /\ BookedRise
<1>1. CounterInit => Published /\ Counted /\ Climbing /\ BookedRise
  <2> SUFFICES ASSUME CounterInit PROVE Published /\ Counted /\ Climbing /\ BookedRise
    OBVIOUS
  <2>1. Len(sent) = 0 /\ Len(unacked) = 0
    BY EmptySeq DEF CounterInit
  <2>2. Published /\ Climbing /\ BookedRise
    BY <2>1 DEF CounterInit, Published, Climbing, BookedRise
  <2>3. [i \in Nat |-> 0] \in [Nat -> Nat]
    OBVIOUS
  <2>4. Stamped(0, [i \in Nat |-> 0], 0)
    BY <2>1 DEF CounterInit, Stamped
  <2> QED
    BY <2>2, <2>3, <2>4 DEF Counted
<1>2. Inv => CountIsRise
  <2> SUFFICES ASSUME Inv PROVE CountIsRise
    OBVIOUS
  <2>1. PICK s0 \in Nat, st \in Nat, s \in [Nat -> Nat] : Stamped(s0, s, st)
    BY DEF Counted
  <2>2. booked \in Nat /\ made \in Nat /\ plc \in Nat
    BY DEF CounterTypeOK
  <2>3. booked <= s0 /\ s0 <= st /\ st <= made
    BY <2>1 DEF Stamped, Follows
  <2>4. booked <= made
    BY <2>2, <2>3
  <2> QED
    BY <2>4 DEF BookedRise, CountIsRise
<1>3. Inv /\ [CounterNext]_counterVars => (Published /\ Counted /\ Climbing /\ BookedRise)'
  BY PublishedInvariant, CountedInvariant, ClimbingInvariant, BookedRiseInvariant
<1> QED
  BY <1>1, <1>2, <1>3, CounterTypeInvariant, PTL DEF CounterSpec

-----------------------------------------------------------------------------
(* The theorems about totals *)

THEOREM CounterTypeCorrect == Spec => []CounterTypeOK
BY CounterTypeInvariant, BothSides, PTL

(* From a gateway with one total in flight no unit is booked that was not  *)
(* made, and without a reset or a missed total every unit since the first  *)
(* is: for any number of units, resets, repeats, lost connections and      *)
(* restarts, and whether or not the total is retained.                     *)
THEOREM NoUnitTwice ==
  ASSUME Window = 1
  PROVE  Spec => []CountIsRise
BY TotalsInvariant, BothSides, PTL

(* TypeOK of the run: of whichever side a behaviour is, both have types.   *)
THEOREM TypeCorrect == Spec => []TypeOK
BY EventsTypeCorrect, CounterTypeCorrect, PTL DEF TypeOK
=============================================================================
