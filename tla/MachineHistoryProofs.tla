------------------------ MODULE MachineHistoryProofs ------------------------
(***************************************************************************)
(* Theorems about a machine's history, for any states, batches, retries,   *)
(* losses and crashes.                                                     *)
(***************************************************************************)
EXTENDS MachineHistory, SequenceTheorems, WellFoundedInduction, TLAPS

-----------------------------------------------------------------------------
(* Sequences *)

(* Induction over a set of numbers.                                        *)
LEMMA AllNumbers ==
  ASSUME NEW T \in SUBSET Nat, 0 \in T, \A n \in T : n + 1 \in T
  PROVE  T = Nat
<1>1. SUFFICES ASSUME Nat \ T # {} PROVE FALSE
  OBVIOUS
<1>2. PICK n \in Nat \ T : \A k \in Nat \ T : ~(<<k, n>> \in OpToRel(<, Nat))
  BY <1>1, WFMin, NatLessThanWellFounded
<1>3. n \in Nat /\ n # 0
  BY <1>2
<1>6. n - 1 \in Nat /\ n - 1 < n /\ (n - 1) + 1 = n
  BY <1>3
<1>4. n - 1 \in T
  BY <1>2, <1>6 DEF OpToRel
<1>5. n \in T
  BY <1>4, <1>6
<1> QED
  BY <1>2, <1>5

(* A history that is extended keeps its last interval and the new one.     *)
LEMMA ExtendIs ==
  ASSUME NEW seq \in Seq(Interval), NEW interval \in Interval
  PROVE  LET longer == Extend(seq, interval)
         IN /\ longer \in Seq(Interval)
            /\ Len(longer) = IF seq = <<>> THEN 1 ELSE 2
            /\ longer[Len(longer)] = interval
            /\ seq # <<>> => longer[1] = seq[Len(seq)]
<1> DEFINE all == Append(seq, interval)
<1>1. /\ all \in Seq(Interval) /\ Len(all) = Len(seq) + 1 /\ Len(seq) \in Nat
      /\ all[Len(seq) + 1] = interval
      /\ \A i \in 1..Len(seq) : all[i] = seq[i]
  OBVIOUS
<1>2. \A i \in 1..Len(all) : all[i] \in Interval
  BY <1>1, ElementOfSeq
<1> HIDE DEF all
<1> DEFINE m == Later(1, Len(seq))
<1>3. Extend(seq, interval) = SubSeq(all, m, Len(seq) + 1)
  <2>1. Len(all) - 1 = Len(seq)
    BY <1>1
  <2> QED
    BY <1>1, <2>1 DEF Extend, all
<1>4. m \in 1..Len(seq) + 1 /\ m <= Len(seq) + 1
  BY <1>1 DEF Later
<1>5. \A i \in m..Len(seq) + 1 : all[i] \in Interval
  BY <1>1, <1>2, <1>4
<1>6. /\ SubSeq(all, m, Len(seq) + 1) \in Seq(Interval)
      /\ Len(SubSeq(all, m, Len(seq) + 1)) = Len(seq) + 1 - m + 1
      /\ \A i \in 1..Len(seq) + 1 - m + 1 : SubSeq(all, m, Len(seq) + 1)[i] = all[m + i - 1]
  <2>1. m \in Int /\ Len(seq) + 1 \in Int
    BY <1>1, <1>4
  <2> QED
    BY <1>4, <1>5, <2>1, SubSeqProperties
<1> DEFINE longer == SubSeq(all, m, Len(seq) + 1)
<1>7. CASE seq = <<>>
  <2>1. m = 1 /\ Len(seq) = 0
    BY <1>7, EmptySeq DEF Later
  <2>2. Len(longer) = 1 /\ longer[1] = all[1] /\ all[1] = interval
    <3>1. /\ Len(longer) = 0 + 1 - 1 + 1
          /\ \A i \in 1..0 + 1 - 1 + 1 : longer[i] = all[1 + i - 1]
      BY <1>6, <2>1
    <3>2. all[1] = interval
      BY <1>1, <2>1
    <3> HIDE DEF longer
    <3> QED
      BY <3>1, <3>2
  <2> QED
    BY <1>3, <1>6, <1>7, <2>2
<1>8. CASE seq # <<>>
  <2>1. Len(seq) \in Nat \ {0}
    BY <1>8, EmptySeq
  <2>2. m = Len(seq)
    BY <2>1 DEF Later
  <2>3. Len(longer) = 2 /\ longer[1] = all[Len(seq)] /\ longer[2] = all[Len(seq) + 1]
    <3>1. /\ Len(longer) = Len(seq) + 1 - Len(seq) + 1
          /\ \A i \in 1..Len(seq) + 1 - Len(seq) + 1 : longer[i] = all[Len(seq) + i - 1]
      BY <1>6, <2>2
    <3>2. \A n \in Nat : n + 1 - n + 1 = 2 /\ n + 1 - 1 = n /\ n + 2 - 1 = n + 1
      OBVIOUS
    <3>3. Len(seq) + 1 - Len(seq) + 1 = 2 /\ Len(seq) + 1 - 1 = Len(seq)
          /\ Len(seq) + 2 - 1 = Len(seq) + 1
      BY <2>1, <3>2
    <3>4. \A i \in 1..2 : longer[i] = all[Len(seq) + i - 1]
      BY <3>1, <3>3
    <3>5. Len(longer) = 2
      BY <3>1, <3>3
    <3> HIDE DEF longer
    <3>6. longer[1] = all[Len(seq) + 1 - 1] /\ longer[2] = all[Len(seq) + 2 - 1]
      <4>1. 1 \in 1..2 /\ 2 \in 1..2
        OBVIOUS
      <4> QED
        BY <3>4, <4>1, Zenon
    <3> QED
      BY <3>3, <3>5, <3>6
  <2>4. all[Len(seq)] = seq[Len(seq)] /\ all[Len(seq) + 1] = interval
    BY <1>1, <2>1
  <2> QED
    BY <1>3, <1>6, <1>8, <2>3, <2>4
<1> QED
  BY <1>7, <1>8

(* What ends of a history is its last interval, if it is open.             *)
LEMMA EndingIs ==
  ASSUME NEW seq \in Seq(Interval), HasOpen(seq), NEW at \in Time,
         NEW ended \in {"reader", "other", "link"}
  PROVE  LET over == Ending(seq, at, ended)
             n == Len(seq)
         IN /\ over \in Seq(Interval) /\ Len(over) = n /\ n \in Nat \ {0}
            /\ \A i \in 1..n : i # n => over[i] = seq[i]
            /\ over[n].state = seq[n].state /\ over[n].from = seq[n].from
            /\ over[n].by = seq[n].by /\ over[n].ended = ended
            /\ over[n].to = Later(at, seq[n].from) /\ over[n].to \in Time
<1> DEFINE n == Len(seq)
           final == [seq[n] EXCEPT !.to = Later(at, Last(seq).from), !.ended = ended]
<1>1. n \in Nat \ {0}
  BY EmptySeq DEF HasOpen
<1>2. seq[n] \in Interval /\ Last(seq) = seq[n]
  BY <1>1, ElementOfSeq DEF Last
<1>3. Later(at, seq[n].from) \in Time
  BY <1>2 DEF Later, Interval
<1>4. final \in Interval
  BY <1>2, <1>3 DEF Interval
<1>5. /\ final.state = seq[n].state /\ final.from = seq[n].from /\ final.by = seq[n].by
      /\ final.ended = ended /\ final.to = Later(at, seq[n].from)
  BY <1>2 DEF Interval
<1>6. Ending(seq, at, ended) = [seq EXCEPT ![n] = final]
  BY DEF Ending
<1> HIDE DEF final
<1>7. /\ [seq EXCEPT ![n] = final] \in Seq(Interval)
      /\ Len([seq EXCEPT ![n] = final]) = n
      /\ \A j \in 1..n : [seq EXCEPT ![n] = final][j] = IF j = n THEN final ELSE seq[j]
  BY <1>1, <1>4, ExceptSeq
<1> QED
  BY <1>1, <1>3, <1>5, <1>6, <1>7

-----------------------------------------------------------------------------
(* One history *)

(* A history is a sequence of intervals that do not overlap, none of them  *)
(* began or ended later than now, and what has not ended nobody has ended. *)
Dated(seq) ==
  /\ seq \in Seq(Interval) /\ Timeline(seq)
  /\ \A i \in 1..Len(seq) :
       /\ seq[i].from <= now
       /\ IF seq[i].to = None THEN seq[i].ended = None ELSE seq[i].to <= now

(* An interval of the reader's that a disconnection ended holds no moment  *)
(* in which it was blind, and one that is open none but those since the    *)
(* last proof of a link that has not been given up.                        *)
Evident(seq) ==
  /\ \A i \in 1..Len(seq) : seq[i].by = "reader" /\ seq[i].ended = "link" =>
       \A b \in blind : ~(seq[i].from <= b /\ b < seq[i].to)
  /\ HasOpen(seq) /\ Last(seq).by = "reader" =>
       \A b \in blind : \/ b < Last(seq).from
                        \/ link \in {"watched", "closing"} /\ b >= seen

LEMMA HasOpenIs ==
  ASSUME NEW seq \in Seq(Interval)
  PROVE  /\ Len(seq) \in Nat
         /\ HasOpen(seq) <=> Len(seq) # 0 /\ seq[Len(seq)].to = None
         /\ Last(seq) = seq[Len(seq)]
         /\ \A i \in 1..Len(seq) : seq[i] \in Interval
BY EmptySeq, ElementOfSeq DEF HasOpen, Last

(* Setting a state leaves a history as it is, or ends its open interval and*)
(* begins another, both now.                                               *)
LEMMA WithStateIs ==
  ASSUME now \in Time, NEW seq, Dated(seq), NEW s \in State, NEW by \in {"reader", "other"}
  PROVE  LET set == WithState(seq, s, by)
             n == Len(seq)
         IN \/ set = seq /\ HasOpen(seq) /\ Last(seq).state = s
            \/ /\ set \in Seq(Interval) /\ Len(set) \in {1, 2}
               /\ set[Len(set)] =
                    [state |-> s, from |-> now, to |-> None, by |-> by, ended |-> None]
               /\ Len(set) = 2 =>
                    /\ n \in Nat \ {0} /\ set[1].from = seq[n].from
                    /\ \/ set[1] = seq[n] /\ seq[n].to # None
                       \/ set[1].to = now /\ set[1].ended = by
<1> DEFINE n == Len(seq)
           set == WithState(seq, s, by)
           interval == [state |-> s, from |-> now, to |-> None, by |-> by, ended |-> None]
<1>1. seq \in Seq(Interval) /\ now \in Nat
  BY BoundAssumption DEF Dated, Time
<1>2. interval \in Interval
  BY DEF Interval
<1>3. CASE HasOpen(seq) /\ Last(seq).state = s
  BY <1>3 DEF WithState
<1>4. CASE HasOpen(seq) /\ Last(seq).state # s
  <2> DEFINE over == Ending(seq, now, by)
  <2>1. /\ over \in Seq(Interval) /\ Len(over) = n /\ n \in Nat \ {0}
        /\ over[n].from = seq[n].from /\ over[n].ended = by
        /\ over[n].to = Later(now, seq[n].from)
    BY <1>1, <1>4, EndingIs
  <2>2. seq[n].from \in Nat /\ seq[n].from <= now /\ Last(seq).from = seq[n].from
    <3>1. n \in 1..n /\ seq[n] \in Interval /\ Last(seq) = seq[n]
      BY <1>1, <2>1, HasOpenIs
    <3> QED
      BY <3>1 DEF Dated, Interval, Time
  <2>3. Later(now, seq[n].from) = now
    BY <1>1, <2>2 DEF Later
  <2>4. set = Extend(over, interval)
    BY <1>4, <2>2, <2>3 DEF WithState
  <2>5. over # <<>>
    BY <2>1, EmptySeq
  <2> HIDE DEF over, interval
  <2>6. set \in Seq(Interval) /\ Len(set) = 2 /\ set[2] = interval /\ set[1] = over[n]
    <3>1. /\ Extend(over, interval) \in Seq(Interval)
          /\ Len(Extend(over, interval)) = 2
          /\ Extend(over, interval)[Len(Extend(over, interval))] = interval
          /\ Extend(over, interval)[1] = over[Len(over)]
      BY <1>2, <2>1, <2>5, ExtendIs
    <3> HIDE DEF set
    <3> QED
      BY <2>1, <2>4, <3>1
  <2> HIDE DEF set, n
  <2> QED
    BY <2>1, <2>3, <2>6 DEF interval, set, n
<1>5. CASE ~HasOpen(seq)
  <2>1. set = Extend(seq, interval)
    BY <1>5 DEF WithState, Ending
  <2> HIDE DEF interval
  <2>2. /\ set \in Seq(Interval) /\ Len(set) = IF seq = <<>> THEN 1 ELSE 2
        /\ set[Len(set)] = interval /\ (seq # <<>> => set[1] = seq[n])
    BY <1>1, <1>2, <2>1, ExtendIs
  <2>3. seq # <<>> => n \in Nat \ {0} /\ seq[n].to # None
    BY <1>1, <1>5, EmptySeq DEF HasOpen, Last
  <2> HIDE DEF set
  <2> QED
    BY <2>2, <2>3 DEF interval, set
<1> QED
  BY <1>3, <1>4, <1>5

LEMMA WithStateDates ==
  ASSUME now \in Time, NEW seq, Dated(seq), NEW s \in State, NEW by \in {"reader", "other"}
  PROVE  LET set == WithState(seq, s, by)
         IN Dated(set) /\ HasOpen(set) /\ Last(set).state = s
<1> DEFINE n == Len(seq)
           set == WithState(seq, s, by)
<1> SUFFICES Dated(set) /\ HasOpen(set) /\ Last(set).state = s
  OBVIOUS
<1>1. seq \in Seq(Interval) /\ now \in Nat
  BY BoundAssumption DEF Dated, Time
<1>2. CASE set = seq /\ HasOpen(seq) /\ Last(seq).state = s
  BY <1>2
<1>3. CASE /\ set \in Seq(Interval) /\ Len(set) \in {1, 2}
           /\ set[Len(set)] =
                [state |-> s, from |-> now, to |-> None, by |-> by, ended |-> None]
           /\ Len(set) = 2 =>
                /\ n \in Nat \ {0} /\ set[1].from = seq[n].from
                /\ \/ set[1] = seq[n] /\ seq[n].to # None
                   \/ set[1].to = now /\ set[1].ended = by
  <2> HIDE DEF set
  <2>1. HasOpen(set) /\ Last(set).state = s
    <3>1. Len(set) # 0 /\ set[Len(set)].to = None /\ set[Len(set)].state = s
      BY <1>3, SMTT(30)
    <3> QED
      BY <1>3, <3>1, HasOpenIs
  <2>2. n \in Nat \ {0} => /\ seq[n].from \in Nat /\ seq[n].from <= now
                           /\ (seq[n].to # None => seq[n].to \in Nat /\ seq[n].to <= now
                                                   /\ seq[n].from <= seq[n].to)
    <3> SUFFICES ASSUME n \in Nat \ {0}
                 PROVE  /\ seq[n].from \in Nat /\ seq[n].from <= now
                        /\ (seq[n].to # None => seq[n].to \in Nat /\ seq[n].to <= now
                                                /\ seq[n].from <= seq[n].to)
      OBVIOUS
    <3>1. n \in 1..n /\ n \in DOMAIN seq /\ seq[n] \in Interval
      BY <1>1, ElementOfSeq, LenProperties
    <3> QED
      BY <3>1 DEF Dated, Interval, Time, Timeline
  <2>3. CASE Len(set) = 1
    <3>1. DOMAIN set = {1} /\ 1..Len(set) = {1} /\ 1..(Len(set) - 1) = {}
      BY <1>3, <2>3, LenProperties
    <3>2. set[1].from = now /\ set[1].to = None /\ set[1].ended = None
      BY <1>3, <2>3
    <3>3. Timeline(set)
      BY <3>1, <3>2 DEF Timeline
    <3>4. now <= now
      BY <1>1
    <3> QED
      BY <1>3, <2>1, <3>1, <3>2, <3>3, <3>4 DEF Dated
  <2>4. CASE Len(set) = 2
    <3>1. DOMAIN set = {1, 2} /\ 1..Len(set) = {1, 2} /\ 1..(Len(set) - 1) = {1}
      BY <1>3, <2>4, LenProperties
    <3>2. set[2].from = now /\ set[2].to = None /\ set[2].ended = None
      BY <1>3, <2>4
    <3>3. /\ set[1].to # None /\ set[1].from <= set[1].to /\ set[1].to <= now
          /\ set[1].from <= now
      BY <1>1, <1>3, <2>2, <2>4, NoneAssumption
    <3>4. Timeline(set)
      <4>1. \A i \in DOMAIN set : set[i].to # None => set[i].from <= set[i].to
        BY <3>1, <3>2, <3>3
      <4>2. \A i \in 1..(Len(set) - 1) : i = 1 /\ i + 1 = 2
        BY <3>1
      <4> QED
        BY <3>2, <3>3, <4>1, <4>2 DEF Timeline
    <3>5. now <= now
      BY <1>1
    <3> QED
      BY <1>3, <2>1, <3>1, <3>2, <3>3, <3>4, <3>5 DEF Dated
  <2> QED
    BY <1>3, <2>3, <2>4
<1> QED
  BY <1>2, <1>3, WithStateIs, ZenonT(60)

LEMMA WithStateIsEvident ==
  ASSUME now \in Time, \A b \in blind : b < now, NEW seq, Dated(seq), Evident(seq),
         NEW s \in State, NEW by \in {"reader", "other"}
  PROVE  Evident(WithState(seq, s, by))
<1> DEFINE n == Len(seq)
           set == WithState(seq, s, by)
<1> SUFFICES Evident(set)
  OBVIOUS
<1>1. seq \in Seq(Interval)
  BY DEF Dated
<1>2. CASE set = seq
  BY <1>2
<1>3. CASE /\ set \in Seq(Interval) /\ Len(set) \in {1, 2}
           /\ set[Len(set)] =
                [state |-> s, from |-> now, to |-> None, by |-> by, ended |-> None]
           /\ Len(set) = 2 =>
                /\ n \in Nat \ {0} /\ set[1].from = seq[n].from
                /\ \/ set[1] = seq[n] /\ seq[n].to # None
                   \/ set[1].to = now /\ set[1].ended = by
  <2> HIDE DEF set
  <2>1. /\ set[Len(set)].from = now /\ set[Len(set)].ended = None
        /\ Last(set) = set[Len(set)]
    BY <1>3, HasOpenIs
  <2>2. ASSUME NEW i \in 1..Len(set), set[i].by = "reader", set[i].ended = "link"
        PROVE  \A b \in blind : ~(set[i].from <= b /\ b < set[i].to)
    <3>1. i = 1 /\ Len(set) = 2
      BY <1>3, <2>1, <2>2, NoneAssumption
    <3>2. set[1] = seq[n] /\ n \in 1..n
      BY <1>3, <2>2, <3>1
    <3> QED
      BY <2>2, <3>1, <3>2 DEF Evident
  <2>3. \A b \in blind : b < Last(set).from
    BY <2>1
  <2> QED
    BY <2>2, <2>3 DEF Evident
<1> QED
  BY <1>2, <1>3, WithStateIs

(* Setting the states of a batch sets one after the other, but the lost.   *)
LEMMA WithStatesIs ==
  ASSUME NEW seq, NEW batch, NEW lost, Len(batch) \in Nat
  PROVE  \E after : /\ after[0] = seq
                    /\ \A i \in 1..Len(batch) :
                         after[i] = IF i \in lost THEN after[i - 1]
                                    ELSE WithState(after[i - 1], batch[i], "reader")
                    /\ WithStates(seq, batch, lost) = after[Len(batch)]
<1> DEFINE n == Len(batch)
           Booked(prev, i) == IF i \in lost THEN prev ELSE WithState(prev, batch[i], "reader")
           Upto(f, k) == f = [i \in 0..k |-> IF i = 0 THEN seq ELSE Booked(f[i - 1], i)]
           Reached == {k \in Nat : \E f : Upto(f, k)}
<1>1. 0 \in Reached
  <2> DEFINE f == [i \in 0..0 |-> seq]
  <2>1. Upto(f, 0)
    OBVIOUS
  <2> QED
    BY <2>1
<1>2. ASSUME NEW k \in Reached PROVE k + 1 \in Reached
  <2>1. PICK f : Upto(f, k)
    BY <1>2
  <2> DEFINE next == Booked(f[k], k + 1)
             g == [i \in 0..k + 1 |-> IF i <= k THEN f[i] ELSE next]
  <2>2. ASSUME NEW i \in 0..k + 1
        PROVE  g[i] = IF i = 0 THEN seq ELSE Booked(g[i - 1], i)
    <3>1. CASE i = 0
      BY <2>1, <3>1
    <3>2. CASE i # 0 /\ i <= k
      <4>1. i \in 0..k /\ i - 1 \in 0..k + 1 /\ i - 1 <= k
        BY <3>2
      <4>2. f[i] = Booked(f[i - 1], i)
        BY <2>1, <3>2, <4>1
      <4> QED
        BY <3>2, <4>1, <4>2
    <3>3. CASE i = k + 1
      <4>1. i # 0 /\ ~(i <= k) /\ i - 1 = k /\ k \in 0..k + 1 /\ k <= k
        BY <3>3
      <4> QED
        BY <3>3, <4>1
    <3> QED
      BY <3>1, <3>2, <3>3
  <2>3. Upto(g, k + 1)
    BY <2>2
  <2>4. k + 1 \in Nat /\ \E h : Upto(h, k + 1)
    <3> HIDE DEF g
    <3> QED
      BY <2>3
  <2> HIDE DEF Upto
  <2> QED
    BY <2>4
<1>3. n \in Reached
  <2>1. Reached \in SUBSET Nat
    OBVIOUS
  <2> HIDE DEF Reached
  <2>2. Reached = Nat
    BY <1>1, <1>2, <2>1, AllNumbers
  <2> QED
    BY <2>2
<1>4. PICK f : Upto(f, n)
  BY <1>3
<1> DEFINE after == CHOOSE g : Upto(g, n)
<1>5. Upto(after, n)
  BY <1>4
<1>6. WithStates(seq, batch, lost) = after[n]
  BY DEF WithStates
<1> HIDE DEF after
<1> QED
  BY <1>5, <1>6

LEMMA WithStatesDates ==
  ASSUME now \in Time, NEW seq, Dated(seq), NEW batch \in Seq(State), NEW lost
  PROVE  LET set == WithStates(seq, batch, lost)
         IN /\ Dated(set)
            /\ batch # <<>> /\ Len(batch) \notin lost =>
                 HasOpen(set) /\ Last(set).state = batch[Len(batch)]
<1>1. Len(batch) \in Nat /\ \A i \in 1..Len(batch) : batch[i] \in State
  BY LenProperties, ElementOfSeq
<1>2. PICK after : /\ after[0] = seq
                   /\ \A i \in 1..Len(batch) :
                        after[i] = IF i \in lost THEN after[i - 1]
                                   ELSE WithState(after[i - 1], batch[i], "reader")
                   /\ WithStates(seq, batch, lost) = after[Len(batch)]
  BY <1>1, WithStatesIs
<1> DEFINE Reached == {k \in Nat : k <= Len(batch) => Dated(after[k])}
<1>3. 0 \in Reached
  BY <1>2
<1>4. ASSUME NEW k \in 0..Len(batch) - 1, Dated(after[k])
      PROVE  /\ Dated(after[k + 1])
             /\ k + 1 \notin lost =>
                  HasOpen(after[k + 1]) /\ Last(after[k + 1]).state = batch[k + 1]
  <2>1. k + 1 \in 1..Len(batch) /\ (k + 1) - 1 = k
    BY <1>1
  <2>2. CASE k + 1 \in lost
    BY <1>2, <1>4, <2>1, <2>2
  <2>3. CASE k + 1 \notin lost
    <3>1. after[k + 1] = WithState(after[k], batch[k + 1], "reader")
      BY <1>2, <2>1, <2>3
    <3> QED
      BY <1>1, <1>4, <2>1, <3>1, WithStateDates, ZenonT(60)
  <2> QED
    BY <2>2, <2>3
<1>5. ASSUME NEW k \in Reached PROVE k + 1 \in Reached
  <2> SUFFICES ASSUME k + 1 <= Len(batch) PROVE Dated(after[k + 1])
    OBVIOUS
  <2>1. k \in 0..Len(batch) - 1 /\ k <= Len(batch)
    BY <1>1
  <2> QED
    BY <1>4, <2>1
<1>6. Reached = Nat
  <2>1. Reached \in SUBSET Nat
    OBVIOUS
  <2> HIDE DEF Reached
  <2> QED
    BY <1>3, <1>5, <2>1, AllNumbers
<1>7. \A k \in 0..Len(batch) : Dated(after[k])
  <2>1. \A k \in Nat : k <= Len(batch) => Dated(after[k])
    BY <1>6
  <2> QED
    BY <1>1, <2>1
<1>8. ASSUME batch # <<>>, Len(batch) \notin lost
      PROVE  HasOpen(after[Len(batch)]) /\ Last(after[Len(batch)]).state = batch[Len(batch)]
  <2>1. Len(batch) \in Nat \ {0}
    BY <1>8, EmptySeq
  <2>2. /\ Len(batch) - 1 \in 0..Len(batch) - 1 /\ (Len(batch) - 1) + 1 = Len(batch)
        /\ Len(batch) - 1 \in 0..Len(batch)
    BY <2>1
  <2>3. Dated(after[Len(batch) - 1])
    BY <1>7, <2>2
  <2> QED
    BY <1>4, <1>8, <2>2, <2>3
<1> QED
  BY <1>1, <1>2, <1>7, <1>8

LEMMA WithStatesIsEvident ==
  ASSUME now \in Time, \A b \in blind : b < now, NEW seq, Dated(seq), Evident(seq),
         NEW batch \in Seq(State), NEW lost
  PROVE  Evident(WithStates(seq, batch, lost))
<1>1. Len(batch) \in Nat /\ \A i \in 1..Len(batch) : batch[i] \in State
  BY LenProperties, ElementOfSeq
<1>2. PICK after : /\ after[0] = seq
                   /\ \A i \in 1..Len(batch) :
                        after[i] = IF i \in lost THEN after[i - 1]
                                   ELSE WithState(after[i - 1], batch[i], "reader")
                   /\ WithStates(seq, batch, lost) = after[Len(batch)]
  BY <1>1, WithStatesIs, SMTT(30)
<1> DEFINE Reached == {k \in Nat : k <= Len(batch) => Dated(after[k]) /\ Evident(after[k])}
<1>3. 0 \in Reached
  BY <1>2
<1>4. ASSUME NEW k \in Reached PROVE k + 1 \in Reached
  <2> SUFFICES ASSUME k + 1 <= Len(batch) PROVE Dated(after[k + 1]) /\ Evident(after[k + 1])
    OBVIOUS
  <2>1. k + 1 \in 1..Len(batch) /\ (k + 1) - 1 = k /\ k <= Len(batch)
    BY <1>1
  <2>2. Dated(after[k]) /\ Evident(after[k])
    BY <2>1
  <2>3. CASE k + 1 \in lost
    BY <1>2, <2>1, <2>2, <2>3
  <2>4. CASE k + 1 \notin lost
    <3>1. after[k + 1] = WithState(after[k], batch[k + 1], "reader")
      BY <1>2, <2>1, <2>4
    <3> QED
      BY <1>1, <2>1, <2>2, <3>1, WithStateDates, WithStateIsEvident
  <2> QED
    BY <2>3, <2>4
<1>5. Reached = Nat
  <2>1. Reached \in SUBSET Nat
    OBVIOUS
  <2> HIDE DEF Reached
  <2> QED
    BY <1>3, <1>4, <2>1, AllNumbers
<1>6. Evident(after[Len(batch)])
  <2>1. \A k \in Nat : k <= Len(batch) => Evident(after[k])
    BY <1>5
  <2> QED
    BY <1>1, <2>1
<1> QED
  BY <1>2, <1>6

(* Ending a history's open interval now or earlier.                        *)
LEMMA EndingDates ==
  ASSUME now \in Time, NEW seq, Dated(seq), NEW at \in Time, at <= now
  PROVE  LET over == Ending(seq, at, "link")
         IN /\ Dated(over) /\ ~HasOpen(over)
<1> DEFINE n == Len(seq)
           over == Ending(seq, at, "link")
<1> SUFFICES Dated(over) /\ ~HasOpen(over)
  OBVIOUS
<1>1. seq \in Seq(Interval) /\ now \in Nat
  BY BoundAssumption DEF Dated, Time
<1>2. CASE ~HasOpen(seq)
  BY <1>2 DEF Ending
<1>3. CASE HasOpen(seq)
  <2>1. /\ over \in Seq(Interval) /\ Len(over) = n /\ n \in Nat \ {0}
        /\ \A i \in 1..n : i # n => over[i] = seq[i]
        /\ over[n].from = seq[n].from /\ over[n].ended = "link"
        /\ over[n].to = Later(at, seq[n].from)
    BY <1>1, <1>3, EndingIs
  <2> HIDE DEF over
  <2>2. ASSUME NEW i \in 1..n PROVE seq[i].from \in Nat /\ seq[i].from <= now
    <3>1. seq[i] \in Interval
      BY <1>1, ElementOfSeq
    <3> QED
      BY <3>1 DEF Dated, Interval, Time
  <2>3. n \in 1..n /\ DOMAIN seq = 1..n /\ DOMAIN over = 1..n
    BY <1>1, <2>1, LenProperties
  <2>4. over[n].to \in Nat /\ over[n].from <= over[n].to /\ over[n].to <= now
    <3>1. seq[n].from \in Nat /\ seq[n].from <= now /\ at \in Nat
      BY <2>2, <2>3 DEF Time
    <3>2. \A b \in Nat : LET l == Later(at, b) IN l \in Nat /\ b <= l /\ (b <= now => l <= now)
      BY <1>1, <3>1 DEF Later
    <3> QED
      BY <2>1, <3>1, <3>2
  <2>5. over[n].to # None
    BY <2>4, NoneAssumption
  <2>6. Timeline(over)
    <3>1. ASSUME NEW i \in 1..n, over[i].to # None PROVE over[i].from <= over[i].to
      <4>1. CASE i = n
        BY <2>4, <4>1
      <4>2. CASE i # n
        BY <2>1, <2>3, <3>1, <4>2 DEF Dated, Timeline
      <4> QED
        BY <4>1, <4>2
    <3>2. ASSUME NEW i \in 1..(n - 1)
          PROVE  over[i].to # None /\ over[i].to <= over[i + 1].from
      <4>1. i \in 1..n /\ i # n /\ i + 1 \in 1..n
        BY <2>1
      <4>2. over[i] = seq[i] /\ over[i + 1].from = seq[i + 1].from
        <5>1. CASE i + 1 = n
          BY <2>1, <4>1, <5>1
        <5>2. CASE i + 1 # n
          BY <2>1, <4>1, <5>2
        <5> QED
          BY <5>1, <5>2
      <4> QED
        BY <4>2 DEF Dated, Timeline
    <3> QED
      BY <2>1, <2>3, <3>1, <3>2 DEF Timeline
  <2>7. ASSUME NEW i \in 1..n
        PROVE  /\ over[i].from <= now
               /\ IF over[i].to = None THEN over[i].ended = None ELSE over[i].to <= now
    <3>1. CASE i = n
      BY <2>1, <2>2, <2>4, <2>5, <3>1
    <3>2. CASE i # n
      BY <2>1, <3>2 DEF Dated
    <3> QED
      BY <3>1, <3>2
  <2>8. ~HasOpen(over)
    BY <2>1, <2>5, HasOpenIs
  <2> QED
    BY <2>1, <2>6, <2>7, <2>8 DEF Dated
<1> QED
  BY <1>2, <1>3

-----------------------------------------------------------------------------
(* The reader *)

(* Nothing is dated or proved later than now, and a connection has a proof.*)
Linked ==
  /\ visible # None => visible.from <= now
  /\ seen # None => seen <= now
  /\ link \in {"watched", "closing"} => seen # None
  /\ link = "subscribed" => alive

(* What a reader that is connected has recorded, when whatever it writes is*)
(* recorded: that the machine can be seen from when it connects, and only  *)
(* it says otherwise.                                                      *)
Written ==
  /\ link \in {"watched", "closing"} =>
       Recorded(TRUE) /\ said = "connected" /\ visible.from <= seen
  /\ link \in {"away", "subscribed"} => said # "connected"
  /\ link = "away" /\ said = "disconnected" => Recorded(FALSE)

(* A connection's threads and what waits for them end with it.             *)
Quiet ==
  /\ link \in {"subscribed", "watched"} => ~Busy("flush")
  /\ link = "closing" => ~Busy("consumer") /\ inbox = <<>>
  /\ link = "away" => inbox = <<>> /\ \A w \in Worker : ~Busy(w)

(* A process is blind from when it has said something; a link that answers *)
(* was last proved after all that.                                         *)
Blinded ==
  /\ \A b \in blind : b < now
  /\ said = "nothing" => blind = {}
  /\ link = "watched" /\ alive => \A b \in blind : b < seen

(* Of a machine whose link answers, the last state it was told of is the   *)
(* machine's: still to be taken, being booked, or open.                    *)
Told ==
  link \in {"subscribed", "watched"} /\ alive =>
    IF inbox # <<>> THEN Last(inbox) = machine
    ELSE IF Busy("consumer")
      THEN thread["consumer"].batch[Len(thread["consumer"].batch)] = machine
      ELSE drift \/ OpenState = machine

LEMMA TimeIsNat == Time \subseteq Nat
BY BoundAssumption DEF Time

(* Recording whether a machine can be seen, now or earlier.                *)
LEMMA Recording ==
  ASSUME TypeOK, Dated(states), Linked, NEW up \in BOOLEAN, NEW at \in Time, at <= now,
         SetConnection(up, at)
  PROVE  /\ visible' \in Link /\ visible' # None /\ visible'.up = up /\ visible'.from <= now
         /\ Dated(states')
         /\ Recorded(up) => UNCHANGED tables
         /\ ~Recorded(up) => /\ visible'.from = RowFrom(at)
                             /\ states' = IF up THEN states ELSE Ending(states, RowFrom(at), "link")
                             /\ up \/ ~HasOpen(states')
<1>1. now \in Nat /\ at \in Nat
  BY TimeIsNat DEF TypeOK
<1>2. CASE Recorded(up)
  <2>1. visible \in Link /\ UNCHANGED tables
    BY <1>2 DEF SetConnection, Recorded, TypeOK
  <2> QED
    BY <1>2, <2>1 DEF Recorded, Linked, tables
<1>3. CASE ~Recorded(up)
  <2>1. RowFrom(at) \in Time /\ RowFrom(at) <= now
    <3>1. CASE visible = None
      BY <3>1 DEF RowFrom
    <3>2. CASE visible # None
      <4>1. visible.from \in Time /\ visible.from <= now
        BY <3>2 DEF TypeOK, Link, Linked
      <4> QED
        BY <3>2, <4>1 DEF RowFrom, Later
    <3> QED
      BY <3>1, <3>2
  <2>2. visible' = [up |-> up, from |-> RowFrom(at)]
    BY <1>3 DEF SetConnection
  <2>3. visible' \in Link /\ visible'.up = up /\ visible'.from = RowFrom(at)
    BY <2>1, <2>2 DEF Link
  <2>4. visible' # None
    <3>1. visible' \in [up : BOOLEAN, from : Nat]
      BY <2>1, <2>2, TimeIsNat
    <3> QED
      BY <3>1, NoneAssumption
  <2>5. states' = IF up THEN states ELSE Ending(states, RowFrom(at), "link")
    BY <1>3 DEF SetConnection
  <2>6. Dated(Ending(states, RowFrom(at), "link"))
        /\ ~HasOpen(Ending(states, RowFrom(at), "link"))
    BY <2>1, EndingDates DEF TypeOK
  <2> QED
    BY <1>3, <2>1, <2>3, <2>4, <2>5, <2>6
<1> QED
  BY <1>2, <1>3

(* What the _Link writes, if it writes at all: nothing or one record, now  *)
(* or of its last proof.                                                   *)
LEMMA Writing ==
  ASSUME TypeOK, Linked, NEW up \in BOOLEAN,
         up => Connected, ~up => Disconnected
  PROVE  /\ \/ UNCHANGED tables
            \/ /\ SetConnection(up, IF up \/ seen = None THEN now ELSE seen)
               /\ said' = IF up THEN "connected" ELSE "disconnected"
         /\ said' \in {"nothing", "connected", "disconnected"}
         /\ said # "nothing" => said' # "nothing"
         /\ UNCHANGED <<changes, entries>> /\ faults' \in 0..MaxFaults
         /\ (IF up \/ seen = None THEN now ELSE seen) \in Time
         /\ (IF up \/ seen = None THEN now ELSE seen) <= now
<1> DEFINE at == IF up \/ seen = None THEN now ELSE seen
<1>1. at \in Time /\ at <= now
  BY TimeIsNat DEF TypeOK, Linked
<1>2. faults \in 0..MaxFaults /\ (faults < MaxFaults => faults + 1 \in 0..MaxFaults)
  BY BoundAssumption DEF TypeOK
<1>3. \/ UNCHANGED <<said, tables, bounds>>
      \/ Write(up, at)
  <2>1. CASE up
    BY <2>1 DEF Connected
  <2>2. CASE ~up
    BY <2>2 DEF Disconnected
  <2> QED
    BY <2>1, <2>2
<1>4. \/ UNCHANGED tables
      \/ SetConnection(up, at) /\ said' = IF up THEN "connected" ELSE "disconnected"
  BY <1>3 DEF Write
<1>5. /\ said' \in {"nothing", "connected", "disconnected"}
      /\ said # "nothing" => said' # "nothing"
      /\ UNCHANGED <<changes, entries>> /\ faults' \in 0..MaxFaults
  BY <1>2, <1>3 DEF Write, Another, bounds, TypeOK
<1> QED
  BY <1>1, <1>4, <1>5

LEMMA LinkedInvariant == TypeOK /\ Dated(states) /\ Linked /\ [Next]_vars => Linked'
<1> SUFFICES ASSUME TypeOK, Dated(states), Linked, [Next]_vars PROVE Linked'
  OBVIOUS
<1> USE DEF tables, process, bounds
<1>1. /\ now \in Nat /\ now <= now /\ now # None
      /\ visible # None => visible.from \in Nat
      /\ seen # None => seen \in Nat
  <2>1. now \in Nat /\ now <= now /\ now # None /\ (seen # None => seen \in Nat)
    BY TimeIsNat, NoneAssumption DEF TypeOK
  <2>2. visible # None => visible.from \in Nat
    BY TimeIsNat DEF TypeOK, Link
  <2> QED
    BY <2>1, <2>2
<1>2. CASE Tick
  <2>1. now' \in Nat /\ now <= now'
    BY <1>1, <1>2 DEF Tick
  <2> QED
    BY <1>1, <1>2, <2>1 DEF Tick, Linked
<1>3. CASE LinkDies \/ Connect \/ Close
  BY <1>3 DEF LinkDies, Connect, Close, Another, Linked
<1>4. CASE Crash
  BY <1>4 DEF Crash, Another, Linked
<1>5. CASE Proof
  BY <1>1, <1>5 DEF Proof, Linked
<1>6. ASSUME NEW up \in BOOLEAN, up => Connected, ~up => Disconnected
      PROVE  visible' # None => visible'.from <= now
  BY <1>6, Writing, Recording DEF Linked
<1>7. CASE CannotConnect \/ Disconnect
  <2>1. visible' # None => visible'.from <= now
    BY <1>6, <1>7 DEF CannotConnect, Disconnect
  <2> QED
    BY <1>7, <2>1 DEF CannotConnect, Disconnect, Linked
<1>8. CASE Record
  <2>1. visible' # None => visible'.from <= now
    BY <1>6, <1>8 DEF Record
  <2> QED
    BY <1>1, <1>8, <2>1 DEF Record, Connected, Linked
<1>9. CASE UNCHANGED <<now, alive, visible, link, said, seen>>
  BY <1>9 DEF Linked
<1> QED
  BY <1>2, <1>3, <1>4, <1>5, <1>7, <1>8, <1>9
     DEF Next, Reader, Change, Enter, Begin, Book, BookFails, Another, vars

(* A _Link all of whose writes are recorded.                               *)
LEMMA WrittenInvariant ==
  ASSUME Unwritten = {}
  PROVE  TypeOK /\ Dated(states) /\ Linked /\ Written /\ [Next]_vars => Written'
<1> SUFFICES ASSUME TypeOK, Dated(states), Linked, Written, [Next]_vars PROVE Written'
  OBVIOUS
<1> USE DEF tables, process, bounds
<1>1. /\ now \in Time /\ now \in Nat /\ now <= now /\ now # None
      /\ visible # None => visible.from \in Nat
      /\ seen # None => seen \in Time /\ seen <= now /\ seen \in Nat
  <2>1. now \in Nat /\ now <= now /\ now # None
    BY TimeIsNat, NoneAssumption DEF TypeOK
  <2>2. seen # None => seen \in Time /\ seen <= now /\ seen \in Nat
    BY TimeIsNat DEF TypeOK, Linked
  <2>3. visible # None => visible.from \in Nat
    BY TimeIsNat DEF TypeOK, Link
  <2> QED
    BY <2>1, <2>2, <2>3 DEF TypeOK
<1>2. CASE Tick \/ LinkDies \/ Connect \/ Close \/ Crash
  BY <1>2 DEF Tick, LinkDies, Connect, Close, Crash, Another, Written, Recorded
<1>3. CASE Proof
  <2>1. seen' = now /\ visible' = visible /\ UNCHANGED <<link, said>> /\ link = "watched"
    BY <1>3 DEF Proof
  <2>2. visible # None => visible.from <= now
    BY DEF Linked
  <2> QED
    BY <2>1, <2>2 DEF Written, Recorded
<1>4. CASE CannotConnect \/ Disconnect
  <2>1. link' = "away" /\ said # "disconnected" /\ Disconnected
    BY <1>4 DEF CannotConnect, Disconnect, Written
  <2>2. said' = "disconnected" /\ SetConnection(FALSE, IF seen = None THEN now ELSE seen)
    BY <2>1 DEF Disconnected, Write
  <2>3. visible' # None /\ visible'.up = FALSE
    BY <1>1, <2>2, Recording
  <2> QED
    BY <2>1, <2>2, <2>3 DEF Written, Recorded
<1>5. CASE Record
  <2>1. said # "connected" /\ link' = "watched" /\ seen' = now /\ now' = now /\ Connected
    BY <1>5 DEF Record, Connected, Written
  <2>2. said' = "connected" /\ SetConnection(TRUE, now)
    BY <2>1 DEF Connected, Write
  <2>3. visible' # None /\ visible'.up = TRUE /\ visible'.from <= now
    BY <1>1, <2>2, Recording
  <2> QED
    BY <2>1, <2>2, <2>3 DEF Written, Recorded
<1>6. CASE UNCHANGED <<visible, link, said, seen>>
  BY <1>6 DEF Written, Recorded
<1> QED
  BY <1>2, <1>3, <1>4, <1>5, <1>6
     DEF Next, Reader, Change, Enter, Begin, Book, BookFails, Another, vars

LEMMA DatedInvariant == TypeOK /\ Dated(states) /\ Linked /\ [Next]_vars => Dated(states)'
<1> SUFFICES ASSUME TypeOK, Dated(states), Linked, [Next]_vars PROVE Dated(states)'
  OBVIOUS
<1> USE DEF tables, process, bounds
<1>1. now \in Nat /\ now \in Time /\ now <= now
  BY TimeIsNat DEF TypeOK
<1>2. ASSUME now' = now, Dated(states') PROVE Dated(states)'
  BY <1>2 DEF Dated
<1>3. CASE Tick
  <2>1. now' \in Nat /\ now <= now' /\ states' = states
    BY <1>1, <1>3 DEF Tick
  <2>2. ASSUME NEW i \in 1..Len(states)
        PROVE  /\ states[i].from <= now'
               /\ IF states[i].to = None THEN states[i].ended = None ELSE states[i].to <= now'
    <3>1. states[i] \in Interval
      BY ElementOfSeq DEF Dated
    <3>2. states[i].from \in Nat /\ (states[i].to # None => states[i].to \in Nat)
      BY <3>1, TimeIsNat DEF Interval
    <3> QED
      BY <1>1, <2>1, <3>2 DEF Dated
  <2> QED
    BY <2>1, <2>2 DEF Dated
<1>4. ASSUME NEW s \in State, Enter(s) PROVE Dated(states)'
  BY <1>1, <1>2, <1>4, WithStateDates DEF Enter
<1>5. ASSUME NEW up \in BOOLEAN, up => Connected, ~up => Disconnected, now' = now
      PROVE  Dated(states)'
  <2>1. \/ UNCHANGED tables
        \/ SetConnection(up, IF up \/ seen = None THEN now ELSE seen)
    BY <1>5, Writing
  <2>2. (IF up \/ seen = None THEN now ELSE seen) \in Time
        /\ (IF up \/ seen = None THEN now ELSE seen) <= now
    BY <1>5, Writing
  <2> QED
    BY <1>2, <1>5, <2>1, <2>2, Recording
<1>6. CASE CannotConnect \/ Disconnect
  BY <1>5, <1>6 DEF CannotConnect, Disconnect
<1>7. CASE Record
  BY <1>5, <1>7 DEF Record
<1>8. ASSUME NEW w \in Worker, Book(w) PROVE Dated(states)'
  <2>1. thread[w].batch \in Seq(State)
    BY DEF TypeOK
  <2>2. PICK lost : states' = WithStates(states, thread[w].batch, lost) /\ now' = now
    BY <1>8 DEF Book
  <2> QED
    BY <1>1, <1>2, <2>1, <2>2, WithStatesDates
<1>9. CASE UNCHANGED <<now, states>>
  BY <1>2, <1>9
<1> QED
  BY <1>3, <1>4, <1>5, <1>6, <1>7, <1>8, <1>9
     DEF Next, Reader, LinkDies, Change, Connect, Proof, Close, Crash, Begin, BookFails, vars

LEMMA TypesInvariant == TypeOK /\ Dated(states) /\ Linked /\ [Next]_vars => TypeOK'
<1> SUFFICES ASSUME TypeOK, Dated(states), Linked, [Next]_vars PROVE TypeOK'
  OBVIOUS
<1> USE BoundAssumption DEF tables, process, bounds, Another
<1>1. states' \in Seq(Interval) /\ Timeline(states')
  BY DatedInvariant DEF Dated
<1>2. now \in Nat /\ now <= now
  BY TimeIsNat DEF TypeOK
<1>3. ASSUME NEW w \in Worker, Done(w)
      PROVE  thread' \in [Worker -> [batch : Seq(State), tries : 0..(Attempts - 1)]]
  <2>1. Idle \in [batch : Seq(State), tries : 0..(Attempts - 1)]
    BY EmptySeq DEF Idle
  <2> QED
    BY <1>3, <2>1 DEF Done, TypeOK
<1>4. ASSUME NEW w \in Worker, NEW batch \in Seq(State),
             thread' = [thread EXCEPT ![w].batch = batch]
      PROVE  thread' \in [Worker -> [batch : Seq(State), tries : 0..(Attempts - 1)]]
  BY <1>4 DEF TypeOK
<1>5. <<>> \in Seq(State)
  BY EmptySeq
<1>6. CASE Tick
  <2>1. now' \in Time
    BY <1>2, <1>6 DEF Tick, Time
  <2> QED
    BY <1>1, <1>6, <2>1 DEF Tick, TypeOK
<1>7. ASSUME NEW s \in State, Change(s) PROVE TypeOK'
  <2>1. inbox' \in Seq(State)
    BY <1>7 DEF Change, TypeOK
  <2>2. changes' \in 0..MaxChanges
    BY <1>7 DEF Change, TypeOK
  <2> QED
    BY <1>1, <1>7, <2>1, <2>2 DEF Change, TypeOK
<1>8. CASE LinkDies
  <2>1. faults' \in 0..MaxFaults
    BY <1>8 DEF LinkDies, TypeOK
  <2> QED
    BY <1>1, <1>8, <2>1 DEF LinkDies, TypeOK
<1>9. ASSUME NEW s \in State, Enter(s) PROVE TypeOK'
  <2>1. entries' \in 0..MaxEntries
    BY <1>9 DEF Enter, TypeOK
  <2> QED
    BY <1>1, <1>9, <2>1 DEF Enter, TypeOK
<1>10. CASE Connect
  <2>1. inbox' \in Seq(State)
    BY <1>10 DEF Connect, TypeOK
  <2> QED
    BY <1>1, <1>10, <2>1 DEF Connect, TypeOK
<1>11. ASSUME NEW up \in BOOLEAN, up => Connected, ~up => Disconnected
       PROVE  /\ visible' \in Link \cup {None}
              /\ said' \in {"nothing", "connected", "disconnected"}
              /\ UNCHANGED <<changes, entries>> /\ faults' \in 0..MaxFaults
  <2>1. /\ \/ UNCHANGED tables
           \/ SetConnection(up, IF up \/ seen = None THEN now ELSE seen)
        /\ said' \in {"nothing", "connected", "disconnected"}
        /\ UNCHANGED <<changes, entries>> /\ faults' \in 0..MaxFaults
        /\ (IF up \/ seen = None THEN now ELSE seen) \in Time
        /\ (IF up \/ seen = None THEN now ELSE seen) <= now
    BY <1>11, Writing
  <2>2. visible' \in Link \cup {None}
    <3>1. CASE UNCHANGED tables
      BY <3>1 DEF TypeOK
    <3>2. CASE SetConnection(up, IF up \/ seen = None THEN now ELSE seen)
      BY <2>1, <3>2, Recording
    <3> QED
      BY <2>1, <3>1, <3>2
  <2> QED
    BY <2>1, <2>2
<1>12. CASE CannotConnect \/ Disconnect \/ Record
  <2>1. /\ visible' \in Link \cup {None}
        /\ said' \in {"nothing", "connected", "disconnected"}
        /\ UNCHANGED <<changes, entries>> /\ faults' \in 0..MaxFaults
    BY <1>11, <1>12 DEF CannotConnect, Disconnect, Record
  <2>2. /\ link' \in {"away", "watched"} /\ seen' \in {seen, now}
        /\ UNCHANGED <<now, machine, alive, inbox, thread, blind, drift>>
    BY <1>12 DEF CannotConnect, Disconnect, Record, Connected
  <2> QED
    BY <1>1, <2>1, <2>2 DEF TypeOK
<1>13. CASE Proof
  BY <1>1, <1>13 DEF Proof, TypeOK
<1>14. CASE Close
  <2>1. inbox \in Seq(State) /\ "flush" \in Worker
    BY DEF TypeOK, Worker
  <2>2. thread' \in [Worker -> [batch : Seq(State), tries : 0..(Attempts - 1)]]
    BY <1>4, <1>14, <2>1 DEF Close
  <2>3. faults' \in 0..MaxFaults /\ UNCHANGED <<changes, entries>>
    BY <1>14 DEF Close, TypeOK
  <2> QED
    BY <1>1, <1>5, <1>14, <2>2, <2>3 DEF Close, TypeOK
<1>16. CASE Crash
  <2>1. thread' \in [Worker -> [batch : Seq(State), tries : 0..(Attempts - 1)]]
    BY <1>5, <1>16 DEF Crash, Idle
  <2>2. faults' \in 0..MaxFaults
    BY <1>16 DEF Crash, TypeOK
  <2> QED
    BY <1>1, <1>5, <1>16, <2>1, <2>2 DEF Crash, TypeOK
<1>17. CASE Begin
  <2>1. inbox \in Seq(State) /\ "consumer" \in Worker
    BY DEF TypeOK, Worker
  <2>2. thread' \in [Worker -> [batch : Seq(State), tries : 0..(Attempts - 1)]]
    BY <1>4, <1>17, <2>1 DEF Begin
  <2> QED
    BY <1>1, <1>5, <1>17, <2>2 DEF Begin, TypeOK
<1>18. ASSUME NEW w \in Worker, Book(w) PROVE TypeOK'
  <2>1. faults' \in 0..MaxFaults /\ UNCHANGED <<changes, entries>>
    BY <1>18 DEF Book, TypeOK
  <2>2. drift' \in BOOLEAN
    <3>1. PICK lost : drift' = (Len(thread[w].batch) \in lost)
      BY <1>18 DEF Book
    <3>2. (Len(thread[w].batch) \in lost) \in BOOLEAN
      OBVIOUS
    <3> QED
      BY <3>1, <3>2, Zenon
  <2> QED
    BY <1>1, <1>3, <1>18, <2>1, <2>2 DEF Book, TypeOK
<1>19. ASSUME NEW w \in Worker, BookFails(w) PROVE TypeOK'
  <2>1. faults' \in 0..MaxFaults
    BY <1>19, SMTT(30) DEF BookFails, TypeOK
  <2>2. thread' \in [Worker -> [batch : Seq(State), tries : 0..(Attempts - 1)]]
    <3>1. CASE thread[w].tries + 1 = Attempts
      BY <1>3, <1>19, <3>1 DEF BookFails
    <3>2. CASE thread[w].tries + 1 # Attempts
      <4>1. thread[w] \in [batch : Seq(State), tries : 0..(Attempts - 1)]
        BY DEF TypeOK
      <4>2. thread[w].tries + 1 \in 0..(Attempts - 1)
        BY <3>2, <4>1
      <4>3. thread' = [thread EXCEPT ![w].tries = thread[w].tries + 1]
        BY <1>19, <3>2 DEF BookFails
      <4> QED
        BY <4>1, <4>2, <4>3 DEF TypeOK
    <3> QED
      BY <3>1, <3>2
  <2>3. drift' \in BOOLEAN
    BY <1>19 DEF BookFails, TypeOK
  <2> QED
    BY <1>1, <1>19, <2>1, <2>2, <2>3 DEF BookFails, TypeOK
<1>20. CASE UNCHANGED vars
  BY <1>20 DEF vars, TypeOK
<1> QED
  BY <1>6, <1>7, <1>8, <1>9, <1>10, <1>11, <1>12, <1>13, <1>14, <1>16, <1>17, <1>18,
     <1>19, <1>20 DEF Next, Reader

LEMMA HistoryInvariant == Spec => [](TypeOK /\ Dated(states) /\ Linked)
<1> DEFINE Inv == TypeOK /\ Dated(states) /\ Linked
<1>1. Init => Inv
  <2> SUFFICES ASSUME Init PROVE Inv
    OBVIOUS
  <2>1. <<>> \in Seq(Interval) /\ <<>> \in Seq(State) /\ Len(states) = 0 /\ DOMAIN states = {}
    BY EmptySeq DEF Init
  <2>2. Dated(states)
    BY <2>1 DEF Init, Dated, Timeline
  <2>3. thread \in [Worker -> [batch : Seq(State), tries : 0..(Attempts - 1)]]
    BY <2>1, BoundAssumption DEF Init, Idle
  <2>4. /\ now \in Time /\ changes \in 0..MaxChanges /\ entries \in 0..MaxEntries
        /\ faults \in 0..MaxFaults
    BY BoundAssumption DEF Init, Time
  <2>5. TypeOK
    BY <2>1, <2>2, <2>3, <2>4 DEF Init, TypeOK, Dated
  <2>6. Linked
    BY DEF Init, Linked
  <2> QED
    BY <2>2, <2>5, <2>6
<1>2. Inv /\ [Next]_vars => Inv'
  BY TypesInvariant, DatedInvariant, LinkedInvariant
<1> QED
  BY <1>1, <1>2, PTL DEF Spec

LEMMA QuietInvariant ==
  ASSUME QuietStop
  PROVE  TypeOK /\ Quiet /\ [Next]_vars => Quiet'
<1> SUFFICES ASSUME TypeOK, Quiet, [Next]_vars PROVE Quiet'
  OBVIOUS
<1> USE DEF tables, process, bounds, Another
<1>1. ASSUME NEW w \in Worker, Done(w)
      PROVE  ~Busy(w)' /\ \A v \in Worker : v # w => Busy(v)' = Busy(v)
  BY <1>1 DEF Done, Idle, Busy, TypeOK
<1>2. ASSUME NEW w \in Worker, thread' = [thread EXCEPT ![w].batch = inbox]
      PROVE  \A v \in Worker : v # w => Busy(v)' = Busy(v)
  BY <1>2 DEF Busy, TypeOK
<1>3. CASE Close
  <2>1. "flush" \in Worker /\ "consumer" \in Worker
    BY DEF Worker
  <2> QED
    BY <1>2, <1>3, <2>1 DEF Close, Quiet
<1>4. CASE Disconnect
  BY <1>4 DEF Disconnect, Quiet, Busy, Worker
<1>5. CASE Crash
  BY <1>5 DEF Crash, Quiet, Busy, Idle
<1>6. CASE Begin
  <2>1. "flush" \in Worker /\ "consumer" \in Worker
    BY DEF Worker
  <2> QED
    BY <1>2, <1>6, <2>1 DEF Begin, Quiet
<1>7. ASSUME NEW w \in Worker, Book(w) PROVE Quiet'
  BY <1>1, <1>7 DEF Book, Quiet, Worker
<1>8. ASSUME NEW w \in Worker, BookFails(w) PROVE Quiet'
  <2>1. Busy(w) /\ UNCHANGED <<link, inbox>>
    BY <1>8 DEF BookFails
  <2>2. CASE Done(w)
    BY <1>1, <2>1, <2>2 DEF Quiet, Worker
  <2>3. CASE thread' = [thread EXCEPT ![w].tries = @ + 1]
    <3>1. \A v \in Worker : Busy(v)' = Busy(v)
      BY <2>3 DEF Busy, TypeOK
    <3> QED
      BY <2>1, <3>1 DEF Quiet, Worker
  <2> QED
    BY <1>8, <2>2, <2>3 DEF BookFails
<1>9. CASE Connect \/ Record
  BY <1>9 DEF Connect, Record, Quiet, Busy, Worker
<1>10. ASSUME NEW s \in State, Change(s) PROVE Quiet'
  BY <1>10 DEF Change, Quiet, Busy
<1>11. CASE UNCHANGED <<link, inbox, thread>>
  BY <1>11 DEF Quiet, Busy
<1> QED
  BY <1>3, <1>4, <1>5, <1>6, <1>7, <1>8, <1>9, <1>10, <1>11
     DEF Next, Reader, Tick, LinkDies, Enter, CannotConnect, Proof, vars

LEMMA BlindedInvariant ==
  TypeOK /\ Linked /\ Blinded /\ [Next]_vars => Blinded'
<1> SUFFICES ASSUME TypeOK, Linked, Blinded, [Next]_vars PROVE Blinded'
  OBVIOUS
<1> USE DEF tables, process, bounds, Another
<1>1. now \in Nat /\ (seen # None => seen \in Nat) /\ \A b \in blind : b \in Nat
  BY TimeIsNat DEF TypeOK
<1>2. CASE Tick
  <2>1. now' = now + 1 /\ \A b \in blind' : b \in blind \/ b = now
    BY <1>2 DEF Tick
  <2>2. \A b \in blind' : b < now'
    BY <1>1, <2>1 DEF Blinded
  <2>3. said' = "nothing" => blind' = {}
    BY <1>2 DEF Tick, Blinded
  <2>4. link' = "watched" /\ alive' => blind' = blind /\ seen' = seen
    BY <1>2 DEF Tick
  <2>5. link' = "watched" /\ alive' => \A b \in blind' : b < seen'
    BY <1>2, <2>4 DEF Tick, Blinded
  <2> QED
    BY <2>2, <2>3, <2>5 DEF Blinded
<1>3. CASE Proof
  BY <1>3 DEF Proof, Linked, Blinded
<1>4. CASE LinkDies \/ Connect \/ Close \/ Crash
  BY <1>4 DEF LinkDies, Connect, Close, Crash, Blinded
<1>6. CASE CannotConnect \/ Disconnect
  <2>1. said # "nothing" => said' # "nothing"
    BY <1>6, Writing DEF CannotConnect, Disconnect
  <2> QED
    BY <1>6, <2>1 DEF CannotConnect, Disconnect, Blinded
<1>7. CASE Record
  <2>1. said # "nothing" => said' # "nothing"
    BY <1>7, Writing DEF Record
  <2>2. UNCHANGED <<now, alive, blind>> /\ seen' = now
    BY <1>7 DEF Record, Connected
  <2> QED
    BY <2>1, <2>2 DEF Blinded
<1>5. CASE UNCHANGED <<now, alive, link, said, seen, blind>>
  BY <1>5 DEF Blinded
<1> QED
  BY <1>2, <1>3, <1>4, <1>5, <1>6, <1>7
     DEF Next, Reader, Change, Enter, Begin, Book, BookFails, vars

LEMMA ToldInvariant ==
  TypeOK /\ Dated(states) /\ Linked /\ Quiet /\ Told /\ [Next]_vars => Told'
<1> SUFFICES ASSUME TypeOK, Dated(states), Linked, Quiet, Told, [Next]_vars PROVE Told'
  OBVIOUS
<1> USE DEF tables, process, bounds, Another
<1>1. now \in Time /\ now <= now
  BY TimeIsNat DEF TypeOK
<1>2. ASSUME NEW s \in State, Change(s) PROVE Told'
  <2>1. SUFFICES ASSUME link' \in {"subscribed", "watched"}, alive' PROVE Told'
    BY DEF Told
  <2>2. inbox' = Append(inbox, s) /\ machine' = s
    BY <1>2, <2>1 DEF Change
  <2>3. inbox' # <<>> /\ Last(inbox') = s
    <3>1. inbox \in Seq(State)
      BY DEF TypeOK
    <3>2. Len(Append(inbox, s)) = Len(inbox) + 1 /\ Append(inbox, s)[Len(inbox) + 1] = s
          /\ Len(inbox) \in Nat /\ Append(inbox, s) # <<>>
      BY <3>1
    <3> QED
      BY <2>2, <3>2 DEF Last
  <2> QED
    BY <2>2, <2>3 DEF Told
<1>3. ASSUME NEW s \in State, Enter(s) PROVE Told'
  BY <1>3 DEF Enter, Told, Busy
<1>4. CASE LinkDies \/ Close \/ Disconnect \/ Crash \/ CannotConnect
  BY <1>4 DEF LinkDies, Close, Disconnect, Crash, CannotConnect, Told
<1>5. CASE Connect
  <2>1. inbox' # <<>> /\ Last(inbox') = machine'
    BY <1>5 DEF Connect, Last
  <2> QED
    BY <2>1 DEF Told
<1>6. CASE Record
  <2>1. UNCHANGED tables \/ SetConnection(TRUE, now)
    BY <1>6, Writing DEF Record
  <2>2. states' = states
    BY <1>1, <2>1, Recording
  <2>3. OpenState' = OpenState
    BY <2>2 DEF OpenState
  <2> QED
    BY <1>6, <2>3 DEF Record, Told, Busy
<1>7. CASE Begin
  <2>1. SUFFICES ASSUME link \in {"subscribed", "watched"}, alive PROVE Told'
    BY <1>7 DEF Begin, Told
  <2>2. Last(inbox) = machine
    BY <1>7, <2>1 DEF Begin, Told
  <2>3. thread'["consumer"].batch = inbox /\ inbox' = <<>> /\ inbox # <<>>
    BY <1>7 DEF Begin, TypeOK, Worker
  <2> QED
    BY <1>7, <2>2, <2>3 DEF Begin, Told, Busy, Last
<1>8. ASSUME NEW w \in Worker, Book(w) PROVE Told'
  <2>1. SUFFICES ASSUME link \in {"subscribed", "watched"}, alive PROVE Told'
    BY <1>8 DEF Book, Told
  <2>2. CASE inbox # <<>>
    BY <1>8, <2>1, <2>2 DEF Book, Told
  <2>3. CASE inbox = <<>>
    <3>1. w = "consumer" /\ Busy("consumer")
      BY <1>8, <2>1 DEF Book, Quiet, Worker
    <3>2. LET batch == thread["consumer"].batch
          IN batch \in Seq(State) /\ batch # <<>> /\ batch[Len(batch)] = machine
      BY <2>1, <2>3, <3>1 DEF Told, Busy, TypeOK, Worker
    <3>3. PICK lost : /\ states' = WithStates(states, thread["consumer"].batch, lost)
                      /\ drift' = (Len(thread["consumer"].batch) \in lost)
      BY <1>8, <3>1 DEF Book
    <3>4. drift' \/ OpenState' = machine
      <4>1. SUFFICES ASSUME ~drift' PROVE OpenState' = machine
        OBVIOUS
      <4>2. Len(thread["consumer"].batch) \notin lost
        BY <3>3, <4>1
      <4>3. HasOpen(states') /\ Last(states').state = machine
        BY <1>1, <3>2, <3>3, <4>2, WithStatesDates
      <4> QED
        BY <4>3 DEF OpenState
    <3>5. ~Busy("consumer")' /\ inbox' = <<>> /\ machine' = machine
      BY <1>8, <2>3, <3>1 DEF Book, Done, Idle, Busy, TypeOK, Worker
    <3> QED
      BY <3>4, <3>5 DEF Told
  <2> QED
    BY <2>2, <2>3
<1>9. ASSUME NEW w \in Worker, BookFails(w) PROVE Told'
  <2>1. UNCHANGED <<link, alive, machine, inbox, states>> /\ OpenState' = OpenState
    BY <1>9 DEF BookFails, OpenState
  <2>2. CASE Done(w) /\ drift'
    <3>1. "consumer" \in Worker /\ (w # "consumer" => thread'["consumer"] = thread["consumer"])
          /\ (w = "consumer" => thread'["consumer"].batch = <<>>)
      BY <2>2 DEF Done, Idle, TypeOK, Worker
    <3> QED
      BY <2>1, <2>2, <3>1 DEF Told, Busy
  <2>3. CASE thread' = [thread EXCEPT ![w].tries = @ + 1] /\ UNCHANGED drift
    <3>1. thread'["consumer"].batch = thread["consumer"].batch
      BY <2>3 DEF TypeOK, Worker
    <3> QED
      BY <2>1, <2>3, <3>1 DEF Told, Busy
  <2> QED
    BY <1>9, <2>2, <2>3 DEF BookFails
<1>10. CASE UNCHANGED <<machine, alive, states, link, inbox, thread, drift>>
  BY <1>10 DEF Told, Busy, OpenState
<1> QED
  BY <1>2, <1>3, <1>4, <1>5, <1>6, <1>7, <1>8, <1>9, <1>10 DEF Next, Reader, Tick, Proof, vars

LEMMA UnseenInvariant ==
  ASSUME Unwritten = {}
  PROVE  TypeOK /\ Dated(states) /\ Linked /\ Written /\ Quiet /\ NothingAccruesUnseen
           /\ [Next]_vars
         => NothingAccruesUnseen'
<1> SUFFICES ASSUME TypeOK, Dated(states), Linked, Written, Quiet, NothingAccruesUnseen,
                    [Next]_vars,
                    Recorded(FALSE)', link' = "away", HasOpen(states')
             PROVE  Last(states').by = "other" /\ Last(states').from >= visible'.from
  BY DEF NothingAccruesUnseen
<1> USE DEF tables, process, bounds, Another
<1>1. now \in Time /\ now \in Nat /\ now <= now
  BY TimeIsNat DEF TypeOK
<1>2. CASE link = "away" /\ UNCHANGED <<states, visible>>
  BY <1>2 DEF NothingAccruesUnseen, Recorded
<1>3. ASSUME NEW s \in State, Enter(s)
      PROVE  Last(states').by = "other" /\ Last(states').from >= visible'.from
  <2>1. link = "away" /\ visible' = visible /\ Recorded(FALSE) /\ states' = WithState(states, s, "other")
    BY <1>3 DEF Enter, Recorded
  <2>2. CASE states' = states
    BY <1>2, <2>1, <2>2
  <2>3. CASE /\ states' \in Seq(Interval) /\ Len(states') \in {1, 2}
             /\ states'[Len(states')] =
                  [state |-> s, from |-> now, to |-> None, by |-> "other", ended |-> None]
    <3>1. Last(states').by = "other" /\ Last(states').from = now
      BY <2>3 DEF Last
    <3>2. visible.from \in Nat /\ visible.from <= now
      BY <2>1, TimeIsNat DEF Recorded, Linked, TypeOK, Link
    <3> QED
      BY <1>1, <2>1, <3>1, <3>2
  <2> QED
    BY <1>1, <2>1, <2>2, <2>3, WithStateIs
<1>4. CASE CannotConnect
  <2> DEFINE at == IF seen = None THEN now ELSE seen
  <2>1. SetConnection(FALSE, at) /\ link = "away"
    BY <1>4 DEF CannotConnect, Disconnected, Write
  <2>2. at \in Time /\ at <= now
    BY <1>1 DEF TypeOK, Linked
  <2>3. Recorded(FALSE) => UNCHANGED <<states, visible>>
    BY <2>1, <2>2, Recording
  <2>4. Recorded(FALSE)
    BY <2>1, <2>2, Recording
  <2> QED
    BY <1>2, <2>1, <2>3, <2>4
<1>5. CASE Disconnect
  <2>1. SetConnection(FALSE, seen) /\ seen \in Time /\ seen <= now /\ ~Recorded(FALSE)
    BY <1>5 DEF Disconnect, Disconnected, Write, Linked, Written, TypeOK, Recorded
  <2>2. ~HasOpen(states')
    BY <2>1, Recording
  <2> QED
    BY <2>2
<1>6. CASE Crash
  BY <1>2, <1>6 DEF Crash, Written, Recorded, TypeOK
<1>7. ASSUME NEW w \in Worker PROVE ~Book(w)
  BY DEF Book, Quiet, Busy
<1> QED
  BY <1>2, <1>3, <1>4, <1>5, <1>6, <1>7
     DEF Next, Reader, Tick, LinkDies, Change, Connect, Record, Proof, Close, Begin, BookFails, vars

LEMMA EvidentInvariant ==
  ASSUME Unwritten = {}
  PROVE  TypeOK /\ Dated(states) /\ Linked /\ Written /\ Quiet /\ Blinded
           /\ NothingAccruesUnseen /\ Evident(states) /\ [Next]_vars
         => Evident(states)'
<1> SUFFICES ASSUME TypeOK, Dated(states), Linked, Written, Quiet, Blinded,
                    NothingAccruesUnseen, Evident(states), [Next]_vars
             PROVE  Evident(states)'
  OBVIOUS
<1> USE DEF tables, process, bounds, Another
<1>1. /\ now \in Time /\ now \in Nat /\ now <= now
      /\ (seen # None => seen \in Nat) /\ \A b \in blind : b \in Nat
  BY TimeIsNat DEF TypeOK
<1>2. ASSUME NEW i \in 1..Len(states)
      PROVE  /\ states[i] \in Interval /\ states[i].from \in Nat
             /\ (states[i].to # None => states[i].to \in Nat)
             /\ states[i].ended = "link" => states[i].to # None /\ states[i].to <= now
  <2>1. states[i] \in Interval
    BY ElementOfSeq DEF Dated
  <2>2. states[i].from \in Nat /\ (states[i].to # None => states[i].to \in Nat)
    BY <2>1, TimeIsNat DEF Interval
  <2>3. states[i].ended = "link" => states[i].to # None /\ states[i].to <= now
    BY NoneAssumption DEF Dated
  <2> QED
    BY <2>1, <2>2, <2>3
<1>3. HasOpen(states) => /\ Len(states) \in 1..Len(states) /\ Last(states) = states[Len(states)]
                         /\ Last(states).from \in Nat
  <2>1. states \in Seq(Interval)
    BY DEF Dated
  <2>2. HasOpen(states) => Len(states) \in 1..Len(states) /\ Last(states) = states[Len(states)]
    BY <2>1, HasOpenIs
  <2> QED
    BY <1>2, <2>2
<1>4. ASSUME UNCHANGED <<blind, link, seen>>, Evident(states') PROVE Evident(states)'
  BY <1>4 DEF Evident
<1>5. CASE Tick
  <2>1. /\ states' = states /\ link' = link /\ seen' = seen
        /\ blind' \in {blind, blind \cup {now}}
        /\ blind' # blind => said # "nothing" /\ ~(alive /\ link # "away")
    BY <1>5 DEF Tick
  <2>2. ASSUME NEW i \in 1..Len(states), states[i].by = "reader", states[i].ended = "link",
               NEW b \in blind'
        PROVE  ~(states[i].from <= b /\ b < states[i].to)
    <3>1. CASE b \in blind
      BY <2>2, <3>1 DEF Evident
    <3>2. CASE b = now
      BY <1>1, <1>2, <2>2, <3>2
    <3> QED
      BY <2>1, <3>1, <3>2
  <2>3. ASSUME HasOpen(states), Last(states).by = "reader", NEW b \in blind'
        PROVE  \/ b < Last(states).from
               \/ link \in {"watched", "closing"} /\ b >= seen
    <3>1. CASE b \in blind
      BY <2>3, <3>1 DEF Evident
    <3>2. CASE b = now /\ blind' # blind
      <4>1. link # "away"
        <5>1. SUFFICES ASSUME link = "away" PROVE FALSE
          OBVIOUS
        <5>2. Recorded(FALSE)
          BY <2>1, <3>2, <5>1 DEF Written, TypeOK
        <5> QED
          BY <2>3, <5>1, <5>2 DEF NothingAccruesUnseen
      <4>2. link # "subscribed"
        BY <2>1, <3>2, <4>1 DEF Linked
      <4>3. link \in {"watched", "closing"}
        BY <4>1, <4>2 DEF TypeOK
      <4>4. seen # None /\ seen <= now
        BY <4>3 DEF Linked
      <4> QED
        BY <1>1, <3>2, <4>3, <4>4
    <3> QED
      BY <2>1, <3>1, <3>2
  <2> QED
    BY <2>1, <2>2, <2>3 DEF Evident
<1>6. ASSUME NEW s \in State, Enter(s) PROVE Evident(states)'
  <2>1. Evident(WithState(states, s, "other"))
    BY <1>1, WithStateIsEvident DEF Blinded
  <2> QED
    BY <1>4, <1>6, <2>1 DEF Enter
<1>7. ASSUME NEW w \in Worker, Book(w) PROVE Evident(states)'
  <2>1. thread[w].batch \in Seq(State)
    BY DEF TypeOK
  <2>2. PICK lost : states' = WithStates(states, thread[w].batch, lost)
    BY <1>7 DEF Book
  <2>3. Evident(states')
    BY <1>1, <2>1, <2>2, WithStatesIsEvident DEF Blinded
  <2> QED
    BY <1>4, <1>7, <2>3 DEF Book
<1>8. CASE Crash \/ CannotConnect
  <2>1. blind' = {}
    BY <1>8 DEF Crash, CannotConnect, Written, Blinded, TypeOK
  <2> QED
    BY <2>1 DEF Evident
<1>9. CASE Connect
  <2>1. states' = states /\ blind' = blind /\ link = "away"
    BY <1>9 DEF Connect
  <2> QED
    BY <2>1 DEF Evident
<1>10. CASE Record
  <2>1. SetConnection(TRUE, now)
    BY <1>10 DEF Record, Connected, Write, Written
  <2>2. states' = states /\ blind' = blind /\ link = "subscribed"
    BY <1>1, <1>10, <2>1, Recording DEF Record
  <2> QED
    BY <2>2 DEF Evident
<1>11. CASE Proof
  <2>1. states' = states /\ blind' = blind /\ \A b \in blind : b < seen
    BY <1>11 DEF Proof, Blinded
  <2>2. seen # None
    BY <1>11 DEF Proof, Linked
  <2>3. \A b \in blind : ~(b >= seen)
    BY <1>1, <2>1, <2>2
  <2> QED
    BY <2>1, <2>3 DEF Evident
<1>12. CASE Close
  <2>1. states' = states /\ blind' = blind /\ seen' = seen /\ link = "watched" /\ link' = "closing"
    BY <1>12 DEF Close
  <2> QED
    BY <2>1 DEF Evident
<1>13. CASE Disconnect
  <2>1. /\ SetConnection(FALSE, seen) /\ seen \in Time /\ seen <= now /\ seen \in Nat
        /\ ~Recorded(FALSE) /\ Recorded(TRUE) /\ visible.from <= seen
    BY <1>13, TimeIsNat DEF Disconnect, Disconnected, Write, Linked, Written, TypeOK, Recorded
  <2>2. RowFrom(seen) = seen
    <3>1. visible # None /\ visible.from \in Nat
      BY <2>1, TimeIsNat DEF Recorded, TypeOK, Link
    <3> QED
      BY <2>1, <3>1 DEF RowFrom, Later
  <2>3. states' = Ending(states, seen, "link") /\ ~HasOpen(states') /\ blind' = blind
    BY <1>13, <2>1, <2>2, Recording DEF Disconnect
  <2>4. CASE ~HasOpen(states)
    <3>1. states' = states
      BY <2>3, <2>4 DEF Ending
    <3> QED
      BY <2>3, <2>4, <3>1 DEF Evident
  <2>5. CASE HasOpen(states)
    <3> DEFINE n == Len(states)
    <3>1. /\ Len(states') = n /\ n \in Nat \ {0}
          /\ \A i \in 1..n : i # n => states'[i] = states[i]
          /\ states'[n].from = states[n].from /\ states'[n].by = states[n].by
          /\ states'[n].to = Later(seen, states[n].from)
      <4>1. states \in Seq(Interval)
        BY DEF Dated
      <4> QED
        BY <2>1, <2>3, <2>5, <4>1, EndingIs
    <3>2. ASSUME NEW i \in 1..n, states'[i].by = "reader", states'[i].ended = "link",
                 NEW b \in blind
          PROVE  ~(states'[i].from <= b /\ b < states'[i].to)
      <4>1. CASE i # n
        BY <3>1, <3>2, <4>1 DEF Evident
      <4>2. CASE i = n
        <5>1. states[n].from \in Nat /\ Last(states) = states[n]
          BY <1>3, <2>5
        <5>2. b < states[n].from \/ b >= seen
          BY <2>5, <3>1, <3>2, <4>2, <5>1 DEF Evident
        <5>3. states'[i].from = states[n].from /\ states'[i].to \in {seen, states[n].from}
          BY <3>1, <4>2 DEF Later
        <5> QED
          BY <1>1, <2>1, <5>1, <5>2, <5>3
      <4> QED
        BY <4>1, <4>2
    <3> QED
      BY <2>3, <3>1, <3>2 DEF Evident
  <2> QED
    BY <2>4, <2>5
<1>14. CASE UNCHANGED <<states, blind, link, seen>>
  BY <1>4, <1>14
<1> QED
  BY <1>5, <1>6, <1>7, <1>8, <1>9, <1>10, <1>11, <1>12, <1>13, <1>14
     DEF Next, Reader, LinkDies, Change, Begin, BookFails, vars

-----------------------------------------------------------------------------
(* The theorems *)

(* The history of a machine's states is a sequence of intervals that do    *)
(* not overlap, although a disconnection is written back to before it was  *)
(* noticed: for any states, entered by whom and booked in which batches.   *)
THEOREM TypeCorrect == Spec => []TypeOK
BY HistoryInvariant, PTL

LEMMA QuietHistory ==
  ASSUME QuietStop
  PROVE  Spec => [](Quiet /\ Blinded /\ Told)
<1> DEFINE Types == TypeOK /\ Dated(states) /\ Linked
           Inv == Quiet /\ Blinded /\ Told
<1>1. Init => Inv
  BY DEF Init, Quiet, Blinded, Told, Busy, Idle
<1>2. Types /\ Inv /\ [Next]_vars => Inv'
  BY QuietInvariant, BlindedInvariant, ToldInvariant
<1> QED
  BY <1>1, <1>2, HistoryInvariant, PTL DEF Spec

LEMMA RecordedHistory ==
  ASSUME QuietStop, Unwritten = {}
  PROVE  Spec => [](Written /\ NothingAccruesUnseen /\ Evident(states))
<1> DEFINE Types == TypeOK /\ Dated(states) /\ Linked
           Reading == Quiet /\ Blinded /\ Told
           Inv == Written /\ NothingAccruesUnseen /\ Evident(states)
<1>1. Init => Inv
  <2> SUFFICES ASSUME Init PROVE Inv
    OBVIOUS
  <2>1. Len(states) = 0 /\ ~HasOpen(states)
    BY EmptySeq DEF Init, HasOpen
  <2>2. \A i \in 1..Len(states) : FALSE
    BY <2>1
  <2>3. NothingAccruesUnseen /\ Evident(states)
    BY <2>1, <2>2 DEF NothingAccruesUnseen, Evident
  <2> QED
    BY <2>3 DEF Init, Written
<1>2. Types /\ Reading /\ Inv /\ [Next]_vars => Inv'
  BY WrittenInvariant, UnseenInvariant, EvidentInvariant
<1> QED
  BY <1>1, <1>2, HistoryInvariant, QuietHistory, PTL DEF Spec

(* While a machine is recorded as disconnected nothing accrues that nobody *)
(* entered: for any number of connections, batches, retries and crashes,   *)
(* as long as a connection does not end over a thread that still books,    *)
(* and every loss is recorded that the _Link takes for recorded.           *)
THEOREM NothingUnseenAccrues ==
  ASSUME QuietStop, Unwritten = {}
  PROVE  Spec => []NothingAccruesUnseen
BY RecordedHistory, PTL

(* No interval that a disconnection ended holds a moment in which the      *)
(* reader was blind, however late the watchdog noticed and however often   *)
(* the link had been lost before: if each of those losses was recorded.    *)
THEOREM HistoryStopsAtEvidence ==
  ASSUME QuietStop, Unwritten = {}
  PROVE  Spec => []EndsAtEvidence
<1>1. TypeOK /\ Dated(states) /\ Evident(states) => EndsAtEvidence
  <2> SUFFICES ASSUME TypeOK, Dated(states), Evident(states),
                      NEW i \in 1..Len(states),
                      states[i].by = "reader", states[i].ended = "link",
                      NEW b \in blind, b \in states[i].from..(states[i].to - 1)
               PROVE  FALSE
    BY LenProperties DEF EndsAtEvidence, Dated
  <2>1. states[i] \in Interval
    BY ElementOfSeq DEF Dated
  <2>2. states[i].to # None
    BY NoneAssumption DEF Dated
  <2>3. states[i].from \in Nat /\ states[i].to \in Nat
    BY <2>1, <2>2, TimeIsNat DEF Interval
  <2>4. states[i].from <= b /\ b < states[i].to
    BY <2>3
  <2> QED
    BY <2>4 DEF Evident
<1> QED
  BY <1>1, HistoryInvariant, RecordedHistory, PTL

(* A machine that is watched has its own state open, once what it said has *)
(* been booked: no batch, retry or reconnection leaves an older one, and   *)
(* no loss that was not recorded.                                          *)
THEOREM HistoryFollows ==
  ASSUME QuietStop
  PROVE  Spec => []Follows
<1>1. Told => Follows
  BY DEF Told, Follows, Worker
<1> QED
  BY <1>1, QuietHistory, PTL
=============================================================================
