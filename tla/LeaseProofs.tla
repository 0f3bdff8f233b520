----------------------------- MODULE LeaseProofs -----------------------------
(***************************************************************************)
(* Proofs about Lease, for every set of nodes and all its times.           *)
(*                                                                         *)
(* TypeOK and NeverStolen hold of any schedule. GateHonest and OneWorker   *)
(* need a timely plant: the invariant behind them, TimelyInv, carries the  *)
(* deadlines from one claim to the next.                                   *)
(***************************************************************************)
EXTENDS Lease, TLAPS

(* The state of every node and of the row has its type, in every           *)
(* reachable state (leases.py's row, Holder and loop).                     *)
THEOREM TypeCorrect == Spec => []TypeOK
<1>1. Init => TypeOK
  BY TimesAssumption DEF Init, TypeOK
<1>2. TypeOK /\ [Next]_vars => TypeOK'
  <2> SUFFICES ASSUME TypeOK, [Next]_vars PROVE TypeOK'
    OBVIOUS
  <2> USE TimesAssumption DEF TypeOK
  <2>1. CASE Tick
    BY <2>1 DEF Tick
  <2>2. ASSUME NEW n \in Node, AskClock(n) PROVE TypeOK'
    BY <2>2 DEF AskClock
  <2>3. ASSUME NEW n \in Node PROVE LeaseOf(n) \in Row
    BY DEF LeaseOf, Row
  <2>4. ASSUME NEW n \in Node, ClaimUpdate(n) PROVE TypeOK'
    BY <2>3, <2>4 DEF ClaimUpdate
  <2>5. ASSUME NEW n \in Node, ClaimSelect(n) PROVE TypeOK'
    BY <2>5 DEF ClaimSelect
  <2>6. ASSUME NEW n \in Node, ClaimInsert(n) PROVE TypeOK'
    BY <2>3, <2>6 DEF ClaimInsert
  <2>7. ASSUME NEW n \in Node, NEW got \in BOOLEAN, Learn(n, got) PROVE TypeOK'
    BY <2>7 DEF Learn, NoClaim, Proceed
  <2>8. ASSUME NEW n \in Node, Taken(n) \/ Refused(n) \/ AskFails(n) PROVE TypeOK'
    BY <2>7, <2>8 DEF Taken, Refused, AskFails
  <2>9. ASSUME NEW n \in Node, WorkEnds(n) PROVE TypeOK'
    BY <2>9 DEF WorkEnds
  <2>10. ASSUME NEW n \in Node, Shutdown(n) \/ Crash(n) PROVE TypeOK'
    <3>1. CASE Shutdown(n)
      BY <3>1 DEF Shutdown, Gone, NoClaim
    <3>2. CASE Crash(n)
      BY <3>2 DEF Crash, Gone, NoClaim
    <3> QED
      BY <2>10, <3>1, <3>2
  <2>11. ASSUME NEW n \in Node, Restart(n) PROVE TypeOK'
    BY <2>11 DEF Restart, NoClaim
  <2>12. CASE UNCHANGED vars
    BY <2>12 DEF vars
  <2> QED
    BY <2>1, <2>2, <2>4, <2>5, <2>6, <2>8, <2>9, <2>10, <2>11, <2>12 DEF Next
<1> QED
  BY <1>1, <1>2, PTL DEF Spec

-----------------------------------------------------------------------------
(* A claim in flight read the clock in the past, and a row is only taken   *)
(* over by a claim that saw it expired: no schedule steals a live row.     *)
AskedPast == \A n \in Node : asked[n] <= now

LEMMA AskedPastInvariant == Spec => []AskedPast
<1>1. Init => AskedPast
  <2> SUFFICES ASSUME Init, NEW n \in Node PROVE asked[n] <= now
    BY DEF AskedPast
  <2> QED
    BY DEF Init
<1>2. TypeOK /\ AskedPast /\ [Next]_vars => AskedPast'
  <2> SUFFICES ASSUME TypeOK, AskedPast, [Next]_vars PROVE AskedPast'
    OBVIOUS
  <2> USE DEF TypeOK, AskedPast
  <2>1. CASE Tick
    BY <2>1 DEF Tick
  <2>2. CASE \E n \in Node : AskClock(n)
    BY <2>2 DEF AskClock
  <2>3. CASE \E n \in Node : ClaimUpdate(n) \/ ClaimSelect(n) \/ ClaimInsert(n) \/ WorkEnds(n)
    BY <2>3 DEF ClaimUpdate, ClaimSelect, ClaimInsert, WorkEnds
  <2>4. ASSUME NEW n \in Node, Taken(n) \/ Refused(n) \/ AskFails(n) PROVE AskedPast'
    <3>1. NoClaim(n) /\ now' = now
      BY <2>4 DEF Taken, Refused, AskFails, Learn
    <3> QED
      BY <3>1 DEF NoClaim
  <2>5. CASE \E n \in Node : Shutdown(n) \/ Crash(n) \/ Restart(n)
    BY <2>5 DEF Shutdown, Crash, Gone, Restart, NoClaim
  <2>6. CASE UNCHANGED vars
    BY <2>6 DEF vars
  <2> QED
    BY <2>1, <2>2, <2>3, <2>4, <2>5, <2>6 DEF Next
<1> QED
  BY <1>1, <1>2, TypeCorrect, PTL DEF Spec

(* The row leaves its holder only by expiry or when the holder itself      *)
(* finished its work: claim's WHERE clause and release's scope, whatever   *)
(* the interleaving of the claims and however long they take.              *)
THEOREM LeaseNeverStolen == Spec => NeverStolen
<1> DEFINE A == row # NoRow /\ (row' = NoRow \/ row'.holder # row.holder)
                  => \/ row.expires <= now
                     \/ phase[row.holder] = "work" /\ phase'[row.holder] = "ended"
<1>1. TypeOK /\ AskedPast /\ [Next]_vars => [A]_vars
  <2> SUFFICES ASSUME TypeOK, AskedPast, Next PROVE A
    OBVIOUS
  <2> USE TimesAssumption DEF TypeOK, AskedPast
  <2>1. CASE \E n \in Node : ClaimUpdate(n)
    <3> SUFFICES ASSUME NEW n \in Node, ClaimUpdate(n), Free(n), row.holder # n PROVE A
      BY <2>1, NoRowAssumption DEF ClaimUpdate, Free, LeaseOf, Row
    <3>1. row \in Row /\ row.expires <= asked[n] /\ asked[n] <= now
      BY DEF Free
    <3> QED
      BY <3>1 DEF Row
  <2>2. CASE \E n \in Node : ClaimInsert(n)
    BY <2>2 DEF ClaimInsert
  <2>3. CASE \E n \in Node : WorkEnds(n)
    BY <2>3 DEF WorkEnds
  <2>4. CASE UNCHANGED row
    BY <2>4
  <2>5. Next => \/ \E n \in Node : ClaimUpdate(n) \/ ClaimInsert(n) \/ WorkEnds(n)
                \/ UNCHANGED row
    BY DEF Next, Tick, AskClock, ClaimSelect, Taken, Refused, AskFails, Learn, Shutdown,
           Crash, Gone, Restart
  <2> QED
    BY <2>1, <2>2, <2>3, <2>4, <2>5
<1> QED
  BY <1>1, TypeCorrect, AskedPastInvariant, PTL DEF Spec, NeverStolen

-----------------------------------------------------------------------------
(* The deadlines of a timely plant. Every claim ends within MaxDelay of    *)
(* the clock it read; a holder asleep wakes before its row is that old,    *)
(* and one that asks again does so before RenewEvery + 2 * MaxDelay.       *)
ClaimInTime(n) == ask[n] # "idle" => now <= asked[n] + MaxDelay

Owns(n) == row # NoRow /\ row.holder = n

Granted(n) ==
  phase[n] \in {"standby", "work"} /\ ask[n] = "yes"
    => Owns(n) /\ row.expires = asked[n] + LeaseTime

Holding(n) ==
  phase[n] = "work" =>
    /\ held[n] /\ Owns(n) /\ ask[n] \in {"idle", "update", "yes"}
    /\ ask[n] = "idle" =>
         now <= wake[n] /\ row.expires + RenewEvery + MaxDelay >= wake[n] + LeaseTime
    /\ ask[n] = "update" =>
         row.expires + RenewEvery + MaxDelay >= asked[n] + LeaseTime

TimelyInv == \A n \in Node : ClaimInTime(n) /\ Granted(n) /\ Holding(n)

(* Who holds a row it was granted, or works, holds it live: nobody else's  *)
(* claim can find it expired.                                              *)
LEMMA OwnerIsLive ==
  ASSUME TypeOK, TimelyInv, NEW n \in Node,
         phase[n] = "work" \/ (phase[n] = "standby" /\ ask[n] = "yes")
  PROVE  Owns(n) /\ row \in Row /\ row.expires > now
<1>1. Owns(n) /\ row \in Row
  BY DEF TypeOK, TimelyInv, Granted, Holding, Owns
<1> USE <1>1, TimesAssumption, SlackAssumption
        DEF TypeOK, TimelyInv, ClaimInTime, Granted, Holding, Row
<1>2. CASE ask[n] = "yes"
  BY <1>2
<1>3. CASE ask[n] = "idle"
  BY <1>3
<1>4. CASE ask[n] = "update"
  BY <1>4
<1> QED
  BY <1>1, <1>2, <1>3, <1>4

LEMMA TimelyInvInvariant == ASSUME Timely PROVE Spec => []TimelyInv
<1>1. Init => TimelyInv
  BY DEF Init, TimelyInv, ClaimInTime, Granted, Holding
<1>2. TypeOK /\ AskedPast /\ TimelyInv /\ [Next]_vars => TimelyInv'
  <2> SUFFICES ASSUME TypeOK, AskedPast, TimelyInv, [Next]_vars,
                      NEW m \in Node
               PROVE (ClaimInTime(m) /\ Granted(m) /\ Holding(m))'
    BY DEF TimelyInv
  <2> DEFINE P == ClaimInTime(m) /\ Granted(m) /\ Holding(m)
  <2> USE TimesAssumption, SlackAssumption
  <2>0. P
    BY DEF TimelyInv
  \* A step of another node leaves m's part alone, and its row if it is live.
  <2>frame. ASSUME NEW n \in Node, n # m,
                   now' = now, phase'[m] = phase[m], held'[m] = held[m],
                   ask'[m] = ask[m], asked'[m] = asked[m], wake'[m] = wake[m],
                   Owns(m) /\ row.expires > now => row' = row
            PROVE P'
    BY <2>0, <2>frame, OwnerIsLive DEF ClaimInTime, Granted, Holding, Owns, TypeOK
  <2>1. CASE Tick
    BY <2>0, <2>1, Timely DEF Tick, Due, TypeOK, Row, ClaimInTime, Granted, Holding, Owns
  <2>2. ASSUME NEW n \in Node, AskClock(n) PROVE P'
    <3>1. CASE n # m
      BY <2>2, <2>frame, <3>1 DEF AskClock, TypeOK
    <3>2. CASE n = m
      BY <2>0, <2>2, <3>2 DEF AskClock, TypeOK, Row, ClaimInTime, Granted, Holding, Owns
    <3> QED
      BY <3>1, <3>2
  <2>3. ASSUME NEW n \in Node, ClaimUpdate(n) PROVE P'
    <3>1. CASE n # m
      <4>1. ASSUME Owns(m), row.expires > now PROVE row' = row
        BY <2>3, <3>1, <4>1 DEF ClaimUpdate, Free, Owns, AskedPast, TypeOK, Row
      <4> QED
        BY <2>3, <2>frame, <3>1, <4>1 DEF ClaimUpdate, TypeOK
    <3>2. CASE n = m /\ Free(m)
      BY <2>0, <2>3, <3>2, NoRowAssumption
         DEF ClaimUpdate, LeaseOf, TypeOK, Row, ClaimInTime, Granted, Holding, Owns
    <3>3. CASE n = m /\ ~Free(m)
      BY <2>0, <2>3, <3>3
         DEF ClaimUpdate, Free, TypeOK, Row, ClaimInTime, Granted, Holding, Owns
    <3> QED
      BY <3>1, <3>2, <3>3
  <2>4. ASSUME NEW n \in Node, ClaimSelect(n) PROVE P'
    <3>1. CASE n # m
      BY <2>4, <2>frame, <3>1 DEF ClaimSelect, TypeOK
    <3>2. CASE n = m
      BY <2>0, <2>4, <3>2 DEF ClaimSelect, TypeOK, ClaimInTime, Granted, Holding, Owns
    <3> QED
      BY <3>1, <3>2
  <2>5. ASSUME NEW n \in Node, ClaimInsert(n) PROVE P'
    <3>1. CASE n # m
      BY <2>5, <2>frame, <3>1 DEF ClaimInsert, Owns, TypeOK
    <3>2. CASE n = m
      BY <2>0, <2>5, <3>2, NoRowAssumption
         DEF ClaimInsert, LeaseOf, TypeOK, Row, ClaimInTime, Granted, Holding, Owns
    <3> QED
      BY <3>1, <3>2
  <2>6. ASSUME NEW n \in Node, Taken(n) PROVE P'
    <3>1. CASE n # m
      BY <2>6, <2>frame, <3>1 DEF Taken, Learn, NoClaim, Proceed, TypeOK
    <3>2. CASE n = m
      <4>1. /\ ask[m] = "yes" /\ ask'[m] = "idle" /\ held'[m] = TRUE
            /\ now' = now /\ row' = row
        BY <2>6, <3>2 DEF Taken, Learn, NoClaim, TypeOK
      <4>2. CASE phase[m] \in {"standby", "work"}
        <5>1. wake'[m] = now + RenewEvery
          BY <2>6, <3>2, <4>2 DEF Taken, Learn, Proceed, TypeOK
        <5>2. Owns(m) /\ row.expires = asked[m] + LeaseTime /\ now <= asked[m] + MaxDelay
          BY <2>0, <4>1, <4>2 DEF ClaimInTime, Granted
        <5> QED
          BY <4>1, <5>1, <5>2 DEF ClaimInTime, Granted, Holding, Owns, TypeOK
      <4>3. CASE phase[m] \notin {"standby", "work"}
        BY <2>6, <3>2, <4>1, <4>3 DEF Taken, Learn, ClaimInTime, Granted, Holding
      <4> QED
        BY <4>2, <4>3
    <3> QED
      BY <3>1, <3>2
  <2>7. ASSUME NEW n \in Node, Refused(n) \/ AskFails(n) PROVE P'
    <3> USE DEF TypeOK
    <3>1. Learn(n, FALSE)
      BY <2>7 DEF Refused, AskFails
    <3>2. CASE n # m
      BY <2>frame, <3>1, <3>2 DEF Learn, NoClaim, Proceed
    <3>3. CASE n = m
      <4>1. ask'[m] = "idle" /\ phase'[m] # "work"
        BY <3>1, <3>3 DEF Learn, NoClaim, Proceed
      <4> QED
        BY <4>1 DEF ClaimInTime, Granted, Holding
    <3> QED
      BY <3>2, <3>3
  <2>8. ASSUME NEW n \in Node, WorkEnds(n) PROVE P'
    <3>1. CASE n # m
      BY <2>8, <2>frame, <3>1 DEF WorkEnds, Owns, TypeOK
    <3>2. CASE n = m
      BY <2>0, <2>8, <3>2 DEF WorkEnds, TypeOK, ClaimInTime, Granted, Holding
    <3> QED
      BY <3>1, <3>2
  <2>9. ASSUME NEW n \in Node, Shutdown(n) \/ Crash(n) \/ Restart(n) PROVE P'
    <3>1. CASE n # m
      BY <2>9, <2>frame, <3>1 DEF Shutdown, Crash, Gone, Restart, NoClaim, TypeOK
    <3>2. CASE n = m
      BY <2>0, <2>9, <3>2
         DEF Shutdown, Crash, Gone, Restart, NoClaim, TypeOK, ClaimInTime, Granted, Holding
    <3> QED
      BY <3>1, <3>2
  <2>10. CASE UNCHANGED vars
    BY <2>0, <2>10 DEF vars, ClaimInTime, Granted, Holding, Owns
  <2> QED
    BY <2>1, <2>2, <2>3, <2>4, <2>5, <2>6, <2>7, <2>8, <2>9, <2>10 DEF Next
<1> QED
  BY <1>1, <1>2, TypeCorrect, AskedPastInvariant, PTL DEF Spec

(* Holder's docstring, on a timely plant: a node that works with its gate  *)
(* open holds the live row, so nobody else does.                           *)
THEOREM GateHonestWhenTimely == ASSUME Timely PROVE Spec => []GateHonest
<1>1. TypeOK /\ TimelyInv => GateHonest
  BY OwnerIsLive DEF GateHonest, Works, Live, Owns
<1> QED
  BY <1>1, TypeCorrect, TimelyInvInvariant, Timely, PTL

(* One reader per plant, on a timely plant: two open gates are one node.   *)
THEOREM OneWorkerWhenTimely == ASSUME Timely PROVE Spec => []OneWorker
<1>1. GateHonest => OneWorker
  BY DEF GateHonest, OneWorker, Works, Live
<1> QED
  BY <1>1, GateHonestWhenTimely, Timely, PTL
=============================================================================
