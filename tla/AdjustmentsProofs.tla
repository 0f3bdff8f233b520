-------------------------- MODULE AdjustmentsProofs --------------------------
(***************************************************************************)
(* Theorems about Adjustments: for any recommendations and setpoints, any  *)
(* people, and any number of rounds cut short. What says Serial holds of   *)
(* SQLite, where a transaction that looks at a row has it to itself; what  *)
(* says OneEndpoint, of a reader with a single endpoint.                   *)
(***************************************************************************)
EXTENDS Adjustments, TLAPS

(* Every variable keeps its type.                                          *)
THEOREM TypeCorrect == Spec => []TypeOK
<1>1. Init => TypeOK
  BY DEF Init, TypeOK
<1>2. TypeOK /\ [Next]_vars => TypeOK'
  <2> SUFFICES ASSUME TypeOK, [Next]_vars PROVE TypeOK'
    OBVIOUS
  <2> USE DEF TypeOK, loop, txns, Open, Closed
  <2>1. ASSUME NEW p \in Person, NEW r \in Rec,
               Propose(p, r) \/ Approve(p, r) \/ Reject(p, r)
        PROVE  TypeOK'
    BY <2>1 DEF Propose, Approve, Reject, Asks
  <2>2. ASSUME NEW p \in Person, Save(p) PROVE TypeOK'
    <3>1. asked[p].rec \in Rec /\ asked[p].to \in {"proposed", "approved", "rejected"}
      BY <2>2 DEF Save
    <3> QED
      BY <2>2, <3>1 DEF Save, Becomes
  <2>3. ASSUME NEW p \in Person, Rollback(p) PROVE TypeOK'
    BY <2>3 DEF Rollback
  <2>4. ASSUME NEW r \in Rec, Ripen(r) PROVE TypeOK'
    BY <2>4 DEF Ripen
  <2>5. ASSUME NEW e \in Endpoint, Poll(e) PROVE TypeOK'
    BY <2>5 DEF Poll, Having
  <2>6. ASSUME NEW e \in Endpoint, StartVerifying(e) PROVE TypeOK'
    BY <2>6 DEF StartVerifying, Having
  <2>7. ASSUME NEW e \in Endpoint, Sleep(e) PROVE TypeOK'
    BY <2>7 DEF Sleep
  <2>8. ASSUME NEW e \in Endpoint, NEW r \in Rec, Refuse(e, r) PROVE TypeOK'
    BY <2>8 DEF Refuse, Becomes, DealtWith
  <2>9. ASSUME NEW e \in Endpoint, NEW r \in Rec, Write(e, r) PROVE TypeOK'
    BY <2>9 DEF Write
  <2>10. ASSUME NEW e \in Endpoint, NEW r \in Rec, MarkWritten(e, r) PROVE TypeOK'
    BY <2>10 DEF MarkWritten, Becomes, DealtWith
  <2>11. ASSUME NEW e \in Endpoint, NEW r \in Rec, MarkFailed(e, r) PROVE TypeOK'
    BY <2>11 DEF MarkFailed, Becomes, DealtWith
  <2>12. ASSUME NEW e \in Endpoint, NEW r \in Rec, Verify(e, r) PROVE TypeOK'
    BY <2>12 DEF Verify
  <2>13. ASSUME NEW e \in Endpoint, SaveVerdict(e) PROVE TypeOK'
    <3>1. verdict[e].rec \in Rec /\ verdict[e].to \in {"verified", "failed"}
      BY <2>13 DEF SaveVerdict
    <3> QED
      BY <2>13, <3>1 DEF SaveVerdict, Becomes
  <2>14. ASSUME NEW e \in Endpoint, Cut(e) PROVE TypeOK'
    BY <2>14 DEF Cut
  <2>15. CASE UNCHANGED vars
    BY <2>15 DEF vars
  <2> QED
    BY <2>1, <2>2, <2>3, <2>4, <2>5, <2>6, <2>7, <2>8, <2>9, <2>10, <2>11,
       <2>12, <2>13, <2>14, <2>15 DEF Next, Request, Round
<1> QED
  BY <1>1, <1>2, PTL DEF Spec

-----------------------------------------------------------------------------
(* Where one transaction is open at a time, nobody else's is, and what it  *)
(* looked at is as it was.                                                 *)
AsRead ==
  /\ \A p \in Person : asked[p] # None =>
       /\ \A q \in Person : asked[q] # None => q = p
       /\ \A e \in Endpoint : verdict[e] = None
       /\ asked[p].to = "proposed" => MayPropose(asked[p].rec)
       /\ asked[p].to = "approved" => MayApprove(asked[p].rec)
       /\ asked[p].to = "rejected" => MayReject(asked[p].rec)
  /\ \A e \in Endpoint : verdict[e] # None =>
       /\ \A f \in Endpoint : verdict[f] # None => f = e
       /\ status[verdict[e].rec] = "written"

LEMMA ReadIsCurrent == ASSUME Serial PROVE Spec => []AsRead
<1>1. Init => AsRead
  BY DEF Init, AsRead
<1>2. TypeOK /\ AsRead /\ [Next]_vars => AsRead'
  <2> SUFFICES ASSUME TypeOK, AsRead, [Next]_vars PROVE AsRead'
    OBVIOUS
  <2> USE Serial DEF TypeOK, AsRead, loop, txns, MayBegin, NoneOpen
  <2> USE DEF MayPropose, MayApprove, MayReject
  <2>1. ASSUME NoneOpen, UNCHANGED asked, UNCHANGED verdict PROVE AsRead'
    BY <2>1
  <2>2. ASSUME NEW p \in Person, NEW r \in Rec,
               Propose(p, r) \/ Approve(p, r) \/ Reject(p, r)
        PROVE  AsRead'
    <3>1. /\ NoneOpen /\ UNCHANGED <<status, verdict>>
          /\ \E s \in {"proposed", "approved", "rejected"} :
               /\ asked' = [asked EXCEPT ![p] = [rec |-> r, to |-> s]]
               /\ s = "proposed" => MayPropose(r)
               /\ s = "approved" => MayApprove(r)
               /\ s = "rejected" => MayReject(r)
      BY <2>2 DEF Propose, Approve, Reject, Asks
    <3> QED
      BY <3>1
  <2>3. ASSUME NEW p \in Person, Save(p) \/ Rollback(p) PROVE AsRead'
    <3>1. asked[p] # None /\ asked' = [asked EXCEPT ![p] = None] /\ UNCHANGED verdict
      BY <2>3 DEF Save, Rollback
    <3>2. NoneOpen'
      BY <3>1
    <3> QED
      BY <3>2
  <2>4. ASSUME NEW e \in Endpoint, NEW r \in Rec,
               Refuse(e, r) \/ MarkWritten(e, r) \/ MarkFailed(e, r)
        PROVE  AsRead'
    BY <2>1, <2>4 DEF Refuse, MarkWritten, MarkFailed
  <2>5. ASSUME NEW e \in Endpoint, NEW r \in Rec, Verify(e, r) PROVE AsRead'
    <3>1. NoneOpen /\ UNCHANGED <<status, asked>>
      BY <2>5 DEF Verify
    <3>2. CASE UNCHANGED verdict
      BY <2>1, <3>1, <3>2
    <3>3. CASE /\ status[r] = "written"
               /\ \E s \in {"verified", "failed"} :
                    verdict' = [verdict EXCEPT ![e] = [rec |-> r, to |-> s]]
      BY <3>1, <3>3
    <3> QED
      BY <2>5, <3>2, <3>3 DEF Verify
  <2>6. ASSUME NEW e \in Endpoint, SaveVerdict(e) PROVE AsRead'
    <3>1. verdict[e] # None /\ verdict' = [verdict EXCEPT ![e] = None] /\ UNCHANGED asked
      BY <2>6 DEF SaveVerdict
    <3>2. NoneOpen'
      BY <3>1
    <3> QED
      BY <3>2
  <2>7. ASSUME NEW e \in Endpoint, Cut(e) PROVE AsRead'
    BY <2>7 DEF Cut
  <2>8. CASE UNCHANGED <<status, asked, verdict>>
    BY <2>8
  <2> QED
    BY <2>2, <2>3, <2>4, <2>5, <2>6, <2>7, <2>8
    DEF Next, Request, Round, Ripen, Poll, StartVerifying, Sleep, Write, vars
<1> QED
  BY <1>1, <1>2, TypeCorrect, PTL DEF Spec

-----------------------------------------------------------------------------
(* With one transaction at a time, no setpoint ever has two recommendations*)
(* that wait for a person or for the agent, whatever the loops of any      *)
(* number of endpoints do: all they record takes one out of the queue.     *)
THEOREM OneQueuedAlways == ASSUME Serial PROVE Spec => []OneQueued
<1>1. Init => OneQueued
  BY DEF Init, OneQueued
<1>2. TypeOK /\ AsRead /\ OneQueued /\ [Next]_vars => OneQueued'
  <2> SUFFICES ASSUME TypeOK, AsRead, OneQueued, [Next]_vars PROVE OneQueued'
    OBVIOUS
  <2> DEFINE Queued(s) == s \in {"proposed", "approved"}
  <2>1. ASSUME \A q \in Rec : Queued(status'[q]) => Queued(status[q])
        PROVE  OneQueued'
    BY <2>1 DEF OneQueued
  <2>2. ASSUME NEW p \in Person, Save(p) PROVE OneQueued'
    <3> DEFINE r == asked[p].rec
    <3>1. r \in Rec /\ status' = [status EXCEPT ![r] = asked[p].to]
          /\ asked[p].to \in {"proposed", "approved", "rejected"}
      BY <2>2 DEF Save, Becomes, TypeOK
    <3>2. CASE asked[p].to = "proposed"
      <4>1. \A q \in Rec \ {r} : status'[q] = status[q]
        BY <3>1 DEF TypeOK
      <4>2. \A q \in Rec \ {r} : TagOf[q] = TagOf[r] => ~Queued(status'[q])
        BY <2>2, <3>1, <3>2, <4>1 DEF Save, AsRead, MayPropose, Open
      <4> QED
        BY <3>1, <4>1, <4>2 DEF OneQueued
    <3>3. CASE asked[p].to # "proposed"
      <4>1. asked[p].to = "approved" => status[r] = "proposed"
        BY <2>2, <3>1 DEF Save, AsRead, MayApprove
      <4> QED
        BY <2>1, <3>1, <3>3, <4>1 DEF TypeOK
    <3> QED
      BY <3>2, <3>3
  <2>3. ASSUME NEW e \in Endpoint, NEW r \in Rec,
               Refuse(e, r) \/ MarkWritten(e, r) \/ MarkFailed(e, r)
        PROVE  OneQueued'
    BY <2>1, <2>3 DEF Refuse, MarkWritten, MarkFailed, Becomes, TypeOK
  <2>4. ASSUME NEW e \in Endpoint, SaveVerdict(e) PROVE OneQueued'
    BY <2>1, <2>4 DEF SaveVerdict, Becomes, TypeOK
  <2>5. CASE UNCHANGED status
    BY <2>1, <2>5
  <2> QED
    BY <2>2, <2>3, <2>4, <2>5
    DEF Next, Request, Propose, Approve, Reject, Asks, Rollback, Round, Ripen, Poll,
        StartVerifying, Sleep, Verify, Write, Cut, vars, loop
<1> QED
  BY <1>1, <1>2, TypeCorrect, ReadIsCurrent, PTL DEF Spec

-----------------------------------------------------------------------------
(* How often a machine is given a recommendation, whatever the loops of    *)
(* any number of endpoints do. Only the endpoint that has the node writes  *)
(* it. A row that endpoint may still write has been written at most once   *)
(* in every round that was cut; while it has the row in hand, or once the  *)
(* row is done with, the write of the last round comes on top.             *)

Owner(r) == EndpointOf[TagOf[r]]

InHand(r) == step[Owner(r)] \in {"wrote", "erred"} /\ Current(Owner(r), r)

MayBeWritten(r) ==
  /\ ~InHand(r)
  /\ status[r] \in {"none", "proposed", "approved"} \/ r \in due[Owner(r)]

Tallied ==
  \A r \in Rec :
    /\ wrote[r] <= 1 + cuts
    /\ MayBeWritten(r) => wrote[r] <= cuts

(* A machine is given a recommendation again only if a round that did it   *)
(* was cut before it could be recorded, where no transaction comes between *)
(* an approval's look at the row and its commit.                           *)
THEOREM NeverWrittenAgain == ASSUME Serial PROVE Spec => []WrittenAgainOnlyAfterCut
<1>1. Init => Tallied
  <2> SUFFICES ASSUME Init, NEW r \in Rec PROVE wrote[r] <= 1 + cuts /\ wrote[r] <= cuts
    BY DEF Tallied
  <2>1. wrote[r] = 0 /\ cuts = 0
    BY DEF Init
  <2> QED
    BY <2>1
<1>2. TypeOK /\ AsRead /\ Tallied /\ [Next]_vars => Tallied'
  <2> SUFFICES ASSUME TypeOK, AsRead, Tallied, [Next]_vars PROVE Tallied'
    OBVIOUS
  <2> USE RecAssumption, EndpointAssumption
  <2>1. \A r \in Rec : wrote[r] \in Nat /\ cuts \in Nat /\ Owner(r) \in Endpoint /\ r \in Nat
    BY DEF TypeOK, Owner
  <2>2. ASSUME UNCHANGED <<wrote, cuts>>,
               \A r \in Rec : MayBeWritten(r)' => MayBeWritten(r)
        PROVE  Tallied'
    BY <2>1, <2>2 DEF Tallied
  <2>3. ASSUME NEW p \in Person, Save(p) PROVE Tallied'
    <3>1. UNCHANGED <<wrote, cuts, step, due>>
      BY <2>3 DEF Save, loop
    <3>2. asked[p].rec \in Rec /\ asked[p].to \in {"proposed", "approved", "rejected"}
          /\ status[asked[p].rec] \in {"none", "proposed", "approved"}
      BY <2>3 DEF Save, AsRead, MayPropose, MayApprove, MayReject, TypeOK
    <3>3. \A q \in Rec : status'[q] = status[q] \/ status[q] \in {"none", "proposed", "approved"}
      BY <2>3, <3>2 DEF Save, Becomes, TypeOK
    <3> QED
      BY <2>2, <3>1, <3>3 DEF MayBeWritten, InHand, Current, Owner
  <2>4. ASSUME NEW e \in Endpoint, NEW r \in Rec,
               Refuse(e, r) \/ MarkWritten(e, r) \/ MarkFailed(e, r)
        PROVE  Tallied'
    <3>1. /\ UNCHANGED <<wrote, cuts>>
          /\ Current(e, r)
          /\ due' = [due EXCEPT ![e] = @ \ {r}]
          /\ status'[r] \in {"written", "failed"}
          /\ \A q \in Rec \ {r} : status'[q] = status[q]
          /\ step'[e] = "write"
          /\ \A f \in Endpoint \ {e} : step'[f] = step[f]
      BY <2>4 DEF Refuse, MarkWritten, MarkFailed, Becomes, DealtWith, TypeOK
    <3>2. ASSUME NEW q \in Rec, MayBeWritten(q)' PROVE MayBeWritten(q)
      <4>1. CASE q = r
        <5>1. r \in due'[Owner(r)] /\ ~InHand(r)'
          BY <3>1, <3>2, <4>1 DEF MayBeWritten, Owner
        <5>2. Owner(r) # e
          BY <3>1, <5>1, <2>1 DEF TypeOK
        <5>3. due'[Owner(r)] = due[Owner(r)] /\ step'[Owner(r)] = step[Owner(r)]
          BY <3>1, <5>2, <2>1 DEF TypeOK
        <5> QED
          BY <4>1, <5>1, <5>3 DEF MayBeWritten, InHand, Current, Owner
      <4>2. CASE q # r /\ Owner(q) = e
        <5>1. ~InHand(q)
          BY <3>1, <4>2, <2>1 DEF InHand, Current, TypeOK
        <5>2. status'[q] = status[q] /\ (q \in due'[e] => q \in due[e])
          BY <3>1, <4>2 DEF TypeOK
        <5> QED
          BY <3>2, <4>2, <5>1, <5>2 DEF MayBeWritten, Owner
      <4>3. CASE q # r /\ Owner(q) # e
        <5>1. due'[Owner(q)] = due[Owner(q)] /\ step'[Owner(q)] = step[Owner(q)]
          BY <3>1, <4>3, <2>1 DEF TypeOK
        <5> QED
          BY <3>1, <3>2, <4>3, <5>1 DEF MayBeWritten, InHand, Current, Owner
      <4> QED
        BY <4>1, <4>2, <4>3
    <3> QED
      BY <2>2, <3>1, <3>2
  <2>5. ASSUME NEW e \in Endpoint, NEW r \in Rec, Write(e, r) PROVE Tallied'
    <3>1. /\ step[e] = "write" /\ Current(e, r) /\ Owner(r) = e
          /\ step'[e] \in {"wrote", "erred"}
          /\ \A f \in Endpoint \ {e} : step'[f] = step[f]
          /\ UNCHANGED <<status, due, cuts>>
      BY <2>5 DEF Write, Mine, Owner, TypeOK
    <3>2. /\ wrote'[r] \in {wrote[r], wrote[r] + 1}
          /\ \A q \in Rec \ {r} : wrote'[q] = wrote[q]
      BY <2>5 DEF Write, TypeOK
    <3>3. MayBeWritten(r)
      BY <3>1 DEF MayBeWritten, InHand, Current
    <3>4. ~MayBeWritten(r)'
      BY <3>1 DEF MayBeWritten, InHand, Current, Owner
    <3>5. wrote'[r] <= 1 + cuts'
      <4> DEFINE before == wrote[r]
                 after == wrote'[r]
      <4>1. before \in Nat /\ cuts \in Nat /\ cuts' = cuts /\ after \in {before, before + 1}
        BY <3>1, <3>2, <2>1
      <4>2. before <= cuts
        BY <3>3 DEF Tallied
      <4> HIDE DEF before, after
      <4>3. after <= 1 + cuts'
        BY <4>1, <4>2
      <4> QED
        BY <4>3 DEF after
    <3>6. ASSUME NEW q \in Rec \ {r}, MayBeWritten(q)' PROVE MayBeWritten(q)
      <4>1. CASE Owner(q) = e
        BY <3>1, <3>6, <4>1 DEF MayBeWritten, InHand, Owner
      <4>2. CASE Owner(q) # e
        <5>1. step'[Owner(q)] = step[Owner(q)]
          BY <3>1, <4>2, <2>1
        <5> QED
          BY <3>1, <3>6, <5>1 DEF MayBeWritten, InHand, Current, Owner
      <4> QED
        BY <4>1, <4>2
    <3> QED
      BY <3>1, <3>2, <3>4, <3>5, <3>6 DEF Tallied
  <2>6. ASSUME NEW e \in Endpoint, Poll(e) PROVE Tallied'
    <3>1. /\ UNCHANGED <<status, wrote, cuts>>
          /\ step[e] = "sleep"
          /\ due' = [due EXCEPT ![e] = Having("approved")]
          /\ \A f \in Endpoint \ {e} : step'[f] = step[f]
      BY <2>6 DEF Poll, TypeOK
    <3>2. ASSUME NEW q \in Rec, MayBeWritten(q)' PROVE MayBeWritten(q)
      <4>1. CASE Owner(q) = e
        <5>1. q \in due'[e] => status[q] = "approved"
          BY <3>1 DEF Having, TypeOK
        <5> QED
          BY <3>1, <3>2, <4>1, <5>1 DEF MayBeWritten, InHand, Owner
      <4>2. CASE Owner(q) # e
        <5>1. step'[Owner(q)] = step[Owner(q)] /\ due'[Owner(q)] = due[Owner(q)]
          BY <3>1, <4>2, <2>1 DEF TypeOK
        <5> QED
          BY <3>1, <3>2, <5>1 DEF MayBeWritten, InHand, Current, Owner
      <4> QED
        BY <4>1, <4>2
    <3> QED
      BY <2>2, <3>1, <3>2
  <2>7. ASSUME NEW e \in Endpoint, SaveVerdict(e) PROVE Tallied'
    <3>1. UNCHANGED <<due, step, wrote, cuts>>
      BY <2>7 DEF SaveVerdict
    <3>2. \A q \in Rec : status'[q] = status[q] \/ status'[q] \in {"verified", "failed"}
      BY <2>7 DEF SaveVerdict, Becomes, TypeOK
    <3> QED
      BY <2>2, <3>1, <3>2 DEF MayBeWritten, InHand, Current, Owner
  <2>8. ASSUME NEW e \in Endpoint,
               StartVerifying(e) \/ Sleep(e) \/ \E r \in Rec : Verify(e, r)
        PROVE  Tallied'
    <3>1. /\ UNCHANGED <<status, due, wrote, cuts>>
          /\ step[e] \in {"write", "verify"}
          /\ \A f \in Endpoint \ {e} : step'[f] = step[f]
      BY <2>8 DEF StartVerifying, Sleep, Verify, TypeOK
    <3>2. \A q \in Rec : InHand(q) => InHand(q)'
      BY <3>1, <2>1 DEF InHand, Current, Owner
    <3> QED
      BY <2>2, <3>1, <3>2 DEF MayBeWritten, Owner
  <2>9. ASSUME NEW e \in Endpoint, Cut(e) PROVE Tallied'
    <3>1. UNCHANGED wrote /\ cuts' = cuts + 1
      BY <2>9 DEF Cut
    <3> QED
      BY <3>1, <2>1 DEF Tallied
  <2>10. CASE UNCHANGED <<status, due, step, wrote, cuts>>
    BY <2>2, <2>10 DEF MayBeWritten, InHand, Current, Owner
  <2> QED
    BY <2>3, <2>4, <2>5, <2>6, <2>7, <2>8, <2>9, <2>10
    DEF Next, Request, Propose, Approve, Reject, Asks, Rollback, Round, Ripen, vars, loop, txns
<1>3. Tallied => WrittenAgainOnlyAfterCut
  BY DEF Tallied, WrittenAgainOnlyAfterCut
<1> QED
  BY <1>1, <1>2, <1>3, TypeCorrect, ReadIsCurrent, PTL DEF Spec

-----------------------------------------------------------------------------
(* A reader of one endpoint. What its loop has read as approved is that or *)
(* rejected, and what it is about to conclude is what it was to verify.    *)
(* With two endpoints the other loop records what it likes of the same     *)
(* rows.                                                                   *)

OneEndpoint == \A e, f \in Endpoint : e = f

ReadApproved ==
  \A e \in Endpoint : \A r \in due[e] : status[r] \in {"approved", "rejected"}

InStep ==
  \A e \in Endpoint :
    /\ due[e] # {} => step[e] \in {"write", "wrote", "erred"}
    /\ check[e] # {} => step[e] = "verify"
    /\ verdict[e] # None => step[e] = "verify" /\ verdict[e].rec \in check[e]

LoopInv == TypeOK /\ ReadApproved /\ InStep

(* The round of the only endpoint follows the rows it read, however other  *)
(* people's requests overlap: none of them can make an approved row        *)
(* anything but approved or rejected.                                      *)
THEOREM LoopInvariant == ASSUME OneEndpoint PROVE Spec => []LoopInv
<1>1. Init => LoopInv
  BY DEF Init, LoopInv, TypeOK, ReadApproved, InStep
<1>2. LoopInv /\ TypeOK' /\ [Next]_vars => LoopInv'
  <2> SUFFICES ASSUME LoopInv, TypeOK', [Next]_vars PROVE (ReadApproved /\ InStep)'
    BY DEF LoopInv
  <2> USE DEF LoopInv, TypeOK, ReadApproved, InStep, loop, txns
  <2> DEFINE Goal == (ReadApproved /\ InStep)'
  <2>1. ASSUME NEW p \in Person, Save(p) PROVE Goal
    <3>1. /\ asked[p].to \in {"proposed", "approved", "rejected"}
          /\ asked[p].to = "proposed" => status[asked[p].rec] = "none"
          /\ status' = [status EXCEPT ![asked[p].rec] = asked[p].to]
          /\ UNCHANGED <<loop, verdict>>
      BY <2>1 DEF Save, Becomes
    <3> QED
      BY <3>1
  <2>2. ASSUME NEW e \in Endpoint, Poll(e) PROVE Goal
    BY <2>2 DEF Poll, Having
  <2>3. ASSUME NEW e \in Endpoint, StartVerifying(e) PROVE Goal
    BY <2>3 DEF StartVerifying
  <2>4. ASSUME NEW e \in Endpoint, Sleep(e) PROVE Goal
    <3>1. verdict[e] = None
      BY <2>4 DEF Sleep
    <3> QED
      BY <2>4, <3>1 DEF Sleep
  <2>5. ASSUME NEW e \in Endpoint, NEW r \in Rec, Refuse(e, r) PROVE Goal
    BY <2>5, OneEndpoint DEF Refuse, Current, Becomes, DealtWith, OneEndpoint
  <2>6. ASSUME NEW e \in Endpoint, NEW r \in Rec, Write(e, r) PROVE Goal
    BY <2>6 DEF Write
  <2>7. ASSUME NEW e \in Endpoint, NEW r \in Rec, MarkWritten(e, r) PROVE Goal
    BY <2>7, OneEndpoint DEF MarkWritten, Current, Becomes, DealtWith, OneEndpoint
  <2>8. ASSUME NEW e \in Endpoint, NEW r \in Rec, MarkFailed(e, r) PROVE Goal
    BY <2>8, OneEndpoint DEF MarkFailed, Current, Becomes, DealtWith, OneEndpoint
  <2>9. ASSUME NEW e \in Endpoint, NEW r \in Rec, Verify(e, r) PROVE Goal
    BY <2>9 DEF Verify
  <2>10. ASSUME NEW e \in Endpoint, SaveVerdict(e) PROVE Goal
    BY <2>10, OneEndpoint DEF SaveVerdict, Becomes, OneEndpoint
  <2>11. ASSUME NEW e \in Endpoint, Cut(e) PROVE Goal
    BY <2>11 DEF Cut
  <2>12. CASE UNCHANGED <<status, due, check, step, verdict>>
    BY <2>12
  <2> QED
    BY <2>1, <2>2, <2>3, <2>4, <2>5, <2>6, <2>7, <2>8, <2>9, <2>10, <2>11, <2>12
    DEF Next, Request, Propose, Approve, Reject, Asks, Rollback, Round, Ripen, vars
<1>3. Init => TypeOK
  BY <1>1 DEF LoopInv
<1> QED
  BY <1>1, <1>2, TypeCorrect, PTL DEF Spec

(* With one endpoint and one transaction at a time, whatever a round       *)
(* concluded stands: mark_written and mark_failed ask nothing, and can     *)
(* still overrule only a rejection that came after their round had read    *)
(* the row as approved.                                                    *)
THEOREM ConclusionsStand == ASSUME Serial, OneEndpoint PROVE Spec => ClosedStays
<1> DEFINE Stays ==
      \A r \in Rec :
        status[r] \in Closed /\ status'[r] # status[r] =>
          status[r] = "rejected" /\ \E e \in Endpoint : r \in due[e]
<1>1. LoopInv /\ AsRead /\ [Next]_vars => Stays
  <2> SUFFICES ASSUME LoopInv, AsRead, [Next]_vars PROVE Stays
    OBVIOUS
  <2> USE DEF LoopInv, TypeOK, Closed
  <2>1. ASSUME NEW p \in Person, Save(p) PROVE Stays
    <3>1. /\ asked[p].to \in {"proposed", "approved", "rejected"}
          /\ status[asked[p].rec] \in {"none", "proposed", "approved"}
          /\ status' = [status EXCEPT ![asked[p].rec] = asked[p].to]
      BY <2>1 DEF Save, Becomes, AsRead, MayPropose, MayApprove, MayReject
    <3> QED
      BY <3>1
  <2>2. ASSUME NEW e \in Endpoint, NEW r \in Rec,
               Refuse(e, r) \/ MarkWritten(e, r) \/ MarkFailed(e, r)
        PROVE  Stays
    BY <2>2 DEF Refuse, MarkWritten, MarkFailed, Current, Becomes, ReadApproved
  <2>3. ASSUME NEW e \in Endpoint, SaveVerdict(e) PROVE Stays
    BY <2>3 DEF SaveVerdict, Becomes, AsRead
  <2>4. CASE UNCHANGED status
    BY <2>4
  <2> QED
    BY <2>1, <2>2, <2>3, <2>4
    DEF Next, Request, Propose, Approve, Reject, Asks, Rollback, Round, Ripen, Poll,
        StartVerifying, Sleep, Verify, Write, Cut, vars, loop
<1>2. LoopInv /\ AsRead /\ [Next]_vars => [Stays]_vars
  BY <1>1
<1> QED
  BY <1>2, LoopInvariant, ReadIsCurrent, PTL DEF Spec, ClosedStays

(* With one endpoint, a machine is given a recommendation only while it is *)
(* approved, or when it was at the start of the round that gives it, even  *)
(* where the requests that decide it overlap.                              *)
THEOREM OnlyApprovedIsWritten == ASSUME OneEndpoint PROVE Spec => WrittenWasApproved
<1> DEFINE Given ==
      \A r \in Rec :
        wrote'[r] # wrote[r] =>
          \/ status[r] = "approved"
          \/ status[r] = "rejected" /\ \E e \in Endpoint : r \in due[e]
<1>1. LoopInv /\ [Next]_vars => Given
  <2> SUFFICES ASSUME LoopInv, [Next]_vars PROVE Given
    OBVIOUS
  <2>1. ASSUME NEW e \in Endpoint, NEW r \in Rec, Write(e, r) PROVE Given
    BY <2>1 DEF Write, Current, LoopInv, ReadApproved, TypeOK
  <2>2. CASE UNCHANGED wrote
    BY <2>2
  <2> QED
    BY <2>1, <2>2
    DEF Next, Request, Propose, Approve, Reject, Asks, Save, Rollback, Round, Ripen, Poll,
        StartVerifying, Sleep, Refuse, MarkWritten, MarkFailed, Verify, SaveVerdict, Cut,
        vars, loop
<1>2. LoopInv /\ [Next]_vars => [Given]_vars
  BY <1>1
<1> QED
  BY <1>2, LoopInvariant, PTL DEF Spec, WrittenWasApproved
=============================================================================
