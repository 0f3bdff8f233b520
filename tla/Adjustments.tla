----------------------------- MODULE Adjustments -----------------------------
(***************************************************************************)
(* Recommended adjustments, the only way the MES writes to a machine: the  *)
(* rows people propose, approve and reject, and the loop of every endpoint *)
(* the reader is connected to, which reads the approved rows, writes them  *)
(* to its machines, records it, and later verifies that the process moved. *)
(*                                                                         *)
(* A loop reads in one transaction, waits for the machine, and records in  *)
(* another; people and the other endpoints' loops come in between. Values  *)
(* and bounds are abstract: what matters is which row a write belongs to.  *)
(*                                                                         *)
(* Propose, approve, reject and verify look at the status before they set  *)
(* it, and nothing locks the row they looked at. On SQLite one transaction *)
(* is open at a time (Serial, as in WorkOrders); on PostgreSQL others      *)
(* commit between the looking and the saving.                              *)
(***************************************************************************)
EXTENDS Integers

CONSTANTS
  Rec,         \* recommendations, numbered as _next_code does
  Tag,         \* setpoints
  TagOf,       \* the setpoint of each recommendation
  Endpoint,    \* the endpoints the reader runs a loop for
  EndpointOf,  \* the endpoint that has the node of each setpoint
  Fits,        \* recommendations inside the agent's own bounds
  Person,      \* people and analyses whose requests may be under way at once
  Serial,      \* TRUE: one transaction is open at a time
  None,
  MaxCuts      \* bound: loops that fail or lose their connection

ASSUME RecAssumption == Rec \subseteq Nat /\ TagOf \in [Rec -> Tag] /\ Fits \subseteq Rec
ASSUME EndpointAssumption == EndpointOf \in [Tag -> Endpoint]
ASSUME NoneAssumption == None \notin [rec : Rec, to : STRING]
ASSUME BoundAssumption == Serial \in BOOLEAN /\ MaxCuts \in Nat

VARIABLES
  status,  \* of each recommendation; "none" before it is proposed
  ripe,    \* written long enough ago to be verified
  due,     \* what each loop read as approved and has not dealt with
  check,   \* what each loop read as due for verification
  step,    \* where each loop is
  asked,   \* what each person's request has found it may make of which row
  verdict, \* what each loop's verification has
  wrote,   \* times the machine has been given each recommendation
  cuts

loop == <<due, check, step>>
txns == <<asked, verdict>>
vars == <<status, ripe, loop, txns, wrote, cuts>>

Open == {"proposed", "approved", "written"}
Closed == {"rejected", "verified", "failed"}

TypeOK ==
  /\ status \in [Rec -> {"none"} \cup Open \cup Closed]
  /\ ripe \subseteq Rec
  /\ due \in [Endpoint -> SUBSET Rec]
  /\ check \in [Endpoint -> SUBSET Rec]
  /\ step \in [Endpoint -> {"sleep", "write", "wrote", "erred", "verify"}]
  /\ asked \in [Person -> [rec : Rec, to : {"proposed", "approved", "rejected"}] \cup {None}]
  /\ verdict \in [Endpoint -> [rec : Rec, to : {"verified", "failed"}] \cup {None}]
  /\ wrote \in [Rec -> Nat]
  /\ cuts \in Nat

Init ==
  /\ status = [r \in Rec |-> "none"]
  /\ ripe = {}
  /\ due = [e \in Endpoint |-> {}]
  /\ check = [e \in Endpoint |-> {}]
  /\ step = [e \in Endpoint |-> "sleep"]
  /\ asked = [p \in Person |-> None]
  /\ verdict = [e \in Endpoint |-> None]
  /\ wrote = [r \in Rec |-> 0]
  /\ cuts = 0

Having(s) == {r \in Rec : status[r] = s}

Becomes(r, s) == status' = [status EXCEPT ![r] = s]

NoneOpen == (\A p \in Person : asked[p] = None) /\ (\A e \in Endpoint : verdict[e] = None)

\* A transaction that writes may begin: on SQLite, BEGIN IMMEDIATE.
MayBegin == Serial => NoneOpen

-----------------------------------------------------------------------------
(* People, and the analyses that propose *)

Asks(p, r, s) ==
  /\ asked[p] = None /\ MayBegin
  /\ asked' = [asked EXCEPT ![p] = [rec |-> r, to |-> s]]
  /\ UNCHANGED <<status, ripe, loop, verdict, wrote, cuts>>

\* A setpoint has one open recommendation at a time.
MayPropose(r) ==
  /\ status[r] = "none"
  /\ \A q \in Rec : TagOf[q] = TagOf[r] => status[q] \notin Open

\* Mutant of Propose: nobody asks what is open on the setpoint already.
ProposeAgain(p, r) == status[r] = "none" /\ Asks(p, r, "proposed")

Propose(p, r) == MayPropose(r) /\ Asks(p, r, "proposed")

MayApprove(r) == status[r] = "proposed"

Approve(p, r) == MayApprove(r) /\ Asks(p, r, "approved")

\* Also of a row that a loop has read as approved and is about to write.
MayReject(r) == status[r] \in {"proposed", "approved"}

\* Mutant of Reject: a status the column does not know.
RejectWithdrawn(p, r) == MayReject(r) /\ Asks(p, r, "withdrawn")

Reject(p, r) == MayReject(r) /\ Asks(p, r, "rejected")

\* The request commits: an UPDATE by id, whatever the row says by now, or an
\* INSERT under the next code, which is unique.
Save(p) ==
  /\ asked[p] # None
  /\ LET r == asked[p].rec
         s == asked[p].to
     IN /\ s = "proposed" => status[r] = "none" /\ \A q \in Rec : q < r => status[q] # "none"
        /\ Becomes(r, s)
  /\ asked' = [asked EXCEPT ![p] = None]
  /\ UNCHANGED <<ripe, loop, verdict, wrote, cuts>>

\* It fails: its code is taken, its bounds do not hold, or its process dies.
Rollback(p) ==
  /\ asked[p] # None
  /\ asked' = [asked EXCEPT ![p] = None]
  /\ UNCHANGED <<status, ripe, loop, verdict, wrote, cuts>>

-----------------------------------------------------------------------------
(* One endpoint's _adjustment_loop *)

\* Mutant of Poll: what nobody has decided yet is read too.
PollUndecided(e) ==
  /\ step[e] = "sleep"
  /\ step' = [step EXCEPT ![e] = "write"]
  /\ due' = [due EXCEPT ![e] = Having("approved") \cup Having("proposed")]
  /\ UNCHANGED <<status, ripe, check, txns, wrote, cuts>>

\* approved_writes: the rows as they are now, in the order of their ids.
Poll(e) ==
  /\ step[e] = "sleep"
  /\ step' = [step EXCEPT ![e] = "write"]
  /\ due' = [due EXCEPT ![e] = Having("approved")]
  /\ UNCHANGED <<status, ripe, check, txns, wrote, cuts>>

Current(e, r) == r \in due[e] /\ \A q \in due[e] : r <= q

\* The endpoint has the node, and the value is inside the agent's own bounds.
Mine(e, r) == EndpointOf[TagOf[r]] = e /\ r \in Fits

DealtWith(e, r) == due' = [due EXCEPT ![e] = @ \ {r}]

Refuse(e, r) ==
  /\ step[e] = "write" /\ Current(e, r) /\ ~Mine(e, r) /\ MayBegin
  /\ Becomes(r, "failed")
  /\ DealtWith(e, r)
  /\ UNCHANGED <<ripe, check, step, txns, wrote, cuts>>

\* write_node: done, or raised with or without having reached the machine.
Write(e, r) ==
  /\ step[e] = "write" /\ Current(e, r) /\ Mine(e, r)
  /\ \/ step' = [step EXCEPT ![e] = "wrote"] /\ wrote' = [wrote EXCEPT ![r] = @ + 1]
     \/ /\ step' = [step EXCEPT ![e] = "erred"]
        /\ wrote' \in {wrote, [wrote EXCEPT ![r] = @ + 1]}
  /\ UNCHANGED <<status, ripe, due, check, txns, cuts>>

\* Mutant of MarkWritten: nothing is recorded of a write that went well.
MarkNothing(e, r) ==
  /\ step[e] = "wrote" /\ Current(e, r)
  /\ step' = [step EXCEPT ![e] = "write"]
  /\ DealtWith(e, r)
  /\ UNCHANGED <<status, ripe, check, txns, wrote, cuts>>

\* Whatever the row says by now, it says "written" from here on.
MarkWritten(e, r) ==
  /\ step[e] = "wrote" /\ Current(e, r) /\ MayBegin
  /\ Becomes(r, "written")
  /\ ripe' = ripe \ {r}
  /\ step' = [step EXCEPT ![e] = "write"]
  /\ DealtWith(e, r)
  /\ UNCHANGED <<check, txns, wrote, cuts>>

\* Mutant of MarkFailed: the loop does not go on to the next row.
MarkFailedAndWritten(e, r) ==
  /\ step[e] = "erred" /\ Current(e, r) /\ MayBegin
  /\ Becomes(r, "failed")
  /\ step' = [step EXCEPT ![e] = "wrote"]
  /\ UNCHANGED <<ripe, due, check, txns, wrote, cuts>>

MarkFailed(e, r) ==
  /\ step[e] = "erred" /\ Current(e, r) /\ MayBegin
  /\ Becomes(r, "failed")
  /\ step' = [step EXCEPT ![e] = "write"]
  /\ DealtWith(e, r)
  /\ UNCHANGED <<ripe, check, txns, wrote, cuts>>

\* due_for_verification, once every approved row is dealt with.
StartVerifying(e) ==
  /\ step[e] = "write" /\ due[e] = {}
  /\ step' = [step EXCEPT ![e] = "verify"]
  /\ check' = [check EXCEPT ![e] = ripe \cap Having("written")]
  /\ UNCHANGED <<status, ripe, due, txns, wrote, cuts>>

\* Mutant of Verify: a process that did not follow is asked again later.
VerifyOnlySuccess(e, r) ==
  /\ step[e] = "verify" /\ r \in check[e] /\ verdict[e] = None /\ MayBegin
  /\ \/ /\ EndpointOf[TagOf[r]] = e
        /\ verdict' = [verdict EXCEPT ![e] = [rec |-> r, to |-> "verified"]]
        /\ UNCHANGED check
     \/ check' = [check EXCEPT ![e] = @ \ {r}] /\ UNCHANGED verdict
  /\ UNCHANGED <<status, ripe, due, step, asked, wrote, cuts>>

\* The process followed or not; without its node nothing can be seen to have
\* followed. A row that is not written any more raises, and the loop starts over.
Verify(e, r) ==
  /\ step[e] = "verify" /\ r \in check[e] /\ verdict[e] = None /\ MayBegin
  /\ IF status[r] = "written"
       THEN /\ \E s \in {"failed"} \cup IF EndpointOf[TagOf[r]] = e THEN {"verified"} ELSE {} :
                 verdict' = [verdict EXCEPT ![e] = [rec |-> r, to |-> s]]
            /\ UNCHANGED <<step, check>>
       ELSE /\ step' = [step EXCEPT ![e] = "sleep"]
            /\ check' = [check EXCEPT ![e] = {}]
            /\ UNCHANGED verdict
  /\ UNCHANGED <<status, ripe, due, asked, wrote, cuts>>

\* It commits, by id again.
SaveVerdict(e) ==
  /\ verdict[e] # None
  /\ Becomes(verdict[e].rec, verdict[e].to)
  /\ check' = [check EXCEPT ![e] = @ \ {verdict[e].rec}]
  /\ verdict' = [verdict EXCEPT ![e] = None]
  /\ UNCHANGED <<ripe, due, step, asked, wrote, cuts>>

Sleep(e) ==
  /\ step[e] = "verify" /\ check[e] = {}
  /\ step' = [step EXCEPT ![e] = "sleep"]
  /\ UNCHANGED <<status, ripe, due, check, txns, wrote, cuts>>

\* A transaction fails, the connection ends or the reader dies: the round is
\* forgotten, and the loop, or the next connection's, starts a new one.
Cut(e) ==
  /\ cuts < MaxCuts
  /\ step[e] # "sleep"
  /\ cuts' = cuts + 1
  /\ step' = [step EXCEPT ![e] = "sleep"]
  /\ due' = [due EXCEPT ![e] = {}]
  /\ check' = [check EXCEPT ![e] = {}]
  /\ verdict' = [verdict EXCEPT ![e] = None]
  /\ UNCHANGED <<status, ripe, asked, wrote>>

\* verify_after_seconds have passed since the row was written.
Ripen(r) ==
  /\ status[r] = "written" /\ r \notin ripe
  /\ ripe' = ripe \cup {r}
  /\ UNCHANGED <<status, loop, txns, wrote, cuts>>

-----------------------------------------------------------------------------
Round(e) ==
  \/ Poll(e) \/ StartVerifying(e) \/ SaveVerdict(e) \/ Sleep(e)
  \/ \E r \in Rec : \/ Refuse(e, r) \/ Write(e, r) \/ MarkWritten(e, r)
                    \/ MarkFailed(e, r) \/ Verify(e, r)

Request(p) ==
  \/ Save(p) \/ Rollback(p)
  \/ \E r \in Rec : Propose(p, r) \/ Approve(p, r) \/ Reject(p, r)

Next ==
  \/ \E p \in Person : Request(p)
  \/ \E e \in Endpoint : Round(e) \/ Cut(e)
  \/ \E r \in Rec : Ripen(r)

Spec == Init /\ [][Next]_vars

(* The loops run and time passes; nobody has to decide anything, but what  *)
(* was asked ends. A loop that waits for the write lock while others take  *)
(* it again and again has it some day: SQLite keeps it waiting, and it     *)
(* comes in between two requests.                                          *)
Fairness ==
  /\ \A e \in Endpoint : SF_vars(Round(e))
  /\ \A p \in Person : WF_vars(Save(p) \/ Rollback(p))
  /\ \A r \in Rec : WF_vars(Ripen(r))

FairSpec == Spec /\ Fairness

-----------------------------------------------------------------------------
(* Properties *)

(* What a round concluded stands, although mark_written and mark_failed do *)
(* not ask what the row says: all they can overrule is a rejection that    *)
(* came after their round had read the row as approved.                    *)
ClosedStays ==
  [][ \A r \in Rec :
        status[r] \in Closed /\ status'[r] # status[r] =>
          status[r] = "rejected" /\ \E e \in Endpoint : r \in due[e] ]_vars

(* "An engineer approves on screen. Only then does the OPC agent write": a *)
(* machine is given a recommendation that is approved, or was when the     *)
(* round began and has been rejected since.                                *)
WrittenWasApproved ==
  [][ \A r \in Rec :
        wrote'[r] # wrote[r] =>
          \/ status[r] = "approved"
          \/ status[r] = "rejected" /\ \E e \in Endpoint : r \in due[e] ]_vars

(* propose: "... is already open on ...; decide it first". No setpoint ever*)
(* has two recommendations that wait for a person or for the agent,        *)
(* whatever was rejected, failed, overruled or cut short.                  *)
OneQueued ==
  \A q, r \in Rec :
    TagOf[q] = TagOf[r] /\ {status[q], status[r]} \subseteq {"proposed", "approved"}
      => q = r

(* A machine is given a recommendation again only if a round that did it   *)
(* was cut before it could be recorded.                                    *)
WrittenAgainOnlyAfterCut == \A r \in Rec : wrote[r] <= 1 + cuts

(* The queue drains: what was approved or written is rejected, verified or *)
(* failed some day, whichever rounds were cut.                             *)
Concludes ==
  \A r \in Rec : status[r] \in {"approved", "written"} ~> status[r] \in Closed
=============================================================================
