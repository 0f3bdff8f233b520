-------------------------------- MODULE Lease --------------------------------
(***************************************************************************)
(* One role of a plant and the nodes that may hold it: the lease row in    *)
(* the plant's database and, in every node, the Holder object that claims  *)
(* it and the loop that runs the role's work while it is held.             *)
(*                                                                         *)
(* Time is the database's clock, the only clock the code compares with.    *)
(* A claim reads it when its transaction begins and compares that value    *)
(* later, so a slow claim decides with an old time; the statements of one  *)
(* claim interleave with the other nodes' as PostgreSQL lets them.         *)
(***************************************************************************)
EXTENDS Integers

CONSTANTS
  Node,        \* the node names of one plant
  NoRow,       \* the table has no row for the role
  LeaseTime,   \* lease_seconds, in clock ticks
  RenewEvery,  \* the holder's sleep between two renewals
  PollEvery,   \* a standby's sleep between two claims
  MaxDelay,    \* how long one claim takes at most, on a timely node
  Timely,      \* TRUE: no node is paused beyond these delays
  MaxClock,    \* bound: the clock stops here
  LastFault    \* bound: no crash, stop or database error after this time

ASSUME TimesAssumption ==
  /\ LeaseTime \in Nat /\ RenewEvery \in Nat /\ PollEvery \in Nat /\ MaxDelay \in Nat
  /\ MaxClock \in Nat /\ LastFault \in Nat
  /\ Timely \in BOOLEAN

(* Two slow claims and one sleep fit in a lease: with lease_seconds / 3    *)
(* between renewals, a claim may take just under a third of a lease.       *)
ASSUME SlackAssumption == RenewEvery + 2 * MaxDelay < LeaseTime

ASSUME NoRowAssumption == NoRow \notin [holder : Node, expires : Nat]

VARIABLES
  now,    \* the database's clock
  row,    \* plant_leases' row of the role
  held,   \* Holder._held, what every write gate of the node asks
  phase,  \* where run_while_held is, and how its process last ended
  ask,    \* the claim in flight: which statement comes next, or its answer
  asked,  \* the clock the claim in flight read, 0 when there is none
  wake    \* when the loop's sleep ends, or a process that went may be back

vars == <<now, row, held, phase, ask, asked, wake>>

Row == [holder : Node, expires : Nat]

TypeOK ==
  /\ now \in Nat
  /\ row \in Row \cup {NoRow}
  /\ held \in [Node -> BOOLEAN]
  /\ phase \in [Node -> {"standby", "work", "ended", "stopped", "down"}]
  /\ ask \in [Node -> {"idle", "update", "select", "insert", "yes", "no"}]
  /\ asked \in [Node -> Nat]
  /\ wake \in [Node -> Nat]

Init ==
  /\ now = 0
  /\ row = NoRow
  /\ held = [n \in Node |-> FALSE]
  /\ phase = [n \in Node |-> "standby"]
  /\ ask = [n \in Node |-> "idle"]
  /\ asked = [n \in Node |-> 0]
  /\ wake = [n \in Node |-> 0]

-----------------------------------------------------------------------------
(* Time *)

\* The node has something to do before the clock may move, if it is timely.
Due(n) ==
  \/ phase[n] = "work" /\ ask[n] = "idle" /\ now >= wake[n]
  \/ ask[n] # "idle" /\ now >= asked[n] + MaxDelay

Tick ==
  /\ now < MaxClock
  /\ Timely => \A n \in Node : ~Due(n)
  /\ now' = now + 1
  /\ UNCHANGED <<row, held, phase, ask, asked, wake>>

-----------------------------------------------------------------------------
(* claim: one transaction, its clock read first *)

\* The bounded clock's last tick counts as the end of every sleep.
Slept(n) == now >= wake[n] \/ now = MaxClock

AskClock(n) ==
  /\ phase[n] \in {"standby", "work"}
  /\ ask[n] = "idle"
  /\ Slept(n)
  /\ ask' = [ask EXCEPT ![n] = "update"]
  /\ asked' = [asked EXCEPT ![n] = now]
  /\ UNCHANGED <<now, row, held, phase, wake>>

\* Mutant of Free: only the holder's own row is matched.
FreeToHolder(n) == row # NoRow /\ row.holder = n

\* UPDATE ... WHERE role AND (holder = me OR expires_at <= now) finds the row.
Free(n) == row # NoRow /\ (row.holder = n \/ row.expires <= asked[n])

\* Mutant of LeaseOf: the lease is subtracted.
LeaseOfPast(n) == [holder |-> n, expires |-> asked[n] - LeaseTime]

LeaseOf(n) == [holder |-> n, expires |-> asked[n] + LeaseTime]

ClaimUpdate(n) ==
  /\ ask[n] = "update"
  /\ IF Free(n)
       THEN /\ row' = LeaseOf(n)
            /\ ask' = [ask EXCEPT ![n] = "yes"]
       ELSE /\ ask' = [ask EXCEPT ![n] = "select"]
            /\ UNCHANGED row
  /\ UNCHANGED <<now, held, phase, asked, wake>>

ClaimSelect(n) ==
  /\ ask[n] = "select"
  /\ ask' = [ask EXCEPT ![n] = IF row = NoRow THEN "insert" ELSE "no"]
  /\ UNCHANGED <<now, row, held, phase, asked, wake>>

\* Mutant of ClaimInsert: no primary key refuses the second insert.
ClaimInsertAnyway(n) ==
  /\ ask[n] = "insert"
  /\ row' = LeaseOf(n)
  /\ ask' = [ask EXCEPT ![n] = "yes"]
  /\ UNCHANGED <<now, held, phase, asked, wake>>

\* The role is the primary key: an INSERT that finds a row is refused.
ClaimInsert(n) ==
  /\ ask[n] = "insert"
  /\ IF row = NoRow
       THEN /\ row' = LeaseOf(n)
            /\ ask' = [ask EXCEPT ![n] = "yes"]
       ELSE /\ ask' = [ask EXCEPT ![n] = "no"]
            /\ UNCHANGED row
  /\ UNCHANGED <<now, held, phase, asked, wake>>

Claim(n) == ClaimUpdate(n) \/ ClaimSelect(n) \/ ClaimInsert(n)

-----------------------------------------------------------------------------
(* take and the loops around it *)

NoClaim(n) ==
  /\ ask' = [ask EXCEPT ![n] = "idle"]
  /\ asked' = [asked EXCEPT ![n] = 0]

\* The loop goes on: a holder sleeps and renews, a standby sleeps and asks,
\* and a holder that lost the role stops its work and asks again at once.
Proceed(n, got) ==
  /\ phase' = [phase EXCEPT ![n] = IF got THEN "work" ELSE "standby"]
  /\ wake' = [wake EXCEPT ![n] = IF got THEN now + RenewEvery
                                 ELSE IF phase[n] = "work" THEN now
                                 ELSE now + PollEvery]

\* `_held` takes the answer even when the loop has ended meanwhile.
Learn(n, got) ==
  /\ NoClaim(n)
  /\ held' = [held EXCEPT ![n] = got]
  /\ IF phase[n] \in {"standby", "work"} THEN Proceed(n, got) ELSE UNCHANGED <<phase, wake>>
  /\ UNCHANGED <<now, row>>

Taken(n) == ask[n] = "yes" /\ Learn(n, TRUE)

Refused(n) == ask[n] = "no" /\ Learn(n, FALSE)

\* Mutant of AskFails: a node that cannot ask goes on as it was.
AskFailsQuietly(n) ==
  /\ now <= LastFault
  /\ ask[n] # "idle"
  /\ Learn(n, held[n])

\* The database cannot be asked, or its answer is lost: standby.
AskFails(n) ==
  /\ now <= LastFault
  /\ ask[n] # "idle"
  /\ Learn(n, FALSE)

\* The work returned or raised: drop() gives the row up, its errors swallowed.
\* A renewal in flight is a thread, which cancelling its task does not stop.
WorkEnds(n) ==
  /\ now <= LastFault
  /\ phase[n] = "work"
  /\ phase' = [phase EXCEPT ![n] = "ended"]
  /\ held' = [held EXCEPT ![n] = FALSE]
  /\ wake' = [wake EXCEPT ![n] = 0]
  /\ row' \in {row, IF row # NoRow /\ row.holder = n THEN NoRow ELSE row}
  /\ UNCHANGED <<now, ask, asked>>

-----------------------------------------------------------------------------
(* The process *)

Gone(n, how) ==
  /\ now <= LastFault
  /\ phase[n] \in {"standby", "work"}
  /\ phase' = [phase EXCEPT ![n] = how]
  /\ held' = [held EXCEPT ![n] = FALSE]
  /\ wake' = [wake EXCEPT ![n] = now + 1]
  /\ NoClaim(n)
  /\ UNCHANGED <<now, row>>

\* A clean stop cancels the loop in its wait; only WorkEnds calls drop().
Shutdown(n) == Gone(n, "stopped")

Crash(n) == Gone(n, "down")

\* A process whose work has ended exits, and may be started again too; coming
\* back takes a moment, so no process dies and returns for ever in one tick.
Restart(n) ==
  /\ phase[n] \in {"ended", "stopped", "down"}
  /\ Slept(n)
  /\ phase' = [phase EXCEPT ![n] = "standby"]
  /\ held' = [held EXCEPT ![n] = FALSE]
  /\ wake' = [wake EXCEPT ![n] = now]
  /\ NoClaim(n)
  /\ UNCHANGED <<now, row>>

\* One turn of a running process's loop: ask, claim, learn.
Poll(n) == AskClock(n) \/ Claim(n) \/ Taken(n) \/ Refused(n)

Next ==
  \/ Tick
  \/ \E n \in Node :
       \/ AskClock(n) \/ ClaimUpdate(n) \/ ClaimSelect(n) \/ ClaimInsert(n)
       \/ Taken(n) \/ Refused(n) \/ AskFails(n)
       \/ WorkEnds(n) \/ Shutdown(n) \/ Crash(n) \/ Restart(n)

Spec == Init /\ [][Next]_vars

(* A running process keeps polling and the clock keeps moving. Nobody      *)
(* promises that a stopped process is started again.                       *)
Fairness ==
  /\ WF_vars(Tick)
  /\ \A n \in Node : WF_vars(Poll(n))

FairSpec == Spec /\ Fairness

-----------------------------------------------------------------------------
(* Properties *)

Live == row # NoRow /\ row.expires > now

\* The node runs the role's work with its write gate open.
Works(n) == phase[n] = "work" /\ held[n]

(* The promise of Holder's docstring: a gate on `held` cannot write after  *)
(* the node has stopped being the holder. Whoever works has the live row.  *)
GateHonest == \A n \in Node : Works(n) => Live /\ row.holder = n

(* A plant has one reader: never two nodes whose gates are open at once.   *)
OneWorker == \A m, n \in Node : Works(m) /\ Works(n) => m = n

(* claim's WHERE clause and release's scope: a row passes from one node to *)
(* another, or disappears, only after it expired or when its own holder    *)
(* finished its work, whatever the claims in flight had read.              *)
NeverStolen ==
  [][ row # NoRow /\ (row' = NoRow \/ row'.holder # row.holder)
        => \/ row.expires <= now
           \/ phase[row.holder] = "work" /\ phase'[row.holder] = "ended" ]_vars

(* wait_to_hold: a standby does not wait for ever beside an unheld role.   *)
(* It takes the role, or another node works, or its own process ends.      *)
Takeover ==
  \A n \in Node : phase[n] = "standby" ~> (phase[n] # "standby" \/ \E m \in Node : Works(m))
=============================================================================
