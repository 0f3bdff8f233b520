--------------------------- MODULE RedundantReader ---------------------------
(***************************************************************************)
(* A plant on several nodes: run_all. Every node runs the loop of Lease    *)
(* for the role "reader"; the node that works connects to the machines and *)
(* books what they count as CounterBooking says, with the Holder's `held`  *)
(* as the gate of every booking attempt.                                   *)
(*                                                                         *)
(* The two meet in four places: a node connects only while it works; a     *)
(* node that lost the role stops its connections before it asks again; a   *)
(* process that dies takes both with it; and the gate.                     *)
(***************************************************************************)
EXTENDS CounterBooking

CONSTANTS
  NoRow, LeaseTime, RenewEvery, PollEvery, MaxDelay,  \* as in Lease
  Timely,      \* TRUE: no node is paused, and a booking takes less than a tick
  MaxClock, LastFault  \* bounds, as in Lease

VARIABLES now, row, phase, ask, asked, wake

L == INSTANCE Lease WITH held <- gate

ASSUME LeaseAssumption == L!TimesAssumption /\ L!SlackAssumption /\ L!NoRowAssumption

leaseVars == <<now, row, phase, ask, asked, wake>>
bookingVars == <<plant, tables, link, owner, handler, thread, bounds>>
allVars == <<vars, leaseVars>>

RInit == InitBooking /\ L!Init

-----------------------------------------------------------------------------
(* The lease's steps *)

\* A node that lost the role awaits its cancelled work before it asks again.
TornDown(n) == \A k \in Up : owner[k] # n

LeaseStep(n) ==
  /\ \/ L!AskClock(n) /\ (phase[n] = "standby" => TornDown(n))
     \/ L!Claim(n) \/ L!Taken(n) \/ L!Refused(n)
     \/ L!AskFails(n) /\ (phase[n] = "work" => Another)
     \/ L!Restart(n)
  /\ UNCHANGED bookingVars

\* A clean stop is a signal to the process, and ends it as a crash does.
Exit(n) ==
  /\ Another
  /\ L!Shutdown(n) \/ L!Crash(n)
  /\ Die(n)

Tick ==
  /\ Timely => \A w \in Worker : pc[w] # "booking"
  /\ L!Tick
  /\ UNCHANGED bookingVars

-----------------------------------------------------------------------------
(* The reader's steps *)

\* _every_agent: the work of the role is to be connected.
WorkConnects(k, n) == phase[n] = "work" /\ Connect(k, n)

LinkLost(k) == phase[owner[k]] = "work" /\ Another /\ Stop(k)

\* run_while_held cancels the work, which ends its connection.
RoleLost(k) == phase[owner[k]] # "work" /\ Stop(k)

ReaderStep ==
  /\ \/ Plant \/ Reader
     \/ \E k \in Conn : \/ \E n \in Node : WorkConnects(k, n)
                        \/ link[k] = "open" /\ (LinkLost(k) \/ RoleLost(k))
  /\ UNCHANGED leaseVars

RNext ==
  \/ Tick
  \/ \E n \in Node : LeaseStep(n) \/ Exit(n)
  \/ ReaderStep

RSpec == RInit /\ [][RNext]_allVars

\* What a handler does with the readings it has.
Handle(k) == Drain(k) \/ Flush(k) \/ Close(k) \/ \E w \in Worker : w[1] = k /\ Book(w)

RFairness ==
  /\ WF_allVars(Tick)
  /\ \A n \in Node : WF_allVars(LeaseStep(n) /\ L!Poll(n))
  /\ \A k \in Conn :
       /\ \A c \in Counter : WF_allVars(Notify(k, c) /\ UNCHANGED leaseVars)
       /\ WF_allVars((\E n \in Node : WorkConnects(k, n)) /\ UNCHANGED leaseVars)
       /\ WF_allVars(link[k] = "open" /\ RoleLost(k) /\ UNCHANGED leaseVars)
       /\ WF_allVars(Handle(k) /\ UNCHANGED leaseVars)

RFairSpec == RSpec /\ RFairness

-----------------------------------------------------------------------------
(* Properties *)

(* What the reader's lease exists to prevent: two nodes are never inside a *)
(* booking transaction together.                                           *)
OneBooker ==
  \A v, w \in Worker :
    pc[v] = "booking" /\ pc[w] = "booking" => owner[v[1]] = owner[w[1]]

(* The redundancy page: "nothing in the gap is lost; it arrives late".     *)
(* While at least one node runs, what a machine counted is some day in its *)
(* baseline, whichever node died or lost the role on the way.              *)
CountedBySurvivor ==
  \A c \in Counter, v \in 1..MaxMade :
    plc[c] >= v ~> \/ base[c] # None /\ base[c] >= v
                   \/ \A n \in Node : phase[n] \notin {"standby", "work"}
=============================================================================
