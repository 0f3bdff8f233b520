------------------------------- MODULE Inbound -------------------------------
(***************************************************************************)
(* What people typed into other systems, taken over into the MES: events   *)
(* with the supplier's own key, which a query polls, a file brings or a    *)
(* broker sends, and sometimes several of them. All go through the same    *)
(* writers, which remember the key of what they recorded in the event's    *)
(* own transaction.                                                        *)
(*                                                                         *)
(* An event is also its position in the column the query is ordered by.    *)
(* A transaction sees what was committed when it began; on SQLite nothing  *)
(* else commits before it does.                                            *)
(***************************************************************************)
EXTENDS Integers, FiniteSets, FiniteSetsExt

CONSTANTS
  Event,              \* of one stream of one source
  Filed, Sent,        \* those the export's file holds, those a broker sends
  None,
  MaxRows,            \* [stream] max_rows
  Ordered,            \* TRUE: positions are committed in their order
  MaxSets, MaxDrops, MaxSends, MaxFaults  \* bounds

ASSUME EventAssumption == Event \subseteq Nat \ {0} /\ Filed \subseteq Event /\ Sent \subseteq Event
ASSUME InboundBounds ==
  /\ MaxRows \in Nat \ {0} /\ Ordered \in BOOLEAN
  /\ MaxSets \in Nat /\ MaxDrops \in Nat /\ MaxSends \in Nat /\ MaxFaults \in Nat

VARIABLES
  there,    \* the rows the supplier's database has
  known,    \* the events whose machine, order and so on the MES has
  ledger,   \* inbound_events
  applied,  \* how often what an event says was recorded
  view,     \* what each driver's open transaction has seen of the ledger
  cursor,   \* inbound_watermarks
  batch,    \* the poller's: [from, rows]
  stepped,  \* rows that somebody stepped over by hand
  file,     \* where the file is
  leaving,  \* where process_file is about to move it
  wire,     \* events on their way to the subscriber
  sets, drops, sends, faults

writing == <<ledger, applied>>
polling == <<cursor, batch, stepped>>
filing == <<file, leaving>>
eventBounds == <<sets, drops, sends, faults>>
eventVars == <<there, known, writing, view, polling, filing, wire, eventBounds>>

Driver == {"sql", "folder", "mqtt"}
Position == Event \cup {0}
Place == {"away", "inbox", "processed", "rejected"}

EventsTypeOK ==
  /\ there \subseteq Event /\ known \subseteq Event /\ ledger \subseteq Event
  /\ applied \in [Event -> Nat]
  /\ view \in [Driver -> (SUBSET Event) \cup {None}]
  /\ cursor \in Position /\ stepped \subseteq Event
  /\ batch \in [from : Position, rows : SUBSET Event] \cup {None}
  /\ batch # None => Cardinality(batch.rows) <= MaxRows
  /\ file \in Place /\ leaving \in {"stays", "processed", "rejected"}
  /\ wire \subseteq Sent
  /\ sets \in 0..MaxSets /\ drops \in 0..MaxDrops
  /\ sends \in 0..MaxSends /\ faults \in 0..MaxFaults

EventsInit ==
  /\ there = {} /\ known \in SUBSET Event /\ ledger = {}
  /\ applied = [e \in Event |-> 0]
  /\ view = [d \in Driver |-> None]
  /\ cursor = 0 /\ batch = None /\ stepped = {}
  /\ file = "away" /\ leaving = "stays" /\ wire = {}
  /\ sets = 0 /\ drops = 0 /\ sends = 0 /\ faults = 0

Fault == faults < MaxFaults /\ faults' = faults + 1 /\ UNCHANGED <<sets, drops, sends>>

-----------------------------------------------------------------------------
(* The writers *)

Free(d) == view[d] = None
Opened(d) == view' = [view EXCEPT ![d] = ledger]
Ended(d) == view' = [view EXCEPT ![d] = None]

\* already_applied: a duplicate is no failure and changes nothing.
Seen(d, rows) == rows \cap view[d]

\* Mutant of Fresh: the ledger has no unique key.
FreshUnkeyed(d, rows) == (rows \ view[d]) \cap known

\* Mutant of Fresh: the batch has one savepoint, which one bad row rolls back.
FreshOrNone(d, rows) ==
  IF rows \subseteq known THEN (rows \ view[d]) \ ledger ELSE {}

\* What is recorded: Refused for want of a machine or an order, or by the
\* ledger's unique key because another driver was first.
Fresh(d, rows) == ((rows \ view[d]) \cap known) \ ledger

\* Each row in a savepoint of its own, all in one transaction.
Write(d, rows) ==
  /\ ledger' = ledger \cup Fresh(d, rows)
  /\ applied' = [e \in Event |-> applied[e] + (IF e \in Fresh(d, rows) THEN 1 ELSE 0)]
  /\ Ended(d)

Problems(d, rows) == rows \ (Seen(d, rows) \cup Fresh(d, rows))

-----------------------------------------------------------------------------
(* The plant's other systems, and its people *)

Insert(e) ==
  /\ e \notin there /\ there' = there \cup {e}
  /\ Ordered => \A f \in Event : f < e => f \in there
  /\ UNCHANGED <<known, writing, view, polling, filing, wire, eventBounds>>

\* Somebody adds the machine, the order or the spec that was missing.
Teach(e) ==
  /\ e \notin known /\ known' = known \cup {e}
  /\ UNCHANGED <<there, writing, view, polling, filing, wire, eventBounds>>

\* sql-watermark --set.
SetWatermark(to) ==
  /\ sets < MaxSets /\ sets' = sets + 1
  /\ to # cursor /\ cursor' = to
  /\ stepped' = stepped \cup {e \in Event : cursor < e /\ e <= to}
  /\ UNCHANGED <<there, known, writing, view, batch, filing, wire, drops, sends, faults>>

\* An export, or a person who drops a file in again.
Drop ==
  /\ drops < MaxDrops /\ drops' = drops + 1
  /\ file # "inbox" /\ file' = "inbox"
  /\ UNCHANGED <<there, known, writing, view, polling, leaving, wire, sets, sends, faults>>

\* At least once: what was sent may come again.
Send(e) ==
  /\ sends < MaxSends /\ sends' = sends + 1
  /\ wire' = wire \cup {e}
  /\ UNCHANGED <<there, known, writing, view, polling, filing, sets, drops, faults>>

-----------------------------------------------------------------------------
(* The SQL driver: poll_stream *)

\* Mutant of NextRows: fetchall instead of fetchmany.
NextRowsAll(from) == {e \in there : e > from}

\* The first rows after the cursor, as many as a batch takes.
NextRows(from) ==
  LET after == {e \in there : e > from}
  IN {e \in after : Cardinality({f \in after : f <= e}) <= MaxRows}

\* It has no transaction of its own open while it reads the supplier's rows.
Ask ==
  /\ batch = None /\ NextRows(cursor) # {}
  /\ batch' = [from |-> cursor, rows |-> NextRows(cursor)]
  /\ UNCHANGED <<there, known, writing, view, cursor, stepped, filing, wire, eventBounds>>

PollBegins ==
  /\ batch # None /\ Free("sql") /\ Opened("sql")
  /\ UNCHANGED <<there, known, writing, polling, filing, wire, eventBounds>>

\* Mutant of Through: the last row that was taken, whatever lies before it.
ThroughLast(rows, problems) == rows \ problems

\* The rows before the first that could not be recorded.
Through(rows, problems) == {e \in rows : \A p \in problems : e < p}

\* A cursor that is held is written again where the pass found it.
PollEnds ==
  /\ batch # None /\ ~Free("sql")
  /\ Write("sql", batch.rows)
  /\ LET through == Through(batch.rows, Problems("sql", batch.rows))
     IN cursor' = IF through = {} THEN batch.from ELSE Max(through)
  /\ batch' = None
  /\ UNCHANGED <<there, known, stepped, filing, wire, eventBounds>>

\* The query fails, the transaction is rolled back, or the process dies.
PollFails ==
  /\ batch # None /\ batch' = None /\ Ended("sql")
  /\ Fault
  /\ UNCHANGED <<there, known, writing, cursor, stepped, filing, wire>>

-----------------------------------------------------------------------------
(* The folder driver: process_file *)

FileBegins ==
  /\ file = "inbox" /\ leaving = "stays" /\ Free("folder") /\ Opened("folder")
  /\ UNCHANGED <<there, known, writing, polling, filing, wire, eventBounds>>

FileRecorded ==
  /\ ~Free("folder")
  /\ Write("folder", Filed)
  /\ leaving' = IF Problems("folder", Filed) = Filed THEN "rejected" ELSE "processed"
  /\ UNCHANGED <<there, known, polling, file, wire, eventBounds>>

\* Only after its rows are committed.
FileMoved ==
  /\ leaving # "stays" /\ file' = leaving /\ leaving' = "stays"
  /\ UNCHANGED <<there, known, writing, view, polling, wire, eventBounds>>

\* In between it is read again.
FolderDies ==
  /\ leaving # "stays" \/ ~Free("folder")
  /\ leaving' = "stays" /\ Ended("folder")
  /\ Fault
  /\ UNCHANGED <<there, known, writing, polling, file, wire>>

-----------------------------------------------------------------------------
(* The broker driver: Ingest._event, one message at a time *)

MessageBegins ==
  /\ wire # {} /\ Free("mqtt") /\ Opened("mqtt")
  /\ UNCHANGED <<there, known, writing, polling, filing, wire, eventBounds>>

\* A message is gone, recorded or not.
MessageEnds(e) ==
  /\ e \in wire /\ ~Free("mqtt")
  /\ Write("mqtt", {e})
  /\ wire' = wire \ {e}
  /\ UNCHANGED <<there, known, polling, filing, eventBounds>>

\* A clean session: nothing on its way comes again by itself.
ListenerLost ==
  /\ wire # {} /\ wire' = {} /\ Ended("mqtt")
  /\ Fault
  /\ UNCHANGED <<there, known, writing, polling, filing>>

Poll == Ask \/ PollBegins \/ PollEnds

EventsNext ==
  \/ \E e \in Event : Insert(e) \/ Teach(e)
  \/ \E to \in Position : SetWatermark(to)
  \/ Drop \/ \E e \in Sent : Send(e)
  \/ Poll \/ PollFails
  \/ FileBegins \/ FileRecorded \/ FileMoved \/ FolderDies
  \/ MessageBegins \/ (\E e \in Sent : MessageEnds(e)) \/ ListenerLost

EventsSpec == EventsInit /\ [][EventsNext]_eventVars

-----------------------------------------------------------------------------
(* Properties *)

(* "Anything already recorded will not be recorded twice", whichever       *)
(* drivers bring it, at once or after a crash; and what was refused or     *)
(* rolled back is not remembered, so that it can be delivered again.       *)
OnceEach == \A e \in Event : applied[e] = IF e \in ledger THEN 1 ELSE 0

(* "A row nothing was done with is not a row that was read": the cursor    *)
(* passes no row that is not recorded, unless a person moved it.           *)
NothingSteppedOver == \A e \in there : e <= cursor => e \in ledger \cup stepped

(* "The next pass tries again": a row is recorded some day once it and     *)
(* those before it can be, unless a person stepped over it.                *)
RowsAreRead ==
  \A e \in Event :
    (e \in there /\ {f \in there : f <= e} \subseteq known) ~> e \in ledger \cup stepped
=============================================================================
