# A verification project for FactorySemantics MES

TLA+ models of the part of the MES that decides what a plant's numbers say, TLC
configurations that check them on small plants, and theorems about them that
TLAPS checks for plants of any size. Paths below are relative to the repository.

## 1. The system

One plant is one database (SQLite, or PostgreSQL when the plant has several
nodes) and a handful of processes around it. What they share is the database
alone; inside a process there is an asyncio loop whose database work runs in
threads.

| part | state it keeps | operations | what is hard | correct when |
|---|---|---|---|---|
| **Leases** `services/leases.py` | a row per role; `Holder._held` in each node | claim, renew, drop, `run_while_held` | races of claims, stale clock readings, crashes, lost answers, paused nodes | one node works; no lease is taken from its holder; a standby takes over |
| **OPC reader** `integrations/opc/agent.py`, `services/counters.py` | `counter_baselines`; per connection `_pending`, `last_counts`, two kinds of booking thread | data change, drain, retry, flush, connect, stop | threads cancelled from outside, failed transactions, resets, restarts, failover | never invents production, loses none for good |
| **Equipment states and visibility** `services/equipment.py`, `services/connection.py`, `_Link` of `agent.py` | open state and connection intervals | set_state, name a stop, connected, disconnected | a link that is dead before anybody notices, states booked late, a dying process | intervals do not overlap, no state runs on unwatched |
| **Work orders, execution** `services/workorders.py`, `services/execution.py` | orders, operations, production, lots, confirmations queued | release, hold, resume, start, complete, report, consume | operations of one order finishing at once, production on an order somebody holds | lifecycle, one completion, quantities add up |
| **ERP sync, outbox** `services/erp.py`, `services/outbox.py`, `integrations/erp/sync.py` | message rows with status, attempts, next time | record, import, acknowledge, send, fail, refuse, retry | lost answers, a cycle that ends anywhere, a bad row in front of good ones | orders are kept, each message arrives or is left to a person, one stock entry |
| **UNS publisher** `services/uns.py`, `integrations/uns/publisher.py` | publication rows with status, attempts, next time | enrol, publish, record, retry | commits out of order, groups in flight, a lazy connection, a crash after the broker's answer | each fact published, in order while one connection holds and nothing fails |
| **Adjustments** `services/adjustments.py`, the writer loop of `agent.py` | recommendation status | propose, approve, reject, write, verify | people and several loops on one row nobody locks, a crash after the PLC write | written only when approved, at most once |
| **Triggers** `services/triggers.py` | edges, holds, cooldowns in memory | observe, fire | values that return within the hold | fires once per occurrence |
| **Inbound** `services/inbound.py`, `integrations/inbound/*` | the ledger `inbound_events`, cursors, the files' folders, MQTT totals in memory | poll, read a file, take a message, set a cursor | several drivers with one event, held rows, redelivery, a total remembered before its commit | each event once, no row stepped over, only rises booked |
| **Maintenance** `services/maintenance.py` | plans, orders | raise_due, start, complete | two raisers | one open order per due plan |
| **Quality, SPC, serialization, scheduling, dispatch, calendar, reports** | records | one transaction per request | little concurrency | arithmetic and lookups |
| **Agent proposals, review** | proposals | propose, decide | a decision on a stale proposal | nothing executed unapproved |
| **Fleet, supervisor, packs, API, MCP, web, CLI, migrations, doctor** | process ids, files | start, stop, adapt | operating-system behaviour | out of scope of these models |

How they interact: the reader runs under the lease of role `reader`, asks
`Holder.holds` before it books, and calls `execution.report`, which writes
production on an open operation or on the unassigned list; a completed operation
queues a confirmation in the outbox; the ERP and UNS publishers drain what the
services recorded; the supervisor starts and stops whole nodes.

`PROJECT.json` lists every component with its status, and under `hazards` the
places where this code is hard to test, each with the property that watches it.

## 2. The plan

1. **Lease** - the role and its nodes. Done.
2. **CounterBooking** - one reader; abstract promise **ProductionCount**. Done.
3. **RedundantReader** - composes the two: failover. Done.
4. **Adjustments** - the approval cycle against the endpoints' loops. Done.
5. **WorkOrders** - orders, operations, `execution.report`, lots, the
   confirmations queued. Done.
6. **ErpSync** and **UnsPublisher** - the outbox's two readers; abstract promise
   **AtLeastOnce**. Done.
7. **MachineHistory** - state and connection intervals against the reader's life.
   Done.
8. **Inbound** and **BrokerCounter** - events by query, file and broker; an MQTT
   gateway's totals. Done.
9. Left: a commit of CounterBooking whose answer is lost; triggers; maintenance;
   downtime reasons, which arrive before or after the state they name.

Every safety property and refinement that a passing run checks is also proved
(section 5). What is left to prove comes with what is left to model.

Modules are written to be proved about: constants with named assumptions, one
action per operation, no recursive operator.

## 3. The modules

### Lease (`services/leases.py`)

One role. `row` is its `plant_leases` row, `held[n]` is `Holder._held`, `phase[n]`
the place of `run_while_held`, `ask[n]` the claim in flight and `asked[n]` the
database clock it read first. A claim is its three statements - UPDATE, SELECT,
INSERT - each a step, because that is how two nodes interleave on PostgreSQL (the
first UPDATE of a row makes the second re-read it, which is what one atomic step
of `ClaimUpdate` does). `AskFails` is `take`'s except branch at any moment, also
after the row was written; `WorkEnds` is `drop()`, whose own failure is
swallowed; `Shutdown` is a cancelled loop: no code path of it calls `drop()`.
`acquired_at` and `renewed_at` are kept for people and decide nothing.

Time is the database's clock in whole ticks. `Timely` says that a renewal starts
when its sleep ends and that a claim takes at most `MaxDelay`; without it a node
may be paused for any time. `SlackAssumption` is what `RENEW_FRACTION = 3` buys.

### CounterBooking (`integrations/opc/agent.py`, `services/counters.py`)

`plc` and `made` are the plant; `base` is `counter_baselines`; `booked` is what
`execution.report` wrote, on an order or unassigned. A connection `k` is one
iteration of `run()`, with its own handler: `mem[k]` is `last_counts`, `inbox[k]`
the last pending reading of each counter (a batch keeps only that one of each
counter), `told[k]` what the subscription sent last. Each connection has two
possible booking threads, the consumer's and flush's. A thread goes `ready`
(before the gate), `booking` (inside the transaction), `booked` (committed,
`last_counts` not updated yet). `Commit(w, F)` is the whole transaction in which
`execution.report` raises for the machines in `F`: their savepoint rolls back and
all their tags leave `pending`.

`QuietStop` is an assumption about when connections end: only while the consumer
waits. The code does not enforce it (see the finding), and the runs that need it
say so. Not modelled: machine states (MachineHistory) and reasons, tag history,
inspection groups, and a commit that took effect although its answer was lost.

### ProductionCount

What the reader promises whoever it is: production is booked late, in portions,
never more than was made, never taken back. `HonestCount` is CounterBooking's
refinement of it.

### RedundantReader (`run_all`)

EXTENDS CounterBooking and instantiates Lease with `held <- gate`: the holder's
`held` is the gate of every booking attempt. A node connects only while it works
(`_every_agent` is the work of the role), stops its connections before it asks for
the role again (`run_while_held` awaits the cancelled work), and loses all of it
when its process goes. `Timely` adds here that a booking transaction takes less
than a clock tick. `LeaseAssumption` repeats Lease's assumptions about its
constants, which an INSTANCE does not bring along.

### Adjustments (`services/adjustments.py`, `_adjustment_loop`)

`status[r]` is the row's column. Each endpoint's loop is at `step[e]`: it reads the
approved rows (`due[e]`), takes them in the order of their ids, and for each either
refuses it, or writes it and records how that went; then it reads what is due
(`check[e]`) and verifies it. `wrote[r]` counts what the machine was given. People
and other loops come in between its transactions, and `Cut` ends a
round anywhere: a failed transaction, a lost connection, a dead reader.

Propose, approve, reject and verify look at rows and then insert or update by id,
with no lock and no status in the WHERE clause, so each is two steps. `Propose`,
`Approve` and `Reject` are the look of person `p`'s request, which leaves in
`asked[p]` what it may make of the row; `Save` commits that whatever the row says
by then, and `Rollback` is any failure. `Verify` leaves its result in `verdict[e]`
for `SaveVerdict`. `Serial` is SQLite's `BEGIN IMMEDIATE`, as in WorkOrders: no
transaction that writes begins while another is open. Without it others commit
between the look and the save. `mark_written` and `mark_failed` look at nothing and
are one step. A proposal's code counts the rows, so it is saved only as the next of
them.

`Ripen` is the passing of `verify_after_seconds`. `Fits` stands for the agent's own
bounds; values, the other two bound checks and shadow mode are left out. A loop is
the only one of its endpoint: what a paused node would still write is not modelled.

### WorkOrders (`services/workorders.py`, `execution.report`)

`status[o]` is an order's column, `step` and `good` the status and `good_qty` of its
operations, `logged` and `unassigned` the units of `production_log` with and without
an order, `confirmed`, `completion` and `lot` what completion leaves behind: the two
kinds of message in the ERP's outbox and the finished-goods lot. A request is one
`session_scope`: `Begin` reads the order and its operations into `view[p]`, every
other action decides on that view and commits, writing the columns it changed and no
others (`Written`), and `Rollback` is any refusal, failure or crash. `Serial` is
SQLite's `BEGIN IMMEDIATE`: one open transaction. Without it, as on PostgreSQL,
requests read, and others commit, before they write; nothing in the code locks a row.

`CompleteOrder` is `complete_operation` of the last operation with all of
`_complete_order`; a transition that is refused there refuses the request.
`ReportOrder` and `ReportMachine` are the two ways `report` finds its operation, and
`counted` says that the units were counted elsewhere (OPC or another system), which
is what lets a booking start a pending operation. Orders are numbered as the reader's
query sorts them. Left out: scrap, the ordered quantity (nothing completes by it),
the import of orders, the certificate, shifts and audit rows. A request's reads are one
moment, where on PostgreSQL they are several statements, and a request does one
thing, where a reader's batch does one after the other.

### AtLeastOnce

What either reader of the outbox promises of each message: it arrives before it is
recorded as delivered, perhaps more than once, only while it is owed, and what does
not arrive is given up and kept. It says nothing of order. `DeliversOutbox` in
ErpSync and in UnsPublisher are its refinements.

### ErpSync (`integrations/erp/sync.py` and its connectors, `services/erp.py`)

The worker is at `step`: it fetches what the ERP offers (`rows`), and for each order
imports it in a transaction (`logged`) and acknowledges it; then it collects what is
due (`todo`) and for each message sends it and marks the answer. `connector` is one
of the three, chosen once, and the model says where they differ: the file connector
takes an order as it reads it (`Fetch`) and cannot fail after a message is in
place (`SendPlain`); an API's connector acknowledges, may lose an answer, and raises
at a row it cannot read; ERPNext makes a stock entry of what it has not yet produced
(`SendCompletion`), refuses what is beyond its allowance (`Room`), and may make an
entry after the client gave up on it (`coming`, `Land`, `outlived`). `resting` are
the messages whose `next_attempt_at` lies ahead. `Ends` is the end of a cycle by an
exception or with the process, at any step. `Plan`, `Queue` and `PutBack` are the
ERP's planners, the plant, and a person with `retry`, who may also put back what was
sent. A completion's quantity is one lump; shadow mode is left out.

### UnsPublisher (`integrations/uns/publisher.py`, `transport.py`, `services/uns.py`)

A cycle is `Enrol`, `Select`, groups of `Inflight` messages (`StartGroup`, and a
`Publish` for each message of the group) and one `Record` of all outcomes; `status`
is the publication's own, beside the ERP's in ErpSync. Messages are numbered as the
outbox numbers them and commit in any order (`Queue`).

The transport connects lazily. `client` says that it holds a connection; a group
that starts with one hands its messages to it in order, and it keeps that order. A group that
starts without one is `spread`: every publish of it finds no client and opens its own,
and they arrive in any order. A failure drops the connection in the middle of a
group and spreads what is left of it. A connection that one publish of a group takes
from another (they share a client id) is among the publishes that fail. `excused`
and `loose` are history variables of the properties alone: the messages that failed or
committed late, and those that were spread in one group with a later one of their
topic.

### MachineHistory (`services/connection.py`, `services/equipment.py`, `_Link`)

One machine. `states` are its last two intervals (older ones are neither read nor
written) and `visible` its open connection row; `link` is where `run()` is, `said`
and `seen` are `_Link.state` and `_Link.seen`, `inbox` and `thread` the states
received and the two booking threads, as in CounterBooking. `LinkDies` is what
nobody in the MES sees; `Proof` is the watchdog's check, `Close` its failure or any
other end of the connection, `Disconnect` the row written back to `seen`. `Write` is
`_Link._write`, and `Unwritten` the ways in which it may leave no row: `"raises"`, a
`set_connection` that is logged and stepped over while the `_Link` goes on as if
written, and `"not held"`, a node that does not hold the role and writes nothing. A batch of
states is booked in one transaction, each in a savepoint of its own that may be lost
(`Book`, `WithStates`); the batch as a whole may fail and be retried (`BookFails`). `Enter`
is a state posted by a person or set by a trigger. `blind` collects the
moments in which this process had said something of the machine and could not see
it, and `drift` that the open state need not be the machine's; the properties use
both.

`QuietStop` is the same assumption as in CounterBooking. Left out: downtime reasons
and labels; a `_Link.connected()` whose transaction fails as a whole; a link or process
that dies just before it; and a thread of the previous connection that still runs. A
commit of `disconnected()` that raises ends `run`, which is a `Crash`. Two things a reader
should know the model does, because the code does: a process that is killed leaves its last
state open until the next one says otherwise, and `blind` starts again with it;
and states that were received before the link died and booked after are stamped
with the time they are booked.

### Inbound (`services/inbound.py`, `integrations/inbound/sql.py`, `folder.py`, `mqtt.py`)

Events of one stream, each also its position in the column the query is ordered by.
`ledger` is `inbound_events`, `applied` how often what an event says was recorded,
`view[d]` what the open transaction of driver `d` has seen of the ledger: between
`...Begins` and `...Ends` another driver may commit, and the ledger's unique key then
refuses the second (`Fresh`). `known` are the events whose machine, order or spec
the MES has, and `Teach` adds one. The SQL driver asks outside any transaction
(`Ask`), then records its `batch` and moves or holds `cursor`; `SetWatermark` is
`sql-watermark --set --force`. The folder driver commits and then moves the file;
the broker's messages are gone once handled. What an event does to the plant's
records is one count, since all three writers remember it in the same transaction.

### BrokerCounter (`integrations/inbound/mqtt.py`)

One counter: the machine and its gateway (`plc`, `told`, `unacked`), the broker's
retained message (`kept`), what is on its way (`sent`), and the listener's
`last_counts` (`last`) with what it booked. `since` and `missed` are history
variables of the property: what the first baseline was, and that units were left out
for a reason the code knows of. `Window` is how many totals a gateway sends before
the oldest is acknowledged; all of them come again when it reconnects. MCInbound runs
it beside Inbound: a behaviour is of one of the two.

## 4. The runs

| run | checks | bounds |
|---|---|---|
| `lease` | `TypeOK`, `GateHonest`, `NeverStolen`, `Takeover` | 2 nodes, lease 4, renewal 1, a claim at most 1, clock to 10, faults until 5 |
| `booking` | `TypeOK`, `BaselineIsBooking`, `HonestCount` | 2 machines with a counter each, 2 connections, 2 units, 1 reset, and one each of failed transaction, refused machine, unread baselines |
| `booking_overlap` | `NeverInvent`, violated | `QuietStop = FALSE`, 1 counter, 3 units |
| `reader` | `NeverInvent`, `OneBooker`, `CountedBySurvivor` | 2 nodes, 2 connections, 1 unit, 1 failed transaction, lease 2, clock to 3, faults until 1 |
| `adjustments` | `TypeOK`, `OneQueued`, `WrittenAgainOnlyAfterCut`, `ClosedStays`, `WrittenWasApproved`, `Concludes` | 1 endpoint, 3 recommendations on 2 setpoints, one outside the bounds, 2 people, 2 rounds cut |
| `workorders` | `TypeOK`, `LastCompletes`, `ConfirmedIsBooked`, `RunningIsStarted`, `FinishedStays` | 2 orders of 2 operations on 2 machines, 2 requests, 1 unit per operation |
| `workorders_postgres` | `LastCompletes`, violated | `Serial = FALSE`, 1 order, 2 requests |
| `erpsync` | `TypeOK`, `OrdersKept`, `OneEntry`, `NeverStalls`, `DeliversOutbox` | each connector; 3 orders (one unreadable, one the plant cannot make), 2 completions (one refused), 2 attempts, 2 faults, 1 put back |
| `erp_file` | `NoOrderLost`, violated | the file connector, 1 order, 1 fault |
| `uns` | `TypeOK`, `OvertakenOnlyIfExcused`, `NothingSteppedOver`, `DeliversOutbox` | 3 messages of 2 topics, batches and groups of 2, 2 attempts, 2 faults, 1 put back |
| `machine` | `TypeOK`, `NothingAccruesUnseen`, `EndsAtEvidence`, `Follows`, `LossIsRecorded` | `Unwritten = {}`, 2 states, 1 change, 1 entry by hand, 2 faults (a dead link, a failed booking, a lost state, a crash), 2 attempts, time to 2 |
| `inbound` | `TypeOK`, `CountIsRise`, `OnceEach`, `NothingSteppedOver`, `RowsAreRead` | 3 events, all polled, 2 in a file, 1 sent, batches of 2, one each of cursor set, file dropped, message sent, fault; 3 units, 1 reset, 1 repeat, 2 breaks |

Why the bounds are enough: a failover needs two nodes and one lease that runs out;
the clock reaches past the last fault by more than a lease, so that a takeover can
happen and be seen. Double booking needs one reading booked twice, so two
connections and a unit or two; a reset after two units makes a counter fall below
half of its last value, and two machines let one be refused while the batch commits.
With Attempts = 2 one failed transaction retries and two would give up; a batch is
also given up when the gate closes. So `reader`, with one failed transaction, never
drops a batch after its last attempt; `booking` likewise.

Two recommendations for one setpoint are the least that can be open at once, and the
third lets a round have a row behind another; two cuts leave a round cut and its
repetition cut. Two people take turns there, as the database makes them.

Two orders share both machines, so a machine's booking has to choose between them,
and two operations are the least of which one is not the last; one unit tells a
booked operation from an empty one.

With two attempts a message fails, backs off and fails for good, and two faults are
the fewest that do it; a third order or message stands behind a bad one. Groups of two
are the least with an order inside, and a failure of the first spreads the second. Four
messages in batches of three, so that a batch has two groups, were checked once beside
the run and keep the same properties. In
MachineHistory three moments are a link's last proof, its death and its noticing, and
a first fault can be that death and the second a crash or a failed booking. Three rows
and batches of two leave a row behind a full batch, and let the held one be the
first, the last or in between. A gateway's three units with one reset, one repeat
and two breaks repeat a total after a later one was booked and lose one between
connections.

A connection is used once, and connections are used in the order of their numbers.
The clock and the counts stop at their bounds, so the runs `booking`, `machine` and
`inbound` do not check for deadlock: a reader with nothing left to read waits, which
is what it does in the plant. Neither do the ErpSync runs: a row that cannot be read
stops an API's worker, as it does in the code.

**Fairness.** `Lease`: the clock moves; a running process polls, its claims get
their statements through, and it reads their answers. Nothing restarts a stopped
process. `RedundantReader` adds that the OPC server reports a changed value, that
a working node connects, that a stopped connection is torn down and that a booking
thread takes its steps. asyncio runs every ready task, threads run, and database
statements end (a statement timeout is a failure, which the bound stops); no step
of the plant, no fault and no lost link is fair. One fairness stands for each
loop (`Poll`, `Handle`, `Round`), as a loop is one sequential process.
`Adjustments`: a request that was begun ends, every endpoint's loop goes on and time
passes; no person has to decide anything. The loop's is strong fairness: others may take
the write lock again and again while it waits, and SQLite lets it in between two of
them (a wait that times out is a round that is cut, which the bound stops).
`ErpSync`, `UnsPublisher`: the worker goes on to its next step, after a failure to its
next cycle, and every backoff ends; what ERPNext still owes
(`Land`) and people are not fair. `MachineHistory`: the reader's own steps; neither
proof nor death of a link nor a booking's failure. `Inbound`: the poller alone,
which `inbound_poll_sql` runs for ever. All others are weak: a step that stays
possible is some day taken.

**What the violated runs show.**

* `booking_overlap`: `stop()` cancels the consumer task; the thread it was waiting
  for goes on, and `flush` books in a second thread from the same `last_counts`.
  Units are counted twice. The same thread can outlive a lost lease that its own
  node takes again.
* `workorders_postgres`: two requests complete the last two running operations of an
  order at once. Each still sees the other's running, so neither completes the order,
  and afterwards no operation is left whose completion would. The same overlap loses
  one of two additions to `good_qty`.
* `erp_file`: the file connector archives an order's file in `fetch_orders`, before
  the cycle imports anything, and acknowledges nothing. An import that raises, or a
  process that ends there, leaves every order of that fetch in the archive only.

**Where the code does less than its documents say, without a run of its own.** Each
shows as a counterexample when the named constant or property is changed.

* A stopped node keeps its lease until it runs out: `Shutdown` of Lease never calls
  `drop()`, while `redundancy.md` and `release` say that it lets go.
* A node paused past its lease is inside a booking beside the new holder (`OneBooker`
  with `Timely = FALSE`): the gate is a memory of the last renewal.
* On PostgreSQL two proposals for one setpoint each find nothing open on it, and if the
  second counts the rows after the first has committed, both are queued (`OneQueued` with
  `Serial = FALSE` and two people), although `propose` refuses what "is already open". In
  the same way `ClosedStays` and `WrittenAgainOnlyAfterCut` are violated: an approval
  that looked at a proposed row commits over its rejection, or over what another
  approval has had written. `WrittenWasApproved` still holds.
* A group of publishes that starts without a connection, as after a start with the
  broker away or after a failure, opens one for each message, and the later one of a
  topic may arrive first although nothing failed (`OldestFirstOnTheWire` in the bounds
  of `uns`). `uns.md` says that events go onto the wire oldest first, and in
  order when the broker returns. `uns_inflight = 1` avoids it, which is proved
  (`OneInFlightInOrder`).
* A disconnection whose `set_connection` raises is logged, and the `_Link` remembers it
  as written: the row stays CONNECTED, the state stays open through the outage, and
  the reconnection changes neither (`LossIsRecorded` with `Unwritten = {"raises"}`).
  `NothingAccruesUnseen` and `EndsAtEvidence` are violated too, since a later
  disconnection ends an interval that holds the first outage; `Follows` holds. The
  comment in `run` says that nothing until the next subscription reads as observed.
* With two endpoints every adjustment loop reads every approved recommendation, and
  the one that does not hold its node fails it before the one that does has tried
  (`Endpoint = {filling, baking}` with a setpoint each).
* A row of an API that cannot be read stops the worker in every cycle, before any
  import or delivery: `NeverStalls` without `Stalled`.
* An ERPNext entry that is made after the client's timeout stands beside the retry's:
  `OneEntry` without `outlived`.
* A connection that ends over a booking thread may open a state after the
  disconnection (`NothingAccruesUnseen` with `QuietStop = FALSE`), although
  `connection.py` says that nothing carries on accruing.
* A gateway with two totals in flight that sends both again may have a unit counted
  twice (`CountIsRise` with `Window = 2`): the older one is less than half of the
  newer, is taken for a reset, and the newer counts from it. `inbound.md` says that a
  redelivered total changes nothing. And `run`'s docstring says that baselines are
  rebuilt after a reconnection, but `last_counts` survives it.
* The SQL cursor steps over a row that is committed after a later one
  (`NothingSteppedOver` with `Ordered = FALSE`), as it does over equal positions that
  `max_rows` cuts; and behind a held row only one batch is recorded until it is fixed,
  though `sql.py` says that the rows after it still are.

## 5. The proofs

Each for any constants that satisfy the named assumptions; the prover is TLAPS
with Z3, Zenon and LS4. What must be assumed of a plant is a hypothesis of the
theorems that need it (`OneBox` or `Timely`, `QuietStop`, `OneEndpoint`, `Serial`,
`Unwritten = {}`, `Inflight = 1`, `Ordered`, `Window = 1`); section 4 says what the
code does without it.

* `LeaseProofs`: type correctness; `LeaseNeverStolen` from the invariant that a
  claim in flight read its clock in the past, paused nodes included;
  `GateHonestWhenTimely` and `OneWorkerWhenTimely` (assuming `Timely`) from
  `TimelyInv`: who works has a row whose expiry its next renewal, begun in time
  and answered within `MaxDelay`, still reaches, and nobody else's claim in flight
  can read a clock at or past it.
* `ReaderProofs`: CounterBooking on one box and RedundantReader on several. Both
  take the same steps of the reader (`BookingStep`), and what a step preserves is a
  lemma about that step which leaves open why only one connection can commit:
  * `Writers` are the connections from which a booking can still be committed, `Single`
    says that there is one at most, `NoneRejoins` that none becomes one except by
    connecting. `Quiet` says that a connection has one booking thread, so
    readings are in one place only;
  * `Follows`: `last_counts` is the committed baseline, or nothing if it
    could not be loaded, except between a commit and its update;
  * `Covers`: what is booked, plus everything still owed along the way
    baseline, batch, pending reading, counter (`Owed`, which skips falls), was
    really made. `NeverInvent` alone is not inductive: it says nothing of a
    reading that waits to be booked. `OwedSteps` and `OwedBooked` say how each
    operation changes what is owed.

  On one box (`OneBox`) `Single` holds because a box makes its connections one at a
  time. On several (`Timely`) the lease makes it hold: the module instantiates
  LeaseProofs, whose theorems hold of every behaviour of RedundantReader
  (`LeaseSpec`), and adds `BookerHolds`, that a box in a booking transaction holds the
  live row. The gate was open when the transaction began and the row outlives it
  (`LiveStays`), since a timely transaction ends within the tick. So
  `OneBookerWhenTimely`, and only the connections of the box that
  holds the live row are writers; and as a box tears its connections down before
  it asks for the role again (`OutIsTornDown`), none of them becomes a writer anew.
  `NeverInvent`, `BaselineIsBooking` and the refinement of ProductionCount follow on
  both sides, assuming `QuietStop`.

* `AdjustmentsProofs`: type correctness on any database. Then, where transactions run
  one at a time (`Serial`): `OneQueuedAlways` for any number of people and endpoints,
  since what an open request found is still so when it saves (`AsRead`), and nothing a
  loop records puts a row into the queue; `NeverWrittenAgain`, also for any number, from
  `Tallied`: a row that a round may still write has been written once for each cut at
  most, as only the endpoint of its machine writes it and keeps it in hand until
  that is recorded or cut. `WrittenAgainOnlyAfterCut` alone would let the next write
  exceed it. And for one endpoint (`OneEndpoint`) `ConclusionsStand`, from `LoopInv`: a row a round
  has read as approved can only have been rejected since, a row it verifies is
  written, and it holds rows only in the step that uses them. With two endpoints that
  is false. `OnlyApprovedIsWritten` needs one endpoint and no `Serial`: an approval
  that overlaps puts a row to approved, which is no reason against writing it.

* `WorkOrdersProofs`: type correctness on any database; then, where transactions run
  one at a time (`Serial`), the other five properties. `Steps` shows that each step of
  a request is one of seven kinds of step on the orders as they are, none of which mentions a
  view (`AtomicStep`): an open request's view is the database (`Atomic`). `Kept`
  then shows that these keep `LastCompletes`, `RunningIsStarted` and
  `ConfirmedIsBooked` together. The last needs the first, which is why no unit can be
  booked on an order whose completion was sent: a booking is on an operation that is
  not done, and a completed order has none.

* `ErpSyncProofs`: type correctness with `DueIsOwed` (what the worker has in hand is
  pending, whoever puts a message back); `OrdersAreKept` from `RecordedFirst`: an
  order that waits to be acknowledged is recorded. `OneEntryOfEach` from
  `SentIsThere`: a message about to be marked sent has arrived, and ERPNext
  has its entry. `OutboxIsDelivered`: every step of the worker is a step of
  AtLeastOnce or changes nothing it speaks of.

* `UnsPublisherProofs`: type correctness with `InHandIsOwed`; `TopicInOrder` from
  `InOrder`: a message that neither failed nor came late nor was spread beside a later one is
  enrolled before the later ones of its topic, and is in the batch or in the group
  with any of those until it has arrived, before them in a group that one connection
  carries. It rests on `OldestFirst`: whatever is due and older than a member of a batch
  or group is in it, wherever the limit falls. `OneInFlightInOrder` from `Alone`: with
  `Inflight = 1` a group has one message, and none is ever spread beside another. `OutboxIsDelivered` as above.

* `InboundProofs`: type correctness of both sides; `RecordedOnce` for any
  drivers' interleaving; `NoRowIsSteppedOver` where positions are committed in their
  order (`Ordered`), from `Behind`: the cursor, and the place a batch was asked from,
  are passed, and a batch leaves out nothing between that place and any row of it.
  `NoUnitTwice` for a gateway with one total in flight (`Window = 1`), from
  `Published`, `Climbing`, `BookedRise` and `Counted`: there are moments at which the
  total remembered, each total on its way and the one told last were shown, such that
  each follows those before it and no more is booked than was made at the first. The
  moments are in no variable of the model, so `Counted` says that they exist.

* `MachineHistoryProofs`: type correctness, with intervals that follow one another
  (`Timeline`) and `Linked`; then, assuming `QuietStop`, `Follows` from `Quiet` (no thread
  outlives its connection) and `Told` (the last state a live link was told is still to be
  taken, being booked, or open), whatever becomes of the `_Link`'s writes; and, assuming
  also that every one of those is made (`Unwritten = {}`), `NothingAccruesUnseen` and
  `EndsAtEvidence` from `Written` (what the `_Link` remembers is what the row says),
  `Blinded` (a link that answers was last proved after every blind
  moment) and `Evident` (the same of the intervals, the open one included). `EndsAtEvidence` alone speaks of intervals that are closed already.

Three properties are proved and in no run: `OneWorker`, which `GateHonest` implies,
`NothingBooksWhileHeld`, and, for groups of one, `OldestFirstOnTheWire`.

Where a proof needs induction (the largest number of a finite set, the states of a
batch booked one after another) it is over a set of numbers: `LeastNumber` and
`AllNumbers` follow from the library's `WFMin` and `NatLessThanWellFounded`, since
its induction theorems, which take an operator, are out of the provers' reach.

Only model-checked: the liveness properties `Takeover`, `CountedBySurvivor`,
`Concludes`, `NeverStalls`, `LossIsRecorded`, `RowsAreRead` and the publisher's
`NothingSteppedOver`, as liveness under fairness is out of the prover's reach; and what
the violated runs show.

Mutants: beside some definitions stands a variant with a slip of the kind this
code could have had (a WHERE clause that names too much, a count remembered too
early or never, a gate asked once). Each property is violated by one of them;
`PROJECT.json` says which.

## 6. Not modelled, and why

Everything marked `not_modelled` in `PROJECT.json`. Triggers and maintenance are on
the plan. Reports, statistics, dispatch rules, layout and configuration keep no state
that a model checker says more about than a test; simulators, recorders, profilers
and the lab, which are a large part of the source, stand in for a plant or
measure this one; the assistant's and agent's proposals end in calls of the services modelled
here. Processes, files, sockets, the OPC server, the ERP and the broker are the
environment.

Inside what is modelled: the text of reasons, labels, payloads and audit rows, units
of measure and real quantities (counts are small integers), the moments at which a
setting is read, and SQLAlchemy's pools and timeouts, which appear as steps that fail.
