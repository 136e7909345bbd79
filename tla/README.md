# TLA+ models of the ETC toll middleware

The repository is a middleware between toll-lane front ends (FE) and a toll
operator's back end. Several nodes run the same process; they share an Oracle
database, a KeyDB (Redis) server and a Kafka cluster. This directory models the
parts whose correctness depends on interleavings, failures and order, checks
them with TLC on small instances and proves the main results with TLAPS.
Paths below are relative to `src/src/`.

## 1. Inventory

| Component | State | Operations | What is hard | What makes it correct | Module |
|---|---|---|---|---|---|
| Ticket ids (`services/ticket_id_service.rs`, `utils/ticket_id.rs`) | four relaxed atomics per process; database sequence | draw a number; prefetch a block | no lock: loads, stores and awaits of concurrent calls interleave; late and failed prefetches | numbers are unique, not 0, and every call returns | `TicketId`, `TicketIdRaces` |
| BECT handlers (`handlers/checkin`, `commit`, `checkout_reserve`, `checkout_commit`; `transport_transaction_stage*`; `account_transaction_repository.rs`) | ETDR memory cache per node; `TRANSPORT_TRANSACTION_STAGE`, `ACCOUNT_TRANSACTION` | check-in, check-in commit, checkout reserve, checkout commit | caches of several nodes against the row; check then act across awaits; writes whose answer is lost; restarts | phases in order; a charge belongs to the trip that is closed; Kafka is told what happened | `BectTransaction` |
| ETDR cache and retry (`models/ETDR/cache.rs`, `models/ETDR/sync/*`) | memory cache, KeyDB keys `etdr:*`, `etdr_retry:*`, locks | save, collect, lock, retry, give up, release | copies in many places; locks that run out; a row that changes between read and write | one node works on a ticket; retries end | `EtdrRetry` |
| Kafka producer (`services/kafka_producer_service`, `handlers/commit/kafka_payload.rs`, `main.rs`) | pending queue, bounded queue with a semaphore, KeyDB lists | hand over, drain, batch, send, persist, replay | start-up race, overflow, partial sends, total timeout, restarts | no event vanishes unless a bound or a fault explains it; all is sent in the end | `KafkaProducer`, `Outbox` |
| Kafka consumer (`services/kafka_consumer_service.rs`, `models/hub_events.rs`) | leader lock, partition tasks, offset files | elect, start, fetch, apply, save offset, reconnect | two leaders, parallel updates, failed updates, partitions that come and go | no message is passed over; the newest hub id stays | `HubConsumer` |
| Network (`network/*`, `logic/handler.rs`, `handlers/processor.rs`, TCOC request and response services) | connections, write channels, reply channels, router, audit rows | accept, authenticate, read, dispatch, reply, route, close | replies after close, reordering, full channels, one slot for the pending command | replies reach the connection that asked, or nobody; everything read is served | `Network` |
| IP blocking (`services/ip_block_service.rs`) | failure counter, KeyDB block | is_blocked, record_failure, record_success | counting in spawned tasks against expiry | a block stands for that many failures | `Network` |
| Sessions (`handlers/connect.rs`, `terminate.rs`, `network/session.rs`, `services/tcoc_session_service.rs`) | session map, its update channel, `TCOC_SESSIONS` | CONNECT, TERMINATE, handshake timeout, idle cleanup, logout | cancelled handlers, removals that overtake registrations | the map follows the connections; rows get a logout | `Sessions` |
| Write-retry buffers (`cache/data/db_retry.rs`) | buffer, KeyDB mirror | enqueue, flush, retry | a retry that overtakes newer writes; a full buffer | an announced session is stored | `Sessions` |
| Caches and reload (`cache/*`, `models/TollCache.rs`) | Moka + KeyDB + indexed maps | load, reload, fall back, look up and write back | loads against lookups and against each other; KeyDB that missed a version | memory does not go back, is not emptied, becomes fresh | `RatingCache` |
| Toll fee (`services/toll_fee/*`) | none | vehicle type, lists, prices, subscriptions, stages | order of the exceptions; prices about to change | what is charged is in force; free passage has a reason | `TollFee` |
| Rollback handlers, vehicle queries, TCD details, logging, configuration | | | | not modelled (section 6) | |

Components interact by calls within a process (a handler calls the ticket
service, the fee calculation, `save_etdr`, the database, `send_*_to_kafka`), by
channels (connection tasks, router, session updates), by the shared database and
KeyDB between nodes, and by Kafka with the hub. The `hazards` of `PROJECT.json`
list what is hardest to test, with the line where it bites.

## 2. Modules

### TicketId, TicketIdRaces

`currentPrefix`, `counter`, `nextPrefix` and `prefetchRequested` are the atomics
of `TicketIdService`, one set per node. A call is a request `r` with a program
counter `pc[r]`; each action is one atomic access (`LoadPrefix`, `Bump`,
`Install`, `ClearNext`, `Count`, `ClearFlag`, `ClaimPrefetch`, `StoreNext`) or
one await (`FetchSeq`, `PollTimeout`, `PrefetchSeq` and their failures).
Accesses take effect in program order, as on x86-64. Local ids (a UUID hash) are
negative and taken to be fresh. `MaxSeq` bounds the sequence. `TicketIdRaces`
adds the history of the processes on which calls met at a change of block, and
the inductive invariant.

### BectTransaction

The trips of one tag. `mem` is the ETDR cache of every node, `stage` and
`account` are the two tables, `frame` holds the locals of each call. Timestamps
keep only whether they are set, except the check-in time: the cache has it in
clock ticks, the row in whole seconds (`Second`), and the merge of cache and row
compares the two. Every database access may fail, and a write may take effect
although its answer is lost. `Forget` is an eviction or clean-up, `Restart` a
node that starts with an empty cache. Rows of `TRANSPORT_TRANS_STAGE_SYNC`, TCD
rows and KeyDB copies are left out, and so is the retry task (`EtdrRetry`).
`accepted`, `reserved` and `closed` are history: the tickets that passed the
checks of each phase.

### EtdrRetry

One tag's ETDRs in memory and at two KeyDB keys, with the flags that matter
(committed, saved, number of tries). `at[n]` is where the retry task of node n
stands: collect, pick and lock, read the row, update it, drop the key, mark,
release. A write to KeyDB and the write to memory that follows it are two steps
(`MarkKey`, `MarkSaved`; `GiveUp`, `Forget`). Handlers appear as far as they write
rows and ETDRs. `Fails` is a database or KeyDB access that fails, where a scan may
fail before its second prefix; it and `Crash` draw on one budget, `MaxFaults`.
`LockExpires` is the TTL, which may run out at any time.

### KafkaProducer, Outbox

`pending`, `moving`, `queue`, `batch`, `list` and `hands` are the places of an
event between its handler and `topic`. A push releases the buffer's lock before
it adds its permit (`owed`). The worker takes a batch, which it keeps by kind
(`batch`), sends the check-ins, then the checkouts; a failed attempt may have
delivered any part. What could not be sent is persisted, trimmed to
`MaxListLen`, and replayed; a `PersistFails` has pushed nothing, or pushed
before the trim failed, or before the EXPIRE after it. `dropped` is history. A permit that is dropped
returns to the semaphore, as in the code. The reconnect task is left out: a send
works or fails. Left out too is a produce that timed out and lands later
(`service.rs:922`): its records reach the topic at the failure or never. `NothingVanishes`
and `SentOnce` say nothing that such a landing would break; `Outbox` would have to
allow for a dropped event that is published after all.

`Outbox` is the abstract specification: events are accepted, kept, published,
dropped. `KafkaProducer` instantiates it with `kept` = all that is in one of the
places, `unsure` = failed sends and `faults` = KeyDB failures and crashes, and
`ImplementsOutbox` states that every step of the producer is one of its steps.

### HubConsumer

`lock` is the leader key in KeyDB, `role` where `run_checkin_hub_consumer` of a pod
stands, `task` its `consume_partition` tasks (slots), `file` its offset files.
A batch becomes a set of updates `todo` (the row and the cached ETDR of each
record), which run in any order, before the offset is saved. A save is two steps:
`OpenFile` empties the file (`fs::write` truncates), `SaveOffset` writes it. A write
that fails, or a crash between the two, leaves it empty, and the next task that
loads it begins at the end of the partition, as it does while there is no file yet:
a crash in the first batch starts again at the end. `saved` remembers the highest
offset saved and `cut` the files left empty. A hub id is named by the
partition and offset of its record; `late` remembers the records fetched after
a later one, again or by a pod with an older offset file. With `FixedPartitions` the
number of partitions is configured and metadata is not looked at again. Mishaps are
crashes, failed writes, broken connections, lock expiry and metadata changes,
`MaxEvents` together.

### TollFee

`Fees` is the set of what `calculate_toll_fee` may return: `SameStationFees` for a
trip that leaves where it entered, else `SegmentFees`, one choice of rows for the
stages (lookups by stage do not say which of several rows they return), whose
`SegmentFee` is `OneStage` at each place of the leg, or the first refusal. The
machine takes a trip through entry (vehicle type), cache load (which row of
several is kept for a key) and exit. Hours are the unit of time, as the queries'
tolerance is an hour. A vehicle type may be blank or unreadable, which the entry
skips and the exit takes for 1 (`ParsedVehicle`); a price query may fail, which is
taken for no price. What the checkout does with a refusal is outside: with
`allow_zero_fee_when_no_price_or_route` (`checkout_reserve/handler.rs:86`) it lets the
trip pass free, without details, so `FreeNeedsReason` is about the calculation only.

### RatingCache

One key of one cached table of one node: its version in the database, in each
map in memory and in KeyDB. A task (periodic load, load after a reconnection, a
lookup) is the sequence of steps it has left; between two of them others run.
`LoadCutShort` is a load of lists or subscriptions whose fetch fails, which the
loaders take for the end of the rows. `LoadFallback` leaves memory alone when KeyDB is
unreachable or has nothing of the table; when it has other rows it replaces memory,
with the row or without it. `overlap`, `missed`, `single`, `dropped` and `loaded` are
history for the named races; `dropped` says that a load since the last complete one
lacked the row. The
loads of different tables share no state, so the run follows each table in turn.

### Sessions

`phase`, `handler`, `timer` and `signal` are the task of a connection, its
CONNECT handler, the handshake timer and the close signal; `map` and `queue` the
session map and its update channel; `row`, `key`, `buffer` and `retry` the table,
the KeyDB copies of failed saves, the buffer and the retry task, which reads a key
(`RetryGet`) and inserts what it read (`RetryInsert`) in two steps. An insert may report
an error though it stored the row, and may panic, after which nobody retries it.
Time is left out: a timer may fire and a session may be idle at any moment. `Limits` is a set
of bounds, each for behaviours of one sort; one is chosen initially.

### Network

A frame is its kind and number. `phase` and `at` are the task of a connection:
pre-authentication, key loading, the main loop with its three select branches
(read, write, timeout), dispatch, clean-up. A write is two steps: the task takes the
frame (`StartWrite`) and comes back when the client has read it (`Write`), or never.
`out` is the write channel, with the frame in hand at its head,
`requests` and `replies` the reply channels with their permits, `closing`,
`closed` and `sending` the router. `row`, `answered` and `post` are the audit
rows and the tasks that write them (a save may report an error though it stored
the row: `told`), `fails`, `until`, `recording` and `removing` the IP block, which an
accept that finds it expired removes in a step of its own. A CONNECT may be refused with a reply and
without a session, or before it is saved (`misconnect`). What a command does beyond its reply and its rows is in other modules.
`Sessions` and `Network` meet in the closing of a connection: `Network` keeps
whether there is a session, `Sessions` how it comes and goes.

## 3. Runs

| Run | Instance | Shows |
|---|---|---|
| `ticket_races` | 3 calls on one process, 1 on another, blocks of 2, 3 sequence values | `NonZeroTicket`, `UniqueUnlessRaced`, `EveryCallReturns` |
| `ticket_unique` (violation) | 4 calls on one process | two calls return the same number |
| `bect_two_nodes` | one trip over two nodes, 2 reserves, one loss | `PhasesInOrder`, `MessagesFollowPhases` |
| `bect_two_trips` | two check-ins of one tag on one node, one call of each later kind | `PhasesInOrder`, `ChargesBelongToClosedTrips` for each of two tickets |
| `retry_two_nodes` | 2 nodes, 1 ticket, 2 tries, 2 faults | `OneWorkerPerTicket`, no count at the limit, `Drained`: both memories, keys and locks come to rest |
| `retry_stored` (violation) | 1 node, 1 fault | an ETDR is marked as saved without a row |
| `kafka_outbox` | 3 events, capacity 2, lists of 1, one failure of each kind, one restart | `NothingVanishes`, `SentOnce`, `Drained`, `ImplementsOutbox` |
| `hub_consumer` | 2 pods, 1 partition, 2 messages, 2 mishaps | `NothingSkipped`, `NewestHubIdWins`, `TwoReadersNeedExpiry`, `OffsetsAdvance`, `ResumesFromFile`, `CaughtUp` |
| `toll_fee` | 100,800 trips over 3 tolls, 3 stages and 6 price tables | `OneDetailPerStage`, `ChargedPriceInForce`, `FreeNeedsReason`, `RefusedOnlyAroundChange` |
| `rating_cache` | each of 7 tables, 2 versions, 1 lookup, 2 events | `NeverBack`, `EmptyOnlyInReload`, `MapsAgree`, `EventuallyFresh` |
| `sessions` | 1 or 2 connections, 3 session ids, buffer of 1, up to 3 outages | `MapFollowsConnections`, `SavesKept`, `OpenRowsHaveAnEnd`, `EventuallySettled` |
| `network` | up to 3 connections and 3 frames, channels of 2, one reply in flight | `OpenNotDropped`, `RepliesMatchRequests`, `TerminateCloses`, `TollsInTheirRow`, `BlocksEarned`, `Served` |

*Bounds.* Blocks of two numbers make the end of a block, the prefetch and the
change of block happen within three draws; a second process shows that the
sequence keeps processes apart. Two ticks per second and three ticks give
check-ins in the same and in different seconds; two calls of a kind are what the
races of the handlers need, and two tickets of one tag let cache, row and request
name different trips; the proofs cover any number of nodes, calls and
trips. Two tries and two faults reach giving up, a crash with the lock held, and
two copies that disagree. Queues of two and lists of one overflow with three
events. Two messages of one ticket are the least that can be applied out of
order; with three, a pod can come back with an old offset file behind a newer
message, which `NewestAlwaysWins` covers for a log of any length (a third
message takes the run past five minutes). Two events let a row change while KeyDB is down, or the database fail
during a load. A buffer of one overflows with two failed saves. Channels of two
frames and a limit of one reply in flight fill within three frames; `Limits` of
`Sessions` and `Network` keep apart sorts of behaviour (many commands, many
pings, retried requests, several connections) whose product would be too large.
Deadlock is not checked: calls, events and messages are finite, and a system
that has handled them rests.

*Fairness.* Weak fairness is assumed of started calls, spawned tasks and loops,
which the runtime polls until they finish; of TTLs, timers of loops and outages,
which end; and of the Kafka init loop. `HubConsumer` assumes strong fairness of
one thing: of infinitely many reconnections one succeeds. It is not assumed that
a client ever calls, closes or reads: `Network.Write`, which waits for the client
without a timeout, is under no fairness. `Served` therefore excepts the connection
whose own client does not read, and the one that waits to put a pong into its own
full channel, and shows that neither holds up the others. Failures and crashes are bounded in
number, so liveness reads "whatever fails for a while".

## 4. Proofs

All theorems hold for any number of nodes, calls, tickets and events, from the
named assumptions on the constants in the component modules.

* `TicketIdProofs`. `UniqueUnlessRaced` is not inductive. `IInv` (in
  `TicketIdRaces`) adds that every sequence value around came from the sequence
  (`FromSequence`), is known to one process only (`Owned`), that a prefetched
  value is nowhere else until it is stored (`PrefetchFresh`), and, for every
  process on which calls have not met at a change of block (`Calm`), that the
  block in use has given out only suffixes up to the counter and the next block
  none. `TicketTypes`, `TicketsNonZero`, `TicketsUniqueUnlessRaced` follow.
* `BectProofs`. `IInv` says that whatever a cache, a row or a call's locals
  claim to have happened to a ticket did happen (`Truthful`), that a reservation
  somebody holds exists and is of their ticket (`Reservation`), and what a call
  relies on at each point (`Sound`). `BectTypes`, `PhasesAlwaysInOrder`,
  `ChargesAlwaysBelong` and `MessagesAlwaysFollow` follow.
* `EtdrRetryProofs`. Who works on a ticket whose lock never ran out holds its
  key, and nobody else does; `OneWorkerAlways` follows. `RetryTypes` says that
  merging, removing duplicates and counting keep the lists and counts within
  their types and limits (`MergeType`, `DedupeType`, `LargestCount`).
* `KafkaProofs`. Lemmas on sequences (`AppendSet`, `HeadTailSet`, `ConcatSet`,
  `SplitSet`) say what appending, taking and cutting do to the set of elements;
  from them every hand-over keeps the union of the places, the topic and the
  dropped events (`Way`). `IInv` adds to `NothingVanishes` that the batch is
  empty between batches and that the init task holds events only while it moves
  them (`NothingLeftOver`): without it a new batch or a drain could overwrite
  events. `KafkaTypes` and `NothingEverVanishes` follow. `SentOnce` needs also
  that an event nobody handed over is nowhere (`Fresh`); the places are then
  disjoint, so what leaves one of them leaves `kept`, and every step of the
  producer is one of `Outbox` or a stutter (`ProducerImplementsOutbox`).
* `HubProofs`. `IInv` says what a partition task holds against its offset file
  and its messages (`TaskSound`, `FileSound`), and who may hold the leader lock
  (`LockSound`, `OneReaderEach`). `NothingEverSkipped` and `OneLeaderReads` follow.
  A cut-off save empties the file, so what advances is not the file but the highest
  offset saved: `OffsetInv` adds that a file once written is empty only while it is
  saved or because a save was cut off (`SavedSound`), and that, until a partition came
  back, a file that is not empty holds the highest offset saved, and tasks read at or
  above it (`SavedAhead`). The action properties `OffsetsAlwaysAdvance` and
  `AlwaysResumesFromFile` follow. `OrderInv`, inductive upon
  `IInv`, adds that what was written had been fetched (`HistorySound`), that a
  second reader of a partition is noticed (`DoubledSeen`), and that a record
  still to be done is the last one fetched but for its own batch, or late
  (`NewestToDo`); `NewestAlwaysWins` follows. A proof attempt showed that the
  property needs `late`: a record fetched for the first time may be behind a
  newer one that another pod, which began at the end, has handled.
* `RatingCacheProofs`. A task has one question left, or the rest of one plan of
  one version (`TodoSound`); while tasks do not overlap, what is due is the plan
  of one task (`OneWriter`). An empty answer is then written only before anything
  was loaded, or after a load that lacked the row (`EmptyFirst`, `Emptied`), from which `EmptyOnlyWhileReloading` follows, and all
  maps have or get one version (`Agreeing`), hence `MapsAlwaysAgree`. For
  `NeverBackAlways` fills go forward (`FillsForward`) because what memory holds is
  in KeyDB or about to be (`KeydbFollows`), where a load without the database
  takes it from, and stores take KeyDB forward (`StoresForward`).
* `RatingCacheProofs`, last part: the fee of a trip (`TripSpec` of `TollFee`), from
  `TollFeeAssumption` (legs have stages, exception lists are sequences, times are
  integers, the load is before the exit). The rest is arbitrary: tolls, legs and
  their lengths, price rows, lists, subscriptions. `TripInv` says that the fee is
  one of `Fees` for the prices of the load. What a load keeps is a row of the table, active at the
  load, under its own key (`LoadKeeps`): the newest row of a key exists because
  active rows take effect by a known time (`NewestKept`), and the first entry of
  a list because places are natural numbers (`FirstPlace`). Hence a lookup gives a
  row for the stage and vehicle type that is in force or was active at the load
  (`StagePrice`, `TollsPrice`, `WantedVehicle`), a stage is accounted for or refused
  (`StageSound`, `StageNamed`), and so is a leg (`LegSound`, `SegmentNamed`).
  `DetailForEachStage`, `ChargesAreInForce`, `FreePassHasReason` and
  `ExpiredOnlyAroundChange` follow. `SegmentFee` and `FirstEntry` are stated over the
  places of their lists, not as folds, which would need induction over data.
* `SessionsProofs`. `IInv` says what a CONNECT or TERMINATE handler knows at each
  point (`HandlerSound`), that an insert of an ended connection is followed in the
  update channel by its removal (`QueueSound`), and what the flushing task may have
  in hand (`RetrySound`). `MapAlwaysFollows`,
  `SavesAlwaysKept` and `OpenRowsAlwaysEnd` follow.
* `NetworkProofs`. `IInv` has one part per queue. `InputSound`: the frames of a
  connection wait in order, behind the one its task is about. So a frame that was
  answered (`Past`), or whose reply was handed over (`Gone`), stays so, which
  `Stable` states for every step. `AuditSound`: tolls are of answered requests,
  which are never saved again; else a later row could make a right entry wrong.
  `RouteSound`: replies on their way are of frames their connection is done
  with, so a reply is given behind those of its connection. `OrderSound`: the
  reply channels keep the order, and what overtook a reply overlapped with it in
  `sending`. `PendingSound`: TERMINATE is remembered from its answer on, until
  the connection ends or a later command is taken. `LifeSound`: open connections
  are active and whatever the router calls closed has ended. `Capacities` needs
  that there are finitely many connections (`NetworkAssumption`).
  `NetworkTypes`, `OpenNeverDropped`, `TerminateAlwaysCloses`,
  `TollsAlwaysInTheirRow` and `BlocksAlwaysEarned` follow. `OnePlace`, inductive
  upon `IInv`, says that a reply is being sent, or in the write channel, or
  written, never two of them: what the router takes up is behind all that its
  connection got (`OrderSound`). `RepliesAlwaysMatch` follows from it, `RouteSound`
  and `OrderSound`: answers are to the client's own requests, at most one for
  each, in order but for those sent together. Each inductive invariant was first checked with TLC as an invariant of
  the component's run.

Only model-checked: the liveness properties `Served`, `CaughtUp`, `Drained`,
`EventuallySettled`, `EveryCallReturns` and `EventuallyFresh` (liveness under
fairness is out of the prover's reach). Every other property of a passing run is
proved.

## 5. What disagrees with the repository's own words

With a run:

* `ticket_unique`: "unique" ids (`utils/ticket_id.rs:1`) can repeat.
* `retry_stored`: a retry that skips its insert answers "saved" (`retry.rs:41`).

Seen while modelling, and visible in the modules:

* A commit whose row update fails is cached and told to Kafka as committed
  (`handlers/commit/handler.rs:389`); storing it is left to the retry task.
* "Update only when null" (`account_transaction_repository.rs:169`) is checked
  before, not in, the update: two checkout commits of one trip both complete its
  reservation (`handlers/checkout_commit/handler.rs:89`).
* A cached check-in in milliseconds beats its own row in seconds and hides the
  row's checkout (`handlers/checkin/common.rs:560`), although "if same second
  prefer record from DB" (line 544).
* The retry writes back a row it read before a commit updated it
  (`models/ETDR/sync/merge.rs:37`), although the merge "keeps the database's
  value" (line 9): the commit is lost.
* A ticket given up by the retry task is collected again from `etdr:{etag}`
  (`constants.rs:379`).
* Permits of the producer queue never decrease, so `pop` spins on an empty queue
  (`kafka_producer_service/service.rs:253`, 288, 298). A handler that found no
  producer can push to the pending queue after it was drained (`service.rs:64`);
  nobody looks at it again, which is why `Drained` leaves that queue out.
* `consume_partition` resets its error counter with every partition client
  (`kafka_consumer_service.rs:233`), so fetches that fail never add up to the
  reconnection "after 5 consecutive errors" (line 220); `CaughtUp` excepts it. A
  leader whose client cannot be built returns while its renewal keeps the lock
  (line 628).
* `save_offset_to_file` truncates the file before it writes it
  (`kafka_consumer_service.rs:39`), and an empty file reads as none: after a save that
  was cut off the consumer starts at the end of the partition
  (`ResumesFromFile` names this as the only reason).
* A price that starts up to an hour later replaces the one in force in memory
  (`cache/data/price_cache.rs:72`): trips are refused until then
  (`RefusedOnlyAroundChange` allows for it).
* The loaders of lists and subscriptions take a failing fetch for the end of the rows
  (`toll_fee_list_cache.rs:410`, 472, 531; `subscription_history_cache.rs:132`), and the
  fallback to KeyDB drops rows that KeyDB lacks (`cache_manager.rs:166`): rows
  vanish until the next complete load (`EmptyOnlyInReload` names both).
* A client that stops reading holds the task of its connection for good
  (`network/connection.rs:241`).
* A block of an address that is written between the check and the removal of an
  expired one is removed with it (`ip_block_service.rs:62`).
* `get_toll_fee_list_context` takes a miss for an empty list
  (`cache/data/toll_fee_list_cache.rs:73`), although "a miss is queried in the
  database" (line 48): a listed vehicle is rated without its lists before the
  first load and during a reload.
* `CACHE_LOAD_FLOW.md` says that the KeyDB fallback does not write KeyDB; it does
  (`price_cache.rs:139`).
* "logout_datetime updated when connection closes" (`handlers/connect.rs:283`):
  not when the UPDATE fails, the handler was cut off, the save was retried later,
  or the process restarted (`OpenRowsHaveAnEnd`).
* A pong before authentication is only queued, and written once other data
  arrives (`network/connection.rs:71` says it is returned for each ping).
* While the pending command is TERMINATE, any write, of an earlier reply or a
  pong, closes the connection (`network/connection.rs:252`), so the reply to
  TERMINATE itself may never be sent. The TERMINATE of a handshake timeout needs
  a session that does not exist, and is never sent.
* "keep 1:1 pair" of request and response rows (`handlers/processor.rs:251`)
  holds for invalid commands only: for valid ones the response is saved though
  the request was not, and a failing handler leaves a request without response.
* `process_request` reads request and session ids of CONNECT, TERMINATE, vehicle
  queries and checkouts at bytes 8 and 16, `fe_protocol.rs` puts the version at 8
  and the request id at 12: the audit rows of these commands carry mixed ids.
* The TCOC request, response and session services build a new cache object for
  each call, so their caches have no effect.

## 6. Not modelled, and plan

Not modelled: rollback handlers (they answer status 0 and change nothing),
vehicle queries (read-only), the denylist (a pure match of an address), logging,
configuration, encryption, row mapping, and functions that nothing calls. The
Kafka producer's reconnect task, the ETDR cache's indexes and clean-up, and TCD
rows with their lock are left out of modules that model their neighbours.

Next, in this order:

1. `EtdrCache`: indexes, eviction and clean-up against the plain map they stand for.
2. The TCD lock and pending TCD rows.
