# Verification of the tick pipeline

TLA+ models of the backend in `src/backend/app`, of its load test and of the
chart of its dashboard: a WebSocket feed of trades goes through a ring buffer, a
reorder buffer and aggregators, per symbol, into a database and to browsers. The
modules are translated from the code; comments and documentation of the code are
only quoted where a run shows that the code does something else.

## The system

One process, one asyncio event loop, one database file. Tasks interleave only
where the code awaits.

| Part | State | Operations | What is hard about it |
|---|---|---|---|
| Ring buffer (`ingest/ring_buffer.py`) | slots, head, size, dropped, pushed_total, a lock and a condition | push_nowait, push, push_blocking, drain_nowait, drain | wrap-around, overflow, producers and drainers on one condition, timeouts that race wakeups, cancellation |
| Sequencer (`ingest/sequencer.py`) | heap, newest event time, last trade id, counters | offer, poll_ready, flush_all | ticks out of order, repeated or missing; the watermark is event time |
| Candle aggregator (`processing/candles.py`) | open candle and bounded history per symbol, late_patches, last patch | apply, take_patch | late ticks, evicted buckets, copies that must follow a patch |
| VWAP and moving averages (`processing/vwap.py`, `moving_average.py`) | deques and running sums per symbol | update, value | incremental sums, eviction by event time of ticks that are not sorted |
| Pipeline (`processing/pipeline.py`) | all of the above, statistics, tasks | ingest, the consumer loop, _process_batch, the rate loop, start, stop | consumers that share aggregators, batches that release nothing, cancellation at stop |
| SQLite writer (`storage/sqlite_store.py`) | two buffers, flush task, the file | record_tick, record_candle, flush loop, stop, start | rows recorded during a flush, exceptions between taking the buffers and the commit, process death |
| Broadcaster (`api/ws_broadcast.py`, `ws_stream` in `api/routes.py`) | a bounded queue and a sender task per client | connect, disconnect, publish_nowait, publish_many_nowait, the sender loop | drop-oldest while the sender is suspended, peers that stall or vanish, a sender that dies before its handler |
| Coinbase client (`ingest/coinbase_client.py`) | stop and connected events, delay, counters | run, _handle_raw, stop | any await may raise or be cancelled; messages lost with a connection, the last match sent again |
| Store and routes (`storage/timeseries_store.py`, `api/routes.py`) | none | get_candles, get_candles_from_db, other reads | memory against database |
| Lifespan (`main.py`) | background tasks | start-up, shutdown, heartbeat | order of shutdown, restart on an old file |
| Load test (`benchmark/load_test.py`) | a ring, a producer, a consumer | run_batched, run_naive | a consumer that counts to n while the ring drops |
| Dashboard (`frontend/static/js/app.js`) | symbol, chart, socket, requests | loadCandles, selectSymbol, connectWs, handleEvent | answers and events in any order, reconnects |
| Tests, scripts | | | no state of their own |

Calls: the client calls `Pipeline.ingest` (synchronous); the consumer of a
symbol drains the ring, offers the batch to the sequencer, polls, and runs
`_process_batch`, which calls the aggregators, the averages and
`SQLiteWriter.record_*` without an await in between; then it awaits the event
sink, which in `main.py` is the broadcaster and does not suspend.

What makes the parts correct: the ring loses only its oldest items, counts them
and wakes who must be woken; the sequencer hands out every tick once and in
order up to the watermark, and its gap count is the truth about losses; a candle
is exactly its ticks and no copy of it goes stale; the database holds a moment
of the history, and a whole one after an orderly stop; one bad client or
connection costs nobody else anything; nobody waits for ever. The hazards, with
their lines, are listed in `PROJECT.json`.

## Modules

| Module | Models | How |
|---|---|---|
| `RingBuffer` | the synchronous part of the ring | a record of the attributes and an operator per method |
| `AsyncRingBuffer` | the ring with lock, condition and calling tasks | one action per segment between two suspensions; `pc` says where a task is suspended |
| `DropOldestQueue` | what the ring promises | a FIFO queue that drops its oldest element; `AsyncRingBuffer` implements it (`ImplementsQueue`) |
| `Sequencer` | the reorder buffer | record and operators; the heap is a set of entries with distinct `seq`, popped in the order of their `Rank` |
| `SequencerFeed` | a feed, polls and a final flush | `OfferTick`, `Poll`, `Flush`; auxiliary variables remember what was released when, and how late each tick was |
| `CandleAggregator` | apply with its four branches, take_patch | record and operators; `None` and `<<>>` for missing dictionary keys |
| `CandleFeed` | ticks in any order and the table of recorded candles | `ApplyTick` is the body of the timeframe loop of `_process_batch` |
| `Averages` | VWAP window, SMA, EMA | record and operators, exact fractions |
| `Pipeline` | how they are put together | `Ingest`, `Trip` (one trip of a consumer round its loop), `Sleep`, `RateTurn`, `Stop`; `running` is the consumer that has not suspended |
| `SQLiteWriter` | the flush protocol | one action per await of `_flush`, `Raise` at each of them, `Restart` anywhere |
| `Lifespan` | the server process from start to restart | instances of `SQLiteWriter` and `CandleAggregator` on shared variables; `Process` is `_process_batch` for one tick, `StopClient`, `StopPipeline`, `StopWriter` the `finally` of `lifespan`; `MemoryCandles` and `DbCandles` are the two reads of `TimeSeriesStore` |
| `Broadcast` | clients of the event stream | a handler task, a queue and a sender task per client; `PublishMany` is one burst; the socket may stall or break |
| `CoinbaseClient` | `run()` with the exchange and its connection | one action per await of `run()`; `wire` is what the connection still has to deliver |
| `Feed` | client, ring and sequencer of one symbol | instances of `RingBuffer` and `Sequencer`; `Read` calls `ingest`, `Consume` is the consumer loop as far as the sequencer |
| `LoadTest` | `run_batched` | producer and consumer await by await over `RingBuffer` |
| `Dashboard` | the chart and the server it follows | one action per browser callback; answers come back in any order |
| `FoldTheorems` | | what folds and sums compute, for the proofs |
| `*_proofs` | | the theorems about the module of that name |

`DropOldestQueue` is the abstract specification of two components: the ring with
all its tasks implements `DropOldestQueue!Spec`, and every client queue of
`Broadcast` takes only its steps, with `AddMany` for a burst published in one
step of the event loop.

Model-checked modules have an `MC` module with the values of their constants.
Operators named "Deviation from X" are plausible mistakes in X. They are used
nowhere; they exist so that each property can be shown to notice one.

Abstractions that matter:

* Items of the ring are numbered by their push, ticks of the pipeline by their
  arrival. Prices, quantities and times are small integers, sums are exact:
  float drift is not modelled.
* asyncio is modelled from how the code uses it. `Lock.acquire` on a free lock
  with no queue does not suspend; waiters are served first in, first out; a
  waiter of a condition takes the lock again whatever ended its wait. The form
  of `wait_for` that runs its argument in a task is included.
* aiosqlite: a transaction becomes visible at its commit as a whole; an
  exception anywhere before leaves nothing behind.
* `SQLiteWriter` records nothing after `stop()` was called, because `main.py`
  stops the pipeline first. `Lifespan` does not assume it: there the rows come
  from the pipeline and the order from `lifespan`.
* The websocket server: `accept()` and the registration of a client are two
  steps, and events in between do not reach it. `Dashboard` merges the
  registration with `onopen` of the browser.
* The exchange, as `coinbase_client.py` relies on it: it answers a subscription
  with its last match, then sends every match in the order of the trade ids; a
  connection that breaks loses a tail of its messages.
* lightweight-charts: `setData` replaces every bar, `update` appends a bar or
  replaces the last one and refuses an older one.
* In `Lifespan` a tick has price and quantity 1: versions of a candle differ in
  what they count. In `Feed` trades are made in the order of their times.
* The elapsed time of the rate loop, `flush_count`, `recv_time_ms`, the maker
  side, logging and `to_dict` are left out.

## Runs

| Run | Asks | Bounds and why they are enough |
|---|---|---|
| `RingMixed` | Does the ring account for every item, never drop in push_blocking, leave no drainer asleep beside items, and implement the queue? | two producers that take the lock, a drainer that also calls drain_nowait by itself, two slots, five pushes: the ring wraps twice, both producers can wait, every timeout and cancellation can happen at every suspension |
| `RingFair` | Is no producer asleep beside room, does every drain return, every waiting push get in, and every item leave? | one drain loop, two producers that wait for room, one of which also calls push_nowait, two slots, four pushes: a drainer can sleep beside an item nobody told it of, and only its timeout ends that |
| `SequencerFeed` | Order within and across batches, ties, gap counting | four offers out of three ids and four times with watermark 1: two ticks late within and beyond the watermark, equal times, repeated and missing ids |
| `Candles` | Are candles exact, history ordered, rows current, unplaced ticks counted? | five ticks of two symbols, four buckets, history of two: merge, close, patch of either entry, eviction, tick for an evicted or never opened bucket |
| `Lifespan` | Is the file a prefix of what was recorded, do its tables agree, does an orderly stop keep everything, do flushes and stop() progress? | four ticks over both processes, at two times in two buckets, so that one tick closes a candle and a later one patches it; one exception at any await of either flush, shutdown or death at every point, a restart on the file. A third run or bucket repeats what two show: a process knows the old file only as the rows that are there |
| `Pipeline` | Conservation across parts, candle rows backed by tick rows, events complete, sums exact, rings emptied, loop given back | five ticks of two symbols, rings of two, batches of two, buckets of 2 and 4 ms, watermark 1, window 2: overflow, a batch that releases nothing, late patches, VWAP eviction, stop anywhere |
| `Broadcast` | Is every client its own drop-oldest queue, does a reading client keep receiving, are dead ones forgotten? | two clients, queues of one, three events in bursts of one or two: a burst that overflows one queue and not the other, a queue that overflows behind a sender suspended in `send_json`, one client coming, stalling, breaking or going meanwhile. Queues are per client, so a third adds no interaction; that a longer queue keeps its order is proved (`ImplementsQueues`) |
| `Feed` | Are gaps counted exactly, repeats bounded by reconnects, delays right, and does the newest trade arrive? | four trades, three failures, a ring of two: the ring overflows, connections break before and after the subscription with any loss, the delay doubles 1, 2 and stops at 3 |
| `WriterPeriodicComment` | Does the periodic flush go on? (violated) | two rows, one exception |
| `PipelineFlushComment` | Is anything held after stop? (violated) | three ticks |
| `LoadTestReport` | Does the load test end and report? (violated) | two ticks more than the ring holds |
| `DashboardResyncComment` | Is a closed bar on a quiet, connected chart that candle? (violated) | three ticks, the two requests of a page load |

Deadlock is not checked where the bound on the input or an orderly end ends the
behaviour: `Candles`, `Lifespan`, `WriterPeriodicComment`, `Broadcast`, `Feed`,
`LoadTestReport` and `DashboardResyncComment`.

What some of the properties say, beyond their comments:

* `NoLostWakeup` is checked where everybody drains under the lock and
  `DrainerNotStranded` where everybody pushes under it: `drain_nowait` and
  `push_nowait` called by themselves notify nobody. Nothing in the program calls
  `drain_nowait` outside `drain` (the unit tests do). `Pipeline.ingest` calls only
  `push_nowait`, so in the program it is the timeout of a drain that ends its wait,
  and `PushedItemsLeave` is about that.
* `CandlesExact` takes the close as the code sets it, from the tick applied last. A
  late patch therefore passes, although it sets the close to the price of an older
  trade (`candles.py:112`).
* `GapCountExact` holds because in `Feed` ids arrive in order, as the code
  assumes of the exchange. For any order of arrival `SequencerFeed` has the
  weaker `GapNeverUndercounts`.
* `DuplicatesBounded` is about what the code does with a re-sent match: nothing.
  It goes into candles and sums a second time. The property says how often.
* `FileIsACut` is about one process, and no property forbids what a restart does.
  A candle row counts the ticks in the file of the process that wrote it: after a
  restart the first new version of a bucket replaces the complete row of the old
  process, and the older ticks of that bucket are then in the ticks table only. Nor does it survive eviction: a tick
  whose candle was recorded and has since left the history is in the ticks table
  and in no candle. The run has as much history as buckets; with a history of
  one and three buckets TLC finds the row that counts a tick too few. The theorem
  `FileAgrees` has this as its hypothesis, `ClaimsNoMore` needs none.
* `ShutdownKeepsAll` speaks of a `stop()` that returned. After a database
  exception `stop()` raises the exception of the dead loop again instead, and the
  last flush is not made.

### Fairness

* `AsyncRingBuffer!FairSpec`: a ready task is run and a timer fires
  (`WF(Run)`, `WF(Timeout)`), which the event loop guarantees; the drain loop
  calls drain again (`WF(CallDrain)`), which `_consume_symbol` does. Weak
  fairness is enough because the lock queue is first in, first out. Nobody is
  obliged to push, and a producer that calls push_nowait wakes nobody: the timer is
  then the only way out of the wait, and without it `PushedItemsLeave` fails. Calls
  are cancelled at any point, but not for ever (`<>[][NextNoCancel]_vars`): `stop`
  cancels each consumer once.
* `SQLiteWriter!FairSpec`: the flush task and stop() go on until they end.
  `stop()` need not be called, the database need not fail, but may.
  `Lifespan!FairSpec` says the same of the same steps.
* `Pipeline!FairSpec`: `batch_max_wait_ms` passes and the sink returns, so a
  consumer whose ring holds ticks makes its trip. That stands for the timeout of
  `drain`, and `RingEmptied` does not test it; `PushedItemsLeave` of `RingFair` does,
  with the wait, the timer and the lock as the ring has them.
* `Broadcast!FairSpec`: a ready sender runs, `accept()` comes back,
  `receive_text` raises once the peer is gone. A stalled peer need never read
  again, and nothing need be published.
* `Feed!FairSpec`: the awaits of the client come back or raise, the exchange
  answers a subscription, the consumer drains a ring that holds ticks. No trade
  need be made and no connection need break. The fairness of the consumer is
  written `WF_ring(DrainRing)`: `Consume` is the only step that drains, so it says
  the same as `WF_vars(Consume)` and keeps the sequencer out of an ENABLED.
* `LoadTest!FairSpec`: both tasks run, the sleeps end, the database answers.

### Disagreements the runs show

* `sqlite_store.py:9-10` against `sqlite_store.py:103`: one database exception
  ends the flush loop for good.
* `sequencer.py:75` against `pipeline.py:102`: flush_all is not used on
  shutdown.
* `load_test.py:105` and `:108` against `load_test.py:215`: with one dropped tick
  the test never reaches the report of how many were dropped.
* `app.js:132-133` against `app.js:106`: the answer that was to re-sync the chart
  can itself put back an older state, and a bar that has closed stays wrong.

Met while modelling, without a run of their own:

* `config.py:42-43` against `pipeline.py:91`: a full batch does not end the wait
  of a drain, because push_nowait notifies nobody.
* `sequencer.py:10` against `sequencer.py:68`: the added latency is not bounded by
  the watermark; without a later tick the last ones are held for ever.
* `candles.py:16-18` against `candles.py:90`: a candle emitted with `closed` is
  revised afterwards.
* `main.py:64-65` against `pipeline.py:119`: statistics are copied only when a
  batch releases a tick, so the heartbeat repeats old ones in a lull.
* `timeseries_store.py:3-9` against `routes.py:44` and `pipeline.py:142`: the tier
  is not picked automatically but by the `source` parameter, and the database has
  only candles that closed.
* `gap_count` is not taken back when a trade that was jumped over arrives late
  (`sequencer.py:58`); a late patch sets the close of a candle to an older price
  (`candles.py:112`); a late tick behind a newer one outlives the VWAP window
  (`vwap.py:38`); a batch size of zero makes a consumer spin (`config.py:44`).
* `app.js` has no case for `candle_patched`, so a late tick changes no chart until
  the next request; an answer for a symbol that is no longer selected is drawn
  (`app.js:106`); if the first request fails the page never opens its stream
  (`app.js:275`).

## Proofs

TLAPS checks every theorem for all values of the constants that satisfy the
assumptions in the modules (a capacity of at least one, a batch size of at
least one, a watermark in Nat, ...).

`AsyncRingBuffer_proofs`. Inductive invariant `IInv`: the type invariant, the
contents of the ring as the run of the newest push numbers (`DataInv`), and the
lock discipline (`LockInv`: who may hold the lock, who is queued, and that a
producer asleep saw a full ring). The last part is needed because `NoLostWakeup`
is not inductive: that a task about to wait still sees a full ring depends on it
holding the lock. `NoWakeupLost` supposes that no task calls `drain_nowait` by
itself (`DrainersLock`), since that makes room and wakes nobody. From `IInv`:
`TypeCorrect`, `OldestIsDropped`, `PushesAccounted`, `NoWakeupLost`,
`Backpressure`, and `RingImplementsQueue`, where every step maps to `Add`,
`Take` or a stutter. `DrainersAwake` has a hypothesis of its own, that no task
calls `push_nowait`, and one more conjunct, `DrainersIdle`: whoever is about to
sleep in drain, or sleeps, does so on an empty ring. The hypothesis is needed:
`push_nowait` adds items and wakes nobody. The arithmetic of the ring (what a
push and a drain do to the contents) is in lemmas about the operators of
`RingBuffer`.

`SequencerFeed_proofs`. The invariant relates every entry, held or released, to
the newest time seen and to how late it was. `WatermarkOrder` follows because a
held entry is newer than every threshold passed since it came, unless it came
late; `TicksConserved` (every tick offered is held or was released once, through
polls and `flush_all`; proved only), `QuietOrder` and `GapsCounted` have their
own parts.

`CandleFeed_proofs`. `TypeOK`, `HistoryOrdered` and `RowsFollowHistory` are
inductive only together: a late tick must find its bucket at one place of the
history (strictly increasing buckets), and a candle that closes must not write
over the row of an older one (all of the history is older than the open candle).
One lemma per branch of `apply` shows what happens to the symbol of the tick;
`OneSymbol` carries the rest. `FeedAssumption` says that `None` is not a candle.
`CandlesExact` needs `ExactInv` on top: what a candle says of the ticks of its
bucket, and that no tick and no row is newer than the open candle, so that a
bucket opened later starts from nothing. `UnplacedTicksCounted` compares
sums over all candles; `PlacedInv` says on which finite sets of keys they
differ from zero, and the effect lemma of each branch (`OpenFirstEffect`,
`MergeEffect`, `PatchEffect`, `CloseEffect`, `UnkeptEffect`) changes one summand.
`FullInvariance` is all of it.

`Lifespan_proofs`. About `SQLiteWriter` where it runs, in the server process.
`DurablePrefix` is not inductive: it says nothing of what is still in memory.
The invariant has three parts. `OneFlusher`: the flush loop and `stop()` never
flush at the same time, because `stop()` awaits the loop. `Cut(n, m)`: the file
holds the first n rows recorded, the batch in flight the next ones up to m, split
into its two lists, and the buffers the rest, unless an exception took the batch;
after one, both flushers are past flushing and the file stays where it is.
`Unstarted`: before the first flush there is no batch. A commit moves n to m, the
start of a flush m to the end, a row recorded during a flush extends the rest.
`NewestJoined` shows that the newest row of a key over two batches one after the
other is the newest over both. From the invariant follow `TypeCorrect` (with the aggregator
and the log of rows) and `PrefixIsDurable`.

The second half of the module is about the candles in the file. `CandleInv` has
a part for each place a candle can be. Memory (`MemoryOK`): the open candle and
those of the history count the ticks recorded of their buckets (`Tally`), and a
candle of the history is the last one recorded of its bucket (`Latest`). Rows on
their way (`Whole`): the last candle of each bucket counts its ticks, among all rows
recorded, among those a flush has taken and among those in the file; so
`CutsAreWhole` adds to `Cut` that a flush never cuts between a tick and its candle,
which holds because `_process_batch` records both without an await. The tables that
an older process left (`Sound`, `Older`). `ApplyWays` gives the five ways of a tick;
`MemoryStep` and `CountsStep` follow each of them, `TickRowAdds` and `CandleRowPuts`
follow the rows, `FileIsSound` joins a process to the tables it found, so that
`RestartKeepsCandles` can hand them on. `CandleInv` comes in two strengths. The weak one, no row
counts a tick too many, always holds (`CandlesInvariance`, `ClaimsNoMore`). The exact
one holds until a tick arrives whose candle was recorded and has left the history:
`FileAgrees` is `FileIsACut` under `[][NoneEvictedLate]_vars`.
`NothingIsLost` is `ShutdownKeepsAll`: `StopTakesAll` says that the flush of `stop()`
found the buffers as the last tick left them, so that the cut is at the end of
`recorded`; a closed candle in memory is then the newest row of its bucket, and
`AscendingCovers` shows that the ordered read returns it.

`LifespanAssumption` asks for finitely many times, natural numbers all, and a
`None` that is neither a candle nor a row.

`Broadcast_proofs`. `ClientInv`: what a client lost and what it has queued are no
more than it was offered, a registered client was offered everything published
since it joined, and one not yet registered has an empty queue. A burst is a fold of
`PutNowait`; `PutAll` shows that it leaves the newest `QueueMax` of queue and
burst. `ImplementsQueues` maps the state of every client to a `DropOldestQueue`:
a publish is `AddMany`, a `get` of the sender is `Take`, all else stutters.

`Feed_proofs`. `GapCountExact` and `DuplicatesBounded` are statements about one
order, `Order`: what the sequencer was offered, what the ring holds and what is on
the wire ascend in this order, with a repeat only where a subscription sent its
last match again. `Exact` ties gap_count and the newest id to it,
`RepeatsBounded` counts the repeats that came, those still under way and the one
a subscription may still bring against the reconnects. The losses of ring and
wire keep the order: one drops a prefix of what it holds and the other a suffix.
`BackoffFollowsFailures` is `DelayInv`: at every await but the sleep the delay is
that of the failures so far, and in the sleep that of one failure less, because
`run()` doubles it afterwards. `Attempts` bounds the reconnects of the model.
`FeedAssumption` of `Feed` names what the constants must satisfy.

`Pipeline_proofs`. The consumers of all symbols interleave with ingest and the
rate loop, but what a step does to a symbol stays in that symbol's ring, heap,
window and rows, which is what `Inv` says of each. The ring holds the newest
arrivals without a hole (`RingOK`); what the heap holds (`HeapOK`) and what was
processed are older arrivals, all different; and heap, processed and dropped add
up to what is no longer in the ring (`Conserved`). `PushKeepsRing` and
`DrainKeepsRing` follow the numbers through a full ring and a batch of any size,
`PollKeeps` shows that a poll takes every ready entry out of the heap once, in
the order of the heap. `TicksConserved` (`NothingLost`) is not inductive: it
compares sizes of sets of arrival numbers, and only the order of the numbers says
that a push reuses none; `Places` and `ThreeApart` count them. `_process_batch`
is a fold over ticks inside a fold over timeframes; `FrameKeeps`, `TickKeeps` and
`BatchTicks` say what a pass leaves alone and how the processed table grows.
`WindowOK` and `AveragesOK` then go tick by tick with that table. `WindowOK`:
the deque is the newest run of the processed ticks, both sums are folds over it,
and each tick before it was pushed out by a later one more than a window newer.
`SimpleOK`: the deque of an SMA is the last prices, at most the period, and the
sum is theirs. `Within`: an EMA is a weighted mean of numbers between the least
and the greatest price. From `Inv`: `NothingLost`, `WindowIsExact` and
`AveragesAreExact`.

The candles need more than `Inv`. `CandleInv` says of every timeframe and symbol
(`MemoryOK`): each candle in memory counts the tick rows of its bucket (`Exact`)
and is what the sink was told last of that bucket (`Told`); the history stands in
the order of its buckets, all below that of the open candle; and no tick row is in
a newer bucket than the open candle. The order is what makes the counts
inductive: only because no tick row is newer may a tick that turns the bucket
start its candle with a count of one, and only because the buckets in memory
differ does a late patch change one candle and leave the others told. The step
follows the two folds. A tick row is added before any timeframe has seen it, so
between the timeframes the invariant holds for some with the tick and for the others
without it (`Halfway`, `HalfwayStep`, `AllFrames`); in one timeframe `ApplyWays`
gives the ways of a tick (the first of its symbol, the same bucket, a newer one,
a late one in the history, a late one in an evicted bucket), and `SameHistory`,
`TurnedHistory` and `PatchedHistory` are the ways that change memory. Each new row
and event keeps what is said of the others (`BackedMore`, `MemoryStays`). From
`CandleInvariance`: `EventsAreComplete` and `RowsAreBacked`. Neither bounds the
history: a late tick for an evicted bucket makes no candle row, so no row is wrong.

`PipelineAssumption` and `AveragesAssumption` ask for natural ids, times, prices
and quantities, for a `None` that is neither a symbol, a number nor a candle, and
for timeframes that differ, as the keys of the dictionary `self.aggregators` do.

`FoldTheorems`. `FoldLeft` and `SumFunction` are defined by a recursion over data,
and the theorems of the library on such recursions take an operator as a
parameter, which the provers cannot instantiate. The module proves what is needed
for one constant operator `Op`, by induction for a set instead of a predicate
(`NatSetInduction`, `SeqSetInduction`); a proof instantiates the module with the
operator its model folds. They are lemmas for the proofs and say nothing of the
program by themselves. `FoldPasses` and `PassesFold` say that a fold is the
last of the values its operator passes through, `FoldConcat` and `FoldAppend` what
it does on longer sequences, `AddsConcat` that a fold which adds a weight per
element adds up over a concatenation. For `SumFunction`, `SumSplit` shows that the order of
summation makes no difference on a finite set, `SumAdd` and `SumChange` what
one more or one changed summand does.

Only model-checked is liveness, which is out of the prover's reach: `DrainReturns`,
`BlockedAdmitted`, `PushedItemsLeave`, `RowsReachDisk`, `StopReturns`, `RingEmptied`, `LoopYields`,
`NewestArrives`, `DeadClientsForgotten`, `NewestTradeArrives`.

## Not modelled

* Unit tests and scripts: no behaviour of the system.
* Reading the environment in `config.py`: the settings are CONSTANTS.
* `run_naive` and the report of the load test: one task after another, without
  a bound that could be reached.
* The tape, the averages and the health panel of the dashboard, markup, style:
  display of the last message.
* The two-second period of the statistics heartbeat; what it publishes is a
  `PublishMany` of one event.
* The REST routes that return a value another component keeps.
* Float drift of running sums, formatting, logging, SQL text.

## Plan

1. Done: ring buffer, sequencer, candles, averages, pipeline, writer, broadcast,
   lifespan with restart, exchange client, load test, dashboard.
2. Done: proofs about the ring, the sequencer, the candles, the writer in its
   process, the file it leaves, the broadcaster, the intake of a symbol, and the
   pipeline. Every safety invariant of a passing run is the subject of a theorem.

Three forms keep a module out of the prover's reach and are avoided in the
modules with proofs: a LAMBDA given to a fold (a named operator is used, so that
`FoldTheorems` can be instantiated with it), sorting with the library's recursive
operators (a rank is used), and a nested `@` in one EXCEPT.
