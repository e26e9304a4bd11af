------------------------------ MODULE Pipeline ------------------------------
(***************************************************************************)
(* backend/app/processing/pipeline.py: per symbol a ring buffer, a         *)
(* sequencer and a consumer task, and the candle aggregators, the VWAP and *)
(* the moving averages they all feed.  The parts are the operators of      *)
(* their own modules; this module is how Pipeline puts them together.      *)
(*                                                                         *)
(* Tasks of one event loop: a step is one consumer's trip round its loop,  *)
(* one ingest, one turn of the rate loop.  drain does not suspend while    *)
(* the ring holds items and the sink on_events need not suspend either, so *)
(* a consumer may make many trips in which nothing else runs: running      *)
(* names it.  It is None when every consumer is suspended, in drain until  *)
(* batch_max_wait_ms or in the sink.  Nobody else uses the lock of a ring, *)
(* so drain never waits for it (AsyncRingBuffer has the general case).     *)
(***************************************************************************)
EXTENDS Averages

CONSTANTS
  Symbols,
  Ticks,            (* the ticks the exchange may send                     *)
  RingCapacity, BatchMax, WatermarkMs, CandleHistoryLen,
  Timeframes,       (* lengths of the buckets in ms, in their order: the   *)
                    (* keys of a dictionary, so each is there once         *)
  MaxIngests        (* bound of the model: how many ticks are ingested     *)

Ring    == INSTANCE RingBuffer WITH Capacity <- RingCapacity
Order   == INSTANCE Sequencer WITH Watermark <- WatermarkMs
Agg(tf) == INSTANCE CandleAggregator WITH BucketMs <- tf, HistoryLen <- CandleHistoryLen

CandleType ==
  [symbol : Symbols, bucket : Nat, open : Nat, high : Nat, low : Nat, close : Nat,
   volume : Nat, count : Nat, closed : BOOLEAN]

ASSUME PipelineAssumption ==
  /\ RingCapacity \in Nat \ {0}
  /\ BatchMax \in Nat
  /\ WatermarkMs \in Nat
  /\ CandleHistoryLen \in Nat
  /\ Timeframes \in Seq(Nat \ {0})
  /\ \A i, j \in DOMAIN Timeframes : Timeframes[i] = Timeframes[j] => i = j
  /\ None \notin Symbols /\ None \notin Nat /\ None \notin CandleType
  /\ \A tick \in Ticks : {tick.id, tick.time, tick.price, tick.quantity} \subseteq Nat
  /\ MaxIngests \in Nat

VARIABLES
  bufs, seqs,       (* ring_buffers and sequencers, by symbol              *)
  aggs,             (* candle_aggs, by timeframe                           *)
  vwaps, averages,  (* vwap and ma_tracker, by symbol                      *)
  stats,            (* the SymbolStats                                     *)
  counts,           (* _msg_counts_window                                  *)
  running,          (* the consumer that has not suspended, or None        *)
  stopped,          (* stop() has been called                              *)
  rows,             (* what persistence was given, in order                *)
  events            (* what the sink was given, in order                   *)

results == <<aggs, vwaps, averages, stats, counts, rows, events>>
vars    == <<bufs, seqs, results, running, stopped>>

NoStats ==
  [total |-> 0, lastPrice |-> 0, vwap |-> <<0, 1>>, averages |-> NoAverages, rate |-> 0,
   dropped |-> 0, outOfOrder |-> 0, gaps |-> 0, depth |-> 0]

FrameSet == {Timeframes[i] : i \in DOMAIN Timeframes}

Init ==
  /\ bufs = [s \in Symbols |-> Ring!EmptyBuffer]
  /\ seqs = [s \in Symbols |-> Order!EmptySequencer]
  /\ aggs = [tf \in FrameSet |-> Agg(tf)!EmptyAggregator]
  /\ vwaps = [s \in Symbols |-> NoWindow]
  /\ averages = [s \in Symbols |-> NoAverages]
  /\ stats = [s \in Symbols |-> NoStats]
  /\ counts = [s \in Symbols |-> 0]
  /\ running = None
  /\ stopped = FALSE
  /\ rows = <<>>
  /\ events = <<>>
-----------------------------------------------------------------------------
Ingested == FoldSet(LAMBDA s, sum : bufs[s].pushedTotal + sum, 0, Symbols)

(* ingest: a tick of a symbol that is not configured is ignored.  The      *)
(* arrival number only tells ticks apart.                                  *)
Ingest(tick) ==
  /\ running = None
  /\ tick.symbol \in Symbols /\ Ingested < MaxIngests
  /\ LET s == tick.symbol
         arrived == [symbol |-> s, id |-> tick.id, time |-> tick.time, price |-> tick.price,
                     quantity |-> tick.quantity, arrival |-> bufs[s].pushedTotal + 1]
     IN  bufs' = [bufs EXCEPT ![s] = Ring!PushNowait(@, arrived)]
  /\ UNCHANGED <<seqs, results, running, stopped>>

-----------------------------------------------------------------------------
(* _process_batch, as a fold over the released ticks of a record of what   *)
(* it changes.                                                             *)
TickRow(tick)      == [kind |-> "tick", tick |-> tick]
CandleRow(tf, c)   == [kind |-> "candle", frame |-> tf, candle |-> c]
Event(type, tf, c) == [type |-> type, frame |-> tf, candle |-> c]

IfAny(x, entry) == IF x = None THEN <<>> ELSE <<entry>>

\* Deviation from ApplyFrame: the sink is not told of a patch.
ApplyFrameQuietly(p, tf) ==
  LET after   == Agg(tf)!Apply(p.aggs[tf], p.tick)
      closed  == Agg(tf)!ClosedBy(p.aggs[tf], p.tick)
      current == after.open[p.tick.symbol]
  IN  [p EXCEPT !.aggs[tf] = Agg(tf)!TakePatch(after),
                !.rows = @ \o IfAny(closed, CandleRow(tf, closed))
                           \o IfAny(after.lastPatch, CandleRow(tf, after.lastPatch)),
                !.events = @ \o IfAny(closed, Event("candle_closed", tf, closed))
                             \o <<Event("candle_update", tf, current)>>]

\* One timeframe, for the tick in hand: apply, then persist and announce what closed or changed.
ApplyFrame(p, tf) ==
  LET after   == Agg(tf)!Apply(p.aggs[tf], p.tick)
      closed  == Agg(tf)!ClosedBy(p.aggs[tf], p.tick)
      patched == after.lastPatch
      current == after.open[p.tick.symbol]
  IN  [p EXCEPT !.aggs[tf] = Agg(tf)!TakePatch(after),
                !.rows = @ \o IfAny(closed, CandleRow(tf, closed))
                           \o IfAny(patched, CandleRow(tf, patched)),
                !.events = @ \o IfAny(closed, Event("candle_closed", tf, closed))
                             \o IfAny(patched, Event("candle_patched", tf, patched))
                             \o IfAny(current, Event("candle_update", tf, current))]

\* VWAP, averages and the per-tick statistics.
UpdateStats(p, tick) ==
  LET vwap  == UpdateVwap(p.vwap, tick)
      means == UpdateAverages(p.averages, tick.price)
      stat  == [p.stat EXCEPT !.total = @ + 1, !.lastPrice = tick.price,
                              !.vwap = Vwap(vwap), !.averages = means]
  IN  [p EXCEPT !.vwap = vwap, !.averages = means, !.count = @ + 1, !.stat = stat,
                !.events = Append(@, [type |-> "tick", tick |-> tick])]

\* Deviation from ProcessTick: the tick is recorded after its candles.
ProcessTickLate(p, tick) ==
  LET framed == FoldLeft(ApplyFrame, [p EXCEPT !.tick = tick], Timeframes)
  IN  UpdateStats([framed EXCEPT !.rows = Append(@, TickRow(tick))], tick)

ProcessTick(p, tick) ==
  LET recorded == [p EXCEPT !.tick = tick, !.rows = Append(@, TickRow(tick))]
      framed   == FoldLeft(ApplyFrame, recorded, Timeframes)
  IN  UpdateStats(framed, tick)

ProcessBatch(s, ready, buf, seq) ==
  LET p == FoldLeft(ProcessTick,
                    [tick |-> None, aggs |-> aggs, rows |-> rows, events |-> events, vwap |-> vwaps[s],
                     averages |-> averages[s], stat |-> stats[s], count |-> counts[s]],
                    ready)
  IN  /\ aggs' = p.aggs /\ rows' = p.rows /\ events' = p.events
      /\ vwaps' = [vwaps EXCEPT ![s] = p.vwap]
      /\ averages' = [averages EXCEPT ![s] = p.averages]
      /\ counts' = [counts EXCEPT ![s] = p.count]
      /\ stats' = [stats EXCEPT ![s] =
           [p.stat EXCEPT !.dropped = buf.dropped, !.depth = buf.size,
                          !.outOfOrder = seq.outOfOrder, !.gaps = seq.gapCount]]
-----------------------------------------------------------------------------
HasTurn(s) == ~stopped /\ running \in {None, s}

BatchSize(s) == Ring!DrainCount(bufs[s], BatchMax)

OfferTick(seq, tick) == Order!Offer(seq, tick)

\* The sequencer after the drained batch has been offered.
Offered(s) == FoldLeft(OfferTick, seqs[s], Ring!DrainedItems(bufs[s], BatchSize(s)))

\* Deviation from Drain: a batch that is not full is left for later.
DrainFull(s) ==
  /\ HasTurn(s) /\ bufs[s].size >= BatchMax
  /\ bufs' = [bufs EXCEPT ![s] = Ring!DrainNowait(@, BatchSize(s))]

\* The drain at the top of the loop, when it has something to return.
Drain(s) ==
  /\ HasTurn(s) /\ bufs[s].size > 0
  /\ bufs' = [bufs EXCEPT ![s] = Ring!DrainNowait(@, BatchSize(s))]

\* Deviation from Trip: a batch that releases nothing is not offered.
TripUnoffered(s) ==
  /\ Drain(s)
  /\ LET offered == Offered(s)
         ready   == Order!TicksInOrder(Order!ReadyEntries(offered))
     IN  \/ ready = <<>> /\ running' = s /\ UNCHANGED <<seqs, results>>
         \/ /\ ready # <<>>
            /\ seqs' = [seqs EXCEPT ![s] = Order!PollReady(offered)]
            /\ ProcessBatch(s, ready, bufs'[s], offered)
            /\ running' \in {s, None}
  /\ UNCHANGED stopped

(* One trip of _consume_symbol: drain a batch, offer it, poll.  With       *)
(* nothing ready the loop goes on without suspending; so it does after the *)
(* sink, unless the sink suspends.                                         *)
Trip(s) ==
  /\ Drain(s)
  /\ LET offered == Offered(s)
         ready   == Order!TicksInOrder(Order!ReadyEntries(offered))
     IN  /\ seqs' = [seqs EXCEPT ![s] = Order!PollReady(offered)]
         /\ \/ ready = <<>> /\ running' = s /\ UNCHANGED results
            \/ /\ ready # <<>>
               /\ ProcessBatch(s, ready, bufs'[s], offered)
               /\ running' \in {s, None}
  /\ UNCHANGED stopped

\* Deviation from Sleep: drain without a wait_timeout returns at once.
SleepNever(s) ==
  /\ running = s /\ bufs[s].size = 0
  /\ UNCHANGED vars

\* drain finds the ring empty and waits.
Sleep(s) ==
  /\ running = s /\ bufs[s].size = 0
  /\ running' = None
  /\ UNCHANGED <<bufs, seqs, results, stopped>>

\* A turn of _rate_loop; the elapsed second is left out.
RateTurn ==
  /\ running = None /\ ~stopped
  /\ stats' = [s \in Symbols |-> [stats[s] EXCEPT !.rate = counts[s]]]
  /\ counts' = [s \in Symbols |-> 0]
  /\ UNCHANGED <<bufs, seqs, aggs, vwaps, averages, rows, events, running, stopped>>

(* stop: every task is cancelled at the await where it is suspended, so no *)
(* consumer and no rate loop runs again; ingest is not refused.            *)
Stop ==
  /\ running = None
  /\ stopped' = TRUE
  /\ UNCHANGED <<bufs, seqs, results, running>>

Next ==
  \/ \E tick \in Ticks : Ingest(tick)
  \/ \E s \in Symbols : Trip(s) \/ Sleep(s)
  \/ RateTurn
  \/ Stop

Spec == Init /\ [][Next]_vars

(* The waits of the consumers end: batch_max_wait_ms passes, the sink      *)
(* returns.  Of the steps only Trip drains a ring, so to say that a ring   *)
(* is drained is to say that its consumer makes a trip.                    *)
FairSpec ==
  Spec /\ \A s \in Symbols : WF_bufs(Drain(s)) /\ WF_vars(Sleep(s))
-----------------------------------------------------------------------------
IsTickOf(s, row) == row.kind = "tick" /\ row.tick.symbol = s

KeepTick(kept, row) ==
  IF row.kind = "tick" THEN [kept EXCEPT ![row.tick.symbol] = Append(@, row.tick)] ELSE kept

\* The ticks of each symbol in the order in which they were processed.
TicksIn(persisted) == FoldLeft(KeepTick, [s \in Symbols |-> <<>>], persisted)

Applied == TicksIn(rows)

\* The arrival numbers found at each stage of the pipeline of a symbol.
Arrivals(ticks) == {ticks[k].arrival : k \in DOMAIN ticks}
InRing(s)       == Arrivals(Ring!Contents(bufs[s]))
InHeap(s)       == {e.tick.arrival : e \in seqs[s].heap}
Processed(s)    == Arrivals(Applied[s])

(* A tick ingested is at one place: in the ring, in the reorder heap,      *)
(* processed and persisted once, or dropped and counted, through batches,  *)
(* overflow, stop and the other symbols' consumers.                        *)
TicksConserved ==
  \A s \in Symbols :
    /\ InRing(s) \cap InHeap(s) = {}
    /\ (InRing(s) \cup InHeap(s)) \cap Processed(s) = {}
    /\ Cardinality(Processed(s)) = Len(Applied[s])
    /\ Cardinality(Processed(s)) = stats[s].total
    /\ Cardinality(InRing(s) \cup InHeap(s) \cup Processed(s)) + bufs[s].dropped
         = bufs[s].pushedTotal

\* The tick rows before row i that belong to a candle.
TickRowsBefore(i, tf, c) ==
  {j \in 1 .. i - 1 : /\ IsTickOf(c.symbol, rows[j])
                      /\ Agg(tf)!BucketStart(rows[j].tick.time) = c.bucket}

(* Whatever prefix of the rows reaches the database, each candle in it has *)
(* the ticks it was made of: a candle is persisted after its last tick, in *)
(* every timeframe, patched or not.                                        *)
CandleRowsBacked ==
  \A i \in DOMAIN rows : rows[i].kind = "candle" =>
    rows[i].candle.count = Cardinality(TickRowsBefore(i, rows[i].frame, rows[i].candle))

\* The last thing the sink was told of a candle is the candle c.
LastToldIs(tf, c) ==
  LET about == {i \in DOMAIN events :
                  /\ events[i].type # "tick" /\ events[i].frame = tf
                  /\ events[i].candle.symbol = c.symbol /\ events[i].candle.bucket = c.bucket}
  IN  about # {} /\ events[Max(about)].candle = c

(* A client that applies every event has the candles the REST API serves:  *)
(* the last event of each candle in memory is its present value.           *)
EventsTellAll ==
  \A tf \in FrameSet, s \in Symbols :
    /\ \A i \in DOMAIN aggs[tf].history[s] : LastToldIs(tf, aggs[tf].history[s][i])
    /\ aggs[tf].open[s] # None => LastToldIs(tf, aggs[tf].open[s])

\* The ticks that are no longer in the VWAP window of a symbol come first.
Left(s) == stats[s].total - Len(vwaps[s].ticks)

(* The VWAP window is a run of the latest ticks, never empty again, and    *)
(* the running sums are theirs after any mix of admissions and evictions.  *)
(* A tick has left it only when some tick processed after it is more than  *)
(* the window newer: reordering throws out none too early.                 *)
WindowExact ==
  \A s \in Symbols : LET applied == Applied[s] IN
    /\ vwaps[s].ticks = SubSeq(applied, Left(s) + 1, stats[s].total)
    /\ stats[s].total > 0 => vwaps[s].ticks # <<>>
    /\ vwaps[s].sumPq = SumPq(vwaps[s].ticks)
    /\ vwaps[s].sumQ = SumQ(vwaps[s].ticks)
    /\ \A i \in 1 .. Left(s) : \E j \in i + 1 .. Len(applied) :
         applied[i].time < applied[j].time - WindowMs

AddPrice(sum, price) == sum + price

(* The simple average is the mean of the last p prices, once there are p;  *)
(* the exponential average stays within the prices seen.                   *)
AveragesExact ==
  \A s \in Symbols, p \in Periods :
    LET ticks  == Applied[s]
        prices == [i \in DOMAIN ticks |-> ticks[i].price]
        n      == Len(prices)
        ema    == averages[s][p].ema
    IN  /\ Sma(averages[s], p) =
             IF n < p THEN None
             ELSE <<FoldLeft(AddPrice, 0, SubSeq(prices, n - p + 1, n)), p>>
        /\ n > 0 => /\ Min(Range(prices)) * ema[2] <= ema[1]
                    /\ ema[1] <= Max(Range(prices)) * ema[2]

(* A consumer empties its ring again and again as long as it runs.         *)
RingEmptied == \A s \in Symbols : bufs[s].size > 0 ~> (bufs[s].size = 0 \/ stopped)

(* pipeline.py: a consumer "can never block the WebSocket read loop": it   *)
(* always suspends again.                                                  *)
LoopYields == []<>(running = None)

(* sequencer.py: flush_all is "used on shutdown", so nothing is held back  *)
(* once the pipeline has stopped.                                          *)
NothingHeldAtStop == stopped => \A s \in Symbols : InHeap(s) = {}
=============================================================================
