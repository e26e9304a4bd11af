----------------------------- MODULE CandleFeed -----------------------------
(***************************************************************************)
(* One CandleAggregator fed with ticks in any order, as Pipeline feeds it  *)
(* in _process_batch: apply, record the candle that closed, take the patch *)
(* and record it.  rows is what the recorded candles amount to, a table    *)
(* with one row per symbol and bucket in which the last record wins.       *)
(***************************************************************************)
EXTENDS CandleAggregator, SequencesExt

CONSTANTS
  Ticks,      (* ticks the feed may bring                                  *)
  MaxTicks    (* bound of the model: how many it brings                    *)

Buckets == {BucketStart(tick.time) : tick \in Ticks}
Keys    == Symbols \X Buckets

CandleType ==
  [symbol : Symbols, bucket : Buckets, open : Int, high : Int, low : Int, close : Int,
   volume : Nat, count : Nat \ {0}, closed : BOOLEAN]

ASSUME FeedAssumption ==
  /\ \A tick \in Ticks : /\ tick.symbol \in Symbols
                         /\ tick.time \in Nat
                         /\ tick.price \in Int
                         /\ tick.quantity \in Nat
  /\ MaxTicks \in Nat
  /\ None \notin CandleType

VARIABLES
  agg,        (* the aggregator                                            *)
  rows,       (* the row of each symbol and bucket, None if never recorded *)
  applied     (* auxiliary: the ticks applied, in order                    *)

vars == <<agg, rows, applied>>

Init ==
  /\ agg = EmptyAggregator
  /\ rows = [k \in Keys |-> None]
  /\ applied = <<>>

Record(table, candle) ==
  IF candle = None THEN table
  ELSE [table EXCEPT ![<<candle.symbol, candle.bucket>>] = candle]

ApplyTick(tick) ==
  /\ Len(applied) < MaxTicks
  /\ LET after == Apply(agg, tick)
     IN  /\ rows' = Record(Record(rows, ClosedBy(agg, tick)), after.lastPatch)
         /\ agg' = TakePatch(after)
  /\ applied' = Append(applied, tick)

Next == \E tick \in Ticks : ApplyTick(tick)

Spec == Init /\ [][Next]_vars
-----------------------------------------------------------------------------
AggregatorType ==
  [open : [Symbols -> CandleType \cup {None}], history : [Symbols -> Seq(CandleType)],
   latePatches : Nat, lastPatch : CandleType \cup {None}]

\* The type invariant.
TypeOK ==
  /\ agg \in AggregatorType
  /\ rows \in [Keys -> CandleType \cup {None}]
  /\ applied \in Seq(Ticks)

(* Whatever the order of the ticks, the history of a symbol is a bounded   *)
(* run of closed candles with strictly increasing buckets, all older than  *)
(* the open candle: no bucket has two candles.                             *)
HistoryOrdered ==
  \A s \in Symbols :
    LET h == agg.history[s] IN
      /\ Len(h) <= HistoryLen
      /\ \A i \in DOMAIN h : h[i].closed /\ h[i].symbol = s
      /\ \A i, j \in DOMAIN h : i < j => h[i].bucket < h[j].bucket
      /\ agg.open[s] = None => h = <<>>
      /\ agg.open[s] # None =>
           /\ ~agg.open[s].closed /\ agg.open[s].symbol = s
           /\ \A i \in DOMAIN h : h[i].bucket < agg.open[s].bucket

\* The ticks of every bucket, in the order they were applied.
PutTick(table, tick) ==
  [table EXCEPT ![<<tick.symbol, BucketStart(tick.time)>>] = Append(@, tick)]

TicksOf == FoldLeft(PutTick, [k \in Keys |-> <<>>], applied)

AddQuantity(sum, tick) == sum + tick.quantity

\* A candle is what its ticks say, computed from all of them at once.
Exact(candle) ==
  LET ticks  == TicksOf[<<candle.symbol, candle.bucket>>]
      prices == {ticks[i].price : i \in DOMAIN ticks}
  IN  /\ candle.count = Len(ticks)
      /\ candle.open = ticks[1].price
      /\ candle.close = ticks[Len(ticks)].price
      /\ candle.high = Max(prices)
      /\ candle.low = Min(prices)
      /\ candle.volume = FoldLeft(AddQuantity, 0, ticks)

(* No candle in memory, open, closed or patched, has missed a tick of its  *)
(* bucket or taken one of another, late ticks and evictions included.      *)
CandlesExact ==
  \A s \in Symbols :
    /\ agg.open[s] # None => Exact(agg.open[s])
    /\ \A i \in DOMAIN agg.history[s] : Exact(agg.history[s][i])

(* candles.py, take_patch: the copy a caller has recorded is never left    *)
(* stale while the candle is in memory.                                    *)
RowsFollowHistory ==
  \A s \in Symbols : \A i \in DOMAIN agg.history[s] :
    rows[<<s, agg.history[s][i].bucket>>] = agg.history[s][i]

\* How many ticks the table and the open candles account for.
Recorded == {k \in Keys : rows[k] # None}
Active   == {s \in Symbols : agg.open[s] # None}

Placed ==
  SumFunction([k \in Recorded |-> rows[k].count])
  + SumFunction([s \in Active |-> agg.open[s].count])

(* A tick that reaches no candle and no row is not lost without a trace:   *)
(* late_patches has counted it.                                            *)
UnplacedTicksCounted == Len(applied) - Placed <= agg.latePatches
=============================================================================
