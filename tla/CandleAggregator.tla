-------------------------- MODULE CandleAggregator --------------------------
(***************************************************************************)
(* The candle aggregator of backend/app/processing/candles.py as a value   *)
(* and its methods as operators on that value.                             *)
(*                                                                         *)
(* The dictionaries _open and _history are functions of the symbol: None   *)
(* and the empty sequence stand for a missing key.  A candle is the record *)
(* of the fields of models.Candle without the timeframe, which is the same *)
(* for every candle of an aggregator.  Prices and quantities are numbers   *)
(* whose sums are exact.                                                   *)
(***************************************************************************)
EXTENDS Integers, Sequences

CONSTANTS
  Symbols,
  BucketMs,   (* timeframe_sec in milliseconds                             *)
  HistoryLen, (* how many closed candles are kept per symbol               *)
  None        (* no candle                                                 *)

ASSUME CandleAssumption ==
  /\ BucketMs \in Nat \ {0}
  /\ HistoryLen \in Nat

EmptyAggregator ==
  [open |-> [s \in Symbols |-> None], history |-> [s \in Symbols |-> <<>>],
   latePatches |-> 0, lastPatch |-> None]

BucketStart(time) == (time \div BucketMs) * BucketMs

\* Deviation from NewCandle: the count is left at its default.
NewCandleUncounted(tick) ==
  [symbol |-> tick.symbol, bucket |-> BucketStart(tick.time),
   open |-> tick.price, high |-> tick.price, low |-> tick.price, close |-> tick.price,
   volume |-> tick.quantity, count |-> 0, closed |-> FALSE]

NewCandle(tick) ==
  [symbol |-> tick.symbol, bucket |-> BucketStart(tick.time),
   open |-> tick.price, high |-> tick.price, low |-> tick.price, close |-> tick.price,
   volume |-> tick.quantity, count |-> 1, closed |-> FALSE]

Larger(x, y)  == IF y > x THEN y ELSE x
Smaller(x, y) == IF y < x THEN y ELSE x

\* Deviation from Merge: the low is not looked at.
MergeHighOnly(candle, tick) ==
  [candle EXCEPT !.high = Larger(@, tick.price), !.close = tick.price,
                 !.volume = @ + tick.quantity, !.count = @ + 1]

Merge(candle, tick) ==
  [candle EXCEPT !.high   = Larger(@, tick.price),
                 !.low    = Smaller(@, tick.price),
                 !.close  = tick.price,
                 !.volume = @ + tick.quantity,
                 !.count  = @ + 1]

\* Deviation from PushHistory: newest first, as with appendleft.
PushHistoryLeft(history, candle) ==
  SubSeq(<<candle>> \o history, 1, Smaller(Len(history) + 1, HistoryLen))

\* A deque with a maxlen: append on the right, the excess falls off left.
PushHistory(history, candle) ==
  LET longer == Append(history, candle)
  IN  IF Len(longer) > HistoryLen THEN Tail(longer) ELSE longer

-----------------------------------------------------------------------------
(* The four ways through apply.                                            *)
Opens(a, tick)  == a.open[tick.symbol] = None
Merges(a, tick) == ~Opens(a, tick) /\ BucketStart(tick.time) = a.open[tick.symbol].bucket
Closes(a, tick) == ~Opens(a, tick) /\ BucketStart(tick.time) > a.open[tick.symbol].bucket

OpenFirst(a, tick) ==
  [a EXCEPT !.open[tick.symbol] = NewCandle(tick), !.lastPatch = None]

MergeOpen(a, tick) ==
  [a EXCEPT !.open[tick.symbol] = Merge(@, tick), !.lastPatch = None]

ClosedCandle(a, symbol) == [a.open[symbol] EXCEPT !.closed = TRUE]

CloseOpen(a, tick) ==
  [a EXCEPT !.open[tick.symbol]    = NewCandle(tick),
            !.history[tick.symbol] = PushHistory(@, ClosedCandle(a, tick.symbol)),
            !.lastPatch            = None]

\* Where the history holds the bucket of the tick.
Hits(a, tick) ==
  {i \in DOMAIN a.history[tick.symbol] :
     a.history[tick.symbol][i].bucket = BucketStart(tick.time)}

\* The loop stops at the first.
FirstHit(a, tick) == CHOOSE i \in Hits(a, tick) : \A j \in Hits(a, tick) : i <= j

\* Deviations from PatchHistory: the patch is not reported, or not counted
\* when there is nothing to patch.
PatchHistorySilently(a, tick) ==
  IF Hits(a, tick) = {} THEN [a EXCEPT !.latePatches = @ + 1, !.lastPatch = None]
  ELSE [a EXCEPT !.latePatches = @ + 1, !.lastPatch = None,
                 !.history[tick.symbol][FirstHit(a, tick)] = Merge(@, tick)]

PatchHistoryUncounted(a, tick) ==
  IF Hits(a, tick) = {} THEN [a EXCEPT !.lastPatch = None]
  ELSE LET i == FirstHit(a, tick)
           patched == Merge(a.history[tick.symbol][i], tick)
       IN  [a EXCEPT !.history[tick.symbol][i] = patched,
                     !.latePatches = @ + 1, !.lastPatch = patched]

PatchHistory(a, tick) ==
  IF Hits(a, tick) = {}
  THEN [a EXCEPT !.latePatches = @ + 1, !.lastPatch = None]
  ELSE LET i == FirstHit(a, tick)
           patched == Merge(a.history[tick.symbol][i], tick)
       IN  [a EXCEPT !.history[tick.symbol][i] = patched,
                     !.latePatches = @ + 1, !.lastPatch = patched]

\* The aggregator after apply(tick) ...
Apply(a, tick) ==
  CASE Opens(a, tick)  -> OpenFirst(a, tick)
    [] Merges(a, tick) -> MergeOpen(a, tick)
    [] Closes(a, tick) -> CloseOpen(a, tick)
    [] OTHER           -> PatchHistory(a, tick)

\* ... and what apply returns.
ClosedBy(a, tick) == IF Closes(a, tick) THEN ClosedCandle(a, tick.symbol) ELSE None

\* take_patch returns lastPatch and clears it.
TakePatch(a) == [a EXCEPT !.lastPatch = None]
=============================================================================
