------------------------- MODULE CandleFeed_proofs -------------------------
(***************************************************************************)
(* Proofs about CandleFeed for every set of ticks and symbols, every       *)
(* bucket length and every length of the history.                          *)
(*                                                                         *)
(* The three invariants are proved together: that buckets increase along   *)
(* the history is what makes a patch hit one candle, and what keeps the    *)
(* rows of the others untouched.  On top of them, ExactInv relates every   *)
(* candle to the ticks applied so far of its bucket, and PlacedInv counts  *)
(* the ticks that are in a candle or in a row.                             *)
(***************************************************************************)
EXTENDS CandleFeed, SequenceTheorems, FiniteSetTheorems, TLAPS

IInv == TypeOK /\ HistoryOrdered /\ RowsFollowHistory

\* What the assumption on the constants gives the proofs below.
LEMMA ConstantFacts ==
  /\ BucketMs \in Nat \ {0} /\ HistoryLen \in Nat /\ MaxTicks \in Nat
  /\ None \notin CandleType
  /\ \A tick \in Ticks :
       /\ tick.symbol \in Symbols /\ tick.time \in Nat /\ tick.price \in Int
       /\ tick.quantity \in Nat /\ BucketStart(tick.time) \in Buckets
  /\ Buckets \subseteq Nat
<1>1. /\ BucketMs \in Nat \ {0} /\ HistoryLen \in Nat /\ MaxTicks \in Nat
      /\ None \notin CandleType
  BY CandleAssumption, FeedAssumption
<1>2. ASSUME NEW tick \in Ticks
      PROVE  /\ tick.symbol \in Symbols /\ tick.time \in Nat /\ tick.price \in Int
             /\ tick.quantity \in Nat /\ BucketStart(tick.time) \in Buckets
  BY FeedAssumption DEF Buckets
<1>3. ASSUME NEW t \in Nat PROVE BucketStart(t) \in Nat
  BY <1>1 DEF BucketStart
<1>4. Buckets \subseteq Nat
  BY <1>2, <1>3 DEF Buckets
<1> QED BY <1>1, <1>2, <1>4

\* A new candle is an open candle of its tick's symbol and bucket.
LEMMA NewCandleFacts ==
  ASSUME NEW tick \in Ticks
  PROVE  /\ NewCandle(tick) \in CandleType /\ NewCandle(tick) # None
         /\ NewCandle(tick).symbol = tick.symbol
         /\ NewCandle(tick).bucket = BucketStart(tick.time)
         /\ ~NewCandle(tick).closed
<1>1. /\ tick.symbol \in Symbols /\ tick.price \in Int /\ tick.quantity \in Nat
      /\ BucketStart(tick.time) \in Buckets
  BY ConstantFacts
<1>2. NewCandle(tick) \in CandleType
  BY <1>1 DEF NewCandle, CandleType
<1>3. NewCandle(tick) # None
  BY <1>2, ConstantFacts
<1> QED BY <1>2, <1>3 DEF NewCandle

\* A merge keeps the identity of the candle and its closed flag.
LEMMA MergeFacts ==
  ASSUME NEW tick \in Ticks, NEW c \in CandleType
  PROVE  /\ Merge(c, tick) \in CandleType /\ Merge(c, tick) # None
         /\ Merge(c, tick).symbol = c.symbol /\ Merge(c, tick).bucket = c.bucket
         /\ Merge(c, tick).closed = c.closed
<1>1. tick.price \in Int /\ tick.quantity \in Nat
  BY ConstantFacts
<1>2. Larger(c.high, tick.price) \in Int /\ Smaller(c.low, tick.price) \in Int
  BY <1>1 DEF Larger, Smaller, CandleType
<1>3. c.volume + tick.quantity \in Nat /\ c.count + 1 \in Nat \ {0}
  BY <1>1 DEF CandleType
<1>4. Merge(c, tick) \in CandleType
  BY <1>1, <1>2, <1>3 DEF Merge, CandleType
<1>5. Merge(c, tick) # None
  BY <1>4, ConstantFacts
<1> QED BY <1>4, <1>5 DEF Merge, CandleType

\* Closing keeps everything but the flag.
LEMMA CloseFacts ==
  ASSUME NEW c \in CandleType
  PROVE  LET d == [c EXCEPT !.closed = TRUE]
         IN  /\ d \in CandleType /\ d # None /\ d.closed
             /\ d.symbol = c.symbol /\ d.bucket = c.bucket
<1>1. [c EXCEPT !.closed = TRUE] \in CandleType
  BY DEF CandleType
<1>2. [c EXCEPT !.closed = TRUE] # None
  BY <1>1, ConstantFacts
<1> QED BY <1>1, <1>2 DEF CandleType

\* Pushing appends, and drops at most the first element.
LEMMA PushFacts ==
  ASSUME NEW h \in Seq(CandleType), NEW c \in CandleType, Len(h) <= HistoryLen
  PROVE  /\ PushHistory(h, c) \in Seq(CandleType)
         /\ Len(PushHistory(h, c)) <= HistoryLen
         /\ \E d \in {0, 1} : \A i \in DOMAIN PushHistory(h, c) :
              /\ i + d \in 1 .. Len(h) + 1
              /\ PushHistory(h, c)[i] = IF i + d = Len(h) + 1 THEN c ELSE h[i + d]
<1> DEFINE longer == Append(h, c)
<1>1. /\ longer \in Seq(CandleType) /\ Len(longer) = Len(h) + 1
      /\ \A i \in 1 .. Len(h) : longer[i] = h[i]
      /\ longer[Len(h) + 1] = c
  BY AppendProperties
<1>2. Len(h) \in Nat /\ HistoryLen \in Nat
  BY ConstantFacts, LenProperties
<1>3. CASE Len(longer) > HistoryLen
  <2>1. PushHistory(h, c) = Tail(longer)
    BY <1>3 DEF PushHistory
  <2>2. longer # <<>>
    BY <1>1, <1>2
  <2>3. /\ Tail(longer) \in Seq(CandleType) /\ Len(Tail(longer)) = Len(h)
        /\ \A i \in 1 .. Len(h) : Tail(longer)[i] = longer[i + 1]
    BY <1>1, <1>2, <2>2, HeadTailProperties
  <2>4. DOMAIN Tail(longer) = 1 .. Len(h)
    BY <2>3, LenProperties
  <2>5. ASSUME NEW i \in 1 .. Len(h)
        PROVE  /\ i + 1 \in 1 .. Len(h) + 1
               /\ Tail(longer)[i] = IF i + 1 = Len(h) + 1 THEN c ELSE h[i + 1]
    <3>1. i + 1 \in 1 .. Len(h) + 1
      BY <1>2
    <3>2. CASE i + 1 = Len(h) + 1
      BY <3>2, <2>3, <1>1
    <3>3. CASE i + 1 # Len(h) + 1
      <4>1. i + 1 \in 1 .. Len(h)
        BY <3>1, <3>3, <1>2
      <4> QED BY <4>1, <3>3, <2>3, <1>1
    <3> QED BY <3>1, <3>2, <3>3
  <2> QED BY <2>1, <2>3, <2>4, <2>5
<1>4. CASE ~(Len(longer) > HistoryLen)
  <2>1. PushHistory(h, c) = longer
    BY <1>4 DEF PushHistory
  <2>2. DOMAIN longer = 1 .. Len(h) + 1
    BY <1>1, LenProperties
  <2>3. ASSUME NEW i \in 1 .. Len(h) + 1
        PROVE  /\ i + 0 \in 1 .. Len(h) + 1
               /\ longer[i] = IF i + 0 = Len(h) + 1 THEN c ELSE h[i + 0]
    <3>1. i + 0 = i
      BY <1>2
    <3>2. i # Len(h) + 1 => i \in 1 .. Len(h)
      BY <1>2
    <3> QED BY <3>1, <3>2, <1>1
  <2>4. Len(longer) <= HistoryLen
    BY <1>1, <1>2, <1>4
  <2> QED BY <2>1, <2>2, <2>3, <2>4, <1>1
<1> QED BY <1>3, <1>4

-----------------------------------------------------------------------------
(* What a step has to establish about the symbol of its tick: o becomes    *)
(* the open candle, h the history, table the rows.                         *)
GoodCandles(s, o, h, table) ==
  /\ o \in CandleType /\ o # None /\ ~o.closed /\ o.symbol = s
  /\ h \in Seq(CandleType) /\ Len(h) <= HistoryLen
  /\ \A i \in DOMAIN h : h[i].closed /\ h[i].symbol = s
  /\ \A i, j \in DOMAIN h : i < j => h[i].bucket < h[j].bucket
  /\ \A i \in DOMAIN h : h[i].bucket < o.bucket
  /\ \A i \in DOMAIN h : table[<<s, h[i].bucket>>] = h[i]

\* Changing one symbol so, and only its rows, preserves the invariant.
LEMMA OneSymbol ==
  ASSUME IInv, NEW s \in Symbols, NEW o, NEW h, GoodCandles(s, o, h, rows'),
         agg' \in AggregatorType,
         agg'.open = [agg.open EXCEPT ![s] = o],
         agg'.history = [agg.history EXCEPT ![s] = h],
         rows' \in [Keys -> CandleType \cup {None}],
         \A k \in Keys : k[1] # s => rows'[k] = rows[k],
         applied' \in Seq(Ticks)
  PROVE  IInv'
<1>1. /\ agg.open \in [Symbols -> CandleType \cup {None}]
      /\ agg.history \in [Symbols -> Seq(CandleType)]
  BY DEF IInv, TypeOK, AggregatorType
<1>2. agg'.open[s] = o /\ agg'.history[s] = h
  BY <1>1
<1>3. ASSUME NEW r \in Symbols, r # s
      PROVE  agg'.open[r] = agg.open[r] /\ agg'.history[r] = agg.history[r]
  BY <1>1, <1>3
<1>4. TypeOK'
  BY DEF TypeOK
<1>5. HistoryOrdered'
  <2> SUFFICES ASSUME NEW r \in Symbols
               PROVE  LET hr == agg'.history[r] IN
                        /\ Len(hr) <= HistoryLen
                        /\ \A i \in DOMAIN hr : hr[i].closed /\ hr[i].symbol = r
                        /\ \A i, j \in DOMAIN hr : i < j => hr[i].bucket < hr[j].bucket
                        /\ agg'.open[r] = None => hr = <<>>
                        /\ agg'.open[r] # None =>
                             /\ ~agg'.open[r].closed /\ agg'.open[r].symbol = r
                             /\ \A i \in DOMAIN hr : hr[i].bucket < agg'.open[r].bucket
    BY DEF HistoryOrdered
  <2>1. CASE r = s
    BY <2>1, <1>2 DEF GoodCandles
  <2>2. CASE r # s
    BY <2>2, <1>3 DEF IInv, HistoryOrdered
  <2> QED BY <2>1, <2>2
<1>6. RowsFollowHistory'
  <2> SUFFICES ASSUME NEW r \in Symbols, NEW i \in DOMAIN agg'.history[r]
               PROVE  rows'[<<r, agg'.history[r][i].bucket>>] = agg'.history[r][i]
    BY DEF RowsFollowHistory
  <2>1. CASE r = s
    BY <2>1, <1>2 DEF GoodCandles
  <2>2. CASE r # s
    <3>1. agg'.history[r] = agg.history[r]
      BY <2>2, <1>3
    <3>2. agg.history[r][i] \in CandleType
      BY <3>1, <1>1, ElementOfSeq, LenProperties
    <3>3. <<r, agg.history[r][i].bucket>> \in Keys
      BY <3>2 DEF CandleType, Keys
    <3>4. rows'[<<r, agg.history[r][i].bucket>>] = rows[<<r, agg.history[r][i].bucket>>]
      BY <3>3, <2>2
    <3> QED BY <3>1, <3>4 DEF IInv, RowsFollowHistory
  <2> QED BY <2>1, <2>2
<1> QED BY <1>4, <1>5, <1>6 DEF IInv

\* Recording a candle changes its row and no other.
LEMMA RecordFacts ==
  ASSUME NEW table \in [Keys -> CandleType \cup {None}], NEW c \in CandleType
  PROVE  /\ Record(table, c) \in [Keys -> CandleType \cup {None}]
         /\ <<c.symbol, c.bucket>> \in Keys
         /\ Record(table, c)[<<c.symbol, c.bucket>>] = c
         /\ \A k \in Keys : k # <<c.symbol, c.bucket>> => Record(table, c)[k] = table[k]
         /\ Record(table, None) = table
<1>1. c # None
  BY ConstantFacts
<1>2. <<c.symbol, c.bucket>> \in Keys
  BY DEF CandleType, Keys
<1> QED BY <1>1, <1>2 DEF Record

\* What is known of the symbol of a tick before the step.
LEMMA Before ==
  ASSUME IInv, NEW s \in Symbols
  PROVE  /\ agg.open[s] \in CandleType \cup {None}
         /\ agg.history[s] \in Seq(CandleType)
         /\ Len(agg.history[s]) \in Nat
         /\ DOMAIN agg.history[s] = 1 .. Len(agg.history[s])
         /\ agg.history[s] \in [1 .. Len(agg.history[s]) -> CandleType]
         /\ agg.open[s] # None => GoodCandles(s, agg.open[s], agg.history[s], rows)
         /\ agg.open[s] = None => agg.history[s] = <<>>
<1>1. /\ agg.open[s] \in CandleType \cup {None}
      /\ agg.history[s] \in Seq(CandleType)
  BY DEF IInv, TypeOK, AggregatorType
<1>2. /\ Len(agg.history[s]) \in Nat
      /\ DOMAIN agg.history[s] = 1 .. Len(agg.history[s])
      /\ agg.history[s] \in [1 .. Len(agg.history[s]) -> CandleType]
  BY <1>1, LenProperties
<1> QED BY <1>1, <1>2 DEF IInv, HistoryOrdered, RowsFollowHistory, GoodCandles

\* The parts of the aggregator that no case of a step touches twice.
LEMMA StepFrame ==
  ASSUME IInv, NEW tick \in Ticks, ApplyTick(tick)
  PROVE  /\ applied' \in Seq(Ticks)
         /\ agg = [open |-> agg.open, history |-> agg.history,
                   latePatches |-> agg.latePatches, lastPatch |-> agg.lastPatch]
         /\ agg.open \in [Symbols -> CandleType \cup {None}]
         /\ agg.history \in [Symbols -> Seq(CandleType)]
         /\ agg.latePatches \in Nat /\ agg.latePatches + 1 \in Nat
         /\ rows \in [Keys -> CandleType \cup {None}]
<1>1. applied' \in Seq(Ticks)
  BY AppendProperties DEF IInv, TypeOK, ApplyTick
<1> QED BY <1>1 DEF IInv, TypeOK, AggregatorType

-----------------------------------------------------------------------------
(* What each branch of apply does to the aggregator and the rows.          *)
LEMMA OpenFirstEffect ==
  ASSUME IInv, NEW tick \in Ticks, ApplyTick(tick), Opens(agg, tick)
  PROVE  /\ agg' = [agg EXCEPT !.open[tick.symbol] = NewCandle(tick), !.lastPatch = None]
         /\ rows' = rows
<1>1. ~Closes(agg, tick)
  BY DEF Closes
<1>2. Apply(agg, tick) = OpenFirst(agg, tick)
  BY DEF Apply, Merges, Closes
<1>3. OpenFirst(agg, tick).lastPatch = None
  BY StepFrame DEF OpenFirst
<1>4. ClosedBy(agg, tick) = None
  BY <1>1 DEF ClosedBy
<1>5. rows' = rows
  BY <1>2, <1>3, <1>4 DEF ApplyTick, Record
<1> QED BY <1>2, <1>5, StepFrame DEF ApplyTick, OpenFirst, TakePatch

\* A tick in the open bucket changes the open candle alone.
LEMMA MergeEffect ==
  ASSUME IInv, NEW tick \in Ticks, ApplyTick(tick), Merges(agg, tick)
  PROVE  /\ agg' = [agg EXCEPT !.open[tick.symbol] = Merge(agg.open[tick.symbol], tick),
                               !.lastPatch = None]
         /\ rows' = rows
<1>1. tick.symbol \in Symbols
  BY ConstantFacts
<1>2. /\ ~Opens(agg, tick) /\ ~Closes(agg, tick)
  <2>1. /\ BucketStart(tick.time) = agg.open[tick.symbol].bucket
        /\ BucketStart(tick.time) \in Nat
    BY ConstantFacts DEF Merges
  <2> QED BY <2>1 DEF Merges, Closes
<1>3. Apply(agg, tick) = MergeOpen(agg, tick)
  BY <1>2 DEF Apply
<1>4. /\ MergeOpen(agg, tick).lastPatch = None
      /\ MergeOpen(agg, tick) =
           [agg EXCEPT !.open[tick.symbol] = Merge(agg.open[tick.symbol], tick),
                       !.lastPatch = None]
  BY <1>1, StepFrame DEF MergeOpen
<1>5. ClosedBy(agg, tick) = None
  BY <1>2 DEF ClosedBy
<1>6. rows' = rows
  BY <1>3, <1>4, <1>5 DEF ApplyTick, Record
<1> QED BY <1>3, <1>4, <1>6, StepFrame DEF ApplyTick, TakePatch

\* A late tick whose candle is gone is counted and nothing else.
LEMMA UnkeptEffect ==
  ASSUME IInv, NEW tick \in Ticks, ApplyTick(tick),
         ~Opens(agg, tick), ~Merges(agg, tick), ~Closes(agg, tick), Hits(agg, tick) = {}
  PROVE  /\ agg' = [agg EXCEPT !.latePatches = @ + 1, !.lastPatch = None]
         /\ rows' = rows
<1>1. Apply(agg, tick) = PatchHistory(agg, tick)
  BY DEF Apply
<1>2. PatchHistory(agg, tick) = [agg EXCEPT !.latePatches = @ + 1, !.lastPatch = None]
  BY DEF PatchHistory
<1>3. PatchHistory(agg, tick).lastPatch = None
  BY <1>2, StepFrame
<1>4. ClosedBy(agg, tick) = None
  BY DEF ClosedBy
<1>5. rows' = rows
  BY <1>1, <1>3, <1>4 DEF ApplyTick, Record
<1> QED BY <1>1, <1>2, <1>5, StepFrame DEF ApplyTick, TakePatch

\* A tick of a later bucket closes the open candle into the history and the table.
LEMMA CloseEffect ==
  ASSUME IInv, NEW tick \in Ticks, ApplyTick(tick), Closes(agg, tick)
  PROVE  LET s == tick.symbol
             c == [agg.open[s] EXCEPT !.closed = TRUE]
         IN  /\ agg.open[s] \in CandleType
             /\ agg.open[s].bucket < BucketStart(tick.time)
             /\ BucketStart(tick.time) \in Nat /\ agg.open[s].bucket \in Nat
             /\ agg' = [agg EXCEPT !.open[s] = NewCandle(tick),
                                   !.history[s] = PushHistory(agg.history[s], c),
                                   !.lastPatch = None]
             /\ rows' = Record(rows, c)
<1> DEFINE s == tick.symbol
           c == [agg.open[s] EXCEPT !.closed = TRUE]
<1>1. s \in Symbols
  BY ConstantFacts
<1>2. agg.open[s] \in CandleType
  BY <1>1, Before DEF Closes, Opens
<1>3. /\ ~Opens(agg, tick) /\ ~Merges(agg, tick)
      /\ agg.open[s].bucket < BucketStart(tick.time)
      /\ BucketStart(tick.time) \in Nat /\ agg.open[s].bucket \in Nat
  <2>1. BucketStart(tick.time) \in Nat /\ agg.open[s].bucket \in Nat
    BY <1>2, ConstantFacts DEF CandleType
  <2> QED BY <2>1 DEF Merges, Closes
<1>4. Apply(agg, tick) = CloseOpen(agg, tick)
  BY <1>3 DEF Apply
<1>5. /\ CloseOpen(agg, tick) =
           [agg EXCEPT !.open[s] = NewCandle(tick),
                       !.history[s] = PushHistory(agg.history[s], c),
                       !.lastPatch = None]
      /\ CloseOpen(agg, tick).lastPatch = None
  BY <1>1, StepFrame DEF CloseOpen, ClosedCandle
<1>6. ClosedBy(agg, tick) = c
  BY DEF ClosedBy, ClosedCandle
<1>7. rows' = Record(rows, c)
  BY <1>4, <1>5, <1>6 DEF ApplyTick, Record
<1>8. agg' = [agg EXCEPT !.open[s] = NewCandle(tick),
                         !.history[s] = PushHistory(agg.history[s], c),
                         !.lastPatch = None]
  BY <1>4, <1>5, StepFrame DEF ApplyTick, TakePatch
<1> QED BY <1>2, <1>3, <1>7, <1>8

\* A late tick whose candle is still in the history is merged there and in the table.
LEMMA PatchEffect ==
  ASSUME IInv, NEW tick \in Ticks, ApplyTick(tick),
         ~Opens(agg, tick), ~Merges(agg, tick), ~Closes(agg, tick), Hits(agg, tick) # {}
  PROVE  LET s == tick.symbol
             h == agg.history[s]
             n == FirstHit(agg, tick)
             p == Merge(h[n], tick)
         IN  /\ n \in 1 .. Len(h) /\ h[n].bucket = BucketStart(tick.time)
             /\ agg' = [agg EXCEPT !.history[s] = [h EXCEPT ![n] = p],
                                   !.latePatches = @ + 1, !.lastPatch = None]
             /\ rows' = Record(rows, p)
<1> DEFINE s == tick.symbol
           h == agg.history[s]
           n == FirstHit(agg, tick)
           p == Merge(h[n], tick)
<1>1. s \in Symbols
  BY ConstantFacts
<1>2. /\ GoodCandles(s, agg.open[s], h, rows)
      /\ Len(h) \in Nat /\ DOMAIN h = 1 .. Len(h) /\ h \in [1 .. Len(h) -> CandleType]
  BY <1>1, Before DEF Opens
<1>3. ASSUME NEW j \in 1 .. Len(h) PROVE h[j] \in CandleType /\ h[j].bucket \in Nat
  <2>1. h[j] \in CandleType
    BY <1>2
  <2> QED BY <2>1, ConstantFacts DEF CandleType
<1>4. \A i, j \in 1 .. Len(h) : i < j => h[i].bucket < h[j].bucket
  BY <1>2 DEF GoodCandles
<1>5. PICK m \in Hits(agg, tick) : TRUE
  OBVIOUS
<1>6. Hits(agg, tick) = {i \in 1 .. Len(h) : h[i].bucket = BucketStart(tick.time)}
  BY <1>2 DEF Hits
<1>7. Hits(agg, tick) = {m}
  <2> SUFFICES ASSUME NEW i \in Hits(agg, tick) PROVE i = m
    BY <1>5
  <2>1. i \in 1 .. Len(h) /\ m \in 1 .. Len(h) /\ h[i].bucket = h[m].bucket
    BY <1>5, <1>6
  <2>2. h[i].bucket \in Nat /\ h[m].bucket \in Nat
    BY <2>1, <1>3
  <2>3. ~(i < m) /\ ~(m < i)
    BY <2>1, <2>2, <1>4
  <2> QED BY <2>1, <2>3
<1>8. m \in 1 .. Len(h) /\ h[m].bucket = BucketStart(tick.time)
  BY <1>5, <1>6
<1>9. n = m
  BY <1>7, <1>8 DEF FirstHit
<1>10. Apply(agg, tick) = PatchHistory(agg, tick)
  BY DEF Apply
<1>11. /\ PatchHistory(agg, tick) =
            [agg EXCEPT !.history[s] = [h EXCEPT ![n] = p],
                        !.latePatches = @ + 1, !.lastPatch = p]
       /\ PatchHistory(agg, tick).lastPatch = p
  BY <1>1, StepFrame DEF PatchHistory
<1>12. ClosedBy(agg, tick) = None
  BY DEF ClosedBy
<1>13. rows' = Record(rows, p)
  BY <1>10, <1>11, <1>12 DEF ApplyTick, Record
<1>14. agg' = [agg EXCEPT !.history[s] = [h EXCEPT ![n] = p],
                          !.latePatches = @ + 1, !.lastPatch = None]
  BY <1>10, <1>11, StepFrame DEF ApplyTick, TakePatch
<1> QED BY <1>8, <1>9, <1>13, <1>14

-----------------------------------------------------------------------------
\* First tick of a symbol: a candle opens over an empty history.
LEMMA OpenFirstStep ==
  ASSUME IInv, NEW tick \in Ticks, ApplyTick(tick), Opens(agg, tick)
  PROVE  IInv'
<1> DEFINE s == tick.symbol
           o == NewCandle(tick)
<1>1. s \in Symbols
  BY ConstantFacts
<1>2. agg.open[s] = None /\ agg.history[s] = <<>>
  BY <1>1, Before DEF Opens
<1>4. /\ agg' = [agg EXCEPT !.open[s] = o, !.lastPatch = None]
      /\ rows' = rows
  BY OpenFirstEffect
<1>5. /\ agg'.open = [agg.open EXCEPT ![s] = o]
      /\ agg'.history = agg.history
      /\ agg' \in AggregatorType
  BY <1>4, <1>1, StepFrame, NewCandleFacts DEF AggregatorType
<1>6. agg'.history = [agg.history EXCEPT ![s] = <<>>]
  BY <1>5, <1>2, <1>1, StepFrame
<1>7. GoodCandles(s, o, <<>>, rows')
  <2>1. <<>> \in Seq(CandleType) /\ Len(<<>>) = 0 /\ DOMAIN <<>> = {}
    OBVIOUS
  <2>2. 0 <= HistoryLen
    BY ConstantFacts
  <2> QED BY <2>1, <2>2, NewCandleFacts DEF GoodCandles
<1> HIDE DEF s, o
<1> QED BY <1>1, <1>4, <1>5, <1>6, <1>7, StepFrame, OneSymbol

\* A tick of the open bucket is merged into the open candle.
LEMMA MergeStep ==
  ASSUME IInv, NEW tick \in Ticks, ApplyTick(tick), Merges(agg, tick)
  PROVE  IInv'
<1> DEFINE s == tick.symbol
           o == Merge(agg.open[s], tick)
           h == agg.history[s]
<1>1. s \in Symbols
  BY ConstantFacts
<1>2. /\ agg.open[s] \in CandleType
      /\ GoodCandles(s, agg.open[s], h, rows)
  BY <1>1, Before DEF Merges, Opens
<1>4. /\ agg' = [agg EXCEPT !.open[s] = o, !.lastPatch = None]
      /\ rows' = rows
  BY MergeEffect
<1>5. /\ o \in CandleType /\ o # None /\ o.closed = agg.open[s].closed
      /\ o.symbol = agg.open[s].symbol /\ o.bucket = agg.open[s].bucket
  BY <1>2, MergeFacts
<1> HIDE DEF o
<1>6. /\ agg'.open = [agg.open EXCEPT ![s] = o]
      /\ agg'.history = agg.history
      /\ agg' \in AggregatorType
  BY <1>4, <1>1, <1>5, StepFrame DEF AggregatorType
<1>7. agg'.history = [agg.history EXCEPT ![s] = h]
  BY <1>6, <1>1, StepFrame
<1>8. GoodCandles(s, o, h, rows')
  BY <1>2, <1>4, <1>5 DEF GoodCandles
<1> HIDE DEF s, h
<1> QED BY <1>1, <1>4, <1>6, <1>7, <1>8, StepFrame, OneSymbol

\* A late tick for a bucket that is not kept is only counted.
LEMMA LateUnkeptStep ==
  ASSUME IInv, NEW tick \in Ticks, ApplyTick(tick),
         ~Opens(agg, tick), ~Merges(agg, tick), ~Closes(agg, tick), Hits(agg, tick) = {}
  PROVE  IInv'
<1>1. /\ agg' = [agg EXCEPT !.latePatches = @ + 1, !.lastPatch = None]
      /\ rows' = rows
  BY UnkeptEffect
<1>2. /\ agg'.open = agg.open /\ agg'.history = agg.history
      /\ agg' \in AggregatorType
  BY <1>1, StepFrame DEF AggregatorType
<1> QED BY <1>1, <1>2, StepFrame DEF IInv, TypeOK, HistoryOrdered, RowsFollowHistory

\* A tick of a later bucket closes the open candle, which joins the history
\* and is recorded, and opens the next one.
LEMMA CloseStep ==
  ASSUME IInv, NEW tick \in Ticks, ApplyTick(tick), Closes(agg, tick)
  PROVE  IInv'
<1> DEFINE s == tick.symbol
           o == NewCandle(tick)
           h == agg.history[s]
           c == [agg.open[s] EXCEPT !.closed = TRUE]
           longer == PushHistory(h, c)
<1>1. s \in Symbols
  BY ConstantFacts
<1>2. /\ agg.open[s] \in CandleType
      /\ GoodCandles(s, agg.open[s], h, rows)
      /\ h \in Seq(CandleType) /\ Len(h) \in Nat /\ DOMAIN h = 1 .. Len(h)
  BY <1>1, Before DEF Closes, Opens
<1>3. /\ c \in CandleType /\ c # None /\ c.closed /\ c.symbol = s
      /\ c.bucket = agg.open[s].bucket
  BY <1>2, CloseFacts, SMTT(30) DEF GoodCandles
<1>4. /\ agg.open[s].bucket < BucketStart(tick.time)
      /\ BucketStart(tick.time) \in Nat /\ agg.open[s].bucket \in Nat
  BY CloseEffect
<1>5. /\ agg' = [agg EXCEPT !.open[s] = o, !.history[s] = longer, !.lastPatch = None]
      /\ rows' = Record(rows, c)
  BY CloseEffect
<1>6. /\ longer \in Seq(CandleType) /\ Len(longer) <= HistoryLen
      /\ \E d \in {0, 1} : \A i \in DOMAIN longer :
           /\ i + d \in 1 .. Len(h) + 1
           /\ longer[i] = IF i + d = Len(h) + 1 THEN c ELSE h[i + d]
  BY <1>2, <1>3, PushFacts DEF GoodCandles
<1>7. /\ o \in CandleType /\ o # None /\ o.symbol = s /\ ~o.closed
      /\ o.bucket = BucketStart(tick.time)
  BY NewCandleFacts
<1> HIDE DEF o, c, longer
<1>8. /\ agg'.open = [agg.open EXCEPT ![s] = o]
      /\ agg'.history = [agg.history EXCEPT ![s] = longer]
      /\ agg' \in AggregatorType
  BY <1>5, <1>1, <1>6, <1>7, StepFrame DEF AggregatorType
<1>9. /\ rows' \in [Keys -> CandleType \cup {None}]
      /\ rows'[<<s, c.bucket>>] = c
      /\ \A k \in Keys : k # <<s, c.bucket>> => rows'[k] = rows[k]
  <2>1. rows \in [Keys -> CandleType \cup {None}]
    BY StepFrame
  <2>2. /\ Record(rows, c) \in [Keys -> CandleType \cup {None}]
        /\ Record(rows, c)[<<c.symbol, c.bucket>>] = c
        /\ \A k \in Keys : k # <<c.symbol, c.bucket>> => Record(rows, c)[k] = rows[k]
    BY <2>1, <1>3, RecordFacts
  <2> QED BY <2>2, <1>3, <1>5
<1>10. \A k \in Keys : k[1] # s => rows'[k] = rows[k]
  BY <1>9
\* One old candle of the history, seen from the new one.
<1>11. ASSUME NEW j \in 1 .. Len(h)
       PROVE  /\ h[j].closed /\ h[j].symbol = s /\ h[j].bucket \in Nat
              /\ h[j].bucket < c.bucket
              /\ rows'[<<s, h[j].bucket>>] = h[j]
  <2>1. /\ h[j].closed /\ h[j].symbol = s /\ h[j].bucket < c.bucket
        /\ rows[<<s, h[j].bucket>>] = h[j]
    BY <1>2, <1>3 DEF GoodCandles
  <2>2. h[j] \in CandleType
    BY <1>2, ElementOfSeq
  <2>3. h[j].bucket \in Nat /\ <<s, h[j].bucket>> \in Keys
    BY <2>2, <1>1, ConstantFacts DEF CandleType, Keys
  <2>4. h[j].bucket # c.bucket
    BY <2>1, <2>3, <1>3, <1>4
  <2> QED BY <2>1, <2>3, <2>4, <1>9
<1>12. PICK d \in {0, 1} : \A i \in DOMAIN longer :
           /\ i + d \in 1 .. Len(h) + 1
           /\ longer[i] = IF i + d = Len(h) + 1 THEN c ELSE h[i + d]
  BY <1>6
<1>13. DOMAIN longer = 1 .. Len(longer) /\ Len(longer) \in Nat
  BY <1>6, LenProperties
<1>14. ASSUME NEW i \in DOMAIN longer
       PROVE  /\ longer[i].closed /\ longer[i].symbol = s
              /\ longer[i].bucket \in Nat /\ longer[i].bucket < o.bucket
              /\ rows'[<<s, longer[i].bucket>>] = longer[i]
  <2>1. CASE i + d = Len(h) + 1
    BY <2>1, <1>12, <1>3, <1>4, <1>7, <1>9
  <2>2. CASE i + d # Len(h) + 1
    <3>1. i + d \in 1 .. Len(h) /\ longer[i] = h[i + d]
      BY <2>2, <1>12, <1>13, <1>2
    <3>2. c.bucket < o.bucket /\ c.bucket \in Nat /\ o.bucket \in Nat
      BY <1>3, <1>4, <1>7
    <3> QED BY <3>1, <3>2, <1>11
  <2> QED BY <2>1, <2>2
<1>15. ASSUME NEW i \in DOMAIN longer, NEW j \in DOMAIN longer, i < j
       PROVE  longer[i].bucket < longer[j].bucket
  <2>1. i + d \in 1 .. Len(h) /\ longer[i] = h[i + d]
    BY <1>12, <1>13, <1>15, <1>2
  <2>2. CASE j + d = Len(h) + 1
    BY <2>1, <2>2, <1>11, <1>12
  <2>3. CASE j + d # Len(h) + 1
    <3>1. j + d \in 1 .. Len(h) /\ longer[j] = h[j + d] /\ i + d < j + d
      <4>1. j + d \in 1 .. Len(h) + 1 /\ longer[j] = h[j + d]
        BY <2>3, <1>12, SMTT(30)
      <4>2. i \in Nat /\ j \in Nat /\ d \in Nat
        BY <1>13, SMTT(30)
      <4> QED BY <4>1, <4>2, <2>3, <1>15, <1>2
    <3> QED BY <2>1, <3>1, <1>2 DEF GoodCandles
  <2> QED BY <2>2, <2>3
<1>16. GoodCandles(s, o, longer, rows')
  BY <1>6, <1>7, <1>14, <1>15 DEF GoodCandles
<1> HIDE DEF s, h
<1> QED BY <1>1, <1>8, <1>9, <1>10, <1>16, StepFrame, OneSymbol

\* A late tick for a kept bucket is merged into the one candle of that
\* bucket, and the patched candle is recorded.
LEMMA PatchStep ==
  ASSUME IInv, NEW tick \in Ticks, ApplyTick(tick),
         ~Opens(agg, tick), ~Merges(agg, tick), ~Closes(agg, tick), Hits(agg, tick) # {}
  PROVE  IInv'
<1> DEFINE s == tick.symbol
           o == agg.open[s]
           h == agg.history[s]
           n == FirstHit(agg, tick)
           p == Merge(h[n], tick)
           patched == [h EXCEPT ![n] = p]
<1>1. s \in Symbols
  BY ConstantFacts
<1>2. /\ o \in CandleType
      /\ GoodCandles(s, o, h, rows)
      /\ h \in Seq(CandleType) /\ Len(h) \in Nat /\ DOMAIN h = 1 .. Len(h)
      /\ h \in [1 .. Len(h) -> CandleType]
  BY <1>1, Before DEF Opens
<1>3. ASSUME NEW j \in 1 .. Len(h)
      PROVE  /\ h[j] \in CandleType /\ h[j].bucket \in Nat
             /\ h[j].closed /\ h[j].symbol = s /\ <<s, h[j].bucket>> \in Keys
             /\ rows[<<s, h[j].bucket>>] = h[j] /\ h[j].bucket < o.bucket
  <2>1. h[j] \in CandleType
    BY <1>2
  <2>2. h[j].bucket \in Nat /\ <<s, h[j].bucket>> \in Keys
    BY <2>1, <1>1, ConstantFacts DEF CandleType, Keys
  <2> QED BY <2>1, <2>2, <1>2 DEF GoodCandles
<1>4. \A i, j \in 1 .. Len(h) : i < j => h[i].bucket < h[j].bucket
  BY <1>2, SMTT(30) DEF GoodCandles
<1>5. n \in 1 .. Len(h)
  BY PatchEffect
<1>6. /\ p \in CandleType /\ p # None /\ p.closed
      /\ p.symbol = s /\ p.bucket = h[n].bucket
  <2> HIDE DEF n
  <2>1. h[n] \in CandleType /\ h[n].closed /\ h[n].symbol = s
    BY <1>3, <1>5
  <2> HIDE DEF s, h
  <2> QED BY <2>1, MergeFacts
<1>7. /\ agg' = [agg EXCEPT !.history[s] = patched,
                            !.latePatches = @ + 1, !.lastPatch = None]
      /\ rows' = Record(rows, p)
  BY PatchEffect
<1> HIDE DEF n, p
<1>8. /\ patched \in Seq(CandleType) /\ Len(patched) = Len(h)
      /\ DOMAIN patched = 1 .. Len(h)
      /\ \A i \in 1 .. Len(h) : patched[i] = IF i = n THEN p ELSE h[i]
  BY <1>2, <1>5, <1>6, ExceptSeq
<1> HIDE DEF patched
<1>9. /\ agg'.open = agg.open
      /\ agg'.history = [agg.history EXCEPT ![s] = patched]
      /\ agg' \in AggregatorType
  BY <1>7, <1>1, <1>8, StepFrame DEF AggregatorType
<1>10. agg'.open = [agg.open EXCEPT ![s] = o]
  BY <1>9, <1>1, StepFrame
<1>11. /\ rows' \in [Keys -> CandleType \cup {None}]
       /\ rows'[<<s, p.bucket>>] = p
       /\ \A k \in Keys : k # <<s, p.bucket>> => rows'[k] = rows[k]
  <2>1. rows \in [Keys -> CandleType \cup {None}]
    BY StepFrame
  <2>2. /\ Record(rows, p) \in [Keys -> CandleType \cup {None}]
        /\ Record(rows, p)[<<p.symbol, p.bucket>>] = p
        /\ \A k \in Keys : k # <<p.symbol, p.bucket>> => Record(rows, p)[k] = rows[k]
    BY <2>1, <1>6, RecordFacts
  <2> QED BY <2>2, <1>6, <1>7
<1>12. \A k \in Keys : k[1] # s => rows'[k] = rows[k]
  BY <1>11
<1>13. ASSUME NEW i \in 1 .. Len(h)
       PROVE  /\ patched[i].closed /\ patched[i].symbol = s
              /\ patched[i].bucket = h[i].bucket
              /\ rows'[<<s, patched[i].bucket>>] = patched[i]
  <2>1. CASE i = n
    BY <2>1, <1>6, <1>8, <1>11
  <2>2. CASE i # n
    <3>1. patched[i] = h[i]
      BY <2>2, <1>8
    <3>2. h[i].bucket \in Nat /\ h[n].bucket \in Nat
      BY <1>3, <1>5
    <3>3. h[i].bucket # h[n].bucket
      BY <2>2, <3>2, <1>4, <1>5
    <3> QED BY <3>1, <3>3, <1>3, <1>6, <1>11
  <2> QED BY <2>1, <2>2
<1>14. GoodCandles(s, o, patched, rows')
  <2>1. /\ o \in CandleType /\ o # None /\ ~o.closed /\ o.symbol = s
        /\ Len(patched) <= HistoryLen
    BY <1>2, <1>8 DEF GoodCandles
  <2>2. \A i, j \in DOMAIN patched : i < j => patched[i].bucket < patched[j].bucket
    BY <1>4, <1>8, <1>13
  <2>3. \A i \in DOMAIN patched : patched[i].bucket < o.bucket
    BY <1>3, <1>8, <1>13
  <2> QED BY <2>1, <2>2, <2>3, <1>8, <1>13 DEF GoodCandles
<1> HIDE DEF s, o, h
<1> QED BY <1>1, <1>9, <1>10, <1>11, <1>12, <1>14, StepFrame, OneSymbol

-----------------------------------------------------------------------------
\* The invariant of order and types holds at the start,
LEMMA InitIInv == Init => IInv
<1> SUFFICES ASSUME Init PROVE IInv
  OBVIOUS
<1>1. /\ agg = [open |-> [s \in Symbols |-> None], history |-> [s \in Symbols |-> <<>>],
                latePatches |-> 0, lastPatch |-> None]
      /\ rows = [k \in Keys |-> None] /\ applied = <<>>
  BY DEF Init, EmptyAggregator
<1>2. TypeOK
  BY <1>1 DEF TypeOK, AggregatorType
<1>3. ASSUME NEW s \in Symbols PROVE agg.open[s] = None /\ agg.history[s] = <<>>
  BY <1>1
<1>4. HistoryOrdered
  <2>1. Len(<<>>) <= HistoryLen /\ DOMAIN <<>> = {}
    BY ConstantFacts
  <2> QED BY <1>3, <2>1 DEF HistoryOrdered
<1>5. RowsFollowHistory
  BY <1>3 DEF RowsFollowHistory
<1> QED BY <1>2, <1>4, <1>5 DEF IInv

\* and every step keeps it.
LEMMA NextIInv == IInv /\ [Next]_vars => IInv'
<1> SUFFICES ASSUME IInv, [Next]_vars PROVE IInv'
  OBVIOUS
<1>1. ASSUME NEW tick \in Ticks, ApplyTick(tick) PROVE IInv'
  <2>1. CASE Opens(agg, tick)
    BY <1>1, <2>1, OpenFirstStep
  <2>2. CASE Merges(agg, tick)
    BY <1>1, <2>2, MergeStep
  <2>3. CASE Closes(agg, tick)
    BY <1>1, <2>3, CloseStep
  <2>4. CASE /\ ~Opens(agg, tick) /\ ~Merges(agg, tick) /\ ~Closes(agg, tick)
             /\ Hits(agg, tick) = {}
    BY <1>1, <2>4, LateUnkeptStep
  <2>5. CASE /\ ~Opens(agg, tick) /\ ~Merges(agg, tick) /\ ~Closes(agg, tick)
             /\ Hits(agg, tick) # {}
    BY <1>1, <2>5, PatchStep
  <2> QED BY <2>1, <2>2, <2>3, <2>4, <2>5
<1>2. CASE UNCHANGED vars
  <2>1. agg' = agg /\ rows' = rows /\ applied' = applied
    BY <1>2 DEF vars
  <2>2. TypeOK'
    BY <2>1 DEF IInv, TypeOK
  <2>3. HistoryOrdered'
    BY <2>1 DEF IInv, HistoryOrdered
  <2>4. RowsFollowHistory'
    BY <2>1 DEF IInv, RowsFollowHistory
  <2> QED BY <2>2, <2>3, <2>4 DEF IInv
<1> QED BY <1>1, <1>2 DEF Next

(* The inductive invariant holds of every behaviour of the feed.           *)
THEOREM Invariance == Spec => []IInv
<1>1. Init => IInv
  BY InitIInv
<1>2. IInv /\ [Next]_vars => IInv'
  BY NextIInv
<1> QED BY <1>1, <1>2, PTL DEF Spec

(* The aggregator, the rows and the ticks keep their types.                *)
THEOREM TypeCorrect == Spec => []TypeOK
<1>1. IInv => TypeOK
  BY DEF IInv
<1> QED BY <1>1, Invariance, PTL

(* CandleAggregator.apply: whatever the order of the ticks, the history of *)
(* a symbol is a bounded run of closed candles in increasing buckets, all  *)
(* older than the open one, so that a bucket never has two candles.        *)
THEOREM HistoryIsOrdered == Spec => []HistoryOrdered
<1>1. IInv => HistoryOrdered
  BY DEF IInv
<1> QED BY <1>1, Invariance, PTL

(* CandleAggregator.take_patch: every candle in the history is what was    *)
(* last recorded for its bucket, late patches included.                    *)
THEOREM RowsAreCurrent == Spec => []RowsFollowHistory
<1>1. IInv => RowsFollowHistory
  BY DEF IInv
<1> QED BY <1>1, Invariance, PTL
-----------------------------------------------------------------------------
(* Candles against the ticks applied.                                      *)
FT == INSTANCE FoldTheorems WITH Op <- PutTick
FV == INSTANCE FoldTheorems WITH Op <- AddQuantity

NoTicks == [k \in Keys |-> <<>>]

Volume(ticks) == FoldLeft(AddQuantity, 0, ticks)

\* The table of ticks is a left fold over the ticks applied.
LEMMA TicksOfIsFold == TicksOf = FT!Fold(NoTicks, applied)
BY DEF TicksOf, NoTicks, FoldLeft, MapThenFoldSet, Max, FT!Fold, FT!FoldLeft,
       FT!MapThenFoldSet, FT!Max

\* The volume of a sequence of ticks is a left fold too.
LEMMA VolumeIsFold == \A ticks : Volume(ticks) = FV!Fold(0, ticks)
BY DEF Volume, FoldLeft, MapThenFoldSet, Max, FV!Fold, FV!FoldLeft,
       FV!MapThenFoldSet, FV!Max

\* Before the first tick the table is empty.
LEMMA NothingApplied == applied = <<>> => TicksOf = NoTicks
BY TicksOfIsFold, FT!FoldEmpty

\* A step puts its tick into its bucket.
LEMMA TableGrows ==
  ASSUME IInv, NEW tick \in Ticks, ApplyTick(tick)
  PROVE  TicksOf' = PutTick(TicksOf, tick)
<1>1. applied \in Seq(Ticks) /\ applied' = Append(applied, tick)
  BY DEF IInv, TypeOK, ApplyTick
<1>2. TicksOf' = FT!Fold(NoTicks, applied')
  BY DEF TicksOf, NoTicks, FoldLeft, MapThenFoldSet, Max, FT!Fold, FT!FoldLeft,
         FT!MapThenFoldSet, FT!Max
<1> QED BY <1>1, <1>2, TicksOfIsFold, FT!FoldAppend

\* One more tick adds its quantity to the volume.
LEMMA VolumeGrows ==
  ASSUME NEW ticks \in Seq(Ticks), NEW tick \in Ticks
  PROVE  Volume(Append(ticks, tick)) = Volume(ticks) + tick.quantity
BY VolumeIsFold, FV!FoldAppend DEF AddQuantity

\* No ticks have no volume.
LEMMA VolumeOfNone == Volume(<<>>) = 0
BY VolumeIsFold, FV!FoldEmpty

(* Exact, with the extreme prices by what makes them extreme.              *)
Tells(c, ticks) ==
  /\ ticks \in Seq(Ticks) /\ Len(ticks) # 0
  /\ c.count = Len(ticks)
  /\ c.open = ticks[1].price /\ c.close = ticks[Len(ticks)].price
  /\ \E i \in 1 .. Len(ticks) : ticks[i].price = c.high
  /\ \E i \in 1 .. Len(ticks) : ticks[i].price = c.low
  /\ \A i \in 1 .. Len(ticks) : ticks[i].price <= c.high /\ c.low <= ticks[i].price
  /\ c.volume = Volume(ticks)

\* An upper bound in the set is its maximum.
LEMMA MaxIs ==
  ASSUME NEW S \in SUBSET Int, NEW m \in S, \A x \in S : x <= m
  PROVE  Max(S) = m
<1>1. \E z \in S : \A x \in S : z >= x
  OBVIOUS
<1>2. Max(S) \in S /\ \A x \in S : Max(S) >= x
  BY <1>1 DEF Max
<1> DEFINE z == Max(S)
<1> HIDE DEF z
<1>3. z \in S /\ z >= m
  BY <1>2 DEF z
<1>4. z \in Int /\ m \in Int /\ z <= m
  BY <1>3
<1>5. z = m
  BY <1>3, <1>4
<1> QED BY <1>5 DEF z

\* A lower bound in the set is its minimum.
LEMMA MinIs ==
  ASSUME NEW S \in SUBSET Int, NEW m \in S, \A x \in S : m <= x
  PROVE  Min(S) = m
<1>1. \E z \in S : \A x \in S : z <= x
  OBVIOUS
<1>2. Min(S) \in S /\ \A x \in S : Min(S) <= x
  BY <1>1 DEF Min
<1> DEFINE z == Min(S)
<1> HIDE DEF z
<1>3. z \in S /\ z <= m
  BY <1>2 DEF z
<1>4. z \in Int /\ m \in Int /\ m <= z
  BY <1>3
<1>5. z = m
  BY <1>3, <1>4
<1> QED BY <1>5 DEF z

\* So it is exact.
LEMMA TellsIsExact ==
  ASSUME NEW c \in CandleType, Tells(c, TicksOf[<<c.symbol, c.bucket>>])
  PROVE  Exact(c)
<1> DEFINE ticks == TicksOf[<<c.symbol, c.bucket>>]
           prices == {ticks[i].price : i \in DOMAIN ticks}
<1>1. DOMAIN ticks = 1 .. Len(ticks)
  BY LenProperties DEF Tells
<1>2. /\ c.high \in prices /\ c.low \in prices
      /\ \A p \in prices : p <= c.high /\ c.low <= p
  BY <1>1 DEF Tells
<1>3. prices \subseteq Int
  <2> SUFFICES ASSUME NEW i \in 1 .. Len(ticks) PROVE ticks[i].price \in Int
    BY <1>1
  <2>1. ticks[i] \in Ticks
    BY ElementOfSeq DEF Tells
  <2> QED BY <2>1, ConstantFacts
<1> HIDE DEF prices
<1>4. Max(prices) = c.high
  BY <1>2, <1>3, MaxIs
<1>5. Min(prices) = c.low
  BY <1>2, <1>3, MinIs
<1>6. c.volume = FoldLeft(AddQuantity, 0, ticks)
  BY DEF Tells, Volume
<1> QED BY <1>4, <1>5, <1>6 DEF Tells, Exact, prices

\* A new candle is its one tick; a merge adds the tick to those it has.
LEMMA NewTells ==
  ASSUME NEW tick \in Ticks
  PROVE  Tells(NewCandle(tick), Append(<<>>, tick))
<1> DEFINE one == Append(<<>>, tick)
<1>1. one \in Seq(Ticks) /\ Len(one) = 1 /\ one[1] = tick
  OBVIOUS
<1>2. tick.price \in Int /\ tick.quantity \in Nat
  BY ConstantFacts
<1>3. Volume(one) = 0 + tick.quantity
  <2>1. <<>> \in Seq(Ticks)
    OBVIOUS
  <2>2. Volume(one) = Volume(<<>>) + tick.quantity
    BY <2>1, VolumeGrows
  <2> QED BY <2>2, VolumeOfNone
<1> HIDE DEF one
<1>4. Volume(one) = tick.quantity
  BY <1>2, <1>3
<1>5. Tells(NewCandle(tick), one)
  BY <1>1, <1>2, <1>4 DEF Tells, NewCandle
<1> QED BY <1>5 DEF one

\* Merging a tick into a candle that tells its ticks tells one more.
LEMMA MergeTells ==
  ASSUME NEW tick \in Ticks, NEW c \in CandleType, NEW ticks, Tells(c, ticks)
  PROVE  Tells(Merge(c, tick), Append(ticks, tick))
<1> DEFINE more == Append(ticks, tick)
           d == Merge(c, tick)
           n == Len(ticks)
<1>1. ticks \in Seq(Ticks) /\ n \in Nat /\ n # 0
  BY LenProperties DEF Tells
<1>2. /\ more \in Seq(Ticks) /\ Len(more) = n + 1 /\ more[n + 1] = tick
      /\ \A i \in 1 .. n : more[i] = ticks[i]
  BY <1>1, AppendProperties
<1>3. Volume(more) = Volume(ticks) + tick.quantity
  BY <1>1, VolumeGrows
<1>4. /\ tick.price \in Int /\ tick.quantity \in Nat
      /\ c.high \in Int /\ c.low \in Int /\ c.count = n
  BY ConstantFacts DEF CandleType, Tells
<1>5. /\ d.high = Larger(c.high, tick.price) /\ d.low = Smaller(c.low, tick.price)
      /\ d.open = c.open /\ d.close = tick.price
      /\ d.volume = c.volume + tick.quantity /\ d.count = n + 1
  BY <1>4 DEF Merge, CandleType
<1> HIDE DEF more, d, n
<1>6. \A i \in 1 .. n : /\ ticks[i].price \in Int
                        /\ ticks[i].price <= c.high /\ c.low <= ticks[i].price
  <2> SUFFICES ASSUME NEW i \in 1 .. n
               PROVE  /\ ticks[i].price \in Int
                      /\ ticks[i].price <= c.high /\ c.low <= ticks[i].price
    OBVIOUS
  <2>1. ticks[i] \in Ticks
    BY <1>1, ElementOfSeq DEF n
  <2> QED BY <2>1, ConstantFacts DEF Tells, n
<1>7. PICK i \in 1 .. n : ticks[i].price = c.high
  BY DEF Tells, n
<1>8. PICK j \in 1 .. n : ticks[j].price = c.low
  BY DEF Tells, n
<1>9. \A k \in 1 .. n + 1 : k \in 1 .. n \/ k = n + 1
  BY <1>1
<1>10. \A k \in 1 .. n + 1 : more[k].price <= d.high /\ d.low <= more[k].price
  <2> SUFFICES ASSUME NEW k \in 1 .. n + 1
               PROVE  more[k].price <= d.high /\ d.low <= more[k].price
    OBVIOUS
  <2>1. CASE k = n + 1
    BY <2>1, <1>2, <1>4, <1>5 DEF Larger, Smaller
  <2>2. CASE k \in 1 .. n
    <3>1. more[k] = ticks[k] /\ ticks[k].price \in Int
          /\ ticks[k].price <= c.high /\ c.low <= ticks[k].price
      BY <2>2, <1>2, <1>6
    <3> QED BY <3>1, <1>4, <1>5 DEF Larger, Smaller
  <2> QED BY <2>1, <2>2, <1>9
<1>11. \E k \in 1 .. n + 1 : more[k].price = d.high
  <2>1. i \in 1 .. n + 1 /\ more[i].price = c.high /\ n + 1 \in 1 .. n + 1
    BY <1>1, <1>2, <1>7
  <2>2. more[n + 1].price = tick.price
    BY <1>2
  <2> QED BY <2>1, <2>2, <1>5 DEF Larger
<1>12. \E k \in 1 .. n + 1 : more[k].price = d.low
  <2>1. j \in 1 .. n + 1 /\ more[j].price = c.low /\ n + 1 \in 1 .. n + 1
    BY <1>1, <1>2, <1>8
  <2>2. more[n + 1].price = tick.price
    BY <1>2
  <2> QED BY <2>1, <2>2, <1>5 DEF Smaller
<1>13. d.open = more[1].price /\ d.close = more[n + 1].price
  <2>1. 1 \in 1 .. n /\ c.open = ticks[1].price
    BY <1>1 DEF Tells
  <2> QED BY <2>1, <1>2, <1>5
<1>14. d.volume = Volume(more)
  BY <1>3, <1>5 DEF Tells
<1>15. Len(more) # 0 /\ d.count = Len(more)
  BY <1>1, <1>2, <1>5
<1>16. Tells(d, more)
  BY <1>2, <1>10, <1>11, <1>12, <1>13, <1>14, <1>15 DEF Tells
<1> QED BY <1>16 DEF d, more

\* Whether it is closed makes no difference.
LEMMA CloseTells ==
  ASSUME NEW c \in CandleType, NEW ticks, Tells(c, ticks)
  PROVE  Tells([c EXCEPT !.closed = TRUE], ticks)
<1> DEFINE d == [c EXCEPT !.closed = TRUE]
<1>1. /\ d.count = c.count /\ d.open = c.open /\ d.close = c.close /\ d.high = c.high
      /\ d.low = c.low /\ d.volume = c.volume
  BY DEF CandleType
<1> HIDE DEF d
<1>2. Tells(d, ticks)
  BY <1>1 DEF Tells
<1> QED BY <1>2 DEF d
-----------------------------------------------------------------------------
(* Of one symbol: every candle has the ticks of its bucket, and no tick    *)
(* and no row is of a bucket newer than the open one.                      *)
ExactFor(s, o, h, ticks, table) ==
  /\ o = None => \A b \in Buckets : ticks[<<s, b>>] = <<>> /\ table[<<s, b>>] = None
  /\ o # None =>
       /\ Tells(o, ticks[<<s, o.bucket>>])
       /\ table[<<s, o.bucket>>] = None
       /\ \A b \in Buckets : b > o.bucket => ticks[<<s, b>>] = <<>> /\ table[<<s, b>>] = None
  /\ \A i \in DOMAIN h : Tells(h[i], ticks[<<s, h[i].bucket>>])

ExactInv ==
  /\ TicksOf \in [Keys -> Seq(Ticks)]
  /\ \A s \in Symbols : ExactFor(s, agg.open[s], agg.history[s], TicksOf, rows)

\* Putting a tick in the table appends it to the ticks of its candle.
LEMMA PutFacts ==
  ASSUME NEW table \in [Keys -> Seq(Ticks)], NEW tick \in Ticks
  PROVE  LET k == <<tick.symbol, BucketStart(tick.time)>>
         IN  /\ k \in Keys
             /\ PutTick(table, tick) \in [Keys -> Seq(Ticks)]
             /\ PutTick(table, tick)[k] = Append(table[k], tick)
             /\ \A l \in Keys : l # k => PutTick(table, tick)[l] = table[l]
<1> DEFINE k == <<tick.symbol, BucketStart(tick.time)>>
<1>1. k \in Keys
  BY ConstantFacts DEF Keys
<1> HIDE DEF k
<1>2. PutTick(table, tick) = [table EXCEPT ![k] = Append(@, tick)]
  BY DEF PutTick, k
<1>3. table[k] \in Seq(Ticks) /\ Append(table[k], tick) \in Seq(Ticks)
  BY <1>1, AppendProperties
<1>4. /\ PutTick(table, tick) \in [Keys -> Seq(Ticks)]
      /\ PutTick(table, tick)[k] = Append(table[k], tick)
      /\ \A l \in Keys : l # k => PutTick(table, tick)[l] = table[l]
  BY <1>1, <1>2, <1>3
<1> QED BY <1>1, <1>4 DEF k

\* What a step has to establish about the symbol of its tick is enough.
LEMMA OneSymbolExact ==
  ASSUME IInv, ExactInv, NEW tick \in Ticks, ApplyTick(tick), NEW o, NEW h,
         agg'.open = [agg.open EXCEPT ![tick.symbol] = o],
         agg'.history = [agg.history EXCEPT ![tick.symbol] = h],
         \A k \in Keys : k[1] # tick.symbol => rows'[k] = rows[k],
         ExactFor(tick.symbol, o, h, PutTick(TicksOf, tick), rows')
  PROVE  ExactInv'
<1> DEFINE s == tick.symbol
           table == PutTick(TicksOf, tick)
<1>1. TicksOf' = table
  BY TableGrows
<1>2. TicksOf' \in [Keys -> Seq(Ticks)]
  BY <1>1, PutFacts DEF ExactInv
<1>3. /\ agg.open \in [Symbols -> CandleType \cup {None}]
      /\ agg.history \in [Symbols -> Seq(CandleType)]
  BY StepFrame
<1>4. \A k \in Keys : k[1] # s => table[k] = TicksOf[k]
  <2> SUFFICES ASSUME NEW k \in Keys, k[1] # s PROVE table[k] = TicksOf[k]
    OBVIOUS
  <2> DEFINE own == <<s, BucketStart(tick.time)>>
  <2>1. own[1] = s
    OBVIOUS
  <2>2. \A l \in Keys : l # own => table[l] = TicksOf[l]
    BY PutFacts DEF ExactInv
  <2> HIDE DEF own, table
  <2>3. k # own
    BY <2>1
  <2> QED BY <2>2, <2>3
<1> HIDE DEF table
<1>5. ASSUME NEW r \in Symbols
      PROVE  ExactFor(r, agg'.open[r], agg'.history[r], table, rows')
  <2>1. CASE r = s
    <3>1. agg'.open[r] = o /\ agg'.history[r] = h
      BY <2>1, <1>3
    <3> QED BY <2>1, <3>1 DEF table
  <2>2. CASE r # s
    <3> DEFINE p == agg.open[r]
               g == agg.history[r]
    <3>1. agg'.open[r] = p /\ agg'.history[r] = g
      BY <2>2, <1>3
    <3>2. ExactFor(r, p, g, TicksOf, rows)
      BY DEF ExactInv
    <3>3. p \in CandleType \cup {None} /\ g \in Seq(CandleType)
      BY <1>3
    <3> HIDE DEF p, g
    <3>4. \A b \in Buckets : table[<<r, b>>] = TicksOf[<<r, b>>] /\ rows'[<<r, b>>] = rows[<<r, b>>]
      <4> SUFFICES ASSUME NEW b \in Buckets
                   PROVE  table[<<r, b>>] = TicksOf[<<r, b>>] /\ rows'[<<r, b>>] = rows[<<r, b>>]
        OBVIOUS
      <4>1. <<r, b>> \in Keys /\ <<r, b>>[1] # s
        BY <2>2 DEF Keys
      <4> QED BY <4>1, <1>4
    <3>5. p # None => p.bucket \in Buckets
      BY <3>3 DEF CandleType
    <3>6. \A i \in DOMAIN g : g[i].bucket \in Buckets
      <4> SUFFICES ASSUME NEW i \in DOMAIN g PROVE g[i].bucket \in Buckets
        OBVIOUS
      <4>1. g[i] \in CandleType
        BY <3>3, ElementOfSeq, LenProperties
      <4> QED BY <4>1 DEF CandleType
    <3>7. ExactFor(r, p, g, table, rows')
      BY <3>2, <3>4, <3>5, <3>6 DEF ExactFor
    <3> QED BY <3>1, <3>7
  <2> QED BY <2>1, <2>2
<1> QED BY <1>1, <1>2, <1>5 DEF ExactInv

\* No candle exists at the start, so all are exact.
LEMMA InitExact == Init => ExactInv
<1> SUFFICES ASSUME Init PROVE ExactInv
  OBVIOUS
<1>1. /\ agg = [open |-> [s \in Symbols |-> None], history |-> [s \in Symbols |-> <<>>],
                latePatches |-> 0, lastPatch |-> None]
      /\ rows = [k \in Keys |-> None] /\ applied = <<>>
  BY DEF Init, EmptyAggregator
<1>2. TicksOf = [k \in Keys |-> <<>>]
  BY <1>1, NothingApplied DEF NoTicks
<1>3. ASSUME NEW s \in Symbols PROVE ExactFor(s, agg.open[s], agg.history[s], TicksOf, rows)
  <2>1. agg.open[s] = None /\ agg.history[s] = <<>> /\ DOMAIN <<>> = {}
    BY <1>1
  <2>2. \A b \in Buckets : <<s, b>> \in Keys
    BY DEF Keys
  <2>3. \A b \in Buckets : TicksOf[<<s, b>>] = <<>> /\ rows[<<s, b>>] = None
    BY <1>1, <1>2, <2>2
  <2> QED BY <2>1, <2>3 DEF ExactFor
<1>4. <<>> \in Seq(Ticks)
  OBVIOUS
<1>5. TicksOf \in [Keys -> Seq(Ticks)]
  BY <1>2, <1>4
<1> QED BY <1>3, <1>5 DEF ExactInv

\* The first tick of a symbol is the only one of its candle.
LEMMA OpenFirstExact ==
  ASSUME IInv, ExactInv, NEW tick \in Ticks, ApplyTick(tick), Opens(agg, tick)
  PROVE  ExactInv'
<1> DEFINE s == tick.symbol
           b == BucketStart(tick.time)
           o == NewCandle(tick)
           h == agg.history[s]
           table == PutTick(TicksOf, tick)
<1>1. s \in Symbols /\ b \in Buckets /\ Buckets \subseteq Nat /\ <<s, b>> \in Keys
  BY ConstantFacts DEF Keys
<1>2. agg.open[s] = None /\ h = <<>> /\ DOMAIN <<>> = {}
  BY <1>1, Before DEF Opens
<1>3. \A a \in Buckets : TicksOf[<<s, a>>] = <<>> /\ rows[<<s, a>>] = None
  BY <1>1, <1>2 DEF ExactInv, ExactFor
<1>4. /\ agg' = [agg EXCEPT !.open[s] = o, !.lastPatch = None]
      /\ rows' = rows
  BY OpenFirstEffect
<1>5. o # None /\ o.bucket = b
  BY NewCandleFacts
<1>6. Tells(o, Append(<<>>, tick))
  BY NewTells
<1> HIDE DEF o
<1>7. agg'.open = [agg.open EXCEPT ![s] = o] /\ agg'.history = [agg.history EXCEPT ![s] = h]
  BY <1>1, <1>4, StepFrame
<1>8. /\ table[<<s, b>>] = Append(TicksOf[<<s, b>>], tick)
      /\ \A l \in Keys : l # <<s, b>> => table[l] = TicksOf[l]
  BY PutFacts DEF ExactInv
<1> HIDE DEF table
<1>9. \A a \in Buckets : a > b => table[<<s, a>>] = <<>> /\ rows'[<<s, a>>] = None
  <2> SUFFICES ASSUME NEW a \in Buckets, a > b
               PROVE  table[<<s, a>>] = <<>> /\ rows'[<<s, a>>] = None
    OBVIOUS
  <2>1. <<s, a>> \in Keys /\ a # b
    BY <1>1 DEF Keys
  <2>2. <<s, a>> # <<s, b>>
    BY <2>1
  <2> QED BY <2>1, <2>2, <1>3, <1>4, <1>8
<1>10. rows'[<<s, b>>] = None /\ table[<<s, b>>] = Append(<<>>, tick)
  BY <1>1, <1>3, <1>4, <1>8
<1>11. ExactFor(s, o, h, table, rows')
  <2> HIDE DEF h
  <2> QED BY <1>2, <1>5, <1>6, <1>9, <1>10 DEF ExactFor
<1> QED BY <1>4, <1>7, <1>11, OneSymbolExact DEF table

\* A tick of the open bucket comes last in it.
LEMMA MergeExact ==
  ASSUME IInv, ExactInv, NEW tick \in Ticks, ApplyTick(tick), Merges(agg, tick)
  PROVE  ExactInv'
<1> DEFINE s == tick.symbol
           b == BucketStart(tick.time)
           p == agg.open[s]
           o == Merge(p, tick)
           h == agg.history[s]
           table == PutTick(TicksOf, tick)
<1>1. s \in Symbols /\ b \in Buckets /\ Buckets \subseteq Nat /\ <<s, b>> \in Keys
  BY ConstantFacts DEF Keys
<1>2. /\ p \in CandleType /\ p # None /\ p.bucket = b
      /\ GoodCandles(s, p, h, rows) /\ h \in Seq(CandleType)
  BY <1>1, Before DEF Merges, Opens
<1>3. ExactFor(s, p, h, TicksOf, rows)
  BY <1>1 DEF ExactInv
<1>4. /\ agg' = [agg EXCEPT !.open[s] = o, !.lastPatch = None]
      /\ rows' = rows
  BY MergeEffect
<1>5. o # None /\ o.bucket = b
  BY <1>2, MergeFacts
<1>6. /\ table[<<s, b>>] = Append(TicksOf[<<s, b>>], tick)
      /\ \A l \in Keys : l # <<s, b>> => table[l] = TicksOf[l]
  BY PutFacts DEF ExactInv
<1> HIDE DEF table
<1>7. Tells(o, table[<<s, b>>])
  <2>1. Tells(p, TicksOf[<<s, b>>])
    BY <1>2, <1>3 DEF ExactFor
  <2> HIDE DEF p
  <2> QED BY <1>2, <1>6, <2>1, MergeTells
<1> HIDE DEF o
<1>8. agg'.open = [agg.open EXCEPT ![s] = o] /\ agg'.history = [agg.history EXCEPT ![s] = h]
  BY <1>1, <1>4, StepFrame
<1>9. \A a \in Buckets : a # b => table[<<s, a>>] = TicksOf[<<s, a>>]
  <2> SUFFICES ASSUME NEW a \in Buckets, a # b PROVE table[<<s, a>>] = TicksOf[<<s, a>>]
    OBVIOUS
  <2>1. <<s, a>> \in Keys /\ <<s, a>> # <<s, b>>
    BY <1>1 DEF Keys
  <2> QED BY <2>1, <1>6
<1>10. \A i \in DOMAIN h : h[i].bucket \in Buckets /\ h[i].bucket # b
  <2> SUFFICES ASSUME NEW i \in DOMAIN h PROVE h[i].bucket \in Buckets /\ h[i].bucket # b
    OBVIOUS
  <2>1. h[i] \in CandleType
    BY <1>2, ElementOfSeq, LenProperties
  <2>2. h[i].bucket \in Buckets /\ h[i].bucket < b
    BY <2>1, <1>2 DEF CandleType, GoodCandles
  <2>3. h[i].bucket \in Nat /\ b \in Nat
    BY <2>2, <1>1
  <2> HIDE DEF h, b
  <2> QED BY <2>2, <2>3
<1>11. ExactFor(s, o, h, table, rows')
  <2> HIDE DEF h, p, s, b
  <2>1. \A a \in Buckets : a > b => a # b
    BY <1>1
  <2>2. \A a \in Buckets : a > b => table[<<s, a>>] = <<>> /\ rows'[<<s, a>>] = None
    BY <1>2, <1>3, <1>4, <1>9, <2>1 DEF ExactFor
  <2>3. rows'[<<s, b>>] = None
    BY <1>2, <1>3, <1>4 DEF ExactFor
  <2>4. \A i \in DOMAIN h : Tells(h[i], table[<<s, h[i].bucket>>])
    BY <1>3, <1>9, <1>10 DEF ExactFor
  <2> QED BY <1>5, <1>7, <2>2, <2>3, <2>4 DEF ExactFor
<1> QED BY <1>4, <1>8, <1>11, OneSymbolExact DEF table
\* What a late tick finds: an open candle of a later bucket.
LEMMA LateFacts ==
  ASSUME IInv, ExactInv, NEW tick \in Ticks,
         ~Opens(agg, tick), ~Merges(agg, tick), ~Closes(agg, tick)
  PROVE  LET s == tick.symbol
             b == BucketStart(tick.time)
             o == agg.open[s]
             h == agg.history[s]
         IN  /\ s \in Symbols /\ b \in Buckets /\ <<s, b>> \in Keys
             /\ o \in CandleType /\ o # None /\ o.bucket \in Buckets
             /\ b \in Nat /\ o.bucket \in Nat /\ b < o.bucket
             /\ h \in Seq(CandleType) /\ Len(h) \in Nat /\ DOMAIN h = 1 .. Len(h)
             /\ GoodCandles(s, o, h, rows) /\ ExactFor(s, o, h, TicksOf, rows)
             /\ \A i \in 1 .. Len(h) : /\ h[i] \in CandleType /\ h[i].symbol = s
                                       /\ h[i].bucket \in Buckets /\ h[i].bucket \in Nat
<1> DEFINE s == tick.symbol
           b == BucketStart(tick.time)
           o == agg.open[s]
           h == agg.history[s]
<1>1. s \in Symbols /\ b \in Buckets /\ Buckets \subseteq Nat /\ <<s, b>> \in Keys
  BY ConstantFacts DEF Keys
<1>2. /\ o \in CandleType /\ o # None
      /\ h \in Seq(CandleType) /\ Len(h) \in Nat /\ DOMAIN h = 1 .. Len(h)
      /\ GoodCandles(s, o, h, rows)
  BY <1>1, Before DEF Opens, GoodCandles
<1>3. ExactFor(s, o, h, TicksOf, rows)
  BY <1>1 DEF ExactInv
<1>4. o.bucket \in Buckets /\ b \in Nat /\ o.bucket \in Nat
  BY <1>1, <1>2 DEF CandleType
<1>5. b < o.bucket
  <2>1. b # o.bucket /\ ~(b > o.bucket)
    BY DEF Merges, Closes
  <2> HIDE DEF b, o
  <2> QED BY <2>1, <1>4
<1>6. ASSUME NEW i \in 1 .. Len(h)
      PROVE  /\ h[i] \in CandleType /\ h[i].symbol = s
             /\ h[i].bucket \in Buckets /\ h[i].bucket \in Nat
  <2>1. h[i] \in CandleType /\ h[i].symbol = s
    BY <1>2, ElementOfSeq DEF GoodCandles
  <2> QED BY <2>1, <1>1 DEF CandleType
<1> QED BY <1>1, <1>2, <1>3, <1>4, <1>5, <1>6

\* Only the bucket of the tick gets anything.
LEMMA OtherBuckets ==
  ASSUME ExactInv, NEW tick \in Ticks, NEW a \in Buckets, a # BucketStart(tick.time)
  PROVE  /\ <<tick.symbol, a>> \in Keys
         /\ PutTick(TicksOf, tick)[<<tick.symbol, a>>] = TicksOf[<<tick.symbol, a>>]
<1> DEFINE k == <<tick.symbol, a>>
           own == <<tick.symbol, BucketStart(tick.time)>>
<1>1. k \in Keys
  BY ConstantFacts DEF Keys
<1>2. k # own
  OBVIOUS
<1>3. \A l \in Keys : l # own => PutTick(TicksOf, tick)[l] = TicksOf[l]
  BY PutFacts DEF ExactInv
<1> HIDE DEF k, own
<1>4. PutTick(TicksOf, tick)[k] = TicksOf[k]
  BY <1>1, <1>2, <1>3
<1> QED BY <1>1, <1>4 DEF k

\* A tick for a bucket that is not kept changes no candle.
LEMMA UnkeptExact ==
  ASSUME IInv, ExactInv, NEW tick \in Ticks, ApplyTick(tick),
         ~Opens(agg, tick), ~Merges(agg, tick), ~Closes(agg, tick), Hits(agg, tick) = {}
  PROVE  ExactInv'
<1> DEFINE s == tick.symbol
           b == BucketStart(tick.time)
           o == agg.open[s]
           h == agg.history[s]
           table == PutTick(TicksOf, tick)
<1>1. /\ s \in Symbols
      /\ o \in CandleType /\ o # None /\ o.bucket \in Buckets
      /\ b \in Nat /\ o.bucket \in Nat /\ b < o.bucket
      /\ DOMAIN h = 1 .. Len(h)
      /\ ExactFor(s, o, h, TicksOf, rows)
      /\ \A i \in 1 .. Len(h) : h[i].bucket \in Buckets
  BY LateFacts
<1>2. /\ agg' = [agg EXCEPT !.latePatches = @ + 1, !.lastPatch = None]
      /\ rows' = rows
  BY UnkeptEffect
<1>3. agg'.open = [agg.open EXCEPT ![s] = o] /\ agg'.history = [agg.history EXCEPT ![s] = h]
  BY <1>1, <1>2, StepFrame
<1>4. \A i \in DOMAIN h : h[i].bucket # b
  BY DEF Hits
<1>5. \A a \in Buckets : a # b => table[<<s, a>>] = TicksOf[<<s, a>>]
  BY OtherBuckets
<1>6. ExactFor(s, o, h, table, rows')
  <2> HIDE DEF h, o, s, b, table
  <2>1. o.bucket # b /\ \A a \in Buckets : a > o.bucket => a # b
    BY <1>1
  <2>2. Tells(o, table[<<s, o.bucket>>]) /\ rows'[<<s, o.bucket>>] = None
    BY <1>1, <1>2, <1>5, <2>1 DEF ExactFor
  <2>3. \A a \in Buckets : a > o.bucket => table[<<s, a>>] = <<>> /\ rows'[<<s, a>>] = None
    BY <1>1, <1>2, <1>5, <2>1 DEF ExactFor
  <2>4. \A i \in DOMAIN h : Tells(h[i], table[<<s, h[i].bucket>>])
    BY <1>1, <1>4, <1>5 DEF ExactFor
  <2> QED BY <1>1, <2>2, <2>3, <2>4 DEF ExactFor
<1> QED BY <1>2, <1>3, <1>6, OneSymbolExact

\* The candle that closes keeps its ticks; the new one has its first.
LEMMA CloseExact ==
  ASSUME IInv, ExactInv, NEW tick \in Ticks, ApplyTick(tick), Closes(agg, tick)
  PROVE  ExactInv'
<1> DEFINE s == tick.symbol
           b == BucketStart(tick.time)
           p == agg.open[s]
           c == [p EXCEPT !.closed = TRUE]
           o == NewCandle(tick)
           h == agg.history[s]
           longer == PushHistory(h, c)
           table == PutTick(TicksOf, tick)
<1>1. s \in Symbols /\ b \in Buckets /\ Buckets \subseteq Nat /\ <<s, b>> \in Keys
  BY ConstantFacts DEF Keys
<1>2. /\ p \in CandleType /\ p # None /\ p.bucket < b /\ b \in Nat /\ p.bucket \in Nat
      /\ agg' = [agg EXCEPT !.open[s] = o, !.history[s] = longer, !.lastPatch = None]
      /\ rows' = Record(rows, c)
  BY CloseEffect, ConstantFacts
<1>3. /\ GoodCandles(s, p, h, rows) /\ h \in Seq(CandleType) /\ Len(h) \in Nat
      /\ DOMAIN h = 1 .. Len(h)
  BY <1>1, <1>2, Before
<1>4. ExactFor(s, p, h, TicksOf, rows)
  BY <1>1 DEF ExactInv
<1>5. p.bucket \in Buckets
  BY <1>2 DEF CandleType
<1>6. /\ c \in CandleType /\ c.symbol = s /\ c.bucket = p.bucket
  BY <1>2, <1>3, CloseFacts DEF GoodCandles
<1>7. Tells(c, TicksOf[<<s, p.bucket>>])
  <2>1. Tells(p, TicksOf[<<s, p.bucket>>])
    BY <1>2, <1>4 DEF ExactFor
  <2> HIDE DEF p
  <2> QED BY <1>2, <2>1, CloseTells
<1>8. o # None /\ o.bucket = b /\ Tells(o, Append(<<>>, tick))
  BY NewCandleFacts, NewTells
<1>9. PICK d \in {0, 1} : \A i \in DOMAIN longer :
           /\ i + d \in 1 .. Len(h) + 1
           /\ longer[i] = IF i + d = Len(h) + 1 THEN c ELSE h[i + d]
  BY <1>3, <1>6, PushFacts DEF GoodCandles
<1>10. longer \in Seq(CandleType)
  BY <1>3, <1>6, PushFacts DEF GoodCandles
<1>11. /\ table[<<s, b>>] = Append(TicksOf[<<s, b>>], tick)
  BY PutFacts DEF ExactInv
<1>12. \A a \in Buckets : a # b => table[<<s, a>>] = TicksOf[<<s, a>>]
  BY OtherBuckets
<1> HIDE DEF o, c, longer
<1>13. /\ agg'.open = [agg.open EXCEPT ![s] = o]
       /\ agg'.history = [agg.history EXCEPT ![s] = longer]
  BY <1>1, <1>2, StepFrame
<1>14. \A k \in Keys : k # <<s, p.bucket>> => rows'[k] = rows[k]
  <2>1. rows \in [Keys -> CandleType \cup {None}]
    BY StepFrame
  <2>2. \A k \in Keys : k # <<c.symbol, c.bucket>> => Record(rows, c)[k] = rows[k]
    BY <2>1, <1>6, RecordFacts
  <2> QED BY <2>2, <1>2, <1>6
<1>15. \A k \in Keys : k[1] # s => rows'[k] = rows[k]
  <2> SUFFICES ASSUME NEW k \in Keys, k[1] # s PROVE rows'[k] = rows[k]
    OBVIOUS
  <2>1. k # <<s, p.bucket>>
    OBVIOUS
  <2> QED BY <2>1, <1>14
<1>16. \A a \in Buckets : a # p.bucket => rows'[<<s, a>>] = rows[<<s, a>>]
  <2> SUFFICES ASSUME NEW a \in Buckets, a # p.bucket PROVE rows'[<<s, a>>] = rows[<<s, a>>]
    OBVIOUS
  <2>1. <<s, a>> \in Keys /\ <<s, a>> # <<s, p.bucket>>
    BY <1>1 DEF Keys
  <2> QED BY <2>1, <1>14
<1> HIDE DEF table
<1>17. ASSUME NEW j \in 1 .. Len(h) PROVE Tells(h[j], table[<<s, h[j].bucket>>])
  <2>1. h[j] \in CandleType /\ h[j].bucket < p.bucket
    BY <1>3, ElementOfSeq DEF GoodCandles
  <2>2. h[j].bucket \in Buckets /\ h[j].bucket \in Nat
    BY <2>1, <1>1 DEF CandleType
  <2>3. h[j].bucket # b
    <3> HIDE DEF h, p, b
    <3> QED BY <2>1, <2>2, <1>2
  <2> QED BY <2>2, <2>3, <1>3, <1>4, <1>12 DEF ExactFor
<1>18. Tells(c, table[<<s, c.bucket>>])
  <2>1. p.bucket # b
    BY <1>2
  <2> QED BY <2>1, <1>5, <1>6, <1>7, <1>12
<1>19. ASSUME NEW i \in DOMAIN longer PROVE Tells(longer[i], table[<<s, longer[i].bucket>>])
  <2>1. CASE i + d = Len(h) + 1
    BY <2>1, <1>9, <1>18
  <2>2. CASE i + d # Len(h) + 1
    <3>1. i + d \in 1 .. Len(h) /\ longer[i] = h[i + d]
      <4>1. i \in Nat /\ d \in Nat
        BY <1>10, LenProperties
      <4> HIDE DEF h
      <4> QED BY <2>2, <4>1, <1>3, <1>9
    <3> QED BY <3>1, <1>17
  <2> QED BY <2>1, <2>2
<1>20. ExactFor(s, o, longer, table, rows')
  <2> HIDE DEF h, p, s, b
  <2>1. b # p.bucket /\ b > p.bucket /\ \A a \in Buckets : a > b => a # p.bucket /\ a # b /\ a > p.bucket
    BY <1>1, <1>2
  <2>2. \A a \in Buckets : a > p.bucket => TicksOf[<<s, a>>] = <<>> /\ rows[<<s, a>>] = None
    BY <1>2, <1>4 DEF ExactFor
  <2>3. \A a \in Buckets : a > b => table[<<s, a>>] = <<>> /\ rows'[<<s, a>>] = None
    BY <1>12, <1>16, <2>1, <2>2
  <2>4. rows'[<<s, b>>] = None /\ table[<<s, b>>] = Append(<<>>, tick)
    BY <1>1, <1>11, <1>16, <2>1, <2>2
  <2> QED BY <1>8, <1>19, <2>3, <2>4 DEF ExactFor
<1> QED BY <1>13, <1>15, <1>20, OneSymbolExact, SMTT(30) DEF table

\* A patch adds the tick to the one candle of its bucket.
LEMMA PatchExact ==
  ASSUME IInv, ExactInv, NEW tick \in Ticks, ApplyTick(tick),
         ~Opens(agg, tick), ~Merges(agg, tick), ~Closes(agg, tick), Hits(agg, tick) # {}
  PROVE  ExactInv'
<1> DEFINE s == tick.symbol
           b == BucketStart(tick.time)
           o == agg.open[s]
           h == agg.history[s]
           n == FirstHit(agg, tick)
           p == Merge(h[n], tick)
           patched == [h EXCEPT ![n] = p]
           table == PutTick(TicksOf, tick)
<1>1. /\ s \in Symbols /\ b \in Buckets
      /\ o \in CandleType /\ o # None /\ o.bucket \in Buckets
      /\ b \in Nat /\ o.bucket \in Nat /\ b < o.bucket
      /\ h \in Seq(CandleType) /\ Len(h) \in Nat /\ DOMAIN h = 1 .. Len(h)
      /\ GoodCandles(s, o, h, rows) /\ ExactFor(s, o, h, TicksOf, rows)
      /\ \A i \in 1 .. Len(h) : /\ h[i] \in CandleType /\ h[i].symbol = s
                                /\ h[i].bucket \in Buckets /\ h[i].bucket \in Nat
  BY LateFacts
<1>2. /\ n \in 1 .. Len(h) /\ h[n].bucket = b
      /\ agg' = [agg EXCEPT !.history[s] = patched,
                            !.latePatches = @ + 1, !.lastPatch = None]
      /\ rows' = Record(rows, p)
  BY PatchEffect
<1> HIDE DEF n
<1>3. p \in CandleType /\ p.symbol = s /\ p.bucket = b
  <2>1. h[n] \in CandleType /\ h[n].symbol = s
    BY <1>1, <1>2
  <2> HIDE DEF s, h, b
  <2> QED BY <2>1, <1>2, MergeFacts
<1>4. table[<<s, b>>] = Append(TicksOf[<<s, b>>], tick)
  BY PutFacts DEF ExactInv
<1>5. \A a \in Buckets : a # b => table[<<s, a>>] = TicksOf[<<s, a>>]
  BY OtherBuckets
<1> HIDE DEF table
<1>6. Tells(p, table[<<s, b>>])
  <2>1. Tells(h[n], TicksOf[<<s, b>>]) /\ h[n] \in CandleType
    BY <1>1, <1>2 DEF ExactFor
  <2> HIDE DEF h
  <2> QED BY <1>4, <2>1, MergeTells
<1> HIDE DEF p
<1>7. /\ DOMAIN patched = 1 .. Len(h)
      /\ \A i \in 1 .. Len(h) : patched[i] = IF i = n THEN p ELSE h[i]
  BY <1>1, <1>2, <1>3, ExceptSeq
<1> HIDE DEF patched
<1>8. /\ agg'.open = [agg.open EXCEPT ![s] = o]
      /\ agg'.history = [agg.history EXCEPT ![s] = patched]
  BY <1>1, <1>2, StepFrame
<1>9. \A k \in Keys : k # <<s, b>> => rows'[k] = rows[k]
  <2>1. rows \in [Keys -> CandleType \cup {None}]
    BY StepFrame
  <2>2. \A k \in Keys : k # <<p.symbol, p.bucket>> => Record(rows, p)[k] = rows[k]
    BY <2>1, <1>3, RecordFacts
  <2> QED BY <2>2, <1>2, <1>3
<1>10. \A k \in Keys : k[1] # s => rows'[k] = rows[k]
  <2> SUFFICES ASSUME NEW k \in Keys, k[1] # s PROVE rows'[k] = rows[k]
    OBVIOUS
  <2>1. k # <<s, b>>
    OBVIOUS
  <2> QED BY <2>1, <1>9
<1>11. \A a \in Buckets : a # b => rows'[<<s, a>>] = rows[<<s, a>>]
  <2> SUFFICES ASSUME NEW a \in Buckets, a # b PROVE rows'[<<s, a>>] = rows[<<s, a>>]
    OBVIOUS
  <2>1. <<s, a>> \in Keys /\ <<s, a>> # <<s, b>>
    BY <1>1 DEF Keys
  <2> QED BY <2>1, <1>9
<1>12. ASSUME NEW i \in DOMAIN patched
       PROVE  Tells(patched[i], table[<<s, patched[i].bucket>>])
  <2>1. CASE i = n
    BY <2>1, <1>3, <1>6, <1>7
  <2>2. CASE i # n
    <3>1. i \in 1 .. Len(h) /\ patched[i] = h[i]
      BY <2>2, <1>7
    <3>2. h[i].bucket # b
      <4>1. i < n \/ n < i
        <5>1. i \in Nat /\ n \in Nat
          BY <3>1, <1>1, <1>2
        <5> QED BY <5>1, <2>2
      <4>2. h[i].bucket < h[n].bucket \/ h[n].bucket < h[i].bucket
        BY <4>1, <3>1, <1>1, <1>2 DEF GoodCandles
      <4>3. h[i].bucket \in Nat
        BY <3>1, <1>1
      <4> HIDE DEF h
      <4> QED BY <4>2, <4>3, <1>1, <1>2
    <3> QED BY <3>1, <3>2, <1>1, <1>5 DEF ExactFor
  <2> QED BY <2>1, <2>2
<1>13. ExactFor(s, o, patched, table, rows')
  <2> HIDE DEF h, o, s, b
  <2>1. o.bucket # b /\ \A a \in Buckets : a > o.bucket => a # b
    BY <1>1
  <2>2. Tells(o, table[<<s, o.bucket>>]) /\ rows'[<<s, o.bucket>>] = None
    BY <1>1, <1>5, <1>11, <2>1 DEF ExactFor
  <2>3. \A a \in Buckets : a > o.bucket => table[<<s, a>>] = <<>> /\ rows'[<<s, a>>] = None
    BY <1>1, <1>5, <1>11, <2>1 DEF ExactFor
  <2> QED BY <1>1, <1>12, <2>2, <2>3 DEF ExactFor
<1> QED BY <1>8, <1>10, <1>13, OneSymbolExact DEF table

\* Every step keeps each candle exact.
LEMMA NextExact == IInv /\ ExactInv /\ [Next]_vars => ExactInv'
<1> SUFFICES ASSUME IInv, ExactInv, [Next]_vars PROVE ExactInv'
  OBVIOUS
<1>1. ASSUME NEW tick \in Ticks, ApplyTick(tick) PROVE ExactInv'
  <2>1. CASE Opens(agg, tick)
    BY <1>1, <2>1, OpenFirstExact
  <2>2. CASE Merges(agg, tick)
    BY <1>1, <2>2, MergeExact
  <2>3. CASE Closes(agg, tick)
    BY <1>1, <2>3, CloseExact
  <2>4. CASE /\ ~Opens(agg, tick) /\ ~Merges(agg, tick) /\ ~Closes(agg, tick)
             /\ Hits(agg, tick) = {}
    BY <1>1, <2>4, UnkeptExact
  <2>5. CASE /\ ~Opens(agg, tick) /\ ~Merges(agg, tick) /\ ~Closes(agg, tick)
             /\ Hits(agg, tick) # {}
    BY <1>1, <2>5, PatchExact
  <2> QED BY <2>1, <2>2, <2>3, <2>4, <2>5
<1>2. CASE UNCHANGED vars
  <2>1. agg' = agg /\ rows' = rows /\ applied' = applied
    BY <1>2 DEF vars
  <2>2. TicksOf' = TicksOf
    BY <2>1 DEF TicksOf
  <2> QED BY <2>1, <2>2 DEF ExactInv
<1> QED BY <1>1, <1>2 DEF Next
-----------------------------------------------------------------------------
(* Counting.  A table and the open candles are both functions that may be  *)
(* None; Total is what such a function accounts for.                       *)
Filled(K, t) == {k \in K : t[k] # None}

Total(K, t) == SumFunction([k \in Filled(K, t) |-> t[k].count])

PlacedInv ==
  /\ IsFiniteSet(Filled(Keys, rows)) /\ IsFiniteSet(Filled(Symbols, agg.open))
  /\ UnplacedTicksCounted

\* The fold theorems' sum is the model's.
LEMMA SumIsSum == \A f : SumFunction(f) = FT!SumFunction(f)
BY DEF SumFunction, SumFunctionOnSet, FoldFunctionOnSet, MapThenFoldSet,
       FT!SumFunction, FT!SumFunctionOnSet, FT!FoldFunctionOnSet, FT!MapThenFoldSet

\* And so is finiteness.
LEMMA FiniteIsFinite == \A S : IsFiniteSet(S) <=> FT!IsFiniteSet(S)
BY DEF IsFiniteSet, FT!IsFiniteSet

\* The ticks placed are those of the rows and those of the open candles.
LEMMA PlacedIsTotal ==
  /\ Placed = Total(Keys, rows) + Total(Symbols, agg.open)
  /\ Placed' = Total(Keys, rows') + Total(Symbols, agg'.open)
BY DEF Placed, Recorded, Active, Total, Filled

\* The counts of a table's candles are naturals.
LEMMA CountsFacts ==
  ASSUME NEW K, NEW t \in [K -> CandleType \cup {None}]
  PROVE  /\ [k \in Filled(K, t) |-> t[k].count] \in [Filled(K, t) -> Nat]
         /\ \A k \in Filled(K, t) : t[k] \in CandleType /\ t[k].count \in Nat
<1>1. ASSUME NEW k \in Filled(K, t) PROVE t[k] \in CandleType /\ t[k].count \in Nat
  <2>1. t[k] \in CandleType
    BY DEF Filled
  <2> QED BY <2>1 DEF CandleType
<1> QED BY <1>1

\* The total of a finite table is a natural.
LEMMA TotalType ==
  ASSUME NEW K, NEW t \in [K -> CandleType \cup {None}], IsFiniteSet(Filled(K, t))
  PROVE  Total(K, t) \in Nat
<1> DEFINE S == Filled(K, t)
           f == [k \in S |-> t[k].count]
<1>1. f \in [S -> Nat]
  BY CountsFacts
<1> HIDE DEF f, S
<1>2. IsFiniteSet(S)
  BY DEF S
<1>3. FT!SumFunction(f) \in Nat
  BY <1>1, <1>2, FiniteIsFinite, FT!SumSplit
<1> QED BY <1>3, SumIsSum DEF Total, f, S

\* One entry more, and one entry another.
LEMMA EntryAdded ==
  ASSUME NEW K, NEW t \in [K -> CandleType \cup {None}], NEW u \in [K -> CandleType \cup {None}],
         IsFiniteSet(Filled(K, t)), NEW k \in K, t[k] = None, u[k] \in CandleType,
         \A l \in K : l # k => u[l] = t[l]
  PROVE  /\ IsFiniteSet(Filled(K, u))
         /\ Total(K, u) = Total(K, t) + u[k].count
<1> DEFINE S == Filled(K, t)
           f == [l \in S |-> t[l].count]
           e == [l \in Filled(K, u) |-> u[l].count]
<1>1. u[k] # None
  BY ConstantFacts
<1>2. Filled(K, u) = S \cup {k} /\ k \notin S
  BY <1>1 DEF Filled
<1>3. f \in [S -> Nat] /\ e \in [S \cup {k} -> Nat]
  BY <1>2, CountsFacts
<1>4. \A l \in S : e[l] = f[l]
  <2> SUFFICES ASSUME NEW l \in S PROVE e[l] = f[l]
    OBVIOUS
  <2>1. l # k /\ l \in K /\ l \in Filled(K, u)
    BY <1>2 DEF Filled
  <2> QED BY <2>1
<1>5. e[k] = u[k].count
  BY <1>2
<1> HIDE DEF e, f, S
<1>6. FT!IsFiniteSet(S) /\ IsFiniteSet(S \cup {k})
  <2>1. IsFiniteSet(S)
    BY DEF S
  <2> QED BY <2>1, FiniteIsFinite, FS_AddElement
<1>7. FT!SumFunction(e) = FT!SumFunction(f) + e[k]
  BY <1>2, <1>3, <1>4, <1>6, FT!SumAdd
<1> QED BY <1>2, <1>5, <1>6, <1>7, SumIsSum DEF Total, e, f, S

\* Replacing one candle changes the total by the difference of the counts.
LEMMA EntryChanged ==
  ASSUME NEW K, NEW t \in [K -> CandleType \cup {None}], NEW u \in [K -> CandleType \cup {None}],
         IsFiniteSet(Filled(K, t)), NEW k \in K, t[k] \in CandleType, u[k] \in CandleType,
         \A l \in K : l # k => u[l] = t[l]
  PROVE  /\ IsFiniteSet(Filled(K, u))
         /\ Total(K, u) + t[k].count = Total(K, t) + u[k].count
<1> DEFINE S == Filled(K, t)
           f == [l \in S |-> t[l].count]
           e == [l \in S |-> u[l].count]
<1>1. u[k] # None /\ t[k] # None
  BY ConstantFacts
<1>2. Filled(K, u) = S /\ k \in S
  BY <1>1 DEF Filled
<1>3. f \in [S -> Nat] /\ e \in [S -> Nat]
  BY <1>2, CountsFacts
<1>4. \A l \in S \ {k} : e[l] = f[l]
  <2> SUFFICES ASSUME NEW l \in S \ {k} PROVE e[l] = f[l]
    OBVIOUS
  <2>1. l # k /\ l \in K
    BY DEF Filled
  <2> QED BY <2>1
<1>5. e[k] = u[k].count /\ f[k] = t[k].count
  BY <1>2
<1>6. Total(K, u) = SumFunction(e) /\ Total(K, t) = SumFunction(f)
  BY <1>2 DEF Total
<1> HIDE DEF e, f, S
<1>7. IsFiniteSet(S)
  BY DEF S
<1>8. FT!SumFunction(e) + f[k] = FT!SumFunction(f) + e[k]
  BY <1>2, <1>3, <1>4, <1>7, FiniteIsFinite, FT!SumChange
<1> QED BY <1>2, <1>5, <1>6, <1>7, <1>8, SumIsSum

\* What every step has in common.
LEMMA CountFrame ==
  ASSUME IInv, PlacedInv, NEW tick \in Ticks, ApplyTick(tick)
  PROVE  /\ Len(applied) \in Nat /\ Len(applied') = Len(applied) + 1
         /\ agg.latePatches \in Nat
         /\ rows \in [Keys -> CandleType \cup {None}]
         /\ agg.open \in [Symbols -> CandleType \cup {None}]
         /\ Total(Keys, rows) \in Nat /\ Total(Symbols, agg.open) \in Nat
         /\ Len(applied) <= Total(Keys, rows) + Total(Symbols, agg.open) + agg.latePatches
<1>1. /\ rows \in [Keys -> CandleType \cup {None}]
      /\ agg.open \in [Symbols -> CandleType \cup {None}]
      /\ agg.latePatches \in Nat
  BY StepFrame
<1>2. Total(Keys, rows) \in Nat /\ Total(Symbols, agg.open) \in Nat
  BY <1>1, TotalType DEF PlacedInv
<1>3. applied \in Seq(Ticks) /\ applied' = Append(applied, tick)
  BY DEF IInv, TypeOK, ApplyTick
<1>4. Len(applied) \in Nat /\ Len(applied') = Len(applied) + 1
  BY <1>3, AppendProperties, LenProperties
<1>5. Len(applied) - Placed <= agg.latePatches
  BY DEF PlacedInv, UnplacedTicksCounted
<1>6. Len(applied) <= Total(Keys, rows) + Total(Symbols, agg.open) + agg.latePatches
  BY <1>1, <1>2, <1>4, <1>5, PlacedIsTotal
<1> QED BY <1>1, <1>2, <1>4, <1>6

\* What a step has to show: together the three numbers grow by one or more.
LEMMA CountStep ==
  ASSUME IInv, PlacedInv, NEW tick \in Ticks, ApplyTick(tick),
         rows' \in [Keys -> CandleType \cup {None}],
         agg'.open \in [Symbols -> CandleType \cup {None}], agg'.latePatches \in Nat,
         IsFiniteSet(Filled(Keys, rows')), IsFiniteSet(Filled(Symbols, agg'.open)),
         Total(Keys, rows') + Total(Symbols, agg'.open) + agg'.latePatches
           >= Total(Keys, rows) + Total(Symbols, agg.open) + agg.latePatches + 1
  PROVE  PlacedInv'
<1>1. Total(Keys, rows') \in Nat /\ Total(Symbols, agg'.open) \in Nat
  BY TotalType
<1>2. Len(applied') - (Total(Keys, rows') + Total(Symbols, agg'.open)) <= agg'.latePatches
  BY <1>1, CountFrame
<1>3. Len(applied') - Placed' <= agg'.latePatches
  BY <1>2, PlacedIsTotal
<1>4. UnplacedTicksCounted'
  BY <1>3 DEF UnplacedTicksCounted
<1>5. Filled(Keys, rows)' = Filled(Keys, rows') /\ Filled(Symbols, agg.open)' = Filled(Symbols, agg'.open)
  BY DEF Filled
<1> QED BY <1>4, <1>5 DEF PlacedInv

\* The first tick of a symbol is placed in its new candle.
LEMMA OpenFirstCount ==
  ASSUME IInv, PlacedInv, NEW tick \in Ticks, ApplyTick(tick), Opens(agg, tick)
  PROVE  PlacedInv'
<1> DEFINE s == tick.symbol
           o == NewCandle(tick)
<1>1. s \in Symbols /\ agg.open[s] = None
  BY ConstantFacts DEF Opens
<1>2. /\ agg' = [agg EXCEPT !.open[s] = o, !.lastPatch = None]
      /\ rows' = rows
  BY OpenFirstEffect
<1>3. o \in CandleType /\ o.count = 1
  BY NewCandleFacts DEF NewCandle
<1> HIDE DEF o
<1>4. agg'.open = [agg.open EXCEPT ![s] = o] /\ agg'.latePatches = agg.latePatches
  BY <1>2, StepFrame
<1>5. /\ agg'.open \in [Symbols -> CandleType \cup {None}] /\ agg'.open[s] = o
      /\ \A r \in Symbols : r # s => agg'.open[r] = agg.open[r]
  BY <1>1, <1>3, <1>4, StepFrame
<1> HIDE DEF s
<1>6. /\ IsFiniteSet(Filled(Symbols, agg'.open))
      /\ Total(Symbols, agg'.open) = Total(Symbols, agg.open) + 1
  <2>1. agg.open \in [Symbols -> CandleType \cup {None}] /\ IsFiniteSet(Filled(Symbols, agg.open))
    BY StepFrame DEF PlacedInv
  <2> DEFINE t == agg.open
             u == agg'.open
  <2>2. /\ t \in [Symbols -> CandleType \cup {None}] /\ IsFiniteSet(Filled(Symbols, t))
        /\ u \in [Symbols -> CandleType \cup {None}] /\ t[s] = None /\ u[s] = o
        /\ \A r \in Symbols : r # s => u[r] = t[r]
    BY <1>1, <1>5, <2>1
  <2> HIDE DEF t, u
  <2>3. IsFiniteSet(Filled(Symbols, u)) /\ Total(Symbols, u) = Total(Symbols, t) + u[s].count
    BY <1>1, <1>3, <2>2, EntryAdded
  <2>4. u[s].count = 1
    BY <1>3, <2>2
  <2> QED BY <2>3, <2>4 DEF t, u
<1>7. /\ Total(Keys, rows) \in Nat /\ Total(Symbols, agg.open) \in Nat /\ agg.latePatches \in Nat
      /\ rows \in [Keys -> CandleType \cup {None}] /\ IsFiniteSet(Filled(Keys, rows))
  BY CountFrame DEF PlacedInv
<1>8. Total(Keys, rows') + Total(Symbols, agg'.open) + agg'.latePatches
        >= Total(Keys, rows) + Total(Symbols, agg.open) + agg.latePatches + 1
  BY <1>2, <1>4, <1>6, <1>7
<1> QED BY <1>2, <1>4, <1>5, <1>6, <1>7, <1>8, CountStep

\* A tick of the open bucket is placed in the open candle.
LEMMA MergeCount ==
  ASSUME IInv, PlacedInv, NEW tick \in Ticks, ApplyTick(tick), Merges(agg, tick)
  PROVE  PlacedInv'
<1> DEFINE s == tick.symbol
           p == agg.open[s]
           o == Merge(p, tick)
<1>1. s \in Symbols /\ p \in CandleType
  BY ConstantFacts, Before DEF Merges, Opens
<1>2. /\ agg' = [agg EXCEPT !.open[s] = o, !.lastPatch = None]
      /\ rows' = rows
  BY MergeEffect
<1>3. o \in CandleType /\ o.count = p.count + 1 /\ p.count \in Nat
  <2> HIDE DEF p
  <2>1. o \in CandleType
    BY <1>1, MergeFacts
  <2> QED BY <2>1, <1>1 DEF Merge, CandleType
<1> HIDE DEF o
<1>4. agg'.open = [agg.open EXCEPT ![s] = o] /\ agg'.latePatches = agg.latePatches
  BY <1>2, StepFrame
<1>5. /\ agg'.open \in [Symbols -> CandleType \cup {None}] /\ agg'.open[s] = o
      /\ \A r \in Symbols : r # s => agg'.open[r] = agg.open[r]
  BY <1>1, <1>3, <1>4, StepFrame
<1>6. /\ Total(Keys, rows) \in Nat /\ Total(Symbols, agg.open) \in Nat /\ agg.latePatches \in Nat
      /\ rows \in [Keys -> CandleType \cup {None}] /\ IsFiniteSet(Filled(Keys, rows))
      /\ agg.open \in [Symbols -> CandleType \cup {None}] /\ IsFiniteSet(Filled(Symbols, agg.open))
  BY CountFrame DEF PlacedInv
<1>7. /\ IsFiniteSet(Filled(Symbols, agg'.open))
      /\ Total(Symbols, agg'.open) = Total(Symbols, agg.open) + 1
  <2> DEFINE t == agg.open
             u == agg'.open
  <2>1. /\ t \in [Symbols -> CandleType \cup {None}] /\ IsFiniteSet(Filled(Symbols, t))
        /\ u \in [Symbols -> CandleType \cup {None}] /\ t[s] = p /\ u[s] = o
        /\ \A r \in Symbols : r # s => u[r] = t[r]
    BY <1>5, <1>6
  <2>2. Total(Symbols, t) \in Nat
    BY <1>6
  <2> HIDE DEF t, u, s, p
  <2>3. /\ IsFiniteSet(Filled(Symbols, u))
        /\ Total(Symbols, u) + t[s].count = Total(Symbols, t) + u[s].count
    BY <1>1, <1>3, <2>1, EntryChanged
  <2>4. Total(Symbols, u) \in Nat
    BY <2>1, <2>3, TotalType
  <2>5. Total(Symbols, u) + p.count = Total(Symbols, t) + (p.count + 1)
    BY <1>3, <2>1, <2>3
  <2>6. Total(Symbols, u) = Total(Symbols, t) + 1
    BY <1>3, <2>2, <2>4, <2>5
  <2> QED BY <2>3, <2>6 DEF t, u
<1>8. Total(Keys, rows') + Total(Symbols, agg'.open) + agg'.latePatches
        >= Total(Keys, rows) + Total(Symbols, agg.open) + agg.latePatches + 1
  BY <1>2, <1>4, <1>6, <1>7
<1> QED BY <1>2, <1>4, <1>5, <1>6, <1>7, <1>8, CountStep
\* A tick that touches no candle is counted late.
LEMMA UnkeptCount ==
  ASSUME IInv, PlacedInv, NEW tick \in Ticks, ApplyTick(tick),
         ~Opens(agg, tick), ~Merges(agg, tick), ~Closes(agg, tick), Hits(agg, tick) = {}
  PROVE  PlacedInv'
<1>1. /\ agg' = [agg EXCEPT !.latePatches = @ + 1, !.lastPatch = None]
      /\ rows' = rows
  BY UnkeptEffect
<1>2. agg'.open = agg.open /\ agg'.latePatches = agg.latePatches + 1
  BY <1>1, StepFrame
<1>3. /\ Total(Keys, rows) \in Nat /\ Total(Symbols, agg.open) \in Nat /\ agg.latePatches \in Nat
      /\ rows \in [Keys -> CandleType \cup {None}] /\ IsFiniteSet(Filled(Keys, rows))
      /\ agg.open \in [Symbols -> CandleType \cup {None}] /\ IsFiniteSet(Filled(Symbols, agg.open))
  BY CountFrame DEF PlacedInv
<1>4. /\ Total(Keys, rows') + Total(Symbols, agg'.open) + agg'.latePatches
           >= Total(Keys, rows) + Total(Symbols, agg.open) + agg.latePatches + 1
      /\ agg'.latePatches \in Nat
  BY <1>1, <1>2, <1>3
<1> QED BY <1>1, <1>2, <1>3, <1>4, CountStep

\* The ticks of the candle that closes move to a row that was empty.
LEMMA CloseCount ==
  ASSUME IInv, ExactInv, PlacedInv, NEW tick \in Ticks, ApplyTick(tick), Closes(agg, tick)
  PROVE  PlacedInv'
<1> DEFINE s == tick.symbol
           p == agg.open[s]
           c == [p EXCEPT !.closed = TRUE]
           o == NewCandle(tick)
           h == PushHistory(agg.history[s], c)
           k == <<s, p.bucket>>
<1>1. s \in Symbols
  BY ConstantFacts, SMTT(30)
<1>2. /\ p \in CandleType
      /\ agg' = [agg EXCEPT !.open[s] = o, !.history[s] = h, !.lastPatch = None]
      /\ rows' = Record(rows, c)
  BY CloseEffect
<1>3. p # None /\ p.symbol = s /\ p.bucket \in Buckets /\ k \in Keys
  <2>1. p # None /\ GoodCandles(s, p, agg.history[s], rows)
    BY <1>1, <1>2, ConstantFacts, Before
  <2>2. p.symbol = s
    BY <2>1 DEF GoodCandles
  <2> QED BY <1>1, <1>2, <2>1, <2>2 DEF CandleType, Keys
<1>4. rows[k] = None
  BY <1>1, <1>3 DEF ExactInv, ExactFor
<1>5. o \in CandleType /\ o.count = 1
  BY NewCandleFacts DEF NewCandle
<1>6. /\ c \in CandleType /\ c.symbol = s /\ c.bucket = p.bucket
      /\ c.count = p.count /\ p.count \in Nat
  <2>1. c \in CandleType /\ c.symbol = p.symbol /\ c.bucket = p.bucket
    BY <1>2, CloseFacts
  <2>2. c.count = p.count /\ p.count \in Nat
    BY <1>2 DEF CandleType
  <2> QED BY <1>3, <2>1, <2>2
<1> HIDE DEF o, c, h
<1>7. agg'.open = [agg.open EXCEPT ![s] = o] /\ agg'.latePatches = agg.latePatches
  BY <1>2, StepFrame
<1>8. /\ agg'.open \in [Symbols -> CandleType \cup {None}] /\ agg'.open[s] = o
      /\ \A r \in Symbols : r # s => agg'.open[r] = agg.open[r]
  BY <1>1, <1>5, <1>7, StepFrame
<1>9. /\ Total(Keys, rows) \in Nat /\ Total(Symbols, agg.open) \in Nat /\ agg.latePatches \in Nat
      /\ rows \in [Keys -> CandleType \cup {None}] /\ IsFiniteSet(Filled(Keys, rows))
      /\ agg.open \in [Symbols -> CandleType \cup {None}] /\ IsFiniteSet(Filled(Symbols, agg.open))
  BY CountFrame DEF PlacedInv
<1>10. /\ rows' \in [Keys -> CandleType \cup {None}] /\ rows'[k] = c
       /\ \A l \in Keys : l # k => rows'[l] = rows[l]
  <2>1. /\ Record(rows, c) \in [Keys -> CandleType \cup {None}]
        /\ Record(rows, c)[<<c.symbol, c.bucket>>] = c
        /\ \A l \in Keys : l # <<c.symbol, c.bucket>> => Record(rows, c)[l] = rows[l]
    BY <1>6, <1>9, RecordFacts
  <2> QED BY <2>1, <1>2, <1>6
<1>11. /\ IsFiniteSet(Filled(Symbols, agg'.open))
       /\ Total(Symbols, agg'.open) + p.count = Total(Symbols, agg.open) + 1
  <2> DEFINE t == agg.open
             u == agg'.open
  <2>1. /\ t \in [Symbols -> CandleType \cup {None}] /\ IsFiniteSet(Filled(Symbols, t))
        /\ u \in [Symbols -> CandleType \cup {None}] /\ t[s] = p /\ u[s] = o
        /\ \A r \in Symbols : r # s => u[r] = t[r]
    BY <1>8, <1>9
  <2> HIDE DEF t, u, s, p
  <2>2. /\ IsFiniteSet(Filled(Symbols, u))
        /\ Total(Symbols, u) + t[s].count = Total(Symbols, t) + u[s].count
    BY <1>1, <1>2, <1>5, <2>1, EntryChanged
  <2> QED BY <1>5, <2>1, <2>2 DEF t, u
<1>12. /\ IsFiniteSet(Filled(Keys, rows'))
       /\ Total(Keys, rows') = Total(Keys, rows) + p.count
  <2> HIDE DEF k, p
  <2>1. /\ IsFiniteSet(Filled(Keys, rows'))
        /\ Total(Keys, rows') = Total(Keys, rows) + rows'[k].count
    BY <1>3, <1>4, <1>6, <1>9, <1>10, EntryAdded
  <2> QED BY <2>1, <1>6, <1>10
<1>13. Total(Symbols, agg'.open) \in Nat
  BY <1>8, <1>11, TotalType
<1>14. Total(Keys, rows') + Total(Symbols, agg'.open) + agg'.latePatches
         >= Total(Keys, rows) + Total(Symbols, agg.open) + agg.latePatches + 1
  <2> HIDE DEF p
  <2> QED BY <1>6, <1>7, <1>9, <1>11, <1>12, <1>13
<1> QED BY <1>7, <1>8, <1>9, <1>10, <1>11, <1>12, <1>14, CountStep

\* A patch puts one tick more into a row that is there.
LEMMA PatchCount ==
  ASSUME IInv, PlacedInv, NEW tick \in Ticks, ApplyTick(tick),
         ~Opens(agg, tick), ~Merges(agg, tick), ~Closes(agg, tick), Hits(agg, tick) # {}
  PROVE  PlacedInv'
<1> DEFINE s == tick.symbol
           b == BucketStart(tick.time)
           h == agg.history[s]
           n == FirstHit(agg, tick)
           p == Merge(h[n], tick)
           k == <<s, b>>
<1>1. s \in Symbols /\ k \in Keys
  BY ConstantFacts, SMTT(30) DEF Keys
<1>2. /\ n \in 1 .. Len(h) /\ h[n].bucket = b
      /\ agg' = [agg EXCEPT !.history[s] = [h EXCEPT ![n] = p],
                            !.latePatches = @ + 1, !.lastPatch = None]
      /\ rows' = Record(rows, p)
  BY PatchEffect
<1>3. /\ GoodCandles(s, agg.open[s], h, rows)
      /\ DOMAIN h = 1 .. Len(h) /\ h \in [1 .. Len(h) -> CandleType]
  BY <1>1, Before DEF Opens
<1> HIDE DEF n
<1>4. h[n] \in CandleType /\ h[n].symbol = s /\ rows[k] = h[n]
  BY <1>2, <1>3 DEF GoodCandles
<1>5. /\ p \in CandleType /\ p.symbol = s /\ p.bucket = b
      /\ p.count = h[n].count + 1 /\ h[n].count \in Nat
  <2> DEFINE q == h[n]
  <2>1. q \in CandleType /\ q.symbol = s /\ q.bucket = b
    BY <1>2, <1>4
  <2> HIDE DEF q, s, b
  <2>2. /\ Merge(q, tick) \in CandleType /\ Merge(q, tick).symbol = s
        /\ Merge(q, tick).bucket = b
    BY <2>1, MergeFacts
  <2>3. Merge(q, tick).count = q.count + 1 /\ q.count \in Nat
    BY <2>1 DEF Merge, CandleType
  <2> QED BY <2>2, <2>3 DEF q
<1> HIDE DEF p
<1>6. agg'.open = agg.open /\ agg'.latePatches = agg.latePatches + 1
  BY <1>2, StepFrame
<1>7. /\ Total(Keys, rows) \in Nat /\ Total(Symbols, agg.open) \in Nat /\ agg.latePatches \in Nat
      /\ rows \in [Keys -> CandleType \cup {None}] /\ IsFiniteSet(Filled(Keys, rows))
      /\ agg.open \in [Symbols -> CandleType \cup {None}] /\ IsFiniteSet(Filled(Symbols, agg.open))
  BY CountFrame DEF PlacedInv
<1>8. /\ rows' \in [Keys -> CandleType \cup {None}] /\ rows'[k] = p
      /\ \A l \in Keys : l # k => rows'[l] = rows[l]
  <2>1. /\ Record(rows, p) \in [Keys -> CandleType \cup {None}]
        /\ Record(rows, p)[<<p.symbol, p.bucket>>] = p
        /\ \A l \in Keys : l # <<p.symbol, p.bucket>> => Record(rows, p)[l] = rows[l]
    BY <1>5, <1>7, RecordFacts
  <2> QED BY <2>1, <1>2, <1>5
<1>9. /\ IsFiniteSet(Filled(Keys, rows'))
      /\ Total(Keys, rows') + rows[k].count = Total(Keys, rows) + rows'[k].count
  <2> HIDE DEF k, h
  <2> QED BY <1>1, <1>4, <1>5, <1>7, <1>8, EntryChanged
<1>10. Total(Keys, rows') \in Nat
  BY <1>8, <1>9, TotalType
<1>11. Total(Keys, rows') = Total(Keys, rows) + 1
  <2> DEFINE m == h[n].count
  <2>1. m \in Nat /\ Total(Keys, rows') + m = Total(Keys, rows) + (m + 1)
    BY <1>4, <1>5, <1>8, <1>9
  <2> HIDE DEF m
  <2> QED BY <2>1, <1>7, <1>10
<1>12. /\ Total(Keys, rows') + Total(Symbols, agg'.open) + agg'.latePatches
            >= Total(Keys, rows) + Total(Symbols, agg.open) + agg.latePatches + 1
       /\ agg'.latePatches \in Nat
  BY <1>6, <1>7, <1>11
<1> QED BY <1>6, <1>7, <1>8, <1>9, <1>12, CountStep

\* At the start nothing is applied and nothing placed.
LEMMA InitPlaced == Init => PlacedInv
<1> SUFFICES ASSUME Init PROVE PlacedInv
  OBVIOUS
<1>1. /\ agg = [open |-> [s \in Symbols |-> None], history |-> [s \in Symbols |-> <<>>],
                latePatches |-> 0, lastPatch |-> None]
      /\ rows = [k \in Keys |-> None] /\ applied = <<>>
  BY DEF Init, EmptyAggregator
<1>2. Filled(Keys, rows) = {} /\ Filled(Symbols, agg.open) = {}
  BY <1>1 DEF Filled
<1>3. IsFiniteSet(Filled(Keys, rows)) /\ IsFiniteSet(Filled(Symbols, agg.open))
  BY <1>2, FS_EmptySet
<1>4. rows \in [Keys -> CandleType \cup {None}] /\ agg.open \in [Symbols -> CandleType \cup {None}]
  BY <1>1
<1>5. Total(Keys, rows) \in Nat /\ Total(Symbols, agg.open) \in Nat
  BY <1>3, <1>4, TotalType
<1>6. Len(applied) = 0 /\ agg.latePatches = 0
  BY <1>1
<1>7. UnplacedTicksCounted
  BY <1>5, <1>6, PlacedIsTotal DEF UnplacedTicksCounted
<1> QED BY <1>3, <1>7 DEF PlacedInv

\* Every step places its tick or counts it as unplaced.
LEMMA NextPlaced == IInv /\ ExactInv /\ PlacedInv /\ [Next]_vars => PlacedInv'
<1> SUFFICES ASSUME IInv, ExactInv, PlacedInv, [Next]_vars PROVE PlacedInv'
  OBVIOUS
<1>1. ASSUME NEW tick \in Ticks, ApplyTick(tick) PROVE PlacedInv'
  <2>1. CASE Opens(agg, tick)
    BY <1>1, <2>1, OpenFirstCount
  <2>2. CASE Merges(agg, tick)
    BY <1>1, <2>2, MergeCount
  <2>3. CASE Closes(agg, tick)
    BY <1>1, <2>3, CloseCount
  <2>4. CASE /\ ~Opens(agg, tick) /\ ~Merges(agg, tick) /\ ~Closes(agg, tick)
             /\ Hits(agg, tick) = {}
    BY <1>1, <2>4, UnkeptCount
  <2>5. CASE /\ ~Opens(agg, tick) /\ ~Merges(agg, tick) /\ ~Closes(agg, tick)
             /\ Hits(agg, tick) # {}
    BY <1>1, <2>5, PatchCount
  <2> QED BY <2>1, <2>2, <2>3, <2>4, <2>5
<1>2. CASE UNCHANGED vars
  <2>1. agg' = agg /\ rows' = rows /\ applied' = applied
    BY <1>2 DEF vars
  <2>2. UnplacedTicksCounted'
    BY <2>1, PlacedIsTotal DEF PlacedInv, UnplacedTicksCounted
  <2> QED BY <2>1, <2>2 DEF PlacedInv, Filled
<1> QED BY <1>1, <1>2 DEF Next

-----------------------------------------------------------------------------
(* The three parts together are an inductive invariant of the feed.        *)
THEOREM FullInvariance == Spec => [](IInv /\ ExactInv /\ PlacedInv)
<1>1. Init => IInv /\ ExactInv /\ PlacedInv
  BY InitIInv, InitExact, InitPlaced
<1>2. IInv /\ ExactInv /\ PlacedInv /\ [Next]_vars => (IInv /\ ExactInv /\ PlacedInv)'
  BY NextIInv, NextExact, NextPlaced
<1> QED BY <1>1, <1>2, PTL DEF Spec

\* The inductive invariants give the property the run checks.
LEMMA InvariantsMakeExact == IInv /\ ExactInv => CandlesExact
<1> SUFFICES ASSUME IInv, ExactInv, NEW s \in Symbols
             PROVE  /\ agg.open[s] # None => Exact(agg.open[s])
                    /\ \A i \in DOMAIN agg.history[s] : Exact(agg.history[s][i])
  BY DEF CandlesExact
<1> DEFINE o == agg.open[s]
           h == agg.history[s]
<1>1. /\ o \in CandleType \cup {None} /\ h \in Seq(CandleType)
      /\ o # None => o.symbol = s
      /\ \A i \in DOMAIN h : h[i].symbol = s
  BY DEF IInv, TypeOK, AggregatorType, HistoryOrdered
<1>2. ExactFor(s, o, h, TicksOf, rows)
  BY DEF ExactInv
<1> HIDE DEF o, h
<1>3. o # None => Exact(o)
  <2> SUFFICES ASSUME o # None PROVE Exact(o)
    OBVIOUS
  <2>1. o \in CandleType /\ o.symbol = s /\ Tells(o, TicksOf[<<s, o.bucket>>])
    BY <1>1, <1>2 DEF ExactFor
  <2> QED BY <2>1, TellsIsExact
<1>4. ASSUME NEW i \in DOMAIN h PROVE Exact(h[i])
  <2>1. h[i] \in CandleType /\ h[i].symbol = s /\ Tells(h[i], TicksOf[<<s, h[i].bucket>>])
    BY <1>1, <1>2, ElementOfSeq, LenProperties DEF ExactFor
  <2> QED BY <2>1, TellsIsExact
<1> QED BY <1>3, <1>4 DEF o, h

(* CandleAggregator.apply: every candle in memory, open or closed, is the  *)
(* first, last, highest and lowest price, the volume and the number of     *)
(* exactly the ticks of its bucket, however late they came.                *)
THEOREM CandlesAreExact == Spec => []CandlesExact
BY FullInvariance, InvariantsMakeExact, PTL

(* CandleAggregator.late_patches: a tick that reached neither a candle in  *)
(* memory nor a recorded row has been counted.                             *)
THEOREM UnplacedAreCounted == Spec => []UnplacedTicksCounted
<1>1. PlacedInv => UnplacedTicksCounted
  BY DEF PlacedInv
<1> QED BY <1>1, FullInvariance, PTL
=============================================================================
