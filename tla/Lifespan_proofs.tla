--------------------------- MODULE Lifespan_proofs ---------------------------
(***************************************************************************)
(* Proofs about Lifespan, and so about the SQLiteWriter whose steps it     *)
(* takes, for every history length and any number of ticks, faults and     *)
(* processes on the same file.                                             *)
(*                                                                         *)
(* The argument: at most one flush has a batch in flight, and what the     *)
(* file holds, then that batch, then the two buffers, is what the process  *)
(* recorded, unless the batch was lost to an exception; then nothing more  *)
(* is ever flushed.                                                        *)
(*                                                                         *)
(* For the candles: the history and the open candle count the ticks        *)
(* recorded of their buckets, so a candle row is recorded with the count   *)
(* its bucket has then; and a flush cuts the rows only between two ticks,  *)
(* never between a tick and its candle.                                    *)
(***************************************************************************)
EXTENDS Lifespan, SequenceTheorems, FiniteSetTheorems, TLAPS

FT == INSTANCE FoldTheorems WITH Op <- W!KeepTick
FC == INSTANCE FoldTheorems WITH Op <- W!KeepCandle

-----------------------------------------------------------------------------
(* The two buffers split a list of rows between them.                      *)
LEMMA TicksFold ==
  \A s : W!TicksOf(s) = FT!Fold(<<>>, s)
BY DEF W!TicksOf, W!FoldLeft, W!MapThenFoldSet, W!Max, FT!Fold, FT!FoldLeft, FT!MapThenFoldSet, FT!Max

\* The candles of a sequence of rows are a left fold over it.
LEMMA CandlesFold ==
  \A s : W!CandlesOf(s) = FC!Fold(<<>>, s)
BY DEF W!CandlesOf, W!FoldLeft, W!MapThenFoldSet, W!Max, FC!Fold, FC!FoldLeft, FC!MapThenFoldSet, FC!Max

\* No rows split into no ticks and no candles.
LEMMA SplitEmpty ==
  W!TicksOf(<<>>) = <<>> /\ W!CandlesOf(<<>>) = <<>>
BY TicksFold, CandlesFold, FT!FoldEmpty, FC!FoldEmpty

\* One more row goes to one of the two sequences.
LEMMA SplitAppend ==
  ASSUME NEW T, NEW s \in Seq(T), NEW x \in T
  PROVE  /\ W!TicksOf(Append(s, x)) = W!KeepTick(W!TicksOf(s), x)
         /\ W!CandlesOf(Append(s, x)) = W!KeepCandle(W!CandlesOf(s), x)
<1>1. W!TicksOf(Append(s, x)) = W!KeepTick(W!TicksOf(s), x)
  BY TicksFold, FT!FoldAppend
<1>2. W!CandlesOf(Append(s, x)) = W!KeepCandle(W!CandlesOf(s), x)
  BY CandlesFold, FC!FoldAppend
<1> QED BY <1>1, <1>2

\* The two sequences have the type and together the length of the whole.
LEMMA SplitType ==
  ASSUME NEW T, NEW s \in Seq(T)
  PROVE  /\ W!TicksOf(s) \in Seq(T) /\ W!CandlesOf(s) \in Seq(T)
         /\ Len(W!TicksOf(s)) + Len(W!CandlesOf(s)) = Len(s)
<1> DEFINE Split(r) == /\ W!TicksOf(r) \in Seq(T) /\ W!CandlesOf(r) \in Seq(T)
                       /\ Len(W!TicksOf(r)) + Len(W!CandlesOf(r)) = Len(r)
           Good == {r \in Seq(T) : Split(r)}
<1>1. Split(<<>>)
  <2>1. <<>> \in Seq(T) /\ Len(<<>>) = 0 /\ 0 + 0 = 0
    OBVIOUS
  <2> QED BY <2>1, SplitEmpty, Zenon
<1>2. ASSUME NEW r \in Seq(T), NEW x \in T, Split(r) PROVE Split(Append(r, x))
  <2> DEFINE ticks == W!TicksOf(r)
             candles == W!CandlesOf(r)
  <2>1. /\ W!TicksOf(Append(r, x)) = IF x.key = None THEN Append(ticks, x) ELSE ticks
        /\ W!CandlesOf(Append(r, x)) = IF x.key = None THEN candles ELSE Append(candles, x)
    BY SplitAppend DEF W!KeepTick, W!KeepCandle
  <2>2. ticks \in Seq(T) /\ candles \in Seq(T) /\ Len(ticks) + Len(candles) = Len(r)
    BY <1>2
  <2> HIDE DEF ticks, candles
  <2>3. Len(Append(r, x)) = Len(r) + 1
    OBVIOUS
  <2>6. /\ Append(ticks, x) \in Seq(T) /\ Len(Append(ticks, x)) = Len(ticks) + 1
        /\ Append(candles, x) \in Seq(T) /\ Len(Append(candles, x)) = Len(candles) + 1
        /\ Len(ticks) \in Nat /\ Len(candles) \in Nat
    BY <2>2, AppendProperties, LenProperties, ZenonT(60)
  <2>4. CASE x.key = None
    <3>1. Len(Append(ticks, x)) + Len(candles) = Len(r) + 1
      BY <2>2, <2>6
    <3> QED BY <2>1, <2>2, <2>3, <2>4, <2>6, <3>1, Zenon
  <2>5. CASE x.key # None
    <3>1. Len(ticks) + Len(Append(candles, x)) = Len(r) + 1
      BY <2>2, <2>6
    <3> QED BY <2>1, <2>2, <2>3, <2>5, <2>6, <3>1, Zenon
  <2> QED BY <2>4, <2>5
<1> HIDE DEF Split
<1>3. <<>> \in Good
  BY <1>1
<1>4. ASSUME NEW r \in Seq(T), NEW x \in T, r \in Good PROVE Append(r, x) \in Good
  BY <1>2, <1>4
<1>5. Seq(T) \subseteq Good
  <2> HIDE DEF Good
  <2> QED BY <1>3, <1>4, FT!SeqSetInduction
<1> QED BY <1>5 DEF Split

\* Splitting a concatenation splits its parts.
LEMMA SplitJoined ==
  ASSUME NEW T, NEW s \in Seq(T), NEW t \in Seq(T)
  PROVE  /\ W!TicksOf(s \o t) = W!TicksOf(s) \o W!TicksOf(t)
         /\ W!CandlesOf(s \o t) = W!CandlesOf(s) \o W!CandlesOf(t)
<1> DEFINE ticks == W!TicksOf(s)
           candles == W!CandlesOf(s)
           Split(r) == /\ W!TicksOf(s \o r) = ticks \o W!TicksOf(r)
                       /\ W!CandlesOf(s \o r) = candles \o W!CandlesOf(r)
           Good == {r \in Seq(T) : Split(r)}
<1>1. ticks \in Seq(T) /\ candles \in Seq(T)
  BY SplitType
<1>2. Split(<<>>)
  <2>1. s \o <<>> = s
    OBVIOUS
  <2> HIDE DEF ticks, candles
  <2>2. ticks \o <<>> = ticks /\ candles \o <<>> = candles
    BY <1>1
  <2>3. W!TicksOf(s) = ticks /\ W!CandlesOf(s) = candles
    BY DEF ticks, candles
  <2> QED BY <2>1, <2>2, <2>3, SplitEmpty, Zenon
<1>3. ASSUME NEW r \in Seq(T), NEW x \in T, Split(r) PROVE Split(Append(r, x))
  <2> DEFINE q == s \o r
             ticks2 == W!TicksOf(r)
             candles2 == W!CandlesOf(r)
  <2>1. s \o Append(r, x) = Append(q, x) /\ q \in Seq(T)
    OBVIOUS
  <2>2. ticks2 \in Seq(T) /\ candles2 \in Seq(T)
    BY SplitType
  <2>3. W!TicksOf(q) = ticks \o ticks2 /\ W!CandlesOf(q) = candles \o candles2
    BY <1>3
  <2>4. /\ W!TicksOf(Append(r, x)) = W!KeepTick(ticks2, x)
        /\ W!CandlesOf(Append(r, x)) = W!KeepCandle(candles2, x)
    BY SplitAppend
  <2> HIDE DEF q, ticks2, candles2, ticks, candles
  <2>5. /\ W!TicksOf(Append(q, x)) = W!KeepTick(W!TicksOf(q), x)
        /\ W!CandlesOf(Append(q, x)) = W!KeepCandle(W!CandlesOf(q), x)
    BY <2>1, SplitAppend
  <2>6. /\ W!KeepTick(ticks \o ticks2, x) = ticks \o W!KeepTick(ticks2, x)
        /\ W!KeepCandle(candles \o candles2, x) = candles \o W!KeepCandle(candles2, x)
    <3>1. ticks \o Append(ticks2, x) = Append(ticks \o ticks2, x)
      BY <1>1, <2>2, FT!JoinedAppend
    <3>2. candles \o Append(candles2, x) = Append(candles \o candles2, x)
      BY <1>1, <2>2, FT!JoinedAppend
    <3> QED BY <3>1, <3>2, Zenon DEF W!KeepTick, W!KeepCandle
  <2> QED BY <2>1, <2>3, <2>4, <2>5, <2>6, Zenon
<1> HIDE DEF Split
<1>4. <<>> \in Good
  BY <1>2
<1>5. ASSUME NEW r \in Seq(T), NEW x \in T, r \in Good PROVE Append(r, x) \in Good
  BY <1>3, <1>5
<1>6. Seq(T) \subseteq Good
  <2> HIDE DEF Good
  <2> QED BY <1>4, <1>5, FT!SeqSetInduction
<1> QED BY <1>6 DEF Split

-----------------------------------------------------------------------------
(* The last row of a key, however the rows come together.                  *)
LEMMA NewestAppend ==
  ASSUME NEW T, NEW s \in Seq(T), NEW x \in T, NEW k, NEW old
  PROVE  W!Newest(Append(s, x), k, old) = IF x.key = k THEN x ELSE W!Newest(s, k, old)
<1> DEFINE a == Append(s, x)
           At == {i \in DOMAIN s : s[i].key = k}
           AtA == {i \in DOMAIN a : a[i].key = k}
<1>1. \A n \in Nat : \A S \in SUBSET (1 .. n) : S # {} => W!Max(S) \in S /\ \A y \in S : W!Max(S) >= y
  BY FT!MaxOfPositions DEF W!Max, FT!Max
<1>2. /\ DOMAIN s = 1 .. Len(s) /\ DOMAIN a = 1 .. Len(s) + 1 /\ Len(s) \in Nat
      /\ \A i \in 1 .. Len(s) : a[i] = s[i]
      /\ a[Len(s) + 1] = x
  OBVIOUS
<1>3. W!Newest(a, k, old) = IF AtA = {} THEN old ELSE a[W!Max(AtA)]
  BY DEF W!Newest
<1>4. W!Newest(s, k, old) = IF At = {} THEN old ELSE s[W!Max(At)]
  BY DEF W!Newest
<1> HIDE DEF a
<1>5. CASE x.key = k
  <2>1. Len(s) + 1 \in AtA /\ AtA \in SUBSET (1 .. Len(s) + 1) /\ Len(s) + 1 \in Nat
    BY <1>2, <1>5
  <2> HIDE DEF AtA
  <2>2. W!Max(AtA) \in AtA /\ W!Max(AtA) >= Len(s) + 1
    BY <1>1, <1>2, <2>1
  <2>3. W!Max(AtA) = Len(s) + 1
    <3>1. W!Max(AtA) \in 1 .. Len(s) + 1
      BY <2>1, <2>2
    <3> QED BY <1>2, <2>2, <3>1
  <2> QED BY <1>2, <1>3, <1>5, <2>1, <2>3 DEF a
<1>6. CASE x.key # k
  <2>1. AtA = At
    BY <1>2, <1>6
  <2>2. At \in SUBSET (1 .. Len(s))
    BY <1>2
  <2> HIDE DEF At, AtA
  <2>3. At # {} => W!Max(At) \in 1 .. Len(s)
    BY <1>1, <1>2, <2>2
  <2>4. At # {} => a[W!Max(At)] = s[W!Max(At)]
    BY <1>2, <2>3
  <2> QED BY <1>3, <1>4, <1>6, <2>1, <2>4, Zenon DEF a
<1> QED BY <1>5, <1>6

\* With no rows the newest row of a key is the old one.
LEMMA NewestEmpty ==
  ASSUME NEW k, NEW old
  PROVE  W!Newest(<<>>, k, old) = old
BY DEF W!Newest

\* The newest row of a concatenation: of the second part after the first.
LEMMA NewestJoined ==
  ASSUME NEW T, NEW s \in Seq(T), NEW t \in Seq(T), NEW k, NEW old
  PROVE  W!Newest(s \o t, k, old) = W!Newest(t, k, W!Newest(s, k, old))
<1> DEFINE LastWins(r) == W!Newest(s \o r, k, old) = W!Newest(r, k, W!Newest(s, k, old))
           Good == {r \in Seq(T) : LastWins(r)}
<1>1. <<>> \in Good
  <2>1. <<>> \in Seq(T) /\ s \o <<>> = s
    OBVIOUS
  <2>2. LastWins(<<>>)
    BY <2>1, NewestEmpty, Zenon
  <2> HIDE DEF LastWins
  <2> QED BY <2>1, <2>2
<1>2. ASSUME NEW r \in Seq(T), NEW x \in T, LastWins(r) PROVE LastWins(Append(r, x))
  <2> DEFINE q == s \o r
  <2>1. s \o Append(r, x) = Append(q, x) /\ q \in Seq(T)
    OBVIOUS
  <2>2. W!Newest(q, k, old) = W!Newest(r, k, W!Newest(s, k, old))
    BY <1>2
  <2> HIDE DEF q
  <2>3. W!Newest(Append(q, x), k, old) = IF x.key = k THEN x ELSE W!Newest(q, k, old)
    BY <2>1, NewestAppend
  <2>4. W!Newest(Append(r, x), k, W!Newest(s, k, old))
          = IF x.key = k THEN x ELSE W!Newest(r, k, W!Newest(s, k, old))
    BY NewestAppend
  <2> QED BY <2>1, <2>2, <2>3, <2>4, Zenon
<1> HIDE DEF LastWins
<1>3. ASSUME NEW r \in Seq(T), NEW x \in T, r \in Good PROVE Append(r, x) \in Good
  BY <1>2, <1>3
<1>4. Seq(T) \subseteq Good
  <2> HIDE DEF Good
  <2> QED BY <1>1, <1>3, FT!SeqSetInduction
<1> QED BY <1>4 DEF LastWins

\* Only candle rows decide the newest row of a candle's key.
LEMMA NewestCandle ==
  ASSUME NEW T, NEW s \in Seq(T), NEW k, k # None, NEW old
  PROVE  W!Newest(W!CandlesOf(s), k, old) = W!Newest(s, k, old)
<1> DEFINE Same(r) == W!Newest(W!CandlesOf(r), k, old) = W!Newest(r, k, old)
           Good == {r \in Seq(T) : Same(r)}
<1>1. <<>> \in Good
  <2>1. <<>> \in Seq(T)
    OBVIOUS
  <2>2. Same(<<>>)
    BY SplitEmpty, Zenon
  <2> HIDE DEF Same
  <2> QED BY <2>1, <2>2
<1>2. ASSUME NEW r \in Seq(T), NEW x \in T, Same(r) PROVE Same(Append(r, x))
  <2> DEFINE candles == W!CandlesOf(r)
  <2>1. candles \in Seq(T)
    BY SplitType
  <2>2. W!CandlesOf(Append(r, x)) = IF x.key = None THEN candles ELSE Append(candles, x)
    BY SplitAppend DEF W!KeepCandle
  <2>3. W!Newest(candles, k, old) = W!Newest(r, k, old)
    BY <1>2
  <2> HIDE DEF candles
  <2>4. W!Newest(Append(candles, x), k, old) = IF x.key = k THEN x ELSE W!Newest(candles, k, old)
    BY <2>1, NewestAppend
  <2>5. W!Newest(Append(r, x), k, old) = IF x.key = k THEN x ELSE W!Newest(r, k, old)
    BY NewestAppend
  <2>6. CASE x.key = None
    BY <2>2, <2>3, <2>5, <2>6, Zenon
  <2>7. CASE x.key # None
    <3>1. W!CandlesOf(Append(r, x)) = Append(candles, x)
      BY <2>2, <2>7, Zenon
    <3>2. W!Newest(Append(candles, x), k, old) = W!Newest(Append(r, x), k, old)
      BY <2>3, <2>4, <2>5
    <3> QED BY <3>1, <3>2, Zenon
  <2> QED BY <2>6, <2>7
<1> HIDE DEF Same
<1>3. ASSUME NEW r \in Seq(T), NEW x \in T, r \in Good PROVE Append(r, x) \in Good
  BY <1>2, <1>3
<1>4. Seq(T) \subseteq Good
  <2> HIDE DEF Good
  <2> QED BY <1>1, <1>3, FT!SeqSetInduction
<1> QED BY <1>4 DEF Same

-----------------------------------------------------------------------------
(* The candles a tick makes.                                               *)
AggregatorType ==
  [open : [{Symbol} -> CandleType \cup {None}], history : [{Symbol} -> Seq(CandleType)],
   latePatches : Nat, lastPatch : {None}]

\* What the assumption on the constants gives the proofs below.
LEMMA ConstantFacts ==
  /\ MaxTicks \in Nat /\ MaxFaults \in Nat /\ MaxRuns \in Nat \ {0}
  /\ BucketMs \in Nat \ {0} /\ HistoryLen \in Nat \ {0} /\ Times \subseteq Nat
  /\ None \notin Buckets
BY LifespanAssumption DEF W!WriterAssumption

\* The tick of a time and its bucket.
LEMMA TickFacts ==
  ASSUME NEW time \in Times
  PROVE  /\ Tick(time) \in TickType /\ Tick(time).symbol = Symbol /\ Tick(time).time = time
         /\ Tick(time).price = 1 /\ Tick(time).quantity = 1
         /\ C!BucketStart(time) \in Buckets
BY DEF Tick, TickType, Buckets

\* Buckets are naturals.
LEMMA BucketNat == Buckets \subseteq Nat
<1>1. ASSUME NEW t \in Nat PROVE C!BucketStart(t) \in Nat
  BY ConstantFacts DEF C!BucketStart
<1> QED BY <1>1, ConstantFacts DEF Buckets

\* A candle is typed when it is opened,
LEMMA NewCandleType ==
  ASSUME NEW time \in Times
  PROVE  C!NewCandle(Tick(time)) \in CandleType
BY TickFacts DEF C!NewCandle, CandleType

\* when a tick is merged into it,
LEMMA MergeType ==
  ASSUME NEW time \in Times, NEW c \in CandleType
  PROVE  C!Merge(c, Tick(time)) \in CandleType
<1>1. c.high = 1 /\ c.low = 1 /\ c.volume + 1 \in Nat /\ c.count + 1 \in Nat
  BY DEF CandleType
<1>2. C!Larger(1, 1) = 1 /\ C!Smaller(1, 1) = 1
  BY DEF C!Larger, C!Smaller
<1> QED BY <1>1, <1>2, TickFacts DEF C!Merge, CandleType

\* and a history when a candle is pushed on it.
LEMMA PushType ==
  ASSUME NEW h \in Seq(CandleType), NEW c \in CandleType
  PROVE  C!PushHistory(h, c) \in Seq(CandleType)
<1>1. Append(h, c) \in Seq(CandleType) /\ Append(h, c) # <<>>
  BY AppendProperties
<1>2. Tail(Append(h, c)) \in Seq(CandleType)
  BY <1>1, HeadTailProperties
<1> QED BY <1>1, <1>2 DEF C!PushHistory

\* The aggregator keeps its type, and a tick closes a candle or patches one.
LEMMA ApplyType ==
  ASSUME agg \in AggregatorType, NEW time \in Times
  PROVE  /\ C!TakePatch(C!Apply(agg, Tick(time))) \in AggregatorType
         /\ CandleRows(agg, Tick(time)) \in Seq(CandleType)
         /\ Len(CandleRows(agg, Tick(time))) <= 1
<1> DEFINE tick == Tick(time)
           after == C!Apply(agg, tick)
           closed == C!ClosedBy(agg, tick)
<1>1. tick.symbol = Symbol /\ agg.open[Symbol] \in CandleType \cup {None}
      /\ agg.history[Symbol] \in Seq(CandleType) /\ agg.latePatches + 1 \in Nat
  BY TickFacts DEF AggregatorType
<1> DEFINE Good == /\ C!TakePatch(after) \in AggregatorType
                   /\ \/ closed = None /\ after.lastPatch \in CandleType \cup {None}
                      \/ closed \in CandleType /\ after.lastPatch = None
<1>2. ASSUME C!Opens(agg, tick) PROVE Good
  <2>1. after = C!OpenFirst(agg, tick) /\ closed = None
    <3>1. ~C!Merges(agg, tick) /\ ~C!Closes(agg, tick)
      BY <1>2 DEF C!Merges, C!Closes
    <3> QED BY <1>2, <3>1 DEF C!Apply, C!ClosedBy
  <2>2. /\ C!OpenFirst(agg, tick).lastPatch = None
        /\ C!TakePatch(C!OpenFirst(agg, tick)) \in AggregatorType
    BY <1>1, NewCandleType DEF C!OpenFirst, C!TakePatch, AggregatorType
  <2> QED BY <2>1, <2>2
<1>3. ASSUME C!Merges(agg, tick) PROVE Good
  <2>1. after = C!MergeOpen(agg, tick) /\ closed = None
    <3>1. ~C!Opens(agg, tick) /\ ~C!Closes(agg, tick)
      <4>1. agg.open[Symbol] \in CandleType
        BY <1>1, <1>3 DEF C!Merges, C!Opens
      <4>2. agg.open[Symbol].bucket \in Nat
        BY <4>1, BucketNat DEF CandleType
      <4> QED BY <1>1, <1>3, <4>2 DEF C!Merges, C!Closes
    <3> QED BY <1>3, <3>1 DEF C!Apply, C!ClosedBy
  <2>2. C!Merge(agg.open[Symbol], tick) \in CandleType
    BY <1>1, <1>3, MergeType DEF C!Merges, C!Opens
  <2>3. /\ C!MergeOpen(agg, tick).lastPatch = None
        /\ C!TakePatch(C!MergeOpen(agg, tick)) \in AggregatorType
    BY <1>1, <2>2 DEF C!MergeOpen, C!TakePatch, AggregatorType
  <2> QED BY <2>1, <2>3
<1>4. ASSUME C!Closes(agg, tick) PROVE Good
  <2>1. after = C!CloseOpen(agg, tick) /\ closed = C!ClosedCandle(agg, Symbol)
    <3>1. ~C!Opens(agg, tick) /\ ~C!Merges(agg, tick)
      <4>1. agg.open[Symbol] \in CandleType
        BY <1>1, <1>4 DEF C!Closes, C!Opens
      <4>2. agg.open[Symbol].bucket \in Nat
        BY <4>1, BucketNat DEF CandleType
      <4> QED BY <1>1, <1>4, <4>2 DEF C!Merges, C!Closes
    <3> QED BY <1>1, <1>4, <3>1 DEF C!Apply, C!ClosedBy
  <2>2. C!ClosedCandle(agg, Symbol) \in CandleType
    BY <1>1, <1>4 DEF C!Closes, C!Opens, C!ClosedCandle, CandleType
  <2>3. C!PushHistory(agg.history[Symbol], C!ClosedCandle(agg, Symbol)) \in Seq(CandleType)
    BY <1>1, <2>2, PushType
  <2>4. /\ C!CloseOpen(agg, tick).lastPatch = None
        /\ C!TakePatch(C!CloseOpen(agg, tick)) \in AggregatorType
    BY <1>1, <2>3, NewCandleType DEF C!CloseOpen, C!TakePatch, AggregatorType
  <2> QED BY <2>1, <2>2, <2>4
<1>5. ASSUME ~C!Opens(agg, tick) /\ ~C!Merges(agg, tick) /\ ~C!Closes(agg, tick) PROVE Good
  <2>1. after = C!PatchHistory(agg, tick) /\ closed = None
    BY <1>5 DEF C!Apply, C!ClosedBy
  <2>2. CASE C!Hits(agg, tick) = {}
    <3>1. /\ C!PatchHistory(agg, tick).lastPatch = None
          /\ C!TakePatch(C!PatchHistory(agg, tick)) \in AggregatorType
      BY <1>1, <2>2 DEF C!PatchHistory, C!TakePatch, AggregatorType
    <3> QED BY <2>1, <3>1
  <2>3. CASE C!Hits(agg, tick) # {}
    <3> DEFINE i == C!FirstHit(agg, tick)
               h == agg.history[Symbol]
               patched == C!Merge(h[i], tick)
    <3>1. C!Hits(agg, tick) \in SUBSET (DOMAIN h) /\ DOMAIN h = 1 .. Len(h) /\ Len(h) \in Nat
      BY <1>1 DEF C!Hits
    <3>2. i \in DOMAIN h
      <4>1. C!Hits(agg, tick) \in SUBSET Nat
        BY <3>1
      <4>2. i \in C!Hits(agg, tick)
        BY <2>3, <4>1, FT!MinOfNaturals DEF C!FirstHit, FT!Min
      <4> QED BY <3>1, <4>2
    <3>3. h[i] \in CandleType
      BY <1>1, <3>1, <3>2, ElementOfSeq
    <3>4. patched \in CandleType
      BY <3>3, MergeType
    <3>5. [h EXCEPT ![i] = patched] \in Seq(CandleType)
      BY <1>1, <3>1, <3>2, <3>4, ExceptSeq
    <3>6. C!PatchHistory(agg, tick)
            = [agg EXCEPT !.history[Symbol] = [h EXCEPT ![i] = patched],
                          !.latePatches = agg.latePatches + 1, !.lastPatch = patched]
      BY <1>1, <2>3 DEF C!PatchHistory, AggregatorType
    <3> HIDE DEF i, h, patched
    <3>7. /\ C!PatchHistory(agg, tick).lastPatch = patched
          /\ C!TakePatch(C!PatchHistory(agg, tick)) \in AggregatorType
      BY <1>1, <3>4, <3>5, <3>6, ZenonT(60) DEF C!TakePatch, AggregatorType
    <3> QED BY <2>1, <3>4, <3>7
  <2> QED BY <2>2, <2>3
<1>6. Good
  <2> HIDE DEF Good
  <2> QED BY <1>2, <1>3, <1>4, <1>5
<1>7. CandleRows(agg, tick) = IfAny(closed) \o IfAny(after.lastPatch)
  BY DEF CandleRows
<1> HIDE DEF after, closed
<1>8. \A c \in CandleType : <<c>> \in Seq(CandleType) /\ Len(<<c>>) = 1
                            /\ <<c>> \o <<>> = <<c>> /\ <<>> \o <<c>> = <<c>>
  OBVIOUS
<1>9. <<>> \in Seq(CandleType) /\ Len(<<>>) = 0 /\ <<>> \o <<>> = <<>>
  OBVIOUS
<1>10. CandleRows(agg, tick) = <<>> \/ \E c \in CandleType : CandleRows(agg, tick) = <<c>>
  <2>1. IfAny(None) = <<>> /\ \A c \in CandleType : IfAny(c) = <<>> \/ IfAny(c) = <<c>>
    BY DEF IfAny
  <2>2. CASE closed = None /\ after.lastPatch = None
    BY <1>7, <1>9, <2>1, <2>2, Zenon
  <2>3. CASE closed = None /\ after.lastPatch \in CandleType
    BY <1>7, <1>8, <1>9, <2>1, <2>3, Zenon
  <2>4. CASE closed \in CandleType /\ after.lastPatch = None
    BY <1>7, <1>8, <1>9, <2>1, <2>4, Zenon
  <2> QED BY <1>6, <2>2, <2>3, <2>4
<1>11. CandleRows(agg, tick) \in Seq(CandleType) /\ Len(CandleRows(agg, tick)) <= 1
  <2>1. CASE CandleRows(agg, tick) = <<>>
    BY <1>9, <2>1
  <2>2. ASSUME NEW c \in CandleType, CandleRows(agg, tick) = <<c>>
        PROVE  CandleRows(agg, tick) \in Seq(CandleType) /\ Len(CandleRows(agg, tick)) <= 1
    BY <1>8, <2>2
  <2> QED BY <1>10, <2>1, <2>2
<1> QED BY <1>6, <1>11 DEF after

-----------------------------------------------------------------------------
PreCommit == {"connect", "ticks", "candles", "commit"}

\* The batch that holds the rows n + 1 .. m.
Taken(n, m) ==
  LET rows == SubSeq(recorded, n + 1, m)
  IN  [ticks |-> W!TicksOf(rows), candles |-> W!CandlesOf(rows)]

\* The first n rows are in the file, the first m have left the buffers.
Cut(n, m) ==
  /\ m \in 0 .. Len(recorded) /\ n \in 0 .. m
  /\ W!Holds(n)
  /\ tickBuf = W!TicksOf(SubSeq(recorded, m + 1, Len(recorded)))
  /\ candleBuf = W!CandlesOf(SubSeq(recorded, m + 1, Len(recorded)))
  /\ \A f \in W!Flushers : pc[f] \in PreCommit => batch[f] = Taken(n, m)
  /\ n # m => \E f \in W!Flushers : pc[f] \in PreCommit \cup {"raised"}
  /\ rowsWritten <= n
  /\ \A f \in W!Flushers : pc[f] = "close" =>
       rowsWritten + Len(batch[f].ticks) + Len(batch[f].candles) <= n

\* stop() flushes only when the loop has ended, and not after a failure.
OneFlusher ==
  /\ pc["stop"] \in W!Stages \cup {"stopped"} => pc["loop"] = "done"
  /\ pc["stop"] = "raised" => pc["loop"] \in {"done", "raised"}
  /\ pc["stop"] = "idle" <=> ~stop

\* Processes that have not started have recorded nothing.
Unstarted == \A r \in 1 .. MaxRuns : r > run => log[r] = <<>>

IInv == TypeOK /\ OneFlusher /\ Unstarted /\ \E m \in 0 .. Len(recorded) : \E n \in 0 .. m : Cut(n, m)

-----------------------------------------------------------------------------
(* The variables of the writer, typed.                                     *)
LoopStates == {"new", "sleep", "done", "raised"} \cup W!Stages
StopStates == {"idle", "join", "stopped", "raised"} \cup W!Stages
PcType     == [loop : LoopStates, stop : StopStates]
BatchType  == [ticks : Seq(W!RowType), candles : Seq(W!RowType)]

\* The conjuncts of the type invariant that the writer's steps use.
LEMMA TypeFacts ==
  ASSUME TypeOK
  PROVE  /\ tickBuf \in Seq(W!RowType) /\ candleBuf \in Seq(W!RowType)
         /\ stop \in BOOLEAN /\ pc \in PcType /\ batch \in [W!Flushers -> BatchType]
         /\ rowsWritten \in Nat /\ db \in W!Tables /\ base \in W!Tables
         /\ run \in 1 .. MaxRuns /\ faults \in 0 .. MaxFaults
         /\ recorded \in Seq(W!RowType) /\ Len(recorded) \in Nat
         /\ db.ticks \in Seq(W!RowType) /\ base.ticks \in Seq(W!RowType)
         /\ pc["loop"] \in LoopStates /\ pc["stop"] \in StopStates
BY DEF TypeOK, W!TypeOK, PcType, BatchType, LoopStates, StopStates, W!Tables

\* Concatenation is associative.
LEMMA Regroup ==
  ASSUME NEW T, NEW a \in Seq(T), NEW b \in Seq(T), NEW c \in Seq(T)
  PROVE  (a \o b) \o c = a \o (b \o c)
OBVIOUS

\* A function on 1 .. n is a sequence of length n.
LEMMA FunctionIsSeq ==
  ASSUME NEW T, NEW n \in Nat, NEW s \in [1 .. n -> T]
  PROVE  s \in Seq(T) /\ Len(s) = n
OBVIOUS

\* A sequence over a set is one over a larger set.
LEMMA SeqSubset ==
  ASSUME NEW S, NEW T, NEW s \in Seq(S)
  PROVE  s \in Seq(S \cup T) /\ s \in Seq(T \cup S)
<1>1. Len(s) \in Nat /\ s \in [1 .. Len(s) -> S]
  OBVIOUS
<1>2. s \in [1 .. Len(s) -> S \cup T] /\ s \in [1 .. Len(s) -> T \cup S]
  BY <1>1
<1> QED BY <1>1, <1>2, FunctionIsSeq

\* Moving one flusher moves no other, and keeps the type.
LEMMA PcMoves ==
  ASSUME pc \in PcType, NEW f \in W!Flushers, NEW x, x \in LoopStates \cup StopStates
  PROVE  /\ [pc EXCEPT ![f] = x][f] = x
         /\ \A g \in W!Flushers : g # f => [pc EXCEPT ![f] = x][g] = pc[g]
         /\ f = "loop" => [pc EXCEPT ![f] = x]["stop"] = pc["stop"]
         /\ f = "stop" => [pc EXCEPT ![f] = x]["loop"] = pc["loop"]
         /\ f = "loop" /\ x \in LoopStates => [pc EXCEPT ![f] = x] \in PcType
         /\ f = "stop" /\ x \in StopStates => [pc EXCEPT ![f] = x] \in PcType
BY DEF PcType, W!Flushers

\* The same of a step.
LEMMA PcStep ==
  ASSUME TypeOK, NEW f \in W!Flushers, NEW x, pc' = [pc EXCEPT ![f] = x]
  PROVE  /\ pc'[f] = x
         /\ \A g \in W!Flushers : g # f => pc'[g] = pc[g]
<1>1. pc \in PcType
  BY TypeFacts
<1> QED BY <1>1 DEF PcType, W!Flushers

\* A new batch of one flusher leaves the others' alone.
LEMMA BatchMoves ==
  ASSUME batch \in [W!Flushers -> BatchType], NEW f \in W!Flushers, NEW b \in BatchType
  PROVE  /\ [batch EXCEPT ![f] = b] \in [W!Flushers -> BatchType]
         /\ [batch EXCEPT ![f] = b][f] = b
         /\ \A g \in W!Flushers : g # f => [batch EXCEPT ![f] = b][g] = batch[g]
OBVIOUS

\* The empty batch is typed.
LEMMA NoBatchType == W!NoBatch \in BatchType
<1>1. <<>> \in Seq(W!RowType)
  OBVIOUS
<1> QED BY <1>1 DEF W!NoBatch, BatchType

\* The stages a flush goes on to.
LEMMA StageMoves ==
  ASSUME NEW b \in BatchType, NEW stage \in {"connect", "ticks", "candles"}
  PROVE  W!StageAfter(b, stage) \in {"ticks", "candles", "commit"}
BY DEF W!StageAfter

\* Where a flusher goes after its flush.
LEMMA AfterFlushMoves ==
  ASSUME stop \in BOOLEAN
  PROVE  /\ W!AfterFlush("loop") \in {"sleep", "done"}
         /\ W!AfterFlush("stop") = "stopped"
BY DEF W!AfterFlush

-----------------------------------------------------------------------------
(* What each kind of step does to the cut.                                 *)

\* A step that leaves rows, buffers and tables alone.
LEMMA QuietKeepsCut ==
  ASSUME NEW n, NEW m, Cut(n, m),
         UNCHANGED <<tickBuf, candleBuf, db, rowsWritten, recorded, base>>,
         \A f \in W!Flushers : pc'[f] \in PreCommit => pc[f] \in PreCommit /\ batch'[f] = batch[f],
         \A f \in W!Flushers : pc[f] \in PreCommit \cup {"raised"} => pc'[f] \in PreCommit \cup {"raised"},
         \A f \in W!Flushers : pc'[f] = "close" => pc[f] = "close" /\ batch'[f] = batch[f]
  PROVE  Cut(n, m)'
<1>1. W!Holds(n)'
  BY DEF Cut, W!Holds
<1>2. \A f \in W!Flushers : pc'[f] \in PreCommit => batch'[f] = Taken(n, m)'
  BY DEF Cut, Taken
<1>3. n # m => \E f \in W!Flushers : pc'[f] \in PreCommit \cup {"raised"}
  BY DEF Cut
<1>4. \A f \in W!Flushers : pc'[f] = "close" =>
        rowsWritten' + Len(batch'[f].ticks) + Len(batch'[f].candles) <= n
  BY DEF Cut
<1> QED BY <1>1, <1>2, <1>3, <1>4 DEF Cut

\* Rows are recorded.
LEMMA RecordKeepsCut ==
  ASSUME TypeOK, NEW n, NEW m, Cut(n, m), NEW rows \in Seq(W!RowType),
         tickBuf' = tickBuf \o W!TicksOf(rows),
         candleBuf' = candleBuf \o W!CandlesOf(rows),
         recorded' = recorded \o rows,
         UNCHANGED <<pc, batch, rowsWritten, db, base>>
  PROVE  Cut(n, m)'
<1> DEFINE rest == SubSeq(recorded, m + 1, Len(recorded))
<1>1. /\ recorded \in Seq(W!RowType) /\ m \in 0 .. Len(recorded) /\ n \in 0 .. m
      /\ Len(recorded) \in Nat
  BY TypeFacts DEF Cut
<1>2. rest \in Seq(W!RowType)
  BY <1>1, FT!Rest
<1>3. SubSeq(recorded', m + 1, Len(recorded')) = rest \o rows
  BY <1>1, FT!RestOfJoined
<1>4. /\ SubSeq(recorded', 1, n) = SubSeq(recorded, 1, n)
      /\ SubSeq(recorded', n + 1, m) = SubSeq(recorded, n + 1, m)
  <2>1. 1 \in Nat \ {0} /\ n + 1 \in Nat \ {0} /\ n \in 0 .. Len(recorded)
    BY <1>1
  <2> QED BY <1>1, <2>1, FT!PieceOfJoined
<1>5. /\ tickBuf = W!TicksOf(rest) /\ candleBuf = W!CandlesOf(rest)
  BY DEF Cut
<1> HIDE DEF rest
<1>6. /\ tickBuf' = W!TicksOf(rest \o rows)
      /\ candleBuf' = W!CandlesOf(rest \o rows)
  BY <1>2, <1>5, SplitJoined
<1>7. W!Holds(n)' /\ Taken(n, m)' = Taken(n, m)
  BY <1>4 DEF Cut, W!Holds, Taken
<1>8. m \in 0 .. Len(recorded')
  <2>1. Len(recorded') = Len(recorded) + Len(rows) /\ Len(rows) \in Nat
    BY <1>1, FT!Joined
  <2> QED BY <1>1, <2>1
<1> QED BY <1>3, <1>6, <1>7, <1>8 DEF Cut

\* Both buffers are taken.
LEMMA TakeMakesCut ==
  ASSUME TypeOK, NEW n, Cut(n, n), NEW f \in W!Flushers,
         \A g \in W!Flushers : pc[g] \notin PreCommit,
         \A g \in W!Flushers : g # f => pc[g] # "close",
         tickBuf' = <<>>, candleBuf' = <<>>,
         batch' = [batch EXCEPT ![f] = [ticks |-> tickBuf, candles |-> candleBuf]],
         pc' = [pc EXCEPT ![f] = "connect"],
         UNCHANGED <<rowsWritten, db, recorded, base>>
  PROVE  Cut(n, Len(recorded))'
<1> DEFINE all == Len(recorded)
<1>1. n \in 0 .. all /\ all \in Nat /\ n \in Nat
  BY TypeFacts DEF Cut
<1>2. [ticks |-> tickBuf, candles |-> candleBuf] \in BatchType
  BY TypeFacts DEF BatchType
<1>3. /\ pc'[f] = "connect" /\ batch'[f] = [ticks |-> tickBuf, candles |-> candleBuf]
      /\ \A g \in W!Flushers : g # f => pc'[g] = pc[g] /\ batch'[g] = batch[g]
  <2>1. pc'[f] = "connect" /\ \A g \in W!Flushers : g # f => pc'[g] = pc[g]
    BY PcStep
  <2>2. batch \in [W!Flushers -> BatchType]
    BY TypeFacts
  <2>3. batch'[f] = [ticks |-> tickBuf, candles |-> candleBuf]
        /\ \A g \in W!Flushers : g # f => batch'[g] = batch[g]
    BY <1>2, <2>2, BatchMoves
  <2> QED BY <2>1, <2>3
<1>4. Taken(n, all)' = [ticks |-> tickBuf, candles |-> candleBuf]
  BY DEF Taken, Cut
<1>5. SubSeq(recorded, all + 1, all) = <<>>
  BY <1>1, SubSeqEmpty
<1>6. W!Holds(n)'
  BY DEF Cut, W!Holds
<1>7. \A g \in W!Flushers : pc'[g] \in PreCommit => batch'[g] = Taken(n, all)'
  BY <1>3, <1>4
<1>8. \E g \in W!Flushers : pc'[g] \in PreCommit \cup {"raised"}
  BY <1>3 DEF PreCommit
<1>9. \A g \in W!Flushers : pc'[g] # "close"
  BY <1>3
<1>10. /\ tickBuf' = W!TicksOf(SubSeq(recorded', all + 1, Len(recorded')))
       /\ candleBuf' = W!CandlesOf(SubSeq(recorded', all + 1, Len(recorded')))
  BY <1>5, SplitEmpty
<1> QED BY <1>1, <1>6, <1>7, <1>8, <1>9, <1>10 DEF Cut

\* The batch is committed.
LEMMA CommitMakesCut ==
  ASSUME TypeOK, NEW n, NEW m, Cut(n, m), NEW f \in W!Flushers, pc[f] = "commit",
         \A g \in W!Flushers : g # f => pc[g] \notin PreCommit \cup {"close"},
         db' = W!Written(db, batch[f]),
         pc' = [pc EXCEPT ![f] = "close"],
         UNCHANGED <<tickBuf, candleBuf, batch, rowsWritten, recorded, base>>
  PROVE  Cut(m, m)'
<1> DEFINE older == SubSeq(recorded, 1, n)
           newer == SubSeq(recorded, n + 1, m)
<1>1. /\ recorded \in Seq(W!RowType) /\ m \in 0 .. Len(recorded) /\ n \in 0 .. m
      /\ Len(recorded) \in Nat
  BY TypeFacts DEF Cut
<1>2. batch[f].ticks = W!TicksOf(newer) /\ batch[f].candles = W!CandlesOf(newer)
  BY DEF Cut, PreCommit, Taken
<1>3. /\ db.ticks = base.ticks \o W!TicksOf(older)
      /\ \A k \in Buckets : db.candles[k] = W!Newest(older, k, base.candles[k])
  BY DEF Cut, W!Holds
<1>4. older \in Seq(W!RowType) /\ newer \in Seq(W!RowType) /\ Len(newer) = m - n
      /\ SubSeq(recorded, 1, m) = older \o newer
  <2>1. older \in Seq(W!RowType) /\ newer \in Seq(W!RowType) /\ Len(newer) = m - n
    <3>1. /\ 1 \in Nat \ {0} /\ n + 1 \in Nat \ {0} /\ n \in 0 .. Len(recorded)
          /\ 1 <= n + 1 /\ n + 1 <= m + 1 /\ m - (n + 1) + 1 = m - n
      BY <1>1
    <3>2. older \in Seq(W!RowType)
      BY <1>1, <3>1, FT!Piece
    <3>3. newer \in Seq(W!RowType) /\ Len(newer) = m - (n + 1) + 1
      BY <1>1, <3>1, FT!Piece
    <3> QED BY <3>1, <3>2, <3>3
  <2> QED BY <1>1, <2>1, FT!SplitPrefix
<1> HIDE DEF older, newer
<1>5. /\ W!TicksOf(older \o newer) = W!TicksOf(older) \o W!TicksOf(newer)
      /\ W!TicksOf(older) \in Seq(W!RowType) /\ W!TicksOf(newer) \in Seq(W!RowType)
  BY <1>4, SplitJoined, SplitType
<1>6. db'.ticks = base'.ticks \o W!TicksOf(SubSeq(recorded', 1, m))
  <2>1. db'.ticks = (base.ticks \o W!TicksOf(older)) \o W!TicksOf(newer)
    BY <1>2, <1>3 DEF W!Written
  <2>2. (base.ticks \o W!TicksOf(older)) \o W!TicksOf(newer)
          = base.ticks \o (W!TicksOf(older) \o W!TicksOf(newer))
    <3>1. base.ticks \in Seq(W!RowType)
      BY TypeFacts
    <3>2. /\ W!TicksOf(older) \in Seq(W!RowType)
          /\ W!TicksOf(newer) \in Seq(W!RowType)
      BY <1>5
    <3>3. \A a, b, c \in Seq(W!RowType) : (a \o b) \o c = a \o (b \o c)
      BY Regroup
    <3> QED BY ONLY <3>1, <3>2, <3>3, Zenon
  <2> QED BY <1>4, <1>5, <2>1, <2>2, Zenon
<1>7. ASSUME NEW k \in Buckets
      PROVE  db'.candles[k] = W!Newest(SubSeq(recorded', 1, m), k, base'.candles[k])
  <2>1. k # None
    BY ConstantFacts
  <2>2. db'.candles[k] = W!Newest(W!CandlesOf(newer), k, W!Newest(older, k, base.candles[k]))
    BY <1>2, <1>3 DEF W!Written
  <2>3. W!Newest(W!CandlesOf(newer), k, W!Newest(older, k, base.candles[k]))
          = W!Newest(newer, k, W!Newest(older, k, base.candles[k]))
    BY <1>4, <2>1, NewestCandle
  <2>4. W!Newest(older \o newer, k, base.candles[k])
          = W!Newest(newer, k, W!Newest(older, k, base.candles[k]))
    BY <1>4, NewestJoined
  <2> QED BY <1>4, <2>2, <2>3, <2>4
<1>8. W!Holds(m)'
  BY <1>6, <1>7 DEF W!Holds
<1>9. /\ pc'[f] = "close"
      /\ \A g \in W!Flushers : g # f => pc'[g] = pc[g]
  BY PcStep
<1>10. rowsWritten' + Len(batch'[f].ticks) + Len(batch'[f].candles) <= m
  <2>1. Len(W!TicksOf(newer)) + Len(W!CandlesOf(newer)) = m - n
    BY <1>4, SplitType
  <2>2. Len(W!TicksOf(newer)) \in Nat /\ Len(W!CandlesOf(newer)) \in Nat
    BY <1>4, SplitType, LenProperties
  <2>3. rowsWritten <= n /\ rowsWritten \in Nat
    BY TypeFacts DEF Cut
  <2>4. rowsWritten + Len(W!TicksOf(newer)) + Len(W!CandlesOf(newer)) <= m
    BY <1>1, <2>1, <2>2, <2>3
  <2> QED BY <1>2, <2>4
<1>11. \A g \in W!Flushers : pc'[g] \notin PreCommit
  BY <1>9 DEF PreCommit
<1>12. \A g \in W!Flushers : pc'[g] = "close" => g = f
  BY <1>9
<1>13. m \in 0 .. Len(recorded') /\ m \in 0 .. m /\ rowsWritten' <= m
  BY <1>1, TypeFacts DEF Cut
<1> QED BY <1>8, <1>10, <1>11, <1>12, <1>13 DEF Cut

\* The rows of the batch are counted.
LEMMA CloseKeepsCut ==
  ASSUME TypeOK, NEW n, NEW m, Cut(n, m), NEW f \in W!Flushers, pc[f] = "close",
         \A g \in W!Flushers : g # f => pc[g] \notin PreCommit \cup {"close"},
         rowsWritten' = rowsWritten + Len(batch[f].ticks) + Len(batch[f].candles),
         NEW x \in {"sleep", "done", "stopped"}, pc' = [pc EXCEPT ![f] = x],
         UNCHANGED <<tickBuf, candleBuf, db, recorded, base>>
  PROVE  Cut(n, m)'
<1>1. /\ pc'[f] = x
      /\ \A g \in W!Flushers : g # f => pc'[g] = pc[g]
  BY PcStep
<1>2. \A g \in W!Flushers : pc'[g] \notin PreCommit \cup {"close"}
  BY <1>1 DEF PreCommit
<1>3. W!Holds(n)'
  BY DEF Cut, W!Holds
<1>4. n # m => \E g \in W!Flushers : pc'[g] \in PreCommit \cup {"raised"}
  <2> SUFFICES ASSUME n # m PROVE \E g \in W!Flushers : pc'[g] \in PreCommit \cup {"raised"}
    OBVIOUS
  <2>1. PICK g \in W!Flushers : pc[g] \in PreCommit \cup {"raised"}
    BY DEF Cut
  <2>2. g # f
    BY <2>1 DEF PreCommit
  <2> QED BY <1>1, <2>1, <2>2
<1>5. rowsWritten' <= n
  BY DEF Cut
<1> QED BY <1>2, <1>3, <1>4, <1>5 DEF Cut

-----------------------------------------------------------------------------
(* What each action does to the type invariant.                            *)

LEMMA NewestType ==
  ASSUME NEW T, NEW s \in Seq(T), NEW k, NEW old
  PROVE  W!Newest(s, k, old) \in T \cup {old}
<1> DEFINE At == {i \in DOMAIN s : s[i].key = k}
<1>1. At \in SUBSET (1 .. Len(s)) /\ Len(s) \in Nat /\ \A i \in 1 .. Len(s) : s[i] \in T
  OBVIOUS
<1>2. W!Newest(s, k, old) = IF At = {} THEN old ELSE s[W!Max(At)]
  BY DEF W!Newest
<1> HIDE DEF At
<1>3. At # {} => W!Max(At) \in 1 .. Len(s)
  BY <1>1, FT!MaxOfPositions DEF W!Max, FT!Max
<1> QED BY <1>1, <1>2, <1>3

\* The part of TypeOK about the rows of the processes.
LEMMA RowTypes ==
  /\ W!RowType = [run : 1 .. MaxRuns, number : 1 .. 2 * MaxTicks, key : Buckets \cup {None}]
  /\ W!Tables = [ticks : Seq(W!RowType), candles : [Buckets -> W!RowType \cup {None}]]
  /\ W!NoRows \in W!Tables
<1>1. <<>> \in Seq(W!RowType)
  OBVIOUS
<1> QED BY <1>1 DEF W!RowType, W!Tables, W!NoRows

\* The conjuncts of the type invariant that the other steps use.
LEMMA MoreTypeFacts ==
  ASSUME TypeOK
  PROVE  /\ agg \in AggregatorType
         /\ phase \in {"serving", "clientStopped", "pipelineStopped", "writerStopped"}
         /\ stop <=> phase = "writerStopped"
         /\ log \in [1 .. MaxRuns -> Seq(TickType \cup CandleType)]
         /\ handled \in 0 .. MaxTicks
         /\ \A r \in 1 .. MaxRuns : Len(log[r]) <= 2 * handled
         /\ Len(log[run]) = Len(recorded)
         /\ rowsWritten \in 0 .. 2 * MaxTicks
         /\ Len(recorded) <= 2 * MaxTicks
<1>1. /\ agg \in AggregatorType
      /\ phase \in {"serving", "clientStopped", "pipelineStopped", "writerStopped"}
      /\ stop <=> phase = "writerStopped"
      /\ log \in [1 .. MaxRuns -> Seq(TickType \cup CandleType)]
      /\ handled \in 0 .. MaxTicks
      /\ \A r \in 1 .. MaxRuns : Len(log[r]) <= 2 * handled
      /\ Len(log[run]) = Len(recorded)
      /\ rowsWritten \in 0 .. 2 * MaxTicks
  BY DEF TypeOK, W!TypeOK, AggregatorType
<1>2. Len(recorded) <= 2 * handled
  BY <1>1, TypeFacts
<1>3. Len(recorded) <= 2 * MaxTicks
  BY <1>1, <1>2, TypeFacts, ConstantFacts
<1> QED BY <1>1, <1>3

\* A step of the writer's tasks: only pc, batch, the tables, the counters change.
LEMMA TaskKeepsType ==
  ASSUME TypeOK,
         UNCHANGED <<stop, run, recorded, base, agg, phase, log, handled>>,
         tickBuf' \in Seq(W!RowType), candleBuf' \in Seq(W!RowType),
         pc' \in PcType, batch' \in [W!Flushers -> BatchType],
         rowsWritten' \in 0 .. 2 * MaxTicks, db' \in W!Tables, faults' \in 0 .. MaxFaults
  PROVE  TypeOK'
<1>1. /\ stop' \in BOOLEAN /\ base' \in W!Tables
      /\ run' \in 1 .. MaxRuns /\ recorded' \in Seq(W!RowType)
  BY TypeFacts
<1>2. /\ agg' \in AggregatorType
      /\ phase' \in {"serving", "clientStopped", "pipelineStopped", "writerStopped"}
      /\ stop' <=> phase' = "writerStopped"
      /\ log' \in [1 .. MaxRuns -> Seq(TickType \cup CandleType)]
      /\ handled' \in 0 .. MaxTicks
      /\ \A r \in 1 .. MaxRuns : Len(log'[r]) <= 2 * handled'
      /\ Len(log'[run']) = Len(recorded')
  BY MoreTypeFacts
<1> QED BY <1>1, <1>2 DEF TypeOK, W!TypeOK, PcType, BatchType, LoopStates, StopStates, AggregatorType

\* A buffer, a batch and a table of rows keep their types.
LEMMA FlushKeepsType ==
  ASSUME TypeOK, NEW f \in W!Flushers
  PROVE  /\ [ticks |-> tickBuf, candles |-> candleBuf] \in BatchType
         /\ batch[f] \in BatchType
         /\ W!Written(db, batch[f]) \in W!Tables
         /\ [batch EXCEPT ![f] = W!NoBatch] \in [W!Flushers -> BatchType]
         /\ [batch EXCEPT ![f] = [ticks |-> tickBuf, candles |-> candleBuf]] \in [W!Flushers -> BatchType]
<1>1. [ticks |-> tickBuf, candles |-> candleBuf] \in BatchType
  BY TypeFacts DEF BatchType
<1>2. batch[f] \in BatchType /\ batch \in [W!Flushers -> BatchType]
  BY TypeFacts
<1>3. batch[f].ticks \in Seq(W!RowType) /\ batch[f].candles \in Seq(W!RowType)
  BY <1>2 DEF BatchType
<1>4. db.ticks \in Seq(W!RowType) /\ \A k \in Buckets : db.candles[k] \in W!RowType \cup {None}
  BY TypeFacts, RowTypes
<1>5. db.ticks \o batch[f].ticks \in Seq(W!RowType)
  BY <1>3, <1>4, FT!Joined
<1>6. \A k \in Buckets :
        W!Newest(batch[f].candles, k, db.candles[k]) \in W!RowType \cup {None}
  <2> TAKE k \in Buckets
  <2>1. W!Newest(batch[f].candles, k, db.candles[k]) \in W!RowType \cup {db.candles[k]}
    BY <1>3, NewestType
  <2> QED BY <1>4, <2>1
<1>7. W!Written(db, batch[f]) \in W!Tables
  BY <1>5, <1>6, RowTypes DEF W!Written
<1> QED BY <1>1, <1>2, <1>7, NoBatchType, BatchMoves

\* Taking the buffers keeps the types,
LEMMA TakeKeepsType ==
  ASSUME TypeOK, NEW f \in W!Flushers, W!BeginFlush(f),
         UNCHANGED <<stop, rowsWritten, db, run, faults, recorded, base, agg, phase, log, handled>>
  PROVE  TypeOK'
<1>1. W!AfterFlush(f) \in IF f = "loop" THEN LoopStates ELSE StopStates
  BY TypeFacts, AfterFlushMoves DEF LoopStates, StopStates, W!Flushers
<1>2. "connect" \in LoopStates /\ "connect" \in StopStates
  BY DEF LoopStates, StopStates, W!Stages
<1>3. pc' \in PcType
  <2>1. pc' = [pc EXCEPT ![f] = W!AfterFlush(f)] \/ pc' = [pc EXCEPT ![f] = "connect"]
    BY DEF W!BeginFlush
  <2>2. pc \in PcType /\ f \in {"loop", "stop"}
    BY TypeFacts DEF W!Flushers
  <2>3. \A x \in LoopStates : f = "loop" => [pc EXCEPT ![f] = x] \in PcType
    BY <2>2, PcMoves
  <2>4. \A x \in StopStates : f = "stop" => [pc EXCEPT ![f] = x] \in PcType
    BY <2>2, PcMoves
  <2> QED BY <1>1, <1>2, <2>1, <2>2, <2>3, <2>4
<1>4. batch' \in [W!Flushers -> BatchType]
  BY TypeFacts, FlushKeepsType DEF W!BeginFlush
<1>5. tickBuf' \in Seq(W!RowType) /\ candleBuf' \in Seq(W!RowType)
  <2>1. <<>> \in Seq(W!RowType)
    OBVIOUS
  <2> QED BY <2>1, TypeFacts DEF W!BeginFlush
<1> QED BY <1>3, <1>4, <1>5, TypeFacts, MoreTypeFacts, TaskKeepsType

\* a stage of the flush keeps them,
LEMMA FlushStepKeepsType ==
  ASSUME TypeOK, NEW n, NEW m, Cut(n, m), NEW f \in W!Flushers, W!FlushStep(f) \/ W!Raise(f),
         UNCHANGED <<agg, phase, log, handled>>
  PROVE  TypeOK'
<1>1. pc \in PcType /\ f \in {"loop", "stop"} /\ f \in W!Flushers
  BY TypeFacts DEF W!Flushers
<1>2. \A x \in LoopStates \cap StopStates : [pc EXCEPT ![f] = x] \in PcType
  BY <1>1, PcMoves
<1>3. W!Stages \cup {"raised"} \subseteq LoopStates \cap StopStates
  BY DEF LoopStates, StopStates
<1>4. [pc EXCEPT ![f] = W!AfterFlush(f)] \in PcType
  <2>1. W!AfterFlush(f) \in IF f = "loop" THEN LoopStates ELSE StopStates
    BY TypeFacts, AfterFlushMoves DEF LoopStates, StopStates, W!Flushers
  <2> QED BY <1>1, <2>1, PcMoves
<1>5. CASE W!Write(f)
  <2>1. batch[f] \in BatchType
    BY FlushKeepsType
  <2>2. W!StageAfter(batch[f], pc[f]) \in W!Stages
    BY <1>5, <2>1, StageMoves DEF W!Write, W!Stages
  <2>3. pc' \in PcType
    BY <1>2, <1>3, <1>5, <2>2 DEF W!Write
  <2> QED BY <1>5, <2>3, TypeFacts, MoreTypeFacts, TaskKeepsType DEF W!Write
<1>6. CASE W!Commit(f)
  <2>1. pc' \in PcType
    BY <1>2, <1>3, <1>6 DEF W!Commit, W!Stages
  <2> QED BY <1>6, <2>1, TypeFacts, MoreTypeFacts, FlushKeepsType, TaskKeepsType DEF W!Commit
<1>7. CASE W!Close(f)
  <2>1. batch[f] \in BatchType
    BY FlushKeepsType
  <2>2. Len(batch[f].ticks) \in Nat /\ Len(batch[f].candles) \in Nat
    BY <2>1, LenProperties DEF BatchType
  <2>3. rowsWritten + Len(batch[f].ticks) + Len(batch[f].candles) <= n
    BY <1>1, <1>7 DEF W!Close, Cut
  <2>4. n \in Nat /\ n <= Len(recorded)
    BY TypeFacts DEF Cut
  <2>5. rowsWritten' \in 0 .. 2 * MaxTicks
    <3>1. rowsWritten' = rowsWritten + Len(batch[f].ticks) + Len(batch[f].candles)
      BY <1>7 DEF W!Close
    <3>2. rowsWritten \in Nat /\ Len(recorded) \in Nat /\ Len(recorded) <= 2 * MaxTicks /\ MaxTicks \in Nat
      BY TypeFacts, MoreTypeFacts, ConstantFacts
    <3> DEFINE x == Len(batch[f].ticks)
               y == Len(batch[f].candles)
    <3>3. /\ x \in Nat /\ y \in Nat /\ rowsWritten' = rowsWritten + x + y
          /\ rowsWritten + x + y <= n /\ n \in Nat /\ n <= Len(recorded)
      BY <2>2, <2>3, <2>4, <3>1
    <3> HIDE DEF x, y
    <3> QED BY <3>2, <3>3
  <2>6. pc' \in PcType /\ batch' \in [W!Flushers -> BatchType]
    BY <1>4, <1>7, FlushKeepsType DEF W!Close
  <2> QED BY <1>7, <2>5, <2>6, TypeFacts, TaskKeepsType DEF W!Close
<1>8. CASE W!Raise(f)
  <2>1. pc' \in PcType /\ batch' \in [W!Flushers -> BatchType]
    BY <1>2, <1>3, <1>8, FlushKeepsType DEF W!Raise
  <2>2. faults' \in 0 .. MaxFaults
    BY <1>8, TypeFacts, ConstantFacts DEF W!Raise
  <2> QED BY <1>8, <2>1, <2>2, TypeFacts, MoreTypeFacts, TaskKeepsType DEF W!Raise
<1> QED BY <1>5, <1>6, <1>7, <1>8 DEF W!FlushStep

\* and so does every step of the writer.
LEMMA WriterKeepsType ==
  ASSUME TypeOK, NEW n, NEW m, Cut(n, m), Writer
  PROVE  TypeOK'
<1>1. "loop" \in W!Flushers /\ "stop" \in W!Flushers
  BY DEF W!Flushers
<1>2. CASE W!LoopStarts
  <2>1. pc \in PcType /\ "sleep" \in LoopStates /\ "done" \in LoopStates
    BY TypeFacts DEF LoopStates
  <2>2. pc' \in PcType
    BY <1>1, <1>2, <2>1, PcMoves DEF W!LoopStarts
  <2> QED BY <1>2, <2>2, TypeFacts, MoreTypeFacts, TaskKeepsType DEF W!LoopStarts, Writer
<1>3. CASE W!LoopWakes
  BY <1>1, <1>3, TakeKeepsType DEF W!LoopWakes, Writer
<1>4. CASE W!Join /\ W!BeginFlush("stop")
  BY <1>1, <1>4, TakeKeepsType DEF W!Join, Writer
<1>5. CASE W!Join /\ ~W!BeginFlush("stop")
  <2>1. pc \in PcType /\ "raised" \in StopStates
    BY TypeFacts DEF StopStates
  <2>2. pc' = [pc EXCEPT !["stop"] = "raised"]
    BY <1>5 DEF W!Join
  <2>3. pc' \in PcType
    BY <1>1, <2>1, <2>2, PcMoves
  <2> QED BY <1>5, <2>3, TypeFacts, MoreTypeFacts, TaskKeepsType DEF W!Join, Writer
<1>6. ASSUME NEW f \in W!Flushers, W!FlushStep(f) \/ W!Raise(f) PROVE TypeOK'
  BY <1>6, FlushStepKeepsType DEF Writer
<1>7. \/ W!LoopStarts \/ W!LoopWakes \/ W!Join
      \/ \E f \in W!Flushers : W!FlushStep(f) \/ W!Raise(f)
  BY <1>1 DEF Writer, W!Loop, W!Stopper
<1> QED BY <1>2, <1>3, <1>4, <1>5, <1>6, <1>7

\* The rows that a tick records: its own, and one of a candle at most.
LEMMA RowsOfTick ==
  ASSUME TypeOK, NEW time \in Times, handled < MaxTicks,
         NEW candles \in Seq(CandleType), Len(candles) <= 1
  PROVE  LET keys == <<None>> \o [i \in DOMAIN candles |-> candles[i].bucket]
             rows == [i \in DOMAIN keys |-> W!Row(i, keys[i])]
         IN  rows \in Seq(W!RowType) /\ Len(rows) = 1 + Len(candles)
<1> DEFINE ks == [i \in DOMAIN candles |-> candles[i].bucket]
           keys == <<None>> \o ks
           rows == [i \in DOMAIN keys |-> W!Row(i, keys[i])]
<1>1. ks \in Seq(Buckets \cup {None}) /\ Len(ks) = Len(candles) /\ Len(candles) \in Nat
  <2>1. DOMAIN candles = 1 .. Len(candles) /\ Len(candles) \in Nat
        /\ \A i \in 1 .. Len(candles) : candles[i] \in CandleType
    OBVIOUS
  <2>2. \A i \in 1 .. Len(candles) : candles[i].bucket \in Buckets \cup {None}
    BY <2>1 DEF CandleType
  <2>3. ks = [i \in 1 .. Len(candles) |-> candles[i].bucket]
    BY <2>1
  <2>4. ks \in [1 .. Len(candles) -> Buckets \cup {None}]
    BY <2>2, <2>3
  <2> HIDE DEF ks
  <2> QED BY <2>1, <2>4, FunctionIsSeq
<1> HIDE DEF ks
<1>2. /\ <<None>> \in Seq(Buckets \cup {None}) /\ Len(<<None>>) = 1
  OBVIOUS
<1>3. keys \in Seq(Buckets \cup {None}) /\ Len(keys) = 1 + Len(candles)
  BY <1>1, <1>2, FT!Joined
<1>4. DOMAIN keys = 1 .. 1 + Len(candles) /\ \A i \in 1 .. 1 + Len(candles) : keys[i] \in Buckets \cup {None}
  BY <1>1, <1>3, ElementOfSeq, LenProperties
<1> HIDE DEF keys
<1>5. Len(recorded) \in Nat /\ Len(recorded) + 2 <= 2 * MaxTicks /\ run \in 1 .. MaxRuns
  BY TypeFacts, MoreTypeFacts, ConstantFacts, SMTT(30)
<1>6. \A i \in 1 .. 1 + Len(candles) : W!Row(i, keys[i]) \in W!RowType
  <2> TAKE i \in 1 .. 1 + Len(candles)
  <2>1. Len(recorded) + i \in 1 .. 2 * MaxTicks
    BY <1>1, <1>5, ConstantFacts
  <2> QED BY <1>4, <1>5, <2>1, RowTypes DEF W!Row
<1>7. rows \in [1 .. 1 + Len(candles) -> W!RowType]
  BY <1>4, <1>6
<1> HIDE DEF rows
<1>8. rows \in Seq(W!RowType) /\ Len(rows) = 1 + Len(candles)
  BY <1>1, <1>7, FunctionIsSeq
<1> QED BY <1>8 DEF rows, keys, ks

\* A tick is handled.
LEMMA ProcessKeeps ==
  ASSUME TypeOK, NEW n, NEW m, Cut(n, m), NEW time \in Times, Process(time)
  PROVE  TypeOK' /\ Cut(n, m)'
<1> DEFINE candles == CandleRows(agg, Tick(time))
           keys == <<None>> \o [i \in DOMAIN candles |-> candles[i].bucket]
           rows == [i \in DOMAIN keys |-> W!Row(i, keys[i])]
           entries == <<Tick(time)>> \o candles
<1>1. /\ candles \in Seq(CandleType) /\ Len(candles) <= 1 /\ Len(candles) \in Nat
      /\ C!TakePatch(C!Apply(agg, Tick(time))) \in AggregatorType
  <2>1. agg \in AggregatorType
    BY MoreTypeFacts
  <2>2. candles \in Seq(CandleType) /\ Len(candles) <= 1
        /\ C!TakePatch(C!Apply(agg, Tick(time))) \in AggregatorType
    BY <2>1, ApplyType
  <2> QED BY <2>2, LenProperties
<1>2. rows \in Seq(W!RowType) /\ Len(rows) = 1 + Len(candles)
  <2>1. handled < MaxTicks
    BY DEF Process
  <2> HIDE DEF candles
  <2> QED BY <1>1, <2>1, RowsOfTick
<1>3. /\ tickBuf' = tickBuf \o W!TicksOf(rows)
      /\ candleBuf' = candleBuf \o W!CandlesOf(rows)
      /\ recorded' = recorded \o rows
      /\ UNCHANGED <<stop, pc, batch, rowsWritten, db, run, faults, base>>
      /\ log' = [log EXCEPT ![run] = @ \o <<Tick(time)>> \o candles]
      /\ agg' = C!TakePatch(C!Apply(agg, Tick(time)))
      /\ handled' = handled + 1 /\ handled < MaxTicks
      /\ phase' = phase /\ phase \in {"serving", "clientStopped"}
  BY DEF Process, W!Record
<1> HIDE DEF rows, keys
<1>4. Cut(n, m)'
  BY <1>2, <1>3, RecordKeepsCut
<1>5. /\ W!TicksOf(rows) \in Seq(W!RowType) /\ W!CandlesOf(rows) \in Seq(W!RowType)
  BY <1>2, SplitType
<1>6. tickBuf \in Seq(W!RowType) /\ candleBuf \in Seq(W!RowType) /\ recorded \in Seq(W!RowType)
  BY TypeFacts
<1>7. /\ tickBuf' \in Seq(W!RowType) /\ candleBuf' \in Seq(W!RowType)
      /\ recorded' \in Seq(W!RowType) /\ Len(recorded') = Len(recorded) + 1 + Len(candles)
  <2>1. tickBuf' \in Seq(W!RowType) /\ candleBuf' \in Seq(W!RowType)
    BY <1>3, <1>5, <1>6, FT!Joined
  <2>2. recorded' \in Seq(W!RowType) /\ Len(recorded') = Len(recorded) + Len(rows)
    BY <1>2, <1>3, <1>6, FT!Joined
  <2>3. Len(recorded) \in Nat /\ Len(rows) = 1 + Len(candles)
    BY <1>2, TypeFacts
  <2> HIDE DEF candles
  <2> QED BY <1>1, <2>1, <2>2, <2>3
<1>8. log[run] \in Seq(TickType \cup CandleType) /\ run \in 1 .. MaxRuns
  BY TypeFacts, MoreTypeFacts
<1>9. log'[run] \in Seq(TickType \cup CandleType) /\ Len(log'[run]) = Len(log[run]) + 1 + Len(candles)
  <2>1. <<Tick(time)>> \in Seq(TickType \cup CandleType) /\ Len(<<Tick(time)>>) = 1
    BY TickFacts
  <2>2. candles \in Seq(TickType \cup CandleType)
    BY <1>1, SeqSubset
  <2> HIDE DEF candles
  <2> DEFINE longer == log[run] \o <<Tick(time)>>
  <2>3. longer \in Seq(TickType \cup CandleType) /\ Len(longer) = Len(log[run]) + 1
    BY <1>8, <2>1, FT!Joined
  <2>4. log'[run] = longer \o candles
    BY <1>3, <1>8, MoreTypeFacts
  <2> HIDE DEF longer
  <2>5. log'[run] \in Seq(TickType \cup CandleType) /\ Len(log'[run]) = Len(longer) + Len(candles)
    <3>1. longer \o candles \in Seq(TickType \cup CandleType)
          /\ Len(longer \o candles) = Len(longer) + Len(candles)
      BY <2>2, <2>3, FT!Joined
    <3> QED BY <2>4, <3>1
  <2> QED BY <2>3, <2>5
<1>10. /\ log' \in [1 .. MaxRuns -> Seq(TickType \cup CandleType)]
       /\ \A r \in 1 .. MaxRuns : r # run => log'[r] = log[r]
  <2> HIDE DEF candles
  <2>1. log' = [log EXCEPT ![run] = log'[run]]
    BY <1>3, <1>8, MoreTypeFacts
  <2> QED BY <1>8, <1>9, <2>1, MoreTypeFacts
<1>11. \A r \in 1 .. MaxRuns : Len(log'[r]) <= 2 * handled'
  <2> TAKE r \in 1 .. MaxRuns
  <2>1. Len(log[r]) <= 2 * handled /\ Len(log[r]) \in Nat /\ handled \in Nat
    BY MoreTypeFacts, LenProperties
  <2>2. Len(log[run]) <= 2 * handled /\ Len(log[run]) \in Nat
    BY <1>8, MoreTypeFacts, LenProperties
  <2> HIDE DEF candles
  <2>3. CASE r = run
    BY <1>1, <1>3, <1>9, <2>1, <2>2, <2>3
  <2>4. CASE r # run
    BY <1>3, <1>10, <2>1, <2>4
  <2> QED BY <2>3, <2>4
<1>12. Len(log'[run']) = Len(recorded')
  BY <1>3, <1>7, <1>9, MoreTypeFacts
<1>13. handled' \in 0 .. MaxTicks
  BY <1>3, MoreTypeFacts, ConstantFacts, SMTT(30)
<1>14. /\ stop' \in BOOLEAN /\ pc' \in PcType /\ batch' \in [W!Flushers -> BatchType]
       /\ rowsWritten' \in 0 .. 2 * MaxTicks /\ db' \in W!Tables /\ base' \in W!Tables
       /\ run' \in 1 .. MaxRuns /\ faults' \in 0 .. MaxFaults
       /\ phase' \in {"serving", "clientStopped", "pipelineStopped", "writerStopped"}
       /\ stop' <=> phase' = "writerStopped"
  BY <1>3, TypeFacts, MoreTypeFacts
<1>15. agg' \in AggregatorType
  BY <1>1, <1>3
<1>16. TypeOK'
  BY <1>7, <1>10, <1>11, <1>12, <1>13, <1>14, <1>15
     DEF TypeOK, W!TypeOK, PcType, BatchType, LoopStates, StopStates, AggregatorType
<1> QED BY <1>4, <1>16

\* lifespan stops the parts, the last one by calling stop().
LEMMA LifespanKeeps ==
  ASSUME TypeOK, NEW n, NEW m, Cut(n, m), OneFlusher, StopClient \/ StopPipeline \/ StopWriter
  PROVE  TypeOK' /\ Cut(n, m)' /\ OneFlusher'
<1>1. CASE StopClient \/ StopPipeline
  <2>1. /\ UNCHANGED <<writerVars, agg, log, handled>>
        /\ phase \in {"serving", "clientStopped"}
        /\ phase' \in {"clientStopped", "pipelineStopped"}
    BY <1>1 DEF StopClient, StopPipeline
  <2>2. TypeOK'
    BY <2>1, TypeFacts, MoreTypeFacts
       DEF writerVars, TypeOK, W!TypeOK, PcType, BatchType, LoopStates, StopStates, AggregatorType
  <2>3. Cut(n, m)'
    BY <2>1 DEF writerVars, Cut, Taken, W!Holds
  <2>4. OneFlusher'
    BY <2>1 DEF writerVars, OneFlusher
  <2> QED BY <2>2, <2>3, <2>4
<1>2. CASE StopWriter
  <2>1. /\ ~stop /\ stop' = TRUE /\ phase' = "writerStopped"
        /\ pc' = [pc EXCEPT !["stop"] = IF pc["loop"] = "raised" THEN "raised" ELSE "join"]
        /\ UNCHANGED <<tickBuf, candleBuf, batch, rowsWritten, db, run, faults, recorded, base>>
        /\ UNCHANGED <<agg, log, handled>>
    BY <1>2 DEF StopWriter, W!Stop
  <2>2. pc["stop"] = "idle"
    BY <2>1 DEF OneFlusher
  <2>3. "stop" \in W!Flushers /\ "loop" \in W!Flushers /\ W!Flushers = {"stop", "loop"}
    BY DEF W!Flushers
  <2>4. /\ pc'["stop"] = IF pc["loop"] = "raised" THEN "raised" ELSE "join"
        /\ pc'["loop"] = pc["loop"]
    BY <2>1, <2>3, PcStep
  <2>5. pc' \in PcType
    BY <2>1, <2>3, TypeFacts, PcMoves DEF StopStates
  <2>6. TypeOK'
    BY <2>1, <2>5, TypeFacts, MoreTypeFacts
       DEF TypeOK, W!TypeOK, PcType, BatchType, LoopStates, StopStates, AggregatorType
  <2>7. Cut(n, m)'
    <3>1. \A f \in W!Flushers : pc'[f] \in PreCommit => pc[f] \in PreCommit /\ batch'[f] = batch[f]
      BY <2>1, <2>3, <2>4 DEF PreCommit
    <3>2. \A f \in W!Flushers : pc[f] \in PreCommit \cup {"raised"} => pc'[f] \in PreCommit \cup {"raised"}
      BY <2>2, <2>3, <2>4 DEF PreCommit
    <3>3. \A f \in W!Flushers : pc'[f] = "close" => pc[f] = "close" /\ batch'[f] = batch[f]
      BY <2>1, <2>3, <2>4
    <3> QED BY <2>1, <3>1, <3>2, <3>3, QuietKeepsCut
  <2>8. OneFlusher'
    BY <2>1, <2>4 DEF OneFlusher, W!Stages
  <2> QED BY <2>6, <2>7, <2>8
<1> QED BY <1>1, <1>2

\* The tasks of the writer.
LEMMA WriterKeepsCut ==
  ASSUME TypeOK, NEW n, NEW m, Cut(n, m), OneFlusher, Writer
  PROVE  /\ \E i \in {n, m} : \E j \in {m, Len(recorded)} : Cut(i, j)'
         /\ OneFlusher'
<1> DEFINE Some == \E i \in {n, m} : \E j \in {m, Len(recorded)} : Cut(i, j)'
<1>1. ASSUME NEW i \in {n, m}, NEW j \in {m, Len(recorded)}, Cut(i, j)' PROVE Some
  BY <1>1
<1>2. "loop" \in W!Flushers /\ "stop" \in W!Flushers /\ W!Flushers = {"loop", "stop"}
  BY DEF W!Flushers
<1>3. pc["loop"] \in LoopStates /\ pc["stop"] \in StopStates
  BY TypeFacts
<1> HIDE DEF Some
<1>4. ASSUME W!LoopStarts PROVE Some /\ OneFlusher'
  <2>1. /\ pc["loop"] = "new" /\ pc' = [pc EXCEPT !["loop"] = IF stop THEN "done" ELSE "sleep"]
        /\ UNCHANGED <<tickBuf, candleBuf, stop, batch, rowsWritten, db, run, faults, recorded, base>>
    BY <1>4 DEF W!LoopStarts
  <2>2. pc'["loop"] \in {"done", "sleep"} /\ pc'["stop"] = pc["stop"]
    BY <1>2, <2>1, PcStep
  <2>3. Cut(n, m)'
    <3>1. \A f \in W!Flushers : pc'[f] \in PreCommit => pc[f] \in PreCommit /\ batch'[f] = batch[f]
      BY <1>2, <2>1, <2>2 DEF PreCommit
    <3>2. \A f \in W!Flushers : pc[f] \in PreCommit \cup {"raised"} => pc'[f] \in PreCommit \cup {"raised"}
      BY <1>2, <2>1, <2>2 DEF PreCommit
    <3>3. \A f \in W!Flushers : pc'[f] = "close" => pc[f] = "close" /\ batch'[f] = batch[f]
      BY <1>2, <2>1, <2>2
    <3> QED BY <2>1, <3>1, <3>2, <3>3, QuietKeepsCut
  <2>4. OneFlusher'
    BY <2>1, <2>2 DEF OneFlusher, W!Stages
  <2> QED BY <1>1, <2>3, <2>4 DEF Some
<1>5. ASSUME NEW f \in W!Flushers, W!BeginFlush(f),
             UNCHANGED <<stop, rowsWritten, db, run, faults, recorded, base>>,
             \/ f = "loop" /\ pc["loop"] = "sleep"
             \/ f = "stop" /\ pc["stop"] = "join" /\ pc["loop"] = "done"
      PROVE  Some /\ OneFlusher'
  <2>1. \A g \in W!Flushers : pc[g] \notin PreCommit \cup {"close", "raised"}
    BY <1>2, <1>5 DEF OneFlusher, PreCommit, W!Stages
  <2>2. n = m /\ pc[f] \notin PreCommit \cup {"close", "raised"}
    BY <2>1 DEF Cut
  <2>3. W!AfterFlush("loop") \in {"sleep", "done"} /\ W!AfterFlush("stop") = "stopped"
    BY TypeFacts, AfterFlushMoves
  <2>4. CASE tickBuf = <<>> /\ candleBuf = <<>>
    <3>1. pc' = [pc EXCEPT ![f] = W!AfterFlush(f)] /\ UNCHANGED <<tickBuf, candleBuf, batch>>
      BY <1>5, <2>4 DEF W!BeginFlush
    <3>2. /\ pc'[f] = W!AfterFlush(f) /\ \A g \in W!Flushers : g # f => pc'[g] = pc[g]
      BY <3>1, PcStep
    <3>3. Cut(n, m)'
      <4>1. \A g \in W!Flushers : pc'[g] \notin PreCommit \cup {"close"}
        BY <1>2, <2>1, <2>3, <3>2 DEF PreCommit
      <4>2. \A g \in W!Flushers : pc'[g] \in PreCommit => pc[g] \in PreCommit /\ batch'[g] = batch[g]
        BY <4>1
      <4>3. \A g \in W!Flushers : pc'[g] = "close" => pc[g] = "close" /\ batch'[g] = batch[g]
        BY <4>1
      <4> QED BY <1>5, <2>1, <3>1, <4>2, <4>3, QuietKeepsCut
    <3>4. OneFlusher'
      BY <1>2, <1>5, <2>3, <3>2 DEF OneFlusher, W!Stages
    <3> QED BY <1>1, <3>3, <3>4 DEF Some
  <2>5. CASE ~(tickBuf = <<>> /\ candleBuf = <<>>)
    <3>1. /\ batch' = [batch EXCEPT ![f] = [ticks |-> tickBuf, candles |-> candleBuf]]
          /\ tickBuf' = <<>> /\ candleBuf' = <<>>
          /\ pc' = [pc EXCEPT ![f] = "connect"]
      BY <1>5, <2>5 DEF W!BeginFlush
    <3>2. /\ pc'[f] = "connect" /\ \A g \in W!Flushers : g # f => pc'[g] = pc[g]
      BY <3>1, PcStep
    <3>3. Cut(n, Len(recorded))'
      <4>1. Cut(n, n)
        BY <2>2
      <4>2. /\ \A g \in W!Flushers : pc[g] \notin PreCommit
            /\ \A g \in W!Flushers : g # f => pc[g] # "close"
        BY <2>1
      <4>3. UNCHANGED <<rowsWritten, db, recorded, base>>
        BY <1>5
      <4> QED BY <3>1, <4>1, <4>2, <4>3, TakeMakesCut
    <3>4. OneFlusher'
      BY <1>2, <1>5, <3>2 DEF OneFlusher, W!Stages
    <3>5. ASSUME NEW j, j = Len(recorded) PROVE Cut(n, j)'
      BY <1>5, <3>3, <3>5 DEF Cut
    <3>6. Some
      <4>1. PICK j \in {m, Len(recorded)} : j = Len(recorded)
        OBVIOUS
      <4>2. Cut(n, j)'
        BY <3>5, <4>1
      <4> QED BY <1>1, <4>2
    <3> QED BY <3>4, <3>6
  <2> QED BY <2>4, <2>5
<1>6. ASSUME W!LoopWakes PROVE Some /\ OneFlusher'
  BY <1>2, <1>5, <1>6 DEF W!LoopWakes
<1>7. ASSUME W!Join PROVE Some /\ OneFlusher'
  <2>1. CASE pc["loop"] = "done" /\ W!BeginFlush("stop")
    BY <1>2, <1>5, <1>7, <2>1 DEF W!Join
  <2>2. CASE pc["loop"] = "raised" /\ pc' = [pc EXCEPT !["stop"] = "raised"]
             /\ UNCHANGED <<tickBuf, candleBuf, batch>>
    <3>1. pc["stop"] = "join" /\ UNCHANGED <<stop, rowsWritten, db, run, faults, recorded, base>>
      BY <1>7 DEF W!Join
    <3>2. pc'["stop"] = "raised" /\ pc'["loop"] = pc["loop"]
      BY <1>2, <2>2, PcStep
    <3>3. \A f \in W!Flushers : pc'[f] \notin PreCommit \cup {"close"}
      BY <1>2, <2>2, <3>2 DEF PreCommit
    <3>4. Cut(n, m)'
      <4>1. \A f \in W!Flushers : pc[f] \in PreCommit \cup {"raised"} => pc'[f] \in PreCommit \cup {"raised"}
        BY <1>2, <3>1, <3>2 DEF PreCommit
      <4>2. \A g \in W!Flushers : pc'[g] \in PreCommit => pc[g] \in PreCommit /\ batch'[g] = batch[g]
        BY <3>3
      <4>3. \A g \in W!Flushers : pc'[g] = "close" => pc[g] = "close" /\ batch'[g] = batch[g]
        BY <3>3
      <4> QED BY <2>2, <3>1, <4>1, <4>2, <4>3, QuietKeepsCut
    <3>5. OneFlusher'
      BY <2>2, <3>1, <3>2 DEF OneFlusher, W!Stages
    <3> QED BY <1>1, <3>4, <3>5 DEF Some
  <2> QED BY <1>7, <2>1, <2>2 DEF W!Join
<1>8. ASSUME NEW f \in W!Flushers, pc[f] \in W!Stages
      PROVE  /\ \A g \in W!Flushers : g # f => pc[g] \notin PreCommit \cup {"close", "stopped"}
             /\ f = "stop" => pc["loop"] = "done"
             /\ f = "loop" => pc["stop"] \notin {"raised"}
  BY <1>2, <1>8 DEF OneFlusher, PreCommit, W!Stages
<1>9. ASSUME NEW f \in W!Flushers, pc[f] \in W!Stages, UNCHANGED stop,
             NEW x, pc' = [pc EXCEPT ![f] = x],
             f = "loop" \/ x \in W!Stages \cup {"stopped", "raised"}
      PROVE  OneFlusher' /\ pc'[f] = x /\ \A g \in W!Flushers : g # f => pc'[g] = pc[g]
  <2>1. pc'[f] = x /\ \A g \in W!Flushers : g # f => pc'[g] = pc[g]
    BY <1>9, PcStep
  <2>2. /\ f = "stop" => pc["loop"] = "done"
        /\ f = "loop" => pc["stop"] \notin W!Stages \cup {"stopped", "raised"}
    BY <1>2, <1>8, <1>9 DEF PreCommit, W!Stages
  <2>3. CASE f = "loop"
    BY <1>2, <1>9, <2>1, <2>2, <2>3 DEF OneFlusher
  <2>4. CASE f = "stop"
    BY <1>2, <1>9, <2>1, <2>2, <2>4 DEF OneFlusher, W!Stages
  <2> QED BY <1>2, <2>1, <2>3, <2>4
<1>10. ASSUME NEW f \in W!Flushers, W!Write(f) PROVE Some /\ OneFlusher'
  <2>1. /\ pc[f] \in {"connect", "ticks", "candles"}
        /\ pc' = [pc EXCEPT ![f] = W!StageAfter(batch[f], pc[f])]
        /\ UNCHANGED <<tickBuf, candleBuf, stop, batch, rowsWritten, db, run, faults, recorded, base>>
    BY <1>10 DEF W!Write
  <2>2. W!StageAfter(batch[f], pc[f]) \in {"ticks", "candles", "commit"}
    BY <2>1, FlushKeepsType, StageMoves
  <2>3. /\ OneFlusher' /\ pc'[f] = W!StageAfter(batch[f], pc[f])
        /\ \A g \in W!Flushers : g # f => pc'[g] = pc[g]
    BY <1>9, <2>1, <2>2 DEF W!Stages
  <2>4. Cut(n, m)'
    <3>1. \A g \in W!Flushers : pc'[g] \in PreCommit => pc[g] \in PreCommit /\ batch'[g] = batch[g]
      BY <2>1, <2>3 DEF PreCommit
    <3>2. \A g \in W!Flushers : pc[g] \in PreCommit \cup {"raised"} => pc'[g] \in PreCommit \cup {"raised"}
      BY <2>2, <2>3 DEF PreCommit
    <3>3. \A g \in W!Flushers : pc'[g] = "close" => pc[g] = "close" /\ batch'[g] = batch[g]
      BY <2>1, <2>2, <2>3
    <3> QED BY <2>1, <3>1, <3>2, <3>3, QuietKeepsCut
  <2> QED BY <1>1, <2>3, <2>4 DEF Some
<1>11. ASSUME NEW f \in W!Flushers, W!Commit(f) PROVE Some /\ OneFlusher'
  <2>1. /\ pc[f] = "commit" /\ db' = W!Written(db, batch[f])
        /\ pc' = [pc EXCEPT ![f] = "close"]
        /\ UNCHANGED <<tickBuf, candleBuf, stop, batch, rowsWritten, run, faults, recorded, base>>
    BY <1>11 DEF W!Commit
  <2>2. OneFlusher'
    BY <1>9, <2>1 DEF W!Stages
  <2>3. Cut(m, m)'
    <3>1. \A g \in W!Flushers : g # f => pc[g] \notin PreCommit \cup {"close"}
      BY <1>8, <2>1 DEF W!Stages
    <3> QED BY <2>1, <3>1, CommitMakesCut
  <2> QED BY <1>1, <2>2, <2>3 DEF Some
<1>12. ASSUME NEW f \in W!Flushers, W!Close(f) PROVE Some /\ OneFlusher'
  <2>1. /\ pc[f] = "close"
        /\ rowsWritten' = rowsWritten + Len(batch[f].ticks) + Len(batch[f].candles)
        /\ pc' = [pc EXCEPT ![f] = W!AfterFlush(f)]
        /\ UNCHANGED <<tickBuf, candleBuf, stop, db, run, faults, recorded, base>>
    BY <1>12 DEF W!Close
  <2>2. /\ W!AfterFlush(f) \in {"sleep", "done", "stopped"}
        /\ f = "stop" => W!AfterFlush(f) = "stopped"
    BY <1>2, TypeFacts, AfterFlushMoves
  <2>3. OneFlusher'
    BY <1>2, <1>9, <2>1, <2>2 DEF W!Stages
  <2>4. Cut(n, m)'
    <3>1. \A g \in W!Flushers : g # f => pc[g] \notin PreCommit \cup {"close"}
      BY <1>8, <2>1 DEF W!Stages
    <3> QED BY <2>1, <2>2, <3>1, CloseKeepsCut
  <2> QED BY <1>1, <2>3, <2>4 DEF Some
<1>13. ASSUME NEW f \in W!Flushers, W!Raise(f) PROVE Some /\ OneFlusher'
  <2>1. /\ pc[f] \in W!Stages /\ pc' = [pc EXCEPT ![f] = "raised"]
        /\ batch' = [batch EXCEPT ![f] = W!NoBatch]
        /\ UNCHANGED <<tickBuf, candleBuf, stop, rowsWritten, db, run, recorded, base>>
    BY <1>13 DEF W!Raise
  <2>2. OneFlusher' /\ pc'[f] = "raised" /\ \A g \in W!Flushers : g # f => pc'[g] = pc[g]
    BY <1>9, <2>1
  <2>3. \A g \in W!Flushers : g # f => batch'[g] = batch[g]
    BY <2>1, TypeFacts, NoBatchType, BatchMoves
  <2>4. Cut(n, m)'
    <3>1. \A g \in W!Flushers : pc'[g] \in PreCommit => pc[g] \in PreCommit /\ batch'[g] = batch[g]
      BY <2>2, <2>3 DEF PreCommit
    <3>2. \A g \in W!Flushers : pc[g] \in PreCommit \cup {"raised"} => pc'[g] \in PreCommit \cup {"raised"}
      BY <2>2
    <3>3. \A g \in W!Flushers : pc'[g] = "close" => pc[g] = "close" /\ batch'[g] = batch[g]
      BY <2>2, <2>3
    <3> QED BY <2>1, <3>1, <3>2, <3>3, QuietKeepsCut
  <2> QED BY <1>1, <2>2, <2>4 DEF Some
<1>14. Some /\ OneFlusher'
  BY <1>2, <1>4, <1>6, <1>7, <1>10, <1>11, <1>12, <1>13
     DEF Writer, W!Loop, W!Stopper, W!FlushStep
<1> QED BY <1>14 DEF Some

\* A fresh process has nothing to lose: its file is the cut at zero.
LEMMA EmptyCut ==
  ASSUME tickBuf' = <<>>, candleBuf' = <<>>, pc' = W!Fresh,
         rowsWritten' = 0, recorded' = <<>>, db' = base', base' \in W!Tables
  PROVE  (\E j \in 0 .. Len(recorded) : \E i \in 0 .. j : Cut(i, j))' /\ (stop' = FALSE => OneFlusher')
<1>1. pc' = [loop |-> "new", stop |-> "idle"] /\ W!Flushers = {"loop", "stop"}
  BY DEF W!Fresh, W!Flushers
<1>2. Len(recorded') = 0 /\ SubSeq(recorded', 1, 0) = <<>> /\ 0 \in 0 .. 0
  OBVIOUS
<1>3. W!Holds(0)'
  <2>1. base'.ticks \in Seq(W!RowType)
    BY RowTypes
  <2>2. base'.ticks \o <<>> = base'.ticks
    BY <2>1, ConcatEmptySeq
  <2> QED BY <1>2, <2>2, SplitEmpty, NewestEmpty DEF W!Holds
<1>4. \A f \in W!Flushers : pc'[f] \notin PreCommit \cup {"close"}
  BY <1>1 DEF PreCommit
<1>5. SubSeq(recorded', 0 + 1, Len(recorded')) = <<>>
  BY <1>2
<1>6. Cut(0, 0)'
  <2>1. /\ tickBuf' = W!TicksOf(SubSeq(recorded', 0 + 1, Len(recorded')))
        /\ candleBuf' = W!CandlesOf(SubSeq(recorded', 0 + 1, Len(recorded')))
    BY <1>5, SplitEmpty, Zenon
  <2>2. \A f \in W!Flushers : pc'[f] \in PreCommit => batch'[f] = Taken(0, 0)'
    BY <1>4
  <2>3. \A f \in W!Flushers : pc'[f] # "close"
    BY <1>4
  <2>4. 0 \in 0 .. Len(recorded') /\ rowsWritten' <= 0
    BY <1>2
  <2> QED BY <1>2, <1>3, <2>1, <2>2, <2>3, <2>4 DEF Cut
<1>7. stop' = FALSE => OneFlusher'
  BY <1>1 DEF OneFlusher, W!Stages
<1> QED BY <1>2, <1>6, <1>7

\* The empty aggregator is typed.
LEMMA EmptyAggregator == C!EmptyAggregator \in AggregatorType
<1>1. <<>> \in Seq(CandleType)
  OBVIOUS
<1> QED BY <1>1 DEF C!EmptyAggregator, AggregatorType

\* The initial state satisfies the inductive invariant.
LEMMA InitIInv == Init => IInv
<1> SUFFICES ASSUME Init PROVE IInv
  OBVIOUS
<1>1. /\ tickBuf = <<>> /\ candleBuf = <<>> /\ stop = FALSE /\ pc = W!Fresh
      /\ batch = [f \in W!Flushers |-> W!NoBatch] /\ rowsWritten = 0
      /\ db = W!NoRows /\ base = W!NoRows /\ run = 1 /\ faults = 0 /\ recorded = <<>>
      /\ agg = C!EmptyAggregator /\ phase = "serving"
      /\ log = [r \in 1 .. MaxRuns |-> <<>>] /\ handled = 0
  BY DEF Init, W!Init
<1>2. /\ <<>> \in Seq(W!RowType) /\ <<>> \in Seq(TickType \cup CandleType) /\ Len(<<>>) = 0
      /\ \A r \in 1 .. MaxRuns : log[r] = <<>>
  BY <1>1
<1>3. pc \in PcType
  BY <1>1 DEF W!Fresh, PcType, LoopStates, StopStates
<1>4. batch \in [W!Flushers -> BatchType]
  BY <1>1, NoBatchType
<1>5. /\ 1 \in 1 .. MaxRuns /\ 0 \in 0 .. MaxFaults /\ 0 \in 0 .. MaxTicks /\ 0 \in 0 .. 2 * MaxTicks
  BY ConstantFacts
<1>6. TypeOK
  <2>1. W!TypeOK
    BY <1>1, <1>2, <1>3, <1>4, <1>5, RowTypes
       DEF W!TypeOK, PcType, BatchType, LoopStates, StopStates
  <2>2. log \in [1 .. MaxRuns -> Seq(TickType \cup CandleType)]
    BY <1>1, <1>2
  <2>3. /\ \A r \in 1 .. MaxRuns : Len(log[r]) <= 2 * handled
        /\ Len(log[run]) = Len(recorded)
    BY <1>1, <1>2, <1>5
  <2> QED BY <1>1, <1>5, <2>1, <2>2, <2>3, EmptyAggregator DEF TypeOK, AggregatorType
<1>7. Cut(0, 0) /\ OneFlusher
  <2>1. pc = [loop |-> "new", stop |-> "idle"] /\ W!Flushers = {"loop", "stop"}
    BY <1>1 DEF W!Fresh, W!Flushers
  <2>2. Len(recorded) = 0 /\ SubSeq(recorded, 1, 0) = <<>> /\ SubSeq(recorded, 0 + 1, Len(recorded)) = <<>>
    BY <1>1
  <2>3. W!Holds(0)
    <3>1. base.ticks \o <<>> = base.ticks
      BY <1>1, RowTypes, ConcatEmptySeq
    <3> QED BY <1>1, <2>2, <3>1, SplitEmpty, NewestEmpty DEF W!Holds
  <2>4. \A f \in W!Flushers : pc[f] \notin PreCommit \cup {"close"}
    BY <2>1 DEF PreCommit
  <2>5. Cut(0, 0)
    <3>1. /\ tickBuf = W!TicksOf(SubSeq(recorded, 0 + 1, Len(recorded)))
          /\ candleBuf = W!CandlesOf(SubSeq(recorded, 0 + 1, Len(recorded)))
      BY <1>1, <2>2, SplitEmpty, Zenon
    <3>2. \A f \in W!Flushers : pc[f] \in PreCommit => batch[f] = Taken(0, 0)
      BY <2>4
    <3>3. \A f \in W!Flushers : pc[f] # "close"
      BY <2>4
    <3>4. 0 \in 0 .. Len(recorded) /\ 0 \in 0 .. 0 /\ rowsWritten <= 0
      BY <1>1, <2>2
    <3> QED BY <2>3, <3>1, <3>2, <3>3, <3>4 DEF Cut
  <2> QED BY <1>1, <2>1, <2>5 DEF OneFlusher, W!Stages
<1>8. Unstarted
  BY <1>1, <1>2 DEF Unstarted
<1> QED BY <1>1, <1>2, <1>6, <1>7, <1>8 DEF IInv

\* A new process starts on the tables that are there.
LEMMA RestartKeeps ==
  ASSUME IInv, Restart
  PROVE  IInv'
<1>1. TypeOK /\ Unstarted
  BY DEF IInv
<1>2. /\ run < MaxRuns /\ run' = run + 1 /\ tickBuf' = <<>> /\ candleBuf' = <<>>
      /\ stop' = FALSE /\ pc' = W!Fresh /\ batch' = [f \in W!Flushers |-> W!NoBatch]
      /\ rowsWritten' = 0 /\ recorded' = <<>> /\ base' = db /\ UNCHANGED <<db, faults>>
      /\ agg' = C!EmptyAggregator /\ phase' = "serving" /\ UNCHANGED <<log, handled>>
  BY DEF Restart, W!Restart
<1>3. (\E j \in 0 .. Len(recorded) : \E i \in 0 .. j : Cut(i, j))' /\ OneFlusher'
  BY <1>1, <1>2, TypeFacts, EmptyCut
<1>4. run' \in 1 .. MaxRuns /\ run \in Nat
  BY <1>1, <1>2, TypeFacts, ConstantFacts
<1>5. Len(log'[run']) = Len(recorded')
  <2>1. log'[run'] = <<>>
    BY <1>1, <1>2, <1>4 DEF Unstarted
  <2> QED BY <1>2, <2>1
<1>6. Unstarted'
  BY <1>1, <1>2, <1>4 DEF Unstarted
<1>7. /\ <<>> \in Seq(W!RowType) /\ 0 \in 0 .. 2 * MaxTicks
      /\ pc' \in PcType /\ batch' \in [W!Flushers -> BatchType]
  BY <1>2, NoBatchType, ConstantFacts DEF W!Fresh, PcType, LoopStates, StopStates
<1>8. TypeOK'
  BY <1>1, <1>2, <1>4, <1>5, <1>7, TypeFacts, MoreTypeFacts, EmptyAggregator
     DEF TypeOK, W!TypeOK, PcType, BatchType, LoopStates, StopStates, AggregatorType
<1> QED BY <1>3, <1>6, <1>8 DEF IInv

\* Every step keeps the inductive invariant.
LEMMA NextKeepsIInv == IInv /\ [Next]_vars => IInv'
<1> SUFFICES ASSUME IInv, [Next]_vars PROVE IInv'
  OBVIOUS
<1>1. TypeOK /\ OneFlusher /\ Unstarted
  BY DEF IInv
<1>a. PICK m \in 0 .. Len(recorded) : \E n \in 0 .. m : Cut(n, m)
  BY DEF IInv
<1>2. PICK n \in 0 .. m : Cut(n, m)
  BY <1>a
<1> DEFINE Some == \E j \in 0 .. Len(recorded) : \E i \in 0 .. j : Cut(i, j)
<1>3. ASSUME NEW i, NEW j, Cut(i, j)' PROVE Some'
  BY <1>3 DEF Cut
<1> HIDE DEF Some
<1>4. ASSUME NEW time \in Times, Process(time) PROVE IInv'
  <2>1. TypeOK' /\ Cut(n, m)'
    BY <1>1, <1>2, <1>4, ProcessKeeps
  <2>2. UNCHANGED <<pc, stop, run>> /\ \A r \in 1 .. MaxRuns : r # run => log'[r] = log[r]
    <3>1. UNCHANGED <<pc, stop, run>>
      BY <1>4 DEF Process, W!Record
    <3>2. log' = [log EXCEPT ![run] = log[run] \o <<Tick(time)>> \o CandleRows(agg, Tick(time))]
      BY <1>4 DEF Process
    <3>3. log \in [1 .. MaxRuns -> Seq(TickType \cup CandleType)]
      BY <1>1, MoreTypeFacts
    <3> QED BY <3>1, <3>2, <3>3
  <2>3. OneFlusher'
    BY <1>1, <2>2 DEF OneFlusher
  <2>4. Unstarted'
    <3>1. run \in Nat
      BY <1>1, TypeFacts
    <3> QED BY <1>1, <2>2, <3>1 DEF Unstarted
  <2> QED BY <1>3, <2>1, <2>3, <2>4 DEF IInv, Some
<1>5. CASE StopClient \/ StopPipeline \/ StopWriter
  <2>1. TypeOK' /\ Cut(n, m)' /\ OneFlusher'
    BY <1>1, <1>2, <1>5, LifespanKeeps
  <2>2. Unstarted'
    BY <1>1, <1>5 DEF Unstarted, StopClient, StopPipeline, StopWriter, W!Stop, writerVars
  <2> QED BY <1>3, <2>1, <2>2 DEF IInv, Some
<1>6. CASE Writer
  <2>1. TypeOK'
    BY <1>1, <1>2, <1>6, WriterKeepsType
  <2>2. Some' /\ OneFlusher'
    <3>1. OneFlusher' /\ \E i \in {n, m} : \E j \in {m, Len(recorded)} : Cut(i, j)'
      BY <1>1, <1>2, <1>6, WriterKeepsCut
    <3>2. PICK i \in {n, m} : \E j \in {m, Len(recorded)} : Cut(i, j)'
      BY <3>1
    <3>3. PICK j \in {m, Len(recorded)} : Cut(i, j)'
      BY <3>2
    <3> QED BY <1>3, <3>1, <3>3
  <2>3. UNCHANGED <<run, log>>
    BY <1>6 DEF Writer, W!Loop, W!Stopper, W!FlushStep, W!Raise, W!Write, W!Commit, W!Close,
                W!LoopStarts, W!LoopWakes, W!Join
  <2>4. Unstarted'
    BY <1>1, <2>3 DEF Unstarted
  <2> QED BY <2>1, <2>2, <2>4 DEF IInv, Some
<1>7. CASE Restart
  BY <1>7, RestartKeeps
<1>8. CASE UNCHANGED vars
  <2>1. UNCHANGED vars /\ UNCHANGED writerVars
    BY <1>8 DEF vars
  <2>2. TypeOK'
    <3>1. /\ UNCHANGED <<tickBuf, candleBuf, stop, pc, batch, rowsWritten, db, run, faults, recorded, base>>
          /\ UNCHANGED <<agg, phase, log, handled>>
      BY <2>1 DEF vars, writerVars
    <3>2. W!TypeOK'
      BY <1>1, <3>1 DEF TypeOK, W!TypeOK
    <3> QED BY <1>1, <3>1, <3>2 DEF TypeOK
  <2>3. Cut(n, m)'
    BY <1>2, <2>1 DEF vars, writerVars, Cut, Taken, W!Holds
  <2>4. OneFlusher' /\ Unstarted'
    BY <1>1, <2>1 DEF vars, writerVars, OneFlusher, Unstarted
  <2> QED BY <1>3, <2>2, <2>3, <2>4 DEF IInv, Some
<1> QED BY <1>4, <1>5, <1>6, <1>7, <1>8 DEF Next

-----------------------------------------------------------------------------
(* The inductive invariant holds in every state: what is in the file, in   *)
(* the batch of a flush and in the buffers is, in this order, what the     *)
(* process recorded.                                                       *)
THEOREM Invariance == Spec => []IInv
<1>1. Init => IInv
  BY InitIInv
<1>2. IInv /\ [Next]_vars => IInv'
  BY NextKeepsIInv
<1> QED BY <1>1, <1>2, PTL DEF Spec

(* The types of the server's variables, for any number of ticks, faults    *)
(* and processes.                                                          *)
THEOREM TypeCorrect == Spec => []TypeOK
<1>1. IInv => TypeOK
  BY DEF IInv
<1> QED BY <1>1, Invariance, PTL

(* Whatever fails and whenever the process dies, the file of sqlite_store  *)
(* holds a prefix of the rows that one process recorded, on top of the     *)
(* older ones, and rows_written claims no row that is not in it.           *)
THEOREM PrefixIsDurable == Spec => []DurablePrefix
<1>1. IInv => DurablePrefix
  <2> SUFFICES ASSUME IInv PROVE DurablePrefix
    OBVIOUS
  <2>a. PICK m \in 0 .. Len(recorded) : \E n \in 0 .. m : Cut(n, m)
    BY DEF IInv
  <2>1. PICK n \in 0 .. m : Cut(n, m)
    BY <2>a
  <2>2. TypeOK
    BY DEF IInv
  <2>3. n \in rowsWritten .. Len(recorded)
    BY <2>1, <2>2, TypeFacts DEF Cut
  <2>4. W!Holds(n)
    BY <2>1 DEF Cut
  <2> QED BY <2>3, <2>4 DEF DurablePrefix, W!DurablePrefix
<1> QED BY <1>1, Invariance, PTL

-----------------------------------------------------------------------------
(* The candles in memory and in the file.                                  *)

\* How many of the rows s are in S.
Number(s, S) == Cardinality({i \in 1 .. Len(s) : s[i] \in S})

\* The tick rows of run r and bucket k, of what they contain in lg.
OfBucket(lg, r, k) ==
  {row \in W!RowType :
     row.run = r /\ row.key = None /\ C!BucketStart(lg[r][row.number].time) = k}

\* How many ticks of each bucket the rows s of run r record, ...
Tally(lg, r, s) == [k \in Buckets |-> Number(s, OfBucket(lg, r, k))]

\* ... and the last candle they record of each.
Latest(lg, r, s) ==
  [k \in Buckets |-> IF W!Newest(s, k, None) = None THEN None
                     ELSE lg[r][W!Newest(s, k, None).number]]

\* A count c claims no tick that is not there; exact: none is missing.
Counts(c, t, exact) == c <= t /\ (exact => c = t)

\* So do the last candles v of the buckets with t ticks.
CountsOK(t, v, exact) ==
  \A k \in Buckets : v[k] # None => Counts(v[k].count, t[k], exact)

\* The last candles of the rows count their ticks.
Whole(lg, r, s, exact) == CountsOK(Tally(lg, r, s), Latest(lg, r, s), exact)

\* The same of the two tables of a file.
Sound(lg, tables, exact) ==
  \A k \in Buckets : tables.candles[k] # None =>
    Counts(lg[tables.candles[k].run][tables.candles[k].number].count,
           Number(tables.ticks, OfBucket(lg, tables.candles[k].run, k)), exact)

\* The rows in the tables are of runs before r, those of ticks in theirs.
Older(tables, r) ==
  /\ \A i \in 1 .. Len(tables.ticks) : tables.ticks[i].run < r /\ tables.ticks[i].key = None
  /\ \A k \in Buckets : tables.candles[k] # None => tables.candles[k].run < r

\* The rows s of run r stand in the log lg with what they contain.
Logged(lg, r, s) ==
  \A i \in 1 .. Len(s) :
    /\ s[i].run = r /\ s[i].number \in 1 .. Len(lg[r])
    /\ lg[r][s[i].number] \in IF s[i].key = None THEN TickType ELSE CandleType

\* The open candle o and the history h, when t ticks and the last candles v
\* of each bucket were recorded.
MemoryOK(t, v, o, h) ==
  /\ t \in [Buckets -> Nat] /\ v \in [Buckets -> CandleType \cup {None}]
  /\ o \in CandleType \cup {None} /\ h \in Seq(CandleType)
  /\ o = None => Len(h) = 0 /\ \A k \in Buckets : t[k] = 0 /\ v[k] = None
  /\ o # None =>
       /\ ~o.closed /\ o.count = t[o.bucket]
       /\ \A k \in Buckets : (k > o.bucket => t[k] = 0) /\ (k >= o.bucket => v[k] = None)
       /\ \A i \in 1 .. Len(h) : h[i].bucket < o.bucket
  /\ \A i \in 1 .. Len(h) : h[i].count = t[h[i].bucket] /\ v[h[i].bucket] = h[i]
  /\ \A i, j \in 1 .. Len(h) : i < j => h[i].bucket < h[j].bucket

\* What the flush has taken and what is in the file are whole.
CutsAreWhole(exact) ==
  \E m \in 0 .. Len(recorded) : \E n \in 0 .. m :
    /\ Cut(n, m)
    /\ Whole(log, run, SubSeq(recorded, 1, n), exact)
    /\ Whole(log, run, SubSeq(recorded, 1, m), exact)

CandleInv(exact) ==
  /\ Logged(log, run, recorded)
  /\ MemoryOK(Tally(log, run, recorded), Latest(log, run, recorded),
              agg.open[Symbol], agg.history[Symbol])
  /\ Whole(log, run, recorded, exact)
  /\ Sound(log, base, exact) /\ Older(base, run)
  /\ CutsAreWhole(exact)

\* A flush of stop() has taken all there is, and nothing is recorded after.
StopTakesAll == pc["stop"] \in W!Stages \cup {"stopped"} => tickBuf = <<>> /\ candleBuf = <<>>

-----------------------------------------------------------------------------
(* Counting rows.                                                          *)

\* A number of rows is a natural number.
LEMMA NumberType ==
  ASSUME NEW T, NEW s \in Seq(T), NEW S
  PROVE  /\ IsFiniteSet({i \in 1 .. Len(s) : s[i] \in S})
         /\ Number(s, S) \in Nat
<1>1. Len(s) \in Nat /\ IsFiniteSet(1 .. Len(s))
  BY FS_Interval
<1>2. IsFiniteSet({i \in 1 .. Len(s) : s[i] \in S})
  BY <1>1, FS_Subset
<1> QED BY <1>2, FS_CardinalityType DEF Number

\* No rows, and one more.
LEMMA NumberAppend ==
  ASSUME NEW T, NEW s \in Seq(T), NEW x \in T, NEW S
  PROVE  Number(Append(s, x), S) = Number(s, S) + (IF x \in S THEN 1 ELSE 0)
<1> DEFINE n == Len(s)
           At == {i \in 1 .. n : s[i] \in S}
           a == Append(s, x)
<1>1. /\ n \in Nat /\ Len(a) = n + 1 /\ a[n + 1] = x
      /\ \A i \in 1 .. n : a[i] = s[i]
  OBVIOUS
<1>2. IsFiniteSet(At) /\ Cardinality(At) \in Nat /\ Number(s, S) = Cardinality(At)
  BY NumberType DEF Number
<1>3. n + 1 \notin At
  BY <1>1
<1> DEFINE AtA == {i \in 1 .. Len(a) : a[i] \in S}
<1>4. /\ x \in S => AtA = At \cup {n + 1}
      /\ x \notin S => AtA = At
  BY <1>1
<1>5. Cardinality(At \cup {n + 1}) = Cardinality(At) + 1
  BY <1>2, <1>3, FS_AddElement
<1>6. Number(a, S) = Cardinality(AtA)
  BY DEF Number
<1> HIDE DEF At, AtA
<1>7. Number(a, S) = Number(s, S) + (IF x \in S THEN 1 ELSE 0)
  <2> HIDE DEF a
  <2>1. CASE x \in S
    BY <1>2, <1>4, <1>5, <1>6, <2>1
  <2>2. CASE x \notin S
    BY <1>2, <1>4, <1>6, <2>2
  <2> QED BY <2>1, <2>2
<1> QED BY <1>7

\* There are none in an empty sequence.
LEMMA NumberEmpty ==
  ASSUME NEW S
  PROVE  Number(<<>>, S) = 0
<1>1. {i \in 1 .. Len(<<>>) : <<>>[i] \in S} = {}
  OBVIOUS
<1> QED BY <1>1, FS_EmptySet DEF Number

\* The rows of a concatenation are those of its parts.
LEMMA NumberJoined ==
  ASSUME NEW T, NEW s \in Seq(T), NEW t \in Seq(T), NEW S
  PROVE  Number(s \o t, S) = Number(s, S) + Number(t, S)
<1> DEFINE Adds(r) == Number(s \o r, S) = Number(s, S) + Number(r, S)
           Good == {r \in Seq(T) : Adds(r)}
<1>0. Number(s, S) \in Nat
  BY NumberType
<1>1. <<>> \in Good
  <2>1. <<>> \in Seq(T) /\ s \o <<>> = s
    OBVIOUS
  <2>2. Adds(<<>>)
    BY <1>0, <2>1, NumberEmpty
  <2> HIDE DEF Adds
  <2> QED BY <2>1, <2>2
<1>2. ASSUME NEW r \in Seq(T), NEW x \in T, Adds(r) PROVE Adds(Append(r, x))
  <2> DEFINE q == s \o r
             one == IF x \in S THEN 1 ELSE 0
  <2>1. s \o Append(r, x) = Append(q, x) /\ q \in Seq(T)
    OBVIOUS
  <2>2. Number(q, S) = Number(s, S) + Number(r, S) /\ Number(r, S) \in Nat /\ one \in Nat
    BY <1>2, NumberType
  <2> HIDE DEF q
  <2>3. Number(Append(q, x), S) = Number(q, S) + one
    BY <2>1, NumberAppend
  <2>4. Number(Append(r, x), S) = Number(r, S) + one
    BY NumberAppend
  <2> HIDE DEF one
  <2> QED BY <1>0, <2>1, <2>2, <2>3, <2>4
<1> HIDE DEF Adds
<1>3. ASSUME NEW r \in Seq(T), NEW x \in T, r \in Good PROVE Append(r, x) \in Good
  BY <1>2, <1>3
<1>4. Seq(T) \subseteq Good
  <2> HIDE DEF Good
  <2> QED BY <1>1, <1>3, FT!SeqSetInduction
<1> QED BY <1>4 DEF Adds

\* Splitting off the candles loses no tick.
LEMMA NumberOfTicks ==
  ASSUME NEW T, NEW s \in Seq(T), NEW S, \A x \in S : x.key = None
  PROVE  Number(W!TicksOf(s), S) = Number(s, S)
<1> DEFINE Same(r) == Number(W!TicksOf(r), S) = Number(r, S)
           Good == {r \in Seq(T) : Same(r)}
<1>1. <<>> \in Good
  <2>1. <<>> \in Seq(T)
    OBVIOUS
  <2>2. Same(<<>>)
    BY SplitEmpty, Zenon
  <2> HIDE DEF Same
  <2> QED BY <2>1, <2>2
<1>2. ASSUME NEW r \in Seq(T), NEW x \in T, Same(r) PROVE Same(Append(r, x))
  <2> DEFINE ticks == W!TicksOf(r)
  <2>1. ticks \in Seq(T) /\ Number(ticks, S) = Number(r, S) /\ Number(r, S) \in Nat
    BY <1>2, SplitType, NumberType
  <2>2. W!TicksOf(Append(r, x)) = IF x.key = None THEN Append(ticks, x) ELSE ticks
    BY SplitAppend DEF W!KeepTick
  <2> HIDE DEF ticks
  <2>3. Number(Append(ticks, x), S) = Number(ticks, S) + (IF x \in S THEN 1 ELSE 0)
    BY <2>1, NumberAppend
  <2>4. Number(Append(r, x), S) = Number(r, S) + (IF x \in S THEN 1 ELSE 0)
    BY NumberAppend
  <2>5. CASE x.key = None
    BY <2>1, <2>2, <2>3, <2>4, <2>5
  <2>6. CASE x.key # None
    <3>1. x \notin S
      BY <2>6
    <3>2. Number(Append(r, x), S) = Number(r, S)
      BY <2>1, <2>4, <3>1
    <3> QED BY <2>1, <2>2, <2>6, <3>2
  <2> QED BY <2>5, <2>6
<1> HIDE DEF Same
<1>3. ASSUME NEW r \in Seq(T), NEW x \in T, r \in Good PROVE Append(r, x) \in Good
  BY <1>2, <1>3
<1>4. Seq(T) \subseteq Good
  <2> HIDE DEF Good
  <2> QED BY <1>1, <1>3, FT!SeqSetInduction
<1> QED BY <1>4 DEF Same

\* Two sets that agree on the rows count the same.
LEMMA NumberSame ==
  ASSUME NEW s, NEW S, NEW R, \A i \in 1 .. Len(s) : s[i] \in S <=> s[i] \in R
  PROVE  Number(s, S) = Number(s, R)
<1>1. {i \in 1 .. Len(s) : s[i] \in S} = {i \in 1 .. Len(s) : s[i] \in R}
  OBVIOUS
<1> QED BY <1>1 DEF Number

\* None of the rows is in the set.
LEMMA NumberNone ==
  ASSUME NEW s, NEW S, \A i \in 1 .. Len(s) : s[i] \notin S
  PROVE  Number(s, S) = 0
<1>1. {i \in 1 .. Len(s) : s[i] \in S} = {}
  OBVIOUS
<1> QED BY <1>1, FS_EmptySet DEF Number

\* The newest row of a key is one of the rows, or there is none.
LEMMA NewestIsRow ==
  ASSUME NEW s \in Seq(W!RowType), NEW k, NEW old
  PROVE  \/ W!Newest(s, k, old) = old /\ W!Newest(s, k, None) = None
         \/ \E i \in 1 .. Len(s) : /\ s[i].key = k /\ s[i] # None
                                   /\ W!Newest(s, k, old) = s[i] /\ W!Newest(s, k, None) = s[i]
<1> DEFINE At == {i \in DOMAIN s : s[i].key = k}
<1>1. /\ At \in SUBSET (1 .. Len(s)) /\ Len(s) \in Nat
      /\ \A i \in 1 .. Len(s) : s[i] \in W!RowType
  OBVIOUS
<1>2. \A x : W!Newest(s, k, x) = IF At = {} THEN x ELSE s[W!Max(At)]
  BY DEF W!Newest
<1>3. \A i \in At : s[i].key = k
  OBVIOUS
<1>4. None \notin W!RowType
  BY LifespanAssumption
<1> HIDE DEF At
<1>5. At # {} => W!Max(At) \in At
  BY <1>1, FT!MaxOfPositions DEF W!Max, FT!Max
<1>6. CASE At = {}
  BY <1>2, <1>6
<1>7. CASE At # {}
  <2> DEFINE j == W!Max(At)
  <2>1. j \in At /\ W!Newest(s, k, old) = s[j] /\ W!Newest(s, k, None) = s[j]
    BY <1>2, <1>5, <1>7
  <2> HIDE DEF j
  <2>2. j \in 1 .. Len(s) /\ s[j].key = k /\ s[j] # None
    BY <1>1, <1>3, <1>4, <2>1
  <2> QED BY <2>1, <2>2
<1> QED BY <1>6, <1>7

-----------------------------------------------------------------------------
(* What a tick does to the candles in memory, and what it records.         *)

\* After the tick of a time: the open candle o, the history h, and the
\* candles cs to record.
Applied(time, o, h, cs) ==
  /\ o = C!TakePatch(C!Apply(agg, Tick(time))).open[Symbol]
  /\ h = C!TakePatch(C!Apply(agg, Tick(time))).history[Symbol]
  /\ cs = CandleRows(agg, Tick(time))

OpensWay(time, o, h, cs) ==
  /\ agg.open[Symbol] = None
  /\ o = C!NewCandle(Tick(time)) /\ h = agg.history[Symbol] /\ cs = <<>>

MergesWay(time, o, h, cs) ==
  /\ agg.open[Symbol] # None /\ C!BucketStart(time) = agg.open[Symbol].bucket
  /\ o = C!Merge(agg.open[Symbol], Tick(time)) /\ h = agg.history[Symbol] /\ cs = <<>>

ClosesWay(time, o, h, cs) ==
  /\ agg.open[Symbol] # None /\ C!BucketStart(time) > agg.open[Symbol].bucket
  /\ o = C!NewCandle(Tick(time))
  /\ h = C!PushHistory(agg.history[Symbol], C!ClosedCandle(agg, Symbol))
  /\ cs = <<C!ClosedCandle(agg, Symbol)>>

\* A late tick finds its bucket at position i of the history, or nowhere.
PatchesWay(time, o, h, cs, i) ==
  /\ agg.open[Symbol] # None /\ C!BucketStart(time) < agg.open[Symbol].bucket
  /\ i \in 1 .. Len(agg.history[Symbol]) /\ agg.history[Symbol][i].bucket = C!BucketStart(time)
  /\ o = agg.open[Symbol]
  /\ h = [agg.history[Symbol] EXCEPT ![i] = C!Merge(agg.history[Symbol][i], Tick(time))]
  /\ cs = <<C!Merge(agg.history[Symbol][i], Tick(time))>>

MissesWay(time, o, h, cs) ==
  /\ agg.open[Symbol] # None /\ C!BucketStart(time) < agg.open[Symbol].bucket
  /\ \A i \in 1 .. Len(agg.history[Symbol]) : agg.history[Symbol][i].bucket # C!BucketStart(time)
  /\ o = agg.open[Symbol] /\ h = agg.history[Symbol] /\ cs = <<>>

\* The five ways a tick is applied.
LEMMA ApplyWays ==
  ASSUME agg \in AggregatorType, NEW time \in Times, NEW o, NEW h, NEW cs, Applied(time, o, h, cs)
  PROVE  \/ OpensWay(time, o, h, cs) \/ MergesWay(time, o, h, cs) \/ ClosesWay(time, o, h, cs)
         \/ \E i \in 1 .. Len(agg.history[Symbol]) : PatchesWay(time, o, h, cs, i)
         \/ MissesWay(time, o, h, cs)
<1> DEFINE tick == Tick(time)
           after == C!Apply(agg, tick)
           closed == C!ClosedBy(agg, tick)
           old == agg.open[Symbol]
           hist == agg.history[Symbol]
           b == C!BucketStart(time)
<1>1. /\ tick.symbol = Symbol /\ tick.time = time /\ old \in CandleType \cup {None}
      /\ hist \in Seq(CandleType) /\ b \in Nat
      /\ agg.open \in [{Symbol} -> CandleType \cup {None}]
      /\ agg.history \in [{Symbol} -> Seq(CandleType)]
      /\ agg = [open |-> agg.open, history |-> agg.history,
                latePatches |-> agg.latePatches, lastPatch |-> agg.lastPatch]
  BY TickFacts, BucketNat DEF AggregatorType
<1>2. old # None => old \in CandleType /\ old.bucket \in Nat
  BY <1>1, BucketNat DEF CandleType
<1>3. /\ C!Opens(agg, tick) <=> old = None
      /\ C!Merges(agg, tick) <=> old # None /\ b = old.bucket
      /\ C!Closes(agg, tick) <=> old # None /\ b > old.bucket
  BY <1>1 DEF C!Opens, C!Merges, C!Closes
<1>4. cs = IfAny(closed) \o IfAny(after.lastPatch)
  BY DEF Applied, CandleRows
<1>5. /\ o = C!TakePatch(after).open[Symbol] /\ h = C!TakePatch(after).history[Symbol]
  BY DEF Applied
<1>6. IfAny(None) = <<>> /\ \A c \in CandleType : IfAny(c) = <<c>>
  BY LifespanAssumption DEF IfAny
<1>7. /\ <<>> \o <<>> = <<>>
      /\ \A c \in CandleType : <<c>> \o <<>> = <<c>> /\ <<>> \o <<c>> = <<c>>
  OBVIOUS
<1> HIDE DEF after, closed, b
<1>8. CASE old = None
  <2>1. after = C!OpenFirst(agg, tick) /\ closed = None
    BY <1>3, <1>8 DEF C!Apply, C!ClosedBy, after, closed
  <2>2. /\ C!OpenFirst(agg, tick).lastPatch = None
        /\ C!TakePatch(C!OpenFirst(agg, tick)).open[Symbol] = C!NewCandle(tick)
        /\ C!TakePatch(C!OpenFirst(agg, tick)).history[Symbol] = hist
    BY <1>1 DEF C!OpenFirst, C!TakePatch
  <2>3. cs = <<>>
    BY <1>4, <1>6, <1>7, <2>1, <2>2
  <2>4. OpensWay(time, o, h, cs)
    BY <1>5, <1>8, <2>1, <2>2, <2>3, Zenon DEF OpensWay
  <2> QED BY <2>4
<1>9. CASE old # None /\ b = old.bucket
  <2>1. after = C!MergeOpen(agg, tick) /\ closed = None
    BY <1>2, <1>3, <1>9 DEF C!Apply, C!ClosedBy, after, closed
  <2>2. /\ C!MergeOpen(agg, tick).lastPatch = None
        /\ C!TakePatch(C!MergeOpen(agg, tick)).open[Symbol] = C!Merge(old, tick)
        /\ C!TakePatch(C!MergeOpen(agg, tick)).history[Symbol] = hist
    BY <1>1 DEF C!MergeOpen, C!TakePatch
  <2>3. cs = <<>>
    BY <1>4, <1>6, <1>7, <2>1, <2>2
  <2>4. MergesWay(time, o, h, cs)
    BY <1>5, <1>9, <2>1, <2>2, <2>3, Zenon DEF MergesWay, b
  <2> QED BY <2>4
<1>10. CASE old # None /\ b > old.bucket
  <2>1. after = C!CloseOpen(agg, tick) /\ closed = C!ClosedCandle(agg, Symbol)
    BY <1>1, <1>2, <1>3, <1>10 DEF C!Apply, C!ClosedBy, after, closed
  <2>2. /\ C!CloseOpen(agg, tick).lastPatch = None
        /\ C!TakePatch(C!CloseOpen(agg, tick)).open[Symbol] = C!NewCandle(tick)
        /\ C!TakePatch(C!CloseOpen(agg, tick)).history[Symbol]
             = C!PushHistory(hist, C!ClosedCandle(agg, Symbol))
    BY <1>1 DEF C!CloseOpen, C!TakePatch
  <2>3. closed \in CandleType
    BY <1>2, <1>10, <2>1 DEF C!ClosedCandle, CandleType
  <2>4. cs = <<C!ClosedCandle(agg, Symbol)>>
    <3>1. IfAny(closed) = <<closed>> /\ IfAny(after.lastPatch) = <<>> /\ <<closed>> \o <<>> = <<closed>>
      BY <1>6, <1>7, <2>1, <2>2, <2>3
    <3> QED BY <1>4, <2>1, <3>1
  <2>5. ClosesWay(time, o, h, cs)
    BY <1>5, <1>10, <2>1, <2>2, <2>4, Zenon DEF ClosesWay, b
  <2> QED BY <2>5
<1>11. CASE old # None /\ b < old.bucket
  <2>1. after = C!PatchHistory(agg, tick) /\ closed = None
    BY <1>1, <1>2, <1>3, <1>11 DEF C!Apply, C!ClosedBy, after, closed, b
  <2>2. C!Hits(agg, tick) = {i \in 1 .. Len(hist) : hist[i].bucket = b}
    BY <1>1 DEF C!Hits, b
  <2>3. CASE C!Hits(agg, tick) = {}
    <3>1. /\ C!PatchHistory(agg, tick).lastPatch = None
          /\ C!TakePatch(C!PatchHistory(agg, tick)).open[Symbol] = old
          /\ C!TakePatch(C!PatchHistory(agg, tick)).history[Symbol] = hist
      BY <1>1, <2>3 DEF C!PatchHistory, C!TakePatch
    <3>2. cs = <<>>
      BY <1>4, <1>6, <1>7, <2>1, <3>1
    <3>3. \A i \in 1 .. Len(hist) : hist[i].bucket # b
      BY <2>2, <2>3
    <3>4. MissesWay(time, o, h, cs)
      BY <1>5, <1>11, <2>1, <3>1, <3>2, <3>3, Zenon DEF MissesWay, b
    <3> QED BY <3>4
  <2>4. CASE C!Hits(agg, tick) # {}
    <3> DEFINE i == C!FirstHit(agg, tick)
               patched == C!Merge(hist[i], tick)
    <3>1. i \in 1 .. Len(hist) /\ hist[i].bucket = b
      <4>1. C!Hits(agg, tick) \in SUBSET Nat
        BY <2>2
      <4>2. i \in C!Hits(agg, tick)
        BY <2>4, <4>1, FT!MinOfNaturals DEF C!FirstHit, FT!Min
      <4> QED BY <2>2, <4>2
    <3>2. hist[i] \in CandleType
      BY <1>1, <3>1, ElementOfSeq
    <3>3. patched \in CandleType
      BY <3>2, MergeType
    <3>4. C!PatchHistory(agg, tick)
            = [agg EXCEPT !.history[Symbol] = [hist EXCEPT ![i] = patched],
                          !.latePatches = agg.latePatches + 1, !.lastPatch = patched]
      BY <1>1, <2>4 DEF C!PatchHistory
    <3> HIDE DEF i, patched
    <3>5. /\ C!PatchHistory(agg, tick).lastPatch = patched
          /\ C!TakePatch(C!PatchHistory(agg, tick)).open[Symbol] = old
          /\ C!TakePatch(C!PatchHistory(agg, tick)).history[Symbol] = [hist EXCEPT ![i] = patched]
      BY <1>1, <3>4 DEF C!TakePatch
    <3>6. cs = <<patched>>
      <4>1. IfAny(closed) = <<>> /\ IfAny(after.lastPatch) = <<patched>> /\ <<>> \o <<patched>> = <<patched>>
        BY <1>6, <1>7, <2>1, <3>3, <3>5
      <4> QED BY <1>4, <4>1
    <3>7. PatchesWay(time, o, h, cs, i)
      BY <1>5, <1>11, <2>1, <3>1, <3>5, <3>6, Zenon DEF PatchesWay, patched, b
    <3> QED BY <3>1, <3>7
  <2> QED BY <2>3, <2>4
<1>12. b = old.bucket \/ b > old.bucket \/ b < old.bucket \/ old = None
  BY <1>1, <1>2 DEF b
<1> QED BY <1>8, <1>9, <1>10, <1>11, <1>12

-----------------------------------------------------------------------------
(* A tick keeps what is said of memory.                                    *)

\* One more tick of bucket b.
Plus(t, b) == [k \in Buckets |-> IF k = b THEN t[k] + 1 ELSE t[k]]

\* The candle of cs, if any, is the last of its bucket.
Put(v, cs) == [k \in Buckets |-> IF cs # <<>> /\ cs[1].bucket = k THEN cs[1] ELSE v[k]]

\* There are finitely many buckets.
LEMMA BucketsFinite == IsFiniteSet(Buckets) /\ Cardinality(Buckets) \in Nat
<1> DEFINE f == [t \in Times |-> C!BucketStart(t)]
<1>1. f \in Surjection(Times, Buckets)
  BY DEF Surjection, Buckets
<1>2. IsFiniteSet(Times)
  BY LifespanAssumption
<1> HIDE DEF f
<1> QED BY <1>1, <1>2, FS_Surjection, FS_CardinalityType

\* The fields of a candle.
LEMMA CandleFields ==
  ASSUME NEW c \in CandleType
  PROVE  /\ c.bucket \in Buckets /\ c.bucket \in Nat /\ c.count \in Nat /\ c.closed \in BOOLEAN
         /\ c # None
BY BucketNat, LifespanAssumption DEF CandleType

\* A candle of one tick.
LEMMA NewCandleFields ==
  ASSUME NEW time \in Times
  PROVE  /\ C!NewCandle(Tick(time)).bucket = C!BucketStart(time)
         /\ C!NewCandle(Tick(time)).count = 1 /\ ~C!NewCandle(Tick(time)).closed
BY TickFacts DEF C!NewCandle

\* A candle with one tick more.
LEMMA MergeFields ==
  ASSUME NEW time \in Times, NEW c \in CandleType
  PROVE  /\ C!Merge(c, Tick(time)).bucket = c.bucket
         /\ C!Merge(c, Tick(time)).count = c.count + 1
         /\ C!Merge(c, Tick(time)).closed = c.closed
BY DEF C!Merge, CandleType

\* The candle that is closed.
LEMMA ClosedFields ==
  ASSUME agg.open[Symbol] \in CandleType
  PROVE  /\ C!ClosedCandle(agg, Symbol) \in CandleType
         /\ C!ClosedCandle(agg, Symbol).bucket = agg.open[Symbol].bucket
         /\ C!ClosedCandle(agg, Symbol).count = agg.open[Symbol].count
BY DEF C!ClosedCandle, CandleType

\* A tick that records no candle,
LEMMA StepNone ==
  ASSUME NEW t \in [Buckets -> Nat], NEW v \in [Buckets -> CandleType \cup {None}], NEW b \in Buckets
  PROVE  /\ Plus(t, b) \in [Buckets -> Nat] /\ Put(v, <<>>) \in [Buckets -> CandleType \cup {None}]
         /\ \A k \in Buckets : Plus(t, b)[k] = (IF k = b THEN t[k] + 1 ELSE t[k]) /\ Put(v, <<>>)[k] = v[k]
BY DEF Plus, Put

\* and one that records the candle c.
LEMMA StepOne ==
  ASSUME NEW t \in [Buckets -> Nat], NEW v \in [Buckets -> CandleType \cup {None}], NEW b \in Buckets,
         NEW c \in CandleType
  PROVE  /\ Plus(t, b) \in [Buckets -> Nat] /\ Put(v, <<c>>) \in [Buckets -> CandleType \cup {None}]
         /\ \A k \in Buckets : Plus(t, b)[k] = IF k = b THEN t[k] + 1 ELSE t[k]
         /\ \A k \in Buckets : Put(v, <<c>>)[k] = IF c.bucket = k THEN c ELSE v[k]
<1>1. <<c>> # <<>> /\ <<c>>[1] = c
  OBVIOUS
<1> QED BY <1>1 DEF Plus, Put

\* The elements of a history p: those of h, then c, without d at the front.
Pushed(h, c, p) ==
  /\ p \in Seq(CandleType) /\ Len(p) \in Nat
  /\ \E d \in {0, 1} :
       /\ Len(p) = Len(h) + 1 - d /\ (Len(h) + 1 <= HistoryLen => d = 0)
       /\ \A i \in 1 .. Len(p) :
            i + d \in 1 .. Len(h) + 1 /\ p[i] = IF i + d <= Len(h) THEN h[i + d] ELSE c

\* So is a history after a candle was pushed on it.
LEMMA PushedCandles ==
  ASSUME NEW h \in Seq(CandleType), NEW c \in CandleType
  PROVE  Pushed(h, c, C!PushHistory(h, c))
<1> DEFINE q == Append(h, c)
           p == C!PushHistory(h, c)
<1>1. /\ q \in Seq(CandleType) /\ Len(q) = Len(h) + 1 /\ Len(h) \in Nat /\ q # <<>>
      /\ \A i \in 1 .. Len(h) + 1 : q[i] = IF i <= Len(h) THEN h[i] ELSE c
  OBVIOUS
<1>2. p = IF Len(q) > HistoryLen THEN Tail(q) ELSE q
  BY DEF C!PushHistory
<1>3. HistoryLen \in Nat
  BY ConstantFacts
<1> HIDE DEF p, q
<1>4. CASE Len(q) > HistoryLen
  <2>1. /\ Tail(q) \in Seq(CandleType) /\ Len(Tail(q)) = Len(q) - 1
        /\ \A i \in 1 .. Len(q) - 1 : Tail(q)[i] = q[i + 1]
    BY <1>1
  <2>2. p = Tail(q)
    BY <1>2, <1>4
  <2>3. p \in Seq(CandleType) /\ Len(p) = Len(h) + 1 - 1 /\ Len(p) \in Nat
    BY <1>1, <2>1, <2>2
  <2>4. ASSUME NEW i \in 1 .. Len(p)
        PROVE  i + 1 \in 1 .. Len(h) + 1 /\ p[i] = IF i + 1 <= Len(h) THEN h[i + 1] ELSE c
    <3>1. i + 1 \in 1 .. Len(h) + 1 /\ i \in 1 .. Len(q) - 1
      BY <1>1, <2>3
    <3> QED BY <1>1, <2>1, <2>2, <3>1
  <2>5. Len(h) + 1 <= HistoryLen => 1 = 0
    BY <1>1, <1>3, <1>4
  <2> QED BY <2>3, <2>4, <2>5 DEF p, Pushed
<1>5. CASE ~(Len(q) > HistoryLen)
  <2>1. p = q
    BY <1>2, <1>5
  <2>2. p \in Seq(CandleType) /\ Len(p) = Len(h) + 1 - 0 /\ Len(p) \in Nat
    BY <1>1, <2>1
  <2>3. ASSUME NEW i \in 1 .. Len(p)
        PROVE  i + 0 \in 1 .. Len(h) + 1 /\ p[i] = IF i + 0 <= Len(h) THEN h[i + 0] ELSE c
    <3>1. i + 0 = i /\ i \in 1 .. Len(h) + 1
      BY <1>1, <2>2
    <3> QED BY <1>1, <2>1, <3>1
  <2> QED BY <2>2, <2>3 DEF p, Pushed
<1> QED BY <1>4, <1>5

\* What is said of memory, before a tick of bucket b.
LEMMA BeforeTick ==
  ASSUME agg \in AggregatorType, NEW t, NEW v, MemoryOK(t, v, agg.open[Symbol], agg.history[Symbol])
  PROVE  /\ t \in [Buckets -> Nat] /\ v \in [Buckets -> CandleType \cup {None}]
         /\ agg.open[Symbol] \in CandleType \cup {None}
         /\ agg.history[Symbol] \in Seq(CandleType) /\ Len(agg.history[Symbol]) \in Nat
         /\ \A i \in 1 .. Len(agg.history[Symbol]) :
              agg.history[Symbol][i] \in CandleType /\ agg.history[Symbol][i].bucket \in Buckets
<1>1. agg.history[Symbol] \in Seq(CandleType)
  BY DEF MemoryOK
<1>2. \A i \in 1 .. Len(agg.history[Symbol]) :
        agg.history[Symbol][i] \in CandleType /\ agg.history[Symbol][i].bucket \in Buckets
  BY <1>1, ElementOfSeq, CandleFields
<1> QED BY <1>1, <1>2, LenProperties DEF MemoryOK

\* The first tick opens a candle.
LEMMA OpenedMemory ==
  ASSUME agg \in AggregatorType, NEW time \in Times, NEW o, NEW h, NEW cs, OpensWay(time, o, h, cs),
         NEW t, NEW v, MemoryOK(t, v, agg.open[Symbol], agg.history[Symbol])
  PROVE  MemoryOK(Plus(t, C!BucketStart(time)), Put(v, cs), o, h)
<1> DEFINE b == C!BucketStart(time)
           t2 == Plus(t, b)
           v2 == Put(v, cs)
<1>1. /\ cs = <<>> /\ h = agg.history[Symbol] /\ Len(h) = 0 /\ o = C!NewCandle(Tick(time))
      /\ \A k \in Buckets : t[k] = 0 /\ v[k] = None
  BY DEF OpensWay, MemoryOK
<1>2. b \in Buckets /\ b \in Nat
  BY TickFacts, BucketNat
<1>3. /\ t2 \in [Buckets -> Nat] /\ v2 \in [Buckets -> CandleType \cup {None}]
      /\ \A k \in Buckets : t2[k] = (IF k = b THEN t[k] + 1 ELSE t[k]) /\ v2[k] = v[k]
  <2>1. t \in [Buckets -> Nat] /\ v \in [Buckets -> CandleType \cup {None}]
    BY BeforeTick
  <2>2. v2 = Put(v, <<>>)
    BY <1>1
  <2> HIDE DEF b, v2
  <2> QED BY <1>2, <2>1, <2>2, StepNone
<1>4. o \in CandleType /\ o.bucket = b /\ o.count = 1 /\ ~o.closed /\ o # None
  BY <1>1, NewCandleType, NewCandleFields, CandleFields
<1>5. h \in Seq(CandleType)
  BY <1>1, BeforeTick
<1> HIDE DEF b, t2, v2
<1>6. o.count = t2[o.bucket]
  BY <1>1, <1>2, <1>3, <1>4
<1>7. \A k \in Buckets : (k > o.bucket => t2[k] = 0) /\ (k >= o.bucket => v2[k] = None)
  BY <1>1, <1>2, <1>3, <1>4, BucketNat
<1>8. MemoryOK(t2, v2, o, h)
  BY <1>1, <1>3, <1>4, <1>5, <1>6, <1>7 DEF MemoryOK
<1> QED BY <1>8 DEF t2, v2, b

\* A tick is merged into the open candle.
LEMMA MergedMemory ==
  ASSUME agg \in AggregatorType, NEW time \in Times, NEW o, NEW h, NEW cs, MergesWay(time, o, h, cs),
         NEW t, NEW v, MemoryOK(t, v, agg.open[Symbol], agg.history[Symbol])
  PROVE  MemoryOK(Plus(t, C!BucketStart(time)), Put(v, cs), o, h)
<1> DEFINE b == C!BucketStart(time)
           t2 == Plus(t, b)
           v2 == Put(v, cs)
           old == agg.open[Symbol]
<1>1. /\ old # None /\ b = old.bucket /\ cs = <<>>
      /\ h = agg.history[Symbol] /\ o = C!Merge(old, Tick(time))
  BY DEF MergesWay
<1>2. b \in Buckets /\ b \in Nat
  BY TickFacts, BucketNat
<1>3. /\ t2 \in [Buckets -> Nat] /\ v2 \in [Buckets -> CandleType \cup {None}]
      /\ \A k \in Buckets : t2[k] = (IF k = b THEN t[k] + 1 ELSE t[k]) /\ v2[k] = v[k]
  <2>1. t \in [Buckets -> Nat] /\ v \in [Buckets -> CandleType \cup {None}]
    BY BeforeTick
  <2>2. v2 = Put(v, <<>>)
    BY <1>1
  <2> HIDE DEF b, v2
  <2> QED BY <1>2, <2>1, <2>2, StepNone
<1>4. old \in CandleType
  BY <1>1, BeforeTick
<1>5. o \in CandleType /\ o.bucket = b /\ o.count = old.count + 1 /\ o.closed = old.closed /\ o # None
  BY <1>1, <1>4, MergeType, MergeFields, CandleFields
<1>6. /\ h \in Seq(CandleType)
      /\ \A i \in 1 .. Len(h) : h[i] \in CandleType /\ h[i].bucket \in Buckets /\ h[i].bucket \in Nat
  BY <1>1, BeforeTick, BucketNat
<1>7. /\ ~old.closed /\ old.count = t[b]
      /\ \A k \in Buckets : (k > b => t[k] = 0) /\ (k >= b => v[k] = None)
      /\ \A i \in 1 .. Len(h) : h[i].bucket < b
      /\ \A i \in 1 .. Len(h) : h[i].count = t[h[i].bucket] /\ v[h[i].bucket] = h[i]
      /\ \A i, j \in 1 .. Len(h) : i < j => h[i].bucket < h[j].bucket
  BY <1>1 DEF MemoryOK
<1> HIDE DEF b, t2, v2, old
<1>8. /\ ~o.closed /\ o.count = t2[o.bucket]
      /\ \A k \in Buckets : (k > o.bucket => t2[k] = 0) /\ (k >= o.bucket => v2[k] = None)
      /\ \A i \in 1 .. Len(h) : h[i].bucket < o.bucket
  BY <1>2, <1>3, <1>5, <1>7, BucketNat
<1>9. \A i \in 1 .. Len(h) : h[i].count = t2[h[i].bucket] /\ v2[h[i].bucket] = h[i]
  <2> TAKE i \in 1 .. Len(h)
  <2>1. h[i].bucket # b /\ h[i].bucket \in Buckets
    BY <1>2, <1>6, <1>7
  <2> QED BY <1>3, <1>7, <2>1
<1>11. MemoryOK(t2, v2, o, h)
  BY <1>3, <1>5, <1>6, <1>7, <1>8, <1>9 DEF MemoryOK
<1> QED BY <1>11 DEF t2, v2, b

\* A late tick misses the history.
LEMMA MissedMemory ==
  ASSUME agg \in AggregatorType, NEW time \in Times, NEW o, NEW h, NEW cs, MissesWay(time, o, h, cs),
         NEW t, NEW v, MemoryOK(t, v, agg.open[Symbol], agg.history[Symbol])
  PROVE  MemoryOK(Plus(t, C!BucketStart(time)), Put(v, cs), o, h)
<1> DEFINE b == C!BucketStart(time)
           t2 == Plus(t, b)
           v2 == Put(v, cs)
<1>1. /\ o = agg.open[Symbol] /\ o # None /\ b < o.bucket /\ cs = <<>> /\ h = agg.history[Symbol]
      /\ \A i \in 1 .. Len(h) : h[i].bucket # b
  BY DEF MissesWay
<1>2. b \in Buckets /\ b \in Nat
  BY TickFacts, BucketNat
<1>3. /\ t2 \in [Buckets -> Nat] /\ v2 \in [Buckets -> CandleType \cup {None}]
      /\ \A k \in Buckets : t2[k] = (IF k = b THEN t[k] + 1 ELSE t[k]) /\ v2[k] = v[k]
  <2>1. t \in [Buckets -> Nat] /\ v \in [Buckets -> CandleType \cup {None}]
    BY BeforeTick
  <2>2. v2 = Put(v, <<>>)
    BY <1>1
  <2> HIDE DEF b, v2
  <2> QED BY <1>2, <2>1, <2>2, StepNone
<1>4. o \in CandleType /\ o.bucket \in Buckets /\ o.bucket \in Nat
  BY <1>1, BeforeTick, CandleFields
<1>5. h \in Seq(CandleType) /\ \A i \in 1 .. Len(h) : h[i].bucket \in Buckets
  BY <1>1, BeforeTick
<1>6. /\ ~o.closed /\ o.count = t[o.bucket]
      /\ \A k \in Buckets : (k > o.bucket => t[k] = 0) /\ (k >= o.bucket => v[k] = None)
      /\ \A i \in 1 .. Len(h) : h[i].bucket < o.bucket
      /\ \A i \in 1 .. Len(h) : h[i].count = t[h[i].bucket] /\ v[h[i].bucket] = h[i]
      /\ \A i, j \in 1 .. Len(h) : i < j => h[i].bucket < h[j].bucket
  BY <1>1 DEF MemoryOK
<1> HIDE DEF b, t2, v2
<1>7. /\ o.count = t2[o.bucket]
      /\ \A k \in Buckets : (k > o.bucket => t2[k] = 0) /\ (k >= o.bucket => v2[k] = None)
  BY <1>1, <1>2, <1>3, <1>4, <1>6, BucketNat
<1>8. \A i \in 1 .. Len(h) : h[i].count = t2[h[i].bucket] /\ v2[h[i].bucket] = h[i]
  BY <1>1, <1>3, <1>5, <1>6, SMTT(30)
<1>10. MemoryOK(t2, v2, o, h)
  BY <1>1, <1>3, <1>4, <1>5, <1>6, <1>7, <1>8 DEF MemoryOK
<1> QED BY <1>10 DEF t2, v2, b

\* A newer tick closes the open candle.
LEMMA ClosedMemory ==
  ASSUME agg \in AggregatorType, NEW time \in Times, NEW o, NEW h, NEW cs, ClosesWay(time, o, h, cs),
         NEW t, NEW v, MemoryOK(t, v, agg.open[Symbol], agg.history[Symbol])
  PROVE  MemoryOK(Plus(t, C!BucketStart(time)), Put(v, cs), o, h)
<1> DEFINE b == C!BucketStart(time)
           t2 == Plus(t, b)
           v2 == Put(v, cs)
           old == agg.open[Symbol]
           g == agg.history[Symbol]
           c == C!ClosedCandle(agg, Symbol)
<1>1. /\ old # None /\ b > old.bucket /\ cs = <<c>>
      /\ h = C!PushHistory(g, c) /\ o = C!NewCandle(Tick(time))
  BY DEF ClosesWay
<1>2. b \in Buckets /\ b \in Nat
  BY TickFacts, BucketNat
<1>3. old \in CandleType /\ old.bucket \in Buckets /\ old.bucket \in Nat
  BY <1>1, BeforeTick, CandleFields
<1>4. c \in CandleType /\ c.bucket = old.bucket /\ c.count = old.count
  BY <1>3, ClosedFields
<1>5. /\ t2 \in [Buckets -> Nat] /\ v2 \in [Buckets -> CandleType \cup {None}]
      /\ \A k \in Buckets : t2[k] = IF k = b THEN t[k] + 1 ELSE t[k]
      /\ \A k \in Buckets : v2[k] = IF c.bucket = k THEN c ELSE v[k]
  <2>1. t \in [Buckets -> Nat] /\ v \in [Buckets -> CandleType \cup {None}]
    BY BeforeTick
  <2>2. v2 = Put(v, <<c>>)
    BY <1>1
  <2>3. c \in CandleType /\ b \in Buckets /\ t2 = Plus(t, b)
    BY <1>2, <1>4
  <2> HIDE DEF b, c, t2, v2
  <2> QED BY <2>1, <2>2, <2>3, StepOne
<1>6. o \in CandleType /\ o.bucket = b /\ o.count = 1 /\ ~o.closed /\ o # None
  BY <1>1, NewCandleType, NewCandleFields, CandleFields
<1>7. /\ g \in Seq(CandleType) /\ Len(g) \in Nat
      /\ \A i \in 1 .. Len(g) : g[i] \in CandleType /\ g[i].bucket \in Buckets /\ g[i].bucket \in Nat
  BY BeforeTick, BucketNat
<1>8. /\ old.count = t[old.bucket]
      /\ \A k \in Buckets : (k > old.bucket => t[k] = 0) /\ (k >= old.bucket => v[k] = None)
      /\ \A i \in 1 .. Len(g) : g[i].bucket < old.bucket
      /\ \A i \in 1 .. Len(g) : g[i].count = t[g[i].bucket] /\ v[g[i].bucket] = g[i]
      /\ \A i, j \in 1 .. Len(g) : i < j => g[i].bucket < g[j].bucket
  BY <1>1 DEF MemoryOK
<1> HIDE DEF b, t2, v2, old, g, c
<1>a. Pushed(g, c, h)
  BY <1>1, <1>4, <1>7, PushedCandles
<1>9. h \in Seq(CandleType) /\ Len(h) \in Nat
  BY <1>a DEF Pushed
<1>10. PICK d \in {0, 1} :
         /\ Len(h) = Len(g) + 1 - d /\ (Len(g) + 1 <= HistoryLen => d = 0)
         /\ \A i \in 1 .. Len(h) :
              i + d \in 1 .. Len(g) + 1 /\ h[i] = IF i + d <= Len(g) THEN g[i + d] ELSE c
  BY <1>a DEF Pushed
\* Element i of the new history.
<1>11. ASSUME NEW i \in 1 .. Len(h)
       PROVE  \/ i + d \in 1 .. Len(g) /\ h[i] = g[i + d]
              \/ i + d = Len(g) + 1 /\ h[i] = c
  <2>1. i + d \in 1 .. Len(g) + 1 /\ h[i] = IF i + d <= Len(g) THEN g[i + d] ELSE c
    BY <1>10
  <2>2. CASE i + d <= Len(g)
    BY <1>7, <2>1, <2>2
  <2>3. CASE ~(i + d <= Len(g))
    BY <1>7, <2>1, <2>3
  <2> QED BY <2>2, <2>3
<1>12. \A i \in 1 .. Len(h) :
         h[i].bucket \in Buckets /\ h[i].bucket <= old.bucket /\ h[i].bucket # b /\ h[i].bucket < b
  <2> TAKE i \in 1 .. Len(h)
  <2>1. CASE i + d \in 1 .. Len(g) /\ h[i] = g[i + d]
    <3>1. g[i + d].bucket \in Buckets /\ g[i + d].bucket \in Nat /\ g[i + d].bucket < old.bucket
      BY <1>7, <1>8, <2>1
    <3> QED BY <1>1, <1>2, <1>3, <2>1, <3>1
  <2>2. CASE i + d = Len(g) + 1 /\ h[i] = c
    BY <1>1, <1>2, <1>3, <1>4, <2>2
  <2> QED BY <1>11, <2>1, <2>2
<1>13. \A i \in 1 .. Len(h) : h[i].count = t2[h[i].bucket] /\ v2[h[i].bucket] = h[i]
  <2> TAKE i \in 1 .. Len(h)
  <2>1. CASE i + d \in 1 .. Len(g) /\ h[i] = g[i + d]
    <3>1. /\ g[i + d].bucket \in Buckets /\ g[i + d].bucket # old.bucket
          /\ g[i + d].count = t[g[i + d].bucket] /\ v[g[i + d].bucket] = g[i + d]
      <4>1. g[i + d].bucket \in Nat /\ g[i + d].bucket < old.bucket
        BY <1>7, <1>8, <2>1
      <4> QED BY <1>3, <1>7, <1>8, <2>1, <4>1
    <3>2. g[i + d].bucket # b
      BY <1>12, <2>1
    <3> QED BY <1>4, <1>5, <2>1, <3>1, <3>2
  <2>2. CASE i + d = Len(g) + 1 /\ h[i] = c
    <3>1. c.bucket # b /\ c.bucket \in Buckets
      BY <1>1, <1>2, <1>3, <1>4
    <3> QED BY <1>4, <1>5, <1>8, <2>2, <3>1
  <2> QED BY <1>11, <2>1, <2>2
<1>14. ASSUME NEW i \in 1 .. Len(h), NEW j \in 1 .. Len(h), i < j PROVE h[i].bucket < h[j].bucket
  <2>1. i + d \in 1 .. Len(g) /\ h[i] = g[i + d]
    <3>1. i + d # Len(g) + 1
      <4>1. i < Len(h) /\ Len(h) = Len(g) + 1 - d /\ d \in Nat
        BY <1>9, <1>10, <1>14
      <4> QED BY <1>7, <1>9, <4>1
    <3> QED BY <1>11, <3>1
  <2>2. CASE j + d \in 1 .. Len(g) /\ h[j] = g[j + d]
    <3>1. i + d < j + d
      BY <1>9, <1>14
    <3> QED BY <1>8, <2>1, <2>2, <3>1
  <2>3. CASE j + d = Len(g) + 1 /\ h[j] = c
    BY <1>4, <1>8, <2>1, <2>3
  <2> QED BY <1>11, <2>2, <2>3
<1>16. /\ o.count = t2[o.bucket]
       /\ \A k \in Buckets : (k > o.bucket => t2[k] = 0) /\ (k >= o.bucket => v2[k] = None)
       /\ \A i \in 1 .. Len(h) : h[i].bucket < o.bucket
  <2>1. t[b] = 0
    BY <1>1, <1>2, <1>8
  <2>2. ASSUME NEW k \in Buckets, k >= b PROVE k # c.bucket /\ k > old.bucket /\ k >= old.bucket
    BY <1>1, <1>2, <1>3, <1>4, <2>2, BucketNat
  <2>3. \A k \in Buckets : (k > b => t2[k] = 0)
    BY <1>2, <1>5, <1>8, <2>2, BucketNat
  <2>4. \A k \in Buckets : (k >= b => v2[k] = None)
    BY <1>5, <1>8, <2>2
  <2> QED BY <1>2, <1>5, <1>6, <1>12, <2>1, <2>3, <2>4
<1>17. MemoryOK(t2, v2, o, h)
  BY <1>5, <1>6, <1>9, <1>13, <1>14, <1>16 DEF MemoryOK
<1> QED BY <1>17 DEF t2, v2, b

\* A late tick patches a candle of the history.
LEMMA PatchedMemory ==
  ASSUME agg \in AggregatorType, NEW time \in Times, NEW o, NEW h, NEW cs,
         NEW p \in 1 .. Len(agg.history[Symbol]), PatchesWay(time, o, h, cs, p),
         NEW t, NEW v, MemoryOK(t, v, agg.open[Symbol], agg.history[Symbol])
  PROVE  MemoryOK(Plus(t, C!BucketStart(time)), Put(v, cs), o, h)
<1> DEFINE b == C!BucketStart(time)
           t2 == Plus(t, b)
           v2 == Put(v, cs)
           g == agg.history[Symbol]
           c == C!Merge(g[p], Tick(time))
<1>1. /\ o = agg.open[Symbol] /\ o # None /\ b < o.bucket /\ cs = <<c>>
      /\ p \in 1 .. Len(g) /\ g[p].bucket = b /\ h = [g EXCEPT ![p] = c]
  BY DEF PatchesWay
<1>2. b \in Buckets /\ b \in Nat
  BY TickFacts, BucketNat
<1>3. o \in CandleType /\ o.bucket \in Buckets /\ o.bucket \in Nat
  BY <1>1, BeforeTick, CandleFields
<1>4. /\ g \in Seq(CandleType) /\ Len(g) \in Nat
      /\ \A i \in 1 .. Len(g) : g[i] \in CandleType /\ g[i].bucket \in Buckets /\ g[i].bucket \in Nat
  BY BeforeTick, BucketNat
<1>5. c \in CandleType /\ c.bucket = b /\ c.count = g[p].count + 1
  BY <1>1, <1>4, MergeType, MergeFields
<1>6. /\ t2 \in [Buckets -> Nat] /\ v2 \in [Buckets -> CandleType \cup {None}]
      /\ \A k \in Buckets : t2[k] = IF k = b THEN t[k] + 1 ELSE t[k]
      /\ \A k \in Buckets : v2[k] = IF c.bucket = k THEN c ELSE v[k]
  <2>1. t \in [Buckets -> Nat] /\ v \in [Buckets -> CandleType \cup {None}]
    BY BeforeTick
  <2>2. v2 = Put(v, <<c>>)
    BY <1>1
  <2>3. c \in CandleType /\ b \in Buckets /\ t2 = Plus(t, b)
    BY <1>2, <1>5
  <2> HIDE DEF b, c, t2, v2
  <2>4. /\ Plus(t, b) \in [Buckets -> Nat] /\ Put(v, <<c>>) \in [Buckets -> CandleType \cup {None}]
        /\ \A k \in Buckets : Plus(t, b)[k] = IF k = b THEN t[k] + 1 ELSE t[k]
        /\ \A k \in Buckets : Put(v, <<c>>)[k] = IF c.bucket = k THEN c ELSE v[k]
    BY <2>1, <2>3, StepOne, SMTT(30)
  <2> QED BY <2>2, <2>3, <2>4
<1>7. /\ ~o.closed /\ o.count = t[o.bucket]
      /\ \A k \in Buckets : (k > o.bucket => t[k] = 0) /\ (k >= o.bucket => v[k] = None)
      /\ \A i \in 1 .. Len(g) : g[i].bucket < o.bucket
      /\ \A i \in 1 .. Len(g) : g[i].count = t[g[i].bucket] /\ v[g[i].bucket] = g[i]
      /\ \A i, j \in 1 .. Len(g) : i < j => g[i].bucket < g[j].bucket
  BY <1>1 DEF MemoryOK
<1> HIDE DEF b, t2, v2, g, c
<1>8. h \in Seq(CandleType)
  BY <1>1, <1>4, <1>5, ExceptSeq
<1>9. Len(h) = Len(g) /\ \A i \in 1 .. Len(h) : h[i] = IF i = p THEN c ELSE g[i]
  BY <1>1, <1>4
<1>10. \A i \in 1 .. Len(h) : h[i].bucket = g[i].bucket /\ i \in 1 .. Len(g)
  BY <1>1, <1>5, <1>9
<1>11. \A i \in 1 .. Len(h) : h[i].count = t2[h[i].bucket] /\ v2[h[i].bucket] = h[i]
  <2> TAKE i \in 1 .. Len(h)
  <2>1. CASE i = p
    BY <1>1, <1>2, <1>5, <1>6, <1>7, <1>9, <2>1
  <2>2. CASE i # p
    <3>1. g[i].bucket # b /\ g[i].bucket \in Buckets /\ i \in 1 .. Len(g)
      <4>1. i < p \/ p < i
        BY <1>1, <1>4, <1>9, <2>2
      <4> QED BY <1>1, <1>2, <1>4, <1>7, <1>9, <4>1
    <3> QED BY <1>5, <1>6, <1>7, <1>9, <2>2, <3>1
  <2> QED BY <2>1, <2>2
<1>12. \A i \in 1 .. Len(h) : h[i].bucket < o.bucket
  BY <1>7, <1>10
<1>13. \A i, j \in 1 .. Len(h) : i < j => h[i].bucket < h[j].bucket
  BY <1>7, <1>10
<1>15. /\ o.count = t2[o.bucket]
       /\ \A k \in Buckets : (k > o.bucket => t2[k] = 0) /\ (k >= o.bucket => v2[k] = None)
  <2>1. o.bucket # b /\ \A k \in Buckets : k >= o.bucket => k # b /\ k # c.bucket
    BY <1>1, <1>2, <1>3, <1>5, BucketNat
  <2>2. \A k \in Buckets : k > o.bucket => k >= o.bucket
    BY <1>3, BucketNat
  <2> QED BY <1>3, <1>6, <1>7, <2>1, <2>2
<1>16. MemoryOK(t2, v2, o, h)
  BY <1>1, <1>3, <1>6, <1>7, <1>8, <1>11, <1>12, <1>13, <1>15 DEF MemoryOK
<1> QED BY <1>16 DEF t2, v2, b

\* Every tick keeps what is said of memory.
LEMMA MemoryStep ==
  ASSUME agg \in AggregatorType, NEW time \in Times, NEW o, NEW h, NEW cs, Applied(time, o, h, cs),
         NEW t, NEW v, MemoryOK(t, v, agg.open[Symbol], agg.history[Symbol])
  PROVE  MemoryOK(Plus(t, C!BucketStart(time)), Put(v, cs), o, h)
<1>1. CASE OpensWay(time, o, h, cs)
  BY <1>1, OpenedMemory
<1>2. CASE MergesWay(time, o, h, cs)
  BY <1>2, MergedMemory
<1>3. CASE ClosesWay(time, o, h, cs)
  BY <1>3, ClosedMemory
<1>4. ASSUME NEW p \in 1 .. Len(agg.history[Symbol]), PatchesWay(time, o, h, cs, p)
      PROVE  MemoryOK(Plus(t, C!BucketStart(time)), Put(v, cs), o, h)
  BY <1>4, PatchedMemory
<1>5. CASE MissesWay(time, o, h, cs)
  BY <1>5, MissedMemory
<1> QED BY <1>1, <1>2, <1>3, <1>4, <1>5, ApplyWays

\* No late tick misses the history though a candle of its bucket was recorded.
NoneMissed(v, time) ==
  \A o, h, cs : MissesWay(time, o, h, cs) => v[C!BucketStart(time)] = None

\* Every tick keeps the counts of the last candles, exact if none is missed.
LEMMA CountsStep ==
  ASSUME agg \in AggregatorType, NEW time \in Times, NEW o, NEW h, NEW cs, Applied(time, o, h, cs),
         NEW t, NEW v, MemoryOK(t, v, agg.open[Symbol], agg.history[Symbol]),
         NEW exact \in BOOLEAN, CountsOK(t, v, exact), exact => NoneMissed(v, time)
  PROVE  CountsOK(Plus(t, C!BucketStart(time)), Put(v, cs), exact)
<1> DEFINE b == C!BucketStart(time)
           t2 == Plus(t, b)
           v2 == Put(v, cs)
           old == agg.open[Symbol]
           g == agg.history[Symbol]
<1>1. b \in Buckets
  BY TickFacts
<1>2. /\ t \in [Buckets -> Nat] /\ v \in [Buckets -> CandleType \cup {None}]
      /\ old \in CandleType \cup {None}
      /\ \A i \in 1 .. Len(g) : g[i] \in CandleType /\ g[i].bucket \in Buckets
  BY BeforeTick
<1>3. /\ old = None => \A k \in Buckets : v[k] = None
      /\ old # None => /\ old.count = t[old.bucket]
                       /\ \A k \in Buckets : k >= old.bucket => v[k] = None
      /\ \A i \in 1 .. Len(g) : g[i].count = t[g[i].bucket]
  BY DEF MemoryOK
<1>4. ASSUME NEW k \in Buckets, v[k] # None
      PROVE  Counts(v[k].count, t[k], exact) /\ t[k] \in Nat /\ v[k].count \in Nat
  <2>1. v[k] \in CandleType
    BY <1>2, <1>4
  <2> QED BY <1>2, <1>4, <2>1, CandleFields DEF CountsOK
\* A way that records no candle.
<1>5. ASSUME cs = <<>>, v[b] = None \/ MissesWay(time, o, h, cs) PROVE CountsOK(t2, v2, exact)
  <2>1. \A k \in Buckets : t2[k] = (IF k = b THEN t[k] + 1 ELSE t[k]) /\ v2[k] = v[k]
    BY <1>1, <1>2, <1>5, StepNone
  <2>2. exact => v[b] = None
    BY <1>5 DEF NoneMissed
  <2> HIDE DEF b, t2, v2
  <2>3. ASSUME NEW k \in Buckets, v2[k] # None PROVE Counts(v2[k].count, t2[k], exact)
    <3>1. Counts(v[k].count, t[k], exact) /\ t[k] \in Nat /\ v[k].count \in Nat /\ v2[k] = v[k]
      BY <1>4, <2>1, <2>3
    <3>2. CASE k = b
      <4>1. ~exact /\ t2[k] = t[k] + 1
        BY <2>1, <2>2, <2>3, <3>2
      <4> QED BY <3>1, <4>1 DEF Counts
    <3>3. CASE k # b
      BY <2>1, <3>1, <3>3
    <3> QED BY <3>2, <3>3
  <2> QED BY <2>3 DEF CountsOK
\* A way that records the candle c.
<1>6. ASSUME NEW c \in CandleType, cs = <<c>>, c.count = t2[c.bucket], v[b] = None \/ c.bucket = b
      PROVE  CountsOK(t2, v2, exact)
  <2>1. /\ t2 \in [Buckets -> Nat]
        /\ \A k \in Buckets : t2[k] = IF k = b THEN t[k] + 1 ELSE t[k]
        /\ \A k \in Buckets : v2[k] = IF c.bucket = k THEN c ELSE v[k]
    <3>1. v2 = Put(v, <<c>>)
      BY <1>6
    <3> HIDE DEF b, v2
    <3> QED BY <1>1, <1>2, <3>1, StepOne
  <2> HIDE DEF b, t2, v2
  <2>2. ASSUME NEW k \in Buckets, v2[k] # None PROVE Counts(v2[k].count, t2[k], exact)
    <3>1. CASE k = c.bucket
      <4>1. v2[k].count = t2[k] /\ t2[k] \in Nat
        BY <1>6, <2>1, <3>1
      <4> QED BY <4>1 DEF Counts
    <3>2. CASE k # c.bucket
      <4>1. v2[k] = v[k] /\ k # b
        BY <1>6, <2>1, <2>2, <3>2
      <4> QED BY <1>4, <2>1, <2>2, <4>1
    <3> QED BY <3>1, <3>2
  <2> QED BY <2>2 DEF CountsOK
<1>7. CASE OpensWay(time, o, h, cs)
  BY <1>1, <1>3, <1>5, <1>7 DEF OpensWay
<1>8. CASE MergesWay(time, o, h, cs)
  <2>1. cs = <<>> /\ old # None /\ b = old.bucket
    BY <1>8 DEF MergesWay
  <2>2. b >= b
    <3> HIDE DEF b
    <3> QED BY <1>1, BucketNat
  <2>3. v[b] = None
    BY <1>1, <1>3, <2>1, <2>2
  <2> QED BY <1>5, <2>1, <2>3
<1>9. CASE ClosesWay(time, o, h, cs)
  <2> DEFINE c == C!ClosedCandle(agg, Symbol)
  <2>1. old # None /\ b > old.bucket /\ cs = <<c>>
    BY <1>9 DEF ClosesWay
  <2>2. old \in CandleType /\ old.bucket \in Nat /\ b \in Nat
    BY <1>1, <1>2, <2>1, BucketNat, CandleFields
  <2>3. c \in CandleType /\ c.bucket = old.bucket /\ c.count = old.count
    BY <2>2, ClosedFields
  <2>4. c.bucket \in Buckets /\ c.bucket # b /\ b >= old.bucket
    BY <2>1, <2>2, <2>3, CandleFields
  <2>5. v[b] = None /\ c.count = t[c.bucket]
    BY <1>1, <1>3, <2>1, <2>3, <2>4
  <2>6. t2[c.bucket] = t[c.bucket]
    BY <2>4 DEF Plus
  <2> HIDE DEF c
  <2> QED BY <1>6, <2>1, <2>3, <2>5, <2>6
<1>10. ASSUME NEW p \in 1 .. Len(g), PatchesWay(time, o, h, cs, p) PROVE CountsOK(t2, v2, exact)
  <2> DEFINE c == C!Merge(g[p], Tick(time))
  <2>1. g[p].bucket = b /\ cs = <<c>>
    BY <1>10 DEF PatchesWay
  <2>2. c \in CandleType /\ c.bucket = b /\ c.count = g[p].count + 1
    BY <1>2, <2>1, MergeType, MergeFields
  <2>3. t2[c.bucket] = t[b] + 1
    BY <1>1, <2>2 DEF Plus
  <2>4. c.count = t2[c.bucket]
    BY <1>3, <2>1, <2>2, <2>3
  <2> HIDE DEF c
  <2> QED BY <1>6, <2>1, <2>2, <2>4
<1>11. CASE MissesWay(time, o, h, cs)
  <2>1. cs = <<>>
    BY <1>11 DEF MissesWay
  <2> QED BY <1>5, <1>11, <2>1
<1> QED BY <1>7, <1>8, <1>9, <1>10, <1>11, ApplyWays

-----------------------------------------------------------------------------
(* What the rows that a tick records add to the tallies.                   *)

\* The typed content of a logged row.
LEMMA LoggedRow ==
  ASSUME NEW lg, NEW r, NEW s \in Seq(W!RowType), Logged(lg, r, s), NEW k \in Buckets,
         W!Newest(s, k, None) # None
  PROVE  /\ W!Newest(s, k, None) \in W!RowType /\ W!Newest(s, k, None).run = r
         /\ W!Newest(s, k, None).number \in 1 .. Len(lg[r])
         /\ lg[r][W!Newest(s, k, None).number] \in CandleType
         /\ Latest(lg, r, s)[k] = lg[r][W!Newest(s, k, None).number]
         /\ Latest(lg, r, s)[k] # None
<1>1. PICK i \in 1 .. Len(s) : s[i].key = k /\ W!Newest(s, k, None) = s[i]
  BY NewestIsRow
<1>2. s[i] \in W!RowType /\ k # None
  BY ConstantFacts, ElementOfSeq
<1>3. s[i].run = r /\ s[i].number \in 1 .. Len(lg[r]) /\ lg[r][s[i].number] \in CandleType
  BY <1>1, <1>2 DEF Logged
<1>4. Latest(lg, r, s)[k] = lg[r][W!Newest(s, k, None).number]
  BY DEF Latest
<1> QED BY <1>1, <1>2, <1>3, <1>4, CandleFields

\* The tallies and last candles are typed.
LEMMA TallyTypes ==
  ASSUME NEW lg, NEW r, NEW s \in Seq(W!RowType), Logged(lg, r, s)
  PROVE  /\ Tally(lg, r, s) \in [Buckets -> Nat]
         /\ Latest(lg, r, s) \in [Buckets -> CandleType \cup {None}]
<1>1. \A k \in Buckets : Number(s, OfBucket(lg, r, k)) \in Nat
  BY NumberType
<1>2. ASSUME NEW k \in Buckets PROVE Latest(lg, r, s)[k] \in CandleType \cup {None}
  <2>1. CASE W!Newest(s, k, None) = None
    BY <2>1 DEF Latest
  <2>2. CASE W!Newest(s, k, None) # None
    BY <2>2, LoggedRow
  <2> QED BY <2>1, <2>2
<1>3. Latest(lg, r, s) = [k \in Buckets |-> Latest(lg, r, s)[k]]
  BY DEF Latest
<1>4. Latest(lg, r, s) \in [Buckets -> CandleType \cup {None}]
  BY <1>2, <1>3
<1> QED BY <1>1, <1>4 DEF Tally

\* A log that says the same of the rows gives the same tallies.
LEMMA SameLog ==
  ASSUME NEW lg, NEW lh, NEW r, NEW s \in Seq(W!RowType), Logged(lg, r, s),
         \A i \in 1 .. Len(s) : lh[r][s[i].number] = lg[r][s[i].number], Len(lh[r]) \in Nat,
         Len(lg[r]) \in Nat, Len(lg[r]) <= Len(lh[r])
  PROVE  Logged(lh, r, s) /\ Tally(lh, r, s) = Tally(lg, r, s) /\ Latest(lh, r, s) = Latest(lg, r, s)
<1>1. Logged(lh, r, s)
  <2> SUFFICES ASSUME NEW i \in 1 .. Len(s)
               PROVE  /\ s[i].run = r /\ s[i].number \in 1 .. Len(lh[r])
                      /\ lh[r][s[i].number] \in IF s[i].key = None THEN TickType ELSE CandleType
    BY DEF Logged
  <2>1. /\ s[i].run = r /\ s[i].number \in 1 .. Len(lg[r])
        /\ lg[r][s[i].number] \in IF s[i].key = None THEN TickType ELSE CandleType
    BY DEF Logged
  <2> QED BY <2>1
<1>2. ASSUME NEW k \in Buckets PROVE Number(s, OfBucket(lh, r, k)) = Number(s, OfBucket(lg, r, k))
  <2>1. \A i \in 1 .. Len(s) : s[i] \in OfBucket(lh, r, k) <=> s[i] \in OfBucket(lg, r, k)
    BY DEF OfBucket
  <2> QED BY <2>1, NumberSame
<1>3. Tally(lh, r, s) = Tally(lg, r, s)
  BY <1>2 DEF Tally
<1>4. ASSUME NEW k \in Buckets PROVE Latest(lh, r, s)[k] = Latest(lg, r, s)[k]
  <2>1. CASE W!Newest(s, k, None) = None
    BY <2>1 DEF Latest
  <2>2. CASE W!Newest(s, k, None) # None
    <3>1. PICK i \in 1 .. Len(s) : W!Newest(s, k, None) = s[i]
      BY <2>2, NewestIsRow
    <3> QED BY <2>2, <3>1 DEF Latest
  <2> QED BY <2>1, <2>2
<1>5. Latest(lh, r, s) = Latest(lg, r, s)
  BY <1>4 DEF Latest
<1> QED BY <1>1, <1>3, <1>5

\* A tick row adds one to the tally of its bucket,
LEMMA TickRowAdds ==
  ASSUME NEW lg, NEW r, NEW s \in Seq(W!RowType), Logged(lg, r, s),
         NEW row \in W!RowType, row.run = r, row.key = None, row.number \in 1 .. Len(lg[r]),
         lg[r][row.number] \in TickType
  PROVE  /\ Append(s, row) \in Seq(W!RowType) /\ Logged(lg, r, Append(s, row))
         /\ Tally(lg, r, Append(s, row)) = Plus(Tally(lg, r, s), C!BucketStart(lg[r][row.number].time))
         /\ Latest(lg, r, Append(s, row)) = Latest(lg, r, s)
<1> DEFINE a == Append(s, row)
           b == C!BucketStart(lg[r][row.number].time)
<1>1. /\ a \in Seq(W!RowType) /\ Len(a) = Len(s) + 1 /\ Len(s) \in Nat /\ a[Len(s) + 1] = row
      /\ \A i \in 1 .. Len(s) : a[i] = s[i]
  OBVIOUS
<1>2. Logged(lg, r, a)
  <2> HIDE DEF a
  <2> SUFFICES ASSUME NEW i \in 1 .. Len(a)
               PROVE  /\ a[i].run = r /\ a[i].number \in 1 .. Len(lg[r])
                      /\ lg[r][a[i].number] \in IF a[i].key = None THEN TickType ELSE CandleType
    BY DEF Logged
  <2>1. CASE i = Len(s) + 1
    BY <1>1, <2>1
  <2>2. CASE i \in 1 .. Len(s)
    BY <1>1, <2>2 DEF Logged
  <2> QED BY <1>1, <2>1, <2>2
<1>3. ASSUME NEW k \in Buckets
      PROVE  Number(a, OfBucket(lg, r, k))
               = IF k = b THEN Number(s, OfBucket(lg, r, k)) + 1 ELSE Number(s, OfBucket(lg, r, k))
  <2>1. row \in OfBucket(lg, r, k) <=> k = b
    BY DEF OfBucket
  <2>2. Number(a, OfBucket(lg, r, k))
          = Number(s, OfBucket(lg, r, k)) + (IF row \in OfBucket(lg, r, k) THEN 1 ELSE 0)
    BY NumberAppend
  <2>3. Number(s, OfBucket(lg, r, k)) \in Nat
    BY NumberType
  <2> HIDE DEF a, b
  <2> QED BY <2>1, <2>2, <2>3
<1>4. Tally(lg, r, a) = Plus(Tally(lg, r, s), b)
  <2> HIDE DEF a, b
  <2> QED BY <1>3 DEF Tally, Plus
<1>5. \A k \in Buckets : W!Newest(a, k, None) = W!Newest(s, k, None)
  <2> TAKE k \in Buckets
  <2>1. k # None
    BY ConstantFacts
  <2> QED BY <2>1, NewestAppend
<1>6. Latest(lg, r, a) = Latest(lg, r, s)
  <2> HIDE DEF a
  <2> QED BY <1>5 DEF Latest
<1> QED BY <1>1, <1>2, <1>4, <1>6

\* and a candle row becomes the last one of its bucket.
LEMMA CandleRowPuts ==
  ASSUME NEW lg, NEW r, NEW s \in Seq(W!RowType), Logged(lg, r, s), NEW c \in CandleType,
         NEW row \in W!RowType, row.run = r, row.key = c.bucket, row.number \in 1 .. Len(lg[r]),
         lg[r][row.number] = c
  PROVE  /\ Append(s, row) \in Seq(W!RowType) /\ Logged(lg, r, Append(s, row))
         /\ Tally(lg, r, Append(s, row)) = Tally(lg, r, s)
         /\ Latest(lg, r, Append(s, row)) = Put(Latest(lg, r, s), <<c>>)
<1> DEFINE a == Append(s, row)
<1>1. /\ a \in Seq(W!RowType) /\ Len(a) = Len(s) + 1 /\ Len(s) \in Nat /\ a[Len(s) + 1] = row
      /\ \A i \in 1 .. Len(s) : a[i] = s[i]
  OBVIOUS
<1>2. row.key \in Buckets /\ row.key # None /\ row # None
  BY CandleFields, ConstantFacts, LifespanAssumption
<1>3. Logged(lg, r, a)
  <2> HIDE DEF a
  <2> SUFFICES ASSUME NEW i \in 1 .. Len(a)
               PROVE  /\ a[i].run = r /\ a[i].number \in 1 .. Len(lg[r])
                      /\ lg[r][a[i].number] \in IF a[i].key = None THEN TickType ELSE CandleType
    BY DEF Logged
  <2>1. CASE i = Len(s) + 1
    BY <1>1, <1>2, <2>1
  <2>2. CASE i \in 1 .. Len(s)
    BY <1>1, <2>2 DEF Logged
  <2> QED BY <1>1, <2>1, <2>2
<1>4. ASSUME NEW k \in Buckets PROVE Number(a, OfBucket(lg, r, k)) = Number(s, OfBucket(lg, r, k))
  <2>1. row \notin OfBucket(lg, r, k)
    BY <1>2 DEF OfBucket
  <2>2. Number(a, OfBucket(lg, r, k))
          = Number(s, OfBucket(lg, r, k)) + (IF row \in OfBucket(lg, r, k) THEN 1 ELSE 0)
    BY NumberAppend
  <2>3. Number(s, OfBucket(lg, r, k)) \in Nat
    BY NumberType
  <2> HIDE DEF a
  <2> QED BY <2>1, <2>2, <2>3
<1>5. Tally(lg, r, a) = Tally(lg, r, s)
  <2> HIDE DEF a
  <2> QED BY <1>4 DEF Tally
<1>6. \A k \in Buckets : W!Newest(a, k, None) = IF c.bucket = k THEN row ELSE W!Newest(s, k, None)
  BY NewestAppend
<1>7. Latest(lg, r, a) = Put(Latest(lg, r, s), <<c>>)
  <2>1. \A k \in Buckets : Latest(lg, r, a)[k] = IF c.bucket = k THEN c ELSE Latest(lg, r, s)[k]
    <3> TAKE k \in Buckets
    <3> HIDE DEF a
    <3>1. CASE c.bucket = k
      BY <1>2, <1>6, <3>1 DEF Latest
    <3>2. CASE c.bucket # k
      BY <1>6, <3>2 DEF Latest
    <3> QED BY <3>1, <3>2
  <2>2. <<c>> # <<>> /\ <<c>>[1] = c
    OBVIOUS
  <2>3. Put(Latest(lg, r, s), <<c>>) = [k \in Buckets |-> IF c.bucket = k THEN c ELSE Latest(lg, r, s)[k]]
    BY <2>2 DEF Put
  <2>4. Latest(lg, r, a) = [k \in Buckets |-> Latest(lg, r, a)[k]]
    BY DEF Latest
  <2> HIDE DEF a
  <2> QED BY <2>1, <2>3, <2>4
<1> QED BY <1>1, <1>3, <1>5, <1>7

-----------------------------------------------------------------------------
(* The file.                                                               *)

\* Splitting off the candles leaves tick rows.
LEMMA TicksOnly ==
  ASSUME NEW T, NEW s \in Seq(T)
  PROVE  W!TicksOf(s) \in Seq({x \in T : x.key = None})
<1> DEFINE U == {x \in T : x.key = None}
           Good == {r \in Seq(T) : W!TicksOf(r) \in Seq(U)}
<1>1. <<>> \in Good
  <2>1. <<>> \in Seq(T) /\ <<>> \in Seq(U)
    OBVIOUS
  <2>2. W!TicksOf(<<>>) \in Seq(U)
    BY <2>1, SplitEmpty, Zenon
  <2> HIDE DEF U
  <2> QED BY <2>1, <2>2
<1>2. ASSUME NEW r \in Seq(T), NEW x \in T, r \in Good PROVE Append(r, x) \in Good
  <2> DEFINE ticks == W!TicksOf(r)
  <2>1. ticks \in Seq(U)
    BY <1>2
  <2>2. W!TicksOf(Append(r, x)) = IF x.key = None THEN Append(ticks, x) ELSE ticks
    BY SplitAppend DEF W!KeepTick
  <2>3. x.key = None => x \in U
    OBVIOUS
  <2>4. Append(r, x) \in Seq(T)
    OBVIOUS
  <2> HIDE DEF U, ticks
  <2>5. W!TicksOf(Append(r, x)) \in Seq(U)
    <3>1. CASE x.key = None
      BY <2>1, <2>2, <2>3, <3>1
    <3>2. CASE x.key # None
      BY <2>1, <2>2, <3>2
    <3> QED BY <3>1, <3>2
  <2> QED BY <2>4, <2>5
<1>3. Seq(T) \subseteq Good
  <2> HIDE DEF Good
  <2> QED BY <1>1, <1>2, FT!SeqSetInduction
<1> QED BY <1>3

\* The fields of a row.
LEMMA RowFields ==
  ASSUME NEW row \in W!RowType
  PROVE  row.run \in 1 .. MaxRuns /\ row.run \in Nat /\ row.number \in Nat
BY RowTypes, ConstantFacts

\* The tables: the older ones, and the rows s on top.
OnTop(older, s, tables) ==
  /\ tables.ticks = older.ticks \o W!TicksOf(s)
  /\ \A k \in Buckets : tables.candles[k] = W!Newest(s, k, older.candles[k])

\* The tables on top of which a run recorded s: as sound as s is whole.
LEMMA HoldsIsSound ==
  ASSUME NEW lg, NEW r \in Nat, NEW s \in Seq(W!RowType), Logged(lg, r, s),
         NEW older \in W!Tables, NEW tables \in W!Tables, NEW exact \in BOOLEAN,
         Older(older, r), Sound(lg, older, exact), Whole(lg, r, s, exact),
         OnTop(older, s, tables)
  PROVE  Sound(lg, tables, exact) /\ Older(tables, r + 1)
<1> DEFINE ts == W!TicksOf(s)
           Mine == {row \in W!RowType : row.run = r}
<1>0. /\ tables.ticks = older.ticks \o ts
      /\ \A k \in Buckets : tables.candles[k] = W!Newest(s, k, older.candles[k])
  BY DEF OnTop
<1>1. older.ticks \in Seq(W!RowType) /\ tables.ticks \in Seq(W!RowType) /\ ts \in Seq(W!RowType)
  BY RowTypes, SplitType
<1>2. /\ Len(older.ticks) \in Nat /\ Len(ts) \in Nat /\ Len(tables.ticks) = Len(older.ticks) + Len(ts)
      /\ \A i \in 1 .. Len(older.ticks) : tables.ticks[i] = older.ticks[i]
      /\ \A i \in 1 .. Len(ts) : tables.ticks[Len(older.ticks) + i] = ts[i]
  BY <1>0, <1>1, FT!Joined
<1>3. \A i \in 1 .. Len(ts) : ts[i].run = r /\ ts[i].key = None
  <2>1. Len(s) \in Nat /\ s \in [1 .. Len(s) -> W!RowType]
    OBVIOUS
  <2>2. \A i \in 1 .. Len(s) : s[i] \in Mine
    BY <2>1 DEF Logged
  <2>3. s \in [1 .. Len(s) -> Mine]
    BY <2>1, <2>2
  <2>4. s \in Seq(Mine)
    BY <2>1, <2>3, FunctionIsSeq
  <2>5. ts \in Seq({x \in Mine : x.key = None})
    BY <2>4, TicksOnly
  <2>6. ASSUME NEW i \in 1 .. Len(ts) PROVE ts[i].run = r /\ ts[i].key = None
    <3>1. ts[i] \in {x \in Mine : x.key = None}
      <4> HIDE DEF Mine, ts
      <4> QED BY <2>5, ElementOfSeq
    <3> HIDE DEF ts
    <3> QED BY <3>1
  <2> QED BY <2>6
<1> HIDE DEF ts
<1>4. ASSUME NEW S, \A x \in S : x.key = None
      PROVE  Number(tables.ticks, S) = Number(older.ticks, S) + Number(s, S)
  <2>1. Number(older.ticks \o ts, S) = Number(older.ticks, S) + Number(ts, S)
    BY <1>1, NumberJoined
  <2>2. Number(ts, S) = Number(s, S)
    BY <1>4, NumberOfTicks, SMTT(30) DEF ts
  <2> QED BY <1>0, <2>1, <2>2
<1>5. ASSUME NEW k \in Buckets, W!Newest(s, k, None) = None, tables.candles[k] # None
      PROVE  /\ tables.candles[k] = older.candles[k] /\ tables.candles[k].run < r
             /\ Counts(lg[tables.candles[k].run][tables.candles[k].number].count,
                       Number(tables.ticks, OfBucket(lg, tables.candles[k].run, k)), exact)
  <2> DEFINE row == older.candles[k]
             S == OfBucket(lg, row.run, k)
  <2>1. tables.candles[k] = row
    BY <1>0, <1>5, NewestIsRow
  <2>2. row # None /\ row.run < r /\ row \in W!RowType
    BY <1>5, <2>1, RowTypes DEF Older
  <2>3. Counts(lg[row.run][row.number].count, Number(older.ticks, S), exact)
    BY <2>2 DEF Sound
  <2>4. Number(s, S) = 0
    <3>1. row.run # r
      BY <2>2, RowTypes
    <3>2. \A i \in 1 .. Len(s) : s[i] \notin S
      BY <3>1 DEF Logged, OfBucket
    <3> HIDE DEF S
    <3> QED BY <3>2, NumberNone
  <2>5. Number(tables.ticks, S) = Number(older.ticks, S)
    <3>1. \A x \in S : x.key = None
      BY DEF OfBucket
    <3>2. Number(older.ticks, S) \in Nat
      BY <1>1, NumberType
    <3> HIDE DEF S
    <3>3. Number(tables.ticks, S) = Number(older.ticks, S) + Number(s, S)
      BY <1>4, <3>1
    <3> QED BY <2>4, <3>2, <3>3
  <2> QED BY <2>1, <2>2, <2>3, <2>5
<1>6. ASSUME NEW k \in Buckets, W!Newest(s, k, None) # None
      PROVE  /\ tables.candles[k].run = r
             /\ Counts(lg[tables.candles[k].run][tables.candles[k].number].count,
                       Number(tables.ticks, OfBucket(lg, tables.candles[k].run, k)), exact)
  <2> DEFINE row == W!Newest(s, k, None)
             S == OfBucket(lg, r, k)
  <2>1. tables.candles[k] = row
    BY <1>0, <1>6, NewestIsRow
  <2>2. row.run = r /\ Latest(lg, r, s)[k] = lg[r][row.number] /\ Latest(lg, r, s)[k] # None
    BY <1>6, LoggedRow
  <2>3. Counts(lg[r][row.number].count, Tally(lg, r, s)[k], exact)
    BY <2>2 DEF Whole, CountsOK
  <2>4. Tally(lg, r, s)[k] = Number(s, S) /\ Number(s, S) \in Nat
    BY NumberType DEF Tally
  <2>5. Number(older.ticks, S) = 0
    <3>1. \A i \in 1 .. Len(older.ticks) : older.ticks[i] \notin S
      <4> TAKE i \in 1 .. Len(older.ticks)
      <4>1. older.ticks[i] \in W!RowType /\ older.ticks[i].run < r
        BY <1>1, ElementOfSeq DEF Older
      <4>2. older.ticks[i].run \in Nat
        BY <4>1, RowFields
      <4>3. older.ticks[i].run # r
        BY <4>1, <4>2
      <4> QED BY <4>3 DEF OfBucket
    <3> HIDE DEF S
    <3> QED BY <3>1, NumberNone
  <2>6. Number(tables.ticks, S) = Number(s, S)
    <3>1. \A x \in S : x.key = None
      BY DEF OfBucket
    <3> HIDE DEF S
    <3>2. Number(tables.ticks, S) = Number(older.ticks, S) + Number(s, S)
      BY <1>4, <3>1
    <3> QED BY <2>4, <2>5, <3>2
  <2> HIDE DEF row, S
  <2>7. Counts(lg[r][row.number].count, Number(tables.ticks, S), exact)
    BY <2>3, <2>4, <2>6
  <2> QED BY <2>1, <2>2, <2>7 DEF S
<1>7. Sound(lg, tables, exact)
  BY <1>5, <1>6 DEF Sound
<1>8. \A i \in 1 .. Len(tables.ticks) : tables.ticks[i].run < r + 1 /\ tables.ticks[i].key = None
  <2> TAKE i \in 1 .. Len(tables.ticks)
  <2>1. CASE i \in 1 .. Len(older.ticks)
    <3>1. older.ticks[i].run < r /\ older.ticks[i].key = None /\ older.ticks[i] \in W!RowType
      BY <1>1, <2>1, ElementOfSeq DEF Older
    <3>2. older.ticks[i].run \in Nat
      BY <3>1, RowFields
    <3>3. tables.ticks[i] = older.ticks[i]
      BY <1>2, <2>1
    <3>4. older.ticks[i].run < r + 1
      BY <3>1, <3>2
    <3> QED BY <3>1, <3>3, <3>4
  <2>2. CASE i \notin 1 .. Len(older.ticks)
    <3>1. i - Len(older.ticks) \in 1 .. Len(ts) /\ i = Len(older.ticks) + (i - Len(older.ticks))
      BY <1>2, <2>2
    <3>2. tables.ticks[i] = ts[i - Len(older.ticks)]
      BY <1>2, <3>1
    <3>3. tables.ticks[i].run = r /\ tables.ticks[i].key = None
      BY <1>3, <3>1, <3>2
    <3> QED BY <3>3
  <2> QED BY <2>1, <2>2
<1>9. \A k \in Buckets : tables.candles[k] # None => tables.candles[k].run < r + 1
  <2> TAKE k \in Buckets
  <2>1. CASE W!Newest(s, k, None) = None /\ tables.candles[k] # None
    <3>1. tables.candles[k].run < r /\ tables.candles[k] \in W!RowType
      BY <1>5, <2>1, RowTypes
    <3>2. tables.candles[k].run \in Nat
      BY <3>1, RowTypes
    <3> QED BY <3>1, <3>2
  <2>2. CASE W!Newest(s, k, None) # None
    BY <1>6, <2>2
  <2> QED BY <2>1, <2>2
<1> QED BY <1>7, <1>8, <1>9 DEF Older

\* A log that says the same of the runs before r keeps the tables sound.
LEMMA SoundStays ==
  ASSUME NEW lg, NEW lh, NEW r \in Nat, NEW tables \in W!Tables, NEW exact,
         Older(tables, r), Sound(lg, tables, exact),
         \A q \in 1 .. MaxRuns : q < r => lh[q] = lg[q]
  PROVE  Sound(lh, tables, exact)
<1> SUFFICES ASSUME NEW k \in Buckets, tables.candles[k] # None
             PROVE  Counts(lh[tables.candles[k].run][tables.candles[k].number].count,
                           Number(tables.ticks, OfBucket(lh, tables.candles[k].run, k)), exact)
  BY DEF Sound
<1> DEFINE row == tables.candles[k]
<1>1. row \in W!RowType /\ row.run < r
  BY RowTypes DEF Older
<1>2. lh[row.run] = lg[row.run]
  BY <1>1, RowTypes
<1>3. OfBucket(lh, row.run, k) = OfBucket(lg, row.run, k)
  BY <1>2 DEF OfBucket
<1>4. Counts(lg[row.run][row.number].count, Number(tables.ticks, OfBucket(lg, row.run, k)), exact)
  BY DEF Sound
<1> QED BY <1>2, <1>3, <1>4

-----------------------------------------------------------------------------
(* What a tick records.                                                    *)

\* The rows of a tick: its own, and one of the candle, if there is one.
OwnRow == W!Row(1, None)

Recorded(time, cs, rows, entries) ==
  /\ cs = <<>> =>
       /\ rows = Append(recorded, OwnRow)
       /\ entries = Append(log[run], Tick(time))
  /\ cs # <<>> =>
       /\ rows = Append(Append(recorded, OwnRow), W!Row(2, cs[1].bucket))
       /\ entries = Append(Append(log[run], Tick(time)), cs[1])

\* A pair is a concatenation.
LEMMA PairIsConcat ==
  ASSUME NEW x, NEW y
  PROVE  <<x>> \o <<y>> = <<x, y>>
<1> DEFINE S == {x, y}
           p == <<x>> \o <<y>>
           q == <<x, y>>
<1>1. /\ <<x>> \in Seq(S) /\ Len(<<x>>) = 1 /\ <<x>>[1] = x
      /\ <<y>> \in Seq(S) /\ Len(<<y>>) = 1 /\ <<y>>[1] = y
  OBVIOUS
<1>2. q \in Seq(S) /\ Len(q) = 2 /\ q[1] = x /\ q[2] = y
  OBVIOUS
<1>3. p \in Seq(S) /\ Len(p) = 2 /\ p[1] = x /\ p[2] = y
  <2> HIDE DEF S
  <2> QED BY <1>1, ConcatProperties
<1> HIDE DEF p, q, S
<1>4. \A i \in 1 .. Len(p) : p[i] = q[i]
  BY <1>2, <1>3
<1>5. p = q
  BY <1>2, <1>3, <1>4, SeqEqual
<1> QED BY <1>5 DEF p, q

\* At most one candle.
LEMMA OneCandle ==
  ASSUME NEW cs \in Seq(CandleType), Len(cs) <= 1
  PROVE  cs = <<>> \/ (cs = <<cs[1]>> /\ cs # <<>> /\ cs[1] \in CandleType /\ DOMAIN cs = {1})
<1>1. Len(cs) \in Nat /\ DOMAIN cs = 1 .. Len(cs)
  OBVIOUS
<1>2. CASE Len(cs) = 0
  BY <1>2
<1>3. CASE Len(cs) = 1
  <2>1. cs[1] \in CandleType /\ DOMAIN cs = {1} /\ cs # <<>>
    BY <1>1, <1>3
  <2>2. <<cs[1]>> \in Seq(CandleType) /\ Len(<<cs[1]>>) = 1 /\ <<cs[1]>>[1] = cs[1]
    BY <2>1
  <2>3. cs = <<cs[1]>>
    BY <1>3, <2>2, SeqEqual
  <2> QED BY <2>1, <2>3
<1> QED BY <1>1, <1>2, <1>3

\* Handling a tick records these rows and logs what they contain.
LEMMA ProcessRecords ==
  ASSUME TypeOK, NEW time \in Times, Process(time)
  PROVE  /\ Recorded(time, CandleRows(agg, Tick(time)), recorded', log'[run])
         /\ CandleRows(agg, Tick(time)) \in Seq(CandleType)
         /\ Len(CandleRows(agg, Tick(time))) <= 1
         /\ agg' = C!TakePatch(C!Apply(agg, Tick(time)))
         /\ run' = run /\ base' = base
         /\ \A r \in 1 .. MaxRuns : r # run => log'[r] = log[r]
<1> DEFINE cs == CandleRows(agg, Tick(time))
           ks == [i \in DOMAIN cs |-> cs[i].bucket]
           keys == <<None>> \o ks
           rows == [i \in DOMAIN keys |-> W!Row(i, keys[i])]
<1>1. /\ recorded' = recorded \o rows
      /\ log' = [log EXCEPT ![run] = @ \o <<Tick(time)>> \o cs]
      /\ agg' = C!TakePatch(C!Apply(agg, Tick(time)))
      /\ UNCHANGED <<run, base>>
  BY DEF Process, W!Record
<1>2. cs \in Seq(CandleType) /\ Len(cs) <= 1
  BY MoreTypeFacts, ApplyType
<1>3. /\ run \in 1 .. MaxRuns /\ recorded \in Seq(W!RowType)
      /\ log \in [1 .. MaxRuns -> Seq(TickType \cup CandleType)]
      /\ log[run] \in Seq(TickType \cup CandleType)
      /\ Tick(time) \in TickType \cup CandleType
  BY TypeFacts, MoreTypeFacts, TickFacts
<1>4. log'[run] = (log[run] \o <<Tick(time)>>) \o cs
  <2> HIDE DEF cs
  <2> QED BY <1>1, <1>3
<1>5. \A r \in 1 .. MaxRuns : r # run => log'[r] = log[r]
  <2> HIDE DEF cs
  <2> QED BY <1>1, <1>3
<1> DEFINE r1 == OwnRow
           l1 == Append(log[run], Tick(time))
<1>6. l1 = log[run] \o <<Tick(time)>> /\ l1 \in Seq(TickType \cup CandleType)
  BY <1>3, AppendIsConcat
<1>7. /\ Recorded(time, cs, recorded', log'[run])
  <2>1. cs = <<>> \/ (cs = <<cs[1]>> /\ cs # <<>> /\ cs[1] \in CandleType /\ DOMAIN cs = {1})
    <3> HIDE DEF cs
    <3> QED BY <1>2, OneCandle
  <2> HIDE DEF cs
  <2>2. CASE cs = <<>>
    <3>1. keys = <<None>>
      <4>1. ks = <<>>
        BY <2>2
      <4> HIDE DEF ks
      <4>2. <<None>> \o <<>> = <<None>>
        OBVIOUS
      <4> QED BY <4>1, <4>2
    <3>2. rows = <<r1>>
      <4>1. rows = [i \in DOMAIN <<None>> |-> W!Row(i, <<None>>[i])]
        BY <3>1, Zenon
      <4>2. [i \in DOMAIN <<None>> |-> W!Row(i, <<None>>[i])] = <<W!Row(1, None)>>
        BY DEF W!Row
      <4> QED BY <4>1, <4>2 DEF OwnRow
    <3> HIDE DEF rows, keys, ks
    <3>3. r1 \in W!RowType
      <4>1. <<r1>> \in Seq(W!RowType)
        <5>1. handled < MaxTicks /\ <<>> \in Seq(CandleType) /\ Len(<<>>) <= 1
          BY DEF Process
        <5>2. rows \in Seq(W!RowType)
          <6>1. cs \in Seq(CandleType) /\ Len(cs) <= 1
            BY <1>2
          <6> QED BY <5>1, <6>1, RowsOfTick DEF rows, keys, ks
        <5> QED BY <3>2, <5>2
      <4>2. Len(<<r1>>) = 1 /\ <<r1>>[1] = r1 /\ 1 \in 1 .. 1
        OBVIOUS
      <4> HIDE DEF r1
      <4> QED BY <4>1, <4>2, ElementOfSeq
    <3>4. Append(recorded, r1) = recorded \o <<r1>>
      BY <1>3, <3>3, AppendIsConcat
    <3>5. l1 \o <<>> = l1
      BY <1>6, ConcatEmptySeq
    <3> HIDE DEF l1
    <3>6. recorded' = Append(recorded, OwnRow) /\ log'[run] = l1
      BY <1>1, <1>4, <1>6, <2>2, <3>2, <3>4, <3>5
    <3> QED BY <2>2, <3>6 DEF Recorded, l1
  <2>3. CASE cs = <<cs[1]>> /\ cs # <<>> /\ cs[1] \in CandleType /\ DOMAIN cs = {1}
    <3> DEFINE c == cs[1]
               r2 == W!Row(2, c.bucket)
    <3>1. keys = <<None, c.bucket>>
      <4>1. ks = [i \in {1} |-> cs[i].bucket]
        BY <2>3
      <4>2. [i \in {1} |-> cs[i].bucket] = <<c.bucket>>
        <5> HIDE DEF c
        <5>1. [i \in {1} |-> cs[i].bucket] = [i \in 1 .. 1 |-> cs[1].bucket]
          OBVIOUS
        <5>2. [i \in 1 .. 1 |-> cs[1].bucket] = <<cs[1].bucket>>
          OBVIOUS
        <5> QED BY <5>1, <5>2 DEF c
      <4> HIDE DEF ks, c
      <4>3. <<None>> \o <<c.bucket>> = <<None, c.bucket>>
        BY PairIsConcat
      <4> QED BY <4>1, <4>2, <4>3
    <3> HIDE DEF c
    <3>2. rows = <<r1, r2>>
      <4>1. rows = [i \in DOMAIN <<None, c.bucket>> |-> W!Row(i, <<None, c.bucket>>[i])]
        BY <3>1, Zenon
      <4>2. [i \in DOMAIN <<None, c.bucket>> |-> W!Row(i, <<None, c.bucket>>[i])]
              = <<W!Row(1, None), W!Row(2, c.bucket)>>
        BY DEF W!Row
      <4> QED BY <4>1, <4>2 DEF OwnRow
    <3>3. r1 \in W!RowType /\ r2 \in W!RowType
      <4>1. <<r1, r2>> \in Seq(W!RowType)
        <5>1. handled < MaxTicks
          BY DEF Process
        <5> HIDE DEF r1, r2
        <5>2. rows \in Seq(W!RowType)
          BY <1>2, <5>1, RowsOfTick
        <5> HIDE DEF rows
        <5> QED BY <3>2, <5>2
      <4>2. /\ Len(<<r1, r2>>) = 2 /\ <<r1, r2>>[1] = r1 /\ <<r1, r2>>[2] = r2
            /\ 1 \in 1 .. 2 /\ 2 \in 1 .. 2
        OBVIOUS
      <4> HIDE DEF r1, r2
      <4> QED BY <4>1, <4>2, ElementOfSeq
    <3> HIDE DEF rows, keys, ks, r1, r2
    <3>4. Append(Append(recorded, r1), r2) = recorded \o <<r1, r2>>
      BY <1>3, <3>3
    <3>5. Append(l1, c) = l1 \o <<c>>
      <4>1. c \in TickType \cup CandleType
        BY <2>3 DEF c
      <4> HIDE DEF l1
      <4> QED BY <1>6, <4>1, AppendIsConcat
    <3> HIDE DEF l1
    <3>6. recorded' = Append(Append(recorded, r1), r2) /\ log'[run] = Append(l1, c)
      BY <1>1, <1>4, <1>6, <2>3, <3>2, <3>4, <3>5 DEF c
    <3> QED BY <2>3, <3>6 DEF Recorded, l1, r1, r2, c
  <2> QED BY <2>1, <2>2, <2>3
<1> QED BY <1>1, <1>2, <1>5, <1>7

\* The log of the running process only grows.
LEMMA LogGrows ==
  ASSUME TypeOK, NEW time \in Times, Process(time)
  PROVE  /\ Len(log[run]) \in Nat /\ Len(log'[run]) \in Nat /\ Len(log[run]) + 1 <= Len(log'[run])
         /\ \A i \in 1 .. Len(log[run]) : log'[run][i] = log[run][i]
         /\ log'[run][Len(log[run]) + 1] = Tick(time)
         /\ CandleRows(agg, Tick(time)) # <<>> =>
              /\ Len(log'[run]) = Len(log[run]) + 2
              /\ log'[run][Len(log[run]) + 2] = CandleRows(agg, Tick(time))[1]
<1> DEFINE cs == CandleRows(agg, Tick(time))
           T == TickType \cup CandleType
           l0 == log[run]
           l1 == Append(l0, Tick(time))
<1>1. /\ l0 \in Seq(T) /\ Tick(time) \in T
      /\ cs \in Seq(CandleType) /\ Len(cs) <= 1
      /\ Recorded(time, cs, recorded', log'[run])
  BY TypeFacts, MoreTypeFacts, TickFacts, ProcessRecords
<1>2. /\ l1 \in Seq(T) /\ Len(l1) = Len(l0) + 1 /\ l1[Len(l0) + 1] = Tick(time) /\ Len(l0) \in Nat
      /\ \A i \in 1 .. Len(l0) : l1[i] = l0[i]
  <2> HIDE DEF cs, T
  <2> QED BY <1>1
<1>3. cs = <<>> => log'[run] = l1
  BY <1>1 DEF Recorded
<1>4. cs # <<>> => log'[run] = Append(l1, cs[1]) /\ cs[1] \in T
  <2>1. cs # <<>> => cs[1] \in CandleType
    <3> HIDE DEF cs
    <3> QED BY <1>1, OneCandle
  <2> QED BY <1>1, <2>1 DEF Recorded
<1> HIDE DEF cs, T, l0, l1
<1>5. CASE cs = <<>>
  BY <1>2, <1>3, <1>5 DEF l0, cs
<1>6. CASE cs # <<>>
  <2> DEFINE l2 == Append(l1, cs[1])
  <2>1. /\ Len(l2) = Len(l1) + 1 /\ l2[Len(l1) + 1] = cs[1]
        /\ \A i \in 1 .. Len(l1) : l2[i] = l1[i]
    BY <1>2, <1>4, <1>6
  <2>2. log'[run] = l2
    BY <1>4, <1>6
  <2> HIDE DEF l2
  <2>3. /\ Len(l2) = Len(l0) + 2 /\ l2[Len(l0) + 2] = cs[1] /\ l2[Len(l0) + 1] = Tick(time)
        /\ \A i \in 1 .. Len(l0) : l2[i] = l0[i]
    BY <1>2, <2>1
  <2> QED BY <1>2, <1>6, <2>2, <2>3 DEF l0, cs
<1> QED BY <1>5, <1>6

\* What is said of rows recorded before holds of the longer log.
LEMMA RowsStay ==
  ASSUME TypeOK, NEW time \in Times, Process(time), NEW s \in Seq(W!RowType), Logged(log, run, s)
  PROVE  /\ Logged(log', run, s) /\ Tally(log', run, s) = Tally(log, run, s)
         /\ Latest(log', run, s) = Latest(log, run, s)
<1>1. /\ Len(log[run]) \in Nat /\ Len(log'[run]) \in Nat /\ Len(log[run]) <= Len(log'[run])
      /\ \A i \in 1 .. Len(log[run]) : log'[run][i] = log[run][i]
  BY LogGrows
<1>2. \A i \in 1 .. Len(s) : log'[run][s[i].number] = log[run][s[i].number]
  BY <1>1 DEF Logged
<1> QED BY <1>1, <1>2, SameLog

\* A tick adds one to the tally of its bucket and its candle becomes the last.
LEMMA ProcessTallies ==
  ASSUME TypeOK, Logged(log, run, recorded), NEW time \in Times, Process(time)
  PROVE  /\ recorded' \in Seq(W!RowType) /\ Logged(log', run, recorded')
         /\ Tally(log', run, recorded') = Plus(Tally(log, run, recorded), C!BucketStart(time))
         /\ Latest(log', run, recorded') = Put(Latest(log, run, recorded), CandleRows(agg, Tick(time)))
<1> DEFINE cs == CandleRows(agg, Tick(time))
           row == OwnRow
           s1 == Append(recorded, row)
           b == C!BucketStart(time)
           n == Len(recorded)
<1>1. /\ recorded \in Seq(W!RowType) /\ n \in Nat /\ n + 2 <= 2 * MaxTicks
      /\ run \in 1 .. MaxRuns /\ Len(log[run]) = n
  <2>1. handled < MaxTicks
    BY DEF Process
  <2> QED BY <2>1, TypeFacts, MoreTypeFacts, ConstantFacts, SMTT(30)
<1>2. /\ Len(log'[run]) \in Nat /\ n + 1 <= Len(log'[run]) /\ log'[run][n + 1] = Tick(time)
      /\ cs # <<>> => Len(log'[run]) = n + 2 /\ log'[run][n + 2] = cs[1]
  BY <1>1, LogGrows
<1>3. /\ row \in W!RowType /\ row.run = run /\ row.key = None /\ row.number = n + 1
  <2>1. n + 1 \in 1 .. 2 * MaxTicks
    <3> HIDE DEF n
    <3> QED BY <1>1, ConstantFacts
  <2> QED BY <1>1, <2>1, RowTypes DEF OwnRow, W!Row
<1>4. /\ Logged(log', run, recorded) /\ Tally(log', run, recorded) = Tally(log, run, recorded)
      /\ Latest(log', run, recorded) = Latest(log, run, recorded)
  BY <1>1, RowsStay
<1>5. Tick(time) \in TickType /\ Tick(time).time = time
  BY TickFacts
<1>6. row.number \in 1 .. Len(log'[run]) /\ log'[run][row.number] = Tick(time)
  <2> HIDE DEF row, cs
  <2> QED BY <1>1, <1>2, <1>3
<1>7. /\ s1 \in Seq(W!RowType) /\ Logged(log', run, s1)
      /\ Tally(log', run, s1) = Plus(Tally(log, run, recorded), b)
      /\ Latest(log', run, s1) = Latest(log, run, recorded)
  <2> HIDE DEF row
  <2>1. /\ s1 \in Seq(W!RowType) /\ Logged(log', run, s1)
        /\ Tally(log', run, s1)
             = Plus(Tally(log', run, recorded), C!BucketStart(log'[run][row.number].time))
        /\ Latest(log', run, s1) = Latest(log', run, recorded)
    BY <1>1, <1>3, <1>4, <1>5, <1>6, TickRowAdds
  <2>2. log'[run][row.number].time = time
    BY <1>5, <1>6
  <2> HIDE DEF s1
  <2> QED BY <1>4, <2>1, <2>2
<1>8. cs \in Seq(CandleType) /\ Len(cs) <= 1 /\ Recorded(time, cs, recorded', log'[run])
  BY ProcessRecords
<1>9. CASE cs = <<>>
  <2>1. recorded' = s1
    BY <1>8, <1>9 DEF Recorded
  <2>2. Put(Latest(log, run, recorded), cs) = Latest(log, run, recorded)
    <3>1. Latest(log, run, recorded) = [k \in Buckets |-> Latest(log, run, recorded)[k]]
      BY DEF Latest
    <3> HIDE DEF cs
    <3> QED BY <1>9, <3>1 DEF Put
  <2> HIDE DEF s1, cs, b
  <2> QED BY <1>7, <2>1, <2>2 DEF cs, b
<1>10. CASE cs # <<>>
  <2> DEFINE c == cs[1]
             r2 == W!Row(2, c.bucket)
  <2>1. recorded' = Append(s1, r2)
    BY <1>8, <1>10 DEF Recorded
  <2>2. c \in CandleType /\ cs = <<c>>
    <3> HIDE DEF cs
    <3> QED BY <1>8, <1>10, OneCandle
  <2> HIDE DEF cs, c
  <2>3. r2 \in W!RowType /\ r2.run = run /\ r2.key = c.bucket /\ r2.number = n + 2
    <3>1. n + 2 \in 1 .. 2 * MaxTicks /\ c.bucket \in Buckets
      BY <1>1, <2>2, CandleFields
    <3> QED BY <1>1, <3>1, RowTypes DEF W!Row
  <2> HIDE DEF r2, s1, row, b
  <2>4. r2.number \in 1 .. Len(log'[run]) /\ log'[run][r2.number] = c
    BY <1>1, <1>2, <1>10, <2>3 DEF c
  <2>5. /\ Append(s1, r2) \in Seq(W!RowType) /\ Logged(log', run, Append(s1, r2))
        /\ Tally(log', run, Append(s1, r2)) = Tally(log', run, s1)
        /\ Latest(log', run, Append(s1, r2)) = Put(Latest(log', run, s1), <<c>>)
    BY <1>7, <2>2, <2>3, <2>4, CandleRowPuts
  <2> QED BY <1>7, <2>1, <2>2, <2>5 DEF cs, b
<1> QED BY <1>9, <1>10

-----------------------------------------------------------------------------
(* Every step keeps the candles in memory and in the file.                 *)

\* A late tick whose candle was recorded, and has since left the history.
EvictedLate(time) ==
  /\ agg.open[Symbol] # None /\ C!BucketStart(time) < agg.open[Symbol].bucket
  /\ \A i \in 1 .. Len(agg.history[Symbol]) : agg.history[Symbol][i].bucket # C!BucketStart(time)
  /\ Latest(log, run, recorded)[C!BucketStart(time)] # None

\* What a step shows when the cut of the next state is known.
LEMMA CutsStep ==
  ASSUME NEW exact \in BOOLEAN, NEW i, NEW j, Cut(i, j)',
         Whole(log', run', SubSeq(recorded', 1, i), exact),
         Whole(log', run', SubSeq(recorded', 1, j), exact)
  PROVE  CutsAreWhole(exact)'
<1>1. j \in 0 .. Len(recorded') /\ i \in 0 .. j
  BY DEF Cut
<1> QED BY <1>1 DEF CutsAreWhole

\* The parts of the invariant in the next state.
LEMMA CandleInvStep ==
  ASSUME NEW exact \in BOOLEAN,
         Logged(log', run', recorded'),
         MemoryOK(Tally(log', run', recorded'), Latest(log', run', recorded'),
                  agg'.open[Symbol], agg'.history[Symbol]),
         Whole(log', run', recorded', exact),
         Sound(log', base', exact), Older(base', run'),
         CutsAreWhole(exact)'
  PROVE  CandleInv(exact)'
BY DEF CandleInv

\* A prefix of rows in the log is in the log.
LEMMA PrefixLogged ==
  ASSUME NEW lg, NEW r, NEW s \in Seq(W!RowType), NEW n \in 0 .. Len(s)
  PROVE  /\ SubSeq(s, 1, n) \in Seq(W!RowType) /\ Len(SubSeq(s, 1, n)) = n
         /\ Logged(lg, r, s) => Logged(lg, r, SubSeq(s, 1, n))
<1> DEFINE p == SubSeq(s, 1, n)
<1>1. /\ Len(p) = n /\ n \in Nat /\ Len(s) \in Nat
      /\ \A i \in 1 .. n : p[i] = s[i] /\ i \in 1 .. Len(s)
      /\ p \in Seq(W!RowType)
  OBVIOUS
<1> HIDE DEF p
<1>2. Logged(lg, r, s) => Logged(lg, r, p)
  BY <1>1 DEF Logged
<1> QED BY <1>1, <1>2 DEF p

\* A prefix of the rows recorded stays one when more are recorded.
LEMMA PrefixStays ==
  ASSUME TypeOK, NEW time \in Times, Process(time), recorded' \in Seq(W!RowType),
         NEW n \in 0 .. Len(recorded)
  PROVE  SubSeq(recorded', 1, n) = SubSeq(recorded, 1, n)
<1> DEFINE cs == CandleRows(agg, Tick(time))
           s1 == Append(recorded, OwnRow)
           s2 == Append(s1, W!Row(2, cs[1].bucket))
<1>1. recorded \in Seq(W!RowType) /\ Len(recorded) \in Nat /\ recorded' \in Seq(W!RowType)
  BY TypeFacts
<1>2. /\ Len(s1) = Len(recorded) + 1 /\ \A i \in 1 .. Len(recorded) : s1[i] = recorded[i]
  BY <1>1
<1>3. recorded' = s1 \/ recorded' = s2
  BY ProcessRecords DEF Recorded
<1>4. Len(recorded) <= Len(recorded') /\ \A i \in 1 .. Len(recorded) : recorded'[i] = recorded[i]
  <2>1. CASE recorded' = s1
    <3> HIDE DEF s1
    <3> QED BY <1>1, <1>2, <2>1
  <2>2. CASE recorded' = s2
    <3> DEFINE T == W!RowType \cup {OwnRow}
    <3>1. recorded \in Seq(T) /\ OwnRow \in T
      BY <1>1, SeqSubset
    <3>2. Len(s1) \in Nat /\ Len(s2) = Len(s1) + 1 /\ \A i \in 1 .. Len(s1) : s2[i] = s1[i]
      <4> HIDE DEF T
      <4>1. s1 \in Seq(T)
        BY <3>1, AppendProperties
      <4> HIDE DEF s1
      <4> QED BY <4>1
    <3> HIDE DEF s1, s2
    <3> QED BY <1>1, <1>2, <2>2, <3>2
  <2> QED BY <1>3, <2>1, <2>2
<1> HIDE DEF s1, s2
<1>5. /\ SubSeq(recorded', 1, n) \in Seq(W!RowType) /\ Len(SubSeq(recorded', 1, n)) = n
      /\ SubSeq(recorded, 1, n) \in Seq(W!RowType) /\ Len(SubSeq(recorded, 1, n)) = n
      /\ \A i \in 1 .. n : SubSeq(recorded', 1, n)[i] = recorded'[i]
      /\ \A i \in 1 .. n : SubSeq(recorded, 1, n)[i] = recorded[i]
  BY <1>1, <1>4
<1>6. \A i \in 1 .. n : SubSeq(recorded', 1, n)[i] = SubSeq(recorded, 1, n)[i]
  BY <1>1, <1>4, <1>5
<1> QED BY <1>5, <1>6, SeqEqual

\* A tick keeps it; exactly, if its candle has not left the history.
LEMMA ProcessKeepsCandles ==
  ASSUME TypeOK, NEW exact \in BOOLEAN, CandleInv(exact), NEW time \in Times, Process(time),
         exact => NoneMissed(Latest(log, run, recorded), time)
  PROVE  CandleInv(exact)'
<1> DEFINE cs == CandleRows(agg, Tick(time))
           b == C!BucketStart(time)
           t == Tally(log, run, recorded)
           v == Latest(log, run, recorded)
           o == agg'.open[Symbol]
           h == agg'.history[Symbol]
<1>1. /\ Logged(log, run, recorded) /\ MemoryOK(t, v, agg.open[Symbol], agg.history[Symbol])
      /\ CountsOK(t, v, exact) /\ Sound(log, base, exact) /\ Older(base, run) /\ CutsAreWhole(exact)
  BY DEF CandleInv, Whole
<1>2. /\ recorded \in Seq(W!RowType) /\ base \in W!Tables /\ run \in Nat /\ agg \in AggregatorType
  BY TypeFacts, MoreTypeFacts
<1>3. /\ run' = run /\ base' = base /\ \A q \in 1 .. MaxRuns : q # run => log'[q] = log[q]
      /\ agg' = C!TakePatch(C!Apply(agg, Tick(time)))
  BY ProcessRecords
<1>4. /\ recorded' \in Seq(W!RowType) /\ Logged(log', run, recorded')
      /\ Tally(log', run, recorded') = Plus(t, b)
      /\ Latest(log', run, recorded') = Put(v, cs)
  BY <1>1, ProcessTallies
<1>5. Applied(time, o, h, cs)
  BY <1>3 DEF Applied
<1>6. exact => NoneMissed(v, time)
  OBVIOUS
<1> HIDE DEF cs, t, v, o, h
<1>7. MemoryOK(Plus(t, b), Put(v, cs), o, h) /\ CountsOK(Plus(t, b), Put(v, cs), exact)
  <2>1. MemoryOK(Plus(t, b), Put(v, cs), o, h)
    BY <1>1, <1>2, <1>5, MemoryStep
  <2>2. CountsOK(Plus(t, b), Put(v, cs), exact)
    BY <1>1, <1>2, <1>5, <1>6, CountsStep
  <2> QED BY <2>1, <2>2
<1>8. Sound(log', base', exact) /\ Older(base', run')
  <2>1. \A q \in 1 .. MaxRuns : q < run => log'[q] = log[q]
    BY <1>2, <1>3
  <2>2. Sound(log', base, exact)
    BY <1>1, <1>2, <2>1, SoundStays
  <2> QED BY <1>1, <1>3, <2>2
<1>9. CutsAreWhole(exact)'
  <2>1. PICK m \in 0 .. Len(recorded) : \E n \in 0 .. m :
          /\ Cut(n, m) /\ Whole(log, run, SubSeq(recorded, 1, n), exact)
          /\ Whole(log, run, SubSeq(recorded, 1, m), exact)
    BY <1>1 DEF CutsAreWhole
  <2>2. PICK n \in 0 .. m :
          /\ Cut(n, m) /\ Whole(log, run, SubSeq(recorded, 1, n), exact)
          /\ Whole(log, run, SubSeq(recorded, 1, m), exact)
    BY <2>1
  <2>3. Cut(n, m)'
    BY <2>2, ProcessKeeps
  <2>4. Len(recorded) \in Nat
    BY <1>2
  <2>5. ASSUME NEW i \in 0 .. Len(recorded), Whole(log, run, SubSeq(recorded, 1, i), exact)
        PROVE  Whole(log', run', SubSeq(recorded', 1, i), exact)
    <3> DEFINE p == SubSeq(recorded, 1, i)
    <3>1. p \in Seq(W!RowType) /\ Logged(log, run, p)
      BY <1>1, <1>2, PrefixLogged
    <3>2. SubSeq(recorded', 1, i) = p
      BY <1>4, PrefixStays
    <3> HIDE DEF p
    <3>3. Tally(log', run, p) = Tally(log, run, p) /\ Latest(log', run, p) = Latest(log, run, p)
      BY <3>1, RowsStay
    <3>4. Whole(log, run, p, exact)
      BY <2>5 DEF p
    <3>5. Whole(log', run, p, exact)
      BY <3>3, <3>4 DEF Whole
    <3> QED BY <1>3, <3>2, <3>5
  <2>6. m \in 0 .. Len(recorded) /\ n \in 0 .. Len(recorded)
    BY <2>4
  <2>7. /\ Whole(log', run', SubSeq(recorded', 1, n), exact)
        /\ Whole(log', run', SubSeq(recorded', 1, m), exact)
    BY <2>2, <2>5, <2>6
  <2> QED BY <2>3, <2>7, CutsStep
<1>10. Whole(log', run', recorded', exact)
  BY <1>3, <1>4, <1>7 DEF Whole
<1>11. MemoryOK(Tally(log', run', recorded'), Latest(log', run', recorded'),
                agg'.open[Symbol], agg'.history[Symbol])
  BY <1>3, <1>4, <1>7 DEF o, h
<1> QED BY <1>3, <1>4, <1>8, <1>9, <1>10, <1>11, CandleInvStep

\* A step of the writer, or one that stops a part, changes no candle.
LEMMA QuietKeepsCandles ==
  ASSUME NEW exact \in BOOLEAN, CandleInv(exact), CutsAreWhole(exact)',
         UNCHANGED <<log, run, recorded, base, agg>>
  PROVE  CandleInv(exact)'
<1>1. /\ Logged(log, run, recorded)
      /\ MemoryOK(Tally(log, run, recorded), Latest(log, run, recorded),
                  agg.open[Symbol], agg.history[Symbol])
      /\ Whole(log, run, recorded, exact)
      /\ Sound(log, base, exact) /\ Older(base, run)
  BY DEF CandleInv
<1>2. log' = log /\ run' = run /\ recorded' = recorded /\ base' = base /\ agg' = agg
  OBVIOUS
<1> QED BY <1>1, <1>2, CandleInvStep

\* The writer takes and commits whole cuts.
LEMMA WriterKeepsCandles ==
  ASSUME TypeOK, OneFlusher, NEW exact \in BOOLEAN, CandleInv(exact), Writer
  PROVE  CandleInv(exact)'
<1>1. UNCHANGED <<log, run, recorded, base, agg>>
  BY DEF Writer, W!Loop, W!Stopper, W!FlushStep, W!Raise, W!Write, W!Commit, W!Close,
         W!LoopStarts, W!LoopWakes, W!Join
<1>2. Whole(log, run, recorded, exact) /\ CutsAreWhole(exact)
  BY DEF CandleInv
<1>3. PICK m \in 0 .. Len(recorded) : \E n \in 0 .. m :
        /\ Cut(n, m) /\ Whole(log, run, SubSeq(recorded, 1, n), exact)
        /\ Whole(log, run, SubSeq(recorded, 1, m), exact)
  BY <1>2 DEF CutsAreWhole
<1>4. PICK n \in 0 .. m :
        /\ Cut(n, m) /\ Whole(log, run, SubSeq(recorded, 1, n), exact)
        /\ Whole(log, run, SubSeq(recorded, 1, m), exact)
  BY <1>3
<1>5. SubSeq(recorded, 1, Len(recorded)) = recorded
  BY TypeFacts, SubSeqFull
<1>6. PICK i \in {n, m} : \E j \in {m, Len(recorded)} : Cut(i, j)'
  BY <1>4, WriterKeepsCut
<1>7. PICK j \in {m, Len(recorded)} : Cut(i, j)'
  BY <1>6, SMTT(30)
<1>8. /\ Whole(log, run, SubSeq(recorded, 1, i), exact)
      /\ Whole(log, run, SubSeq(recorded, 1, j), exact)
  BY <1>2, <1>4, <1>5, Zenon
<1>9. log' = log /\ run' = run /\ recorded' = recorded
  BY <1>1
<1>10. CutsAreWhole(exact)'
  BY <1>7, <1>8, <1>9, CutsStep
<1> QED BY <1>1, <1>10, QuietKeepsCandles

\* So do the steps of lifespan,
LEMMA LifespanKeepsCandles ==
  ASSUME TypeOK, OneFlusher, NEW exact \in BOOLEAN, CandleInv(exact),
         \/ StopClient \/ StopPipeline \/ StopWriter
         \/ UNCHANGED vars
  PROVE  CandleInv(exact)'
<1>1. UNCHANGED <<log, run, recorded, base, agg>>
  BY DEF StopClient, StopPipeline, StopWriter, W!Stop, vars, writerVars
<1>2. CutsAreWhole(exact)
  BY DEF CandleInv
<1>3. PICK m \in 0 .. Len(recorded) : \E n \in 0 .. m :
        /\ Cut(n, m) /\ Whole(log, run, SubSeq(recorded, 1, n), exact)
        /\ Whole(log, run, SubSeq(recorded, 1, m), exact)
  BY <1>2 DEF CutsAreWhole
<1>4. PICK n \in 0 .. m :
        /\ Cut(n, m) /\ Whole(log, run, SubSeq(recorded, 1, n), exact)
        /\ Whole(log, run, SubSeq(recorded, 1, m), exact)
  BY <1>3
<1>5. Cut(n, m)'
  <2>1. CASE StopClient \/ StopPipeline \/ StopWriter
    BY <1>4, <2>1, LifespanKeeps
  <2>2. CASE UNCHANGED vars
    BY <1>4, <2>2 DEF vars, writerVars, Cut, Taken, W!Holds
  <2> QED BY <2>1, <2>2
<1>6. log' = log /\ run' = run /\ recorded' = recorded
  BY <1>1
<1>7. CutsAreWhole(exact)'
  BY <1>4, <1>5, <1>6, CutsStep
<1> QED BY <1>1, <1>7, QuietKeepsCandles

\* What is said of the file is said of its two tables.
LEMMA FileIsSound ==
  ASSUME TypeOK, NEW exact \in BOOLEAN, CandleInv(exact)
  PROVE  Sound(log, db, exact) /\ Older(db, run + 1)
<1>1. Logged(log, run, recorded) /\ Sound(log, base, exact) /\ Older(base, run) /\ CutsAreWhole(exact)
  BY DEF CandleInv
<1>2. PICK m \in 0 .. Len(recorded) : \E n \in 0 .. m :
        /\ Cut(n, m) /\ Whole(log, run, SubSeq(recorded, 1, n), exact)
        /\ Whole(log, run, SubSeq(recorded, 1, m), exact)
  BY <1>1 DEF CutsAreWhole
<1>3. PICK n \in 0 .. m : Cut(n, m) /\ Whole(log, run, SubSeq(recorded, 1, n), exact)
  BY <1>2
<1> DEFINE s == SubSeq(recorded, 1, n)
<1>4. recorded \in Seq(W!RowType) /\ db \in W!Tables /\ base \in W!Tables /\ run \in Nat
      /\ Len(recorded) \in Nat /\ n \in 0 .. Len(recorded)
  BY <1>3, TypeFacts
<1>5. s \in Seq(W!RowType) /\ Logged(log, run, s)
  BY <1>1, <1>4, PrefixLogged
<1>6. OnTop(base, s, db)
  BY <1>3 DEF Cut, W!Holds, OnTop
<1>7. Whole(log, run, s, exact)
  BY <1>3
<1> HIDE DEF s
<1>8. /\ Logged(log, run, s) /\ Older(base, run) /\ Sound(log, base, exact) /\ Whole(log, run, s, exact)
      /\ run \in Nat /\ s \in Seq(W!RowType) /\ base \in W!Tables /\ db \in W!Tables
  BY <1>1, <1>4, <1>5, <1>7
<1> QED BY <1>6, <1>8, HoldsIsSound

\* No candle was recorded by a process that recorded nothing.
LEMMA NothingRecorded ==
  ASSUME NEW lg, NEW r, NEW exact \in BOOLEAN
  PROVE  /\ Logged(lg, r, <<>>) /\ Whole(lg, r, <<>>, exact)
         /\ MemoryOK(Tally(lg, r, <<>>), Latest(lg, r, <<>>),
                     C!EmptyAggregator.open[Symbol], C!EmptyAggregator.history[Symbol])
<1>1. /\ \A k \in Buckets : Tally(lg, r, <<>>)[k] = 0
      /\ Tally(lg, r, <<>>) \in [Buckets -> Nat]
  BY NumberEmpty DEF Tally
<1>2. /\ \A k \in Buckets : Latest(lg, r, <<>>)[k] = None
      /\ Latest(lg, r, <<>>) \in [Buckets -> CandleType \cup {None}]
  BY NewestEmpty DEF Latest
<1>3. /\ C!EmptyAggregator.open[Symbol] = None /\ C!EmptyAggregator.history[Symbol] = <<>>
      /\ <<>> \in Seq(CandleType) /\ Len(<<>>) = 0
  BY DEF C!EmptyAggregator
<1>4. Logged(lg, r, <<>>)
  BY <1>3 DEF Logged
<1>5. Whole(lg, r, <<>>, exact)
  BY <1>2 DEF Whole, CountsOK
<1>6. MemoryOK(Tally(lg, r, <<>>), Latest(lg, r, <<>>), None, <<>>)
  <2> DEFINE t == Tally(lg, r, <<>>)
             v == Latest(lg, r, <<>>)
             e == <<>>
  <2>1. \A i \in 1 .. Len(e) : FALSE
    BY <1>3
  <2>2. e \in Seq(CandleType) /\ Len(e) = 0
    BY <1>3
  <2> HIDE DEF t, v, e
  <2>3. MemoryOK(t, v, None, e)
    BY <1>1, <1>2, <2>1, <2>2 DEF MemoryOK, t, v
  <2> QED BY <2>3 DEF t, v, e
<1> QED BY <1>3, <1>4, <1>5, <1>6

\* A new process starts on a sound file,
LEMMA RestartKeepsCandles ==
  ASSUME IInv, NEW exact \in BOOLEAN, CandleInv(exact), Restart
  PROVE  CandleInv(exact)'
<1>1. TypeOK
  BY DEF IInv
<1>2. /\ run' = run + 1 /\ recorded' = <<>> /\ base' = db /\ db' = db /\ log' = log
      /\ agg' = C!EmptyAggregator /\ tickBuf' = <<>> /\ candleBuf' = <<>> /\ pc' = W!Fresh
      /\ rowsWritten' = 0
  BY DEF Restart, W!Restart
<1>3. Sound(log', base', exact) /\ Older(base', run')
  BY <1>1, <1>2, FileIsSound
<1>4. (\E j \in 0 .. Len(recorded) : \E i \in 0 .. j : Cut(i, j))'
  BY <1>1, <1>2, TypeFacts, EmptyCut
<1>5. PICK j \in 0 .. Len(recorded') : \E i \in 0 .. j : Cut(i, j)'
  BY <1>4
<1>6. PICK i \in 0 .. j : Cut(i, j)'
  BY <1>5
<1>7. Len(<<>>) = 0 /\ SubSeq(<<>>, 1, 0) = <<>>
  OBVIOUS
<1>8. j = 0 /\ i = 0
  BY <1>2, <1>7
<1>9. Whole(log', run', <<>>, exact)
  BY NothingRecorded
<1>10. SubSeq(recorded', 1, i) = <<>> /\ SubSeq(recorded', 1, j) = <<>>
  BY <1>2, <1>7, <1>8
<1>11. CutsAreWhole(exact)'
  BY <1>6, <1>9, <1>10, CutsStep
<1>12. /\ Logged(log', run', recorded') /\ Whole(log', run', recorded', exact)
       /\ MemoryOK(Tally(log', run', recorded'), Latest(log', run', recorded'),
                   agg'.open[Symbol], agg'.history[Symbol])
  BY <1>2, NothingRecorded
<1> QED BY <1>3, <1>11, <1>12, CandleInvStep

\* and the first one on an empty one.
LEMMA InitCandles ==
  ASSUME Init, NEW exact \in BOOLEAN
  PROVE  CandleInv(exact)
<1>1. /\ recorded = <<>> /\ base = W!NoRows /\ agg = C!EmptyAggregator
  BY DEF Init, W!Init
<1>2. Sound(log, base, exact) /\ Older(base, run)
  <2>1. base = [ticks |-> <<>>, candles |-> [k \in Buckets |-> None]]
    BY <1>1 DEF W!NoRows
  <2>2. base.ticks = <<>> /\ \A k \in Buckets : base.candles[k] = None
    BY <2>1
  <2>3. Len(<<>>) = 0
    OBVIOUS
  <2> QED BY <2>2, <2>3 DEF Sound, Older
<1>3. PICK m \in 0 .. Len(recorded) : \E n \in 0 .. m : Cut(n, m)
  BY InitIInv DEF IInv
<1>4. PICK n \in 0 .. m : Cut(n, m)
  BY <1>3
<1>5. Len(<<>>) = 0 /\ SubSeq(<<>>, 1, 0) = <<>>
  OBVIOUS
<1>6. n = 0 /\ m = 0
  BY <1>1, <1>5
<1>7. SubSeq(recorded, 1, n) = <<>> /\ SubSeq(recorded, 1, m) = <<>>
  BY <1>1, <1>5, <1>6
<1>8. CutsAreWhole(exact)
  BY <1>4, <1>7, NothingRecorded DEF CutsAreWhole
<1>9. /\ Logged(log, run, recorded) /\ Whole(log, run, recorded, exact)
      /\ MemoryOK(Tally(log, run, recorded), Latest(log, run, recorded),
                  agg.open[Symbol], agg.history[Symbol])
  BY <1>1, NothingRecorded
<1> QED BY <1>2, <1>8, <1>9 DEF CandleInv

\* No tick comes after its candle was recorded and left the history.
NoneEvictedLate == \A time \in Times : Process(time) => ~EvictedLate(time)

\* Every step keeps the candles, exactly as long as there is no such tick.
LEMMA NextKeepsCandles ==
  ASSUME IInv, NEW exact \in BOOLEAN, CandleInv(exact), [Next]_vars, exact => NoneEvictedLate
  PROVE  CandleInv(exact)'
<1>1. TypeOK /\ OneFlusher
  BY DEF IInv
<1>2. ASSUME NEW time \in Times, Process(time) PROVE CandleInv(exact)'
  <2>1. exact => NoneMissed(Latest(log, run, recorded), time)
    BY <1>2 DEF NoneEvictedLate, EvictedLate, NoneMissed, MissesWay
  <2> QED BY <1>1, <1>2, <2>1, ProcessKeepsCandles
<1>3. CASE StopClient \/ StopPipeline \/ StopWriter \/ UNCHANGED vars
  BY <1>1, <1>3, LifespanKeepsCandles
<1>4. CASE Writer
  BY <1>1, <1>4, WriterKeepsCandles
<1>5. CASE Restart
  BY <1>5, RestartKeepsCandles
<1> QED BY <1>2, <1>3, <1>4, <1>5 DEF Next

\* What the last flush of stop() leaves.
LEMMA NextTakesAll ==
  ASSUME IInv, StopTakesAll, [Next]_vars
  PROVE  StopTakesAll'
<1>1. TypeOK /\ OneFlusher
  BY DEF IInv
<1>2. ASSUME NEW time \in Times, Process(time) PROVE StopTakesAll'
  <2>1. phase \in {"serving", "clientStopped"} /\ pc' = pc
    BY <1>2 DEF Process, W!Record
  <2>2. ~stop
    BY <1>1, <2>1, MoreTypeFacts
  <2>3. pc'["stop"] = "idle"
    BY <1>1, <2>1, <2>2 DEF OneFlusher
  <2> QED BY <2>3 DEF StopTakesAll, W!Stages
<1>3. ASSUME UNCHANGED <<tickBuf, candleBuf>>,
             pc'["stop"] \in W!Stages \cup {"stopped"} => pc["stop"] \in W!Stages \cup {"stopped"}
      PROVE  StopTakesAll'
  BY <1>3 DEF StopTakesAll
<1>4. CASE StopClient \/ StopPipeline \/ UNCHANGED vars
  BY <1>3, <1>4 DEF StopClient, StopPipeline, vars, writerVars
<1>5. "loop" \in W!Flushers /\ "stop" \in W!Flushers /\ W!Flushers = {"loop", "stop"}
  BY DEF W!Flushers
<1>6. CASE StopWriter
  <2>1. pc' = [pc EXCEPT !["stop"] = IF pc["loop"] = "raised" THEN "raised" ELSE "join"]
    BY <1>6 DEF StopWriter, W!Stop
  <2>2. pc'["stop"] \in {"raised", "join"}
    BY <1>1, <1>5, <2>1, PcStep
  <2> QED BY <2>2 DEF StopTakesAll, W!Stages
<1>7. ASSUME NEW x, pc' = [pc EXCEPT !["loop"] = x], UNCHANGED <<tickBuf, candleBuf>> PROVE StopTakesAll'
  <2>1. pc'["stop"] = pc["stop"]
    BY <1>1, <1>5, <1>7, PcStep
  <2> QED BY <1>3, <1>7, <2>1
<1>8. ASSUME W!LoopWakes PROVE StopTakesAll'
  <2>1. CASE tickBuf = <<>> /\ candleBuf = <<>>
    BY <1>7, <1>8, <2>1 DEF W!LoopWakes, W!BeginFlush
  <2>2. CASE ~(tickBuf = <<>> /\ candleBuf = <<>>)
    BY <1>8, <2>2 DEF W!LoopWakes, W!BeginFlush, StopTakesAll
  <2> QED BY <2>1, <2>2
<1>9. ASSUME W!Join PROVE StopTakesAll'
  <2>1. CASE W!BeginFlush("stop")
    BY <2>1 DEF W!BeginFlush, StopTakesAll
  <2>2. CASE pc' = [pc EXCEPT !["stop"] = "raised"]
    <3>1. pc'["stop"] = "raised"
      BY <1>1, <1>5, <2>2, PcStep
    <3> QED BY <3>1 DEF StopTakesAll, W!Stages
  <2> QED BY <1>9, <2>1, <2>2 DEF W!Join
<1>10. ASSUME NEW f \in W!Flushers, pc[f] \in W!Stages, NEW x, pc' = [pc EXCEPT ![f] = x],
              UNCHANGED <<tickBuf, candleBuf>>
       PROVE  StopTakesAll'
  <2>1. CASE f = "loop"
    BY <1>7, <1>10, <2>1
  <2>2. CASE f = "stop"
    BY <1>3, <1>10, <2>2
  <2> QED BY <1>5, <2>1, <2>2
<1>11. ASSUME W!LoopStarts PROVE StopTakesAll'
  BY <1>7, <1>11 DEF W!LoopStarts
<1>12. ASSUME NEW f \in W!Flushers, W!FlushStep(f) \/ W!Raise(f) PROVE StopTakesAll'
  BY <1>10, <1>12 DEF W!FlushStep, W!Write, W!Commit, W!Close, W!Raise, W!Stages
<1>13. CASE Writer
  BY <1>5, <1>8, <1>9, <1>11, <1>12, <1>13 DEF Writer, W!Loop, W!Stopper
<1>14. CASE Restart
  <2>1. tickBuf' = <<>> /\ candleBuf' = <<>>
    BY <1>14 DEF Restart, W!Restart
  <2> QED BY <2>1 DEF StopTakesAll
<1> QED BY <1>2, <1>4, <1>6, <1>13, <1>14 DEF Next

\* After stop() returned, all that was recorded is in the file.
LEMMA StoppedHoldsAll ==
  ASSUME IInv, StopTakesAll, pc["stop"] = "stopped"
  PROVE  W!Holds(Len(recorded))
<1>1. TypeOK /\ OneFlusher
  BY DEF IInv
<1>2. PICK m \in 0 .. Len(recorded) : \E n \in 0 .. m : Cut(n, m)
  BY DEF IInv
<1>3. PICK n \in 0 .. m : Cut(n, m)
  BY <1>2
<1>4. recorded \in Seq(W!RowType) /\ Len(recorded) \in Nat
  BY <1>1, TypeFacts
<1>5. n = m
  <2>1. \A f \in W!Flushers : pc[f] \notin PreCommit \cup {"raised"}
    BY <1>1 DEF OneFlusher, W!Flushers, PreCommit
  <2> QED BY <1>3, <2>1 DEF Cut
<1>6. tickBuf = <<>> /\ candleBuf = <<>>
  BY DEF StopTakesAll
<1> DEFINE rest == SubSeq(recorded, m + 1, Len(recorded))
<1>7. rest \in Seq(W!RowType) /\ Len(rest) = Len(recorded) - m
  BY <1>4
<1>8. W!TicksOf(rest) = <<>> /\ W!CandlesOf(rest) = <<>>
  BY <1>3, <1>6 DEF Cut
<1> HIDE DEF rest
<1>9. Len(W!TicksOf(rest)) + Len(W!CandlesOf(rest)) = Len(rest)
  BY <1>7, SplitType
<1>10. Len(W!TicksOf(rest)) = 0 /\ Len(W!CandlesOf(rest)) = 0
  <2>1. \A s : s = <<>> => Len(s) = 0
    OBVIOUS
  <2> QED BY <1>8, <2>1
<1>11. m = Len(recorded)
  BY <1>4, <1>7, <1>9, <1>10
<1> QED BY <1>3, <1>5, <1>11 DEF Cut

-----------------------------------------------------------------------------
(* The properties.                                                         *)

\* The tick rows in the file are those that are counted.
LEMMA TickRowsCounted ==
  ASSUME TypeOK, Older(db, run + 1), NEW r, NEW k
  PROVE  Cardinality(TickRows(r, k)) = Number(db.ticks, OfBucket(log, r, k))
<1>1. db.ticks \in Seq(W!RowType) /\ DOMAIN db.ticks = 1 .. Len(db.ticks)
  BY TypeFacts
<1>2. ASSUME NEW i \in 1 .. Len(db.ticks)
      PROVE  db.ticks[i] \in OfBucket(log, r, k)
               <=> db.ticks[i].run = r /\ C!BucketStart(Content(db.ticks[i]).time) = k
  <2>1. db.ticks[i] \in W!RowType /\ db.ticks[i].key = None
    BY <1>1, <1>2, ElementOfSeq DEF Older
  <2> QED BY <2>1 DEF OfBucket, Content
<1>3. TickRows(r, k) = {i \in 1 .. Len(db.ticks) : db.ticks[i] \in OfBucket(log, r, k)}
  BY <1>1, <1>2 DEF TickRows
<1> QED BY <1>3 DEF Number

\* A sound file: the count of every candle row against the ticks in the file.
LEMMA SoundFile ==
  ASSUME IInv, NEW exact \in BOOLEAN, CandleInv(exact)
  PROVE  \A k \in Buckets : db.candles[k] # None =>
           Counts(Content(db.candles[k]).count, Cardinality(TickRows(db.candles[k].run, k)), exact)
<1>1. TypeOK
  BY DEF IInv
<1>2. Sound(log, db, exact) /\ Older(db, run + 1)
  BY <1>1, FileIsSound
<1> TAKE k \in Buckets
<1> HAVE db.candles[k] # None
<1>3. Cardinality(TickRows(db.candles[k].run, k))
        = Number(db.ticks, OfBucket(log, db.candles[k].run, k))
  BY <1>1, <1>2, TickRowsCounted
<1> QED BY <1>2, <1>3 DEF Sound, Content

\* How many numbers of a set are smaller.
Rank(set, x) == Cardinality({y \in set : y < x})

\* The rank of a number in a set grows with the number.
LEMMA RankGrows ==
  ASSUME NEW set \in SUBSET Nat, IsFiniteSet(set), NEW x \in set, NEW z \in set, z < x
  PROVE  Rank(set, z) < Rank(set, x) /\ Rank(set, z) \in Nat /\ Rank(set, x) \in Nat
<1> DEFINE below == {y \in set : y < z}
           under == {y \in set : y < x}
<1>1. IsFiniteSet(below) /\ IsFiniteSet(under)
  BY FS_Subset
<1>2. z \notin below /\ below \cup {z} \subseteq under
  <2>1. z \in Nat /\ x \in Nat /\ \A y \in set : y \in Nat
    OBVIOUS
  <2>2. \A y \in set : y < z => y < x
    BY <2>1
  <2>3. ~(z < z)
    BY <2>1
  <2> QED BY <2>2, <2>3
<1> HIDE DEF below, under
<1>3. Cardinality(below \cup {z}) = Cardinality(below) + 1
  BY <1>1, <1>2, FS_AddElement
<1>4. Cardinality(below \cup {z}) <= Cardinality(under)
  BY <1>1, <1>2, FS_Subset
<1>5. Cardinality(below) \in Nat /\ Cardinality(under) \in Nat
  BY <1>1, FS_CardinalityType
<1>6. Cardinality(below) < Cardinality(under)
  BY <1>3, <1>4, <1>5
<1> QED BY <1>5, <1>6 DEF Rank, below, under

\* Every number of a finite set is in its ascending sequence.
LEMMA AscendingCovers ==
  ASSUME NEW set \in SUBSET Nat, IsFiniteSet(set), NEW x \in set
  PROVE  /\ Cardinality(set) \in Nat
         /\ DOMAIN Ascending(set) = 1 .. Cardinality(set)
         /\ \E i \in 1 .. Cardinality(set) : Ascending(set)[i] = x
<1> DEFINE under == {y \in set : y < x}
           i == Rank(set, x) + 1
<1>1. IsFiniteSet(under) /\ under \subseteq set \ {x}
  BY FS_Subset
<1>2. Cardinality(set \ {x}) = Cardinality(set) - 1 /\ IsFiniteSet(set \ {x})
  BY FS_RemoveElement
<1>3. Rank(set, x) = Cardinality(under)
  BY DEF Rank
<1> HIDE DEF under
<1>4. Cardinality(under) \in Nat /\ Cardinality(set) \in Nat /\ Cardinality(under) <= Cardinality(set \ {x})
  BY <1>1, <1>2, FS_Subset, FS_CardinalityType
<1>5. i \in 1 .. Cardinality(set)
  BY <1>2, <1>3, <1>4
<1>6. Rank(set, x) = i - 1 /\ i \in Nat
  BY <1>3, <1>4
<1>7. Ascending(set)[i] = CHOOSE z \in set : Rank(set, z) = i - 1
  <2> HIDE DEF i
  <2> QED BY <1>5 DEF Ascending, Rank
<1>8. ASSUME NEW z \in set, Rank(set, z) = i - 1 PROVE z = x
  <2>1. z \in Nat /\ x \in Nat /\ (z < x \/ x < z \/ z = x)
    OBVIOUS
  <2>2. ~(z < x)
    <3> SUFFICES ASSUME z < x PROVE FALSE
      OBVIOUS
    <3>1. Rank(set, z) < Rank(set, x) /\ Rank(set, z) \in Nat /\ Rank(set, x) \in Nat
      BY RankGrows
    <3> HIDE DEF i
    <3> QED BY <1>6, <1>8, <3>1
  <2>3. ~(x < z)
    <3> SUFFICES ASSUME x < z PROVE FALSE
      OBVIOUS
    <3>1. Rank(set, x) < Rank(set, z) /\ Rank(set, z) \in Nat /\ Rank(set, x) \in Nat
      BY RankGrows
    <3> HIDE DEF i
    <3> QED BY <1>6, <1>8, <3>1
  <2> QED BY <2>1, <2>2, <2>3
<1>9. DOMAIN Ascending(set) = 1 .. Cardinality(set)
  BY DEF Ascending
<1> HIDE DEF i
<1>10. Ascending(set)[i] = x
  BY <1>6, <1>7, <1>8
<1> QED BY <1>4, <1>5, <1>9, <1>10

\* The last ones of a sequence are in it; all of it, if there are no more.
LEMMA LastOfFacts ==
  ASSUME NEW T, NEW s \in Seq(T), NEW limit \in Nat
  PROVE  /\ \A x \in ToSet(LastOf(s, limit)) : \E i \in 1 .. Len(s) : x = s[i]
         /\ Len(s) <= limit => LastOf(s, limit) = s
<1> DEFINE first == 1 + IF Len(s) > limit THEN Len(s) - limit ELSE 0
           p == SubSeq(s, first, Len(s))
<1>1. Len(s) \in Nat /\ first \in Nat \ {0} /\ first <= Len(s) + 1 /\ LastOf(s, limit) = p
  BY DEF LastOf
<1>2. Len(s) <= limit => first = 1
  OBVIOUS
<1> HIDE DEF first
<1>3. /\ DOMAIN p = 1 .. Len(s) + 1 - first
      /\ \A i \in 1 .. Len(s) + 1 - first : p[i] = s[first + i - 1] /\ first + i - 1 \in 1 .. Len(s)
  BY <1>1
<1>4. Len(s) <= limit => p = s
  BY <1>2, SubSeqFull
<1> HIDE DEF p
<1>5. ASSUME NEW x \in ToSet(p) PROVE \E i \in 1 .. Len(s) : x = s[i]
  <2>1. PICK i \in DOMAIN p : x = p[i]
    BY DEF ToSet
  <2> QED BY <1>3, <2>1
<1> QED BY <1>1, <1>4, <1>5

\* A closed candle in memory is one of the history.
LEMMA ClosedInHistory ==
  ASSUME TypeOK, CandleInv(FALSE), NEW c \in ToSet(MemoryCandles(Cardinality(Buckets))), c.closed
  PROVE  \E i \in 1 .. Len(agg.history[Symbol]) : c = agg.history[Symbol][i]
<1> DEFINE h == agg.history[Symbol]
           o == agg.open[Symbol]
           all == Cardinality(Buckets)
<1>1. h \in Seq(CandleType) /\ o \in CandleType \cup {None} /\ (o # None => ~o.closed)
  BY DEF CandleInv, MemoryOK
<1>2. all \in Nat /\ MemoryCandles(all) = LastOf(h \o IfAny(o), all)
  BY BucketsFinite DEF MemoryCandles
<1> HIDE DEF h, o, all
<1>3. CASE o = None
  <2>1. IfAny(o) = <<>> /\ h \o <<>> = h
    BY <1>1, <1>3, ConcatEmptySeq DEF IfAny
  <2>2. MemoryCandles(all) = LastOf(h, all)
    BY <1>2, <2>1
  <2> QED BY <1>1, <1>2, <2>2, LastOfFacts DEF h, all
<1>4. CASE o # None
  <2>1. IfAny(o) = <<o>> /\ o \in CandleType
    BY <1>1, <1>4 DEF IfAny
  <2>2. h \o <<o>> = Append(h, o) /\ Append(h, o) \in Seq(CandleType)
    BY <1>1, <2>1, AppendIsConcat
  <2>3. MemoryCandles(all) = LastOf(Append(h, o), all)
    BY <1>2, <2>1, <2>2
  <2>4. PICK i \in 1 .. Len(Append(h, o)) : c = Append(h, o)[i]
    BY <1>2, <2>2, <2>3, LastOfFacts, ZenonT(60) DEF all
  <2>5. /\ Len(Append(h, o)) = Len(h) + 1 /\ Append(h, o)[Len(h) + 1] = o /\ Len(h) \in Nat
        /\ \A j \in 1 .. Len(h) : Append(h, o)[j] = h[j]
    BY <1>1, <2>1
  <2>6. i # Len(h) + 1
    BY <1>1, <1>4, <2>4, <2>5
  <2>7. i \in 1 .. Len(h) /\ c = h[i]
    <3>1. i \in 1 .. Len(h)
      BY <2>4, <2>5, <2>6
    <3> QED BY <2>4, <2>5, <3>1
  <2> QED BY <2>7 DEF h
<1> QED BY <1>3, <1>4

\* Every candle row of the file is shown.
LEMMA FileShows ==
  ASSUME TypeOK, NEW k \in Buckets, db.candles[k] # None
  PROVE  Content(db.candles[k]) \in ToSet(DbCandles(Cardinality(Buckets)))
<1> DEFINE all == Cardinality(Buckets)
           set == {x \in Buckets : db.candles[x] # None}
           keys == Ascending(set)
           contents == [i \in DOMAIN keys |-> Content(db.candles[keys[i]])]
           T == {Content(db.candles[keys[i]]) : i \in DOMAIN keys}
<1>1. /\ IsFiniteSet(Buckets) /\ all \in Nat /\ set \subseteq Buckets /\ set \in SUBSET Nat /\ k \in set
      /\ DbCandles(all) = LastOf(contents, all)
  BY BucketsFinite, BucketNat DEF DbCandles
<1>2. IsFiniteSet(set) /\ Cardinality(set) <= all
  <2> HIDE DEF set
  <2> QED BY <1>1, FS_Subset
<1>3. /\ Cardinality(set) \in Nat /\ DOMAIN keys = 1 .. Cardinality(set)
      /\ \E i \in 1 .. Cardinality(set) : keys[i] = k
  <2> HIDE DEF set
  <2> QED BY <1>1, <1>2, AscendingCovers
<1>4. PICK i \in 1 .. Cardinality(set) : keys[i] = k
  BY <1>3
<1> HIDE DEF set, keys, all
<1>5. contents \in [1 .. Cardinality(set) -> T]
  BY <1>3
<1>6. DOMAIN contents = 1 .. Cardinality(set) /\ contents[i] = Content(db.candles[k])
  BY <1>3, <1>4
<1> HIDE DEF contents, T
<1>7. contents \in Seq(T) /\ Len(contents) = Cardinality(set)
  BY <1>3, <1>5, FunctionIsSeq
<1>8. LastOf(contents, all) = contents
  BY <1>1, <1>2, <1>7, LastOfFacts
<1>9. Content(db.candles[k]) \in ToSet(contents)
  BY <1>6 DEF ToSet
<1> QED BY <1>1, <1>8, <1>9 DEF all

\* The closed candles in memory are those of the file.
LEMMA ShutdownShowsAlike ==
  ASSUME IInv, CandleInv(FALSE), StopTakesAll
  PROVE  ShutdownKeepsAll
<1> SUFFICES ASSUME pc["stop"] = "stopped"
             PROVE  /\ W!Holds(Len(recorded))
                    /\ LET all == Cardinality(Buckets)
                       IN  {c \in ToSet(MemoryCandles(all)) : c.closed} \subseteq ToSet(DbCandles(all))
  BY DEF ShutdownKeepsAll
<1>1. TypeOK
  BY DEF IInv
<1>2. W!Holds(Len(recorded))
  BY StoppedHoldsAll
<1>3. recorded \in Seq(W!RowType) /\ SubSeq(recorded, 1, Len(recorded)) = recorded
  BY <1>1, TypeFacts, SubSeqFull
<1>4. \A k \in Buckets : db.candles[k] = W!Newest(recorded, k, base.candles[k])
  BY <1>2, <1>3 DEF W!Holds
<1>5. ASSUME NEW c \in ToSet(MemoryCandles(Cardinality(Buckets))), c.closed
      PROVE  c \in ToSet(DbCandles(Cardinality(Buckets)))
  <2> DEFINE h == agg.history[Symbol]
             v == Latest(log, run, recorded)
             k == c.bucket
  <2>1. PICK i \in 1 .. Len(h) : c = h[i]
    BY <1>1, <1>5, ClosedInHistory
  <2>2. c \in CandleType /\ v[k] = c
    <3>1. h \in Seq(CandleType) /\ v[h[i].bucket] = h[i]
      BY DEF CandleInv, MemoryOK
    <3> HIDE DEF h, v
    <3> QED BY <2>1, <3>1, ElementOfSeq
  <2>3. k \in Buckets /\ c # None
    BY <2>2, CandleFields
  <2>4. W!Newest(recorded, k, None) # None
    BY <2>2, <2>3 DEF Latest
  <2>5. Logged(log, run, recorded)
    BY DEF CandleInv
  <2> DEFINE row == W!Newest(recorded, k, None)
  <2>6. row \in W!RowType /\ row.run = run /\ v[k] = log[run][row.number] /\ row # None
    BY <1>3, <2>3, <2>4, <2>5, LoggedRow
  <2>7. W!Newest(recorded, k, base.candles[k]) = row
    BY <1>3, <2>4, NewestIsRow
  <2>8. db.candles[k] = row
    BY <1>4, <2>3, <2>7
  <2> HIDE DEF row, k, v
  <2>9. Content(db.candles[k]) = c /\ db.candles[k] # None
    BY <2>2, <2>6, <2>8 DEF Content
  <2> QED BY <1>1, <2>3, <2>9, FileShows
<1> QED BY <1>2, <1>5

\* The inductive invariant of the candles, in what claims no tick too many.
THEOREM CandlesInvariance == Spec => [](CandleInv(FALSE) /\ StopTakesAll)
<1>1. Init => CandleInv(FALSE) /\ StopTakesAll
  <2> SUFFICES ASSUME Init PROVE CandleInv(FALSE) /\ StopTakesAll
    OBVIOUS
  <2>1. CandleInv(FALSE)
    BY InitCandles
  <2>2. tickBuf = <<>> /\ candleBuf = <<>>
    BY DEF Init, W!Init
  <2> QED BY <2>1, <2>2 DEF StopTakesAll
<1>2. IInv /\ (CandleInv(FALSE) /\ StopTakesAll) /\ [Next]_vars => (CandleInv(FALSE) /\ StopTakesAll)'
  <2> SUFFICES ASSUME IInv, CandleInv(FALSE), StopTakesAll, [Next]_vars
               PROVE  CandleInv(FALSE)' /\ StopTakesAll'
    OBVIOUS
  <2>1. CandleInv(FALSE)'
    BY NextKeepsCandles
  <2>2. StopTakesAll'
    BY NextTakesAll
  <2> QED BY <2>1, <2>2
<1> QED BY <1>1, <1>2, Invariance, PTL DEF Spec

\* The file never claims more: a candle row counts no tick that its process
\* does not have in the file.
FileClaimsNoMore ==
  \A k \in Buckets :
    LET row == db.candles[k]
    IN  row # None => Content(row).count <= Cardinality(TickRows(row.run, k))

(* Whatever fails, whenever the process dies and however late a tick comes, *)
(* no candle row of the file counts a tick that is not in the file.         *)
THEOREM ClaimsNoMore == Spec => []FileClaimsNoMore
<1>1. IInv /\ (CandleInv(FALSE) /\ StopTakesAll) => FileClaimsNoMore
  BY SoundFile DEF FileClaimsNoMore, Counts
<1> QED BY <1>1, Invariance, CandlesInvariance, PTL

\* The counts are exact in the beginning,
LEMMA ExactInit == Init => CandleInv(TRUE)
BY InitCandles

\* every step but a tick evicted before keeps them exact,
LEMMA ExactNext == IInv /\ CandleInv(TRUE) /\ [Next]_vars /\ [NoneEvictedLate]_vars => CandleInv(TRUE)'
<1> SUFFICES ASSUME IInv, CandleInv(TRUE), [Next]_vars, [NoneEvictedLate]_vars PROVE CandleInv(TRUE)'
  OBVIOUS
<1>1. CASE NoneEvictedLate
  BY <1>1, NextKeepsCandles
<1>2. CASE UNCHANGED vars
  <2>1. TypeOK /\ OneFlusher
    BY DEF IInv
  <2> QED BY <1>2, <2>1, LifespanKeepsCandles
<1> QED BY <1>1, <1>2

\* and so are those of the file.
LEMMA ExactFile == IInv /\ CandleInv(TRUE) => FileIsACut
<1> SUFFICES ASSUME IInv, CandleInv(TRUE) PROVE FileIsACut
  OBVIOUS
<1>1. TypeOK
  BY DEF IInv
<1>2. ASSUME NEW k \in Buckets, db.candles[k] # None
      PROVE  Content(db.candles[k]).count = Cardinality(TickRows(db.candles[k].run, k))
  BY <1>2, SoundFile DEF Counts
<1> QED BY <1>2 DEF FileIsACut

(* The two tables agree, through flushes, failures and restarts, as long   *)
(* as no tick arrives so late that the candle of its bucket, recorded      *)
(* before, has left the history of the aggregator.                         *)
THEOREM FileAgrees == Spec /\ [][NoneEvictedLate]_vars => []FileIsACut
<1>1. Spec /\ [][NoneEvictedLate]_vars => []CandleInv(TRUE)
  BY ExactInit, ExactNext, Invariance, PTL DEF Spec
<1> QED BY <1>1, ExactFile, Invariance, PTL

(* After an orderly shutdown every row recorded is in the file, and a      *)
(* closed candle that get_candles shows get_candles_from_db shows alike.   *)
THEOREM NothingIsLost == Spec => []ShutdownKeepsAll
<1>1. IInv /\ (CandleInv(FALSE) /\ StopTakesAll) => ShutdownKeepsAll
  BY ShutdownShowsAlike
<1> QED BY <1>1, Invariance, CandlesInvariance, PTL
=============================================================================
