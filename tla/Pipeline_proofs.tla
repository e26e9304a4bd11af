--------------------------- MODULE Pipeline_proofs ---------------------------
(***************************************************************************)
(* Proofs about Pipeline for every set of symbols and ticks, every size of *)
(* ring and batch, every watermark and list of timeframes.                 *)
(*                                                                         *)
(* Arrival numbers carry the argument.  The ring of a symbol holds the     *)
(* newest ones without a hole; what the sequencer holds and what has been  *)
(* processed are older ones, all different; and there are as many of them  *)
(* as were neither dropped nor are still in the ring.                      *)
(*                                                                         *)
(* The candles have an invariant of their own, at the end: each candle in  *)
(* memory counts the tick rows of its bucket and is what the sink was told *)
(* last about it, and no row is newer than the open candle.                *)
(***************************************************************************)
EXTENDS Pipeline, FiniteSetTheorems, TLAPS

FT == INSTANCE FoldTheorems WITH Op <- KeepTick
FO == INSTANCE FoldTheorems WITH Op <- OfferTick
FF == INSTANCE FoldTheorems WITH Op <- ApplyFrame
FP == INSTANCE FoldTheorems WITH Op <- ProcessTick
FW == INSTANCE FoldTheorems WITH Op <- AddPq
FQ == INSTANCE FoldTheorems WITH Op <- AddQ
FA == INSTANCE FoldTheorems WITH Op <- AddPrice

\* A tick of the symbol s as ingest numbers it.
Arrived(s) ==
  [symbol : {s}, id : Nat, time : Nat, price : Nat, quantity : Nat, arrival : Nat \ {0}]

\* What the assumption on the constants gives the proofs below.
LEMMA Constants ==
  /\ RingCapacity \in Nat /\ RingCapacity > 0 /\ BatchMax \in Nat /\ WatermarkMs \in Nat
  /\ Timeframes \in Seq(Nat \ {0}) /\ None \notin Symbols /\ None \notin Nat
  /\ BatchMax # None
  /\ Ring!Index = 0 .. RingCapacity - 1
BY PipelineAssumption DEF Ring!Index
-----------------------------------------------------------------------------
(* The ring.                                                               *)

RingForm(b) ==
  /\ b = [slots |-> b.slots, head |-> b.head, size |-> b.size,
          dropped |-> b.dropped, pushedTotal |-> b.pushedTotal]
  /\ b.slots = [i \in Ring!Index |-> b.slots[i]]
  /\ b.head \in Ring!Index /\ b.size \in 0 .. RingCapacity
  /\ b.dropped \in Nat /\ b.pushedTotal \in Nat

\* The ring of s holds the newest arrivals in order.
RingOK(b, s) ==
  /\ RingForm(b) /\ b.size <= b.pushedTotal
  /\ \A k \in 1 .. b.size :
       /\ Ring!Contents(b)[k] \in Arrived(s)
       /\ Ring!Contents(b)[k].arrival = b.pushedTotal - b.size + k

\* The modulus on the range index arithmetic needs.
LEMMA ModValues ==
  ASSUME NEW a \in Int, -RingCapacity <= a, a < 2 * RingCapacity
  PROVE  /\ a % RingCapacity = IF a < 0 THEN a + RingCapacity
                               ELSE IF a < RingCapacity THEN a ELSE a - RingCapacity
         /\ a % RingCapacity \in Ring!Index
<1>1. CASE a < 0
  BY <1>1, Constants
<1>2. CASE 0 <= a /\ a < RingCapacity
  BY <1>2, Constants
<1>3. CASE RingCapacity <= a
  BY <1>3, Constants
<1> QED BY <1>1, <1>2, <1>3, Constants

\* The place k of a ring with this head and size, without a modulus.
At(h, z, k) == IF h - z + k - 1 >= 0 THEN h - z + k - 1 ELSE h - z + k - 1 + RingCapacity

\* The ranges of a well-formed ring's fields.
LEMMA RingFacts ==
  ASSUME NEW b, RingForm(b)
  PROVE  /\ b.head \in Int /\ 0 <= b.head /\ b.head < RingCapacity /\ b.head \in Ring!Index
         /\ b.size \in Int /\ 0 <= b.size /\ b.size <= RingCapacity
         /\ b.dropped \in Nat /\ b.pushedTotal \in Nat
BY Constants DEF RingForm

\* The slot of the k-th buffered tick, its modulo resolved.
LEMMA SlotValue ==
  ASSUME NEW b, RingForm(b), NEW k \in 1 .. b.size
  PROVE  Ring!SlotOf(b, k) \in Ring!Index /\ Ring!SlotOf(b, k) = At(b.head, b.size, k)
<1> DEFINE tail == (b.head - b.size) % RingCapacity
<1>1. /\ RingCapacity \in Nat /\ RingCapacity > 0
      /\ b.head \in Int /\ 0 <= b.head /\ b.head < RingCapacity
      /\ b.size \in Int /\ 0 <= b.size /\ b.size <= RingCapacity
      /\ k \in Int /\ 1 <= k /\ k <= b.size
  BY RingFacts, Constants
<1>2. tail = IF b.head - b.size < 0 THEN b.head - b.size + RingCapacity ELSE b.head - b.size
  BY <1>1, ModValues
<1> HIDE DEF tail
<1>3. tail \in Int /\ tail + k - 1 \in Int /\ 0 <= tail + k - 1 /\ tail + k - 1 < 2 * RingCapacity
  BY <1>1, <1>2
<1>4. /\ Ring!SlotOf(b, k) = IF tail + k - 1 < RingCapacity THEN tail + k - 1 ELSE tail + k - 1 - RingCapacity
      /\ Ring!SlotOf(b, k) \in Ring!Index
  BY <1>1, <1>3, ModValues DEF Ring!SlotOf, tail
<1> QED BY <1>1, <1>2, <1>4 DEF At

\* The k-th buffered tick is the one in that slot.
LEMMA ContentsValue ==
  ASSUME NEW b, RingForm(b), NEW k \in 1 .. b.size
  PROVE  Ring!Contents(b)[k] = b.slots[At(b.head, b.size, k)] /\ At(b.head, b.size, k) \in Ring!Index
BY SlotValue DEF Ring!Contents, Ring!DrainedItems

\* A push puts its item last and, when the ring is full, loses the oldest.
LEMMA PushContents ==
  ASSUME NEW b, RingForm(b), NEW x, NEW c, c = Ring!PushNowait(b, x)
  PROVE  /\ RingForm(c)
         /\ c.size = IF b.size = RingCapacity THEN b.size ELSE b.size + 1
         /\ c.dropped = IF b.size = RingCapacity THEN b.dropped + 1 ELSE b.dropped
         /\ c.pushedTotal = b.pushedTotal + 1
         /\ c.size > 0
         /\ Ring!Contents(c)[c.size] = x
         /\ \A k \in 1 .. c.size - 1 :
              Ring!Contents(c)[k] = Ring!Contents(b)[k + (b.size + 1 - c.size)]
<1>1. /\ RingCapacity \in Nat /\ RingCapacity > 0
      /\ b.head \in Int /\ 0 <= b.head /\ b.head < RingCapacity /\ b.head \in Ring!Index
      /\ b.size \in Int /\ 0 <= b.size /\ b.size <= RingCapacity
      /\ b.slots = [i \in Ring!Index |-> b.slots[i]]
  BY RingFacts, Constants DEF RingForm
<1>2. /\ c.slots = [b.slots EXCEPT ![b.head] = x]
      /\ c.head = IF b.head + 1 < RingCapacity THEN b.head + 1 ELSE 0
      /\ c.size = IF b.size = RingCapacity THEN b.size ELSE b.size + 1
      /\ c.dropped = IF b.size = RingCapacity THEN b.dropped + 1 ELSE b.dropped
      /\ c.pushedTotal = b.pushedTotal + 1
      /\ RingForm(c)
  <2>1. /\ (b.head + 1) % RingCapacity = IF b.head + 1 < RingCapacity THEN b.head + 1 ELSE 0
        /\ (b.head + 1) % RingCapacity \in Ring!Index
    <3> DEFINE a == b.head + 1
    <3>1. /\ a \in Int /\ -RingCapacity <= a /\ a < 2 * RingCapacity
          /\ ~(a < 0) /\ (~(a < RingCapacity) => a - RingCapacity = 0)
      BY <1>1
    <3> HIDE DEF a
    <3>2. /\ a % RingCapacity = IF a < 0 THEN a + RingCapacity
                               ELSE IF a < RingCapacity THEN a ELSE a - RingCapacity
          /\ a % RingCapacity \in Ring!Index
      BY <3>1, ModValues
    <3>3. a % RingCapacity = IF a < RingCapacity THEN a ELSE 0
      BY <3>1, <3>2
    <3> QED BY <3>2, <3>3 DEF a
  <2>2. /\ c.slots = [b.slots EXCEPT ![b.head] = x]
        /\ c.head = (b.head + 1) % RingCapacity
        /\ c.size = IF b.size = RingCapacity THEN b.size ELSE b.size + 1
        /\ c.dropped = IF b.size = RingCapacity THEN b.dropped + 1 ELSE b.dropped
        /\ c.pushedTotal = b.pushedTotal + 1
        /\ c = [slots |-> c.slots, head |-> c.head, size |-> c.size,
                dropped |-> c.dropped, pushedTotal |-> c.pushedTotal]
    BY DEF Ring!PushNowait, Ring!IsFull
  <2>3. c.slots = [i \in Ring!Index |-> c.slots[i]]
    BY <1>1, <2>2
  <2>4. c.size \in 0 .. RingCapacity /\ c.dropped \in Nat /\ c.pushedTotal \in Nat
    BY <1>1, <2>2, RingFacts
  <2> QED BY <2>1, <2>2, <2>3, <2>4 DEF RingForm
<1>3. c.size > 0 /\ c.size \in 1 .. c.size /\ c.size \in Int
  BY <1>1, <1>2
<1>4. At(c.head, c.size, c.size) = b.head
  BY <1>1, <1>2 DEF At
<1>5. Ring!Contents(c)[c.size] = x
  BY <1>1, <1>2, <1>3, <1>4, ContentsValue
<1>6. ASSUME NEW k \in 1 .. c.size - 1
      PROVE  Ring!Contents(c)[k] = Ring!Contents(b)[k + (b.size + 1 - c.size)]
  <2> DEFINE j == k + (b.size + 1 - c.size)
  <2>1. k \in 1 .. c.size /\ j \in 1 .. b.size
    BY <1>1, <1>2, <1>3
  <2>2. /\ Ring!Contents(c)[k] = c.slots[At(c.head, c.size, k)] /\ At(c.head, c.size, k) \in Ring!Index
        /\ Ring!Contents(b)[j] = b.slots[At(b.head, b.size, j)]
    <3> HIDE DEF j
    <3>1. RingForm(c)
      BY <1>2
    <3>2. Ring!Contents(c)[k] = c.slots[At(c.head, c.size, k)] /\ At(c.head, c.size, k) \in Ring!Index
      BY <2>1, <3>1, ContentsValue
    <3>3. Ring!Contents(b)[j] = b.slots[At(b.head, b.size, j)]
      BY <2>1, ContentsValue
    <3> QED BY <3>2, <3>3
  <2>3. At(c.head, c.size, k) = At(b.head, b.size, j) /\ At(b.head, b.size, j) # b.head
    <3>1. CASE b.size = RingCapacity
      <4>1. c.size = RingCapacity /\ j = k + 1 /\ k \in Int /\ 1 <= k /\ k < RingCapacity
        BY <1>1, <1>2, <3>1
      <4>2. /\ At(c.head, RingCapacity, k) = At(b.head, RingCapacity, k + 1)
            /\ At(b.head, RingCapacity, k + 1) # b.head
        BY <1>1, <1>2, <4>1 DEF At
      <4> QED BY <3>1, <4>1, <4>2
    <3>2. CASE b.size # RingCapacity
      <4>1. c.size = b.size + 1 /\ j = k /\ k \in Int /\ 1 <= k /\ k <= b.size /\ b.size < RingCapacity
        BY <1>1, <1>2, <3>2
      <4> HIDE DEF j
      <4>2. At(c.head, b.size + 1, k) = At(b.head, b.size, k) /\ At(b.head, b.size, k) # b.head
        BY <1>1, <1>2, <4>1 DEF At
      <4> QED BY <4>1, <4>2
    <3> QED BY <3>1, <3>2
  <2> HIDE DEF j
  <2>4. c.slots[At(c.head, c.size, k)] = b.slots[At(b.head, b.size, j)]
    BY <1>1, <1>2, <2>2, <2>3
  <2> QED BY <2>2, <2>4 DEF j
<1> QED BY <1>2, <1>3, <1>5, <1>6

\* A drain takes the oldest items and leaves the others as they were.
LEMMA DrainContents ==
  ASSUME NEW b, RingForm(b), NEW n \in 0 .. b.size, NEW c, c = Ring!DrainNowait(b, n)
  PROVE  /\ RingForm(c)
         /\ c.size = b.size - n /\ c.dropped = b.dropped /\ c.pushedTotal = b.pushedTotal
         /\ \A k \in 1 .. n : Ring!DrainedItems(b, n)[k] = Ring!Contents(b)[k]
         /\ \A k \in 1 .. c.size : Ring!Contents(c)[k] = Ring!Contents(b)[n + k]
<1> DEFINE freed == {Ring!SlotOf(b, k) : k \in 1 .. n}
<1>1. /\ RingCapacity \in Nat /\ RingCapacity > 0
      /\ b.head \in Int /\ 0 <= b.head /\ b.head < RingCapacity
      /\ b.size \in Int /\ 0 <= b.size /\ b.size <= RingCapacity
      /\ n \in Int /\ 0 <= n /\ n <= b.size
  BY RingFacts, Constants
<1>2. /\ c.slots = [i \in Ring!Index |-> IF i \in freed THEN None ELSE b.slots[i]]
      /\ c.head = b.head
      /\ c.size = b.size - n /\ c.dropped = b.dropped /\ c.pushedTotal = b.pushedTotal
      /\ RingForm(c)
  <2>1. c = [slots |-> [i \in Ring!Index |-> IF i \in freed THEN None ELSE b.slots[i]],
             head |-> b.head, size |-> b.size - n,
             dropped |-> b.dropped, pushedTotal |-> b.pushedTotal]
    BY DEF Ring!DrainNowait
  <2> HIDE DEF freed
  <2>2. c.slots = [i \in Ring!Index |-> c.slots[i]]
    BY <2>1
  <2>3. b.size - n \in 0 .. RingCapacity
    BY <1>1
  <2> QED BY <2>1, <2>2, <2>3, RingFacts DEF RingForm
<1>3. ASSUME NEW k \in 1 .. n PROVE Ring!DrainedItems(b, n)[k] = Ring!Contents(b)[k]
  <2>1. k \in 1 .. b.size
    BY <1>1
  <2> QED BY <2>1 DEF Ring!DrainedItems, Ring!Contents
<1>4. ASSUME NEW k \in 1 .. c.size PROVE Ring!Contents(c)[k] = Ring!Contents(b)[n + k]
  <2>1. k \in Int /\ 1 <= k /\ k <= b.size - n /\ n + k \in 1 .. b.size
    BY <1>1, <1>2
  <2>2. /\ Ring!Contents(c)[k] = c.slots[At(c.head, c.size, k)] /\ At(c.head, c.size, k) \in Ring!Index
        /\ Ring!Contents(b)[n + k] = b.slots[At(b.head, b.size, n + k)]
    BY <1>2, <2>1, ContentsValue
  <2>3. At(c.head, c.size, k) = At(b.head, b.size, n + k)
    BY <1>1, <1>2, <2>1 DEF At
  <2>4. At(b.head, b.size, n + k) \notin freed
    <3> SUFFICES ASSUME NEW m \in 1 .. n, At(b.head, b.size, n + k) = Ring!SlotOf(b, m) PROVE FALSE
      OBVIOUS
    <3>1. m \in 1 .. b.size /\ m \in Int /\ 1 <= m /\ m <= n
      BY <1>1
    <3>2. Ring!SlotOf(b, m) = At(b.head, b.size, m)
      BY <3>1, SlotValue
    <3> QED BY <1>1, <2>1, <3>1, <3>2 DEF At
  <2> QED BY <1>2, <2>2, <2>3, <2>4
<1> QED BY <1>2, <1>3, <1>4
\* What ingest does to the ring of s.
LEMMA PushKeepsRing ==
  ASSUME NEW s, NEW b, RingOK(b, s), NEW x \in Arrived(s), x.arrival = b.pushedTotal + 1,
         NEW c, c = Ring!PushNowait(b, x)
  PROVE  /\ RingOK(c, s)
         /\ c.pushedTotal - c.size - c.dropped = b.pushedTotal - b.size - b.dropped
         /\ b.pushedTotal - b.size <= c.pushedTotal - c.size
<1>1. /\ RingForm(b) /\ b.size <= b.pushedTotal
      /\ b.size \in Int /\ 0 <= b.size /\ b.size <= RingCapacity /\ RingCapacity \in Nat
      /\ b.dropped \in Nat /\ b.pushedTotal \in Nat
  BY RingFacts, Constants DEF RingOK
<1>2. /\ RingForm(c)
      /\ c.size = IF b.size = RingCapacity THEN b.size ELSE b.size + 1
      /\ c.dropped = IF b.size = RingCapacity THEN b.dropped + 1 ELSE b.dropped
      /\ c.pushedTotal = b.pushedTotal + 1
      /\ c.size > 0
      /\ Ring!Contents(c)[c.size] = x
      /\ \A k \in 1 .. c.size - 1 :
           Ring!Contents(c)[k] = Ring!Contents(b)[k + (b.size + 1 - c.size)]
  BY <1>1, PushContents
<1>3. ASSUME NEW k \in 1 .. c.size
      PROVE  /\ Ring!Contents(c)[k] \in Arrived(s)
             /\ Ring!Contents(c)[k].arrival = c.pushedTotal - c.size + k
  <2>1. CASE k = c.size
    BY <1>1, <1>2, <2>1
  <2>2. CASE k # c.size
    <3> DEFINE j == k + (b.size + 1 - c.size)
    <3>1. k \in 1 .. c.size - 1 /\ j \in 1 .. b.size
          /\ b.pushedTotal - b.size + j = c.pushedTotal - c.size + k
      BY <1>1, <1>2, <2>2
    <3> HIDE DEF j
    <3>2. Ring!Contents(c)[k] = Ring!Contents(b)[j]
      BY <1>2, <3>1 DEF j
    <3> QED BY <3>1, <3>2 DEF RingOK
  <2> QED BY <2>1, <2>2
<1>4. c.size <= c.pushedTotal
  BY <1>1, <1>2
<1>5. /\ c.pushedTotal - c.size - c.dropped = b.pushedTotal - b.size - b.dropped
      /\ b.pushedTotal - b.size <= c.pushedTotal - c.size
  BY <1>1, <1>2
<1> QED BY <1>2, <1>3, <1>4, <1>5 DEF RingOK

\* What a drain of s returns and leaves.
LEMMA DrainKeepsRing ==
  ASSUME NEW s, NEW b, RingOK(b, s), NEW n \in 0 .. b.size, NEW c, c = Ring!DrainNowait(b, n)
  PROVE  /\ RingOK(c, s)
         /\ c.size = b.size - n /\ c.dropped = b.dropped /\ c.pushedTotal = b.pushedTotal
         /\ Ring!DrainedItems(b, n) \in Seq(Arrived(s)) /\ Len(Ring!DrainedItems(b, n)) = n
         /\ \A k \in 1 .. n : Ring!DrainedItems(b, n)[k].arrival = b.pushedTotal - b.size + k
<1>1. /\ RingForm(b) /\ b.size <= b.pushedTotal
      /\ b.size \in Int /\ 0 <= b.size /\ b.pushedTotal \in Nat /\ n \in Nat /\ n <= b.size
  BY RingFacts, Constants DEF RingOK
<1>2. /\ RingForm(c)
      /\ c.size = b.size - n /\ c.dropped = b.dropped /\ c.pushedTotal = b.pushedTotal
      /\ \A k \in 1 .. n : Ring!DrainedItems(b, n)[k] = Ring!Contents(b)[k]
      /\ \A k \in 1 .. c.size : Ring!Contents(c)[k] = Ring!Contents(b)[n + k]
  BY <1>1, DrainContents
<1>3. ASSUME NEW k \in 1 .. c.size
      PROVE  /\ Ring!Contents(c)[k] \in Arrived(s)
             /\ Ring!Contents(c)[k].arrival = c.pushedTotal - c.size + k
  <2>1. n + k \in 1 .. b.size /\ b.pushedTotal - b.size + (n + k) = c.pushedTotal - c.size + k
    BY <1>1, <1>2
  <2> QED BY <1>2, <2>1 DEF RingOK
<1>4. c.size <= c.pushedTotal
  BY <1>1, <1>2
<1>5. \A k \in 1 .. n : /\ Ring!DrainedItems(b, n)[k] \in Arrived(s)
                        /\ Ring!DrainedItems(b, n)[k].arrival = b.pushedTotal - b.size + k
  BY <1>1, <1>2 DEF RingOK
<1>6. Ring!DrainedItems(b, n) = [k \in 1 .. n |-> Ring!DrainedItems(b, n)[k]]
  BY DEF Ring!DrainedItems
<1>7. Ring!DrainedItems(b, n) \in Seq(Arrived(s)) /\ Len(Ring!DrainedItems(b, n)) = n
  <2> DEFINE d == Ring!DrainedItems(b, n)
  <2>1. d = [k \in 1 .. n |-> d[k]] /\ \A k \in 1 .. n : d[k] \in Arrived(s)
    BY <1>5, <1>6
  <2> HIDE DEF d
  <2>2. d \in [1 .. n -> Arrived(s)]
    BY <2>1
  <2>3. d \in Seq(Arrived(s)) /\ Len(d) = n
    BY <1>1, <2>2
  <2> QED BY <2>3 DEF d
<1> QED BY <1>2, <1>3, <1>4, <1>5, <1>7 DEF RingOK
-----------------------------------------------------------------------------
(* The sequencer.                                                          *)

Entries(s) == [time : Nat, seq : Nat, tick : Arrived(s)]

\* What the sequencer of s holds: entries told apart by their seq.
HeapOK(q, s) ==
  /\ q = [heap |-> q.heap, seqCounter |-> q.seqCounter, maxSeen |-> q.maxSeen, lastId |-> q.lastId,
          outOfOrder |-> q.outOfOrder, gapCount |-> q.gapCount]
  /\ q.seqCounter \in Nat /\ q.maxSeen \in Nat
  /\ q.heap \in SUBSET Entries(s) /\ IsFiniteSet(q.heap)
  /\ \A e \in q.heap : e.seq <= q.seqCounter
  /\ \A e, f \in q.heap : e.seq = f.seq => e = f

\* Its ticks are no later arrivals than the last, all different.
UpTo(heap, last) ==
  /\ \A e \in heap : e.tick.arrival <= last
  /\ \A e, f \in heap : e.tick.arrival = f.tick.arrival => e = f

\* Offering the next arrival keeps the heap well formed and grows it by that one entry.
LEMMA OfferKeeps ==
  ASSUME NEW s, NEW q, HeapOK(q, s), NEW last \in Nat, UpTo(q.heap, last),
         NEW x \in Arrived(s), x.arrival = last + 1
  PROVE  LET p == OfferTick(q, x)
         IN  /\ HeapOK(p, s) /\ UpTo(p.heap, last + 1)
             /\ Cardinality(p.heap) = Cardinality(q.heap) + 1
             /\ \A e \in p.heap : e \in q.heap \/ e.tick.arrival = last + 1
<1> DEFINE p == OfferTick(q, x)
           e == [time |-> x.time, seq |-> q.seqCounter + 1, tick |-> x]
<1>1. /\ q.seqCounter \in Nat /\ q.maxSeen \in Nat /\ x.time \in Nat
      /\ q.heap \in SUBSET Entries(s) /\ IsFiniteSet(q.heap)
      /\ \A f \in q.heap : f.seq \in Nat /\ f.seq <= q.seqCounter
      /\ \A f \in q.heap : f.tick.arrival \in Nat /\ f.tick.arrival <= last
  BY DEF HeapOK, Entries, Arrived, UpTo
<1>2. e \in Entries(s) /\ e.seq = q.seqCounter + 1 /\ e.tick.arrival = last + 1
  BY <1>1 DEF Entries
<1>3. /\ p = [heap |-> p.heap, seqCounter |-> p.seqCounter, maxSeen |-> p.maxSeen, lastId |-> p.lastId,
              outOfOrder |-> p.outOfOrder, gapCount |-> p.gapCount]
      /\ p.heap = q.heap \cup {e} /\ p.seqCounter = q.seqCounter + 1
      /\ p.maxSeen = IF x.time < q.maxSeen THEN q.maxSeen ELSE x.time
  BY DEF OfferTick, Order!Offer
<1> HIDE DEF p, e
<1>4. e \notin q.heap
  BY <1>1, <1>2
<1>5. IsFiniteSet(p.heap) /\ Cardinality(p.heap) = Cardinality(q.heap) + 1
  <2>1. IsFiniteSet(q.heap \cup {e}) /\ Cardinality(q.heap \cup {e}) = Cardinality(q.heap) + 1
    BY <1>1, <1>4, FS_AddElement
  <2> QED BY <1>3, <2>1
<1>6. \A f, g \in p.heap : f.seq = g.seq => f = g
  BY <1>1, <1>2, <1>3 DEF HeapOK
<1>7. \A f, g \in p.heap : f.tick.arrival = g.tick.arrival => f = g
  BY <1>1, <1>2, <1>3 DEF UpTo
<1>8. /\ \A f \in p.heap : f.seq <= p.seqCounter /\ f.tick.arrival <= last + 1
      /\ p.seqCounter \in Nat /\ p.maxSeen \in Nat /\ p.heap \in SUBSET Entries(s)
  BY <1>1, <1>2, <1>3
<1>9. HeapOK(p, s) /\ UpTo(p.heap, last + 1)
  BY <1>3, <1>5, <1>6, <1>7, <1>8 DEF HeapOK, UpTo
<1>10. \A f \in p.heap : f \in q.heap \/ f.tick.arrival = last + 1
  BY <1>2, <1>3
<1> QED BY <1>5, <1>9, <1>10 DEF p

\* A batch of consecutive arrivals.
LEMMA BatchKeeps ==
  ASSUME NEW s, NEW q, HeapOK(q, s), NEW last \in Nat, UpTo(q.heap, last),
         NEW d \in Seq(Arrived(s)), \A k \in 1 .. Len(d) : d[k].arrival = last + k
  PROVE  LET p == FoldLeft(OfferTick, q, d)
         IN  /\ HeapOK(p, s) /\ UpTo(p.heap, last + Len(d))
             /\ Cardinality(p.heap) = Cardinality(q.heap) + Len(d)
             /\ \A e \in p.heap : e \in q.heap \/ e.tick.arrival > last
<1> DEFINE p == FoldLeft(OfferTick, q, d)
           Good(c, k) ==
             /\ HeapOK(c, s) /\ UpTo(c.heap, last + k)
             /\ Cardinality(c.heap) = Cardinality(q.heap) + k
             /\ \A e \in c.heap : e \in q.heap \/ e.tick.arrival > last
<1>1. p = FO!Fold(q, d)
  BY DEF FoldLeft, MapThenFoldSet, Max, FO!Fold, FO!FoldLeft, FO!MapThenFoldSet, FO!Max
<1>2. PICK h : FO!Passes(q, d, h) /\ h[Len(d)] = p
  BY <1>1, FO!FoldPasses
<1>3. Len(d) \in Nat /\ Cardinality(q.heap) \in Nat
  BY FS_CardinalityType DEF HeapOK
<1> DEFINE S == {k \in 0 .. Len(d) : Good(h[k], k)}
<1>4. 0 \in S
  BY <1>2, <1>3 DEF FO!Passes
<1>5. ASSUME NEW k \in 0 .. Len(d) - 1, k \in S PROVE k + 1 \in S
  <2>1. /\ k + 1 \in 1 .. Len(d) /\ (k + 1) - 1 = k /\ last + k \in Nat /\ k \in Nat
        /\ last + k + 1 = last + (k + 1) /\ last + k + 1 > last
    BY <1>3
  <2>2. h[k + 1] = OfferTick(h[k], d[k + 1])
    BY <1>2, <2>1 DEF FO!Passes
  <2>3. d[k + 1] \in Arrived(s) /\ d[k + 1].arrival = last + k + 1
    BY <2>1
  <2>4. Good(h[k], k)
    BY <1>5
  <2> HIDE DEF S
  <2>5. /\ HeapOK(h[k + 1], s) /\ UpTo(h[k + 1].heap, last + k + 1)
        /\ Cardinality(h[k + 1].heap) = Cardinality(h[k].heap) + 1
        /\ \A e \in h[k + 1].heap : e \in h[k].heap \/ e.tick.arrival = last + k + 1
    BY <2>1, <2>2, <2>3, <2>4, OfferKeeps
  <2>6. Good(h[k + 1], k + 1)
    <3>1. UpTo(h[k + 1].heap, last + (k + 1))
      BY <2>1, <2>5
    <3>2. Cardinality(h[k + 1].heap) = Cardinality(q.heap) + (k + 1)
      BY <1>3, <2>1, <2>4, <2>5
    <3>3. \A e \in h[k + 1].heap : e \in q.heap \/ e.tick.arrival > last
      BY <2>1, <2>4, <2>5
    <3> QED BY <2>5, <3>1, <3>2, <3>3
  <2> QED BY <2>1, <2>6, <1>3 DEF S
<1>6. 0 .. Len(d) \subseteq S
  <2> HIDE DEF S
  <2> QED BY <1>3, <1>4, <1>5, FO!BoundedInduction
<1>7. Good(h[Len(d)], Len(d))
  BY <1>3, <1>6
<1> HIDE DEF p
<1>8. Good(p, Len(d))
  BY <1>2, <1>7
<1> QED BY <1>8 DEF p

\* The instance's Cardinality is the library's.
LEMMA SameCardinality == \A S : Order!Cardinality(S) = Cardinality(S)
BY DEF Order!Cardinality, Cardinality

\* g lists the entries of R as they are popped.
Pops(R, g) ==
  /\ g \in [1 .. Cardinality(R) -> R]
  /\ Order!TicksInOrder(R) = [i \in 1 .. Cardinality(R) |-> g[i].tick]
  /\ \A i, j \in 1 .. Cardinality(R) : g[i] = g[j] => i = j

\* The ticks of a set of entries come out in the order of the heap, each once.
LEMMA PoppedInOrder ==
  ASSUME NEW s, NEW R \in SUBSET Entries(s), IsFiniteSet(R),
         \A e, f \in R : e.seq = f.seq => e = f
  PROVE  \E g : Pops(R, g)
<1> DEFINE n == Cardinality(R)
           m == Order!Cardinality(R)
           B(e) == {f \in R : Order!Before(f, e)}
           r == [e \in R |-> Order!Rank(R, e)]
           g == [i \in 1 .. m |-> CHOOSE e \in R : Order!Rank(R, e) = i]
<1>0. m = n /\ \A e \in R : Order!Rank(R, e) = Cardinality(B(e)) + 1
  BY SameCardinality DEF Order!Rank
<1>1. n \in Nat /\ \A e \in R : e.time \in Nat /\ e.seq \in Nat
  BY FS_CardinalityType DEF Entries
<1>2. ASSUME NEW e \in R
      PROVE  /\ IsFiniteSet(B(e)) /\ Cardinality(B(e)) \in Nat /\ Cardinality(B(e)) < n
  <2>1. B(e) \in SUBSET (R \ {e})
    BY <1>1 DEF Order!Before
  <2>2. IsFiniteSet(R \ {e}) /\ Cardinality(R \ {e}) = n - 1
    BY FS_RemoveElement
  <2> HIDE DEF B
  <2>3. IsFiniteSet(B(e)) /\ Cardinality(B(e)) <= Cardinality(R \ {e})
    BY <2>1, <2>2, FS_Subset
  <2> QED BY <1>1, <2>2, <2>3, FS_CardinalityType
<1>3. ASSUME NEW e \in R, NEW f \in R, Order!Before(e, f)
      PROVE  Cardinality(B(e)) < Cardinality(B(f))
  <2>1. B(e) \in SUBSET B(f) /\ e \in B(f) /\ e \notin B(e)
    BY <1>1, <1>3 DEF Order!Before
  <2> HIDE DEF B
  <2>2. Cardinality(B(e)) <= Cardinality(B(f)) /\ (Cardinality(B(f)) = Cardinality(B(e)) => B(f) = B(e))
    BY <1>2, <2>1, FS_Subset
  <2> QED BY <1>2, <2>1, <2>2
<1>4. \A e, f \in R : e # f => Order!Before(e, f) \/ Order!Before(f, e)
  BY <1>1 DEF Order!Before
<1> HIDE DEF B
<1>5. \A e \in R : r[e] \in 1 .. n
  BY <1>0, <1>1, <1>2
<1>6. \A e, f \in R : r[e] = r[f] => e = f
  BY <1>0, <1>2, <1>3, <1>4
<1>7. r \in Injection(R, 1 .. n)
  BY <1>5, <1>6 DEF Injection, IsInjective
<1>8. IsFiniteSet(1 .. n) /\ Cardinality(1 .. n) = n
  BY <1>1, FS_Interval
<1>9. \A i \in 1 .. n : \E e \in R : r[e] = i
  <2> HIDE DEF r
  <2>1. r \in Surjection(R, 1 .. n)
    BY <1>7, <1>8, FS_Injection
  <2> QED BY <2>1 DEF Surjection
<1>10. \A i \in 1 .. n : g[i] \in R /\ r[g[i]] = i
  <2> SUFFICES ASSUME NEW i \in 1 .. n PROVE g[i] \in R /\ r[g[i]] = i
    OBVIOUS
  <2>1. \E e \in R : Order!Rank(R, e) = i
    BY <1>9
  <2>2. g[i] = CHOOSE e \in R : Order!Rank(R, e) = i
    BY <1>0
  <2> HIDE DEF g
  <2>3. g[i] \in R /\ Order!Rank(R, g[i]) = i
    BY <2>1, <2>2, Zenon
  <2> QED BY <2>3
<1>11. Order!TicksInOrder(R) = [i \in 1 .. n |-> g[i].tick]
  <2>1. Order!TicksInOrder(R) = [i \in 1 .. m |-> (CHOOSE e \in R : Order!Rank(R, e) = i).tick]
    BY DEF Order!TicksInOrder
  <2>2. \A i \in 1 .. m : g[i] = (CHOOSE e \in R : Order!Rank(R, e) = i)
    OBVIOUS
  <2> HIDE DEF g
  <2>3. Order!TicksInOrder(R) = [i \in 1 .. m |-> g[i].tick]
    BY <2>1, <2>2
  <2> HIDE DEF m
  <2> QED BY <1>0, <2>3
<1> HIDE DEF r
<1>12. g \in [1 .. n -> R]
  BY <1>0, <1>10
<1> HIDE DEF g
<1>13. \A i, j \in 1 .. n : g[i] = g[j] => i = j
  BY <1>10
<1>14. Pops(R, g)
  BY <1>11, <1>12, <1>13 DEF Pops
<1> QED BY <1>14

\* What a poll hands out and keeps.
LEMMA PollKeeps ==
  ASSUME NEW s, NEW q, HeapOK(q, s), NEW last \in Nat, UpTo(q.heap, last)
  PROVE  LET ready == Order!TicksInOrder(Order!ReadyEntries(q))
             left  == Order!PollReady(q)
         IN  /\ HeapOK(left, s) /\ UpTo(left.heap, last)
             /\ ready \in Seq(Arrived(s)) /\ Len(ready) \in Nat
             /\ Cardinality(left.heap) + Len(ready) = Cardinality(q.heap)
             /\ \A i \in 1 .. Len(ready) : \E e \in q.heap : e.tick = ready[i] /\ e \notin left.heap
             /\ \A i, j \in 1 .. Len(ready) : ready[i].arrival = ready[j].arrival => i = j
             /\ left.heap \subseteq q.heap
<1> DEFINE R == Order!ReadyEntries(q)
           ready == Order!TicksInOrder(R)
           left == Order!PollReady(q)
<1>1. /\ R \in SUBSET q.heap /\ q.heap \in SUBSET Entries(s) /\ IsFiniteSet(q.heap)
      /\ \A e, f \in q.heap : e.seq = f.seq => e = f
      /\ \A e, f \in q.heap : e.tick.arrival = f.tick.arrival => e = f
  BY DEF Order!ReadyEntries, HeapOK, UpTo
<1>2. left = [q EXCEPT !.heap = q.heap \ R]
  BY DEF Order!PollReady
<1>3. /\ left.heap = q.heap \ R /\ left.seqCounter = q.seqCounter /\ left.maxSeen = q.maxSeen
      /\ left = [heap |-> left.heap, seqCounter |-> left.seqCounter, maxSeen |-> left.maxSeen,
                 lastId |-> left.lastId, outOfOrder |-> left.outOfOrder, gapCount |-> left.gapCount]
  <2> HIDE DEF left, R
  <2> QED BY <1>2 DEF HeapOK
<1> HIDE DEF left, R
<1>4. /\ IsFiniteSet(R) /\ IsFiniteSet(left.heap)
      /\ Cardinality(left.heap) = Cardinality(q.heap) - Cardinality(R)
      /\ Cardinality(R) \in Nat /\ Cardinality(q.heap) \in Nat
  <2>1. IsFiniteSet(R) /\ IsFiniteSet(q.heap \ R)
    BY <1>1, FS_Subset
  <2>2. Cardinality(q.heap \ R) = Cardinality(q.heap) - Cardinality(q.heap \cap R) /\ q.heap \cap R = R
    BY <1>1, FS_Difference
  <2> QED BY <1>1, <1>3, <2>1, <2>2, FS_CardinalityType
<1>5. HeapOK(left, s) /\ UpTo(left.heap, last)
  BY <1>1, <1>3, <1>4 DEF HeapOK, UpTo
<1>6. PICK g : Pops(R, g)
  <2>1. R \in SUBSET Entries(s) /\ \A e, f \in R : e.seq = f.seq => e = f
    BY <1>1
  <2> HIDE DEF ready
  <2> QED BY <1>4, <2>1, PoppedInOrder
<1>. /\ g \in [1 .. Cardinality(R) -> R]
     /\ ready = [i \in 1 .. Cardinality(R) |-> g[i].tick]
     /\ \A i, j \in 1 .. Cardinality(R) : g[i] = g[j] => i = j
  BY <1>6 DEF Pops
<1> HIDE DEF ready
<1>7. \A i \in 1 .. Cardinality(R) : g[i] \in R /\ g[i] \in q.heap /\ g[i].tick \in Arrived(s)
  BY <1>1 DEF Entries
<1>8. ready \in Seq(Arrived(s)) /\ Len(ready) = Cardinality(R)
  <2>1. ready \in [1 .. Cardinality(R) -> Arrived(s)]
    BY <1>6, <1>7
  <2> QED BY <1>4, <2>1
<1>9. \A i \in 1 .. Len(ready) : ready[i] = g[i].tick
  BY <1>6, <1>8
<1>10. \A i \in 1 .. Len(ready) : \E e \in q.heap : e.tick = ready[i] /\ e \notin left.heap
  BY <1>3, <1>7, <1>8, <1>9
<1>11. \A i, j \in 1 .. Len(ready) : ready[i].arrival = ready[j].arrival => i = j
  <2> SUFFICES ASSUME NEW i \in 1 .. Len(ready), NEW j \in 1 .. Len(ready),
                      ready[i].arrival = ready[j].arrival
               PROVE  i = j
    OBVIOUS
  <2>1. i \in 1 .. Cardinality(R) /\ j \in 1 .. Cardinality(R)
    BY <1>8
  <2>2. g[i].tick.arrival = g[j].tick.arrival /\ g[i] \in q.heap /\ g[j] \in q.heap
    BY <1>7, <1>9, <2>1
  <2>3. g[i] = g[j]
    BY <1>1, <2>2
  <2> QED BY <1>6, <2>1, <2>3
<1>12. left.heap \subseteq q.heap /\ Len(ready) \in Nat
       /\ Cardinality(left.heap) + Len(ready) = Cardinality(q.heap)
  BY <1>3, <1>4, <1>8
<1> QED BY <1>5, <1>8, <1>10, <1>11, <1>12 DEF ready, left, R
-----------------------------------------------------------------------------
(* The VWAP window: a run of the latest of the ticks done.                 *)
Gone(w, done) == Len(done) - Len(w.ticks)

WindowOK(w, done) ==
  /\ Len(w.ticks) \in 0 .. Len(done)
  /\ w.ticks = SubSeq(done, Gone(w, done) + 1, Len(done))
  /\ Len(done) > 0 => Len(w.ticks) > 0
  /\ w.sumPq = SumPq(w.ticks) /\ w.sumQ = SumQ(w.ticks)
  /\ \A i \in 1 .. Gone(w, done) : \E j \in i + 1 .. Len(done) :
       done[i].time < done[j].time - WindowMs

\* The window's two sums are left folds, so the facts on folds apply to them.
LEMMA SumsAreFolds ==
  \A ticks : SumPq(ticks) = FW!Fold(0, ticks) /\ SumQ(ticks) = FQ!Fold(0, ticks)
<1>1. \A ticks : SumPq(ticks) = FW!Fold(0, ticks)
  BY DEF SumPq, FoldLeft, MapThenFoldSet, Max, FW!Fold, FW!FoldLeft, FW!MapThenFoldSet, FW!Max
<1>2. \A ticks : SumQ(ticks) = FQ!Fold(0, ticks)
  BY DEF SumQ, FoldLeft, MapThenFoldSet, Max, FQ!Fold, FQ!FoldLeft, FQ!MapThenFoldSet, FQ!Max
<1> QED BY <1>1, <1>2

\* What a tick adds to the sums.
PqOf(s) == [x \in Arrived(s) |-> x.price * x.quantity]
QOf(s)  == [x \in Arrived(s) |-> x.quantity]

\* What one tick adds to either sum.
LEMMA Weights ==
  ASSUME NEW s
  PROVE  /\ FW!Adds(Arrived(s), PqOf(s)) /\ FQ!Adds(Arrived(s), QOf(s))
         /\ \A x \in Arrived(s) : PqOf(s)[x] = x.price * x.quantity /\ QOf(s)[x] = x.quantity
<1>1. \A x \in Arrived(s) : x.price \in Nat /\ x.quantity \in Nat
  BY DEF Arrived
<1>2. \A x \in Arrived(s) : x.price * x.quantity \in Int
  BY <1>1
<1>3. PqOf(s) \in [Arrived(s) -> Int] /\ \A x \in Arrived(s) : PqOf(s)[x] = x.price * x.quantity
  BY <1>2 DEF PqOf
<1>4. QOf(s) \in [Arrived(s) -> Int] /\ \A x \in Arrived(s) : QOf(s)[x] = x.quantity
  BY <1>1 DEF QOf
<1>5. FW!Adds(Arrived(s), PqOf(s))
  BY <1>3 DEF FW!Adds, AddPq
<1>6. FQ!Adds(Arrived(s), QOf(s))
  BY <1>4 DEF FQ!Adds, AddQ
<1> QED BY <1>3, <1>4, <1>5, <1>6

\* How many ticks expire: a number there is.
LEMMA ExpiredFacts ==
  ASSUME NEW s, NEW w, w.ticks \in Seq(Arrived(s)), NEW now \in Nat
  PROVE  LET n == Expired(w, now)
         IN  /\ n \in 0 .. Len(w.ticks)
             /\ \A i \in 1 .. n : w.ticks[i].time < now - WindowMs
             /\ n < Len(w.ticks) => w.ticks[n + 1].time >= now - WindowMs
<1> DEFINE late(i) == w.ticks[i].time >= now - WindowMs
           L == {i \in 1 .. Len(w.ticks) : late(i)}
           Is(n) == /\ \A i \in 1 .. n : w.ticks[i].time < now - WindowMs
                    /\ n < Len(w.ticks) => w.ticks[n + 1].time >= now - WindowMs
<1>1. Len(w.ticks) \in Nat /\ now - WindowMs \in Int
  BY AveragesAssumption
<1>2. \A i \in 1 .. Len(w.ticks) : w.ticks[i].time \in Nat
  <2>1. \A x \in Arrived(s) : x.time \in Nat
    BY DEF Arrived
  <2>2. \A i \in 1 .. Len(w.ticks) : w.ticks[i] \in Arrived(s)
    OBVIOUS
  <2> QED BY <2>1, <2>2
<1>3. \E n \in 0 .. Len(w.ticks) : Is(n)
  <2>1. CASE L = {}
    <3>1. Len(w.ticks) \in 0 .. Len(w.ticks)
      BY <1>1
    <3>2. \A i \in 1 .. Len(w.ticks) : w.ticks[i].time < now - WindowMs
      BY <1>1, <1>2, <2>1
    <3>3. ~(Len(w.ticks) < Len(w.ticks))
      BY <1>1
    <3> QED BY <3>1, <3>2, <3>3
  <2>2. CASE L # {}
    <3> DEFINE m == FW!Min(L)
    <3>1. L \in SUBSET Nat
      OBVIOUS
    <3> HIDE DEF L
    <3>2. m \in L /\ \A y \in L : m <= y
      BY <2>2, <3>1, FW!MinOfNaturals
    <3> HIDE DEF m
    <3>3. m \in 1 .. Len(w.ticks) /\ late(m) /\ \A i \in 1 .. Len(w.ticks) : late(i) => m <= i
      BY <3>2 DEF L
    <3>4. m - 1 \in 0 .. Len(w.ticks) /\ (m - 1) + 1 = m
      BY <1>1, <3>3
    <3>5. \A i \in 1 .. m - 1 : w.ticks[i].time < now - WindowMs
      BY <1>1, <1>2, <3>3
    <3>6. Is(m - 1)
      BY <3>3, <3>4, <3>5
    <3> QED BY <3>4, <3>6
  <2> QED BY <2>1, <2>2
<1>4. Expired(w, now) = CHOOSE n \in 0 .. Len(w.ticks) : Is(n)
  BY Zenon DEF Expired
<1> HIDE DEF Is
<1>5. Expired(w, now) \in 0 .. Len(w.ticks) /\ Is(Expired(w, now))
  BY <1>3, <1>4, Zenon
<1> QED BY <1>5 DEF Is

\* One tick more.
LEMMA WindowTick ==
  ASSUME NEW s, NEW done \in Seq(Arrived(s)), NEW w, WindowOK(w, done), NEW x \in Arrived(s)
  PROVE  WindowOK(UpdateVwap(w, x), Append(done, x))
<1> DEFINE a == Admit(w, x)
           all == Append(done, x)
           n == Expired(a, x.time)
           v == UpdateVwap(w, x)
           gone == Gone(w, done)
<1>1. /\ Len(done) \in Nat /\ x.time \in Nat /\ WindowMs \in Nat
      /\ all \in Seq(Arrived(s)) /\ Len(all) = Len(done) + 1 /\ all[Len(done) + 1] = x
      /\ \A i \in 1 .. Len(done) : all[i] = done[i] /\ done[i] \in Arrived(s)
      /\ all[Len(all)] = x
  <2>1. x.time \in Nat /\ WindowMs \in Nat
    BY AveragesAssumption DEF Arrived
  <2>2. /\ Len(done) \in Nat /\ all \in Seq(Arrived(s)) /\ Len(all) = Len(done) + 1
        /\ all[Len(done) + 1] = x
        /\ \A i \in 1 .. Len(done) : all[i] = done[i] /\ done[i] \in Arrived(s)
    OBVIOUS
  <2> QED BY <2>1, <2>2
<1>2. /\ w.ticks = SubSeq(done, gone + 1, Len(done)) /\ Len(w.ticks) \in 0 .. Len(done)
      /\ w.sumPq = SumPq(w.ticks) /\ w.sumQ = SumQ(w.ticks)
      /\ \A i \in 1 .. gone : \E j \in i + 1 .. Len(done) : done[i].time < done[j].time - WindowMs
  BY DEF WindowOK
<1>3. Len(w.ticks) \in Nat /\ gone \in 0 .. Len(done)
  BY <1>1, <1>2 DEF Gone
<1>4. w.ticks \in Seq(Arrived(s)) /\ Len(w.ticks) = Len(done) - gone
  BY <1>2, <1>3, FP!Rest
<1> HIDE DEF gone
<1>5. a.ticks = Append(w.ticks, x) /\ a.sumPq = w.sumPq + x.price * x.quantity /\ a.sumQ = w.sumQ + x.quantity
  BY DEF Admit
<1>6. v = Evict(a, x.time)
  BY DEF UpdateVwap
<1> HIDE DEF a, all, v
<1>7. /\ a.ticks \in Seq(Arrived(s)) /\ Len(a.ticks) = Len(all) - gone
      /\ a.ticks[Len(a.ticks)] = x
  BY <1>1, <1>3, <1>4, <1>5
<1>8. a.ticks = SubSeq(all, gone + 1, Len(all))
  <2>1. <<x>> \in Seq(Arrived(s)) /\ all = done \o <<x>> /\ a.ticks = w.ticks \o <<x>>
    BY <1>4, <1>5 DEF all
  <2>2. SubSeq(done \o <<x>>, gone + 1, Len(done \o <<x>>)) = SubSeq(done, gone + 1, Len(done)) \o <<x>>
    BY <1>3, <2>1, FP!RestOfJoined
  <2> QED BY <1>2, <2>1, <2>2
<1>9. /\ n \in 0 .. Len(a.ticks)
      /\ \A i \in 1 .. n : a.ticks[i].time < x.time - WindowMs
  BY <1>1, <1>7, ExpiredFacts
<1>10. n < Len(a.ticks)
  <2>1. SUFFICES ASSUME n = Len(a.ticks) PROVE FALSE
    BY <1>1, <1>3, <1>7, <1>9
  <2>2. n \in 1 .. n
    BY <1>1, <1>3, <1>7, <2>1
  <2>3. x.time < x.time - WindowMs
    <3> HIDE DEF n
    <3> QED BY <1>7, <1>9, <2>1, <2>2
  <2> QED BY <1>1, <2>3
<1>11. /\ v.ticks = SubSeq(a.ticks, n + 1, Len(a.ticks))
       /\ v.sumPq = a.sumPq - SumPq(SubSeq(a.ticks, 1, n))
       /\ v.sumQ = a.sumQ - SumQ(SubSeq(a.ticks, 1, n))
  <2>1. n # Len(a.ticks)
    BY <1>7, <1>9, <1>10
  <2> QED BY <1>6, <2>1 DEF Evict
<1> HIDE DEF n
<1>12. v.ticks \in Seq(Arrived(s)) /\ Len(v.ticks) = Len(a.ticks) - n /\ n \in Nat
  <2>1. a.ticks \in Seq(Arrived(s)) /\ n \in 0 .. Len(a.ticks)
    BY <1>7, <1>9
  <2>2. v.ticks = SubSeq(a.ticks, n + 1, Len(a.ticks))
    BY <1>11
  <2>3. n \in Nat
    BY <2>1
  <2> QED BY <2>1, <2>2, <2>3, FP!Rest
<1>13. v.ticks = SubSeq(all, (gone + n) + 1, Len(all))
  <2>1. gone \in 0 .. Len(all)
    BY <1>1, <1>3
  <2> QED BY <1>1, <1>8, <1>9, <1>11, <2>1, FP!RestOfRest
<1>14. /\ Gone(v, all) = gone + n /\ Len(v.ticks) \in 0 .. Len(all) /\ Len(v.ticks) > 0
  BY <1>1, <1>3, <1>7, <1>9, <1>10, <1>12 DEF Gone
<1>15. v.sumPq = SumPq(v.ticks)
  <2>1. SumPq(a.ticks) = a.sumPq
    <3>1. FW!Adds(Arrived(s), PqOf(s)) /\ PqOf(s)[x] = x.price * x.quantity
      BY Weights
    <3>2. FW!Fold(0, Append(w.ticks, x)) = FW!Fold(0, w.ticks) + PqOf(s)[x]
      BY <1>4, <3>1, FW!AddsAppend
    <3> QED BY <1>2, <1>5, <3>1, <3>2, SumsAreFolds
  <2> QED BY <1>7, <1>9, <1>11, <2>1, Weights, SumsAreFolds, FW!AddsRest
<1>16. v.sumQ = SumQ(v.ticks)
  <2>1. SumQ(a.ticks) = a.sumQ
    <3>1. FQ!Adds(Arrived(s), QOf(s)) /\ QOf(s)[x] = x.quantity
      BY Weights
    <3>2. FQ!Fold(0, Append(w.ticks, x)) = FQ!Fold(0, w.ticks) + QOf(s)[x]
      BY <1>4, <3>1, FQ!AddsAppend
    <3> QED BY <1>2, <1>5, <3>1, <3>2, SumsAreFolds
  <2> QED BY <1>7, <1>9, <1>11, <2>1, Weights, SumsAreFolds, FQ!AddsRest
<1>17. ASSUME NEW i \in 1 .. gone + n
       PROVE  \E j \in i + 1 .. Len(all) : all[i].time < all[j].time - WindowMs
  <2>1. CASE i \in 1 .. gone
    <3>1. PICK j \in i + 1 .. Len(done) : done[i].time < done[j].time - WindowMs
      BY <1>2, <2>1
    <3>2. j \in i + 1 .. Len(all) /\ j \in 1 .. Len(done) /\ i \in 1 .. Len(done)
      BY <1>1, <1>3, <2>1
    <3>3. all[i] = done[i] /\ all[j] = done[j]
      BY <1>1, <3>2
    <3> QED BY <3>1, <3>2, <3>3
  <2>2. CASE i \notin 1 .. gone
    <3> DEFINE k == i - gone
    <3>1. k \in 1 .. n /\ gone + k = i /\ Len(all) \in i + 1 .. Len(all) /\ k \in 1 .. Len(all) - gone
      BY <1>1, <1>3, <1>7, <1>9, <1>10, <2>2
    <3> HIDE DEF k
    <3>2. a.ticks[k] = all[gone + k]
      <4>1. gone \in 0 .. Len(all)
        BY <1>1, <1>3
      <4> QED BY <1>1, <1>8, <3>1, <4>1, FP!Rest
    <3>3. all[i].time < x.time - WindowMs
      BY <1>9, <3>1, <3>2
    <3>4. all[Len(all)] = x
      BY <1>1
    <3> QED BY <3>1, <3>3, <3>4
  <2> QED BY <2>1, <2>2
<1>18. WindowOK(v, all)
  BY <1>13, <1>14, <1>15, <1>16, <1>17 DEF WindowOK
<1> QED BY <1>18 DEF v, all
-----------------------------------------------------------------------------
(* The moving averages of the ticks done, for a period p.                  *)
PricesOf(ticks) == [i \in DOMAIN ticks |-> ticks[i].price]

LastPrices(n, prices) == SubSeq(prices, (Len(prices) - n) + 1, Len(prices))

SimpleOK(values, sum, p, prices) ==
  /\ Len(values) = IF Len(prices) < p THEN Len(prices) ELSE p
  /\ values = LastPrices(Len(values), prices)
  /\ sum = FA!Fold(0, values)

\* The quotient e lies between any bounds of the prices.
Within(e, prices) ==
  /\ e \in Nat \X (Nat \ {0})
  /\ \A lo \in Nat : (\A i \in 1 .. Len(prices) : lo <= prices[i]) => lo * e[2] <= e[1]
  /\ \A hi \in Nat : (\A i \in 1 .. Len(prices) : prices[i] <= hi) => e[1] <= hi * e[2]

AverageOK(m, p, prices) ==
  /\ SimpleOK(m.values, m.sum, p, prices)
  /\ IF Len(prices) = 0 THEN m.ema = None ELSE Within(m.ema, prices)

Itself == [x \in Nat |-> x]

\* The sum of prices: empty, grown by one price, and of what a prefix leaves.
LEMMA PriceSums ==
  ASSUME NEW values \in Seq(Nat)
  PROVE  /\ FA!Fold(0, <<>>) = 0 /\ FA!Fold(0, values) \in Int
         /\ \A x \in Nat : FA!Fold(0, Append(values, x)) = FA!Fold(0, values) + x
         /\ \A n \in 0 .. Len(values) :
              FA!Fold(0, SubSeq(values, n + 1, Len(values)))
                = FA!Fold(0, values) - FA!Fold(0, SubSeq(values, 1, n))
<1>1. FA!Adds(Nat, Itself) /\ \A x \in Nat : Itself[x] = x
  BY DEF FA!Adds, AddPrice, Itself
<1>2. /\ FA!Fold(0, <<>>) = 0 /\ FA!Fold(0, values) \in Int
      /\ \A x \in Nat : FA!Fold(0, Append(values, x)) = FA!Fold(0, values) + Itself[x]
  BY <1>1, FA!AddsAppend
<1>3. \A n \in 0 .. Len(values) :
        FA!Fold(0, SubSeq(values, n + 1, Len(values)))
          = FA!Fold(0, values) - FA!Fold(0, SubSeq(values, 1, n))
  BY <1>1, FA!AddsRest
<1>4. \A x \in Nat : FA!Fold(0, Append(values, x)) = FA!Fold(0, values) + x
  BY <1>1, <1>2
<1> QED BY <1>2, <1>3, <1>4

\* The deque with a maxlen and its sum.
LEMMA SimpleTick ==
  ASSUME NEW p \in Periods, NEW prices \in Seq(Nat), NEW x \in Nat,
         NEW values, NEW sum, SimpleOK(values, sum, p, prices)
  PROVE  LET u == UpdateSma(values, sum, p, x) IN SimpleOK(u[1], u[2], p, Append(prices, x))
<1> DEFINE all == Append(prices, x)
           gone == Len(prices) - Len(values)
           longer == Append(values, x)
           u == UpdateSma(values, sum, p, x)
<1>1. /\ Len(prices) \in Nat /\ p \in Nat /\ p > 0
      /\ all \in Seq(Nat) /\ Len(all) = Len(prices) + 1
  BY AveragesAssumption
<1>2. /\ Len(values) = IF Len(prices) < p THEN Len(prices) ELSE p
      /\ values = SubSeq(prices, gone + 1, Len(prices)) /\ sum = FA!Fold(0, values)
  BY DEF SimpleOK, LastPrices
<1>3. gone \in 0 .. Len(prices) /\ Len(values) \in Nat
  BY <1>1, <1>2
<1>4. values \in Seq(Nat) /\ Len(values) = Len(prices) - gone
  BY <1>2, <1>3, FA!Rest
<1>5. longer \in Seq(Nat) /\ Len(longer) = Len(values) + 1
  BY <1>4
<1>6. longer = SubSeq(all, gone + 1, Len(all)) /\ gone \in 0 .. Len(all)
  <2>1. <<x>> \in Seq(Nat) /\ all = prices \o <<x>> /\ longer = values \o <<x>>
    BY <1>4, FA!AppendJoins
  <2>2. SubSeq(prices \o <<x>>, gone + 1, Len(prices \o <<x>>)) = SubSeq(prices, gone + 1, Len(prices)) \o <<x>>
    BY <1>3, <2>1, FA!RestOfJoined
  <2>3. gone \in 0 .. Len(all)
    BY <1>1, <1>3
  <2> HIDE DEF all, gone, longer
  <2> QED BY <1>2, <2>1, <2>2, <2>3
<1>7. FA!Fold(0, longer) = sum + x /\ sum \in Int
  BY <1>2, <1>4, PriceSums
<1>8. CASE Len(values) # p
  <2>1. u[1] = longer /\ u[2] = sum + x
    BY <1>8 DEF UpdateSma
  <2>2. Len(longer) = IF Len(all) < p THEN Len(all) ELSE p
    BY <1>1, <1>2, <1>5, <1>8
  <2>3. gone = Len(all) - Len(longer)
    BY <1>1, <1>3, <1>5
  <2>4. longer = LastPrices(Len(longer), all)
    BY <1>6, <2>3 DEF LastPrices
  <2> HIDE DEF longer, all, u
  <2> QED BY <1>7, <2>1, <2>2, <2>4 DEF SimpleOK, u, all
<1>9. CASE Len(values) = p
  <2> DEFINE v == Append(Tail(values), x)
  <2>1. u[1] = v /\ u[2] = sum - Head(values) + x
    BY <1>9 DEF UpdateSma
  <2>2. /\ v = SubSeq(longer, 2, Len(longer)) /\ v \in Seq(Nat) /\ Len(v) = p
        /\ Tail(values) = SubSeq(values, 2, Len(values)) /\ Tail(values) \in Seq(Nat)
        /\ Head(values) = values[1] /\ Head(values) \in Nat
    BY <1>1, <1>4, <1>5, <1>9, FA!TailAppend
  <2> HIDE DEF u, v, longer, all
  <2>3. v = SubSeq(all, (gone + 1) + 1, Len(all))
    <3>1. 1 \in 0 .. Len(longer) /\ 1 + 1 = 2
      BY <1>4, <1>5, <1>3
    <3>2. SubSeq(longer, 1 + 1, Len(longer)) = SubSeq(all, (gone + 1) + 1, Len(all))
      <4> HIDE DEF gone
      <4>1. all \in Seq(Nat) /\ gone \in 0 .. Len(all) /\ longer = SubSeq(all, gone + 1, Len(all))
        BY <1>1, <1>6
      <4>2. 1 \in 0 .. Len(longer)
        BY <3>1
      <4> QED BY <4>1, <4>2, FA!RestOfRest
    <3> QED BY <2>2, <3>1, <3>2
  <2>4. gone + 1 = Len(all) - Len(v) /\ Len(v) = IF Len(all) < p THEN Len(all) ELSE p
    <3>1. Len(all) = Len(prices) + 1 /\ Len(v) = Len(values) /\ Len(values) = p
      BY <1>1, <1>9, <2>2
    <3>2. ~(Len(all) < p)
      BY <1>1, <1>2, <1>9, <3>1
    <3> QED BY <1>1, <1>3, <3>1, <3>2
  <2>5. v = LastPrices(Len(v), all)
    <3> HIDE DEF gone
    <3> QED BY <2>3, <2>4 DEF LastPrices
  <2>6. FA!Fold(0, Tail(values)) = sum - Head(values)
    <3>1. 1 \in 0 .. Len(values) /\ 1 + 1 = 2 /\ 0 \in 0 .. Len(values) - 1 /\ 0 + 1 = 1
      BY <1>1, <1>4, <1>9
    <3>2. FA!Fold(0, SubSeq(values, 2, Len(values))) = FA!Fold(0, values) - FA!Fold(0, SubSeq(values, 1, 1))
      BY <1>4, <3>1, PriceSums
    <3>3. SubSeq(values, 1, 1) = Append(<<>>, values[1])
      BY <1>4, <3>1, FA!PrefixGrows, FA!WholePrefix
    <3>4. FA!Fold(0, Append(<<>>, values[1])) = values[1]
      <4>1. values[1] \in Nat /\ <<>> \in Seq(Nat)
        BY <2>2
      <4>2. FA!Fold(0, Append(<<>>, values[1])) = FA!Fold(0, <<>>) + values[1] /\ FA!Fold(0, <<>>) = 0
        BY <4>1, PriceSums
      <4> QED BY <4>1, <4>2
    <3> QED BY <1>2, <2>2, <3>2, <3>3, <3>4
  <2>7. FA!Fold(0, v) = sum - Head(values) + x
    <3>1. FA!Fold(0, v) = FA!Fold(0, Tail(values)) + x
      BY <2>2, PriceSums DEF v
    <3> QED BY <2>6, <3>1
  <2> QED BY <2>1, <2>4, <2>5, <2>7 DEF SimpleOK, u, all
<1> QED BY <1>8, <1>9

\* Multiplication is monotone.
LEMMA ProductGrows ==
  ASSUME NEW a \in Nat, NEW b \in Nat, NEW c \in Nat, a <= b
  PROVE  c * a <= c * b
OBVIOUS

\* The weighted mean of two quotients above a bound is above it; and below.
LEMMA MeanAbove ==
  ASSUME NEW lo \in Nat, NEW x \in Nat, NEW n \in Nat, NEW d \in Nat, NEW p \in Nat \ {0},
         lo <= x, lo * d <= n
  PROVE  lo * ((p + 1) * d) <= 2 * x * d + (p - 1) * n
<1>1. PICK k \in Nat : p = k + 1
  <2>1. p - 1 \in Nat /\ p = (p - 1) + 1
    OBVIOUS
  <2> QED BY <2>1
<1>2. lo * d <= x * d
  OBVIOUS
<1>3. k * (lo * d) <= k * n
  BY ProductGrows
<1>4. lo * ((p + 1) * d) = 2 * (lo * d) + k * (lo * d)
  BY <1>1
<1>5. 2 * x * d = 2 * (x * d) /\ p - 1 = k
  BY <1>1
<1> QED BY <1>2, <1>3, <1>4, <1>5

\* And of two quotients below a bound, below it.
LEMMA MeanBelow ==
  ASSUME NEW hi \in Nat, NEW x \in Nat, NEW n \in Nat, NEW d \in Nat, NEW p \in Nat \ {0},
         x <= hi, n <= hi * d
  PROVE  2 * x * d + (p - 1) * n <= hi * ((p + 1) * d)
<1>1. PICK k \in Nat : p = k + 1
  <2>1. p - 1 \in Nat /\ p = (p - 1) + 1
    OBVIOUS
  <2> QED BY <2>1
<1>2. x * d <= hi * d
  OBVIOUS
<1>3. k * n <= k * (hi * d)
  BY ProductGrows
<1>4. hi * ((p + 1) * d) = 2 * (hi * d) + k * (hi * d)
  BY <1>1
<1>5. 2 * x * d = 2 * (x * d) /\ p - 1 = k
  BY <1>1
<1> QED BY <1>2, <1>3, <1>4, <1>5

\* Numerator and denominator of the exponential average stay natural, the latter not zero.
LEMMA ProductTypes ==
  ASSUME NEW x \in Nat, NEW n \in Nat, NEW d \in Nat \ {0}, NEW p \in Nat \ {0}
  PROVE  2 * x * d + (p - 1) * n \in Nat /\ (p + 1) * d \in Nat \ {0}
<1>1. (p + 1) * d \in Nat /\ (p + 1) * d > 0
  OBVIOUS
<1>2. x * d \in Nat /\ (p - 1) * n \in Nat
  OBVIOUS
<1> QED BY <1>1, <1>2

\* One more price keeps the exponential average within the prices seen.
LEMMA EmaTick ==
  ASSUME NEW p \in Periods, NEW prices \in Seq(Nat), NEW x \in Nat, NEW e,
         IF Len(prices) = 0 THEN e = None ELSE Within(e, prices)
  PROVE  Within(UpdateEma(e, p, x), Append(prices, x))
<1> DEFINE all == Append(prices, x)
<1>1. /\ Len(prices) \in Nat /\ p \in Nat \ {0} /\ None \notin Nat \X Nat
      /\ Len(all) = Len(prices) + 1 /\ all[Len(prices) + 1] = x
      /\ \A i \in 1 .. Len(prices) : all[i] = prices[i]
  BY AveragesAssumption
<1> HIDE DEF all
<1>2. Len(all) \in 1 .. Len(all) /\ all[Len(all)] = x /\ \A i \in 1 .. Len(prices) : i \in 1 .. Len(all)
  BY <1>1
<1>3. CASE Len(prices) = 0
  <2>1. UpdateEma(e, p, x) = <<x, 1>>
    BY <1>3 DEF UpdateEma
  <2>2. \A lo \in Nat : (\A i \in 1 .. Len(all) : lo <= all[i]) => lo * 1 <= x
    BY <1>2
  <2>3. \A hi \in Nat : (\A i \in 1 .. Len(all) : all[i] <= hi) => x <= hi * 1
    BY <1>2
  <2>4. <<x, 1>> \in Nat \X (Nat \ {0}) /\ <<x, 1>>[1] = x /\ <<x, 1>>[2] = 1
    OBVIOUS
  <2>5. Within(<<x, 1>>, all)
    BY <2>2, <2>3, <2>4, Zenon DEF Within
  <2> QED BY <2>1, <2>5 DEF all
<1>4. CASE Len(prices) # 0
  <2> DEFINE n == e[1]
             d == e[2]
             num == 2 * x * d + (p - 1) * n
             den == (p + 1) * d
  <2>1. /\ n \in Nat /\ d \in Nat \ {0} /\ e \in Nat \X Nat
        /\ \A lo \in Nat : (\A i \in 1 .. Len(prices) : lo <= prices[i]) => lo * d <= n
        /\ \A hi \in Nat : (\A i \in 1 .. Len(prices) : prices[i] <= hi) => n <= hi * d
    BY <1>4 DEF Within
  <2>2. UpdateEma(e, p, x) = <<num, den>>
    BY <1>1, <2>1 DEF UpdateEma
  <2> HIDE DEF n, d
  <2>3. num \in Nat /\ den \in Nat \ {0}
    BY <1>1, <2>1, ProductTypes
  <2>4. ASSUME NEW lo \in Nat, \A i \in 1 .. Len(all) : lo <= all[i] PROVE lo * den <= num
    <3>1. lo <= x /\ \A i \in 1 .. Len(prices) : lo <= prices[i]
      BY <1>1, <1>2, <2>4
    <3>2. lo * d <= n
      BY <2>1, <3>1
    <3> QED BY <1>1, <2>1, <3>1, <3>2, MeanAbove
  <2>5. ASSUME NEW hi \in Nat, \A i \in 1 .. Len(all) : all[i] <= hi PROVE num <= hi * den
    <3>1. x <= hi /\ \A i \in 1 .. Len(prices) : prices[i] <= hi
      BY <1>1, <1>2, <2>5
    <3>2. n <= hi * d
      BY <2>1, <3>1
    <3> QED BY <1>1, <2>1, <3>1, <3>2, MeanBelow
  <2> HIDE DEF num, den
  <2>6. Within(<<num, den>>, all)
    BY <2>3, <2>4, <2>5 DEF Within
  <2> QED BY <2>2, <2>6 DEF all
<1> QED BY <1>3, <1>4

AveragesOK(av, prices) == \A p \in Periods : AverageOK(av[p], p, prices)

\* One more price keeps every average of every period right.
LEMMA AveragesTick ==
  ASSUME NEW prices \in Seq(Nat), NEW x \in Nat, NEW av, AveragesOK(av, prices)
  PROVE  AveragesOK(UpdateAverages(av, x), Append(prices, x))
<1> SUFFICES ASSUME NEW p \in Periods
             PROVE  AverageOK(UpdateAverages(av, x)[p], p, Append(prices, x))
  BY DEF AveragesOK
<1> DEFINE m == av[p]
           u == UpdateSma(m.values, m.sum, p, x)
           v == UpdateAverages(av, x)[p]
<1>1. AverageOK(m, p, prices)
  BY DEF AveragesOK
<1>2. v.values = u[1] /\ v.sum = u[2] /\ v.ema = UpdateEma(m.ema, p, x)
  BY DEF UpdateAverages
<1> HIDE DEF m, v
<1>3. SimpleOK(u[1], u[2], p, Append(prices, x))
  BY <1>1, SimpleTick DEF AverageOK
<1>4. Within(v.ema, Append(prices, x))
  BY <1>1, <1>2, EmaTick DEF AverageOK
<1>5. Len(Append(prices, x)) # 0
  OBVIOUS
<1> HIDE DEF u
<1>6. AverageOK(v, p, Append(prices, x))
  BY <1>2, <1>3, <1>4, <1>5 DEF AverageOK
<1> QED BY <1>6 DEF v

\* The prices of a sequence of ticks are naturals, one for each tick.
LEMMA PricesType ==
  ASSUME NEW s, NEW d \in Seq(Arrived(s))
  PROVE  /\ PricesOf(d) \in Seq(Nat) /\ Len(PricesOf(d)) = Len(d)
         /\ \A i \in 1 .. Len(d) : PricesOf(d)[i] = d[i].price
<1>1. \A y \in Arrived(s) : y.price \in Nat
  BY DEF Arrived
<1>2. DOMAIN d = 1 .. Len(d) /\ Len(d) \in Nat /\ \A i \in 1 .. Len(d) : d[i] \in Arrived(s)
  OBVIOUS
<1>3. PricesOf(d) = [i \in 1 .. Len(d) |-> d[i].price]
  BY <1>2 DEF PricesOf
<1>4. PricesOf(d) \in [1 .. Len(d) -> Nat]
  BY <1>1, <1>2, <1>3
<1> QED BY <1>2, <1>3, <1>4

\* One more tick is one more price.
LEMMA PricesAppend ==
  ASSUME NEW s, NEW done \in Seq(Arrived(s)), NEW x \in Arrived(s)
  PROVE  /\ PricesOf(done) \in Seq(Nat) /\ Len(PricesOf(done)) = Len(done) /\ x.price \in Nat
         /\ PricesOf(Append(done, x)) = Append(PricesOf(done), x.price)
<1>1. \A y \in Arrived(s) : y.price \in Nat
  BY DEF Arrived
<1>2. ASSUME NEW d \in Seq(Arrived(s))
      PROVE  /\ PricesOf(d) \in Seq(Nat) /\ Len(PricesOf(d)) = Len(d)
             /\ \A i \in 1 .. Len(d) : PricesOf(d)[i] = d[i].price
  BY PricesType
<1> DEFINE all == Append(done, x)
           a == PricesOf(all)
           b == Append(PricesOf(done), x.price)
<1>3. /\ all \in Seq(Arrived(s)) /\ Len(all) = Len(done) + 1 /\ all[Len(done) + 1] = x
      /\ Len(done) \in Nat /\ \A i \in 1 .. Len(done) : all[i] = done[i]
  OBVIOUS
<1> HIDE DEF all
<1>4. a \in Seq(Nat) /\ Len(a) = Len(all) /\ \A i \in 1 .. Len(all) : a[i] = all[i].price
  BY <1>2, <1>3
<1>5. /\ b \in Seq(Nat) /\ Len(b) = Len(done) + 1 /\ b[Len(done) + 1] = x.price
      /\ \A i \in 1 .. Len(done) : b[i] = done[i].price
  BY <1>1, <1>2
<1> HIDE DEF a, b
<1>6. ASSUME NEW i \in 1 .. Len(a) PROVE a[i] = b[i]
  <2>1. CASE i \in 1 .. Len(done)
    BY <1>3, <1>4, <1>5, <2>1
  <2>2. CASE i = Len(done) + 1
    BY <1>3, <1>4, <1>5, <2>2
  <2> QED BY <1>3, <1>4, <2>1, <2>2
<1>7. a = b
  BY <1>3, <1>4, <1>5, <1>6, FA!SameSequence
<1> QED BY <1>1, <1>2, <1>7 DEF a, b, all
-----------------------------------------------------------------------------
(* _process_batch.                                                         *)

IsSeq(rs) == \E T : rs \in Seq(T)

StatFields(st) ==
  st = [total |-> st.total, lastPrice |-> st.lastPrice, vwap |-> st.vwap,
        averages |-> st.averages, rate |-> st.rate, dropped |-> st.dropped,
        outOfOrder |-> st.outOfOrder, gaps |-> st.gaps, depth |-> st.depth]

StatForm(st) == StatFields(st) /\ st.total \in Nat

\* The record a fold of ProcessTick hands on.
BatchFields(p) ==
  p = [tick |-> p.tick, aggs |-> p.aggs, rows |-> p.rows, events |-> p.events, vwap |-> p.vwap,
       averages |-> p.averages, stat |-> p.stat, count |-> p.count]

BatchForm(p) == BatchFields(p) /\ StatForm(p.stat) /\ IsSeq(p.rows)

\* The updates of a record that the steps of _process_batch make.
Framed(p, a, r, e, q)       == q = [p EXCEPT !.aggs = a, !.rows = r, !.events = e]
Recorded(p, x, r, q)        == q = [p EXCEPT !.tick = x, !.rows = r]
Summed(p, v, m, c, st, e, q) ==
  q = [p EXCEPT !.vwap = v, !.averages = m, !.count = c, !.stat = st, !.events = e]
Counted(st, n, l, v, m, u)  == u = [st EXCEPT !.total = n, !.lastPrice = l, !.vwap = v, !.averages = m]
Sampled(st, d, z, o, g, u)  == u = [st EXCEPT !.dropped = d, !.depth = z, !.outOfOrder = o, !.gaps = g]

\* The fields of the loop's state after it applied a tick to one timeframe,
LEMMA FramedFields ==
  ASSUME NEW p, BatchFields(p), NEW a, NEW r, NEW e, NEW q, Framed(p, a, r, e, q)
  PROVE  /\ BatchFields(q)
         /\ q.rows = r /\ q.aggs = a /\ q.events = e
         /\ q.tick = p.tick /\ q.vwap = p.vwap /\ q.averages = p.averages
         /\ q.stat = p.stat /\ q.count = p.count
BY DEF BatchFields, Framed

\* after it recorded the tick's row,
LEMMA RecordedFields ==
  ASSUME NEW p, BatchFields(p), NEW x, NEW r, NEW q, Recorded(p, x, r, q)
  PROVE  /\ BatchFields(q)
         /\ q.tick = x /\ q.rows = r
         /\ q.aggs = p.aggs /\ q.events = p.events /\ q.vwap = p.vwap /\ q.averages = p.averages
         /\ q.stat = p.stat /\ q.count = p.count
BY DEF BatchFields, Recorded

\* and after it updated the window, the averages, the statistics and the events.
LEMMA SummedFields ==
  ASSUME NEW p, BatchFields(p), NEW v, NEW m, NEW c, NEW st, NEW e, NEW q,
         Summed(p, v, m, c, st, e, q)
  PROVE  /\ BatchFields(q)
         /\ q.vwap = v /\ q.averages = m /\ q.count = c /\ q.stat = st /\ q.events = e
         /\ q.tick = p.tick /\ q.aggs = p.aggs /\ q.rows = p.rows
BY DEF BatchFields, Summed

\* The total a statistics update leaves,
LEMMA CountedFields ==
  ASSUME NEW st, StatFields(st), NEW n, NEW l, NEW v, NEW m, NEW u, Counted(st, n, l, v, m, u)
  PROVE  StatFields(u) /\ u.total = n
BY DEF StatFields, Counted

\* and the total a sample of the gauges leaves.
LEMMA SampledFields ==
  ASSUME NEW st, StatFields(st), NEW d, NEW z, NEW o, NEW g, NEW u, Sampled(st, d, z, o, g, u)
  PROVE  StatFields(u) /\ u.total = st.total
BY DEF StatFields, Sampled

\* The ticks a table holds are a left fold over its rows.
LEMMA TicksInIsFold ==
  \A rs : TicksIn(rs) = FT!Fold([s \in Symbols |-> <<>>], rs)
BY DEF TicksIn, FoldLeft, MapThenFoldSet, Max, FT!Fold, FT!FoldLeft, FT!MapThenFoldSet, FT!Max

\* One more row is one more step of that fold.
LEMMA RowAppended ==
  ASSUME NEW rs, IsSeq(rs), NEW x
  PROVE  IsSeq(Append(rs, x)) /\ TicksIn(Append(rs, x)) = KeepTick(TicksIn(rs), x)
<1>1. PICK T : rs \in Seq(T)
  BY DEF IsSeq
<1>2. rs \in Seq(T \cup {x}) /\ x \in T \cup {x}
  BY <1>1
<1>3. FT!Fold([s \in Symbols |-> <<>>], Append(rs, x)) = KeepTick(FT!Fold([s \in Symbols |-> <<>>], rs), x)
  BY <1>2, FT!FoldAppend
<1>4. Append(rs, x) \in Seq(T \cup {x})
  BY <1>2
<1> QED BY <1>3, <1>4, TicksInIsFold DEF IsSeq

\* Candle rows are no ticks.
LEMMA CandleRowAdded ==
  ASSUME NEW rs, IsSeq(rs), NEW tf, NEW c
  PROVE  /\ IsSeq(rs \o IfAny(c, CandleRow(tf, c)))
         /\ TicksIn(rs \o IfAny(c, CandleRow(tf, c))) = TicksIn(rs)
<1>1. PICK T : rs \in Seq(T)
  BY DEF IsSeq
<1>2. CASE c = None
  <2>1. rs \o <<>> = rs
    BY <1>1
  <2> QED BY <1>2, <2>1 DEF IfAny
<1>3. CASE c # None
  <2> DEFINE x == CandleRow(tf, c)
  <2>1. x.kind # "tick"
    BY DEF CandleRow
  <2> HIDE DEF x
  <2>2. rs \o <<x>> = Append(rs, x)
    BY <1>1
  <2>3. IsSeq(Append(rs, x)) /\ TicksIn(Append(rs, x)) = TicksIn(rs)
    BY <2>1, RowAppended DEF KeepTick
  <2>4. IfAny(c, x) = <<x>>
    BY <1>3 DEF IfAny
  <2>5. IsSeq(rs \o IfAny(c, x)) /\ TicksIn(rs \o IfAny(c, x)) = TicksIn(rs)
    BY <2>2, <2>3, <2>4
  <2> QED BY <2>5 DEF x
<1> QED BY <1>2, <1>3

\* A timeframe touches neither the sums nor the tick rows.
FrameLeaves(p, q) ==
  /\ BatchForm(q)
  /\ q.tick = p.tick /\ q.vwap = p.vwap /\ q.averages = p.averages
  /\ q.stat = p.stat /\ q.count = p.count
  /\ TicksIn(q.rows) = TicksIn(p.rows)

\* Applying a tick to one timeframe leaves everything but candles, rows and events alone.
LEMMA FrameKeeps ==
  ASSUME NEW p, BatchForm(p), NEW tf
  PROVE  FrameLeaves(p, ApplyFrame(p, tf))
<1> DEFINE after == Agg(tf)!Apply(p.aggs[tf], p.tick)
           closed == Agg(tf)!ClosedBy(p.aggs[tf], p.tick)
           rs == p.rows \o IfAny(closed, CandleRow(tf, closed))
           rt == rs \o IfAny(after.lastPatch, CandleRow(tf, after.lastPatch))
           q == ApplyFrame(p, tf)
<1>1. \E a, e : Framed(p, a, rt, e, q)
  BY Zenon DEF ApplyFrame, Framed
<1>2. IsSeq(rs) /\ TicksIn(rs) = TicksIn(p.rows)
  BY CandleRowAdded DEF BatchForm
<1> HIDE DEF rs
<1>3. IsSeq(rt) /\ TicksIn(rt) = TicksIn(rs)
  BY <1>2, CandleRowAdded
<1> HIDE DEF rt, q, after, closed
<1>4. /\ BatchFields(q) /\ q.rows = rt
      /\ q.tick = p.tick /\ q.vwap = p.vwap /\ q.averages = p.averages
      /\ q.stat = p.stat /\ q.count = p.count
  BY <1>1, FramedFields DEF BatchForm
<1>5. FrameLeaves(p, q)
  BY <1>2, <1>3, <1>4 DEF FrameLeaves, BatchForm
<1> QED BY <1>5 DEF q

\* So does applying it to all of them.
LEMMA FramesKeep ==
  ASSUME NEW p, BatchForm(p)
  PROVE  FrameLeaves(p, FoldLeft(ApplyFrame, p, Timeframes))
<1> DEFINE q == FoldLeft(ApplyFrame, p, Timeframes)
<1>1. q = FF!Fold(p, Timeframes)
  BY DEF FoldLeft, MapThenFoldSet, Max, FF!Fold, FF!FoldLeft, FF!MapThenFoldSet, FF!Max
<1>2. Timeframes \in Seq(Nat \ {0}) /\ Len(Timeframes) \in Nat
  BY Constants
<1>3. PICK h : FF!Passes(p, Timeframes, h) /\ h[Len(Timeframes)] = q
  BY <1>1, <1>2, FF!FoldPasses
<1> HIDE DEF q
<1> DEFINE S == {k \in 0 .. Len(Timeframes) : FrameLeaves(p, h[k])}
<1>4. 0 \in S
  BY <1>2, <1>3 DEF FF!Passes, FrameLeaves
<1>5. ASSUME NEW k \in 0 .. Len(Timeframes) - 1, k \in S PROVE k + 1 \in S
  <2>1. k + 1 \in 1 .. Len(Timeframes) /\ (k + 1) - 1 = k /\ k + 1 \in 0 .. Len(Timeframes)
    BY <1>2
  <2>2. h[k + 1] = ApplyFrame(h[k], Timeframes[k + 1])
    BY <1>3, <2>1 DEF FF!Passes
  <2>3. FrameLeaves(p, h[k])
    BY <1>5
  <2>4. FrameLeaves(h[k], h[k + 1])
    BY <2>2, <2>3, FrameKeeps DEF FrameLeaves
  <2>5. FrameLeaves(p, h[k + 1])
    BY <2>3, <2>4 DEF FrameLeaves
  <2> QED BY <2>1, <2>5
<1>6. 0 .. Len(Timeframes) \subseteq S
  <2> HIDE DEF S
  <2> QED BY <1>2, <1>4, <1>5, FF!BoundedInduction
<1>7. FrameLeaves(p, h[Len(Timeframes)])
  BY <1>2, <1>6
<1> QED BY <1>3, <1>7 DEF q

\* What one tick does besides the candles.
TickDone(p, tick, q) ==
  /\ BatchForm(q)
  /\ q.vwap = UpdateVwap(p.vwap, tick)
  /\ q.averages = UpdateAverages(p.averages, tick.price)
  /\ q.stat.total = p.stat.total + 1
  /\ TicksIn(q.rows) = [TicksIn(p.rows) EXCEPT ![tick.symbol] = Append(@, tick)]

\* One trip of the loop over ready does to the tables what TickDone says.
LEMMA TickKeeps ==
  ASSUME NEW p, BatchForm(p), NEW tick
  PROVE  TickDone(p, tick, ProcessTick(p, tick))
<1> DEFINE recorded == [p EXCEPT !.tick = tick, !.rows = Append(@, TickRow(tick))]
           framed == FoldLeft(ApplyFrame, recorded, Timeframes)
           q == ProcessTick(p, tick)
<1>1. IsSeq(Append(p.rows, TickRow(tick)))
      /\ TicksIn(Append(p.rows, TickRow(tick))) = KeepTick(TicksIn(p.rows), TickRow(tick))
  BY RowAppended DEF BatchForm
<1>2. KeepTick(TicksIn(p.rows), TickRow(tick)) = [TicksIn(p.rows) EXCEPT ![tick.symbol] = Append(@, tick)]
  BY DEF KeepTick, TickRow
<1>3. /\ BatchForm(recorded)
      /\ recorded.rows = Append(p.rows, TickRow(tick)) /\ recorded.vwap = p.vwap
      /\ recorded.averages = p.averages /\ recorded.stat = p.stat
  <2> DEFINE r == Append(p.rows, TickRow(tick))
  <2>1. Recorded(p, tick, r, recorded)
    BY Zenon DEF Recorded
  <2> HIDE DEF r, recorded
  <2>2. /\ BatchFields(recorded)
        /\ recorded.rows = r /\ recorded.vwap = p.vwap
        /\ recorded.averages = p.averages /\ recorded.stat = p.stat
    BY <2>1, RecordedFields DEF BatchForm
  <2> QED BY <1>1, <2>2 DEF BatchForm, r
<1> HIDE DEF recorded
<1>4. FrameLeaves(recorded, framed)
  BY <1>3, FramesKeep
<1>5. q = UpdateStats(framed, tick)
  BY DEF ProcessTick, recorded
<1> HIDE DEF framed, q
<1>6. /\ BatchFields(q) /\ StatForm(q.stat)
      /\ q.rows = framed.rows
      /\ q.vwap = UpdateVwap(framed.vwap, tick)
      /\ q.averages = UpdateAverages(framed.averages, tick.price)
      /\ q.stat.total = framed.stat.total + 1
  <2> DEFINE v == UpdateVwap(framed.vwap, tick)
             m == UpdateAverages(framed.averages, tick.price)
             n == framed.stat.total + 1
             st == [framed.stat EXCEPT !.total = n, !.lastPrice = tick.price,
                                       !.vwap = Vwap(v), !.averages = m]
  <2>1. \E c, e : Summed(framed, v, m, c, st, e, q)
    BY <1>5, Zenon DEF UpdateStats, Summed
  <2>2. \E l, w : Counted(framed.stat, n, l, w, m, st)
    BY Zenon DEF Counted
  <2> HIDE DEF v, m, st
  <2>3. n \in Nat
    BY <1>4 DEF FrameLeaves, BatchForm, StatForm
  <2> HIDE DEF n
  <2>4. StatForm(st) /\ st.total = n
    BY <1>4, <2>2, <2>3, CountedFields DEF FrameLeaves, BatchForm, StatForm
  <2>5. /\ BatchFields(q) /\ q.vwap = v /\ q.averages = m /\ q.stat = st /\ q.rows = framed.rows
    BY <1>4, <2>1, SummedFields DEF FrameLeaves, BatchForm
  <2> QED BY <2>4, <2>5 DEF v, m, n
<1>7. TickDone(p, tick, q)
  BY <1>1, <1>2, <1>3, <1>4, <1>6 DEF FrameLeaves, BatchForm, TickDone
<1> QED BY <1>7 DEF q

\* The batch tick by tick.
TickByTick(p, ready, h) ==
  /\ h[0] = p
  /\ \A k \in 1 .. Len(ready) : TickDone(h[k - 1], ready[k], h[k])

\* The loop over ready is its trips, one tick after another.
LEMMA BatchTicks ==
  ASSUME NEW p, BatchForm(p), NEW T, NEW ready \in Seq(T)
  PROVE  \E h : TickByTick(p, ready, h) /\ h[Len(ready)] = FoldLeft(ProcessTick, p, ready)
<1> DEFINE q == FoldLeft(ProcessTick, p, ready)
<1>1. q = FP!Fold(p, ready)
  BY DEF FoldLeft, MapThenFoldSet, Max, FP!Fold, FP!FoldLeft, FP!MapThenFoldSet, FP!Max
<1>2. Len(ready) \in Nat
  OBVIOUS
<1>3. PICK h : FP!Passes(p, ready, h) /\ h[Len(ready)] = q
  BY <1>1, FP!FoldPasses
<1> HIDE DEF q
<1> DEFINE S == {k \in 0 .. Len(ready) : BatchForm(h[k])}
<1>4. 0 \in S
  BY <1>2, <1>3 DEF FP!Passes
<1>5. ASSUME NEW k \in 1 .. Len(ready), BatchForm(h[k - 1]) PROVE TickDone(h[k - 1], ready[k], h[k])
  <2>1. h[k] = ProcessTick(h[k - 1], ready[k])
    BY <1>3 DEF FP!Passes
  <2> QED BY <1>5, <2>1, TickKeeps
<1>6. ASSUME NEW k \in 0 .. Len(ready) - 1, k \in S PROVE k + 1 \in S
  <2>1. k + 1 \in 1 .. Len(ready) /\ (k + 1) - 1 = k /\ k + 1 \in 0 .. Len(ready)
    BY <1>2
  <2>2. BatchForm(h[(k + 1) - 1])
    BY <1>6, <2>1
  <2>3. TickDone(h[(k + 1) - 1], ready[k + 1], h[k + 1])
    BY <1>5, <2>1, <2>2
  <2> QED BY <2>1, <2>3 DEF TickDone
<1>7. 0 .. Len(ready) \subseteq S
  <2> HIDE DEF S
  <2> QED BY <1>2, <1>4, <1>6, FP!BoundedInduction
<1>8. ASSUME NEW k \in 1 .. Len(ready) PROVE TickDone(h[k - 1], ready[k], h[k])
  <2>1. k - 1 \in 0 .. Len(ready)
    BY <1>2
  <2> QED BY <1>5, <1>7, <2>1
<1>9. TickByTick(p, ready, h)
  BY <1>3, <1>8 DEF TickByTick, FP!Passes
<1> QED BY <1>3, <1>9 DEF q

\* The table of processed ticks.
TableOK(table) == table = [s \in Symbols |-> table[s]] /\ \A s \in Symbols : table[s] \in Seq(Arrived(s))

\* What a batch of s does besides the candles.
BatchDone(s, p, ready, q) ==
  /\ BatchForm(q)
  /\ q.stat.total = p.stat.total + Len(ready)
  /\ TicksIn(q.rows) = [TicksIn(p.rows) EXCEPT ![s] = @ \o ready]

\* The loop over ready appends it to the table of its symbol and leaves the other tables alone.
LEMMA BatchKeepsTicks ==
  ASSUME NEW s \in Symbols, NEW p, BatchForm(p), TableOK(TicksIn(p.rows)),
         NEW ready \in Seq(Arrived(s))
  PROVE  BatchDone(s, p, ready, FoldLeft(ProcessTick, p, ready))
<1> DEFINE table == TicksIn(p.rows)
           upto(k) == SubSeq(ready, 1, k)
<1>1. PICK h : TickByTick(p, ready, h) /\ h[Len(ready)] = FoldLeft(ProcessTick, p, ready)
  BY BatchTicks
<1>2. /\ Len(ready) \in Nat /\ upto(0) = <<>> /\ upto(Len(ready)) = ready
      /\ p.stat.total \in Nat /\ table[s] \in Seq(Arrived(s)) /\ table = [x \in Symbols |-> table[x]]
  BY FP!WholePrefix DEF TableOK, BatchForm, StatForm
<1>3. ASSUME NEW k \in 0 .. Len(ready) - 1
      PROVE  /\ upto(k) \in Seq(Arrived(s)) /\ ready[k + 1] \in Arrived(s)
             /\ upto(k + 1) = Append(upto(k), ready[k + 1])
  BY FP!PrefixGrows
<1> HIDE DEF upto, table
<1> DEFINE Good(k) == /\ BatchForm(h[k]) /\ h[k].stat.total = p.stat.total + k
                      /\ TicksIn(h[k].rows) = [table EXCEPT ![s] = table[s] \o upto(k)]
           S == {k \in 0 .. Len(ready) : Good(k)}
<1>4. 0 \in S
  <2>1. table[s] \o <<>> = table[s]
    BY <1>2
  <2>2. [table EXCEPT ![s] = table[s] \o <<>>] = table
    BY <1>2, <2>1
  <2>3. h[0] = p
    BY <1>1 DEF TickByTick
  <2>4. TicksIn(h[0].rows) = [table EXCEPT ![s] = table[s] \o upto(0)]
    BY <1>2, <2>2, <2>3 DEF table
  <2>5. Good(0)
    BY <1>2, <2>3, <2>4
  <2> QED BY <1>2, <2>5
<1>5. ASSUME NEW k \in 0 .. Len(ready) - 1, k \in S PROVE k + 1 \in S
  <2> DEFINE x == ready[k + 1]
  <2>1. k + 1 \in 1 .. Len(ready) /\ (k + 1) - 1 = k /\ k + 1 \in 0 .. Len(ready)
    BY <1>2
  <2>2. TickDone(h[k], x, h[k + 1])
    BY <1>1, <2>1 DEF TickByTick
  <2>3. Good(k)
    BY <1>5
  <2>4. x.symbol = s
    BY <1>3 DEF Arrived
  <2>5. TicksIn(h[k + 1].rows) = [TicksIn(h[k].rows) EXCEPT ![s] = Append(@, x)]
    BY <2>2, <2>4 DEF TickDone
  <2>6. table[s] \o Append(upto(k), x) = Append(table[s] \o upto(k), x)
    <3> DEFINE a == table[s]
               b == upto(k)
               T == Arrived(s)
    <3>1. a \in Seq(T) /\ b \in Seq(T) /\ x \in T
      BY <1>2, <1>3
    <3> HIDE DEF a, b, T, x, Good, S
    <3>2. a \o Append(b, x) = Append(a \o b, x)
      BY <3>1, FP!JoinedAppend
    <3> QED BY <3>2 DEF a, b
  <2>7. TicksIn(h[k + 1].rows) = [table EXCEPT ![s] = table[s] \o upto(k + 1)]
    <3> HIDE DEF x
    <3> DEFINE old == table[s] \o upto(k)
               new == table[s] \o upto(k + 1)
    <3>1. new = Append(old, x)
      BY <1>3, <2>6 DEF x
    <3>2. TicksIn(h[k].rows) = [table EXCEPT ![s] = old]
      BY <2>3
    <3> HIDE DEF old, new
    <3>3. TicksIn(h[k].rows)[s] = old
      BY <1>2, <3>2
    <3>4. TicksIn(h[k + 1].rows) = [[table EXCEPT ![s] = old] EXCEPT ![s] = new]
      BY <2>5, <3>1, <3>2, <3>3
    <3>5. TicksIn(h[k + 1].rows) = [table EXCEPT ![s] = new]
      BY <1>2, <3>4
    <3> QED BY <3>5 DEF new
  <2>8. h[k + 1].stat.total = p.stat.total + (k + 1)
    <3>1. h[k + 1].stat.total = h[k].stat.total + 1
      BY <2>2 DEF TickDone
    <3>2. h[k].stat.total = p.stat.total + k
      BY <2>3
    <3>3. p.stat.total \in Nat /\ k \in Int
      BY <1>2
    <3> HIDE DEF Good, S
    <3>4. (p.stat.total + k) + 1 = p.stat.total + (k + 1)
      BY <3>3
    <3> QED BY <3>1, <3>2, <3>4
  <2>9. BatchForm(h[k + 1])
    BY <2>2 DEF TickDone
  <2>10. Good(k + 1)
    BY <2>7, <2>8, <2>9
  <2> QED BY <2>1, <2>10
<1>6. 0 .. Len(ready) \subseteq S
  <2> HIDE DEF S
  <2> QED BY <1>2, <1>4, <1>5, FP!BoundedInduction
<1>7. Good(Len(ready))
  <2> HIDE DEF Good
  <2>1. Len(ready) \in S
    <3> HIDE DEF S
    <3>1. Len(ready) \in 0 .. Len(ready)
      BY <1>2
    <3> QED BY <1>6, <3>1
  <2> QED BY <2>1
<1> QED BY <1>1, <1>2, <1>7 DEF BatchDone, table

\* The running sums follow the table.
SumsOK(w, av, done) == WindowOK(w, done) /\ AveragesOK(av, PricesOf(done))

\* The loop over ready leaves the window and averages of the longer sequence of ticks.
LEMMA BatchKeepsSums ==
  ASSUME NEW s, NEW p, BatchForm(p), NEW done \in Seq(Arrived(s)), SumsOK(p.vwap, p.averages, done),
         NEW ready \in Seq(Arrived(s)), NEW q, q = FoldLeft(ProcessTick, p, ready)
  PROVE  SumsOK(q.vwap, q.averages, done \o ready)
<1> DEFINE upto(k) == SubSeq(ready, 1, k)
<1>1. PICK h : TickByTick(p, ready, h) /\ h[Len(ready)] = q
  BY BatchTicks
<1>2. Len(ready) \in Nat /\ upto(0) = <<>> /\ upto(Len(ready)) = ready
  BY FP!WholePrefix
<1>3. ASSUME NEW k \in 0 .. Len(ready) - 1
      PROVE  /\ upto(k) \in Seq(Arrived(s)) /\ ready[k + 1] \in Arrived(s)
             /\ upto(k + 1) = Append(upto(k), ready[k + 1])
  BY FP!PrefixGrows
<1> HIDE DEF upto
<1> DEFINE Good(k) == SumsOK(h[k].vwap, h[k].averages, done \o upto(k))
           S == {k \in 0 .. Len(ready) : Good(k)}
<1>4. 0 \in S
  <2>1. done \o <<>> = done
    OBVIOUS
  <2>2. h[0] = p
    BY <1>1 DEF TickByTick
  <2>3. Good(0)
    BY <1>2, <2>1, <2>2
  <2> HIDE DEF Good
  <2> QED BY <1>2, <2>3
<1>5. ASSUME NEW k \in 0 .. Len(ready) - 1, k \in S PROVE k + 1 \in S
  <2> DEFINE x == ready[k + 1]
             u == done \o upto(k)
  <2>1. k + 1 \in 1 .. Len(ready) /\ (k + 1) - 1 = k /\ k + 1 \in 0 .. Len(ready)
    BY <1>2
  <2>2. TickDone(h[k], x, h[k + 1])
    BY <1>1, <2>1 DEF TickByTick
  <2>3. SumsOK(h[k].vwap, h[k].averages, u)
    BY <1>5
  <2>4. u \in Seq(Arrived(s)) /\ x \in Arrived(s) /\ done \o upto(k + 1) = Append(u, x)
    <3>1. upto(k) \in Seq(Arrived(s)) /\ x \in Arrived(s) /\ upto(k + 1) = Append(upto(k), x)
      BY <1>3
    <3>2. u \in Seq(Arrived(s))
      BY <3>1, FP!Joined
    <3>3. done \o Append(upto(k), x) = Append(u, x)
      <4> HIDE DEF x
      <4> QED BY <3>1, FP!JoinedAppend
    <3> QED BY <3>1, <3>2, <3>3
  <2> HIDE DEF x, u
  <2>5. WindowOK(h[k + 1].vwap, Append(u, x))
    BY <2>2, <2>3, <2>4, WindowTick DEF TickDone, SumsOK
  <2>6. /\ PricesOf(u) \in Seq(Nat) /\ x.price \in Nat
        /\ PricesOf(Append(u, x)) = Append(PricesOf(u), x.price)
    BY <2>4, PricesAppend
  <2>7. AveragesOK(h[k + 1].averages, Append(PricesOf(u), x.price))
    BY <2>2, <2>3, <2>6, AveragesTick DEF TickDone, SumsOK
  <2>8. SumsOK(h[k + 1].vwap, h[k + 1].averages, done \o upto(k + 1))
    BY <2>4, <2>5, <2>6, <2>7 DEF SumsOK
  <2> QED BY <2>1, <2>8
<1>6. 0 .. Len(ready) \subseteq S
  <2> HIDE DEF S
  <2> QED BY <1>2, <1>4, <1>5, FP!BoundedInduction
<1>7. Good(Len(ready))
  <2> HIDE DEF Good
  <2>1. Len(ready) \in S
    <3> HIDE DEF S
    <3>1. Len(ready) \in 0 .. Len(ready)
      BY <1>2
    <3> QED BY <1>6, <3>1
  <2> QED BY <2>1
<1> QED BY <1>1, <1>2, <1>7
-----------------------------------------------------------------------------
(* Where the ticks of a symbol are: the ring has the newest arrivals, the  *)
(* heap and the processed ticks share the older ones that were not lost.   *)
Conserved(s, b, q, done, total) ==
  /\ RingOK(b, s) /\ HeapOK(q, s) /\ UpTo(q.heap, b.pushedTotal - b.size)
  /\ done \in Seq(Arrived(s)) /\ total = Len(done)
  /\ \A i \in 1 .. Len(done) :
       /\ done[i].arrival <= b.pushedTotal - b.size
       /\ \A e \in q.heap : e.tick.arrival # done[i].arrival
  /\ \A i, j \in 1 .. Len(done) : done[i].arrival = done[j].arrival => i = j
  /\ Cardinality(q.heap) + Len(done) + b.dropped = b.pushedTotal - b.size

\* The counters of the ring as naturals.
LEMMA RingNumbers ==
  ASSUME NEW s, NEW b, RingOK(b, s)
  PROVE  /\ b.size \in Nat /\ b.size <= RingCapacity /\ RingCapacity \in Nat
         /\ b.dropped \in Nat /\ b.pushedTotal \in Nat /\ b.size <= b.pushedTotal
         /\ b.pushedTotal - b.size \in Nat
BY RingFacts, Constants DEF RingOK

\* Every tick of a sequence of arrivals has a number.
LEMMA ArrivalNumbers ==
  ASSUME NEW s, NEW d \in Seq(Arrived(s)), NEW i \in 1 .. Len(d)
  PROVE  d[i] \in Arrived(s) /\ d[i].arrival \in Nat
<1>1. d[i] \in Arrived(s)
  OBVIOUS
<1> QED BY <1>1 DEF Arrived

\* The three balances below are arithmetic. After a push: the ring lost what it dropped.
LEMMA PushBalance ==
  ASSUME NEW h \in Nat, NEW l \in Nat, NEW lost \in Nat, NEW past \in Nat,
         NEW more \in Nat, NEW later \in Nat,
         h + l + lost = past, later - more = past - lost
  PROVE  h + l + more = later
OBVIOUS

\* After a trip: what poll released left the heap for the table.
LEMMA TripBalance ==
  ASSUME NEW h \in Nat, NEW l \in Nat, NEW lost \in Nat, NEW past \in Nat,
         NEW n \in Nat, NEW k \in Nat, NEW g \in Nat,
         h + l + lost = past, g + k = h + n
  PROVE  g + (l + k) + lost = past + n
OBVIOUS

\* As a whole: buffered, held, processed and lost are all that was pushed.
LEMMA WholeBalance ==
  ASSUME NEW z \in Nat, NEW h \in Nat, NEW l \in Nat, NEW lost \in Nat, NEW all \in Nat,
         h + l + lost = all - z
  PROVE  (z + h + l) + lost = all
OBVIOUS

\* A push keeps the balance, also when the ring drops its oldest tick.
LEMMA PushConserves ==
  ASSUME NEW s, NEW b, NEW q, NEW done, NEW total, Conserved(s, b, q, done, total),
         NEW x \in Arrived(s), x.arrival = b.pushedTotal + 1
  PROVE  Conserved(s, Ring!PushNowait(b, x), q, done, total)
<1> DEFINE c == Ring!PushNowait(b, x)
<1>1. RingOK(b, s)
  BY DEF Conserved
<1>2. /\ RingOK(c, s)
      /\ c.pushedTotal - c.size - c.dropped = b.pushedTotal - b.size - b.dropped
      /\ b.pushedTotal - b.size <= c.pushedTotal - c.size
  BY <1>1, PushKeepsRing
<1> HIDE DEF c
<1>3. /\ b.pushedTotal - b.size \in Nat /\ c.pushedTotal - c.size \in Nat
      /\ b.size \in Nat /\ b.dropped \in Nat /\ b.pushedTotal \in Nat
      /\ c.size \in Nat /\ c.dropped \in Nat /\ c.pushedTotal \in Nat
  BY <1>1, <1>2, RingNumbers
<1>4. \A e \in q.heap : e.tick.arrival \in Nat
  BY DEF Conserved, HeapOK, Entries, Arrived
<1>5. UpTo(q.heap, c.pushedTotal - c.size)
  <2> DEFINE past == b.pushedTotal - b.size
             later == c.pushedTotal - c.size
  <2>1. past \in Nat /\ later \in Nat /\ past <= later
    BY <1>2, <1>3
  <2>2. \A e \in q.heap : e.tick.arrival \in Nat /\ e.tick.arrival <= past
    BY <1>4 DEF Conserved, UpTo
  <2> HIDE DEF past, later
  <2>3. \A e \in q.heap : e.tick.arrival <= later
    BY <2>1, <2>2
  <2> QED BY <2>3 DEF Conserved, UpTo, later
<1>6. \A i \in 1 .. Len(done) : done[i].arrival \in Nat /\ done[i].arrival <= b.pushedTotal - b.size
  <2>1. done \in Seq(Arrived(s))
    BY DEF Conserved
  <2> QED BY <2>1, ArrivalNumbers DEF Conserved
<1>7. \A i \in 1 .. Len(done) : done[i].arrival <= c.pushedTotal - c.size
  <2> DEFINE past == b.pushedTotal - b.size
             later == c.pushedTotal - c.size
  <2>1. past \in Nat /\ later \in Nat /\ past <= later
    BY <1>2, <1>3
  <2>2. \A i \in 1 .. Len(done) : done[i].arrival \in Nat /\ done[i].arrival <= past
    BY <1>6
  <2> HIDE DEF past, later
  <2>3. \A i \in 1 .. Len(done) : done[i].arrival <= later
    BY <2>1, <2>2
  <2> QED BY <2>3 DEF later
<1>8. Cardinality(q.heap) + Len(done) + c.dropped = c.pushedTotal - c.size
  <2>1. Cardinality(q.heap) \in Nat /\ Len(done) \in Nat
    BY FS_CardinalityType DEF Conserved, HeapOK
  <2> DEFINE past == b.pushedTotal - b.size
             later == c.pushedTotal - c.size
  <2>2. Cardinality(q.heap) + Len(done) + b.dropped = past
    BY DEF Conserved
  <2>3. later - c.dropped = past - b.dropped
    BY <1>2
  <2>4. past \in Nat /\ later \in Nat
    BY <1>3
  <2> HIDE DEF past, later
  <2>5. Cardinality(q.heap) + Len(done) + c.dropped = later
    BY <1>3, <2>1, <2>2, <2>3, <2>4, PushBalance
  <2> QED BY <2>5 DEF later
<1>9. Conserved(s, c, q, done, total)
  BY <1>2, <1>5, <1>7, <1>8 DEF Conserved
<1> QED BY <1>9 DEF c

\* A trip of the consumer keeps the balance.
LEMMA TripConserves ==
  ASSUME NEW s, NEW b, NEW q, NEW done, NEW total, Conserved(s, b, q, done, total),
         NEW n \in 0 .. b.size
  PROVE  LET offered == FoldLeft(OfferTick, q, Ring!DrainedItems(b, n))
             ready   == Order!TicksInOrder(Order!ReadyEntries(offered))
         IN  /\ ready \in Seq(Arrived(s)) /\ Len(ready) \in Nat
             /\ Conserved(s, Ring!DrainNowait(b, n), Order!PollReady(offered), done \o ready,
                          total + Len(ready))
<1> DEFINE c == Ring!DrainNowait(b, n)
           d == Ring!DrainedItems(b, n)
           o == FoldLeft(OfferTick, q, d)
           ready == Order!TicksInOrder(Order!ReadyEntries(o))
           left == Order!PollReady(o)
           all == done \o ready
           past == b.pushedTotal - b.size
<1>1. RingOK(b, s) /\ HeapOK(q, s) /\ UpTo(q.heap, past) /\ done \in Seq(Arrived(s))
  BY DEF Conserved
<1>2. /\ b.size \in Nat /\ b.dropped \in Nat /\ b.pushedTotal \in Nat /\ past \in Nat
      /\ n \in Nat /\ n <= b.size
  BY <1>1, RingNumbers
<1>3. /\ RingOK(c, s)
      /\ c.size = b.size - n /\ c.dropped = b.dropped /\ c.pushedTotal = b.pushedTotal
      /\ d \in Seq(Arrived(s)) /\ Len(d) = n
      /\ \A k \in 1 .. n : d[k].arrival = b.pushedTotal - b.size + k
  BY <1>1, DrainKeepsRing
<1> HIDE DEF c, d
<1>4. /\ HeapOK(o, s) /\ UpTo(o.heap, past + n)
      /\ Cardinality(o.heap) = Cardinality(q.heap) + n
      /\ \A e \in o.heap : e \in q.heap \/ e.tick.arrival > past
  BY <1>1, <1>2, <1>3, BatchKeeps
<1> HIDE DEF o
<1>5. past + n \in Nat /\ past + n = c.pushedTotal - c.size /\ past <= past + n
  BY <1>2, <1>3
<1>6. /\ HeapOK(left, s) /\ UpTo(left.heap, past + n)
      /\ ready \in Seq(Arrived(s)) /\ Len(ready) \in Nat
      /\ Cardinality(left.heap) + Len(ready) = Cardinality(o.heap)
      /\ \A i \in 1 .. Len(ready) : \E e \in o.heap : e.tick = ready[i] /\ e \notin left.heap
      /\ \A i, j \in 1 .. Len(ready) : ready[i].arrival = ready[j].arrival => i = j
      /\ left.heap \subseteq o.heap
  BY <1>4, <1>5, PollKeeps
<1> HIDE DEF ready, left
<1>7. /\ all \in Seq(Arrived(s)) /\ Len(all) = Len(done) + Len(ready)
      /\ Len(done) \in Nat /\ Len(ready) \in Nat
      /\ \A i \in 1 .. Len(done) : all[i] = done[i]
      /\ \A i \in 1 .. Len(ready) : all[Len(done) + i] = ready[i]
  BY <1>1, <1>6, FP!Joined
<1> HIDE DEF all, past
<1>8. /\ \A e \in o.heap : e.tick.arrival \in Nat /\ e.tick.arrival <= past + n
      /\ \A i \in 1 .. Len(done) : done[i].arrival \in Nat /\ done[i].arrival <= past
      /\ \A i \in 1 .. Len(done), e \in q.heap : e.tick.arrival # done[i].arrival
  <2>1. \A e \in o.heap : e.tick.arrival \in Nat /\ e.tick.arrival <= past + n
    BY <1>4 DEF HeapOK, UpTo, Entries, Arrived
  <2>2. \A i \in 1 .. Len(done) : done[i].arrival \in Nat
    BY <1>1, ArrivalNumbers
  <2> QED BY <2>1, <2>2 DEF Conserved, past
<1>9. \A i \in 1 .. Len(done), e \in o.heap : e.tick.arrival # done[i].arrival
  BY <1>2, <1>4, <1>8
<1>10. \A i \in 1 .. Len(ready) : \E e \in o.heap : e.tick.arrival = ready[i].arrival /\ e \notin left.heap
  BY <1>6
<1>11. \A i \in 1 .. Len(ready), e \in left.heap : e.tick.arrival # ready[i].arrival
  BY <1>4, <1>6, <1>10 DEF UpTo
<1>12. ASSUME NEW i \in 1 .. Len(all)
       PROVE  \/ i \in 1 .. Len(done) /\ all[i] = done[i]
              \/ i - Len(done) \in 1 .. Len(ready) /\ all[i] = ready[i - Len(done)]
  <2>1. CASE i <= Len(done)
    BY <1>7, <2>1
  <2>2. CASE i > Len(done)
    <3> DEFINE k == i - Len(done)
    <3>1. k \in 1 .. Len(ready) /\ Len(done) + k = i
      BY <1>7, <2>2
    <3> HIDE DEF k
    <3>2. all[i] = ready[k]
      BY <1>7, <3>1
    <3> QED BY <3>1, <3>2 DEF k
  <2> QED BY <1>7, <2>1, <2>2
<1>13. ASSUME NEW i \in 1 .. Len(all)
       PROVE  /\ all[i].arrival <= past + n
              /\ \A e \in left.heap : e.tick.arrival # all[i].arrival
  <2>1. CASE i \in 1 .. Len(done) /\ all[i] = done[i]
    BY <1>2, <1>6, <1>8, <1>9, <2>1
  <2>2. CASE i - Len(done) \in 1 .. Len(ready) /\ all[i] = ready[i - Len(done)]
    BY <1>8, <1>10, <1>11, <2>2
  <2> QED BY <1>12, <2>1, <2>2
<1>14. ASSUME NEW i \in 1 .. Len(all), NEW j \in 1 .. Len(all), all[i].arrival = all[j].arrival
       PROVE  i = j
  <2>1. CASE i \in 1 .. Len(done) /\ all[i] = done[i] /\ j \in 1 .. Len(done) /\ all[j] = done[j]
    BY <1>14, <2>1 DEF Conserved
  <2>2. CASE /\ i - Len(done) \in 1 .. Len(ready) /\ all[i] = ready[i - Len(done)]
             /\ j - Len(done) \in 1 .. Len(ready) /\ all[j] = ready[j - Len(done)]
    <3>1. i - Len(done) = j - Len(done)
      BY <1>6, <1>14, <2>2
    <3> QED BY <1>7, <3>1
  <2>3. CASE /\ i \in 1 .. Len(done) /\ all[i] = done[i]
             /\ j - Len(done) \in 1 .. Len(ready) /\ all[j] = ready[j - Len(done)]
    BY <1>9, <1>10, <1>14, <2>3
  <2>4. CASE /\ i - Len(done) \in 1 .. Len(ready) /\ all[i] = ready[i - Len(done)]
             /\ j \in 1 .. Len(done) /\ all[j] = done[j]
    BY <1>9, <1>10, <1>14, <2>4
  <2> QED BY <1>12, <2>1, <2>2, <2>3, <2>4
<1>15. Cardinality(left.heap) + Len(all) + c.dropped = past + n
  <2> DEFINE g == Cardinality(left.heap)
             h == Cardinality(q.heap)
             l == Len(done)
             k == Len(ready)
  <2>1. h \in Nat /\ g \in Nat
    BY <1>1, <1>6, FS_CardinalityType DEF HeapOK
  <2>2. h + l + b.dropped = past
    BY DEF Conserved, past
  <2>3. g + k = h + n
    BY <1>4, <1>6
  <2>4. past \in Nat
    BY <1>2 DEF past
  <2>5. l \in Nat /\ k \in Nat /\ b.dropped \in Nat /\ n \in Nat
    BY <1>2, <1>7
  <2> HIDE DEF g, h, l, k
  <2>6. g + (l + k) + b.dropped = past + n
    BY <2>1, <2>2, <2>3, <2>4, <2>5, TripBalance
  <2> QED BY <1>3, <1>7, <2>6 DEF g, l, k
<1>16. total + Len(ready) = Len(all)
  BY <1>7 DEF Conserved
<1>17. Conserved(s, c, left, all, total + Len(ready))
  BY <1>3, <1>5, <1>6, <1>7, <1>13, <1>14, <1>15, <1>16 DEF Conserved
<1> QED BY <1>6, <1>17 DEF c, d, o, ready, left, all
-----------------------------------------------------------------------------
(* The inductive invariant.                                                *)
ByS(f) == f = [s \in Symbols |-> f[s]]

Inv ==
  /\ ByS(bufs) /\ ByS(seqs) /\ ByS(stats) /\ ByS(vwaps) /\ ByS(averages)
  /\ IsSeq(rows) /\ TableOK(Applied)
  /\ \A s \in Symbols :
       /\ StatForm(stats[s])
       /\ Conserved(s, bufs[s], seqs[s], Applied[s], stats[s].total)
       /\ SumsOK(vwaps[s], averages[s], Applied[s])

\* What the steps that process nothing leave alone.
LEMMA SameRows ==
  ASSUME rows' = rows
  PROVE  Applied' = Applied
BY DEF Applied

\* The window and the averages of no ticks.
LEMMA NoSums == SumsOK(NoWindow, NoAverages, <<>>)
<1>1. SumPq(<<>>) = 0 /\ SumQ(<<>>) = 0
  BY SumsAreFolds, FW!FoldEmpty, FQ!FoldEmpty
<1>2. SubSeq(<<>>, 1, 0) = <<>> /\ Len(<<>>) = 0 /\ <<>> \in Seq(Nat)
  OBVIOUS
<1>3. WindowOK(NoWindow, <<>>)
  <2>1. NoWindow.ticks = <<>> /\ NoWindow.sumPq = 0 /\ NoWindow.sumQ = 0
    BY DEF NoWindow
  <2>2. Gone(NoWindow, <<>>) = 0
    BY <1>2, <2>1 DEF Gone
  <2> QED BY <1>1, <1>2, <2>1, <2>2 DEF WindowOK
<1>4. PricesOf(<<>>) = <<>>
  BY DEF PricesOf
<1>5. ASSUME NEW p \in Periods PROVE AverageOK(NoAverages[p], p, <<>>)
  <2>1. NoAverages[p].values = <<>> /\ NoAverages[p].sum = 0 /\ NoAverages[p].ema = None
    BY DEF NoAverages
  <2>2. p \in Nat /\ p > 0
    BY AveragesAssumption
  <2>3. FA!Fold(0, <<>>) = 0 /\ LastPrices(0, <<>>) = <<>>
    BY <1>2, FA!FoldEmpty DEF LastPrices
  <2>4. SimpleOK(<<>>, 0, p, <<>>)
    BY <1>2, <2>2, <2>3 DEF SimpleOK
  <2> QED BY <1>2, <2>1, <2>4 DEF AverageOK
<1> QED BY <1>3, <1>4, <1>5 DEF SumsOK, AveragesOK

\* The invariant holds at the start.
LEMMA InvInit ==
  ASSUME Init
  PROVE  Inv
<1>1. rows = <<>> /\ <<>> \in Seq({})
  BY DEF Init
<1>2. Applied = [s \in Symbols |-> <<>>]
  BY <1>1, TicksInIsFold, FT!FoldEmpty DEF Applied
<1>3. TableOK(Applied)
  <2>1. \A s : <<>> \in Seq(Arrived(s))
    OBVIOUS
  <2> QED BY <1>2, <2>1 DEF TableOK
<1>4. ByS(bufs) /\ ByS(seqs) /\ ByS(stats) /\ ByS(vwaps) /\ ByS(averages)
  BY DEF Init, ByS
<1>5. IsSeq(rows)
  BY <1>1 DEF IsSeq
<1>6. ASSUME NEW s \in Symbols
      PROVE  StatForm(stats[s]) /\ Conserved(s, bufs[s], seqs[s], Applied[s], stats[s].total)
  <2> DEFINE b == Ring!EmptyBuffer
             q == Order!EmptySequencer
  <2>1. bufs[s] = b /\ seqs[s] = q /\ stats[s] = NoStats /\ Applied[s] = <<>>
    BY <1>2 DEF Init
  <2>2. StatForm(NoStats) /\ NoStats.total = 0
    BY DEF NoStats, StatForm, StatFields
  <2>3. RingForm(b) /\ b.size = 0 /\ b.dropped = 0 /\ b.pushedTotal = 0
    BY Constants DEF Ring!EmptyBuffer, RingForm
  <2>4. RingOK(b, s)
    BY <2>3 DEF RingOK
  <2>5. q.heap = {} /\ HeapOK(q, s) /\ UpTo(q.heap, 0) /\ Cardinality(q.heap) = 0
    BY FS_EmptySet DEF Order!EmptySequencer, HeapOK, UpTo
  <2> HIDE DEF b, q
  <2>6. Conserved(s, b, q, <<>>, 0)
    <3>1. b.pushedTotal - b.size = 0 /\ Cardinality(q.heap) + Len(<<>>) + b.dropped = 0
      BY <2>3, <2>5
    <3>2. <<>> \in Seq(Arrived(s)) /\ Len(<<>>) = 0
      OBVIOUS
    <3> QED BY <2>4, <2>5, <3>1, <3>2 DEF Conserved
  <2> QED BY <2>1, <2>2, <2>6
<1>7. ASSUME NEW s \in Symbols PROVE SumsOK(vwaps[s], averages[s], Applied[s])
  <2>1. vwaps[s] = NoWindow /\ averages[s] = NoAverages /\ Applied[s] = <<>>
    BY <1>2 DEF Init
  <2> QED BY <2>1, NoSums
<1> QED BY <1>3, <1>4, <1>5, <1>6, <1>7 DEF Inv

\* The read loop's push keeps the invariant.
LEMMA IngestKeeps ==
  ASSUME Inv, NEW tick \in Ticks, Ingest(tick)
  PROVE  Inv'
<1> DEFINE s == tick.symbol
           x == [symbol |-> s, id |-> tick.id, time |-> tick.time, price |-> tick.price,
                 quantity |-> tick.quantity, arrival |-> bufs[s].pushedTotal + 1]
           b == Ring!PushNowait(bufs[s], x)
<1>1. /\ s \in Symbols /\ bufs' = [bufs EXCEPT ![s] = b] /\ seqs' = seqs /\ rows' = rows
      /\ stats' = stats /\ vwaps' = vwaps /\ averages' = averages
  BY DEF Ingest, results
<1>2. RingOK(bufs[s], s) /\ ByS(bufs)
  BY <1>1 DEF Inv, Conserved
<1>3. x \in Arrived(s) /\ x.arrival = bufs[s].pushedTotal + 1
  <2>1. tick.id \in Nat /\ tick.time \in Nat /\ tick.price \in Nat /\ tick.quantity \in Nat
    BY PipelineAssumption
  <2>2. bufs[s].pushedTotal + 1 \in Nat \ {0}
    BY <1>2, RingNumbers
  <2> HIDE DEF s
  <2> QED BY <2>1, <2>2 DEF Arrived
<1> HIDE DEF x, b
<1>4. Applied' = Applied
  BY <1>1, SameRows
<1>5. ByS(bufs)' /\ bufs'[s] = b /\ \A t \in Symbols \ {s} : bufs'[t] = bufs[t]
  BY <1>1, <1>2 DEF ByS
<1>6. Conserved(s, b, seqs[s], Applied[s], stats[s].total)
  BY <1>1, <1>3, PushConserves DEF Inv, b
<1>7. ASSUME NEW t \in Symbols
      PROVE  /\ StatForm(stats[t]) /\ Conserved(t, bufs'[t], seqs[t], Applied[t], stats[t].total)
             /\ SumsOK(vwaps[t], averages[t], Applied[t])
  BY <1>5, <1>6 DEF Inv
<1> HIDE DEF s
<1>8. Inv' = (/\ ByS(bufs') /\ ByS(seqs) /\ ByS(stats) /\ ByS(vwaps) /\ ByS(averages)
              /\ IsSeq(rows) /\ TableOK(Applied)
              /\ \A t \in Symbols :
                   /\ StatForm(stats[t]) /\ Conserved(t, bufs'[t], seqs[t], Applied[t], stats[t].total)
                   /\ SumsOK(vwaps[t], averages[t], Applied[t]))
  BY <1>1, <1>4 DEF Inv
<1> QED BY <1>5, <1>7, <1>8 DEF Inv

\* A drain of a consumer.
LEMMA TripSize ==
  ASSUME NEW s, NEW b, RingOK(b, s)
  PROVE  Ring!DrainCount(b, BatchMax) \in 0 .. b.size
BY RingNumbers, Constants DEF Ring!DrainCount

\* ProcessBatch in terms of the table of processed ticks.
LEMMA ProcessKeeps ==
  ASSUME Inv, NEW s \in Symbols, NEW ready \in Seq(Arrived(s)), NEW buf, NEW seq,
         ProcessBatch(s, ready, buf, seq)
  PROVE  /\ IsSeq(rows') /\ Applied' = [Applied EXCEPT ![s] = @ \o ready]
         /\ ByS(stats') /\ \A t \in Symbols \ {s} : stats'[t] = stats[t]
         /\ StatForm(stats'[s]) /\ stats'[s].total = stats[s].total + Len(ready)
         /\ ByS(vwaps') /\ ByS(averages')
         /\ SumsOK(vwaps'[s], averages'[s], Applied[s] \o ready)
         /\ \A t \in Symbols \ {s} : vwaps'[t] = vwaps[t] /\ averages'[t] = averages[t]
<1> DEFINE p0 == [tick |-> None, aggs |-> aggs, rows |-> rows, events |-> events, vwap |-> vwaps[s],
                  averages |-> averages[s], stat |-> stats[s], count |-> counts[s]]
           p == FoldLeft(ProcessTick, p0, ready)
           st == [p.stat EXCEPT !.dropped = buf.dropped, !.depth = buf.size,
                                !.outOfOrder = seq.outOfOrder, !.gaps = seq.gapCount]
<1>1. /\ rows' = p.rows /\ stats' = [stats EXCEPT ![s] = st]
      /\ vwaps' = [vwaps EXCEPT ![s] = p.vwap] /\ averages' = [averages EXCEPT ![s] = p.averages]
  BY Zenon DEF ProcessBatch
<1>2. /\ BatchForm(p0) /\ p0.rows = rows /\ p0.stat = stats[s]
      /\ p0.vwap = vwaps[s] /\ p0.averages = averages[s]
  BY DEF Inv, BatchForm, BatchFields
<1>3. TableOK(TicksIn(p0.rows))
  BY <1>2 DEF Inv, Applied
<1>4. \E d, z, o, g : Sampled(p.stat, d, z, o, g, st)
  BY Zenon DEF Sampled
<1> HIDE DEF p0, st
<1>5. BatchDone(s, p0, ready, p)
  BY <1>2, <1>3, BatchKeepsTicks
<1> DEFINE all == Applied[s] \o ready
<1>6. SumsOK(p.vwap, p.averages, all)
  <2>1. Applied[s] \in Seq(Arrived(s)) /\ SumsOK(p0.vwap, p0.averages, Applied[s])
    BY <1>2 DEF Inv, TableOK
  <2> QED BY <1>2, <2>1, BatchKeepsSums
<1> HIDE DEF p, all
<1>7. StatForm(st) /\ st.total = p.stat.total
  BY <1>4, <1>5, SampledFields DEF BatchDone, BatchForm, StatForm
<1>8. IsSeq(rows') /\ Applied' = [Applied EXCEPT ![s] = @ \o ready]
  BY <1>1, <1>2, <1>5 DEF BatchDone, BatchForm, Applied
<1>9. /\ stats = [t \in Symbols |-> stats[t]] /\ vwaps = [t \in Symbols |-> vwaps[t]]
      /\ averages = [t \in Symbols |-> averages[t]]
  BY DEF Inv, ByS
<1>10. ByS(stats') /\ stats'[s] = st /\ \A t \in Symbols \ {s} : stats'[t] = stats[t]
  BY <1>1, <1>9 DEF ByS
<1>11. ByS(vwaps') /\ vwaps'[s] = p.vwap /\ \A t \in Symbols \ {s} : vwaps'[t] = vwaps[t]
  BY <1>1, <1>9 DEF ByS
<1>12. ByS(averages') /\ averages'[s] = p.averages /\ \A t \in Symbols \ {s} : averages'[t] = averages[t]
  BY <1>1, <1>9 DEF ByS
<1>13. stats'[s].total = stats[s].total + Len(ready)
  BY <1>2, <1>5, <1>7, <1>10 DEF BatchDone
<1>14. SumsOK(vwaps'[s], averages'[s], Applied[s] \o ready)
  BY <1>6, <1>11, <1>12 DEF all
<1> QED BY <1>7, <1>8, <1>10, <1>11, <1>12, <1>13, <1>14

\* The consumer's trip keeps the invariant.
LEMMA TripKeeps ==
  ASSUME Inv, NEW s \in Symbols, Trip(s)
  PROVE  Inv'
<1> DEFINE n == BatchSize(s)
           b == Ring!DrainNowait(bufs[s], n)
           offered == Offered(s)
           ready == Order!TicksInOrder(Order!ReadyEntries(offered))
           left == Order!PollReady(offered)
           all == Applied[s] \o ready
<1>1. RingOK(bufs[s], s) /\ Conserved(s, bufs[s], seqs[s], Applied[s], stats[s].total)
  BY DEF Inv, Conserved
<1>2. n \in 0 .. bufs[s].size
  BY <1>1, TripSize DEF BatchSize
<1> HIDE DEF n
<1>3. offered = FoldLeft(OfferTick, seqs[s], Ring!DrainedItems(bufs[s], n))
  BY DEF Offered, n
<1>4. /\ ready \in Seq(Arrived(s)) /\ Len(ready) \in Nat
      /\ Conserved(s, b, left, all, stats[s].total + Len(ready))
  BY <1>1, <1>2, <1>3, TripConserves
<1>5. /\ bufs' = [bufs EXCEPT ![s] = b] /\ seqs' = [seqs EXCEPT ![s] = left]
      /\ \/ ready = <<>> /\ UNCHANGED results
         \/ ProcessBatch(s, ready, bufs'[s], offered)
  BY DEF Trip, Drain, n
<1> HIDE DEF b, left, offered
<1>6. /\ ByS(bufs') /\ bufs'[s] = b /\ \A t \in Symbols \ {s} : bufs'[t] = bufs[t]
      /\ ByS(seqs') /\ seqs'[s] = left /\ \A t \in Symbols \ {s} : seqs'[t] = seqs[t]
  BY <1>5 DEF Inv, ByS
<1>7. /\ IsSeq(rows') /\ Applied' = [Applied EXCEPT ![s] = all]
      /\ ByS(stats') /\ \A t \in Symbols \ {s} : stats'[t] = stats[t]
      /\ StatForm(stats'[s]) /\ stats'[s].total = stats[s].total + Len(ready)
      /\ ByS(vwaps') /\ ByS(averages') /\ SumsOK(vwaps'[s], averages'[s], all)
      /\ \A t \in Symbols \ {s} : vwaps'[t] = vwaps[t] /\ averages'[t] = averages[t]
  <2>1. CASE ready = <<>> /\ UNCHANGED results
    <3>1. rows' = rows /\ stats' = stats /\ vwaps' = vwaps /\ averages' = averages /\ Len(ready) = 0
      BY <2>1 DEF results
    <3>2. Applied' = Applied
      BY <3>1, SameRows
    <3>3. Applied[s] \in Seq(Arrived(s)) /\ Applied = [t \in Symbols |-> Applied[t]]
      BY DEF Inv, TableOK
    <3>4. all = Applied[s]
      BY <2>1, <3>3
    <3>5. Applied = [Applied EXCEPT ![s] = all]
      BY <3>3, <3>4
    <3>6. stats[s].total \in Nat
      BY DEF Inv, StatForm
    <3>7. stats[s].total = stats[s].total + Len(ready)
      BY <3>1, <3>6
    <3>8. SumsOK(vwaps[s], averages[s], all)
      BY <3>4 DEF Inv
    <3> HIDE DEF all, ready
    <3> QED BY <3>1, <3>2, <3>5, <3>7, <3>8 DEF Inv
  <2>2. CASE ProcessBatch(s, ready, bufs'[s], offered)
    <3> HIDE DEF ready
    <3> QED BY <1>4, <2>2, ProcessKeeps
  <2> QED BY <1>5, <2>1, <2>2
<1> HIDE DEF all
<1>8. /\ TableOK(Applied') /\ Applied'[s] = all
      /\ \A t \in Symbols \ {s} : Applied'[t] = Applied[t]
  <2>1. all \in Seq(Arrived(s))
    BY <1>4 DEF Conserved
  <2> QED BY <1>7, <2>1 DEF Inv, TableOK
<1>9. ASSUME NEW t \in Symbols
      PROVE  /\ StatForm(stats'[t]) /\ Conserved(t, bufs'[t], seqs'[t], Applied'[t], stats'[t].total)
             /\ SumsOK(vwaps'[t], averages'[t], Applied'[t])
  <2>1. CASE t = s
    <3> HIDE DEF ready
    <3> QED BY <1>4, <1>6, <1>7, <1>8, <2>1
  <2>2. CASE t # s
    BY <1>6, <1>7, <1>8, <2>2 DEF Inv
  <2> QED BY <2>1, <2>2
<1> QED BY <1>6, <1>7, <1>8, <1>9 DEF Inv

\* The rate loop, which replaces every statistics record, keeps the invariant.
LEMMA RateTurnKeeps ==
  ASSUME Inv, RateTurn
  PROVE  Inv'
<1>1. /\ bufs' = bufs /\ seqs' = seqs /\ rows' = rows /\ vwaps' = vwaps /\ averages' = averages
      /\ stats' = [s \in Symbols |-> [stats[s] EXCEPT !.rate = counts[s]]]
  BY DEF RateTurn
<1>2. Applied' = Applied
  BY <1>1, SameRows
<1>3. ASSUME NEW s \in Symbols PROVE StatForm(stats'[s]) /\ stats'[s].total = stats[s].total
  <2>1. StatForm(stats[s]) /\ stats'[s] = [stats[s] EXCEPT !.rate = counts[s]]
    BY <1>1 DEF Inv
  <2>2. \A st, r, u : StatFields(st) /\ u = [st EXCEPT !.rate = r] => StatFields(u) /\ u.total = st.total
    BY DEF StatFields
  <2>3. StatFields(stats'[s]) /\ stats'[s].total = stats[s].total
    BY <2>1, <2>2 DEF StatForm
  <2> QED BY <2>1, <2>3 DEF StatForm
<1>4. ByS(stats')
  BY <1>1 DEF ByS
<1> QED BY <1>1, <1>2, <1>3, <1>4 DEF Inv

\* Every other step leaves the invariant's variables alone.
LEMMA OthersKeep ==
  ASSUME Inv, bufs' = bufs, seqs' = seqs, rows' = rows, stats' = stats,
         vwaps' = vwaps, averages' = averages
  PROVE  Inv'
<1>1. Applied' = Applied
  BY SameRows
<1> QED BY <1>1 DEF Inv

(* Every reachable state satisfies the invariant.                          *)
THEOREM Invariance == Spec => []Inv
<1>1. Init => Inv
  BY InvInit
<1>2. Inv /\ [Next]_vars => Inv'
  <2> SUFFICES ASSUME Inv, [Next]_vars PROVE Inv'
    OBVIOUS
  <2>1. ASSUME NEW tick \in Ticks, Ingest(tick) PROVE Inv'
    BY <2>1, IngestKeeps
  <2>2. ASSUME NEW s \in Symbols, Trip(s) PROVE Inv'
    BY <2>2, TripKeeps
  <2>3. ASSUME NEW s \in Symbols, Sleep(s) PROVE Inv'
    BY <2>3, OthersKeep DEF Sleep, results
  <2>4. CASE RateTurn
    BY <2>4, RateTurnKeeps
  <2>5. CASE Stop
    BY <2>5, OthersKeep DEF Stop, results
  <2>6. CASE UNCHANGED vars
    BY <2>6, OthersKeep DEF vars, results
  <2> QED BY <2>1, <2>2, <2>3, <2>4, <2>5, <2>6 DEF Next
<1> QED BY <1>1, <1>2, PTL DEF Spec
-----------------------------------------------------------------------------
(* What the invariant says about arrival numbers.                          *)
LEMMA SameSize ==
  ASSUME NEW S, IsFiniteSet(S), NEW T, NEW f \in [S -> T],
         \A x, y \in S : f[x] = f[y] => x = y, \A t \in T : \E x \in S : f[x] = t
  PROVE  IsFiniteSet(T) /\ Cardinality(T) = Cardinality(S)
<1>1. f \in Surjection(S, T) /\ f \in Injection(S, T)
  BY DEF Surjection, Injection, IsInjective
<1> QED BY <1>1, FS_Surjection

HeldArrivals(heap) == {e.tick.arrival : e \in heap}

\* The three places are apart and of the sizes the books say.
LEMMA Places ==
  ASSUME NEW s, NEW b, NEW q, NEW done, NEW total, Conserved(s, b, q, done, total),
         NEW A, A = Arrivals(Ring!Contents(b)),
         NEW B, B = HeldArrivals(q.heap),
         NEW C, C = Arrivals(done)
  PROVE  /\ A \cap B = {} /\ (A \cup B) \cap C = {}
         /\ IsFiniteSet(A) /\ Cardinality(A) = b.size
         /\ IsFiniteSet(B) /\ Cardinality(B) = Cardinality(q.heap)
         /\ IsFiniteSet(C) /\ Cardinality(C) = Len(done)
<1> DEFINE past == b.pushedTotal - b.size
<1>1. RingOK(b, s) /\ HeapOK(q, s) /\ UpTo(q.heap, past) /\ done \in Seq(Arrived(s))
  BY DEF Conserved
<1>2. b.size \in Nat /\ b.pushedTotal \in Nat /\ past \in Nat /\ past + b.size = b.pushedTotal
  BY <1>1, RingNumbers
<1>3. /\ \A i \in 1 .. Len(done) :
           /\ done[i].arrival <= past
           /\ \A e \in q.heap : e.tick.arrival # done[i].arrival
      /\ \A i, j \in 1 .. Len(done) : done[i].arrival = done[j].arrival => i = j
  BY DEF Conserved
<1>4. \A k \in 1 .. b.size : Ring!Contents(b)[k].arrival = past + k
  BY <1>1 DEF RingOK
<1>5. DOMAIN Ring!Contents(b) = 1 .. b.size
  BY DEF Ring!Contents, Ring!DrainedItems
<1> HIDE DEF past
<1>6. A = past + 1 .. past + b.size
  <2>1. A = {Ring!Contents(b)[k].arrival : k \in 1 .. b.size}
    BY <1>5 DEF Arrivals
  <2>2. A = {past + k : k \in 1 .. b.size}
    BY <1>4, <2>1
  <2>3. ASSUME NEW m \in past + 1 .. past + b.size PROVE m \in A
    <3>1. m - past \in 1 .. b.size /\ past + (m - past) = m
      BY <1>2
    <3> QED BY <2>2, <3>1
  <2>4. ASSUME NEW m \in A PROVE m \in past + 1 .. past + b.size
    BY <1>2, <2>2
  <2> QED BY <2>3, <2>4
<1>7. IsFiniteSet(A) /\ Cardinality(A) = b.size
  <2>1. /\ past + 1 \in Int /\ past + b.size \in Int
        /\ (IF past + 1 > past + b.size THEN 0 ELSE (past + b.size) - (past + 1) + 1) = b.size
    BY <1>2
  <2> QED BY <1>6, <2>1, FS_Interval
<1>8. IsFiniteSet(B) /\ Cardinality(B) = Cardinality(q.heap)
  <2> DEFINE f == [e \in q.heap |-> e.tick.arrival]
  <2>1. IsFiniteSet(q.heap) /\ f \in [q.heap -> B]
    BY <1>1 DEF HeapOK, HeldArrivals
  <2>2. \A e, g \in q.heap : f[e] = f[g] => e = g
    BY <1>1 DEF UpTo
  <2>3. \A m \in B : \E e \in q.heap : f[e] = m
    BY DEF HeldArrivals
  <2> HIDE DEF f
  <2> QED BY <2>1, <2>2, <2>3, SameSize
<1>9. DOMAIN done = 1 .. Len(done) /\ Len(done) \in Nat
  BY <1>1
<1>10. IsFiniteSet(C) /\ Cardinality(C) = Len(done)
  <2> DEFINE f == [k \in 1 .. Len(done) |-> done[k].arrival]
             S == 1 .. Len(done)
  <2>1. f \in [S -> C] /\ \A m \in C : \E k \in S : f[k] = m
    BY <1>9 DEF Arrivals
  <2>2. \A i, j \in S : f[i] = f[j] => i = j
    BY <1>3
  <2>3. IsFiniteSet(S) /\ Cardinality(S) = Len(done)
    <3>1. (IF 1 > Len(done) THEN 0 ELSE Len(done) - 1 + 1) = Len(done) /\ Len(done) \in Int
      BY <1>9
    <3> QED BY <3>1, FS_Interval
  <2> HIDE DEF f, S
  <2> QED BY <2>1, <2>2, <2>3, SameSize
<1>11. \A m \in B : m \in Nat /\ m <= past
  <2>1. \A e \in q.heap : e.tick.arrival \in Nat /\ e.tick.arrival <= past
    BY <1>1 DEF HeapOK, UpTo, Entries, Arrived
  <2> QED BY <2>1 DEF HeldArrivals
<1>12. \A m \in C : m \in Nat /\ m <= past /\ m \notin B
  <2>1. \A m \in C : \E i \in 1 .. Len(done) : m = done[i].arrival
    BY <1>9 DEF Arrivals
  <2>2. \A i \in 1 .. Len(done) : done[i].arrival \in Nat
    BY <1>1, ArrivalNumbers
  <2> QED BY <1>3, <2>1, <2>2 DEF HeldArrivals
<1>13. \A m \in A : m \in Nat /\ m > past
  BY <1>2, <1>6
<1>14. A \cap B = {} /\ (A \cup B) \cap C = {}
  BY <1>2, <1>11, <1>12, <1>13
<1> QED BY <1>7, <1>8, <1>10, <1>14

\* Sizes of a union of three sets apart from each other.
LEMMA ThreeApart ==
  ASSUME NEW A, NEW B, NEW C, IsFiniteSet(A), IsFiniteSet(B), IsFiniteSet(C),
         A \cap B = {}, (A \cup B) \cap C = {}
  PROVE  Cardinality(A \cup B \cup C) = Cardinality(A) + Cardinality(B) + Cardinality(C)
<1> DEFINE D == A \cup B
<1>1. Cardinality({}) = 0 /\ Cardinality(A) \in Nat /\ Cardinality(B) \in Nat /\ Cardinality(C) \in Nat
  BY FS_EmptySet, FS_CardinalityType
<1>2. IsFiniteSet(D) /\ Cardinality(D) = Cardinality(A) + Cardinality(B) - Cardinality({})
  BY FS_Union
<1> HIDE DEF D
<1>3. D \cap C = {}
  BY DEF D
<1>4. Cardinality(D \cup C) = Cardinality(D) + Cardinality(C) - Cardinality({})
  BY <1>2, <1>3, FS_Union
<1>5. Cardinality(D \cup C) = Cardinality(A) + Cardinality(B) + Cardinality(C)
  BY <1>1, <1>2, <1>4
<1> QED BY <1>5 DEF D

\* The invariant accounts for every tick.
LEMMA InvConserves ==
  ASSUME Inv
  PROVE  TicksConserved
<1> SUFFICES ASSUME NEW s \in Symbols
             PROVE  /\ InRing(s) \cap InHeap(s) = {}
                    /\ (InRing(s) \cup InHeap(s)) \cap Processed(s) = {}
                    /\ Cardinality(Processed(s)) = Len(Applied[s])
                    /\ Cardinality(Processed(s)) = stats[s].total
                    /\ Cardinality(InRing(s) \cup InHeap(s) \cup Processed(s)) + bufs[s].dropped
                         = bufs[s].pushedTotal
  BY DEF TicksConserved
<1> DEFINE b == bufs[s]
           h == seqs[s].heap
           done == Applied[s]
           A == InRing(s)
           B == InHeap(s)
           C == Processed(s)
<1>1. Conserved(s, b, seqs[s], done, stats[s].total)
  BY DEF Inv
<1>2. A = Arrivals(Ring!Contents(b)) /\ B = HeldArrivals(h) /\ C = Arrivals(done)
  BY Zenon DEF InRing, InHeap, Processed, HeldArrivals
<1> HIDE DEF A, B, C, done
<1>3. /\ A \cap B = {} /\ (A \cup B) \cap C = {}
      /\ IsFiniteSet(A) /\ Cardinality(A) = b.size
      /\ IsFiniteSet(B) /\ Cardinality(B) = Cardinality(h)
      /\ IsFiniteSet(C) /\ Cardinality(C) = Len(done)
  BY <1>1, <1>2, Places
<1>4. Cardinality(A \cup B \cup C) = b.size + Cardinality(h) + Len(done)
  BY <1>3, ThreeApart
<1>5. /\ b.size \in Nat /\ b.dropped \in Nat /\ b.pushedTotal \in Nat
      /\ Cardinality(h) \in Nat /\ Len(done) \in Nat
      /\ Cardinality(h) + Len(done) + b.dropped = b.pushedTotal - b.size
      /\ stats[s].total = Len(done)
  <2>1. RingOK(b, s) /\ HeapOK(seqs[s], s) /\ done \in Seq(Arrived(s))
    BY <1>1 DEF Conserved
  <2>2. b.size \in Nat /\ b.dropped \in Nat /\ b.pushedTotal \in Nat
    BY <2>1, RingNumbers
  <2>3. Cardinality(h) \in Nat /\ Len(done) \in Nat
    BY <2>1, FS_CardinalityType DEF HeapOK
  <2> QED BY <1>1, <2>2, <2>3 DEF Conserved
<1> HIDE DEF b, h
<1>6. (b.size + Cardinality(h) + Len(done)) + b.dropped = b.pushedTotal
  <2> DEFINE z == b.size
             n == Cardinality(h)
             l == Len(done)
             lost == b.dropped
             all == b.pushedTotal
  <2>1. z \in Nat /\ lost \in Nat /\ all \in Nat /\ n \in Nat /\ l \in Nat
    BY <1>5
  <2>2. n + l + lost = all - z
    BY <1>5
  <2> HIDE DEF z, n, l, lost, all
  <2>3. (z + n + l) + lost = all
    BY <2>1, <2>2, WholeBalance
  <2> QED BY <2>3 DEF z, n, l, lost, all
<1>7. Cardinality(A \cup B \cup C) + b.dropped = b.pushedTotal
  BY <1>4, <1>6
<1> QED BY <1>3, <1>5, <1>7 DEF A, B, C, b, done

(* A tick ingested is at one place: in the ring, in the reorder heap,      *)
(* processed and persisted once, or dropped and counted: nothing is lost   *)
(* or processed twice between ingest and the statistics, whatever the      *)
(* batches, the overflow and the order of the consumers' trips.            *)
THEOREM NothingLost == Spec => []TicksConserved
BY Invariance, InvConserves, PTL
-----------------------------------------------------------------------------
(* The sums are those of the ticks processed.                              *)
LEMMA InvWindow ==
  ASSUME Inv
  PROVE  WindowExact
<1> SUFFICES ASSUME NEW s \in Symbols
             PROVE  /\ vwaps[s].ticks = SubSeq(Applied[s], Left(s) + 1, stats[s].total)
                    /\ stats[s].total > 0 => vwaps[s].ticks # <<>>
                    /\ vwaps[s].sumPq = SumPq(vwaps[s].ticks)
                    /\ vwaps[s].sumQ = SumQ(vwaps[s].ticks)
                    /\ \A i \in 1 .. Left(s) : \E j \in i + 1 .. Len(Applied[s]) :
                         Applied[s][i].time < Applied[s][j].time - WindowMs
  BY DEF WindowExact
<1>1. WindowOK(vwaps[s], Applied[s]) /\ stats[s].total = Len(Applied[s])
  BY DEF Inv, Conserved, SumsOK
<1>2. Left(s) = Gone(vwaps[s], Applied[s])
  BY <1>1 DEF Left, Gone
<1>3. Len(<<>>) = 0 /\ ~(0 > 0)
  OBVIOUS
<1> QED BY <1>1, <1>2, <1>3 DEF WindowOK

\* A bound of a bound is a bound.
LEMMA NatTransitive ==
  ASSUME NEW a \in Nat, NEW b \in Nat, NEW c \in Nat, a <= b, b <= c
  PROVE  a <= c
OBVIOUS

\* A sequence of prices has a least and a greatest.
LEMMA Extremes ==
  ASSUME NEW prices \in Seq(Nat), Len(prices) > 0
  PROVE  /\ Min(Range(prices)) \in Nat /\ Max(Range(prices)) \in Nat
         /\ \A i \in 1 .. Len(prices) : Min(Range(prices)) <= prices[i] /\ prices[i] <= Max(Range(prices))
<1> DEFINE R == Range(prices)
           Top(r) == r = <<>> \/ \E m \in 1 .. Len(r) : \A i \in 1 .. Len(r) : r[i] <= r[m]
           Good == {r \in Seq(Nat) : Top(r)}
<1>1. /\ DOMAIN prices = 1 .. Len(prices) /\ Len(prices) \in Nat
      /\ \A i \in 1 .. Len(prices) : prices[i] \in Nat
  OBVIOUS
<1>2. R = {prices[i] : i \in 1 .. Len(prices)}
  BY <1>1 DEF Range
<1> HIDE DEF R
<1>3. R \in SUBSET Nat /\ R # {}
  <2>1. 1 \in 1 .. Len(prices)
    BY <1>1
  <2> QED BY <1>1, <1>2, <2>1
<1>4. FA!Min(R) \in R /\ \A y \in R : FA!Min(R) <= y
  BY <1>3, FA!MinOfNaturals
<1>5. Min(R) = FA!Min(R)
  BY DEF Min, FA!Min
<1>6. <<>> \in Good
  OBVIOUS
<1>7. ASSUME NEW r \in Seq(Nat), NEW x \in Nat, r \in Good PROVE Append(r, x) \in Good
  <2> DEFINE u == Append(r, x)
  <2>1. /\ u \in Seq(Nat) /\ Len(u) = Len(r) + 1 /\ Len(r) \in Nat /\ u[Len(r) + 1] = x
        /\ \A i \in 1 .. Len(r) : u[i] = r[i] /\ r[i] \in Nat
    OBVIOUS
  <2> HIDE DEF u
  <2>2. Len(r) + 1 \in 1 .. Len(u) /\ \A i \in 1 .. Len(u) : i \in 1 .. Len(r) \/ i = Len(r) + 1
    BY <2>1
  <2>3. CASE r = <<>>
    <3>1. Len(r) = 0
      BY <2>3
    <3>2. \A i \in 1 .. Len(u) : u[i] <= u[Len(r) + 1]
      BY <2>1, <2>2, <3>1
    <3> QED BY <2>1, <2>2, <3>2 DEF u
  <2>4. CASE r # <<>>
    <3>1. PICK m \in 1 .. Len(r) : \A i \in 1 .. Len(r) : r[i] <= r[m]
      BY <1>7, <2>4
    <3>2. CASE r[m] <= x
      <4>1. ASSUME NEW i \in 1 .. Len(u) PROVE u[i] <= u[Len(r) + 1]
        <5>1. CASE i \in 1 .. Len(r)
          <6>1. u[i] = r[i] /\ r[i] \in Nat /\ r[m] \in Nat /\ r[i] <= r[m]
            BY <2>1, <3>1, <5>1
          <6>2. u[Len(r) + 1] = x
            BY <2>1
          <6>3. r[i] <= x
            BY <3>2, <6>1, NatTransitive
          <6> QED BY <6>1, <6>2, <6>3
        <5>2. CASE i = Len(r) + 1
          <6>1. u[i] = x /\ u[Len(r) + 1] = x
            BY <2>1, <5>2
          <6> QED BY <6>1
        <5> QED BY <2>2, <5>1, <5>2
      <4> QED BY <2>1, <2>2, <4>1 DEF u
    <3>3. CASE ~(r[m] <= x)
      <4>1. m \in 1 .. Len(u) /\ u[m] = r[m]
        BY <2>1
      <4>2. ASSUME NEW i \in 1 .. Len(u) PROVE u[i] <= u[m]
        <5>1. CASE i \in 1 .. Len(r)
          BY <2>1, <3>1, <4>1, <5>1
        <5>2. CASE i = Len(r) + 1
          <6>1. r[m] \in Nat
            BY <2>1
          <6> QED BY <2>1, <3>3, <4>1, <5>2, <6>1
        <5> QED BY <2>2, <5>1, <5>2
      <4> QED BY <2>1, <4>1, <4>2 DEF u
    <3> QED BY <3>2, <3>3
  <2> QED BY <2>3, <2>4
<1>8. prices \in Good
  <2> HIDE DEF Good
  <2> QED BY <1>6, <1>7, FA!SeqSetInduction
<1>9. PICK m \in 1 .. Len(prices) : \A i \in 1 .. Len(prices) : prices[i] <= prices[m]
  <2>1. prices # <<>>
    BY <1>1
  <2> QED BY <1>8, <2>1
<1>10. prices[m] \in R /\ \A y \in R : prices[m] >= y
  BY <1>1, <1>2, <1>9
<1>11. Max(R) \in R /\ \A y \in R : Max(R) >= y
  BY <1>10 DEF Max
<1>12. \A i \in 1 .. Len(prices) : prices[i] \in R
  BY <1>2
<1> QED BY <1>1, <1>3, <1>4, <1>5, <1>11, <1>12 DEF R

\* The invariant makes the averages exact.
LEMMA InvAverages ==
  ASSUME Inv
  PROVE  AveragesExact
<1> SUFFICES ASSUME NEW s \in Symbols, NEW p \in Periods
             PROVE  LET prices == PricesOf(Applied[s])
                        n      == Len(prices)
                        ema    == averages[s][p].ema
                    IN  /\ Sma(averages[s], p) =
                             IF n < p THEN None
                             ELSE <<FoldLeft(AddPrice, 0, SubSeq(prices, n - p + 1, n)), p>>
                        /\ n > 0 => /\ Min(Range(prices)) * ema[2] <= ema[1]
                                    /\ ema[1] <= Max(Range(prices)) * ema[2]
  BY Zenon DEF AveragesExact, PricesOf
<1> DEFINE prices == PricesOf(Applied[s])
           n == Len(prices)
           m == averages[s][p]
<1>1. Applied[s] \in Seq(Arrived(s))
  BY DEF Inv, TableOK
<1>2. prices \in Seq(Nat)
  BY <1>1, PricesType
<1>3. AverageOK(m, p, prices)
  BY DEF Inv, SumsOK, AveragesOK
<1> HIDE DEF prices
<1>4. n \in Nat /\ p \in Nat
  BY <1>2, AveragesAssumption
<1>5. /\ Len(m.values) = IF n < p THEN n ELSE p
      /\ m.values = SubSeq(prices, (n - Len(m.values)) + 1, n) /\ m.sum = FA!Fold(0, m.values)
  BY <1>3 DEF AverageOK, SimpleOK, LastPrices
<1>6. Sma(averages[s], p) = IF n < p THEN None ELSE <<m.sum, p>>
  BY <1>4, <1>5 DEF Sma
<1>7. ~(n < p) => m.sum = FoldLeft(AddPrice, 0, SubSeq(prices, n - p + 1, n))
  <2>1. \A values : FA!Fold(0, values) = FoldLeft(AddPrice, 0, values)
    BY DEF FoldLeft, MapThenFoldSet, Max, FA!Fold, FA!FoldLeft, FA!MapThenFoldSet, FA!Max
  <2> QED BY <1>5, <2>1
<1>8. ASSUME n > 0
      PROVE  Min(Range(prices)) * m.ema[2] <= m.ema[1] /\ m.ema[1] <= Max(Range(prices)) * m.ema[2]
  <2>1. Within(m.ema, prices)
    BY <1>3, <1>4, <1>8 DEF AverageOK
  <2>2. /\ Min(Range(prices)) \in Nat /\ Max(Range(prices)) \in Nat
        /\ \A i \in 1 .. n : Min(Range(prices)) <= prices[i] /\ prices[i] <= Max(Range(prices))
    BY <1>2, <1>8, Extremes
  <2> QED BY <2>1, <2>2 DEF Within
<1> HIDE DEF m
<1> QED BY <1>6, <1>7, <1>8 DEF prices, m

(* The VWAP of a symbol is taken over a run of its latest ticks that is    *)
(* never empty again; its running sums are the sums of that run; and what  *)
(* has left it was more than the window older than a tick processed later: *)
(* for every window, order of arrival and batching.                        *)
THEOREM WindowIsExact == Spec => []WindowExact
BY Invariance, InvWindow, PTL

(* The simple average is the mean of the last p prices once there are p,   *)
(* and the exponential average never leaves the range of the prices seen,  *)
(* for every period and every run of prices.                               *)
THEOREM AveragesAreExact == Spec => []AveragesExact
BY Invariance, InvAverages, PTL
-----------------------------------------------------------------------------
(* The candles.                                                            *)

\* A candle of s.
Candle(s) ==
  [symbol : {s}, bucket : Nat, open : Nat, high : Nat, low : Nat, close : Nat,
   volume : Nat, count : Nat, closed : BOOLEAN]

BucketOf(tf, x) == Agg(tf)!BucketStart(x.time)

\* The rows that record the ticks of a bucket of s.
RowsOf(rs, tf, s, b) ==
  {j \in 1 .. Len(rs) : IsTickOf(s, rs[j]) /\ BucketOf(tf, rs[j].tick) = b}

IsAbout(e, tf, s, b) ==
  e.type # "tick" /\ e.frame = tf /\ e.candle.symbol = s /\ e.candle.bucket = b

\* Of the events about the candle c the last carries c.
Told(es, tf, c) ==
  \E m \in 1 .. Len(es) :
    /\ IsAbout(es[m], tf, c.symbol, c.bucket) /\ es[m].candle = c
    /\ \A n \in m + 1 .. Len(es) : ~IsAbout(es[n], tf, c.symbol, c.bucket)

Exact(tf, c, rs) == c.count = Cardinality(RowsOf(rs, tf, c.symbol, c.bucket))

\* The open candle o and the history h of s: in the order of their buckets,
\* no tick newer than the open one, each counted and told.
MemoryOK(tf, s, o, h, rs, es) ==
  /\ o \in Candle(s) \cup {None} /\ h \in Seq(Candle(s))
  /\ \A i, j \in 1 .. Len(h) : i < j => h[i].bucket < h[j].bucket
  /\ \A i \in 1 .. Len(h) : Told(es, tf, h[i]) /\ Exact(tf, h[i], rs)
  /\ o = None => Len(h) = 0 /\ \A j \in 1 .. Len(rs) : ~IsTickOf(s, rs[j])
  /\ o # None =>
       /\ Told(es, tf, o) /\ Exact(tf, o, rs)
       /\ \A i \in 1 .. Len(h) : h[i].bucket < o.bucket
       /\ \A j \in 1 .. Len(rs) : IsTickOf(s, rs[j]) =>
            BucketOf(tf, rs[j].tick) \in Nat /\ BucketOf(tf, rs[j].tick) <= o.bucket

AggForm(a) ==
  /\ a = [open |-> a.open, history |-> a.history,
          latePatches |-> a.latePatches, lastPatch |-> a.lastPatch]
  /\ a.open = [s \in Symbols |-> a.open[s]] /\ a.history = [s \in Symbols |-> a.history[s]]

AggOK(tf, a, rs, es) ==
  AggForm(a) /\ \A s \in Symbols : MemoryOK(tf, s, a.open[s], a.history[s], rs, es)

\* Each candle row counts the ticks of its bucket before it.
Backed(rs) ==
  \A i \in 1 .. Len(rs) : rs[i].kind = "candle" =>
    rs[i].candle.count =
      Cardinality({j \in 1 .. i - 1 :
                     /\ IsTickOf(rs[i].candle.symbol, rs[j])
                     /\ BucketOf(rs[i].frame, rs[j].tick) = rs[i].candle.bucket})

\* t is s and then e.
Added(s, t, e) ==
  /\ IsSeq(s) /\ IsSeq(t) /\ Len(t) = Len(s) + 1 /\ t[Len(s) + 1] = e
  /\ \A i \in 1 .. Len(s) : t[i] = s[i]

\* t is s and then e, if there is a c to tell of.
MaybeAdded(s, c, e, t) == t = s \o IfAny(c, e)

\* s is a prefix of t.
Grown(s, t) ==
  /\ IsSeq(s) /\ IsSeq(t) /\ Len(s) <= Len(t)
  /\ \A i \in 1 .. Len(s) : t[i] = s[i]

\* The length of a sequence of anything.
LEMMA LenOfSeq ==
  ASSUME NEW s, IsSeq(s)
  PROVE  Len(s) \in Nat
<1>1. PICK T : s \in Seq(T)
  BY DEF IsSeq
<1> QED BY <1>1

\* Append adds its element.
LEMMA AppendAdds ==
  ASSUME NEW s, IsSeq(s), NEW e
  PROVE  Added(s, Append(s, e), e)
<1>1. PICK T : s \in Seq(T)
  BY DEF IsSeq
<1>2. s \in Seq(T \cup {e}) /\ e \in T \cup {e}
  BY <1>1
<1>3. /\ Append(s, e) \in Seq(T \cup {e}) /\ Len(Append(s, e)) = Len(s) + 1
      /\ Append(s, e)[Len(s) + 1] = e
      /\ \A i \in 1 .. Len(s) : Append(s, e)[i] = s[i]
  BY <1>2
<1> QED BY <1>3 DEF Added, IsSeq

\* So does the concatenation with what may be there, when it is.
LEMMA MaybeAdds ==
  ASSUME NEW s, IsSeq(s), NEW c, NEW e, NEW t, MaybeAdded(s, c, e, t)
  PROVE  /\ c = None => t = s
         /\ c # None => Added(s, t, e)
         /\ IsSeq(t)
<1>1. PICK T : s \in Seq(T)
  BY DEF IsSeq
<1>2. CASE c = None
  <2>1. s \o <<>> = s
    BY <1>1
  <2> QED BY <1>2, <2>1 DEF IfAny, MaybeAdded
<1>3. CASE c # None
  <2>1. s \o <<e>> = Append(s, e)
    BY <1>1
  <2>2. t = Append(s, e)
    BY <1>3, <2>1 DEF IfAny, MaybeAdded
  <2>3. Added(s, t, e)
    BY <2>2, AppendAdds
  <2> QED BY <1>3, <2>3 DEF Added
<1> QED BY <1>2, <1>3

\* A sequence grows by what is added.
LEMMA AddedGrows ==
  ASSUME NEW s, NEW t, NEW e, Added(s, t, e)
  PROVE  /\ Grown(s, t) /\ Len(s) \in Nat
         /\ \A i \in Len(s) + 1 .. Len(t) : t[i] = e
<1>1. Len(s) \in Nat
  BY LenOfSeq DEF Added
<1> QED BY <1>1 DEF Added, Grown
-----------------------------------------------------------------------------
(* What the sink was told.                                                 *)

\* Events about something else take nothing back.
LEMMA ToldLater ==
  ASSUME NEW es, NEW et, Grown(es, et), NEW tf, NEW c, Told(es, tf, c),
         \A i \in Len(es) + 1 .. Len(et) : ~IsAbout(et[i], tf, c.symbol, c.bucket)
  PROVE  Told(et, tf, c)
<1>1. Len(es) \in Nat /\ Len(et) \in Nat /\ Len(es) <= Len(et)
  BY LenOfSeq DEF Grown
<1>2. PICK m \in 1 .. Len(es) :
        /\ IsAbout(es[m], tf, c.symbol, c.bucket) /\ es[m].candle = c
        /\ \A n \in m + 1 .. Len(es) : ~IsAbout(es[n], tf, c.symbol, c.bucket)
  BY DEF Told
<1>3. m \in 1 .. Len(et) /\ et[m] = es[m]
  BY <1>1 DEF Grown
<1>4. ASSUME NEW n \in m + 1 .. Len(et) PROVE ~IsAbout(et[n], tf, c.symbol, c.bucket)
  <2>1. CASE n <= Len(es)
    <3>1. n \in m + 1 .. Len(es) /\ n \in 1 .. Len(es)
      BY <1>1, <2>1
    <3>2. et[n] = es[n]
      BY <3>1 DEF Grown
    <3> QED BY <1>2, <3>1, <3>2
  <2>2. CASE ~(n <= Len(es))
    <3>1. n \in Len(es) + 1 .. Len(et)
      BY <1>1, <2>2
    <3> QED BY <3>1
  <2> QED BY <2>1, <2>2
<1> QED BY <1>2, <1>3, <1>4 DEF Told

\* The newest event tells of its candle.
LEMMA ToldNow ==
  ASSUME NEW es, NEW et, NEW type, type # "tick", NEW tf, NEW c, Added(es, et, Event(type, tf, c))
  PROVE  Told(et, tf, c)
<1> DEFINE e == Event(type, tf, c)
           m == Len(es) + 1
<1>1. IsAbout(e, tf, c.symbol, c.bucket) /\ e.candle = c
  BY DEF IsAbout, Event
<1> HIDE DEF e
<1>2. Len(es) \in Nat /\ Len(et) = m /\ et[m] = e
  BY LenOfSeq DEF Added, e
<1>3. m \in 1 .. Len(et) /\ \A n \in m + 1 .. Len(et) : FALSE
  BY <1>2
<1> QED BY <1>1, <1>2, <1>3 DEF Told

\* What an event is about.
LEMMA EventAbout ==
  ASSUME NEW tf, NEW f, NEW type, NEW b, NEW c, IsAbout(Event(type, tf, b), f, c.symbol, c.bucket)
  PROVE  f = tf /\ c.symbol = b.symbol /\ c.bucket = b.bucket
BY DEF IsAbout, Event

\* An event, if there is one, about something else takes nothing back,
LEMMA StillTold ==
  ASSUME NEW u, IsSeq(u), NEW b, NEW type, NEW tf, NEW v, MaybeAdded(u, b, Event(type, tf, b), v),
         NEW f, NEW c, Told(u, f, c),
         b # None => f # tf \/ c.symbol # b.symbol \/ c.bucket # b.bucket
  PROVE  Told(v, f, c)
<1>1. CASE b = None
  BY <1>1, MaybeAdds
<1>2. CASE b # None
  <2> DEFINE e == Event(type, tf, b)
  <2>1. ~IsAbout(e, f, c.symbol, c.bucket)
    BY <1>2, EventAbout
  <2> HIDE DEF e
  <2>2. Added(u, v, e)
    BY <1>2, MaybeAdds DEF e
  <2>3. Grown(u, v) /\ \A i \in Len(u) + 1 .. Len(v) : v[i] = e
    BY <2>2, AddedGrows
  <2> QED BY <2>1, <2>3, ToldLater
<1> QED BY <1>1, <1>2

\* and if there is one it tells of its candle.
LEMMA ThenTold ==
  ASSUME NEW u, IsSeq(u), NEW b, b # None, NEW type, type # "tick", NEW tf, NEW v,
         MaybeAdded(u, b, Event(type, tf, b), v)
  PROVE  Told(v, tf, b)
<1>1. Added(u, v, Event(type, tf, b))
  BY MaybeAdds
<1> QED BY <1>1, ToldNow

\* The events of one timeframe for one tick: what closed, what was patched, what is open.
Announces(es, tf, closed, patched, now, et) ==
  \E e1, e2 : /\ MaybeAdded(es, closed, Event("candle_closed", tf, closed), e1)
              /\ MaybeAdded(e1, patched, Event("candle_patched", tf, patched), e2)
              /\ MaybeAdded(e2, now, Event("candle_update", tf, now), et)

\* What they are not about.
Elsewhere(f, c, tf, b) == b # None => f # tf \/ c.symbol # b.symbol \/ c.bucket # b.bucket

\* What those events tell, and what they leave standing.
LEMMA Announced ==
  ASSUME NEW es, IsSeq(es), NEW tf, NEW closed, NEW patched, NEW now, now # None,
         NEW et, Announces(es, tf, closed, patched, now, et)
  PROVE  /\ IsSeq(et) /\ Told(et, tf, now)
         /\ closed # None /\ patched = None /\ closed.bucket # now.bucket => Told(et, tf, closed)
         /\ patched # None /\ patched.bucket # now.bucket => Told(et, tf, patched)
         /\ \A f, c : /\ Told(es, f, c)
                      /\ Elsewhere(f, c, tf, closed) /\ Elsewhere(f, c, tf, patched)
                      /\ Elsewhere(f, c, tf, now)
                      => Told(et, f, c)
<1> DEFINE C == Event("candle_closed", tf, closed)
           P == Event("candle_patched", tf, patched)
           U == Event("candle_update", tf, now)
<1>1. PICK e1, e2 : MaybeAdded(es, closed, C, e1) /\ MaybeAdded(e1, patched, P, e2)
                    /\ MaybeAdded(e2, now, U, et)
  BY DEF Announces
<1> HIDE DEF C, P, U
<1>2. IsSeq(e1)
  BY <1>1, MaybeAdds
<1>3. IsSeq(e2)
  BY <1>1, <1>2, MaybeAdds
<1>4. IsSeq(et)
  BY <1>1, <1>3, MaybeAdds
<1>5. Told(et, tf, now)
  BY <1>1, <1>3, ThenTold DEF U
<1>6. ASSUME NEW f, NEW c, Told(e2, f, c), Elsewhere(f, c, tf, now)
      PROVE  Told(et, f, c)
  BY <1>1, <1>3, <1>6, StillTold DEF U, Elsewhere
<1>7. ASSUME NEW f, NEW c, Told(e1, f, c), Elsewhere(f, c, tf, patched), Elsewhere(f, c, tf, now)
      PROVE  Told(et, f, c)
  <2>1. Told(e2, f, c)
    BY <1>1, <1>2, <1>7, StillTold DEF P, Elsewhere
  <2> QED BY <1>6, <1>7, <2>1
<1>8. ASSUME NEW f, NEW c, Told(es, f, c), Elsewhere(f, c, tf, closed),
             Elsewhere(f, c, tf, patched), Elsewhere(f, c, tf, now)
      PROVE  Told(et, f, c)
  <2>1. Told(e1, f, c)
    BY <1>1, <1>8, StillTold DEF C, Elsewhere
  <2> QED BY <1>7, <1>8, <2>1
<1>9. ASSUME closed # None, patched = None, closed.bucket # now.bucket PROVE Told(et, tf, closed)
  <2>1. Told(e1, tf, closed)
    BY <1>1, <1>9, ThenTold DEF C
  <2> QED BY <1>7, <1>9, <2>1 DEF Elsewhere
<1>10. ASSUME patched # None, patched.bucket # now.bucket PROVE Told(et, tf, patched)
  <2>1. Told(e2, tf, patched)
    BY <1>1, <1>2, <1>10, ThenTold DEF P
  <2> QED BY <1>6, <1>10, <2>1 DEF Elsewhere
<1> QED BY <1>4, <1>5, <1>8, <1>9, <1>10
-----------------------------------------------------------------------------
(* What the rows hold.                                                     *)

\* q is r and then rows of candles.
Quiet(r, q) == Grown(r, q) /\ \A i \in Len(r) + 1 .. Len(q) : q[i].kind # "tick"

\* A row of a candle is no tick.
LEMMA CandleRowQuiet ==
  ASSUME NEW r, IsSeq(r), NEW c, NEW tf, NEW q, MaybeAdded(r, c, CandleRow(tf, c), q)
  PROVE  Quiet(r, q)
<1>1. CASE c = None
  <2>1. q = r
    BY <1>1, MaybeAdds
  <2>2. Len(r) \in Nat
    BY LenOfSeq
  <2> QED BY <2>1, <2>2 DEF Quiet, Grown
<1>2. CASE c # None
  <2> DEFINE e == CandleRow(tf, c)
  <2>1. e.kind # "tick"
    BY DEF CandleRow
  <2> HIDE DEF e
  <2>2. Added(r, q, e)
    BY <1>2, MaybeAdds DEF e
  <2> QED BY <2>1, <2>2, AddedGrows DEF Quiet
<1> QED BY <1>1, <1>2

\* One growth after another.
LEMMA QuietAfter ==
  ASSUME NEW r, NEW q, NEW t, Quiet(r, q), Quiet(q, t)
  PROVE  Quiet(r, t)
<1>1. Len(r) \in Nat /\ Len(q) \in Nat /\ Len(t) \in Nat /\ Len(r) <= Len(q) /\ Len(q) <= Len(t)
  BY LenOfSeq DEF Quiet, Grown
<1>2. \A i \in 1 .. Len(r) : t[i] = r[i]
  <2> TAKE i \in 1 .. Len(r)
  <2>1. i \in 1 .. Len(q)
    BY <1>1
  <2> QED BY <2>1 DEF Quiet, Grown
<1>3. \A i \in Len(r) + 1 .. Len(t) : t[i].kind # "tick"
  <2> TAKE i \in Len(r) + 1 .. Len(t)
  <2>1. CASE i <= Len(q)
    <3>1. i \in Len(r) + 1 .. Len(q) /\ i \in 1 .. Len(q)
      BY <1>1, <2>1
    <3>2. t[i] = q[i] /\ q[i].kind # "tick"
      BY <3>1 DEF Quiet, Grown
    <3> QED BY <3>2
  <2>2. CASE ~(i <= Len(q))
    <3>1. i \in Len(q) + 1 .. Len(t)
      BY <1>1, <2>2
    <3> QED BY <3>1 DEF Quiet
  <2> QED BY <2>1, <2>2
<1> QED BY <1>1, <1>2, <1>3 DEF Quiet, Grown

\* Rows of candles change nothing about ticks.
LEMMA QuietRows ==
  ASSUME NEW r, NEW q, Quiet(r, q), NEW s
  PROVE  /\ \A tf, b : RowsOf(q, tf, s, b) = RowsOf(r, tf, s, b)
         /\ \A j \in 1 .. Len(q) : IsTickOf(s, q[j]) => j \in 1 .. Len(r) /\ q[j] = r[j]
<1>1. Len(r) \in Nat /\ Len(q) \in Nat /\ Len(r) <= Len(q)
  BY LenOfSeq DEF Quiet, Grown
<1>2. ASSUME NEW j \in 1 .. Len(q), IsTickOf(s, q[j]) PROVE j \in 1 .. Len(r) /\ q[j] = r[j]
  <2>1. ~(j \in Len(r) + 1 .. Len(q))
    BY <1>2 DEF Quiet, IsTickOf
  <2>2. j \in 1 .. Len(r)
    BY <1>1, <2>1
  <2> QED BY <2>2 DEF Quiet, Grown
<1>3. ASSUME NEW tf, NEW b PROVE RowsOf(q, tf, s, b) = RowsOf(r, tf, s, b)
  <2>1. \A j \in RowsOf(q, tf, s, b) : j \in RowsOf(r, tf, s, b)
    BY <1>2 DEF RowsOf
  <2>2. \A j \in RowsOf(r, tf, s, b) : j \in RowsOf(q, tf, s, b)
    <3> TAKE j \in RowsOf(r, tf, s, b)
    <3>1. j \in 1 .. Len(r) /\ j \in 1 .. Len(q) /\ q[j] = r[j]
      BY <1>1 DEF RowsOf, Quiet, Grown
    <3> QED BY <3>1 DEF RowsOf
  <2>3. RowsOf(r, tf, s, b) \subseteq 1 .. Len(r) /\ RowsOf(q, tf, s, b) \subseteq 1 .. Len(q)
    BY DEF RowsOf
  <2> QED BY <2>1, <2>2
<1> QED BY <1>2, <1>3

\* The rows of a bucket are finitely many.
LEMMA RowsFinite ==
  ASSUME NEW r, IsSeq(r), NEW tf, NEW s, NEW b
  PROVE  /\ IsFiniteSet(RowsOf(r, tf, s, b)) /\ Cardinality(RowsOf(r, tf, s, b)) \in Nat
         /\ Len(r) + 1 \notin RowsOf(r, tf, s, b)
<1>1. Len(r) \in Nat
  BY LenOfSeq
<1>2. IsFiniteSet(1 .. Len(r))
  BY <1>1, FS_Interval
<1>3. RowsOf(r, tf, s, b) \subseteq 1 .. Len(r)
  BY DEF RowsOf
<1>4. IsFiniteSet(RowsOf(r, tf, s, b))
  BY <1>2, <1>3, FS_Subset
<1> QED BY <1>1, <1>3, <1>4, FS_CardinalityType

\* The row of a tick is one more of its bucket, and of no other.
LEMMA TickRows ==
  ASSUME NEW r, IsSeq(r), NEW x, NEW q, Added(r, q, TickRow(x)), NEW tf, NEW s, NEW b
  PROVE  /\ x.symbol # s \/ BucketOf(tf, x) # b => RowsOf(q, tf, s, b) = RowsOf(r, tf, s, b)
         /\ x.symbol = s /\ BucketOf(tf, x) = b =>
              Cardinality(RowsOf(q, tf, s, b)) = Cardinality(RowsOf(r, tf, s, b)) + 1
<1> DEFINE R == RowsOf(r, tf, s, b)
           Q == RowsOf(q, tf, s, b)
           n == Len(r) + 1
<1>1. Len(r) \in Nat /\ Len(q) = n
  BY LenOfSeq DEF Added
<1>2. (IsTickOf(s, q[n]) /\ BucketOf(tf, q[n].tick) = b) <=> (x.symbol = s /\ BucketOf(tf, x) = b)
  BY DEF Added, IsTickOf, TickRow
<1>3. \A j \in 1 .. n : j \in Q <=> j \in R \/ (j = n /\ x.symbol = s /\ BucketOf(tf, x) = b)
  <2> TAKE j \in 1 .. n
  <2>1. CASE j = n
    <3>1. j \notin 1 .. Len(r) /\ j \in 1 .. Len(q)
      BY <1>1, <2>1
    <3> QED BY <1>2, <2>1, <3>1 DEF RowsOf
  <2>2. CASE j # n
    <3>1. j \in 1 .. Len(r) /\ j \in 1 .. Len(q)
      BY <1>1, <2>2
    <3>2. q[j] = r[j]
      BY <3>1 DEF Added
    <3> QED BY <2>2, <3>1, <3>2 DEF RowsOf
  <2> QED BY <2>1, <2>2
<1>4. R \subseteq 1 .. n /\ Q \subseteq 1 .. n /\ n \in 1 .. n
  BY <1>1 DEF RowsOf
<1>5. IsFiniteSet(R) /\ n \notin R
  BY RowsFinite
<1> HIDE DEF R, Q
<1>6. x.symbol # s \/ BucketOf(tf, x) # b => Q = R
  BY <1>3, <1>4
<1>7. ASSUME x.symbol = s, BucketOf(tf, x) = b PROVE Cardinality(Q) = Cardinality(R) + 1
  <2>1. Q = R \cup {n}
    BY <1>3, <1>4, <1>7
  <2> QED BY <1>5, <2>1, FS_AddElement
<1> QED BY <1>6, <1>7 DEF R, Q

\* What Backed asks of one row.
BackedRow(rs, i) ==
  rs[i].kind = "candle" =>
    rs[i].candle.count =
      Cardinality({j \in 1 .. i - 1 :
                     /\ IsTickOf(rs[i].candle.symbol, rs[j])
                     /\ BucketOf(rs[i].frame, rs[j].tick) = rs[i].candle.bucket})

\* A row looks at the rows before it alone.
LEMMA BackedStays ==
  ASSUME NEW r, Backed(r), NEW q, Grown(r, q), NEW i \in 1 .. Len(r)
  PROVE  BackedRow(q, i)
<1>1. Len(r) \in Nat /\ q[i] = r[i] /\ \A j \in 1 .. i - 1 : j \in 1 .. Len(r)
  BY LenOfSeq DEF Grown
<1>2. \A j \in 1 .. i - 1 : q[j] = r[j]
  BY <1>1 DEF Grown
<1> DEFINE B(p) == {j \in 1 .. i - 1 : /\ IsTickOf(p[i].candle.symbol, p[j])
                                       /\ BucketOf(p[i].frame, p[j].tick) = p[i].candle.bucket}
<1>3. B(q) = B(r)
  BY <1>1, <1>2
<1>4. r[i].kind = "candle" => r[i].candle.count = Cardinality(B(r))
  BY DEF Backed
<1> HIDE DEF B
<1>5. q[i].kind = "candle" => q[i].candle.count = Cardinality(B(q))
  BY <1>1, <1>3, <1>4
<1> QED BY <1>5 DEF BackedRow, B

\* The row of a tick asks nothing, that of an exact candle is backed.
LEMMA BackedMore ==
  ASSUME NEW r, Backed(r), NEW e, NEW q, Added(r, q, e),
         \/ e.kind = "tick"
         \/ \E tf, c : e = CandleRow(tf, c) /\ Exact(tf, c, r)
  PROVE  Backed(q)
<1> DEFINE n == Len(r) + 1
<1>1. Len(r) \in Nat /\ Len(q) = n /\ q[n] = e /\ Grown(r, q) /\ n - 1 = Len(r)
  BY LenOfSeq, AddedGrows DEF Added
<1>2. BackedRow(q, n)
  <2>1. CASE e.kind = "tick"
    BY <1>1, <2>1 DEF BackedRow
  <2>2. ASSUME NEW tf, NEW c, e = CandleRow(tf, c), Exact(tf, c, r) PROVE BackedRow(q, n)
    <3> DEFINE B == {j \in 1 .. n - 1 : /\ IsTickOf(q[n].candle.symbol, q[j])
                                        /\ BucketOf(q[n].frame, q[j].tick) = q[n].candle.bucket}
    <3>1. q[n].candle = c /\ q[n].frame = tf
      BY <1>1, <2>2 DEF CandleRow
    <3>2. \A j \in 1 .. n - 1 : q[j] = r[j]
      BY <1>1 DEF Grown
    <3>3. B = RowsOf(r, tf, c.symbol, c.bucket)
      BY <1>1, <3>1, <3>2 DEF RowsOf
    <3> HIDE DEF B
    <3>4. q[n].candle.count = Cardinality(B)
      BY <2>2, <3>1, <3>3 DEF Exact
    <3> QED BY <3>4 DEF BackedRow, B
  <2> QED BY <2>1, <2>2
<1>3. ASSUME NEW i \in 1 .. Len(q) PROVE BackedRow(q, i)
  <2>1. CASE i = n
    BY <1>2, <2>1
  <2>2. CASE i # n
    <3>1. i \in 1 .. Len(r)
      BY <1>1, <2>2
    <3> QED BY <1>1, <3>1, BackedStays
  <2> QED BY <2>1, <2>2
<1> QED BY <1>3 DEF Backed, BackedRow
-----------------------------------------------------------------------------
(* The four ways through apply, for one timeframe.                         *)

\* A candle of a symbol is not None, and has the fields it has.
LEMMA CandleFields ==
  ASSUME NEW s \in Symbols, NEW c \in Candle(s)
  PROVE  /\ c # None /\ c.symbol = s /\ c.bucket \in Nat /\ c.count \in Nat
         /\ c.high \in Nat /\ c.low \in Nat /\ c.volume \in Nat
<1>1. Candle(s) \subseteq CandleType
  BY DEF Candle, CandleType
<1>2. c # None
  BY <1>1, PipelineAssumption
<1> QED BY <1>2 DEF Candle

\* The bucket of a tick.
LEMMA BucketType ==
  ASSUME NEW s, NEW x \in Arrived(s), NEW tf \in Nat \ {0}
  PROVE  BucketOf(tf, x) \in Nat
<1>1. x.time \in Nat
  BY DEF Arrived
<1> QED BY <1>1 DEF BucketOf, Agg!BucketStart

\* A new candle is one of its tick.
LEMMA NewCandleOf ==
  ASSUME NEW s, NEW x \in Arrived(s), NEW tf \in Nat \ {0}
  PROVE  LET c == Agg(tf)!NewCandle(x)
         IN  c \in Candle(s) /\ c.bucket = BucketOf(tf, x) /\ c.count = 1
<1>1. x.price \in Nat /\ x.quantity \in Nat /\ x.symbol = s
  BY DEF Arrived
<1>2. BucketOf(tf, x) \in Nat
  BY BucketType
<1> QED BY <1>1, <1>2 DEF Agg!NewCandle, BucketOf, Candle

\* A merge counts one more.
LEMMA MergeOf ==
  ASSUME NEW s, NEW x \in Arrived(s), NEW tf, NEW c \in Candle(s)
  PROVE  LET d == Agg(tf)!Merge(c, x)
         IN  d \in Candle(s) /\ d.bucket = c.bucket /\ d.count = c.count + 1
<1>1. x.price \in Nat /\ x.quantity \in Nat
  BY DEF Arrived
<1>2. Agg(tf)!Larger(c.high, x.price) \in Nat /\ Agg(tf)!Smaller(c.low, x.price) \in Nat
  BY <1>1 DEF Agg!Larger, Agg!Smaller, Candle
<1>3. c.volume + x.quantity \in Nat /\ c.count + 1 \in Nat
  BY <1>1 DEF Candle
<1> QED BY <1>1, <1>2, <1>3 DEF Agg!Merge, Candle

\* Closing sets the flag alone.
LEMMA ClosedOf ==
  ASSUME NEW s, NEW c \in Candle(s)
  PROVE  LET d == [c EXCEPT !.closed = TRUE]
         IN  d \in Candle(s) /\ d.bucket = c.bucket /\ d.count = c.count
BY DEF Candle

\* g is h and then c, but for at most the first.
Pushed(h, c, g) ==
  \E d \in {0, 1} : \A i \in 1 .. Len(g) :
    /\ i + d \in 1 .. Len(h) + 1
    /\ g[i] = IF i + d = Len(h) + 1 THEN c ELSE h[i + d]

\* A push appends and drops at most the first.
LEMMA PushOf ==
  ASSUME NEW T, NEW h \in Seq(T), NEW c \in T, NEW tf, NEW g, g = Agg(tf)!PushHistory(h, c)
  PROVE  g \in Seq(T) /\ Pushed(h, c, g)
<1> DEFINE longer == Append(h, c)
<1>1. /\ longer \in Seq(T) /\ Len(longer) = Len(h) + 1 /\ Len(h) \in Nat /\ CandleHistoryLen \in Nat
      /\ \A i \in 1 .. Len(h) + 1 : longer[i] = IF i = Len(h) + 1 THEN c ELSE h[i]
  BY PipelineAssumption
<1>2. g = IF Len(longer) > CandleHistoryLen THEN Tail(longer) ELSE longer
  BY DEF Agg!PushHistory
<1> HIDE DEF longer
<1>3. CASE Len(longer) > CandleHistoryLen
  <2>1. /\ Tail(longer) \in Seq(T) /\ Len(Tail(longer)) = Len(h)
        /\ \A i \in 1 .. Len(h) : Tail(longer)[i] = longer[i + 1]
    BY <1>1
  <2>2. \A i \in 1 .. Len(g) : /\ i + 1 \in 1 .. Len(h) + 1
                               /\ g[i] = IF i + 1 = Len(h) + 1 THEN c ELSE h[i + 1]
    BY <1>1, <1>2, <1>3, <2>1
  <2>3. Pushed(h, c, g)
    BY <2>2 DEF Pushed
  <2> QED BY <1>2, <1>3, <2>1, <2>3
<1>4. CASE ~(Len(longer) > CandleHistoryLen)
  <2>1. \A i \in 1 .. Len(g) : /\ i + 0 \in 1 .. Len(h) + 1
                               /\ g[i] = IF i + 0 = Len(h) + 1 THEN c ELSE h[i + 0]
    BY <1>1, <1>2, <1>4
  <2>2. Pushed(h, c, g)
    BY <2>1 DEF Pushed
  <2> QED BY <1>1, <1>2, <1>4, <2>2
<1> QED BY <1>3, <1>4

\* Replacing the value at one symbol.
LEMMA Replaced ==
  ASSUME NEW f, f = [t \in Symbols |-> f[t]], NEW s \in Symbols, NEW v, NEW g, g = [f EXCEPT ![s] = v]
  PROVE  /\ g = [t \in Symbols |-> g[t]] /\ g[s] = v
         /\ \A t \in Symbols \ {s} : g[t] = f[t]
OBVIOUS

\* A record of those four fields is an aggregator.
LEMMA FormOf ==
  ASSUME NEW o, o = [t \in Symbols |-> o[t]], NEW h, h = [t \in Symbols |-> h[t]], NEW l, NEW p, NEW a,
         a = [open |-> o, history |-> h, latePatches |-> l, lastPatch |-> p]
  PROVE  AggForm(a) /\ a.open = o /\ a.history = h /\ a.lastPatch = p
<1>1. a.open = o /\ a.history = h /\ a.latePatches = l /\ a.lastPatch = p
  OBVIOUS
<1> QED BY <1>1, Zenon DEF AggForm

\* The open candle o and the history h of the tick's symbol become p and g,
\* the candle closed and the candle patched are handed out.
Opened(tf, x, o, h, p, g, closed, patched) ==
  /\ o = None /\ p = Agg(tf)!NewCandle(x) /\ g = h /\ closed = None /\ patched = None

Merged(tf, x, o, h, p, g, closed, patched) ==
  /\ o # None /\ o.bucket = BucketOf(tf, x)
  /\ p = Agg(tf)!Merge(o, x) /\ g = h /\ closed = None /\ patched = None

Turned(tf, x, o, h, p, g, closed, patched) ==
  /\ o # None /\ o.bucket < BucketOf(tf, x)
  /\ p = Agg(tf)!NewCandle(x) /\ closed = [o EXCEPT !.closed = TRUE]
  /\ g = Agg(tf)!PushHistory(h, closed) /\ patched = None

Missed(tf, x, o, h, p, g, closed, patched) ==
  /\ o # None /\ BucketOf(tf, x) < o.bucket
  /\ \A i \in 1 .. Len(h) : h[i].bucket # BucketOf(tf, x)
  /\ p = o /\ g = h /\ closed = None /\ patched = None

Patched(tf, x, o, h, p, g, closed, patched) ==
  /\ o # None /\ BucketOf(tf, x) < o.bucket /\ p = o /\ closed = None
  /\ \E n \in 1 .. Len(h) : /\ h[n].bucket = BucketOf(tf, x)
                            /\ patched = Agg(tf)!Merge(h[n], x) /\ g = [h EXCEPT ![n] = patched]

\* Apply leaves the other symbols alone and goes one of those ways for its own.
LEMMA ApplyWays ==
  ASSUME NEW s \in Symbols, NEW x \in Arrived(s), NEW tf \in Nat \ {0}, NEW a, AggForm(a),
         a.open[s] \in Candle(s) \cup {None}, a.history[s] \in Seq(Candle(s)),
         NEW after, after = Agg(tf)!Apply(a, x), NEW closed, closed = Agg(tf)!ClosedBy(a, x)
  PROVE  LET o == a.open[s]
             h == a.history[s]
             p == after.open[s]
             g == after.history[s]
             patched == after.lastPatch
         IN  /\ AggForm(after)
             /\ \A t \in Symbols \ {s} : after.open[t] = a.open[t] /\ after.history[t] = a.history[t]
             /\ \/ Opened(tf, x, o, h, p, g, closed, patched)
                \/ Merged(tf, x, o, h, p, g, closed, patched)
                \/ Turned(tf, x, o, h, p, g, closed, patched)
                \/ Missed(tf, x, o, h, p, g, closed, patched)
                \/ Patched(tf, x, o, h, p, g, closed, patched)
<1> DEFINE o == a.open[s]
           h == a.history[s]
           b == BucketOf(tf, x)
           i == Agg(tf)!FirstHit(a, x)
           new == Agg(tf)!NewCandle(x)
<1>1. /\ x.symbol = s /\ b \in Nat /\ b = Agg(tf)!BucketStart(x.time)
      /\ o # None => o.bucket \in Nat
  BY BucketType, CandleFields DEF Arrived, BucketOf
<1>2. /\ a = [open |-> a.open, history |-> a.history,
              latePatches |-> a.latePatches, lastPatch |-> a.lastPatch]
      /\ a.open = [t \in Symbols |-> a.open[t]] /\ a.history = [t \in Symbols |-> a.history[t]]
  BY DEF AggForm
<1> HIDE DEF b
<1>3. CASE o = None
  <2>1. after = Agg(tf)!OpenFirst(a, x) /\ closed = None
    BY <1>1, <1>3 DEF Agg!Apply, Agg!ClosedBy, Agg!Opens, Agg!Merges, Agg!Closes
  <2> HIDE DEF new
  <2>2. /\ after = [open |-> [a.open EXCEPT ![s] = new], history |-> a.history,
                    latePatches |-> a.latePatches, lastPatch |-> None]
    BY <1>1, <1>2, <2>1 DEF Agg!OpenFirst, new
  <2>3. LET f == [a.open EXCEPT ![s] = new]
        IN  /\ f = [t \in Symbols |-> f[t]] /\ f[s] = new
            /\ \A t \in Symbols \ {s} : f[t] = a.open[t]
    BY <1>2, Replaced, Zenon
  <2>4. /\ AggForm(after) /\ after.open[s] = new /\ after.history = a.history /\ after.lastPatch = None
        /\ \A t \in Symbols \ {s} : after.open[t] = a.open[t]
    BY <1>2, <2>2, <2>3, FormOf
  <2>5. Opened(tf, x, o, h, after.open[s], after.history[s], closed, after.lastPatch)
    BY <1>3, <2>1, <2>4 DEF Opened, new
  <2> QED BY <2>4, <2>5
<1>4. CASE o # None /\ b = o.bucket
  <2> DEFINE m == Agg(tf)!Merge(o, x)
  <2>1. after = Agg(tf)!MergeOpen(a, x) /\ closed = None
    BY <1>1, <1>4 DEF Agg!Apply, Agg!ClosedBy, Agg!Opens, Agg!Merges, Agg!Closes
  <2> HIDE DEF m
  <2>2. /\ after = [open |-> [a.open EXCEPT ![s] = m], history |-> a.history,
                    latePatches |-> a.latePatches, lastPatch |-> None]
    BY <1>1, <1>2, <2>1 DEF Agg!MergeOpen, m
  <2>3. LET f == [a.open EXCEPT ![s] = m]
        IN  /\ f = [t \in Symbols |-> f[t]] /\ f[s] = m
            /\ \A t \in Symbols \ {s} : f[t] = a.open[t]
    BY <1>2, Replaced, Zenon
  <2>4. /\ AggForm(after) /\ after.open[s] = m /\ after.history = a.history /\ after.lastPatch = None
        /\ \A t \in Symbols \ {s} : after.open[t] = a.open[t]
    BY <1>2, <2>2, <2>3, FormOf
  <2>5. Merged(tf, x, o, h, after.open[s], after.history[s], closed, after.lastPatch)
    BY <1>4, <2>1, <2>4 DEF Merged, m, b
  <2> QED BY <2>4, <2>5
<1>5. CASE o # None /\ b > o.bucket
  <2> DEFINE c == [o EXCEPT !.closed = TRUE]
             g == Agg(tf)!PushHistory(h, c)
  <2>1. after = Agg(tf)!CloseOpen(a, x) /\ closed = c
    BY <1>1, <1>5 DEF Agg!Apply, Agg!ClosedBy, Agg!Opens, Agg!Merges, Agg!Closes, Agg!ClosedCandle
  <2> HIDE DEF new, g
  <2>2. /\ after = [open |-> [a.open EXCEPT ![s] = new], history |-> [a.history EXCEPT ![s] = g],
                    latePatches |-> a.latePatches, lastPatch |-> None]
    BY <1>1, <1>2, <2>1 DEF Agg!CloseOpen, Agg!ClosedCandle, new, g
  <2>3. LET f == [a.open EXCEPT ![s] = new]
        IN  /\ f = [t \in Symbols |-> f[t]] /\ f[s] = new
            /\ \A t \in Symbols \ {s} : f[t] = a.open[t]
    BY <1>2, Replaced, Zenon
  <2>4. LET f == [a.history EXCEPT ![s] = g]
        IN  /\ f = [t \in Symbols |-> f[t]] /\ f[s] = g
            /\ \A t \in Symbols \ {s} : f[t] = a.history[t]
    BY <1>2, Replaced, Zenon
  <2>5. /\ AggForm(after) /\ after.open[s] = new /\ after.history[s] = g /\ after.lastPatch = None
        /\ \A t \in Symbols \ {s} : after.open[t] = a.open[t] /\ after.history[t] = a.history[t]
    BY <2>2, <2>3, <2>4, FormOf
  <2>6. Turned(tf, x, o, h, after.open[s], after.history[s], closed, after.lastPatch)
    BY <1>1, <1>5, <2>1, <2>5 DEF Turned, new, g, b
  <2> QED BY <2>5, <2>6
<1>6. CASE o # None /\ b < o.bucket
  <2>1. after = Agg(tf)!PatchHistory(a, x) /\ closed = None
    BY <1>1, <1>6 DEF Agg!Apply, Agg!ClosedBy, Agg!Opens, Agg!Merges, Agg!Closes
  <2>2. Agg(tf)!Hits(a, x) = {j \in 1 .. Len(h) : h[j].bucket = b}
    BY <1>1 DEF Agg!Hits, b
  <2>3. CASE Agg(tf)!Hits(a, x) = {}
    <3>1. after = [open |-> a.open, history |-> a.history,
                   latePatches |-> a.latePatches + 1, lastPatch |-> None]
      BY <1>2, <2>1, <2>3 DEF Agg!PatchHistory
    <3>2. AggForm(after) /\ after.open = a.open /\ after.history = a.history /\ after.lastPatch = None
      BY <1>2, <3>1, FormOf
    <3>3. Missed(tf, x, o, h, after.open[s], after.history[s], closed, after.lastPatch)
      BY <1>6, <2>1, <2>2, <2>3, <3>2 DEF Missed, b
    <3> QED BY <3>2, <3>3
  <2>4. CASE Agg(tf)!Hits(a, x) # {}
    <3>1. i \in Agg(tf)!Hits(a, x)
      <4> DEFINE S == Agg(tf)!Hits(a, x)
      <4>1. S \subseteq Nat /\ S # {}
        BY <2>2, <2>4
      <4> HIDE DEF S
      <4>2. FW!Min(S) \in S /\ \A j \in S : FW!Min(S) <= j
        BY <4>1, FW!MinOfNaturals
      <4>3. i = CHOOSE k \in S : \A j \in S : k <= j
        BY DEF Agg!FirstHit, S
      <4> HIDE DEF i
      <4>4. i \in S
        BY <4>2, <4>3
      <4> QED BY <4>4 DEF S
    <3> HIDE DEF i
    <3> DEFINE m == Agg(tf)!Merge(h[i], x)
    <3>2. after = [open |-> a.open, history |-> [a.history EXCEPT ![s] = [h EXCEPT ![i] = m]],
                   latePatches |-> a.latePatches + 1, lastPatch |-> m]
      <4> HIDE DEF m
      <4>1. after = [a EXCEPT !.history[s][i] = m, !.latePatches = @ + 1, !.lastPatch = m]
        BY <1>1, <2>1, <2>4 DEF Agg!PatchHistory, i, m
      <4> QED BY <1>2, <4>1
    <3> HIDE DEF m
    <3> DEFINE g == [h EXCEPT ![i] = m]
    <3>3. LET f == [a.history EXCEPT ![s] = g]
          IN  /\ f = [t \in Symbols |-> f[t]] /\ f[s] = g
              /\ \A t \in Symbols \ {s} : f[t] = a.history[t]
      <4> HIDE DEF g
      <4> QED BY <1>2, Replaced, Zenon
    <3>4. /\ AggForm(after) /\ after.open = a.open /\ after.history[s] = g /\ after.lastPatch = m
          /\ \A t \in Symbols \ {s} : after.history[t] = a.history[t]
      <4> HIDE DEF g
      <4>1. after = [open |-> a.open, history |-> [a.history EXCEPT ![s] = g],
                     latePatches |-> a.latePatches + 1, lastPatch |-> m]
        BY <3>2 DEF g
      <4> QED BY <1>2, <3>3, <4>1, FormOf
    <3>5. i \in 1 .. Len(h) /\ h[i].bucket = b
      BY <2>2, <3>1
    <3>6. Patched(tf, x, o, h, after.open[s], after.history[s], closed, after.lastPatch)
      BY <1>6, <2>1, <3>4, <3>5 DEF Patched, m, b
    <3> QED BY <3>4, <3>6
  <2> QED BY <2>3, <2>4
<1>7. o = None \/ (o # None /\ b = o.bucket) \/ (o # None /\ b > o.bucket) \/ (o # None /\ b < o.bucket)
  BY <1>1
<1> QED BY <1>3, <1>4, <1>5, <1>6, <1>7
-----------------------------------------------------------------------------
(* What a tick does to the candles of its symbol in one timeframe.         *)

\* Between the rows base and r there is one tick more, in the bucket b.
Tallied(tf, s, o, b, base, r) ==
  /\ \A c : c.symbol = s /\ c.bucket # b /\ Exact(tf, c, base) => Exact(tf, c, r)
  /\ \A c, d : /\ c.symbol = s /\ c.bucket = b /\ Exact(tf, c, base)
               /\ d.symbol = s /\ d.bucket = b /\ d.count = c.count + 1
               => Exact(tf, d, r)
  /\ o = None \/ o.bucket < b =>
       \A d : d.symbol = s /\ d.bucket = b /\ d.count = 1 => Exact(tf, d, r)
  /\ \A m \in Nat : b <= m /\ (o # None => o.bucket <= m) =>
       \A j \in 1 .. Len(r) : IsTickOf(s, r[j]) =>
         BucketOf(tf, r[j].tick) \in Nat /\ BucketOf(tf, r[j].tick) <= m

\* The counts once the row of the tick is there.
LEMMA Counting ==
  ASSUME NEW s, NEW tf \in Nat \ {0}, NEW o, NEW h, NEW base, IsSeq(base), NEW es,
         MemoryOK(tf, s, o, h, base, es), o # None => o.bucket \in Nat,
         NEW x \in Arrived(s), NEW r, Added(base, r, TickRow(x))
  PROVE  Tallied(tf, s, o, BucketOf(tf, x), base, r)
<1> DEFINE b == BucketOf(tf, x)
<1>1. x.symbol = s /\ b \in Nat
  BY BucketType DEF Arrived
<1> HIDE DEF b
<1>2. /\ \A k : k # b => RowsOf(r, tf, s, k) = RowsOf(base, tf, s, k)
      /\ Cardinality(RowsOf(r, tf, s, b)) = Cardinality(RowsOf(base, tf, s, b)) + 1
  BY <1>1, TickRows DEF b
<1>3. ASSUME NEW c, c.symbol = s, c.bucket # b, Exact(tf, c, base) PROVE Exact(tf, c, r)
  BY <1>2, <1>3 DEF Exact
<1>4. ASSUME NEW c, NEW d, c.symbol = s, c.bucket = b, Exact(tf, c, base),
             d.symbol = s, d.bucket = b, d.count = c.count + 1
      PROVE  Exact(tf, d, r)
  BY <1>2, <1>4 DEF Exact
<1>5. ASSUME o = None \/ o.bucket < b, NEW d, d.symbol = s, d.bucket = b, d.count = 1
      PROVE  Exact(tf, d, r)
  <2>1. ASSUME NEW j \in RowsOf(base, tf, s, b) PROVE FALSE
    <3>1. j \in 1 .. Len(base) /\ IsTickOf(s, base[j]) /\ BucketOf(tf, base[j].tick) = b
      BY DEF RowsOf
    <3>2. o # None /\ b <= o.bucket
      BY <3>1 DEF MemoryOK
    <3> QED BY <1>1, <1>5, <3>2
  <2>2. Cardinality(RowsOf(base, tf, s, b)) = 0
    <3>1. RowsOf(base, tf, s, b) = {}
      BY <2>1
    <3> QED BY <3>1, FS_EmptySet
  <2>3. Cardinality(RowsOf(r, tf, s, b)) = 1
    BY <1>2, <2>2
  <2> QED BY <1>5, <2>3 DEF Exact
<1>6. ASSUME NEW m \in Nat, b <= m, o # None => o.bucket <= m,
             NEW j \in 1 .. Len(r), IsTickOf(s, r[j])
      PROVE  BucketOf(tf, r[j].tick) \in Nat /\ BucketOf(tf, r[j].tick) <= m
  <2>1. Len(base) \in Nat /\ Len(r) = Len(base) + 1
    BY LenOfSeq DEF Added
  <2>2. CASE j = Len(base) + 1
    <3>1. r[j].tick = x
      BY <2>2 DEF Added, TickRow
    <3> QED BY <1>1, <1>6, <3>1 DEF b
  <2>3. CASE j # Len(base) + 1
    <3>1. j \in 1 .. Len(base)
      BY <2>1, <2>3
    <3>2. r[j] = base[j]
      BY <3>1 DEF Added
    <3>3. o # None /\ BucketOf(tf, base[j].tick) \in Nat /\ BucketOf(tf, base[j].tick) <= o.bucket
      BY <1>6, <3>1, <3>2 DEF MemoryOK
    <3>4. o.bucket \in Nat /\ o.bucket <= m
      BY <1>6, <3>3
    <3> QED BY <3>2, <3>3, <3>4
  <2> QED BY <2>2, <2>3
<1> QED BY <1>3, <1>4, <1>5, <1>6 DEF b, Tallied

\* What a step hands out counts what it should.
HandedOut(s, tf, c, r) == c # None => c \in Candle(s) /\ Exact(tf, c, r)

\* A step whose history stays.
LEMMA SameHistory ==
  ASSUME NEW s \in Symbols, NEW tf \in Nat \ {0}, NEW o, NEW h, NEW base, IsSeq(base), NEW es, IsSeq(es),
         MemoryOK(tf, s, o, h, base, es), NEW x \in Arrived(s), NEW r, Added(base, r, TickRow(x)),
         NEW p, NEW et, Announces(es, tf, None, None, p, et),
         \/ Opened(tf, x, o, h, p, h, None, None)
         \/ Merged(tf, x, o, h, p, h, None, None)
         \/ Missed(tf, x, o, h, p, h, None, None)
  PROVE  p \in Candle(s) /\ MemoryOK(tf, s, p, h, r, et)
<1> DEFINE b == BucketOf(tf, x)
<1>1. /\ b \in Nat /\ o \in Candle(s) \cup {None} /\ h \in Seq(Candle(s))
      /\ o # None => o \in Candle(s) /\ o.bucket \in Nat /\ o.symbol = s
  BY BucketType, CandleFields DEF MemoryOK
<1>0. Tallied(tf, s, o, b, base, r)
  BY <1>1, Counting
<1>2. \A i \in 1 .. Len(h) : h[i] \in Candle(s) /\ h[i].symbol = s /\ h[i].bucket \in Nat
  BY <1>1, CandleFields
<1>3. /\ p \in Candle(s) /\ p # None /\ p.symbol = s /\ p.bucket \in Nat /\ b <= p.bucket
      /\ Exact(tf, p, r)
      /\ o # None => o.bucket <= p.bucket
      /\ \A i \in 1 .. Len(h) : h[i].bucket # b /\ h[i].bucket < p.bucket
  <2>1. CASE Opened(tf, x, o, h, p, h, None, None)
    <3>1. o = None /\ p \in Candle(s) /\ p.bucket = b /\ p.count = 1
      BY <2>1, NewCandleOf DEF Opened
    <3>2. Len(h) = 0
      BY <3>1 DEF MemoryOK
    <3>3. p # None /\ p.symbol = s
      BY <3>1, CandleFields
    <3>4. Exact(tf, p, r)
      BY <1>1, <3>1, <3>3, <1>0 DEF Tallied
    <3> QED BY <1>1, <3>1, <3>2, <3>3, <3>4
  <2>2. CASE Merged(tf, x, o, h, p, h, None, None)
    <3>1. o # None /\ o.bucket = b /\ p \in Candle(s) /\ p.bucket = b /\ p.count = o.count + 1
      BY <1>1, <2>2, MergeOf DEF Merged
    <3>2. p # None /\ p.symbol = s /\ Exact(tf, o, base) /\ \A i \in 1 .. Len(h) : h[i].bucket < o.bucket
      BY <3>1, CandleFields DEF MemoryOK
    <3>3. Exact(tf, p, r)
      BY <1>1, <3>1, <3>2, <1>0 DEF Tallied
    <3> HIDE DEF b
    <3>4. \A i \in 1 .. Len(h) : h[i].bucket # b /\ h[i].bucket < p.bucket
      BY <1>1, <1>2, <3>1, <3>2
    <3> QED BY <1>1, <3>1, <3>2, <3>3, <3>4
  <2>3. CASE Missed(tf, x, o, h, p, h, None, None)
    <3>1. o # None /\ b < o.bucket /\ p = o /\ \A i \in 1 .. Len(h) : h[i].bucket # b
      BY <2>3 DEF Missed
    <3>2. Exact(tf, o, base) /\ \A i \in 1 .. Len(h) : h[i].bucket < o.bucket
      BY <3>1 DEF MemoryOK
    <3>3. o.bucket # b
      BY <1>1, <3>1
    <3>4. Exact(tf, p, r)
      BY <1>1, <3>1, <3>2, <3>3, <1>0 DEF Tallied
    <3> QED BY <1>1, <3>1, <3>2, <3>4
  <2> QED BY <2>1, <2>2, <2>3
<1>4. /\ Told(et, tf, p)
      /\ \A c : Told(es, tf, c) /\ c.bucket # p.bucket => Told(et, tf, c)
  BY <1>3, Announced DEF Elsewhere
<1>5. \A j \in 1 .. Len(r) : IsTickOf(s, r[j]) =>
        BucketOf(tf, r[j].tick) \in Nat /\ BucketOf(tf, r[j].tick) <= p.bucket
  BY <1>1, <1>3, <1>0 DEF Tallied
<1>6. ASSUME NEW i \in 1 .. Len(h) PROVE Told(et, tf, h[i]) /\ Exact(tf, h[i], r)
  <2>1. Told(es, tf, h[i]) /\ Exact(tf, h[i], base)
    BY DEF MemoryOK
  <2>2. h[i].symbol = s /\ h[i].bucket # b /\ h[i].bucket # p.bucket
    BY <1>2, <1>3
  <2>3. Exact(tf, h[i], r)
    BY <1>1, <2>1, <2>2, <1>0 DEF Tallied
  <2> QED BY <1>4, <2>1, <2>2, <2>3
<1> HIDE DEF b
<1>7. MemoryOK(tf, s, p, h, r, et)
  BY <1>1, <1>3, <1>4, <1>5, <1>6 DEF MemoryOK
<1> QED BY <1>3, <1>7

\* The bucket turns: what was open joins the history.
LEMMA TurnedHistory ==
  ASSUME NEW s \in Symbols, NEW tf \in Nat \ {0}, NEW o, NEW h, NEW base, IsSeq(base), NEW es, IsSeq(es),
         MemoryOK(tf, s, o, h, base, es), NEW x \in Arrived(s), NEW r, Added(base, r, TickRow(x)),
         NEW p, NEW g, NEW closed, NEW et, Announces(es, tf, closed, None, p, et),
         Turned(tf, x, o, h, p, g, closed, None)
  PROVE  p \in Candle(s) /\ MemoryOK(tf, s, p, g, r, et) /\ HandedOut(s, tf, closed, r)
<1> DEFINE b == BucketOf(tf, x)
<1>1. /\ b \in Nat /\ o \in Candle(s) /\ h \in Seq(Candle(s))
      /\ o # None /\ o.bucket \in Nat /\ o.symbol = s /\ o.bucket < b
      /\ Exact(tf, o, base)
  BY BucketType, CandleFields DEF MemoryOK, Turned
<1>0. Tallied(tf, s, o, b, base, r)
  BY <1>1, Counting
<1>2. \A i \in 1 .. Len(h) : /\ h[i] \in Candle(s) /\ h[i].symbol = s /\ h[i].bucket \in Nat
                             /\ h[i].bucket < o.bucket
                             /\ Told(es, tf, h[i]) /\ Exact(tf, h[i], base)
  BY <1>1, CandleFields DEF MemoryOK
<1>3. p \in Candle(s) /\ p # None /\ p.symbol = s /\ p.bucket = b /\ p.count = 1
  BY NewCandleOf, CandleFields DEF Turned
<1>4. /\ closed \in Candle(s) /\ closed # None /\ closed.symbol = s
      /\ closed.bucket = o.bucket /\ closed.count = o.count
  BY <1>1, ClosedOf, CandleFields DEF Turned
<1> DEFINE T == Candle(s)
<1>15. h \in Seq(T) /\ closed \in T /\ g = Agg(tf)!PushHistory(h, closed)
  BY <1>1, <1>4 DEF Turned
<1> HIDE DEF T
<1>16. g \in Seq(T) /\ Pushed(h, closed, g)
  BY <1>15, PushOf
<1>5. PICK d \in {0, 1} : \A i \in 1 .. Len(g) :
        /\ i + d \in 1 .. Len(h) + 1
        /\ g[i] = IF i + d = Len(h) + 1 THEN closed ELSE h[i + d]
  BY <1>16 DEF Pushed
<1>6. g \in Seq(Candle(s))
  BY <1>16 DEF T
<1>7. Exact(tf, p, r) /\ Exact(tf, closed, r)
  <2>1. Exact(tf, closed, base)
    BY <1>1, <1>4 DEF Exact
  <2>2. closed.bucket # b
    BY <1>1, <1>4
  <2> QED BY <1>1, <1>3, <1>4, <2>1, <2>2, <1>0 DEF Tallied
<1> HIDE DEF b
<1>8. /\ Told(et, tf, p) /\ Told(et, tf, closed)
      /\ \A c : Told(es, tf, c) /\ c.bucket # p.bucket /\ c.bucket # closed.bucket => Told(et, tf, c)
  <2>1. closed.bucket # p.bucket
    BY <1>1, <1>3, <1>4
  <2> QED BY <1>3, <1>4, <2>1, Announced DEF Elsewhere
<1>9. \A j \in 1 .. Len(r) : IsTickOf(s, r[j]) =>
        BucketOf(tf, r[j].tick) \in Nat /\ BucketOf(tf, r[j].tick) <= p.bucket
  BY <1>1, <1>3, <1>0 DEF Tallied
<1>10. ASSUME NEW i \in 1 .. Len(h) PROVE Told(et, tf, h[i]) /\ Exact(tf, h[i], r)
  <2>1. h[i].symbol = s /\ h[i].bucket # b /\ h[i].bucket # p.bucket /\ h[i].bucket # closed.bucket
    BY <1>1, <1>2, <1>3, <1>4
  <2>2. Exact(tf, h[i], r)
    BY <1>1, <1>2, <2>1, <1>0 DEF Tallied
  <2> QED BY <1>2, <1>8, <2>1, <2>2
<1>11. Len(h) \in Nat /\ Len(g) \in Nat
  BY <1>1, <1>6
<1>12. ASSUME NEW i \in 1 .. Len(g)
       PROVE  Told(et, tf, g[i]) /\ Exact(tf, g[i], r) /\ g[i].bucket < p.bucket
  <2>1. CASE i + d = Len(h) + 1
    BY <1>1, <1>3, <1>4, <1>5, <1>7, <1>8, <2>1
  <2>2. CASE i + d # Len(h) + 1
    <3>1. i + d \in 1 .. Len(h) /\ g[i] = h[i + d]
      BY <1>5, <1>11, <2>2
    <3>2. h[i + d].bucket < p.bucket
      BY <1>1, <1>2, <1>3, <3>1
    <3> QED BY <1>10, <3>1, <3>2
  <2> QED BY <2>1, <2>2
<1>13. ASSUME NEW i \in 1 .. Len(g), NEW j \in 1 .. Len(g), i < j
       PROVE  g[i].bucket < g[j].bucket
  <2>1. i + d \in 1 .. Len(h) /\ g[i] = h[i + d] /\ i + d < j + d
    <3>1. i + d < j + d /\ i + d \in 1 .. Len(h) + 1 /\ j + d \in 1 .. Len(h) + 1
      BY <1>5, <1>13
    <3>2. i + d \in 1 .. Len(h) /\ i + d # Len(h) + 1
      BY <1>11, <3>1
    <3> QED BY <1>5, <3>1, <3>2
  <2>2. CASE j + d = Len(h) + 1
    BY <1>2, <1>4, <1>5, <2>1, <2>2
  <2>3. CASE j + d # Len(h) + 1
    <3>1. j + d \in 1 .. Len(h) /\ g[j] = h[j + d]
      BY <1>5, <1>11, <2>3
    <3> QED BY <2>1, <3>1 DEF MemoryOK
  <2> QED BY <2>2, <2>3
<1>14. MemoryOK(tf, s, p, g, r, et)
  BY <1>3, <1>6, <1>7, <1>8, <1>9, <1>12, <1>13 DEF MemoryOK
<1> QED BY <1>3, <1>4, <1>7, <1>14 DEF HandedOut

\* A late tick is merged into the history.
LEMMA PatchedHistory ==
  ASSUME NEW s \in Symbols, NEW tf \in Nat \ {0}, NEW o, NEW h, NEW base, IsSeq(base), NEW es, IsSeq(es),
         MemoryOK(tf, s, o, h, base, es), NEW x \in Arrived(s), NEW r, Added(base, r, TickRow(x)),
         NEW p, NEW g, NEW patched, NEW et, Announces(es, tf, None, patched, p, et),
         Patched(tf, x, o, h, p, g, None, patched)
  PROVE  p \in Candle(s) /\ MemoryOK(tf, s, p, g, r, et) /\ HandedOut(s, tf, patched, r)
<1> DEFINE b == BucketOf(tf, x)
<1>1. /\ b \in Nat /\ o \in Candle(s) /\ h \in Seq(Candle(s)) /\ p = o
      /\ o # None /\ o.bucket \in Nat /\ o.symbol = s /\ b < o.bucket
      /\ Exact(tf, o, base) /\ Told(es, tf, o)
  BY BucketType, CandleFields DEF MemoryOK, Patched
<1>0. Tallied(tf, s, o, b, base, r)
  BY <1>1, Counting
<1>2. \A i \in 1 .. Len(h) : /\ h[i] \in Candle(s) /\ h[i].symbol = s /\ h[i].bucket \in Nat
                             /\ h[i].bucket < o.bucket
                             /\ Told(es, tf, h[i]) /\ Exact(tf, h[i], base)
  BY <1>1, CandleFields DEF MemoryOK
<1>3. PICK n \in 1 .. Len(h) : /\ h[n].bucket = b
                               /\ patched = Agg(tf)!Merge(h[n], x) /\ g = [h EXCEPT ![n] = patched]
  BY DEF Patched
<1>4. /\ patched \in Candle(s) /\ patched # None /\ patched.symbol = s /\ patched.bucket = b
      /\ patched.count = h[n].count + 1
  BY <1>2, <1>3, MergeOf, CandleFields
<1>5. Exact(tf, p, r) /\ Exact(tf, patched, r)
  <2>1. o.bucket # b
    BY <1>1
  <2>2. h[n].symbol = s /\ Exact(tf, h[n], base)
    BY <1>2
  <2>3. Exact(tf, o, r)
    BY <1>1, <2>1, <1>0 DEF Tallied
  <2>4. Exact(tf, patched, r)
    BY <1>1, <1>3, <1>4, <2>2, <1>0 DEF Tallied
  <2> QED BY <1>1, <2>3, <2>4
<1> HIDE DEF b
<1>6. /\ Told(et, tf, p) /\ Told(et, tf, patched)
      /\ \A c : Told(es, tf, c) /\ c.bucket # p.bucket /\ c.bucket # patched.bucket => Told(et, tf, c)
  <2>1. patched.bucket # p.bucket
    BY <1>1, <1>4
  <2> QED BY <1>1, <1>4, <2>1, Announced DEF Elsewhere
<1>7. \A j \in 1 .. Len(r) : IsTickOf(s, r[j]) =>
        BucketOf(tf, r[j].tick) \in Nat /\ BucketOf(tf, r[j].tick) <= p.bucket
  BY <1>1, <1>0 DEF Tallied
<1>8. Len(h) \in Nat /\ g \in Seq(Candle(s)) /\ Len(g) = Len(h)
      /\ \A i \in 1 .. Len(h) : g[i] = IF i = n THEN patched ELSE h[i]
  BY <1>1, <1>3, <1>4
<1>9. \A i, j \in 1 .. Len(h) : i < j => h[i].bucket < h[j].bucket
  BY DEF MemoryOK
<1>10. \A i \in 1 .. Len(h) : g[i].bucket = h[i].bucket
  BY <1>3, <1>4, <1>8
<1>11. ASSUME NEW i \in 1 .. Len(h) PROVE Told(et, tf, g[i]) /\ Exact(tf, g[i], r)
  <2>1. CASE i = n
    BY <1>5, <1>6, <1>8, <2>1
  <2>2. CASE i # n
    <3>1. h[i].bucket # b
      <4>1. i \in Int /\ n \in Int /\ h[i].bucket \in Nat /\ h[n].bucket \in Nat
        BY <1>2
      <4>2. i < n => h[i].bucket < h[n].bucket
        BY <1>9
      <4>3. n < i => h[n].bucket < h[i].bucket
        BY <1>9
      <4> QED BY <1>3, <2>2, <4>1, <4>2, <4>3
    <3>2. h[i].symbol = s /\ h[i].bucket # p.bucket /\ h[i].bucket # patched.bucket
      BY <1>1, <1>2, <1>4, <3>1
    <3>3. Exact(tf, h[i], r)
      BY <1>1, <1>2, <3>1, <3>2, <1>0 DEF Tallied
    <3>4. Told(et, tf, h[i])
      BY <1>2, <1>6, <3>2
    <3> QED BY <1>8, <2>2, <3>3, <3>4
  <2> QED BY <2>1, <2>2
<1>12. /\ \A i, j \in 1 .. Len(g) : i < j => g[i].bucket < g[j].bucket
       /\ \A i \in 1 .. Len(g) : g[i].bucket < p.bucket
  BY <1>1, <1>2, <1>8, <1>9, <1>10
<1>13. MemoryOK(tf, s, p, g, r, et)
  BY <1>1, <1>5, <1>6, <1>7, <1>8, <1>11, <1>12 DEF MemoryOK
<1> QED BY <1>1, <1>4, <1>5, <1>13 DEF HandedOut
-----------------------------------------------------------------------------
(* Everything a tick leaves alone, and all timeframes of it.               *)

\* The candles of t stay as they are when no tick of t and no event about
\* its candles comes in.
LEMMA MemoryStays ==
  ASSUME NEW t \in Symbols, NEW tf, NEW o, NEW h, NEW base, NEW es, MemoryOK(tf, t, o, h, base, es),
         NEW r, NEW et,
         \A c : c.symbol = t /\ Told(es, tf, c) => Told(et, tf, c),
         \A b : RowsOf(r, tf, t, b) = RowsOf(base, tf, t, b),
         \A j \in 1 .. Len(r) : IsTickOf(t, r[j]) => j \in 1 .. Len(base) /\ r[j] = base[j]
  PROVE  MemoryOK(tf, t, o, h, r, et)
<1>1. /\ o \in Candle(t) \cup {None} /\ h \in Seq(Candle(t))
      /\ \A i, j \in 1 .. Len(h) : i < j => h[i].bucket < h[j].bucket
  BY DEF MemoryOK
<1>2. ASSUME NEW c \in Candle(t), Told(es, tf, c), Exact(tf, c, base)
      PROVE  Told(et, tf, c) /\ Exact(tf, c, r)
  <2>1. c.symbol = t
    BY DEF Candle
  <2> QED BY <1>2, <2>1 DEF Exact
<1>3. ASSUME NEW i \in 1 .. Len(h) PROVE Told(et, tf, h[i]) /\ Exact(tf, h[i], r)
  <2>1. h[i] \in Candle(t)
    BY <1>1
  <2>2. Told(es, tf, h[i]) /\ Exact(tf, h[i], base)
    BY DEF MemoryOK
  <2> QED BY <1>2, <2>1, <2>2
<1>4. ASSUME o = None PROVE Len(h) = 0 /\ \A j \in 1 .. Len(r) : ~IsTickOf(t, r[j])
  BY <1>4 DEF MemoryOK
<1>5. ASSUME o # None
      PROVE  /\ Told(et, tf, o) /\ Exact(tf, o, r)
             /\ \A i \in 1 .. Len(h) : h[i].bucket < o.bucket
             /\ \A j \in 1 .. Len(r) : IsTickOf(t, r[j]) =>
                  BucketOf(tf, r[j].tick) \in Nat /\ BucketOf(tf, r[j].tick) <= o.bucket
  <2>1. /\ Told(es, tf, o) /\ Exact(tf, o, base)
        /\ \A i \in 1 .. Len(h) : h[i].bucket < o.bucket
        /\ \A j \in 1 .. Len(base) : IsTickOf(t, base[j]) =>
             BucketOf(tf, base[j].tick) \in Nat /\ BucketOf(tf, base[j].tick) <= o.bucket
    BY <1>5 DEF MemoryOK
  <2>2. Told(et, tf, o) /\ Exact(tf, o, r)
    BY <1>1, <1>2, <1>5, <2>1
  <2>3. ASSUME NEW j \in 1 .. Len(r), IsTickOf(t, r[j])
        PROVE  BucketOf(tf, r[j].tick) \in Nat /\ BucketOf(tf, r[j].tick) <= o.bucket
    <3>1. j \in 1 .. Len(base) /\ r[j] = base[j]
      BY <2>3
    <3> QED BY <2>1, <2>3, <3>1
  <2> QED BY <2>1, <2>2, <2>3
<1> QED BY <1>1, <1>3, <1>4, <1>5 DEF MemoryOK

\* Rows stay backed when an exact candle is recorded.
LEMMA BackedMaybe ==
  ASSUME NEW u, IsSeq(u), Backed(u), NEW c, NEW tf, c # None => Exact(tf, c, u),
         NEW v, MaybeAdded(u, c, CandleRow(tf, c), v)
  PROVE  Backed(v)
<1>1. CASE c = None
  BY <1>1, MaybeAdds
<1>2. CASE c # None
  <2>1. Added(u, v, CandleRow(tf, c))
    BY <1>2, MaybeAdds
  <2> QED BY <1>2, <2>1, BackedMore
<1> QED BY <1>1, <1>2

\* A candle that is exact stays so when rows of candles come in.
LEMMA ExactStays ==
  ASSUME NEW r, NEW q, Quiet(r, q), NEW tf, NEW c, Exact(tf, c, r)
  PROVE  Exact(tf, c, q)
BY QuietRows DEF Exact

\* The aggregator of one timeframe takes a tick of s; its events are told
\* and the candles it hands out are exact.
LEMMA AggTakes ==
  ASSUME NEW s \in Symbols, NEW x \in Arrived(s), NEW tf \in Nat \ {0},
         NEW base, IsSeq(base), NEW r, Added(base, r, TickRow(x)), NEW es, IsSeq(es),
         NEW a, AggOK(tf, a, base, es),
         NEW after, after = Agg(tf)!Apply(a, x), NEW closed, closed = Agg(tf)!ClosedBy(a, x),
         NEW patched, patched = after.lastPatch, NEW now, now = after.open[s],
         NEW et, Announces(es, tf, closed, patched, now, et),
         NEW kept, kept = Agg(tf)!TakePatch(after)
  PROVE  /\ AggOK(tf, kept, r, et)
         /\ HandedOut(s, tf, closed, r) /\ HandedOut(s, tf, patched, r)
         /\ now \in Candle(s)
<1> DEFINE o == a.open[s]
           h == a.history[s]
           g == after.history[s]
<1>1. AggForm(a) /\ MemoryOK(tf, s, o, h, base, es)
  BY DEF AggOK
<1>2. o \in Candle(s) \cup {None} /\ h \in Seq(Candle(s))
  BY <1>1 DEF MemoryOK
<1>3. /\ AggForm(after)
      /\ \A t \in Symbols \ {s} : after.open[t] = a.open[t] /\ after.history[t] = a.history[t]
      /\ \/ Opened(tf, x, o, h, now, g, closed, patched)
         \/ Merged(tf, x, o, h, now, g, closed, patched)
         \/ Turned(tf, x, o, h, now, g, closed, patched)
         \/ Missed(tf, x, o, h, now, g, closed, patched)
         \/ Patched(tf, x, o, h, now, g, closed, patched)
  <2> HIDE DEF o, h, g
  <2> QED BY <1>1, <1>2, ApplyWays DEF o, h, g
<1> HIDE DEF o, h, g
<1>4. /\ now \in Candle(s) /\ MemoryOK(tf, s, now, g, r, et)
      /\ HandedOut(s, tf, closed, r) /\ HandedOut(s, tf, patched, r)
  <2>1. CASE \/ Opened(tf, x, o, h, now, g, closed, patched)
             \/ Merged(tf, x, o, h, now, g, closed, patched)
             \/ Missed(tf, x, o, h, now, g, closed, patched)
    <3>1. g = h /\ closed = None /\ patched = None
      BY <2>1 DEF Opened, Merged, Missed
    <3>2. /\ Announces(es, tf, None, None, now, et)
          /\ \/ Opened(tf, x, o, h, now, h, None, None)
             \/ Merged(tf, x, o, h, now, h, None, None)
             \/ Missed(tf, x, o, h, now, h, None, None)
      BY <2>1, <3>1
    <3>3. now \in Candle(s) /\ MemoryOK(tf, s, now, h, r, et)
      BY <1>1, <3>2, SameHistory
    <3> QED BY <3>1, <3>3 DEF HandedOut
  <2>2. CASE Turned(tf, x, o, h, now, g, closed, patched)
    <3>1. patched = None
      BY <2>2 DEF Turned
    <3>2. Announces(es, tf, closed, None, now, et) /\ Turned(tf, x, o, h, now, g, closed, None)
      BY <2>2, <3>1
    <3>3. now \in Candle(s) /\ MemoryOK(tf, s, now, g, r, et) /\ HandedOut(s, tf, closed, r)
      BY <1>1, <3>2, TurnedHistory
    <3> QED BY <3>1, <3>3 DEF HandedOut
  <2>3. CASE Patched(tf, x, o, h, now, g, closed, patched)
    <3>1. closed = None
      BY <2>3 DEF Patched
    <3>2. Announces(es, tf, None, patched, now, et) /\ Patched(tf, x, o, h, now, g, None, patched)
      BY <2>3, <3>1
    <3>3. now \in Candle(s) /\ MemoryOK(tf, s, now, g, r, et) /\ HandedOut(s, tf, patched, r)
      BY <1>1, <3>2, PatchedHistory
    <3> QED BY <3>1, <3>3 DEF HandedOut
  <2> QED BY <1>3, <2>1, <2>2, <2>3
<1>5. now # None /\ now.symbol = s
  BY <1>4, CandleFields
<1>6. \A c : c.symbol # s /\ Told(es, tf, c) => Told(et, tf, c)
  <2>1. /\ closed # None => closed.symbol = s
        /\ patched # None => patched.symbol = s
    BY <1>4, CandleFields DEF HandedOut
  <2> QED BY <1>5, <2>1, Announced DEF Elsewhere
<1>7. ASSUME NEW t \in Symbols \ {s} PROVE MemoryOK(tf, t, after.open[t], after.history[t], r, et)
  <2>1. MemoryOK(tf, t, a.open[t], a.history[t], base, es)
    BY DEF AggOK
  <2>2. x.symbol = s
    BY DEF Arrived
  <2>3. \A b : RowsOf(r, tf, t, b) = RowsOf(base, tf, t, b)
    BY <2>2, TickRows
  <2>4. ASSUME NEW j \in 1 .. Len(r), IsTickOf(t, r[j]) PROVE j \in 1 .. Len(base) /\ r[j] = base[j]
    <3>1. Len(base) \in Nat /\ Len(r) = Len(base) + 1
      BY LenOfSeq DEF Added
    <3>2. ~IsTickOf(t, r[Len(base) + 1])
      BY <2>2 DEF Added, IsTickOf, TickRow
    <3>3. j \in 1 .. Len(base)
      BY <2>4, <3>1, <3>2
    <3> QED BY <3>3 DEF Added
  <2>5. \A c : c.symbol = t /\ Told(es, tf, c) => Told(et, tf, c)
    BY <1>6
  <2>6. MemoryOK(tf, t, a.open[t], a.history[t], r, et)
    BY <2>1, <2>3, <2>4, <2>5, MemoryStays
  <2> QED BY <1>3, <2>6
<1>8. AggForm(kept) /\ kept.open = after.open /\ kept.history = after.history
  <2>1. kept = [after EXCEPT !.lastPatch = None]
    BY DEF Agg!TakePatch
  <2>2. /\ after = [open |-> after.open, history |-> after.history,
                    latePatches |-> after.latePatches, lastPatch |-> after.lastPatch]
        /\ after.open = [t \in Symbols |-> after.open[t]]
        /\ after.history = [t \in Symbols |-> after.history[t]]
    BY <1>3 DEF AggForm
  <2>3. kept = [open |-> after.open, history |-> after.history,
                latePatches |-> after.latePatches, lastPatch |-> None]
    BY <2>1, <2>2
  <2> QED BY <2>2, <2>3, FormOf
<1>9. ASSUME NEW t \in Symbols PROVE MemoryOK(tf, t, kept.open[t], kept.history[t], r, et)
  BY <1>4, <1>7, <1>8 DEF g
<1> QED BY <1>4, <1>8, <1>9 DEF AggOK

\* Half way through the timeframes, for the tick whose row is the last of r:
\* the first k timeframes have taken it.
Halfway(p, x, base, r, k) ==
  /\ BatchFields(p) /\ p.tick = x /\ p.aggs = [tf \in FrameSet |-> p.aggs[tf]]
  /\ Quiet(r, p.rows) /\ Backed(p.rows) /\ IsSeq(p.events)
  /\ \A i \in 1 .. Len(Timeframes) :
       AggOK(Timeframes[i], p.aggs[Timeframes[i]], IF i <= k THEN r ELSE base, p.events)

\* Events of one timeframe take nothing back in another.
LEMMA OtherFrame ==
  ASSUME NEW tf, NEW a, NEW r, IsSeq(r), NEW es, AggOK(tf, a, r, es), NEW et,
         \A c : Told(es, tf, c) => Told(et, tf, c)
  PROVE  AggOK(tf, a, r, et)
<1>1. ASSUME NEW t \in Symbols PROVE MemoryOK(tf, t, a.open[t], a.history[t], r, et)
  <2>1. MemoryOK(tf, t, a.open[t], a.history[t], r, es)
    BY DEF AggOK
  <2> QED BY <2>1, MemoryStays
<1> QED BY <1>1 DEF AggOK

\* Rows of candles leave an aggregator's candles exact.
LEMMA AggStays ==
  ASSUME NEW tf, NEW a, NEW r, NEW q, Quiet(r, q), NEW es, AggOK(tf, a, r, es)
  PROVE  AggOK(tf, a, q, es)
<1>1. ASSUME NEW t \in Symbols PROVE MemoryOK(tf, t, a.open[t], a.history[t], q, es)
  <2>1. MemoryOK(tf, t, a.open[t], a.history[t], r, es)
    BY DEF AggOK
  <2>2. /\ \A b : RowsOf(q, tf, t, b) = RowsOf(r, tf, t, b)
        /\ \A j \in 1 .. Len(q) : IsTickOf(t, q[j]) => j \in 1 .. Len(r) /\ q[j] = r[j]
    BY QuietRows
  <2> QED BY <2>1, <2>2, MemoryStays
<1> QED BY <1>1 DEF AggOK

\* What ApplyFrame puts in its record.
LEMMA FrameParts ==
  ASSUME NEW p, BatchFields(p), NEW tf, NEW q, q = ApplyFrame(p, tf)
  PROVE  LET after  == Agg(tf)!Apply(p.aggs[tf], p.tick)
             closed == Agg(tf)!ClosedBy(p.aggs[tf], p.tick)
         IN  /\ BatchFields(q) /\ q.tick = p.tick
             /\ q.aggs = [p.aggs EXCEPT ![tf] = Agg(tf)!TakePatch(after)]
             /\ \E r1 : /\ MaybeAdded(p.rows, closed, CandleRow(tf, closed), r1)
                        /\ MaybeAdded(r1, after.lastPatch, CandleRow(tf, after.lastPatch), q.rows)
             /\ Announces(p.events, tf, closed, after.lastPatch, after.open[p.tick.symbol], q.events)
<1> DEFINE after == Agg(tf)!Apply(p.aggs[tf], p.tick)
           closed == Agg(tf)!ClosedBy(p.aggs[tf], p.tick)
           patched == after.lastPatch
           now == after.open[p.tick.symbol]
           as == [p.aggs EXCEPT ![tf] = Agg(tf)!TakePatch(after)]
           r1 == p.rows \o IfAny(closed, CandleRow(tf, closed))
           r2 == r1 \o IfAny(patched, CandleRow(tf, patched))
           e1 == p.events \o IfAny(closed, Event("candle_closed", tf, closed))
           e2 == e1 \o IfAny(patched, Event("candle_patched", tf, patched))
           e3 == e2 \o IfAny(now, Event("candle_update", tf, now))
<1>1. Framed(p, as, r2, e3, q)
  BY Zenon DEF ApplyFrame, Framed
<1>2. /\ MaybeAdded(p.rows, closed, CandleRow(tf, closed), r1)
      /\ MaybeAdded(r1, patched, CandleRow(tf, patched), r2)
  BY DEF MaybeAdded
<1>3. Announces(p.events, tf, closed, patched, now, e3)
  <2>1. /\ MaybeAdded(p.events, closed, Event("candle_closed", tf, closed), e1)
        /\ MaybeAdded(e1, patched, Event("candle_patched", tf, patched), e2)
        /\ MaybeAdded(e2, now, Event("candle_update", tf, now), e3)
    BY DEF MaybeAdded
  <2> HIDE DEF e1, e2, e3, closed, patched, now
  <2> QED BY <2>1 DEF Announces
<1>4. as = [p.aggs EXCEPT ![tf] = Agg(tf)!TakePatch(after)]
  OBVIOUS
<1> HIDE DEF after, closed, patched, now, as, r1, r2, e1, e2, e3
<1>5. BatchFields(q) /\ q.rows = r2 /\ q.aggs = as /\ q.events = e3 /\ q.tick = p.tick
  <2>1. ASSUME NEW a, NEW r, NEW e, Framed(p, a, r, e, q)
        PROVE  BatchFields(q) /\ q.rows = r /\ q.aggs = a /\ q.events = e /\ q.tick = p.tick
    BY <2>1, FramedFields
  <2> QED BY <1>1, <2>1
<1>6. \E u : /\ MaybeAdded(p.rows, closed, CandleRow(tf, closed), u)
            /\ MaybeAdded(u, patched, CandleRow(tf, patched), q.rows)
  BY <1>2, <1>5
<1>7. Announces(p.events, tf, closed, patched, now, q.events)
  BY <1>3, <1>5
<1>8. q.aggs = [p.aggs EXCEPT ![tf] = Agg(tf)!TakePatch(after)]
  BY <1>4, <1>5
<1> QED BY <1>5, <1>6, <1>7, <1>8, Zenon DEF after, closed, patched, now

\* One timeframe more.
LEMMA HalfwayStep ==
  ASSUME NEW s \in Symbols, NEW x \in Arrived(s), NEW base, IsSeq(base),
         NEW r, Added(base, r, TickRow(x)), NEW k \in 0 .. Len(Timeframes) - 1,
         NEW p, Halfway(p, x, base, r, k), NEW q, q = ApplyFrame(p, Timeframes[k + 1])
  PROVE  Halfway(q, x, base, r, k + 1)
<1> DEFINE tf == Timeframes[k + 1]
           a == p.aggs[tf]
           after == Agg(tf)!Apply(a, x)
           closed == Agg(tf)!ClosedBy(a, x)
           patched == after.lastPatch
           now == after.open[s]
           kept == Agg(tf)!TakePatch(after)
<1>1. /\ Timeframes \in Seq(Nat \ {0}) /\ Len(Timeframes) \in Nat /\ k \in Nat
      /\ k + 1 \in 1 .. Len(Timeframes) /\ ~(k + 1 <= k)
      /\ tf \in Nat \ {0} /\ tf \in FrameSet /\ DOMAIN Timeframes = 1 .. Len(Timeframes)
  BY Constants DEF FrameSet
<1>2. /\ BatchFields(p) /\ p.tick = x /\ p.aggs = [f \in FrameSet |-> p.aggs[f]]
      /\ Quiet(r, p.rows) /\ Backed(p.rows) /\ IsSeq(p.rows) /\ IsSeq(p.events) /\ IsSeq(r)
      /\ AggOK(tf, a, base, p.events)
  BY <1>1 DEF Halfway, Quiet, Grown
<1>3. x.symbol = s
  BY DEF Arrived
<1> HIDE DEF tf
<1>4. PICK r1 : /\ BatchFields(q) /\ q.tick = x /\ q.aggs = [p.aggs EXCEPT ![tf] = kept]
                /\ MaybeAdded(p.rows, closed, CandleRow(tf, closed), r1)
                /\ MaybeAdded(r1, patched, CandleRow(tf, patched), q.rows)
                /\ Announces(p.events, tf, closed, patched, now, q.events)
  <2>1. q = ApplyFrame(p, tf)
    BY DEF tf
  <2> QED BY <1>2, <1>3, <2>1, FrameParts
<1>5. /\ after = Agg(tf)!Apply(a, x) /\ closed = Agg(tf)!ClosedBy(a, x)
      /\ patched = after.lastPatch /\ now = after.open[s] /\ kept = Agg(tf)!TakePatch(after)
  OBVIOUS
<1> HIDE DEF a, after, closed, patched, now, kept
<1>10. /\ AggOK(tf, kept, r, q.events) /\ now \in Candle(s)
      /\ HandedOut(s, tf, closed, r) /\ HandedOut(s, tf, patched, r)
  <2> DEFINE es == p.events
             et == q.events
  <2>1. AggOK(tf, a, base, es) /\ IsSeq(es) /\ Announces(es, tf, closed, patched, now, et)
    BY <1>2, <1>4
  <2>2. tf \in Nat \ {0}
    BY <1>1
  <2> HIDE DEF es, et
  <2>3. AggOK(tf, kept, r, et) /\ HandedOut(s, tf, closed, r) /\ HandedOut(s, tf, patched, r) /\ now \in Candle(s)
    BY <1>5, <2>1, <2>2, AggTakes
  <2> QED BY <2>3 DEF et
<1>6. Quiet(r, q.rows) /\ Backed(q.rows)
  <2>1. closed # None => Exact(tf, closed, p.rows)
    BY <1>2, <1>10, ExactStays DEF HandedOut
  <2>2. Backed(r1)
    BY <1>2, <1>4, <2>1, BackedMaybe
  <2>3. Quiet(p.rows, r1)
    BY <1>2, <1>4, CandleRowQuiet
  <2>8. IsSeq(r1)
    BY <2>3 DEF Quiet, Grown
  <2>4. IsSeq(r1) /\ Quiet(r, r1)
    BY <1>2, <2>3, <2>8, QuietAfter
  <2>5. patched # None => Exact(tf, patched, r1)
    BY <1>10, <2>4, ExactStays DEF HandedOut
  <2>6. Backed(q.rows)
    BY <1>4, <2>2, <2>4, <2>5, BackedMaybe
  <2>7. Quiet(r1, q.rows)
    BY <1>4, <2>4, CandleRowQuiet
  <2> QED BY <2>4, <2>6, <2>7, QuietAfter
<1>7. IsSeq(q.events) /\ \A f, c : f # tf /\ Told(p.events, f, c) => Told(q.events, f, c)
  <2>1. now # None
    BY <1>10, CandleFields
  <2> QED BY <1>2, <1>4, <2>1, Announced DEF Elsewhere
<1>8. /\ q.aggs = [f \in FrameSet |-> q.aggs[f]] /\ q.aggs[tf] = kept
      /\ \A f \in FrameSet \ {tf} : q.aggs[f] = p.aggs[f]
  <2> DEFINE as == p.aggs
  <2>1. as = [f \in FrameSet |-> as[f]] /\ q.aggs = [as EXCEPT ![tf] = kept]
    BY <1>2, <1>4
  <2> HIDE DEF as
  <2>2. /\ q.aggs = [f \in FrameSet |-> q.aggs[f]] /\ q.aggs[tf] = kept
        /\ \A f \in FrameSet \ {tf} : q.aggs[f] = as[f]
    BY <1>1, <2>1
  <2> QED BY <2>2 DEF as
<1>9. ASSUME NEW i \in 1 .. Len(Timeframes)
      PROVE  AggOK(Timeframes[i], q.aggs[Timeframes[i]], IF i <= k + 1 THEN r ELSE base, q.events)
  <2>1. CASE i = k + 1
    <3>1. Timeframes[i] = tf /\ i <= k + 1
      BY <1>1, <2>1 DEF tf
    <3> QED BY <1>10, <1>8, <3>1
  <2>2. CASE i # k + 1
    <3> DEFINE f == Timeframes[i]
               v == IF i <= k THEN r ELSE base
    <3>1. f # tf /\ f \in FrameSet
      BY <1>1, <2>2, PipelineAssumption DEF tf, FrameSet
    <3>2. (i <= k + 1) <=> (i <= k)
      BY <1>1, <2>2
    <3>3. AggOK(f, p.aggs[f], v, p.events) /\ IsSeq(v)
      BY <1>2 DEF Halfway
    <3>4. v = IF i <= k + 1 THEN r ELSE base
      BY <3>2
    <3> HIDE DEF f, v
    <3>5. AggOK(f, p.aggs[f], v, q.events)
      BY <1>7, <3>1, <3>3, OtherFrame
    <3>6. AggOK(f, q.aggs[f], v, q.events)
      BY <1>8, <3>1, <3>5
    <3> QED BY <3>4, <3>6 DEF f
  <2> QED BY <2>1, <2>2
<1> QED BY <1>4, <1>6, <1>7, <1>8, <1>9 DEF Halfway
-----------------------------------------------------------------------------
(* A tick, a batch and a step keep what is said of the candles.             *)

\* All timeframes, one after another.
LEMMA AllFrames ==
  ASSUME NEW s \in Symbols, NEW x \in Arrived(s), NEW base, IsSeq(base),
         NEW r, Added(base, r, TickRow(x)), NEW p, Halfway(p, x, base, r, 0)
  PROVE  Halfway(FoldLeft(ApplyFrame, p, Timeframes), x, base, r, Len(Timeframes))
<1> DEFINE q == FoldLeft(ApplyFrame, p, Timeframes)
<1>1. q = FF!Fold(p, Timeframes)
  BY DEF FoldLeft, MapThenFoldSet, Max, FF!Fold, FF!FoldLeft, FF!MapThenFoldSet, FF!Max
<1>2. Timeframes \in Seq(Nat \ {0}) /\ Len(Timeframes) \in Nat
  BY Constants
<1>3. PICK h : FF!Passes(p, Timeframes, h) /\ h[Len(Timeframes)] = q
  BY <1>1, <1>2, FF!FoldPasses
<1> HIDE DEF q
<1> DEFINE S == {k \in 0 .. Len(Timeframes) : Halfway(h[k], x, base, r, k)}
<1>4. 0 \in S
  BY <1>2, <1>3 DEF FF!Passes
<1>5. ASSUME NEW k \in 0 .. Len(Timeframes) - 1, k \in S PROVE k + 1 \in S
  <2>1. k + 1 \in 1 .. Len(Timeframes) /\ (k + 1) - 1 = k /\ k + 1 \in 0 .. Len(Timeframes)
    BY <1>2
  <2>2. h[k + 1] = ApplyFrame(h[k], Timeframes[k + 1])
    BY <1>3, <2>1 DEF FF!Passes
  <2>3. Halfway(h[k], x, base, r, k)
    BY <1>5
  <2>4. Halfway(h[k + 1], x, base, r, k + 1)
    BY <2>2, <2>3, HalfwayStep
  <2> QED BY <2>1, <2>4
<1>6. 0 .. Len(Timeframes) \subseteq S
  <2> HIDE DEF S
  <2> QED BY <1>2, <1>4, <1>5, FF!BoundedInduction
<1>7. Halfway(h[Len(Timeframes)], x, base, r, Len(Timeframes))
  BY <1>2, <1>6
<1> QED BY <1>3, <1>7 DEF q

\* The candles of all timeframes, and the rows.
CandlesOK(as, rs, es) ==
  /\ IsSeq(rs) /\ IsSeq(es) /\ Backed(rs) /\ as = [tf \in FrameSet |-> as[tf]]
  /\ \A tf \in FrameSet : AggOK(tf, as[tf], rs, es)

BatchGood(p) == BatchFields(p) /\ CandlesOK(p.aggs, p.rows, p.events)

\* Recording the tick's row starts the timeframes.
LEMMA TickRecorded ==
  ASSUME NEW p, BatchGood(p), NEW x, NEW r, r = Append(p.rows, TickRow(x)),
         NEW u, Recorded(p, x, r, u)
  PROVE  Added(p.rows, r, TickRow(x)) /\ IsSeq(p.rows) /\ Halfway(u, x, p.rows, r, 0)
<1> DEFINE base == p.rows
           e == TickRow(x)
<1>1. BatchFields(p) /\ IsSeq(base) /\ IsSeq(p.events) /\ Backed(base)
      /\ p.aggs = [tf \in FrameSet |-> p.aggs[tf]]
      /\ \A tf \in FrameSet : AggOK(tf, p.aggs[tf], base, p.events)
  BY DEF BatchGood, CandlesOK
<1>2. /\ BatchFields(u) /\ u.tick = x /\ u.rows = r /\ u.aggs = p.aggs /\ u.events = p.events
  <2>1. BatchFields(p)
    BY <1>1
  <2> HIDE DEF base, e
  <2>2. ASSUME NEW t, Recorded(p, x, t, u)
        PROVE  BatchFields(u) /\ u.tick = x /\ u.rows = t /\ u.aggs = p.aggs /\ u.events = p.events
    BY <2>1, <2>2, RecordedFields
  <2> QED BY <2>2
<1>3. e.kind = "tick"
  BY DEF TickRow
<1> HIDE DEF base, e
<1>4. Added(base, r, e)
  BY <1>1, AppendAdds DEF base, e
<1>5. Backed(r)
  BY <1>1, <1>3, <1>4, BackedMore
<1>6. Quiet(r, r)
  <2>1. IsSeq(r) /\ Len(r) \in Nat
    BY <1>4, LenOfSeq DEF Added
  <2> QED BY <2>1 DEF Quiet, Grown
<1>7. ASSUME NEW i \in 1 .. Len(Timeframes)
      PROVE  AggOK(Timeframes[i], u.aggs[Timeframes[i]], IF i <= 0 THEN r ELSE base, u.events)
  <2>1. Timeframes[i] \in FrameSet /\ ~(i <= 0)
    BY Constants DEF FrameSet
  <2> QED BY <1>1, <1>2, <2>1
<1>8. Halfway(u, x, base, r, 0)
  BY <1>1, <1>2, <1>5, <1>6, <1>7 DEF Halfway
<1> QED BY <1>1, <1>4, <1>8 DEF base, e

\* When every timeframe has taken the tick the candles are right again.
LEMMA FramesDone ==
  ASSUME NEW p, NEW x, NEW base, NEW r, Halfway(p, x, base, r, Len(Timeframes))
  PROVE  BatchGood(p)
<1>1. /\ BatchFields(p) /\ p.aggs = [tf \in FrameSet |-> p.aggs[tf]]
      /\ Quiet(r, p.rows) /\ Backed(p.rows) /\ IsSeq(p.events) /\ IsSeq(p.rows)
  BY DEF Halfway, Quiet, Grown
<1>2. ASSUME NEW tf \in FrameSet PROVE AggOK(tf, p.aggs[tf], p.rows, p.events)
  <2>1. PICK i \in 1 .. Len(Timeframes) : tf = Timeframes[i]
    BY Constants DEF FrameSet
  <2>2. i <= Len(Timeframes)
    BY Constants
  <2>3. AggOK(tf, p.aggs[tf], r, p.events)
    BY <2>1, <2>2 DEF Halfway
  <2> QED BY <1>1, <2>3, AggStays
<1> QED BY <1>1, <1>2 DEF BatchGood, CandlesOK

\* The event of the tick takes nothing back.
LEMMA TickTold ==
  ASSUME NEW p, BatchGood(p), NEW x, NEW q, BatchFields(q), q.aggs = p.aggs, q.rows = p.rows,
         q.events = Append(p.events, [type |-> "tick", tick |-> x])
  PROVE  BatchGood(q)
<1> DEFINE e == [type |-> "tick", tick |-> x]
<1>1. \A tf, s, b : ~IsAbout(e, tf, s, b)
  BY DEF IsAbout
<1> HIDE DEF e
<1>2. /\ IsSeq(p.rows) /\ IsSeq(p.events) /\ Backed(p.rows) /\ p.aggs = [tf \in FrameSet |-> p.aggs[tf]]
      /\ \A tf \in FrameSet : AggOK(tf, p.aggs[tf], p.rows, p.events)
  BY DEF BatchGood, CandlesOK
<1>3. Added(p.events, q.events, e)
  BY <1>2, AppendAdds DEF e
<1>4. Grown(p.events, q.events) /\ \A i \in Len(p.events) + 1 .. Len(q.events) : q.events[i] = e
  BY <1>3, AddedGrows
<1>5. ASSUME NEW tf, NEW c, Told(p.events, tf, c) PROVE Told(q.events, tf, c)
  <2>1. \A i \in Len(p.events) + 1 .. Len(q.events) : ~IsAbout(q.events[i], tf, c.symbol, c.bucket)
    BY <1>1, <1>4
  <2> DEFINE es == p.events
             et == q.events
  <2>2. /\ Grown(es, et) /\ Told(es, tf, c)
        /\ \A i \in Len(es) + 1 .. Len(et) : ~IsAbout(et[i], tf, c.symbol, c.bucket)
    BY <1>4, <1>5, <2>1
  <2> HIDE DEF es, et
  <2>3. Told(et, tf, c)
    BY <2>2, ToldLater
  <2> QED BY <2>3 DEF et
<1>6. ASSUME NEW tf \in FrameSet PROVE AggOK(tf, q.aggs[tf], q.rows, q.events)
  BY <1>2, <1>5, OtherFrame
<1>7. IsSeq(q.events)
  BY <1>4 DEF Grown
<1> QED BY <1>2, <1>6, <1>7 DEF BatchGood, CandlesOK

\* One trip of the loop over ready.
LEMMA TickGood ==
  ASSUME NEW s \in Symbols, NEW x \in Arrived(s), NEW p, BatchGood(p)
  PROVE  BatchGood(ProcessTick(p, x))
<1> DEFINE r == Append(p.rows, TickRow(x))
           u == [p EXCEPT !.tick = x, !.rows = Append(@, TickRow(x))]
           framed == FoldLeft(ApplyFrame, u, Timeframes)
           q == ProcessTick(p, x)
<1>1. Recorded(p, x, r, u)
  BY Zenon DEF Recorded
<1>2. q = UpdateStats(framed, x) /\ r = Append(p.rows, TickRow(x))
  BY DEF ProcessTick
<1> HIDE DEF r, u
<1>3. Added(p.rows, r, TickRow(x)) /\ IsSeq(p.rows) /\ Halfway(u, x, p.rows, r, 0)
  BY <1>1, <1>2, TickRecorded
<1>4. Halfway(framed, x, p.rows, r, Len(Timeframes))
  BY <1>3, AllFrames
<1> HIDE DEF framed, q
<1>5. BatchGood(framed)
  BY <1>4, FramesDone
<1>6. BatchFields(q) /\ q.aggs = framed.aggs /\ q.rows = framed.rows
      /\ q.events = Append(framed.events, [type |-> "tick", tick |-> x])
  <2> DEFINE e == Append(framed.events, [type |-> "tick", tick |-> x])
  <2>1. \E v, m, c, st : Summed(framed, v, m, c, st, e, q)
    BY <1>2, Zenon DEF UpdateStats, Summed
  <2> HIDE DEF e
  <2>2. BatchFields(framed)
    BY <1>5 DEF BatchGood
  <2>3. BatchFields(q) /\ q.aggs = framed.aggs /\ q.rows = framed.rows /\ q.events = e
    BY <2>1, <2>2, SummedFields
  <2> QED BY <2>3 DEF e
<1>7. BatchGood(q)
  BY <1>5, <1>6, TickTold
<1> QED BY <1>7 DEF q

\* The loop over ready.
LEMMA BatchStaysGood ==
  ASSUME NEW s \in Symbols, NEW p, BatchGood(p), NEW ready \in Seq(Arrived(s))
  PROVE  BatchGood(FoldLeft(ProcessTick, p, ready))
<1> DEFINE q == FoldLeft(ProcessTick, p, ready)
<1>1. q = FP!Fold(p, ready)
  BY DEF FoldLeft, MapThenFoldSet, Max, FP!Fold, FP!FoldLeft, FP!MapThenFoldSet, FP!Max
<1>2. Len(ready) \in Nat
  OBVIOUS
<1>3. PICK h : FP!Passes(p, ready, h) /\ h[Len(ready)] = q
  BY <1>1, FP!FoldPasses
<1> HIDE DEF q
<1> DEFINE S == {k \in 0 .. Len(ready) : BatchGood(h[k])}
<1>4. 0 \in S
  BY <1>2, <1>3 DEF FP!Passes
<1>5. ASSUME NEW k \in 0 .. Len(ready) - 1, k \in S PROVE k + 1 \in S
  <2>1. k + 1 \in 1 .. Len(ready) /\ (k + 1) - 1 = k /\ k + 1 \in 0 .. Len(ready)
    BY <1>2
  <2>2. h[k + 1] = ProcessTick(h[k], ready[k + 1])
    BY <1>3, <2>1 DEF FP!Passes
  <2>3. BatchGood(h[k]) /\ ready[k + 1] \in Arrived(s)
    BY <1>5, <2>1
  <2>4. BatchGood(h[k + 1])
    BY <2>2, <2>3, TickGood
  <2> QED BY <2>1, <2>4
<1>6. 0 .. Len(ready) \subseteq S
  <2> HIDE DEF S
  <2> QED BY <1>2, <1>4, <1>5, FP!BoundedInduction
<1>7. BatchGood(h[Len(ready)])
  BY <1>2, <1>6
<1> QED BY <1>3, <1>7 DEF q
-----------------------------------------------------------------------------
(* The inductive invariant of the candles.                                 *)
CandleInv == CandlesOK(aggs, rows, events)

\* It holds at the start.
LEMMA CandleInit ==
  ASSUME Init
  PROVE  CandleInv
<1>1. rows = <<>> /\ events = <<>> /\ aggs = [tf \in FrameSet |-> Agg(tf)!EmptyAggregator]
  BY DEF Init
<1>2. <<>> \in Seq({}) /\ Len(<<>>) = 0
  OBVIOUS
<1>3. IsSeq(rows) /\ IsSeq(events) /\ Backed(rows)
  BY <1>1, <1>2 DEF IsSeq, Backed
<1>4. aggs = [tf \in FrameSet |-> aggs[tf]]
  BY <1>1
<1>5. ASSUME NEW tf \in FrameSet PROVE AggOK(tf, aggs[tf], rows, events)
  <2> DEFINE o == [s \in Symbols |-> None]
             h == [s \in Symbols |-> <<>>]
             a == aggs[tf]
  <2>1. a = [open |-> o, history |-> h, latePatches |-> 0, lastPatch |-> None]
    BY <1>1 DEF Agg!EmptyAggregator
  <2>2. o = [s \in Symbols |-> o[s]] /\ h = [s \in Symbols |-> h[s]]
        /\ \A s \in Symbols : o[s] = None /\ h[s] = <<>>
    OBVIOUS
  <2> HIDE DEF o, h, a
  <2>3. AggForm(a) /\ a.open = o /\ a.history = h
    BY <2>1, <2>2, FormOf
  <2>4. ASSUME NEW s \in Symbols PROVE MemoryOK(tf, s, None, <<>>, rows, events)
    <3>1. <<>> \in Seq(Candle(s))
      OBVIOUS
    <3> QED BY <1>1, <1>2, <3>1 DEF MemoryOK
  <2> QED BY <2>2, <2>3, <2>4 DEF AggOK, a
<1> QED BY <1>3, <1>4, <1>5 DEF CandleInv, CandlesOK

\* A consumer's trip keeps it.
LEMMA CandleTrip ==
  ASSUME Inv, CandleInv, NEW s \in Symbols, Trip(s)
  PROVE  CandleInv'
<1> DEFINE n == BatchSize(s)
           offered == Offered(s)
           ready == Order!TicksInOrder(Order!ReadyEntries(offered))
<1>1. RingOK(bufs[s], s) /\ Conserved(s, bufs[s], seqs[s], Applied[s], stats[s].total)
  BY DEF Inv, Conserved
<1>2. n \in 0 .. bufs[s].size
  BY <1>1, TripSize DEF BatchSize
<1>3. offered = FoldLeft(OfferTick, seqs[s], Ring!DrainedItems(bufs[s], n))
  BY DEF Offered
<1> HIDE DEF n
<1>4. ready \in Seq(Arrived(s))
  BY <1>1, <1>2, <1>3, TripConserves
<1>5. UNCHANGED results \/ ProcessBatch(s, ready, bufs'[s], offered)
  BY DEF Trip
<1> HIDE DEF offered, ready
<1>6. CASE UNCHANGED results
  BY <1>6 DEF results, CandleInv
<1>7. CASE ProcessBatch(s, ready, bufs'[s], offered)
  <2> DEFINE p0 == [tick |-> None, aggs |-> aggs, rows |-> rows, events |-> events, vwap |-> vwaps[s],
                    averages |-> averages[s], stat |-> stats[s], count |-> counts[s]]
             p == FoldLeft(ProcessTick, p0, ready)
  <2>1. aggs' = p.aggs /\ rows' = p.rows /\ events' = p.events
    BY <1>7, Zenon DEF ProcessBatch
  <2>2. BatchFields(p0) /\ p0.aggs = aggs /\ p0.rows = rows /\ p0.events = events
    BY DEF BatchFields
  <2> HIDE DEF p0
  <2>3. BatchGood(p0)
    BY <2>2 DEF BatchGood, CandleInv
  <2>4. BatchGood(p)
    BY <1>4, <2>3, BatchStaysGood
  <2> HIDE DEF p
  <2>5. CandlesOK(aggs', rows', events')
    BY <2>1, <2>4 DEF BatchGood
  <2> QED BY <2>5 DEF CandleInv
<1> QED BY <1>5, <1>6, <1>7

(* Every reachable state satisfies both invariants.                        *)
THEOREM CandleInvariance == Spec => [](Inv /\ CandleInv)
<1>1. Init => CandleInv
  BY CandleInit
<1>2. Inv /\ CandleInv /\ [Next]_vars => CandleInv'
  <2> SUFFICES ASSUME Inv, CandleInv, [Next]_vars PROVE CandleInv'
    OBVIOUS
  <2>1. ASSUME NEW s \in Symbols, Trip(s) PROVE CandleInv'
    BY <2>1, CandleTrip
  <2>2. CASE UNCHANGED <<aggs, rows, events>>
    BY <2>2 DEF CandleInv
  <2>3. \/ \E s \in Symbols : Trip(s)
        \/ UNCHANGED <<aggs, rows, events>>
    BY Zenon DEF Next, Ingest, Sleep, RateTurn, Stop, vars, results
  <2> QED BY <2>1, <2>2, <2>3
<1> QED BY <1>1, <1>2, Invariance, PTL DEF Spec

\* Whoever was told of a candle was told its present value last.
LEMMA ToldIsLast ==
  ASSUME IsSeq(events), NEW tf, NEW c, Told(events, tf, c)
  PROVE  LastToldIs(tf, c)
<1> DEFINE about == {i \in DOMAIN events :
                       /\ events[i].type # "tick" /\ events[i].frame = tf
                       /\ events[i].candle.symbol = c.symbol /\ events[i].candle.bucket = c.bucket}
<1>1. Len(events) \in Nat /\ DOMAIN events = 1 .. Len(events)
  BY LenOfSeq DEF IsSeq
<1>2. PICK m \in 1 .. Len(events) :
        /\ IsAbout(events[m], tf, c.symbol, c.bucket) /\ events[m].candle = c
        /\ \A n \in m + 1 .. Len(events) : ~IsAbout(events[n], tf, c.symbol, c.bucket)
  BY DEF Told
<1>3. \A i \in 1 .. Len(events) : i \in about <=> IsAbout(events[i], tf, c.symbol, c.bucket)
  BY <1>1 DEF IsAbout
<1>4. about \subseteq 1 .. Len(events)
  BY <1>1
<1>5. LastToldIs(tf, c) <=> (about # {} /\ events[Max(about)].candle = c)
  BY DEF LastToldIs
<1> HIDE DEF about
<1>6. m \in about /\ \A i \in about : i <= m
  BY <1>1, <1>2, <1>3, <1>4
<1>7. Max(about) \in about /\ \A y \in about : Max(about) >= y
  BY <1>1, <1>4, <1>6, FF!MaxOfPositions DEF Max, FF!Max
<1>8. Max(about) = m
  <2> DEFINE w == Max(about)
  <2>1. w \in about /\ w >= m /\ w \in 1 .. Len(events)
    BY <1>4, <1>6, <1>7
  <2> HIDE DEF w
  <2>2. w <= m
    BY <1>6, <2>1
  <2>3. w = m
    BY <1>1, <2>1, <2>2
  <2> QED BY <2>3 DEF w
<1> QED BY <1>2, <1>5, <1>6, <1>8

(* A client that applies every event of the sink holds, for each candle an *)
(* aggregator has in memory, open or closed, its present value: what       *)
(* _process_batch announces is complete.                                   *)
THEOREM EventsAreComplete == Spec => []EventsTellAll
<1>1. CandleInv => EventsTellAll
  <2> SUFFICES ASSUME CandleInv, NEW tf \in FrameSet, NEW s \in Symbols
               PROVE  /\ \A i \in DOMAIN aggs[tf].history[s] : LastToldIs(tf, aggs[tf].history[s][i])
                      /\ aggs[tf].open[s] # None => LastToldIs(tf, aggs[tf].open[s])
    BY DEF EventsTellAll
  <2> DEFINE o == aggs[tf].open[s]
             h == aggs[tf].history[s]
  <2>1. IsSeq(events) /\ MemoryOK(tf, s, o, h, rows, events)
    BY DEF CandleInv, CandlesOK, AggOK
  <2> HIDE DEF o, h
  <2>2. DOMAIN h = 1 .. Len(h)
    BY <2>1 DEF MemoryOK
  <2>3. ASSUME NEW i \in DOMAIN h PROVE LastToldIs(tf, h[i])
    BY <2>1, <2>2, ToldIsLast DEF MemoryOK
  <2>4. ASSUME o # None PROVE LastToldIs(tf, o)
    BY <2>1, <2>4, ToldIsLast DEF MemoryOK
  <2> QED BY <2>3, <2>4 DEF o, h
<1> QED BY <1>1, CandleInvariance, PTL

(* Each candle row persisted, in every timeframe, closed or patched, comes *)
(* after the rows of all its ticks and counts each of them: whatever       *)
(* prefix of the rows reaches the database holds the ticks of its candles. *)
THEOREM RowsAreBacked == Spec => []CandleRowsBacked
<1>1. CandleInv => CandleRowsBacked
  <2> SUFFICES ASSUME CandleInv, NEW i \in DOMAIN rows, rows[i].kind = "candle"
               PROVE  rows[i].candle.count =
                        Cardinality(TickRowsBefore(i, rows[i].frame, rows[i].candle))
    BY DEF CandleRowsBacked
  <2>1. IsSeq(rows) /\ Backed(rows)
    BY DEF CandleInv, CandlesOK
  <2>2. i \in 1 .. Len(rows)
    BY <2>1 DEF IsSeq
  <2> QED BY <2>1, <2>2, Zenon DEF Backed, TickRowsBefore, BucketOf
<1> QED BY <1>1, CandleInvariance, PTL
=============================================================================
