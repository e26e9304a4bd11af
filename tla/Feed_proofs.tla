----------------------------- MODULE Feed_proofs -----------------------------
(***************************************************************************)
(* Proofs about Feed for every capacity, batch size, watermark, number of  *)
(* trades and of reconnects.                                               *)
(*                                                                         *)
(* The whole argument rests on one order: what reached the sequencer, what *)
(* is on the ring and what is on the wire ascend, through losses at both   *)
(* ends of the ring and on the wire, and only the last match of a          *)
(* subscription can repeat an id.                                          *)
(***************************************************************************)
EXTENDS Feed, FiniteSetTheorems, TLAPS

\* Folds of the sequencer's offer.
FT == INSTANCE FoldTheorems WITH Op <- OfferTrade

RingType ==
  [slots : [R!Index -> Nat \cup {Nothing}], head : R!Index, size : 0 .. Capacity,
   dropped : Nat, pushedTotal : Nat]

\* What the proofs need of the sequencer's record.
SequencerOK(s) ==
  /\ s = [heap |-> s.heap, seqCounter |-> s.seqCounter, maxSeen |-> s.maxSeen,
          lastId |-> s.lastId, outOfOrder |-> s.outOfOrder, gapCount |-> s.gapCount]
  /\ s.seqCounter \in Nat /\ s.gapCount \in Nat

\* The trades on the ring, and those that are on it or past it.
Held    == R!Contents(ring)
Items   == {Held[i] : i \in 1 .. ring.size}
Reached == offered \cup Items

\* A connection is only held by an attempt, and only an answered one carries anything.
Control ==
  /\ pc \notin {"subscribing", "reading", "closing"} => link = "none"
  /\ link \in {"none", "open"} => wire = <<>>

\* An attempt ends by a break unless the client is being stopped; breaks are bounded.
Attempts ==
  /\ link = "closed" => reconnects < MaxReconnects
  /\ pc = "closing" => stop \/ cancelled \/ link = "closed"

\* The messages on the wire are matches of made trades, or carry no id.
WireOK ==
  \A i \in 1 .. Len(wire) :
    IF wire[i].type = "subscriptions" THEN wire[i].id = Nothing ELSE wire[i].id \in 1 .. made

\* What is behind was made later, or is the same trade again.
ItemsAscend ==
  /\ \A x \in offered, i \in 1 .. ring.size : x <= Held[i]
  /\ \A i, j \in 1 .. ring.size : i < j => Held[i] <= Held[j]

WireAscends ==
  /\ \A i \in 1 .. Len(wire) : wire[i].type = "last_match" => i = 1
  /\ \A i, j \in 1 .. Len(wire) :
       i < j /\ wire[i].type # "subscriptions" /\ wire[j].type # "subscriptions"
         => wire[i].id < wire[j].id

\* Only a last match repeats what the client has received.
WireAhead ==
  \A x \in Reached, i \in 1 .. Len(wire) :
    /\ wire[i].type = "match" => x < wire[i].id
    /\ wire[i].type = "last_match" => x <= wire[i].id

Order == WireOK /\ ItemsAscend /\ WireAscends /\ WireAhead

\* What the sequencer counted, of the ids it has been offered.
Exact(s, ids) ==
  /\ ids = {} => s.lastId = Nothing /\ s.gapCount = 0 /\ s.seqCounter = 0
  /\ ids # {} =>
       /\ s.lastId \in ids /\ \A x \in ids : x <= s.lastId
       /\ s.gapCount = Cardinality((Min(ids) .. s.lastId) \ ids)

\* Offers and items that repeat an id, the last match on the wire included.
Repeats == sq.seqCounter + ring.size - Cardinality(Reached)

Pending == wire # <<>> /\ wire[1].type = "last_match" /\ wire[1].id \in Reached

\* Before an answer the number is below the bound; nothing was seen or an attempt failed.
Unanswered == pc \in {"new", "connecting", "sleeping"} \/ link = "open"

RepeatsBounded ==
  /\ Repeats + (IF Pending THEN 1 ELSE 0) <= reconnects
  /\ Unanswered => Repeats < reconnects \/ Reached = {}

DelayInv ==
  /\ pc = "new" => failed = 0
  /\ pc = "reading" => failed = 0
  /\ pc \in {"new", "connecting", "subscribing", "reading", "closing"} => delay = Backoff[failed]
  /\ pc = "sleeping" => failed > 0 /\ delay = Backoff[failed - 1]

IInv ==
  /\ TypeOK /\ ring \in RingType /\ SequencerOK(sq)
  /\ Control /\ Attempts
  /\ Order
  /\ Exact(sq, offered)
  /\ RepeatsBounded
  /\ DelayInv
-----------------------------------------------------------------------------
(* The ring.                                                               *)

LEMMA Constants ==
  /\ Capacity \in Nat /\ Capacity > 0 /\ BatchMax \in Nat /\ Watermark \in Nat
  /\ Nothing \notin Nat /\ MaxTrades \in Nat /\ MaxReconnects \in Nat
  /\ InitialDelay \in Nat /\ MaxDelay \in Nat
  /\ R!Index = 0 .. Capacity - 1
BY FeedAssumption, ClientAssumption DEF R!Index

(* The modulus on the range index arithmetic needs.                        *)
LEMMA ModValues ==
  ASSUME NEW a \in Int, -Capacity <= a, a < 2 * Capacity
  PROVE  /\ a % Capacity = IF a < 0 THEN a + Capacity
                           ELSE IF a < Capacity THEN a ELSE a - Capacity
         /\ a % Capacity \in R!Index
<1>1. CASE a < 0
  BY <1>1, Constants
<1>2. CASE 0 <= a /\ a < Capacity
  BY <1>2, Constants
<1>3. CASE Capacity <= a
  BY <1>3, Constants
<1> QED BY <1>1, <1>2, <1>3, Constants

\* The place k of a ring with this head and size, without a modulus.
At(h, z, k) == IF h - z + k - 1 >= 0 THEN h - z + k - 1 ELSE h - z + k - 1 + Capacity

\* The ranges of a ring's fields.
LEMMA RingFacts ==
  ASSUME NEW b \in RingType
  PROVE  /\ b.head \in Int /\ 0 <= b.head /\ b.head < Capacity /\ b.head \in R!Index
         /\ b.size \in Int /\ 0 <= b.size /\ b.size <= Capacity
         /\ b.dropped \in Nat /\ b.pushedTotal \in Nat
         /\ b.slots \in [R!Index -> Nat \cup {Nothing}]
BY Constants DEF RingType

\* The slot of the k-th buffered tick, its modulo resolved.
LEMMA SlotValue ==
  ASSUME NEW b \in RingType, NEW k \in 1 .. b.size
  PROVE  R!SlotOf(b, k) \in R!Index /\ R!SlotOf(b, k) = At(b.head, b.size, k)
<1> DEFINE tail == (b.head - b.size) % Capacity
<1>1. /\ Capacity \in Nat /\ Capacity > 0
      /\ b.head \in Int /\ 0 <= b.head /\ b.head < Capacity
      /\ b.size \in Int /\ 0 <= b.size /\ b.size <= Capacity
      /\ k \in Int /\ 1 <= k /\ k <= b.size
  BY RingFacts, Constants
<1>2. tail = IF b.head - b.size < 0 THEN b.head - b.size + Capacity ELSE b.head - b.size
  BY <1>1, ModValues
<1> HIDE DEF tail
<1>3. tail \in Int /\ tail + k - 1 \in Int /\ 0 <= tail + k - 1 /\ tail + k - 1 < 2 * Capacity
  BY <1>1, <1>2
<1>4. /\ R!SlotOf(b, k) = IF tail + k - 1 < Capacity THEN tail + k - 1 ELSE tail + k - 1 - Capacity
      /\ R!SlotOf(b, k) \in R!Index
  BY <1>1, <1>3, ModValues DEF R!SlotOf, tail
<1> QED BY <1>1, <1>2, <1>4 DEF At

\* The k-th buffered tick is the one in that slot.
LEMMA ContentsValue ==
  ASSUME NEW b \in RingType, NEW k \in 1 .. b.size
  PROVE  R!Contents(b)[k] = b.slots[At(b.head, b.size, k)] /\ At(b.head, b.size, k) \in R!Index
BY SlotValue DEF R!Contents, R!DrainedItems

(* A push puts its item last and, when the ring is full, loses the oldest. *)
PushedOn(b, c, x) ==
  /\ c \in RingType
  /\ c.size = IF b.size = Capacity THEN b.size ELSE b.size + 1
  /\ c.size > 0
  /\ R!Contents(c)[c.size] = x
  /\ \A k \in 1 .. c.size - 1 :
       R!Contents(c)[k] = R!Contents(b)[k + (b.size + 1 - c.size)]

\* A push appends, and drops the oldest tick when the ring is full.
LEMMA PushContents ==
  ASSUME NEW b \in RingType, NEW x \in Nat, NEW c, c = R!PushNowait(b, x)
  PROVE  PushedOn(b, c, x)
<1>1. /\ Capacity \in Nat /\ Capacity > 0
      /\ b.head \in Int /\ 0 <= b.head /\ b.head < Capacity /\ b.head \in R!Index
      /\ b.size \in Int /\ 0 <= b.size /\ b.size <= Capacity
      /\ b.slots \in [R!Index -> Nat \cup {Nothing}]
  BY RingFacts, Constants
<1>2. /\ c.slots = [b.slots EXCEPT ![b.head] = x]
      /\ c.head = IF b.head + 1 < Capacity THEN b.head + 1 ELSE 0
      /\ c.size = IF b.size = Capacity THEN b.size ELSE b.size + 1
      /\ c \in RingType
  <2>1. /\ (b.head + 1) % Capacity = IF b.head + 1 < Capacity THEN b.head + 1 ELSE 0
        /\ (b.head + 1) % Capacity \in R!Index
    BY <1>1, ModValues
  <2>2. /\ [b.slots EXCEPT ![b.head] = x] \in [R!Index -> Nat \cup {Nothing}]
        /\ (IF b.size = Capacity THEN b.size ELSE b.size + 1) \in 0 .. Capacity
    BY <1>1
  <2> QED BY <2>1, <2>2, RingFacts DEF R!PushNowait, R!IsFull, RingType
<1>3. c.size > 0 /\ c.size \in 1 .. c.size /\ c.size \in Int
  BY <1>1, <1>2
<1>4. At(c.head, c.size, c.size) = b.head
  BY <1>1, <1>2 DEF At
<1>5. R!Contents(c)[c.size] = x
  BY <1>1, <1>2, <1>3, <1>4, ContentsValue
<1>6. ASSUME NEW k \in 1 .. c.size - 1
      PROVE  R!Contents(c)[k] = R!Contents(b)[k + (b.size + 1 - c.size)]
  <2> DEFINE j == k + (b.size + 1 - c.size)
  <2>1. k \in 1 .. c.size /\ j \in 1 .. b.size
    BY <1>1, <1>2, <1>3
  <2>2. /\ R!Contents(c)[k] = c.slots[At(c.head, c.size, k)] /\ At(c.head, c.size, k) \in R!Index
        /\ R!Contents(b)[j] = b.slots[At(b.head, b.size, j)]
    BY <1>2, <2>1, ContentsValue
  <2>3. At(c.head, c.size, k) = At(b.head, b.size, j) /\ At(b.head, b.size, j) # b.head
    <3>1. CASE b.size = Capacity
      <4>1. c.size = Capacity /\ j = k + 1 /\ k \in Int /\ 1 <= k /\ k < Capacity
        BY <1>1, <1>2, <3>1
      <4>2. At(c.head, Capacity, k) = At(b.head, Capacity, k + 1) /\ At(b.head, Capacity, k + 1) # b.head
        BY <1>1, <1>2, <4>1 DEF At
      <4> QED BY <3>1, <4>1, <4>2
    <3>2. CASE b.size # Capacity
      <4>1. c.size = b.size + 1 /\ j = k /\ k \in Int /\ 1 <= k /\ k <= b.size /\ b.size < Capacity
        BY <1>1, <1>2, <3>2
      <4> HIDE DEF j
      <4>2. At(c.head, b.size + 1, k) = At(b.head, b.size, k) /\ At(b.head, b.size, k) # b.head
        BY <1>1, <1>2, <4>1 DEF At
      <4> QED BY <4>1, <4>2
    <3> QED BY <3>1, <3>2
  <2> HIDE DEF j
  <2>4. c.slots[At(c.head, c.size, k)] = b.slots[At(b.head, b.size, j)]
    BY <1>1, <1>2, <2>2, <2>3
  <2> QED BY <2>2, <2>4 DEF j
<1> QED BY <1>2, <1>3, <1>5, <1>6 DEF PushedOn

(* A drain takes the oldest items and leaves the others as they were.      *)
LEMMA DrainContents ==
  ASSUME NEW b \in RingType, NEW n \in 0 .. b.size, NEW c, c = R!DrainNowait(b, n)
  PROVE  /\ c \in RingType
         /\ c.size = b.size - n
         /\ \A k \in 1 .. n : R!DrainedItems(b, n)[k] = R!Contents(b)[k]
         /\ \A k \in 1 .. c.size : R!Contents(c)[k] = R!Contents(b)[n + k]
<1> DEFINE freed == {R!SlotOf(b, k) : k \in 1 .. n}
<1>1. /\ Capacity \in Nat /\ Capacity > 0
      /\ b.head \in Int /\ 0 <= b.head /\ b.head < Capacity
      /\ b.size \in Int /\ 0 <= b.size /\ b.size <= Capacity
      /\ b.slots \in [R!Index -> Nat \cup {Nothing}]
      /\ n \in Int /\ 0 <= n /\ n <= b.size
  BY RingFacts, Constants
<1>2. /\ c.slots = [i \in R!Index |-> IF i \in freed THEN Nothing ELSE b.slots[i]]
      /\ c.head = b.head
      /\ c.size = b.size - n
      /\ c \in RingType
  <2>1. c = [slots |-> [i \in R!Index |-> IF i \in freed THEN Nothing ELSE b.slots[i]],
             head |-> b.head, size |-> b.size - n,
             dropped |-> b.dropped, pushedTotal |-> b.pushedTotal]
    BY DEF R!DrainNowait
  <2> HIDE DEF freed
  <2>2. [i \in R!Index |-> IF i \in freed THEN Nothing ELSE b.slots[i]] \in [R!Index -> Nat \cup {Nothing}]
    BY <1>1
  <2>3. b.size - n \in 0 .. Capacity
    BY <1>1
  <2> QED BY <2>1, <2>2, <2>3, RingFacts DEF RingType
<1>3. ASSUME NEW k \in 1 .. n PROVE R!DrainedItems(b, n)[k] = R!Contents(b)[k]
  <2>1. k \in 1 .. b.size
    BY <1>1
  <2> QED BY <2>1 DEF R!DrainedItems, R!Contents
<1>4. ASSUME NEW k \in 1 .. c.size PROVE R!Contents(c)[k] = R!Contents(b)[n + k]
  <2>1. k \in Int /\ 1 <= k /\ k <= b.size - n /\ n + k \in 1 .. b.size
    BY <1>1, <1>2
  <2>2. /\ R!Contents(c)[k] = c.slots[At(c.head, c.size, k)] /\ At(c.head, c.size, k) \in R!Index
        /\ R!Contents(b)[n + k] = b.slots[At(b.head, b.size, n + k)]
    BY <1>2, <2>1, ContentsValue
  <2>3. At(c.head, c.size, k) = At(b.head, b.size, n + k)
    BY <1>1, <1>2, <2>1 DEF At
  <2>4. At(b.head, b.size, n + k) \notin freed
    <3> SUFFICES ASSUME NEW m \in 1 .. n, At(b.head, b.size, n + k) = R!SlotOf(b, m) PROVE FALSE
      OBVIOUS
    <3>1. m \in 1 .. b.size /\ m \in Int /\ 1 <= m /\ m <= n
      BY <1>1
    <3>2. R!SlotOf(b, m) = At(b.head, b.size, m)
      BY <3>1, SlotValue
    <3> QED BY <1>1, <2>1, <3>1, <3>2 DEF At
  <2> QED BY <1>2, <2>2, <2>3, <2>4
<1> QED BY <1>2, <1>3, <1>4
-----------------------------------------------------------------------------
(* The sequencer.                                                          *)

LEMMA OfferFields ==
  ASSUME NEW s, SequencerOK(s), NEW id \in Nat, s.lastId \in Nat \cup {Nothing}
  PROVE  /\ SequencerOK(OfferTrade(s, id))
         /\ OfferTrade(s, id).seqCounter = s.seqCounter + 1
         /\ OfferTrade(s, id).lastId = IF s.lastId = Nothing \/ id > s.lastId THEN id ELSE s.lastId
         /\ OfferTrade(s, id).gapCount =
              s.gapCount + (IF s.lastId # Nothing /\ id > s.lastId + 1 THEN id - s.lastId - 1 ELSE 0)
<1>1. S!Missed(s, [id |-> id, time |-> id])
        = IF s.lastId # Nothing /\ id > s.lastId + 1 THEN id - s.lastId - 1 ELSE 0
  BY DEF S!Missed
<1>2. S!Missed(s, [id |-> id, time |-> id]) \in Nat
  BY <1>1, Constants
<1>3. s.seqCounter \in Nat /\ s.gapCount \in Nat
  BY DEF SequencerOK
<1>4. /\ OfferTrade(s, id).seqCounter = s.seqCounter + 1
      /\ OfferTrade(s, id).lastId = IF s.lastId = Nothing \/ id > s.lastId THEN id ELSE s.lastId
      /\ OfferTrade(s, id).gapCount = s.gapCount + S!Missed(s, [id |-> id, time |-> id])
  BY DEF OfferTrade, S!Offer
<1>5. OfferTrade(s, id) = [heap |-> OfferTrade(s, id).heap, seqCounter |-> OfferTrade(s, id).seqCounter,
                           maxSeen |-> OfferTrade(s, id).maxSeen, lastId |-> OfferTrade(s, id).lastId,
                           outOfOrder |-> OfferTrade(s, id).outOfOrder,
                           gapCount |-> OfferTrade(s, id).gapCount]
  BY DEF OfferTrade, S!Offer
<1>6. OfferTrade(s, id).seqCounter \in Nat /\ OfferTrade(s, id).gapCount \in Nat
  BY <1>2, <1>3, <1>4
<1> QED BY <1>1, <1>4, <1>5, <1>6 DEF SequencerOK

\* A lower bound in the set is its minimum.
LEMMA LeastIs ==
  ASSUME NEW D \in SUBSET Nat, NEW m \in D, \A x \in D : m <= x
  PROVE  Min(D) = m
<1>1. Min(D) \in D /\ \A x \in D : Min(D) <= x
  BY FT!MinOfNaturals DEF Min, FT!Min
<1>2. m \in Nat /\ Min(D) \in Nat
  BY <1>1
<1>3. m <= Min(D) /\ Min(D) <= m
  BY <1>1
<1> QED BY <1>2, <1>3

(* The ids between the last one and a later one are the missed ones.       *)
LEMMA GapGrows ==
  ASSUME NEW D \in SUBSET Nat, NEW l \in D, \A x \in D : x <= l, NEW id \in Nat, id > l
  PROVE  /\ Min(D \cup {id}) = Min(D)
         /\ Cardinality((Min(D) .. id) \ (D \cup {id}))
              = Cardinality((Min(D) .. l) \ D) + (id - l - 1)
<1>1. Min(D) \in D /\ \A x \in D : Min(D) <= x
  BY FT!MinOfNaturals DEF Min, FT!Min
<1> DEFINE m == Min(D)
           A == (m .. l) \ D
           B == l + 1 .. id - 1
<1>2. m \in Nat /\ l \in Nat /\ m <= l
  BY <1>1
<1>3. Min(D \cup {id}) = m
  BY <1>1, <1>2, LeastIs
<1>4. (m .. id) \ (D \cup {id}) = A \cup B /\ A \cap B = {}
  BY <1>2
<1>5. IsFiniteSet(A) /\ Cardinality(A) \in Nat
  <2>1. IsFiniteSet(m .. l) /\ A \in SUBSET (m .. l)
    BY <1>2, FS_Interval
  <2> HIDE DEF A
  <2> QED BY <2>1, FS_Subset, FS_CardinalityType
<1>6. IsFiniteSet(B) /\ Cardinality(B) = id - l - 1
  <2>1. l + 1 \in Int /\ id - 1 \in Int /\ id - 1 - (l + 1) + 1 = id - l - 1 /\ (l + 1 > id - 1 => id - l - 1 = 0)
    BY <1>2
  <2> QED BY <2>1, FS_Interval
<1> HIDE DEF A, B
<1>7. Cardinality(A \cup B) = Cardinality(A) + Cardinality(B) - Cardinality({})
  BY <1>4, <1>5, <1>6, FS_Union
<1>8. Cardinality(A \cup B) = Cardinality(A) + (id - l - 1)
  BY <1>2, <1>5, <1>6, <1>7, FS_EmptySet
<1> QED BY <1>3, <1>4, <1>8 DEF A

\* Offering an id not below any other keeps the counters of the sequencer exact.
LEMMA OfferExact ==
  ASSUME NEW s, SequencerOK(s), NEW ids \in SUBSET Nat, Exact(s, ids),
         NEW id \in Nat, \A x \in ids : x <= id
  PROVE  SequencerOK(OfferTrade(s, id)) /\ Exact(OfferTrade(s, id), ids \cup {id})
<1> DEFINE t == OfferTrade(s, id)
<1>1. s.lastId \in Nat \cup {Nothing} /\ (ids # {} => s.lastId # Nothing)
  BY Constants DEF Exact
<1>2. /\ SequencerOK(t)
      /\ t.lastId = IF s.lastId = Nothing \/ id > s.lastId THEN id ELSE s.lastId
      /\ t.gapCount = s.gapCount + (IF s.lastId # Nothing /\ id > s.lastId + 1 THEN id - s.lastId - 1 ELSE 0)
  BY <1>1, OfferFields
<1>3. s.gapCount \in Nat
  BY DEF SequencerOK
<1> HIDE DEF t
<1>4. CASE ids = {}
  <2>1. s.lastId = Nothing /\ s.gapCount = 0
    BY <1>4 DEF Exact
  <2>2. t.lastId = id /\ t.gapCount = 0
    BY <1>2, <2>1
  <2>3. Min({id}) = id
    BY LeastIs
  <2>4. (id .. id) \ {id} = {}
    OBVIOUS
  <2>5. Cardinality((Min({id}) .. t.lastId) \ {id}) = 0
    BY <2>2, <2>3, <2>4, FS_EmptySet
  <2>6. Exact(t, {id})
    BY <2>2, <2>5 DEF Exact
  <2>7. ids \cup {id} = {id}
    BY <1>4
  <2> QED BY <1>2, <2>6, <2>7 DEF t
<1>5. CASE ids # {} /\ id = s.lastId
  <2>1. s.lastId \in ids /\ \A x \in ids : x <= s.lastId
    BY <1>5 DEF Exact
  <2>2. ids \cup {id} = ids
    BY <1>5, <2>1
  <2>3. t.lastId = s.lastId /\ t.gapCount = s.gapCount
    BY <1>1, <1>2, <1>3, <1>5
  <2>4. Exact(t, ids)
    BY <1>5, <2>3 DEF Exact
  <2> QED BY <1>2, <2>2, <2>4 DEF t
<1>6. CASE ids # {} /\ id # s.lastId
  <2> DEFINE l == s.lastId
  <2>1. l \in ids /\ (\A x \in ids : x <= l) /\ s.gapCount = Cardinality((Min(ids) .. l) \ ids)
    BY <1>6 DEF Exact
  <2> HIDE DEF l
  <2>2. l \in Nat /\ id > l /\ l # Nothing
    <3>1. l \in Nat /\ l <= id /\ id # l
      BY <1>6, <2>1 DEF l
    <3> QED BY <3>1, Constants
  <2>3. t.lastId = id
    BY <1>2, <2>2 DEF l
  <2>4. t.gapCount = s.gapCount + (id - l - 1)
    <3>1. CASE id > l + 1
      BY <1>2, <2>2, <3>1 DEF l
    <3>2. CASE ~(id > l + 1)
      <4>1. id - l - 1 = 0
        BY <2>2, <3>2
      <4>2. t.gapCount = s.gapCount + 0
        BY <1>2, <3>2 DEF l
      <4> QED BY <4>1, <4>2
    <3> QED BY <3>1, <3>2
  <2>5. /\ Min(ids \cup {id}) = Min(ids)
        /\ Cardinality((Min(ids) .. id) \ (ids \cup {id})) = Cardinality((Min(ids) .. l) \ ids) + (id - l - 1)
    BY <2>1, <2>2, GapGrows
  <2>6. t.gapCount = Cardinality((Min(ids \cup {id}) .. t.lastId) \ (ids \cup {id}))
    BY <2>1, <2>3, <2>4, <2>5
  <2>7. Exact(t, ids \cup {id})
    BY <2>3, <2>6 DEF Exact
  <2> QED BY <1>2, <2>7 DEF t
<1> QED BY <1>4, <1>5, <1>6

(* A batch that ascends from what was offered before it.                   *)
LEMMA BatchExact ==
  ASSUME NEW s, SequencerOK(s), NEW ids \in SUBSET Nat, Exact(s, ids),
         NEW b \in Seq(Nat),
         \A x \in ids, i \in 1 .. Len(b) : x <= b[i],
         \A i, j \in 1 .. Len(b) : i < j => b[i] <= b[j]
  PROVE  LET t == FoldLeft(OfferTrade, s, b)
         IN  /\ SequencerOK(t) /\ t.seqCounter = s.seqCounter + Len(b)
             /\ Exact(t, ids \cup {b[i] : i \in 1 .. Len(b)})
<1>1. FoldLeft(OfferTrade, s, b) = FT!Fold(s, b)
  BY DEF FoldLeft, MapThenFoldSet, Max, FT!Fold, FT!FoldLeft, FT!MapThenFoldSet, FT!Max
<1>2. PICK h : FT!Passes(s, b, h) /\ h[Len(b)] = FT!Fold(s, b)
  BY FT!FoldPasses
<1> DEFINE Seen(k) == ids \cup {b[i] : i \in 1 .. k}
           Good == {k \in 0 .. Len(b) : /\ SequencerOK(h[k]) /\ h[k].seqCounter = s.seqCounter + k
                                        /\ Exact(h[k], Seen(k))}
<1>3. Len(b) \in Nat
  OBVIOUS
<1>4. 0 \in Good
  <2>1. h[0] = s
    BY <1>2 DEF FT!Passes
  <2>2. Seen(0) = ids
    OBVIOUS
  <2>3. s.seqCounter = s.seqCounter + 0
    BY DEF SequencerOK
  <2> HIDE DEF Seen
  <2> QED BY <1>3, <2>1, <2>2, <2>3
<1>5. ASSUME NEW k \in 0 .. Len(b) - 1, k \in Good PROVE k + 1 \in Good
  <2>1. k + 1 \in 1 .. Len(b) /\ k + 1 - 1 = k /\ k + 1 \in 0 .. Len(b)
    BY <1>3
  <2> DEFINE u == h[k]
             v == b[k + 1]
  <2>2. h[k + 1] = OfferTrade(u, v) /\ v \in Nat
    BY <1>2, <2>1 DEF FT!Passes
  <2>3. Seen(k + 1) = Seen(k) \cup {v}
    <3>1. 1 .. k + 1 = (1 .. k) \cup {k + 1}
      BY <1>3
    <3> QED BY <3>1
  <2>4. Seen(k) \in SUBSET Nat /\ \A x \in Seen(k) : x <= v
    <3>1. \A i \in 1 .. k : i \in 1 .. Len(b) /\ i < k + 1 /\ b[i] \in Nat
      BY <1>3
    <3>2. \A i \in 1 .. k : b[i] <= v
      BY <2>1, <3>1
    <3>3. \A x \in ids : x <= v
      BY <2>1
    <3> QED BY <3>1, <3>2, <3>3
  <2>5. SequencerOK(u) /\ u.seqCounter = s.seqCounter + k /\ Exact(u, Seen(k))
    BY <1>5
  <2> HIDE DEF Seen, u, v
  <2>6. SequencerOK(h[k + 1]) /\ Exact(h[k + 1], Seen(k + 1))
    BY <2>2, <2>3, <2>4, <2>5, OfferExact
  <2>7. h[k + 1].seqCounter = s.seqCounter + (k + 1)
    <3>1. u.lastId \in Nat \cup {Nothing}
      BY <2>4, <2>5 DEF Exact
    <3>2. h[k + 1].seqCounter = u.seqCounter + 1
      BY <2>2, <2>5, <3>1, OfferFields
    <3>3. s.seqCounter \in Nat
      BY DEF SequencerOK
    <3> QED BY <2>5, <3>2, <3>3
  <2> QED BY <2>1, <2>6, <2>7
<1>6. Len(b) \in Good
  <2> HIDE DEF Good
  <2>1. 0 .. Len(b) \subseteq Good
    BY <1>3, <1>4, <1>5, FT!BoundedInduction
  <2> QED BY <1>3, <2>1
<1> QED BY <1>1, <1>2, <1>6

\* A poll touches none of those counters.
LEMMA PollKeeps ==
  ASSUME NEW s, SequencerOK(s), NEW ids, Exact(s, ids)
  PROVE  /\ SequencerOK(S!PollReady(s)) /\ Exact(S!PollReady(s), ids)
         /\ S!PollReady(s).seqCounter = s.seqCounter
<1> DEFINE t == S!PollReady(s)
<1>1. s = [heap |-> s.heap, seqCounter |-> s.seqCounter, maxSeen |-> s.maxSeen,
           lastId |-> s.lastId, outOfOrder |-> s.outOfOrder, gapCount |-> s.gapCount]
  BY DEF SequencerOK
<1>2. t = [heap |-> s.heap \ S!ReadyEntries(s), seqCounter |-> s.seqCounter, maxSeen |-> s.maxSeen,
           lastId |-> s.lastId, outOfOrder |-> s.outOfOrder, gapCount |-> s.gapCount]
  BY <1>1 DEF S!PollReady
<1> HIDE DEF t
<1>3. /\ t.seqCounter = s.seqCounter /\ t.lastId = s.lastId /\ t.gapCount = s.gapCount
      /\ SequencerOK(t)
  BY <1>2 DEF SequencerOK
<1>4. Exact(t, ids)
  BY <1>3 DEF Exact
<1> QED BY <1>3, <1>4 DEF t
-----------------------------------------------------------------------------
(* The steps.                                                              *)

\* A match was pushed.
Pushed(id) ==
  /\ ring' \in RingType
  /\ ring'.size = IF ring.size = Capacity THEN ring.size ELSE ring.size + 1
  /\ ring'.size > 0
  /\ Held'[ring'.size] = id
  /\ \A k \in 1 .. ring'.size - 1 : Held'[k] = Held[k + (ring.size + 1 - ring'.size)]

\* The n oldest items went to the sequencer.
Drained(n) ==
  /\ ring' \in RingType
  /\ ring'.size = ring.size - n
  /\ \A k \in 1 .. ring'.size : Held'[k] = Held[n + k]
  /\ offered' = offered \cup {Held[i] : i \in 1 .. n}

\* Only the client or the exchange moved.
ClientStep ==
  /\ UNCHANGED <<ring, sq, offered>>
  /\ RunStep \/ Environment \/ Stop \/ Cancel

\* The ranges of ring, wire and counters in one place.
LEMMA Sizes ==
  ASSUME TypeOK, ring \in RingType
  PROVE  /\ ring.size \in Nat /\ ring.size <= Capacity /\ made \in Nat /\ reconnects \in Nat
         /\ offered \subseteq Nat /\ Reached \subseteq 1 .. made /\ made + 1 \notin Reached
         /\ \A i \in 1 .. ring.size : Held[i] \in Nat /\ Held[i] \in Reached /\ Held[i] \in 1 .. made
         /\ wire \in Seq(MessageType) /\ Len(wire) \in Nat
         /\ \A i \in 1 .. Len(wire) : wire[i] \in MessageType
<1>1. ring.size \in Nat /\ ring.size <= Capacity
  BY RingFacts
<1>2. made \in Nat /\ reconnects \in Nat /\ wire \in Seq(MessageType)
  BY Constants DEF TypeOK, ClientTypeOK
<1>3. \A i \in 1 .. ring.size : Held[i] \in 1 .. made
  BY DEF TypeOK, Held
<1>4. Reached \subseteq 1 .. made
  BY <1>3 DEF TypeOK, Reached, Items
<1>5. made + 1 \notin 1 .. made /\ 1 .. made \subseteq Nat
  BY <1>2
<1>6. \A i \in 1 .. ring.size : Held[i] \in Reached
  BY DEF Reached, Items
<1>7. offered \subseteq Nat
  BY <1>5 DEF TypeOK
<1>8. Len(wire) \in Nat /\ \A i \in 1 .. Len(wire) : wire[i] \in MessageType
  BY <1>2
<1>9. \A i \in 1 .. ring.size : Held[i] \in Nat
  BY <1>3, <1>5
<1> QED BY <1>1, <1>2, <1>3, <1>4, <1>5, <1>6, <1>7, <1>8, <1>9

\* What reading one message changes.
LEMMA ReadEffect ==
  ASSUME TypeOK, ring \in RingType, WireOK, NEW id, Read(id)
  PROVE  /\ Len(wire) > 0 /\ 1 \in 1 .. Len(wire)
         /\ wire' = Tail(wire) /\ wire' \in Seq(MessageType) /\ Len(wire') = Len(wire) - 1
         /\ \A i \in 1 .. Len(wire') : i + 1 \in 1 .. Len(wire) /\ wire'[i] = wire[i + 1]
         /\ UNCHANGED <<pc, stop, connected, delay, reconnects, cancelled, link, made, failed, sq, offered>>
         /\ pc = "reading"
         /\ received' \in Nat
         /\ \/ wire[1].type = "subscriptions" /\ ring' = ring
            \/ wire[1].type # "subscriptions" /\ wire[1].id \in 1 .. made /\ Pushed(wire[1].id)
<1> USE Sizes
<1>1. /\ pc = "reading" /\ wire # <<>> /\ id = ParseMatch(Head(wire)) /\ wire' = Tail(wire)
      /\ UNCHANGED <<pc, stop, connected, delay, reconnects, cancelled, link, made, failed, sq, offered>>
      /\ ring' = IF id = Nothing THEN ring ELSE R!PushNowait(ring, id)
  BY DEF Read, Receive
<1>2. Len(wire) > 0 /\ 1 \in 1 .. Len(wire) /\ Head(wire) = wire[1]
  BY <1>1
<1>3. wire' \in Seq(MessageType) /\ Len(wire') = Len(wire) - 1
  BY <1>1, <1>2
<1>4. \A i \in 1 .. Len(wire') : i + 1 \in 1 .. Len(wire) /\ wire'[i] = wire[i + 1]
  BY <1>1, <1>2, <1>3
<1>5. received' \in Nat
  BY DEF Read, Receive, TypeOK, ClientTypeOK
<1>6. wire[1].type \in {"match", "last_match", "subscriptions"}
  BY <1>2 DEF MessageType
<1>7. CASE wire[1].type = "subscriptions"
  <2>1. id = Nothing
    BY <1>1, <1>2, <1>7 DEF ParseMatch
  <2> QED BY <1>1, <1>2, <1>3, <1>4, <1>5, <1>7, <2>1
<1>8. CASE wire[1].type # "subscriptions"
  <2>1. id = wire[1].id
    BY <1>1, <1>2, <1>6, <1>8 DEF ParseMatch
  <2>2. id \in 1 .. made
    BY <1>2, <1>8, <2>1 DEF WireOK
  <2>3. id \in Nat /\ id # Nothing
    BY <2>2, Constants
  <2>4. ring' = R!PushNowait(ring, id)
    BY <1>1, <2>3
  <2>5. Pushed(id)
    <3> DEFINE c == ring'
    <3>1. c = R!PushNowait(ring, id) /\ ring \in RingType
      BY <2>4
    <3> HIDE DEF c
    <3>2. PushedOn(ring, c, id)
      BY ONLY <2>3, <3>1, PushContents
    <3> QED BY <3>2 DEF PushedOn, Pushed, Held, c
  <2> QED BY <1>1, <1>2, <1>3, <1>4, <1>5, <1>8, <2>1, <2>2, <2>5
<1> QED BY <1>7, <1>8

\* What a trip of the consumer changes: a drain, and as many offers.
LEMMA ConsumeEffect ==
  ASSUME TypeOK, ring \in RingType, SequencerOK(sq), Exact(sq, offered), ItemsAscend, Consume
  PROVE  /\ UNCHANGED clientVars
         /\ \E n \in 0 .. ring.size : Drained(n) /\ sq'.seqCounter = sq.seqCounter + n
         /\ SequencerOK(sq') /\ Exact(sq', offered')
<1> USE Sizes
<1> DEFINE n == R!DrainCount(ring, BatchMax)
<1>1. n \in 0 .. ring.size
  BY Constants DEF R!DrainCount
<1>2. Batch = R!DrainedItems(ring, n) /\ DOMAIN Batch = 1 .. n
  BY DEF Batch, R!DrainedItems
<1>3. \A k \in 1 .. n : k \in 1 .. ring.size /\ Batch[k] = Held[k]
  BY <1>1, <1>2, DrainContents DEF Held
<1>4. Batch \in Seq(Nat) /\ Len(Batch) = n
  <2>1. Batch = [k \in 1 .. n |-> Held[k]]
    BY <1>2, <1>3 DEF R!DrainedItems
  <2> HIDE DEF n
  <2>2. [k \in 1 .. n |-> Held[k]] \in Seq(Nat) /\ Len([k \in 1 .. n |-> Held[k]]) = n
    BY <1>1, <1>3
  <2> QED BY <2>1, <2>2
<1> HIDE DEF n
<1>5. ring' = R!DrainNowait(ring, n)
  BY <1>4 DEF Consume, DrainRing
<1>6. offered' = offered \cup {Batch[i] : i \in 1 .. Len(Batch)}
  BY <1>2, <1>4 DEF Consume
<1>7. offered' = offered \cup {Held[i] : i \in 1 .. n}
  BY <1>3, <1>4, <1>6
<1>8. Drained(n)
  BY <1>1, <1>5, <1>7, DrainContents DEF Drained, Held
<1> DEFINE t == FoldLeft(OfferTrade, sq, Batch)
<1>9. SequencerOK(t) /\ t.seqCounter = sq.seqCounter + Len(Batch) /\ Exact(t, offered')
  <2>1. \A x \in offered, i \in 1 .. Len(Batch) : x <= Batch[i]
    BY <1>3, <1>4 DEF ItemsAscend
  <2>2. \A i, j \in 1 .. Len(Batch) : i < j => Batch[i] <= Batch[j]
    BY <1>3, <1>4 DEF ItemsAscend
  <2>3. offered \in SUBSET Nat
    OBVIOUS
  <2> QED BY <1>4, <1>6, <2>1, <2>2, <2>3, BatchExact
<1>10. sq' = S!PollReady(t)
  BY DEF Consume
<1> HIDE DEF t
<1>11. SequencerOK(sq') /\ Exact(sq', offered') /\ sq'.seqCounter = sq.seqCounter + n
  BY <1>4, <1>9, <1>10, PollKeeps
<1> QED BY <1>1, <1>8, <1>11 DEF Consume

\* A step reads, consumes, or is of the client alone.
LEMMA StepCases ==
  ASSUME Next
  PROVE  (\E id : Read(id)) \/ Consume \/ ClientStep
BY DEF Next, Alone, ClientStep
-----------------------------------------------------------------------------
(* What a step of the client or of the exchange does to the wire.          *)

\* Messages were read or lost, at one end.
WireCut(d) ==
  /\ wire' \in Seq(MessageType)
  /\ \A i \in 1 .. Len(wire') : i + d \in 1 .. Len(wire) /\ wire'[i] = wire[i + d]

\* A trade was made and sent.
Appended ==
  /\ made' = made + 1
  /\ link = "subscribed"
  /\ wire' \in Seq(MessageType) /\ Len(wire') = Len(wire) + 1
  /\ \A i \in 1 .. Len(wire) : wire'[i] = wire[i]
  /\ wire'[Len(wire) + 1] = [type |-> "match", id |-> made + 1]

\* A subscription was answered.
Answered ==
  /\ made' = made /\ link = "open" /\ link' = "subscribed" /\ wire = <<>>
  /\ wire' \in Seq(MessageType) /\ Len(wire') > 0
  /\ \A i \in 1 .. Len(wire') :
       \/ wire'[i].type = "subscriptions" /\ wire'[i].id = Nothing
       \/ i = 1 /\ wire'[i].type = "last_match" /\ wire'[i].id \in 1 .. made /\ wire'[i].id = made

\* The elements of a prefix and of a tail of the wire.
LEMMA CutFacts ==
  ASSUME NEW s \in Seq(MessageType)
  PROVE  /\ \A n \in 0 .. Len(s) : /\ SubSeq(s, 1, n) \in Seq(MessageType)
                                   /\ Len(SubSeq(s, 1, n)) = n
                                   /\ \A i \in 1 .. n : SubSeq(s, 1, n)[i] = s[i]
         /\ s # <<>> => /\ Tail(s) \in Seq(MessageType)
                        /\ Len(Tail(s)) = Len(s) - 1 /\ Len(s) > 0
                        /\ \A i \in 1 .. Len(s) - 1 : Tail(s)[i] = s[i + 1]
OBVIOUS

\* A step of the client makes at most one trade, and cuts, extends or answers on the wire.
LEMMA ClientEffect ==
  ASSUME TypeOK, Control, ClientStep
  PROVE  /\ made' \in made .. made + 1 /\ made' \in 0 .. MaxTrades
         /\ (\E d \in 0 .. 1 : WireCut(d)) \/ Appended \/ Answered
<1> DEFINE Same == \E d \in 0 .. 1 : WireCut(d)
<1>1. /\ made \in Nat /\ made \in 0 .. MaxTrades /\ wire \in Seq(MessageType) /\ Len(wire) \in Nat
      /\ MaxTrades \in Nat
  BY Constants DEF TypeOK, ClientTypeOK
<1>2. ASSUME wire' = wire PROVE Same
  <2>1. WireCut(0)
    BY <1>1, <1>2 DEF WireCut
  <2> QED BY <2>1
<1>3. ASSUME wire' = <<>> PROVE Same
  <2>1. WireCut(0)
    BY <1>3 DEF WireCut
  <2> QED BY <2>1
<1>4. ASSUME wire # <<>>, wire' = Tail(wire) PROVE Same
  <2>1. /\ wire' \in Seq(MessageType) /\ Len(wire') = Len(wire) - 1
        /\ \A i \in 1 .. Len(wire) - 1 : wire'[i] = wire[i + 1]
    BY <1>1, <1>4, CutFacts
  <2>2. \A i \in 1 .. Len(wire) - 1 : i + 1 \in 1 .. Len(wire)
    BY <1>1
  <2>3. WireCut(1)
    BY <2>1, <2>2 DEF WireCut
  <2> QED BY <2>3
<1>5. ASSUME NEW n \in 0 .. Len(wire), wire' = SubSeq(wire, 1, n) PROVE Same
  <2>1. /\ wire' \in Seq(MessageType) /\ Len(wire') = n
        /\ \A i \in 1 .. n : wire'[i] = wire[i]
    BY <1>1, <1>5, CutFacts
  <2>2. \A i \in 1 .. n : i + 0 = i /\ i \in 1 .. Len(wire)
    BY <1>1
  <2>3. WireCut(0)
    BY <2>1, <2>2 DEF WireCut
  <2> QED BY <2>3
<1>6. CASE Trade
  <2>1. made < MaxTrades /\ made' = made + 1
    BY <1>6 DEF Trade
  <2>2. made' \in made .. made + 1 /\ made' \in 0 .. MaxTrades /\ made + 1 \in 1 .. MaxTrades
    BY <1>1, <2>1
  <2>3. CASE link = "subscribed"
    <3> DEFINE msg == [type |-> "match", id |-> made + 1]
    <3>1. wire' = Append(wire, msg) /\ msg \in MessageType
      BY <1>6, <2>1, <2>2, <2>3 DEF Trade, MessageType
    <3> HIDE DEF msg
    <3>2. /\ wire' \in Seq(MessageType) /\ Len(wire') = Len(wire) + 1
          /\ \A i \in 1 .. Len(wire) : wire'[i] = wire[i]
          /\ wire'[Len(wire) + 1] = msg
      BY <1>1, <3>1
    <3> QED BY <2>1, <2>2, <2>3, <3>2 DEF Appended, msg
  <2>4. CASE link # "subscribed"
    <3>1. wire' = wire
      BY <1>6, <2>4 DEF Trade
    <3> QED BY <1>2, <2>2, <3>1
  <2> QED BY <2>3, <2>4
<1>7. CASE Answer
  <2>1. made' = made /\ link = "open" /\ link' = "subscribed" /\ wire = <<>>
    BY <1>7 DEF Answer, Control
  <2> DEFINE sub == [type |-> "subscriptions", id |-> Nothing]
             last == [type |-> "last_match", id |-> made]
  <2>2. wire' = IF made = 0 THEN <<sub>> ELSE <<last, sub>>
    BY <1>7 DEF Answer
  <2>3. sub \in MessageType /\ (made # 0 => last \in MessageType /\ made \in 1 .. made)
    BY <1>1 DEF MessageType
  <2>4. /\ sub.type = "subscriptions" /\ sub.id = Nothing
        /\ last.type = "last_match" /\ last.id = made
    OBVIOUS
  <2> HIDE DEF sub, last
  <2>5. Answered
    <3>1. CASE made = 0
      <4>1. wire' \in Seq(MessageType) /\ Len(wire') = 1 /\ wire'[1] = sub
        BY <2>2, <2>3, <3>1
      <4>2. \A i \in 1 .. Len(wire') : i = 1
        BY <4>1
      <4> QED BY <2>1, <2>4, <4>1, <4>2 DEF Answered
    <3>2. CASE made # 0
      <4>1. wire' \in Seq(MessageType) /\ Len(wire') = 2 /\ wire'[1] = last /\ wire'[2] = sub
        BY <2>2, <2>3, <3>2
      <4>2. \A i \in 1 .. Len(wire') : i = 1 \/ i = 2
        BY <4>1
      <4> QED BY <2>1, <2>3, <2>4, <3>2, <4>1, <4>2 DEF Answered
    <3> QED BY <3>1, <3>2
  <2> QED BY <1>1, <2>1, <2>5
<1>8. CASE \E n \in 0 .. Len(wire) : LinkBreaks(n)
  <2>1. PICK n \in 0 .. Len(wire) : LinkBreaks(n)
    BY <1>8
  <2>2. wire' = SubSeq(wire, 1, n) /\ made' = made
    BY <2>1 DEF LinkBreaks
  <2> QED BY <1>1, <1>5, <2>2
<1>9. CASE RunStep \/ Stop \/ Cancel
  <2>1. made' = made
    BY <1>9 DEF RunStep, Start, Connect, ConnectFails, Subscribe, SubscribeFails, BreakOff, EndOfStream,
                Closed, Wake, Stop, Cancel, exchange
  <2>2. wire' = wire \/ wire' = <<>> \/ (wire # <<>> /\ wire' = Tail(wire))
    BY <1>9 DEF RunStep, Start, Connect, ConnectFails, Subscribe, SubscribeFails, BreakOff, EndOfStream,
                Closed, Wake, Stop, Cancel, exchange
  <2>3. Same
    BY <1>2, <1>3, <1>4, <2>2
  <2> QED BY <1>1, <2>1, <2>3
<1> QED BY <1>6, <1>7, <1>8, <1>9 DEF ClientStep, Environment
-----------------------------------------------------------------------------
(* The order is kept.                                                      *)

LEMMA SameReached ==
  ASSUME UNCHANGED <<ring, offered>>
  PROVE  Held' = Held /\ Reached' = Reached /\ (ItemsAscend => ItemsAscend')
BY DEF Held, Items, Reached, ItemsAscend

\* Losing the end of the wire keeps the order,
LEMMA CutKeepsOrder ==
  ASSUME TypeOK, ring \in RingType, Order, NEW d \in 0 .. 1, WireCut(d), made' \in made .. made + 1,
         UNCHANGED <<ring, offered>>
  PROVE  Order'
<1> USE Sizes
<1>1. Len(wire') \in Nat /\ \A i \in 1 .. Len(wire') : i + d \in 1 .. Len(wire) /\ wire'[i] = wire[i + d]
  BY DEF WireCut
<1>2. made' \in Nat /\ made <= made'
  OBVIOUS
<1>3. WireOK'
  <2>1. 1 .. made \subseteq 1 .. made'
    BY <1>2
  <2>2. ASSUME NEW i \in 1 .. Len(wire')
        PROVE  IF wire'[i].type = "subscriptions" THEN wire'[i].id = Nothing ELSE wire'[i].id \in 1 .. made'
    <3>1. i + d \in 1 .. Len(wire) /\ wire'[i] = wire[i + d]
      BY <1>1
    <3> QED BY <2>1, <3>1 DEF Order, WireOK
  <2> QED BY <2>2 DEF WireOK
<1>4. WireAscends'
  <2>1. ASSUME NEW i \in 1 .. Len(wire'), wire'[i].type = "last_match" PROVE i = 1
    BY <1>1, <2>1 DEF Order, WireAscends
  <2>2. ASSUME NEW i \in 1 .. Len(wire'), NEW j \in 1 .. Len(wire'), i < j,
               wire'[i].type # "subscriptions", wire'[j].type # "subscriptions"
        PROVE  wire'[i].id < wire'[j].id
    <3>1. i + d < j + d /\ i + d \in 1 .. Len(wire) /\ j + d \in 1 .. Len(wire)
      BY <1>1, <2>2
    <3> QED BY <1>1, <2>2, <3>1 DEF Order, WireAscends
  <2> QED BY <2>1, <2>2 DEF WireAscends
<1>5. WireAhead'
  BY <1>1, SameReached DEF Order, WireAhead
<1> QED BY <1>3, <1>4, <1>5, SameReached DEF Order

\* a new trade at its end keeps it,
LEMMA AppendKeepsOrder ==
  ASSUME TypeOK, ring \in RingType, Order, Appended, UNCHANGED <<ring, offered>>
  PROVE  Order'
<1> DEFINE n == Len(wire)
<1>1. /\ n \in Nat /\ made \in Nat /\ Reached \subseteq 1 .. made /\ Len(wire') = n + 1 /\ made' = made + 1
      /\ \A i \in 1 .. n : wire'[i] = wire[i]
      /\ wire'[n + 1].type = "match" /\ wire'[n + 1].id = made + 1
  BY Sizes DEF Appended
<1>2. \A i \in 1 .. n : wire[i].type = "subscriptions" \/ wire[i].id \in 1 .. made
  BY DEF Order, WireOK
<1>3. \A i \in 1 .. Len(wire') : i \in 1 .. n \/ i = n + 1
  BY <1>1
<1> HIDE DEF n
<1>4. WireOK'
  <2>1. ASSUME NEW i \in 1 .. Len(wire')
        PROVE  IF wire'[i].type = "subscriptions" THEN wire'[i].id = Nothing ELSE wire'[i].id \in 1 .. made'
    <3>1. CASE i \in 1 .. n
      BY <1>1, <1>2, <3>1 DEF Order, WireOK, n
    <3>2. CASE i = n + 1
      BY <1>1, <3>2
    <3> QED BY <1>3, <3>1, <3>2
  <2> QED BY <2>1 DEF WireOK
<1>5. WireAscends'
  <2>1. ASSUME NEW i \in 1 .. Len(wire'), wire'[i].type = "last_match" PROVE i = 1
    <3>1. i \in 1 .. n
      BY <1>1, <1>3, <2>1
    <3> QED BY <1>1, <2>1, <3>1 DEF Order, WireAscends, n
  <2>2. ASSUME NEW i \in 1 .. Len(wire'), NEW j \in 1 .. Len(wire'), i < j,
               wire'[i].type # "subscriptions", wire'[j].type # "subscriptions"
        PROVE  wire'[i].id < wire'[j].id
    <3>1. i \in 1 .. n
      BY <1>1, <1>3, <2>2
    <3>2. CASE j \in 1 .. n
      BY <1>1, <2>2, <3>1, <3>2 DEF Order, WireAscends, n
    <3>3. CASE j = n + 1
      <4>1. wire[i].id \in 1 .. made
        BY <1>1, <1>2, <2>2, <3>1
      <4> QED BY <1>1, <3>1, <3>3, <4>1
    <3> QED BY <1>3, <3>2, <3>3
  <2> QED BY <2>1, <2>2 DEF WireAscends
<1>6. WireAhead'
  <2>1. ASSUME NEW x \in Reached, NEW i \in 1 .. Len(wire')
        PROVE  /\ wire'[i].type = "match" => x < wire'[i].id
               /\ wire'[i].type = "last_match" => x <= wire'[i].id
    <3>1. CASE i \in 1 .. n
      BY <1>1, <3>1 DEF Order, WireAhead, n
    <3>2. CASE i = n + 1
      BY <1>1, <3>2
    <3> QED BY <1>3, <3>1, <3>2
  <2> QED BY <2>1, SameReached DEF WireAhead
<1> QED BY <1>4, <1>5, <1>6, SameReached DEF Order

\* and so does the answer to a subscription.
LEMMA AnswerKeepsOrder ==
  ASSUME TypeOK, ring \in RingType, Order, Answered, UNCHANGED <<ring, offered>>
  PROVE  Order'
<1>1. /\ made \in Nat /\ Reached \subseteq 1 .. made /\ made' = made /\ Len(wire') \in Nat
      /\ \A i \in 1 .. Len(wire') :
           \/ wire'[i].type = "subscriptions" /\ wire'[i].id = Nothing
           \/ i = 1 /\ wire'[i].type = "last_match" /\ wire'[i].id \in 1 .. made /\ wire'[i].id = made
  BY Sizes DEF Answered
<1>2. WireOK'
  BY <1>1 DEF WireOK
<1>3. WireAscends'
  BY <1>1 DEF WireAscends
<1>4. WireAhead'
  <2>1. ASSUME NEW x \in Reached, NEW i \in 1 .. Len(wire')
        PROVE  /\ wire'[i].type = "match" => x < wire'[i].id
               /\ wire'[i].type = "last_match" => x <= wire'[i].id
    <3>1. x \in Nat /\ x <= made
      BY <1>1
    <3>2. wire'[i].type # "match" /\ (wire'[i].type = "last_match" => wire'[i].id = made)
      BY <1>1
    <3> QED BY <3>1, <3>2
  <2> QED BY <2>1, SameReached DEF WireAhead
<1> QED BY <1>2, <1>3, <1>4, SameReached DEF Order

\* After a push only what the ring dropped is no longer reached.
LEMMA PushedReached ==
  ASSUME TypeOK, ring \in RingType, NEW x \in 1 .. made, Pushed(x), offered' = offered
  PROVE  /\ Reached' \subseteq Reached \cup {x}
         /\ ring.size < Capacity => Reached' = Reached \cup {x}
         /\ ring.size = Capacity => Reached \cup {x} \subseteq Reached' \cup {Held[1]}
         /\ \A i \in 1 .. ring'.size :
              \/ i = ring'.size /\ Held'[i] = x
              \/ /\ i \in 1 .. ring'.size - 1 /\ i + (ring.size + 1 - ring'.size) \in 1 .. ring.size
                 /\ Held'[i] = Held[i + (ring.size + 1 - ring'.size)]
<1> DEFINE n == ring.size
           m == ring'.size
<1>1. /\ n \in Nat /\ n <= Capacity /\ m = (IF n = Capacity THEN n ELSE n + 1) /\ m > 0 /\ m \in Nat
      /\ Capacity \in Nat
      /\ Held'[m] = x /\ \A k \in 1 .. m - 1 : Held'[k] = Held[k + (n + 1 - m)]
  BY Sizes, Constants DEF Pushed
<1> HIDE DEF n, m
<1>2. \A i \in 1 .. m : \/ i = m /\ Held'[i] = x
                        \/ /\ i \in 1 .. m - 1 /\ i + (n + 1 - m) \in 1 .. n
                           /\ Held'[i] = Held[i + (n + 1 - m)]
  BY <1>1
<1>3. Items' \subseteq Items \cup {x} /\ x \in Items'
  BY <1>1, <1>2 DEF Items, n, m
<1>4. CASE n < Capacity
  <2>1. \A k \in 1 .. n : k \in 1 .. m /\ Held'[k] = Held[k]
    BY <1>1, <1>4
  <2>2. Items \subseteq Items'
    BY <2>1 DEF Items, n, m
  <2> QED BY <1>1, <1>2, <1>3, <1>4, <2>2 DEF Reached, n, m
<1>5. CASE n = Capacity
  <2>1. \A k \in 2 .. n : k - 1 \in 1 .. m /\ Held'[k - 1] = Held[k]
    BY <1>1, <1>5
  <2>2. \A k \in 1 .. n : k = 1 \/ k \in 2 .. n
    BY <1>1
  <2>3. Items \subseteq Items' \cup {Held[1]}
    BY <2>1, <2>2 DEF Items, n, m
  <2>4. Reached \cup {x} \subseteq Reached' \cup {Held[1]} /\ Reached' \subseteq Reached \cup {x}
    BY <1>3, <2>3 DEF Reached
  <2>5. ~(n < Capacity)
    BY <1>1, <1>5
  <2> QED BY <1>2, <2>4, <2>5 DEF n, m
<1> QED BY <1>1, <1>4, <1>5

\* Reading a message keeps the order.
LEMMA ReadKeepsOrder ==
  ASSUME TypeOK, ring \in RingType, Order, NEW id, Read(id)
  PROVE  Order'
<1> DEFINE x == wire[1].id
<1>0. WireOK
  BY DEF Order
<1>1. /\ Len(wire) > 0 /\ 1 \in 1 .. Len(wire) /\ Len(wire') = Len(wire) - 1
      /\ wire' \in Seq(MessageType)
      /\ \A i \in 1 .. Len(wire') : i + 1 \in 1 .. Len(wire) /\ wire'[i] = wire[i + 1]
      /\ made' = made /\ offered' = offered
      /\ \/ wire[1].type = "subscriptions" /\ ring' = ring
         \/ wire[1].type # "subscriptions" /\ x \in 1 .. made /\ Pushed(x)
  BY <1>0, ReadEffect
<1>2. WireCut(1)
  BY <1>1 DEF WireCut
<1>3. CASE wire[1].type = "subscriptions" /\ ring' = ring
  <2>1. made' \in made .. made + 1
    BY <1>1, Sizes
  <2> QED BY <1>1, <1>2, <1>3, <2>1, CutKeepsOrder
<1>4. CASE wire[1].type # "subscriptions" /\ x \in 1 .. made /\ Pushed(x)
  <2> USE Sizes
  <2>1. Len(wire') \in Nat /\ \A i \in 1 .. Len(wire') : 1 < i + 1
    BY <1>1
  <2>2. WireOK'
    BY <1>1 DEF Order, WireOK
  <2>3. WireAscends'
    <3>1. ASSUME NEW i \in 1 .. Len(wire'), wire'[i].type = "last_match" PROVE i = 1
      <4>1. i + 1 \in 1 .. Len(wire) /\ wire[i + 1].type = "last_match" /\ i + 1 # 1
        BY <1>1, <2>1, <3>1
      <4> QED BY <4>1 DEF Order, WireAscends
    <3>2. ASSUME NEW i \in 1 .. Len(wire'), NEW j \in 1 .. Len(wire'), i < j,
                 wire'[i].type # "subscriptions", wire'[j].type # "subscriptions"
          PROVE  wire'[i].id < wire'[j].id
      <4>1. i + 1 < j + 1 /\ i + 1 \in 1 .. Len(wire) /\ j + 1 \in 1 .. Len(wire)
        BY <1>1, <3>2
      <4>2. wire'[i] = wire[i + 1] /\ wire'[j] = wire[j + 1]
        BY <1>1
      <4>3. WireAscends
        BY DEF Order
      <4>4. wire[i + 1].type # "subscriptions" /\ wire[j + 1].type # "subscriptions"
        BY <3>2, <4>2
      <4>5. wire[i + 1].id < wire[j + 1].id
        BY ONLY <4>1, <4>3, <4>4 DEF WireAscends
      <4> QED BY <4>2, <4>5
    <3> QED BY <3>1, <3>2 DEF WireAscends
  <2>4. x \in Nat /\ \A y \in Reached : y <= x
    <3>1. wire[1].type \in {"match", "last_match"}
      BY <1>1, <1>4 DEF MessageType
    <3>2. \A y \in Reached : y < x \/ y <= x
      BY <1>1, <3>1 DEF Order, WireAhead
    <3> QED BY <1>4, <3>2
  <2> DEFINE n == ring.size
             m == ring'.size
  <2>5. /\ Reached' \subseteq Reached \cup {x}
        /\ \A i \in 1 .. m :
             \/ i = m /\ Held'[i] = x
             \/ /\ i \in 1 .. m - 1 /\ i + (n + 1 - m) \in 1 .. n
                /\ Held'[i] = Held[i + (n + 1 - m)]
    BY <1>1, <1>4, PushedReached
  <2>6. WireAhead'
    <3>1. ASSUME NEW y \in Reached', NEW i \in 1 .. Len(wire')
          PROVE  /\ wire'[i].type = "match" => y < wire'[i].id
                 /\ wire'[i].type = "last_match" => y <= wire'[i].id
      <4>1. CASE y \in Reached
        BY <1>1, <4>1 DEF Order, WireAhead
      <4>2. CASE y = x
        <5>1. i + 1 \in 1 .. Len(wire) /\ wire'[i] = wire[i + 1] /\ 1 < i + 1
          BY <1>1, <2>1
        <5>2. wire[i + 1].type # "last_match"
          BY <5>1 DEF Order, WireAscends
        <5>3. wire[i + 1].type = "match" => x < wire[i + 1].id
          BY <1>1, <1>4, <5>1 DEF Order, WireAscends
        <5> QED BY <4>2, <5>1, <5>2, <5>3
      <4> QED BY <2>5, <4>1, <4>2
    <3> QED BY <3>1 DEF WireAhead
  <2>7. ItemsAscend'
    <3>1. m \in Nat /\ n \in Nat /\ m > 0
      BY <1>4 DEF Pushed
    <3> HIDE DEF n, m, x
    <3>2. ASSUME NEW y \in offered, NEW i \in 1 .. m PROVE y <= Held'[i]
      <4>1. y \in Reached
        BY DEF Reached
      <4>2. CASE i = m /\ Held'[i] = x
        BY <2>4, <4>1, <4>2
      <4>3. CASE ~(i = m /\ Held'[i] = x)
        <5>1. i + (n + 1 - m) \in 1 .. ring.size /\ Held'[i] = Held[i + (n + 1 - m)]
          BY <2>5, <4>3 DEF n
        <5> QED BY <5>1 DEF Order, ItemsAscend
      <4> QED BY <4>2, <4>3
    <3>3. ASSUME NEW i \in 1 .. m, NEW j \in 1 .. m, i < j PROVE Held'[i] <= Held'[j]
      <4>1. i # m
        BY <3>1, <3>3
      <4>2. i + (n + 1 - m) \in 1 .. ring.size /\ Held'[i] = Held[i + (n + 1 - m)]
        BY <2>5, <4>1 DEF n
      <4>3. CASE j = m /\ Held'[j] = x
        BY <2>4, <4>2, <4>3
      <4>4. CASE ~(j = m /\ Held'[j] = x)
        <5>1. j + (n + 1 - m) \in 1 .. ring.size /\ Held'[j] = Held[j + (n + 1 - m)]
          BY <2>5, <4>4 DEF n
        <5>2. i + (n + 1 - m) < j + (n + 1 - m)
          BY <3>1, <3>3
        <5> QED BY <4>2, <5>1, <5>2 DEF Order, ItemsAscend
      <4> QED BY <4>3, <4>4
    <3> QED BY <1>1, <3>2, <3>3 DEF ItemsAscend, m
  <2> QED BY <2>2, <2>3, <2>6, <2>7 DEF Order
<1> QED BY <1>1, <1>3, <1>4

\* A drain moves trades from the ring to the sequencer and loses none.
LEMMA DrainedReached ==
  ASSUME TypeOK, ring \in RingType, NEW n \in 0 .. ring.size, Drained(n)
  PROVE  Reached' = Reached
<1>1. /\ ring.size \in Nat /\ n \in Nat /\ n <= ring.size /\ ring'.size = ring.size - n
      /\ \A k \in 1 .. ring'.size : Held'[k] = Held[n + k]
      /\ offered' = offered \cup {Held[i] : i \in 1 .. n}
  BY Sizes DEF Drained
<1>2. Items \subseteq Reached'
  <2>1. ASSUME NEW i \in 1 .. ring.size PROVE Held[i] \in Reached'
    <3>1. CASE i <= n
      <4>1. i \in 1 .. n
        BY <1>1, <3>1
      <4> QED BY <1>1, <4>1 DEF Reached
    <3>2. CASE i > n
      <4>1. i - n \in 1 .. ring'.size /\ n + (i - n) = i
        BY <1>1, <3>2
      <4>2. Held'[i - n] = Held[i]
        BY <1>1, <4>1
      <4> QED BY <4>1, <4>2 DEF Reached, Items
    <3> QED BY <1>1, <3>1, <3>2
  <2> QED BY <2>1 DEF Items
<1>3. Items' \subseteq Items
  <2>1. ASSUME NEW k \in 1 .. ring'.size PROVE Held'[k] \in Items
    <3>1. n + k \in 1 .. ring.size
      BY <1>1
    <3> QED BY <1>1, <3>1 DEF Items
  <2> QED BY <2>1 DEF Items
<1>4. {Held[i] : i \in 1 .. n} \subseteq Items
  BY <1>1 DEF Items
<1> QED BY <1>1, <1>2, <1>3, <1>4 DEF Reached

\* A trip of the consumer keeps the order.
LEMMA ConsumeKeepsOrder ==
  ASSUME TypeOK, ring \in RingType, Order, NEW n \in 0 .. ring.size, Drained(n), UNCHANGED clientVars
  PROVE  Order'
<1>1. wire' = wire /\ made' = made
  BY DEF clientVars, exchange
<1>2. Reached' = Reached
  BY DrainedReached
<1>3. WireOK' /\ WireAscends' /\ WireAhead'
  BY <1>1, <1>2 DEF Order, WireOK, WireAscends, WireAhead
<1>4. /\ ring.size \in Nat /\ n \in Nat /\ n <= ring.size /\ ring'.size = ring.size - n
      /\ \A k \in 1 .. ring'.size : Held'[k] = Held[n + k]
      /\ offered' = offered \cup {Held[i] : i \in 1 .. n}
  BY Sizes DEF Drained
<1>5. \A k \in 1 .. ring'.size : n + k \in 1 .. ring.size /\ \A i \in 1 .. n : i \in 1 .. ring.size /\ i < n + k
  BY <1>4
<1>6. ASSUME NEW y \in offered', NEW k \in 1 .. ring'.size PROVE y <= Held'[k]
  <2>1. Held'[k] = Held[n + k] /\ n + k \in 1 .. ring.size
    BY <1>4, <1>5
  <2>2. CASE y \in offered
    BY <2>1, <2>2 DEF Order, ItemsAscend
  <2>3. CASE y \in {Held[i] : i \in 1 .. n}
    <3>1. PICK i \in 1 .. n : y = Held[i]
      BY <2>3
    <3>2. i \in 1 .. ring.size /\ i < n + k
      BY <1>5
    <3> QED BY <2>1, <3>1, <3>2 DEF Order, ItemsAscend
  <2> QED BY <1>4, <2>2, <2>3
<1>7. ASSUME NEW j \in 1 .. ring'.size, NEW k \in 1 .. ring'.size, j < k PROVE Held'[j] <= Held'[k]
  <2>1. Held'[j] = Held[n + j] /\ n + j \in 1 .. ring.size /\ Held'[k] = Held[n + k] /\ n + k \in 1 .. ring.size
    BY <1>4, <1>5
  <2>2. n + j < n + k
    BY <1>4, <1>7
  <2> QED BY <2>1, <2>2 DEF Order, ItemsAscend
<1>8. ItemsAscend'
  BY <1>6, <1>7 DEF ItemsAscend
<1> QED BY <1>3, <1>8 DEF Order
-----------------------------------------------------------------------------
(* The delay.                                                              *)

Doubled(v) == IF v * 2 < MaxDelay THEN v * 2 ELSE MaxDelay

\* The first m + 1 delays.
Delays(m, g) ==
  /\ g[0] = InitialDelay
  /\ \A n \in 1 .. m : g[n] = Doubled(g[n - 1])

\* The delays doubled up to the m-th exist for every m,
LEMMA DelaysExist == \A m \in Nat : \E g : Delays(m, g)
<1> DEFINE T == {m \in Nat : \E g : Delays(m, g)}
<1>1. 0 \in T
  <2> DEFINE g == [n \in 0 .. 0 |-> InitialDelay]
  <2>1. Delays(0, g)
    BY DEF Delays
  <2> QED BY <2>1
<1>2. ASSUME NEW m \in Nat, m \in T PROVE m + 1 \in T
  <2>1. PICK g : Delays(m, g)
    BY <1>2
  <2> DEFINE h == [n \in 0 .. m + 1 |-> IF n = m + 1 THEN Doubled(g[m]) ELSE g[n]]
  <2>2. h[0] = InitialDelay
    BY <2>1 DEF Delays
  <2>3. ASSUME NEW n \in 1 .. m + 1 PROVE h[n] = Doubled(h[n - 1])
    <3>1. CASE n = m + 1
      BY <3>1
    <3>2. CASE n # m + 1
      <4>1. n \in 1 .. m /\ n - 1 \in 0 .. m + 1 /\ n - 1 # m + 1
        BY <3>2
      <4>2. g[n] = Doubled(g[n - 1])
        BY <2>1, <4>1 DEF Delays
      <4>3. h[n] = g[n] /\ h[n - 1] = g[n - 1]
        BY <4>1
      <4> HIDE DEF h
      <4> QED BY <4>2, <4>3
    <3> QED BY <3>1, <3>2
  <2> HIDE DEF h
  <2>4. Delays(m + 1, h)
    BY <2>2, <2>3 DEF Delays
  <2> QED BY <2>4
<1>3. Nat \subseteq T
  <2> HIDE DEF T
  <2> QED BY <1>1, <1>2, FT!NatSetInduction
<1> QED BY <1>3

\* and those of different lengths agree where both are defined,
LEMMA DelaysAgree ==
  ASSUME NEW m \in Nat, NEW g, NEW k \in Nat, NEW h, Delays(m, g), Delays(k, h), m <= k
  PROVE  g[m] = h[m]
<1> DEFINE Same == {n \in 0 .. m : g[n] = h[n]}
<1>1. 0 \in Same
  BY DEF Delays
<1>2. ASSUME NEW n \in 0 .. m - 1, n \in Same PROVE n + 1 \in Same
  <2>1. n + 1 \in 1 .. m /\ n + 1 \in 1 .. k /\ n + 1 - 1 = n
    OBVIOUS
  <2>2. g[n + 1] = Doubled(g[n + 1 - 1])
    BY <2>1 DEF Delays
  <2>3. h[n + 1] = Doubled(h[n + 1 - 1])
    BY <2>1 DEF Delays
  <2> QED BY <1>2, <2>1, <2>2, <2>3
<1>3. 0 .. m \subseteq Same
  <2> HIDE DEF Same
  <2> QED BY <1>1, <1>2, FT!BoundedInduction
<1> QED BY <1>3

\* so the recursive definition of the backoff has its equations.
LEMMA BackoffDef ==
  /\ Backoff[0] = InitialDelay
  /\ \A n \in Nat : Backoff[n + 1] = Doubled(Backoff[n])
<1> DEFINE G(n) == CHOOSE g : Delays(n, g)
           f == [n \in Nat |-> G(n)[n]]
           B(h) == [n \in Nat |-> IF n = 0 THEN InitialDelay
                                  ELSE IF h[n - 1] * 2 < MaxDelay THEN h[n - 1] * 2 ELSE MaxDelay]
<1>1. \A n \in Nat : Delays(n, G(n))
  BY DelaysExist
<1> HIDE DEF G
<1>2. f[0] = InitialDelay
  BY <1>1 DEF Delays
<1>3. ASSUME NEW n \in Nat, n # 0 PROVE f[n] = Doubled(f[n - 1])
  <2>1. n - 1 \in Nat /\ n \in 1 .. n /\ n - 1 <= n
    BY <1>3
  <2>2. Delays(n, G(n)) /\ Delays(n - 1, G(n - 1))
    BY <1>1, <2>1
  <2>3. G(n)[n] = Doubled(G(n)[n - 1])
    BY <2>1, <2>2 DEF Delays
  <2>4. G(n - 1)[n - 1] = G(n)[n - 1]
    BY <2>1, <2>2, DelaysAgree
  <2> QED BY <2>1, <2>3, <2>4
<1>4. f = B(f)
  <2>1. \A n \in Nat : f[n] = IF n = 0 THEN InitialDelay
                              ELSE IF f[n - 1] * 2 < MaxDelay THEN f[n - 1] * 2 ELSE MaxDelay
    BY <1>2, <1>3 DEF Doubled
  <2>2. f = [n \in Nat |-> f[n]]
    OBVIOUS
  <2> HIDE DEF f
  <2> QED BY <2>1, <2>2
<1> HIDE DEF f
<1>5. Backoff = B(Backoff)
  BY <1>4 DEF Backoff
<1>6. Backoff[0] = InitialDelay
  BY <1>5
<1>7. ASSUME NEW n \in Nat PROVE Backoff[n + 1] = Doubled(Backoff[n])
  <2>1. n + 1 \in Nat /\ n + 1 # 0 /\ n + 1 - 1 = n
    OBVIOUS
  <2>2. Backoff[n + 1] = B(Backoff)[n + 1]
    BY <1>5
  <2> QED BY <2>1, <2>2 DEF Doubled
<1> QED BY <1>6, <1>7

\* A step of the client keeps the delay at the backoff of its failures.
LEMMA DelayStep ==
  ASSUME TypeOK, DelayInv, ClientStep
  PROVE  DelayInv' /\ failed' \in Nat /\ delay' \in Nat
<1>1. failed \in Nat /\ delay \in Nat /\ InitialDelay \in Nat /\ MaxDelay \in Nat /\ pc \in Places
  BY Constants DEF TypeOK, ClientTypeOK
<1>2. CASE Start \/ Connect \/ SubscribeFails \/ BreakOff \/ EndOfStream \/ Trade \/ Answer
           \/ (\E n \in 0 .. Len(wire) : LinkBreaks(n)) \/ Stop \/ Cancel
  <2>1. failed' = failed /\ delay' = delay
    BY <1>2 DEF Start, Connect, SubscribeFails, BreakOff, EndOfStream, Trade, Answer, LinkBreaks, Stop,
                Cancel
  <2>2. \/ pc' = pc \/ pc' \in {"returned", "cancelled"}
        \/ pc = "new" /\ pc' = "connecting"
        \/ pc \in {"connecting", "subscribing", "reading"} /\ pc' \in {"subscribing", "closing"}
    BY <1>2 DEF Start, LoopTop, Connect, SubscribeFails, BreakOff, EndOfStream, Trade, Answer, LinkBreaks,
                Stop, Cancel
  <2> QED BY <1>1, <2>1, <2>2 DEF DelayInv
<1>3. CASE ConnectFails \/ Closed
  <2>1. /\ failed' = failed + 1 /\ delay' = delay /\ pc' \in {"cancelled", "returned", "sleeping"}
        /\ pc \in {"connecting", "closing"}
    BY <1>3 DEF ConnectFails, Closed, AfterAttempt
  <2>2. failed' - 1 = failed /\ failed' > 0 /\ failed' \in Nat
    BY <1>1, <2>1
  <2> QED BY <1>1, <2>1, <2>2 DEF DelayInv
<1>4. CASE Subscribe
  <2>1. pc' = "reading" /\ failed' = 0 /\ delay' = InitialDelay
    BY <1>4 DEF Subscribe
  <2> QED BY <1>1, <2>1, BackoffDef DEF DelayInv
<1>5. CASE Wake
  <2>1. /\ pc = "sleeping" /\ delay' = Doubled(delay) /\ pc' \in {"returned", "connecting"}
        /\ failed' = failed
    BY <1>5 DEF Wake, LoopTop, Doubled
  <2>2. failed - 1 \in Nat /\ failed - 1 + 1 = failed /\ delay = Backoff[failed - 1]
    BY <1>1, <2>1 DEF DelayInv
  <2>3. delay' = Backoff[failed]
    BY <2>1, <2>2, BackoffDef
  <2>4. delay' \in Nat
    BY <1>1, <2>1 DEF Doubled
  <2> QED BY <1>1, <2>1, <2>3, <2>4 DEF DelayInv
<1> QED BY <1>2, <1>3, <1>4, <1>5 DEF ClientStep, RunStep, Environment
-----------------------------------------------------------------------------
(* The repeats.                                                            *)

LEMMA ReachedCount ==
  ASSUME TypeOK, ring \in RingType
  PROVE  /\ IsFiniteSet(Reached) /\ Cardinality(Reached) \in Nat
         /\ IsFiniteSet(offered) /\ Cardinality(offered) \in Nat
         /\ Cardinality(Reached) <= Cardinality(offered) + ring.size
<1> USE Sizes
<1>1. IsFiniteSet(1 .. made)
  BY FS_Interval
<1>2. IsFiniteSet(Reached) /\ IsFiniteSet(offered) /\ IsFiniteSet(Items)
  BY <1>1, FS_Subset DEF Reached
<1>3. Cardinality(Reached) \in Nat /\ Cardinality(offered) \in Nat /\ Cardinality(Items) \in Nat
  BY <1>2, FS_CardinalityType
<1>4. Cardinality(Items) <= ring.size
  <2> DEFINE f == [i \in 1 .. ring.size |-> Held[i]]
  <2>1. f \in Surjection(1 .. ring.size, Items)
    BY DEF Surjection, Items
  <2>2. ExistsSurjection(1 .. ring.size, Items)
    BY <2>1 DEF ExistsSurjection
  <2> QED BY <2>2, FS_SurjCardinalityBound
<1>5. Cardinality(Reached) = Cardinality(offered) + Cardinality(Items) - Cardinality(offered \cap Items)
  BY <1>2, FS_Union DEF Reached
<1>6. IsFiniteSet(offered \cap Items) /\ Cardinality(offered \cap Items) \in Nat
  BY <1>2, FS_Subset, FS_CardinalityType
<1>7. Cardinality(Reached) <= Cardinality(offered) + ring.size
  <2> DEFINE r == Cardinality(Reached)
             o == Cardinality(offered)
             t == Cardinality(Items)
             c == Cardinality(offered \cap Items)
  <2>1. r \in Nat /\ o \in Nat /\ t \in Nat /\ c \in Nat /\ t <= ring.size /\ r = o + t - c
    BY <1>3, <1>4, <1>5, <1>6
  <2> HIDE DEF r, o, t, c
  <2>2. r <= o + ring.size
    BY <2>1
  <2> QED BY <2>2 DEF r, o
<1> QED BY <1>2, <1>3, <1>7

\* The repeats are an integer and the reconnects a natural.
LEMMA RepeatsType ==
  ASSUME TypeOK, ring \in RingType, SequencerOK(sq)
  PROVE  Repeats \in Int /\ reconnects \in Nat
BY ReachedCount, Sizes DEF Repeats, SequencerOK

\* Whatever is cut from the wire or added to it, only an answer can leave a repeat there.
LEMMA PendingCut ==
  ASSUME TypeOK, ring \in RingType, Order, NEW d \in 0 .. 1, WireCut(d), Reached' = Reached, Pending'
  PROVE  Pending
<1> USE Sizes
<1>1. Len(wire') \in Nat /\ wire' # <<>> /\ wire'[1].type = "last_match" /\ wire'[1].id \in Reached
  BY DEF WireCut, Pending
<1>2. 1 \in 1 .. Len(wire')
  BY <1>1 DEF WireCut
<1>3. 1 + d \in 1 .. Len(wire) /\ wire'[1] = wire[1 + d]
  BY <1>2 DEF WireCut
<1>4. d = 0
  BY <1>1, <1>3 DEF Order, WireAscends
<1>5. wire # <<>> /\ wire'[1] = wire[1]
  BY <1>3, <1>4
<1> QED BY <1>1, <1>5 DEF Pending

\* A message at the end of the wire makes nothing pending that was not.
LEMMA PendingAppended ==
  ASSUME TypeOK, ring \in RingType, Appended, Reached' = Reached, Pending'
  PROVE  Pending
<1> USE Sizes
<1>1. wire'[1].type = "last_match" /\ wire'[1].id \in Reached
  BY DEF Pending
<1>2. CASE Len(wire) = 0
  <2>1. wire'[1].type = "match"
    BY <1>2 DEF Appended
  <2> QED BY <1>1, <2>1
<1>3. CASE Len(wire) # 0
  <2>1. 1 \in 1 .. Len(wire) /\ wire # <<>>
    BY <1>3
  <2>2. wire'[1] = wire[1]
    BY <2>1 DEF Appended
  <2> QED BY <1>1, <2>1, <2>2 DEF Pending
<1> QED BY <1>2, <1>3

\* What a step of the client does to the count of attempts.
LEMMA AttemptEffect ==
  ASSUME Control, Attempts, TypeOK, ClientStep
  PROVE  /\ reconnects' \in {reconnects, reconnects + 1} /\ reconnects' \in 0 .. MaxReconnects
         /\ Unanswered' => Unanswered \/ reconnects' = reconnects + 1
         /\ Answered => ~Unanswered' /\ Unanswered
         /\ Control' /\ Attempts'
<1>1. /\ reconnects \in 0 .. MaxReconnects /\ MaxReconnects \in Nat /\ pc \in Places
      /\ link \in {"none", "open", "subscribed", "closed"}
  BY Constants DEF TypeOK, ClientTypeOK
<1>2. Answered => ~Unanswered' /\ Unanswered
  <2> SUFFICES ASSUME Answered PROVE ~Unanswered' /\ Unanswered
    OBVIOUS
  <2>1. link = "open" /\ link' = "subscribed"
    BY DEF Answered
  <2>2. pc' = pc
    BY <2>1 DEF ClientStep, RunStep, Environment, Start, Connect, ConnectFails, Subscribe, SubscribeFails,
         BreakOff, EndOfStream, Closed, Wake, Stop, Cancel, exchange, Trade, Answer, LinkBreaks
  <2>3. pc \in {"subscribing", "reading", "closing"}
    BY <1>1, <2>1 DEF Control
  <2> QED BY <2>1, <2>2, <2>3 DEF Unanswered
<1>3. CASE Start \/ Connect \/ Subscribe \/ SubscribeFails \/ BreakOff \/ EndOfStream \/ Wake \/ Stop
  <2>1. reconnects' = reconnects
    BY <1>3 DEF Start, Connect, Subscribe, SubscribeFails, BreakOff, EndOfStream, Wake, Stop, exchange
  <2>2. Unanswered' => Unanswered
    BY <1>3 DEF Start, LoopTop, Connect, Subscribe, SubscribeFails, BreakOff, EndOfStream, Wake, Stop,
                exchange, Unanswered
  <2>3. Control'
    BY <1>3 DEF Start, LoopTop, Connect, Subscribe, SubscribeFails, BreakOff, EndOfStream, Wake, Stop,
                exchange, Control
  <2>4. Attempts'
    BY <1>3, <2>1 DEF Start, LoopTop, Connect, Subscribe, SubscribeFails, BreakOff, EndOfStream, Wake, Stop,
                exchange, Attempts, Control
  <2> QED BY <1>1, <1>2, <2>1, <2>2, <2>3, <2>4
<1>4. CASE ConnectFails \/ Closed
  <2>1. /\ pc \in {"connecting", "closing"} /\ pc' \in {"cancelled", "returned", "sleeping"}
        /\ reconnects' = IF pc' = "sleeping" THEN reconnects + 1 ELSE reconnects
        /\ pc' = "sleeping" => ~stop /\ ~cancelled
        /\ link' = "none" /\ wire' = <<>> /\ stop' = stop /\ cancelled' = cancelled
    BY <1>4 DEF ConnectFails, Closed, AfterAttempt, exchange, Control
  <2>2. pc' = "sleeping" => reconnects < MaxReconnects
    BY <1>4, <2>1 DEF ConnectFails, Closed, Attempts
  <2>3. reconnects' \in {reconnects, reconnects + 1} /\ reconnects' \in 0 .. MaxReconnects
    BY <1>1, <2>1, <2>2
  <2>4. Control' /\ Attempts'
    BY <2>1 DEF Control, Attempts
  <2>5. Unanswered' => reconnects' = reconnects + 1
    BY <2>1 DEF Unanswered
  <2> QED BY <1>2, <2>3, <2>4, <2>5
<1>5. CASE Trade \/ Answer \/ (\E n \in 0 .. Len(wire) : LinkBreaks(n)) \/ Cancel
  <2>1. reconnects' = reconnects
    BY <1>5 DEF Trade, Answer, LinkBreaks, Cancel
  <2>2. Unanswered' => Unanswered
    BY <1>5 DEF Trade, Answer, LinkBreaks, Cancel, Unanswered
  <2>3. Control'
    BY <1>5 DEF Trade, Answer, LinkBreaks, Cancel, Control
  <2>4. Attempts'
    BY <1>5, <2>1 DEF Trade, Answer, LinkBreaks, Cancel, Attempts
  <2> QED BY <1>1, <1>2, <2>1, <2>2, <2>3, <2>4
<1> QED BY <1>3, <1>4, <1>5 DEF ClientStep, RunStep, Environment

\* A step of the client keeps the bound on repeats,
LEMMA ClientKeepsRepeats ==
  ASSUME TypeOK, ring \in RingType, SequencerOK(sq), Control, Attempts, Order, RepeatsBounded, ClientStep
  PROVE  RepeatsBounded'
<1>1. UNCHANGED <<ring, sq, offered>>
  BY DEF ClientStep
<1>2. Reached' = Reached /\ Repeats' = Repeats
  BY <1>1, SameReached DEF Repeats
<1>3. /\ reconnects' \in {reconnects, reconnects + 1}
      /\ Unanswered' => Unanswered \/ reconnects' = reconnects + 1
      /\ Answered => ~Unanswered' /\ Unanswered
  BY AttemptEffect
<1>4. Repeats \in Int /\ reconnects \in Nat
  BY RepeatsType
<1>5. CASE Answered
  <2>1. Repeats < reconnects \/ Reached = {}
    BY <1>3, <1>5 DEF RepeatsBounded
  <2>2. Repeats <= reconnects
    BY <1>4 DEF RepeatsBounded
  <2>3. Reached = {} => ~Pending'
    BY <1>2 DEF Pending
  <2>4. Repeats + (IF Pending' THEN 1 ELSE 0) <= reconnects'
    BY <1>3, <1>4, <2>1, <2>2, <2>3
  <2> QED BY <1>2, <1>3, <1>5, <2>4 DEF RepeatsBounded
<1>6. CASE ~Answered
  <2>1. Pending' => Pending
    BY <1>2, <1>6, ClientEffect, PendingCut, PendingAppended
  <2>2. Repeats + (IF Pending THEN 1 ELSE 0) <= reconnects
    BY DEF RepeatsBounded
  <2>3. Repeats + (IF Pending' THEN 1 ELSE 0) <= reconnects'
    BY <1>3, <1>4, <2>1, <2>2
  <2>4. Unanswered' => Repeats < reconnects' \/ Reached = {}
    <3>1. Repeats <= reconnects
      BY <1>4, <2>2
    <3>2. Unanswered => Repeats < reconnects \/ Reached = {}
      BY DEF RepeatsBounded
    <3> QED BY <1>3, <1>4, <3>1, <3>2
  <2> QED BY <1>2, <2>3, <2>4 DEF RepeatsBounded
<1> QED BY <1>5, <1>6

\* a read keeps it,
LEMMA ReadKeepsRepeats ==
  ASSUME TypeOK, ring \in RingType, SequencerOK(sq), Control, Order, RepeatsBounded, NEW id, Read(id),
         TypeOK', ring' \in RingType
  PROVE  RepeatsBounded'
<1> DEFINE x == wire[1].id
<1>0. WireOK
  BY DEF Order
<1>1. /\ Len(wire) > 0 /\ 1 \in 1 .. Len(wire) /\ Len(wire') = Len(wire) - 1
      /\ wire' \in Seq(MessageType)
      /\ \A i \in 1 .. Len(wire') : i + 1 \in 1 .. Len(wire) /\ wire'[i] = wire[i + 1]
      /\ UNCHANGED <<pc, reconnects, link, sq, offered>> /\ pc = "reading"
      /\ \/ wire[1].type = "subscriptions" /\ ring' = ring
         \/ wire[1].type # "subscriptions" /\ x \in 1 .. made /\ Pushed(x)
  BY <1>0, ReadEffect
<1>2. ~Unanswered'
  <2>1. wire # <<>>
    BY <1>1
  <2> QED BY <1>1, <2>1 DEF Control, Unanswered
<1>3. ~Pending'
  <2> SUFFICES ASSUME wire' # <<>>, wire'[1].type = "last_match" PROVE FALSE
    BY DEF Pending
  <2>1. 1 \in 1 .. Len(wire')
    BY <1>1
  <2>2. 1 + 1 \in 1 .. Len(wire) /\ wire[1 + 1].type = "last_match" /\ 1 + 1 # 1
    BY <1>1, <2>1
  <2> QED BY <2>2 DEF Order, WireAscends
<1>4. Repeats \in Int /\ reconnects \in Nat /\ Repeats + (IF Pending THEN 1 ELSE 0) <= reconnects
  BY RepeatsType DEF RepeatsBounded
<1>5. CASE wire[1].type = "subscriptions" /\ ring' = ring
  <2>1. Repeats' = Repeats
    BY <1>1, <1>5, SameReached DEF Repeats
  <2> QED BY <1>1, <1>2, <1>3, <1>4, <2>1 DEF RepeatsBounded
<1>6. CASE wire[1].type # "subscriptions" /\ x \in 1 .. made /\ Pushed(x)
  <2>1. x \in Reached => Pending
    <3> SUFFICES ASSUME x \in Reached PROVE Pending
      OBVIOUS
    <3>1. wire[1].type \in {"match", "last_match"} /\ x \in Nat
      BY <1>1, <1>6, Sizes DEF MessageType
    <3>2. wire[1].type = "match" => x < x
      BY <1>1 DEF Order, WireAhead
    <3>3. wire # <<>>
      BY <1>1
    <3> QED BY <3>1, <3>2, <3>3 DEF Pending
  <2> DEFINE c == Cardinality(Reached)
             e == Cardinality(Reached')
             g == Cardinality(Reached \cup {x})
  <2>2. /\ ring.size < Capacity => Reached' = Reached \cup {x}
        /\ ring.size = Capacity => Reached \cup {x} \subseteq Reached' \cup {Held[1]}
    BY <1>1, <1>6, PushedReached
  <2>3. c \in Nat /\ e \in Nat /\ IsFiniteSet(Reached) /\ IsFiniteSet(Reached')
    <3>1. IsFiniteSet(Reached') /\ e \in Nat
      <4>1. made' \in Nat
        BY DEF TypeOK, ClientTypeOK
      <4>2. Reached' \subseteq 1 .. made'
        BY DEF TypeOK, Reached, Items, Held
      <4>3. IsFiniteSet(1 .. made')
        BY <4>1, FS_Interval
      <4> QED BY <4>2, <4>3, FS_Subset, FS_CardinalityType
    <3> QED BY <3>1, ReachedCount
  <2>4. g = IF x \in Reached THEN c ELSE c + 1
    BY <2>3, FS_AddElement
  <2>5. ring.size = Capacity => g <= e + 1
    <3> SUFFICES ASSUME ring.size = Capacity PROVE g <= e + 1
      OBVIOUS
    <3> DEFINE U == Reached' \cup {Held[1]}
    <3>1. IsFiniteSet(U) /\ Cardinality(U) = IF Held[1] \in Reached' THEN e ELSE e + 1
      BY <2>3, FS_AddElement
    <3>2. Reached \cup {x} \in SUBSET U
      BY <2>2
    <3> HIDE DEF U
    <3>3. g <= Cardinality(U)
      BY <3>1, <3>2, FS_Subset
    <3>4. Cardinality(U) <= e + 1 /\ Cardinality(U) \in Nat
      BY <2>3, <3>1
    <3> QED BY <2>3, <2>4, <3>3, <3>4
  <2>6. ring.size < Capacity => e = g
    BY <2>2
  <2>7. /\ ring.size \in Nat /\ ring.size <= Capacity /\ Capacity \in Nat
        /\ ring'.size = IF ring.size = Capacity THEN ring.size ELSE ring.size + 1
        /\ sq' = sq /\ sq.seqCounter \in Nat
    BY <1>1, <1>6, Sizes, Constants DEF Pushed, SequencerOK
  <2> DEFINE q == sq.seqCounter
             n == ring.size
             r == Repeats
  <2>8. r = q + n - c /\ Repeats' = q + ring'.size - e
    BY <2>7 DEF Repeats
  <2>9. Repeats' <= r + (IF Pending THEN 1 ELSE 0)
    <3> HIDE DEF c, e, g, x, q, n, r
    <3>1. CASE n = Capacity
      BY <2>1, <2>3, <2>4, <2>5, <2>7, <2>8, <3>1 DEF n, q
    <3>2. CASE n # Capacity
      <4>1. n < Capacity /\ ring'.size = n + 1 /\ e = g
        BY <2>6, <2>7, <3>2 DEF n
      <4> QED BY <2>1, <2>3, <2>4, <2>7, <2>8, <4>1 DEF n, q
    <3> QED BY <3>1, <3>2
  <2>10. Repeats' \in Int
    BY <2>3, <2>7, <2>8
  <2>11. Repeats' <= reconnects
    BY <1>4, <2>9, <2>10
  <2> QED BY <1>1, <1>2, <1>3, <2>10, <2>11 DEF RepeatsBounded
<1> QED BY <1>1, <1>5, <1>6

\* and so does a trip of the consumer.
LEMMA ConsumeKeepsRepeats ==
  ASSUME TypeOK, ring \in RingType, SequencerOK(sq), RepeatsBounded, UNCHANGED clientVars,
         NEW n \in 0 .. ring.size, Drained(n), sq'.seqCounter = sq.seqCounter + n
  PROVE  RepeatsBounded'
<1>1. Reached' = Reached
  BY DrainedReached
<1>2. Repeats' = Repeats
  <2> DEFINE c == Cardinality(Reached)
  <2>1. /\ ring.size \in Nat /\ n \in Nat /\ ring'.size = ring.size - n /\ sq.seqCounter \in Nat /\ c \in Nat
        /\ sq'.seqCounter = sq.seqCounter + n
    BY Sizes, ReachedCount DEF Drained, SequencerOK
  <2>2. Repeats = sq.seqCounter + ring.size - c /\ Repeats' = sq'.seqCounter + ring'.size - c
    BY <1>1 DEF Repeats
  <2> HIDE DEF c
  <2> QED BY <2>1, <2>2
<1>3. wire' = wire /\ pc' = pc /\ link' = link /\ reconnects' = reconnects
  BY DEF clientVars, exchange
<1>4. (Pending' <=> Pending) /\ (Unanswered' <=> Unanswered)
  BY <1>1, <1>3 DEF Pending, Unanswered
<1> QED BY <1>1, <1>2, <1>3, <1>4 DEF RepeatsBounded
-----------------------------------------------------------------------------
(* The invariant.                                                          *)

LEMMA ClientTypeStep ==
  ASSUME TypeOK, Control, Attempts, DelayInv, ClientStep
  PROVE  ClientTypeOK'
<1>1. /\ reconnects' \in 0 .. MaxReconnects /\ made' \in 0 .. MaxTrades
      /\ failed' \in Nat /\ delay' \in Nat
  BY AttemptEffect, ClientEffect, DelayStep
<1>2. wire' \in Seq(MessageType)
  BY ClientEffect DEF WireCut, Appended, Answered
<1>3. /\ pc \in Places /\ stop \in BOOLEAN /\ connected \in BOOLEAN /\ cancelled \in BOOLEAN
      /\ connected => pc \in {"reading", "closing"}
      /\ received \in Nat /\ link \in {"none", "open", "subscribed", "closed"}
  BY DEF TypeOK, ClientTypeOK
<1>4. /\ pc' \in Places /\ stop' \in BOOLEAN /\ connected' \in BOOLEAN /\ cancelled' \in BOOLEAN
      /\ connected' => pc' \in {"reading", "closing"}
      /\ received' \in Nat /\ link' \in {"none", "open", "subscribed", "closed"}
  <2>1. CASE Start
    BY <1>3, <2>1 DEF Start, LoopTop, exchange, Places
  <2>2. CASE Connect
    BY <1>3, <2>2 DEF Connect, exchange, Places
  <2>3. CASE ConnectFails
    BY <1>3, <2>3 DEF ConnectFails, AfterAttempt, exchange, Places
  <2>4. CASE Subscribe
    BY <1>3, <2>4 DEF Subscribe, exchange, Places
  <2>5. CASE SubscribeFails
    BY <1>3, <2>5 DEF SubscribeFails, exchange, Places
  <2>6. CASE BreakOff
    BY <1>3, <2>6 DEF BreakOff, exchange, Places
  <2>7. CASE EndOfStream
    BY <1>3, <2>7 DEF EndOfStream, exchange, Places
  <2>8. CASE Closed
    BY <1>3, <2>8 DEF Closed, AfterAttempt, exchange, Places
  <2>9. CASE Wake
    BY <1>3, <2>9 DEF Wake, LoopTop, exchange, Places
  <2>10. CASE Stop
    BY <1>3, <2>10 DEF Stop, exchange, Places
  <2>11. CASE Cancel
    BY <1>3, <2>11 DEF Cancel, exchange, Places
  <2>12. CASE Environment
    BY <1>3, <2>12 DEF Environment, Trade, Answer, LinkBreaks
  <2> QED BY <2>1, <2>2, <2>3, <2>4, <2>5, <2>6, <2>7, <2>8, <2>9, <2>10, <2>11, <2>12 DEF ClientStep, RunStep
<1> QED BY <1>1, <1>2, <1>4 DEF ClientTypeOK

\* The whole invariant is kept by the client,
LEMMA ClientKeepsIInv ==
  ASSUME IInv, ClientStep
  PROVE  IInv'
<1> USE DEF IInv
<1>1. UNCHANGED <<ring, sq, offered>> /\ Held' = Held
  BY SameReached DEF ClientStep
<1>2. made' \in made .. made + 1
  BY ClientEffect
<1>3. TypeOK'
  <2>1. made \in Nat
    BY Sizes
  <2>2. 1 .. made \subseteq 1 .. made'
    BY <1>2, <2>1
  <2>3. \A i \in 1 .. ring.size : Held[i] \in 1 .. made'
    BY <2>2, Sizes
  <2>4. sq.lastId \in (1 .. made') \cup {Nothing} /\ offered \subseteq 1 .. made'
    BY <2>2 DEF TypeOK
  <2> QED BY <1>1, <2>3, <2>4, ClientTypeStep DEF TypeOK, Held
<1>4. Control' /\ Attempts'
  BY AttemptEffect
<1>5. Order'
  BY <1>1, <1>2, ClientEffect, CutKeepsOrder, AppendKeepsOrder, AnswerKeepsOrder
<1>6. SequencerOK(sq)' /\ Exact(sq, offered)' /\ ring' \in RingType
  BY <1>1 DEF SequencerOK, Exact
<1>7. RepeatsBounded'
  BY ClientKeepsRepeats
<1>8. DelayInv'
  BY DelayStep
<1> QED BY <1>3, <1>4, <1>5, <1>6, <1>7, <1>8

\* by a read,
LEMMA ReadKeepsIInv ==
  ASSUME IInv, NEW id, Read(id)
  PROVE  IInv'
<1> USE DEF IInv
<1> DEFINE x == wire[1].id
<1>0. WireOK
  BY DEF Order
<1>1. /\ Len(wire) > 0 /\ wire' \in Seq(MessageType) /\ received' \in Nat
      /\ UNCHANGED <<pc, stop, connected, delay, reconnects, cancelled, link, made, failed, sq, offered>>
      /\ \/ wire[1].type = "subscriptions" /\ ring' = ring
         \/ wire[1].type # "subscriptions" /\ x \in 1 .. made /\ Pushed(x)
  BY <1>0, ReadEffect
<1>2. ring' \in RingType
  BY <1>1 DEF Pushed
<1>3. ClientTypeOK'
  BY <1>1 DEF TypeOK, ClientTypeOK
<1>4. TypeOK'
  <2>1. Reached \subseteq 1 .. made
    BY Sizes
  <2>2. Reached' \subseteq 1 .. made
    <3>1. CASE ring' = ring
      BY <1>1, <2>1, <3>1, SameReached
    <3>2. CASE x \in 1 .. made /\ Pushed(x)
      BY <1>1, <2>1, <3>2, PushedReached
    <3> QED BY <1>1, <3>1, <3>2
  <2>3. \A i \in 1 .. ring'.size : Held'[i] \in 1 .. made
    BY <2>2 DEF Reached, Items
  <2> QED BY <1>1, <1>3, <2>3 DEF TypeOK, Held
<1>5. Control' /\ Attempts'
  <2>1. wire # <<>>
    BY <1>1
  <2> QED BY <1>1, <2>1 DEF Control, Attempts
<1>6. Order'
  BY ReadKeepsOrder
<1>7. SequencerOK(sq)' /\ Exact(sq, offered)'
  BY <1>1 DEF SequencerOK, Exact
<1>8. RepeatsBounded'
  BY <1>2, <1>4, ReadKeepsRepeats
<1>9. DelayInv'
  BY <1>1 DEF DelayInv
<1> QED BY <1>2, <1>4, <1>5, <1>6, <1>7, <1>8, <1>9

\* and by the consumer.
LEMMA ConsumeKeepsIInv ==
  ASSUME IInv, Consume
  PROVE  IInv'
<1> USE DEF IInv
<1>0. ItemsAscend
  BY DEF Order
<1>1. /\ UNCHANGED clientVars
      /\ \E n \in 0 .. ring.size : Drained(n) /\ sq'.seqCounter = sq.seqCounter + n
      /\ SequencerOK(sq') /\ Exact(sq', offered')
  BY <1>0, ConsumeEffect
<1>2. PICK n \in 0 .. ring.size : Drained(n) /\ sq'.seqCounter = sq.seqCounter + n
  BY <1>1
<1>3. UNCHANGED <<pc, stop, connected, delay, reconnects, received, cancelled, link, wire, made, failed>>
  BY <1>1 DEF clientVars, exchange
<1>4. ring' \in RingType
  BY <1>2 DEF Drained
<1>5. TypeOK'
  <2>1. Reached' \subseteq 1 .. made
    BY <1>2, DrainedReached, Sizes
  <2>2. offered' \subseteq 1 .. made /\ \A i \in 1 .. ring'.size : Held'[i] \in 1 .. made
    BY <2>1 DEF Reached, Items
  <2>3. sq'.lastId \in (1 .. made) \cup {Nothing}
    BY <1>1, <2>2 DEF Exact
  <2>4. ClientTypeOK'
    BY <1>3 DEF TypeOK, ClientTypeOK
  <2> QED BY <1>3, <2>2, <2>3, <2>4 DEF TypeOK, Held
<1>6. Control' /\ Attempts' /\ DelayInv'
  BY <1>3 DEF Control, Attempts, DelayInv
<1>7. Order'
  BY <1>1, <1>2, ConsumeKeepsOrder
<1>8. RepeatsBounded'
  BY <1>1, <1>2, ConsumeKeepsRepeats
<1>9. SequencerOK(sq)' /\ Exact(sq, offered)'
  BY <1>1 DEF SequencerOK, Exact
<1> QED BY <1>4, <1>5, <1>6, <1>7, <1>8, <1>9

\* The invariant holds at the start,
LEMMA InitIInv == Init => IInv
<1> SUFFICES ASSUME Init PROVE IInv
  OBVIOUS
<1>1. /\ pc = "new" /\ stop = FALSE /\ connected = FALSE /\ cancelled = FALSE
      /\ delay = InitialDelay /\ reconnects = 0 /\ received = 0 /\ failed = 0
      /\ link = "none" /\ wire = <<>> /\ made = 0 /\ offered = {}
      /\ ring = R!EmptyBuffer /\ sq = S!EmptySequencer
  BY DEF Init, ClientInit
<1>2. ring.size = 0 /\ ring \in RingType
  BY <1>1, Constants DEF R!EmptyBuffer, RingType
<1>3. /\ sq = [heap |-> {}, seqCounter |-> 0, maxSeen |-> 0, lastId |-> Nothing,
               outOfOrder |-> 0, gapCount |-> 0]
  BY <1>1 DEF S!EmptySequencer
<1>4. SequencerOK(sq) /\ sq.seqCounter = 0 /\ sq.lastId = Nothing /\ sq.gapCount = 0
  BY <1>3 DEF SequencerOK
<1>5. Exact(sq, offered)
  BY <1>1, <1>4 DEF Exact
<1>6. TypeOK
  <2>1. ClientTypeOK
    <3>1. wire \in Seq(MessageType)
      BY <1>1
    <3>2. pc \in Places /\ link \in {"none", "open", "subscribed", "closed"}
      BY <1>1 DEF Places
    <3>3. stop \in BOOLEAN /\ connected \in BOOLEAN /\ cancelled \in BOOLEAN /\ ~connected
      BY <1>1
    <3>4. /\ delay \in Nat /\ reconnects \in 0 .. MaxReconnects /\ failed \in Nat /\ received \in Nat
          /\ made \in 0 .. MaxTrades
      BY <1>1, Constants
    <3> QED BY <3>1, <3>2, <3>3, <3>4 DEF ClientTypeOK
  <2>2. \A i \in 1 .. ring.size : R!Contents(ring)[i] \in 1 .. made
    BY <1>2
  <2> QED BY <1>1, <1>4, <2>1, <2>2 DEF TypeOK
<1>7. Control /\ Attempts
  BY <1>1 DEF Control, Attempts
<1>8. Reached = {}
  BY <1>1, <1>2 DEF Reached, Items
<1>9. Order
  BY <1>1, <1>2 DEF Order, WireOK, ItemsAscend, WireAscends, WireAhead
<1>10. RepeatsBounded
  <2>1. Repeats = 0 /\ ~Pending
    BY <1>1, <1>2, <1>4, <1>8, FS_EmptySet DEF Repeats, Pending
  <2> QED BY <1>1, <1>8, <2>1 DEF RepeatsBounded
<1>11. DelayInv
  BY <1>1, BackoffDef DEF DelayInv
<1> QED BY <1>2, <1>4, <1>5, <1>6, <1>7, <1>9, <1>10, <1>11 DEF IInv

\* and every step keeps it.
LEMMA NextIInv == IInv /\ [Next]_vars => IInv'
<1> SUFFICES ASSUME IInv, [Next]_vars PROVE IInv'
  OBVIOUS
<1>1. CASE Next
  BY <1>1, StepCases, ClientKeepsIInv, ReadKeepsIInv, ConsumeKeepsIInv
<1>2. CASE UNCHANGED vars
  <2>1. /\ UNCHANGED <<ring, sq, offered>>
        /\ UNCHANGED <<pc, stop, connected, delay, reconnects, received, cancelled, link, wire, made, failed>>
    BY <1>2 DEF vars, clientVars, exchange
  <2>2. Held' = Held /\ Reached' = Reached /\ Repeats' = Repeats
    BY <2>1, SameReached DEF Repeats
  <2>3. TypeOK'
    BY <2>1 DEF IInv, TypeOK, ClientTypeOK
  <2>4. (ring \in RingType)' /\ SequencerOK(sq)' /\ Exact(sq, offered)'
    BY <2>1 DEF IInv, SequencerOK, Exact
  <2>5. Control' /\ Attempts' /\ DelayInv'
    BY <2>1 DEF IInv, Control, Attempts, DelayInv
  <2>6. Order'
    BY <2>1, <2>2, SameReached DEF IInv, Order, WireOK, WireAscends, WireAhead
  <2>7. RepeatsBounded'
    BY <2>1, <2>2 DEF IInv, RepeatsBounded, Pending, Unanswered
  <2> QED BY <2>3, <2>4, <2>5, <2>6, <2>7 DEF IInv
<1> QED BY <1>1, <1>2

(* The intake of a symbol always satisfies the inductive invariant, for    *)
(* every ring, batch size, delay and number of trades and reconnects.      *)
THEOREM Invariance == Spec => []IInv
BY InitIInv, NextIInv, PTL DEF Spec

(* Every variable of the intake keeps its type, and neither the ring nor   *)
(* the sequencer ever holds a trade that was not made.                     *)
THEOREM TypeCorrect == Spec => []TypeOK
<1>1. IInv => TypeOK
  BY DEF IInv
<1> QED BY <1>1, Invariance, PTL

(* gap_count is exactly the number of trades missed between the first and  *)
(* the last one the sequencer saw: what the wire and a full ring lost, no  *)
(* more and no less.                                                       *)
THEOREM GapsExact == Spec => []GapCountExact
<1>1. IInv => GapCountExact
  <2> SUFFICES ASSUME IInv, offered # {}
               PROVE  sq.gapCount = Cardinality((Min(offered) .. Max(offered)) \ offered)
    BY DEF GapCountExact
  <2>1. /\ sq.lastId \in offered /\ \A x \in offered : x <= sq.lastId
        /\ sq.gapCount = Cardinality((Min(offered) .. sq.lastId) \ offered)
    BY DEF IInv, Exact
  <2>2. made \in Nat /\ offered \in SUBSET (1 .. made)
    BY Sizes DEF IInv, TypeOK
  <2>3. Max(offered) \in offered /\ \A x \in offered : Max(offered) >= x
    BY <2>2, FT!MaxOfPositions DEF Max, FT!Max
  <2>4. Max(offered) \in Nat /\ sq.lastId \in Nat
    <3>1. offered \subseteq Nat
      BY <2>2
    <3>2. Max(offered) \in offered /\ sq.lastId \in offered
      BY <2>1, <2>3
    <3> QED BY <3>1, <3>2, Zenon
  <2>5. Max(offered) >= sq.lastId /\ Max(offered) <= sq.lastId
    BY <2>1, <2>3
  <2>6. Max(offered) = sq.lastId
    BY <2>4, <2>5
  <2> QED BY <2>1, <2>6
<1> QED BY <1>1, Invariance, PTL

(* The sequencer gets a trade again at most once for each reconnect that   *)
(* the client has counted.                                                 *)
THEOREM DuplicatesAreBounded == Spec => []DuplicatesBounded
<1>1. IInv => DuplicatesBounded
  <2> SUFFICES ASSUME IInv PROVE sq.seqCounter - Cardinality(offered) <= reconnects
    BY DEF DuplicatesBounded
  <2> DEFINE c == Cardinality(Reached)
             o == Cardinality(offered)
             q == sq.seqCounter
             n == ring.size
  <2>1. TypeOK /\ ring \in RingType /\ SequencerOK(sq) /\ RepeatsBounded
    BY DEF IInv
  <2>2. /\ c \in Nat /\ o \in Nat /\ c <= o + n /\ n \in Nat /\ reconnects \in Nat
        /\ q \in Nat
    BY <2>1, ReachedCount, Sizes DEF SequencerOK
  <2>3. Repeats = q + n - c /\ Repeats + (IF Pending THEN 1 ELSE 0) <= reconnects
    BY <2>1 DEF Repeats, RepeatsBounded
  <2> HIDE DEF c, o, q, n
  <2>4. q - o <= reconnects
    BY <2>2, <2>3
  <2> QED BY <2>4 DEF q, o
<1> QED BY <1>1, Invariance, PTL

(* run() sleeps the initial delay after it lost a subscribed connection,   *)
(* twice as long after each further failure, and never more than the cap.  *)
THEOREM BackoffCorrect == Spec => []BackoffFollowsFailures
<1>1. IInv => BackoffFollowsFailures
  BY DEF IInv, DelayInv, BackoffFollowsFailures
<1> QED BY <1>1, Invariance, PTL
=============================================================================
