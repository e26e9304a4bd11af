------------------------ MODULE SequencerFeed_proofs ------------------------
(***************************************************************************)
(* Proofs about SequencerFeed for every watermark, every set of ids and    *)
(* event times and any number of ticks.                                    *)
(*                                                                         *)
(* The order of the output follows from one fact about the input: whatever *)
(* has been released lies a watermark behind the newest time seen, so an   *)
(* entry that arrives later either sorts behind it or is that late.        *)
(***************************************************************************)
EXTENDS SequencerFeed, FiniteSetTheorems, TLAPS

\* Every entry the sequencer was ever given.
Known == sq.heap \cup {x.entry : x \in released}

\* Entries have distinct sequence numbers and are held or out, not both.
Numbered ==
  /\ \A e \in Known : e.seq <= sq.seqCounter
  /\ \A e, f \in Known : e.seq = f.seq => e = f
  /\ \A e \in sq.heap, x \in released : e.seq # x.entry.seq
  /\ \A x, y \in released : x.entry.seq = y.entry.seq => x = y
  /\ \A n \in 1 .. sq.seqCounter : \E e \in Known : e.seq = n
  /\ \A x \in released : x.at <= sq.seqCounter

\* What is out is old, and what is held sorts behind it or came too late.
Settled ==
  /\ ~flushed => \A x \in released : x.entry.time <= Threshold(sq)
  /\ \A e \in sq.heap, x \in released : Before(x.entry, e) \/ late[e.seq] > Watermark

\* While nothing came out of order, arrival order is time order.
Quiet ==
  sq.outOfOrder = 0 =>
    /\ \A e \in Known : e.time <= sq.maxSeen /\ late[e.seq] = 0
    /\ \A e, f \in Known : e.seq < f.seq => e.time <= f.time

OrderInv == TypeOK /\ Numbered /\ Settled /\ ReleasedInOrder /\ Quiet

\* What the assumption on the constants gives the proofs below.
LEMMA ConstantFacts ==
  /\ Watermark \in Nat /\ None \notin Nat /\ None \notin Ids /\ Ids \subseteq Nat
  /\ Times \subseteq Nat /\ MaxOffers \in Nat /\ Offers \subseteq Nat
<1>1. /\ Watermark \in Nat /\ None \notin Nat /\ Ids \subseteq Nat
      /\ Times \subseteq Nat /\ MaxOffers \in Nat
  BY WatermarkAssumption, FeedAssumption
<1>2. None \notin Ids
  BY <1>1
<1>3. Offers \subseteq Nat
  BY <1>1 DEF Offers
<1> QED BY <1>1, <1>2, <1>3

(* What each action does to the variables, field by field.                 *)
LEMMA OfferEffect ==
  ASSUME TypeOK, NEW id \in Ids, NEW time \in Times, OfferTick(id, time)
  PROVE  \E e \in EntryType :
           /\ e.time = time /\ e.seq = sq.seqCounter + 1
           /\ sq'.heap = sq.heap \cup {e}
           /\ sq'.seqCounter = sq.seqCounter + 1
           /\ sq'.maxSeen = IF time < sq.maxSeen THEN sq.maxSeen ELSE time
           /\ sq'.outOfOrder = IF time < sq.maxSeen THEN sq.outOfOrder + 1 ELSE sq.outOfOrder
           /\ released' = released /\ flushed' = flushed
           /\ late' = [late EXCEPT ![e.seq] = IF time < sq.maxSeen THEN sq.maxSeen - time ELSE 0]
<1> DEFINE e == [time |-> time, seq |-> sq.seqCounter + 1, tick |-> [id |-> id, time |-> time]]
<1>1. sq.seqCounter + 1 \in Offers
  BY ConstantFacts DEF TypeOK, SequencerType, OfferTick, Offers
<1>2. e \in EntryType
  BY <1>1 DEF EntryType, TickType
<1>3. WITNESS e \in EntryType
<1> QED BY DEF OfferTick, Offer, Lateness

\* A poll or a flush: some of what is held is handed out.
Releasing(out) ==
  /\ out \in SUBSET sq.heap
  /\ sq' = [sq EXCEPT !.heap = sq.heap \ out]
  /\ released' = released \cup {[entry |-> e, at |-> sq.seqCounter] : e \in out}
  /\ late' = late /\ firstId' = firstId /\ seenIds' = seenIds

\* A poll releases the entries at or below the threshold,
LEMMA PollReleases ==
  ASSUME Poll
  PROVE  Releasing({e \in sq.heap : e.time <= Threshold(sq)}) /\ flushed' = flushed /\ ~flushed
BY DEF Poll, PollReady, ReadyEntries, Release, Releasing

\* a flush the whole heap.
LEMMA FlushReleases ==
  ASSUME TypeOK, Flush
  PROVE  Releasing(sq.heap) /\ flushed'
<1>1. [sq EXCEPT !.heap = {}] = [sq EXCEPT !.heap = sq.heap \ sq.heap]
  OBVIOUS
<1> QED BY <1>1 DEF Flush, FlushAll, Release, Releasing

\* Releasing keeps the types and touches the heap and the released entries only.
LEMMA ReleasingType ==
  ASSUME TypeOK, Numbered, NEW out, Releasing(out)
  PROVE  /\ sq' \in SequencerType
         /\ released' \in SUBSET [entry : EntryType, at : Offers]
         /\ sq'.heap = sq.heap \ out
         /\ sq'.seqCounter = sq.seqCounter /\ sq'.maxSeen = sq.maxSeen
         /\ sq'.outOfOrder = sq.outOfOrder /\ sq'.gapCount = sq.gapCount
         /\ sq'.lastId = sq.lastId
<1>1. \A e \in sq.heap : sq.seqCounter \in Offers
  <2> SUFFICES ASSUME NEW e \in sq.heap PROVE sq.seqCounter \in Offers
    OBVIOUS
  <2>1. e.seq \in Offers /\ e.seq <= sq.seqCounter
    BY DEF TypeOK, SequencerType, EntryType, Numbered, Known
  <2> QED BY <2>1, ConstantFacts DEF TypeOK, SequencerType, Offers
<1>2. {[entry |-> e, at |-> sq.seqCounter] : e \in out} \in SUBSET [entry : EntryType, at : Offers]
  BY <1>1 DEF TypeOK, SequencerType, Releasing
<1> QED BY <1>2 DEF TypeOK, SequencerType, Releasing

\* Every step keeps the types.
LEMMA TypeStep ==
  ASSUME TypeOK, Numbered, [Next]_vars
  PROVE  TypeOK'
<1>1. ASSUME NEW id \in Ids, NEW time \in Times, OfferTick(id, time) PROVE TypeOK'
  <2>1. PICK e \in EntryType : sq'.heap = sq.heap \cup {e}
    BY <1>1, OfferEffect
  <2>2. sq' \in SequencerType
    <3>1. /\ sq.seqCounter + 1 \in 0 .. MaxOffers
          /\ (IF time < sq.maxSeen THEN sq.maxSeen ELSE time) \in Nat
          /\ (IF sq.lastId = None \/ id > sq.lastId THEN id ELSE sq.lastId) \in Ids \cup {None}
          /\ (IF time < sq.maxSeen THEN sq.outOfOrder + 1 ELSE sq.outOfOrder) \in Nat
      BY <1>1, ConstantFacts DEF TypeOK, SequencerType, OfferTick
    <3>2. Missed(sq, [id |-> id, time |-> time]) \in Nat
      <4>1. sq.lastId = None \/ sq.lastId \in Nat
        BY ConstantFacts DEF TypeOK, SequencerType
      <4>2. id \in Nat
        BY ConstantFacts
      <4> QED BY <4>1, <4>2 DEF Missed
    <3>3. sq.gapCount + Missed(sq, [id |-> id, time |-> time]) \in Nat
      BY <3>2 DEF TypeOK, SequencerType
    <3>4. sq'.heap \in SUBSET EntryType
      BY <2>1 DEF TypeOK, SequencerType
    <3> QED BY <1>1, <3>1, <3>3, <3>4 DEF OfferTick, Offer, SequencerType
  <2>3. late' \in [Offers -> Nat]
    <3>1. Lateness(sq, time) \in Nat
      BY ConstantFacts DEF Lateness, TypeOK, SequencerType
    <3> QED BY <1>1, <3>1 DEF TypeOK, OfferTick
  <2> QED BY <1>1, <2>2, <2>3 DEF TypeOK, OfferTick
<1>2. ASSUME NEW out, Releasing(out), flushed' \in BOOLEAN PROVE TypeOK'
  BY <1>2, ReleasingType DEF TypeOK, Releasing
<1>3. CASE UNCHANGED vars
  BY <1>3 DEF vars, TypeOK
<1> QED BY <1>1, <1>2, <1>3, PollReleases, FlushReleases DEF Next, TypeOK
-----------------------------------------------------------------------------
(* What a release does to the parts of the invariant.                      *)
LEMMA ReleasingKeeps ==
  ASSUME TypeOK, Numbered, NEW out, Releasing(out)
  PROVE  Known' = Known /\ Numbered'
<1>1. Known' = Known
  <2> DEFINE new == {[entry |-> e, at |-> sq.seqCounter] : e \in out}
  <2>1. {x.entry : x \in new} = out
    <3>1. ASSUME NEW e \in out PROVE \E x \in new : x.entry = e
      <4> WITNESS [entry |-> e, at |-> sq.seqCounter] \in new
      <4> QED OBVIOUS
    <3> QED BY <3>1
  <2>2. {x.entry : x \in released'} = {x.entry : x \in released} \cup {x.entry : x \in new}
    BY DEF Releasing
  <2>3. {x.entry : x \in released'} = {x.entry : x \in released} \cup out
    BY <2>1, <2>2
  <2> HIDE DEF new
  <2> QED BY <2>3, ReleasingType DEF Known, Releasing
<1>2. ASSUME NEW x \in released'
      PROVE  x \in released \/ (x.entry \in out /\ x.at = sq.seqCounter
                                /\ x = [entry |-> x.entry, at |-> sq.seqCounter])
  BY DEF Releasing
<1>3. sq.seqCounter \in Int
  BY DEF TypeOK, SequencerType
<1>4. \A e, f \in sq.heap : e.seq = f.seq => e = f
  BY DEF Numbered, Known
<1>5. \A e \in sq'.heap, x \in released' : e.seq # x.entry.seq
  BY <1>2, <1>4, ReleasingType DEF Numbered, Releasing
<1>6. \A x, y \in released' : x.entry.seq = y.entry.seq => x = y
  <2> SUFFICES ASSUME NEW x \in released', NEW y \in released', x.entry.seq = y.entry.seq
               PROVE  x = y
    OBVIOUS
  <2>1. CASE x \in released /\ y \in released
    BY <2>1 DEF Numbered
  <2>2. CASE x \in released /\ y.entry \in out
    BY <2>2 DEF Numbered, Releasing
  <2>3. CASE x.entry \in out /\ y \in released
    BY <2>3 DEF Numbered, Releasing
  <2>4. CASE /\ x.entry \in out /\ x = [entry |-> x.entry, at |-> sq.seqCounter]
             /\ y.entry \in out /\ y = [entry |-> y.entry, at |-> sq.seqCounter]
    <3>1. x.entry = y.entry
      BY <1>4, <2>4 DEF Releasing
    <3> QED BY <2>4, <3>1
  <2> QED BY <1>2, <2>1, <2>2, <2>3, <2>4
<1>7. \A x \in released' : x.at <= sq'.seqCounter
  BY <1>2, <1>3, ReleasingType DEF Numbered
<1>8. /\ \A e \in Known' : e.seq <= sq'.seqCounter
      /\ \A e, f \in Known' : e.seq = f.seq => e = f
      /\ \A n \in 1 .. sq'.seqCounter : \E e \in Known' : e.seq = n
  BY <1>1, ReleasingType DEF Numbered
<1> QED BY <1>1, <1>5, <1>6, <1>7, <1>8 DEF Numbered

\* The numbers and times of entries, which Before compares.
LEMMA EntryNumbers ==
  ASSUME TypeOK
  PROVE  /\ \A e \in Known : e.time \in Int /\ e.seq \in Int /\ e.seq \in Offers /\ e \in EntryType
         /\ \A x \in released : x.at \in Int /\ x.entry \in Known
         /\ sq.heap \subseteq Known
         /\ sq.seqCounter \in Int /\ sq.maxSeen \in Int /\ Threshold(sq) = sq.maxSeen - Watermark
         /\ \A n \in Offers : late[n] \in Int
<1>1. /\ sq.heap \subseteq Known
      /\ \A x \in released : x.at \in Int /\ x.entry \in Known
      /\ sq.seqCounter \in Int /\ sq.maxSeen \in Int
      /\ \A n \in Offers : late[n] \in Int
  BY DEF TypeOK, SequencerType, Known, Offers
<1>2. ASSUME NEW e \in Known
      PROVE  e.time \in Int /\ e.seq \in Int /\ e.seq \in Offers /\ e \in EntryType
  <2>1. e \in EntryType
    BY DEF TypeOK, SequencerType, Known
  <2>2. e.time \in Times /\ e.seq \in Offers
    BY <2>1 DEF EntryType
  <2>3. Times \subseteq Int /\ Offers \subseteq Int
    BY ConstantFacts
  <2> QED BY <2>1, <2>2, <2>3
<1> QED BY <1>1, <1>2 DEF Threshold

\* Releasing the least entries keeps the order of release.
LEMMA ReleasingKeepsOrder ==
  ASSUME TypeOK, Numbered, Settled, ReleasedInOrder, NEW out, Releasing(out),
         \A e \in out, f \in sq.heap \ out : Before(e, f)
  PROVE  /\ ReleasedInOrder'
         /\ \A e \in sq'.heap, x \in released' : Before(x.entry, e) \/ late'[e.seq] > Watermark
<1>1. ASSUME NEW x \in released'
      PROVE  x \in released \/ (x.entry \in out /\ x.at = sq.seqCounter)
  BY DEF Releasing
<1>2. late' = late /\ sq'.heap = sq.heap \ out /\ out \subseteq sq.heap
  BY ReleasingType DEF Releasing
<1>3. ASSUME NEW e \in sq'.heap, NEW x \in released'
      PROVE  Before(x.entry, e) \/ late'[e.seq] > Watermark
  BY <1>1, <1>2 DEF Settled
<1>4. ASSUME NEW x \in released', NEW y \in released', HandedOutBefore(x, y)
      PROVE  Before(x.entry, y.entry) \/ late'[y.entry.seq] > Watermark
  <2>1. CASE x \in released /\ y \in released
    BY <1>2, <1>4, <2>1 DEF ReleasedInOrder
  <2>2. CASE x \in released /\ y.entry \in out
    BY <1>2, <2>2 DEF Settled
  <2>3. CASE x.entry \in out /\ x.at = sq.seqCounter /\ y \in released
    BY <1>4, <2>3, EntryNumbers DEF HandedOutBefore, Numbered
  <2>4. CASE x.at = sq.seqCounter /\ y.at = sq.seqCounter
    BY <1>4, <2>4, EntryNumbers DEF HandedOutBefore
  <2> QED BY <1>1, <2>1, <2>2, <2>3, <2>4
<1> QED BY <1>3, <1>4 DEF ReleasedInOrder

\* A poll keeps the invariant of order,
LEMMA PollKeepsOrderInv ==
  ASSUME OrderInv, Poll
  PROVE  OrderInv'
<1> DEFINE out == {e \in sq.heap : e.time <= Threshold(sq)}
<1>1. Releasing(out) /\ flushed' = flushed /\ ~flushed
  BY PollReleases
<1>2. \A e \in out, f \in sq.heap \ out : Before(e, f)
  BY EntryNumbers, ConstantFacts DEF OrderInv, Before
<1>3. \A e \in out : e.time <= Threshold(sq)
  OBVIOUS
<1> HIDE DEF out
<1>4. TypeOK' /\ Numbered' /\ Known' = Known
  BY <1>1, TypeStep, ReleasingKeeps DEF OrderInv, Next
<1>5. /\ ReleasedInOrder'
      /\ \A e \in sq'.heap, x \in released' : Before(x.entry, e) \/ late'[e.seq] > Watermark
  BY <1>1, <1>2, ReleasingKeepsOrder DEF OrderInv
<1>6. \A x \in released' : x.entry.time <= Threshold(sq')
  <2>1. Threshold(sq') = Threshold(sq)
    BY <1>1, ReleasingType DEF OrderInv, Threshold
  <2> QED BY <1>1, <1>3, <2>1 DEF OrderInv, Settled, Releasing
<1>7. Quiet'
  BY <1>1, <1>4, ReleasingType DEF OrderInv, Quiet, Releasing
<1> QED BY <1>4, <1>5, <1>6, <1>7 DEF OrderInv, Settled, Threshold

\* a flush keeps it,
LEMMA FlushKeepsOrderInv ==
  ASSUME OrderInv, Flush
  PROVE  OrderInv'
<1>1. Releasing(sq.heap) /\ flushed'
  BY FlushReleases DEF OrderInv
<1>2. TypeOK' /\ Numbered' /\ Known' = Known
  BY <1>1, TypeStep, ReleasingKeeps DEF OrderInv, Next
<1>3. /\ ReleasedInOrder'
      /\ \A e \in sq'.heap, x \in released' : Before(x.entry, e) \/ late'[e.seq] > Watermark
  BY <1>1, ReleasingKeepsOrder DEF OrderInv
<1>4. Quiet'
  BY <1>1, <1>2, ReleasingType DEF OrderInv, Quiet, Releasing
<1> QED BY <1>1, <1>2, <1>3, <1>4 DEF OrderInv, Settled

\* and so does an offer.
LEMMA OfferKeepsOrderInv ==
  ASSUME OrderInv, NEW id \in Ids, NEW time \in Times, OfferTick(id, time)
  PROVE  OrderInv'
<1>1. PICK e \in EntryType :
         /\ e.time = time /\ e.seq = sq.seqCounter + 1
         /\ sq'.heap = sq.heap \cup {e}
         /\ sq'.seqCounter = sq.seqCounter + 1
         /\ sq'.maxSeen = IF time < sq.maxSeen THEN sq.maxSeen ELSE time
         /\ sq'.outOfOrder = IF time < sq.maxSeen THEN sq.outOfOrder + 1 ELSE sq.outOfOrder
         /\ released' = released /\ flushed' = flushed
         /\ late' = [late EXCEPT ![e.seq] = IF time < sq.maxSeen THEN sq.maxSeen - time ELSE 0]
  BY OfferEffect DEF OrderInv
<1>2. TypeOK'
  BY TypeStep DEF OrderInv, Next
<1>3. Known' = Known \cup {e}
  BY <1>1 DEF Known
<1>4. /\ \A f \in Known : /\ f.time \in Int /\ f.seq \in Int /\ f.seq \in Offers
                          /\ f.seq <= sq.seqCounter /\ f.seq < e.seq
      /\ sq.seqCounter \in Int /\ sq.maxSeen \in Int /\ time \in Int /\ Watermark \in Nat
      /\ sq.outOfOrder \in Nat
      /\ e.seq \in Offers /\ late \in [Offers -> Nat]
  BY <1>1, EntryNumbers, ConstantFacts DEF OrderInv, Numbered, EntryType, TypeOK, SequencerType
<1>5. \A f \in Known : late'[f.seq] = late[f.seq]
  BY <1>1, <1>4
<1>6. late'[e.seq] = IF time < sq.maxSeen THEN sq.maxSeen - time ELSE 0
  BY <1>1, <1>4
<1>7. \A x \in released : x.entry \in Known /\ x.at \in Int
  BY EntryNumbers DEF OrderInv
<1>8. Numbered'
  <2>1. \A f \in Known' : f.seq <= sq'.seqCounter
    BY <1>1, <1>3, <1>4
  <2>2. \A f, g \in Known' : f.seq = g.seq => f = g
    BY <1>3, <1>4 DEF OrderInv, Numbered
  <2>3. \A f \in sq'.heap, x \in released' : f.seq # x.entry.seq
    BY <1>1, <1>4, <1>7 DEF OrderInv, Numbered
  <2>4. \A n \in 1 .. sq'.seqCounter : \E f \in Known' : f.seq = n
    <3> SUFFICES ASSUME NEW n \in 1 .. sq'.seqCounter PROVE \E f \in Known' : f.seq = n
      OBVIOUS
    <3>1. CASE n = e.seq
      BY <1>3, <3>1
    <3>2. CASE n # e.seq
      <4>1. n \in 1 .. sq.seqCounter
        BY <1>1, <1>4, <3>2
      <4> QED BY <1>3, <4>1 DEF OrderInv, Numbered
    <3> QED BY <3>1, <3>2
  <2>5. \A x \in released' : x.at <= sq'.seqCounter
    BY <1>1, <1>4, <1>7 DEF OrderInv, Numbered
  <2>6. \A x, y \in released' : x.entry.seq = y.entry.seq => x = y
    BY <1>1 DEF OrderInv, Numbered
  <2> QED BY <2>1, <2>2, <2>3, <2>4, <2>5, <2>6 DEF Numbered
<1>9. ~flushed /\ \A x \in released : x.entry.time <= sq.maxSeen - Watermark
  BY DEF OrderInv, Settled, OfferTick, Threshold
<1>10. Settled'
  <2>1. \A x \in released' : x.entry.time <= sq'.maxSeen - Watermark
    <3> SUFFICES ASSUME NEW x \in released PROVE x.entry.time <= sq'.maxSeen - Watermark
      BY <1>1
    <3>1. x.entry.time <= sq.maxSeen - Watermark /\ x.entry.time \in Int
      BY <1>4, <1>7, <1>9
    <3>2. sq'.maxSeen \in Int /\ sq.maxSeen <= sq'.maxSeen
      BY <1>1, <1>4
    <3> QED BY <1>4, <3>1, <3>2
  <2>2. ASSUME NEW f \in sq'.heap, NEW x \in released'
        PROVE  Before(x.entry, f) \/ late'[f.seq] > Watermark
    <3>1. CASE f \in sq.heap
      BY <1>1, <1>5, <3>1 DEF OrderInv, Settled, Known
    <3>2. CASE f = e /\ x.entry.time <= time
      BY <1>1, <1>4, <1>7, <3>2 DEF Before
    <3>3. CASE f = e /\ x.entry.time > time
      <4>1. x.entry.time <= sq.maxSeen - Watermark /\ x.entry.time \in Int
        BY <1>1, <1>4, <1>7, <1>9
      <4> QED BY <1>4, <1>6, <3>3, <4>1
    <3> QED BY <1>1, <1>4, <1>7, <3>1, <3>2, <3>3
  <2> QED BY <2>1, <2>2 DEF Settled, Threshold
<1>11. ReleasedInOrder'
  BY <1>1, <1>5, <1>7 DEF OrderInv, ReleasedInOrder, HandedOutBefore, Before
<1>12. Quiet'
  <2> SUFFICES ASSUME sq'.outOfOrder = 0
               PROVE  /\ \A f \in Known' : f.time <= sq'.maxSeen /\ late'[f.seq] = 0
                      /\ \A f, g \in Known' : f.seq < g.seq => f.time <= g.time
    BY DEF Quiet
  <2>1. sq.maxSeen <= time /\ sq.outOfOrder = 0 /\ sq'.maxSeen = time
    BY <1>1, <1>4
  <2>2. /\ \A f \in Known : f.time <= sq.maxSeen /\ late[f.seq] = 0
        /\ \A f, g \in Known : f.seq < g.seq => f.time <= g.time
    BY <2>1 DEF OrderInv, Quiet
  <2>3. \A f \in Known' : f.time <= time /\ late'[f.seq] = 0
    BY <1>1, <1>3, <1>4, <1>5, <1>6, <2>1, <2>2
  <2>4. ASSUME NEW f \in Known', NEW g \in Known', f.seq < g.seq PROVE f.time <= g.time
    <3>1. CASE g = e
      BY <1>1, <2>3, <3>1
    <3>2. CASE g # e /\ f = e
      BY <1>1, <1>3, <1>4, <2>4, <3>2
    <3>3. CASE g # e /\ f # e
      BY <1>3, <2>2, <2>4, <3>3
    <3> QED BY <3>1, <3>2, <3>3
  <2> QED BY <2>1, <2>3, <2>4
<1> QED BY <1>2, <1>8, <1>10, <1>11, <1>12 DEF OrderInv

\* So it always holds.
LEMMA SpecOrderInv == Spec => []OrderInv
<1>1. Init => OrderInv
  <2> SUFFICES ASSUME Init PROVE OrderInv
    OBVIOUS
  <2>1. /\ sq.heap = {} /\ sq.seqCounter = 0 /\ released = {} /\ sq \in SequencerType
    BY ConstantFacts DEF Init, EmptySequencer, SequencerType
  <2>2. TypeOK
    BY <2>1 DEF Init, TypeOK, Offers
  <2> QED BY <2>1, <2>2 DEF OrderInv, Numbered, Settled, ReleasedInOrder, Quiet, Known
<1>2. OrderInv /\ [Next]_vars => OrderInv'
  <2>1. CASE UNCHANGED vars
    BY <2>1 DEF vars, OrderInv, TypeOK, Numbered, Settled, ReleasedInOrder, Quiet, Known,
                Threshold, HandedOutBefore, Before
  <2> QED BY <2>1, PollKeepsOrderInv, FlushKeepsOrderInv, OfferKeepsOrderInv DEF Next
<1> QED BY <1>1, <1>2, PTL DEF Spec

(* The variables keep their types.                                         *)
THEOREM TypeCorrect == Spec => []TypeOK
<1>1. OrderInv => TypeOK
  BY DEF OrderInv
<1> QED BY <1>1, SpecOrderInv, PTL

(* The promise of the reorder window: only a tick later than the watermark *)
(* can come out behind a newer one.                                        *)
THEOREM WatermarkOrder == Spec => []ReleasedInOrder
<1>1. OrderInv => ReleasedInOrder
  BY DEF OrderInv
<1> QED BY <1>1, SpecOrderInv, PTL

(* No tick is lost or handed out twice.                                    *)
THEOREM TicksConserved == Spec => []HeldOrReleasedOnce
<1>1. ASSUME OrderInv PROVE HeldOrReleasedOnce
  <2>1. /\ \A e \in Known : e.seq \in 1 .. sq.seqCounter
        /\ \A n \in 1 .. sq.seqCounter : \E e \in Known : e.seq = n
    BY <1>1, EntryNumbers DEF OrderInv, Numbered, Offers
  <2>2. {e.seq : e \in sq.heap} \cup {x.entry.seq : x \in released} = 1 .. sq.seqCounter
    BY <2>1 DEF Known
  <2>3. {e.seq : e \in sq.heap} \cap {x.entry.seq : x \in released} = {}
    BY <1>1 DEF OrderInv, Numbered
  <2> QED BY <1>1, <2>2, <2>3 DEF OrderInv, Numbered, HeldOrReleasedOnce
<1> QED BY <1>1, SpecOrderInv, PTL

(* A feed the counter calls ordered passes through in its own order.       *)
THEOREM QuietOrder == Spec => []InOrderFeedUnchanged
<1>1. ASSUME OrderInv PROVE InOrderFeedUnchanged
  <2> SUFFICES ASSUME sq.outOfOrder = 0, NEW x \in released, NEW y \in released,
                      HandedOutBefore(x, y)
               PROVE  x.entry.seq < y.entry.seq
    BY DEF InOrderFeedUnchanged
  <2>1. /\ x.entry \in Known /\ y.entry \in Known
        /\ x.entry.time \in Int /\ x.entry.seq \in Int
        /\ y.entry.time \in Int /\ y.entry.seq \in Int
    BY <1>1, EntryNumbers DEF OrderInv
  <2>2. late[y.entry.seq] = 0 /\ (y.entry.seq < x.entry.seq => y.entry.time <= x.entry.time)
    BY <1>1, <2>1 DEF OrderInv, Quiet
  <2>3. Before(x.entry, y.entry)
    BY <1>1, <2>2, ConstantFacts DEF OrderInv, ReleasedInOrder
  <2>4. x.entry.seq = y.entry.seq => x.entry = y.entry
    BY <1>1, <2>1 DEF OrderInv, Numbered
  <2> QED BY <2>1, <2>2, <2>3, <2>4 DEF Before
<1> QED BY <1>1, SpecOrderInv, PTL
-----------------------------------------------------------------------------
(* The gap counter.  A tick beyond the highest id adds the ids it jumps    *)
(* over to what is missing and counts as many; a late one only fills in.   *)
GapInv ==
  /\ TypeOK /\ Numbered
  /\ firstId = None <=> sq.lastId = None
  /\ GapNeverUndercounts

\* An offer never undercounts the gaps.
LEMMA OfferKeepsGap ==
  ASSUME GapInv, NEW id \in Ids, NEW time \in Times, OfferTick(id, time)
  PROVE  GapNeverUndercounts'
<1>1. /\ firstId' = IF firstId = None THEN id ELSE firstId
      /\ seenIds' = seenIds \cup {id}
      /\ sq'.lastId = IF sq.lastId = None \/ id > sq.lastId THEN id ELSE sq.lastId
      /\ sq'.gapCount = sq.gapCount + Missed(sq, [id |-> id, time |-> time])
  BY DEF OfferTick, Offer
<1>2. id \in Nat /\ id # None /\ sq.gapCount \in Nat
  BY ConstantFacts DEF GapInv, TypeOK, SequencerType
<1>3. CASE firstId = None
  <2>1. sq.lastId = None
    BY <1>3 DEF GapInv
  <2>2. MissingIds' = {} /\ sq'.gapCount = sq.gapCount
    BY <1>1, <1>2, <1>3, <2>1 DEF MissingIds, Missed
  <2> QED BY <1>2, <2>2, FS_EmptySet DEF GapNeverUndercounts
<1>4. CASE firstId # None
  <2>1. firstId \in Nat /\ sq.lastId \in Nat /\ sq.lastId # None /\ firstId' = firstId
    BY <1>1, <1>4, ConstantFacts DEF GapInv, TypeOK, SequencerType
  <2>2. IsFiniteSet(MissingIds) /\ Cardinality(MissingIds) \in Nat
    <3>1. IsFiniteSet(firstId .. sq.lastId)
      BY <2>1, FS_Interval
    <3> QED BY <1>4, <3>1, FS_Subset, FS_CardinalityType DEF MissingIds
  <2>3. CASE id > sq.lastId
    <3> DEFINE jumped == sq.lastId + 1 .. id - 1
    <3>1. IsFiniteSet(jumped) /\ Cardinality(jumped) = id - sq.lastId - 1
      <4> DEFINE a == sq.lastId + 1
                 b == id - 1
      <4>1. a \in Int /\ b \in Int /\ b - a + 1 = id - sq.lastId - 1 /\ (a > b => b - a + 1 = 0)
        BY <1>2, <2>1, <2>3
      <4> HIDE DEF a, b
      <4>2. IsFiniteSet(a .. b) /\ Cardinality(a .. b) = b - a + 1
        BY <4>1, FS_Interval
      <4> QED BY <4>1, <4>2 DEF a, b
    <3>2. MissingIds' \subseteq MissingIds \cup jumped
      <4> SUFFICES ASSUME NEW n \in MissingIds', n \notin jumped PROVE n \in MissingIds
        OBVIOUS
      <4>1. firstId' # None /\ sq'.lastId = id
        BY <1>1, <1>4, <2>1, <2>3
      <4>2. n \in firstId .. id /\ n \notin seenIds /\ n # id
        BY <1>1, <2>1, <4>1 DEF MissingIds
      <4>3. n \in firstId .. sq.lastId
        BY <1>2, <2>1, <4>2
      <4> QED BY <1>4, <4>2, <4>3 DEF MissingIds
    <3>3. /\ IsFiniteSet(MissingIds \cup jumped)
          /\ Cardinality(MissingIds \cup jumped)
               = Cardinality(MissingIds) + Cardinality(jumped) - Cardinality(MissingIds \cap jumped)
      BY <2>2, <3>1, FS_Union
    <3>4. Cardinality(MissingIds \cap jumped) \in Nat
      <4>1. IsFiniteSet(MissingIds \cap jumped)
        BY <2>2, FS_Subset
      <4> QED BY <4>1, FS_CardinalityType
    <3>5. Cardinality(MissingIds') \in Nat
          /\ Cardinality(MissingIds') <= Cardinality(MissingIds \cup jumped)
      BY <3>2, <3>3, FS_Subset, FS_CardinalityType
    <3>6. sq'.gapCount = sq.gapCount + (id - sq.lastId - 1)
      BY <1>1, <1>2, <2>1, <2>3 DEF Missed
    <3>7. Cardinality(MissingIds) <= sq.gapCount
      BY DEF GapInv, GapNeverUndercounts
    <3> HIDE DEF jumped
    <3> QED BY <1>2, <2>1, <2>2, <3>1, <3>3, <3>4, <3>5, <3>6, <3>7 DEF GapNeverUndercounts
  <2>4. CASE ~(id > sq.lastId)
    <3>1. MissingIds' \subseteq MissingIds /\ sq'.gapCount = sq.gapCount
      BY <1>1, <1>2, <1>4, <2>1, <2>4 DEF MissingIds, Missed
    <3>2. Cardinality(MissingIds') \in Nat /\ Cardinality(MissingIds') <= Cardinality(MissingIds)
      BY <2>2, <3>1, FS_Subset, FS_CardinalityType
    <3> QED BY <1>2, <2>2, <3>1, <3>2 DEF GapInv, GapNeverUndercounts
  <2> QED BY <2>3, <2>4
<1> QED BY <1>3, <1>4

(* gap_count never hides a lost trade, in whatever order ids arrive.       *)
THEOREM GapsCounted == Spec => []GapNeverUndercounts
<1> DEFINE GInv == (firstId = None <=> sq.lastId = None) /\ GapNeverUndercounts
<1>1. Init => GInv
  BY FS_EmptySet DEF Init, EmptySequencer, GapNeverUndercounts, MissingIds
<1>2. OrderInv /\ GInv /\ [Next]_vars => GInv'
  <2> SUFFICES ASSUME OrderInv, GInv, [Next]_vars PROVE GInv'
    OBVIOUS
  <2>1. GapInv
    BY DEF OrderInv, GapInv
  <2>2. ASSUME NEW id \in Ids, NEW time \in Times, OfferTick(id, time) PROVE GInv'
    <3>1. firstId' # None /\ sq'.lastId # None
      <4>1. id # None
        BY ConstantFacts
      <4>2. /\ firstId' = IF firstId = None THEN id ELSE firstId
            /\ sq'.lastId = IF sq.lastId = None \/ id > sq.lastId THEN id ELSE sq.lastId
        BY <2>2 DEF OfferTick, Offer
      <4> QED BY <4>1, <4>2
    <3> QED BY <2>1, <2>2, <3>1, OfferKeepsGap
  <2>3. ASSUME NEW out, Releasing(out) PROVE GInv'
    <3>1. sq'.lastId = sq.lastId /\ sq'.gapCount = sq.gapCount
          /\ firstId' = firstId /\ seenIds' = seenIds
      BY <2>3, ReleasingType DEF OrderInv, Releasing
    <3> QED BY <3>1 DEF GapNeverUndercounts, MissingIds
  <2>4. CASE UNCHANGED vars
    BY <2>4 DEF vars, GapNeverUndercounts, MissingIds
  <2> QED BY <2>2, <2>3, <2>4, PollReleases, FlushReleases DEF Next, OrderInv
<1>3. GInv => GapNeverUndercounts
  OBVIOUS
<1> HIDE DEF GInv
<1> QED BY <1>1, <1>2, <1>3, SpecOrderInv, PTL DEF Spec
=============================================================================
