------------------------------ MODULE Sequencer ------------------------------
(***************************************************************************)
(* The reorder buffer of backend/app/ingest/sequencer.py as a value and    *)
(* its methods as operators on that value.                                 *)
(*                                                                         *)
(* heapq is used only to push and to pop the least entry, so the heap is   *)
(* the set of its entries; no two have the same seq, hence no ties.        *)
(* Pipeline makes one Sequencer per symbol, so the dictionary              *)
(* _last_trade_id has one key and is its value, lastId.  A tick is any     *)
(* record with the fields id (trade_id) and time (event_time_ms).          *)
(***************************************************************************)
EXTENDS Integers, SequencesExt

CONSTANTS
  Watermark,  (* watermark_ms                                              *)
  None        (* no trade id seen yet                                      *)

ASSUME WatermarkAssumption == Watermark \in Nat /\ None \notin Nat

EmptySequencer ==
  [heap |-> {}, seqCounter |-> 0, maxSeen |-> 0, lastId |-> None,
   outOfOrder |-> 0, gapCount |-> 0]

\* Deviation from Before: equal times are popped last in, first out.
BeforeLatestFirst(e, f) ==
  e.time < f.time \/ (e.time = f.time /\ e.seq > f.seq)

\* The order of _HeapEntry: event time, then arrival.
Before(e, f) ==
  e.time < f.time \/ (e.time = f.time /\ e.seq < f.seq)

\* Deviations from Missed: one per jump, and a jump backwards counted too.
MissedJumps(s, tick) ==
  IF s.lastId # None /\ tick.id > s.lastId + 1 THEN 1 ELSE 0

MissedUnguarded(s, tick) ==
  IF s.lastId # None THEN tick.id - s.lastId - 1 ELSE 0

\* How many trade ids a tick jumps over.
Missed(s, tick) ==
  IF s.lastId # None /\ tick.id > s.lastId + 1 THEN tick.id - s.lastId - 1 ELSE 0

\* offer
Offer(s, tick) ==
  [heap       |-> s.heap \cup {[time |-> tick.time, seq |-> s.seqCounter + 1, tick |-> tick]},
   seqCounter |-> s.seqCounter + 1,
   maxSeen    |-> IF tick.time < s.maxSeen THEN s.maxSeen ELSE tick.time,
   lastId     |-> IF s.lastId = None \/ tick.id > s.lastId THEN tick.id ELSE s.lastId,
   outOfOrder |-> IF tick.time < s.maxSeen THEN s.outOfOrder + 1 ELSE s.outOfOrder,
   gapCount   |-> s.gapCount + Missed(s, tick)]

\* Deviation from Threshold: the watermark is forgotten.
ThresholdAtMax(s) == s.maxSeen

Threshold(s) == s.maxSeen - Watermark

\* The entries poll_ready pops; what is left is the buffer after it.
ReadyEntries(s) == {e \in s.heap : e.time <= Threshold(s)}

PollReady(s) == [s EXCEPT !.heap = @ \ ReadyEntries(s)]

\* flush_all hands out every entry and clears the heap.
FlushAll(s) == [s EXCEPT !.heap = {}]

\* The place of an entry in the order of the heap.
Rank(entries, e) == Cardinality({f \in entries : Before(f, e)}) + 1

\* Popped entries come out least first; the caller gets their ticks.
TicksInOrder(entries) ==
  [i \in 1 .. Cardinality(entries) |-> (CHOOSE e \in entries : Rank(entries, e) = i).tick]
=============================================================================
