----------------------------- MODULE RingBuffer -----------------------------
(***************************************************************************)
(* The fixed-capacity ring of backend/app/ingest/ring_buffer.py as a value *)
(* and its synchronous methods as operators on that value.  A buffer is a  *)
(* record of the attributes of the Python object; the lock and the         *)
(* condition variable around it belong to AsyncRingBuffer.                 *)
(***************************************************************************)
EXTENDS Integers, Sequences

CONSTANTS
  Capacity,   (* number of slots                                           *)
  None        (* the content of a slot that holds nothing                  *)

\* __init__ raises ValueError for any other capacity.
ASSUME CapacityAssumption == Capacity \in Nat \ {0}

Index == 0 .. Capacity - 1

EmptyBuffer ==
  [slots |-> [i \in Index |-> None],
   head |-> 0, size |-> 0, dropped |-> 0, pushedTotal |-> 0]

IsFull(b) == b.size = Capacity

\* Deviations from push_nowait: size not pinned, loss not counted, newest lost.
PushNowaitUnpinned(b, item) ==
  [b EXCEPT !.slots[b.head] = item, !.head = (@ + 1) % Capacity,
            !.size = @ + 1, !.pushedTotal = @ + 1]

PushNowaitUncounted(b, item) ==
  [b EXCEPT !.slots[b.head] = item, !.head = (@ + 1) % Capacity,
            !.size = IF IsFull(b) THEN @ ELSE @ + 1, !.pushedTotal = @ + 1]

PushNowaitDropsNewest(b, item) ==
  IF IsFull(b)
  THEN [b EXCEPT !.dropped = @ + 1, !.pushedTotal = @ + 1]
  ELSE [b EXCEPT !.slots[b.head] = item, !.head = (@ + 1) % Capacity,
                 !.size = @ + 1, !.pushedTotal = @ + 1]

(* push_nowait: the write always lands on head; when the ring is full that *)
(* slot holds the oldest item, which is lost and counted.                  *)
PushNowait(b, item) ==
  [slots       |-> [b.slots EXCEPT ![b.head] = item],
   head        |-> (b.head + 1) % Capacity,
   size        |-> IF IsFull(b) THEN b.size ELSE b.size + 1,
   dropped     |-> IF IsFull(b) THEN b.dropped + 1 ELSE b.dropped,
   pushedTotal |-> b.pushedTotal + 1]

\* The slot of the k-th oldest unconsumed item.
SlotOf(b, k) == (((b.head - b.size) % Capacity) + k - 1) % Capacity

\* How many items one drain takes; maxItems = None takes everything.
DrainCount(b, maxItems) ==
  IF maxItems = None \/ b.size < maxItems THEN b.size ELSE maxItems

\* drain_nowait returns the n oldest items, oldest first ...
DrainedItems(b, n) == [k \in 1 .. n |-> b.slots[SlotOf(b, k)]]

\* ... and empties their slots; head stays where it is.
DrainNowait(b, n) ==
  LET freed == {SlotOf(b, k) : k \in 1 .. n}
  IN  [slots       |-> [i \in Index |-> IF i \in freed THEN None ELSE b.slots[i]],
       head        |-> b.head,
       size        |-> b.size - n,
       dropped     |-> b.dropped,
       pushedTotal |-> b.pushedTotal]

\* The unconsumed items, oldest first.
Contents(b) == DrainedItems(b, b.size)
=============================================================================
