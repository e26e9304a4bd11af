-------------------------- MODULE DropOldestQueue --------------------------
(***************************************************************************)
(* What the ring buffer, and the queue of a dashboard client, promise,     *)
(* without slots, indices, locks or tasks:                                 *)
(* a bounded FIFO queue.  Adding to a full queue loses the oldest element  *)
(* and counts the loss, taking removes a prefix, and nothing else ever     *)
(* changes the queue.  The n-th element added is the number n.             *)
(***************************************************************************)
EXTENDS Integers, Sequences

CONSTANT Capacity

VARIABLES queue, dropped, added

vars == <<queue, dropped, added>>

Init == queue = <<>> /\ dropped = 0 /\ added = 0

Add ==
  /\ added' = added + 1
  /\ IF Len(queue) < Capacity
     THEN queue' = Append(queue, added') /\ dropped' = dropped
     ELSE queue' = Append(Tail(queue), added') /\ dropped' = dropped + 1

Take(n) ==
  /\ queue' = SubSeq(queue, n + 1, Len(queue))
  /\ UNCHANGED <<dropped, added>>

Next == Add \/ \E n \in 1 .. Len(queue) : Take(n)

Spec == Init /\ [][Next]_vars

\* A producer that adds several elements in one step.
AddMany ==
  LET all  == queue \o [i \in 1 .. added' - added |-> added + i]
      lost == IF Len(all) > Capacity THEN Len(all) - Capacity ELSE 0
  IN  /\ added' > added
      /\ queue' = SubSeq(all, lost + 1, Len(all))
      /\ dropped' = dropped + lost

BurstNext == AddMany \/ \E n \in 1 .. Len(queue) : Take(n)
=============================================================================
