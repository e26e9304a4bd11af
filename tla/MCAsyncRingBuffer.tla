------------------------- MODULE MCAsyncRingBuffer -------------------------
(* Task sets and call tables for the runs of AsyncRingBuffer.              *)
EXTENDS AsyncRingBuffer, TLC

CONSTANTS p1, p2, c1

\* Everybody who pushes takes the lock; the ring is also drained without it.
LockingCalls ==
  (p1 :> {"push", "push_blocking"}) @@
  (p2 :> {"push_blocking", "push_blocking_timeout"}) @@
  (c1 :> {"drain", "drain_timeout", "drain_nowait"})

\* Producers that wait beside one that pushes as Pipeline.ingest does, and a
\* drain loop like that of a consumer.
LoopCalls ==
  (p1 :> {"push_blocking"}) @@
  (p2 :> {"push_blocking_timeout", "push_nowait"}) @@
  (c1 :> {"drain_timeout"})
=============================================================================
