------------------------------ MODULE LoadTest ------------------------------
(***************************************************************************)
(* run_batched of backend/benchmark/load_test.py: a paced producer pushes  *)
(* n ticks on a ring buffer, a consumer drains it in batches and writes    *)
(* each batch in a transaction, and gather waits for both.  A step runs a  *)
(* task to its next await; the lock inside push and drain is the matter of *)
(* AsyncRingBuffer.                                                        *)
(***************************************************************************)
EXTENDS RingBuffer

CONSTANTS
  N,          (* how many ticks the test runs with, in Nat                 *)
  BatchMax    (* batch_max_size, at least one                              *)

VARIABLES
  buf,        (* the ring                                                  *)
  producer,   (* where _pace_producer is                                   *)
  consumer,   (* where consumer() is                                       *)
  batch,      (* the size of the batch consumer() is writing               *)
  processed   (* processed                                                 *)

vars == <<buf, producer, consumer, batch, processed>>

\* The condition of the consumer's while loop.
LoopTop(done) == IF done < N THEN "drain" ELSE "done"

Init ==
  /\ buf = EmptyBuffer
  /\ producer = IF N = 0 THEN "done" ELSE "pacing"
  /\ processed = 0 /\ batch = 0
  /\ consumer = LoopTop(0)

\* One round of _pace_producer: put_fn, and the sleep if there is time left.
Produce ==
  /\ producer = "pacing"
  /\ buf' = PushNowait(buf, buf.pushedTotal + 1)
  /\ producer' = IF buf'.pushedTotal = N THEN "done" ELSE "pacing"
  /\ UNCHANGED <<consumer, batch, processed>>

\* drain returned: an empty batch on a timeout goes round the loop.
Drain ==
  /\ consumer = "drain"
  /\ LET n == DrainCount(buf, BatchMax)
     IN  /\ buf' = DrainNowait(buf, n)
         /\ batch' = n
         /\ consumer' = IF n = 0 THEN LoopTop(processed) ELSE "executemany"
  /\ UNCHANGED <<producer, processed>>

Insert ==
  /\ consumer = "executemany"
  /\ consumer' = "commit"
  /\ UNCHANGED <<buf, producer, batch, processed>>

Commit ==
  /\ consumer = "commit"
  /\ processed' = processed + batch
  /\ batch' = 0
  /\ consumer' = LoopTop(processed')
  /\ UNCHANGED <<buf, producer>>

\* gather returns when both tasks have ended, and the report is made.
Reported == producer = "done" /\ consumer = "done"

Next == Produce \/ Drain \/ Insert \/ Commit \/ (Reported /\ UNCHANGED vars)

Spec == Init /\ [][Next]_vars

\* Both tasks run, the pacing sleeps end and the database answers.
FairSpec == Spec /\ WF_vars(Produce) /\ WF_vars(Drain \/ Insert \/ Commit)
-----------------------------------------------------------------------------
(* load_test.py reports the "wall time to fully drain" together with how   *)
(* many ticks were "dropped (buffer overflow)", so the test ends whether   *)
(* or not the ring overflows.                                              *)
ReportMade == <>Reported
=============================================================================
