-------------------------------- MODULE Feed --------------------------------
(***************************************************************************)
(* The intake of one symbol from the exchange to the sequencer: run() of   *)
(* CoinbaseClient calls Pipeline.ingest for every match it reads, which    *)
(* pushes on the ring buffer; the consumer task drains the ring and offers *)
(* the ticks to the sequencer.  The item on the ring is the trade id, and  *)
(* trades are made in the order of their event times.                      *)
(***************************************************************************)
EXTENDS CoinbaseClient, FiniteSetsExt, SequencesExt

CONSTANTS
  Capacity,   (* ring_buffer_capacity                                      *)
  BatchMax,   (* batch_max_size                                            *)
  Watermark   (* reorder_watermark_ms                                      *)

ASSUME FeedAssumption ==
  Capacity \in Nat \ {0} /\ BatchMax \in Nat /\ Watermark \in Nat

R == INSTANCE RingBuffer WITH None <- Nothing
S == INSTANCE Sequencer WITH None <- Nothing

VARIABLES
  ring,       (* ring_buffers[symbol]                                      *)
  sq,         (* sequencers[symbol]                                        *)
  offered     (* auxiliary: the trade ids that have reached the sequencer  *)

vars == <<clientVars, ring, sq, offered>>

Init ==
  /\ ClientInit
  /\ ring = R!EmptyBuffer
  /\ sq = S!EmptySequencer
  /\ offered = {}

\* on_tick is Pipeline.ingest; other messages reach nobody.
Read(id) ==
  /\ Receive(id)
  /\ ring' = IF id = Nothing THEN ring ELSE R!PushNowait(ring, id)
  /\ UNCHANGED <<sq, offered>>

OfferTrade(s, id) == S!Offer(s, [id |-> id, time |-> id])

\* buf.drain returns a batch.
Batch     == R!DrainedItems(ring, R!DrainCount(ring, BatchMax))
DrainRing == ring.size > 0 /\ ring' = R!DrainNowait(ring, Len(Batch))

\* One round of _consume_symbol, as far as the sequencer.
Consume ==
  /\ DrainRing
  /\ sq' = S!PollReady(FoldLeft(OfferTrade, sq, Batch))
  /\ offered' = offered \cup {Batch[i] : i \in DOMAIN Batch}
  /\ UNCHANGED clientVars

Alone(A) == A /\ UNCHANGED <<ring, sq, offered>>

Next ==
  \/ \E id \in (1 .. MaxTrades) \cup {Nothing} : Read(id)
  \/ Consume
  \/ Alone(RunStep)
  \/ Alone(Environment)
  \/ Alone(Stop)
  \/ Alone(Cancel)

(* The client and the consumer are tasks of the event loop, an await comes *)
(* back or raises, a sleep ends, the exchange answers a subscription.  No  *)
(* trade need be made and no connection need break.                        *)
Fairness ==
  /\ WF_vars(Alone(RunStep) \/ \E id \in (1 .. MaxTrades) \cup {Nothing} : Read(id))
  /\ WF_vars(Alone(Answer))
  /\ WF_ring(DrainRing)

Spec == Init /\ [][Next]_vars

FairSpec == Spec /\ Fairness
-----------------------------------------------------------------------------
\* The type invariant; nothing is held that was not made.
TypeOK ==
  /\ ClientTypeOK
  /\ \A i \in 1 .. ring.size : R!Contents(ring)[i] \in 1 .. made
  /\ sq.lastId \in (1 .. made) \cup {Nothing}
  /\ offered \subseteq 1 .. made

(* gap_count is the number of trades missed between the first and the last *)
(* one the sequencer has seen, whether a broken connection or the ring     *)
(* lost them; the match that is sent again after a reconnect neither adds  *)
(* to it nor hides a gap.                                                  *)
GapCountExact ==
  offered # {} =>
    sq.gapCount = Cardinality((Min(offered) .. Max(offered)) \ offered)

(* A trade reaches the sequencer, and so the candles, a second time only   *)
(* by the last match of a subscription: at most once for each reconnect    *)
(* the stats show.                                                         *)
DuplicatesBounded == sq.seqCounter - Cardinality(offered) <= reconnects

\* The delay after n attempts in a row that never got subscribed.
Backoff[n \in Nat] ==
  IF n = 0 THEN InitialDelay
  ELSE IF Backoff[n - 1] * 2 < MaxDelay THEN Backoff[n - 1] * 2 ELSE MaxDelay

(* run() sleeps the initial delay after it lost a subscribed connection    *)
(* and twice as long, up to the maximum, after each further failure.       *)
BackoffFollowsFailures == pc = "sleeping" => delay = Backoff[failed - 1]

(* Through reconnects, losses and a ring that overflows, the newest trade  *)
(* reaches the sequencer, or a newer one does, unless the client is        *)
(* stopped.                                                                *)
NewestTradeArrives ==
  \A n \in 1 .. MaxTrades :
    made >= n ~> (sq.lastId \in n .. MaxTrades \/ stop \/ cancelled)
=============================================================================
