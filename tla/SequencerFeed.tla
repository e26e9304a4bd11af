---------------------------- MODULE SequencerFeed ----------------------------
(***************************************************************************)
(* One Sequencer between a feed and its consumer.  Ticks arrive in any     *)
(* order and any number of times; the consumer polls whenever it likes and *)
(* may flush, once, when it is about to stop.                              *)
(***************************************************************************)
EXTENDS Sequencer

CONSTANTS
  Ids,        (* trade ids the exchange uses                               *)
  Times,      (* event times                                               *)
  MaxOffers   (* bound of the model: how many ticks arrive                 *)

ASSUME FeedAssumption ==
  /\ Ids \subseteq Nat
  /\ Times \subseteq Nat
  /\ MaxOffers \in Nat

VARIABLES
  sq,         (* the sequencer                                             *)
  released,   (* entries handed out, each with the offers made before that *)
  late,       (* auxiliary: how far behind the newest time each tick came  *)
  firstId,    (* auxiliary: the first trade id offered                     *)
  seenIds,    (* auxiliary: every trade id offered                         *)
  flushed     (* auxiliary: flush_all has been called                      *)

vars == <<sq, released, late, firstId, seenIds, flushed>>

Init ==
  /\ sq = EmptySequencer
  /\ released = {}
  /\ late = [n \in 1 .. MaxOffers |-> 0]
  /\ firstId = None
  /\ seenIds = {}
  /\ flushed = FALSE

\* How far a time lies behind the newest one seen.
Lateness(s, time) == IF time < s.maxSeen THEN s.maxSeen - time ELSE 0

OfferTick(id, time) ==
  /\ ~flushed /\ sq.seqCounter < MaxOffers
  /\ sq' = Offer(sq, [id |-> id, time |-> time])
  /\ late' = [late EXCEPT ![sq.seqCounter + 1] = Lateness(sq, time)]
  /\ firstId' = IF firstId = None THEN id ELSE firstId
  /\ seenIds' = seenIds \cup {id}
  /\ UNCHANGED <<released, flushed>>

Release(entries) ==
  released' = released \cup {[entry |-> e, at |-> sq.seqCounter] : e \in entries}

Poll ==
  /\ ~flushed
  /\ Release(ReadyEntries(sq))
  /\ sq' = PollReady(sq)
  /\ UNCHANGED <<late, firstId, seenIds, flushed>>

Flush ==
  /\ Release(sq.heap)
  /\ sq' = FlushAll(sq)
  /\ flushed' = TRUE
  /\ UNCHANGED <<late, firstId, seenIds>>

Next ==
  \/ \E id \in Ids, time \in Times : OfferTick(id, time)
  \/ Poll
  \/ Flush

Spec == Init /\ [][Next]_vars
-----------------------------------------------------------------------------
Offers    == 1 .. MaxOffers
TickType  == [id : Ids, time : Times]
EntryType == [time : Times, seq : Offers, tick : TickType]

SequencerType ==
  [heap : SUBSET EntryType, seqCounter : 0 .. MaxOffers, maxSeen : Nat,
   lastId : Ids \cup {None}, outOfOrder : Nat, gapCount : Nat]

\* The type invariant.
TypeOK ==
  /\ sq \in SequencerType
  /\ released \in SUBSET [entry : EntryType, at : Offers]
  /\ late \in [Offers -> Nat]
  /\ firstId \in Ids \cup {None}
  /\ seenIds \in SUBSET Ids
  /\ flushed \in BOOLEAN

\* x was handed out ahead of y: in an earlier batch, or popped earlier.
HandedOutBefore(x, y) ==
  x.at < y.at \/ (x.at = y.at /\ Before(x.entry, y.entry))

(* poll_ready releases in event-time order across batches, not only inside *)
(* one: a tick comes out behind a newer one only if it arrived more than   *)
(* the watermark late.                                                     *)
ReleasedInOrder ==
  \A x, y \in released :
    HandedOutBefore(x, y) => Before(x.entry, y.entry) \/ late[y.entry.seq] > Watermark

(* Every tick offered is held or has been released, never both and never   *)
(* twice, through any mix of polls and the final flush.                    *)
HeldOrReleasedOnce ==
  LET held == {e.seq : e \in sq.heap}
      out  == {x.entry.seq : x \in released}
  IN  /\ held \cup out = 1 .. sq.seqCounter
      /\ held \cap out = {}
      /\ \A x, y \in released : x.entry.seq = y.entry.seq => x = y

(* When out_of_order_count says that nothing came out of order, buffering  *)
(* did not change the order of the feed.                                   *)
InOrderFeedUnchanged ==
  sq.outOfOrder = 0 =>
    \A x, y \in released : HandedOutBefore(x, y) => x.entry.seq < y.entry.seq

MissingIds == IF firstId = None THEN {} ELSE (firstId .. sq.lastId) \ seenIds

(* gap_count never hides a lost trade: it is at least the number of ids    *)
(* between the first and the highest one seen that never arrived.          *)
GapNeverUndercounts == sq.gapCount >= Cardinality(MissingIds)
=============================================================================
