--------------------------- MODULE MCSequencerFeed ---------------------------
(* Ids and event times for the run of SequencerFeed.                       *)
EXTENDS SequencerFeed

(* Three ids, the last behind a gap of two, at four times, so that ids and *)
(* times can both be out of order, repeated and equal.                     *)
FeedIds == {0, 1, 3}
FeedTimes == 0 .. 3
=============================================================================
