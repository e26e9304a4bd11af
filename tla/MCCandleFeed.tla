---------------------------- MODULE MCCandleFeed ----------------------------
(* The ticks of the runs of CandleFeed.                                    *)
EXTENDS CandleFeed

CONSTANTS s1, s2

Tick(s, t, p) == [symbol |-> s, time |-> t, price |-> p, quantity |-> p]

(* With buckets of 2 ms: two times in the first bucket, three later        *)
(* buckets, so that two closed candles can be kept and a third evicts one; *)
(* a second symbol with few ticks.                                         *)
FewTicks ==
  {Tick(s1, t, p) : t \in {0, 1, 2, 4, 6}, p \in {1, 3}} \cup
  {Tick(s2, t, 2) : t \in {1, 2}}
=============================================================================
