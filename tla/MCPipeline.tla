----------------------------- MODULE MCPipeline -----------------------------
(* The ticks of the runs of Pipeline.                                      *)
EXTENDS Pipeline

CONSTANTS s1, s2

Tick(s, i, t, p) == [symbol |-> s, id |-> i, time |-> t, price |-> p, quantity |-> 1]

Frames == <<2, 4>>

(* One symbol at times on both sides of the bucket limits of 2 and 4 ms,   *)
(* far enough apart for the watermark to release and for late patches; a   *)
(* second symbol that shares the aggregators.                              *)
TwoSymbols ==
  {Tick(s1, 1, 0, 3), Tick(s1, 2, 1, 1), Tick(s1, 3, 3, 2), Tick(s1, 5, 5, 4), Tick(s2, 1, 4, 7)}

OneSymbol == {Tick(s1, 1, 0, 3), Tick(s1, 3, 3, 2), Tick(s1, 5, 5, 4)}
=============================================================================
