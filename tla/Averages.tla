------------------------------ MODULE Averages ------------------------------
(***************************************************************************)
(* The rolling VWAP of backend/app/processing/vwap.py and the moving       *)
(* averages of backend/app/processing/moving_average.py, for one symbol.   *)
(* Numbers are exact: a quotient is a pair <<numerator, denominator>> that *)
(* is never reduced, so the float drift of the running sums is left out.   *)
(***************************************************************************)
EXTENDS Integers, SequencesExt

CONSTANTS
  WindowMs,   (* window_sec in milliseconds                                *)
  Periods,    (* moving_average_periods                                    *)
  None        (* no average yet                                            *)

ASSUME AveragesAssumption ==
  /\ WindowMs \in Nat
  /\ Periods \subseteq Nat \ {0}
  /\ None \notin Nat \X Nat

NoWindow == [ticks |-> <<>>, sumPq |-> 0, sumQ |-> 0]

\* What a run of ticks contributes to the two sums.
AddPq(sum, tick) == sum + tick.price * tick.quantity
AddQ(sum, tick)  == sum + tick.quantity
SumPq(ticks)     == FoldLeft(AddPq, 0, ticks)
SumQ(ticks)      == FoldLeft(AddQ, 0, ticks)

Admit(w, tick) ==
  [ticks |-> Append(w.ticks, tick),
   sumPq |-> w.sumPq + tick.price * tick.quantity,
   sumQ  |-> w.sumQ + tick.quantity]

\* Deviation from Expired: the oldest time of the window is outside it.
ExpiredInclusive(w, now) ==
  CHOOSE n \in 0 .. Len(w.ticks) :
    /\ \A i \in 1 .. n : w.ticks[i].time <= now - WindowMs
    /\ n < Len(w.ticks) => w.ticks[n + 1].time > now - WindowMs

\* How many ticks leave on the left before the first that is not expired.
Expired(w, now) ==
  CHOOSE n \in 0 .. Len(w.ticks) :
    /\ \A i \in 1 .. n : w.ticks[i].time < now - WindowMs
    /\ n < Len(w.ticks) => w.ticks[n + 1].time >= now - WindowMs

Evict(w, now) ==
  LET n   == Expired(w, now)
      out == SubSeq(w.ticks, 1, n)
  IN  IF n = Len(w.ticks) THEN NoWindow
      ELSE [ticks |-> SubSeq(w.ticks, n + 1, Len(w.ticks)),
            sumPq |-> w.sumPq - SumPq(out),
            sumQ  |-> w.sumQ - SumQ(out)]

\* RollingVWAP.update and the value it returns.
UpdateVwap(w, tick) == Evict(Admit(w, tick), tick.time)

Vwap(w) == IF w.sumQ <= 0 THEN <<0, 1>> ELSE <<w.sumPq, w.sumQ>>
-----------------------------------------------------------------------------
NoAverages == [p \in Periods |-> [values |-> <<>>, sum |-> 0, ema |-> None]]

\* Deviation from UpdateSma: the sum is settled against the full deque, late.
UpdateSmaLate(values, sum, p, price) ==
  LET longer == Append(values, price)
  IN  IF Len(longer) > p
      THEN <<Tail(longer), sum + price - Head(Tail(longer))>>
      ELSE <<longer, sum + price>>

\* _SMA.update: a deque with a maxlen, and its sum.
UpdateSma(values, sum, p, price) ==
  IF Len(values) = p
  THEN <<Append(Tail(values), price), sum - Head(values) + price>>
  ELSE <<Append(values, price), sum + price>>

\* _EMA.update: (price - value) * 2 / (p + 1) + value.
UpdateEma(ema, p, price) ==
  IF ema = None THEN <<price, 1>>
  ELSE <<2 * price * ema[2] + (p - 1) * ema[1], (p + 1) * ema[2]>>

\* MovingAverageTracker.update and the averages it returns.
UpdateAverages(m, price) ==
  [p \in Periods |->
    LET sma == UpdateSma(m[p].values, m[p].sum, p, price)
    IN  [values |-> sma[1], sum |-> sma[2], ema |-> UpdateEma(m[p].ema, p, price)]]

Sma(m, p) == IF Len(m[p].values) < p THEN None ELSE <<m[p].sum, p>>
=============================================================================
