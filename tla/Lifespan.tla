------------------------------ MODULE Lifespan ------------------------------
(***************************************************************************)
(* The server process of backend/app/main.py from start to shutdown, as    *)
(* far as data at rest is concerned: the consumer feeds one aggregator     *)
(* and records rows, the writer flushes them, lifespan stops the parts in  *)
(* its order, and a new process starts with empty memory on the old file.  *)
(* TimeSeriesStore reads the memory and the file.                          *)
(*                                                                         *)
(* One symbol and one timeframe; each tick has price and quantity 1, so    *)
(* the versions of a candle differ in what they count.  The primary key of *)
(* a candle row is its bucket.                                             *)
(***************************************************************************)
EXTENDS Integers, SequencesExt

CONSTANTS
  Symbol,
  BucketMs, HistoryLen,
  Times,      (* event times of ticks, which come in any order             *)
  None,
  MaxTicks,   (* bound of the model: ticks handled by all processes        *)
  MaxFaults, MaxRuns

VARIABLES
  tickBuf, candleBuf, stop, pc, batch, rowsWritten, db, run, faults, recorded, base,
  agg,        (* the candle aggregator                                     *)
  phase,      (* where lifespan is                                         *)
  log,        (* auxiliary: what the rows recorded in each run contain     *)
  handled     (* auxiliary: ticks handled by all processes                 *)

C == INSTANCE CandleAggregator WITH Symbols <- {Symbol}

Buckets == {C!BucketStart(t) : t \in Times}

W == INSTANCE SQLiteWriter WITH Keys <- Buckets, MaxRows <- 2 * MaxTicks

CandleType ==
  [symbol : {Symbol}, bucket : Buckets, open : {1}, high : {1}, low : {1}, close : {1},
   volume : Nat, count : Nat, closed : BOOLEAN]

ASSUME LifespanAssumption ==
  /\ W!WriterAssumption
  /\ MaxTicks \in Nat
  /\ BucketMs \in Nat \ {0}
  /\ HistoryLen \in Nat \ {0}
  /\ Times \subseteq Nat /\ IsFiniteSet(Times)
  /\ None \notin CandleType /\ None \notin W!RowType

writerVars == <<tickBuf, candleBuf, stop, pc, batch, rowsWritten, db, run, faults, recorded, base>>
vars == <<writerVars, agg, phase, log, handled>>

Init ==
  /\ W!Init
  /\ agg = C!EmptyAggregator
  /\ phase = "serving"
  /\ log = [r \in 1 .. MaxRuns |-> <<>>]
  /\ handled = 0
-----------------------------------------------------------------------------
Tick(time) == [symbol |-> Symbol, time |-> time, price |-> 1, quantity |-> 1]

IfAny(candle) == IF candle = None THEN <<>> ELSE <<candle>>

\* Deviation from CandleRows: a patched candle is not written again.
CandleRowsClosedOnly(a, tick) == IfAny(C!ClosedBy(a, tick))

\* The candles _process_batch records for a tick: one closed, one patched.
CandleRows(a, tick) == IfAny(C!ClosedBy(a, tick)) \o IfAny(C!Apply(a, tick).lastPatch)

\* _process_batch handles a tick: it runs to its end without an await.
Process(time) ==
  LET candles == CandleRows(agg, Tick(time))
  IN  /\ phase \in {"serving", "clientStopped"} /\ handled < MaxTicks
      /\ W!Record(<<None>> \o [i \in DOMAIN candles |-> candles[i].bucket])
      /\ log' = [log EXCEPT ![run] = @ \o <<Tick(time)>> \o candles]
      /\ agg' = C!TakePatch(C!Apply(agg, Tick(time)))
      /\ handled' = handled + 1
      /\ phase' = phase

\* Deviation from StopPipeline: the writer is stopped first.
StopWriterFirst ==
  /\ phase = "clientStopped"
  /\ W!Stop
  /\ UNCHANGED <<agg, phase, log, handled>>

\* The finally of lifespan: the client is stopped and its tasks gathered, ...
StopClient ==
  /\ phase = "serving"
  /\ phase' = "clientStopped"
  /\ UNCHANGED <<writerVars, agg, log, handled>>

\* ... then pipeline.stop() cancels the consumers, ...
StopPipeline ==
  /\ phase = "clientStopped"
  /\ phase' = "pipelineStopped"
  /\ UNCHANGED <<writerVars, agg, log, handled>>

\* ... then sqlite_writer.stop().
StopWriter ==
  /\ phase = "pipelineStopped"
  /\ W!Stop
  /\ phase' = "writerStopped"
  /\ UNCHANGED <<agg, log, handled>>

Writer ==
  /\ \/ W!Loop
     \/ W!Stopper
     \/ \E f \in W!Flushers : W!Raise(f)
  /\ UNCHANGED <<agg, phase, log, handled>>

\* The process ends anywhere, orderly or not; a new one starts.
Restart ==
  /\ W!Restart
  /\ agg' = C!EmptyAggregator
  /\ phase' = "serving"
  /\ UNCHANGED <<log, handled>>

Next ==
  \/ \E time \in Times : Process(time)
  \/ StopClient
  \/ StopPipeline
  \/ StopWriter
  \/ Writer
  \/ Restart

Spec == Init /\ [][Next]_vars

\* As for SQLiteWriter: timers fire and the database answers.
FairSpec == Spec /\ WF_vars(W!Loop /\ UNCHANGED <<agg, phase, log, handled>>)
                 /\ WF_vars(W!Stopper /\ UNCHANGED <<agg, phase, log, handled>>)
-----------------------------------------------------------------------------
(* TimeSeriesStore.                                                        *)

LastOf(seq, limit) == SubSeq(seq, 1 + IF Len(seq) > limit THEN Len(seq) - limit ELSE 0, Len(seq))

\* get_candles: the closed candles and the open one.
MemoryCandles(limit) ==
  LET open == agg.open[Symbol]
  IN  LastOf(agg.history[Symbol] \o IfAny(open), limit)

\* What a row holds; the candles table has no column for closed.
Content(row) == log[row.run][row.number]

\* The numbers of a set, smallest first.
Ascending(set) ==
  [i \in 1 .. Cardinality(set) |-> CHOOSE x \in set : Cardinality({y \in set : y < x}) = i - 1]

\* get_candles_from_db: the rows of the newest buckets, oldest first.
DbCandles(limit) ==
  LET keys == Ascending({k \in Buckets : db.candles[k] # None})
  IN  LastOf([i \in DOMAIN keys |-> Content(db.candles[keys[i]])], limit)
-----------------------------------------------------------------------------
TickType   == [symbol : {Symbol}, time : Times, price : {1}, quantity : {1}]

\* The type invariant.
TypeOK ==
  /\ W!TypeOK
  /\ agg \in [open : [{Symbol} -> CandleType \cup {None}], history : [{Symbol} -> Seq(CandleType)],
              latePatches : Nat, lastPatch : {None}]
  /\ phase \in {"serving", "clientStopped", "pipelineStopped", "writerStopped"}
  /\ stop <=> phase = "writerStopped"
  /\ log \in [1 .. MaxRuns -> Seq(TickType \cup CandleType)]
  /\ handled \in 0 .. MaxTicks
  /\ \A r \in 1 .. MaxRuns : Len(log[r]) <= 2 * handled
  /\ Len(log[run]) = Len(recorded)

(* The properties of the writer alone, for the rows the pipeline records.  *)

\* The file is a prefix of what one process recorded (see SQLiteWriter).
DurablePrefix == W!DurablePrefix

\* Every row recorded reaches the file (see SQLiteWriter).
RowsReachDisk == W!RowsReachDisk

\* stop() returns, whatever the database does (see SQLiteWriter).
StopReturns == W!StopReturns

\* The tick rows in the file of one run and one bucket.
TickRows(r, bucket) ==
  {i \in DOMAIN db.ticks :
     db.ticks[i].run = r /\ C!BucketStart(Content(db.ticks[i]).time) = bucket}

(* The two tables agree: through flushes, failures, restarts and REPLACEs, *)
(* a candle row counts exactly the ticks of its bucket that the process    *)
(* which wrote the row has in the file, late ones included as long as the  *)
(* history still holds their candle.                                       *)
FileIsACut ==
  \A k \in Buckets :
    LET row == db.candles[k]
    IN  row # None => Content(row).count = Cardinality(TickRows(row.run, k))

(* After an orderly stop every tick handled is in the file, and a closed   *)
(* candle that get_candles shows get_candles_from_db shows alike.          *)
ShutdownKeepsAll ==
  pc["stop"] = "stopped" =>
    /\ W!Holds(Len(recorded))
    /\ LET all == Cardinality(Buckets)
       IN  {c \in ToSet(MemoryCandles(all)) : c.closed} \subseteq ToSet(DbCandles(all))
=============================================================================
