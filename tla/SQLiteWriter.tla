---------------------------- MODULE SQLiteWriter ----------------------------
(***************************************************************************)
(* The batching writer of backend/app/storage/sqlite_store.py: record_tick *)
(* and record_candle append to buffers in memory, the flush loop and then  *)
(* stop() write the buffers in one transaction each time.  A step runs one *)
(* task to its next await, so rows are recorded between any two awaits of  *)
(* a flush.  An await of the database may raise; the process may die       *)
(* anywhere and start again on the same file.                              *)
(*                                                                         *)
(* aiosqlite is external: a transaction becomes visible as a whole at its  *)
(* commit, and one that was not committed leaves nothing behind.           *)
(***************************************************************************)
EXTENDS Integers, SequencesExt

CONSTANTS
  Keys,       (* primary keys of candle rows: symbol, timeframe, bucket    *)
  None,       (* the key of a tick row, and the row of an absent key       *)
  MaxRows,    (* bound of the model: rows recorded by one process          *)
  MaxFaults,  (* bound of the model: database calls that raise             *)
  MaxRuns     (* bound of the model: processes on the same file            *)

\* Of the constants; the modules that use the writer assume it.
WriterAssumption ==
  /\ None \notin Keys
  /\ MaxRows \in Nat /\ MaxFaults \in Nat /\ MaxRuns \in Nat \ {0}

Flushers == {"loop", "stop"}
Stages   == {"connect", "ticks", "candles", "commit", "close"}
NoBatch  == [ticks |-> <<>>, candles |-> <<>>]

VARIABLES
  tickBuf, candleBuf,   (* _tick_buffer and _candle_buffer                 *)
  stop,                 (* _stop                                           *)
  pc,                   (* where the flush loop and stop() are suspended   *)
  batch,                (* the local variables ticks and candles of _flush *)
  rowsWritten,          (* rows_written                                    *)
  db,                   (* the committed tables                            *)
  run, faults,          (* auxiliary: processes started, calls that raised *)
  recorded,             (* auxiliary: every row recorded by this process   *)
  base                  (* auxiliary: the tables when this process started *)

vars == <<tickBuf, candleBuf, stop, pc, batch, rowsWritten, db, run, faults, recorded, base>>

\* The flush loop is a task that has not run yet, stop() is not called.
Fresh == [loop |-> "new", stop |-> "idle"]

NoRows == [ticks |-> <<>>, candles |-> [k \in Keys |-> None]]

Init ==
  /\ tickBuf = <<>> /\ candleBuf = <<>>
  /\ stop = FALSE
  /\ pc = Fresh
  /\ batch = [f \in Flushers |-> NoBatch]
  /\ rowsWritten = 0
  /\ db = NoRows /\ base = NoRows
  /\ run = 1 /\ faults = 0
  /\ recorded = <<>>
-----------------------------------------------------------------------------
\* The two buffers a list of rows is split over, each in the order recorded.
KeepTick(kept, row)   == IF row.key = None THEN Append(kept, row) ELSE kept
KeepCandle(kept, row) == IF row.key = None THEN kept ELSE Append(kept, row)

TicksOf(rows)   == FoldLeft(KeepTick, <<>>, rows)
CandlesOf(rows) == FoldLeft(KeepCandle, <<>>, rows)

\* The calls of record_tick (key None) and record_candle that the pipeline
\* makes between two awaits.
Row(i, key) == [run |-> run, number |-> Len(recorded) + i, key |-> key]

Record(keys) ==
  LET rows == [i \in DOMAIN keys |-> Row(i, keys[i])]
  IN  /\ tickBuf'   = tickBuf \o TicksOf(rows)
      /\ candleBuf' = candleBuf \o CandlesOf(rows)
      /\ recorded'  = recorded \o rows
      /\ UNCHANGED <<stop, pc, batch, rowsWritten, db, run, faults, base>>

(* main.py stops the pipeline before the writer, so nothing is recorded    *)
(* once stop() has been called; Lifespan shows it.                         *)
CanRecord == ~stop /\ Len(recorded) < MaxRows

RecordTick == CanRecord /\ Record(<<None>>)

RecordCandle(key) == CanRecord /\ Record(<<key>>)
-----------------------------------------------------------------------------
\* Deviations from AfterFlush: no loop; `while True` in the flush loop.
AfterFlushOnce(f) == IF f = "stop" THEN "stopped" ELSE "done"

AfterFlushForEver(f) == IF f = "stop" THEN "stopped" ELSE "sleep"

\* Where _flush returns to.
AfterFlush(f) ==
  IF f = "stop" THEN "stopped" ELSE IF stop THEN "done" ELSE "sleep"

\* Deviation from BeginFlush: the buffers are not swapped.
BeginFlushUnswapped(f) ==
  IF tickBuf = <<>> /\ candleBuf = <<>>
  THEN /\ pc' = [pc EXCEPT ![f] = AfterFlush(f)]
       /\ UNCHANGED <<tickBuf, candleBuf, batch>>
  ELSE /\ batch' = [batch EXCEPT ![f] = [ticks |-> tickBuf, candles |-> candleBuf]]
       /\ pc' = [pc EXCEPT ![f] = "connect"]
       /\ UNCHANGED <<tickBuf, candleBuf>>

\* _flush up to its first await: nothing to do, or take both buffers.
BeginFlush(f) ==
  IF tickBuf = <<>> /\ candleBuf = <<>>
  THEN /\ pc' = [pc EXCEPT ![f] = AfterFlush(f)]
       /\ UNCHANGED <<tickBuf, candleBuf, batch>>
  ELSE /\ batch' = [batch EXCEPT ![f] = [ticks |-> tickBuf, candles |-> candleBuf]]
       /\ tickBuf' = <<>> /\ candleBuf' = <<>>
       /\ pc' = [pc EXCEPT ![f] = "connect"]

LoopStarts ==
  /\ pc["loop"] = "new"
  /\ pc' = [pc EXCEPT !["loop"] = IF stop THEN "done" ELSE "sleep"]
  /\ UNCHANGED <<tickBuf, candleBuf, stop, batch, rowsWritten, db, run, faults, recorded, base>>

LoopWakes ==
  /\ pc["loop"] = "sleep"
  /\ BeginFlush("loop")
  /\ UNCHANGED <<stop, rowsWritten, db, run, faults, recorded, base>>

\* The awaits of _flush in their order; an empty list has no executemany.
StageAfter(b, stage) ==
  CASE stage = "connect" /\ b.ticks # <<>>     -> "ticks"
    [] stage = "connect" /\ b.ticks = <<>>     -> "candles"
    [] stage = "ticks"   /\ b.candles # <<>>   -> "candles"
    [] stage = "ticks"   /\ b.candles = <<>>   -> "commit"
    [] stage = "candles"                       -> "commit"

Write(f) ==
  /\ pc[f] \in {"connect", "ticks", "candles"}
  /\ pc' = [pc EXCEPT ![f] = StageAfter(batch[f], @)]
  /\ UNCHANGED <<tickBuf, candleBuf, stop, batch, rowsWritten, db, run, faults, recorded, base>>

\* The last row of a key, or the old one.
Newest(rows, k, old) ==
  LET At == {i \in DOMAIN rows : rows[i].key = k}
  IN  IF At = {} THEN old ELSE rows[Max(At)]

\* INSERT the ticks, INSERT OR REPLACE the candles.
Written(tables, b) ==
  [ticks   |-> tables.ticks \o b.ticks,
   candles |-> [k \in Keys |-> Newest(b.candles, k, tables.candles[k])]]

Commit(f) ==
  /\ pc[f] = "commit"
  /\ db' = Written(db, batch[f])
  /\ pc' = [pc EXCEPT ![f] = "close"]
  /\ UNCHANGED <<tickBuf, candleBuf, stop, batch, rowsWritten, run, faults, recorded, base>>

Close(f) ==
  /\ pc[f] = "close"
  /\ rowsWritten' = rowsWritten + Len(batch[f].ticks) + Len(batch[f].candles)
  /\ batch' = [batch EXCEPT ![f] = NoBatch]
  /\ pc' = [pc EXCEPT ![f] = AfterFlush(f)]
  /\ UNCHANGED <<tickBuf, candleBuf, stop, db, run, faults, recorded, base>>

\* A database call raises: nothing catches it, and the batch is garbage.
Raise(f) ==
  /\ pc[f] \in Stages /\ faults < MaxFaults
  /\ faults' = faults + 1
  /\ batch' = [batch EXCEPT ![f] = NoBatch]
  /\ pc' = [pc EXCEPT ![f] = "raised"]
  /\ UNCHANGED <<tickBuf, candleBuf, stop, rowsWritten, db, run, recorded, base>>

\* stop() sets the event and awaits the flush loop; a dead loop raises here.
Stop ==
  /\ ~stop
  /\ stop' = TRUE
  /\ pc' = [pc EXCEPT !["stop"] = IF pc["loop"] = "raised" THEN "raised" ELSE "join"]
  /\ UNCHANGED <<tickBuf, candleBuf, batch, rowsWritten, db, run, faults, recorded, base>>

\* Deviation from Join: the last flush is left to the loop.
JoinOnly ==
  /\ pc["stop"] = "join" /\ pc["loop"] \in {"done", "raised"}
  /\ pc' = [pc EXCEPT !["stop"] = IF pc["loop"] = "raised" THEN "raised" ELSE "stopped"]
  /\ UNCHANGED <<tickBuf, candleBuf, batch, stop, rowsWritten, db, run, faults, recorded, base>>

\* The await of the flush loop ends: its exception, or the last flush.
Join ==
  /\ pc["stop"] = "join"
  /\ \/ pc["loop"] = "done" /\ BeginFlush("stop")
     \/ /\ pc["loop"] = "raised"
        /\ pc' = [pc EXCEPT !["stop"] = "raised"]
        /\ UNCHANGED <<tickBuf, candleBuf, batch>>
  /\ UNCHANGED <<stop, rowsWritten, db, run, faults, recorded, base>>

\* The process ends, orderly or not, and start() runs in a new one.
Restart ==
  /\ run < MaxRuns
  /\ run' = run + 1
  /\ tickBuf' = <<>> /\ candleBuf' = <<>>
  /\ stop' = FALSE
  /\ pc' = Fresh
  /\ batch' = [f \in Flushers |-> NoBatch]
  /\ rowsWritten' = 0
  /\ recorded' = <<>> /\ base' = db
  /\ UNCHANGED <<db, faults>>

FlushStep(f) == Write(f) \/ Commit(f) \/ Close(f)

Loop == LoopStarts \/ LoopWakes \/ FlushStep("loop")

Stopper == Join \/ FlushStep("stop")

Next ==
  \/ RecordTick
  \/ \E key \in Keys : RecordCandle(key)
  \/ Loop
  \/ Stop
  \/ Stopper
  \/ \E f \in Flushers : Raise(f)
  \/ Restart

Spec == Init /\ [][Next]_vars

(* Timers fire and the database answers, so each task goes on until it     *)
(* ends; nobody has to call stop(), and the database need not fail.        *)
FairSpec == Spec /\ WF_vars(Loop) /\ WF_vars(Stopper)
-----------------------------------------------------------------------------
RowType  == [run : 1 .. MaxRuns, number : 1 .. MaxRows, key : Keys \cup {None}]
Tables   == [ticks : Seq(RowType), candles : [Keys -> RowType \cup {None}]]

\* The type invariant.
TypeOK ==
  /\ tickBuf \in Seq(RowType) /\ candleBuf \in Seq(RowType)
  /\ stop \in BOOLEAN
  /\ pc \in [loop : {"new", "sleep", "done", "raised"} \cup Stages,
             stop : {"idle", "join", "stopped", "raised"} \cup Stages]
  /\ batch \in [Flushers -> [ticks : Seq(RowType), candles : Seq(RowType)]]
  /\ rowsWritten \in 0 .. MaxRows
  /\ db \in Tables /\ base \in Tables
  /\ run \in 1 .. MaxRuns /\ faults \in 0 .. MaxFaults
  /\ recorded \in Seq(RowType)

\* The tables hold the first n rows recorded on top of the older ones.
Holds(n) ==
  LET rows == SubSeq(recorded, 1, n)
  IN  /\ db.ticks = base.ticks \o TicksOf(rows)
      /\ \A k \in Keys : db.candles[k] = Newest(rows, k, base.candles[k])

(* Through faults and restarts the file holds what one process recorded up *)
(* to some moment: no row twice, none missing before a later one, ticks    *)
(* and candles cut at the same moment, no candle row replaced by an older  *)
(* one; and rows_written claims no row that is not there.                  *)
DurablePrefix == \E n \in rowsWritten .. Len(recorded) : Holds(n)

(* Every row recorded becomes durable, unless the database raises or the   *)
(* process r dies.                                                         *)
RowsReachDisk ==
  \A n \in 1 .. MaxRows, r \in 1 .. MaxRuns :
    (run = r /\ Len(recorded) >= n)
      ~> (run # r \/ faults > 0 \/ \E m \in n .. Len(recorded) : Holds(m))

\* stop() never hangs, whatever the database does, while process r lives.
StopReturns ==
  \A r \in 1 .. MaxRuns :
    (run = r /\ stop) ~> (run # r \/ pc["stop"] \in {"stopped", "raised"})

(* sqlite_store.py: "a background task periodically flushes whatever has   *)
(* accumulated", so the buffers keep being emptied.                        *)
PeriodicallyFlushed == []<>(tickBuf = <<>> /\ candleBuf = <<>>)
=============================================================================
