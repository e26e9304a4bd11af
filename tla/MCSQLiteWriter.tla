--------------------------- MODULE MCSQLiteWriter ---------------------------
(* The candle key of the run of SQLiteWriter.                              *)
EXTENDS SQLiteWriter

CONSTANT k1
=============================================================================
