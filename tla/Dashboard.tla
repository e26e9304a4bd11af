----------------------------- MODULE Dashboard -----------------------------
(***************************************************************************)
(* The chart of frontend/static/js/app.js and the server it follows: a     *)
(* candle request answers with the candles of the moment it is served, a   *)
(* websocket brings an event for each change after it was opened.  A step  *)
(* is one callback of the browser, or one of the server.  Answers to       *)
(* requests come back in any order, also relative to the events.           *)
(*                                                                         *)
(* A candle is told apart by its symbol, its bucket and the ticks in it.   *)
(* Late ticks are left out (app.js has no case for candle_patched), and so *)
(* are the tape, the health panel and the lines of the averages.           *)
(* External: fetch, WebSocket and the chart, whose setData replaces every  *)
(* bar and whose update refuses a bar older than the last one.             *)
(***************************************************************************)
EXTENDS Integers, SequencesExt

CONSTANTS
  Symbols,
  First,       (* symbols[0]                                               *)
  MaxTicks,    (* bound of the model: ticks the server handles             *)
  MaxRequests  (* bound of the model: calls of loadCandles                 *)

VARIABLES
  candles,     (* the server's candles of each symbol, oldest first        *)
  stream,      (* events on their way to this browser                      *)
  page,        (* how far the init function is                             *)
  symbol,      (* state.symbol                                             *)
  ws,          (* state.ws: none, opening, open, or closed with its timer  *)
  requests,    (* calls of loadCandles that await fetch or json            *)
  chart,       (* the bars of candleSeries                                 *)
  issued,      (* auxiliary: calls of loadCandles                          *)
  failures     (* auxiliary: those of them that failed                     *)

browser == <<page, symbol, ws, requests, chart, issued, failures>>
vars    == <<candles, stream, browser>>

Init ==
  /\ candles = [s \in Symbols |-> <<>>]
  /\ stream = <<>>
  /\ page = "loading" /\ symbol = First /\ ws = "none"
  /\ requests = {[number |-> 1, symbol |-> First, answered |-> FALSE, bars |-> <<>>]}
  /\ chart = <<>>
  /\ issued = 1 /\ failures = 0
-----------------------------------------------------------------------------
(* The server.                                                             *)

Bar(s, bucket, ticks) == [symbol |-> s, bucket |-> bucket, ticks |-> ticks]

TicksHandled == FoldFunction(LAMBDA bars, n : n + FoldLeft(LAMBDA m, b : m + b.ticks, 0, bars), 0, candles)

Publish(bars) == stream' = IF ws = "open" THEN stream \o bars ELSE stream

\* A tick in the bucket of the open candle: candle_update.
Merge(s) ==
  /\ candles[s] # <<>> /\ TicksHandled < MaxTicks
  /\ candles' = [candles EXCEPT ![s][Len(candles[s])].ticks = @ + 1]
  /\ Publish(<<Last(candles'[s])>>)
  /\ UNCHANGED browser

\* A tick in the next bucket: candle_closed if one was open, candle_update.
NewBucket(s) ==
  /\ TicksHandled < MaxTicks
  /\ candles' = [candles EXCEPT ![s] = Append(@, Bar(s, Len(@) + 1, 1))]
  /\ Publish(IF candles[s] = <<>> THEN candles'[s] ELSE <<Last(candles[s]), Last(candles'[s])>>)
  /\ UNCHANGED browser

\* get_candles answers a request from memory.
Serve(r) ==
  /\ r \in requests /\ ~r.answered
  /\ requests' = (requests \ {r}) \cup {[r EXCEPT !.answered = TRUE, !.bars = candles[r.symbol]]}
  /\ UNCHANGED <<candles, stream, page, symbol, ws, chart, issued, failures>>
-----------------------------------------------------------------------------
(* The browser.                                                            *)

\* loadCandles up to its first await.
LoadCandles(s) ==
  /\ issued < MaxRequests
  /\ issued' = issued + 1
  /\ requests' = requests \cup
       {[number |-> issued', symbol |-> s, answered |-> FALSE, bars |-> <<>>]}

\* What follows the await of loadCandles in init: connectWs.
Continue(r) ==
  IF r.number = 1 THEN page' = "live" /\ ws' = "opening" ELSE UNCHANGED <<page, ws>>

\* loadCandles goes on with its answer, whatever was selected meanwhile.
Loaded(r) ==
  /\ r \in requests /\ r.answered
  /\ requests' = requests \ {r}
  /\ chart' = r.bars
  /\ Continue(r)
  /\ UNCHANGED <<candles, stream, symbol, issued, failures>>

\* fetch or json rejects: in init nothing catches it and nothing follows.
LoadFails(r) ==
  /\ r \in requests
  /\ requests' = requests \ {r}
  /\ page' = IF r.number = 1 THEN "dead" ELSE page
  /\ failures' = failures + 1
  /\ UNCHANGED <<candles, stream, symbol, ws, chart, issued>>

SelectSymbol(s) ==
  /\ symbol' = s
  /\ LoadCandles(s)
  /\ UNCHANGED <<candles, stream, page, ws, chart, failures>>

\* The server registers the socket and the browser runs onopen.
OnOpen ==
  /\ ws = "opening"
  /\ ws' = "open"
  /\ LoadCandles(symbol)
  /\ UNCHANGED <<candles, stream, page, symbol, chart, failures>>

\* onclose; onerror closes.  What was on the stream is lost.
OnClose ==
  /\ ws \in {"opening", "open"}
  /\ ws' = "closed"
  /\ stream' = <<>>
  /\ UNCHANGED <<candles, page, symbol, requests, chart, issued, failures>>

\* The retry timer calls connectWs.
Retry ==
  /\ ws = "closed"
  /\ ws' = "opening"
  /\ UNCHANGED <<candles, stream, page, symbol, requests, chart, issued, failures>>

\* candleSeries.update
Updated(bars, bar) ==
  IF bars = <<>> \/ bar.bucket > Last(bars).bucket THEN Append(bars, bar)
  ELSE IF bar.bucket = Last(bars).bucket THEN Append(Front(bars), bar)
  ELSE bars

\* onmessage: handleEvent of candle_update or candle_closed.
OnMessage ==
  /\ stream # <<>>
  /\ stream' = Tail(stream)
  /\ chart' = IF Head(stream).symbol = symbol THEN Updated(chart, Head(stream)) ELSE chart
  /\ UNCHANGED <<candles, page, symbol, ws, requests, issued, failures>>

Next ==
  \/ \E s \in Symbols : Merge(s) \/ NewBucket(s) \/ SelectSymbol(s)
  \/ \E r \in requests : Serve(r) \/ Loaded(r) \/ LoadFails(r)
  \/ OnOpen \/ OnClose \/ Retry \/ OnMessage

Spec == Init /\ [][Next]_vars
-----------------------------------------------------------------------------
\* Nothing is on its way to the browser.
Quiet == ws = "open" /\ requests = {} /\ stream = <<>>

(* app.js: "Re-sync from REST on every (re)connect", else the tab keeps    *)
(* showing what the chart looked like before.  So once it is connected and *)
(* quiet, and no request has failed, a bar shown for a closed candle,      *)
(* which no live event will touch again, is that candle.                   *)
ClosedBarsCurrent ==
  Quiet /\ failures = 0 =>
    \A i \in DOMAIN chart :
      LET bar == chart[i]
      IN  /\ bar.symbol = symbol
          /\ bar.bucket < Len(candles[symbol]) => bar = candles[symbol][bar.bucket]
=============================================================================
