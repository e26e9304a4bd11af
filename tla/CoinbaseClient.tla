--------------------------- MODULE CoinbaseClient ---------------------------
(***************************************************************************)
(* The websocket client of backend/app/ingest/coinbase_client.py for one   *)
(* symbol, with the connection and the exchange it talks to.  A step runs  *)
(* run() from one await to the next; any of its awaits may raise, and the  *)
(* task may be cancelled in any of them.  Which exception it is does not   *)
(* matter: ConnectionClosed, OSError and the rest take the same way.       *)
(*                                                                         *)
(* External: websockets and the exchange, from how run() uses them.  The   *)
(* exchange answers a subscription with its last match and a confirmation, *)
(* then sends every match in the order of the trade ids.  A connection     *)
(* that breaks loses a tail of the messages on it.                         *)
(***************************************************************************)
EXTENDS Integers, Sequences

CONSTANTS
  InitialDelay, MaxDelay,  (* ws_reconnect_{initial,max}_delay_sec         *)
  Nothing,                 (* parse_match_message returned None            *)
  MaxTrades,               (* bound of the model: trades made              *)
  MaxReconnects            (* bound of the model: attempts that fail       *)

ASSUME ClientAssumption ==
  /\ InitialDelay \in Nat /\ MaxDelay \in Nat
  /\ Nothing \notin Nat
  /\ MaxTrades \in Nat /\ MaxReconnects \in Nat

VARIABLES
  pc,          (* where run() is suspended                                 *)
  stop,        (* _stop                                                    *)
  connected,   (* _connected                                               *)
  delay,       (* delay                                                    *)
  reconnects,  (* reconnect_count                                          *)
  received,    (* messages_received                                        *)
  cancelled,   (* a CancelledError is on its way out of run()              *)
  link, wire,  (* the connection, and the messages on it                   *)
  made,        (* trades made at the exchange, numbered by their ids       *)
  failed       (* auxiliary: attempts that ended since the last subscribed *)

exchange   == <<link, wire, made>>
clientVars == <<pc, stop, connected, delay, reconnects, received, cancelled,
                exchange, failed>>

ClientInit ==
  /\ pc = "new"
  /\ stop = FALSE /\ connected = FALSE /\ cancelled = FALSE
  /\ delay = InitialDelay
  /\ reconnects = 0 /\ received = 0 /\ failed = 0
  /\ link = "none" /\ wire = <<>> /\ made = 0
-----------------------------------------------------------------------------
(* The exchange.                                                           *)

Trade ==
  /\ made < MaxTrades
  /\ made' = made + 1
  /\ wire' = IF link = "subscribed" THEN Append(wire, [type |-> "match", id |-> made']) ELSE wire
  /\ UNCHANGED <<pc, stop, connected, delay, reconnects, received, cancelled, link, failed>>

\* The subscription, sent at some point of ws.send, is answered.
Answer ==
  /\ link = "open" /\ pc \in {"subscribing", "reading"}
  /\ link' = "subscribed"
  /\ wire' = IF made = 0 THEN <<[type |-> "subscriptions", id |-> Nothing]>>
             ELSE <<[type |-> "last_match", id |-> made], [type |-> "subscriptions", id |-> Nothing]>>
  /\ UNCHANGED <<pc, stop, connected, delay, reconnects, received, cancelled, made, failed>>

LinkBreaks(n) ==
  /\ link \in {"open", "subscribed"} /\ reconnects < MaxReconnects
  /\ link' = "closed"
  /\ wire' = SubSeq(wire, 1, n)
  /\ UNCHANGED <<pc, stop, connected, delay, reconnects, received, cancelled, made, failed>>
-----------------------------------------------------------------------------
(* run().                                                                  *)

\* The condition of the while loop.
LoopTop == pc' = IF stop THEN "returned" ELSE "connecting"

\* Deviations from AfterAttempt: the attempt is not counted; only a lost
\* connection is tried again.
AfterAttemptUncounted ==
  /\ connected' = FALSE
  /\ pc' = IF cancelled THEN "cancelled" ELSE IF stop THEN "returned" ELSE "sleeping"
  /\ reconnects' = reconnects
  /\ failed' = failed + 1

AfterAttemptReraising ==
  /\ connected' = FALSE
  /\ pc' = IF cancelled THEN "cancelled"
           ELSE IF stop \/ pc = "connecting" THEN "returned" ELSE "sleeping"
  /\ reconnects' = IF pc' = "sleeping" THEN reconnects + 1 ELSE reconnects
  /\ failed' = failed + 1

\* Deviation from AfterAttempt: no finally, only a sleep clears the flag.
AfterAttemptConnected ==
  /\ pc' = IF cancelled THEN "cancelled" ELSE IF stop THEN "returned" ELSE "sleeping"
  /\ connected' = (connected /\ pc' # "sleeping")
  /\ reconnects' = IF pc' = "sleeping" THEN reconnects + 1 ELSE reconnects
  /\ failed' = failed + 1

\* finally, and what follows the try statement.
AfterAttempt ==
  /\ connected' = FALSE
  /\ pc' = IF cancelled THEN "cancelled" ELSE IF stop THEN "returned" ELSE "sleeping"
  /\ reconnects' = IF pc' = "sleeping" THEN reconnects + 1 ELSE reconnects
  /\ failed' = failed + 1

Start ==
  /\ pc = "new"
  /\ LoopTop
  /\ UNCHANGED <<stop, connected, delay, reconnects, received, cancelled, exchange, failed>>

Connect ==
  /\ pc = "connecting"
  /\ pc' = "subscribing"
  /\ link' = "open"
  /\ UNCHANGED <<stop, connected, delay, reconnects, received, cancelled, wire, made, failed>>

ConnectFails ==
  /\ pc = "connecting" /\ reconnects < MaxReconnects
  /\ AfterAttempt
  /\ UNCHANGED <<stop, delay, received, cancelled, exchange>>

\* Deviation from Subscribe: the delay is never reset.
SubscribeKeepsDelay ==
  /\ pc = "subscribing"
  /\ pc' = "reading"
  /\ connected' = TRUE
  /\ failed' = 0
  /\ UNCHANGED <<stop, delay, reconnects, received, cancelled, exchange>>

\* ws.send returned.
Subscribe ==
  /\ pc = "subscribing"
  /\ pc' = "reading"
  /\ connected' = TRUE
  /\ delay' = InitialDelay
  /\ failed' = 0
  /\ UNCHANGED <<stop, reconnects, received, cancelled, exchange>>

\* ws.send raised: on to the __aexit__ of the connection.
SubscribeFails ==
  /\ pc = "subscribing" /\ link = "closed"
  /\ pc' = "closing"
  /\ UNCHANGED <<stop, connected, delay, reconnects, received, cancelled, exchange, failed>>

\* parse_match_message
ParseMatch(msg) == IF msg.type \in {"match", "last_match"} THEN msg.id ELSE Nothing

\* A message arrives: _handle_raw, which calls on_tick(id) for a match ...
Receive(id) ==
  /\ pc = "reading" /\ ~stop /\ wire # <<>>
  /\ id = ParseMatch(Head(wire))
  /\ wire' = Tail(wire)
  /\ received' = IF id = Nothing THEN received ELSE received + 1
  /\ UNCHANGED <<pc, stop, connected, delay, reconnects, cancelled, link, made, failed>>

\* ... unless stop() was called: the message is dropped, break.
BreakOff ==
  /\ pc = "reading" /\ stop /\ wire # <<>>
  /\ wire' = Tail(wire)
  /\ pc' = "closing"
  /\ UNCHANGED <<stop, connected, delay, reconnects, received, cancelled, link, made, failed>>

\* The connection ended: `async for` ends or raises.
EndOfStream ==
  /\ pc = "reading" /\ link = "closed" /\ wire = <<>>
  /\ pc' = "closing"
  /\ UNCHANGED <<stop, connected, delay, reconnects, received, cancelled, exchange, failed>>

\* __aexit__ has closed the connection.
Closed ==
  /\ pc = "closing"
  /\ link' = "none" /\ wire' = <<>>
  /\ AfterAttempt
  /\ UNCHANGED <<stop, delay, received, cancelled, made>>

\* asyncio.sleep(delay) returned.
Wake ==
  /\ pc = "sleeping"
  /\ delay' = IF delay * 2 < MaxDelay THEN delay * 2 ELSE MaxDelay
  /\ LoopTop
  /\ UNCHANGED <<stop, connected, reconnects, received, cancelled, exchange, failed>>

\* stop(); main.lifespan cancels the task right after it.
Stop ==
  /\ ~stop
  /\ stop' = TRUE
  /\ UNCHANGED <<pc, connected, delay, reconnects, received, cancelled, exchange, failed>>

\* task.cancel(): the await run() is in raises; inside `async with` the
\* connection is closed on the way out.
Cancel ==
  /\ pc \notin {"returned", "cancelled"} /\ ~cancelled
  /\ cancelled' = TRUE
  /\ IF pc \in {"subscribing", "reading"}
     THEN pc' = "closing" /\ UNCHANGED <<connected, link, wire>>
     ELSE pc' = "cancelled" /\ connected' = FALSE /\ link' = "none" /\ wire' = <<>>
  /\ UNCHANGED <<stop, delay, reconnects, received, made, failed>>

\* The steps of run() that call no handler.
RunStep ==
  \/ Start \/ Connect \/ ConnectFails \/ Subscribe \/ SubscribeFails
  \/ BreakOff \/ EndOfStream \/ Closed \/ Wake

Environment == Trade \/ Answer \/ \E n \in 0 .. Len(wire) : LinkBreaks(n)
-----------------------------------------------------------------------------
Places == {"new", "connecting", "subscribing", "reading", "closing", "sleeping",
           "returned", "cancelled"}

MessageType ==
  [type : {"match", "last_match", "subscriptions"}, id : (1 .. MaxTrades) \cup {Nothing}]

(* The type of the client; its flag says connected only while it reads a   *)
(* subscribed connection or is closing it.                                 *)
ClientTypeOK ==
  /\ pc \in Places
  /\ stop \in BOOLEAN /\ connected \in BOOLEAN /\ cancelled \in BOOLEAN
  /\ connected => pc \in {"reading", "closing"}
  /\ delay \in Nat
  /\ reconnects \in 0 .. MaxReconnects
  /\ failed \in Nat
  /\ received \in Nat
  /\ link \in {"none", "open", "subscribed", "closed"}
  /\ wire \in Seq(MessageType)
  /\ made \in 0 .. MaxTrades

=============================================================================
