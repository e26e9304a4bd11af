----------------------------- MODULE Broadcast -----------------------------
(***************************************************************************)
(* The fan-out of events to dashboard clients: BroadcastManager of         *)
(* backend/app/api/ws_broadcast.py and the /ws/stream handler of routes.py *)
(* that drives it.  Each client has the handler task that accepted its     *)
(* socket, a bounded queue and a sender task.  A step runs one task, or    *)
(* one call of publish_many_nowait, to its next await, so a burst is one   *)
(* step.  The n-th event published is the number n.                        *)
(*                                                                         *)
(* External: asyncio.Queue (a put wakes the task that waits in get) and    *)
(* the socket, which is open, stalled (the peer does not read, a send does *)
(* not return) or broken (the peer is gone, a send raises).                *)
(***************************************************************************)
EXTENDS Integers, SequencesExt

CONSTANTS
  Clients,    (* the websockets that are ever opened, one per page load    *)
  QueueMax,   (* CLIENT_QUEUE_MAXSIZE                                      *)
  None,       (* no event                                                  *)
  MaxEvents,  (* bound of the model: events published                      *)
  MaxBurst    (* bound of the model: events of one publish_many_nowait     *)

ASSUME BroadcastAssumption ==
  /\ QueueMax \in Nat \ {0}
  /\ MaxEvents \in Nat
  /\ MaxBurst \in Nat
  /\ None \notin Nat

VARIABLES
  published,  (* events published so far                                   *)
  sock,       (* the socket of each client                                 *)
  handler,    (* where its handler is; "serving" is being in _clients      *)
  queue,      (* its queue                                                 *)
  dropped,    (* events its queue has dropped                              *)
  sender,     (* where its sender task is suspended                        *)
  sending,    (* the event inside send_json, or None                       *)
  joined,     (* auxiliary: events published before it was registered      *)
  offered,    (* auxiliary: events published while it was registered       *)
  delivered   (* auxiliary: the newest event it has received               *)

aux  == <<joined, offered, delivered>>
vars == <<published, sock, handler, queue, dropped, sender, sending, aux>>

Init ==
  /\ published = 0
  /\ sock      = [c \in Clients |-> "open"]
  /\ handler   = [c \in Clients |-> "absent"]
  /\ queue     = [c \in Clients |-> <<>>]
  /\ dropped   = [c \in Clients |-> 0]
  /\ sender    = [c \in Clients |-> "none"]
  /\ sending   = [c \in Clients |-> None]
  /\ joined    = [c \in Clients |-> 0]
  /\ offered   = [c \in Clients |-> 0]
  /\ delivered = [c \in Clients |-> 0]
-----------------------------------------------------------------------------
(* The handler.                                                            *)

\* A request for /ws/stream: connect() awaits ws.accept().
Request(c) ==
  /\ handler[c] = "absent"
  /\ handler' = [handler EXCEPT ![c] = "accepting"]
  /\ UNCHANGED <<published, sock, queue, dropped, sender, sending, aux>>

\* accept() returned: the client is registered and its sender task created.
Connect(c) ==
  /\ handler[c] = "accepting"
  /\ handler' = [handler EXCEPT ![c] = "serving"]
  /\ sender'  = [sender EXCEPT ![c] = "start"]
  /\ joined'  = [joined EXCEPT ![c] = published]
  /\ UNCHANGED <<published, sock, queue, dropped, sending, offered, delivered>>

\* accept() raised, before the try: nothing to undo.
AcceptFails(c) ==
  /\ handler[c] = "accepting" /\ sock[c] = "broken"
  /\ handler' = [handler EXCEPT ![c] = "gone"]
  /\ UNCHANGED <<published, sock, queue, dropped, sender, sending, aux>>

\* Deviation from Disconnect: the sender task is not cancelled.
DisconnectOnly(c) ==
  /\ handler[c] = "serving"
  /\ handler' = [handler EXCEPT ![c] = "gone"]
  /\ UNCHANGED <<published, sock, queue, dropped, sender, sending, aux>>

\* receive_text raised, or the handler is cancelled: disconnect() in finally.
Disconnect(c) ==
  /\ handler[c] = "serving"
  /\ handler' = [handler EXCEPT ![c] = "gone"]
  /\ sender'  = [sender EXCEPT ![c] = IF @ = "ended" THEN @ ELSE "cancelled"]
  /\ UNCHANGED <<published, sock, queue, dropped, sending, aux>>
-----------------------------------------------------------------------------
(* publish_nowait for one client: its queue and drop count after one event. *)

\* Deviations from PutNowait: a queue without maxsize, a full one refuses.
PutNowaitUnbounded(cl, e) == [cl EXCEPT !.queue = Append(@, e)]

PutNowaitKeepsOldest(cl, e) ==
  IF Len(cl.queue) < QueueMax
  THEN [cl EXCEPT !.queue = Append(@, e)]
  ELSE [cl EXCEPT !.dropped = @ + 1]

PutNowait(cl, e) ==
  IF Len(cl.queue) < QueueMax
  THEN [cl EXCEPT !.queue = Append(@, e)]
  ELSE [queue |-> Append(Tail(cl.queue), e), dropped |-> cl.dropped + 1]

Registered == {c \in Clients : handler[c] = "serving"}

\* publish_many_nowait of k events; no task runs in between.
PublishMany(k) ==
  LET burst    == [i \in 1 .. k |-> published + i]
      after(c) == IF c \in Registered
                  THEN FoldLeft(PutNowait, [queue |-> queue[c], dropped |-> dropped[c]], burst)
                  ELSE [queue |-> queue[c], dropped |-> dropped[c]]
  IN  /\ published + k <= MaxEvents
      /\ published' = published + k
      /\ queue'     = [c \in Clients |-> after(c).queue]
      /\ dropped'   = [c \in Clients |-> after(c).dropped]
      /\ sender'    = [c \in Clients |-> IF c \in Registered /\ sender[c] = "getting"
                                         THEN "woken" ELSE sender[c]]
      /\ offered'   = [c \in Clients |-> IF c \in Registered THEN offered[c] + k ELSE offered[c]]
      /\ UNCHANGED <<sock, handler, sending, joined, delivered>>
-----------------------------------------------------------------------------
(* The sender task.                                                        *)

\* Deviation from Get: get_nowait in place of get, and an empty queue ends it.
GetOrEnd(c) ==
  IF queue[c] = <<>>
  THEN /\ sender'  = [sender EXCEPT ![c] = "ended"]
       /\ sending' = [sending EXCEPT ![c] = None]
       /\ queue'   = queue
  ELSE /\ sender'  = [sender EXCEPT ![c] = "sending"]
       /\ sending' = [sending EXCEPT ![c] = Head(queue[c])]
       /\ queue'   = [queue EXCEPT ![c] = Tail(@)]

\* queue.get(): an event at once, and on to send_json, or wait for one.
Get(c) ==
  IF queue[c] = <<>>
  THEN /\ sender'  = [sender EXCEPT ![c] = "getting"]
       /\ sending' = [sending EXCEPT ![c] = None]
       /\ queue'   = queue
  ELSE /\ sender'  = [sender EXCEPT ![c] = "sending"]
       /\ sending' = [sending EXCEPT ![c] = Head(queue[c])]
       /\ queue'   = [queue EXCEPT ![c] = Tail(@)]

\* The task starts, or its get() has been woken.
SenderRuns(c) ==
  /\ sender[c] \in {"start", "woken"}
  /\ Get(c)
  /\ UNCHANGED <<published, sock, handler, dropped, aux>>

\* send_json returned: round the loop, without an await before the next get.
SendDone(c) ==
  /\ sender[c] = "sending" /\ sock[c] = "open"
  /\ delivered' = [delivered EXCEPT ![c] = sending[c]]
  /\ Get(c)
  /\ UNCHANGED <<published, sock, handler, dropped, joined, offered>>

\* send_json raised; the task ends silently and the client stays registered.
SendFails(c) ==
  /\ sender[c] = "sending" /\ sock[c] = "broken"
  /\ sender'  = [sender EXCEPT ![c] = "ended"]
  /\ sending' = [sending EXCEPT ![c] = None]
  /\ UNCHANGED <<published, sock, handler, queue, dropped, aux>>

\* CancelledError at the await the task was suspended in.
SenderCancelled(c) ==
  /\ sender[c] = "cancelled"
  /\ sender'  = [sender EXCEPT ![c] = "ended"]
  /\ sending' = [sending EXCEPT ![c] = None]
  /\ UNCHANGED <<published, sock, handler, queue, dropped, aux>>
-----------------------------------------------------------------------------
\* The peer stops reading, reads again, or is gone.
SocketChanges(c, s) ==
  /\ handler[c] # "absent"
  /\ sock[c] # "broken" /\ sock[c] # s
  /\ sock' = [sock EXCEPT ![c] = s]
  /\ UNCHANGED <<published, handler, queue, dropped, sender, sending, aux>>

Sender(c) == SenderRuns(c) \/ SendDone(c) \/ SendFails(c) \/ SenderCancelled(c)

Next ==
  \/ \E k \in 1 .. MaxBurst : PublishMany(k)
  \/ \E c \in Clients :
       \/ Request(c) \/ Connect(c) \/ AcceptFails(c) \/ Disconnect(c)
       \/ Sender(c)
       \/ \E s \in {"open", "stalled", "broken"} : SocketChanges(c, s)

(* A ready task runs; accept() comes back; receive_text raises once the    *)
(* peer is gone.  A stalled peer need never read again.                    *)
Fairness == \A c \in Clients :
  /\ WF_vars(Sender(c))
  /\ WF_vars(Connect(c) \/ AcceptFails(c))
  /\ WF_vars(sock[c] = "broken" /\ Disconnect(c))

Spec == Init /\ [][Next]_vars

FairSpec == Spec /\ Fairness
-----------------------------------------------------------------------------
\* The type invariant.
TypeOK ==
  /\ published \in 0 .. MaxEvents
  /\ sock \in [Clients -> {"open", "stalled", "broken"}]
  /\ handler \in [Clients -> {"absent", "accepting", "serving", "gone"}]
  /\ queue \in [Clients -> Seq(1 .. MaxEvents)]
  /\ \A c \in Clients : Len(queue[c]) <= QueueMax
  /\ dropped \in [Clients -> 0 .. MaxEvents]
  /\ sender \in [Clients -> {"none", "start", "getting", "woken", "sending",
                             "cancelled", "ended"}]
  /\ sending \in [Clients -> (1 .. MaxEvents) \cup {None}]
  /\ joined \in [Clients -> 0 .. MaxEvents]
  /\ offered \in [Clients -> 0 .. MaxEvents]
  /\ delivered \in [Clients -> 0 .. MaxEvents]

(* Whatever the other clients do, each client's queue is the bounded FIFO  *)
(* queue that loses its oldest events, and counts them, for the events     *)
(* published while it was registered: nobody's stall or failure costs      *)
(* another client an event.                                                *)
Queue(c) ==
  INSTANCE DropOldestQueue
    WITH Capacity <- QueueMax,
         queue    <- [i \in DOMAIN queue[c] |-> queue[c][i] - joined[c]],
         dropped  <- dropped[c],
         added    <- offered[c]

ClientsAreQueues ==
  /\ \A c \in Clients : Queue(c)!Init
  /\ [][\A c \in Clients : Queue(c)!BurstNext \/ UNCHANGED Queue(c)!vars]_vars

(* "Must not be able to slow down the other connected clients": an event   *)
(* or a later one reaches a client that keeps reading, even if the others  *)
(* have stalled for ever.                                                  *)
NewestArrives ==
  \A c \in Clients, n \in 1 .. MaxEvents :
    (c \in Registered /\ joined[c] < n /\ n <= published /\ sock[c] = "open")
      ~> (delivered[c] >= n \/ c \notin Registered \/ sock[c] # "open")

(* When a peer is gone its client is forgotten and its sender task ends,   *)
(* whether the handler or the sender notices first.                        *)
DeadClientsForgotten ==
  \A c \in Clients :
    sock[c] = "broken" ~> (c \notin Registered /\ sender[c] \in {"none", "ended"})
=============================================================================
