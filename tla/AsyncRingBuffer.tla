-------------------------- MODULE AsyncRingBuffer --------------------------
(***************************************************************************)
(* The ring buffer with the asyncio.Lock and the asyncio.Condition around  *)
(* it, called by a set of tasks.  A step runs one task from the point      *)
(* where the event loop resumes it to its next suspension or its return,   *)
(* so code without an await between two lines is one step.                 *)
(*                                                                         *)
(* asyncio is modelled from how ring_buffer.py uses it.  Lock.acquire      *)
(* returns without suspending when the lock is free and nobody queues for  *)
(* it, else it queues in FIFO order.  Condition.wait releases the lock,    *)
(* sleeps, and takes the lock again whatever ended the sleep.  wait_for    *)
(* runs its argument inline or, before Python 3.12, in a task of its own:  *)
(* then the caller holds the lock for one turn before the wait begins and  *)
(* for one turn after it ends.  The steps "enter" and "resume" are those   *)
(* turns; an inline wait_for is the behaviour where nothing runs in them.  *)
(*                                                                         *)
(* Items are opaque to the buffer, so the item of the n-th push is n.      *)
(***************************************************************************)
EXTENDS RingBuffer, SequencesExt

CONSTANTS
  Tasks,      (* the asyncio tasks that share the buffer                   *)
  Calls,      (* Calls[t]: the operations task t may call                  *)
  BatchMax,   (* the max_items every drain passes                          *)
  MaxPushes   (* bound of the model: no push is called after so many       *)

Nowaits  == {"push_nowait", "drain_nowait"}
Blocking == {"push_blocking", "push_blocking_timeout"}
Drains   == {"drain", "drain_timeout"}
Timed    == {"push_blocking_timeout", "drain_timeout"}
Ops      == {"push"} \cup Nowaits \cup Blocking \cup Drains

ASSUME TasksAssumption ==
  /\ None \notin Tasks
  /\ None \notin Ops
  /\ None \notin Nat
  /\ Calls \in [Tasks -> SUBSET Ops]
  /\ BatchMax \in Nat \ {0}
  /\ MaxPushes \in Nat

VARIABLES
  buf,        (* the ring                                                  *)
  lock,       (* the task that holds _lock, or None                        *)
  lockq,      (* tasks suspended in _lock.acquire, first to be served first *)
  pc,         (* where each task is suspended                              *)
  call,       (* the operation each task is executing, or None             *)
  wake,       (* what ended the wait of a task that was asleep             *)
  taken,      (* auxiliary: how many items drains have returned            *)
  lastOut     (* auxiliary: the newest item any drain has returned         *)

aux  == <<taken, lastOut>>
vars == <<buf, lock, lockq, pc, call, wake, aux>>

Init ==
  /\ buf = EmptyBuffer
  /\ lock = None
  /\ lockq = <<>>
  /\ pc = [t \in Tasks |-> "idle"]
  /\ call = [t \in Tasks |-> None]
  /\ wake = [t \in Tasks |-> None]
  /\ taken = 0
  /\ lastOut = 0
-----------------------------------------------------------------------------
(* Condition.notify_all, when notify holds: every sleeper becomes ready.   *)
Woken(notify) == {u \in Tasks : notify /\ pc[u] = "waiting"}

\* The call of t returns or raises; `async with` has released the lock.
Return(t, notify) ==
  /\ lock' = None
  /\ pc'   = [u \in Tasks |-> IF u = t THEN "idle"
                              ELSE IF u \in Woken(notify) THEN "woken" ELSE pc[u]]
  /\ wake' = [u \in Tasks |-> IF u = t THEN None
                              ELSE IF u \in Woken(notify) THEN "notified" ELSE wake[u]]
  /\ call' = [call EXCEPT ![t] = None]

\* Deviation from Insert: no notify_all.
InsertSilently(t) ==
  /\ buf' = PushNowait(buf, buf.pushedTotal + 1)
  /\ Return(t, FALSE)
  /\ UNCHANGED aux

\* push_nowait under the lock, notify_all, return.
Insert(t) ==
  /\ buf' = PushNowait(buf, buf.pushedTotal + 1)
  /\ Return(t, TRUE)
  /\ UNCHANGED aux

\* drain_nowait returns the n oldest items.
Drained(n) ==
  /\ buf' = DrainNowait(buf, n)
  /\ taken' = taken + n
  /\ lastOut' = IF n = 0 THEN lastOut ELSE DrainedItems(buf, n)[n]

\* Deviation from TakeBatch: no notify_all.
TakeBatchSilently(t) == Drained(DrainCount(buf, BatchMax)) /\ Return(t, FALSE)

\* drain_nowait under the lock, notify_all if it returned anything.
TakeBatch(t) ==
  LET n == DrainCount(buf, BatchMax)
  IN  Drained(n) /\ Return(t, n > 0)

\* wait_for has been called: t holds the lock until its wait begins.
Park(t, op) ==
  /\ lock' = t
  /\ pc'   = [pc EXCEPT ![t] = "enter"]
  /\ call' = [call EXCEPT ![t] = op]
  /\ wake' = [wake EXCEPT ![t] = None]
  /\ UNCHANGED <<buf, aux>>

\* The body of `async with self._lock` from its first line.
Body(t, op) ==
  \/ op = "push" /\ Insert(t)
  \/ op \in Blocking /\ ~IsFull(buf) /\ Insert(t)
  \/ op \in Blocking /\ IsFull(buf) /\ Park(t, op)
  \/ op = "drain_timeout" /\ buf.size = 0 /\ Park(t, op)
  \/ op = "drain_timeout" /\ buf.size > 0 /\ TakeBatch(t)
  \/ op = "drain" /\ TakeBatch(t)
-----------------------------------------------------------------------------
LockFree == lock = None /\ lockq = <<>>

CanCall(t, op) ==
  /\ pc[t] = "idle"
  /\ op \in Calls[t]
  /\ op \notin Drains \cup {"drain_nowait"} => buf.pushedTotal < MaxPushes

\* push_nowait takes no lock and wakes nobody.
CallPushNowait(t) ==
  /\ CanCall(t, "push_nowait")
  /\ buf' = PushNowait(buf, buf.pushedTotal + 1)
  /\ UNCHANGED <<lock, lockq, pc, call, wake, aux>>

\* drain_nowait neither: it makes room and no waiting producer hears of it.
CallDrainNowait(t) ==
  /\ CanCall(t, "drain_nowait")
  /\ \E maxItems \in {BatchMax, None} : Drained(DrainCount(buf, maxItems))
  /\ UNCHANGED <<lock, lockq, pc, call, wake>>

\* Any other operation: its first acquire succeeds at once or queues.
Start(t, op) ==
  /\ CanCall(t, op) /\ op \notin Nowaits
  /\ LockFree
  /\ Body(t, op)
  /\ UNCHANGED lockq

Enqueue(t, op) ==
  /\ CanCall(t, op) /\ op \notin Nowaits
  /\ ~LockFree
  /\ lockq' = Append(lockq, t)
  /\ pc'    = [pc EXCEPT ![t] = "queued"]
  /\ call'  = [call EXCEPT ![t] = op]
  /\ UNCHANGED <<buf, lock, wake, aux>>

\* The lock is free and t is first in line: the acquire of t returns.
LockGranted(t) ==
  /\ lock = None /\ lockq # <<>> /\ Head(lockq) = t
  /\ lockq' = Tail(lockq)
  /\ \/ pc[t] = "queued" /\ Body(t, call[t])
     \/ /\ pc[t] = "requeued"
        /\ lock' = t
        /\ pc' = [pc EXCEPT ![t] = "resume"]
        /\ UNCHANGED <<buf, call, wake, aux>>

\* Condition.wait registers its waiter and releases the lock.
BeginWait(t) ==
  /\ pc[t] = "enter"
  /\ lock' = None
  /\ pc' = [pc EXCEPT ![t] = "waiting"]
  /\ UNCHANGED <<buf, lockq, call, wake, aux>>

\* wait_for gives up, or the task is cancelled, asleep or on its way back.
Interrupt(t, reason) ==
  /\ pc[t] \in {"waiting", "woken", "requeued"}
  /\ wake[t] # "cancelled"
  /\ wake' = [wake EXCEPT ![t] = reason]
  /\ pc'   = [pc EXCEPT ![t] = IF @ = "waiting" THEN "woken" ELSE @]
  /\ UNCHANGED <<buf, lock, lockq, call, aux>>

\* Deviation from Timeout: drain does not pass its wait_timeout on.
TimeoutPushesOnly(t) ==
  call[t] \in Timed \cap Blocking /\ wake[t] # "timeout" /\ Interrupt(t, "timeout")

Timeout(t) == call[t] \in Timed /\ wake[t] # "timeout" /\ Interrupt(t, "timeout")

CancelWaiting(t) == Interrupt(t, "cancelled")

\* task.cancel() while the first acquire is still queued.
CancelQueued(t) ==
  /\ pc[t] = "queued"
  /\ \E i \in DOMAIN lockq : lockq[i] = t /\ lockq' = RemoveAt(lockq, i)
  /\ pc'    = [pc EXCEPT ![t] = "idle"]
  /\ call'  = [call EXCEPT ![t] = None]
  /\ UNCHANGED <<buf, lock, wake, aux>>

\* The tail of Condition.wait: take the lock again, whatever happened.
Reacquire(t) ==
  /\ pc[t] = "woken"
  /\ IF LockFree
     THEN lock' = t /\ lockq' = lockq /\ pc' = [pc EXCEPT ![t] = "resume"]
     ELSE lock' = lock /\ lockq' = Append(lockq, t) /\ pc' = [pc EXCEPT ![t] = "requeued"]
  /\ UNCHANGED <<buf, call, wake, aux>>

\* Deviation from ResumeBlocking: `if` where the code has `while`.
ResumeBlockingOnce(t) ==
  /\ pc[t] = "resume" /\ call[t] \in Blocking
  /\ \/ wake[t] = "notified" /\ Insert(t)
     \/ wake[t] # "notified" /\ Return(t, FALSE) /\ UNCHANGED <<buf, aux>>
  /\ UNCHANGED lockq

\* push_blocking goes round its while loop, or its wait_for raises.
ResumeBlocking(t) ==
  /\ pc[t] = "resume" /\ call[t] \in Blocking
  /\ \/ wake[t] = "notified" /\ IsFull(buf) /\ Park(t, call[t])
     \/ wake[t] = "notified" /\ ~IsFull(buf) /\ Insert(t)
     \/ wake[t] # "notified" /\ Return(t, FALSE) /\ UNCHANGED <<buf, aux>>
  /\ UNCHANGED lockq

\* Deviation from ResumeDrain: a timeout on an empty ring waits once more.
ResumeDrainUntilItems(t) ==
  /\ pc[t] = "resume" /\ call[t] \in Drains
  /\ \/ wake[t] # "cancelled" /\ buf.size > 0 /\ TakeBatch(t)
     \/ wake[t] # "cancelled" /\ buf.size = 0 /\ Park(t, call[t])
     \/ wake[t] = "cancelled" /\ Return(t, FALSE) /\ UNCHANGED <<buf, aux>>
  /\ UNCHANGED lockq

\* drain swallows a timeout and takes whatever is there; a cancel escapes.
ResumeDrain(t) ==
  /\ pc[t] = "resume" /\ call[t] \in Drains
  /\ \/ wake[t] # "cancelled" /\ TakeBatch(t)
     \/ wake[t] = "cancelled" /\ Return(t, FALSE) /\ UNCHANGED <<buf, aux>>
  /\ UNCHANGED lockq

Run(t) ==
  LockGranted(t) \/ BeginWait(t) \/ Reacquire(t) \/ ResumeBlocking(t) \/ ResumeDrain(t)

Next == \E t \in Tasks :
  \/ CallPushNowait(t)
  \/ CallDrainNowait(t)
  \/ \E op \in Ops : Start(t, op) \/ Enqueue(t, op)
  \/ Run(t)
  \/ Timeout(t)
  \/ CancelWaiting(t)
  \/ CancelQueued(t)

Spec == Init /\ [][Next]_vars

(* The event loop runs every ready task and fires every timer; a task that *)
(* drains calls drain again and again, as Pipeline._consume_symbol does.   *)
CallDrain(t) == \E op \in Drains : Start(t, op) \/ Enqueue(t, op)

Fairness == \A t \in Tasks :
  WF_vars(Run(t)) /\ WF_vars(Timeout(t)) /\ WF_vars(CallDrain(t))

NextNoCancel == \E t \in Tasks :
  \/ CallPushNowait(t)
  \/ CallDrainNowait(t)
  \/ \E op \in Ops : Start(t, op) \/ Enqueue(t, op)
  \/ Run(t)
  \/ Timeout(t)

\* Nobody cancels for ever.
FairSpec == Spec /\ Fairness /\ <>[][NextNoCancel]_vars
-----------------------------------------------------------------------------
Places == {"idle", "queued", "enter", "waiting", "woken", "requeued", "resume"}

BufferType ==
  [slots : [Index -> Nat \cup {None}], head : Index, size : 0 .. Capacity,
   dropped : Nat, pushedTotal : Nat]

\* The type invariant.
TypeOK ==
  /\ buf \in BufferType
  /\ lock \in Tasks \cup {None}
  /\ lockq \in Seq(Tasks)
  /\ pc \in [Tasks -> Places]
  /\ call \in [Tasks -> Ops \cup {None}]
  /\ wake \in [Tasks -> {None, "notified", "timeout", "cancelled"}]
  /\ taken \in Nat
  /\ lastOut \in Nat

(* However pushes, drains and wrap-arounds interleave, what the ring holds *)
(* is the run of the most recent pushes, oldest first: the overflow policy *)
(* of push_nowait loses the oldest item and no other.                      *)
NewestKept ==
  \A k \in 1 .. buf.size : Contents(buf)[k] = buf.pushedTotal - buf.size + k

(* Every item pushed is drained once, counted as dropped once, or still    *)
(* held; drains return items in push order, so an item once returned or    *)
(* lost never comes back.                                                  *)
EveryPushAccounted ==
  /\ taken + buf.dropped + buf.size = buf.pushedTotal
  /\ lastOut <= buf.pushedTotal - buf.size

(* push_blocking applies backpressure: when a call of it that had to wait  *)
(* comes back, no item was overwritten, however many other producers woke  *)
(* at the same time.                                                       *)
BlockingNeverDrops ==
  [][\A t \in Tasks :
       call[t] \in Blocking /\ call'[t] = None => buf'.dropped = buf.dropped]_vars

(* No lost wakeup: where everybody drains under the lock, a producer never *)
(* sleeps in push_blocking while there is room, because every drain that   *)
(* frees a slot notifies before it lets the lock go.                       *)
NoLostWakeup ==
  \A t \in Tasks : pc[t] = "waiting" /\ call[t] \in Blocking => IsFull(buf)

(* With producers that push under the lock, a drainer never sleeps while   *)
(* there is something to drain.                                            *)
DrainerNotStranded ==
  \A t \in Tasks : pc[t] = "waiting" /\ call[t] \in Drains => buf.size = 0

\* A drain with a timeout always returns, whoever else uses the lock.
DrainReturns ==
  \A t \in Tasks : call[t] = "drain_timeout" ~> call[t] = None

(* A push_blocking without a timeout gets its item in, unless it is        *)
(* cancelled, as long as somebody keeps draining under the lock and the    *)
(* others do not push for ever.                                            *)
BlockedAdmitted ==
  \A t \in Tasks : call[t] = "push_blocking" ~> call[t] = None

(* push_nowait tells nobody, and a drainer may be asleep beside what it    *)
(* pushed; still every item leaves the ring, because the wait of drain     *)
(* times out and looks at the ring again.                                  *)
PushedItemsLeave ==
  \A n \in 1 .. MaxPushes : buf.pushedTotal >= n ~> buf.pushedTotal - buf.size >= n

\* The ring implements the bounded queue that drops its oldest element.
Queue == INSTANCE DropOldestQueue
           WITH queue <- Contents(buf), dropped <- buf.dropped, added <- buf.pushedTotal

ImplementsQueue == Queue!Spec
=============================================================================
