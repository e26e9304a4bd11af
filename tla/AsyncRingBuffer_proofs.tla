----------------------- MODULE AsyncRingBuffer_proofs -----------------------
(***************************************************************************)
(* Proofs about AsyncRingBuffer for every capacity, every set of tasks and *)
(* every assignment of operations to them.                                 *)
(*                                                                         *)
(* The argument has two halves.  DataInv says what the ring holds; only a  *)
(* push or a drain touches it, so it rests on two lemmas about those       *)
(* operators.  LockInv says who may hold the lock and who may be asleep;   *)
(* it rests on the control state alone.                                    *)
(***************************************************************************)
EXTENDS AsyncRingBuffer, SequenceTheorems, TLAPS

(* The modulus on the range index arithmetic needs: adding at most once    *)
(* the capacity to an index, or subtracting at most the capacity from it.  *)
LEMMA ModRange ==
  ASSUME NEW a \in Int
  PROVE  a % Capacity \in Index
BY CapacityAssumption DEF Index

\* The remainders the ring computes, for dividends within one turn of it.
LEMMA ModValues ==
  ASSUME NEW a \in Int, -Capacity <= a, a < 2 * Capacity
  PROVE  a % Capacity = IF a < 0 THEN a + Capacity
                        ELSE IF a < Capacity THEN a ELSE a - Capacity
<1>1. CASE a < 0
  BY <1>1, CapacityAssumption
<1>2. CASE 0 <= a /\ a < Capacity
  BY <1>2, CapacityAssumption
<1>3. CASE Capacity <= a
  BY <1>3, CapacityAssumption
<1> QED BY <1>1, <1>2, <1>3, CapacityAssumption

(* The slot of the k-th oldest item without a modulus: it lies k - 1       *)
(* places above the tail, or the capacity below that place.                *)
LEMMA SlotValue ==
  ASSUME NEW b \in BufferType, NEW k \in 1 .. b.size + 1
  PROVE  /\ SlotOf(b, k) \in Index
         /\ SlotOf(b, k) = IF b.head - b.size + k - 1 >= 0
                           THEN b.head - b.size + k - 1
                           ELSE b.head - b.size + k - 1 + Capacity
<1> DEFINE tail == (b.head - b.size) % Capacity
<1>1. /\ Capacity \in Nat /\ Capacity > 0
      /\ b.head \in Int /\ 0 <= b.head /\ b.head < Capacity
      /\ b.size \in Int /\ 0 <= b.size /\ b.size <= Capacity
      /\ k \in Int /\ 1 <= k /\ k <= b.size + 1
  BY CapacityAssumption DEF BufferType, Index
<1>2. tail = IF b.head - b.size < 0 THEN b.head - b.size + Capacity ELSE b.head - b.size
  BY <1>1, ModValues
<1>3. tail \in Int /\ tail + k - 1 \in Int /\ 0 <= tail + k - 1 /\ tail + k - 1 < 2 * Capacity
  BY <1>1, <1>2
<1>4. SlotOf(b, k) = IF tail + k - 1 < Capacity THEN tail + k - 1 ELSE tail + k - 1 - Capacity
  BY <1>1, <1>3, ModValues DEF SlotOf
<1>5. SlotOf(b, k) \in Index
  BY <1>3, ModRange DEF SlotOf
<1> HIDE DEF tail
<1> QED BY <1>1, <1>2, <1>4, <1>5

\* What NewestKept says of one buffer.
Newest(b) ==
  \A k \in 1 .. b.size : b.slots[SlotOf(b, k)] = b.pushedTotal - b.size + k

(* push_nowait keeps the newest pushes in order, whether it overwrites or  *)
(* not.                                                                    *)
LEMMA PushKeepsNewest ==
  ASSUME NEW b \in BufferType, Newest(b)
  PROVE  /\ PushNowait(b, b.pushedTotal + 1) \in BufferType
         /\ Newest(PushNowait(b, b.pushedTotal + 1))
<1> DEFINE c == PushNowait(b, b.pushedTotal + 1)
<1>1. /\ Capacity \in Nat /\ Capacity > 0
      /\ b.head \in Int /\ 0 <= b.head /\ b.head < Capacity
      /\ b.size \in Int /\ 0 <= b.size /\ b.size <= Capacity
      /\ b.dropped \in Nat /\ b.pushedTotal \in Nat
      /\ b.slots \in [Index -> Nat \cup {None}]
  BY CapacityAssumption DEF BufferType, Index
<1>2. /\ c.slots = [b.slots EXCEPT ![b.head] = b.pushedTotal + 1]
      /\ c.head = IF b.head + 1 < Capacity THEN b.head + 1 ELSE 0
      /\ c.size = IF b.size = Capacity THEN b.size ELSE b.size + 1
      /\ c.pushedTotal = b.pushedTotal + 1
  <2>1. (b.head + 1) % Capacity = IF b.head + 1 < Capacity THEN b.head + 1 ELSE 0
    BY <1>1, ModValues
  <2> QED BY <2>1 DEF PushNowait, IsFull
<1>3. c \in BufferType
  <2>1. (b.head + 1) % Capacity \in Index
    BY <1>1, ModRange
  <2> QED BY <1>1, <2>1 DEF PushNowait, IsFull, BufferType, Index
<1>4. ASSUME NEW k \in 1 .. c.size
      PROVE  c.slots[SlotOf(c, k)] = c.pushedTotal - c.size + k
  <2> HIDE DEF c
  <2>1. c.size \in Int /\ k \in Int /\ 1 <= k /\ k <= c.size
    BY <1>3 DEF BufferType
  <2>2. /\ SlotOf(c, k) \in Index
        /\ SlotOf(c, k) = IF c.head - c.size + k - 1 >= 0
                          THEN c.head - c.size + k - 1
                          ELSE c.head - c.size + k - 1 + Capacity
    BY <1>3, <2>1, SlotValue
  <2>3. CASE k = c.size
    <3>1. SlotOf(c, k) = b.head
      BY <1>1, <1>2, <2>2, <2>3
    <3> QED BY <1>1, <1>2, <2>3, <3>1 DEF Index
  <2>4. CASE k < c.size
    <3>0. PICK j \in Int : j = k + b.size + 1 - c.size
      BY <1>1, <1>2, <2>1
    <3>1. j \in Int /\ 1 <= j /\ j <= b.size
      BY <1>1, <1>2, <2>1, <2>4, <3>0
    <3>2. SlotOf(b, j) = IF b.head - b.size + j - 1 >= 0
                         THEN b.head - b.size + j - 1
                         ELSE b.head - b.size + j - 1 + Capacity
      BY <1>1, <3>1, SlotValue
    <3>3. SlotOf(c, k) = SlotOf(b, j) /\ SlotOf(c, k) # b.head
      <4> DEFINE At(h, z, m) == IF h - z + m - 1 >= 0 THEN h - z + m - 1
                                ELSE h - z + m - 1 + Capacity
      <4>1. SlotOf(c, k) = At(c.head, c.size, k) /\ SlotOf(b, j) = At(b.head, b.size, j)
        BY <2>2, <3>2
      <4>2. CASE b.size = Capacity
        <5>1. c.size = Capacity /\ j = k + 1 /\ k < Capacity
          BY <1>1, <1>2, <2>1, <2>4, <3>0, <4>2
        <5>2. At(c.head, Capacity, k) = At(b.head, Capacity, k + 1) /\ At(b.head, Capacity, k + 1) # b.head
          BY <1>1, <1>2, <2>1, <5>1
        <5> QED BY <4>1, <4>2, <5>1, <5>2
      <4>3. CASE b.size # Capacity
        <5>1. c.size = b.size + 1
          BY <1>2, <4>3
        <5>2. b.size < Capacity
          BY <1>1, <4>3
        <5>3. j = k /\ k <= b.size
          BY <1>1, <2>1, <2>4, <3>0, <5>1
        <5>4. At(c.head, b.size + 1, k) = At(b.head, b.size, k) /\ At(b.head, b.size, k) # b.head
          BY <1>1, <1>2, <2>1, <5>2, <5>3
        <5> QED BY <4>1, <5>1, <5>3, <5>4
      <4> QED BY <4>2, <4>3
    <3>4. b.slots[SlotOf(b, j)] = b.pushedTotal - b.size + j
      BY <1>1, <3>1 DEF Newest
    <3>5. c.slots[SlotOf(c, k)] = b.slots[SlotOf(b, j)]
      BY <1>1, <1>2, <2>2, <3>3
    <3>6. b.pushedTotal - b.size + j = c.pushedTotal - c.size + k
      BY <1>1, <1>2, <2>1, <3>0
    <3> QED BY <3>4, <3>5, <3>6
  <2> QED BY <2>1, <2>3, <2>4
<1> QED BY <1>3, <1>4 DEF Newest

(* drain_nowait(n) removes the n oldest and leaves the rest as it was.     *)
LEMMA DrainKeepsNewest ==
  ASSUME NEW b \in BufferType, Newest(b), NEW n \in 0 .. b.size
  PROVE  /\ DrainNowait(b, n) \in BufferType
         /\ Newest(DrainNowait(b, n))
<1> DEFINE c == DrainNowait(b, n)
           freed == {SlotOf(b, k) : k \in 1 .. n}
<1>1. /\ Capacity \in Nat /\ Capacity > 0
      /\ b.head \in Int /\ 0 <= b.head /\ b.head < Capacity
      /\ b.size \in Int /\ 0 <= b.size /\ b.size <= Capacity
      /\ b.dropped \in Nat /\ b.pushedTotal \in Nat
      /\ b.slots \in [Index -> Nat \cup {None}]
      /\ n \in Int /\ 0 <= n /\ n <= b.size
  BY CapacityAssumption DEF BufferType, Index
<1>2. /\ c.slots = [i \in Index |-> IF i \in freed THEN None ELSE b.slots[i]]
      /\ c.head = b.head
      /\ c.size = b.size - n
      /\ c.pushedTotal = b.pushedTotal
      /\ c.dropped = b.dropped
      /\ c \in BufferType
  <2>1. c = [slots |-> [i \in Index |-> IF i \in freed THEN None ELSE b.slots[i]],
             head |-> b.head, size |-> b.size - n,
             dropped |-> b.dropped, pushedTotal |-> b.pushedTotal]
    BY DEF DrainNowait
  <2>2. b.head \in Index
    BY DEF BufferType
  <2> HIDE DEF c, freed
  <2>3. [i \in Index |-> IF i \in freed THEN None ELSE b.slots[i]] \in [Index -> Nat \cup {None}]
    BY <1>1
  <2>4. b.size - n \in 0 .. Capacity
    BY <1>1
  <2> QED BY <1>1, <2>1, <2>2, <2>3, <2>4 DEF BufferType
<1>3. ASSUME NEW k \in 1 .. c.size
      PROVE  c.slots[SlotOf(c, k)] = c.pushedTotal - c.size + k
  <2> HIDE DEF c
  <2>1. k \in Int /\ 1 <= k /\ k <= b.size - n
    BY <1>1, <1>2
  <2>2. /\ SlotOf(c, k) \in Index
        /\ SlotOf(c, k) = IF c.head - c.size + k - 1 >= 0
                          THEN c.head - c.size + k - 1
                          ELSE c.head - c.size + k - 1 + Capacity
    BY <1>1, <1>2, <2>1, SlotValue
  <2>3. ASSUME NEW m \in 1 .. b.size
        PROVE  SlotOf(b, m) = IF b.head - b.size + m - 1 >= 0
                              THEN b.head - b.size + m - 1
                              ELSE b.head - b.size + m - 1 + Capacity
    <3>1. m \in 1 .. b.size + 1
      BY <1>1
    <3> QED BY <3>1, SlotValue
  <2>4. k + n \in 1 .. b.size
    BY <1>1, <2>1
  <2>5. SlotOf(c, k) = SlotOf(b, k + n)
    <3>1. SlotOf(b, k + n) = IF b.head - b.size + k + n - 1 >= 0
                             THEN b.head - b.size + k + n - 1
                             ELSE b.head - b.size + k + n - 1 + Capacity
      BY <1>1, <2>1, <2>3, <2>4
    <3> QED BY <1>1, <1>2, <2>1, <2>2, <3>1
  <2>6. SlotOf(b, k + n) \notin freed
    <3> SUFFICES ASSUME NEW m \in 1 .. n, SlotOf(b, k + n) = SlotOf(b, m) PROVE FALSE
      OBVIOUS
    <3>1. m \in 1 .. b.size /\ m \in Int /\ 1 <= m /\ m <= n
      BY <1>1
    <3>2. SlotOf(b, m) = IF b.head - b.size + m - 1 >= 0
                         THEN b.head - b.size + m - 1
                         ELSE b.head - b.size + m - 1 + Capacity
      BY <2>3, <3>1
    <3> QED BY <1>1, <1>2, <2>1, <2>2, <2>5, <3>1, <3>2
  <2>7. b.slots[SlotOf(b, k + n)] = b.pushedTotal - b.size + k + n
    BY <1>1, <2>1, <2>4 DEF Newest
  <2> QED BY <1>1, <1>2, <2>1, <2>2, <2>5, <2>6, <2>7
<1> QED BY <1>2, <1>3 DEF Newest
-----------------------------------------------------------------------------
(* The data half.  A step pushes one item, drains a prefix, or leaves the  *)
(* ring alone.                                                             *)
DataInv ==
  /\ buf \in BufferType
  /\ Newest(buf)
  /\ taken \in Nat /\ lastOut \in Nat
  /\ taken + buf.dropped + buf.size = buf.pushedTotal
  /\ lastOut <= buf.pushedTotal - buf.size

PushStep == buf' = PushNowait(buf, buf.pushedTotal + 1) /\ UNCHANGED aux

DrainStep ==
  \E n \in 0 .. buf.size :
    /\ buf' = DrainNowait(buf, n)
    /\ taken' = taken + n
    /\ lastOut' = IF n = 0 THEN lastOut ELSE DrainedItems(buf, n)[n]

\* Taking a batch is a drain.
LEMMA TakeBatchDrains ==
  ASSUME buf \in BufferType, NEW t \in Tasks, TakeBatch(t)
  PROVE  DrainStep
<1> DEFINE n == DrainCount(buf, BatchMax)
<1>1. n \in 0 .. buf.size
  BY TasksAssumption DEF DrainCount, BufferType
<1>2. /\ buf' = DrainNowait(buf, n)
      /\ taken' = taken + n
      /\ lastOut' = IF n = 0 THEN lastOut ELSE DrainedItems(buf, n)[n]
  BY DEF TakeBatch, Drained
<1> HIDE DEF n
<1> QED BY <1>1, <1>2 DEF DrainStep

\* So is drain_nowait, with or without a max_items.
LEMMA DrainNowaitDrains ==
  ASSUME buf \in BufferType, NEW t \in Tasks, CallDrainNowait(t)
  PROVE  DrainStep
<1>1. PICK maxItems \in {BatchMax, None} : Drained(DrainCount(buf, maxItems))
  BY DEF CallDrainNowait
<1> DEFINE n == DrainCount(buf, maxItems)
<1>2. n \in 0 .. buf.size
  BY TasksAssumption DEF DrainCount, BufferType
<1>3. Drained(n)
  BY <1>1
<1> HIDE DEF n
<1> QED BY <1>2, <1>3 DEF Drained, DrainStep

\* The body of an operation pushes, drains, or leaves the buffer alone.
LEMMA BodySteps ==
  ASSUME buf \in BufferType, NEW t \in Tasks, NEW op \in Ops, Body(t, op)
  PROVE  PushStep \/ DrainStep \/ UNCHANGED <<buf, aux>>
<1>1. CASE Insert(t)
  BY <1>1 DEF Insert, PushStep
<1>2. CASE TakeBatch(t)
  BY <1>2, TakeBatchDrains
<1>3. CASE Park(t, op)
  BY <1>3 DEF Park
<1> QED BY <1>1, <1>2, <1>3 DEF Body

ControlType ==
  /\ lock \in Tasks \cup {None}
  /\ pc \in [Tasks -> Places]
  /\ call \in [Tasks -> Ops \cup {None}]
  /\ wake \in [Tasks -> {None, "notified", "timeout", "cancelled"}]

\* Exactly a task past "idle" executes an operation.
Busy == \A t \in Tasks : pc[t] # "idle" <=> call[t] \in Ops

\* So does every step.
LEMMA StepCases ==
  ASSUME buf \in BufferType, Busy, [Next]_vars
  PROVE  PushStep \/ DrainStep \/ UNCHANGED <<buf, aux>>
<1>1. CASE UNCHANGED vars
  BY <1>1 DEF vars
<1>2. ASSUME NEW t \in Tasks, CallPushNowait(t) PROVE PushStep
  BY <1>2 DEF CallPushNowait, PushStep
<1>3. ASSUME NEW t \in Tasks, NEW op \in Ops, Start(t, op)
      PROVE  PushStep \/ DrainStep \/ UNCHANGED <<buf, aux>>
  BY <1>3, BodySteps DEF Start
<1>4. ASSUME NEW t \in Tasks, NEW op \in Ops, Enqueue(t, op) PROVE UNCHANGED <<buf, aux>>
  BY <1>4 DEF Enqueue
<1>5. ASSUME NEW t \in Tasks, LockGranted(t)
      PROVE  PushStep \/ DrainStep \/ UNCHANGED <<buf, aux>>
  <2>1. CASE pc[t] = "queued" /\ Body(t, call[t])
    <3>1. call[t] \in Ops
      BY <2>1 DEF Busy
    <3> QED BY <2>1, <3>1, BodySteps
  <2>2. CASE pc[t] # "queued"
    BY <1>5, <2>2 DEF LockGranted
  <2> QED BY <1>5, <2>1, <2>2 DEF LockGranted
<1>6. ASSUME NEW t \in Tasks, BeginWait(t) \/ Reacquire(t) PROVE UNCHANGED <<buf, aux>>
  BY <1>6 DEF BeginWait, Reacquire
<1>7. ASSUME NEW t \in Tasks, ResumeBlocking(t)
      PROVE  PushStep \/ UNCHANGED <<buf, aux>>
  BY <1>7 DEF ResumeBlocking, Insert, Park, PushStep
<1>8. ASSUME NEW t \in Tasks, ResumeDrain(t)
      PROVE  DrainStep \/ UNCHANGED <<buf, aux>>
  BY <1>8, TakeBatchDrains DEF ResumeDrain
<1>9. ASSUME NEW t \in Tasks, Timeout(t) \/ CancelWaiting(t) PROVE UNCHANGED <<buf, aux>>
  BY <1>9 DEF Timeout, CancelWaiting, Interrupt
<1>10. ASSUME NEW t \in Tasks, CancelQueued(t) PROVE UNCHANGED <<buf, aux>>
  BY <1>10 DEF CancelQueued
<1>11. ASSUME NEW t \in Tasks, CallDrainNowait(t) PROVE DrainStep
  BY <1>11, DrainNowaitDrains
<1> QED BY <1>1, <1>2, <1>3, <1>4, <1>5, <1>6, <1>7, <1>8, <1>9, <1>10, <1>11 DEF Next, Run

\* Each of the three keeps the invariant of the data.
LEMMA DataStep ==
  ASSUME DataInv, PushStep \/ DrainStep \/ UNCHANGED <<buf, aux>>
  PROVE  DataInv'
<1>1. CASE PushStep
  <2>1. buf' \in BufferType /\ Newest(buf')
    BY <1>1, PushKeepsNewest DEF DataInv, PushStep
  <2>2. /\ buf.size \in Int /\ buf.size <= Capacity /\ Capacity \in Int
        /\ buf.dropped \in Nat /\ buf.pushedTotal \in Nat
    BY CapacityAssumption DEF DataInv, BufferType
  <2>3. /\ buf'.pushedTotal = buf.pushedTotal + 1
        /\ buf'.size = IF buf.size = Capacity THEN buf.size ELSE buf.size + 1
        /\ buf'.dropped = IF buf.size = Capacity THEN buf.dropped + 1 ELSE buf.dropped
        /\ taken' = taken /\ lastOut' = lastOut
    BY <1>1 DEF PushStep, PushNowait, IsFull, aux
  <2>4. /\ taken' + buf'.dropped + buf'.size = buf'.pushedTotal
        /\ lastOut' <= buf'.pushedTotal - buf'.size
    <3>1. CASE buf.size = Capacity
      BY <2>2, <2>3, <3>1 DEF DataInv
    <3>2. CASE buf.size # Capacity
      <4>1. buf'.size = buf.size + 1 /\ buf'.dropped = buf.dropped
        BY <2>3, <3>2
      <4> QED BY <2>2, <2>3, <4>1 DEF DataInv
    <3> QED BY <3>1, <3>2
  <2> QED BY <2>1, <2>3, <2>4 DEF DataInv, Newest
<1>2. CASE DrainStep
  <2>1. PICK n \in 0 .. buf.size :
          /\ buf' = DrainNowait(buf, n)
          /\ taken' = taken + n
          /\ lastOut' = IF n = 0 THEN lastOut ELSE DrainedItems(buf, n)[n]
    BY <1>2 DEF DrainStep
  <2>2. buf' \in BufferType /\ Newest(buf')
    BY <2>1, DrainKeepsNewest DEF DataInv
  <2>3. /\ buf.size \in Int /\ buf.size <= Capacity /\ Capacity \in Int
        /\ buf.dropped \in Nat /\ buf.pushedTotal \in Nat
        /\ n \in Int /\ 0 <= n /\ n <= buf.size
    BY CapacityAssumption DEF DataInv, BufferType
  <2>4. /\ buf'.pushedTotal = buf.pushedTotal
        /\ buf'.size = buf.size - n
        /\ buf'.dropped = buf.dropped
    BY <2>1 DEF DrainNowait
  <2>5. /\ lastOut' \in Nat
        /\ lastOut' <= buf.pushedTotal - buf.size + n
    <3>1. CASE n = 0
      BY <2>1, <2>3, <3>1 DEF DataInv
    <3>2. CASE n # 0
      <4>1. n \in 1 .. buf.size
        BY <2>3, <3>2
      <4>2. lastOut' = buf.slots[SlotOf(buf, n)]
        BY <2>1, <2>3, <3>2, <4>1 DEF DrainedItems
      <4>3. lastOut' = buf.pushedTotal - buf.size + n
        BY <4>1, <4>2 DEF DataInv, Newest
      <4>4. buf.pushedTotal - buf.size >= 0
        BY <2>3 DEF DataInv
      <4> QED BY <2>3, <4>3, <4>4
    <3> QED BY <3>1, <3>2
  <2>6. taken' \in Nat /\ taken' + buf'.dropped + buf'.size = buf'.pushedTotal
    BY <2>1, <2>3, <2>4 DEF DataInv
  <2>7. lastOut' <= buf'.pushedTotal - buf'.size
    BY <2>3, <2>4, <2>5
  <2> QED BY <2>2, <2>5, <2>6, <2>7 DEF DataInv, Newest
<1>3. CASE UNCHANGED <<buf, aux>>
  BY <1>3 DEF DataInv, Newest, aux
<1> QED BY <1>1, <1>2, <1>3
-----------------------------------------------------------------------------
(* The control half.  The lock is held exactly by the task that is about   *)
(* to wait or has just got it back, and where everybody drains under it, a *)
(* producer that is about to wait or waits does so on a full ring: only a  *)
(* drain makes room, it needs the lock, and it notifies every waiter in    *)
(* the same step.                                                          *)
DrainersLock == \A t \in Tasks : "drain_nowait" \notin Calls[t]

LockInv ==
  /\ ControlType
  /\ Busy
  /\ \A t \in Tasks : lock = t <=> pc[t] \in {"enter", "resume"}
  /\ DrainersLock =>
       \A t \in Tasks :
         pc[t] \in {"enter", "waiting"} /\ call[t] \in Blocking => IsFull(buf)

\* A push never makes room, and an empty drain changes nothing.
LEMMA PushKeepsFull ==
  ASSUME buf \in BufferType, NEW x
  PROVE  IsFull(buf) => IsFull(PushNowait(buf, x))
BY DEF IsFull, PushNowait

\* A drain of nothing leaves the size.
LEMMA DrainNothing ==
  ASSUME buf \in BufferType
  PROVE  DrainNowait(buf, 0).size = buf.size
<1>1. buf.size \in Int
  BY DEF BufferType
<1> QED BY <1>1 DEF DrainNowait

\* The call of t ends; if that may have made room, it notified.
LEMMA ReturnKeepsLockInv ==
  ASSUME LockInv, NEW t \in Tasks, lock \in {None, t},
         NEW notify \in BOOLEAN, Return(t, notify),
         notify \/ (IsFull(buf) => IsFull(buf)')
  PROVE  LockInv'
<1>1. ControlType' /\ Busy'
  BY TasksAssumption DEF LockInv, ControlType, Busy, Return, Woken, Places
<1>2. ASSUME NEW u \in Tasks PROVE lock' # u /\ pc'[u] \notin {"enter", "resume"}
  BY TasksAssumption DEF LockInv, ControlType, Return, Woken
<1>3. ASSUME DrainersLock, NEW u \in Tasks,
             pc'[u] \in {"enter", "waiting"}, call'[u] \in Blocking
      PROVE  IsFull(buf)'
  <2>1. u # t /\ pc[u] = "waiting" /\ ~notify /\ call'[u] = call[u]
    BY <1>2, <1>3 DEF LockInv, ControlType, Return, Woken
  <2> QED BY <1>3, <2>1 DEF LockInv
<1> QED BY <1>1, <1>2, <1>3 DEF LockInv

\* An insertion keeps the lock's invariant,
LEMMA InsertKeepsLockInv ==
  ASSUME LockInv, buf \in BufferType, NEW t \in Tasks, lock \in {None, t}, Insert(t)
  PROVE  LockInv'
BY ReturnKeepsLockInv DEF Insert

\* taking a batch keeps it,
LEMMA TakeBatchKeepsLockInv ==
  ASSUME LockInv, buf \in BufferType, NEW t \in Tasks, lock \in {None, t}, TakeBatch(t)
  PROVE  LockInv'
<1> DEFINE n == DrainCount(buf, BatchMax)
<1>1. n \in 0 .. buf.size /\ buf.size \in Int
  BY TasksAssumption DEF DrainCount, BufferType
<1>2. buf' = DrainNowait(buf, n) /\ Return(t, n > 0)
  BY DEF TakeBatch, Drained
<1> HIDE DEF n
<1>3. CASE n = 0
  <2>1. IsFull(buf) => IsFull(buf)'
    BY <1>2, <1>3, DrainNothing DEF IsFull
  <2>2. (n > 0) = FALSE
    BY <1>3
  <2>3. Return(t, FALSE)
    BY <1>2, <2>2
  <2> QED BY <2>1, <2>3, ReturnKeepsLockInv
<1>4. CASE n # 0
  <2>1. (n > 0) = TRUE
    BY <1>1, <1>4
  <2>2. Return(t, TRUE)
    BY <1>2, <2>1
  <2> QED BY <2>2, ReturnKeepsLockInv
<1> QED BY <1>3, <1>4

\* waiting on the condition keeps it,
LEMMA ParkKeepsLockInv ==
  ASSUME LockInv, NEW t \in Tasks, lock \in {None, t}, NEW op \in Ops, Park(t, op),
         op \in Blocking => IsFull(buf)
  PROVE  LockInv'
<1>1. ControlType' /\ Busy'
  BY TasksAssumption DEF LockInv, ControlType, Busy, Park, Places
<1>2. ASSUME NEW u \in Tasks PROVE lock' = u <=> pc'[u] \in {"enter", "resume"}
  BY TasksAssumption DEF LockInv, ControlType, Park
<1>3. ASSUME DrainersLock, NEW u \in Tasks,
             pc'[u] \in {"enter", "waiting"}, call'[u] \in Blocking
      PROVE  IsFull(buf)'
  BY <1>3 DEF LockInv, ControlType, Park, IsFull
<1> QED BY <1>1, <1>2, <1>3 DEF LockInv

\* so each body does,
LEMMA BodyKeepsLockInv ==
  ASSUME LockInv, buf \in BufferType, NEW t \in Tasks, lock \in {None, t},
         NEW op \in Ops, Body(t, op)
  PROVE  LockInv'
<1>1. CASE Insert(t)
  BY <1>1, InsertKeepsLockInv
<1>2. CASE TakeBatch(t)
  BY <1>2, TakeBatchKeepsLockInv
<1>3. CASE Park(t, op) /\ (op \in Blocking => IsFull(buf))
  BY <1>3, ParkKeepsLockInv
<1> QED BY <1>1, <1>2, <1>3 DEF Body, Blocking

\* and every step.
LEMMA LockStep ==
  ASSUME LockInv, buf \in BufferType, [Next]_vars
  PROVE  LockInv'
<1>1. CASE UNCHANGED vars
  BY <1>1 DEF vars, LockInv, ControlType, Busy, IsFull
<1>2. ASSUME NEW t \in Tasks, CallPushNowait(t) PROVE LockInv'
  <2>1. IsFull(buf) => IsFull(buf)'
    BY <1>2, PushKeepsFull DEF CallPushNowait, IsFull
  <2> QED BY <1>2, <2>1 DEF CallPushNowait, LockInv, ControlType, Busy
<1>3. ASSUME NEW t \in Tasks, NEW op \in Ops, Start(t, op) PROVE LockInv'
  BY <1>3, BodyKeepsLockInv DEF Start, LockFree
<1>4. ASSUME NEW t \in Tasks, NEW op \in Ops, Enqueue(t, op) PROVE LockInv'
  BY <1>4 DEF Enqueue, CanCall, LockInv, ControlType, Busy, Places, IsFull
<1>5. ASSUME NEW t \in Tasks, LockGranted(t) PROVE LockInv'
  <2>1. CASE pc[t] = "queued" /\ Body(t, call[t])
    <3>1. call[t] \in Ops /\ lock = None
      BY <1>5, <2>1 DEF LockInv, Busy, LockGranted
    <3> QED BY <2>1, <3>1, BodyKeepsLockInv
  <2>2. CASE pc[t] = "requeued" /\ pc' = [pc EXCEPT ![t] = "resume"]
    BY <1>5, <2>2, TasksAssumption DEF LockGranted, LockInv, ControlType, Busy, Places, IsFull
  <2> QED BY <1>5, <2>1, <2>2 DEF LockGranted
<1>6. ASSUME NEW t \in Tasks, BeginWait(t) PROVE LockInv'
  BY <1>6, TasksAssumption DEF BeginWait, LockInv, ControlType, Busy, Places, IsFull
<1>7. ASSUME NEW t \in Tasks, Reacquire(t) PROVE LockInv'
  BY <1>7, TasksAssumption DEF Reacquire, LockFree, LockInv, ControlType, Busy, Places, IsFull
<1>8. ASSUME NEW t \in Tasks, ResumeBlocking(t) PROVE LockInv'
  <2>1. lock = t /\ call[t] \in Ops
    BY <1>8 DEF ResumeBlocking, LockInv, Busy
  <2>2. CASE IsFull(buf) /\ Park(t, call[t])
    BY <2>1, <2>2, ParkKeepsLockInv
  <2>3. CASE Insert(t)
    BY <2>1, <2>3, InsertKeepsLockInv
  <2>4. CASE Return(t, FALSE) /\ UNCHANGED <<buf, aux>>
    BY <2>1, <2>4, ReturnKeepsLockInv DEF IsFull
  <2> QED BY <1>8, <2>2, <2>3, <2>4 DEF ResumeBlocking
<1>9. ASSUME NEW t \in Tasks, ResumeDrain(t) PROVE LockInv'
  <2>1. lock = t
    BY <1>9 DEF ResumeDrain, LockInv
  <2>2. CASE TakeBatch(t)
    BY <2>1, <2>2, TakeBatchKeepsLockInv
  <2>3. CASE Return(t, FALSE) /\ UNCHANGED <<buf, aux>>
    BY <2>1, <2>3, ReturnKeepsLockInv DEF IsFull
  <2> QED BY <1>9, <2>2, <2>3 DEF ResumeDrain
<1>10. ASSUME NEW t \in Tasks, NEW reason \in {"timeout", "cancelled"}, Interrupt(t, reason)
       PROVE  LockInv'
  BY <1>10, TasksAssumption DEF Interrupt, LockInv, ControlType, Busy, Places, IsFull
<1>11. ASSUME NEW t \in Tasks, CancelQueued(t) PROVE LockInv'
  BY <1>11, TasksAssumption DEF CancelQueued, LockInv, ControlType, Busy, Places, IsFull
<1>12. ASSUME NEW t \in Tasks, CallDrainNowait(t) PROVE LockInv'
  <2>1. ~DrainersLock
    BY <1>12 DEF CallDrainNowait, CanCall, DrainersLock
  <2> QED BY <1>12, <2>1 DEF CallDrainNowait, LockInv, ControlType, Busy
<1> QED
  BY <1>1, <1>2, <1>3, <1>4, <1>5, <1>6, <1>7, <1>8, <1>9, <1>10, <1>11, <1>12
     DEF Next, Run, Timeout, CancelWaiting

\* The queue of the lock is a sequence of tasks.
LEMMA LockqStep ==
  ASSUME lockq \in Seq(Tasks), [Next]_vars
  PROVE  lockq' \in Seq(Tasks)
<1>1. ASSUME NEW t \in Tasks, CancelQueued(t) PROVE lockq' \in Seq(Tasks)
  <2>1. PICK i \in DOMAIN lockq : lockq' = RemoveAt(lockq, i)
    BY <1>1 DEF CancelQueued
  <2>2. i \in 1 .. Len(lockq) /\ Len(lockq) \in Nat
    OBVIOUS
  <2>3. SubSeq(lockq, 1, i - 1) \in Seq(Tasks) /\ SubSeq(lockq, i + 1, Len(lockq)) \in Seq(Tasks)
    BY <2>2
  <2> QED BY <2>1, <2>3 DEF RemoveAt
<1>2. ASSUME NEW t \in Tasks, LockGranted(t) PROVE lockq' \in Seq(Tasks)
  BY <1>2 DEF LockGranted
<1>3. ASSUME NEW t \in Tasks, NEW op \in Ops, Enqueue(t, op) PROVE lockq' \in Seq(Tasks)
  BY <1>3 DEF Enqueue
<1>4. ASSUME NEW t \in Tasks, Reacquire(t) PROVE lockq' \in Seq(Tasks)
  BY <1>4 DEF Reacquire
<1>5. ASSUME NEW t \in Tasks, NEW op \in Ops,
             CallPushNowait(t) \/ CallDrainNowait(t) \/ Start(t, op) \/ BeginWait(t)
             \/ ResumeBlocking(t) \/ ResumeDrain(t) \/ Timeout(t) \/ CancelWaiting(t)
      PROVE  lockq' = lockq
  BY <1>5 DEF CallPushNowait, CallDrainNowait, Start, BeginWait, ResumeBlocking,
              ResumeDrain, Timeout, CancelWaiting, Interrupt
<1>6. CASE UNCHANGED vars
  BY <1>6 DEF vars
<1> QED
  <2>1. "push" \in Ops
    BY DEF Ops
  <2> QED BY <1>1, <1>2, <1>3, <1>4, <1>5, <1>6, <2>1 DEF Next, Run
-----------------------------------------------------------------------------
\* The inductive invariant.
IInv == DataInv /\ LockInv /\ lockq \in Seq(Tasks)

\* The invariant holds at the start,
LEMMA InitIInv == Init => IInv
<1> SUFFICES ASSUME Init PROVE IInv
  OBVIOUS
<1>1. EmptyBuffer \in BufferType /\ EmptyBuffer.size = 0 /\ EmptyBuffer.dropped = 0
      /\ EmptyBuffer.pushedTotal = 0
  BY CapacityAssumption DEF EmptyBuffer, BufferType, Index
<1>2. DataInv
  BY <1>1 DEF Init, DataInv, Newest
<1>3. LockInv
  BY TasksAssumption DEF Init, LockInv, ControlType, Busy, Places
<1> QED BY <1>2, <1>3 DEF IInv, Init

\* every step keeps it,
LEMMA NextIInv == IInv /\ [Next]_vars => IInv'
<1> SUFFICES ASSUME IInv, [Next]_vars PROVE IInv'
  OBVIOUS
<1>1. buf \in BufferType /\ Busy
  BY DEF IInv, DataInv, LockInv
<1>2. DataInv'
  BY <1>1, StepCases, DataStep DEF IInv
<1>3. LockInv'
  BY <1>1, LockStep DEF IInv
<1>4. (lockq \in Seq(Tasks))'
  BY LockqStep DEF IInv
<1> QED BY <1>2, <1>3, <1>4 DEF IInv

\* so it always holds.
LEMMA SpecIInv == Spec => []IInv
BY InitIInv, NextIInv, PTL DEF Spec

(* Contents is read through the same slots as Newest.                      *)
LEMMA ContentsOf ==
  ASSUME NEW b \in BufferType, NEW k \in 1 .. b.size
  PROVE  Contents(b)[k] = b.slots[SlotOf(b, k)]
BY DEF Contents, DrainedItems

(* The variables keep their types: in particular the indices stay inside   *)
(* the slot array and the depth inside the capacity.                       *)
THEOREM TypeCorrect == Spec => []TypeOK
<1>1. IInv => TypeOK
  BY DEF IInv, DataInv, LockInv, ControlType, TypeOK
<1> QED BY <1>1, SpecIInv, PTL

(* push_nowait and drain_nowait, in any order and however often the        *)
(* indices wrap: the ring holds exactly the newest pushes in push order.   *)
THEOREM OldestIsDropped == Spec => []NewestKept
<1>1. IInv => NewestKept
  BY ContentsOf DEF IInv, DataInv, Newest, NewestKept
<1> QED BY <1>1, SpecIInv, PTL

(* Every push is drained, dropped or held, and drains go forward only.     *)
THEOREM PushesAccounted == Spec => []EveryPushAccounted
<1>1. IInv => EveryPushAccounted
  BY DEF IInv, DataInv, EveryPushAccounted
<1> QED BY <1>1, SpecIInv, PTL

(* push_blocking never sleeps beside free room: notify_all in drain, the   *)
(* check under the lock and the release inside wait leave no window, also  *)
(* for producers that call push_nowait.  Only drain_nowait, which nothing  *)
(* in the program calls by itself, makes room in silence.                  *)
THEOREM NoWakeupLost == DrainersLock => (Spec => []NoLostWakeup)
<1> SUFFICES ASSUME DrainersLock PROVE Spec => []NoLostWakeup
  OBVIOUS
<1>1. IInv => NoLostWakeup
  BY DEF IInv, LockInv, NoLostWakeup
<1> QED BY <1>1, SpecIInv, PTL
-----------------------------------------------------------------------------
(* With producers that all push under the lock, whoever is about to sleep  *)
(* in drain, or sleeps, does so on an empty ring: a push needs the lock,   *)
(* and it notifies every waiter in the same step.                          *)
ProducersLock == \A t \in Tasks : "push_nowait" \notin Calls[t]

DrainersIdle ==
  \A t \in Tasks :
    pc[t] \in {"enter", "waiting"} /\ call[t] \in Drains => buf.size = 0

\* Returning leaves drainers waiting only at an empty buffer, if a change of it was notified.
LEMMA ReturnKeepsIdle ==
  ASSUME LockInv, DrainersIdle, NEW t \in Tasks, lock \in {None, t},
         NEW notify \in BOOLEAN, Return(t, notify),
         notify \/ buf'.size = buf.size
  PROVE  DrainersIdle'
<1>1. ASSUME NEW u \in Tasks PROVE lock' # u /\ pc'[u] # "enter"
  BY TasksAssumption DEF LockInv, ControlType, Return, Woken
<1>2. ASSUME NEW u \in Tasks, pc'[u] \in {"enter", "waiting"}, call'[u] \in Drains
      PROVE  buf'.size = 0
  <2>1. u # t /\ pc[u] = "waiting" /\ ~notify /\ call'[u] = call[u]
    BY <1>1, <1>2 DEF LockInv, ControlType, Return, Woken
  <2> QED BY <1>2, <2>1 DEF DrainersIdle
<1> QED BY <1>2 DEF DrainersIdle

\* Taking a batch notifies what it must,
LEMMA TakeBatchKeepsIdle ==
  ASSUME LockInv, DrainersIdle, buf \in BufferType, NEW t \in Tasks,
         lock \in {None, t}, TakeBatch(t)
  PROVE  DrainersIdle'
<1> DEFINE n == DrainCount(buf, BatchMax)
<1>1. n \in 0 .. buf.size /\ buf.size \in Int
  BY TasksAssumption DEF DrainCount, BufferType
<1>2. buf' = DrainNowait(buf, n) /\ Return(t, n > 0)
  BY DEF TakeBatch, Drained
<1> HIDE DEF n
<1>3. (n > 0) \in BOOLEAN /\ (n > 0 \/ buf'.size = buf.size)
  BY <1>1, <1>2, DrainNothing
<1> QED BY <1>2, <1>3, ReturnKeepsIdle

\* a drainer parks at an empty buffer only,
LEMMA ParkKeepsIdle ==
  ASSUME LockInv, DrainersIdle, NEW t \in Tasks, NEW op \in Ops, Park(t, op),
         op \in Drains => buf.size = 0
  PROVE  DrainersIdle'
BY DEF LockInv, ControlType, DrainersIdle, Park

\* so each body keeps drainers idle,
LEMMA BodyKeepsIdle ==
  ASSUME LockInv, DrainersIdle, buf \in BufferType, NEW t \in Tasks,
         lock \in {None, t}, NEW op \in Ops, Body(t, op)
  PROVE  DrainersIdle'
<1>1. CASE Insert(t)
  BY <1>1, ReturnKeepsIdle DEF Insert
<1>2. CASE TakeBatch(t)
  BY <1>2, TakeBatchKeepsIdle
<1>3. CASE Park(t, op) /\ (op \in Drains => buf.size = 0)
  BY <1>3, ParkKeepsIdle
<1> QED BY <1>1, <1>2, <1>3 DEF Body, Blocking, Drains

\* and every step.
LEMMA IdleStep ==
  ASSUME ProducersLock, IInv, DrainersIdle, [Next]_vars
  PROVE  DrainersIdle'
<1>0. LockInv /\ buf \in BufferType
  BY DEF IInv, DataInv
<1>1. CASE UNCHANGED vars
  BY <1>1 DEF vars, DrainersIdle
<1>2. ASSUME NEW t \in Tasks, CallPushNowait(t) PROVE FALSE
  BY <1>2 DEF CallPushNowait, CanCall, ProducersLock
<1>3. ASSUME NEW t \in Tasks, NEW op \in Ops, Start(t, op) PROVE DrainersIdle'
  BY <1>0, <1>3, BodyKeepsIdle DEF Start, LockFree
<1>4. ASSUME NEW t \in Tasks, LockGranted(t) PROVE DrainersIdle'
  <2>1. CASE pc[t] = "queued" /\ Body(t, call[t])
    <3>1. call[t] \in Ops /\ lock = None
      BY <1>0, <1>4, <2>1 DEF LockInv, Busy, LockGranted
    <3> QED BY <1>0, <2>1, <3>1, BodyKeepsIdle
  <2>2. CASE pc' = [pc EXCEPT ![t] = "resume"] /\ UNCHANGED <<buf, call>>
    BY <1>0, <2>2 DEF LockInv, ControlType, DrainersIdle
  <2> QED BY <1>4, <2>1, <2>2 DEF LockGranted
<1>5. ASSUME NEW t \in Tasks, ResumeBlocking(t) PROVE DrainersIdle'
  <2>1. lock = t /\ call[t] \in Blocking /\ call[t] \in Ops /\ call[t] \notin Drains
    BY <1>0, <1>5 DEF ResumeBlocking, LockInv, Blocking, Drains, Ops
  <2>2. CASE Park(t, call[t])
    BY <1>0, <2>1, <2>2, ParkKeepsIdle
  <2>3. CASE Insert(t)
    BY <1>0, <2>1, <2>3, ReturnKeepsIdle DEF Insert
  <2>4. CASE Return(t, FALSE) /\ UNCHANGED <<buf, aux>>
    BY <1>0, <2>1, <2>4, ReturnKeepsIdle
  <2> QED BY <1>5, <2>2, <2>3, <2>4 DEF ResumeBlocking
<1>6. ASSUME NEW t \in Tasks, ResumeDrain(t) PROVE DrainersIdle'
  <2>1. lock = t
    BY <1>0, <1>6 DEF ResumeDrain, LockInv
  <2>2. CASE TakeBatch(t)
    BY <1>0, <2>1, <2>2, TakeBatchKeepsIdle
  <2>3. CASE Return(t, FALSE) /\ UNCHANGED <<buf, aux>>
    BY <1>0, <2>1, <2>3, ReturnKeepsIdle
  <2> QED BY <1>6, <2>2, <2>3 DEF ResumeDrain
<1>7. ASSUME NEW t \in Tasks, NEW op \in Ops, Enqueue(t, op) \/ CancelQueued(t)
      PROVE  DrainersIdle'
  BY <1>0, <1>7 DEF Enqueue, CancelQueued, LockInv, ControlType, DrainersIdle
<1>8. ASSUME NEW t \in Tasks, BeginWait(t) \/ Reacquire(t) PROVE DrainersIdle'
  BY <1>0, <1>8 DEF BeginWait, Reacquire, LockInv, ControlType, DrainersIdle
<1>9. ASSUME NEW t \in Tasks, Timeout(t) \/ CancelWaiting(t) PROVE DrainersIdle'
  BY <1>0, <1>9 DEF Timeout, CancelWaiting, Interrupt, LockInv, ControlType, DrainersIdle
<1>10. ASSUME NEW t \in Tasks, CallDrainNowait(t) PROVE DrainersIdle'
  <2>1. PICK n \in 0 .. buf.size : buf' = DrainNowait(buf, n)
    BY <1>0, <1>10, DrainNowaitDrains DEF DrainStep
  <2>2. buf.size = 0 => buf'.size = 0
    <3>1. buf'.size = buf.size - n
      BY <2>1 DEF DrainNowait
    <3>2. buf.size \in Nat
      BY <1>0 DEF BufferType
    <3>3. CASE buf.size = 0
      <4>1. n = 0
        BY <3>3
      <4> QED BY <3>1, <3>3, <4>1
    <3> QED BY <3>3
  <2> QED BY <1>10, <2>2 DEF CallDrainNowait, DrainersIdle
<1> QED
  <2>1. "push" \in Ops
    BY DEF Ops
  <2> QED BY <1>1, <1>2, <1>3, <1>4, <1>5, <1>6, <1>7, <1>8, <1>9, <1>10, <2>1 DEF Next, Run

(* Where every producer takes the lock, drain never sleeps beside items    *)
(* however many producers and drainers share the condition: the wakeup of  *)
(* each push reaches every drainer.  main.py uses push_nowait instead, so  *)
(* its consumers rely on their timeout.                                    *)
THEOREM DrainersAwake == ProducersLock => (Spec => []DrainerNotStranded)
<1> SUFFICES ASSUME ProducersLock PROVE Spec => []DrainerNotStranded
  OBVIOUS
<1>1. Init => IInv /\ DrainersIdle
  BY InitIInv DEF Init, DrainersIdle
<1>2. (IInv /\ DrainersIdle) /\ [Next]_vars => (IInv /\ DrainersIdle)'
  BY NextIInv, IdleStep
<1>3. DrainersIdle => DrainerNotStranded
  BY DEF DrainersIdle, DrainerNotStranded
<1> QED BY <1>1, <1>2, <1>3, PTL DEF Spec
-----------------------------------------------------------------------------
\* No item is overwritten.
KeepsDropped == buf'.dropped = buf.dropped

\* With room an insertion drops nothing,
LEMMA NoDropWithRoom ==
  ASSUME buf \in BufferType, NEW t \in Tasks, ~IsFull(buf), Insert(t)
  PROVE  KeepsDropped
BY DEF Insert, PushNowait, IsFull, KeepsDropped

\* taking a batch drops nothing,
LEMMA NoDropInTakeBatch ==
  ASSUME buf \in BufferType, NEW t \in Tasks, TakeBatch(t)
  PROVE  KeepsDropped
BY DEF TakeBatch, Drained, DrainNowait, KeepsDropped

\* so no blocking operation does.
LEMMA BodyKeepsDropped ==
  ASSUME buf \in BufferType, NEW t \in Tasks, NEW op \in Blocking, Body(t, op)
  PROVE  KeepsDropped
BY NoDropWithRoom DEF Body, Blocking, Park, KeepsDropped

(* push_blocking never overwrites: between its last look at the size and   *)
(* its push it does not let go of the lock, and nobody else's call ends in *)
(* its name.                                                               *)
THEOREM Backpressure == Spec => BlockingNeverDrops
<1>1. ASSUME IInv, [Next]_vars, NEW t \in Tasks, call[t] \in Blocking, call'[t] = None
      PROVE  KeepsDropped
  <2>1. /\ buf \in BufferType /\ call \in [Tasks -> Ops \cup {None}]
        /\ call[t] # None /\ call[t] \in Ops
    BY <1>1, TasksAssumption DEF IInv, DataInv, LockInv, ControlType, Ops
  <2>2. CASE call' = call
    BY <1>1, <2>1, <2>2
  <2>3. ASSUME NEW u \in Tasks, NEW op \in Ops, Start(u, op) PROVE KeepsDropped
    <3>1. pc[u] = "idle" /\ Body(u, op)
      BY <2>3 DEF Start, CanCall
    <3>2. CASE u = t
      <4>1. CASE op \in Blocking
        BY <2>1, <3>1, <4>1, BodyKeepsDropped
      <4>2. CASE op \in Drains
        BY <2>1, <3>1, <4>2, NoDropInTakeBatch DEF Body, Park, Blocking, Drains, KeepsDropped
      <4>3. CASE op = "push"
        BY <1>1, <2>1, <3>1, <3>2 DEF IInv, LockInv, Busy
      <4> QED BY <2>3, <4>1, <4>2, <4>3 DEF Start, Ops
    <3>3. CASE u # t
      BY <1>1, <2>1, <3>1, <3>3 DEF Body, Insert, TakeBatch, Park, Return
    <3> QED BY <3>2, <3>3
  <2>4. ASSUME NEW u \in Tasks, LockGranted(u) PROVE KeepsDropped
    <3>1. CASE pc[u] = "queued" /\ Body(u, call[u])
      <4>1. CASE u = t
        BY <1>1, <2>1, <3>1, <4>1, BodyKeepsDropped
      <4>2. CASE u # t
        BY <1>1, <2>1, <3>1, <4>2 DEF Body, Insert, TakeBatch, Park, Return
      <4> QED BY <4>1, <4>2
    <3>2. CASE call' = call
      BY <2>2, <3>2
    <3> QED BY <2>4, <3>1, <3>2 DEF LockGranted
  <2>5. ASSUME NEW u \in Tasks, ResumeBlocking(u) PROVE KeepsDropped
    BY <2>1, <2>5, NoDropWithRoom DEF ResumeBlocking, Park, KeepsDropped, Return
  <2>6. ASSUME NEW u \in Tasks, ResumeDrain(u) PROVE KeepsDropped
    BY <2>1, <2>6, NoDropInTakeBatch DEF ResumeDrain, KeepsDropped
  <2>7. ASSUME NEW u \in Tasks, NEW op \in Ops, Enqueue(u, op) \/ CancelQueued(u) PROVE KeepsDropped
    BY <2>7 DEF Enqueue, CancelQueued, KeepsDropped
  <2>8. ASSUME NEW u \in Tasks, CallPushNowait(u) \/ CallDrainNowait(u) \/ BeginWait(u) \/ Reacquire(u)
                                \/ Timeout(u) \/ CancelWaiting(u)
        PROVE  call' = call
    BY <2>8 DEF CallPushNowait, CallDrainNowait, BeginWait, Reacquire, Timeout, CancelWaiting, Interrupt
  <2>9. CASE UNCHANGED vars
    BY <2>2, <2>9 DEF vars
  <2> QED
    <3>1. "push" \in Ops
      BY DEF Ops
    <3> QED BY <1>1, <2>2, <2>3, <2>4, <2>5, <2>6, <2>7, <2>8, <2>9, <3>1 DEF Next, Run
<1>2. IInv /\ [Next]_vars =>
        [\A t \in Tasks :
           call[t] \in Blocking /\ call'[t] = None => buf'.dropped = buf.dropped]_vars
  BY <1>1 DEF KeepsDropped
<1> QED BY <1>2, SpecIInv, PTL DEF Spec, BlockingNeverDrops
-----------------------------------------------------------------------------
\* The contents as a sequence of numbers.
LEMMA ContentsValue ==
  ASSUME NEW b \in BufferType, Newest(b)
  PROVE  /\ Contents(b) = [k \in 1 .. b.size |-> b.pushedTotal - b.size + k]
         /\ Contents(b) \in Seq(Int)
         /\ Len(Contents(b)) = b.size
         /\ b.size \in Nat /\ b.pushedTotal \in Nat /\ b.size <= Capacity
<1>1. b.size \in Nat /\ b.pushedTotal \in Nat /\ b.size <= Capacity
  BY CapacityAssumption DEF BufferType
<1>2. Contents(b) = [k \in 1 .. b.size |-> b.pushedTotal - b.size + k]
  BY DEF Contents, DrainedItems, Newest
<1>3. [k \in 1 .. b.size |-> b.pushedTotal - b.size + k] \in Seq(Int)
  BY <1>1
<1>4. Len([k \in 1 .. b.size |-> b.pushedTotal - b.size + k]) = b.size
  BY <1>1
<1> QED BY <1>1, <1>2, <1>3, <1>4

\* Two sequences of numbers are told apart by length and elements.
LEMMA EqualsAppend ==
  ASSUME NEW q \in Seq(Int), NEW r \in Seq(Int), NEW e \in Int,
         Len(r) = Len(q) + 1, \A i \in 1 .. Len(q) : r[i] = q[i], r[Len(q) + 1] = e
  PROVE  r = Append(q, e)
<1>1. /\ Append(q, e) \in Seq(Int)
      /\ Len(Append(q, e)) = Len(q) + 1
      /\ \A i \in 1 .. Len(q) : Append(q, e)[i] = q[i]
      /\ Append(q, e)[Len(q) + 1] = e
  BY AppendProperties
<1>2. Len(q) \in Nat
  OBVIOUS
<1>3. \A i \in 1 .. Len(r) : r[i] = Append(q, e)[i]
  BY <1>1, <1>2
<1> QED BY <1>1, <1>3, SeqEqual

\* A sequence equal to a suffix element by element is that suffix.
LEMMA EqualsSuffix ==
  ASSUME NEW q \in Seq(Int), NEW r \in Seq(Int), NEW n \in 0 .. Len(q),
         Len(r) = Len(q) - n, \A i \in 1 .. Len(r) : r[i] = q[i + n]
  PROVE  r = SubSeq(q, n + 1, Len(q))
<1>1. Len(q) \in Nat /\ n \in Nat /\ n <= Len(q)
  OBVIOUS
<1>2. \A i \in n + 1 .. Len(q) : q[i] \in Int
  BY <1>1, ElementOfSeq
<1>3. /\ SubSeq(q, n + 1, Len(q)) \in Seq(Int)
      /\ Len(SubSeq(q, n + 1, Len(q))) = IF n + 1 <= Len(q) THEN Len(q) - (n + 1) + 1 ELSE 0
      /\ \A i \in 1 .. Len(q) - (n + 1) + 1 : SubSeq(q, n + 1, Len(q))[i] = q[n + 1 + i - 1]
  BY <1>1, <1>2, SubSeqProperties
<1>4. Len(SubSeq(q, n + 1, Len(q))) = Len(r)
  BY <1>1, <1>3
<1>5. ASSUME NEW i \in 1 .. Len(r) PROVE r[i] = SubSeq(q, n + 1, Len(q))[i]
  <2>1. i \in 1 .. Len(q) - (n + 1) + 1 /\ n + 1 + i - 1 = i + n
    BY <1>1
  <2> QED BY <1>3, <2>1
<1> QED BY <1>3, <1>4, <1>5, SeqEqual

\* What the contents of the ring are before and after a step, as numbers.
Numbers(q, b) ==
  /\ q \in Seq(Int) /\ Len(q) = b.size
  /\ \A k \in 1 .. b.size : q[k] = b.pushedTotal - b.size + k

\* The numbers of the buffered items before and after a step.
LEMMA ContentsNumbers ==
  ASSUME DataInv, DataInv'
  PROVE  /\ Numbers(Contents(buf), buf) /\ Numbers(Contents(buf'), buf')
         /\ buf.size \in Nat /\ buf.pushedTotal \in Nat /\ buf.size <= Capacity
         /\ buf'.size \in Nat /\ buf'.pushedTotal \in Nat
         /\ Capacity \in Nat /\ Capacity > 0
BY ContentsValue, CapacityAssumption DEF DataInv, Newest, Numbers

\* A push is the abstract queue's Add.
LEMMA PushIsAdd ==
  ASSUME DataInv, DataInv', PushStep
  PROVE  Queue!Add
<1>0. PICK q, r : q = Contents(buf) /\ r = Contents(buf')
  OBVIOUS
<1>1. /\ Numbers(q, buf) /\ Numbers(r, buf')
      /\ buf.size \in Nat /\ buf.pushedTotal \in Nat /\ buf.size <= Capacity
      /\ Capacity \in Nat /\ Capacity > 0
  BY <1>0, ContentsNumbers
<1>2. buf'.pushedTotal = buf.pushedTotal + 1
  BY DEF PushStep, PushNowait
<1>3. CASE IsFull(buf)
  <2>1. buf'.size = buf.size /\ buf'.dropped = buf.dropped + 1 /\ buf.size = Capacity
    BY <1>3 DEF PushStep, PushNowait, IsFull
  <2>2. PICK t, e : t = Tail(q) /\ e = buf.pushedTotal + 1
    OBVIOUS
  <2>3. /\ t \in Seq(Int) /\ Len(t) = buf.size - 1 /\ e \in Int
        /\ \A i \in 1 .. buf.size - 1 : t[i] = q[i + 1]
    <3>1. q \in Seq(Int) /\ q # << >> /\ Len(q) = buf.size
      BY <1>1, <2>1 DEF Numbers
    <3> QED BY <1>1, <2>2, <3>1, HeadTailProperties
  <2>4. r \in Seq(Int) /\ Len(r) = Len(t) + 1
    BY <1>1, <2>1, <2>3 DEF Numbers
  <2>5. ASSUME NEW i \in 1 .. buf.size PROVE r[i] = e - buf.size + i
    BY <1>1, <1>2, <2>1, <2>2 DEF Numbers
  <2>6. ASSUME NEW i \in 1 .. Len(t) PROVE r[i] = t[i]
    <3>1. i \in 1 .. buf.size - 1 /\ i + 1 \in 1 .. buf.size /\ i \in 1 .. buf.size
      BY <1>1, <2>3
    <3>2. q[i + 1] = buf.pushedTotal - buf.size + (i + 1)
      BY <1>1, <3>1 DEF Numbers
    <3>3. r[i] = e - buf.size + i
      BY <2>5, <3>1
    <3>4. t[i] = q[i + 1]
      BY <2>3, <3>1
    <3>5. i \in Int
      OBVIOUS
    <3> QED BY <1>1, <2>2, <3>2, <3>3, <3>4, <3>5
  <2>7. r[Len(t) + 1] = e
    BY <1>1, <2>1, <2>3, <2>5
  <2>8. r = Append(t, e)
    BY <2>3, <2>4, <2>6, <2>7, EqualsAppend
  <2>9. ~(Len(q) < Capacity)
    BY <1>1, <2>1 DEF Numbers
  <2> QED BY <1>0, <1>2, <2>1, <2>2, <2>8, <2>9 DEF Queue!Add
<1>4. CASE ~IsFull(buf)
  <2>1. buf'.size = buf.size + 1 /\ buf'.dropped = buf.dropped /\ buf.size < Capacity
    BY <1>1, <1>4 DEF PushStep, PushNowait, IsFull
  <2>2. r = Append(q, buf.pushedTotal + 1)
    <3>1. PICK e : e = buf.pushedTotal + 1
      OBVIOUS
    <3>2. q \in Seq(Int) /\ r \in Seq(Int) /\ e \in Int /\ Len(r) = Len(q) + 1
      BY <1>1, <2>1, <3>1 DEF Numbers
    <3>3. ASSUME NEW i \in 1 .. buf.size + 1 PROVE r[i] = e - (buf.size + 1) + i
      BY <1>1, <1>2, <2>1, <3>1 DEF Numbers
    <3>4. ASSUME NEW i \in 1 .. Len(q) PROVE r[i] = q[i]
      <4>1. i \in 1 .. buf.size /\ i \in 1 .. buf.size + 1
        BY <1>1 DEF Numbers
      <4>2. q[i] = buf.pushedTotal - buf.size + i
        BY <1>1, <4>1 DEF Numbers
      <4> QED BY <1>1, <3>1, <3>3, <4>1, <4>2
    <3>5. r[Len(q) + 1] = e
      <4>1. Len(q) = buf.size /\ buf.size + 1 \in 1 .. buf.size + 1
        BY <1>1 DEF Numbers
      <4>2. r[buf.size + 1] = e - (buf.size + 1) + (buf.size + 1)
        BY <3>3, <4>1
      <4> QED BY <1>1, <3>2, <4>1, <4>2
    <3>6. r = Append(q, e)
      BY <3>2, <3>4, <3>5, EqualsAppend
    <3> QED BY <3>1, <3>6
  <2>3. Len(q) < Capacity
    BY <1>1, <2>1 DEF Numbers
  <2> QED BY <1>0, <1>2, <2>1, <2>2, <2>3 DEF Queue!Add
<1> QED BY <1>3, <1>4

\* A drain is its Take, or a stutter when nothing was drained.
LEMMA DrainIsTake ==
  ASSUME DataInv, DataInv', DrainStep
  PROVE  Queue!Next \/ UNCHANGED Queue!vars
<1>0. PICK q, r : q = Contents(buf) /\ r = Contents(buf')
  OBVIOUS
<1>1. /\ Numbers(q, buf) /\ Numbers(r, buf')
      /\ buf.size \in Nat /\ buf.pushedTotal \in Nat
  BY <1>0, ContentsNumbers
<1>2. PICK n \in 0 .. buf.size : buf' = DrainNowait(buf, n)
  BY DEF DrainStep
<1>3. /\ buf'.size = buf.size - n /\ buf'.dropped = buf.dropped
      /\ buf'.pushedTotal = buf.pushedTotal
  BY <1>2 DEF DrainNowait
<1>4. /\ q \in Seq(Int) /\ r \in Seq(Int) /\ n \in 0 .. Len(q) /\ Len(r) = Len(q) - n
  BY <1>1, <1>3 DEF Numbers
<1>5. r = SubSeq(q, n + 1, Len(q))
  <2>1. ASSUME NEW i \in 1 .. Len(r) PROVE r[i] = q[i + n]
    <3>1. i \in 1 .. buf'.size /\ i + n \in 1 .. buf.size /\ i \in Int /\ n \in Int
      BY <1>1, <1>3 DEF Numbers
    <3>2. r[i] = buf'.pushedTotal - buf'.size + i
      BY <1>1, <3>1 DEF Numbers
    <3>3. q[i + n] = buf.pushedTotal - buf.size + (i + n)
      BY <1>1, <3>1 DEF Numbers
    <3> QED BY <1>1, <1>3, <3>1, <3>2, <3>3
  <2>2. \A i \in 1 .. Len(r) : r[i] = q[i + n]
    BY <2>1
  <2> QED BY <1>4, <2>2, EqualsSuffix
<1>6. CASE n = 0
  <2>1. SubSeq(q, 1, Len(q)) = q
    BY <1>4, SubSeqFull
  <2>2. r = q
    BY <1>5, <1>6, <2>1
  <2> QED BY <1>0, <1>3, <1>6, <2>2 DEF Queue!vars
<1>7. CASE n # 0
  <2>1. n \in 1 .. Len(q)
    BY <1>4, <1>7
  <2>2. Queue!Take(n)
    BY <1>0, <1>3, <1>5 DEF Queue!Take
  <2> QED BY <1>0, <2>1, <2>2 DEF Queue!Next
<1> QED BY <1>6, <1>7

(* The ring with its lock, its waiters and its cancellations is, seen from *)
(* outside, a bounded queue that drops its oldest element.                 *)
THEOREM RingImplementsQueue == Spec => ImplementsQueue
<1>1. Init => Queue!Init
  <2> SUFFICES ASSUME Init PROVE Queue!Init
    OBVIOUS
  <2>1. buf.size = 0 /\ buf.dropped = 0 /\ buf.pushedTotal = 0
    BY DEF Init, EmptyBuffer
  <2>2. Contents(buf) = <<>>
    BY <2>1 DEF Contents, DrainedItems
  <2> QED BY <2>1, <2>2 DEF Queue!Init
<1>2. IInv /\ IInv' /\ [Next]_vars => [Queue!Next]_(Queue!vars)
  <2> SUFFICES ASSUME IInv, IInv', [Next]_vars PROVE Queue!Next \/ UNCHANGED Queue!vars
    OBVIOUS
  <2>1. CASE PushStep
    BY <2>1, PushIsAdd DEF IInv, Queue!Next
  <2>2. CASE DrainStep
    BY <2>2, DrainIsTake DEF IInv
  <2>3. CASE UNCHANGED <<buf, aux>>
    BY <2>3 DEF Queue!vars, Contents, DrainedItems, SlotOf
  <2> QED BY <2>1, <2>2, <2>3, StepCases DEF IInv, DataInv, LockInv
<1> QED BY <1>1, <1>2, SpecIInv, PTL DEF Spec, ImplementsQueue, Queue!Spec
=============================================================================
