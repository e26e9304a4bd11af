-------------------------- MODULE Broadcast_proofs --------------------------
(***************************************************************************)
(* Proofs about Broadcast: its types, and that each client's queue is a    *)
(* DropOldestQueue for every number of clients, size of queue and length   *)
(* of burst.                                                               *)
(***************************************************************************)
EXTENDS Broadcast, SequenceTheorems, TLAPS

FT == INSTANCE FoldTheorems WITH Op <- PutNowait

-----------------------------------------------------------------------------
(* What one burst makes of a queue.                                        *)

Lost(n) == IF n > QueueMax THEN n - QueueMax ELSE 0

\* The newest QueueMax elements of a sequence.
Kept(s) == SubSeq(s, Lost(Len(s)) + 1, Len(s))

\* Of a burst only the last events that fit in the queue are kept, in order.
LEMMA KeptFacts ==
  ASSUME NEW T, NEW s \in Seq(T)
  PROVE  /\ Lost(Len(s)) \in 0 .. Len(s)
         /\ Kept(s) \in Seq(T) /\ Len(Kept(s)) = Len(s) - Lost(Len(s))
         /\ Len(Kept(s)) <= QueueMax
         /\ \A i \in 1 .. Len(Kept(s)) : Kept(s)[i] = s[Lost(Len(s)) + i]
<1>1. Len(s) \in Nat /\ Lost(Len(s)) \in 0 .. Len(s) /\ Len(s) - Lost(Len(s)) <= QueueMax
  BY BroadcastAssumption DEF Lost
<1> QED BY <1>1, FT!Rest DEF Kept

\* publish_nowait keeps the newest elements.
LEMMA PutKeeps ==
  ASSUME NEW T, NEW s \in Seq(T), NEW x \in T, NEW d \in Nat
  PROVE  PutNowait([queue |-> Kept(s), dropped |-> d + Lost(Len(s))], x)
           = [queue |-> Kept(Append(s, x)), dropped |-> d + Lost(Len(Append(s, x)))]
<1> DEFINE k == Kept(s)
           l == Lost(Len(s))
           a == Append(s, x)
<1>1. /\ l \in 0 .. Len(s) /\ k \in Seq(T) /\ Len(k) = Len(s) - l /\ Len(s) \in Nat
      /\ \A i \in 1 .. Len(k) : k[i] = s[l + i]
  BY KeptFacts, LenProperties
<1>2. /\ a \in Seq(T) /\ Len(a) = Len(s) + 1 /\ a[Len(s) + 1] = x
      /\ \A i \in 1 .. Len(s) : a[i] = s[i]
  BY AppendProperties
<1>3. /\ Lost(Len(a)) \in 0 .. Len(a) /\ Kept(a) \in Seq(T) /\ Len(Kept(a)) = Len(a) - Lost(Len(a))
      /\ \A i \in 1 .. Len(Kept(a)) : Kept(a)[i] = a[Lost(Len(a)) + i]
  BY <1>2, KeptFacts
<1>4. l = (IF Len(s) > QueueMax THEN Len(s) - QueueMax ELSE 0)
      /\ Lost(Len(a)) = (IF Len(s) + 1 > QueueMax THEN Len(s) + 1 - QueueMax ELSE 0)
      /\ QueueMax \in Nat \ {0}
  BY <1>2, BroadcastAssumption DEF Lost
<1> DEFINE before == [queue |-> k, dropped |-> d + l]
           Goal == PutNowait(before, x) = [queue |-> Kept(a), dropped |-> d + Lost(Len(a))]
<1>5. /\ Len(k) < QueueMax => PutNowait(before, x) = [queue |-> Append(k, x), dropped |-> d + l]
      /\ ~(Len(k) < QueueMax) =>
           PutNowait(before, x) = [queue |-> Append(Tail(k), x), dropped |-> d + l + 1]
  <2> HIDE DEF k, l
  <2>1. before.queue = k /\ before.dropped = d + l
    OBVIOUS
  <2>2. Len(before.queue) < QueueMax =>
          PutNowait(before, x) = [queue |-> Append(k, x), dropped |-> d + l]
    BY DEF PutNowait
  <2>3. ~(Len(before.queue) < QueueMax) =>
          PutNowait(before, x) = [queue |-> Append(Tail(k), x), dropped |-> d + l + 1]
    BY DEF PutNowait
  <2> QED BY <2>1, <2>2, <2>3
<1> HIDE DEF k, l, a, before
<1>9. Len(k) \in Nat /\ Len(a) \in Nat /\ Len(Kept(a)) \in Nat /\ l \in Nat /\ Lost(Len(a)) \in Nat
  BY <1>1, <1>2, <1>3, LenProperties
<1>6. /\ Append(k, x) \in Seq(T) /\ Len(Append(k, x)) = Len(k) + 1 /\ Append(k, x)[Len(k) + 1] = x
      /\ \A i \in 1 .. Len(k) : Append(k, x)[i] = k[i]
  BY <1>1, AppendProperties
<1>7. ASSUME Len(k) < QueueMax PROVE Goal
  <2>1. l = 0 /\ Lost(Len(a)) = 0 /\ Len(k) = Len(s)
    BY <1>1, <1>4, <1>7
  <2>2. Kept(a) = Append(k, x)
    <3>1. Len(Kept(a)) = Len(Append(k, x))
      BY <1>2, <1>3, <1>6, <1>9, <2>1
    <3>2. \A i \in 1 .. Len(Kept(a)) : Kept(a)[i] = Append(k, x)[i]
      <4> TAKE i \in 1 .. Len(Kept(a))
      <4>1. Len(Kept(a)) = Len(s) + 1 /\ Kept(a)[i] = a[i] /\ Len(s) \in Nat
        BY <1>1, <1>2, <1>3, <1>9, <2>1
      <4>2. CASE i = Len(s) + 1
        BY <1>2, <1>6, <2>1, <4>1, <4>2
      <4>3. CASE i # Len(s) + 1
        <5>1. i \in 1 .. Len(s)
          BY <4>1, <4>3
        <5>2. k[i] = s[i]
          <6>1. k[i] = s[l + i] /\ l + i = i
            BY <1>1, <2>1, <5>1
          <6> QED BY <6>1
        <5> QED BY <1>2, <1>6, <2>1, <4>1, <5>1, <5>2
      <4> QED BY <4>2, <4>3
    <3> QED BY <1>3, <1>6, <3>1, <3>2, FT!SameSequence
  <2> QED BY <1>5, <1>7, <2>1, <2>2, Zenon
<1>8. ASSUME ~(Len(k) < QueueMax) PROVE Goal
  <2>1. Len(k) = QueueMax /\ Lost(Len(a)) = l + 1 /\ Len(s) = l + QueueMax /\ Len(k) \in Nat \ {0}
    BY <1>1, <1>4, <1>8, <1>9
  <2>2. k # <<>>
    BY <1>1, <2>1, EmptySeq
  <2> DEFINE t == Tail(k)
  <2>3. t \in Seq(T) /\ Len(t) = Len(k) - 1 /\ \A i \in 1 .. Len(k) - 1 : t[i] = k[i + 1]
    BY <1>1, <2>2, HeadTailProperties
  <2> HIDE DEF t
  <2>4. /\ Append(t, x) \in Seq(T) /\ Len(Append(t, x)) = Len(t) + 1 /\ Append(t, x)[Len(t) + 1] = x
        /\ \A i \in 1 .. Len(t) : Append(t, x)[i] = t[i]
    BY <2>3, AppendProperties
  <2>5. Kept(a) = Append(t, x)
    <3>1. Len(Kept(a)) = Len(Append(t, x))
      <4>1. Len(Kept(a)) = QueueMax
        BY <1>1, <1>2, <1>3, <1>4, <1>9, <2>1
      <4>2. Len(Append(t, x)) = QueueMax
        BY <1>4, <2>1, <2>3, <2>4
      <4> QED BY <4>1, <4>2
    <3>2. \A i \in 1 .. Len(Kept(a)) : Kept(a)[i] = Append(t, x)[i]
      <4> TAKE i \in 1 .. Len(Kept(a))
      <4>1. Len(Kept(a)) = QueueMax /\ i \in 1 .. QueueMax /\ Kept(a)[i] = a[l + 1 + i]
        <5>1. Len(Kept(a)) = QueueMax
          BY <1>1, <1>2, <1>3, <1>4, <1>9, <2>1
        <5>2. Kept(a)[i] = a[Lost(Len(a)) + i]
          BY <1>3
        <5> QED BY <2>1, <5>1, <5>2
      <4>2. CASE i = QueueMax
        <5>1. a[l + 1 + i] = x
          <6>1. l + 1 + i = Len(s) + 1
            BY <1>4, <1>9, <2>1, <4>2
          <6> QED BY <1>2, <6>1
        <5>2. Append(t, x)[i] = x
          <6>1. Len(t) + 1 = i
            BY <1>4, <2>1, <2>3, <4>2
          <6> QED BY <2>4, <6>1
        <5> QED BY <4>1, <5>1, <5>2
      <4>3. CASE i # QueueMax
        <5>1. a[l + 1 + i] = s[l + 1 + i] /\ l + (i + 1) = l + 1 + i
          <6>1. l + 1 + i \in 1 .. Len(s) /\ l + (i + 1) = l + 1 + i
            <7>1. i \in 1 .. QueueMax /\ i # QueueMax
              BY <4>1, <4>3
            <7>2. l \in Nat /\ QueueMax \in Nat /\ Len(s) = l + QueueMax
              BY <1>4, <1>9, <2>1
            <7> HIDE DEF Goal
            <7> QED BY ONLY <7>1, <7>2
          <6> QED BY <1>2, <6>1
        <5>2. Append(t, x)[i] = k[i + 1]
          <6>1. i \in 1 .. Len(t) /\ i \in 1 .. Len(k) - 1
            BY <1>4, <2>1, <2>3, <4>1, <4>3
          <6> QED BY <2>3, <2>4, <6>1
        <5>3. k[i + 1] = s[l + (i + 1)]
          <6>1. i + 1 \in 1 .. Len(k)
            BY <1>4, <2>1, <4>1, <4>3
          <6> QED BY <1>1, <6>1
        <5> QED BY <4>1, <5>1, <5>2, <5>3
      <4> QED BY <4>2, <4>3
    <3> QED BY <1>3, <2>4, <3>1, <3>2, FT!SameSequence
  <2>6. d + l + 1 = d + Lost(Len(a))
    BY <1>9, <2>1
  <2> QED BY <1>5, <1>8, <2>5, <2>6, Zenon DEF t
<1> QED BY <1>7, <1>8 DEF k, l, a, before

\* publish_many_nowait for one client: the oldest of all are lost.
LEMMA BurstKeeps ==
  ASSUME NEW T, NEW q \in Seq(T), Len(q) <= QueueMax, NEW d \in Nat, NEW s \in Seq(T)
  PROVE  FoldLeft(PutNowait, [queue |-> q, dropped |-> d], s)
           = [queue |-> Kept(q \o s), dropped |-> d + Lost(Len(q \o s))]
<1> DEFINE start == [queue |-> q, dropped |-> d]
           State(r) == [queue |-> Kept(q \o r), dropped |-> d + Lost(Len(q \o r))]
           Good == {r \in Seq(T) : FT!Fold(start, r) = State(r)}
<1>1. FT!Fold(start, <<>>) = State(<<>>)
  <2>1. q \o <<>> = q /\ Len(q) \in Nat
    OBVIOUS
  <2>2. Lost(Len(q)) = 0
    BY <2>1, BroadcastAssumption DEF Lost
  <2>3. Kept(q) = q /\ d + 0 = d
    BY <2>1, <2>2, FT!WholePrefix DEF Kept
  <2>4. FT!Fold(start, <<>>) = start
    BY FT!FoldEmpty
  <2> QED BY <2>1, <2>2, <2>3, <2>4, Zenon
<1>2. ASSUME NEW r \in Seq(T), NEW x \in T, FT!Fold(start, r) = State(r)
      PROVE  FT!Fold(start, Append(r, x)) = State(Append(r, x))
  <2> DEFINE u == q \o r
  <2>1. q \o Append(r, x) = Append(u, x) /\ u \in Seq(T)
    OBVIOUS
  <2>2. FT!Fold(start, Append(r, x)) = PutNowait(FT!Fold(start, r), x)
    BY FT!FoldAppend
  <2>3. FT!Fold(start, r) = [queue |-> Kept(u), dropped |-> d + Lost(Len(u))]
    BY <1>2
  <2> HIDE DEF u, start
  <2>4. PutNowait([queue |-> Kept(u), dropped |-> d + Lost(Len(u))], x)
          = [queue |-> Kept(Append(u, x)), dropped |-> d + Lost(Len(Append(u, x)))]
    BY <2>1, PutKeeps
  <2> QED BY <2>1, <2>2, <2>3, <2>4, Zenon
<1> HIDE DEF start, State
<1>3. <<>> \in Good
  BY <1>1
<1>4. ASSUME NEW r \in Seq(T), NEW x \in T, r \in Good PROVE Append(r, x) \in Good
  <2>1. Append(r, x) \in Seq(T)
    OBVIOUS
  <2> QED BY <1>2, <1>4, <2>1
<1>5. Seq(T) \subseteq Good
  <2> HIDE DEF Good
  <2> QED BY <1>3, <1>4, FT!SeqSetInduction
<1>6. FoldLeft(PutNowait, start, s) = FT!Fold(start, s)
  BY DEF FoldLeft, MapThenFoldSet, Max, FT!Fold, FT!FoldLeft, FT!MapThenFoldSet, FT!Max
<1> QED BY <1>5, <1>6 DEF start, State

-----------------------------------------------------------------------------
(* The inductive invariant: besides the types, how the counters of a       *)
(* client hang together.                                                   *)

ClientInv(c) ==
  /\ dropped[c] + Len(queue[c]) <= offered[c]
  /\ joined[c] + offered[c] <= published
  /\ c \in Registered => joined[c] + offered[c] = published
  /\ handler[c] \in {"absent", "accepting"} => queue[c] = <<>> /\ dropped[c] = 0 /\ offered[c] = 0
  /\ sender[c] = "sending" => sending[c] \in 1 .. MaxEvents

IInv == TypeOK /\ \A c \in Clients : ClientInv(c)

Events == 1 .. MaxEvents

\* A client's queue, its received events and its counters are typed.
LEMMA ClientTypes ==
  ASSUME TypeOK, NEW c \in Clients
  PROVE  /\ published \in 0 .. MaxEvents /\ MaxEvents \in Nat /\ QueueMax \in Nat \ {0}
         /\ queue[c] \in Seq(Events) /\ Len(queue[c]) \in Nat /\ Len(queue[c]) <= QueueMax
         /\ dropped[c] \in 0 .. MaxEvents /\ joined[c] \in 0 .. MaxEvents
         /\ offered[c] \in 0 .. MaxEvents /\ delivered[c] \in 0 .. MaxEvents
         /\ sending[c] \in Events \cup {None}
<1>1. queue[c] \in Seq(Events)
  BY DEF TypeOK, Events
<1> QED BY <1>1, BroadcastAssumption, LenProperties DEF TypeOK, Events

\* The invariant holds at the start,
LEMMA InitIInv == Init => IInv
<1> SUFFICES ASSUME Init PROVE IInv
  OBVIOUS
<1>1. <<>> \in Seq(1 .. MaxEvents) /\ Len(<<>>) = 0
  OBVIOUS
<1>2. \A c \in Clients : queue[c] = <<>>
  BY DEF Init
<1>3. TypeOK
  BY <1>1, <1>2, BroadcastAssumption DEF Init, TypeOK
<1>4. \A c \in Clients : ClientInv(c)
  BY <1>1, <1>2 DEF Init, ClientInv, Registered
<1> QED BY <1>3, <1>4 DEF IInv

\* A burst, for a client that is registered.
LEMMA BurstFacts ==
  ASSUME TypeOK, NEW c \in Clients, NEW k \in Nat, published + k <= MaxEvents
  PROVE  LET burst == [i \in 1 .. k |-> published + i]
             all   == queue[c] \o burst
         IN  /\ burst \in Seq(Events) /\ Len(burst) = k
             /\ all \in Seq(Events) /\ Len(all) = Len(queue[c]) + k
             /\ FoldLeft(PutNowait, [queue |-> queue[c], dropped |-> dropped[c]], burst)
                  = [queue |-> Kept(all), dropped |-> dropped[c] + Lost(Len(all))]
<1> DEFINE burst == [i \in 1 .. k |-> published + i]
           all   == queue[c] \o burst
<1>1. published \in 0 .. MaxEvents /\ MaxEvents \in Nat
  BY ClientTypes
<1>2. burst \in Seq(Events) /\ Len(burst) = k
  <2>1. \A i \in 1 .. k : published + i \in Events
    BY <1>1 DEF Events
  <2>2. burst \in [1 .. k -> Events]
    BY <2>1
  <2> HIDE DEF burst
  <2> QED BY <2>2
<1>3. queue[c] \in Seq(Events) /\ Len(queue[c]) <= QueueMax /\ dropped[c] \in Nat
  BY ClientTypes
<1> HIDE DEF burst
<1>4. all \in Seq(Events) /\ Len(all) = Len(queue[c]) + k
  BY <1>2, <1>3, FT!Joined
<1>5. FoldLeft(PutNowait, [queue |-> queue[c], dropped |-> dropped[c]], burst)
        = [queue |-> Kept(all), dropped |-> dropped[c] + Lost(Len(all))]
  BY <1>2, <1>3, BurstKeeps
<1> QED BY <1>2, <1>4, <1>5 DEF burst

\* What publishing a burst leaves in the queue of a subscriber.
LEMMA PublishFacts ==
  ASSUME TypeOK, NEW k \in 1 .. MaxBurst, PublishMany(k), NEW c \in Clients
  PROVE  /\ c \in Registered =>
              LET all == queue[c] \o [i \in 1 .. k |-> published + i]
              IN  /\ all \in Seq(Events) /\ Len(all) = Len(queue[c]) + k
                  /\ queue'[c] = Kept(all) /\ dropped'[c] = dropped[c] + Lost(Len(all))
                  /\ offered'[c] = offered[c] + k
         /\ c \notin Registered => queue'[c] = queue[c] /\ dropped'[c] = dropped[c]
                                   /\ offered'[c] = offered[c]
         /\ joined'[c] = joined[c] /\ sending'[c] = sending[c] /\ handler'[c] = handler[c]
         /\ sender'[c] = "sending" => sender[c] = "sending"
         /\ published' = published + k /\ published' <= MaxEvents /\ k \in Nat \ {0}
<1>1. k \in Nat \ {0} /\ published + k <= MaxEvents /\ published' = published + k
  BY BroadcastAssumption DEF PublishMany
<1> DEFINE all == queue[c] \o [i \in 1 .. k |-> published + i]
           start == [queue |-> queue[c], dropped |-> dropped[c]]
           fold == FoldLeft(PutNowait, start, [i \in 1 .. k |-> published + i])
<1>2. /\ all \in Seq(Events) /\ Len(all) = Len(queue[c]) + k
      /\ fold = [queue |-> Kept(all), dropped |-> dropped[c] + Lost(Len(all))]
  BY <1>1, BurstFacts
<1>3. /\ queue'[c] = (IF c \in Registered THEN fold ELSE start).queue
      /\ dropped'[c] = (IF c \in Registered THEN fold ELSE start).dropped
  BY DEF PublishMany
<1>4. offered'[c] = IF c \in Registered THEN offered[c] + k ELSE offered[c]
  BY DEF PublishMany
<1>5. /\ joined' = joined /\ sending' = sending /\ handler' = handler
      /\ sender'[c] = IF c \in Registered /\ sender[c] = "getting" THEN "woken" ELSE sender[c]
  BY DEF PublishMany
<1> HIDE DEF all, fold
<1>6. c \in Registered => queue'[c] = Kept(all) /\ dropped'[c] = dropped[c] + Lost(Len(all))
  BY <1>2, <1>3
<1>7. c \notin Registered => queue'[c] = queue[c] /\ dropped'[c] = dropped[c]
  BY <1>3
<1> QED BY <1>1, <1>2, <1>4, <1>5, <1>6, <1>7 DEF all

\* Publishing keeps the invariant.
LEMMA PublishKeeps ==
  ASSUME IInv, NEW k \in 1 .. MaxBurst, PublishMany(k)
  PROVE  IInv'
<1>1. TypeOK /\ \A c \in Clients : ClientInv(c)
  BY DEF IInv
<1>2. Registered' = Registered
  BY DEF PublishMany, Registered
<1>3. ASSUME NEW c \in Clients, c \in Registered
      PROVE  /\ queue'[c] \in Seq(Events) /\ Len(queue'[c]) <= QueueMax
             /\ Len(queue'[c]) \in Nat /\ dropped'[c] \in 0 .. MaxEvents
             /\ dropped'[c] + Len(queue'[c]) <= offered'[c]
             /\ offered'[c] \in 0 .. MaxEvents /\ joined'[c] + offered'[c] = published'
  <2> DEFINE all == queue[c] \o [i \in 1 .. k |-> published + i]
  <2>1. /\ all \in Seq(Events) /\ Len(all) = Len(queue[c]) + k
        /\ queue'[c] = Kept(all) /\ dropped'[c] = dropped[c] + Lost(Len(all))
        /\ offered'[c] = offered[c] + k
    BY <1>1, <1>3, PublishFacts
  <2>2. joined'[c] = joined[c] /\ published' = published + k /\ published' <= MaxEvents /\ k \in Nat
    BY <1>1, PublishFacts
  <2> HIDE DEF all
  <2>3. /\ Lost(Len(all)) \in 0 .. Len(all) /\ Kept(all) \in Seq(Events)
        /\ Len(Kept(all)) = Len(all) - Lost(Len(all)) /\ Len(Kept(all)) <= QueueMax
    BY <2>1, KeptFacts
  <2>4. /\ Len(queue[c]) \in Nat /\ dropped[c] \in Nat /\ offered[c] \in Nat /\ joined[c] \in Nat
        /\ published \in Nat /\ MaxEvents \in Nat
    BY <1>1, ClientTypes
  <2>5. dropped[c] + Len(queue[c]) <= offered[c] /\ joined[c] + offered[c] = published
    BY <1>1, <1>3 DEF ClientInv
  <2>6. Len(queue'[c]) \in Nat /\ Len(all) \in Nat
    BY <2>1, <2>3, LenProperties
  <2>7. dropped'[c] + Len(queue'[c]) <= offered'[c] /\ dropped'[c] \in Nat
        /\ joined'[c] + offered'[c] = published' /\ offered'[c] \in 0 .. MaxEvents
    <3> DEFINE lost == Lost(Len(all))
               left == Len(queue'[c])
               had == Len(queue[c])
    <3>1. left = had + k - lost /\ lost \in Nat /\ left \in Nat /\ had \in Nat
          /\ dropped[c] + had <= offered[c]
      BY <2>1, <2>3, <2>4, <2>5, <2>6
    <3>2. /\ dropped'[c] = dropped[c] + lost /\ offered'[c] = offered[c] + k
          /\ k \in Nat /\ dropped[c] \in Nat /\ offered[c] \in Nat
      BY <2>1, <2>2, <2>4
    <3> HIDE DEF lost, left, had
    <3>3. dropped'[c] + left <= offered'[c] /\ dropped'[c] \in Nat
      BY ONLY <3>1, <3>2
    <3>4. joined'[c] + offered'[c] = published' /\ offered'[c] \in 0 .. MaxEvents
      <4>1. joined'[c] = joined[c] /\ published' = published + k /\ published' <= MaxEvents
            /\ joined[c] + offered[c] = published
            /\ published \in Nat /\ joined[c] \in Nat /\ MaxEvents \in Nat
        BY <2>2, <2>4, <2>5
      <4> QED BY ONLY <3>2, <4>1
    <3> QED BY <3>3, <3>4 DEF left
  <2>8. dropped'[c] \in 0 .. MaxEvents
    BY <2>4, <2>6, <2>7
  <2> QED BY <2>1, <2>3, <2>6, <2>7, <2>8
<1>4. ASSUME NEW c \in Clients, c \notin Registered
      PROVE  /\ queue'[c] = queue[c] /\ dropped'[c] = dropped[c] /\ offered'[c] = offered[c]
             /\ joined'[c] = joined[c]
  BY <1>1, <1>4, PublishFacts
<1>5. \A c \in Clients : ClientInv(c)'
  <2> TAKE c \in Clients
  <2>1. /\ joined'[c] = joined[c] /\ sending'[c] = sending[c] /\ handler'[c] = handler[c]
        /\ sender'[c] = "sending" => sender[c] = "sending"
        /\ published' = published + k /\ k \in Nat
    BY <1>1, PublishFacts
  <2>2. ClientInv(c) /\ published \in Nat /\ joined[c] \in Nat /\ offered[c] \in Nat
    BY <1>1, ClientTypes
  <2>3. CASE c \in Registered
    <3>1. /\ dropped'[c] + Len(queue'[c]) <= offered'[c] /\ joined'[c] + offered'[c] = published'
      BY <1>3, <2>3
    <3>2. handler'[c] = "serving" /\ published' \in Nat
      BY <2>1, <2>2, <2>3 DEF Registered
    <3> QED BY <2>1, <2>2, <3>1, <3>2 DEF ClientInv
  <2>4. CASE c \notin Registered
    <3>1. /\ queue'[c] = queue[c] /\ dropped'[c] = dropped[c] /\ offered'[c] = offered[c]
      BY <1>4, <2>4
    <3>2. joined'[c] + offered'[c] <= published'
      BY <2>1, <2>2, <3>1 DEF ClientInv
    <3> QED BY <1>2, <2>1, <2>2, <2>4, <3>1, <3>2 DEF ClientInv
  <2> QED BY <2>3, <2>4
<1>6. TypeOK'
  <2>1. queue' \in [Clients -> Seq(Events)] /\ dropped' \in [Clients -> 0 .. MaxEvents]
        /\ offered' \in [Clients -> 0 .. MaxEvents] /\ \A c \in Clients : Len(queue'[c]) <= QueueMax
    <3>1. \A c \in Clients : /\ queue'[c] \in Seq(Events) /\ Len(queue'[c]) <= QueueMax
                             /\ dropped'[c] \in 0 .. MaxEvents /\ offered'[c] \in 0 .. MaxEvents
      BY <1>1, <1>3, <1>4, ClientTypes
    <3>2. /\ queue' = [c \in Clients |-> queue'[c]] /\ dropped' = [c \in Clients |-> dropped'[c]]
          /\ offered' = [c \in Clients |-> offered'[c]]
      BY DEF PublishMany
    <3> QED BY <3>1, <3>2
  <2>2. sender' \in [Clients -> {"none", "start", "getting", "woken", "sending", "cancelled", "ended"}]
    BY <1>1 DEF PublishMany, TypeOK
  <2>3. published' \in 0 .. MaxEvents
    BY <1>1, BroadcastAssumption DEF PublishMany, TypeOK
  <2> QED BY <1>1, <2>1, <2>2, <2>3 DEF PublishMany, TypeOK, Events
<1> QED BY <1>5, <1>6 DEF IInv

\* The handler of one client, and its socket.
LEMMA HandlerKeeps ==
  ASSUME IInv, NEW c \in Clients,
         \/ Request(c) \/ Connect(c) \/ AcceptFails(c) \/ Disconnect(c)
         \/ \E s \in {"open", "stalled", "broken"} : SocketChanges(c, s)
  PROVE  IInv'
<1>1. TypeOK /\ \A d \in Clients : ClientInv(d)
  BY DEF IInv
<1>2. TypeOK'
  <2>1. published \in 0 .. MaxEvents
    BY <1>1 DEF TypeOK
  <2>2. CASE Request(c) BY <1>1, <2>2 DEF TypeOK, Request, aux
  <2>3. CASE Connect(c) BY <1>1, <2>1, <2>3 DEF TypeOK, Connect, aux
  <2>4. CASE AcceptFails(c) BY <1>1, <2>4 DEF TypeOK, AcceptFails, aux
  <2>5. CASE Disconnect(c)
    <3>1. sender' \in [Clients -> {"none", "start", "getting", "woken", "sending", "cancelled", "ended"}]
      BY <1>1, <2>5 DEF TypeOK, Disconnect
    <3> QED BY <1>1, <2>5, <3>1 DEF TypeOK, Disconnect, aux
  <2>6. CASE \E s \in {"open", "stalled", "broken"} : SocketChanges(c, s)
    BY <1>1, <2>6 DEF TypeOK, SocketChanges, aux
  <2> QED BY <2>2, <2>3, <2>4, <2>5, <2>6
<1>3. UNCHANGED <<published, queue, dropped, offered, sending>>
  BY DEF Request, Connect, AcceptFails, Disconnect, SocketChanges, aux
<1>4. ASSUME NEW d \in Clients PROVE ClientInv(d)'
  <2>1. /\ handler \in [Clients -> {"absent", "accepting", "serving", "gone"}]
        /\ sender \in [Clients -> {"none", "start", "getting", "woken", "sending", "cancelled", "ended"}]
        /\ joined \in [Clients -> 0 .. MaxEvents] /\ published \in 0 .. MaxEvents
        /\ MaxEvents \in Nat /\ ClientInv(d)
    BY <1>1, BroadcastAssumption DEF TypeOK
  <2>2. sender'[d] = "sending" => sender[d] = "sending"
    BY <2>1 DEF Request, Connect, AcceptFails, Disconnect, SocketChanges
  <2>3. CASE Connect(c)
    <3>1. handler' = [handler EXCEPT ![c] = "serving"] /\ joined' = [joined EXCEPT ![c] = published]
          /\ handler[c] = "accepting"
      BY <2>3 DEF Connect
    <3>2. CASE d = c
      <4>1. offered[d] = 0 /\ joined'[d] = published /\ handler'[d] = "serving"
        BY <2>1, <3>1, <3>2 DEF ClientInv
      <4> QED BY <1>3, <2>1, <2>2, <4>1 DEF ClientInv, Registered
    <3>3. CASE d # c
      <4>1. joined'[d] = joined[d] /\ handler'[d] = handler[d]
        BY <2>1, <3>1, <3>3
      <4> QED BY <1>3, <2>1, <2>2, <4>1 DEF ClientInv, Registered
    <3> QED BY <3>2, <3>3
  <2>4. CASE ~Connect(c)
    <3>1. joined' = joined
      BY <2>4 DEF Request, AcceptFails, Disconnect, SocketChanges, aux
    <3>2. /\ handler'[d] = "serving" => handler[d] = "serving"
          /\ handler'[d] \in {"absent", "accepting"} => handler[d] \in {"absent", "accepting"}
      BY <2>1, <2>4 DEF Request, AcceptFails, Disconnect, SocketChanges
    <3> QED BY <1>3, <2>1, <2>2, <3>1, <3>2 DEF ClientInv, Registered
  <2> QED BY <2>3, <2>4
<1> QED BY <1>2, <1>4 DEF IInv

\* What taking the oldest event leaves.
LEMMA GetFacts ==
  ASSUME TypeOK, NEW c \in Clients, Get(c)
  PROVE  /\ queue' \in [Clients -> Seq(Events)]
         /\ sender' \in [Clients -> {"none", "start", "getting", "woken", "sending", "cancelled", "ended"}]
         /\ sending' \in [Clients -> Events \cup {None}]
         /\ \A d \in Clients : d # c => queue'[d] = queue[d] /\ sender'[d] = sender[d] /\ sending'[d] = sending[d]
         /\ sender'[c] = "sending" => sending'[c] \in Events
         /\ \/ queue'[c] = queue[c]
            \/ queue[c] # <<>> /\ queue'[c] = Tail(queue[c])
         /\ Len(queue'[c]) <= Len(queue[c]) /\ Len(queue'[c]) \in Nat
<1>1. queue \in [Clients -> Seq(Events)] /\ queue[c] \in Seq(Events) /\ Len(queue[c]) \in Nat
      /\ sender \in [Clients -> {"none", "start", "getting", "woken", "sending", "cancelled", "ended"}]
      /\ sending \in [Clients -> Events \cup {None}]
  BY ClientTypes DEF TypeOK, Events
<1>2. CASE queue[c] = <<>>
  <2>1. sender' = [sender EXCEPT ![c] = "getting"] /\ sending' = [sending EXCEPT ![c] = None]
        /\ queue' = queue
    BY <1>2 DEF Get
  <2> QED BY <1>1, <2>1
<1>3. CASE queue[c] # <<>>
  <2>1. sender' = [sender EXCEPT ![c] = "sending"] /\ sending' = [sending EXCEPT ![c] = Head(queue[c])]
        /\ queue' = [queue EXCEPT ![c] = Tail(queue[c])]
    BY <1>3 DEF Get
  <2>2. Head(queue[c]) \in Events /\ Tail(queue[c]) \in Seq(Events) /\ Len(Tail(queue[c])) = Len(queue[c]) - 1
    BY <1>1, <1>3, HeadTailProperties
  <2>3. Len(queue[c]) # 0
    BY <1>1, <1>3, EmptySeq
  <2>4. queue'[c] = Tail(queue[c]) /\ queue' \in [Clients -> Seq(Events)]
    BY <1>1, <2>1, <2>2
  <2>5. Len(queue'[c]) <= Len(queue[c]) /\ Len(queue'[c]) \in Nat
    <3>1. Len(queue'[c]) = Len(queue[c]) - 1
      BY <2>2, <2>4
    <3> QED BY <1>1, <2>3, <3>1
  <2>6. /\ sender' \in [Clients -> {"none", "start", "getting", "woken", "sending", "cancelled", "ended"}]
        /\ sending' \in [Clients -> Events \cup {None}] /\ sending'[c] \in Events
    BY <1>1, <2>1, <2>2
  <2>7. \A d \in Clients : d # c => queue'[d] = queue[d] /\ sender'[d] = sender[d] /\ sending'[d] = sending[d]
    BY <1>1, <2>1
  <2> QED BY <1>3, <2>4, <2>5, <2>6, <2>7
<1> QED BY <1>2, <1>3

\* The sender task of one client.
LEMMA SenderKeeps ==
  ASSUME IInv, NEW c \in Clients, Sender(c)
  PROVE  IInv'
<1>1. TypeOK /\ \A d \in Clients : ClientInv(d)
  BY DEF IInv
<1>2. UNCHANGED <<published, sock, handler, dropped, joined, offered>>
  BY DEF Sender, SenderRuns, SendDone, SendFails, SenderCancelled, aux
<1>3. delivered' \in [Clients -> 0 .. MaxEvents]
  <2>1. delivered \in [Clients -> 0 .. MaxEvents] /\ MaxEvents \in Nat
    BY <1>1, BroadcastAssumption DEF TypeOK
  <2>2. CASE SendDone(c)
    <3>1. sending[c] \in 1 .. MaxEvents
      BY <1>1, <2>2 DEF ClientInv, SendDone
    <3> QED BY <2>1, <2>2, <3>1 DEF SendDone
  <2>3. CASE ~SendDone(c)
    BY <2>1, <2>3 DEF Sender, SenderRuns, SendFails, SenderCancelled, aux
  <2> QED BY <2>2, <2>3
<1> DEFINE Rest ==
      /\ queue' \in [Clients -> Seq(Events)]
      /\ sender' \in [Clients -> {"none", "start", "getting", "woken", "sending", "cancelled", "ended"}]
      /\ sending' \in [Clients -> Events \cup {None}]
      /\ \A d \in Clients : /\ Len(queue'[d]) <= Len(queue[d]) /\ Len(queue'[d]) \in Nat
                            /\ queue[d] = <<>> => queue'[d] = <<>>
                            /\ sender'[d] = "sending" => sending'[d] \in Events
<1>4. \A d \in Clients : Len(queue[d]) \in Nat /\ Len(queue[d]) <= QueueMax /\ QueueMax \in Nat
                         /\ (sender[d] = "sending" => sending[d] \in Events)
  BY <1>1, ClientTypes DEF ClientInv, Events
<1>5. ASSUME Get(c) PROVE Rest
  <2>1. ASSUME NEW d \in Clients
        PROVE  /\ Len(queue'[d]) <= Len(queue[d]) /\ Len(queue'[d]) \in Nat
               /\ queue[d] = <<>> => queue'[d] = <<>>
               /\ sender'[d] = "sending" => sending'[d] \in Events
    <3>1. CASE d = c
      BY <1>1, <1>5, <3>1, GetFacts
    <3>2. CASE d # c
      BY <1>1, <1>4, <1>5, <3>2, GetFacts
    <3> QED BY <3>1, <3>2
  <2> QED BY <1>1, <1>5, <2>1, GetFacts
<1>6. ASSUME queue' = queue, sender' = [sender EXCEPT ![c] = "ended"],
             sending' = [sending EXCEPT ![c] = None]
      PROVE  Rest
  <2>1. /\ queue \in [Clients -> Seq(Events)] /\ sending \in [Clients -> Events \cup {None}]
        /\ sender \in [Clients -> {"none", "start", "getting", "woken", "sending", "cancelled", "ended"}]
    BY <1>1 DEF TypeOK, Events
  <2>2. /\ sending' \in [Clients -> Events \cup {None}]
        /\ sender' \in [Clients -> {"none", "start", "getting", "woken", "sending", "cancelled", "ended"}]
    BY <1>6, <2>1
  <2>3. \A d \in Clients : sender'[d] = "sending" => sending'[d] \in Events
    BY <1>4, <1>6, <2>1
  <2>4. \A d \in Clients : Len(queue'[d]) <= Len(queue[d]) /\ Len(queue'[d]) \in Nat
                           /\ (queue[d] = <<>> => queue'[d] = <<>>)
    BY <1>4, <1>6
  <2> QED BY <1>6, <2>1, <2>2, <2>3, <2>4
<1>7. Rest
  <2> HIDE DEF Rest
  <2> QED BY <1>5, <1>6 DEF Sender, SenderRuns, SendDone, SendFails, SenderCancelled
<1>8. TypeOK'
  <2>1. \A d \in Clients : Len(queue'[d]) <= QueueMax
    <3> TAKE d \in Clients
    <3> DEFINE old == Len(queue[d])
               new == Len(queue'[d])
    <3>1. new <= old /\ new \in Nat /\ old \in Nat /\ old <= QueueMax /\ QueueMax \in Nat
      BY <1>4, <1>7
    <3> HIDE DEF old, new
    <3>2. new <= QueueMax
      BY ONLY <3>1
    <3> QED BY <3>2 DEF new
  <2> QED BY <1>1, <1>2, <1>3, <1>7, <2>1 DEF TypeOK, Events
<1>9. ASSUME NEW d \in Clients PROVE ClientInv(d)'
  <2>1. /\ Len(queue'[d]) <= Len(queue[d]) /\ Len(queue'[d]) \in Nat /\ Len(queue[d]) \in Nat
        /\ queue[d] = <<>> => queue'[d] = <<>>
        /\ sender'[d] = "sending" => sending'[d] \in Events
    BY <1>4, <1>7
  <2>2. dropped[d] \in Nat /\ offered[d] \in Nat /\ ClientInv(d)
    BY <1>1, ClientTypes
  <2>3. dropped[d] + Len(queue'[d]) <= offered[d]
    BY <2>1, <2>2 DEF ClientInv
  <2> QED BY <1>2, <2>1, <2>2, <2>3 DEF ClientInv, Registered, Events
<1> QED BY <1>8, <1>9 DEF IInv

\* and every step keeps it.
LEMMA NextKeepsIInv == IInv /\ [Next]_vars => IInv'
<1> SUFFICES ASSUME IInv, [Next]_vars PROVE IInv'
  OBVIOUS
<1>1. ASSUME NEW k \in 1 .. MaxBurst, PublishMany(k) PROVE IInv'
  BY <1>1, PublishKeeps
<1>2. ASSUME NEW c \in Clients, Sender(c) PROVE IInv'
  BY <1>2, SenderKeeps
<1>3. ASSUME NEW c \in Clients,
             \/ Request(c) \/ Connect(c) \/ AcceptFails(c) \/ Disconnect(c)
             \/ \E s \in {"open", "stalled", "broken"} : SocketChanges(c, s)
      PROVE  IInv'
  BY <1>3, HandlerKeeps
<1>4. CASE UNCHANGED vars
  BY <1>4 DEF vars, aux, IInv, TypeOK, ClientInv, Registered
<1> QED BY <1>1, <1>2, <1>3, <1>4 DEF Next

(* The inductive invariant: what a client was offered, lost and still has  *)
(* queued never disagree, whatever the other clients do.                   *)
THEOREM Invariance == Spec => []IInv
<1>1. Init => IInv
  BY InitIInv
<1>2. IInv /\ [Next]_vars => IInv'
  BY NextKeepsIInv
<1> QED BY <1>1, <1>2, PTL DEF Spec

(* The types of BroadcastManager's state: no queue holds more than         *)
(* CLIENT_QUEUE_MAXSIZE events, however many clients and bursts.           *)
THEOREM TypeCorrect == Spec => []TypeOK
<1>1. IInv => TypeOK
  BY DEF IInv
<1> QED BY <1>1, Invariance, PTL

-----------------------------------------------------------------------------
(* The queue of one client is a DropOldestQueue.                           *)

\* The queue as the abstract one sees it: events numbered from joining on.
Numbered(q, j) == [i \in DOMAIN q |-> q[i] - j]

\* The numbered queue has the events of the queue, from the first number on.
LEMMA NumberedFacts ==
  ASSUME NEW q \in Seq(Events), NEW j \in Nat
  PROVE  /\ Numbered(q, j) \in Seq(Int) /\ Len(Numbered(q, j)) = Len(q) /\ Len(q) \in Nat
         /\ \A i \in 1 .. Len(q) : Numbered(q, j)[i] = q[i] - j
<1>1. /\ DOMAIN q = 1 .. Len(q) /\ Len(q) \in Nat /\ \A i \in 1 .. Len(q) : q[i] \in Events
  OBVIOUS
<1>2. \A i \in 1 .. Len(q) : q[i] - j \in Int
  BY <1>1, BroadcastAssumption DEF Events
<1>3. Numbered(q, j) \in [1 .. Len(q) -> Int]
  BY <1>1, <1>2 DEF Numbered
<1>4. \A i \in 1 .. Len(q) : Numbered(q, j)[i] = q[i] - j
  BY <1>1 DEF Numbered
<1>5. ASSUME NEW n \in Nat, NEW s \in [1 .. n -> Int] PROVE s \in Seq(Int) /\ Len(s) = n
  OBVIOUS
<1> QED BY <1>1, <1>3, <1>4, <1>5

\* The abstract queue after a burst, in closed form.
LEMMA AbstractQueue ==
  ASSUME NEW c \in Clients
  PROVE  /\ Queue(c)!Init <=> Numbered(queue[c], joined[c]) = <<>> /\ dropped[c] = 0 /\ offered[c] = 0
         /\ Queue(c)!AddMany <=>
              LET all  == Numbered(queue[c], joined[c]) \o [i \in 1 .. offered'[c] - offered[c] |-> offered[c] + i]
                  lost == IF Len(all) > QueueMax THEN Len(all) - QueueMax ELSE 0
              IN  /\ offered'[c] > offered[c]
                  /\ Numbered(queue'[c], joined'[c]) = SubSeq(all, lost + 1, Len(all))
                  /\ dropped'[c] = dropped[c] + lost
         /\ \A n : Queue(c)!Take(n) <=>
              /\ Numbered(queue'[c], joined'[c])
                   = SubSeq(Numbered(queue[c], joined[c]), n + 1, Len(Numbered(queue[c], joined[c])))
              /\ dropped'[c] = dropped[c] /\ offered'[c] = offered[c]
         /\ UNCHANGED Queue(c)!vars <=>
              /\ Numbered(queue'[c], joined'[c]) = Numbered(queue[c], joined[c])
              /\ dropped'[c] = dropped[c] /\ offered'[c] = offered[c]
         /\ (Queue(c)!AddMany \/ \E n \in 1 .. Len(Numbered(queue[c], joined[c])) : Queue(c)!Take(n))
              => Queue(c)!BurstNext
BY DEF Queue!Init, Queue!AddMany, Queue!Take, Queue!vars, Queue!BurstNext, Numbered

\* Equal queues have equal numberings.
LEMMA NumberedSame ==
  ASSUME NEW q \in Seq(Events), q # <<>>, NEW j \in Nat
  PROVE  Numbered(Tail(q), j) = SubSeq(Numbered(q, j), 1 + 1, Len(Numbered(q, j)))
<1>1. /\ Len(q) \in Nat \ {0} /\ Tail(q) \in Seq(Events) /\ Len(Tail(q)) = Len(q) - 1
      /\ \A i \in 1 .. Len(q) - 1 : Tail(q)[i] = q[i + 1]
  BY HeadTailProperties, EmptySeq, LenProperties
<1> DEFINE t == Numbered(Tail(q), j)
           a == Numbered(q, j)
           s == SubSeq(a, 1 + 1, Len(a))
<1>2. /\ t \in Seq(Int) /\ Len(t) = Len(q) - 1 /\ \A i \in 1 .. Len(q) - 1 : t[i] = Tail(q)[i] - j
  BY <1>1, NumberedFacts
<1>3. /\ a \in Seq(Int) /\ Len(a) = Len(q) /\ \A i \in 1 .. Len(q) : a[i] = q[i] - j
  BY NumberedFacts
<1> HIDE DEF t, a
<1>4. /\ s \in Seq(Int) /\ Len(s) = Len(a) - 1 /\ \A i \in 1 .. Len(a) - 1 : s[i] = a[1 + i]
  <2>1. 1 \in 0 .. Len(a)
    BY <1>1, <1>3
  <2> QED BY <1>3, <2>1, FT!Rest
<1>5. \A i \in 1 .. Len(t) : t[i] = s[i]
  <2> TAKE i \in 1 .. Len(t)
  <2>1. i \in 1 .. Len(q) - 1 /\ i + 1 \in 1 .. Len(q) /\ 1 + i = i + 1
    BY <1>1, <1>2
  <2> QED BY <1>1, <1>2, <1>3, <1>4, <2>1
<1>6. Len(t) = Len(s)
  BY <1>2, <1>3, <1>4
<1>7. t = s
  <2> HIDE DEF s
  <2> QED BY <1>2, <1>4, <1>5, <1>6, FT!SameSequence
<1> QED BY <1>7 DEF t, a

\* The k numbers after p.
Burst(p, k) == [i \in 1 .. k |-> p + i]

\* What a burst leaves in the queue has the numbers that the abstract queue keeps.
SameNumbers(q, j, p, o, k) ==
  LET all == q \o Burst(p, k)
      num == Numbered(q, j) \o Burst(o, k)
  IN  /\ Len(num) = Len(all)
      /\ Numbered(Kept(all), j) = SubSeq(num, Lost(Len(num)) + 1, Len(num))

\* Numbering what was kept is keeping of what was numbered.
LEMMA NumberedKept ==
  ASSUME NEW q \in Seq(Events), NEW j \in Nat, NEW p \in Nat, NEW o \in Nat, j + o = p,
         NEW k \in Nat, Burst(p, k) \in Seq(Events)
  PROVE  SameNumbers(q, j, p, o, k)
<1> DEFINE b   == Burst(p, k)
           c   == Burst(o, k)
           n   == Numbered(q, j)
           all == q \o b
           num == n \o c
           l   == Lost(Len(all))
           x   == Numbered(Kept(all), j)
           y   == SubSeq(num, l + 1, Len(num))
<1>1. /\ b \in Seq(Events) /\ Len(b) = k /\ \A i \in 1 .. k : b[i] = p + i
  BY DEF Burst
<1>2. /\ c \in Seq(Int) /\ Len(c) = k /\ \A i \in 1 .. k : c[i] = o + i
  BY DEF Burst
<1>3. /\ n \in Seq(Int) /\ Len(n) = Len(q) /\ Len(q) \in Nat /\ \A i \in 1 .. Len(q) : n[i] = q[i] - j
  BY NumberedFacts
<1> HIDE DEF b, c, n
<1>4. /\ all \in Seq(Events) /\ Len(all) = Len(q) + k
      /\ \A i \in 1 .. Len(q) : all[i] = q[i]
      /\ \A i \in 1 .. k : all[Len(q) + i] = b[i]
  <2>1. b \in Seq(Events)
    BY <1>1
  <2>2. /\ q \o b \in Seq(Events) /\ Len(q \o b) = Len(q) + Len(b)
        /\ \A i \in 1 .. Len(q) : (q \o b)[i] = q[i]
        /\ \A i \in 1 .. Len(b) : (q \o b)[Len(q) + i] = b[i]
    BY <2>1, FT!Joined
  <2> QED BY <1>1, <2>2
<1>5. /\ num \in Seq(Int) /\ Len(num) = Len(q) + k
      /\ \A i \in 1 .. Len(q) : num[i] = n[i]
      /\ \A i \in 1 .. k : num[Len(q) + i] = c[i]
  <2>1. /\ num \in Seq(Int) /\ Len(num) = Len(n) + Len(c)
        /\ \A i \in 1 .. Len(n) : num[i] = n[i]
        /\ \A i \in 1 .. Len(c) : num[Len(n) + i] = c[i]
    <3>1. n \in Seq(Int) /\ c \in Seq(Int)
      BY <1>2, <1>3
    <3> QED BY <3>1, FT!Joined
  <2> QED BY <1>2, <1>3, <2>1
<1> HIDE DEF all, num
<1>6. \A i \in 1 .. Len(q) + k : num[i] = all[i] - j
  <2> TAKE i \in 1 .. Len(q) + k
  <2>1. CASE i <= Len(q)
    <3>1. i \in 1 .. Len(q)
      BY <1>3, <2>1
    <3> QED BY <1>3, <1>4, <1>5, <3>1
  <2>2. CASE ~(i <= Len(q))
    <3>1. i - Len(q) \in 1 .. k /\ Len(q) + (i - Len(q)) = i
      BY <1>3, <2>2
    <3>2. num[i] = o + (i - Len(q))
      BY <1>2, <1>5, <3>1
    <3>3. all[i] = p + (i - Len(q))
      BY <1>1, <1>4, <3>1
    <3>4. o + (i - Len(q)) = p + (i - Len(q)) - j
      BY <1>3
    <3> QED BY <3>2, <3>3, <3>4
  <2> QED BY <2>1, <2>2
<1>7. /\ l \in 0 .. Len(all) /\ Kept(all) \in Seq(Events) /\ Len(Kept(all)) = Len(all) - l
      /\ \A i \in 1 .. Len(Kept(all)) : Kept(all)[i] = all[l + i]
  BY <1>4, KeptFacts
<1> HIDE DEF l
<1>8. /\ x \in Seq(Int) /\ Len(x) = Len(all) - l
      /\ \A i \in 1 .. Len(all) - l : x[i] = Kept(all)[i] - j
  BY <1>7, NumberedFacts
<1>9. /\ y \in Seq(Int) /\ Len(y) = Len(all) - l
      /\ \A i \in 1 .. Len(all) - l : y[i] = num[l + i]
  <2>1. l \in 0 .. Len(num) /\ Len(num) = Len(all)
    BY <1>4, <1>5, <1>7
  <2> QED BY <1>5, <2>1, FT!Rest
<1>10. \A i \in 1 .. Len(x) : x[i] = y[i]
  <2> TAKE i \in 1 .. Len(x)
  <2>1. i \in 1 .. Len(all) - l /\ l + i \in 1 .. Len(q) + k
    BY <1>3, <1>4, <1>7, <1>8
  <2>2. x[i] = all[l + i] - j
    BY <1>7, <1>8, <2>1
  <2>3. y[i] = all[l + i] - j
    BY <1>6, <1>9, <2>1
  <2> QED BY <2>2, <2>3
<1>11. x = y
  <2> HIDE DEF x, y
  <2> QED BY <1>8, <1>9, <1>10, FT!SameSequence
<1>12. Len(num) = Len(all)
  BY <1>4, <1>5
<1> QED BY <1>11, <1>12 DEF l, num, all, n, b, c, SameNumbers

\* Every step is a step of the abstract queue of each client, or leaves it alone.
LEMMA StepIsQueue ==
  ASSUME IInv, [Next]_vars, NEW c \in Clients
  PROVE  Queue(c)!BurstNext \/ UNCHANGED Queue(c)!vars
<1> DEFINE q == queue[c]
           j == joined[c]
           Goal == Queue(c)!BurstNext \/ UNCHANGED Queue(c)!vars
<1>1. TypeOK /\ ClientInv(c)
  BY DEF IInv
<1>2. q \in Seq(Events) /\ j \in Nat /\ offered[c] \in Nat /\ published \in Nat
  BY <1>1, ClientTypes
<1>3. ASSUME UNCHANGED <<queue[c], joined[c], dropped[c], offered[c]>> PROVE Goal
  BY <1>3, AbstractQueue
<1>4. ASSUME NEW k \in 1 .. MaxBurst, PublishMany(k) PROVE Goal
  <2>1. CASE c \notin Registered
    BY <1>1, <1>3, <1>4, <2>1, PublishFacts
  <2>2. CASE c \in Registered
    <3> DEFINE burst == Burst(published, k)
               all == q \o burst
               num == Numbered(q, j) \o Burst(offered[c], k)
    <3>1. /\ queue'[c] = Kept(all) /\ dropped'[c] = dropped[c] + Lost(Len(all))
          /\ offered'[c] = offered[c] + k /\ joined'[c] = j /\ k \in Nat \ {0}
      BY <1>1, <1>4, <2>2, PublishFacts DEF Burst
    <3>2. burst \in Seq(Events)
      <4>1. published + k <= MaxEvents /\ k \in Nat
        BY <1>4, <3>1 DEF PublishMany
      <4> QED BY <1>1, <4>1, BurstFacts DEF Burst
    <3>3. j + offered[c] = published
      BY <1>1, <2>2 DEF ClientInv
    <3>4. Len(num) = Len(all) /\ Numbered(Kept(all), j) = SubSeq(num, Lost(Len(num)) + 1, Len(num))
      <4>1. q \in Seq(Events) /\ j \in Nat /\ published \in Nat /\ offered[c] \in Nat /\ k \in Nat
        BY <1>2, <3>1
      <4> HIDE DEF q, j
      <4>2. SameNumbers(q, j, published, offered[c], k)
        BY <3>2, <3>3, <4>1, NumberedKept
      <4> QED BY <4>2, Zenon DEF SameNumbers
    <3>5. offered'[c] - offered[c] = k /\ offered'[c] > offered[c]
      BY <1>2, <3>1
    <3>6. /\ Numbered(queue'[c], joined'[c]) = SubSeq(num, Lost(Len(num)) + 1, Len(num))
          /\ dropped'[c] = dropped[c] + Lost(Len(num))
      BY <3>1, <3>4
    <3>7. num = Numbered(queue[c], joined[c]) \o [i \in 1 .. offered'[c] - offered[c] |-> offered[c] + i]
      BY <3>5 DEF Burst
    <3> HIDE DEF num
    <3>8. Queue(c)!AddMany
      BY <3>5, <3>6, <3>7, AbstractQueue DEF Lost
    <3> QED BY <3>8, AbstractQueue
  <2> QED BY <2>1, <2>2
<1>5. ASSUME Get(c), UNCHANGED <<joined, dropped, offered>> PROVE Goal
  <2>1. CASE queue'[c] = queue[c]
    BY <1>3, <1>5, <2>1
  <2>2. CASE queue[c] # <<>> /\ queue'[c] = Tail(queue[c])
    <3>1. Numbered(queue'[c], joined'[c]) = SubSeq(Numbered(q, j), 1 + 1, Len(Numbered(q, j)))
      BY <1>2, <1>5, <2>2, NumberedSame
    <3>2. Queue(c)!Take(1)
      BY <1>5, <3>1, AbstractQueue
    <3>3. 1 \in 1 .. Len(Numbered(q, j))
      <4>1. Len(q) # 0 /\ Len(q) \in Nat /\ Len(Numbered(q, j)) = Len(q)
        BY <1>2, <2>2, NumberedFacts, EmptySeq
      <4> QED BY <4>1
    <3> QED BY <3>2, <3>3, AbstractQueue
  <2> QED BY <1>1, <1>5, <2>1, <2>2, GetFacts
<1>6. ASSUME NEW d \in Clients, Sender(d) PROVE Goal
  <2>1. UNCHANGED <<joined, dropped, offered>>
    BY <1>6 DEF Sender, SenderRuns, SendDone, SendFails, SenderCancelled, aux
  <2>2. CASE d = c /\ Get(c)
    BY <1>5, <2>1, <2>2
  <2>3. CASE ~(d = c /\ Get(c))
    <3>1. queue'[c] = queue[c]
      BY <1>1, <1>6, <2>3, GetFacts DEF Sender, SenderRuns, SendDone, SendFails, SenderCancelled
    <3> QED BY <1>3, <2>1, <3>1
  <2> QED BY <2>2, <2>3
<1>7. ASSUME NEW d \in Clients, Connect(d) PROVE Goal
  <2>1. UNCHANGED <<queue, dropped, offered>> /\ joined' = [joined EXCEPT ![d] = published]
        /\ handler[d] = "accepting"
    BY <1>7 DEF Connect, aux
  <2>2. CASE d = c
    <3>1. queue[c] = <<>>
      BY <1>1, <2>1, <2>2 DEF ClientInv
    <3>2. \A i : Numbered(<<>>, i) = <<>>
      BY DEF Numbered
    <3>3. Numbered(queue'[c], joined'[c]) = Numbered(queue[c], joined[c])
      BY <2>1, <3>1, <3>2
    <3> QED BY <2>1, <3>3, AbstractQueue
  <2>3. CASE d # c
    <3>1. joined'[c] = joined[c]
      BY <1>1, <2>1, <2>3 DEF TypeOK
    <3> QED BY <1>3, <2>1, <3>1
  <2> QED BY <2>2, <2>3
<1>8. ASSUME NEW d \in Clients,
             \/ Request(d) \/ AcceptFails(d) \/ Disconnect(d)
             \/ \E s \in {"open", "stalled", "broken"} : SocketChanges(d, s)
      PROVE  Goal
  <2>1. UNCHANGED <<queue, joined, dropped, offered>>
    BY <1>8 DEF Request, AcceptFails, Disconnect, SocketChanges, aux
  <2> QED BY <1>3, <2>1
<1>9. ASSUME UNCHANGED vars PROVE Goal
  <2>1. UNCHANGED <<queue, joined, dropped, offered>>
    BY <1>9 DEF vars, aux
  <2> QED BY <1>3, <2>1
<1> HIDE DEF Goal
<1>10. Goal
  BY <1>4, <1>6, <1>7, <1>8, <1>9 DEF Next
<1> QED BY <1>10 DEF Goal

\* Initial states map to initial states.
LEMMA InitIsQueue ==
  ASSUME Init, NEW c \in Clients
  PROVE  Queue(c)!Init
<1>1. queue[c] = <<>> /\ dropped[c] = 0 /\ offered[c] = 0
  BY DEF Init
<1>2. Numbered(<<>>, joined[c]) = <<>>
  BY DEF Numbered
<1> QED BY <1>1, <1>2, AbstractQueue

(* The refinement: for each client, BroadcastManager implements the        *)
(* bounded queue that loses its oldest events, and counts them, whatever   *)
(* the other clients and their sockets do.                                 *)
THEOREM ImplementsQueues == Spec => ClientsAreQueues
<1>1. Init => \A c \in Clients : Queue(c)!Init
  BY InitIsQueue
<1>2. IInv /\ [Next]_vars =>
        [\A c \in Clients : Queue(c)!BurstNext \/ UNCHANGED Queue(c)!vars]_vars
  BY StepIsQueue
<1> QED BY <1>1, <1>2, Invariance, PTL DEF Spec, ClientsAreQueues
=============================================================================
