----------------------- MODULE TelemetryStreamProofs -----------------------
(***************************************************************************)
(* Proofs about TelemetryStream for any threads, calls, buffer size and    *)
(* number of events: no item is lost or counted twice, and the events of   *)
(* the event loop keep their order.                                        *)
(*                                                                         *)
(* InOrder is the inductive invariant of the order: the three parts of the *)
(* line are sorted and follow each other, and while the loop puts its own  *)
(* events into the queue the buffer holds none of them.                    *)
(***************************************************************************)
EXTENDS TelemetryStream, SequenceTheorems, TLAPS

----------------------------------------------------------------------------
(* The buffers.                                                            *)

\* What an item may be, and what it may not.
LEMMA ItemFacts ==
  /\ Items = Event \cup {Sentinel}
  /\ Sentinel \in Items /\ Sentinel \notin Event
  /\ Nothing \notin Items
  BY TelemetryAssumption DEF Items, Event, Sentinel, Nothing, Emitters

\* An event an emitter is about to emit.
LEMMA NewEvent ==
  ASSUME TypeOK, Passes, NEW e \in Emitters
  PROVE  NextEvent(e) \in Event /\ emitted + 1 \in 0..MaxEvents
  BY TelemetryAssumption DEF TypeOK, Passes, NextEvent, Event

\* A sequence gains its last element or loses its first.
LEMMA Appended ==
  ASSUME NEW S, NEW s \in Seq(S), NEW e \in S
  PROVE  Append(s, e) \in Seq(S) /\ Len(Append(s, e)) = Len(s) + 1
  OBVIOUS

\* The head leaves a sequence.
LEMMA Shortened ==
  ASSUME NEW S, NEW s \in Seq(S), s # <<>>
  PROVE  Head(s) \in S /\ Tail(s) \in Seq(S) /\ Len(Tail(s)) = Len(s) - 1
  BY HeadTailProperties

\* The buffers have lengths.
LEMMA Lengths ==
  ASSUME TypeOK
  PROVE  Len(pre) \in Nat /\ Len(queue) \in Nat /\ Len(callbacks) \in Nat
  BY LenProperties DEF TypeOK

\* An item handed to the queue is in it or is counted.
LEMMA Enqueued ==
  ASSUME TypeOK, NEW item \in Items, Enqueue(item)
  PROVE  /\ queue' \in Seq(Items) /\ Len(queue') <= MaxBuffer
         /\ dropped_count' \in Nat
         /\ muted' \in BOOLEAN
         /\ Len(queue') + dropped_count' = Len(queue) + dropped_count + 1
  <1>1. queue \in Seq(Items) /\ Len(queue) \in Nat /\ Len(queue) <= MaxBuffer
          /\ dropped_count \in Nat /\ MaxBuffer \in Nat
    BY Lengths, TelemetryAssumption DEF TypeOK
  <1>2. muted' \in BOOLEAN BY DEF TypeOK, Enqueue
  <1>3. CASE Len(queue) < MaxBuffer
    <2>1. queue' = Append(queue, item) /\ dropped_count' = dropped_count
      BY <1>3 DEF Enqueue
    <2>2. queue' \in Seq(Items) /\ Len(queue') = Len(queue) + 1
      BY <1>1, <2>1, Appended
    <2>. QED BY <1>1, <1>2, <1>3, <2>1, <2>2
  <1>4. CASE ~(Len(queue) < MaxBuffer)
    <2>1. queue' = queue /\ dropped_count' = dropped_count + 1
      BY <1>4 DEF Enqueue
    <2>. QED BY <1>1, <1>2, <2>1
  <1>. QED BY <1>3, <1>4

\* An event emitted without a stream is in the buffer, counted, or no event of it.
LEMMA Prebuffered ==
  ASSUME TypeOK, NEW event \in Event, EnqueuePreStream(event)
  PROVE  /\ pre' \in Seq(Event) /\ Len(pre') <= MaxBuffer
         /\ dropped_count' \in Nat /\ entered' \in Nat
         /\ Len(pre') + dropped_count' + entered = Len(pre) + dropped_count + entered'
  <1>1. pre \in Seq(Event) /\ Len(pre) \in Nat /\ Len(pre) <= MaxBuffer
          /\ dropped_count \in Nat /\ entered \in Nat /\ MaxBuffer \in Nat
          /\ closed \in BOOLEAN
    BY Lengths, TelemetryAssumption DEF TypeOK
  <1>2. CASE closed
    <2>1. pre' = pre /\ dropped_count' = dropped_count /\ entered' = entered
      BY <1>2 DEF EnqueuePreStream
    <2>. QED BY <1>1, <2>1
  <1>3. CASE ~closed /\ Len(pre) < MaxBuffer
    <2>1. /\ pre' = Append(pre, event) /\ dropped_count' = dropped_count
          /\ entered' = entered + 1
      BY <1>1, <1>3 DEF EnqueuePreStream
    <2>2. pre' \in Seq(Event) /\ Len(pre') = Len(pre) + 1
      BY <1>1, <2>1, Appended
    <2>. QED BY <1>1, <1>3, <2>1, <2>2
  <1>4. CASE ~closed /\ ~(Len(pre) < MaxBuffer)
    <2>1. /\ pre' = pre /\ dropped_count' = dropped_count + 1
          /\ entered' = entered + 1
      BY <1>1, <1>4 DEF EnqueuePreStream
    <2>. QED BY <1>1, <2>1
  <1>. QED BY <1>2, <1>3, <1>4

\* What the flush moves: the events, and the sentinel of a closed stream.
LEMMA Flushed ==
  ASSUME TypeOK
  PROVE  /\ ToFlush \in Seq(Items) /\ Len(ToFlush) \in Nat
         /\ Len(ToFlush) >= Len(pre)
         /\ Fits \in Nat /\ Fits <= Len(ToFlush) /\ Fits <= MaxBuffer - Len(queue)
         /\ queue \o SubSeq(ToFlush, 1, Fits) \in Seq(Items)
         /\ Len(queue \o SubSeq(ToFlush, 1, Fits)) = Len(queue) + Fits
  <1>1. /\ pre \in Seq(Items) /\ queue \in Seq(Items)
        /\ Len(pre) \in Nat /\ Len(queue) \in Nat
        /\ Len(queue) <= MaxBuffer /\ MaxBuffer \in Nat
    BY Lengths, SeqMonotonic, ItemFacts, TelemetryAssumption DEF TypeOK
  <1>2. ToFlush \in Seq(Items) /\ Len(ToFlush) >= Len(pre) /\ Len(ToFlush) \in Nat
    <2>1. CASE closed
      <3>1. <<Sentinel>> \in Seq(Items) /\ Len(<<Sentinel>>) = 1 BY ItemFacts
      <3>2. ToFlush = pre \o <<Sentinel>> BY <2>1 DEF ToFlush
      <3>. QED BY <1>1, <3>1, <3>2, ConcatProperties
    <2>2. CASE ~closed
      <3>1. ToFlush = pre \o <<>> BY <2>2 DEF ToFlush
      <3>. QED BY <1>1, <3>1, ConcatEmptySeq
    <2>. QED BY <2>1, <2>2
  <1>3. Fits \in Nat /\ Fits <= Len(ToFlush) /\ Fits <= MaxBuffer - Len(queue)
    BY <1>1, <1>2 DEF Fits, Room
  <1>4. SubSeq(ToFlush, 1, Fits) \in Seq(Items)
          /\ Len(SubSeq(ToFlush, 1, Fits)) = Fits
    <2>1. \A i \in 1..Fits : ToFlush[i] \in Items
      BY <1>2, <1>3, ElementOfSeq
    <2>2. 1 \in Int /\ Fits \in Int BY <1>3
    <2>3. /\ SubSeq(ToFlush, 1, Fits) \in Seq(Items)
          /\ Len(SubSeq(ToFlush, 1, Fits)) = IF 1 <= Fits THEN Fits - 1 + 1 ELSE 0
      BY <2>1, <2>2, SubSeqProperties
    <2>. QED BY <1>3, <2>3
  <1>5. /\ queue \o SubSeq(ToFlush, 1, Fits) \in Seq(Items)
        /\ Len(queue \o SubSeq(ToFlush, 1, Fits))
             = Len(queue) + Len(SubSeq(ToFlush, 1, Fits))
    BY <1>1, <1>4, ConcatProperties
  <1>6. Len(queue \o SubSeq(ToFlush, 1, Fits)) = Len(queue) + Fits
    BY <1>4, <1>5
  <1>. QED BY <1>2, <1>3, <1>5, <1>6

----------------------------------------------------------------------------
(* The steps.                                                              *)

\* The part of TypeOK that no item is about.
Flags ==
  /\ attached \in BOOLEAN /\ closed \in BOOLEAN /\ alive \in BOOLEAN
  /\ open_gate \in BOOLEAN /\ muted \in BOOLEAN /\ shared \in BOOLEAN
  /\ rpc \in [Streams -> {"idle", "attaching", "waiting", "yielding", "closing",
                          "ended"}]

\* The rest of it.
Contents ==
  /\ pre \in Seq(Event) /\ Len(pre) <= MaxBuffer
  /\ callbacks \in Seq(Items)
  /\ queue \in Seq(Items) /\ Len(queue) <= MaxBuffer
  /\ dropped_count \in Nat /\ entered \in Nat /\ left \in Nat
  /\ emitted \in 0..MaxEvents
  /\ inHand \in [Threads -> [item : Items \cup {Nothing}, saw : BOOLEAN]]
  /\ taken \in Seq(Event)

\* The invariant is what no item is about and what the items are.
LEMMA TypeParts == TypeOK <=> Flags /\ Contents
  BY DEF TypeOK, Flags, Contents

\* Every step keeps the flags.
LEMMA FlagsStep ==
  ASSUME TypeOK, [Next]_vars
  PROVE  Flags'
  <1>. USE TypeParts
  <1>1. ASSUME LoopEmits \/ RunCallback \/ LoopCloses \/ LoopEnds PROVE Flags'
    BY <1>1, Zenon DEF Flags, LoopEmits, RunCallback, LoopCloses, LoopEnds, Enqueue, ghosts
  <1>2. ASSUME NEW t \in Threads, ThreadReadsLoop(t) \/ HandOver(t) \/ ThreadCloses(t)
        PROVE  Flags'
    BY <1>2, Zenon DEF Flags, ThreadReadsLoop, HandOver, ThreadBuffers, ThreadPosts,
                       ThreadCloses, ghosts
  <1>3. ASSUME NEW s \in Streams,
               Attach(s) \/ StreamStep(s) \/ Cancel(s) \/ HandleControl(s)
        PROVE  Flags'
    <2>1. rpc' \in [Streams -> {"idle", "attaching", "waiting", "yielding", "closing",
                               "ended"}]
      BY <1>3 DEF Flags, Attach, StreamStep, Cancel, HandleControl, Flush, TakeEvent,
                  TakeSentinel, Sent, Detach
    <2>2. /\ attached' \in BOOLEAN /\ closed' \in BOOLEAN /\ alive' \in BOOLEAN
          /\ open_gate' \in BOOLEAN /\ muted' \in BOOLEAN /\ shared' \in BOOLEAN
      BY <1>3, Zenon DEF Flags, Attach, StreamStep, Cancel, HandleControl, Flush,
                         TakeEvent, TakeSentinel, Sent, Detach, ghosts
    <2>. QED BY <2>1, <2>2 DEF Flags
  <1>4. CASE UNCHANGED vars BY <1>4 DEF Flags, vars, ghosts
  <1>. QED BY <1>1, <1>2, <1>3, <1>4 DEF Next

\* Where everything that was handed over is.
Sum == Len(pre) + Len(callbacks) + Len(queue) + left + dropped_count

\* The balance of a step that changes two of the places and the sum.
LEMMA Balance ==
  ASSUME NEW p \in Nat, NEW p2 \in Nat, NEW d \in Nat, NEW d2 \in Nat,
         NEW e \in Nat, NEW e2 \in Nat, NEW c \in Nat, NEW q \in Nat, NEW l \in Nat,
         e = p + c + q + l + d, p2 + d2 + e = p + d + e2
  PROVE  e2 = p2 + c + q + l + d2
  OBVIOUS

\* The balance of an item that enters the queue, or is counted as dropped there: one
\* that is new, or one that a callback brought.
LEMMA QueueBalance ==
  ASSUME NEW p \in Nat, NEW c \in Nat, NEW q \in Nat, NEW l \in Nat, NEW d \in Nat,
         NEW q2 \in Nat, NEW d2 \in Nat, NEW e \in Nat,
         e = p + c + q + l + d, q2 + d2 = q + d + 1
  PROVE  /\ e + 1 = p + c + q2 + l + d2
         /\ e = p + (c - 1) + q2 + l + d2
  OBVIOUS

\* Every step keeps the contents typed and the sum exact.
LEMMA ContentsStep ==
  ASSUME Accounted, [Next]_vars
  PROVE  Contents' /\ entered' = Sum'
  <1>. TypeOK /\ Contents /\ entered = Sum BY TypeParts DEF Accounted, Sum
  <1>c. Len(pre) \in Nat /\ Len(queue) \in Nat /\ Len(callbacks) \in Nat
    BY Lengths
  <1>. USE <1>c
  <1>a. left \in Nat /\ entered \in Nat /\ dropped_count \in Nat BY DEF Contents
  <1>b. entered = Len(pre) + Len(callbacks) + Len(queue) + left + dropped_count
    BY DEF Sum
  <1>. DEFINE Hands == [Threads -> [item : Items \cup {Nothing}, saw : BOOLEAN]]
  <1>0. ASSUME NEW t \in Threads, Empty(t) PROVE inHand' \in Hands
    BY <1>0 DEF Empty, Contents
  <1>1. CASE LoopEmits
    <2>1. NextEvent(LoopThread) \in Event /\ NextEvent(LoopThread) \in Items
            /\ emitted' \in 0..MaxEvents
      BY <1>1, NewEvent, ItemFacts DEF LoopEmits, Emitters
    <2>2. UNCHANGED <<callbacks, inHand, taken, left>> BY <1>1 DEF LoopEmits
    <2>3. CASE attached
      <3>1. Enqueue(NextEvent(LoopThread)) /\ entered' = entered + 1 /\ pre' = pre
        BY <1>1, <2>3 DEF LoopEmits
      <3>2. /\ queue' \in Seq(Items) /\ Len(queue') <= MaxBuffer /\ dropped_count' \in Nat
            /\ Len(queue') + dropped_count' = Len(queue) + dropped_count + 1
            /\ Len(queue') \in Nat
        BY <2>1, <3>1, Enqueued, LenProperties
      <3>3. Contents' BY <1>a, <2>1, <2>2, <3>1, <3>2 DEF Contents
      <3>4. entered + 1 = Len(pre) + Len(callbacks) + Len(queue') + left + dropped_count'
        BY <1>a, <1>b, <1>c, <3>2, QueueBalance
      <3>5. Sum' = Len(pre) + Len(callbacks) + Len(queue') + left + dropped_count'
        BY <2>2, <3>1 DEF Sum
      <3>. QED BY <3>1, <3>3, <3>4, <3>5
    <2>4. CASE ~attached
      <3>1. EnqueuePreStream(NextEvent(LoopThread)) /\ queue' = queue
        BY <1>1, <2>4 DEF LoopEmits
      <3>2. /\ pre' \in Seq(Event) /\ Len(pre') <= MaxBuffer /\ Len(pre') \in Nat
            /\ dropped_count' \in Nat /\ entered' \in Nat
            /\ Len(pre') + dropped_count' + entered = Len(pre) + dropped_count + entered'
        BY <2>1, <3>1, Prebuffered, LenProperties
      <3>3. Contents' BY <2>1, <2>2, <3>1, <3>2 DEF Contents
      <3>4. Sum' = Len(pre') + Len(callbacks) + Len(queue) + left + dropped_count'
        BY <2>2, <3>1 DEF Sum
      <3>6. /\ Len(pre') \in Nat /\ dropped_count' \in Nat /\ entered' \in Nat
            /\ Len(pre') + dropped_count' + entered = Len(pre) + dropped_count + entered'
        BY <3>2
      <3>5. entered' = Len(pre') + Len(callbacks) + Len(queue) + left + dropped_count'
        BY <1>a, <1>b, <1>c, <3>6, Balance, SMTT(60)
      <3>. QED BY <3>3, <3>4, <3>5
    <2>. QED BY <2>3, <2>4
  <1>2. CASE RunCallback
    <2>1. /\ Head(callbacks) \in Items /\ callbacks' \in Seq(Items)
          /\ Len(callbacks') = Len(callbacks) - 1
      BY <1>2, Shortened DEF RunCallback, Contents
    <2>2. Enqueue(Head(callbacks)) BY <1>2 DEF RunCallback
    <2>3. UNCHANGED <<pre, entered, emitted, inHand, taken, left>>
      BY <1>2 DEF RunCallback
    <2>4. /\ queue' \in Seq(Items) /\ Len(queue') <= MaxBuffer /\ Len(queue') \in Nat
          /\ dropped_count' \in Nat
          /\ Len(queue') + dropped_count' = Len(queue) + dropped_count + 1
      BY <2>1, <2>2, Enqueued, LenProperties
    <2>5. Contents' BY <2>1, <2>3, <2>4 DEF Contents
    <2>6. entered = Len(pre) + (Len(callbacks) - 1) + Len(queue') + left + dropped_count'
      BY <1>a, <1>b, <1>c, <2>4, QueueBalance
    <2>7. entered' = Sum' BY <2>1, <2>3, <2>6 DEF Sum
    <2>. QED BY <2>5, <2>7
  <1>3. CASE LoopCloses
    <2>1. UNCHANGED <<pre, callbacks, emitted, inHand, taken, left>>
      BY <1>3 DEF LoopCloses
    <2>2. CASE attached
      <3>1. Enqueue(Sentinel) /\ entered' = entered + 1
        BY <1>3, <2>2 DEF LoopCloses
      <3>2. /\ queue' \in Seq(Items) /\ Len(queue') <= MaxBuffer /\ dropped_count' \in Nat
            /\ Len(queue') + dropped_count' = Len(queue) + dropped_count + 1
            /\ Len(queue') \in Nat
        BY <3>1, Enqueued, ItemFacts, LenProperties
      <3>3. Contents' BY <1>a, <2>1, <3>1, <3>2 DEF Contents
      <3>4. entered + 1 = Len(pre) + Len(callbacks) + Len(queue') + left + dropped_count'
        BY <1>a, <1>b, <1>c, <3>2, QueueBalance
      <3>5. Sum' = Len(pre) + Len(callbacks) + Len(queue') + left + dropped_count'
        BY <2>1 DEF Sum
      <3>6. entered' = entered + 1 BY <3>1
      <3>. QED BY <3>3, <3>4, <3>5, <3>6
    <2>3. CASE ~attached
      <3>1. UNCHANGED <<queue, dropped_count, entered>>
        BY <1>3, <2>3 DEF LoopCloses
      <3>. QED BY <2>1, <3>1 DEF Contents, Sum
    <2>. QED BY <2>2, <2>3
  <1>4. CASE LoopEnds
    BY <1>4 DEF LoopEnds, buffers, Contents, Sum
  <1>5. ASSUME NEW t \in Threads, ThreadReadsLoop(t)
        PROVE  Contents' /\ entered' = Sum'
    <2>1. NextEvent(t) \in Items /\ emitted' \in 0..MaxEvents
      BY <1>5, NewEvent, ItemFacts DEF ThreadReadsLoop, Emitters
    <2>2. inHand' \in Hands
      BY <1>5, <2>1 DEF ThreadReadsLoop, Contents, TypeOK
    <2>. QED BY <1>5, <2>1, <2>2 DEF ThreadReadsLoop, buffers, Contents, Sum
  <1>6. ASSUME NEW t \in Threads, ThreadBuffers(t)
        PROVE  Contents' /\ entered' = Sum'
    <2>1. inHand[t].item \in Event /\ EnqueuePreStream(inHand[t].item)
      BY <1>6 DEF ThreadBuffers
    <2>2. inHand' \in Hands BY <1>0, <1>6 DEF ThreadBuffers
    <2>3. UNCHANGED <<callbacks, queue, emitted, taken, left>>
      BY <1>6 DEF ThreadBuffers
    <2>4. /\ pre' \in Seq(Event) /\ Len(pre') <= MaxBuffer /\ Len(pre') \in Nat
          /\ dropped_count' \in Nat /\ entered' \in Nat
          /\ Len(pre') + dropped_count' + entered = Len(pre) + dropped_count + entered'
      BY <2>1, Prebuffered, LenProperties
    <2>5. Contents' BY <2>2, <2>3, <2>4 DEF Contents
    <2>6. Sum' = Len(pre') + Len(callbacks) + Len(queue) + left + dropped_count'
      BY <2>3 DEF Sum
    <2>8. /\ Len(pre') \in Nat /\ dropped_count' \in Nat /\ entered' \in Nat
          /\ Len(pre') + dropped_count' + entered = Len(pre) + dropped_count + entered'
      BY <2>4
    <2>7. entered' = Len(pre') + Len(callbacks) + Len(queue) + left + dropped_count'
      BY <1>a, <1>b, <1>c, <2>8, Balance, SMTT(60)
    <2>. QED BY <2>5, <2>6, <2>7
  <1>7. ASSUME NEW t \in Threads, ThreadPosts(t)
        PROVE  Contents' /\ entered' = Sum'
    <2>1. inHand[t].item \in Items BY <1>7 DEF ThreadPosts, Contents
    <2>2. inHand' \in Hands BY <1>0, <1>7 DEF ThreadPosts
    <2>3. UNCHANGED <<pre, queue, emitted, taken, left>> BY <1>7 DEF ThreadPosts
    <2>4. CASE alive
      <3>1. /\ callbacks' = Append(callbacks, inHand[t].item)
            /\ dropped_count' = dropped_count /\ entered' = entered + 1
        BY <1>7, <2>4 DEF ThreadPosts
      <3>2. callbacks' \in Seq(Items) /\ Len(callbacks') = Len(callbacks) + 1
        BY <2>1, <3>1, Appended DEF Contents
      <3>. QED BY <2>2, <2>3, <3>1, <3>2 DEF Contents, Sum
    <2>5. CASE ~alive /\ inHand[t].item = Sentinel
      <3>1. UNCHANGED <<callbacks, dropped_count, entered>>
        BY <1>7, <2>5 DEF ThreadPosts
      <3>. QED BY <2>2, <2>3, <3>1 DEF Contents, Sum
    <2>6. CASE ~alive /\ inHand[t].item # Sentinel
      <3>1. /\ callbacks' = callbacks /\ dropped_count' = dropped_count + 1
            /\ entered' = entered + 1
        BY <1>7, <2>6 DEF ThreadPosts
      <3>. QED BY <2>2, <2>3, <3>1 DEF Contents, Sum
    <2>. QED BY <2>4, <2>5, <2>6
  <1>8. ASSUME NEW t \in Threads, ThreadCloses(t)
        PROVE  Contents' /\ entered' = Sum'
    <2>1. inHand' \in Hands
      BY <1>8, ItemFacts DEF ThreadCloses, Contents
    <2>. QED BY <1>8, <2>1 DEF ThreadCloses, buffers, Contents, Sum
  <1>9. ASSUME NEW s \in Streams, Flush(s)
        PROVE  Contents' /\ entered' = Sum'
    <2>1. /\ pre' = <<>> /\ queue' = queue \o SubSeq(ToFlush, 1, Fits)
          /\ dropped_count' = dropped_count + (Len(ToFlush) - Fits)
          /\ entered' = entered + (Len(ToFlush) - Len(pre))
          /\ UNCHANGED <<callbacks, emitted, inHand, taken, left>>
      BY <1>9 DEF Flush
    <2>2. pre' \in Seq(Event) /\ Len(pre') = 0 BY <2>1, EmptySeq
    <2>3. MaxBuffer \in Nat BY TelemetryAssumption
    <2>4. /\ queue' \in Seq(Items) /\ Len(queue') = Len(queue) + Fits
          /\ Fits \in Nat /\ Fits <= MaxBuffer - Len(queue)
          /\ Len(ToFlush) \in Nat /\ Len(ToFlush) >= Len(pre)
          /\ Fits <= Len(ToFlush)
      BY <2>1, Flushed
    <2>8. PICK dropped \in Nat : Len(ToFlush) = Fits + dropped
      <3>1. Len(ToFlush) - Fits \in Nat
              /\ Len(ToFlush) = Fits + (Len(ToFlush) - Fits)
        BY <2>4
      <3>. QED BY <3>1
    <2>9. PICK added \in Nat : Len(ToFlush) = Len(pre) + added
      <3>1. Len(ToFlush) - Len(pre) \in Nat
              /\ Len(ToFlush) = Len(pre) + (Len(ToFlush) - Len(pre))
        BY <2>4
      <3>. QED BY <3>1
    <2>10. dropped_count' = dropped_count + dropped /\ entered' = entered + added
      <3>1. Len(ToFlush) - Fits = dropped /\ Len(ToFlush) - Len(pre) = added
        BY <2>4, <2>8, <2>9
      <3>. QED BY <2>1, <3>1
    <2>5. Contents' BY <1>a, <2>1, <2>2, <2>3, <2>4, <2>10 DEF Contents
    <2>6. Sum' = Len(callbacks) + Len(queue') + left + dropped_count'
      BY <1>a, <2>1, <2>2, <2>4 DEF Sum
    <2>7. entered' = Sum' BY <1>a, <1>b, <2>4, <2>6, <2>8, <2>9, <2>10
    <2>. QED BY <2>5, <2>7
  <1>10. ASSUME NEW s \in Streams, TakeEvent(s)
         PROVE  Contents' /\ entered' = Sum'
    <2>1. /\ Head(queue) \in Items /\ queue' \in Seq(Items)
          /\ Len(queue') = Len(queue) - 1 /\ left' = left + 1
      BY <1>10, Shortened DEF TakeEvent, Contents
    <2>2. taken' \in Seq(Event)
      BY <1>10, <2>1, ItemFacts, Appended DEF TakeEvent, Contents
    <2>3. UNCHANGED <<pre, callbacks, dropped_count, entered, emitted, inHand>>
      BY <1>10 DEF TakeEvent
    <2>. QED BY <2>1, <2>2, <2>3, TelemetryAssumption DEF Contents, Sum
  <1>11. ASSUME NEW s \in Streams, TakeSentinel(s)
         PROVE  Contents' /\ entered' = Sum'
    <2>1. /\ queue' \in Seq(Items) /\ Len(queue') = Len(queue) - 1
          /\ left' = left + 1
      BY <1>11, Shortened DEF TakeSentinel, Contents
    <2>2. UNCHANGED <<pre, callbacks, dropped_count, entered, emitted, inHand, taken>>
      BY <1>11 DEF TakeSentinel
    <2>. QED BY <2>1, <2>2, TelemetryAssumption DEF Contents, Sum
  <1>12. ASSUME NEW s \in Streams,
                Attach(s) \/ Sent(s) \/ Detach(s) \/ Cancel(s) \/ HandleControl(s)
         PROVE  Contents' /\ entered' = Sum'
    <2>1. UNCHANGED <<buffers, emitted, inHand, taken, left>>
      BY <1>12 DEF Attach, Sent, Detach, Cancel, HandleControl
    <2>. QED BY <2>1 DEF buffers, Contents, Sum
  <1>13. CASE UNCHANGED vars
    BY <1>13 DEF vars, buffers, Contents, Sum
  <1>. QED
    BY <1>1, <1>2, <1>3, <1>4, <1>5, <1>6, <1>7, <1>8, <1>9, <1>10, <1>11, <1>12,
       <1>13 DEF Next, HandOver, StreamStep

----------------------------------------------------------------------------

\* Nothing has been emitted.
LEMMA AccountedInit == Init => Accounted
  <1>. SUFFICES ASSUME Init PROVE Accounted
    OBVIOUS
  <1>1. TypeOK
    <2>1. Flags BY DEF Init, Flags
    <2>2. Contents
      BY TelemetryAssumption, EmptySeq DEF Init, Contents
    <2>. QED BY <2>1, <2>2, TypeParts
  <1>2. entered = Sum BY EmptySeq DEF Init, Sum
  <1>. QED BY <1>1, <1>2 DEF Accounted, Sum

\* Every step accounts for what it moves.
LEMMA AccountedStep == Accounted /\ [Next]_vars => Accounted'
  <1>. SUFFICES ASSUME Accounted, [Next]_vars PROVE Accounted'
    OBVIOUS
  <1>1. TypeOK BY DEF Accounted
  <1>2. Flags' /\ Contents' /\ entered' = Sum' BY <1>1, FlagsStep, ContentsStep
  <1>3. TypeOK' BY <1>2 DEF TypeOK, Flags, Contents
  <1>. QED BY <1>2, <1>3 DEF Accounted, Sum

\* Whatever threads, calls, flushes, full buffers and a closed loop do, each item
\* handed to the stream is in a buffer, was taken, or is in dropped_count.
THEOREM EveryEventAccounted == Spec => []Accounted
  BY AccountedInit, AccountedStep, PTL DEF Spec

----------------------------------------------------------------------------
(* The order of the events of the loop, in any sequences.                  *)

Members(s) == {s[i] : i \in DOMAIN s}

\* Those of A come before those of B.
Before(A, B) ==
  \A a \in A, b \in B : OfLoop(a) /\ OfLoop(b) => a.n < b.n

Sorted(s) ==
  \A i, j \in DOMAIN s : i < j /\ OfLoop(s[i]) /\ OfLoop(s[j]) => s[i].n < s[j].n

\* What a sequence holds once it is longer.
LEMMA MembersAppend ==
  ASSUME NEW s \in Seq(Items), NEW e \in Items
  PROVE  Members(Append(s, e)) = Members(s) \cup {e}
  <1> DEFINE t == Append(s, e)
  <1>1. /\ Len(t) = Len(s) + 1 /\ Len(s) \in Nat
        /\ \A i \in 1..Len(s) : t[i] = s[i]
        /\ t[Len(s) + 1] = e
        /\ DOMAIN t = 1..(Len(s) + 1) /\ DOMAIN s = 1..Len(s)
    BY AppendProperties
  <1>. HIDE DEF t
  <1>2. \A i \in 1..(Len(s) + 1) : i \in 1..Len(s) \/ i = Len(s) + 1 BY <1>1
  <1>3. Len(s) + 1 \in 1..(Len(s) + 1) /\ 1..Len(s) \subseteq 1..(Len(s) + 1) BY <1>1
  <1>4. Members(t) = Members(s) \cup {e} BY <1>1, <1>2, <1>3 DEF Members
  <1>. QED BY <1>4 DEF t

\* An item at the end of a sequence comes after those before it.
LEMMA SortedAppend ==
  ASSUME NEW s \in Seq(Items), NEW e \in Items, Sorted(s), Before(Members(s), {e})
  PROVE  Sorted(Append(s, e)) /\ Members(Append(s, e)) = Members(s) \cup {e}
  <1> DEFINE t == Append(s, e)
  <1>1. /\ Len(t) = Len(s) + 1 /\ Len(s) \in Nat
        /\ \A i \in 1..Len(s) : t[i] = s[i]
        /\ t[Len(s) + 1] = e
        /\ DOMAIN t = 1..(Len(s) + 1) /\ DOMAIN s = 1..Len(s)
    BY AppendProperties
  <1>. HIDE DEF t
  <1>2. Members(t) = Members(s) \cup {e} BY MembersAppend DEF t
  <1>3. ASSUME NEW i \in DOMAIN t, NEW j \in DOMAIN t, i < j, OfLoop(t[i]), OfLoop(t[j])
        PROVE  t[i].n < t[j].n
    <2>1. i \in 1..Len(s) /\ t[i] = s[i] BY <1>1, <1>3
    <2>2. CASE j \in 1..Len(s) BY <1>1, <1>3, <2>1, <2>2 DEF Sorted
    <2>3. CASE j = Len(s) + 1
      <3>1. t[j] = e /\ s[i] \in Members(s) BY <1>1, <2>1, <2>3 DEF Members
      <3>. QED BY <1>3, <2>1, <3>1 DEF Before
    <2>. QED BY <1>1, <2>2, <2>3
  <1>4. Sorted(t) BY <1>3 DEF Sorted
  <1>. QED BY <1>2, <1>4 DEF t

\* The head of a sequence comes before the rest.
LEMMA SortedTail ==
  ASSUME NEW s \in Seq(Items), s # <<>>, Sorted(s)
  PROVE  /\ Sorted(Tail(s)) /\ Before({Head(s)}, Members(Tail(s)))
         /\ Head(s) \in Members(s) /\ Members(Tail(s)) \subseteq Members(s)
  <1> DEFINE t == Tail(s)
  <1>1. /\ Len(s) \in Nat /\ Len(s) > 0 /\ Len(t) = Len(s) - 1 /\ Head(s) = s[1]
        /\ DOMAIN s = 1..Len(s) /\ DOMAIN t = 1..Len(t)
        /\ \A i \in 1..Len(t) : t[i] = s[i + 1]
    BY HeadTailProperties
  <1>. HIDE DEF t
  <1>2. \A i \in DOMAIN t : i + 1 \in DOMAIN s /\ 1 < i + 1 /\ t[i] = s[i + 1]
    BY <1>1
  <1>3. 1 \in DOMAIN s BY <1>1
  <1>4. Members(t) \subseteq Members(s) BY <1>2 DEF Members
  <1>5. Head(s) \in Members(s) BY <1>1, <1>3 DEF Members
  <1>6. Before({Head(s)}, Members(t))
    <2>1. ASSUME NEW b \in Members(t), OfLoop(s[1]), OfLoop(b) PROVE s[1].n < b.n
      <3>1. PICK i \in DOMAIN t : b = t[i] BY DEF Members
      <3>. QED BY <1>2, <1>3, <2>1, <3>1 DEF Sorted
    <2>. QED BY <1>1, <2>1 DEF Before
  <1>7. Sorted(t)
    <2>1. ASSUME NEW i \in DOMAIN t, NEW j \in DOMAIN t, i < j, OfLoop(t[i]), OfLoop(t[j])
          PROVE  t[i].n < t[j].n
      <3>1. i + 1 < j + 1 BY <1>1, <2>1
      <3>. QED BY <1>2, <2>1, <3>1 DEF Sorted
    <2>. QED BY <2>1 DEF Sorted
  <1>. QED BY <1>4, <1>5, <1>6, <1>7 DEF t

\* The first items of a sequence are in the order of the sequence.
LEMMA SortedFirst ==
  ASSUME NEW s \in Seq(Items), Sorted(s), NEW n \in Nat, n <= Len(s)
  PROVE  /\ SubSeq(s, 1, n) \in Seq(Items) /\ Sorted(SubSeq(s, 1, n))
         /\ Members(SubSeq(s, 1, n)) \subseteq Members(s)
  <1> DEFINE t == SubSeq(s, 1, n)
  <1>1. Len(s) \in Nat /\ DOMAIN s = 1..Len(s) /\ \A i \in 1..Len(s) : s[i] \in Items
    OBVIOUS
  <1>2. \A i \in 1..n : s[i] \in Items BY <1>1
  <1>3. 1 \in Int /\ n \in Int OBVIOUS
  <1>4. /\ t \in Seq(Items) /\ Len(t) = IF 1 <= n THEN n - 1 + 1 ELSE 0
        /\ \A i \in 1..(n - 1 + 1) : t[i] = s[1 + i - 1]
    BY <1>2, <1>3, SubSeqProperties
  <1>5. Len(t) = n BY <1>4
  <1>6. DOMAIN t = 1..n BY <1>4, <1>5
  <1>7. \A i \in 1..n : t[i] = s[i] BY <1>4
  <1>. HIDE DEF t
  <1>8. \A i \in DOMAIN t : i \in DOMAIN s /\ t[i] = s[i] BY <1>1, <1>6, <1>7
  <1>9. Sorted(t) /\ Members(t) \subseteq Members(s) BY <1>8 DEF Sorted, Members
  <1>. QED BY <1>4, <1>9 DEF t

\* One sequence after the other.
LEMMA SortedConcat ==
  ASSUME NEW s \in Seq(Items), NEW t \in Seq(Items), Sorted(s), Sorted(t),
         Before(Members(s), Members(t))
  PROVE  /\ s \o t \in Seq(Items) /\ Sorted(s \o t)
         /\ Members(s \o t) = Members(s) \cup Members(t)
  <1> DEFINE u == s \o t
  <1>1. /\ u \in Seq(Items) /\ Len(u) = Len(s) + Len(t)
        /\ \A i \in 1..(Len(s) + Len(t)) :
             u[i] = IF i <= Len(s) THEN s[i] ELSE t[i - Len(s)]
    BY ConcatProperties
  <1>2. /\ Len(s) \in Nat /\ Len(t) \in Nat
        /\ DOMAIN s = 1..Len(s) /\ DOMAIN t = 1..Len(t)
    OBVIOUS
  <1>3. DOMAIN u = 1..(Len(s) + Len(t)) BY <1>1
  <1>. HIDE DEF u
  <1>4. \A i \in DOMAIN u : \/ i \in DOMAIN s /\ u[i] = s[i]
                            \/ i > Len(s) /\ i - Len(s) \in DOMAIN t /\ u[i] = t[i - Len(s)]
    BY <1>1, <1>2, <1>3
  <1>5. Members(u) \subseteq Members(s) \cup Members(t) BY <1>4 DEF Members
  <1>6. Members(s) \subseteq Members(u)
    <2>1. \A i \in DOMAIN s : i \in DOMAIN u /\ u[i] = s[i] BY <1>1, <1>2, <1>3
    <2>. QED BY <2>1 DEF Members
  <1>7. Members(t) \subseteq Members(u)
    <2>1. \A i \in DOMAIN t : i + Len(s) \in DOMAIN u /\ u[i + Len(s)] = t[i]
      BY <1>1, <1>2, <1>3
    <2>. QED BY <2>1 DEF Members
  <1>8. ASSUME NEW i \in DOMAIN u, NEW j \in DOMAIN u, i < j, OfLoop(u[i]), OfLoop(u[j])
        PROVE  u[i].n < u[j].n
    <2>1. CASE j \in DOMAIN s /\ u[j] = s[j]
      <3>1. i \in DOMAIN s /\ u[i] = s[i] BY <1>2, <1>3, <1>4, <1>8, <2>1
      <3>. QED BY <1>8, <2>1, <3>1 DEF Sorted
    <2>2. CASE /\ j > Len(s) /\ j - Len(s) \in DOMAIN t /\ u[j] = t[j - Len(s)]
               /\ i \in DOMAIN s /\ u[i] = s[i]
      <3>1. u[i] \in Members(s) /\ u[j] \in Members(t) BY <2>2 DEF Members
      <3>. QED BY <1>8, <3>1 DEF Before
    <2>3. CASE /\ j > Len(s) /\ j - Len(s) \in DOMAIN t /\ u[j] = t[j - Len(s)]
               /\ i > Len(s) /\ i - Len(s) \in DOMAIN t /\ u[i] = t[i - Len(s)]
      <3>1. i - Len(s) < j - Len(s) BY <1>2, <1>3, <1>8
      <3>. QED BY <1>8, <2>3, <3>1 DEF Sorted
    <2>. QED BY <1>4, <2>1, <2>2, <2>3
  <1>9. Sorted(u) BY <1>8 DEF Sorted
  <1>. QED BY <1>1, <1>5, <1>6, <1>7, <1>9 DEF u

----------------------------------------------------------------------------
(* The order of the events of the loop, in the stream.                     *)

NoneOfLoop(A) == \A a \in A : ~OfLoop(a)

\* The three parts of the line, each in order, one before the next; no event of the
\* loop is yet to be emitted.
InLine ==
  /\ Sorted(taken) /\ Sorted(queue) /\ Sorted(pre)
  /\ Before(Members(taken), Members(queue)) /\ Before(Members(taken), Members(pre))
  /\ Before(Members(queue), Members(pre))
  /\ \A a \in Members(taken) \cup Members(queue) \cup Members(pre) :
       OfLoop(a) => a.n <= emitted

\* What foreign threads have in hand, or have posted, is none of the loop's.
Foreign ==
  /\ NoneOfLoop(Members(callbacks))
  /\ \A t \in Threads : inHand[t].item # Nothing => ~OfLoop(inHand[t].item)

\* While the loop enqueues its events directly, the buffer holds none of them.
Direct == attached /\ (\A s \in Streams : rpc[s] # "attaching") => NoneOfLoop(Members(pre))

OneAttaching ==
  \A s, r \in Streams : rpc[s] = "attaching" /\ rpc[r] = "attaching" => s = r

InOrder == InLine /\ Foreign /\ Direct /\ OneAttaching

\* The items of the parts.
LEMMA Parts ==
  ASSUME TypeOK
  PROVE  /\ taken \in Seq(Items) /\ queue \in Seq(Items) /\ pre \in Seq(Items)
         /\ callbacks \in Seq(Items) /\ emitted \in Nat
  BY SeqMonotonic, ItemFacts, TelemetryAssumption DEF TypeOK

\* The numbers in the line.
LEMMA Numbered ==
  ASSUME TypeOK
  PROVE  \A a \in Members(taken) \cup Members(queue) \cup Members(pre) : a.n \in Nat
  <1>1. \A a \in Items : a.n \in Nat
    BY TelemetryAssumption DEF Items, Event, Sentinel
  <1>2. /\ Members(taken) \subseteq Items /\ Members(queue) \subseteq Items
        /\ Members(pre) \subseteq Items
    BY Parts DEF Members
  <1>. QED BY <1>1, <1>2

\* The sentinel, and what a thread emits, is no event of the loop.
LEMMA Foreigners ==
  /\ ~OfLoop(Sentinel)
  /\ \A t \in Threads : ~OfLoop(NextEvent(t))
  BY TelemetryAssumption DEF OfLoop, Sentinel, NextEvent

\* An item that enters the queue: one that is none of the loop's, or the loop's next
\* one while the buffer holds none.
LEMMA QueueGrows ==
  ASSUME TypeOK, InLine, NEW e \in Items, queue' = queue \/ queue' = Append(queue, e),
         UNCHANGED <<taken, pre>>, emitted' \in Nat, emitted' >= emitted,
         OfLoop(e) => NoneOfLoop(Members(pre)) /\ e.n = emitted' /\ emitted' = emitted + 1
  PROVE  InLine'
  <1>. USE Parts
  <1>1. CASE queue' = queue
    <2>1. \A a : OfLoop(a) /\ a.n <= emitted /\ a.n \in Nat => a.n <= emitted'
      OBVIOUS
    <2>2. \A a \in Members(taken) \cup Members(queue) \cup Members(pre) :
            OfLoop(a) => a.n \in Nat
      BY Numbered
    <2>. QED BY <1>1, <2>1, <2>2 DEF InLine
  <1>2. CASE queue' = Append(queue, e)
    <2>1. \A a \in Members(taken) \cup Members(queue) \cup Members(pre) :
            OfLoop(a) => a.n \in Nat /\ a.n <= emitted
      BY Numbered DEF InLine
    <2>2. Before(Members(queue), {e}) /\ Before(Members(taken), {e})
      BY <2>1 DEF Before
    <2>3. Sorted(queue') /\ Members(queue') = Members(queue) \cup {e}
      BY <1>2, <2>2, SortedAppend DEF InLine
    <2>4. Before({e}, Members(pre)) BY DEF Before, NoneOfLoop
    <2>5. Before(Members(taken), Members(queue')) BY <2>2, <2>3 DEF Before, InLine
    <2>6. Before(Members(queue'), Members(pre)) BY <2>3, <2>4 DEF Before, InLine
    <2>7. \A a \in Members(taken) \cup Members(queue') \cup Members(pre) :
            OfLoop(a) => a.n <= emitted'
      BY <2>1, <2>3
    <2>. QED BY <2>3, <2>5, <2>6, <2>7 DEF InLine
  <1>. QED BY <1>1, <1>2

\* An item that enters the buffer.
LEMMA BufferGrows ==
  ASSUME TypeOK, InLine, NEW e \in Items, pre' = pre \/ pre' = Append(pre, e),
         UNCHANGED <<taken, queue>>, emitted' \in Nat, emitted' >= emitted,
         OfLoop(e) => e.n = emitted' /\ emitted' = emitted + 1
  PROVE  InLine'
  <1>. USE Parts
  <1>1. \A a \in Members(taken) \cup Members(queue) \cup Members(pre) :
          OfLoop(a) => a.n \in Nat /\ a.n <= emitted
    BY Numbered DEF InLine
  <1>2. CASE pre' = pre
    <2>1. \A a \in Members(taken) \cup Members(queue) \cup Members(pre) :
            OfLoop(a) => a.n <= emitted'
      BY <1>1
    <2>. QED BY <1>2, <2>1 DEF InLine
  <1>3. CASE pre' = Append(pre, e)
    <2>1. /\ Before(Members(queue), {e}) /\ Before(Members(taken), {e})
          /\ Before(Members(pre), {e})
      BY <1>1 DEF Before
    <2>2. Sorted(pre') /\ Members(pre') = Members(pre) \cup {e}
      BY <1>3, <2>1, SortedAppend DEF InLine
    <2>3. /\ Before(Members(taken), Members(pre'))
          /\ Before(Members(queue), Members(pre'))
      BY <2>1, <2>2 DEF Before, InLine
    <2>4. \A a \in Members(taken) \cup Members(queue) \cup Members(pre') :
            OfLoop(a) => a.n <= emitted'
      BY <1>1, <2>2
    <2>. QED BY <2>2, <2>3, <2>4 DEF InLine
  <1>. QED BY <1>2, <1>3

\* The head of the queue leaves it, for what was taken if it is an event.
LEMMA QueueShrinks ==
  ASSUME TypeOK, InLine, queue # <<>>, queue' = Tail(queue), UNCHANGED <<pre, emitted>>,
         \/ taken' = Append(taken, Head(queue))
         \/ taken' = taken
  PROVE  InLine'
  <1>. USE Parts
  <1>1. /\ Sorted(Tail(queue)) /\ Before({Head(queue)}, Members(Tail(queue)))
        /\ Head(queue) \in Members(queue) /\ Members(Tail(queue)) \subseteq Members(queue)
        /\ Head(queue) \in Items
    BY SortedTail, HeadTailProperties DEF InLine
  <1>2. Before(Members(taken), {Head(queue)}) BY <1>1 DEF InLine, Before
  <1>3. Sorted(taken') /\ Members(taken') \subseteq Members(taken) \cup {Head(queue)}
    <2>1. /\ Sorted(Append(taken, Head(queue)))
          /\ Members(Append(taken, Head(queue))) = Members(taken) \cup {Head(queue)}
      BY <1>1, <1>2, SortedAppend DEF InLine
    <2>. QED BY <2>1 DEF InLine
  <1>4. Before(Members(taken'), Members(queue'))
    BY <1>1, <1>3 DEF InLine, Before
  <1>5. Before(Members(taken'), Members(pre)) /\ Before(Members(queue'), Members(pre))
    BY <1>1, <1>3 DEF InLine, Before
  <1>6. \A a \in Members(taken') \cup Members(queue') \cup Members(pre) :
          OfLoop(a) => a.n <= emitted
    BY <1>1, <1>3 DEF InLine
  <1>. QED BY <1>1, <1>3, <1>4, <1>5, <1>6 DEF InLine

\* The flush appends the buffer, or the beginning of it, to the queue.
LEMMA QueueFlushed ==
  ASSUME TypeOK, InLine, NEW s \in Streams, Flush(s)
  PROVE  InLine'
  <1>. USE Parts
  <1>1. /\ pre' = <<>> /\ queue' = queue \o SubSeq(ToFlush, 1, Fits)
        /\ UNCHANGED <<emitted, taken>>
    BY DEF Flush
  <1>2. /\ ToFlush \in Seq(Items) /\ Sorted(ToFlush)
        /\ Members(ToFlush) \subseteq Members(pre) \cup {Sentinel}
    <2>1. CASE closed
      <3>1. ToFlush = Append(pre, Sentinel)
        BY <2>1, AppendIsConcat, ItemFacts DEF ToFlush
      <3>2. Before(Members(pre), {Sentinel}) BY Foreigners DEF Before
      <3>. QED BY <3>1, <3>2, SortedAppend, AppendProperties, ItemFacts DEF InLine
    <2>2. CASE ~closed
      <3>1. ToFlush = pre BY <2>2, ConcatEmptySeq DEF ToFlush
      <3>. QED BY <3>1 DEF InLine
    <2>. QED BY <2>1, <2>2
  <1> DEFINE flushed == SubSeq(ToFlush, 1, Fits)
  <1>3. Fits \in Nat /\ Fits <= Len(ToFlush) BY Flushed
  <1>4. /\ flushed \in Seq(Items) /\ Sorted(flushed)
        /\ Members(flushed) \subseteq Members(pre) \cup {Sentinel}
    BY <1>2, <1>3, SortedFirst
  <1>. HIDE DEF flushed
  <1>5. Before(Members(queue), Members(flushed)) /\ Before(Members(taken), Members(flushed))
    BY <1>4, Foreigners DEF InLine, Before
  <1>6. Sorted(queue') /\ Members(queue') = Members(queue) \cup Members(flushed)
    <2>1. queue' = queue \o flushed BY <1>1 DEF flushed
    <2>. QED BY <1>4, <1>5, <2>1, SortedConcat DEF InLine
  <1>7. Members(pre') = {} /\ Sorted(pre')
    <2>1. DOMAIN pre' = {} BY <1>1
    <2>. QED BY <2>1 DEF Members, Sorted
  <1>8. Before(Members(taken), Members(queue')) BY <1>5, <1>6 DEF InLine, Before
  <1>9. Before(Members(taken), Members(pre')) /\ Before(Members(queue'), Members(pre'))
    BY <1>7 DEF Before
  <1>10. \A a \in Members(taken) \cup Members(queue') \cup Members(pre') :
           OfLoop(a) => a.n <= emitted
    BY <1>4, <1>6, <1>7, Foreigners DEF InLine
  <1>. QED BY <1>1, <1>6, <1>7, <1>8, <1>9, <1>10 DEF InLine

\* What the loop does with an item, whichever buffer it goes to.
LEMMA EnqueueShape ==
  ASSUME NEW item, Enqueue(item)
  PROVE  queue' = queue \/ queue' = Append(queue, item)
  BY DEF Enqueue

\* Every step keeps the three parts in line.
LEMMA LineStep ==
  ASSUME TypeOK, InOrder, [Next]_vars
  PROVE  InLine'
  <1>. InLine /\ Foreign /\ Direct BY DEF InOrder
  <1>. USE Parts
  <1>1. CASE LoopEmits
    <2>1. NextEvent(LoopThread) \in Items /\ emitted' = emitted + 1
            /\ NextEvent(LoopThread).n = emitted' /\ taken' = taken
      BY <1>1, NewEvent, ItemFacts DEF LoopEmits, Emitters, NextEvent
    <2>2. CASE attached
      <3>1. NoneOfLoop(Members(pre)) BY <1>1, <2>2 DEF Direct, LoopEmits, LoopFree
      <3>2. /\ UNCHANGED pre
            /\ queue' = queue \/ queue' = Append(queue, NextEvent(LoopThread))
        <4>1. UNCHANGED pre /\ Enqueue(NextEvent(LoopThread)) BY <1>1, <2>2 DEF LoopEmits
        <4>. QED BY <4>1, EnqueueShape
      <3>3. emitted' \in Nat /\ emitted' >= emitted BY <2>1
      <3>4. UNCHANGED <<taken, pre>> BY <2>1, <3>2
      <3>. QED BY ONLY TypeOK, InLine, <2>1, <3>1, <3>2, <3>3, <3>4, QueueGrows
    <2>3. CASE ~attached
      <3>1. /\ UNCHANGED queue
            /\ pre' = pre \/ pre' = Append(pre, NextEvent(LoopThread))
        BY <1>1, <2>3 DEF LoopEmits, EnqueuePreStream
      <3>. QED BY <2>1, <3>1, BufferGrows
    <2>. QED BY <2>2, <2>3
  <1>2. CASE RunCallback
    <2>1. Head(callbacks) \in Items /\ ~OfLoop(Head(callbacks))
      <3>1. /\ callbacks # <<>> /\ Head(callbacks) = callbacks[1] /\ 1 \in DOMAIN callbacks
            /\ Head(callbacks) \in Items
        BY <1>2, HeadTailProperties DEF RunCallback
      <3>. QED BY <3>1 DEF Foreign, NoneOfLoop, Members
    <2>2. /\ UNCHANGED <<pre, taken, emitted>>
          /\ queue' = queue \/ queue' = Append(queue, Head(callbacks))
      BY <1>2, EnqueueShape DEF RunCallback
    <2>. QED BY <2>1, <2>2, QueueGrows
  <1>3. CASE LoopCloses
    <2>1. /\ UNCHANGED <<pre, taken, emitted>>
          /\ queue' = queue \/ queue' = Append(queue, Sentinel)
      BY <1>3, EnqueueShape DEF LoopCloses
    <2>. QED BY <2>1, Foreigners, ItemFacts, QueueGrows
  <1>4. ASSUME NEW t \in Threads, ThreadReadsLoop(t) PROVE InLine'
    <2>1. UNCHANGED <<taken, queue, pre>> /\ emitted' = emitted + 1
      BY <1>4 DEF ThreadReadsLoop, buffers
    <2>. QED BY <2>1, Foreigners, ItemFacts, QueueGrows
  <1>5. ASSUME NEW t \in Threads, ThreadBuffers(t) PROVE InLine'
    <2>1. /\ inHand[t].item \in Items /\ ~OfLoop(inHand[t].item)
          /\ UNCHANGED <<taken, queue, emitted>>
          /\ pre' = pre \/ pre' = Append(pre, inHand[t].item)
      BY <1>5, ItemFacts DEF ThreadBuffers, EnqueuePreStream, Foreign
    <2>. QED BY <2>1, BufferGrows
  <1>6. ASSUME NEW s \in Streams, Flush(s) PROVE InLine' BY <1>6, QueueFlushed
  <1>7. ASSUME NEW s \in Streams, TakeEvent(s) \/ TakeSentinel(s) PROVE InLine'
    <2>1. /\ queue # <<>> /\ queue' = Tail(queue) /\ UNCHANGED <<pre, emitted>>
          /\ taken' = Append(taken, Head(queue)) \/ taken' = taken
      BY <1>7 DEF TakeEvent, TakeSentinel
    <2>. QED BY <2>1, QueueShrinks
  <1>8. CASE UNCHANGED <<taken, queue, pre, emitted>>
    BY <1>8, Foreigners, ItemFacts, QueueGrows
  <1>9. CASE LoopEnds \/ UNCHANGED vars BY <1>8, <1>9 DEF LoopEnds, vars, buffers
  <1>10. ASSUME NEW t \in Threads, ThreadPosts(t) \/ ThreadCloses(t) PROVE InLine'
    BY <1>8, <1>10 DEF ThreadPosts, ThreadCloses, buffers
  <1>11. ASSUME NEW s \in Streams,
                Attach(s) \/ Sent(s) \/ Detach(s) \/ Cancel(s) \/ HandleControl(s)
         PROVE  InLine'
    BY <1>8, <1>11 DEF Attach, Sent, Detach, Cancel, HandleControl, buffers
  <1>. QED
    BY <1>1, <1>2, <1>3, <1>4, <1>5, <1>6, <1>7, <1>9, <1>10, <1>11
       DEF Next, HandOver, StreamStep

\* Every step leaves the threads with events of their own.
LEMMA ForeignStep ==
  ASSUME TypeOK, Foreign, [Next]_vars
  PROVE  Foreign'
  <1>. USE Parts
  <1>h. inHand \in [Threads -> [item : Items \cup {Nothing}, saw : BOOLEAN]]
    BY DEF TypeOK
  <1>0. CASE UNCHANGED <<callbacks, inHand>> BY <1>0 DEF Foreign
  <1>1. CASE LoopEmits \/ LoopCloses \/ LoopEnds \/ UNCHANGED vars
    BY <1>0, <1>1 DEF LoopEmits, LoopCloses, LoopEnds, vars, buffers
  <1>2. CASE RunCallback
    <2>1. /\ callbacks # <<>> /\ callbacks' = Tail(callbacks) /\ UNCHANGED inHand
      BY <1>2 DEF RunCallback
    <2>2. /\ Len(Tail(callbacks)) = Len(callbacks) - 1
          /\ \A i \in 1..Len(Tail(callbacks)) : Tail(callbacks)[i] = callbacks[i + 1]
          /\ Tail(callbacks) \in Seq(Items)
      BY <2>1, HeadTailProperties
    <2>3. \A i \in DOMAIN callbacks' :
            i + 1 \in DOMAIN callbacks /\ callbacks'[i] = callbacks[i + 1]
      BY <2>1, <2>2
    <2>4. Members(callbacks') \subseteq Members(callbacks) BY <2>3 DEF Members
    <2>. QED BY <2>1, <2>4 DEF Foreign, NoneOfLoop
  <1>3. ASSUME NEW t \in Threads, ThreadReadsLoop(t) PROVE Foreign'
    <2>1. /\ callbacks' = callbacks
          /\ inHand' = [inHand EXCEPT ![t] = [item |-> NextEvent(t), saw |-> attached]]
      BY <1>3 DEF ThreadReadsLoop, buffers
    <2>2. \A u \in Threads : inHand'[u].item = NextEvent(t) \/ inHand'[u] = inHand[u]
      BY <1>h, <2>1
    <2>. QED BY <2>1, <2>2, Foreigners DEF Foreign
  <1>4. ASSUME NEW t \in Threads, ThreadBuffers(t) PROVE Foreign'
    <2>1. callbacks' = callbacks /\ Empty(t) BY <1>4 DEF ThreadBuffers
    <2>2. \A u \in Threads : inHand'[u].item = Nothing \/ inHand'[u] = inHand[u]
      BY <1>h, <2>1 DEF Empty
    <2>. QED BY <2>1, <2>2 DEF Foreign
  <1>5. ASSUME NEW t \in Threads, ThreadPosts(t) PROVE Foreign'
    <2>1. /\ inHand[t].item \in Items /\ ~OfLoop(inHand[t].item) /\ Empty(t)
          /\ callbacks' = callbacks \/ callbacks' = Append(callbacks, inHand[t].item)
      BY <1>5, <1>h DEF ThreadPosts, Foreign
    <2>2. \A u \in Threads : inHand'[u].item = Nothing \/ inHand'[u] = inHand[u]
      BY <1>h, <2>1 DEF Empty
    <2>3. Members(callbacks') \subseteq Members(callbacks) \cup {inHand[t].item}
      <3>1. CASE callbacks' = callbacks BY <3>1
      <3>2. CASE callbacks' = Append(callbacks, inHand[t].item)
        BY <2>1, <3>2, MembersAppend
      <3>. QED BY <2>1, <3>1, <3>2
    <2>. QED BY <2>1, <2>2, <2>3 DEF Foreign, NoneOfLoop
  <1>6. ASSUME NEW t \in Threads, ThreadCloses(t) PROVE Foreign'
    <2>1. /\ callbacks' = callbacks
          /\ \/ inHand' = inHand
             \/ inHand' = [inHand EXCEPT ![t] = [item |-> Sentinel, saw |-> TRUE]]
      BY <1>6 DEF ThreadCloses, buffers
    <2>2. \A u \in Threads : inHand'[u].item = Sentinel \/ inHand'[u] = inHand[u]
      BY <1>h, <2>1
    <2>. QED BY <2>1, <2>2, Foreigners DEF Foreign
  <1>7. ASSUME NEW s \in Streams,
               Attach(s) \/ StreamStep(s) \/ Cancel(s) \/ HandleControl(s)
        PROVE  Foreign'
    BY <1>0, <1>7 DEF Attach, StreamStep, Flush, TakeEvent, TakeSentinel, Sent, Detach,
                      Cancel, HandleControl, buffers
  <1>. QED BY <1>1, <1>2, <1>3, <1>4, <1>5, <1>6, <1>7 DEF Next, HandOver

\* Every step keeps one call at most between its two steps, and the buffer empty of
\* the loop's events while the loop uses the queue.
LEMMA DirectStep ==
  ASSUME TypeOK, InOrder, [Next]_vars
  PROVE  Direct' /\ OneAttaching'
  <1>. Foreign /\ Direct /\ OneAttaching BY DEF InOrder
  <1>. USE Parts
  <1>r. rpc \in [Streams -> {"idle", "attaching", "waiting", "yielding", "closing",
                             "ended"}]
    BY DEF TypeOK
  <1>0. CASE UNCHANGED <<attached, pre, rpc>> BY <1>0 DEF Direct, OneAttaching
  <1>1. CASE RunCallback \/ LoopCloses \/ LoopEnds \/ UNCHANGED vars
    BY <1>0, <1>1 DEF RunCallback, LoopCloses, LoopEnds, vars, buffers
  <1>2. CASE LoopEmits
    <2>1. UNCHANGED <<attached, rpc>> /\ (attached => UNCHANGED pre)
      BY <1>2 DEF LoopEmits
    <2>. QED BY <2>1 DEF Direct, OneAttaching
  <1>3. ASSUME NEW t \in Threads, ThreadReadsLoop(t) \/ ThreadPosts(t) \/ ThreadCloses(t)
        PROVE  Direct' /\ OneAttaching'
    BY <1>0, <1>3 DEF ThreadReadsLoop, ThreadPosts, ThreadCloses, buffers
  <1>4. ASSUME NEW t \in Threads, ThreadBuffers(t)
        PROVE  Direct' /\ OneAttaching'
    <2>1. /\ inHand[t].item \in Items /\ ~OfLoop(inHand[t].item)
          /\ UNCHANGED <<attached, rpc>>
          /\ pre' = pre \/ pre' = Append(pre, inHand[t].item)
      BY <1>4, ItemFacts DEF ThreadBuffers, EnqueuePreStream, Foreign
    <2>2. Members(pre') \subseteq Members(pre) \cup {inHand[t].item}
      <3>1. CASE pre' = pre BY <3>1
      <3>2. CASE pre' = Append(pre, inHand[t].item)
        BY <2>1, <3>2, MembersAppend
      <3>. QED BY <2>1, <3>1, <3>2
    <2>. QED BY <2>1, <2>2 DEF Direct, OneAttaching, NoneOfLoop
  <1>5. ASSUME NEW s \in Streams, Attach(s) PROVE Direct' /\ OneAttaching'
    <2>1. rpc' = [rpc EXCEPT ![s] = "attaching"] /\ \A r \in Streams : rpc[r] # "attaching"
      BY <1>5 DEF Attach, LoopFree
    <2>2. rpc'[s] = "attaching" /\ \A r \in Streams : rpc'[r] = "attaching" => r = s
      BY <1>r, <2>1
    <2>. QED BY <2>2 DEF Direct, OneAttaching
  <1>6. ASSUME NEW s \in Streams, Flush(s) PROVE Direct' /\ OneAttaching'
    <2>1. pre' = <<>> /\ rpc' = [rpc EXCEPT ![s] = "waiting"] BY <1>6 DEF Flush
    <2>2. Members(pre') = {} BY <2>1 DEF Members
    <2>3. \A r \in Streams : rpc'[r] = "attaching" => rpc[r] = "attaching"
      BY <1>r, <2>1
    <2>. QED BY <2>2, <2>3 DEF Direct, OneAttaching, NoneOfLoop
  <1>7. ASSUME NEW s \in Streams,
               \/ TakeEvent(s) \/ TakeSentinel(s) \/ Sent(s) \/ Cancel(s) \/ Detach(s)
               \/ HandleControl(s)
        PROVE  Direct' /\ OneAttaching'
    <2>1. /\ attached' = attached \/ attached' = FALSE
          /\ pre' = pre
          /\ \/ rpc' = rpc
             \/ \E p \in {"yielding", "closing", "waiting", "ended"} :
                  rpc' = [rpc EXCEPT ![s] = p]
          /\ \A r \in Streams : rpc[r] # "attaching"
      BY <1>7 DEF TakeEvent, TakeSentinel, Sent, Cancel, Detach, HandleControl, buffers,
                  LoopFree
    <2>2. \A r \in Streams : rpc'[r] # "attaching" BY <1>r, <2>1
    <2>. QED BY <2>1, <2>2 DEF Direct, OneAttaching
  <1>. QED
    BY <1>1, <1>2, <1>3, <1>4, <1>5, <1>6, <1>7 DEF Next, HandOver, StreamStep

\* The events of the loop are sent in the order in which they were emitted, each at
\* most once, whatever calls come, overlap and end and whatever threads emit meanwhile.
THEOREM LoopOrderKept == Spec => []LoopEventsInOrder
  <1>1. Init => InOrder
    <2>. SUFFICES ASSUME Init PROVE InOrder
      OBVIOUS
    <2>1. /\ Members(taken) = {} /\ Members(queue) = {} /\ Members(pre) = {}
          /\ Members(callbacks) = {}
      BY DEF Init, Members
    <2>2. Sorted(taken) /\ Sorted(queue) /\ Sorted(pre) BY DEF Init, Sorted
    <2>3. InLine BY <2>1, <2>2 DEF InLine, Before
    <2>. QED BY <2>1, <2>3 DEF Init, InOrder, Foreign, Direct, OneAttaching, NoneOfLoop
  <1>2. Accounted /\ InOrder /\ [Next]_vars => InOrder'
    BY LineStep, ForeignStep, DirectStep DEF Accounted, InOrder
  <1>3. Accounted /\ InOrder => LoopEventsInOrder
    <2>. SUFFICES ASSUME Accounted, InOrder PROVE LoopEventsInOrder
      OBVIOUS
    <2>1. /\ taken \in Seq(Items) /\ queue \in Seq(Items) /\ pre \in Seq(Items)
          /\ Sorted(taken) /\ Sorted(queue) /\ Sorted(pre)
          /\ Before(Members(taken), Members(queue))
          /\ Before(Members(taken), Members(pre))
          /\ Before(Members(queue), Members(pre))
      BY Parts DEF Accounted, InOrder, InLine
    <2>2. /\ taken \o queue \in Seq(Items) /\ Sorted(taken \o queue)
          /\ Members(taken \o queue) = Members(taken) \cup Members(queue)
      BY <2>1, SortedConcat
    <2>3. Before(Members(taken \o queue), Members(pre)) BY <2>1, <2>2 DEF Before
    <2>4. Sorted((taken \o queue) \o pre) BY <2>1, <2>2, <2>3, SortedConcat
    <2>. QED BY <2>4 DEF LoopEventsInOrder, Sorted
  <1>. QED BY <1>1, <1>2, <1>3, AccountedInit, AccountedStep, PTL DEF Spec
=============================================================================
