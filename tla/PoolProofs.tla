----------------------------- MODULE PoolProofs -----------------------------
(***************************************************************************)
(* Theorems about one pool, for every number of workers, calls and         *)
(* sessions, every capacity, queue length, affinity mode and retry policy, *)
(* and every combination of faults, but for what a theorem's hypothesis    *)
(* excludes because the code fails there.                                  *)
(***************************************************************************)
EXTENDS Pool, FunctionTheorems, FiniteSetTheorems, TLAPS

----------------------------------------------------------------------------
(* Lemmas about the data.                                                  *)

\* A callback handles a message of the pool and leaves messages behind it.
LEMMA ReceiveType ==
  ASSUME mailbox \in Seq(Message), NEW m, Receive(m)
  PROVE  m \in Message /\ Tail(mailbox) \in Seq(Message)
BY DEF Receive

\* Messages the pool's clients, tasks, timers and workers send.
LEMMA MessageType ==
  /\ \A c \in Callers : FromMsg("execute", c) \in Message /\ FromMsg("checkout", c) \in Message
                          /\ FromMsg("queue_timeout", c) \in Message
  /\ \A w \in Workers : WorkerMsg("checkin", w) \in Message /\ WorkerMsg("skip", w) \in Message
                          /\ WorkerMsg("ready", w) \in Message
  /\ InitComplete \in Message
BY DEF FromMsg, WorkerMsg, Message, InitComplete

\* The records a task may become.
LEMMA TaskType ==
  /\ Idle \in Task /\ Idle.phase = "none"
  /\ Finished \in Task /\ Finished.phase = "done"
  /\ \A w \in Workers, b \in BOOLEAN : Spawn(w, b) \in Task /\ Spawn(w, b).worker = w
BY DEF Task, Idle, Finished, Spawn

\* The changes of a running task: a worker found, a crash, a retry.
LEMMA TaskChange ==
  ASSUME NEW t \in Task
  PROVE  /\ \A w \in Workers :
              /\ Resumed(t, w) \in Task
              /\ Resumed(t, w).worker = w
         /\ [t EXCEPT !.phase = "running"] \in Task
         /\ [t EXCEPT !.phase = "running"].worker = t.worker
         /\ [t EXCEPT !.phase = "checkout"] \in Task
         /\ [t EXCEPT !.phase = "checkout"].phase = "checkout"
         /\ Backoff(t) \in Task
         /\ Backoff(t).phase = "backoff"
         /\ Retrying(t) \in Task
         /\ Retrying(t).phase = "checkout"
<1>1. ASSUME NEW w \in Workers
      PROVE  /\ Resumed(t, w) \in Task
             /\ Resumed(t, w).worker = w
  BY DEF Task, Resumed, Backoff, Retrying
<1>2. /\ [t EXCEPT !.phase = "running"] \in Task
      /\ [t EXCEPT !.phase = "running"].worker = t.worker
  BY DEF Task, Resumed, Backoff, Retrying
<1>3. /\ [t EXCEPT !.phase = "checkout"] \in Task
      /\ [t EXCEPT !.phase = "checkout"].phase = "checkout"
  BY DEF Task, Resumed, Backoff, Retrying
<1>4. /\ Backoff(t) \in Task
      /\ Backoff(t).phase = "backoff"
  BY DEF Task, Resumed, Backoff, Retrying
<1>5. /\ Retrying(t) \in Task
      /\ Retrying(t).phase = "checkout"
  <2>1. t.attempt + 1 \in Nat
    BY DEF Task, Resumed, Backoff, Retrying
  <2> QED BY <2>1 DEF Task, Retrying
<1> QED BY <1>1, <1>2, <1>3, <1>4, <1>5

\* Replying to a call, dead or alive, counts a reply of that call.
LEMMA ReplyType ==
  ASSUME TypeOK, NEW r \in Requests, Reply(r) \/ ReplyIfAlive(r)
  PROVE  replies' \in [Requests -> Nat]
<1>1. replies \in [Requests -> Nat]
  BY DEF TypeOK
<1>2. CASE Reply(r)
  BY <1>1, <1>2 DEF Reply
<1>3. CASE replies' = replies
  BY <1>1, <1>3
<1> QED BY <1>2, <1>3 DEF ReplyIfAlive

\* A checkout that grants a worker grants one that is available, and an
\* answer that names the worker to queue for names a worker of the pool.
LEMMA CheckoutType ==
  ASSUME TypeOK, NEW b \in Callers, NEW c \in Checkout(b)
  PROVE  /\ c.worker \in Workers \cup {NoWorker}
         /\ c.status = "ok" => c.worker \in available /\ c.worker \in Workers
<1> USE PoolAssumption DEF TypeOK
<1>1. Preferred(SessionOf[b]) \in Workers \cup {NoWorker}
  BY DEF Preferred
<1>2. \A a \in AnyAvailable : /\ a.worker \in Workers \cup {NoWorker}
                              /\ a.status = "ok" => a.worker \in available
  BY DEF AnyAvailable, Grant, Refuse
<1>3. PreferredStatus(Preferred(SessionOf[b])) = "available" => Preferred(SessionOf[b]) \in available
  BY DEF PreferredStatus
<1> QED BY <1>1, <1>2, <1>3 DEF Checkout, Grant, Refuse

----------------------------------------------------------------------------
(* Type correctness.                                                       *)

\* The bookkeeping of a checkin or of a queue drive keeps the types, from
\* well-typed first parts of the callback.
LEMMA ServeQueueType ==
  ASSUME TypeOK, NEW w \in Workers,
         NEW ld \in [Workers -> Nat], NEW av \in SUBSET Workers,
         mailbox # <<>>, Head(mailbox) \in Message, Tail(mailbox) \in Seq(Message),
         ServeQueue(w, ld, av)
  PROVE  /\ mailbox' \in Seq(Message)
         /\ load' \in [Workers -> Nat] /\ available' \subseteq Workers
         /\ queue' \subseteq queue /\ timers' \subseteq timers
         /\ cancelled' \subseteq cancelled
         /\ task' \in [Callers -> Task]
         /\ \A c \in Callers : Active(c)' => task'[c].worker \in Workers
<1> USE DEF TypeOK, Active, Consume
<1>1. PICK kept \in Kept :
        LeaveQueue(w, ld, av, kept) \/ \E q \in QueueWorkers(w, av) : PopQueue(q, ld, av, kept)
  BY DEF ServeQueue
<1>2. kept \subseteq cancelled
  BY <1>1 DEF Kept
<1>3. CASE LeaveQueue(w, ld, av, kept)
  BY <1>2, <1>3 DEF LeaveQueue
<1>4. ASSUME NEW q \in QueueWorkers(w, av), PopQueue(q, ld, av, kept)
      PROVE  /\ mailbox' \in Seq(Message)
             /\ load' \in [Workers -> Nat] /\ available' \subseteq Workers
             /\ queue' \subseteq queue /\ timers' \subseteq timers
             /\ cancelled' \subseteq cancelled
             /\ task' \in [Callers -> Task]
             /\ \A c \in Callers : Active(c)' => task'[c].worker \in Workers
  <2>1. q \in Workers
    BY DEF QueueWorkers
  <2>2. PICK e \in queue :
          /\ queue' = queue \ {e} /\ timers' = timers \ {e.from}
          /\ SkipCancelled(e, q, ld, av, kept) \/ RunQueued(e, q, ld, av, kept)
    BY <1>4 DEF PopQueue
  <2>3. Spawn(q, TRUE) \in Task /\ Spawn(q, TRUE).worker = q
    BY <2>1, TaskType
  <2>4. CASE SkipCancelled(e, q, ld, av, kept)
    BY <1>2, <2>1, <2>2, <2>4, MessageType DEF SkipCancelled
  <2>5. CASE RunQueued(e, q, ld, av, kept)
    <3>1. load' \in [Workers -> Nat] /\ available' \subseteq Workers
      BY <2>1, <2>5 DEF RunQueued, Refresh
    <3>2. /\ task' \in [Callers -> Task]
          /\ \A c \in Callers : Active(c)' => task'[c].worker \in Workers
      BY <2>1, <2>3, <2>5 DEF RunQueued
    <3>3. mailbox' \in Seq(Message)
      BY <2>5 DEF RunQueued
    <3>4. queue' \subseteq queue /\ timers' \subseteq timers /\ cancelled' \subseteq cancelled
      BY <1>2, <2>2, <2>5 DEF RunQueued
    <3> QED BY <3>1, <3>2, <3>3, <3>4
  <2> QED BY <2>2, <2>4, <2>5
<1> QED BY <1>1, <1>3, <1>4

\* The variables keep their types: an instance of Pool never leaves the
\* records, sets and counters its declarations name, whatever its messages.
THEOREM TypeCorrect == Spec => []TypeOK
<1> USE PoolAssumption
<1>1. Init => TypeOK
  <2> SUFFICES ASSUME Init PROVE TypeOK
    OBVIOUS
  <2>1. Idle \in Task /\ Idle.phase = "none"
    BY TaskType
  <2>2. <<>> \in Seq(Message)
    OBVIOUS
  <2> QED BY <2>1, <2>2 DEF Init, TypeOK, Active
<1>2. TypeOK /\ [Next]_vars => TypeOK'
  <2> SUFFICES ASSUME TypeOK, [Next]_vars PROVE TypeOK'
    OBVIOUS
  <2> USE DEF TypeOK, Active, admin, fleet, slots, waiting, sticky, clients, procs
  <2>0. \A kept \in Kept : kept \subseteq cancelled
    BY DEF Kept
  <2>1. ASSUME NEW r \in Requests, RejectUninitialized(r) PROVE TypeOK'
    BY <2>1, ReceiveType, MessageType DEF RejectUninitialized, Consume, Reply
  <2>2. ASSUME NEW r \in Requests, Dispatch(r) PROVE TypeOK'
    <3>1. PICK c \in Checkout(r), kept \in Kept :
            /\ c.status = "ok"
            /\ IncrementLoad(c.worker)
            /\ StoreAffinity(SessionOf[r], c.worker)
            /\ task' = [task EXCEPT ![r] = Spawn(c.worker, FALSE)]
            /\ queue' = Compacted(kept)
            /\ cancelled' = kept \ Dropped(kept)
            /\ timers' = TimersLeft(kept)
      BY <2>2 DEF Dispatch
    <3>2. SessionOf[r] \in Sessions \cup {NoSession} /\ r \in Callers
      BY DEF Callers
    <3>3. c.worker \in Workers
      BY <3>1, <3>2, CheckoutType
    <3>4. Spawn(c.worker, FALSE) \in Task /\ Spawn(c.worker, FALSE).worker = c.worker
      BY <3>3, TaskType
    <3>5. load' \in [Workers -> Nat] /\ available' \subseteq Workers
      BY <3>1, <3>3 DEF IncrementLoad, Refresh
    <3>6. storing' \subseteq Sessions \X Workers
      BY <3>1, <3>2, <3>3 DEF StoreAffinity
    <3>7. /\ task' \in [Callers -> Task]
          /\ \A d \in Callers : Active(d)' => task'[d].worker \in Workers
      BY <3>1, <3>3, <3>4
    <3>8. queue' \subseteq queue /\ cancelled' \subseteq cancelled /\ timers' \subseteq timers
      BY <2>0, <3>1 DEF Compacted, TimersLeft
    <3>9. cache' \in [Sessions -> Workers \cup {NoWorker}]
      BY <2>2, <3>2 DEF Dispatch, CacheLookup, Preferred
    <3>10. mailbox' \in Seq(Message)
      BY <2>2, ReceiveType DEF Dispatch, Consume
    <3> QED BY <2>2, <3>5, <3>6, <3>7, <3>8, <3>9, <3>10 DEF Dispatch
  <2>3. ASSUME NEW r \in Requests, Enqueue(r) PROVE TypeOK'
    <3>1. PICK c \in Checkout(r), kept \in Kept :
            /\ queue' = Compacted(kept) \cup {[from |-> r, affinity |-> c.worker, at |-> clock]}
            /\ cancelled' = kept \ Dropped(kept)
            /\ timers' = TimersLeft(kept) \cup {r}
      BY <2>3 DEF Enqueue
    <3>2. r \in Callers
      BY DEF Callers
    <3>3. c.worker \in Workers \cup {NoWorker}
      BY <3>2, CheckoutType
    <3>4. [from |-> r, affinity |-> c.worker, at |-> clock] \in Entry
      BY <3>3 DEF Entry
    <3>5. queue' \subseteq Entry
      BY <3>1, <3>4 DEF Compacted
    <3>6. cancelled' \subseteq cancelled /\ timers' \subseteq Requests
      BY <2>0, <3>1 DEF TimersLeft
    <3>7. cache' \in [Sessions -> Workers \cup {NoWorker}]
      BY <2>3, <3>2 DEF Enqueue, CacheLookup, Preferred
    <3>8. mailbox' \in Seq(Message)
      BY <2>3, ReceiveType DEF Enqueue, Consume
    <3> QED BY <2>3, <3>5, <3>6, <3>7, <3>8 DEF Enqueue
  <2>4. ASSUME NEW r \in Requests, Saturate(r) PROVE TypeOK'
    <3>1. PICK kept \in Kept :
            queue' = Compacted(kept) /\ cancelled' = kept \ Dropped(kept) /\ timers' = TimersLeft(kept)
      BY <2>4 DEF Saturate
    <3>2. queue' \subseteq queue /\ cancelled' \subseteq cancelled /\ timers' \subseteq timers
      BY <2>0, <3>1 DEF Compacted, TimersLeft
    <3>3. cache' \in [Sessions -> Workers \cup {NoWorker}]
      BY <2>4 DEF Saturate, CacheLookup, Preferred
    <3>4. mailbox' \in Seq(Message)
      BY <2>4, ReceiveType DEF Saturate, Consume
    <3> QED BY <2>4, <3>2, <3>3, <3>4 DEF Saturate, Reply
  <2>5. ASSUME NEW r \in Requests, RefuseSticky(r) PROVE TypeOK'
    <3>1. timers' \subseteq timers
      BY <2>5 DEF RefuseSticky, TimersLeft
    <3>2. cache' \in [Sessions -> Workers \cup {NoWorker}]
      BY <2>5 DEF RefuseSticky, CacheLookup, Preferred
    <3>3. mailbox' \in Seq(Message)
      BY <2>5, ReceiveType DEF RefuseSticky, Consume
    <3> QED BY <2>5, <3>1, <3>2, <3>3 DEF RefuseSticky, Reply
  <2>6. ASSUME NEW r \in Requests, QueueTimeout(r) PROVE TypeOK'
    <3>1. mailbox' \in Seq(Message)
      BY <2>6, ReceiveType DEF QueueTimeout, Consume
    <3>2. replies' \in [Requests -> Nat]
      BY <2>6, ReplyType DEF QueueTimeout
    <3>3. /\ queue' \subseteq queue /\ timers' \subseteq timers
          /\ cancelled' \subseteq cancelled \cup {r}
      BY <2>0, <2>6 DEF QueueTimeout, Without
    <3> QED BY <2>6, <3>1, <3>2, <3>3 DEF QueueTimeout
  <2>7. ASSUME NEW c \in Callers, GrantCheckout(c) PROVE TypeOK'
    <3>1. PICK a \in Checkout(c) :
            /\ a.status = "ok"
            /\ IncrementLoad(a.worker)
            /\ StoreAffinity(SessionOf[c], a.worker)
            /\ task' = IF task[c].phase = "checkout"
                       THEN [task EXCEPT ![c] = Resumed(@, a.worker)]
                       ELSE task
      BY <2>7 DEF GrantCheckout
    <3>2. SessionOf[c] \in Sessions \cup {NoSession}
      OBVIOUS
    <3>3. a.worker \in Workers
      BY <3>1, <3>2, CheckoutType
    <3>4. load' \in [Workers -> Nat] /\ available' \subseteq Workers
      BY <3>1, <3>3 DEF IncrementLoad, Refresh
    <3>5. storing' \subseteq Sessions \X Workers
      BY <3>1, <3>2, <3>3 DEF StoreAffinity
    <3>6. /\ task' \in [Callers -> Task]
          /\ \A d \in Callers : Active(d)' => task'[d].worker \in Workers
      <4>1. /\ Resumed(task[c], a.worker) \in Task
            /\ Resumed(task[c], a.worker).worker = a.worker
        <5>1. task[c] \in Task
          OBVIOUS
        <5>2. \A w \in Workers : /\ Resumed(task[c], w) \in Task
                                 /\ Resumed(task[c], w).worker = w
          BY <5>1, TaskChange
        <5> QED BY <3>3, <5>2
      <4> QED BY <3>1, <3>3, <4>1
    <3>7. cache' \in [Sessions -> Workers \cup {NoWorker}]
      BY <2>7, <3>2 DEF GrantCheckout, CacheLookup, Preferred
    <3>8. mailbox' \in Seq(Message)
      BY <2>7, ReceiveType DEF GrantCheckout, Consume
    <3> QED BY <2>7, <3>4, <3>5, <3>6, <3>7, <3>8 DEF GrantCheckout
  <2>8. ASSUME NEW c \in Callers, RefuseCheckout(c) PROVE TypeOK'
    <3>1. Finished \in Task /\ Finished.phase = "done"
      BY TaskType
    <3>2. cache' \in [Sessions -> Workers \cup {NoWorker}]
      BY <2>8 DEF RefuseCheckout, CacheLookup, Preferred
    <3>3. mailbox' \in Seq(Message)
      BY <2>8, ReceiveType DEF RefuseCheckout, Consume
    <3>4. replies' \in [Requests -> Nat]
      BY <2>8, ReplyType DEF RefuseCheckout
    <3>5. /\ task' \in [Callers -> Task]
          /\ \A d \in Callers : Active(d)' => task'[d].worker \in Workers
      BY <2>8, <3>1 DEF RefuseCheckout
    <3> QED BY <2>8, <3>2, <3>3, <3>4, <3>5 DEF RefuseCheckout
  <2>9. ASSUME NEW w \in Workers, Checkin(w) PROVE TypeOK'
    <3>1. mailbox # <<>> /\ Head(mailbox) \in Message /\ Tail(mailbox) \in Seq(Message)
      BY <2>9, ReceiveType, MessageType DEF Checkin, Receive
    <3>2. [load EXCEPT ![w] = Decremented(w)] \in [Workers -> Nat]
      BY DEF Decremented
    <3>3. Refresh(available, w, Decremented(w)) \in SUBSET Workers
      BY DEF Refresh
    <3>4. ServeQueue(w, [load EXCEPT ![w] = Decremented(w)], Refresh(available, w, Decremented(w)))
      BY <2>9 DEF Checkin
    <3>5. /\ mailbox' \in Seq(Message)
          /\ load' \in [Workers -> Nat] /\ available' \subseteq Workers
          /\ queue' \subseteq queue /\ timers' \subseteq timers
          /\ cancelled' \subseteq cancelled
          /\ task' \in [Callers -> Task]
          /\ \A c \in Callers : Active(c)' => task'[c].worker \in Workers
      BY <3>1, <3>2, <3>3, <3>4, ServeQueueType
    <3> QED BY <2>9, <3>5 DEF Checkin
  <2>10. ASSUME NEW w \in Workers, DriveQueue(w) PROVE TypeOK'
    <3>1. mailbox # <<>> /\ Head(mailbox) \in Message /\ Tail(mailbox) \in Seq(Message)
      BY <2>10, ReceiveType, MessageType DEF DriveQueue, Receive
    <3>2. ServeQueue(w, load, available)
      BY <2>10 DEF DriveQueue
    <3>3. /\ mailbox' \in Seq(Message)
          /\ load' \in [Workers -> Nat] /\ available' \subseteq Workers
          /\ queue' \subseteq queue /\ timers' \subseteq timers
          /\ cancelled' \subseteq cancelled
          /\ task' \in [Callers -> Task]
          /\ \A c \in Callers : Active(c)' => task'[c].worker \in Workers
      BY <3>1, <3>2, ServeQueueType
    <3> QED BY <2>10, <3>3 DEF DriveQueue
  <2>11. ASSUME NEW w \in Workers, WorkerReady(w) PROVE TypeOK'
    BY <2>11, ReceiveType, MessageType DEF WorkerReady
  <2>12. ASSUME MergeInit PROVE TypeOK'
    BY <2>12, ReceiveType, MessageType DEF MergeInit, Consume
  <2>13. ASSUME NEW r \in Requests, Call(r) \/ ClientDown(r) PROVE TypeOK'
    <3>1. CASE Call(r)
      <4>1. FromMsg("execute", r) \in Message
        BY MessageType DEF Callers
      <4> QED BY <3>1, <4>1 DEF Call, Send
    <3>2. CASE ClientDown(r)
      BY <3>2 DEF ClientDown
    <3> QED BY <2>13, <3>1, <3>2
  <2>14. ASSUME NEW r \in Requests, TaskStep(r) PROVE TypeOK'
    <3> r \in Callers /\ Finished \in Task /\ Finished.phase = "done"
      BY TaskType DEF Callers
    <3>1. CASE TaskAbort(r)
      <4>1. mailbox' \in Seq(Message)
        BY <3>1, MessageType DEF TaskAbort, Send
      <4> QED BY <3>1, <4>1 DEF TaskAbort
    <3>2. CASE TaskStart(r)
      <4>1. task' \in [Callers -> Task]
        BY <3>2, TaskChange DEF TaskStart
      <4> QED BY <3>2, <4>1 DEF TaskStart
    <3>3. CASE TaskResult(r)
      <4>1. mailbox' \in Seq(Message)
        BY <3>3, MessageType DEF TaskResult, Send
      <4>2. replies' \in [Requests -> Nat]
        BY <3>3, ReplyType DEF TaskResult
      <4> QED BY <3>3, <4>1, <4>2 DEF TaskResult
    <3>4. CASE TaskCrash(r)
      <4>1. /\ Backoff(task[r]) \in Task
            /\ Backoff(task[r]).phase = "backoff"
        BY TaskChange
      <4>2. /\ task' \in [Callers -> Task]
            /\ \A d \in Callers : Active(d)' => task'[d].worker \in Workers
        BY <3>4, <4>1 DEF TaskCrash
      <4>3. replies' \in [Requests -> Nat]
        BY <3>4, ReplyType DEF TaskCrash
      <4> QED BY <3>4, <4>2, <4>3 DEF TaskCrash
    <3>5. CASE TaskRetry(r)
      <4>1. FromMsg("checkout", r) \in Message
        BY MessageType
      <4>2. /\ Retrying(task[r]) \in Task
            /\ Retrying(task[r]).phase = "checkout"
        BY TaskChange
      <4>3. /\ task' \in [Callers -> Task]
            /\ \A d \in Callers : Active(d)' => task'[d].worker \in Workers
        BY <3>5, <4>2 DEF TaskRetry
      <4>4. mailbox' = mailbox \/ mailbox' = Append(mailbox, FromMsg("checkout", r))
        BY <3>5, Zenon DEF TaskRetry, Send
      <4>5. mailbox' \in Seq(Message)
        <5>1. CASE mailbox' = mailbox
          BY <5>1
        <5>2. CASE mailbox' = Append(mailbox, FromMsg("checkout", r))
          BY <4>1, <5>2
        <5> QED BY <4>4, <5>1, <5>2
      <4> QED BY <3>5, <4>3, <4>5 DEF TaskRetry
    <3>6. CASE TaskTimeout(r)
      BY <3>6 DEF TaskTimeout
    <3> QED BY <2>14, <3>1, <3>2, <3>3, <3>4, <3>5, <3>6 DEF TaskStep
  <2>15. ASSUME NEW r \in Requests, TimerFires(r) PROVE TypeOK'
    <3>1. FromMsg("queue_timeout", r) \in Message
      BY MessageType DEF Callers
    <3> QED BY <2>15, <3>1 DEF TimerFires, Send
  <2>16. ASSUME NEW s \in Streams, StreamCall(s) \/ StreamEnd(s) \/ StreamKilled(s) PROVE TypeOK'
    <3> s \in Callers /\ Finished \in Task /\ Finished.phase = "done"
      BY TaskType DEF Callers
    <3>1. CASE StreamCall(s)
      <4>1. FromMsg("checkout", s) \in Message
        BY MessageType
      <4>2. task' \in [Callers -> Task]
        BY <3>1, TaskChange DEF StreamCall
      <4> QED BY <3>1, <4>1, <4>2 DEF StreamCall, Send
    <3>2. CASE StreamEnd(s)
      <4>1. mailbox' \in Seq(Message)
        BY <3>2, MessageType DEF StreamEnd, Send
      <4> QED BY <3>2, <4>1 DEF StreamEnd
    <3>3. CASE StreamKilled(s)
      BY <3>3 DEF StreamKilled
    <3> QED BY <2>16, <3>1, <3>2, <3>3
  <2>17. ASSUME NEW s \in Sessions, CacheExpires(s) PROVE TypeOK'
    BY <2>17 DEF CacheExpires
  <2>18. ASSUME NEW s \in Sessions, NEW w \in Workers, TaskStore(s, w) PROVE TypeOK'
    BY <2>18 DEF TaskStore
  <2>19. ASSUME NEW w \in Workers, WorkerStep(w) \/ TaintExpires(w) PROVE TypeOK'
    <3>1. CASE WorkerReports(w)
      BY <3>1, MessageType DEF WorkerReports, Send
    <3>2. CASE WorkerRestart(w)
      BY <3>2 DEF WorkerRestart
    <3>3. CASE WorkerGone(w)
      BY <3>3 DEF WorkerGone
    <3>4. CASE TaintExpires(w)
      BY <3>4 DEF TaintExpires
    <3> QED BY <2>19, <3>1, <3>2, <3>3, <3>4 DEF WorkerStep
  <2>20. ASSUME InitReport PROVE TypeOK'
    BY <2>20, MessageType DEF InitReport, Send
  <2>21. CASE UNCHANGED vars
    BY <2>21 DEF vars
  <2> QED
    BY <2>1, <2>2, <2>3, <2>4, <2>5, <2>6, <2>7, <2>8, <2>9, <2>10, <2>11, <2>12, <2>13,
       <2>14, <2>15, <2>16, <2>17, <2>18, <2>19, <2>20, <2>21
       DEF Next, PoolStep, HandleExecute, Quiescent
<1> QED BY <1>1, <1>2, PTL DEF Spec

----------------------------------------------------------------------------
(* Offered workers have a free slot.                                       *)

\* What a change of one worker's load does to the offered workers.
LEMMA RefreshFree ==
  ASSUME TypeOK, NEW ld \in [Workers -> Nat], NEW av \in SUBSET Workers,
         NEW w \in Workers, NEW n \in Nat,
         \A x \in av : x \in ready \cap workers /\ (x # w => ld[x] < Capacity)
  PROVE  \A x \in Refresh(av, w, n) :
           x \in ready \cap workers /\ [ld EXCEPT ![w] = n][x] < Capacity
BY DEF Refresh

\* Serving the queue keeps the offered workers free.
LEMMA ServeQueueFree ==
  ASSUME TypeOK, NEW w \in Workers,
         NEW ld \in [Workers -> Nat], NEW av \in SUBSET Workers,
         \A x \in av : x \in ready \cap workers /\ ld[x] < Capacity,
         UNCHANGED fleet,
         ServeQueue(w, ld, av)
  PROVE  AvailableIsFree'
<1>1. workers' = workers /\ ready' = ready
  BY DEF fleet
<1>2. CASE load' = ld /\ available' = av
  BY <1>1, <1>2 DEF AvailableIsFree
<1>3. ASSUME NEW q \in Workers, load' = [ld EXCEPT ![q] = @ + 1],
             available' = Refresh(av, q, ld[q] + 1)
      PROVE  AvailableIsFree'
  <2>1. ld[q] + 1 \in Nat
    OBVIOUS
  <2>2. \A x \in Refresh(av, q, ld[q] + 1) :
          x \in ready \cap workers /\ [ld EXCEPT ![q] = ld[q] + 1][x] < Capacity
    BY <2>1, RefreshFree
  <2> QED BY <1>1, <1>3, <2>2 DEF AvailableIsFree
<1>4. \A q \in QueueWorkers(w, av) : q \in Workers
  BY DEF QueueWorkers
<1>5. \/ load' = ld /\ available' = av
      \/ \E q \in Workers : /\ load' = [ld EXCEPT ![q] = @ + 1]
                            /\ available' = Refresh(av, q, ld[q] + 1)
  BY <1>4, Zenon DEF ServeQueue, LeaveQueue, PopQueue, SkipCancelled, RunQueued
<1> QED BY <1>2, <1>3, <1>5

\* Checking a worker out keeps the offered workers free.
LEMMA IncrementFree ==
  ASSUME TypeOK, AvailableIsFree, NEW w \in Workers, IncrementLoad(w), UNCHANGED fleet
  PROVE  AvailableIsFree'
<1>1. workers' = workers /\ ready' = ready
  BY DEF fleet
<1>2. load \in [Workers -> Nat] /\ available \in SUBSET Workers /\ load[w] + 1 \in Nat
  BY DEF TypeOK
<1>3. \A x \in Refresh(available, w, load[w] + 1) :
        x \in ready \cap workers /\ [load EXCEPT ![w] = load[w] + 1][x] < Capacity
  BY <1>2, RefreshFree DEF AvailableIsFree
<1> QED BY <1>1, <1>3 DEF AvailableIsFree, IncrementLoad

\* The pool never offers a worker that has no free slot, that has not
\* reported ready or that it does not list, whatever the interleaving of
\* checkouts, checkins, queue pops, readiness reports of restarted workers
\* and the end of the initialization.
THEOREM OfferedWorkersFree == Spec => []AvailableIsFree
<1> USE PoolAssumption
<1>1. Init => AvailableIsFree
  BY DEF Init, AvailableIsFree
<1>2. TypeOK /\ AvailableIsFree /\ [Next]_vars => AvailableIsFree'
  <2> SUFFICES ASSUME TypeOK, AvailableIsFree, [Next]_vars PROVE AvailableIsFree'
    OBVIOUS
  <2>1. CASE UNCHANGED <<fleet, slots>>
    BY <2>1 DEF AvailableIsFree, fleet, slots
  <2>2. ASSUME NEW r \in Requests, Dispatch(r) PROVE AvailableIsFree'
    <3>1. PICK c \in Checkout(r) : c.status = "ok" /\ IncrementLoad(c.worker)
      BY <2>2 DEF Dispatch
    <3>2. c.worker \in Workers
      BY <3>1, CheckoutType DEF Callers
    <3> QED BY <2>2, <3>1, <3>2, IncrementFree DEF Dispatch
  <2>3. ASSUME NEW c \in Callers, GrantCheckout(c) PROVE AvailableIsFree'
    <3>1. PICK a \in Checkout(c) : a.status = "ok" /\ IncrementLoad(a.worker)
      BY <2>3 DEF GrantCheckout
    <3>2. a.worker \in Workers
      BY <3>1, CheckoutType
    <3> QED BY <2>3, <3>1, <3>2, IncrementFree DEF GrantCheckout
  <2>4. ASSUME NEW w \in Workers, Checkin(w) PROVE AvailableIsFree'
    <3> DEFINE n  == Decremented(w)
               ld == [load EXCEPT ![w] = n]
               av == Refresh(available, w, n)
    <3>1. n \in Nat /\ load \in [Workers -> Nat] /\ available \in SUBSET Workers
      BY DEF TypeOK, Decremented
    <3>2. \A x \in av : x \in ready \cap workers /\ ld[x] < Capacity
      <4> HIDE DEF n
      <4> QED BY <3>1, RefreshFree DEF AvailableIsFree
    <3>3. ld \in [Workers -> Nat] /\ av \in SUBSET Workers
      BY <3>1 DEF Refresh
    <3>4. ServeQueue(w, ld, av) /\ UNCHANGED fleet
      BY <2>4 DEF Checkin
    <3> HIDE DEF ld, av
    <3> QED BY <3>2, <3>3, <3>4, ServeQueueFree
  <2>5. ASSUME NEW w \in Workers, DriveQueue(w) PROVE AvailableIsFree'
    BY <2>5, ServeQueueFree DEF DriveQueue, TypeOK, AvailableIsFree
  <2>6. ASSUME NEW w \in Workers, WorkerReady(w) PROVE AvailableIsFree'
    BY <2>6 DEF WorkerReady, AvailableIsFree, TypeOK
  <2>7. CASE MergeInit
    BY <2>7 DEF MergeInit, AvailableIsFree
  <2>8. ASSUME NEW r \in Requests,
               \/ RejectUninitialized(r) \/ Enqueue(r) \/ Saturate(r) \/ RefuseSticky(r)
               \/ QueueTimeout(r) \/ Call(r) \/ ClientDown(r) \/ TaskStep(r) \/ TimerFires(r)
        PROVE  UNCHANGED <<fleet, slots>>
    BY <2>8 DEF RejectUninitialized, Enqueue, Saturate, RefuseSticky, QueueTimeout, Call,
         ClientDown, TaskStep, TaskAbort, TaskStart, TaskResult, TaskCrash, TaskRetry,
         TaskTimeout, TimerFires
  <2>9. ASSUME NEW c \in Callers,
               RefuseCheckout(c) \/ StreamCall(c) \/ StreamEnd(c) \/ StreamKilled(c)
        PROVE  UNCHANGED <<fleet, slots>>
    BY <2>9 DEF RefuseCheckout, StreamCall, StreamEnd, StreamKilled
  <2>10. ASSUME NEW w \in Workers,
                \/ WorkerStep(w) \/ TaintExpires(w) \/ InitReport
                \/ \E s \in Sessions : CacheExpires(s) \/ TaskStore(s, w)
         PROVE  UNCHANGED <<fleet, slots>>
    BY <2>10 DEF WorkerStep, WorkerReports, WorkerRestart, WorkerGone, TaintExpires, InitReport,
         CacheExpires, TaskStore
  <2>11. CASE InitReport \/ \E s \in Sessions : CacheExpires(s)
    BY <2>1, <2>11 DEF InitReport, CacheExpires
  <2>12. CASE UNCHANGED vars
    BY <2>1, <2>12 DEF vars
  <2> QED
    BY <2>1, <2>2, <2>3, <2>4, <2>5, <2>6, <2>7, <2>8, <2>9, <2>10, <2>11, <2>12
       DEF Next, PoolStep, HandleExecute, Quiescent, Callers
<1> QED BY <1>1, <1>2, TypeCorrect, PTL DEF Spec

----------------------------------------------------------------------------
(* No call is answered twice.                                              *)

\* What the mailbox may do to the stage of a call that a step is not about.
MailKeeps(r) ==
  /\ Asked(r) = {} => Asked(r)' = {}
  /\ (\A i, j \in Asked(r) : i = j) => (\A i, j \in Asked(r)' : i = j)

\* Handling a message, sending one that asks for no call, or both, keeps the
\* question of a call in the mailbox as it is.
LEMMA MailKept ==
  ASSUME mailbox \in Seq(Message), NEW r \in Requests,
         NEW m \in Message, m # FromMsg("execute", r),
         \/ mailbox' = mailbox
         \/ mailbox' = Append(mailbox, m)
         \/ mailbox # <<>> /\ mailbox' = Tail(mailbox)
         \/ mailbox # <<>> /\ mailbox' = Append(Tail(mailbox), m)
  PROVE  MailKeeps(r)
<1>1. CASE mailbox' = mailbox
  BY <1>1 DEF MailKeeps, Asked
<1>2. CASE mailbox' = Append(mailbox, m)
  <2>1. Asked(r)' = Asked(r)
    BY <1>2 DEF Asked
  <2> QED BY <2>1 DEF MailKeeps
<1>3. CASE mailbox # <<>> /\ mailbox' = Tail(mailbox)
  <2>1. \A i \in Asked(r)' : i \in Nat /\ i + 1 \in Asked(r)
    BY <1>3 DEF Asked
  <2> QED BY <2>1 DEF MailKeeps
<1>4. CASE mailbox # <<>> /\ mailbox' = Append(Tail(mailbox), m)
  <2>1. \A i \in Asked(r)' : i \in Nat /\ i + 1 \in Asked(r)
    BY <1>4 DEF Asked
  <2> QED BY <2>1 DEF MailKeeps
<1> QED BY <1>1, <1>2, <1>3, <1>4

\* Once the pool handles the only question of a call, none is left.
LEMMA MailConsumed ==
  ASSUME mailbox \in Seq(Message), NEW r \in Requests,
         Receive(FromMsg("execute", r)), Consume,
         \A i, j \in Asked(r) : i = j
  PROVE  Asked(r) # {} /\ Asked(r)' = {}
<1>1. 1 \in Asked(r)
  BY DEF Asked, Receive
<1>2. \A i \in Asked(r)' : i \in Nat \ {0} /\ i + 1 \in Asked(r)
  BY DEF Asked, Consume, Receive
<1> QED BY <1>1, <1>2

\* A step that leaves a call's task, replies and client alone, and at most
\* takes it out of the queue, keeps it in one stage.
LEMMA StageKept ==
  ASSUME NEW r \in Requests, InOneStage(r), MailKeeps(r),
         Queued(r)' \subseteq Queued(r),
         task'[r] = task[r], replies'[r] = replies[r],
         client'[r] = "idle" => client[r] = "idle"
  PROVE  InOneStage(r)'
BY DEF InOneStage, MailKeeps

\* Only Pool.execute/3 asks for a call, and each question names its call.
LEMMA OtherMessages ==
  ASSUME NEW r \in Requests
  PROVE  /\ \A c \in Callers : /\ FromMsg("checkout", c) # FromMsg("execute", r)
                               /\ FromMsg("queue_timeout", c) # FromMsg("execute", r)
                               /\ FromMsg("execute", c) = FromMsg("execute", r) => c = r
         /\ \A w \in Workers : /\ WorkerMsg("checkin", w) # FromMsg("execute", r)
                               /\ WorkerMsg("skip", w) # FromMsg("execute", r)
                               /\ WorkerMsg("ready", w) # FromMsg("execute", r)
         /\ InitComplete # FromMsg("execute", r)
BY DEF FromMsg, WorkerMsg, InitComplete

\* A step that only sends or handles messages other than questions, and leaves
\* the queue, the tasks, the replies and the clients alone, keeps every call
\* in one stage.
LEMMA QuietStep ==
  ASSUME TypeOK, OneStage, NEW m \in Message, \A r \in Requests : m # FromMsg("execute", r),
         \/ mailbox' = mailbox
         \/ mailbox' = Append(mailbox, m)
         \/ mailbox # <<>> /\ mailbox' = Tail(mailbox)
         \/ mailbox # <<>> /\ mailbox' = Append(Tail(mailbox), m),
         UNCHANGED <<queue, task, replies, client>>
  PROVE  OneStage'
<1> SUFFICES ASSUME NEW r \in Requests PROVE InOneStage(r)'
  BY DEF OneStage
<1>1. MailKeeps(r)
  BY MailKept DEF TypeOK
<1> QED BY <1>1, StageKept DEF OneStage, Queued

\* A step about the task of one caller: a change of its phase after the call
\* has left the mailbox and the queue, with at most a reply that ends it.
LEMMA TaskMoves ==
  ASSUME TypeOK, OneStage, NEW c \in Callers, NEW m \in Message,
         \A r \in Requests : m # FromMsg("execute", r),
         \/ mailbox' = mailbox
         \/ mailbox' = Append(mailbox, m)
         \/ mailbox # <<>> /\ mailbox' = Tail(mailbox),
         task[c].phase \notin {"none", "done"},
         \A d \in Callers : d # c => task'[d] = task[d],
         task'[c].phase # "none",
         UNCHANGED <<queue, client>>,
         \/ replies' = replies
         \/ /\ c \in Requests /\ task'[c].phase = "done"
            /\ replies' = [replies EXCEPT ![c] = @ + 1]
  PROVE  OneStage'
<1> SUFFICES ASSUME NEW r \in Requests PROVE InOneStage(r)'
  BY DEF OneStage
<1>1. MailKeeps(r)
  BY MailKept DEF TypeOK
<1>2. InOneStage(r) /\ Queued(r)' = Queued(r) /\ replies \in [Requests -> Nat]
  BY DEF OneStage, Queued, TypeOK
<1>3. CASE r # c
  BY <1>1, <1>2, <1>3, StageKept DEF Callers
<1>4. CASE r = c
  <2>1. Asked(r) = {} /\ Queued(r) = {} /\ replies[r] = 0 /\ client[r] # "idle"
    BY <1>2, <1>4 DEF InOneStage
  <2>2. Asked(r)' = {} /\ Queued(r)' = {}
    BY <1>1, <1>2, <2>1 DEF MailKeeps
  <2>3. replies'[r] = 0 \/ (replies'[r] = 1 /\ task'[r].phase = "done")
    BY <1>2, <1>4, <2>1
  <2> QED BY <1>4, <2>1, <2>2, <2>3 DEF InOneStage
<1> QED BY <1>3, <1>4

\* A step about the question of call r0: the pool takes it from the mailbox
\* and rejects, queues or runs the call.
LEMMA QuestionAnswered ==
  ASSUME TypeOK, OneStage, NEW r0 \in Requests,
         Receive(FromMsg("execute", r0)), Consume, client' = client,
         \A r \in Requests \ {r0} : /\ Queued(r)' \subseteq Queued(r)
                                    /\ task'[r] = task[r] /\ replies'[r] = replies[r],
         \/ /\ replies'[r0] = replies[r0] + 1
            /\ Queued(r0)' \subseteq Queued(r0) /\ task'[r0] = task[r0]
         \/ /\ replies'[r0] = replies[r0] /\ task'[r0] = task[r0]
            /\ \E e0 : Queued(r0)' \subseteq Queued(r0) \cup {e0}
         \/ /\ replies'[r0] = replies[r0] /\ Queued(r0)' \subseteq Queued(r0)
  PROVE  OneStage'
<1> SUFFICES ASSUME NEW r \in Requests PROVE InOneStage(r)'
  BY DEF OneStage
<1>0. mailbox \in Seq(Message) /\ replies \in [Requests -> Nat] /\ InOneStage(r)
  BY DEF TypeOK, OneStage
<1>1. CASE r # r0
  <2>1. FromMsg("queue_timeout", r) \in Message /\ FromMsg("queue_timeout", r) # FromMsg("execute", r)
    BY MessageType, OtherMessages DEF Callers
  <2>2. MailKeeps(r)
    BY <1>0, <2>1, MailKept DEF Receive, Consume
  <2> QED BY <1>0, <1>1, <2>2, StageKept
<1>2. CASE r = r0
  <2>1. Asked(r) # {} /\ Asked(r)' = {}
    BY <1>0, <1>2, MailConsumed DEF InOneStage
  <2>2. Queued(r) = {} /\ task[r].phase = "none" /\ replies[r] = 0 /\ client[r] # "idle"
    BY <1>0, <2>1 DEF InOneStage
  <2> QED BY <1>2, <2>1, <2>2 DEF InOneStage
<1> QED BY <1>1, <1>2

\* Serving the queue moves a call from the queue to its task.
LEMMA ServeQueueStage ==
  ASSUME TypeOK, OneStage, NEW w \in Workers, NEW ld, NEW av \in SUBSET Workers,
         mailbox # <<>>, UNCHANGED clients, ServeQueue(w, ld, av)
  PROVE  OneStage'
<1>0. client' = client /\ replies' = replies
  BY DEF clients
<1>1. PICK kept \in Kept :
        LeaveQueue(w, ld, av, kept) \/ \E q \in QueueWorkers(w, av) : PopQueue(q, ld, av, kept)
  BY DEF ServeQueue
<1>2. CASE LeaveQueue(w, ld, av, kept)
  <2>1. /\ InitComplete \in Message
        /\ \A r \in Requests : InitComplete # FromMsg("execute", r)
    BY MessageType, OtherMessages
  <2> QED BY <1>0, <1>2, <2>1, QuietStep DEF LeaveQueue, Consume
<1>3. ASSUME NEW q \in QueueWorkers(w, av), PopQueue(q, ld, av, kept) PROVE OneStage'
  <2>1. PICK e \in queue :
          /\ queue' = queue \ {e}
          /\ SkipCancelled(e, q, ld, av, kept) \/ RunQueued(e, q, ld, av, kept)
    BY <1>3 DEF PopQueue
  <2>2. q \in Workers /\ e.from \in Requests
    BY DEF QueueWorkers, TypeOK, Entry
  <2> SUFFICES ASSUME NEW r \in Requests PROVE InOneStage(r)'
    BY DEF OneStage
  <2>3. WorkerMsg("skip", q) \in Message /\ WorkerMsg("skip", q) # FromMsg("execute", r)
    BY <2>2, MessageType, OtherMessages
  <2>4. MailKeeps(r)
    BY <2>1, <2>3, MailKept DEF SkipCancelled, RunQueued, Consume, TypeOK
  <2>5. Queued(r)' = Queued(r) \ {e} /\ InOneStage(r)
    BY <2>1 DEF Queued, OneStage
  <2>6. CASE task'[r] = task[r]
    BY <1>0, <2>4, <2>5, <2>6, StageKept
  <2>7. CASE e.from = r /\ RunQueued(e, q, ld, av, kept)
    <3>1. e \in Queued(r)
      BY <2>7 DEF Queued
    <3>2. Queued(r)' = {} /\ Asked(r) = {} /\ Asked(r)' = {} /\ replies[r] = 0 /\ client[r] # "idle"
      BY <2>4, <2>5, <3>1 DEF InOneStage, MailKeeps
    <3> QED BY <1>0, <3>2 DEF InOneStage
  <2>8. task'[r] = task[r] \/ (e.from = r /\ RunQueued(e, q, ld, av, kept))
    BY <2>1 DEF SkipCancelled, RunQueued, TypeOK, Callers
  <2> QED BY <2>6, <2>7, <2>8
<1> QED BY <1>1, <1>2, <1>3

\* Every call is in one stage at a time, in every behaviour.
THEOREM CallsInOneStage == Spec => []OneStage
<1> USE PoolAssumption
<1>1. Init => OneStage
  <2> SUFFICES ASSUME Init, NEW r \in Requests PROVE InOneStage(r)
    BY DEF OneStage
  <2>1. Asked(r) = {} /\ Queued(r) = {}
    BY DEF Init, Asked, Queued
  <2>2. task[r].phase = "none" /\ replies[r] = 0
    BY TaskType DEF Init, Callers
  <2> QED BY <2>1, <2>2 DEF InOneStage
<1>2. TypeOK /\ OneStage /\ [Next]_vars => OneStage'
  <2> SUFFICES ASSUME TypeOK, OneStage, [Next]_vars PROVE OneStage'
    OBVIOUS
  <2> USE DEF admin, fleet, slots, waiting, sticky, clients, procs
  <2>0. /\ InitComplete \in Message
        /\ \A r \in Requests : InitComplete # FromMsg("execute", r)
        /\ \A w \in Workers, k \in {"checkin", "skip", "ready"} :
             /\ WorkerMsg(k, w) \in Message
             /\ \A r \in Requests : WorkerMsg(k, w) # FromMsg("execute", r)
        /\ \A c \in Callers, k \in {"checkout", "queue_timeout"} :
             /\ FromMsg(k, c) \in Message
             /\ \A r \in Requests : FromMsg(k, c) # FromMsg("execute", r)
    BY MessageType, OtherMessages
  <2>1. ASSUME NEW r0 \in Requests, RejectUninitialized(r0) PROVE OneStage'
    BY <2>1, QuestionAnswered DEF RejectUninitialized, Reply, TypeOK, Queued
  <2>2. ASSUME NEW r0 \in Requests, Dispatch(r0) PROVE OneStage'
    <3>1. PICK w, kept : task' = [task EXCEPT ![r0] = Spawn(w, FALSE)] /\ queue' = Compacted(kept)
      BY <2>2 DEF Dispatch
    <3>2. \A r \in Requests : Queued(r)' \subseteq Queued(r)
      BY <3>1 DEF Queued, Compacted
    <3>3. \A r \in Requests \ {r0} : task'[r] = task[r]
      BY <3>1 DEF TypeOK, Callers
    <3> QED BY <2>2, <3>2, <3>3, QuestionAnswered DEF Dispatch
  <2>3. ASSUME NEW r0 \in Requests, Enqueue(r0) PROVE OneStage'
    <3>0. PICK c \in Checkout(r0), kept \in Kept :
            queue' = Compacted(kept) \cup {[from |-> r0, affinity |-> c.worker, at |-> clock]}
      BY <2>3 DEF Enqueue
    <3> DEFINE e0 == [from |-> r0, affinity |-> c.worker, at |-> clock]
    <3>1. queue' = Compacted(kept) \cup {e0} /\ e0.from = r0
      BY <3>0
    <3> HIDE DEF e0
    <3>2. \A r \in Requests \ {r0} : Queued(r)' \subseteq Queued(r)
      BY <3>1 DEF Queued, Compacted
    <3>3. Queued(r0)' \subseteq Queued(r0) \cup {e0}
      BY <3>1 DEF Queued, Compacted
    <3> QED BY <2>3, <3>2, <3>3, QuestionAnswered DEF Enqueue
  <2>4. ASSUME NEW r0 \in Requests, Saturate(r0) \/ RefuseSticky(r0) PROVE OneStage'
    <3>1. \A r \in Requests : Queued(r)' \subseteq Queued(r)
      BY <2>4 DEF Saturate, RefuseSticky, Queued, Compacted
    <3>2. replies' = [replies EXCEPT ![r0] = @ + 1] /\ replies \in [Requests -> Nat]
      BY <2>4 DEF Saturate, RefuseSticky, Reply, TypeOK
    <3> QED BY <2>4, <3>1, <3>2, QuestionAnswered DEF Saturate, RefuseSticky
  <2>5. ASSUME NEW r0 \in Requests, QueueTimeout(r0) PROVE OneStage'
    <3> SUFFICES ASSUME NEW r \in Requests PROVE InOneStage(r)'
      BY DEF OneStage
    <3>0. InOneStage(r) /\ replies \in [Requests -> Nat]
      BY DEF OneStage, TypeOK
    <3>1. MailKeeps(r)
      BY <2>0, <2>5, MailKept DEF QueueTimeout, Receive, Consume, TypeOK
    <3>2. Queued(r)' \subseteq Queued(r)
      BY <2>5 DEF QueueTimeout, Without, Queued
    <3>3. CASE replies'[r] = replies[r]
      BY <2>5, <3>0, <3>1, <3>2, <3>3, StageKept DEF QueueTimeout
    <3>4. CASE r = r0 /\ Queued(r) # {}
      <4>1. Queued(r)' = {} /\ replies'[r] = replies[r] + 1
        BY <2>5, <3>0, <3>4 DEF QueueTimeout, Without, Queued, Reply
      <4>2. Asked(r)' = {} /\ replies[r] = 0 /\ task[r].phase = "none" /\ client[r] # "idle"
        BY <3>0, <3>1, <3>4 DEF InOneStage, MailKeeps
      <4> QED BY <2>5, <4>1, <4>2 DEF QueueTimeout, InOneStage
    <3>5. replies'[r] = replies[r] \/ (r = r0 /\ Queued(r) # {})
      BY <2>5, <3>0 DEF QueueTimeout, Reply, Queued
    <3> QED BY <3>3, <3>4, <3>5
  <2>6. ASSUME NEW c \in Callers, GrantCheckout(c) PROVE OneStage'
    <3>1. CASE task[c].phase # "checkout"
      BY <2>0, <2>6, <3>1, QuietStep DEF GrantCheckout, Receive, Consume
    <3>2. CASE task[c].phase = "checkout"
      <4>1. PICK a \in Checkout(c) :
              a.status = "ok" /\ task' = [task EXCEPT ![c] = Resumed(@, a.worker)]
        BY <2>6, <3>2 DEF GrantCheckout
      <4>2. Resumed(task[c], a.worker).phase = "running"
        BY DEF Resumed, TypeOK, Task
      <4>3. /\ \A d \in Callers : d # c => task'[d] = task[d]
            /\ task'[c].phase = "running"
        BY <4>1, <4>2 DEF TypeOK
      <4> QED BY <2>0, <2>6, <3>2, <4>3, TaskMoves DEF GrantCheckout, Receive, Consume
    <3> QED BY <3>1, <3>2
  <2>7. ASSUME NEW c \in Callers, RefuseCheckout(c) PROVE OneStage'
    <3>1. CASE task[c].phase # "checkout"
      BY <2>0, <2>7, <3>1, QuietStep DEF RefuseCheckout, Receive, Consume
    <3>2. CASE task[c].phase = "checkout"
      <4>1. task' = [task EXCEPT ![c] = Finished]
        BY <2>7, <3>2 DEF RefuseCheckout
      <4>2. /\ \A d \in Callers : d # c => task'[d] = task[d]
            /\ task'[c].phase = "done"
        BY <4>1, TaskType DEF TypeOK
      <4>3. replies' = replies \/ (c \in Requests /\ replies' = [replies EXCEPT ![c] = @ + 1])
        BY <2>7, <3>2 DEF RefuseCheckout, ReplyIfAlive, Reply
      <4> QED BY <2>0, <2>7, <3>2, <4>2, <4>3, TaskMoves DEF RefuseCheckout, Receive, Consume
    <3> QED BY <3>1, <3>2
  <2>8. ASSUME NEW w \in Workers, Checkin(w) \/ DriveQueue(w) PROVE OneStage'
    <3>1. Refresh(available, w, Decremented(w)) \in SUBSET Workers /\ available \in SUBSET Workers
      BY DEF Refresh, TypeOK
    <3> QED BY <2>8, <3>1, ServeQueueStage DEF Checkin, DriveQueue, Receive
  <2>9. ASSUME NEW w \in Workers, WorkerReady(w) PROVE OneStage'
    BY <2>0, <2>9, QuietStep DEF WorkerReady, Receive
  <2>10. CASE MergeInit
    BY <2>0, <2>10, QuietStep DEF MergeInit, Receive, Consume
  <2>11. ASSUME NEW r0 \in Requests, Call(r0) PROVE OneStage'
    <3> SUFFICES ASSUME NEW r \in Requests PROVE InOneStage(r)'
      BY DEF OneStage
    <3>0. InOneStage(r) /\ mailbox \in Seq(Message)
      BY DEF OneStage, TypeOK
    <3>1. CASE r # r0
      <4>1. FromMsg("execute", r0) \in Message /\ FromMsg("execute", r0) # FromMsg("execute", r)
        BY <3>1, MessageType, OtherMessages DEF Callers
      <4>2. MailKeeps(r)
        BY <2>11, <3>0, <4>1, MailKept DEF Call, Send
      <4>3. client'[r] = client[r]
        BY <2>11, <3>1 DEF Call, TypeOK
      <4> QED BY <2>11, <3>0, <4>2, <4>3, StageKept DEF Call, Queued
    <3>2. CASE r = r0
      <4>1. /\ Asked(r) = {} /\ Queued(r) = {} /\ replies[r] = 0
            /\ task[r].phase = "none"
        BY <2>11, <3>0, <3>2 DEF Call, InOneStage
      <4>2. \A i \in Asked(r)' : i = Len(mailbox) + 1
        BY <2>11, <3>0, <4>1 DEF Call, Send, Asked
      <4>3. client'[r] = "live"
        BY <2>11, <3>2 DEF Call, TypeOK
      <4> QED BY <2>11, <4>1, <4>2, <4>3 DEF Call, InOneStage, Queued
    <3> QED BY <3>1, <3>2
  <2>12. ASSUME NEW r0 \in Requests, ClientDown(r0) PROVE OneStage'
    <3> SUFFICES ASSUME NEW r \in Requests PROVE InOneStage(r)'
      BY DEF OneStage
    <3> QED BY <2>12 DEF ClientDown, OneStage, InOneStage, Asked, Queued, TypeOK
  <2>13. ASSUME NEW r0 \in Requests, TaskStep(r0) PROVE OneStage'
    <3>1. r0 \in Callers /\ task \in [Callers -> Task] /\ Finished.phase = "done"
      BY TaskType DEF Callers, TypeOK
    <3>2. CASE TaskAbort(r0)
      <4>1. task[r0].worker \in Workers
        BY <3>1, <3>2 DEF TaskAbort, TypeOK, Active
      <4> QED BY <2>0, <3>1, <3>2, <4>1, TaskMoves DEF TaskAbort, Send
    <3>3. CASE TaskStart(r0)
      <4>1. [task[r0] EXCEPT !.phase = "running"].phase = "running"
        BY <3>1 DEF Task
      <4> QED BY <2>0, <3>1, <3>3, <4>1, TaskMoves DEF TaskStart
    <3>4. CASE TaskResult(r0)
      <4>1. task[r0].worker \in Workers
        BY <3>1, <3>4 DEF TaskResult, TypeOK, Active
      <4> QED BY <2>0, <3>1, <3>4, <4>1, TaskMoves DEF TaskResult, ReplyIfAlive, Reply, Send
    <3>5. CASE TaskCrash(r0)
      <4>1. Backoff(task[r0]).phase = "backoff"
        BY <3>1, TaskChange
      <4>2. CASE RetryAllowed(r0)
        BY <2>0, <3>1, <3>5, <4>1, <4>2, TaskMoves DEF TaskCrash
      <4>3. CASE ~RetryAllowed(r0)
        BY <2>0, <3>1, <3>5, <4>3, TaskMoves DEF TaskCrash, ReplyIfAlive, Reply
      <4> QED BY <4>2, <4>3
    <3>6. CASE TaskRetry(r0)
      <4>1. Retrying(task[r0]).phase = "checkout"
        BY <3>1, TaskChange
      <4>2. \/ /\ task' = [task EXCEPT ![r0] = Retrying(@)]
               /\ mailbox' = Append(mailbox, FromMsg("checkout", r0))
            \/ task' = [task EXCEPT ![r0] = Finished] /\ mailbox' = mailbox
        BY <3>6, Zenon DEF TaskRetry, Send
      <4> QED BY <2>0, <3>1, <3>6, <4>1, <4>2, TaskMoves DEF TaskRetry
    <3>7. CASE TaskTimeout(r0)
      BY <2>0, <3>1, <3>7, TaskMoves DEF TaskTimeout
    <3> QED BY <2>13, <3>2, <3>3, <3>4, <3>5, <3>6, <3>7 DEF TaskStep
  <2>14. ASSUME NEW r0 \in Requests, TimerFires(r0) PROVE OneStage'
    BY <2>0, <2>14, QuietStep DEF TimerFires, Send, Callers
  <2>15. ASSUME NEW s \in Streams, StreamCall(s) \/ StreamEnd(s) \/ StreamKilled(s) PROVE OneStage'
    <3>1. s \in Callers /\ s \notin Requests /\ task \in [Callers -> Task] /\ Finished.phase = "done"
      BY TaskType DEF Callers, TypeOK
    <3>2. CASE StreamCall(s)
      <4> SUFFICES ASSUME NEW r \in Requests PROVE InOneStage(r)'
        BY DEF OneStage
      <4>1. MailKeeps(r)
        BY <2>0, <3>1, <3>2, MailKept DEF StreamCall, Send, TypeOK
      <4>2. task'[r] = task[r]
        BY <3>1, <3>2 DEF StreamCall, Callers
      <4> QED BY <3>2, <4>1, <4>2, StageKept DEF StreamCall, OneStage, Queued
    <3>3. CASE StreamEnd(s)
      <4>1. task[s].worker \in Workers
        BY <3>1, <3>3 DEF StreamEnd, TypeOK, Active
      <4> QED BY <2>0, <3>1, <3>3, <4>1, TaskMoves DEF StreamEnd, Send
    <3>4. CASE StreamKilled(s)
      BY <2>0, <3>1, <3>4, TaskMoves DEF StreamKilled
    <3> QED BY <2>15, <3>2, <3>3, <3>4
  <2>16. ASSUME NEW w \in Workers, WorkerStep(w) \/ TaintExpires(w) PROVE OneStage'
    BY <2>0, <2>16, QuietStep DEF WorkerStep, WorkerReports, WorkerRestart, WorkerGone,
         TaintExpires, Send
  <2>17. ASSUME NEW s \in Sessions,
                CacheExpires(s) \/ \E w \in Workers : TaskStore(s, w)
         PROVE  OneStage'
    BY <2>0, <2>17, QuietStep DEF CacheExpires, TaskStore
  <2>18. CASE InitReport
    BY <2>0, <2>18, QuietStep DEF InitReport, Send
  <2>19. CASE UNCHANGED vars
    BY <2>0, <2>19, QuietStep DEF vars
  <2> QED
    BY <2>1, <2>2, <2>3, <2>4, <2>5, <2>6, <2>7, <2>8, <2>9, <2>10, <2>11, <2>12, <2>13,
       <2>14, <2>15, <2>16, <2>17, <2>18, <2>19
       DEF Next, PoolStep, HandleExecute, Quiescent
<1> QED BY <1>1, <1>2, TypeCorrect, PTL DEF Spec

\* No client is replied to twice: not by its queue timeout and the task that
\* a checkin started, nor by a retry and the attempt before it.
THEOREM NoCallAnsweredTwice == Spec => []AnsweredOnce
<1>1. OneStage => AnsweredOnce
  BY DEF OneStage, InOneStage, AnsweredOnce
<1> QED BY <1>1, CallsInOneStage, PTL

----------------------------------------------------------------------------
(* How often a message waits in a mailbox.                                 *)

Copies(q, m) == {i \in DOMAIN q : q[i] = m}
Count(q, m)   == Cardinality(Copies(q, m))

\* A mailbox holds finitely many copies of a message.
LEMMA CountType ==
  ASSUME NEW S, NEW q \in Seq(S), NEW m
  PROVE  /\ IsFiniteSet(Copies(q, m))
         /\ Count(q, m) \in Nat
         /\ Count(q, m) = 0 <=> Copies(q, m) = {}
<1>1. IsFiniteSet(1..Len(q))
  BY FS_Interval
<1>2. IsFiniteSet(Copies(q, m))
  <2>1. Copies(q, m) \in SUBSET (1..Len(q))
    BY DEF Copies
  <2> QED BY <1>1, <2>1, FS_Subset
<1> QED BY <1>2, FS_CardinalityType, FS_EmptySet DEF Count

\* A message that is sent is there once more.
LEMMA CountAppend ==
  ASSUME NEW S, NEW q \in Seq(S), NEW s \in S, NEW m
  PROVE  /\ Count(q, m) \in Nat /\ Count(Append(q, s), m) \in Nat
         /\ m = s => Count(Append(q, s), m) = Count(q, m) + 1
         /\ m # s => Count(Append(q, s), m) = Count(q, m)
<1> DEFINE p == Append(q, s)
<1>1. /\ p \in Seq(S)
      /\ Len(q) \in Nat /\ Len(p) = Len(q) + 1 /\ p[Len(q) + 1] = s
      /\ \A i \in 1..Len(q) : p[i] = q[i]
      /\ DOMAIN q = 1..Len(q) /\ DOMAIN p = 1..Len(p)
  OBVIOUS
<1> HIDE DEF p
<1>2. /\ m = s => Copies(p, m) = Copies(q, m) \cup {Len(q) + 1}
      /\ m # s => Copies(p, m) = Copies(q, m)
  BY <1>1 DEF Copies
<1>3. Len(q) + 1 \notin Copies(q, m)
  BY <1>1 DEF Copies
<1>4. IsFiniteSet(Copies(q, m)) /\ Count(q, m) \in Nat /\ Count(p, m) \in Nat
  BY <1>1, CountType
<1>5. Cardinality(Copies(q, m) \cup {Len(q) + 1}) = Cardinality(Copies(q, m)) + 1
  BY <1>3, <1>4, FS_AddElement
<1>6. /\ m = s => Count(p, m) = Count(q, m) + 1
      /\ m # s => Count(p, m) = Count(q, m)
  BY <1>2, <1>5 DEF Count
<1> QED BY <1>4, <1>6 DEF p

\* A message that is handled is there once less.
LEMMA CountTail ==
  ASSUME NEW S, NEW q \in Seq(S), q # <<>>, NEW m
  PROVE  /\ Count(Tail(q), m) \in Nat /\ Count(q, m) \in Nat
         /\ m = Head(q) => Count(q, m) = Count(Tail(q), m) + 1
         /\ m # Head(q) => Count(q, m) = Count(Tail(q), m)
<1> DEFINE t == Tail(q)
           A == Copies(t, m)
           B == Copies(q, m) \ {1}
           f == [i \in A |-> i + 1]
<1>1. /\ Len(q) \in Nat \ {0} /\ Len(t) = Len(q) - 1 /\ q[1] = Head(q) /\ t \in Seq(S)
      /\ \A i \in 1..Len(t) : t[i] = q[i + 1]
      /\ DOMAIN q = 1..Len(q) /\ DOMAIN t = 1..Len(t)
  OBVIOUS
<1> HIDE DEF t
<1>2. \A i \in A : i \in Nat \ {0} /\ i + 1 \in B
  BY <1>1 DEF Copies
<1>3. \A j \in B : j - 1 \in A /\ (j - 1) + 1 = j
  BY <1>1 DEF Copies
<1>4. f \in Bijection(A, B)
  <2> HIDE DEF A, B
  <2>1. f \in [A -> B]
    BY <1>2
  <2>2. \A i, j \in A : f[i] = f[j] => i = j
    BY <1>2
  <2>3. \A j \in B : \E i \in A : f[i] = j
    <3> SUFFICES ASSUME NEW j \in B PROVE f[j - 1] = j /\ j - 1 \in A
      OBVIOUS
    <3> QED BY <1>3
  <2> QED BY <2>1, <2>2, <2>3 DEF Bijection, Injection, Surjection, IsInjective
<1>5. IsFiniteSet(A) /\ IsFiniteSet(Copies(q, m)) /\ Count(t, m) \in Nat /\ Count(q, m) \in Nat
  BY <1>1, CountType
<1>6. Cardinality(B) = Cardinality(A)
  BY <1>4, <1>5, FS_Bijection DEF ExistsBijection
<1>7. 1 \in Copies(q, m) <=> m = Head(q)
  BY <1>1 DEF Copies
<1>8. /\ m = Head(q) => Cardinality(B) = Count(q, m) - 1
      /\ m # Head(q) => Cardinality(B) = Count(q, m)
  BY <1>5, <1>7, FS_RemoveElement DEF Count
<1>9. /\ m = Head(q) => Count(q, m) = Count(t, m) + 1
      /\ m # Head(q) => Count(q, m) = Count(t, m)
  BY <1>5, <1>6, <1>8 DEF Count
<1> QED BY <1>5, <1>9 DEF t

\* The operators of Pool in these terms.
LEMMA PoolCounts ==
  ASSUME mailbox \in Seq(Message), NEW m
  PROVE  /\ Cardinality(Pending(m)) = Count(mailbox, m)
         /\ Pending(m) # {} <=> Count(mailbox, m) # 0
         /\ Count(mailbox, m) \in Nat
<1>1. Pending(m) = Copies(mailbox, m)
  BY DEF Pending, Copies
<1> QED BY <1>1, CountType DEF Count

\* A callback takes its message from the mailbox, and may leave one behind.
LEMMA ConsumeCounts ==
  ASSUME mailbox \in Seq(Message), NEW m, Receive(m), Consume, NEW n
  PROVE  /\ n = m => Count(mailbox, n) = Count(mailbox', n) + 1
         /\ n # m => Count(mailbox, n) = Count(mailbox', n)
         /\ Count(mailbox', n) \in Nat /\ Count(mailbox, n) \in Nat
<1>1. mailbox # <<>> /\ Head(mailbox) = m /\ mailbox' = Tail(mailbox)
  BY DEF Receive, Consume
<1> QED BY <1>1, CountTail

\* Anyone else adds a message to the mailbox.
LEMMA SendCounts ==
  ASSUME mailbox \in Seq(Message), NEW m \in Message, Send(m), NEW n
  PROVE  /\ n = m => Count(mailbox', n) = Count(mailbox, n) + 1
         /\ n # m => Count(mailbox', n) = Count(mailbox, n)
         /\ Count(mailbox', n) \in Nat /\ Count(mailbox, n) \in Nat
<1>1. mailbox' = Append(mailbox, m)
  BY DEF Send
<1> QED BY <1>1, CountAppend

\* A callback that sends its own process a message.
LEMMA ForwardCounts ==
  ASSUME mailbox \in Seq(Message), NEW m, Receive(m), NEW k \in Message,
         mailbox' = Append(Tail(mailbox), k), NEW n
  PROVE  /\ n = m /\ n # k => Count(mailbox, n) = Count(mailbox', n) + 1
         /\ n # m /\ n = k => Count(mailbox', n) = Count(mailbox, n) + 1
         /\ (n = m <=> n = k) => Count(mailbox', n) = Count(mailbox, n)
         /\ Count(mailbox', n) \in Nat /\ Count(mailbox, n) \in Nat
<1>1. /\ mailbox # <<>> /\ Head(mailbox) = m
      /\ Tail(mailbox) \in Seq(Message)
  BY DEF Receive
<1>2. /\ Count(Tail(mailbox), n) \in Nat /\ Count(mailbox, n) \in Nat
      /\ n = m => Count(mailbox, n) = Count(Tail(mailbox), n) + 1
      /\ n # m => Count(mailbox, n) = Count(Tail(mailbox), n)
  BY <1>1, CountTail
<1>3. /\ n = k => Count(mailbox', n) = Count(Tail(mailbox), n) + 1
      /\ n # k => Count(mailbox', n) = Count(Tail(mailbox), n)
      /\ Count(mailbox', n) \in Nat
  BY <1>1, CountAppend
<1> QED BY <1>2, <1>3

----------------------------------------------------------------------------
(* A queued call hears of its timeout.                                     *)

\* A request is marked as cancelled by the timeout that answers it.
CancelledAnswered == \A r \in cancelled : replies[r] # 0

\* The invariant behind QueuedWillTimeOut: compaction only drops entries whose
\* client is dead, since what was cancelled has left the queue.
TimeoutsSure == CancelledAnswered /\ QueuedWillTimeOut

\* A message the pool does not handle in this step stays in the mailbox.
LEMMA PendingKept ==
  ASSUME mailbox \in Seq(Message), NEW n, Pending(n) # {}, NEW k \in Message,
         \/ mailbox' = mailbox
         \/ mailbox' = Append(mailbox, k)
         \/ mailbox # <<>> /\ Head(mailbox) # n /\ mailbox' = Tail(mailbox)
         \/ mailbox # <<>> /\ Head(mailbox) # n /\ mailbox' = Append(Tail(mailbox), k)
  PROVE  Pending(n)' # {}
<1>1. mailbox' \in Seq(Message)
  <2>1. mailbox # <<>> => Tail(mailbox) \in Seq(Message)
    OBVIOUS
  <2>2. Append(mailbox, k) \in Seq(Message)
    OBVIOUS
  <2>3. mailbox # <<>> => Append(Tail(mailbox), k) \in Seq(Message)
    BY <2>1
  <2> QED BY <2>1, <2>2, <2>3
<1>2. Count(mailbox, n) # 0 /\ Count(mailbox, n) \in Nat
  BY PoolCounts
<1>3. Count(mailbox', n) # 0
  <2>1. CASE mailbox' = mailbox
    BY <1>2, <2>1
  <2>2. CASE mailbox' = Append(mailbox, k)
    BY <1>2, <2>2, SendCounts DEF Send
  <2>3. CASE mailbox # <<>> /\ Head(mailbox) # n /\ mailbox' = Tail(mailbox)
    BY <1>2, <2>3, ConsumeCounts DEF Receive, Consume
  <2>4. CASE mailbox # <<>> /\ Head(mailbox) # n /\ mailbox' = Append(Tail(mailbox), k)
    BY <1>2, <2>4, ForwardCounts DEF Receive
  <2> QED BY <2>1, <2>2, <2>3, <2>4
<1>4. Pending(n)' = Copies(mailbox', n)
  BY DEF Pending, Copies
<1> QED BY <1>1, <1>3, <1>4, CountType

\* What a queued call is not: answered, cancelled, or queued twice.
LEMMA QueuedOnce ==
  ASSUME TypeOK, OneStage, CancelledAnswered, NEW e \in queue
  PROVE  /\ e.from \in Requests /\ e.from \notin cancelled
         /\ \A f \in queue : f.from = e.from => f = e
         /\ replies[e.from] = 0 /\ client[e.from] # "idle"
         /\ Asked(e.from) = {} /\ task[e.from].phase = "none"
<1>1. e.from \in Requests /\ e \in Queued(e.from)
  BY DEF TypeOK, Entry, Queued
<1> QED BY <1>1 DEF OneStage, InOneStage, CancelledAnswered, Queued

\* A step replies to at most one call, and no reply is taken back.
LEMMA RepliesGrow ==
  ASSUME TypeOK, [Next]_vars
  PROVE  \A r \in Requests : replies[r] # 0 => replies'[r] # 0
<1> USE DEF admin, fleet, slots, waiting, sticky, clients, procs
<1>1. replies' = replies \/ \E r \in Requests : Reply(r)
  <2>1. ASSUME NEW r \in Requests,
               HandleExecute(r) \/ QueueTimeout(r)
        PROVE  replies' = replies \/ Reply(r)
    BY <2>1 DEF HandleExecute, RejectUninitialized, Dispatch, Enqueue, Saturate, RefuseSticky,
         QueueTimeout
  <2>2. ASSUME NEW c \in Callers, GrantCheckout(c) \/ RefuseCheckout(c)
        PROVE  replies' = replies \/ \E r \in Requests : Reply(r)
    BY <2>2 DEF GrantCheckout, RefuseCheckout, ReplyIfAlive
  <2>3. ASSUME NEW w \in Workers,
               \/ Checkin(w) \/ DriveQueue(w) \/ WorkerReady(w) \/ WorkerStep(w)
               \/ TaintExpires(w) \/ \E s \in Sessions : TaskStore(s, w)
        PROVE  replies' = replies
    BY <2>3 DEF Checkin, DriveQueue, WorkerReady, WorkerStep, WorkerReports, WorkerRestart,
         WorkerGone, TaintExpires, TaskStore
  <2>4. ASSUME NEW r \in Requests,
               Call(r) \/ ClientDown(r) \/ TaskStep(r) \/ TimerFires(r)
        PROVE  replies' = replies \/ Reply(r)
    BY <2>4 DEF Call, ClientDown, TaskStep, TaskAbort, TaskStart, TaskResult, TaskCrash,
         TaskRetry, TaskTimeout, TimerFires, ReplyIfAlive
  <2>5. ASSUME NEW s, \/ StreamCall(s) \/ StreamEnd(s) \/ StreamKilled(s) \/ CacheExpires(s)
        PROVE  replies' = replies
    BY <2>5 DEF StreamCall, StreamEnd, StreamKilled, CacheExpires
  <2>6. CASE MergeInit \/ InitReport \/ UNCHANGED vars
    BY <2>6 DEF MergeInit, InitReport, vars
  <2> QED
    BY <2>1, <2>2, <2>3, <2>4, <2>5, <2>6, Zenon DEF Next, PoolStep, Quiescent
<1> QED BY <1>1 DEF Reply, TypeOK

\* A step that leaves the queue and its timers alone, and handles no timeout.
LEMMA TimeoutsKept ==
  ASSUME TypeOK, OneStage, TimeoutsSure, NEW k \in Message,
         \A r \in Requests : replies[r] # 0 => replies'[r] # 0,
         \/ mailbox' = mailbox
         \/ mailbox' = Append(mailbox, k)
         \/ /\ mailbox # <<>> /\ \A r \in Requests : Head(mailbox) # FromMsg("queue_timeout", r)
            /\ mailbox' = Tail(mailbox) \/ mailbox' = Append(Tail(mailbox), k),
         queue' \subseteq queue, cancelled' \subseteq cancelled,
         \A e \in queue' : client'[e.from] = "live" =>
           client[e.from] = "live" /\ (e.from \in timers => e.from \in timers')
  PROVE  TimeoutsSure'
<1>1. CancelledAnswered'
  BY DEF TimeoutsSure, CancelledAnswered, TypeOK
<1>2. ASSUME NEW e \in queue', client'[e.from] = "live"
      PROVE  e.from \in timers' \/ Pending(FromMsg("queue_timeout", e.from))' # {}
  <2>1. e \in queue /\ client[e.from] = "live" /\ e.from \in Requests
    BY <1>2, QueuedOnce DEF TimeoutsSure
  <2>2. CASE e.from \in timers
    BY <1>2, <2>2
  <2>3. CASE Pending(FromMsg("queue_timeout", e.from)) # {}
    BY <2>1, <2>3, PendingKept DEF TypeOK
  <2> QED BY <2>1, <2>2, <2>3 DEF TimeoutsSure, QueuedWillTimeOut
<1> QED BY <1>1, <1>2 DEF TimeoutsSure, QueuedWillTimeOut

\* Compaction takes no timer from an entry that stays, nor from one whose
\* client lives.
LEMMA CompactionSpares ==
  ASSUME TypeOK, OneStage, CancelledAnswered, NEW kept \in Kept, NEW e \in queue,
         e \in Compacted(kept) \/ client[e.from] = "live"
  PROVE  e.from \notin Dropped(kept)
<1>1. kept \subseteq cancelled
  BY DEF Kept
<1>2. e \in Compacted(kept)
  BY <1>1, QueuedOnce DEF Compacted
<1> QED BY <1>2, QueuedOnce DEF Dropped

\* Pool messages are told apart by their kind and by who they name.
LEMMA KindsDiffer ==
  ASSUME NEW r \in Requests, NEW c
  PROVE  /\ FromMsg("execute", c) # FromMsg("queue_timeout", r)
         /\ FromMsg("checkout", c) # FromMsg("queue_timeout", r)
         /\ FromMsg("queue_timeout", c) = FromMsg("queue_timeout", r) => c = r
         /\ \A k : WorkerMsg(k, c) # FromMsg("queue_timeout", r)
         /\ InitComplete # FromMsg("queue_timeout", r)
BY DEF FromMsg, WorkerMsg, InitComplete

\* Serving the queue cancels the timer of the one call it takes.
LEMMA ServeQueueTimeouts ==
  ASSUME TypeOK, OneStage, TimeoutsSure, NEW w \in Workers,
         NEW ld, NEW av \in SUBSET Workers,
         mailbox # <<>>, \A r \in Requests : Head(mailbox) # FromMsg("queue_timeout", r),
         UNCHANGED clients, ServeQueue(w, ld, av)
  PROVE  TimeoutsSure'
<1>0. replies' = replies /\ client' = client
  BY DEF clients
<1>1. PICK kept \in Kept :
        LeaveQueue(w, ld, av, kept) \/ \E q \in QueueWorkers(w, av) : PopQueue(q, ld, av, kept)
  BY DEF ServeQueue
<1>2. kept \subseteq cancelled
  BY <1>1 DEF Kept
<1>3. CASE LeaveQueue(w, ld, av, kept)
  <2>1. InitComplete \in Message
    BY MessageType
  <2>2. /\ mailbox' = Tail(mailbox) /\ queue' = queue /\ timers' = timers
        /\ cancelled' \subseteq cancelled
    BY <1>2, <1>3 DEF LeaveQueue, Consume
  <2> QED BY <1>0, <2>1, <2>2, TimeoutsKept
<1>4. ASSUME NEW q \in QueueWorkers(w, av), PopQueue(q, ld, av, kept) PROVE TimeoutsSure'
  <2>1. PICK e \in queue :
          /\ queue' = queue \ {e} /\ timers' = timers \ {e.from}
          /\ SkipCancelled(e, q, ld, av, kept) \/ RunQueued(e, q, ld, av, kept)
    BY <1>4 DEF PopQueue
  <2>2. WorkerMsg("skip", q) \in Message
    BY MessageType DEF QueueWorkers
  <2>3. cancelled' \subseteq cancelled
    BY <1>2, <2>1 DEF SkipCancelled, RunQueued
  <2>4. mailbox' = Tail(mailbox) \/ mailbox' = Append(Tail(mailbox), WorkerMsg("skip", q))
    BY <2>1 DEF SkipCancelled, RunQueued, Consume
  <2>5. \A f \in queue' : f.from \in timers => f.from \in timers'
    BY <2>1, QueuedOnce DEF TimeoutsSure
  <2> QED BY <1>0, <2>1, <2>2, <2>3, <2>4, <2>5, TimeoutsKept
<1> QED BY <1>1, <1>3, <1>4

\* A call of Pool.execute/3, whether it is run, queued or refused, leaves the
\* timers of the queued calls of living clients alone.
LEMMA ExecuteTimeouts ==
  ASSUME TypeOK, OneStage, TimeoutsSure, NEW r \in Requests, HandleExecute(r),
         \A q \in Requests : replies[q] # 0 => replies'[q] # 0
  PROVE  TimeoutsSure'
<1> USE DEF admin, fleet, slots, waiting, sticky, clients, procs
<1>0. /\ InitComplete \in Message /\ client' = client
      /\ mailbox # <<>> /\ mailbox' = Tail(mailbox)
      /\ \A q \in Requests : Head(mailbox) # FromMsg("queue_timeout", q)
  <2>1. Receive(FromMsg("execute", r)) /\ Consume /\ client' = client
    BY DEF HandleExecute, RejectUninitialized, Dispatch, Enqueue, Saturate, RefuseSticky
  <2> QED BY <2>1, MessageType, KindsDiffer DEF Receive, Consume
<1>1. ASSUME NEW kept \in Kept, timers' = TimersLeft(kept),
             queue' \subseteq queue, queue' = Compacted(kept) \/ queue' = queue,
             cancelled' \subseteq cancelled
      PROVE  TimeoutsSure'
  <2>1. \A e \in queue' : client[e.from] = "live" /\ e.from \in timers => e.from \in timers'
    BY <1>1, CompactionSpares DEF TimersLeft, TimeoutsSure
  <2> QED BY <1>0, <1>1, <2>1, TimeoutsKept
<1>2. CASE RejectUninitialized(r)
  BY <1>0, <1>2, TimeoutsKept DEF RejectUninitialized
<1>3. CASE Dispatch(r)
  <2>1. PICK kept \in Kept : /\ queue' = Compacted(kept)
                             /\ cancelled' = kept \ Dropped(kept)
                             /\ timers' = TimersLeft(kept)
    BY <1>3 DEF Dispatch
  <2> QED BY <1>1, <2>1 DEF Kept, Compacted
<1>4. CASE Saturate(r)
  <2>1. PICK kept \in Kept : /\ queue' = Compacted(kept)
                             /\ cancelled' = kept \ Dropped(kept)
                             /\ timers' = TimersLeft(kept)
    BY <1>4 DEF Saturate
  <2> QED BY <1>1, <2>1 DEF Kept, Compacted
<1>5. CASE RefuseSticky(r)
  <2>1. PICK kept \in Kept : timers' = TimersLeft(kept)
    BY <1>5 DEF RefuseSticky
  <2>2. queue' = queue /\ cancelled' = cancelled
    BY <1>5 DEF RefuseSticky
  <2> QED BY <1>1, <2>1, <2>2
<1>6. CASE Enqueue(r)
  <2>1. PICK a \in Checkout(r), kept \in Kept :
          /\ queue' = Compacted(kept) \cup {[from |-> r, affinity |-> a.worker, at |-> clock]}
          /\ cancelled' = kept \ Dropped(kept)
          /\ timers' = TimersLeft(kept) \cup {r}
    BY <1>6 DEF Enqueue
  <2>2. CancelledAnswered'
    BY <2>1 DEF TimeoutsSure, CancelledAnswered, Kept, TypeOK
  <2>3. ASSUME NEW e \in queue', client'[e.from] = "live"
        PROVE  e.from \in timers' \/ Pending(FromMsg("queue_timeout", e.from))' # {}
    <3>1. CASE e \in Compacted(kept)
      <4>1. e \in queue /\ e.from \in Requests
        BY <3>1, QueuedOnce DEF Compacted, TimeoutsSure
      <4>2. CASE e.from \in timers
        BY <2>1, <3>1, <4>1, <4>2, CompactionSpares DEF TimersLeft, TimeoutsSure
      <4>3. CASE Pending(FromMsg("queue_timeout", e.from)) # {}
        BY <1>0, <4>1, <4>3, PendingKept DEF TypeOK
      <4> QED BY <1>0, <2>3, <4>1, <4>2, <4>3 DEF TimeoutsSure, QueuedWillTimeOut
    <3>2. CASE e = [from |-> r, affinity |-> a.worker, at |-> clock]
      BY <2>1, <3>2
    <3> QED BY <2>1, <3>1, <3>2
  <2> QED BY <2>2, <2>3 DEF TimeoutsSure, QueuedWillTimeOut
<1> QED BY <1>2, <1>3, <1>4, <1>5, <1>6 DEF HandleExecute

\* Compaction, retention, refusals, queue pops and timer messages leave the
\* invariant alone.
LEMMA TimeoutsAreSure == Spec => []TimeoutsSure
<1> USE PoolAssumption
<1>1. Init => TimeoutsSure
  BY DEF Init, TimeoutsSure, CancelledAnswered, QueuedWillTimeOut
<1>2. TypeOK /\ OneStage /\ TimeoutsSure /\ [Next]_vars => TimeoutsSure'
  <2> SUFFICES ASSUME TypeOK, OneStage, TimeoutsSure, [Next]_vars PROVE TimeoutsSure'
    OBVIOUS
  <2>0. \A r \in Requests : replies[r] # 0 => replies'[r] # 0
    BY RepliesGrow
  <2> USE DEF admin, fleet, slots, waiting, sticky, clients, procs
  <2>1. ASSUME UNCHANGED <<queue, timers, cancelled>>,
               \A r \in Requests : client'[r] = "live" => client[r] = "live" \/ Queued(r) = {},
               NEW k \in Message,
               \/ mailbox' = mailbox \/ mailbox' = Append(mailbox, k)
               \/ /\ mailbox # <<>>
                  /\ \A r \in Requests : Head(mailbox) # FromMsg("queue_timeout", r)
                  /\ mailbox' = Tail(mailbox) \/ mailbox' = Append(Tail(mailbox), k)
        PROVE  TimeoutsSure'
    <3>1. \A e \in queue' : client'[e.from] = "live" => client[e.from] = "live"
      BY <2>1 DEF TypeOK, Entry, Queued
    <3> QED BY <2>0, <2>1, <3>1, TimeoutsKept
  <2>2. ASSUME NEW r \in Requests, HandleExecute(r) PROVE TimeoutsSure'
    BY <2>0, <2>2, ExecuteTimeouts
  <2>3. ASSUME NEW r \in Requests, QueueTimeout(r) PROVE TimeoutsSure'
    <3>1. /\ mailbox # <<>> /\ Head(mailbox) = FromMsg("queue_timeout", r)
          /\ mailbox' = Tail(mailbox) /\ client' = client
      BY <2>3 DEF QueueTimeout, Receive, Consume
    <3>2. /\ \A e \in queue' : e \in queue /\ e.from # r /\ (e.from \in timers => e.from \in timers')
          /\ cancelled' \subseteq cancelled \/ (cancelled' \subseteq cancelled \cup {r} /\ Reply(r))
      BY <2>3 DEF QueueTimeout, Without, Kept
    <3>3. CancelledAnswered'
      BY <2>0, <3>2 DEF TimeoutsSure, CancelledAnswered, TypeOK, Reply
    <3>4. ASSUME NEW e \in queue', client'[e.from] = "live"
          PROVE  e.from \in timers' \/ Pending(FromMsg("queue_timeout", e.from))' # {}
      <4>1. e \in queue /\ e.from # r /\ e.from \in Requests /\ client[e.from] = "live"
        BY <3>1, <3>2, <3>4, QueuedOnce DEF TimeoutsSure
      <4>2. Head(mailbox) # FromMsg("queue_timeout", e.from) /\ InitComplete \in Message
        BY <3>1, <4>1, KindsDiffer, MessageType
      <4>3. CASE Pending(FromMsg("queue_timeout", e.from)) # {}
        BY <3>1, <4>2, <4>3, PendingKept DEF TypeOK
      <4> QED BY <3>2, <4>1, <4>3 DEF TimeoutsSure, QueuedWillTimeOut
    <3> QED BY <3>3, <3>4 DEF TimeoutsSure, QueuedWillTimeOut
  <2>4. ASSUME NEW r \in Requests, TimerFires(r) PROVE TimeoutsSure'
    <3>1. /\ FromMsg("queue_timeout", r) \in Message
          /\ mailbox' = Append(mailbox, FromMsg("queue_timeout", r))
          /\ timers' = timers \ {r}
          /\ UNCHANGED <<queue, client, cancelled>>
      BY <2>4, MessageType DEF TimerFires, Send, Callers
    <3>2. CancelledAnswered'
      BY <2>0, <3>1 DEF TimeoutsSure, CancelledAnswered, TypeOK
    <3>3. ASSUME NEW e \in queue', client'[e.from] = "live"
          PROVE  e.from \in timers' \/ Pending(FromMsg("queue_timeout", e.from))' # {}
      <4>1. Len(mailbox) + 1 \in Pending(FromMsg("queue_timeout", r))'
        BY <3>1 DEF Pending, TypeOK
      <4>2. CASE Pending(FromMsg("queue_timeout", e.from)) # {}
        BY <3>1, <4>2, PendingKept DEF TypeOK
      <4> QED BY <3>1, <3>3, <4>1, <4>2 DEF TimeoutsSure, QueuedWillTimeOut
    <3> QED BY <3>2, <3>3 DEF TimeoutsSure, QueuedWillTimeOut
  <2>5. ASSUME NEW w \in Workers, Checkin(w) \/ DriveQueue(w) PROVE TimeoutsSure'
    <3>1. Refresh(available, w, Decremented(w)) \in SUBSET Workers /\ available \in SUBSET Workers
      BY DEF Refresh, TypeOK
    <3>2. mailbox # <<>> /\ \A r \in Requests : Head(mailbox) # FromMsg("queue_timeout", r)
      BY <2>5, KindsDiffer DEF Checkin, DriveQueue, Receive
    <3> QED BY <2>5, <3>1, <3>2, ServeQueueTimeouts DEF Checkin, DriveQueue
  <2>6. ASSUME NEW c \in Callers, GrantCheckout(c) \/ RefuseCheckout(c) PROVE TimeoutsSure'
    <3>1. mailbox # <<>> /\ \A r \in Requests : Head(mailbox) # FromMsg("queue_timeout", r)
      BY <2>6, KindsDiffer DEF GrantCheckout, RefuseCheckout, Receive
    <3> QED BY <2>1, <2>6, <3>1, MessageType DEF GrantCheckout, RefuseCheckout, Consume
  <2>7. CASE MergeInit \/ \E w \in Workers : WorkerReady(w)
    <3>1. mailbox # <<>> /\ \A r \in Requests : Head(mailbox) # FromMsg("queue_timeout", r)
      BY <2>7, KindsDiffer DEF MergeInit, WorkerReady, Receive
    <3> QED BY <2>1, <2>7, <3>1, MessageType DEF MergeInit, WorkerReady, Consume
  <2>8. ASSUME NEW r \in Requests, Call(r) \/ ClientDown(r) PROVE TimeoutsSure'
    <3>1. \A q \in Requests : client'[q] = "live" => client[q] = "live" \/ Queued(q) = {}
      BY <2>8 DEF Call, ClientDown, TypeOK, OneStage, InOneStage
    <3> QED BY <2>1, <2>8, <3>1, MessageType DEF Call, ClientDown, Send, Callers
  <2>9. ASSUME NEW r \in Requests, TaskStep(r) PROVE TimeoutsSure'
    <3>1. UNCHANGED <<queue, timers, cancelled, client>>
      BY <2>9 DEF TaskStep, TaskAbort, TaskStart, TaskResult, TaskCrash, TaskRetry, TaskTimeout
    <3>2. r \in Callers /\ (Active(r) => task[r].worker \in Workers)
      BY DEF Callers, TypeOK
    <3>3. \E k \in Message : mailbox' = mailbox \/ mailbox' = Append(mailbox, k)
      <4>1. CASE TaskAbort(r) \/ TaskResult(r)
        BY <3>2, <4>1, MessageType DEF TaskAbort, TaskResult, Send, Active
      <4>2. CASE TaskStart(r) \/ TaskCrash(r) \/ TaskTimeout(r)
        BY <4>2, MessageType DEF TaskStart, TaskCrash, TaskTimeout
      <4>3. CASE TaskRetry(r)
        <5>1. mailbox' = mailbox \/ mailbox' = Append(mailbox, FromMsg("checkout", r))
          BY <4>3, Zenon DEF TaskRetry, Send
        <5> QED BY <3>2, <5>1, MessageType
      <4> QED BY <2>9, <4>1, <4>2, <4>3 DEF TaskStep
    <3> QED BY <2>1, <3>1, <3>3
  <2>10. ASSUME NEW s \in Streams, StreamCall(s) \/ StreamEnd(s) \/ StreamKilled(s)
         PROVE  TimeoutsSure'
    <3>1. s \in Callers /\ (Active(s) => task[s].worker \in Workers)
      BY DEF Callers, TypeOK
    <3>2. \E k \in Message : mailbox' = mailbox \/ mailbox' = Append(mailbox, k)
      BY <2>10, <3>1, MessageType DEF StreamCall, StreamEnd, StreamKilled, Send, Active
    <3> QED BY <2>1, <2>10, <3>2 DEF StreamCall, StreamEnd, StreamKilled
  <2>11. ASSUME NEW w \in Workers, WorkerStep(w) \/ TaintExpires(w) PROVE TimeoutsSure'
    BY <2>1, <2>11, MessageType DEF WorkerStep, WorkerReports, WorkerRestart, WorkerGone,
         TaintExpires, Send
  <2>12. ASSUME NEW s \in Sessions, CacheExpires(s) \/ \E w \in Workers : TaskStore(s, w)
         PROVE  TimeoutsSure'
    BY <2>1, <2>12, MessageType DEF CacheExpires, TaskStore
  <2>13. CASE InitReport \/ UNCHANGED vars
    BY <2>1, <2>13, MessageType DEF InitReport, vars, Send
  <2> QED
    BY <2>2, <2>3, <2>4, <2>5, <2>6, <2>7, <2>8, <2>9, <2>10, <2>11, <2>12, <2>13
       DEF Next, PoolStep, Quiescent
<1> QED BY <1>1, <1>2, TypeCorrect, CallsInOneStage, PTL DEF Spec

\* Every queued call of a living client will hear of its timeout, and what was
\* cancelled has left the queue, whatever compaction, retention, refusals and
\* timer messages do in between.
THEOREM QueuedCallsTimeOut == Spec => [](QueuedWillTimeOut /\ CancelledLeftQueue)
<1>1. TypeOK /\ OneStage /\ TimeoutsSure => QueuedWillTimeOut /\ CancelledLeftQueue
  BY QueuedOnce DEF TimeoutsSure, CancelledLeftQueue
<1> QED BY <1>1, TypeCorrect, CallsInOneStage, TimeoutsAreSure, PTL

----------------------------------------------------------------------------
(* No call of a living client is lost, but for one that is retried.        *)

Waits(r)  == client[r] = "live" /\ replies[r] = 0
Tasked(r) == task[r].phase \in {"spawned", "running", "backoff", "checkout"}

\* The call is somewhere: asked, queued or run.
Held(r) == Asked(r) # {} \/ Queued(r) # {} \/ Tasked(r)

\* Messages other than a question, told apart from every question.
LEMMA OthersAskNothing ==
  ASSUME NEW r \in Requests
  PROVE  /\ InitComplete \in Message /\ InitComplete # FromMsg("execute", r)
         /\ \A w \in Workers, k \in {"checkin", "skip", "ready"} :
              WorkerMsg(k, w) \in Message /\ WorkerMsg(k, w) # FromMsg("execute", r)
         /\ \A c \in Callers, k \in {"checkout", "queue_timeout"} :
              FromMsg(k, c) \in Message /\ FromMsg(k, c) # FromMsg("execute", r)
BY MessageType, OtherMessages

\* A step that is not about the question of call r keeps hold of it, if it
\* moves it at most from the queue to its task.
LEMMA HeldKept ==
  ASSUME TypeOK, NEW r \in Requests, Waits(r)' => Waits(r), Waits(r) => Held(r),
         NEW k \in Message,
         \/ mailbox' = mailbox
         \/ mailbox' = Append(mailbox, k)
         \/ mailbox # <<>> /\ Head(mailbox) # FromMsg("execute", r) /\ mailbox' = Tail(mailbox)
         \/ /\ mailbox # <<>> /\ Head(mailbox) # FromMsg("execute", r)
            /\ mailbox' = Append(Tail(mailbox), k),
         Waits(r)' /\ Queued(r) # {} => Queued(r)' # {} \/ Tasked(r)',
         Waits(r)' /\ Tasked(r) => Tasked(r)'
  PROVE  Waits(r)' => Held(r)'
<1>1. Asked(r) = Pending(FromMsg("execute", r)) /\ Asked(r)' = Pending(FromMsg("execute", r))'
  BY DEF Asked, Pending
<1>2. Asked(r) # {} => Asked(r)' # {}
  <2> SUFFICES ASSUME Asked(r) # {} PROVE Asked(r)' # {}
    OBVIOUS
  <2>1. Pending(FromMsg("execute", r)) # {} /\ mailbox \in Seq(Message)
    BY <1>1 DEF TypeOK
  <2>2. Pending(FromMsg("execute", r))' # {}
    BY <2>1, PendingKept
  <2> QED BY <1>1, <2>2
<1> QED BY <1>2 DEF Held

\* The pool's handling of a question keeps hold of every call that waits.
LEMMA ExecuteHolds ==
  ASSUME TypeOK, OneStage, TimeoutsSure, NEW r0 \in Requests, HandleExecute(r0),
         NEW r \in Requests, Waits(r) => Held(r)
  PROVE  Waits(r)' => Held(r)'
<1> USE PoolAssumption
<1> USE DEF admin, fleet, slots, waiting, sticky, clients, procs
<1> SUFFICES ASSUME Waits(r)' PROVE Held(r)'
  OBVIOUS
<1>0. /\ client' = client /\ mailbox # <<>> /\ Head(mailbox) = FromMsg("execute", r0)
      /\ mailbox' = Tail(mailbox)
  BY DEF HandleExecute, RejectUninitialized, Dispatch, Enqueue, Saturate, RefuseSticky,
         Receive, Consume
<1>1. Waits(r) /\ Held(r)
  <2>1. replies' = replies \/ Reply(r0)
    BY DEF HandleExecute, RejectUninitialized, Dispatch, Enqueue, Saturate, RefuseSticky
  <2> QED BY <1>0, <2>1 DEF Waits, Reply, TypeOK
<1>2. ASSUME NEW kept \in Kept, NEW e \in Queued(r) PROVE e \in Compacted(kept)
  <2>1. kept \subseteq cancelled /\ e \in queue /\ e.from = r
    BY DEF Kept, Queued
  <2> QED BY <1>1, <2>1, QueuedOnce DEF Compacted, Waits, TimeoutsSure
<1>3. Queued(r) # {} => Queued(r)' # {}
  <2>1. queue' = queue \/ \E kept \in Kept : Compacted(kept) \subseteq queue'
    BY DEF HandleExecute, RejectUninitialized, Dispatch, Enqueue, Saturate, RefuseSticky
  <2> QED BY <1>2, <2>1 DEF Queued
<1>4. CASE r # r0
  <2>1. Head(mailbox) # FromMsg("execute", r) /\ InitComplete \in Message
    BY <1>0, <1>4, OtherMessages, MessageType DEF Callers
  <2>2. task'[r] = task[r]
    BY <1>4 DEF HandleExecute, RejectUninitialized, Dispatch, Enqueue, Saturate, RefuseSticky,
         TypeOK, Callers
  <2>3. Tasked(r) => Tasked(r)'
    BY <2>2 DEF Tasked
  <2> QED BY <1>0, <1>1, <1>3, <2>1, <2>3, HeldKept
<1>5. CASE r = r0
  <2>1. ~(RejectUninitialized(r) \/ Saturate(r) \/ RefuseSticky(r))
    <3>1. ~Reply(r)
      BY DEF Waits, Reply, TypeOK
    <3> QED BY <3>1 DEF RejectUninitialized, Saturate, RefuseSticky
  <2>2. CASE Dispatch(r)
    <3>1. PICK a : task' = [task EXCEPT ![r] = Spawn(a.worker, FALSE)]
      BY <2>2 DEF Dispatch
    <3>2. Spawn(a.worker, FALSE).phase = "spawned"
      BY DEF Spawn
    <3> QED BY <3>1, <3>2 DEF Held, Tasked, TypeOK, Callers
  <2>3. CASE Enqueue(r)
    <3>1. PICK a \in Checkout(r), kept \in Kept :
            queue' = Compacted(kept) \cup {[from |-> r, affinity |-> a.worker, at |-> clock]}
      BY <2>3 DEF Enqueue
    <3>2. [from |-> r, affinity |-> a.worker, at |-> clock].from = r
      OBVIOUS
    <3>3. Queued(r)' # {}
      BY <3>1, <3>2 DEF Queued
    <3> QED BY <3>3 DEF Held
  <2> QED BY <1>5, <2>1, <2>2, <2>3 DEF HandleExecute
<1> QED BY <1>4, <1>5

\* Serving the queue hands a call that waits to a task.
LEMMA ServeQueueHolds ==
  ASSUME TypeOK, OneStage, TimeoutsSure, NEW w \in Workers, NEW ld, NEW av \in SUBSET Workers,
         NEW r \in Requests, Waits(r) => Held(r),
         mailbox # <<>>, Head(mailbox) # FromMsg("execute", r),
         UNCHANGED clients, ServeQueue(w, ld, av)
  PROVE  Waits(r)' => Held(r)'
<1>0. replies' = replies /\ client' = client /\ (Waits(r)' => Waits(r))
  BY DEF clients, Waits
<1>1. PICK kept \in Kept :
        LeaveQueue(w, ld, av, kept) \/ \E q \in QueueWorkers(w, av) : PopQueue(q, ld, av, kept)
  BY DEF ServeQueue
<1>2. CASE LeaveQueue(w, ld, av, kept)
  <2>1. /\ InitComplete \in Message /\ mailbox' = Tail(mailbox)
        /\ Queued(r)' = Queued(r) /\ (Tasked(r) => Tasked(r)')
    BY <1>2, MessageType DEF LeaveQueue, Consume, Queued, Tasked
  <2> QED BY <1>0, <2>1, HeldKept
<1>3. ASSUME NEW q \in QueueWorkers(w, av), PopQueue(q, ld, av, kept)
      PROVE  Waits(r)' => Held(r)'
  <2>1. PICK e \in queue :
          /\ queue' = queue \ {e}
          /\ SkipCancelled(e, q, ld, av, kept) \/ RunQueued(e, q, ld, av, kept)
    BY <1>3 DEF PopQueue
  <2>2. e.from \notin kept /\ e.from \in Callers
    BY <2>1, QueuedOnce DEF TimeoutsSure, Kept, Callers
  <2>3. RunQueued(e, q, ld, av, kept)
    BY <2>1, <2>2 DEF SkipCancelled
  <2>4. /\ task' = [task EXCEPT ![e.from] = Spawn(q, TRUE)]
        /\ mailbox' = Tail(mailbox) /\ InitComplete \in Message
    BY <2>3, MessageType DEF RunQueued, Consume
  <2>5. Spawn(q, TRUE).phase = "spawned" /\ task \in [Callers -> Task] /\ r \in Callers
    BY DEF Spawn, TypeOK, Callers
  <2>6. Tasked(r) => Tasked(r)'
    BY <2>4, <2>5 DEF Tasked
  <2>7. e.from = r => Tasked(r)'
    BY <2>2, <2>4, <2>5 DEF Tasked
  <2>8. e.from # r => Queued(r)' = Queued(r)
    BY <2>1 DEF Queued
  <2> QED BY <1>0, <2>4, <2>6, <2>7, <2>8, HeldKept
<1> QED BY <1>1, <1>2, <1>3

\* The step at which a retry gives its call up without a word: the task of a call
\* that was dispatched at once asks itself for a worker, or the checkout of a
\* retry times out.
RetryGivesUp(r) == (TaskRetry(r) /\ ~task[r].queued) \/ TaskTimeout(r)

\* No other step loses a call whose client lives and waits.
LEMMA HeldStep ==
  ASSUME TypeOK, OneStage, TimeoutsSure, [Next]_vars,
         NEW r \in Requests, Waits(r) => Held(r), ~RetryGivesUp(r)
  PROVE  Waits(r)' => Held(r)'
<1> USE PoolAssumption
<1> USE DEF admin, fleet, slots, waiting, sticky, clients, procs
<1>0. /\ r \in Callers /\ task \in [Callers -> Task] /\ mailbox \in Seq(Message)
      /\ replies \in [Requests -> Nat] /\ client \in [Requests -> {"idle", "live", "down"}]
  BY DEF Callers, TypeOK
<1>1. ASSUME NEW k \in Message,
             \/ mailbox' = mailbox
             \/ mailbox' = Append(mailbox, k)
             \/ mailbox # <<>> /\ Head(mailbox) # FromMsg("execute", r) /\ mailbox' = Tail(mailbox)
             \/ /\ mailbox # <<>> /\ Head(mailbox) # FromMsg("execute", r)
                /\ mailbox' = Append(Tail(mailbox), k),
             UNCHANGED <<queue, client>>, replies'[r] = 0 => replies[r] = 0,
             Waits(r)' /\ Tasked(r) => Tasked(r)'
      PROVE  Waits(r)' => Held(r)'
  <2>1. Waits(r)' => Waits(r)
    BY <1>1 DEF Waits
  <2> QED BY <1>1, <2>1, HeldKept DEF Queued
<1>2. ASSUME NEW r0 \in Requests, HandleExecute(r0) PROVE Waits(r)' => Held(r)'
  BY <1>2, ExecuteHolds
<1>3. ASSUME NEW r0 \in Requests, QueueTimeout(r0) PROVE Waits(r)' => Held(r)'
  <2>1. /\ mailbox # <<>> /\ Head(mailbox) = FromMsg("queue_timeout", r0)
        /\ mailbox' = Tail(mailbox) /\ UNCHANGED <<client, task>>
    BY <1>3 DEF QueueTimeout, Receive, Consume
  <2>2. Head(mailbox) # FromMsg("execute", r) /\ InitComplete \in Message
    BY <2>1, OthersAskNothing DEF Callers
  <2>3. CASE UNCHANGED <<queue, replies>>
    BY <1>1, <2>1, <2>2, <2>3 DEF Tasked
  <2>4. CASE queue' = Without(r0) /\ Reply(r0)
    <3>1. CASE r = r0
      BY <1>0, <2>4, <3>1 DEF Reply, Waits
    <3>2. CASE r # r0
      <4>1. Queued(r)' = Queued(r) /\ (Waits(r)' => Waits(r)) /\ (Tasked(r) => Tasked(r)')
        BY <1>0, <2>1, <2>4, <3>2 DEF Reply, Without, Queued, Waits, Tasked
      <4> QED BY <2>1, <2>2, <4>1, HeldKept
    <3> QED BY <3>1, <3>2
  <2> QED BY <1>3, <2>3, <2>4 DEF QueueTimeout
<1>4. ASSUME NEW c \in Callers, GrantCheckout(c) \/ RefuseCheckout(c) PROVE Waits(r)' => Held(r)'
  <2>1. /\ mailbox # <<>> /\ Head(mailbox) # FromMsg("execute", r) /\ mailbox' = Tail(mailbox)
        /\ UNCHANGED <<queue, client>> /\ InitComplete \in Message
    BY <1>4, OthersAskNothing DEF GrantCheckout, RefuseCheckout, Receive, Consume
  <2>2. replies'[r] = 0 => replies[r] = 0
    BY <1>0, <1>4 DEF GrantCheckout, RefuseCheckout, ReplyIfAlive, Reply
  <2>3. Waits(r)' /\ Tasked(r) => Tasked(r)'
    <3> SUFFICES ASSUME Waits(r)', Tasked(r) PROVE Tasked(r)'
      OBVIOUS
    <3>1. CASE task'[r] = task[r]
      BY <3>1 DEF Tasked
    <3>2. CASE GrantCheckout(c) /\ task'[r] # task[r]
      <4>1. PICK a \in Checkout(c) : task' = [task EXCEPT ![c] = Resumed(@, a.worker)]
        BY <3>2 DEF GrantCheckout
      <4>2. c = r
        BY <1>0, <3>2, <4>1
      <4>3. task'[r].phase = "running"
        BY <1>0, <4>1, <4>2 DEF Resumed, Task
      <4> QED BY <4>3 DEF Tasked
    <3>3. CASE RefuseCheckout(c) /\ task'[r] # task[r]
      <4>1. task' = [task EXCEPT ![c] = Finished] /\ (c \in Requests => ReplyIfAlive(c))
        BY <3>3 DEF RefuseCheckout
      <4>2. c = r
        BY <1>0, <3>3, <4>1
      <4>3. client[r] = "live"
        BY <2>1 DEF Waits
      <4>4. Reply(r)
        BY <4>1, <4>2, <4>3 DEF ReplyIfAlive
      <4>5. replies'[r] # 0
        BY <1>0, <4>4 DEF Reply
      <4> QED BY <4>5 DEF Waits
    <3> QED BY <1>4, <3>1, <3>2, <3>3
  <2> QED BY <1>1, <2>1, <2>2, <2>3
<1>5. ASSUME NEW w \in Workers, Checkin(w) \/ DriveQueue(w) PROVE Waits(r)' => Held(r)'
  <2>1. Refresh(available, w, Decremented(w)) \in SUBSET Workers /\ available \in SUBSET Workers
    BY DEF Refresh, TypeOK
  <2>2. mailbox # <<>> /\ Head(mailbox) # FromMsg("execute", r)
    BY <1>5, OthersAskNothing DEF Checkin, DriveQueue, Receive
  <2> QED BY <1>5, <2>1, <2>2, ServeQueueHolds DEF Checkin, DriveQueue
<1>6. CASE MergeInit \/ \E w \in Workers : WorkerReady(w)
  <2>1. mailbox # <<>> /\ Head(mailbox) # FromMsg("execute", r)
    BY <1>6, OthersAskNothing DEF MergeInit, WorkerReady, Receive
  <2> QED BY <1>1, <1>6, <2>1, OthersAskNothing DEF MergeInit, WorkerReady, Consume, Tasked
<1>7. ASSUME NEW r0 \in Requests, Call(r0) PROVE Waits(r)' => Held(r)'
  <2>1. /\ mailbox' = Append(mailbox, FromMsg("execute", r0)) /\ FromMsg("execute", r0) \in Message
        /\ UNCHANGED <<queue, task, replies>>
    BY <1>7, MessageType DEF Call, Send, Callers
  <2>2. CASE r = r0
    <3>1. Len(mailbox) + 1 \in Asked(r)'
      BY <1>0, <2>1, <2>2 DEF Asked
    <3> QED BY <3>1 DEF Held
  <2>3. CASE r # r0
    <3>1. Waits(r)' => Waits(r)
      BY <1>0, <1>7, <2>1, <2>3 DEF Call, Waits
    <3> QED BY <2>1, <3>1, HeldKept DEF Tasked, Queued
  <2> QED BY <2>2, <2>3
<1>8. ASSUME NEW r0 \in Requests, ClientDown(r0) PROVE Waits(r)' => Held(r)'
  <2>1. UNCHANGED <<mailbox, queue, task, replies>> /\ (Waits(r)' => Waits(r))
    BY <1>0, <1>8 DEF ClientDown, Waits
  <2> QED BY <2>1, HeldKept, OthersAskNothing DEF Tasked, Queued
<1>9. ASSUME NEW r0 \in Requests, TaskStep(r0) PROVE Waits(r)' => Held(r)'
  <2>1. UNCHANGED <<queue, client>>
    BY <1>9 DEF TaskStep, TaskAbort, TaskStart, TaskResult, TaskCrash, TaskRetry, TaskTimeout
  <2>2. r0 \in Callers /\ (Active(r0) => task[r0].worker \in Workers)
    BY DEF Callers, TypeOK
  <2>3. \E k \in Message : mailbox' = mailbox \/ mailbox' = Append(mailbox, k)
    <3>1. CASE TaskAbort(r0) \/ TaskResult(r0)
      BY <2>2, <3>1, MessageType DEF TaskAbort, TaskResult, Send, Active
    <3>2. CASE TaskStart(r0) \/ TaskCrash(r0) \/ TaskTimeout(r0)
      BY <3>2, MessageType DEF TaskStart, TaskCrash, TaskTimeout
    <3>3. CASE TaskRetry(r0)
      <4>1. mailbox' = mailbox \/ mailbox' = Append(mailbox, FromMsg("checkout", r0))
        BY <3>3, Zenon DEF TaskRetry, Send
      <4> QED BY <2>2, <4>1, MessageType
    <3> QED BY <1>9, <3>1, <3>2, <3>3 DEF TaskStep
  <2>4. replies' = replies \/ Reply(r0)
    BY <1>9 DEF TaskStep, TaskAbort, TaskStart, TaskResult, TaskCrash, TaskRetry, TaskTimeout,
         ReplyIfAlive
  <2>5. replies'[r] = 0 => replies[r] = 0
    BY <1>0, <2>4 DEF Reply
  <2>6. Waits(r)' /\ Tasked(r) => Tasked(r)'
    <3> SUFFICES ASSUME Waits(r)', Tasked(r) PROVE Tasked(r)'
      OBVIOUS
    <3>1. client[r] = "live" /\ ~Reply(r)
      BY <1>0, <2>1 DEF Waits, Reply
    <3>2. CASE r # r0
      BY <1>0, <1>9, <3>2 DEF TaskStep, TaskAbort, TaskStart, TaskResult, TaskCrash, TaskRetry,
           TaskTimeout, Tasked
    <3>3. CASE r = r0
      <4>1. ~TaskAbort(r) /\ ~TaskResult(r) /\ ~TaskTimeout(r)
        BY <3>1 DEF TaskAbort, TaskResult, ReplyIfAlive, RetryGivesUp
      <4>2. CASE TaskStart(r)
        BY <1>0, <4>2 DEF TaskStart, Tasked, Task
      <4>3. CASE TaskCrash(r)
        <5>1. RetryAllowed(r) /\ task' = [task EXCEPT ![r] = Backoff(@)]
          BY <3>1, <4>3 DEF TaskCrash, ReplyIfAlive
        <5>2. Backoff(task[r]).phase = "backoff"
          BY <1>0, TaskChange
        <5> QED BY <1>0, <5>1, <5>2 DEF Tasked
      <4>4. CASE TaskRetry(r)
        <5>1. task' = [task EXCEPT ![r] = Retrying(@)]
          BY <4>4 DEF RetryGivesUp, TaskRetry
        <5>2. Retrying(task[r]).phase = "checkout"
          BY <1>0, TaskChange
        <5> QED BY <1>0, <5>1, <5>2 DEF Tasked
      <4> QED BY <1>9, <3>3, <4>1, <4>2, <4>3, <4>4 DEF TaskStep
    <3> QED BY <3>2, <3>3
  <2> QED BY <1>1, <2>1, <2>3, <2>5, <2>6
<1>10. ASSUME NEW r0 \in Requests, TimerFires(r0) PROVE Waits(r)' => Held(r)'
  BY <1>1, <1>10, MessageType DEF TimerFires, Send, Callers, Tasked
<1>11. ASSUME NEW s \in Streams, StreamCall(s) \/ StreamEnd(s) \/ StreamKilled(s)
       PROVE  Waits(r)' => Held(r)'
  <2>1. s \in Callers /\ s # r /\ (Active(s) => task[s].worker \in Workers)
    BY DEF Callers, TypeOK
  <2>2. \E k \in Message : mailbox' = mailbox \/ mailbox' = Append(mailbox, k)
    BY <1>11, <2>1, MessageType DEF StreamCall, StreamEnd, StreamKilled, Send, Active
  <2>3. task'[r] = task[r] /\ UNCHANGED <<queue, client, replies>>
    BY <1>0, <1>11, <2>1 DEF StreamCall, StreamEnd, StreamKilled
  <2> QED BY <1>1, <2>2, <2>3 DEF Tasked
<1>12. ASSUME NEW w \in Workers, WorkerStep(w) \/ TaintExpires(w) PROVE Waits(r)' => Held(r)'
  BY <1>1, <1>12, MessageType DEF WorkerStep, WorkerReports, WorkerRestart, WorkerGone,
       TaintExpires, Send, Tasked
<1>13. ASSUME NEW s \in Sessions, CacheExpires(s) \/ \E w \in Workers : TaskStore(s, w)
       PROVE  Waits(r)' => Held(r)'
  BY <1>1, <1>13, MessageType DEF CacheExpires, TaskStore, Tasked
<1>14. CASE InitReport \/ UNCHANGED vars
  BY <1>1, <1>14, MessageType DEF InitReport, vars, Send, Tasked
<1> QED
  BY <1>2, <1>3, <1>4, <1>5, <1>6, <1>7, <1>8, <1>9, <1>10, <1>11, <1>12, <1>13, <1>14
     DEF Next, PoolStep, Quiescent

\* No crashed call is tried again: no call ends in a crash, or the crash
\* barrier retries none.
NoRetries == "crash" \notin Faults \/ RetryPolicy = "never" \/ MaxRetries = 0

\* No task waits to try again.
NoneRetrying == \A r \in Requests : task[r].phase \notin {"backoff", "checkout"}

WaitingHeld == \A r \in Requests : Waits(r) => Held(r)

\* Without retries no task of a request waits to try again.
LEMMA NoneRetryingStep ==
  ASSUME NoRetries, TypeOK, NoneRetrying, [Next]_vars
  PROVE  NoneRetrying'
<1> USE PoolAssumption
<1> USE DEF admin, fleet, slots, waiting, sticky, clients, procs
<1>0. task \in [Callers -> Task] /\ Requests \subseteq Callers /\ Streams \cap Requests = {}
      /\ Streams \subseteq Callers /\ Finished.phase = "done"
  BY TaskType DEF TypeOK, Callers
<1>1. ASSUME NEW c \in Callers,
             \/ c \notin Requests
             \/ task'[c].phase \notin {"backoff", "checkout"},
             \A d \in Callers : d # c => task'[d] = task[d]
      PROVE  NoneRetrying'
  BY <1>0, <1>1 DEF NoneRetrying
<1>2. CASE task' = task
  BY <1>2 DEF NoneRetrying
<1>3. ASSUME NEW r \in Requests, HandleExecute(r) PROVE NoneRetrying'
  <2>1. CASE Dispatch(r)
    <3>1. PICK a : task' = [task EXCEPT ![r] = Spawn(a.worker, FALSE)]
      BY <2>1 DEF Dispatch
    <3>2. Spawn(a.worker, FALSE).phase = "spawned"
      BY DEF Spawn
    <3> QED BY <1>0, <1>1, <3>1, <3>2
  <2> QED BY <1>2, <1>3, <2>1
       DEF HandleExecute, RejectUninitialized, Enqueue, Saturate, RefuseSticky
<1>4. ASSUME NEW c \in Callers, GrantCheckout(c) \/ RefuseCheckout(c) PROVE NoneRetrying'
  <2>1. CASE c \in Requests
    BY <1>2, <1>4, <2>1 DEF GrantCheckout, RefuseCheckout, NoneRetrying
  <2>2. CASE c \notin Requests
    <3>1. \A d \in Callers : d # c => task'[d] = task[d]
      BY <1>0, <1>4 DEF GrantCheckout, RefuseCheckout
    <3> QED BY <1>1, <2>2, <3>1
  <2> QED BY <2>1, <2>2
<1>5. ASSUME NEW w \in Workers, Checkin(w) \/ DriveQueue(w) PROVE NoneRetrying'
  <2>1. task' = task \/ \E c, q : task' = [task EXCEPT ![c] = Spawn(q, TRUE)]
    BY <1>5 DEF Checkin, DriveQueue, ServeQueue, LeaveQueue, PopQueue, SkipCancelled, RunQueued
  <2>2. \A q : Spawn(q, TRUE).phase = "spawned"
    BY DEF Spawn
  <2> QED BY <1>0, <2>1, <2>2 DEF NoneRetrying
<1>6. ASSUME NEW r \in Requests, TaskStep(r) PROVE NoneRetrying'
  <2>1. \A d \in Callers : d # r => task'[d] = task[d]
    BY <1>0, <1>6 DEF TaskStep, TaskAbort, TaskStart, TaskResult, TaskCrash, TaskRetry, TaskTimeout
  <2>2. CASE TaskCrash(r)
    <3>1. ~RetryAllowed(r)
      BY <1>0, <2>2 DEF NoRetries, TaskCrash, RetryAllowed, Task
    <3> QED BY <1>0, <1>1, <2>1, <2>2, <3>1 DEF TaskCrash
  <2>3. CASE TaskStart(r)
    <3>1. task'[r].phase = "running"
      BY <1>0, <2>3 DEF TaskStart, Task
    <3> QED BY <1>0, <1>1, <2>1, <3>1
  <2>4. CASE TaskAbort(r) \/ TaskResult(r) \/ TaskTimeout(r)
    BY <1>0, <1>1, <2>1, <2>4 DEF TaskAbort, TaskResult, TaskTimeout
  <2>5. ~TaskRetry(r)
    BY DEF TaskRetry, NoneRetrying
  <2> QED BY <1>6, <2>2, <2>3, <2>4, <2>5 DEF TaskStep
<1>7. ASSUME NEW s \in Streams, StreamCall(s) \/ StreamEnd(s) \/ StreamKilled(s) PROVE NoneRetrying'
  <2>1. \A d \in Callers : d # s => task'[d] = task[d]
    BY <1>0, <1>7 DEF StreamCall, StreamEnd, StreamKilled
  <2> QED BY <1>0, <1>1, <2>1
<1>8. ASSUME NEW r \in Requests, QueueTimeout(r) \/ Call(r) \/ ClientDown(r) \/ TimerFires(r)
      PROVE  NoneRetrying'
  BY <1>2, <1>8 DEF QueueTimeout, Call, ClientDown, TimerFires
<1>9. ASSUME NEW w \in Workers,
             \/ WorkerReady(w) \/ WorkerStep(w) \/ TaintExpires(w)
             \/ \E s \in Sessions : TaskStore(s, w)
      PROVE  NoneRetrying'
  BY <1>2, <1>9 DEF WorkerReady, WorkerStep, WorkerReports, WorkerRestart, WorkerGone,
       TaintExpires, TaskStore
<1>10. CASE MergeInit \/ InitReport \/ UNCHANGED vars \/ \E s \in Sessions : CacheExpires(s)
  BY <1>2, <1>10 DEF MergeInit, InitReport, vars, CacheExpires
<1> QED
  BY <1>3, <1>4, <1>5, <1>6, <1>7, <1>8, <1>9, <1>10 DEF Next, PoolStep, Quiescent

\* A call that is held is held in exactly one place.
LEMMA OnePlace ==
  ASSUME OneStage, NEW r \in Requests, Held(r)
  PROVE  Places(r) = 1
<1>1. InOneStage(r)
  BY DEF OneStage
<1>2. /\ Asked(r) = {} \/ \E i : Asked(r) = {i}
      /\ Queued(r) = {} \/ \E e : Queued(r) = {e}
  BY <1>1 DEF InOneStage
<1>3. /\ Asked(r) # {} => Queued(r) = {} /\ ~Tasked(r)
      /\ Queued(r) # {} => Asked(r) = {} /\ ~Tasked(r)
      /\ Tasked(r) => Asked(r) = {} /\ Queued(r) = {}
  BY <1>1 DEF InOneStage, Tasked
<1>4. /\ Asked(r) # {} => Cardinality(Asked(r)) = 1
      /\ Queued(r) # {} => Cardinality(Queued(r)) = 1
      /\ Cardinality({}) = 0
  BY <1>2, FS_Singleton, FS_EmptySet
<1>5. CASE Asked(r) # {}
  BY <1>3, <1>4, <1>5 DEF Places, Tasked
<1>6. CASE Queued(r) # {}
  BY <1>3, <1>4, <1>6 DEF Places, Tasked
<1>7. CASE Tasked(r)
  BY <1>3, <1>4, <1>7 DEF Places, Tasked
<1> QED BY <1>5, <1>6, <1>7 DEF Held

\* A living client's call is in exactly one place until it is answered, and
\* hears of its timeout while it is queued, as long as no crash is retried:
\* the retry of a call that went to a worker at once loses it.
THEOREM CallsNeverLost == NoRetries => (Spec => []CallsAccounted)
<1> SUFFICES ASSUME NoRetries PROVE Spec => []CallsAccounted
  OBVIOUS
<1>1. Init => NoneRetrying /\ WaitingHeld
  BY TaskType DEF Init, NoneRetrying, WaitingHeld, Waits, Callers
<1>2. TypeOK /\ NoneRetrying /\ [Next]_vars => NoneRetrying'
  BY NoneRetryingStep
<1>3. TypeOK /\ OneStage /\ TimeoutsSure /\ NoneRetrying /\ WaitingHeld /\ [Next]_vars => WaitingHeld'
  BY HeldStep DEF WaitingHeld, NoneRetrying, RetryGivesUp, TaskRetry, TaskTimeout
<1>4. TypeOK /\ OneStage /\ TimeoutsSure /\ WaitingHeld => CallsAccounted
  BY OnePlace DEF CallsAccounted, NeverLost, WaitingHeld, Waits, TimeoutsSure
<1> QED BY <1>1, <1>2, <1>3, <1>4, TypeCorrect, CallsInOneStage, TimeoutsAreSure, PTL DEF Spec

\* Under every fault, a step after which the call of a waiting client is nowhere,
\* though it was somewhere before, is one of two: the retry of a call that was
\* dispatched at once, or the checkout of a retry that times out
\* (attempt_with_retry/8, checkout_worker_for_retry/4).
THEOREM OnlyRetriesLose ==
  Spec => [][\A r \in Requests :
               Waits(r)' /\ ~Held(r)' => (Waits(r) /\ ~Held(r)) \/ RetryGivesUp(r)]_vars
<1>1. TypeOK /\ OneStage /\ TimeoutsSure /\ [Next]_vars =>
        [\A r \in Requests :
           Waits(r)' /\ ~Held(r)' => (Waits(r) /\ ~Held(r)) \/ RetryGivesUp(r)]_vars
  BY HeldStep
<1> QED BY <1>1, TypeCorrect, CallsInOneStage, TimeoutsAreSure, PTL DEF Spec

----------------------------------------------------------------------------
(* The load recorded for a worker covers the work it does.                 *)

Busy(w) == Cardinality(Holders(w))
Due(w)  == Count(mailbox, WorkerMsg("checkin", w))

FiniteHolders == \A w \in Workers : IsFiniteSet(Holders(w))

\* The inductive invariant behind LoadCoversWork.
LoadCovers == FiniteHolders /\ \A w \in Workers : load[w] >= Busy(w) + Due(w)

\* A task that keeps its worker, or goes on holding none, changes nobody's
\* holders.
LEMMA HoldersSame ==
  ASSUME FiniteHolders,
         \A c \in Callers : /\ Active(c)' <=> Active(c)
                            /\ Active(c) => task'[c].worker = task[c].worker,
         NEW w \in Workers
  PROVE  IsFiniteSet(Holders(w)') /\ Busy(w)' = Busy(w) /\ Busy(w) \in Nat
<1>1. Holders(w)' = Holders(w) /\ IsFiniteSet(Holders(w))
  BY DEF Holders, FiniteHolders
<1> QED BY <1>1, FS_CardinalityType DEF Busy

\* A task that takes worker q.
LEMMA HoldersTaken ==
  ASSUME FiniteHolders, NEW c \in Callers, NEW q \in Workers, ~Active(c),
         Active(c)', task'[c].worker = q, \A d \in Callers : d # c => task'[d] = task[d],
         NEW w \in Workers
  PROVE  /\ IsFiniteSet(Holders(w)') /\ Busy(w) \in Nat /\ Busy(w)' \in Nat
         /\ w = q => Busy(w)' = Busy(w) + 1
         /\ w # q => Busy(w)' = Busy(w)
<1>1. IsFiniteSet(Holders(w)) /\ c \notin Holders(w)
  BY DEF FiniteHolders, Holders
<1>2. w # q => Holders(w)' = Holders(w)
  BY DEF Holders, Active
<1>3. w = q => Holders(w)' = Holders(w) \cup {c}
  BY DEF Holders, Active
<1>4. /\ IsFiniteSet(Holders(w) \cup {c})
      /\ Cardinality(Holders(w) \cup {c}) = Cardinality(Holders(w)) + 1
      /\ Cardinality(Holders(w)) \in Nat
  BY <1>1, FS_AddElement, FS_CardinalityType
<1> QED BY <1>1, <1>2, <1>3, <1>4 DEF Busy

\* A task that lets go of worker q.
LEMMA HoldersLeft ==
  ASSUME FiniteHolders, NEW c \in Callers, NEW q \in Workers, Active(c), task[c].worker = q,
         ~Active(c)', \A d \in Callers : d # c => task'[d] = task[d],
         NEW w \in Workers
  PROVE  /\ IsFiniteSet(Holders(w)') /\ Busy(w) \in Nat /\ Busy(w)' \in Nat
         /\ w = q => Busy(w) = Busy(w)' + 1
         /\ w # q => Busy(w)' = Busy(w)
<1>1. IsFiniteSet(Holders(w))
  BY DEF FiniteHolders
<1>2. w # q => Holders(w)' = Holders(w)
  BY DEF Holders, Active
<1>3. w = q => Holders(w)' = Holders(w) \ {c} /\ c \in Holders(w)
  BY DEF Holders, Active
<1>4. /\ IsFiniteSet(Holders(w) \ {c})
      /\ c \in Holders(w) => Cardinality(Holders(w) \ {c}) = Cardinality(Holders(w)) - 1
      /\ Cardinality(Holders(w)) \in Nat /\ Cardinality(Holders(w) \ {c}) \in Nat
  BY <1>1, FS_RemoveElement, FS_CardinalityType
<1> QED BY <1>1, <1>2, <1>3, <1>4 DEF Busy

\* Pool messages are told apart by their kind and by who they name.
LEMMA CheckinsDiffer ==
  ASSUME NEW w \in Workers
  PROVE  /\ \A k, c : FromMsg(k, c) # WorkerMsg("checkin", w)
         /\ \A k, q : k # "checkin" => WorkerMsg(k, q) # WorkerMsg("checkin", w)
         /\ \A q : WorkerMsg("checkin", q) = WorkerMsg("checkin", w) => q = w
         /\ InitComplete # WorkerMsg("checkin", w)
BY DEF FromMsg, WorkerMsg, InitComplete

\* A step that handles and sends messages other than checkins.
LEMMA DueKept ==
  ASSUME mailbox \in Seq(Message), NEW w \in Workers, NEW k \in Message,
         k # WorkerMsg("checkin", w),
         \/ mailbox' = mailbox
         \/ mailbox' = Append(mailbox, k)
         \/ /\ mailbox # <<>> /\ Head(mailbox) # WorkerMsg("checkin", w)
            /\ mailbox' = Tail(mailbox) \/ mailbox' = Append(Tail(mailbox), k)
  PROVE  Due(w)' = Due(w) /\ Due(w) \in Nat
<1> DEFINE n == WorkerMsg("checkin", w)
<1>0. n # k
  OBVIOUS
<1> HIDE DEF n
<1>1. CASE mailbox' = mailbox
  BY <1>1, CountType DEF Due
<1>2. CASE mailbox' = Append(mailbox, k)
  <2>1. Count(mailbox', n) = Count(mailbox, n) /\ Count(mailbox, n) \in Nat
    BY <1>0, <1>2, SendCounts DEF Send
  <2> QED BY <2>1 DEF Due, n
<1>3. CASE mailbox # <<>> /\ Head(mailbox) # WorkerMsg("checkin", w) /\ mailbox' = Tail(mailbox)
  <2>1. Count(mailbox', n) = Count(mailbox, n) /\ Count(mailbox, n) \in Nat
    BY <1>3, ConsumeCounts DEF Receive, Consume, n
  <2> QED BY <2>1 DEF Due, n
<1>4. CASE /\ mailbox # <<>> /\ Head(mailbox) # WorkerMsg("checkin", w)
           /\ mailbox' = Append(Tail(mailbox), k)
  <2>1. Head(mailbox) # n /\ Receive(Head(mailbox))
    BY <1>4 DEF Receive, n
  <2>2. Count(mailbox', n) = Count(mailbox, n) /\ Count(mailbox, n) \in Nat
    BY <1>0, <1>4, <2>1, ForwardCounts
  <2> QED BY <2>2 DEF Due, n
<1> QED BY <1>1, <1>2, <1>3, <1>4

\* Sending a checkin of worker q.
LEMMA DueSent ==
  ASSUME mailbox \in Seq(Message), NEW q \in Workers, Send(WorkerMsg("checkin", q)),
         NEW w \in Workers
  PROVE  /\ Due(w) \in Nat /\ Due(w)' \in Nat
         /\ w = q => Due(w)' = Due(w) + 1
         /\ w # q => Due(w)' = Due(w)
<1>1. WorkerMsg("checkin", q) \in Message
  BY MessageType
<1>2. /\ Count(mailbox, WorkerMsg("checkin", w)) \in Nat
      /\ Count(mailbox', WorkerMsg("checkin", w)) \in Nat
      /\ w = q => Count(mailbox', WorkerMsg("checkin", w)) = Count(mailbox, WorkerMsg("checkin", w)) + 1
      /\ w # q => Count(mailbox', WorkerMsg("checkin", w)) = Count(mailbox, WorkerMsg("checkin", w))
  BY <1>1, SendCounts, CheckinsDiffer
<1> QED BY <1>2 DEF Due

\* What serving the queue may do to the tasks and to the mailbox.
LEMMA ServeQueueOutcome ==
  ASSUME TypeOK, NEW w \in Workers, NEW ld, NEW av \in SUBSET Workers, ServeQueue(w, ld, av)
  PROVE  \/ /\ load' = ld /\ task' = task
            /\ \/ mailbox' = Tail(mailbox)
               \/ \E q \in Workers : mailbox' = Append(Tail(mailbox), WorkerMsg("skip", q))
         \/ \E q \in Workers, e \in queue :
              /\ load' = [ld EXCEPT ![q] = @ + 1]
              /\ task' = [task EXCEPT ![e.from] = Spawn(q, TRUE)]
              /\ mailbox' = Tail(mailbox)
<1>1. \A q \in QueueWorkers(w, av) : q \in Workers
  BY DEF QueueWorkers
<1> QED BY <1>1, Zenon DEF ServeQueue, LeaveQueue, PopQueue, SkipCancelled, RunQueued, Consume

\* No call is cut short between its checkout and its checkin.
NothingCutShort == "crash" \notin Faults /\ "stream_killed" \notin Faults

\* Whoever asked for a checkout still waits for it, and asked once.
CheckoutsAwaited ==
  \A c \in Callers : /\ Count(mailbox, FromMsg("checkout", c)) \in {0, 1}
                     /\ Count(mailbox, FromMsg("checkout", c)) # 0 => task[c].phase = "checkout"

\* A step that adds work for a worker adds as much to its load; it adds and
\* takes exactly as much when every call comes to its end.
Settles(w) ==
  /\ IsFiniteSet(Holders(w)')
  /\ Busy(w)' + Due(w)' + load[w] <= load'[w] + Busy(w) + Due(w)
  /\ NothingCutShort /\ CheckoutsAwaited =>
       Busy(w)' + Due(w)' + load[w] = load'[w] + Busy(w) + Due(w)

\* A step that gives nobody a worker and handles and sends no checkin.
LEMMA SettlesQuiet ==
  ASSUME TypeOK, FiniteHolders, load' = load, NEW w \in Workers,
         \A c \in Callers : /\ Active(c)' <=> Active(c)
                            /\ Active(c) => task'[c].worker = task[c].worker,
         NEW k \in Message, k # WorkerMsg("checkin", w),
         \/ mailbox' = mailbox
         \/ mailbox' = Append(mailbox, k)
         \/ /\ mailbox # <<>> /\ Head(mailbox) # WorkerMsg("checkin", w)
            /\ mailbox' = Tail(mailbox) \/ mailbox' = Append(Tail(mailbox), k)
  PROVE  Settles(w)
<1>1. load[w] \in Nat
  BY DEF TypeOK
<1>2. IsFiniteSet(Holders(w)') /\ Busy(w)' = Busy(w) /\ Busy(w) \in Nat
  BY HoldersSame
<1>3. Due(w)' = Due(w) /\ Due(w) \in Nat
  BY DueKept DEF TypeOK
<1> QED BY <1>1, <1>2, <1>3 DEF Settles

\* A checkout: a task takes a worker, whose load grows.
LEMMA SettlesTaken ==
  ASSUME TypeOK, FiniteHolders, NEW c \in Callers, NEW q \in Workers,
         load' = [load EXCEPT ![q] = @ + 1],
         ~Active(c), Active(c)', task'[c].worker = q,
         \A d \in Callers : d # c => task'[d] = task[d], NEW w \in Workers,
         mailbox # <<>>, Head(mailbox) # WorkerMsg("checkin", w), mailbox' = Tail(mailbox)
  PROVE  Settles(w)
<1>1. /\ load[w] \in Nat
      /\ w = q => load'[w] = load[w] + 1
      /\ w # q => load'[w] = load[w]
  BY DEF TypeOK
<1>2. /\ IsFiniteSet(Holders(w)') /\ Busy(w) \in Nat /\ Busy(w)' \in Nat
      /\ w = q => Busy(w)' = Busy(w) + 1
      /\ w # q => Busy(w)' = Busy(w)
  BY HoldersTaken
<1>3. Due(w)' = Due(w) /\ Due(w) \in Nat
  BY DueKept, MessageType, CheckinsDiffer DEF TypeOK
<1> QED BY <1>1, <1>2, <1>3 DEF Settles

\* A task that ends with its checkin, or without one.
LEMMA SettlesLeft ==
  ASSUME TypeOK, FiniteHolders, load' = load, NEW c \in Callers, Active(c), ~Active(c)',
         \A d \in Callers : d # c => task'[d] = task[d], NEW w \in Workers,
         Send(WorkerMsg("checkin", task[c].worker)) \/ (mailbox' = mailbox /\ ~NothingCutShort)
  PROVE  Settles(w)
<1> DEFINE q == task[c].worker
<1>0. q \in Workers /\ load[w] \in Nat
  BY DEF TypeOK
<1> HIDE DEF q
<1>1. /\ IsFiniteSet(Holders(w)') /\ Busy(w) \in Nat /\ Busy(w)' \in Nat
      /\ w = q => Busy(w) = Busy(w)' + 1
      /\ w # q => Busy(w)' = Busy(w)
  BY <1>0, HoldersLeft DEF q
<1>2. CASE Send(WorkerMsg("checkin", q))
  <2>1. /\ Due(w) \in Nat /\ Due(w)' \in Nat
        /\ w = q => Due(w)' = Due(w) + 1
        /\ w # q => Due(w)' = Due(w)
    BY <1>0, <1>2, DueSent DEF TypeOK
  <2> QED BY <1>0, <1>1, <2>1 DEF Settles
<1>3. CASE mailbox' = mailbox /\ ~NothingCutShort
  <2>1. Due(w)' = Due(w) /\ Due(w) \in Nat
    BY <1>3, DueKept, MessageType, CheckinsDiffer DEF TypeOK
  <2> QED BY <1>0, <1>1, <1>3, <2>1 DEF Settles
<1> QED BY <1>2, <1>3 DEF q

\* A checkin, and the queued call it may start at once, on the same worker or
\* on another one.
LEMMA SettlesCheckin ==
  ASSUME TypeOK, OneStage, LoadCovers, NEW p \in Workers, Checkin(p), NEW w \in Workers
  PROVE  Settles(w)
<1> DEFINE ld == [load EXCEPT ![p] = Decremented(p)]
           av == Refresh(available, p, Decremented(p))
<1>1. mailbox # <<>> /\ Head(mailbox) = WorkerMsg("checkin", p) /\ mailbox \in Seq(Message)
  BY DEF Checkin, Receive, TypeOK
<1>2. ServeQueue(p, ld, av) /\ av \in SUBSET Workers
  BY DEF Checkin, Refresh, TypeOK
<1>3. /\ Busy(w) \in Nat /\ load[w] \in Nat /\ load \in [Workers -> Nat]
      /\ task \in [Callers -> Task] /\ FiniteHolders /\ IsFiniteSet(Holders(w))
  BY FS_CardinalityType DEF LoadCovers, FiniteHolders, Busy, TypeOK
<1>4. ASSUME mailbox' = Tail(mailbox)
             \/ \E q \in Workers : mailbox' = Append(Tail(mailbox), WorkerMsg("skip", q))
      PROVE  /\ Due(w) \in Nat /\ Due(w)' \in Nat
             /\ w = p => Due(w) = Due(w)' + 1
             /\ w # p => Due(w) = Due(w)'
  <2>1. CASE mailbox' = Tail(mailbox)
    <3>1. /\ WorkerMsg("checkin", w) = WorkerMsg("checkin", p) =>
               Count(mailbox, WorkerMsg("checkin", w)) = Count(mailbox', WorkerMsg("checkin", w)) + 1
          /\ WorkerMsg("checkin", w) # WorkerMsg("checkin", p) =>
               Count(mailbox, WorkerMsg("checkin", w)) = Count(mailbox', WorkerMsg("checkin", w))
          /\ Count(mailbox', WorkerMsg("checkin", w)) \in Nat
          /\ Count(mailbox, WorkerMsg("checkin", w)) \in Nat
      BY <1>1, <2>1, ConsumeCounts DEF Receive, Consume
    <3> QED BY <3>1, CheckinsDiffer DEF Due
  <2>2. ASSUME NEW q \in Workers, mailbox' = Append(Tail(mailbox), WorkerMsg("skip", q))
        PROVE  /\ Due(w) \in Nat /\ Due(w)' \in Nat
               /\ w = p => Due(w) = Due(w)' + 1
               /\ w # p => Due(w) = Due(w)'
    <3>1. WorkerMsg("skip", q) \in Message /\ WorkerMsg("skip", q) # WorkerMsg("checkin", w)
      BY MessageType, CheckinsDiffer
    <3>2. /\ WorkerMsg("checkin", w) = WorkerMsg("checkin", p) =>
               Count(mailbox, WorkerMsg("checkin", w)) = Count(mailbox', WorkerMsg("checkin", w)) + 1
          /\ WorkerMsg("checkin", w) # WorkerMsg("checkin", p) =>
               Count(mailbox, WorkerMsg("checkin", w)) = Count(mailbox', WorkerMsg("checkin", w))
          /\ Count(mailbox', WorkerMsg("checkin", w)) \in Nat
          /\ Count(mailbox, WorkerMsg("checkin", w)) \in Nat
      BY <1>1, <2>2, <3>1, ForwardCounts DEF Receive
    <3> QED BY <3>2, CheckinsDiffer DEF Due
  <2> QED BY <1>4, <2>1, <2>2
<1>5. w = p /\ Due(w) >= 1 /\ Due(w) \in Nat => ld[w] = load[w] - 1
  <2>1. load[w] >= Busy(w) + Due(w)
    BY DEF LoadCovers
  <2>2. w = p /\ Due(w) >= 1 /\ Due(w) \in Nat => load[w] # 0
    BY <1>3, <2>1
  <2> QED BY <1>3, <2>2 DEF Decremented
<1>6. (w # p => ld[w] = load[w]) /\ ld \in [Workers -> Nat]
  BY <1>3 DEF Decremented
<1> HIDE DEF ld, av
<1>7. CASE /\ load' = ld /\ task' = task
           /\ \/ mailbox' = Tail(mailbox)
              \/ \E q \in Workers : mailbox' = Append(Tail(mailbox), WorkerMsg("skip", q))
  <2>1. IsFiniteSet(Holders(w)') /\ Busy(w)' = Busy(w)
    BY <1>3, <1>7, HoldersSame DEF Active
  <2>2. /\ Due(w) \in Nat /\ Due(w)' \in Nat
        /\ w = p => Due(w) = Due(w)' + 1
        /\ w # p => Due(w) = Due(w)'
    BY <1>4, <1>7
  <2>3. load'[w] = ld[w] /\ ld[w] \in Nat
    BY <1>6, <1>7
  <2>4. CASE w = p
    <3>1. ld[w] = load[w] - 1
      BY <1>5, <2>2, <2>4
    <3> QED BY <1>3, <2>1, <2>2, <2>3, <2>4, <3>1 DEF Settles
  <2>5. CASE w # p
    BY <1>3, <1>6, <2>1, <2>2, <2>3, <2>5 DEF Settles
  <2> QED BY <2>4, <2>5
<1>8. ASSUME NEW q \in Workers, NEW e \in queue,
             load' = [ld EXCEPT ![q] = @ + 1],
             task' = [task EXCEPT ![e.from] = Spawn(q, TRUE)],
             mailbox' = Tail(mailbox)
      PROVE  Settles(w)
  <2>1. e.from \in Callers /\ task[e.from].phase = "none"
    BY DEF TypeOK, Entry, Callers, OneStage, InOneStage, Queued
  <2>2. Spawn(q, TRUE).phase = "spawned" /\ Spawn(q, TRUE).worker = q
    BY DEF Spawn
  <2>3. /\ ~Active(e.from) /\ Active(e.from)' /\ task'[e.from].worker = q
        /\ \A d \in Callers : d # e.from => task'[d] = task[d]
    BY <1>3, <1>8, <2>1, <2>2 DEF Active
  <2>4. /\ IsFiniteSet(Holders(w)') /\ Busy(w)' \in Nat
        /\ w = q => Busy(w)' = Busy(w) + 1
        /\ w # q => Busy(w)' = Busy(w)
    BY <1>3, <2>1, <2>3, HoldersTaken
  <2>5. /\ Due(w) \in Nat /\ Due(w)' \in Nat
        /\ w = p => Due(w) = Due(w)' + 1
        /\ w # p => Due(w) = Due(w)'
    BY <1>4, <1>8
  <2>6. /\ w = q => load'[w] = ld[w] + 1
        /\ w # q => load'[w] = ld[w]
        /\ ld[w] \in Nat
    BY <1>6, <1>8
  <2> QED BY <1>3, <1>5, <1>6, <2>4, <2>5, <2>6 DEF Settles
<1> QED BY <1>2, <1>7, <1>8, ServeQueueOutcome

\* A queue drive, and the queued call it may start.
LEMMA SettlesDrive ==
  ASSUME TypeOK, OneStage, FiniteHolders, NEW p \in Workers, DriveQueue(p), NEW w \in Workers
  PROVE  Settles(w)
<1>1. /\ mailbox # <<>> /\ Head(mailbox) # WorkerMsg("checkin", w)
      /\ ServeQueue(p, load, available) /\ available \in SUBSET Workers
      /\ task \in [Callers -> Task] /\ load \in [Workers -> Nat]
  BY CheckinsDiffer DEF DriveQueue, Receive, TypeOK
<1>2. CASE /\ load' = load /\ task' = task
           /\ \/ mailbox' = Tail(mailbox)
              \/ \E q \in Workers : mailbox' = Append(Tail(mailbox), WorkerMsg("skip", q))
  <2>1. \E k \in Message : /\ k # WorkerMsg("checkin", w)
                           /\ mailbox' = Tail(mailbox) \/ mailbox' = Append(Tail(mailbox), k)
    BY <1>2, MessageType, CheckinsDiffer
  <2> QED BY <1>1, <1>2, <2>1, SettlesQuiet DEF Active
<1>3. ASSUME NEW q \in Workers, NEW e \in queue,
             load' = [load EXCEPT ![q] = @ + 1],
             task' = [task EXCEPT ![e.from] = Spawn(q, TRUE)],
             mailbox' = Tail(mailbox)
      PROVE  Settles(w)
  <2>1. e.from \in Callers /\ task[e.from].phase = "none"
    BY DEF TypeOK, Entry, Callers, OneStage, InOneStage, Queued
  <2>2. Spawn(q, TRUE).phase = "spawned" /\ Spawn(q, TRUE).worker = q
    BY DEF Spawn
  <2>3. /\ ~Active(e.from) /\ Active(e.from)' /\ task'[e.from].worker = q
        /\ \A d \in Callers : d # e.from => task'[d] = task[d]
    BY <1>1, <1>3, <2>1, <2>2 DEF Active
  <2> QED BY <1>1, <1>3, <2>1, <2>3, SettlesTaken
<1> QED BY <1>1, <1>2, <1>3, ServeQueueOutcome

\* A step of a task or of a stream.
LEMMA SettlesTask ==
  ASSUME TypeOK, FiniteHolders, NEW w \in Workers,
         \/ \E r \in Requests : TaskStep(r)
         \/ \E s \in Streams : StreamCall(s) \/ StreamEnd(s) \/ StreamKilled(s)
  PROVE  Settles(w)
<1> USE DEF slots
<1>0. /\ task \in [Callers -> Task] /\ Requests \subseteq Callers /\ Streams \subseteq Callers
      /\ Finished.phase = "done" /\ Idle.phase = "none"
  BY TaskType DEF TypeOK, Callers
<1>1. ASSUME load' = load, mailbox' = mailbox \/ \E c \in Callers : Send(FromMsg("checkout", c)),
             NEW c \in Callers, \A d \in Callers : d # c => task'[d] = task[d],
             Active(c)' <=> Active(c), Active(c) => task'[c].worker = task[c].worker
      PROVE  Settles(w)
  <2>1. \E k \in Message : /\ k # WorkerMsg("checkin", w)
                           /\ mailbox' = mailbox \/ mailbox' = Append(mailbox, k)
    BY <1>1, MessageType, CheckinsDiffer DEF Send
  <2>2. \A d \in Callers : /\ Active(d)' <=> Active(d)
                           /\ Active(d) => task'[d].worker = task[d].worker
    BY <1>1 DEF Active
  <2> QED BY <1>1, <2>1, <2>2, SettlesQuiet
<1>2. ASSUME NEW r \in Requests, TaskAbort(r) \/ TaskResult(r) PROVE Settles(w)
  <2>1. /\ r \in Callers /\ Active(r) /\ load' = load /\ Send(WorkerMsg("checkin", task[r].worker))
        /\ task' = [task EXCEPT ![r] = Finished]
    BY <1>0, <1>2 DEF TaskAbort, TaskResult, Active
  <2>2. ~Active(r)' /\ \A d \in Callers : d # r => task'[d] = task[d]
    BY <1>0, <2>1 DEF Active
  <2> QED BY <2>1, <2>2, SettlesLeft
<1>3. ASSUME NEW r \in Requests, TaskStart(r) PROVE Settles(w)
  <2>1. /\ r \in Callers /\ load' = load /\ mailbox' = mailbox /\ task[r].phase = "spawned"
        /\ task' = [task EXCEPT ![r].phase = "running"]
    BY <1>0, <1>3 DEF TaskStart
  <2>2. /\ Active(r) /\ Active(r)' /\ task'[r].worker = task[r].worker
        /\ \A d \in Callers : d # r => task'[d] = task[d]
    BY <1>0, <2>1 DEF Active, Task
  <2> QED BY <1>1, <2>1, <2>2
<1>4. ASSUME NEW r \in Requests, TaskCrash(r) PROVE Settles(w)
  <2>1. /\ r \in Callers /\ Active(r) /\ load' = load /\ mailbox' = mailbox /\ ~NothingCutShort
        /\ task' = [task EXCEPT ![r] = Backoff(@)] \/ task' = [task EXCEPT ![r] = Finished]
    BY <1>0, <1>4 DEF TaskCrash, Active, NothingCutShort
  <2>2. Backoff(task[r]).phase = "backoff"
    BY <1>0, TaskChange
  <2>3. ~Active(r)' /\ \A d \in Callers : d # r => task'[d] = task[d]
    BY <1>0, <2>1, <2>2 DEF Active
  <2> QED BY <2>1, <2>3, SettlesLeft
<1>5. ASSUME NEW r \in Requests, TaskRetry(r) PROVE Settles(w)
  <2>1. /\ r \in Callers /\ task[r].phase = "backoff" /\ load' = load
        /\ mailbox' = mailbox \/ Send(FromMsg("checkout", r))
        /\ task' = [task EXCEPT ![r] = Retrying(@)] \/ task' = [task EXCEPT ![r] = Finished]
    BY <1>0, <1>5, Zenon DEF TaskRetry
  <2>2. Retrying(task[r]).phase = "checkout"
    BY <1>0, TaskChange
  <2>3. ~Active(r) /\ ~Active(r)' /\ \A d \in Callers : d # r => task'[d] = task[d]
    BY <1>0, <2>1, <2>2 DEF Active
  <2> QED BY <1>1, <2>1, <2>3
<1>6. ASSUME NEW r \in Requests, TaskTimeout(r) PROVE Settles(w)
  <2>1. /\ r \in Callers /\ load' = load /\ mailbox' = mailbox /\ ~Active(r) /\ ~Active(r)'
        /\ \A d \in Callers : d # r => task'[d] = task[d]
    BY <1>0, <1>6 DEF TaskTimeout, Active
  <2> QED BY <1>1, <2>1
<1>7. ASSUME NEW s \in Streams, StreamCall(s) PROVE Settles(w)
  <2>1. /\ s \in Callers /\ load' = load /\ Send(FromMsg("checkout", s)) /\ ~Active(s)
        /\ task' = [task EXCEPT ![s].phase = "checkout"]
    BY <1>0, <1>7 DEF StreamCall, Active
  <2>2. ~Active(s)' /\ \A d \in Callers : d # s => task'[d] = task[d]
    BY <1>0, <2>1 DEF Active, Task
  <2> QED BY <1>1, <2>1, <2>2
<1>8. ASSUME NEW s \in Streams, StreamEnd(s) PROVE Settles(w)
  <2>1. /\ s \in Callers /\ Active(s) /\ load' = load /\ Send(WorkerMsg("checkin", task[s].worker))
        /\ ~Active(s)' /\ \A d \in Callers : d # s => task'[d] = task[d]
    BY <1>0, <1>8 DEF StreamEnd, Active
  <2> QED BY <2>1, SettlesLeft
<1>9. ASSUME NEW s \in Streams, StreamKilled(s) PROVE Settles(w)
  <2>1. /\ s \in Callers /\ load' = load /\ mailbox' = mailbox /\ ~NothingCutShort
        /\ ~Active(s)' /\ \A d \in Callers : d # s => task'[d] = task[d]
    BY <1>0, <1>9 DEF StreamKilled, Active, NothingCutShort
  <2>2. CASE Active(s)
    BY <2>1, <2>2, SettlesLeft
  <2>3. CASE ~Active(s)
    BY <1>1, <2>1, <2>3
  <2> QED BY <2>2, <2>3
<1> QED BY <1>2, <1>3, <1>4, <1>5, <1>6, <1>7, <1>8, <1>9 DEF TaskStep

\* Every step settles its account with every worker.
LEMMA LedgerStep ==
  ASSUME TypeOK, OneStage, LoadCovers, [Next]_vars, NEW w \in Workers
  PROVE  Settles(w)
<1> USE PoolAssumption
<1> USE DEF admin, fleet, slots, waiting, sticky, clients, procs
<1>0. /\ task \in [Callers -> Task] /\ Requests \subseteq Callers /\ FiniteHolders
      /\ mailbox \in Seq(Message)
  BY DEF TypeOK, Callers, LoadCovers
<1>1. ASSUME load' = load, task' = task, NEW k \in Message, k # WorkerMsg("checkin", w),
             \/ mailbox' = mailbox
             \/ mailbox' = Append(mailbox, k)
             \/ /\ mailbox # <<>> /\ Head(mailbox) # WorkerMsg("checkin", w)
                /\ mailbox' = Tail(mailbox) \/ mailbox' = Append(Tail(mailbox), k)
      PROVE  Settles(w)
  BY <1>0, <1>1, SettlesQuiet DEF Active
<1>2. ASSUME NEW r \in Requests, HandleExecute(r) PROVE Settles(w)
  <2>1. /\ mailbox # <<>> /\ mailbox' = Tail(mailbox) /\ Head(mailbox) # WorkerMsg("checkin", w)
        /\ Head(mailbox) = FromMsg("execute", r)
        /\ InitComplete \in Message /\ InitComplete # WorkerMsg("checkin", w)
    BY <1>2, CheckinsDiffer, MessageType DEF HandleExecute, RejectUninitialized, Dispatch,
         Enqueue, Saturate, RefuseSticky, Receive, Consume
  <2>2. CASE Dispatch(r)
    <3>1. PICK a \in Checkout(r) :
            /\ a.status = "ok" /\ IncrementLoad(a.worker)
            /\ task' = [task EXCEPT ![r] = Spawn(a.worker, FALSE)]
      BY <2>2 DEF Dispatch
    <3>2. r \in Callers /\ a.worker \in Workers
      BY <1>0, <3>1, CheckoutType
    <3>3. 1 \in Asked(r)
      BY <1>0, <2>1 DEF Asked
    <3>4. ~Active(r)
      BY <3>3 DEF OneStage, InOneStage, Active
    <3>5. Spawn(a.worker, FALSE).phase = "spawned" /\ Spawn(a.worker, FALSE).worker = a.worker
      BY DEF Spawn
    <3>6. /\ Active(r)' /\ task'[r].worker = a.worker
          /\ \A d \in Callers : d # r => task'[d] = task[d]
      BY <1>0, <3>1, <3>2, <3>5 DEF Active
    <3> QED BY <1>0, <2>1, <3>1, <3>2, <3>4, <3>6, SettlesTaken DEF IncrementLoad
  <2>3. CASE task' = task /\ load' = load
    BY <1>1, <2>1, <2>3
  <2> QED BY <1>2, <2>2, <2>3
       DEF HandleExecute, RejectUninitialized, Enqueue, Saturate, RefuseSticky
<1>3. ASSUME NEW c \in Callers, GrantCheckout(c) PROVE Settles(w)
  <2>1. /\ mailbox # <<>> /\ mailbox' = Tail(mailbox) /\ Head(mailbox) # WorkerMsg("checkin", w)
        /\ Head(mailbox) = FromMsg("checkout", c)
    BY <1>3, CheckinsDiffer DEF GrantCheckout, Receive, Consume
  <2>2. PICK a \in Checkout(c) :
          /\ a.status = "ok" /\ IncrementLoad(a.worker)
          /\ task' = IF task[c].phase = "checkout"
                     THEN [task EXCEPT ![c] = Resumed(@, a.worker)] ELSE task
    BY <1>3 DEF GrantCheckout
  <2>3. a.worker \in Workers /\ load' = [load EXCEPT ![a.worker] = @ + 1]
    BY <2>2, CheckoutType DEF IncrementLoad
  <2>4. CASE task[c].phase = "checkout"
    <3>1. Resumed(task[c], a.worker).phase = "running" /\ Resumed(task[c], a.worker).worker = a.worker
      BY <1>0 DEF Resumed, Task
    <3>2. /\ ~Active(c) /\ Active(c)' /\ task'[c].worker = a.worker
          /\ \A d \in Callers : d # c => task'[d] = task[d]
      BY <1>0, <2>2, <2>4, <3>1 DEF Active
    <3> QED BY <1>0, <2>1, <2>3, <3>2, SettlesTaken
  <2>5. CASE task[c].phase # "checkout"
    <3>1. IsFiniteSet(Holders(w)') /\ Busy(w)' = Busy(w) /\ Busy(w) \in Nat
      BY <1>0, <2>2, <2>5, HoldersSame DEF Active
    <3>2. Due(w)' = Due(w) /\ Due(w) \in Nat
      BY <1>0, <2>1, DueKept, MessageType, CheckinsDiffer
    <3>3. load[w] \in Nat /\ load'[w] \in Nat /\ load'[w] >= load[w]
      BY <2>3 DEF TypeOK
    <3>4. Count(mailbox, FromMsg("checkout", c)) # 0
      BY <1>0, <2>1, CountTail
    <3>5. ~CheckoutsAwaited
      BY <2>5, <3>4 DEF CheckoutsAwaited
    <3> QED BY <3>1, <3>2, <3>3, <3>5 DEF Settles
  <2> QED BY <2>4, <2>5
<1>4. ASSUME NEW c \in Callers, RefuseCheckout(c) PROVE Settles(w)
  <2>1. /\ mailbox # <<>> /\ mailbox' = Tail(mailbox) /\ Head(mailbox) # WorkerMsg("checkin", w)
        /\ InitComplete \in Message /\ InitComplete # WorkerMsg("checkin", w) /\ load' = load
    BY <1>4, CheckinsDiffer, MessageType DEF RefuseCheckout, Receive, Consume
  <2>2. CASE task' = task
    BY <1>1, <2>1, <2>2
  <2>3. CASE task[c].phase = "checkout" /\ task' = [task EXCEPT ![c] = Finished]
    <3>1. \A d \in Callers : /\ Active(d)' <=> Active(d)
                             /\ Active(d) => task'[d].worker = task[d].worker
      BY <1>0, <2>3, TaskType DEF Active
    <3> QED BY <1>0, <2>1, <3>1, SettlesQuiet
  <2> QED BY <1>4, <2>2, <2>3 DEF RefuseCheckout
<1>5. ASSUME NEW p \in Workers, Checkin(p) \/ DriveQueue(p) PROVE Settles(w)
  BY <1>0, <1>5, SettlesCheckin, SettlesDrive
<1>6. ASSUME NEW p \in Workers, WorkerReady(p) PROVE Settles(w)
  <2>1. WorkerMsg("skip", p) \in Message /\ WorkerMsg("skip", p) # WorkerMsg("checkin", w)
    BY MessageType, CheckinsDiffer
  <2>2. mailbox # <<>> /\ Head(mailbox) # WorkerMsg("checkin", w)
    BY <1>6, CheckinsDiffer DEF WorkerReady, Receive
  <2> QED BY <1>1, <1>6, <2>1, <2>2 DEF WorkerReady
<1>7. ASSUME MergeInit \/ \E r \in Requests : QueueTimeout(r) PROVE Settles(w)
  <2>1. /\ InitComplete \in Message /\ InitComplete # WorkerMsg("checkin", w)
        /\ mailbox # <<>> /\ Head(mailbox) # WorkerMsg("checkin", w)
    BY <1>7, MessageType, CheckinsDiffer DEF MergeInit, QueueTimeout, Receive
  <2> QED BY <1>1, <1>7, <2>1 DEF MergeInit, QueueTimeout, Consume
<1>8. ASSUME NEW r \in Requests, Call(r) \/ ClientDown(r) \/ TimerFires(r) PROVE Settles(w)
  <2>1. \E k \in Message : /\ k # WorkerMsg("checkin", w)
                           /\ mailbox' = mailbox \/ mailbox' = Append(mailbox, k)
    BY <1>0, <1>8, MessageType, CheckinsDiffer DEF Call, ClientDown, TimerFires, Send
  <2>2. load' = load /\ task' = task
    BY <1>8 DEF Call, ClientDown, TimerFires
  <2> QED BY <1>1, <2>1, <2>2
<1>9. ASSUME \/ \E r \in Requests : TaskStep(r)
             \/ \E s \in Streams : StreamCall(s) \/ StreamEnd(s) \/ StreamKilled(s)
      PROVE  Settles(w)
  BY <1>0, <1>9, SettlesTask
<1>10. ASSUME \/ \E p \in Workers : WorkerStep(p) \/ TaintExpires(p)
              \/ \E s \in Sessions : CacheExpires(s) \/ \E p \in Workers : TaskStore(s, p)
              \/ InitReport \/ UNCHANGED vars
       PROVE  Settles(w)
  <2>1. load' = load /\ task' = task
    BY <1>10 DEF WorkerStep, WorkerReports, WorkerRestart, WorkerGone, TaintExpires, CacheExpires,
         TaskStore, InitReport, vars
  <2>2. \/ mailbox' = mailbox \/ mailbox' = Append(mailbox, InitComplete)
        \/ \E p \in Workers : mailbox' = Append(mailbox, WorkerMsg("ready", p))
    BY <1>10 DEF WorkerStep, WorkerReports, WorkerRestart, WorkerGone, TaintExpires, CacheExpires,
         TaskStore, InitReport, vars, Send
  <2>3. \E k \in Message : /\ k # WorkerMsg("checkin", w)
                           /\ mailbox' = mailbox \/ mailbox' = Append(mailbox, k)
    BY <2>2, MessageType, CheckinsDiffer
  <2> QED BY <1>1, <2>1, <2>3
<1> QED
  BY <1>2, <1>3, <1>4, <1>5, <1>6, <1>7, <1>8, <1>9, <1>10 DEF Next, PoolStep, Quiescent

\* Before the pool has done anything no worker has work.
LEMMA NoWorkAtFirst ==
  ASSUME Init, NEW w \in Workers
  PROVE  IsFiniteSet(Holders(w)) /\ load[w] = 0 /\ Busy(w) = 0 /\ Due(w) = 0
<1>1. Holders(w) = {} /\ load[w] = 0
  BY TaskType DEF Init, Holders, Active
<1>2. Copies(mailbox, WorkerMsg("checkin", w)) = {}
  BY DEF Init, Copies
<1> QED BY <1>1, <1>2, FS_EmptySet DEF Busy, Due, Count

\* The invariant in the words of the runs.
LEMMA WorkCounted ==
  ASSUME TypeOK, LoadCovers, NEW w \in Workers
  PROVE  /\ Cardinality(Pending(WorkerMsg("checkin", w))) = Due(w)
         /\ Due(w) \in Nat /\ Busy(w) \in Nat /\ load[w] \in Nat
<1>1. IsFiniteSet(Holders(w))
  BY DEF LoadCovers, FiniteHolders
<1> QED BY <1>1, PoolCounts, FS_CardinalityType DEF Due, Busy, TypeOK

\* The load recorded for a worker covers every task that holds it and every
\* checkin under way, in every behaviour: crashes, killed streams, retries and
\* checkouts nobody waits for only leave the load too high.
LEMMA LoadIsCovered == Spec => []LoadCovers
<1>1. Init => LoadCovers
  BY NoWorkAtFirst DEF LoadCovers, FiniteHolders
<1>2. TypeOK /\ TypeOK' /\ OneStage /\ LoadCovers /\ [Next]_vars => LoadCovers'
  <2> SUFFICES ASSUME TypeOK, TypeOK', OneStage, LoadCovers, [Next]_vars, NEW w \in Workers
               PROVE  IsFiniteSet(Holders(w)') /\ load'[w] >= Busy(w)' + Due(w)'
    BY DEF LoadCovers, FiniteHolders
  <2>1. Settles(w)
    BY LedgerStep
  <2>2. Busy(w)' \in Nat /\ load'[w] \in Nat
    BY <2>1, FS_CardinalityType DEF Settles, Busy, TypeOK
  <2>3. Due(w)' \in Nat
    BY CountType DEF Due, TypeOK
  <2>4. load[w] >= Busy(w) + Due(w) /\ Busy(w) \in Nat /\ Due(w) \in Nat /\ load[w] \in Nat
    BY WorkCounted DEF LoadCovers
  <2> QED BY <2>1, <2>2, <2>3, <2>4 DEF Settles
<1> QED BY <1>1, <1>2, TypeCorrect, CallsInOneStage, PTL DEF Spec

\* The pool never believes a worker freer than it is.
THEOREM LoadAlwaysCoversWork == Spec => []LoadCoversWork
<1>1. TypeOK /\ LoadCovers => LoadCoversWork
  <2> SUFFICES ASSUME TypeOK, LoadCovers, NEW w \in Workers
               PROVE  load[w] >= Cardinality(Holders(w))
                                   + Cardinality(Pending(WorkerMsg("checkin", w)))
    BY DEF LoadCoversWork
  <2> QED BY WorkCounted DEF LoadCovers, Busy
<1> QED BY <1>1, TypeCorrect, LoadIsCovered, PTL

----------------------------------------------------------------------------
(* A pool at rest has all its workers back.                                *)

\* The inductive invariant behind AllReturned: what the load covers is there.
LoadExact ==
  /\ FiniteHolders
  /\ CheckoutsAwaited
  /\ \A w \in Workers : load[w] = Busy(w) + Due(w)

\* Messages other than checkouts, told apart from every checkout.
LEMMA CheckoutsDiffer ==
  ASSUME NEW c
  PROVE  /\ \A k, d : k # "checkout" => FromMsg(k, d) # FromMsg("checkout", c)
         /\ \A d : d # c => FromMsg("checkout", d) # FromMsg("checkout", c)
         /\ \A k, w : WorkerMsg(k, w) # FromMsg("checkout", c)
         /\ InitComplete # FromMsg("checkout", c)
BY DEF FromMsg, WorkerMsg, InitComplete

\* A step that sends no checkout, handles none, and takes no caller from its
\* wait for one.
LEMMA CheckoutsKept ==
  ASSUME TypeOK, CheckoutsAwaited, NEW k \in Message,
         \A c \in Callers : k # FromMsg("checkout", c),
         \/ mailbox' = mailbox
         \/ mailbox' = Append(mailbox, k)
         \/ /\ mailbox # <<>> /\ \A c \in Callers : Head(mailbox) # FromMsg("checkout", c)
            /\ mailbox' = Tail(mailbox) \/ mailbox' = Append(Tail(mailbox), k),
         \A c \in Callers : task[c].phase = "checkout" => task'[c].phase = "checkout"
  PROVE  CheckoutsAwaited'
<1> SUFFICES ASSUME NEW c \in Callers
             PROVE  Count(mailbox', FromMsg("checkout", c)) = Count(mailbox, FromMsg("checkout", c))
  BY DEF CheckoutsAwaited
<1> DEFINE n == FromMsg("checkout", c)
<1>0. mailbox \in Seq(Message) /\ n # k
  BY DEF TypeOK
<1>1. (\A d \in Callers : Head(mailbox) # FromMsg("checkout", d)) => Head(mailbox) # n
  OBVIOUS
<1> HIDE DEF n
<1>2. CASE mailbox' = mailbox
  BY <1>2 DEF n
<1>3. CASE mailbox' = Append(mailbox, k)
  <2>1. Count(mailbox', n) = Count(mailbox, n)
    BY <1>0, <1>3, SendCounts DEF Send
  <2> QED BY <2>1 DEF n
<1>4. CASE mailbox # <<>> /\ Head(mailbox) # n /\ mailbox' = Tail(mailbox)
  <2>1. Count(mailbox', n) = Count(mailbox, n)
    BY <1>0, <1>4, ConsumeCounts DEF Receive, Consume
  <2> QED BY <2>1 DEF n
<1>5. CASE mailbox # <<>> /\ Head(mailbox) # n /\ mailbox' = Append(Tail(mailbox), k)
  <2>1. Receive(Head(mailbox))
    BY <1>5 DEF Receive
  <2>2. Count(mailbox', n) = Count(mailbox, n)
    BY <1>0, <1>5, <2>1, ForwardCounts
  <2> QED BY <2>2 DEF n
<1> QED BY <1>1, <1>2, <1>3, <1>4, <1>5

\* The answer to a checkout ends the caller's only wait.
LEMMA CheckoutAnswered ==
  ASSUME TypeOK, CheckoutsAwaited, NEW c \in Callers, Receive(FromMsg("checkout", c)), Consume,
         \A d \in Callers : d # c => task'[d] = task[d]
  PROVE  CheckoutsAwaited'
<1> SUFFICES ASSUME NEW d \in Callers
             PROVE  /\ Count(mailbox', FromMsg("checkout", d)) \in {0, 1}
                    /\ Count(mailbox', FromMsg("checkout", d)) # 0 => task'[d].phase = "checkout"
  BY DEF CheckoutsAwaited
<1>1. mailbox \in Seq(Message) /\ Count(mailbox, FromMsg("checkout", d)) \in {0, 1}
  BY DEF TypeOK, CheckoutsAwaited
<1>2. CASE d = c
  BY <1>1, <1>2, ConsumeCounts
<1>3. CASE d # c
  <2>1. Count(mailbox', FromMsg("checkout", d)) = Count(mailbox, FromMsg("checkout", d))
    BY <1>1, <1>3, ConsumeCounts, CheckoutsDiffer
  <2> QED BY <1>3, <2>1 DEF CheckoutsAwaited
<1> QED BY <1>2, <1>3

\* A stream asks for its checkout once.
LEMMA CheckoutAsked ==
  ASSUME TypeOK, CheckoutsAwaited, NEW s \in Streams, StreamCall(s)
  PROVE  CheckoutsAwaited'
<1>0. /\ s \in Callers /\ mailbox \in Seq(Message) /\ FromMsg("checkout", s) \in Message
      /\ Send(FromMsg("checkout", s)) /\ task[s] \in Task /\ task[s].phase = "none"
      /\ task' = [task EXCEPT ![s].phase = "checkout"] /\ task \in [Callers -> Task]
  BY MessageType, TaskType DEF TypeOK, Callers, StreamCall
<1> SUFFICES ASSUME NEW d \in Callers
             PROVE  /\ Count(mailbox', FromMsg("checkout", d)) \in {0, 1}
                    /\ Count(mailbox', FromMsg("checkout", d)) # 0 => task'[d].phase = "checkout"
  BY DEF CheckoutsAwaited
<1>1. CASE d = s
  <2>1. Count(mailbox, FromMsg("checkout", d)) = 0
    BY <1>0, <1>1 DEF CheckoutsAwaited
  <2>2. task'[d].phase = "checkout"
    BY <1>0, <1>1 DEF Task
  <2> QED BY <1>0, <1>1, <2>1, <2>2, SendCounts
<1>2. CASE d # s
  <2>1. Count(mailbox', FromMsg("checkout", d)) = Count(mailbox, FromMsg("checkout", d))
    BY <1>0, <1>2, SendCounts, CheckoutsDiffer
  <2> QED BY <1>0, <1>2, <2>1 DEF CheckoutsAwaited
<1> QED BY <1>1, <1>2

\* When nothing is cut short, every checkout in the mailbox is waited for.
LEMMA CheckoutsStep ==
  ASSUME NothingCutShort, NoneRetrying, TypeOK, OneStage, CheckoutsAwaited, [Next]_vars
  PROVE  CheckoutsAwaited'
<1> USE PoolAssumption
<1> USE DEF admin, fleet, slots, waiting, sticky, clients, procs
<1>0. /\ task \in [Callers -> Task] /\ Requests \subseteq Callers
      /\ Streams \subseteq Callers /\ mailbox \in Seq(Message)
      /\ InitComplete \in Message /\ \A c \in Callers : InitComplete # FromMsg("checkout", c)
      /\ \A r \in Requests : task[r].phase # "checkout"
  BY MessageType, CheckoutsDiffer DEF TypeOK, Callers, NoneRetrying
<1>1. ASSUME NEW k \in Message, \A c \in Callers : k # FromMsg("checkout", c),
             \/ mailbox' = mailbox
             \/ mailbox' = Append(mailbox, k)
             \/ /\ mailbox # <<>> /\ \A c \in Callers : Head(mailbox) # FromMsg("checkout", c)
                /\ mailbox' = Tail(mailbox) \/ mailbox' = Append(Tail(mailbox), k),
             \/ task' = task
             \/ \E c \in Callers : /\ task[c].phase # "checkout"
                                   /\ \A d \in Callers : d # c => task'[d] = task[d]
      PROVE  CheckoutsAwaited'
  <2>1. \A c \in Callers : task[c].phase = "checkout" => task'[c].phase = "checkout"
    BY <1>1
  <2> QED BY <1>1, <2>1, CheckoutsKept
<1>2. ASSUME NEW r \in Requests, HandleExecute(r) PROVE CheckoutsAwaited'
  <2>1. /\ mailbox # <<>> /\ \A c \in Callers : Head(mailbox) # FromMsg("checkout", c)
        /\ mailbox' = Tail(mailbox)
    BY <1>2, CheckoutsDiffer DEF HandleExecute, RejectUninitialized, Dispatch, Enqueue, Saturate,
         RefuseSticky, Receive, Consume
  <2>2. \A d \in Callers : d # r => task'[d] = task[d]
    BY <1>0, <1>2 DEF HandleExecute, RejectUninitialized, Dispatch, Enqueue, Saturate, RefuseSticky
  <2> QED BY <1>0, <1>1, <2>1, <2>2
<1>3. ASSUME NEW c \in Callers, GrantCheckout(c) \/ RefuseCheckout(c) PROVE CheckoutsAwaited'
  <2>1. \A d \in Callers : d # c => task'[d] = task[d]
    BY <1>0, <1>3 DEF GrantCheckout, RefuseCheckout
  <2> QED BY <1>3, <2>1, CheckoutAnswered DEF GrantCheckout, RefuseCheckout
<1>4. ASSUME NEW p \in Workers, Checkin(p) \/ DriveQueue(p) PROVE CheckoutsAwaited'
  <2>1. mailbox # <<>> /\ \A c \in Callers : Head(mailbox) # FromMsg("checkout", c)
    BY <1>4, CheckoutsDiffer DEF Checkin, DriveQueue, Receive
  <2>2. Refresh(available, p, Decremented(p)) \in SUBSET Workers /\ available \in SUBSET Workers
    BY DEF Refresh, TypeOK
  <2>3. PICK ld : \/ /\ load' = ld /\ task' = task
                     /\ \/ mailbox' = Tail(mailbox)
                        \/ \E q \in Workers : mailbox' = Append(Tail(mailbox), WorkerMsg("skip", q))
                  \/ \E q \in Workers, e \in queue :
                       /\ load' = [ld EXCEPT ![q] = @ + 1]
                       /\ task' = [task EXCEPT ![e.from] = Spawn(q, TRUE)]
                       /\ mailbox' = Tail(mailbox)
    BY <1>4, <2>2, ServeQueueOutcome DEF Checkin, DriveQueue
  <2>4. CASE /\ task' = task
             /\ \/ mailbox' = Tail(mailbox)
                \/ \E q \in Workers : mailbox' = Append(Tail(mailbox), WorkerMsg("skip", q))
    <3>1. \A q \in Workers : /\ WorkerMsg("skip", q) \in Message
                             /\ \A c \in Callers : WorkerMsg("skip", q) # FromMsg("checkout", c)
      BY MessageType, CheckoutsDiffer
    <3> QED BY <1>0, <1>1, <2>1, <2>4, <3>1
  <2>5. ASSUME NEW q \in Workers, NEW e \in queue,
               task' = [task EXCEPT ![e.from] = Spawn(q, TRUE)], mailbox' = Tail(mailbox)
        PROVE  CheckoutsAwaited'
    <3>1. e.from \in Requests
      BY DEF TypeOK, Entry
    <3>2. \A d \in Callers : d # e.from => task'[d] = task[d]
      BY <1>0, <2>5
    <3> QED BY <1>0, <1>1, <2>1, <2>5, <3>1, <3>2
  <2> QED BY <2>3, <2>4, <2>5
<1>5. ASSUME NEW p \in Workers, WorkerReady(p) PROVE CheckoutsAwaited'
  <2>1. /\ WorkerMsg("skip", p) \in Message
        /\ \A c \in Callers : WorkerMsg("skip", p) # FromMsg("checkout", c)
        /\ mailbox # <<>> /\ \A c \in Callers : Head(mailbox) # FromMsg("checkout", c)
    BY <1>5, MessageType, CheckoutsDiffer DEF WorkerReady, Receive
  <2> QED BY <1>1, <1>5, <2>1 DEF WorkerReady
<1>6. ASSUME MergeInit \/ \E r \in Requests : QueueTimeout(r) PROVE CheckoutsAwaited'
  <2>1. mailbox # <<>> /\ \A c \in Callers : Head(mailbox) # FromMsg("checkout", c)
    BY <1>6, CheckoutsDiffer DEF MergeInit, QueueTimeout, Receive
  <2> QED BY <1>0, <1>1, <1>6, <2>1 DEF MergeInit, QueueTimeout, Consume
<1>7. ASSUME NEW r \in Requests, Call(r) \/ ClientDown(r) \/ TimerFires(r) PROVE CheckoutsAwaited'
  <2>1. \E k \in Message : /\ \A c \in Callers : k # FromMsg("checkout", c)
                           /\ mailbox' = mailbox \/ mailbox' = Append(mailbox, k)
    BY <1>0, <1>7, MessageType, CheckoutsDiffer DEF Call, ClientDown, TimerFires, Send
  <2>2. task' = task
    BY <1>7 DEF Call, ClientDown, TimerFires
  <2> QED BY <1>1, <2>1, <2>2
<1>8. ASSUME NEW r \in Requests, TaskStep(r) PROVE CheckoutsAwaited'
  <2>1. \A d \in Callers : d # r => task'[d] = task[d]
    BY <1>0, <1>8 DEF TaskStep, TaskAbort, TaskStart, TaskResult, TaskCrash, TaskRetry, TaskTimeout
  <2>2. ~TaskRetry(r) /\ ~TaskTimeout(r)
    BY DEF TaskRetry, TaskTimeout, NoneRetrying
  <2>3. mailbox' = mailbox \/ (Active(r) /\ Send(WorkerMsg("checkin", task[r].worker)))
    BY <1>8, <2>2 DEF TaskStep, TaskAbort, TaskStart, TaskResult, TaskCrash, Active
  <2>4. Active(r) => task[r].worker \in Workers
    BY <1>0 DEF TypeOK
  <2>5. \E k \in Message : /\ \A c \in Callers : k # FromMsg("checkout", c)
                           /\ mailbox' = mailbox \/ mailbox' = Append(mailbox, k)
    BY <1>0, <2>3, <2>4, MessageType, CheckoutsDiffer DEF Send
  <2> QED BY <1>0, <1>1, <2>1, <2>5
<1>9. ASSUME NEW s \in Streams, StreamCall(s) \/ StreamEnd(s) \/ StreamKilled(s)
      PROVE  CheckoutsAwaited'
  <2>1. CASE StreamCall(s)
    BY <2>1, CheckoutAsked
  <2>2. CASE StreamEnd(s)
    <3>1. task[s].worker \in Workers /\ task[s].phase # "checkout"
      BY <1>0, <2>2 DEF StreamEnd, TypeOK, Active
    <3>2. \A d \in Callers : d # s => task'[d] = task[d]
      BY <1>0, <2>2 DEF StreamEnd
    <3>3. \E k \in Message : /\ \A c \in Callers : k # FromMsg("checkout", c)
                             /\ mailbox' = Append(mailbox, k)
      BY <2>2, <3>1, MessageType, CheckoutsDiffer DEF StreamEnd, Send
    <3> QED BY <1>0, <1>1, <3>1, <3>2, <3>3
  <2>3. ~StreamKilled(s)
    BY DEF StreamKilled, NothingCutShort
  <2> QED BY <1>9, <2>1, <2>2, <2>3
<1>10. ASSUME \/ \E p \in Workers : WorkerStep(p) \/ TaintExpires(p)
              \/ \E s \in Sessions : CacheExpires(s) \/ \E p \in Workers : TaskStore(s, p)
              \/ InitReport \/ UNCHANGED vars
       PROVE  CheckoutsAwaited'
  <2>1. task' = task
    BY <1>10 DEF WorkerStep, WorkerReports, WorkerRestart, WorkerGone, TaintExpires, CacheExpires,
         TaskStore, InitReport, vars
  <2>2. \/ mailbox' = mailbox \/ mailbox' = Append(mailbox, InitComplete)
        \/ \E p \in Workers : mailbox' = Append(mailbox, WorkerMsg("ready", p))
    BY <1>10 DEF WorkerStep, WorkerReports, WorkerRestart, WorkerGone, TaintExpires, CacheExpires,
         TaskStore, InitReport, vars, Send
  <2>3. \E k \in Message : /\ \A c \in Callers : k # FromMsg("checkout", c)
                           /\ mailbox' = mailbox \/ mailbox' = Append(mailbox, k)
    BY <1>0, <2>2, MessageType, CheckoutsDiffer
  <2> QED BY <1>1, <2>1, <2>3
<1> QED
  BY <1>2, <1>3, <1>4, <1>5, <1>6, <1>7, <1>8, <1>9, <1>10 DEF Next, PoolStep, Quiescent

\* When no call ends in a crash and no stream is killed, a pool at rest has
\* all its slots back, and no cancelled request is in its queue: every path of
\* a call through the pool ends in exactly one checkin.
THEOREM NothingIsLeftOver == NothingCutShort => (Spec => []NothingLeftOver)
<1> SUFFICES ASSUME NothingCutShort PROVE Spec => []NothingLeftOver
  OBVIOUS
<1> DEFINE Inv == NoneRetrying /\ LoadExact
<1>1. Init => Inv
  <2> SUFFICES ASSUME Init PROVE NoneRetrying /\ LoadExact
    OBVIOUS
  <2>1. NoneRetrying
    BY TaskType DEF Init, NoneRetrying, Callers
  <2>2. \A c : Copies(mailbox, FromMsg("checkout", c)) = {}
    BY DEF Init, Copies
  <2>3. CheckoutsAwaited
    BY <2>2, FS_EmptySet DEF CheckoutsAwaited, Count
  <2> QED BY <2>1, <2>3, NoWorkAtFirst DEF LoadExact, FiniteHolders
<1>2. TypeOK /\ TypeOK' /\ OneStage /\ LoadCovers /\ Inv /\ [Next]_vars => Inv'
  <2> SUFFICES ASSUME TypeOK, TypeOK', OneStage, LoadCovers, NoneRetrying, LoadExact, [Next]_vars
               PROVE  NoneRetrying' /\ LoadExact'
    OBVIOUS
  <2>1. NoneRetrying'
    BY NoneRetryingStep DEF NothingCutShort, NoRetries
  <2>2. CheckoutsAwaited'
    BY CheckoutsStep DEF LoadExact
  <2>3. ASSUME NEW w \in Workers
        PROVE  IsFiniteSet(Holders(w)') /\ load'[w] = Busy(w)' + Due(w)'
    <3>1. Settles(w)
      BY LedgerStep
    <3>2. Busy(w)' \in Nat /\ load'[w] \in Nat
      BY <3>1, FS_CardinalityType DEF Settles, Busy, TypeOK
    <3>3. Due(w)' \in Nat
      BY CountType DEF Due, TypeOK
    <3>4. load[w] = Busy(w) + Due(w) /\ Busy(w) \in Nat /\ Due(w) \in Nat /\ load[w] \in Nat
      BY WorkCounted DEF LoadExact
    <3>5. /\ IsFiniteSet(Holders(w)')
          /\ Busy(w)' + Due(w)' + load[w] = load'[w] + Busy(w) + Due(w)
      BY <3>1 DEF Settles, LoadExact
    <3> QED BY <3>2, <3>3, <3>4, <3>5
  <2> QED BY <2>1, <2>2, <2>3 DEF LoadExact, FiniteHolders
<1>3. TypeOK /\ OneStage /\ TimeoutsSure /\ LoadExact => NothingLeftOver
  <2> SUFFICES ASSUME TypeOK, OneStage, TimeoutsSure, LoadExact PROVE NothingLeftOver
    OBVIOUS
  <2>1. CancelledLeftQueue
    BY QueuedOnce DEF TimeoutsSure, CancelledLeftQueue
  <2>2. ASSUME AtRest, NEW w \in Workers PROVE load[w] = 0
    <3>1. Holders(w) = {} /\ Copies(mailbox, WorkerMsg("checkin", w)) = {}
      BY <2>2 DEF AtRest, Holders, Active, Copies
    <3> QED BY <3>1, FS_EmptySet DEF LoadExact, Busy, Due, Count
  <2> QED BY <2>1, <2>2 DEF NothingLeftOver, AllReturned
<1> QED
  BY <1>1, <1>2, <1>3, TypeCorrect, CallsInOneStage, TimeoutsAreSure, LoadIsCovered, PTL DEF Spec

----------------------------------------------------------------------------
(* Work waits only for workers.                                            *)

\* A crashed call never gives its slot back: the load of a tainted worker is more
\* than the work on it.
TaintedLeaked == \A w \in tainted : load[w] > Busy(w) + Due(w)

\* Only the crash of a task taints a worker, the one that ran it.
LEMMA TaintedByCrash ==
  ASSUME [Next]_vars
  PROVE  \/ tainted' \subseteq tainted
         \/ \E r \in Requests : TaskCrash(r) /\ tainted' = tainted \cup {task[r].worker}
<1> USE PoolAssumption
<1> USE DEF admin, fleet, slots, waiting, sticky, clients, procs
<1>1. ASSUME NEW r \in Requests, HandleExecute(r) \/ QueueTimeout(r) PROVE tainted' = tainted
  BY <1>1 DEF HandleExecute, RejectUninitialized, Dispatch, Enqueue, Saturate, RefuseSticky,
       QueueTimeout
<1>2. ASSUME NEW c \in Callers, GrantCheckout(c) \/ RefuseCheckout(c) PROVE tainted' = tainted
  BY <1>2 DEF GrantCheckout, RefuseCheckout
<1>3. ASSUME NEW w \in Workers,
             \/ Checkin(w) \/ DriveQueue(w) \/ WorkerReady(w) \/ WorkerStep(w) \/ TaintExpires(w)
             \/ \E s \in Sessions : TaskStore(s, w)
      PROVE  tainted' \subseteq tainted
  BY <1>3 DEF Checkin, DriveQueue, WorkerReady, WorkerStep, WorkerReports, WorkerRestart,
       WorkerGone, TaintExpires, TaskStore
<1>4. ASSUME NEW r \in Requests, Call(r) \/ ClientDown(r) \/ TaskStep(r) \/ TimerFires(r),
             ~TaskCrash(r)
      PROVE  tainted' = tainted
  BY <1>4 DEF Call, ClientDown, TaskStep, TaskAbort, TaskStart, TaskResult,
       TaskRetry, TaskTimeout, TimerFires
<1>5. ASSUME NEW r \in Requests, TaskCrash(r)
      PROVE  tainted' = tainted \cup {task[r].worker}
  BY <1>5 DEF TaskCrash
<1>6. ASSUME NEW s, \/ StreamCall(s) \/ StreamEnd(s) \/ StreamKilled(s) \/ CacheExpires(s)
      PROVE  tainted' = tainted
  BY <1>6 DEF StreamCall, StreamEnd, StreamKilled, CacheExpires
<1>7. CASE MergeInit \/ InitReport \/ UNCHANGED vars
  BY <1>7 DEF MergeInit, InitReport, vars
<1> QED BY <1>1, <1>2, <1>3, <1>4, <1>5, <1>6, <1>7, Zenon DEF Next, PoolStep, Quiescent

LEMMA TaintedLeakedStep ==
  ASSUME TypeOK, TypeOK', OneStage, LoadCovers, TaintedLeaked, [Next]_vars
  PROVE  TaintedLeaked'
<1> SUFFICES ASSUME NEW w \in tainted' PROVE load'[w] > Busy(w)' + Due(w)'
  BY DEF TaintedLeaked
<1>1. w \in Workers /\ Settles(w)
  <2>1. w \in Workers
    BY DEF TypeOK
  <2> QED BY <2>1, LedgerStep
<1>2. /\ Busy(w)' \in Nat /\ load'[w] \in Nat /\ Due(w)' \in Nat
      /\ load[w] >= Busy(w) + Due(w) /\ Busy(w) \in Nat /\ Due(w) \in Nat /\ load[w] \in Nat
  BY <1>1, WorkCounted, CountType, FS_CardinalityType DEF LoadCovers, Settles, Busy, Due, TypeOK
<1>3. CASE w \in tainted
  <2>1. load[w] > Busy(w) + Due(w)
    BY <1>3 DEF TaintedLeaked
  <2> QED BY <1>1, <1>2, <2>1 DEF Settles
<1>4. CASE w \notin tainted
  <2>1. PICK r \in Requests : TaskCrash(r) /\ w = task[r].worker
    BY <1>4, TaintedByCrash
  <2>2. /\ r \in Callers /\ Active(r) /\ ~Active(r)' /\ mailbox' = mailbox /\ load' = load
        /\ \A d \in Callers : d # r => task'[d] = task[d]
    <3>1. r \in Callers /\ task[r] \in Task /\ task \in [Callers -> Task]
      BY DEF Callers, TypeOK
    <3>2. Backoff(task[r]).phase = "backoff" /\ Finished.phase = "done"
      BY <3>1, TaskChange, TaskType
    <3>3. /\ task[r].phase = "running" /\ mailbox' = mailbox /\ load' = load
          /\ \/ task' = [task EXCEPT ![r] = Backoff(task[r])]
             \/ task' = [task EXCEPT ![r] = Finished]
      BY <2>1 DEF TaskCrash, slots
    <3>4. /\ Active(r) /\ task'[r].phase \in {"backoff", "done"}
          /\ \A d \in Callers : d # r => task'[d] = task[d]
      BY <3>1, <3>2, <3>3 DEF Active
    <3> QED BY <3>1, <3>3, <3>4 DEF Active
  <2>3. Busy(w) = Busy(w)' + 1
    BY <1>1, <2>1, <2>2, HoldersLeft DEF LoadCovers
  <2>4. Due(w)' = Due(w)
    BY <2>2 DEF Due, Count, Copies
  <2>5. load'[w] = load[w]
    BY <2>2
  <2> QED BY <1>2, <2>3, <2>4, <2>5
<1> QED BY <1>3, <1>4

\* The pool never counts a tainted worker as free of work.
LeaksCounted == \A w \in tainted : load[w] # 0

LEMMA LeakedNotFree ==
  ASSUME TypeOK, LoadCovers, TaintedLeaked
  PROVE  LeaksCounted
<1> SUFFICES ASSUME NEW w \in tainted PROVE load[w] # 0
  BY DEF LeaksCounted
<1>1. w \in Workers
  BY DEF TypeOK
<1>2. load[w] > Busy(w) + Due(w) /\ Busy(w) \in Nat /\ Due(w) \in Nat /\ load[w] \in Nat
  BY <1>1, WorkCounted DEF TaintedLeaked
<1> QED BY <1>2

\* What WorkConserving asks for one worker.
Unused(w) == w \in available /\ load[w] = 0
Driven(w) == Unused(w) /\ Compatible(w) # {} => Pending(WorkerMsg("skip", w)) # {}

\* Queue drives are told apart by the worker they name.
LEMMA DrivesDiffer ==
  ASSUME NEW w
  PROVE  /\ \A k, c : FromMsg(k, c) # WorkerMsg("skip", w)
         /\ \A k, q : k # "skip" => WorkerMsg(k, q) # WorkerMsg("skip", w)
         /\ \A q : q # w => WorkerMsg("skip", q) # WorkerMsg("skip", w)
         /\ InitComplete # WorkerMsg("skip", w)
BY DEF FromMsg, WorkerMsg, InitComplete

\* A step that does not free w, queues nothing for it and handles no drive of its
\* queue.
LEMMA DrivenKept ==
  ASSUME TypeOK, NEW w \in Workers, Driven(w), NEW k \in Message,
         Unused(w)' => Unused(w), Compatible(w)' \subseteq Compatible(w),
         \/ mailbox' = mailbox
         \/ mailbox' = Append(mailbox, k)
         \/ /\ mailbox # <<>> /\ Head(mailbox) # WorkerMsg("skip", w)
            /\ mailbox' = Tail(mailbox) \/ mailbox' = Append(Tail(mailbox), k)
  PROVE  Driven(w)'
<1> SUFFICES ASSUME Unused(w)', Compatible(w)' # {}
             PROVE  Pending(WorkerMsg("skip", w))' # {}
  BY DEF Driven
<1>1. Pending(WorkerMsg("skip", w)) # {} /\ mailbox \in Seq(Message)
  BY DEF Driven, TypeOK
<1> QED BY <1>1, PendingKept

\* Taking q frees nobody.
LEMMA TakenNotFree ==
  ASSUME NEW ld \in [Workers -> Nat], NEW av, NEW q \in Workers, NEW w \in Workers,
         load' = [ld EXCEPT ![q] = @ + 1], available' = Refresh(av, q, ld[q] + 1), Unused(w)'
  PROVE  w # q /\ w \in av /\ ld[w] = 0
<1>1. load'[q] # 0
  OBVIOUS
<1>2. w # q /\ load'[w] = ld[w]
  BY <1>1 DEF Unused
<1> QED BY <1>2 DEF Unused, Refresh

\* Serving the queue of worker p leaves p without compatible work, or busy; who
\* serves it in place of a tainted p is busy then.
LEMMA ServeQueueDrives ==
  ASSUME TypeOK, OneStage, TimeoutsSure, NEW p \in Workers,
         NEW ld \in [Workers -> Nat], NEW av, ServeQueue(p, ld, av), av \subseteq Workers,
         \A x \in Workers : x # p => ld[x] = load[x] /\ (x \in av => x \in available),
         mailbox # <<>>, NEW w \in Workers, w \notin tainted, Driven(w),
         w = p \/ Head(mailbox) # WorkerMsg("skip", w)
  PROVE  Driven(w)'
<1>1. PICK kept \in Kept : \/ LeaveQueue(p, ld, av, kept)
                           \/ \E q \in QueueWorkers(p, av) : PopQueue(q, ld, av, kept)
  BY DEF ServeQueue
<1>2. CASE LeaveQueue(p, ld, av, kept)
  <2>1. /\ available' = av /\ load' = ld /\ queue' = queue /\ mailbox' = Tail(mailbox)
        /\ w = p => Compatible(p) = {}
        /\ InitComplete \in Message
    BY <1>2, MessageType DEF LeaveQueue, Consume, QueueWorkers
  <2>2. CASE w = p
    BY <2>1, <2>2 DEF Driven, Compatible
  <2>3. CASE w # p
    BY <2>1, <2>3, DrivenKept DEF Compatible, Unused
  <2> QED BY <2>2, <2>3
<1>3. ASSUME NEW q \in QueueWorkers(p, av), PopQueue(q, ld, av, kept) PROVE Driven(w)'
  <2>1. PICK e \in queue :
          /\ queue' = queue \ {e}
          /\ SkipCancelled(e, q, ld, av, kept) \/ RunQueued(e, q, ld, av, kept)
    BY <1>3 DEF PopQueue
  <2>2. q \in Workers /\ (w = p => q = p)
    BY DEF QueueWorkers
  <2>3. e.from \notin kept
    BY QueuedOnce DEF TimeoutsSure, Kept
  <2>4. /\ load' = [ld EXCEPT ![q] = @ + 1] /\ available' = Refresh(av, q, ld[q] + 1)
        /\ mailbox' = Tail(mailbox) /\ InitComplete \in Message
    BY <2>1, <2>3, MessageType DEF SkipCancelled, RunQueued, Consume
  <2>5. ASSUME Unused(w)' PROVE w # q /\ w \in av /\ ld[w] = 0
    <3>1. load' = [ld EXCEPT ![q] = @ + 1] /\ available' = Refresh(av, q, ld[q] + 1)
      BY <2>4
    <3>2. q \in Workers
      BY <2>2
    <3> QED BY <2>5, <3>1, <3>2, TakenNotFree
  <2>6. Compatible(w)' \subseteq Compatible(w)
    BY <2>1 DEF Compatible
  <2>7. CASE w = p
    BY <2>2, <2>5, <2>7 DEF Driven
  <2>8. CASE w # p
    <3>1. Unused(w)' => Unused(w)
      BY <2>5, <2>8 DEF Unused
    <3> QED BY <2>4, <2>6, <2>8, <3>1, DrivenKept
  <2> QED BY <2>7, <2>8
<1> QED BY <1>1, <1>2, <1>3

\* A call that has to wait is queued only for workers that are not offered.
LEMMA EnqueueDrives ==
  ASSUME TypeOK, LeaksCounted, NEW r \in Requests, Enqueue(r), NEW w \in Workers, Driven(w)
  PROVE  Driven(w)'
<1> USE PoolAssumption
<1>1. PICK a \in Checkout(r), kept \in Kept :
        /\ a.status \in {"no_workers", "affinity_busy"}
        /\ queue' = Compacted(kept) \cup {[from |-> r, affinity |-> a.worker, at |-> clock]}
  BY DEF Enqueue
<1>2. /\ available' = available /\ load' = load /\ mailbox # <<>> /\ mailbox' = Tail(mailbox)
      /\ Head(mailbox) # WorkerMsg("skip", w) /\ InitComplete \in Message
  BY MessageType, DrivesDiffer DEF Enqueue, slots, Receive, Consume
<1>3. CASE a.status = "no_workers"
  <2>1. a \in AnyAvailable
    BY <1>3 DEF Checkout, Grant, Refuse
  <2>2. available \subseteq tainted
    BY <1>3, <2>1 DEF AnyAvailable, Grant, Refuse
  <2> QED BY <1>2, <2>2 DEF Driven, Unused, LeaksCounted
<1>4. CASE a.status = "affinity_busy"
  <2>1. a.worker # NoWorker /\ PreferredStatus(a.worker) = "busy"
    BY <1>4 DEF Checkout, AnyAvailable, Grant, Refuse
  <2>2. a.worker \notin available
    BY <2>1 DEF PreferredStatus
  <2>3. w \in available => Compatible(w)' \subseteq Compatible(w)
    BY <1>1, <2>1, <2>2 DEF Compatible, Compacted
  <2>4. CASE w \in available
    BY <1>2, <2>3, <2>4, DrivenKept DEF Unused
  <2>5. CASE w \notin available
    BY <1>2, <2>5 DEF Driven, Unused
  <2> QED BY <2>4, <2>5
<1> QED BY <1>1, <1>3, <1>4

\* No request waits for a worker that runs nothing, but for the time a queue drive is
\* under way: for every number of slots and under any faults, for a tainted worker
\* never counts as free.
THEOREM FreeWorkersServe == Spec => []WorkConserving
<1> USE PoolAssumption
<1>1. Init => TaintedLeaked /\ WorkConserving
  BY DEF Init, TaintedLeaked, WorkConserving
<1>2. TypeOK /\ TypeOK' /\ OneStage /\ LoadCovers /\ TaintedLeaked /\ [Next]_vars
        => TaintedLeaked'
  BY TaintedLeakedStep
<1>3. TypeOK /\ LoadCovers /\ TaintedLeaked => LeaksCounted
  BY LeakedNotFree
<1>4. TypeOK /\ OneStage /\ TimeoutsSure /\ LeaksCounted /\ WorkConserving /\ TypeOK' /\ LeaksCounted'
        /\ [Next]_vars => WorkConserving'
  <2> SUFFICES ASSUME TypeOK, OneStage, TimeoutsSure, LeaksCounted, WorkConserving, [Next]_vars,
                      TypeOK', LeaksCounted', NEW w \in Workers, w \notin tainted'
               PROVE  Driven(w)'
    BY DEF WorkConserving, Driven, Unused, LeaksCounted, TypeOK
  <2> USE DEF admin, fleet, slots, waiting, sticky, clients, procs
  <2>0. /\ Driven(w) /\ load \in [Workers -> Nat] /\ Requests \subseteq Callers
        /\ available \subseteq Workers
    BY DEF WorkConserving, Driven, Unused, TypeOK, Callers
  <2>1. ASSUME Unused(w)' => Unused(w), queue' \subseteq queue, NEW k \in Message,
               \/ mailbox' = mailbox
               \/ mailbox' = Append(mailbox, k)
               \/ /\ mailbox # <<>> /\ Head(mailbox) # WorkerMsg("skip", w)
                  /\ mailbox' = Tail(mailbox) \/ mailbox' = Append(Tail(mailbox), k)
        PROVE  Driven(w)'
    <3>1. Compatible(w)' \subseteq Compatible(w)
      BY <2>1 DEF Compatible
    <3> QED BY <2>0, <2>1, <3>1, DrivenKept
  <2>2. ASSUME NEW q \in Workers, IncrementLoad(q) PROVE Unused(w)' => Unused(w)
    <3>1. /\ load' = [load EXCEPT ![q] = @ + 1]
          /\ available' = Refresh(available, q, load[q] + 1)
      BY <2>2 DEF IncrementLoad
    <3> QED BY <2>0, <3>1, TakenNotFree DEF Unused
  <2>3. ASSUME NEW r \in Requests, HandleExecute(r) PROVE Driven(w)'
    <3>1. /\ mailbox # <<>> /\ mailbox' = Tail(mailbox) /\ Head(mailbox) # WorkerMsg("skip", w)
          /\ InitComplete \in Message
      BY <2>3, DrivesDiffer, MessageType DEF HandleExecute, RejectUninitialized, Dispatch,
           Enqueue, Saturate, RefuseSticky, Receive, Consume
    <3>2. CASE Dispatch(r)
      <4>1. PICK a \in Checkout(r), kept \in Kept :
              a.status = "ok" /\ IncrementLoad(a.worker) /\ queue' = Compacted(kept)
        BY <3>2 DEF Dispatch
      <4>2. a.worker \in Workers
        BY <2>0, <4>1, CheckoutType
      <4>3. Unused(w)' => Unused(w)
        BY <2>2, <4>1, <4>2
      <4> QED BY <2>1, <3>1, <4>1, <4>3 DEF Compacted
    <3>3. CASE Enqueue(r)
      BY <2>0, <3>3, EnqueueDrives
    <3>4. CASE RejectUninitialized(r) \/ Saturate(r) \/ RefuseSticky(r)
      <4>1. available' = available /\ load' = load /\ queue' \subseteq queue
        BY <3>4 DEF RejectUninitialized, Saturate, RefuseSticky, Compacted
      <4> QED BY <2>1, <3>1, <4>1 DEF Unused
    <3> QED BY <2>3, <3>2, <3>3, <3>4 DEF HandleExecute
  <2>4. ASSUME NEW c \in Callers, GrantCheckout(c) \/ RefuseCheckout(c) PROVE Driven(w)'
    <3>1. /\ mailbox # <<>> /\ mailbox' = Tail(mailbox) /\ Head(mailbox) # WorkerMsg("skip", w)
          /\ InitComplete \in Message /\ queue' = queue
      BY <2>4, DrivesDiffer, MessageType DEF GrantCheckout, RefuseCheckout, Receive, Consume
    <3>2. CASE GrantCheckout(c)
      <4>1. PICK a \in Checkout(c) : a.status = "ok" /\ IncrementLoad(a.worker)
        BY <3>2 DEF GrantCheckout
      <4>2. a.worker \in Workers
        BY <4>1, CheckoutType
      <4> QED BY <2>1, <2>2, <3>1, <4>1, <4>2
    <3>3. CASE RefuseCheckout(c)
      BY <2>1, <3>1, <3>3 DEF RefuseCheckout, Unused
    <3> QED BY <2>4, <3>2, <3>3
  <2>5. ASSUME NEW p \in Workers, Checkin(p) PROVE Driven(w)'
    <3>0. w \notin tainted
      BY <2>5 DEF Checkin
    <3> DEFINE ld == [load EXCEPT ![p] = Decremented(p)]
               av == Refresh(available, p, Decremented(p))
    <3>1. /\ ServeQueue(p, ld, av) /\ ld \in [Workers -> Nat]
          /\ av \subseteq Workers
          /\ \A x \in Workers : x # p => ld[x] = load[x] /\ (x \in av => x \in available)
      BY <2>0, <2>5 DEF Checkin, Decremented, Refresh
    <3>2. mailbox # <<>> /\ Head(mailbox) # WorkerMsg("skip", w)
      BY <2>5, DrivesDiffer DEF Checkin, Receive
    <3> HIDE DEF ld, av
    <3> QED BY <2>0, <3>0, <3>1, <3>2, ServeQueueDrives
  <2>6. ASSUME NEW p \in Workers, DriveQueue(p) PROVE Driven(w)'
    <3>0. w \notin tainted
      BY <2>6 DEF DriveQueue
    <3>1. ServeQueue(p, load, available) /\ mailbox # <<>>
      BY <2>6 DEF DriveQueue, Receive
    <3>2. w = p \/ Head(mailbox) # WorkerMsg("skip", w)
      BY <2>6, DrivesDiffer DEF DriveQueue, Receive
    <3> QED BY <2>0, <3>0, <3>1, <3>2, ServeQueueDrives
  <2>7. ASSUME NEW p \in Workers, WorkerReady(p) PROVE Driven(w)'
    <3>1. /\ mailbox # <<>> /\ Head(mailbox) # WorkerMsg("skip", w)
          /\ mailbox' = Append(Tail(mailbox), WorkerMsg("skip", p))
          /\ WorkerMsg("skip", p) \in Message /\ queue' = queue
      BY <2>7, DrivesDiffer, MessageType DEF WorkerReady, Receive
    <3>2. CASE w = p
      <4>1. Len(Tail(mailbox)) + 1 \in Pending(WorkerMsg("skip", w))'
        <5>1. Tail(mailbox) \in Seq(Message)
          BY <3>1 DEF TypeOK
        <5> QED BY <3>1, <3>2, <5>1 DEF Pending
      <4> QED BY <4>1 DEF Driven
    <3>3. CASE w # p
      <4>1. Unused(w)' => Unused(w)
        BY <2>7, <3>3 DEF WorkerReady, Unused
      <4> QED BY <2>1, <3>1, <4>1
    <3> QED BY <3>2, <3>3
  <2>8. ASSUME MergeInit \/ \E r \in Requests : QueueTimeout(r) PROVE Driven(w)'
    <3>1. /\ mailbox # <<>> /\ Head(mailbox) # WorkerMsg("skip", w) /\ InitComplete \in Message
          /\ mailbox' = Tail(mailbox)
      BY <2>8, DrivesDiffer, MessageType DEF MergeInit, QueueTimeout, Receive, Consume
    <3>2. available' \subseteq available /\ load' = load /\ queue' \subseteq queue
      BY <2>8 DEF MergeInit, QueueTimeout, Without
    <3> QED BY <2>1, <3>1, <3>2 DEF Unused
  <2>9. ASSUME NEW r \in Requests, Call(r) \/ ClientDown(r) \/ TimerFires(r) PROVE Driven(w)'
    <3>1. \E k \in Message : mailbox' = mailbox \/ mailbox' = Append(mailbox, k)
      BY <2>0, <2>9, MessageType DEF Call, ClientDown, TimerFires, Send
    <3>2. available' = available /\ load' = load /\ queue' = queue
      BY <2>9 DEF Call, ClientDown, TimerFires
    <3> QED BY <2>1, <3>1, <3>2 DEF Unused
  <2>10. ASSUME \/ \E r \in Requests : TaskStep(r)
                \/ \E s \in Streams : StreamCall(s) \/ StreamEnd(s) \/ StreamKilled(s)
                \/ \E p \in Workers : WorkerStep(p) \/ TaintExpires(p)
                \/ \E s \in Sessions : CacheExpires(s) \/ \E p \in Workers : TaskStore(s, p)
                \/ InitReport \/ UNCHANGED vars
         PROVE  Driven(w)'
    <3>1. available' = available /\ load' = load /\ queue' = queue /\ (Unused(w)' => Unused(w))
      BY <2>10 DEF TaskStep, TaskAbort, TaskStart, TaskResult, TaskCrash, TaskRetry, TaskTimeout,
           StreamCall, StreamEnd, StreamKilled, WorkerStep, WorkerReports, WorkerRestart,
           WorkerGone, TaintExpires, CacheExpires, TaskStore, InitReport, vars, Unused
    <3>2. \/ mailbox' = mailbox \/ \E k : mailbox' = Append(mailbox, k)
      <4>1. ASSUME NEW r \in Requests, TaskStep(r)
            PROVE  mailbox' = mailbox \/ \E k : mailbox' = Append(mailbox, k)
        <5>1. CASE TaskRetry(r)
          <6>1. mailbox' = mailbox \/ mailbox' = Append(mailbox, FromMsg("checkout", r))
            BY <5>1, Zenon DEF TaskRetry, Send
          <6> QED BY <6>1
        <5> QED BY <4>1, <5>1 DEF TaskStep, TaskAbort, TaskStart, TaskResult, TaskCrash,
             TaskTimeout, Send
      <4> QED BY <2>10, <4>1 DEF StreamCall, StreamEnd, StreamKilled, WorkerStep, WorkerReports,
           WorkerRestart, WorkerGone, TaintExpires, CacheExpires, TaskStore, InitReport, vars, Send
    <3>3. CASE mailbox' = mailbox
      BY <2>1, <3>1, <3>3, MessageType
    <3>4. ASSUME NEW k, mailbox' = Append(mailbox, k) PROVE Driven(w)'
      <4>1. mailbox' \in Seq(Message) /\ mailbox \in Seq(Message)
        BY DEF TypeOK
      <4>2. mailbox'[Len(mailbox) + 1] = k /\ Len(mailbox) + 1 \in DOMAIN mailbox'
        BY <3>4, <4>1
      <4>3. k \in Message
        BY <4>1, <4>2
      <4> QED BY <2>1, <3>1, <3>4, <4>3
    <3> QED BY <3>2, <3>3, <3>4
  <2> QED
    BY <2>3, <2>4, <2>5, <2>6, <2>7, <2>8, <2>9, <2>10 DEF Next, PoolStep, Quiescent
<1> HIDE DEF LeaksCounted
<1> QED
  BY <1>1, <1>2, <1>3, <1>4, TypeCorrect, CallsInOneStage, TimeoutsAreSure, LoadIsCovered,
     PTL DEF Spec

----------------------------------------------------------------------------
(* How many calls too many a worker can hold.                              *)

Drives(w) ==
  Count(mailbox, WorkerMsg("skip", w)) + Count(mailbox, WorkerMsg("ready", w))
    + (IF life[w] = "booting" THEN 1 ELSE 0)

\* Each life of w brings one drive, and a drive that was handled one call too many.
OneDrivePerLife(w) == Drives(w) <= boots[w] /\ load[w] + Drives(w) <= Capacity + boots[w]

LEMMA DrivesCounted ==
  ASSUME TypeOK, NEW w \in Workers
  PROVE  Drives(w) = DrivesDue(w) /\ Drives(w) \in Nat /\ load[w] \in Nat /\ boots[w] \in Nat
BY PoolCounts DEF Drives, DrivesDue, TypeOK

\* A step that adds to the load of a worker with a free slot only, and adds no drive
\* but with a life.
LEMMA OwedKept ==
  ASSUME TypeOK, TypeOK', NEW w \in Workers, OneDrivePerLife(w),
         Drives(w)' + boots[w] <= Drives(w) + boots'[w], boots[w] <= boots'[w],
         load'[w] <= load[w] \/ (load[w] < Capacity /\ load'[w] = load[w] + 1)
  PROVE  OneDrivePerLife(w)'
<1> USE PoolAssumption
<1>1. \A m : Count(mailbox', m) \in Nat
  BY CountType DEF TypeOK
<1>2. Drives(w) \in Nat /\ load[w] \in Nat /\ boots[w] \in Nat
  BY DrivesCounted
<1>3. Drives(w)' \in Nat
  BY <1>1 DEF Drives
<1>4. load'[w] \in Nat /\ boots'[w] \in Nat /\ Capacity \in Nat
  BY DEF TypeOK
<1> QED BY <1>2, <1>3, <1>4 DEF OneDrivePerLife

\* A step that sends no drive and no readiness report; and one that handles a drive.
LEMMA DrivesKept ==
  ASSUME TypeOK, NEW w \in Workers, life' = life, NEW k \in Message,
         k # WorkerMsg("skip", w), k # WorkerMsg("ready", w),
         \/ mailbox' = mailbox
         \/ mailbox' = Append(mailbox, k)
         \/ /\ mailbox # <<>>
            /\ mailbox' = Tail(mailbox) \/ mailbox' = Append(Tail(mailbox), k)
  PROVE  /\ Drives(w)' <= Drives(w)
         /\ mailbox # <<>> /\ Head(mailbox) = WorkerMsg("skip", w) /\ mailbox' = Tail(mailbox) =>
              Drives(w)' + 1 = Drives(w)
<1>1. mailbox \in Seq(Message)
  BY DEF TypeOK
<1>2. ASSUME NEW n, n # k
      PROVE  /\ Count(mailbox', n) <= Count(mailbox, n)
             /\ Count(mailbox', n) \in Nat /\ Count(mailbox, n) \in Nat
             /\ mailbox # <<>> /\ mailbox' = Tail(mailbox) =>
                  /\ n = Head(mailbox) => Count(mailbox', n) + 1 = Count(mailbox, n)
                  /\ n # Head(mailbox) => Count(mailbox', n) = Count(mailbox, n)
  <2>1. CASE mailbox' = mailbox
    <3>1. Count(mailbox, n) \in Nat /\ ~(mailbox # <<>> /\ mailbox = Tail(mailbox))
      <4>1. mailbox # <<>> => Len(Tail(mailbox)) = Len(mailbox) - 1 /\ Len(mailbox) \in Nat
        BY <1>1
      <4> QED BY <1>1, <4>1, CountType
    <3> QED BY <2>1, <3>1
  <2>2. CASE mailbox' = Append(mailbox, k)
    <3>1. Count(mailbox', n) = Count(mailbox, n) /\ Count(mailbox, n) \in Nat
      BY <1>1, <1>2, <2>2, SendCounts DEF Send
    <3>2. ~(mailbox # <<>> /\ mailbox' = Tail(mailbox))
      <4>1. /\ mailbox # <<>> => Len(Tail(mailbox)) = Len(mailbox) - 1
            /\ Len(mailbox') = Len(mailbox) + 1 /\ Len(mailbox) \in Nat
        BY <1>1, <2>2
      <4> QED BY <4>1
    <3> QED BY <3>1, <3>2
  <2>3. CASE mailbox # <<>> /\ mailbox' = Tail(mailbox)
    <3>1. /\ n = Head(mailbox) => Count(mailbox, n) = Count(mailbox', n) + 1
          /\ n # Head(mailbox) => Count(mailbox, n) = Count(mailbox', n)
          /\ Count(mailbox', n) \in Nat /\ Count(mailbox, n) \in Nat
      BY <1>1, <2>3, CountTail
    <3> QED BY <3>1
  <2>4. CASE mailbox # <<>> /\ mailbox' = Append(Tail(mailbox), k)
    <3>1. /\ n = Head(mailbox) => Count(mailbox, n) = Count(mailbox', n) + 1
          /\ n # Head(mailbox) => Count(mailbox', n) = Count(mailbox, n)
          /\ Count(mailbox', n) \in Nat /\ Count(mailbox, n) \in Nat
      BY <1>1, <1>2, <2>4, ForwardCounts DEF Receive
    <3>2. mailbox' # Tail(mailbox)
      <4>1. Tail(mailbox) \in Seq(Message) /\ Len(Tail(mailbox)) \in Nat
        BY <1>1, <2>4
      <4>2. Len(mailbox') = Len(Tail(mailbox)) + 1
        BY <2>4, <4>1
      <4> QED BY <4>1, <4>2
    <3> QED BY <3>1, <3>2
  <2> QED BY <2>1, <2>2, <2>3, <2>4
<1> DEFINE skips == WorkerMsg("skip", w)  readies == WorkerMsg("ready", w)
<1>3. skips # readies /\ skips # k /\ readies # k
  BY DEF WorkerMsg
<1>4. /\ Drives(w) = Count(mailbox, skips) + Count(mailbox, readies)
                       + (IF life[w] = "booting" THEN 1 ELSE 0)
      /\ Drives(w)' = Count(mailbox', skips) + Count(mailbox', readies)
                        + (IF life[w] = "booting" THEN 1 ELSE 0)
  BY DEF Drives
<1> HIDE DEF skips, readies
<1>5. /\ Count(mailbox', skips) <= Count(mailbox, skips)
      /\ Count(mailbox', readies) <= Count(mailbox, readies)
      /\ Count(mailbox, skips) \in Nat /\ Count(mailbox', skips) \in Nat
      /\ Count(mailbox, readies) \in Nat /\ Count(mailbox', readies) \in Nat
  BY <1>2, <1>3
<1>6. mailbox # <<>> /\ Head(mailbox) = skips /\ mailbox' = Tail(mailbox) =>
        /\ Count(mailbox', skips) + 1 = Count(mailbox, skips)
        /\ Count(mailbox', readies) = Count(mailbox, readies)
  BY <1>2, <1>3
<1>7. Drives(w)' <= Drives(w)
  BY <1>4, <1>5
<1>8. mailbox # <<>> /\ Head(mailbox) = skips /\ mailbox' = Tail(mailbox) =>
        Drives(w)' + 1 = Drives(w)
  BY <1>4, <1>5, <1>6
<1> QED BY <1>7, <1>8 DEF skips

\* Serving the queue of worker p, from loads and offers that differ from the pool's for
\* p alone: the worker that takes a queued call is p, or one with a free slot.
LEMMA ServeQueueTakes ==
  ASSUME TypeOK, OneStage, TimeoutsSure, AvailableIsFree, NEW p \in Workers,
         NEW ld \in [Workers -> Nat], NEW av \in SUBSET Workers, ServeQueue(p, ld, av),
         \A x \in Workers : x # p => ld[x] = load[x] /\ (x \in av => x \in available),
         NEW w \in Workers
  PROVE  /\ mailbox' = Tail(mailbox)
         /\ w = p => load'[w] \in {ld[w], ld[w] + 1}
         /\ w # p => load'[w] <= load[w] \/ (load[w] < Capacity /\ load'[w] = load[w] + 1)
<1>0. load \in [Workers -> Nat]
  BY DEF TypeOK
<1>1. PICK kept \in Kept : \/ LeaveQueue(p, ld, av, kept)
                           \/ \E q \in QueueWorkers(p, av) : PopQueue(q, ld, av, kept)
  BY DEF ServeQueue
<1>2. CASE LeaveQueue(p, ld, av, kept)
  BY <1>0, <1>2 DEF LeaveQueue, Consume
<1>3. ASSUME NEW q \in QueueWorkers(p, av), PopQueue(q, ld, av, kept)
      PROVE  /\ mailbox' = Tail(mailbox)
             /\ w = p => load'[w] \in {ld[w], ld[w] + 1}
             /\ w # p => load'[w] <= load[w] \/ (load[w] < Capacity /\ load'[w] = load[w] + 1)
  <2>1. PICK e \in queue : SkipCancelled(e, q, ld, av, kept) \/ RunQueued(e, q, ld, av, kept)
    BY <1>3 DEF PopQueue
  <2>2. e.from \notin kept
    BY QueuedOnce DEF TimeoutsSure, Kept
  <2>3. load' = [ld EXCEPT ![q] = @ + 1] /\ mailbox' = Tail(mailbox)
    BY <2>1, <2>2 DEF SkipCancelled, RunQueued, Consume
  <2>4. q \in Workers /\ (q # p => q \in av)
    BY DEF QueueWorkers
  <2>5. q # p => load[q] < Capacity
    BY <2>4 DEF AvailableIsFree
  <2> QED BY <1>0, <2>3, <2>4, <2>5
<1> QED BY <1>1, <1>2, <1>3

\* No step gives a worker two calls too many, or two drives.
LEMMA OneDriveStep ==
  ASSUME TypeOK, TypeOK', OneStage, TimeoutsSure, LoadCovers, AvailableIsFree, [Next]_vars,
         NEW w \in Workers, OneDrivePerLife(w)
  PROVE  OneDrivePerLife(w)'
<1> USE PoolAssumption
<1> USE DEF admin, fleet, slots, waiting, sticky, clients, procs
<1>0. /\ load \in [Workers -> Nat] /\ boots \in [Workers -> Nat] /\ mailbox \in Seq(Message)
      /\ available \in SUBSET Workers /\ load' \in [Workers -> Nat] /\ mailbox' \in Seq(Message)
      /\ Requests \subseteq Callers /\ Streams \subseteq Callers
      /\ Drives(w) \in Nat /\ InitComplete \in Message
      /\ life \in [Workers -> {"booting", "reported", "gone"}]
  BY DrivesCounted, MessageType DEF TypeOK, Callers
<1>1. ASSUME procs' = procs, NEW k \in Message,
             k # WorkerMsg("skip", w), k # WorkerMsg("ready", w),
             \/ mailbox' = mailbox
             \/ mailbox' = Append(mailbox, k)
             \/ /\ mailbox # <<>>
                /\ mailbox' = Tail(mailbox) \/ mailbox' = Append(Tail(mailbox), k),
             load'[w] <= load[w] \/ (load[w] < Capacity /\ load'[w] = load[w] + 1)
      PROVE  OneDrivePerLife(w)'
  <2>1. life' = life /\ boots' = boots
    BY <1>1
  <2>2. Drives(w)' <= Drives(w)
    BY <1>1, <2>1, DrivesKept
  <2>3. Drives(w)' \in Nat
    <3>1. \A m : Count(mailbox', m) \in Nat
      BY <1>0, CountType
    <3> QED BY <3>1 DEF Drives
  <2>4. Drives(w)' + boots[w] <= Drives(w) + boots'[w] /\ boots[w] <= boots'[w]
    BY <1>0, <2>1, <2>2, <2>3
  <2> QED BY <1>1, <2>4, OwedKept
<1>2. ASSUME NEW k \in {"execute", "checkout", "queue_timeout", "checkin"}, NEW c
      PROVE  /\ FromMsg(k, c) # WorkerMsg("skip", w) /\ FromMsg(k, c) # WorkerMsg("ready", w)
             /\ WorkerMsg(k, c) # WorkerMsg("skip", w) /\ WorkerMsg(k, c) # WorkerMsg("ready", w)
             /\ InitComplete # WorkerMsg("skip", w) /\ InitComplete # WorkerMsg("ready", w)
  BY DEF FromMsg, WorkerMsg, InitComplete
<1>3. InitComplete # WorkerMsg("skip", w) /\ InitComplete # WorkerMsg("ready", w)
  BY DEF InitComplete, WorkerMsg
<1>4. ASSUME NEW c \in Callers, NEW a \in Checkout(c), a.status = "ok", IncrementLoad(a.worker)
      PROVE  load'[w] <= load[w] \/ (load[w] < Capacity /\ load'[w] = load[w] + 1)
  <2>1. a.worker \in available
    BY <1>4, CheckoutType
  <2>2. load[a.worker] < Capacity
    BY <2>1 DEF AvailableIsFree
  <2> QED BY <1>0, <1>4, <2>1, <2>2 DEF IncrementLoad
<1>5. ASSUME NEW r \in Requests, HandleExecute(r) PROVE OneDrivePerLife(w)'
  <2>1. /\ mailbox # <<>> /\ mailbox' = Tail(mailbox) /\ procs' = procs
    BY <1>5 DEF HandleExecute, RejectUninitialized, Dispatch, Enqueue, Saturate, RefuseSticky,
         Receive, Consume
  <2>2. load'[w] <= load[w] \/ (load[w] < Capacity /\ load'[w] = load[w] + 1)
    <3>1. CASE Dispatch(r)
      BY <1>0, <1>4, <3>1 DEF Dispatch
    <3>2. CASE load' = load
      BY <1>0, <3>2
    <3> QED BY <1>5, <3>1, <3>2
         DEF HandleExecute, RejectUninitialized, Enqueue, Saturate, RefuseSticky
  <2> QED BY <1>0, <1>1, <1>3, <2>1, <2>2
<1>6. ASSUME NEW c \in Callers, GrantCheckout(c) \/ RefuseCheckout(c) PROVE OneDrivePerLife(w)'
  <2>1. /\ mailbox # <<>> /\ mailbox' = Tail(mailbox) /\ procs' = procs
    BY <1>6 DEF GrantCheckout, RefuseCheckout, Receive, Consume
  <2>2. load'[w] <= load[w] \/ (load[w] < Capacity /\ load'[w] = load[w] + 1)
    <3>1. CASE GrantCheckout(c)
      BY <1>4, <3>1 DEF GrantCheckout
    <3>2. CASE RefuseCheckout(c)
      BY <1>0, <3>2 DEF RefuseCheckout
    <3> QED BY <1>6, <3>1, <3>2
  <2> QED BY <1>0, <1>1, <1>3, <2>1, <2>2
<1>7. ASSUME NEW p \in Workers, Checkin(p) PROVE OneDrivePerLife(w)'
  <2> DEFINE ld == [load EXCEPT ![p] = Decremented(p)]
             av == Refresh(available, p, Decremented(p))
  <2>1. /\ ServeQueue(p, ld, av) /\ ld \in [Workers -> Nat] /\ av \in SUBSET Workers
        /\ \A x \in Workers : x # p => ld[x] = load[x] /\ (x \in av => x \in available)
        /\ ld[p] + 1 <= load[p] \/ (load[p] = 0 /\ ld[p] = 0)
    BY <1>0, <1>7 DEF Checkin, Decremented, Refresh
  <2>2. mailbox # <<>> /\ procs' = procs
    BY <1>7 DEF Checkin, Receive
  <2> HIDE DEF ld, av
  <2>3. /\ mailbox' = Tail(mailbox)
        /\ w = p => load'[w] \in {ld[w], ld[w] + 1}
        /\ w # p => load'[w] <= load[w] \/ (load[w] < Capacity /\ load'[w] = load[w] + 1)
    BY <2>1, ServeQueueTakes
  <2>4. load'[w] <= load[w] \/ (load[w] < Capacity /\ load'[w] = load[w] + 1)
    <3>1. ld[w] \in Nat /\ load[w] \in Nat
      BY <1>0, <2>1
    <3> QED BY <2>1, <2>3, <3>1
  <2> QED BY <1>0, <1>1, <1>3, <2>2, <2>3, <2>4
<1>8. ASSUME NEW p \in Workers, DriveQueue(p) PROVE OneDrivePerLife(w)'
  <2>1. /\ mailbox # <<>> /\ Head(mailbox) = WorkerMsg("skip", p)
        /\ life' = life /\ boots' = boots /\ ServeQueue(p, load, available)
    BY <1>8 DEF DriveQueue, Receive
  <2>2. /\ mailbox' = Tail(mailbox)
        /\ w = p => load'[w] \in {load[w], load[w] + 1}
        /\ w # p => load'[w] <= load[w] \/ (load[w] < Capacity /\ load'[w] = load[w] + 1)
    BY <1>0, <2>1, ServeQueueTakes
  <2>3. CASE w # p
    BY <1>0, <1>1, <1>3, <2>1, <2>2, <2>3
  <2>4. CASE w = p
    <3>1. Drives(w)' + 1 = Drives(w)
      BY <1>0, <1>3, <2>1, <2>2, <2>4, DrivesKept
    <3>2. Drives(w)' \in Nat
      <4>1. \A m : Count(mailbox', m) \in Nat
        BY <1>0, CountType
      <4> QED BY <4>1 DEF Drives
    <3> QED BY <1>0, <2>1, <2>2, <2>4, <3>1, <3>2 DEF OneDrivePerLife
  <2> QED BY <2>3, <2>4
<1>9. ASSUME NEW p \in Workers, WorkerReady(p) PROVE OneDrivePerLife(w)'
  <2>1. /\ Receive(WorkerMsg("ready", p)) /\ mailbox # <<>>
        /\ mailbox' = Append(Tail(mailbox), WorkerMsg("skip", p))
        /\ WorkerMsg("skip", p) \in Message /\ procs' = procs /\ load' = load
    BY <1>9, MessageType DEF WorkerReady, Receive
  <2>2. CASE p = w
    <3>1. WorkerMsg("skip", w) # WorkerMsg("ready", w)
      BY DEF WorkerMsg
    <3>2. /\ Count(mailbox', WorkerMsg("skip", w)) = Count(mailbox, WorkerMsg("skip", w)) + 1
          /\ Count(mailbox, WorkerMsg("skip", w)) \in Nat
      BY <1>0, <2>1, <2>2, <3>1, ForwardCounts
    <3>3. /\ Count(mailbox, WorkerMsg("ready", w)) = Count(mailbox', WorkerMsg("ready", w)) + 1
          /\ Count(mailbox', WorkerMsg("ready", w)) \in Nat
      BY <1>0, <2>1, <2>2, <3>1, ForwardCounts
    <3>4. Drives(w)' = Drives(w)
      BY <2>1, <3>2, <3>3 DEF Drives
    <3>5. /\ Drives(w)' + boots[w] <= Drives(w) + boots'[w] /\ boots[w] <= boots'[w]
          /\ load'[w] <= load[w]
      BY <1>0, <2>1, <3>4
    <3> QED BY <3>5, OwedKept
  <2>3. CASE p # w
    <3>1. WorkerMsg("skip", p) # WorkerMsg("skip", w) /\ WorkerMsg("skip", p) # WorkerMsg("ready", w)
      BY <2>3 DEF WorkerMsg
    <3> QED BY <1>0, <1>1, <2>1, <3>1
  <2> QED BY <2>2, <2>3
<1>10. ASSUME MergeInit \/ \E r \in Requests : QueueTimeout(r) PROVE OneDrivePerLife(w)'
  <2>1. mailbox # <<>> /\ mailbox' = Tail(mailbox) /\ procs' = procs /\ load' = load
    BY <1>10 DEF MergeInit, QueueTimeout, Receive, Consume
  <2> QED BY <1>0, <1>1, <1>3, <2>1
<1>11. ASSUME NEW r \in Requests, Call(r) \/ ClientDown(r) \/ TimerFires(r)
       PROVE  OneDrivePerLife(w)'
  <2>1. \E k \in Message : /\ k # WorkerMsg("skip", w) /\ k # WorkerMsg("ready", w)
                           /\ mailbox' = mailbox \/ mailbox' = Append(mailbox, k)
    BY <1>0, <1>2, <1>11, MessageType DEF Call, ClientDown, TimerFires, Send
  <2>2. procs' = procs /\ load' = load
    BY <1>11 DEF Call, ClientDown, TimerFires
  <2> QED BY <1>0, <1>1, <2>1, <2>2
<1>12. ASSUME \/ \E r \in Requests : TaskStep(r)
              \/ \E s \in Streams : StreamCall(s) \/ StreamEnd(s) \/ StreamKilled(s)
       PROVE  OneDrivePerLife(w)'
  <2>1. procs' = procs /\ load' = load
    BY <1>12 DEF TaskStep, TaskAbort, TaskStart, TaskResult, TaskCrash, TaskRetry, TaskTimeout,
         StreamCall, StreamEnd, StreamKilled
  <2>2. \/ mailbox' = mailbox
        \/ \E c \in Callers : \/ mailbox' = Append(mailbox, FromMsg("checkout", c))
                              \/ /\ Active(c)
                                 /\ mailbox' = Append(mailbox, WorkerMsg("checkin", task[c].worker))
    <3>1. ASSUME NEW r \in Requests, TaskRetry(r)
          PROVE  mailbox' = mailbox \/ mailbox' = Append(mailbox, FromMsg("checkout", r))
      BY <3>1, Zenon DEF TaskRetry, Send
    <3> QED BY <1>0, <1>12, <3>1 DEF TaskStep, TaskAbort, TaskStart, TaskResult, TaskCrash,
             TaskTimeout, StreamCall, StreamEnd, StreamKilled, Send, Active
  <2>3. \A c \in Callers : Active(c) => task[c].worker \in Workers
    BY DEF TypeOK
  <2>4. \E k \in Message : /\ k # WorkerMsg("skip", w) /\ k # WorkerMsg("ready", w)
                           /\ mailbox' = mailbox \/ mailbox' = Append(mailbox, k)
    BY <1>0, <1>2, <1>3, <2>2, <2>3, MessageType
  <2> QED BY <1>0, <1>1, <2>1, <2>4
<1>13. ASSUME NEW p \in Workers, WorkerStep(p) PROVE OneDrivePerLife(w)'
  <2>1. load' = load
    BY <1>13 DEF WorkerStep, WorkerReports, WorkerRestart, WorkerGone
  <2>2. CASE WorkerReports(p)
    <3>1. Send(WorkerMsg("ready", p)) /\ WorkerMsg("ready", p) \in Message
          /\ life[p] = "booting" /\ life' = [life EXCEPT ![p] = "reported"] /\ boots' = boots
      BY <2>2, MessageType DEF WorkerReports
    <3>2. /\ WorkerMsg("skip", w) # WorkerMsg("ready", p)
          /\ WorkerMsg("ready", w) = WorkerMsg("ready", p) <=> w = p
      BY DEF WorkerMsg
    <3>3. /\ Count(mailbox', WorkerMsg("skip", w)) = Count(mailbox, WorkerMsg("skip", w))
          /\ Count(mailbox, WorkerMsg("skip", w)) \in Nat
      BY <1>0, <3>1, <3>2, SendCounts
    <3>4. /\ w = p => Count(mailbox', WorkerMsg("ready", w)) = Count(mailbox, WorkerMsg("ready", w)) + 1
          /\ w # p => Count(mailbox', WorkerMsg("ready", w)) = Count(mailbox, WorkerMsg("ready", w))
          /\ Count(mailbox, WorkerMsg("ready", w)) \in Nat
      BY <1>0, <3>1, <3>2, SendCounts
    <3>5. Drives(w)' = Drives(w)
      BY <1>0, <3>1, <3>3, <3>4 DEF Drives
    <3>6. /\ Drives(w)' + boots[w] <= Drives(w) + boots'[w] /\ boots[w] <= boots'[w]
          /\ load'[w] <= load[w]
      BY <1>0, <2>1, <3>1, <3>5
    <3> QED BY <3>6, OwedKept
  <2>3. CASE WorkerRestart(p) \/ WorkerGone(p)
    <3>1. /\ mailbox' = mailbox /\ \A x \in Workers : x # p => life'[x] = life[x]
          /\ \/ life'[p] # "booting" /\ boots' = boots
             \/ boots' = [boots EXCEPT ![p] = @ + 1]
      BY <1>0, <2>3 DEF WorkerRestart, WorkerGone
    <3>2. /\ Count(mailbox, WorkerMsg("skip", w)) \in Nat
          /\ Count(mailbox, WorkerMsg("ready", w)) \in Nat
      BY <1>0, CountType
    <3>3. Drives(w)' + boots[w] <= Drives(w) + boots'[w] /\ boots[w] <= boots'[w]
      <4> DEFINE sent == Count(mailbox, WorkerMsg("skip", w)) + Count(mailbox, WorkerMsg("ready", w))
      <4>1. /\ Drives(w) = sent + (IF life[w] = "booting" THEN 1 ELSE 0)
            /\ Drives(w)' = sent + (IF life'[w] = "booting" THEN 1 ELSE 0)
            /\ sent \in Nat
        BY <3>1, <3>2 DEF Drives
      <4> HIDE DEF sent
      <4>2. CASE w # p
        <5>1. life'[w] = life[w] /\ boots'[w] = boots[w] /\ boots[w] \in Nat
          BY <1>0, <3>1, <4>2
        <5> QED BY <4>1, <5>1
      <4>3. CASE w = p
        <5>1. (life'[w] # "booting" /\ boots'[w] = boots[w]) \/ boots'[w] = boots[w] + 1
          BY <1>0, <3>1, <4>3
        <5>2. boots[w] \in Nat
          BY <1>0
        <5> QED BY <4>1, <5>1, <5>2
      <4> QED BY <4>2, <4>3
    <3>4. load'[w] <= load[w]
      BY <1>0, <2>1
    <3> QED BY <3>3, <3>4, OwedKept
  <2> QED BY <1>13, <2>2, <2>3 DEF WorkerStep
<1>14. ASSUME \/ \E p \in Workers : TaintExpires(p)
              \/ \E s \in Sessions : CacheExpires(s) \/ \E p \in Workers : TaskStore(s, p)
              \/ InitReport \/ UNCHANGED vars
       PROVE  OneDrivePerLife(w)'
  <2>1. load' = load /\ procs' = procs
    BY <1>14 DEF TaintExpires, CacheExpires, TaskStore, InitReport, vars
  <2>2. mailbox' = mailbox \/ mailbox' = Append(mailbox, InitComplete)
    BY <1>14 DEF TaintExpires, CacheExpires, TaskStore, InitReport, vars, Send
  <2> QED BY <1>0, <1>1, <1>3, <2>1, <2>2
<1> QED
  BY <1>5, <1>6, <1>7, <1>8, <1>9, <1>10, <1>11, <1>12, <1>13, <1>14
     DEF Next, PoolStep, Quiescent

\* A worker is given a call beyond its slots by a queue drive only, and each of its
\* lives brings one drive: it holds at most one call too many for each life, whatever
\* is dispatched, retried or streamed between the report and the drive.
THEOREM OverfillLimited == Spec => []OverfilledOncePerLife
<1> DEFINE Inv == \A w \in Workers : OneDrivePerLife(w)
<1>1. Init => Inv
  <2> SUFFICES ASSUME Init, NEW w \in Workers PROVE OneDrivePerLife(w)
    OBVIOUS
  <2>1. Copies(mailbox, WorkerMsg("skip", w)) = {} /\ Copies(mailbox, WorkerMsg("ready", w)) = {}
    BY DEF Init, Copies
  <2>2. Drives(w) = 1 /\ boots[w] = 1 /\ load[w] = 0
    <3>1. life[w] = "booting" /\ boots[w] = 1 /\ load[w] = 0
      BY DEF Init
    <3>2. Count(mailbox, WorkerMsg("skip", w)) = 0 /\ Count(mailbox, WorkerMsg("ready", w)) = 0
      BY <2>1, FS_EmptySet DEF Count
    <3> QED BY <3>1, <3>2 DEF Drives
  <2>3. Capacity \in Nat
    BY PoolAssumption
  <2> QED BY <2>2, <2>3 DEF OneDrivePerLife
<1>2. TypeOK /\ TypeOK' /\ OneStage /\ TimeoutsSure /\ LoadCovers /\ AvailableIsFree /\ Inv
        /\ [Next]_vars => Inv'
  BY OneDriveStep
<1>3. TypeOK /\ Inv => OverfilledOncePerLife
  BY DrivesCounted DEF OneDrivePerLife, OverfilledOncePerLife
<1> QED
  BY <1>1, <1>2, <1>3, TypeCorrect, CallsInOneStage, TimeoutsAreSure, LoadIsCovered,
     OfferedWorkersFree, PTL DEF Spec

----------------------------------------------------------------------------
(* The pool serves its clients: Pool implements ClientCalls.               *)

\* A call that has not run was not run again.
FirstTries == \A r \in Requests : task[r].phase = "none" => task[r].attempt = 0

\* No step gives a task back its first phase.
LEMMA FirstTriesStep ==
  ASSUME TypeOK, OneStage, TimeoutsSure, FirstTries, [Next]_vars
  PROVE  FirstTries'
<1> USE DEF admin, fleet, slots, waiting, sticky, clients, procs
<1> SUFFICES ASSUME NEW r \in Requests PROVE task'[r] = task[r] \/ task'[r].phase # "none"
  BY DEF FirstTries
<1>0. r \in Callers /\ task \in [Callers -> Task] /\ Finished.phase = "done"
  BY TaskType DEF Callers, TypeOK
<1>1. ASSUME NEW r0 \in Requests, HandleExecute(r0)
      PROVE  task'[r] = task[r] \/ task'[r].phase # "none"
  <2>1. task' = task \/ \E w : task' = [task EXCEPT ![r0] = Spawn(w, FALSE)]
    BY <1>1 DEF HandleExecute, RejectUninitialized, Dispatch, Enqueue, Saturate, RefuseSticky
  <2>2. \A w : Spawn(w, FALSE).phase = "spawned"
    BY DEF Spawn
  <2> QED BY <1>0, <2>1, <2>2
<1>2. ASSUME NEW c \in Callers, GrantCheckout(c) \/ RefuseCheckout(c)
      PROVE  task'[r] = task[r] \/ task'[r].phase # "none"
  <2>1. \/ task' = task \/ task' = [task EXCEPT ![c] = Finished]
        \/ \E w : task' = [task EXCEPT ![c] = Resumed(@, w)]
    BY <1>2 DEF GrantCheckout, RefuseCheckout
  <2>2. \A w : Resumed(task[c], w).phase = "running"
    BY <1>0 DEF Resumed, Task
  <2> QED BY <1>0, <2>1, <2>2
<1>3. ASSUME NEW w \in Workers, Checkin(w) \/ DriveQueue(w)
      PROVE  task'[r] = task[r] \/ task'[r].phase # "none"
  <2>1. task' = task \/ \E e, q : task' = [task EXCEPT ![e.from] = Spawn(q, TRUE)]
    BY <1>3 DEF Checkin, DriveQueue, ServeQueue, LeaveQueue, PopQueue, SkipCancelled, RunQueued
  <2>2. \A q : Spawn(q, TRUE).phase = "spawned"
    BY DEF Spawn
  <2> QED BY <1>0, <2>1, <2>2
<1>4. ASSUME NEW c \in Callers, TaskStep(c) \/ StreamCall(c) \/ StreamEnd(c) \/ StreamKilled(c)
      PROVE  task'[r] = task[r] \/ task'[r].phase # "none"
  <2>1. \/ task' = [task EXCEPT ![c] = Finished]
        \/ task' = [task EXCEPT ![c].phase = "running"]
        \/ task' = [task EXCEPT ![c] = Backoff(@)]
        \/ task' = [task EXCEPT ![c] = Retrying(@)]
        \/ task' = [task EXCEPT ![c].phase = "checkout"]
    BY <1>4, Zenon DEF TaskStep, TaskAbort, TaskStart, TaskResult, TaskCrash, TaskRetry,
         TaskTimeout, StreamCall, StreamEnd, StreamKilled
  <2>2. /\ Backoff(task[c]).phase = "backoff" /\ Retrying(task[c]).phase = "checkout"
        /\ [task[c] EXCEPT !.phase = "running"].phase = "running"
        /\ [task[c] EXCEPT !.phase = "checkout"].phase = "checkout"
    <3>1. task[c] \in Task
      BY <1>0
    <3>2. [task[c] EXCEPT !.phase = "running"].phase = "running"
      BY <3>1 DEF Task
    <3> QED BY <3>1, <3>2, TaskChange
  <2>3. CASE task' = [task EXCEPT ![c] = Finished]
    BY <1>0, <2>3
  <2>4. CASE \E k \in {"running", "checkout"} : task' = [task EXCEPT ![c].phase = k]
    BY <1>0, <2>2, <2>4
  <2>5. CASE task' = [task EXCEPT ![c] = Backoff(@)] \/ task' = [task EXCEPT ![c] = Retrying(@)]
    BY <1>0, <2>2, <2>5
  <2> QED BY <2>1, <2>3, <2>4, <2>5
<1>5. ASSUME \/ MergeInit \/ InitReport \/ UNCHANGED vars
             \/ \E q \in Requests : Call(q) \/ ClientDown(q) \/ TimerFires(q) \/ QueueTimeout(q)
             \/ \E s \in Sessions : CacheExpires(s) \/ \E w \in Workers : TaskStore(s, w)
             \/ \E w \in Workers : WorkerReady(w) \/ WorkerStep(w) \/ TaintExpires(w)
      PROVE  task' = task
  BY <1>5 DEF MergeInit, InitReport, vars, Call, ClientDown, TimerFires, QueueTimeout, CacheExpires,
       TaskStore, WorkerReady, WorkerStep, WorkerReports, WorkerRestart, WorkerGone, TaintExpires
<1>6. \/ \E q \in Requests : HandleExecute(q)
      \/ \E c \in Callers : GrantCheckout(c) \/ RefuseCheckout(c)
      \/ \E w \in Workers : Checkin(w) \/ DriveQueue(w)
      \/ \E c \in Callers : TaskStep(c) \/ StreamCall(c) \/ StreamEnd(c) \/ StreamKilled(c)
      \/ task' = task
  BY <1>5 DEF Next, PoolStep, Callers, Quiescent
<1> QED BY <1>1, <1>2, <1>3, <1>4, <1>6

\* What a call's stage says of its state.
LEMMA StageMeans ==
  ASSUME NEW r \in Requests, InOneStage(r)
  PROVE  /\ replies[r] # 0 => Stage(r) = "answered"
         /\ client[r] = "idle" => Stage(r) = "new"
         /\ Asked(r) # {} => Stage(r) = (IF client[r] = "idle" THEN "new" ELSE "asked")
         /\ Queued(r) # {} => Stage(r) = "queued"
         /\ Active(r) => Stage(r) = "running"
         /\ task[r].phase = "backoff" => Stage(r) = "crashed"
         /\ task[r].phase = "checkout" => Stage(r) = "retrying"
         /\ /\ replies[r] = 0 /\ client[r] # "idle" /\ Asked(r) = {} /\ Queued(r) = {}
            /\ ~Active(r) /\ task[r].phase \notin {"backoff", "checkout"}
            => Stage(r) = "gone"
BY DEF InOneStage, Stage, Active

\* The abstract view of a call does not change.
Still(r) ==
  /\ Stage(r)' = Stage(r)
  /\ task'[r].attempt = task[r].attempt
  /\ client'[r] = "live" <=> client[r] = "live"

\* A step that handles or sends messages other than the question of a call,
\* and leaves its entry in the queue, its task, its replies and its client as
\* they are, or its task running, is not seen by it.
LEMMA StillKept ==
  ASSUME TypeOK, NEW r \in Requests, NEW k \in Message, k # FromMsg("execute", r),
         \/ mailbox' = mailbox
         \/ mailbox' = Append(mailbox, k)
         \/ mailbox # <<>> /\ Head(mailbox) # FromMsg("execute", r) /\ mailbox' = Tail(mailbox)
         \/ /\ mailbox # <<>> /\ Head(mailbox) # FromMsg("execute", r)
            /\ mailbox' = Append(Tail(mailbox), k),
         Queued(r) = {} <=> Queued(r)' = {},
         \/ task'[r] = task[r]
         \/ Active(r) /\ Active(r)' /\ task'[r].attempt = task[r].attempt,
         replies'[r] = replies[r], client'[r] = client[r]
  PROVE  Still(r)
<1>1. Asked(r) = Pending(FromMsg("execute", r)) /\ Asked(r)' = Pending(FromMsg("execute", r))'
  BY DEF Asked, Pending
<1>2. Asked(r) # {} => Asked(r)' # {}
  BY <1>1, PendingKept DEF TypeOK
<1>3. Asked(r) = {} => Asked(r)' = {}
  BY MailKept DEF MailKeeps, TypeOK
<1>4. CASE task'[r] = task[r]
  BY <1>2, <1>3, <1>4 DEF Still, Stage, Active
<1>5. CASE Active(r) /\ Active(r)' /\ task'[r].attempt = task[r].attempt
  BY <1>2, <1>3, <1>5 DEF Still, Stage, Active
<1> QED BY <1>4, <1>5

\* A step no call sees is a stutter of ClientCalls.
LEMMA ClientStutters ==
  ASSUME \A r \in Requests : Still(r)
  PROVE  UNCHANGED Client!view
BY DEF Still, Client!view

\* A step one call sees moves that call.
LEMMA ClientMoves ==
  ASSUME NEW c \in Requests, \A r \in Requests \ {c} : Still(r), NEW to, Stage(c)' = to
  PROVE  /\ Client!Move(c, to)
         /\ [r \in Requests |-> task[r].attempt]' =
              [[r \in Requests |-> task[r].attempt] EXCEPT ![c] = task'[c].attempt]
         /\ {r \in Requests : client[r] = "live"}' =
              IF client'[c] = "live" THEN {r \in Requests : client[r] = "live"} \cup {c}
              ELSE {r \in Requests : client[r] = "live"} \ {c}
<1>1. Client!Move(c, to)
  BY DEF Still, Client!Move
<1>2. [r \in Requests |-> task[r].attempt]' =
        [[r \in Requests |-> task[r].attempt] EXCEPT ![c] = task'[c].attempt]
  BY DEF Still
<1>3. {r \in Requests : client[r] = "live"}' =
        IF client'[c] = "live" THEN {r \in Requests : client[r] = "live"} \cup {c}
        ELSE {r \in Requests : client[r] = "live"} \ {c}
  BY DEF Still
<1> QED BY <1>1, <1>2, <1>3

\* The same of the state after a step.
LEMMA StageMeansNext ==
  ASSUME NEW r \in Requests, InOneStage(r)'
  PROVE  /\ replies'[r] # 0 => Stage(r)' = "answered"
         /\ client'[r] = "idle" => Stage(r)' = "new"
         /\ Asked(r)' # {} /\ client'[r] # "idle" => Stage(r)' = "asked"
         /\ Queued(r)' # {} => Stage(r)' = "queued"
         /\ Active(r)' => Stage(r)' = "running"
         /\ task'[r].phase = "backoff" => Stage(r)' = "crashed"
         /\ task'[r].phase = "checkout" => Stage(r)' = "retrying"
         /\ /\ replies'[r] = 0 /\ client'[r] # "idle" /\ Asked(r)' = {} /\ Queued(r)' = {}
            /\ task'[r].phase \in {"none", "done"}
            => Stage(r)' = "gone"
BY DEF InOneStage, Stage, Active

\* A step that is about no question, no entry of the queue, no task of a request
\* and no client is seen by no call.
LEMMA QuietServes ==
  ASSUME TypeOK, NEW k \in Message, \A r \in Requests : k # FromMsg("execute", r),
         \/ mailbox' = mailbox
         \/ mailbox' = Append(mailbox, k)
         \/ /\ mailbox # <<>> /\ \A r \in Requests : Head(mailbox) # FromMsg("execute", r)
            /\ mailbox' = Tail(mailbox) \/ mailbox' = Append(Tail(mailbox), k),
         UNCHANGED <<queue, replies, client>>,
         \A r \in Requests : task'[r] = task[r]
  PROVE  UNCHANGED Client!view
<1>1. ASSUME NEW r \in Requests PROVE Still(r)
  <2>1. Queued(r)' = Queued(r)
    BY DEF Queued
  <2> QED BY <2>1, StillKept
<1> QED BY <1>1, ClientStutters

\* A step of the task of a request, or of a checkout made for it, is seen by
\* its call alone, which is neither asked nor queued.
LEMMA TaskServes ==
  ASSUME TypeOK, OneStage, NEW c \in Requests, task[c].phase \notin {"none", "done"},
         NEW k \in Message, \A r \in Requests : k # FromMsg("execute", r),
         \/ mailbox' = mailbox
         \/ mailbox' = Append(mailbox, k)
         \/ /\ mailbox # <<>> /\ \A r \in Requests : Head(mailbox) # FromMsg("execute", r)
            /\ mailbox' = Tail(mailbox),
         UNCHANGED <<queue, client>>,
         \A r \in Requests \ {c} : task'[r] = task[r] /\ replies'[r] = replies[r]
  PROVE  /\ \A r \in Requests \ {c} : Still(r)
         /\ Asked(c)' = {} /\ Queued(c)' = {} /\ replies[c] = 0 /\ client[c] # "idle"
<1>1. ASSUME NEW r \in Requests \ {c} PROVE Still(r)
  <2>1. Queued(r)' = Queued(r)
    BY DEF Queued
  <2> QED BY <2>1, StillKept
<1>2. Asked(c) = {} /\ Queued(c) = {} /\ replies[c] = 0 /\ client[c] # "idle"
  BY DEF OneStage, InOneStage
<1>3. Asked(c)' = {}
  BY <1>2, MailKept DEF MailKeeps, TypeOK
<1> QED BY <1>1, <1>2, <1>3 DEF Queued

\* The six steps of ClientCalls in which one call moves.
LEMMA ClientStep ==
  ASSUME NEW c \in Requests, \A r \in Requests \ {c} : Still(r), UNCHANGED client,
         task[c].attempt \in Nat, MaxRetries \in Nat,
         \/ /\ Stage(c) = "queued" /\ Stage(c)' \in {"running", "answered"}
            /\ task'[c].attempt = task[c].attempt
         \/ /\ Stage(c) = "running" /\ RetryAllowed(c) /\ Stage(c)' = "crashed"
            /\ task'[c].attempt = task[c].attempt
         \/ /\ Stage(c) = "crashed" /\ Stage(c)' = "retrying"
            /\ task'[c].attempt = task[c].attempt + 1
         \/ /\ Stage(c) = "retrying" /\ Stage(c)' = "running"
            /\ task'[c].attempt = task[c].attempt
         \/ /\ Stage(c) \in {"running", "retrying"} /\ task'[c].attempt = 0
            /\ Stage(c)' = (IF client[c] = "live" THEN "answered" ELSE "gone")
         \/ /\ Stage(c) \in {"crashed", "retrying"} /\ Stage(c)' = "gone"
            /\ task'[c].attempt = 0
  PROVE  Client!CallStep(c)
<1> DEFINE St == [r \in Requests |-> Stage(r)]
           Tr == [r \in Requests |-> task[r].attempt]
           Al == {r \in Requests : client[r] = "live"}
<1>1. /\ Client!Move(c, Stage(c)')
      /\ Tr' = [Tr EXCEPT ![c] = task'[c].attempt]
      /\ Al' = Al
  BY ClientMoves
<1>2. St[c] = Stage(c) /\ Tr[c] = task[c].attempt /\ (c \in Al <=> client[c] = "live")
  OBVIOUS
<1>3. task'[c].attempt = task[c].attempt => Tr' = Tr
  BY <1>1, <1>2
<1>4. RetryAllowed(c) => Tr[c] < [r \in Requests |-> RetriesOf(r)][c]
  BY <1>2 DEF RetryAllowed, RetriesOf
<1>5. CASE Stage(c) = "queued" /\ Stage(c)' \in {"running", "answered"}
  <2>1. Client!Leave(c)
    BY <1>1, <1>2, <1>3, <1>5 DEF Client!Leave
  <2> QED BY <2>1 DEF Client!CallStep
<1>6. CASE Stage(c) = "running" /\ RetryAllowed(c) /\ Stage(c)' = "crashed"
  <2>1. Client!Crash(c)
    BY <1>1, <1>2, <1>3, <1>4, <1>6 DEF Client!Crash
  <2> QED BY <2>1 DEF Client!CallStep
<1>7. CASE Stage(c) = "crashed" /\ Stage(c)' = "retrying"
  <2>1. Client!Retry(c)
    BY <1>1, <1>2, <1>7 DEF Client!Retry
  <2> QED BY <2>1 DEF Client!CallStep
<1>8. CASE Stage(c) = "retrying" /\ Stage(c)' = "running"
  <2>1. Client!Resume(c)
    BY <1>1, <1>2, <1>3, <1>8 DEF Client!Resume
  <2> QED BY <2>1 DEF Client!CallStep
<1>9. CASE /\ Stage(c) \in {"running", "retrying"} /\ task'[c].attempt = 0
           /\ Stage(c)' = (IF client[c] = "live" THEN "answered" ELSE "gone")
  <2>1. Client!Finish(c)
    BY <1>1, <1>2, <1>9 DEF Client!Finish, Client!Outcome
  <2> QED BY <2>1 DEF Client!CallStep
<1>10. CASE Stage(c) \in {"crashed", "retrying"} /\ Stage(c)' = "gone" /\ task'[c].attempt = 0
  <2>1. Client!Lose(c)
    BY <1>1, <1>2, <1>10 DEF Client!Lose
  <2> QED BY <2>1 DEF Client!CallStep
<1> QED BY <1>5, <1>6, <1>7, <1>8, <1>9, <1>10

\* The pool's handling of a question takes the call, and at most forgets
\* queued calls whose clients are dead.
LEMMA QuestionServes ==
  ASSUME TypeOK, OneStage, OneStage', TimeoutsSure, FirstTries, NEW r0 \in Requests,
         HandleExecute(r0)
  PROVE  Client!Take(r0)
<1> USE DEF admin, fleet, slots, waiting, sticky, clients, procs
<1>0. /\ client' = client /\ Receive(FromMsg("execute", r0)) /\ Consume
      /\ mailbox # <<>> /\ Head(mailbox) = FromMsg("execute", r0) /\ mailbox' = Tail(mailbox)
      /\ mailbox \in Seq(Message) /\ replies \in [Requests -> Nat] /\ task \in [Callers -> Task]
  BY DEF HandleExecute, RejectUninitialized, Dispatch, Enqueue, Saturate, RefuseSticky,
         Receive, Consume, TypeOK
<1>1. /\ Asked(r0) # {} /\ Asked(r0)' = {} /\ Queued(r0) = {} /\ client[r0] # "idle"
      /\ task[r0].phase = "none" /\ task[r0].attempt = 0 /\ replies[r0] = 0
  <2>1. InOneStage(r0)
    BY DEF OneStage
  <2>2. Asked(r0) # {} /\ Asked(r0)' = {}
    BY <1>0, <2>1, MailConsumed DEF InOneStage
  <2> QED BY <2>1, <2>2 DEF InOneStage, FirstTries
<1>2. Stage(r0) = "asked"
  BY <1>1, StageMeans DEF OneStage
<1>3. /\ Stage(r0)' \in {"running", "queued", "answered"} /\ task'[r0].attempt = 0
  <2>1. CASE RejectUninitialized(r0) \/ Saturate(r0) \/ RefuseSticky(r0)
    <3>1. Reply(r0) /\ task' = task
      BY <2>1 DEF RejectUninitialized, Saturate, RefuseSticky
    <3>2. replies'[r0] # 0
      BY <1>0, <1>1, <3>1 DEF Reply
    <3> QED BY <1>1, <3>1, <3>2, StageMeansNext DEF OneStage
  <2>2. CASE Dispatch(r0)
    <3>1. PICK w : task' = [task EXCEPT ![r0] = Spawn(w, FALSE)]
      BY <2>2 DEF Dispatch
    <3>2. Spawn(w, FALSE).phase = "spawned" /\ Spawn(w, FALSE).attempt = 0
      BY DEF Spawn
    <3>3. task'[r0].phase = "spawned" /\ task'[r0].attempt = 0
      BY <1>0, <3>1, <3>2 DEF Callers
    <3> QED BY <3>3, StageMeansNext DEF OneStage, Active
  <2>3. CASE Enqueue(r0)
    <3>1. PICK a \in Checkout(r0), kept \in Kept :
            queue' = Compacted(kept) \cup {[from |-> r0, affinity |-> a.worker, at |-> clock]}
      BY <2>3 DEF Enqueue
    <3>2. [from |-> r0, affinity |-> a.worker, at |-> clock].from = r0
      OBVIOUS
    <3>3. Queued(r0)' # {} /\ task' = task
      BY <2>3, <3>1, <3>2 DEF Queued, Enqueue
    <3> QED BY <1>1, <3>3, StageMeansNext DEF OneStage
  <2> QED BY <2>1, <2>2, <2>3 DEF HandleExecute
<1>4. ASSUME NEW r \in Requests \ {r0}
      PROVE  /\ task'[r] = task[r] /\ replies'[r] = replies[r]
             /\ Queued(r)' \subseteq Queued(r)
             /\ client[r] = "live" => Queued(r)' = Queued(r)
  <2>1. task' = task \/ \E w : task' = [task EXCEPT ![r0] = Spawn(w, FALSE)]
    BY DEF HandleExecute, RejectUninitialized, Dispatch, Enqueue, Saturate, RefuseSticky
  <2>2. replies' = replies \/ Reply(r0)
    BY DEF HandleExecute, RejectUninitialized, Dispatch, Enqueue, Saturate, RefuseSticky
  <2>3. \/ queue' = queue
        \/ \E kept \in Kept : queue' = Compacted(kept)
        \/ \E kept \in Kept : \E e0 : queue' = Compacted(kept) \cup {e0} /\ e0.from = r0
    <3>1. CASE Enqueue(r0)
      <4>1. PICK a \in Checkout(r0), kept \in Kept :
              queue' = Compacted(kept) \cup {[from |-> r0, affinity |-> a.worker, at |-> clock]}
        BY <3>1 DEF Enqueue
      <4>2. [from |-> r0, affinity |-> a.worker, at |-> clock].from = r0
        OBVIOUS
      <4> QED BY <4>1, <4>2
    <3> QED BY <3>1 DEF HandleExecute, RejectUninitialized, Dispatch, Saturate, RefuseSticky
  <2>4. \A kept \in Kept : /\ Compacted(kept) \subseteq queue
                           /\ \A e \in Queued(r) : client[r] = "live" => e \in Compacted(kept)
    <3> SUFFICES ASSUME NEW kept \in Kept, NEW e \in Queued(r), client[r] = "live"
                 PROVE  e \in Compacted(kept)
      BY DEF Compacted
    <3>1. kept \subseteq cancelled /\ e \in queue /\ e.from = r
      BY DEF Kept, Queued
    <3> QED BY <3>1, QueuedOnce DEF Compacted, TimeoutsSure
  <2>5. task'[r] = task[r] /\ replies'[r] = replies[r]
    BY <1>0, <2>1, <2>2 DEF Reply, Callers
  <2> QED BY <2>3, <2>4, <2>5 DEF Queued
<1> DEFINE D == {d \in Requests \ {r0} : Queued(d) # {} /\ Queued(d)' = {}}
<1>5. ASSUME NEW d \in D PROVE /\ Stage(d) = "queued" /\ client[d] # "live" /\ Stage(d)' = "gone"
                               /\ task'[d] = task[d]
  <2>1. InOneStage(d) /\ InOneStage(d)'
    BY DEF OneStage
  <2>2. /\ Asked(d) = {} /\ task[d].phase = "none" /\ replies[d] = 0 /\ client[d] # "idle"
    BY <2>1 DEF InOneStage
  <2>3. FromMsg("execute", d) # FromMsg("execute", r0) /\ InitComplete \in Message
        /\ InitComplete # FromMsg("execute", d)
    BY MessageType, OtherMessages DEF Callers
  <2>4. Asked(d)' = {}
    BY <1>0, <2>2, <2>3, MailKept DEF MailKeeps
  <2>5. Stage(d)' = "gone"
    BY <1>0, <1>4, <2>1, <2>2, <2>4, StageMeansNext
  <2> QED BY <1>4, <2>1, <2>5, StageMeans
<1>6. ASSUME NEW r \in Requests \ {r0}, r \notin D PROVE Still(r)
  <2>1. Queued(r) = {} <=> Queued(r)' = {}
    BY <1>4, <1>6
  <2>2. /\ InitComplete \in Message /\ InitComplete # FromMsg("execute", r)
        /\ Head(mailbox) # FromMsg("execute", r)
    BY <1>0, MessageType, OtherMessages DEF Callers
  <2> QED BY <1>0, <1>4, <2>1, <2>2, StillKept
<1>7. D \in SUBSET Client!Forgettable
  BY <1>5 DEF Client!Forgettable
<1>8. [r \in Requests |-> Stage(r)]' =
        [d \in Requests |-> IF d = r0 THEN Stage(r0)' ELSE IF d \in D THEN "gone"
                            ELSE [r \in Requests |-> Stage(r)][d]]
  <2>1. ASSUME NEW d \in Requests
        PROVE  Stage(d)' = IF d = r0 THEN Stage(r0)' ELSE IF d \in D THEN "gone" ELSE Stage(d)
    BY <1>5, <1>6 DEF Still
  <2> HIDE DEF D
  <2> QED BY <2>1
<1>9. \A r \in Requests : task'[r].attempt = task[r].attempt
  BY <1>1, <1>3, <1>4
<1> HIDE DEF D
<1> QED BY <1>0, <1>2, <1>3, <1>7, <1>8, <1>9 DEF Client!Take

\* Serving the queue starts at most one queued call.
LEMMA ServeQueueServes ==
  ASSUME TypeOK, OneStage, OneStage', TimeoutsSure, FirstTries, NEW w \in Workers,
         NEW ld, NEW av \in SUBSET Workers,
         mailbox # <<>>, \A r \in Requests : Head(mailbox) # FromMsg("execute", r),
         UNCHANGED clients, ServeQueue(w, ld, av)
  PROVE  UNCHANGED Client!view \/ \E c \in Requests : Client!CallStep(c)
<1> USE PoolAssumption
<1>0. /\ replies' = replies /\ client' = client
      /\ InitComplete \in Message /\ \A r \in Requests : InitComplete # FromMsg("execute", r)
  BY MessageType, OtherMessages DEF clients
<1>1. PICK kept \in Kept :
        LeaveQueue(w, ld, av, kept) \/ \E q \in QueueWorkers(w, av) : PopQueue(q, ld, av, kept)
  BY DEF ServeQueue
<1>2. CASE LeaveQueue(w, ld, av, kept)
  BY <1>0, <1>2, QuietServes DEF LeaveQueue, Consume
<1>3. ASSUME NEW q \in QueueWorkers(w, av), PopQueue(q, ld, av, kept)
      PROVE  \E c \in Requests : Client!CallStep(c)
  <2>1. PICK e \in queue :
          /\ queue' = queue \ {e}
          /\ SkipCancelled(e, q, ld, av, kept) \/ RunQueued(e, q, ld, av, kept)
    BY <1>3 DEF PopQueue
  <2>2. /\ e.from \notin kept /\ e.from \in Requests
        /\ \A f \in queue : f.from = e.from => f = e
        /\ task[e.from].phase = "none" /\ task[e.from].attempt = 0
    BY <2>1, QueuedOnce DEF TimeoutsSure, Kept, FirstTries
  <2>3. /\ task' = [task EXCEPT ![e.from] = Spawn(q, TRUE)] /\ mailbox' = Tail(mailbox)
    BY <2>1, <2>2 DEF SkipCancelled, RunQueued, Consume
  <2>4. Spawn(q, TRUE).phase = "spawned" /\ Spawn(q, TRUE).attempt = 0
    BY DEF Spawn
  <2>5. task'[e.from] = Spawn(q, TRUE) /\ \A r \in Requests \ {e.from} : task'[r] = task[r]
    BY <2>2, <2>3 DEF TypeOK, Callers
  <2>6. ASSUME NEW r \in Requests \ {e.from} PROVE Still(r)
    <3>1. Queued(r)' = Queued(r)
      BY <2>1 DEF Queued
    <3> QED BY <1>0, <2>3, <2>5, <3>1, StillKept
  <2>7. Stage(e.from) = "queued"
    <3>1. Queued(e.from) # {}
      BY DEF Queued
    <3> QED BY <2>2, <3>1, StageMeans DEF OneStage
  <2>8. Stage(e.from)' = "running"
    BY <2>2, <2>4, <2>5, StageMeansNext DEF OneStage, Active
  <2>9. task'[e.from].attempt = task[e.from].attempt
    BY <2>2, <2>4, <2>5
  <2>10. Client!CallStep(e.from)
    BY <1>0, <2>2, <2>6, <2>7, <2>8, <2>9, ClientStep
  <2> QED BY <2>2, <2>10
<1> QED BY <1>1, <1>2, <1>3

\* Every step of the pool, its tasks, timers and clients is a step of one call
\* in ClientCalls, or is not seen there.
LEMMA ServesStep ==
  ASSUME TypeOK, OneStage, OneStage', TimeoutsSure, FirstTries, [Next]_vars
  PROVE  UNCHANGED Client!view \/ \E c \in Requests : Client!CallStep(c)
<1> USE PoolAssumption
<1> USE DEF admin, fleet, slots, waiting, sticky, clients, procs
<1> DEFINE Goal == UNCHANGED Client!view \/ \E c \in Requests : Client!CallStep(c)
<1>0. /\ task \in [Callers -> Task] /\ mailbox \in Seq(Message) /\ Requests \subseteq Callers
      /\ replies \in [Requests -> Nat] /\ client \in [Requests -> {"idle", "live", "down"}]
      /\ Finished.phase = "done" /\ Finished.attempt = 0
      /\ \A r \in Requests : task[r].attempt \in Nat
  BY TaskType DEF Callers, TypeOK, Task, Finished, Idle
<1>a. /\ InitComplete \in Message
      /\ \A r \in Requests : InitComplete # FromMsg("execute", r)
      /\ \A w \in Workers, k \in {"checkin", "skip", "ready"} :
           /\ WorkerMsg(k, w) \in Message
           /\ \A r \in Requests : WorkerMsg(k, w) # FromMsg("execute", r)
      /\ \A c \in Callers, k \in {"checkout", "queue_timeout"} :
           /\ FromMsg(k, c) \in Message
           /\ \A r \in Requests : FromMsg(k, c) # FromMsg("execute", r)
  BY MessageType, OtherMessages
<1>1. ASSUME NEW r \in Requests, HandleExecute(r) PROVE Goal
  BY <1>1, QuestionServes DEF Client!CallStep
<1>2. ASSUME NEW r \in Requests, QueueTimeout(r) PROVE Goal
  <2>1. /\ mailbox # <<>> /\ mailbox' = Tail(mailbox) /\ UNCHANGED <<client, task>>
        /\ \A q \in Requests : Head(mailbox) # FromMsg("execute", q)
        /\ InitComplete \in Message /\ \A q \in Requests : InitComplete # FromMsg("execute", q)
    BY <1>2, OthersAskNothing DEF QueueTimeout, Receive, Consume, Callers
  <2>2. CASE UNCHANGED <<queue, replies>>
    BY <2>1, <2>2, QuietServes
  <2>3. CASE Queued(r) # {} /\ queue' = Without(r) /\ Reply(r)
    <3>1. Stage(r) = "queued" /\ replies'[r] # 0
      BY <1>0, <2>3, StageMeans DEF OneStage, Reply
    <3>2. Stage(r)' = "answered"
      BY <3>1, StageMeansNext DEF OneStage
    <3>3. ASSUME NEW q \in Requests \ {r} PROVE Still(q)
      <4>1. Queued(q)' = Queued(q) /\ replies'[q] = replies[q]
        BY <1>0, <2>3 DEF Queued, Without, Reply
      <4> QED BY <2>1, <4>1, StillKept
    <3>4. Client!CallStep(r)
      BY <1>0, <2>1, <3>1, <3>2, <3>3, ClientStep
    <3> QED BY <3>4
  <2> QED BY <1>2, <2>2, <2>3 DEF QueueTimeout, Queued
<1>3. ASSUME NEW c \in Callers, GrantCheckout(c) \/ RefuseCheckout(c) PROVE Goal
  <2>1. /\ mailbox # <<>> /\ mailbox' = Tail(mailbox) /\ UNCHANGED <<queue, client>>
        /\ \A q \in Requests : Head(mailbox) # FromMsg("execute", q)
        /\ InitComplete \in Message /\ \A q \in Requests : InitComplete # FromMsg("execute", q)
    BY <1>a, <1>3 DEF GrantCheckout, RefuseCheckout, Receive, Consume
  <2>2. \A d \in Callers : d # c => task'[d] = task[d]
    BY <1>0, <1>3 DEF GrantCheckout, RefuseCheckout
  <2>3. CASE task[c].phase # "checkout" \/ c \notin Requests
    <3>1. UNCHANGED replies /\ \A r \in Requests : task'[r] = task[r]
      BY <1>0, <1>3, <2>2, <2>3 DEF GrantCheckout, RefuseCheckout
    <3> QED BY <2>1, <3>1, QuietServes
  <2>4. CASE task[c].phase = "checkout" /\ c \in Requests
    <3>1. Stage(c) = "retrying"
      BY <2>4, StageMeans DEF OneStage
    <3>2. replies' = replies \/ Reply(c)
      BY <1>3 DEF GrantCheckout, RefuseCheckout, ReplyIfAlive
    <3>3. /\ \A r \in Requests \ {c} : Still(r)
          /\ Asked(c)' = {} /\ Queued(c)' = {} /\ replies[c] = 0 /\ client[c] # "idle"
      <4>1. \A r \in Requests \ {c} : task'[r] = task[r] /\ replies'[r] = replies[r]
        BY <1>0, <2>2, <3>2 DEF Reply
      <4> QED BY <2>1, <2>4, <4>1, TaskServes
    <3>4. CASE GrantCheckout(c)
      <4>1. PICK w : task' = [task EXCEPT ![c] = Resumed(@, w)]
        BY <2>4, <3>4 DEF GrantCheckout
      <4>2. Resumed(task[c], w).phase = "running" /\ Resumed(task[c], w).attempt = task[c].attempt
        BY <1>0 DEF Resumed, Task
      <4>3. task'[c].phase = "running" /\ task'[c].attempt = task[c].attempt
        BY <1>0, <4>1, <4>2
      <4>4. Stage(c)' = "running"
        BY <2>4, <4>3, StageMeansNext DEF OneStage, Active
      <4>5. Client!CallStep(c)
        BY <1>0, <2>1, <2>4, <3>1, <3>3, <4>3, <4>4, ClientStep
      <4> QED BY <2>4, <4>5
    <3>5. CASE RefuseCheckout(c)
      <4>1. task'[c] = Finished /\ ReplyIfAlive(c)
        BY <1>0, <2>4, <3>5 DEF RefuseCheckout
      <4>2. replies'[c] # 0 <=> client[c] = "live"
        BY <1>0, <2>4, <3>3, <4>1 DEF ReplyIfAlive, Reply
      <4>3. Stage(c)' = (IF client[c] = "live" THEN "answered" ELSE "gone")
        BY <1>0, <2>1, <2>4, <3>3, <4>1, <4>2, StageMeansNext DEF OneStage
      <4>4. Client!CallStep(c)
        BY <1>0, <2>1, <2>4, <3>1, <3>3, <4>1, <4>3, ClientStep
      <4> QED BY <2>4, <4>4
    <3> QED BY <1>3, <3>4, <3>5
  <2> QED BY <2>3, <2>4
<1>4. ASSUME NEW w \in Workers, Checkin(w) \/ DriveQueue(w) PROVE Goal
  <2>1. Refresh(available, w, Decremented(w)) \in SUBSET Workers /\ available \in SUBSET Workers
    BY DEF Refresh, TypeOK
  <2>2. mailbox # <<>> /\ \A q \in Requests : Head(mailbox) # FromMsg("execute", q)
    BY <1>4, OthersAskNothing DEF Checkin, DriveQueue, Receive
  <2> QED BY <1>4, <2>1, <2>2, ServeQueueServes DEF Checkin, DriveQueue
<1>5. ASSUME NEW r \in Requests, Call(r) PROVE Goal
  <2>1. /\ mailbox' = Append(mailbox, FromMsg("execute", r)) /\ FromMsg("execute", r) \in Message
        /\ UNCHANGED <<queue, task, replies>> /\ client[r] = "idle" /\ client'[r] = "live"
        /\ \A q \in Requests \ {r} : client'[q] = client[q]
    BY <1>0, <1>5, MessageType DEF Call, Send, Callers
  <2>2. ASSUME NEW q \in Requests \ {r} PROVE Still(q)
    <3>1. FromMsg("execute", r) # FromMsg("execute", q) /\ Queued(q)' = Queued(q)
      BY <2>1, OtherMessages DEF Callers, Queued
    <3> QED BY <2>1, <3>1, StillKept
  <2>3. Stage(r) = "new"
    BY <2>1, StageMeans DEF OneStage
  <2>4. Stage(r)' = "asked"
    <3>1. Len(mailbox) + 1 \in Asked(r)'
      BY <1>0, <2>1 DEF Asked
    <3> QED BY <2>1, <3>1, StageMeansNext DEF OneStage
  <2>5. Client!Ask(r)
    <3>1. /\ Client!Move(r, "asked")
          /\ [q \in Requests |-> task[q].attempt]' = [q \in Requests |-> task[q].attempt]
          /\ {q \in Requests : client[q] = "live"}' = {q \in Requests : client[q] = "live"} \cup {r}
      BY <2>1, <2>2, <2>4, ClientMoves
    <3> QED BY <2>3, <3>1 DEF Client!Ask
  <2> QED BY <2>5 DEF Client!CallStep
<1>6. ASSUME NEW r \in Requests, ClientDown(r) PROVE Goal
  <2>1. /\ UNCHANGED <<mailbox, queue, task, replies>> /\ client[r] = "live" /\ client'[r] = "down"
        /\ replies[r] = 0 /\ \A q \in Requests \ {r} : client'[q] = client[q]
    BY <1>0, <1>6 DEF ClientDown
  <2>2. \A q \in Requests : Stage(q)' = Stage(q)
    BY <2>1 DEF Stage, Asked, Queued, Active
  <2>3. /\ {q \in Requests : client[q] = "live"}' = {q \in Requests : client[q] = "live"} \ {r}
        /\ [q \in Requests |-> Stage(q)]' = [q \in Requests |-> Stage(q)]
        /\ [q \in Requests |-> task[q].attempt]' = [q \in Requests |-> task[q].attempt]
    BY <2>1, <2>2
  <2>4. Stage(r) # "answered"
    BY <2>1 DEF Stage
  <2>5. Client!Die(r)
    BY <2>1, <2>3, <2>4 DEF Client!Die
  <2> QED BY <2>5 DEF Client!CallStep
<1>7. ASSUME NEW r \in Requests, TaskStep(r) PROVE Goal
  <2>1. UNCHANGED <<queue, client>> /\ (replies' = replies \/ Reply(r))
    BY <1>7 DEF TaskStep, TaskAbort, TaskStart, TaskResult, TaskCrash, TaskRetry, TaskTimeout,
         ReplyIfAlive
  <2>2. task[r].phase \notin {"none", "done"} /\ r \in Callers /\ task[r] \in Task
    BY <1>0, <1>7 DEF TaskStep, TaskAbort, TaskStart, TaskResult, TaskCrash, TaskRetry, TaskTimeout
  <2>3. \E k \in Message : /\ \A q \in Requests : k # FromMsg("execute", q)
                           /\ mailbox' = mailbox \/ mailbox' = Append(mailbox, k)
    <3>1. CASE TaskAbort(r) \/ TaskResult(r)
      <4>1. task[r].worker \in Workers /\ Send(WorkerMsg("checkin", task[r].worker))
        BY <2>2, <3>1 DEF TaskAbort, TaskResult, TypeOK, Active
      <4> QED BY <4>1, OthersAskNothing DEF Send
    <3>2. CASE TaskStart(r) \/ TaskCrash(r) \/ TaskTimeout(r)
      BY <3>2, OthersAskNothing DEF TaskStart, TaskCrash, TaskTimeout
    <3>3. CASE TaskRetry(r)
      <4>1. mailbox' = mailbox \/ mailbox' = Append(mailbox, FromMsg("checkout", r))
        BY <3>3, Zenon DEF TaskRetry, Send
      <4> QED BY <2>2, <4>1, OthersAskNothing
    <3> QED BY <1>7, <3>1, <3>2, <3>3 DEF TaskStep
  <2>4. \A q \in Requests \ {r} : task'[q] = task[q] /\ replies'[q] = replies[q]
    <3>1. \A q \in Requests \ {r} : task'[q] = task[q]
      BY <1>0, <1>7 DEF TaskStep, TaskAbort, TaskStart, TaskResult, TaskCrash, TaskRetry, TaskTimeout
    <3>2. \A q \in Requests \ {r} : replies'[q] = replies[q]
      BY <1>0, <2>1 DEF Reply
    <3> QED BY <3>1, <3>2
  <2>5. /\ \A q \in Requests \ {r} : Still(q)
        /\ Asked(r)' = {} /\ Queued(r)' = {} /\ replies[r] = 0 /\ client[r] # "idle"
    BY <2>1, <2>2, <2>3, <2>4, TaskServes
  <2>6. /\ Active(r) => Stage(r) = "running"
        /\ task[r].phase = "backoff" => Stage(r) = "crashed"
        /\ task[r].phase = "checkout" => Stage(r) = "retrying"
    BY StageMeans DEF OneStage
  <2>7. ASSUME ReplyIfAlive(r), task'[r] = Finished
        PROVE  Stage(r)' = (IF client[r] = "live" THEN "answered" ELSE "gone")
    <3>1. replies'[r] # 0 <=> client[r] = "live"
      BY <1>0, <2>5, <2>7 DEF ReplyIfAlive, Reply
    <3> QED BY <1>0, <2>1, <2>5, <2>7, <3>1, StageMeansNext DEF OneStage
  <2>8. ASSUME UNCHANGED replies, task'[r] = Finished PROVE Stage(r)' = "gone"
    BY <1>0, <2>1, <2>5, <2>8, StageMeansNext DEF OneStage
  <2>9. CASE TaskAbort(r)
    <3>1. /\ task'[r] = Finished /\ UNCHANGED replies /\ client[r] # "live" /\ Active(r)
      BY <1>0, <2>2, <2>9 DEF TaskAbort, Active
    <3>2. Client!CallStep(r)
      BY <1>0, <2>1, <2>5, <2>6, <2>8, <3>1, ClientStep
    <3> QED BY <3>2
  <2>10. CASE TaskStart(r)
    <3>1. task' = [task EXCEPT ![r].phase = "running"] /\ Active(r) /\ UNCHANGED <<mailbox, replies>>
      BY <2>10 DEF TaskStart, Active
    <3>2. [task[r] EXCEPT !.phase = "running"].phase = "running"
          /\ [task[r] EXCEPT !.phase = "running"].attempt = task[r].attempt
      BY <2>2 DEF Task
    <3>3. task'[r].phase = "running" /\ task'[r].attempt = task[r].attempt
      BY <1>0, <2>2, <3>1, <3>2
    <3>4. Stage(r)' = "running"
      BY <3>3, StageMeansNext DEF OneStage, Active
    <3>5. Still(r)
      BY <2>1, <2>6, <3>1, <3>3, <3>4 DEF Still
    <3> QED BY <2>5, <3>5, ClientStutters
  <2>11. CASE TaskResult(r)
    <3>1. /\ task'[r] = Finished /\ ReplyIfAlive(r) /\ Active(r)
      BY <1>0, <2>2, <2>11 DEF TaskResult, Active
    <3>2. Client!CallStep(r)
      BY <1>0, <2>1, <2>5, <2>6, <2>7, <3>1, ClientStep
    <3> QED BY <3>2
  <2>12. CASE TaskCrash(r) /\ RetryAllowed(r)
    <3>1. task' = [task EXCEPT ![r] = Backoff(@)] /\ Active(r)
      BY <2>12 DEF TaskCrash, Active
    <3>2. Backoff(task[r]).phase = "backoff" /\ Backoff(task[r]).attempt = task[r].attempt
      BY <2>2 DEF Backoff, Task
    <3>3. task'[r].phase = "backoff" /\ task'[r].attempt = task[r].attempt
      BY <1>0, <2>2, <3>1, <3>2
    <3>4. Stage(r)' = "crashed"
      BY <3>3, StageMeansNext DEF OneStage
    <3>5. Client!CallStep(r)
      BY <1>0, <2>1, <2>5, <2>6, <2>12, <3>1, <3>3, <3>4, ClientStep
    <3> QED BY <3>5
  <2>13. CASE TaskCrash(r) /\ ~RetryAllowed(r)
    <3>1. task'[r] = Finished /\ ReplyIfAlive(r) /\ Active(r)
      BY <1>0, <2>2, <2>13 DEF TaskCrash, Active
    <3>2. Client!CallStep(r)
      BY <1>0, <2>1, <2>5, <2>6, <2>7, <3>1, ClientStep
    <3> QED BY <3>2
  <2>14. CASE TaskRetry(r)
    <3>1. /\ task' = [task EXCEPT ![r] = Retrying(@)] \/ task' = [task EXCEPT ![r] = Finished]
          /\ UNCHANGED replies /\ task[r].phase = "backoff"
      BY <2>14, Zenon DEF TaskRetry, clients
    <3>2. CASE task' = [task EXCEPT ![r] = Finished]
      <4>1. Client!CallStep(r)
        BY <1>0, <2>1, <2>2, <2>5, <2>6, <2>8, <3>1, <3>2, ClientStep
      <4> QED BY <4>1
    <3>3. CASE task' = [task EXCEPT ![r] = Retrying(@)]
      <4>1. Retrying(task[r]).phase = "checkout" /\ Retrying(task[r]).attempt = task[r].attempt + 1
        <5>1. task[r].attempt + 1 \in Nat
          BY <1>0
        <5> QED BY <2>2, <5>1 DEF Retrying, Task
      <4>2. task'[r].phase = "checkout" /\ task'[r].attempt = task[r].attempt + 1
        BY <1>0, <2>2, <3>3, <4>1
      <4>3. Stage(r)' = "retrying"
        BY <4>2, StageMeansNext DEF OneStage
      <4>4. Client!CallStep(r)
        BY <1>0, <2>1, <2>5, <2>6, <3>1, <4>2, <4>3, ClientStep
      <4> QED BY <4>4
    <3> QED BY <3>1, <3>2, <3>3
  <2>15. CASE TaskTimeout(r)
    <3>1. task'[r] = Finished /\ UNCHANGED replies /\ task[r].phase = "checkout"
      BY <1>0, <2>2, <2>15 DEF TaskTimeout
    <3>2. Client!CallStep(r)
      BY <1>0, <2>1, <2>5, <2>6, <2>8, <3>1, ClientStep
    <3> QED BY <3>2
  <2> QED BY <1>7, <2>9, <2>10, <2>11, <2>12, <2>13, <2>14, <2>15 DEF TaskStep
<1>8. ASSUME NEW s \in Streams, StreamCall(s) \/ StreamEnd(s) \/ StreamKilled(s) PROVE Goal
  <2>1. s \in Callers /\ s \notin Requests /\ (Active(s) => task[s].worker \in Workers)
    BY DEF Callers, TypeOK
  <2>2. \E k \in Message : /\ \A q \in Requests : k # FromMsg("execute", q)
                           /\ mailbox' = mailbox \/ mailbox' = Append(mailbox, k)
    <3>1. CASE StreamCall(s)
      BY <1>a, <2>1, <3>1 DEF StreamCall, Send
    <3>2. CASE StreamEnd(s)
      BY <1>a, <2>1, <3>2 DEF StreamEnd, Send, Active
    <3>3. CASE StreamKilled(s)
      BY <1>a, <3>3 DEF StreamKilled
    <3> QED BY <1>8, <3>1, <3>2, <3>3
  <2>3. /\ UNCHANGED <<queue, client, replies>>
        /\ \A r \in Requests : task'[r] = task[r]
    BY <1>0, <1>8, <2>1 DEF StreamCall, StreamEnd, StreamKilled
  <2> QED BY <2>2, <2>3, QuietServes
<1>9. ASSUME NEW w \in Workers, WorkerReady(w) \/ WorkerStep(w) \/ TaintExpires(w) PROVE Goal
  BY <1>a, <1>9, QuietServes DEF WorkerReady, Receive, WorkerStep, WorkerReports,
     WorkerRestart, WorkerGone, TaintExpires, Send
<1>10. ASSUME \/ MergeInit \/ InitReport \/ UNCHANGED vars
              \/ \E r \in Requests : TimerFires(r)
              \/ \E s \in Sessions : CacheExpires(s) \/ \E w \in Workers : TaskStore(s, w)
       PROVE  Goal
  BY <1>0, <1>a, <1>10, QuietServes DEF MergeInit, Receive, Consume, InitReport, vars,
     TimerFires, CacheExpires, TaskStore, Send
<1> HIDE DEF Goal
<1>11. Goal
  BY <1>1, <1>2, <1>3, <1>4, <1>5, <1>6, <1>7, <1>8, <1>9, <1>10
     DEF Next, PoolStep, Quiescent
<1> QED BY <1>11 DEF Goal

\* The pool serves its clients as ClientCalls describes: what the timeouts, pops,
\* compactions, crashes, retries, streams and deaths do to a call, in whatever
\* order they come, is one of its steps.
THEOREM ClientsServed == Spec => ServesClients
<1> USE PoolAssumption
<1>1. Init /\ OneStage => FirstTries /\ Client!Begin
  <2> SUFFICES ASSUME Init, OneStage PROVE FirstTries /\ Client!Begin
    OBVIOUS
  <2>1. \A r \in Requests : task[r] = Idle /\ replies[r] = 0 /\ client[r] = "idle"
    BY DEF Init, Callers
  <2>2. Idle.attempt = 0
    BY DEF Idle
  <2>3. \A r \in Requests : Stage(r) = "new"
    BY <2>1, StageMeans DEF OneStage
  <2>4. \A r \in Requests : task[r].attempt = 0 /\ client[r] # "live"
    BY <2>1, <2>2
  <2>5. Client!Begin
    <3>1. [r \in Requests |-> Stage(r)] = [c \in Requests |-> "new"]
      BY <2>3
    <3>2. [r \in Requests |-> task[r].attempt] = [c \in Requests |-> 0]
      BY <2>4
    <3>3. {r \in Requests : client[r] = "live"} = {}
      BY <2>4
    <3> QED BY <3>1, <3>2, <3>3 DEF Client!Begin
  <2> QED BY <2>4, <2>5 DEF FirstTries
<1>2. TypeOK /\ OneStage /\ TimeoutsSure /\ FirstTries /\ [Next]_vars => FirstTries'
  BY FirstTriesStep
<1>3. TypeOK /\ OneStage /\ OneStage' /\ TimeoutsSure /\ FirstTries /\ [Next]_vars
        => [Client!view' # Client!view /\ \E c \in Requests : Client!CallStep(c)]_(Client!view)
  BY ServesStep
<1> QED
  BY <1>1, <1>2, <1>3, TypeCorrect, CallsInOneStage, TimeoutsAreSure, PTL
     DEF Spec, ServesClients, Client!Service
=============================================================================
