--------------------------- MODULE LifecycleProofs ---------------------------
(***************************************************************************)
(* Proofs about Lifecycle: the types and the one report of a check, that a *)
(* worker is dead before it is replaced, that a worker at its limit is     *)
(* recycled, and that the table, the size of the pool and the checks are   *)
(* accounted for.  They hold for any number of workers and of recycles at  *)
(* a time, and any faults.                                                 *)
(*                                                                         *)
(* Proofs about ProcessRegistry: that no orphan survives a restart or an   *)
(* orderly stop, that the record of a running worker is kept, and that a   *)
(* cleanup spares workers and other programs, for any workers, processes,  *)
(* restarts and faults.                                                    *)
(***************************************************************************)
EXTENDS Lifecycle, ProcessRegistry, FiniteSetTheorems, TLAPS

\* A set of natural numbers that has a member has a least one.
LEMMA LeastNat ==
  ASSUME NEW T, T \subseteq Nat, T # {}
  PROVE  \E x \in T : \A y \in T : x <= y
<1> DEFINE R == OpToRel(<, Nat)
<1>1. IsWellFoundedOn(R, Nat)
  BY NatLessThanWellFounded
<1>2. \A x, y \in Nat : <<x, y>> \in R <=> x < y
  BY DEF OpToRel
<1> HIDE DEF R
<1>3. PICK x \in T : \A y \in T : ~(<<y, x>> \in R)
  BY <1>1, WFMin
<1>4. \A y \in T : x <= y
  <2> SUFFICES ASSUME NEW y \in T PROVE x <= y
    OBVIOUS
  <2>1. x \in Nat /\ y \in Nat
    OBVIOUS
  <2>2. ~(y < x)
    BY <1>2, <1>3, <2>1
  <2> QED BY <2>1, <2>2
<1> QED BY <1>4

\* q is a queue again, and its messages are those of these places, each once.
Selection(q, S, queue, places) ==
  /\ q \in Seq(S)
  /\ \A n \in places : \E m \in 1..Len(q) : q[m] = queue[n]
  /\ \E g \in [1..Len(q) -> places] :
       /\ \A m \in 1..Len(q) : q[m] = queue[g[m]]
       /\ \A l, m \in 1..Len(q) : g[l] = g[m] => l = m

\* AtPlaces selects the messages of those places.
LEMMA AtPlacesSelects ==
  ASSUME NEW S, NEW queue \in Seq(S), NEW places \in SUBSET (1..Len(queue))
  PROVE  Selection(AtPlaces(queue, places), S, queue, places)
<1> DEFINE Upto(n) == {l \in places : l <= n}
           Rank(n) == Cardinality(Upto(n))
           C == Cardinality(places)
           f == [n \in places |-> Rank(n)]
           at(m) == CHOOSE n \in places : Rank(n) = m
           q == AtPlaces(queue, places)
<1>1. IsFiniteSet(places) /\ C \in Nat
  <2>1. IsFiniteSet(1..Len(queue))
    BY FS_Interval
  <2> QED BY <2>1, FS_Subset, FS_CardinalityType
<1>2. \A n \in places : n \in Nat
  OBVIOUS
<1>3. \A n \in places : IsFiniteSet(Upto(n)) /\ Rank(n) \in 1..C
  <2> SUFFICES ASSUME NEW n \in places PROVE IsFiniteSet(Upto(n)) /\ Rank(n) \in 1..C
    OBVIOUS
  <2>1. Upto(n) \subseteq places
    OBVIOUS
  <2>2. IsFiniteSet(Upto(n)) /\ Rank(n) <= C
    BY <1>1, <2>1, FS_Subset
  <2>3. n \in Upto(n)
    BY <1>2
  <2>4. Rank(n) \in Nat /\ Rank(n) # 0
    BY <2>2, <2>3, FS_CardinalityType, FS_EmptySet
  <2> QED BY <1>1, <2>2, <2>4
<1>4. ASSUME NEW n \in places, NEW m \in places, n < m PROVE Rank(n) # Rank(m)
  <2>1. Upto(n) \subseteq Upto(m)
    <3> SUFFICES ASSUME NEW l \in places, l <= n PROVE l <= m
      OBVIOUS
    <3>1. l \in Nat /\ n \in Nat /\ m \in Nat
      BY <1>2
    <3> QED BY <1>4, <3>1
  <2>2. m \in Upto(m) /\ m \notin Upto(n)
    BY <1>2, <1>4
  <2>3. Rank(n) = Rank(m) => Upto(n) = Upto(m)
    BY <1>3, <2>1, FS_Subset
  <2> QED BY <2>2, <2>3
<1>5. \A n, m \in places : Rank(n) = Rank(m) => n = m
  <2> HIDE DEF Rank
  <2> SUFFICES ASSUME NEW n \in places, NEW m \in places, Rank(n) = Rank(m) PROVE n = m
    OBVIOUS
  <2>1. ~(n < m) /\ ~(m < n)
    BY <1>4
  <2> QED BY <1>2, <2>1
<1>6. \A m \in 1..C : \E n \in places : Rank(n) = m
  <2> HIDE DEF Rank
  <2>1. f \in Injection(places, 1..C)
    BY <1>3, <1>5 DEF Injection, IsInjective
  <2>2. IsFiniteSet(1..C) /\ Cardinality(1..C) = C
    BY <1>1, FS_Interval
  <2> HIDE DEF f
  <2>3. f \in Surjection(places, 1..C)
    BY <2>1, <2>2, FS_Injection
  <2> USE DEF f
  <2> QED BY <2>3 DEF Surjection
<1>7. q = [m \in 1..C |-> queue[at(m)]]
  BY DEF AtPlaces
<1> HIDE DEF Rank, q, C
<1>8. \A m \in 1..C : at(m) \in places /\ Rank(at(m)) = m
  BY <1>6
<1>9. \A n \in places : at(Rank(n)) = n
  BY <1>3, <1>5, <1>8
<1> HIDE DEF at
<1>10. \A m \in 1..C : queue[at(m)] \in S
  <2> SUFFICES ASSUME NEW m \in 1..C PROVE queue[at(m)] \in S
    OBVIOUS
  <2>1. at(m) \in 1..Len(queue)
    BY <1>8
  <2> QED BY <2>1
<1>11. q \in Seq(S) /\ Len(q) = C
  BY <1>1, <1>7, <1>10
<1>12. \E g \in [1..Len(q) -> places] :
         /\ \A m \in 1..Len(q) : q[m] = queue[g[m]]
         /\ \A l, m \in 1..Len(q) : g[l] = g[m] => l = m
  <2> DEFINE g == [m \in 1..C |-> at(m)]
  <2>1. g \in [1..Len(q) -> places]
    BY <1>8, <1>11
  <2>2. \A m \in 1..Len(q) : q[m] = queue[g[m]]
    BY <1>7, <1>11
  <2>3. \A l, m \in 1..Len(q) : g[l] = g[m] => l = m
    BY <1>8, <1>11
  <2> HIDE DEF g
  <2> QED BY <2>1, <2>2, <2>3
<1>13. \A n \in places : \E m \in 1..Len(q) : q[m] = queue[n]
  BY <1>3, <1>7, <1>9, <1>11
<1> QED BY <1>11, <1>12, <1>13 DEF q, Selection
----------------------------------------------------------------------------
(* Queues of messages.                                                     *)

\* A message of M is in the queue.
Has(queue, M) == \E n \in 1..Len(queue) : queue[n] \in M

\* No two messages of M are in the queue.
Once(queue, M) ==
  \A n, l \in 1..Len(queue) : queue[n] \in M /\ queue[l] \in M => n = l

\* A message that is added: no other is lost, and only it is new.
LEMMA HasAppend ==
  ASSUME NEW queue \in Seq(Message), NEW m \in Message, NEW M
  PROVE  /\ Append(queue, m) \in Seq(Message)
         /\ Has(queue, M) => Has(Append(queue, m), M)
         /\ m \in M => Has(Append(queue, m), M)
         /\ Has(Append(queue, m), M) => Has(queue, M) \/ m \in M
         /\ Once(queue, M) /\ (m \in M => ~Has(queue, M)) => Once(Append(queue, m), M)
<1> DEFINE q == Append(queue, m)
<1>1. q \in Seq(Message) /\ Len(q) = Len(queue) + 1
  OBVIOUS
<1>2. \A n \in 1..Len(queue) : q[n] = queue[n] /\ n \in 1..Len(q)
  OBVIOUS
<1>3. q[Len(queue) + 1] = m /\ Len(queue) + 1 \in 1..Len(q)
  OBVIOUS
<1>4. \A n \in 1..Len(q) : n \in 1..Len(queue) \/ n = Len(queue) + 1
  OBVIOUS
<1> HIDE DEF q
<1>5. ASSUME Once(queue, M), m \in M => ~Has(queue, M) PROVE Once(q, M)
  <2>1. \A n \in 1..Len(queue) : m \in M => queue[n] \notin M
    BY <1>5 DEF Has
  <2> QED BY <1>2, <1>3, <1>4, <1>5, <2>1 DEF Once
<1> QED BY <1>1, <1>2, <1>3, <1>4, <1>5 DEF Has, q

\* Taking the first message loses no other.
LEMMA HasTail ==
  ASSUME NEW queue \in Seq(Message), queue # <<>>, NEW M
  PROVE  /\ Tail(queue) \in Seq(Message) /\ Head(queue) \in Message
         /\ Has(queue, M) => Head(queue) \in M \/ Has(Tail(queue), M)
         /\ Has(Tail(queue), M) => Has(queue, M)
         /\ Once(queue, M) => Once(Tail(queue), M)
         /\ Once(queue, M) /\ Head(queue) \in M => ~Has(Tail(queue), M)
<1> DEFINE q == Tail(queue)
<1>1. q \in Seq(Message) /\ Len(q) = Len(queue) - 1 /\ Head(queue) = queue[1]
  OBVIOUS
<1>2. queue[1] \in Message /\ Len(queue) \in Nat
  OBVIOUS
<1>3. \A n \in 1..Len(q) : q[n] = queue[n + 1] /\ n + 1 \in 1..Len(queue)
  OBVIOUS
<1>4. \A n \in 1..Len(queue) : n # 1 => n - 1 \in 1..Len(q) /\ q[n - 1] = queue[n]
  <2> SUFFICES ASSUME NEW n \in 1..Len(queue), n # 1
               PROVE  n - 1 \in 1..Len(q) /\ q[n - 1] = queue[n]
    OBVIOUS
  <2>1. n - 1 \in 1..Len(q) /\ (n - 1) + 1 = n
    BY <1>1, <1>2
  <2> HIDE DEF q
  <2> QED BY <1>3, <2>1
<1> HIDE DEF q
<1>5. ASSUME Once(queue, M), NEW n \in 1..Len(q), NEW l \in 1..Len(q),
             q[n] \in M, q[l] \in M
      PROVE  n = l
  <2>1. n + 1 = l + 1
    BY <1>3, <1>5 DEF Once
  <2> QED BY <1>1, <1>2, <2>1
<1>6. ASSUME Once(queue, M), queue[1] \in M, NEW n \in 1..Len(q) PROVE q[n] \notin M
  <2>1. 1 \in 1..Len(queue) /\ n + 1 # 1
    BY <1>1, <1>2
  <2> QED BY <1>3, <1>6, <2>1 DEF Once
<1> QED BY <1>1, <1>2, <1>3, <1>4, <1>5, <1>6 DEF Has, Once, q

\* Untracked loses the :DOWN messages of those ids only.
LEMMA HasUntracked ==
  ASSUME NEW queue \in Seq(Message), NEW ids, NEW M
  PROVE  /\ Untracked(queue, ids) \in Seq(Message)
         /\ Has(Untracked(queue, ids), M) => Has(queue, M)
         /\ /\ \A m \in M \cap Message : m.type = "DOWN" => m.pid[1] \notin ids
            /\ Has(queue, M)
            => Has(Untracked(queue, ids), M)
         /\ Once(queue, M) => Once(Untracked(queue, ids), M)
<1> DEFINE K == {n \in 1..Len(queue) :
              ~(queue[n].type = "DOWN" /\ queue[n].pid[1] \in ids /\ IsTracked(queue[n].pid))}
           q == Untracked(queue, ids)
<1>1. q = AtPlaces(queue, K)
  BY DEF Untracked
<1>2. K \in SUBSET (1..Len(queue))
  OBVIOUS
<1>3. Selection(q, Message, queue, K)
  <2> HIDE DEF K
  <2> QED BY <1>1, <1>2, AtPlacesSelects
<1>4. ASSUME \A m \in M \cap Message : m.type = "DOWN" => m.pid[1] \notin ids,
             NEW n \in 1..Len(queue), queue[n] \in M
      PROVE  n \in K
  <2>1. queue[n] \in Message
    OBVIOUS
  <2> QED BY <1>4, <2>1
<1> HIDE DEF K, q
<1>7. Once(queue, M) => Once(q, M)
  <2>1. PICK g \in [1..Len(q) -> K] :
          /\ \A m \in 1..Len(q) : q[m] = queue[g[m]]
          /\ \A l, m \in 1..Len(q) : g[l] = g[m] => l = m
    BY <1>3 DEF Selection
  <2> QED BY <1>2, <2>1 DEF Once
<1>5. Has(q, M) => Has(queue, M)
  BY <1>2, <1>3 DEF Has, Selection
<1>6. ASSUME \A m \in M \cap Message : m.type = "DOWN" => m.pid[1] \notin ids, Has(queue, M)
      PROVE  Has(q, M)
  <2>1. PICK n \in 1..Len(queue) : queue[n] \in M
    BY <1>6 DEF Has
  <2>2. n \in K
    BY <1>4, <1>6, <2>1
  <2> QED BY <1>3, <2>1, <2>2 DEF Has, Selection
<1> QED BY <1>3, <1>5, <1>6, <1>7 DEF q, Selection

\* The messages that the program sends.
LEMMA Messages ==
  /\ \A p \in Pid : PidMsg("track", p) \in Message /\ PidMsg("DOWN", p) \in Message
  /\ \A i \in Ids : /\ IdMsg("increment_requests", i) \in Message
                    /\ IdMsg("recycle_worker", i) \in Message
  /\ Plain("lifecycle_check") \in Message /\ Plain("check_down") \in Message
  /\ \A ids \in SUBSET Ids : [type |-> "check_complete", ids |-> ids] \in Message
<1> QED BY DEF Message, PidMsg, IdMsg, Plain

\* A :DOWN, a request to recycle and a check are messages of their kind only.
LEMMA Kinds ==
  /\ \A m \in Message : m.type = "lifecycle_check" => m = Plain("lifecycle_check")
  /\ \A p \in Pid : PidMsg("DOWN", p).type = "DOWN" /\ PidMsg("DOWN", p).pid = p
  /\ \A i \in Ids : IdMsg("recycle_worker", i).type = "recycle_worker"
  /\ Plain("lifecycle_check").type = "lifecycle_check"
<1> QED BY DEF Message, PidMsg, IdMsg, Plain

----------------------------------------------------------------------------
(* Type correctness.                                                       *)

\* Bound and kinds of the constants that the types use.
LEMMA Constants ==
  /\ MaxRequests \in Nat /\ MaxRequests > 0 /\ MaxFaults \in Nat
  /\ 1 \in Boots /\ Initial \subseteq Ids /\ None \notin Ids
<1> QED BY LifecycleAssumption

\* The jobs that the program starts and the stages they reach are jobs.
LEMMA JobTypes ==
  /\ \A p \in Pid : NewJob("check", p) \in Job /\ NewJob("recycle", p) \in Job
  /\ \A j \in Job : /\ [j EXCEPT !.stage = "terminating"] \in Job
                    /\ [j EXCEPT !.stage = "starting"] \in Job
                    /\ [j EXCEPT !.by = "nobody"] \in Job
                    /\ \A p \in Pid : /\ [j EXCEPT !.stage = "resolve", !.new = p] \in Job
                                      /\ [j EXCEPT !.stage = "track", !.new = p] \in Job
  /\ \A j \in Job : j.pid \in Pid /\ j.new \in Pid /\ j.pid[1] \in Ids /\ j.new[1] \in Ids
<1> QED BY DEF NewJob, Job, Pid

\* The pid of a tracked worker.
LEMMA TrackedPid ==
  ASSUME TypeOK, NEW i \in TrackedIds
  PROVE  i \in Ids /\ PidOf(i) \in Pid /\ PidOf(i)[1] = i /\ workers[i] \in Tracked
<1>1. i \in Ids /\ workers[i] \in Tracked
  BY DEF TypeOK, TrackedIds
<1>2. workers[i].boot \in Boots
  BY <1>1 DEF Tracked
<1> QED BY <1>1, <1>2 DEF PidOf, Pid

\* The first message, and what is left when it is taken.
LEMMA Received ==
  ASSUME TypeOK, NEW m, Receive(m)
  PROVE  /\ m \in Message /\ Tail(mailbox) \in Seq(Message)
         /\ mailbox # <<>> /\ mailbox \in Seq(Message) /\ Head(mailbox) = m
         /\ manager = "up"
<1> QED BY HasTail DEF Receive, TypeOK

\* What a message to the manager leaves in its mailbox.
LEMMA DeliveredType ==
  ASSUME TypeOK, NEW m \in Message
  PROVE  /\ Append(mailbox, m) \in Seq(Message)
         /\ Delivered(mailbox, m) \in Seq(Message)
<1> QED BY HasAppend DEF Delivered, TypeOK

\* The :DOWN of a process is a message, whether it is sent or not.
LEMMA DownType ==
  ASSUME TypeOK, NEW p \in Pid, Down(p)
  PROVE  mailbox' \in Seq(Message)
<1>1. PidMsg("DOWN", p) \in Message
  BY Messages
<1> QED BY <1>1, DeliveredType DEF Down, TypeOK

\* A job that is set to a value of a job.
LEMMA JobsUpdate ==
  ASSUME jobs \in [Jobs -> Job \cup {None}], NEW k, NEW j \in Job \cup {None}
  PROVE  [jobs EXCEPT ![k] = j] \in [Jobs -> Job \cup {None}]
<1> QED OBVIOUS

\* A job that runs.
LEMMA RunningJob ==
  ASSUME TypeOK, NEW k \in Running
  PROVE  k \in Jobs /\ jobs[k] \in Job /\ jobs[k] # None
<1> QED BY DEF TypeOK, Running

\* A report of a check.
ReportMsg == {m \in Message : m.type \in {"check_complete", "check_down"}}

\* A check reports once, when its jobs have ended, and while the manager is up a
\* job of a check runs only while that check does.
OneReport ==
  /\ Once(mailbox, ReportMsg)
  /\ Has(mailbox, ReportMsg) => lifecycle_task # None /\ Checking = {}
  /\ manager = "up" /\ Checking # {} => lifecycle_task # None

\* Reported says that the mailbox has a report.
LEMMA ReportedHas ==
  ASSUME mailbox \in Seq(Message)
  PROVE  Reported <=> Has(mailbox, ReportMsg)
<1>1. \A n \in 1..Len(mailbox) : mailbox[n] \in Message
  OBVIOUS
<1> QED BY <1>1 DEF Reported, Has, ReportMsg

\* The end of a task leaves the types of the jobs and of the check.
LEMMA FinishType ==
  ASSUME TypeOK, OneReport, NEW k \in Running, Finish(k)
  PROVE  jobs' \in [Jobs -> Job \cup {None}] /\ lifecycle_task' \in (SUBSET Ids) \cup {None}
<1>1. jobs[k].pid[1] \in Ids
  BY RunningJob, JobTypes
<1>2. jobs' \in [Jobs -> Job \cup {None}]
  BY JobsUpdate DEF TypeOK, Finish
<1>3. CASE lifecycle_task \in SUBSET Ids
  BY <1>1, <1>2, <1>3 DEF Finish
<1>4. CASE lifecycle_task = None /\ jobs[k].by = "check" /\ manager = "up"
  BY <1>4 DEF OneReport, Checking
<1>5. CASE lifecycle_task = None /\ ~(jobs[k].by = "check" /\ manager = "up")
  BY <1>2, <1>5 DEF Finish
<1> QED BY <1>3, <1>4, <1>5 DEF TypeOK

\* An error of the supervisor ends the job.
LEMMA NotFoundType ==
  ASSUME TypeOK, OneReport, NEW k \in Running, NotFound(k)
  PROVE  jobs' \in [Jobs -> Job \cup {None}] /\ lifecycle_task' \in (SUBSET Ids) \cup {None}
<1>1. CASE jobs[k].by = "nobody"
  BY <1>1, JobsUpdate DEF NotFound, TypeOK
<1>2. CASE jobs[k].by # "nobody"
  BY <1>2, FinishType DEF NotFound
<1> QED BY <1>1, <1>2

\* A job goes to its next stage.
LEMMA GotoType ==
  ASSUME TypeOK, NEW k \in Running, NEW stage \in {"terminating", "starting"}, Goto(k, stage)
  PROVE  jobs' \in [Jobs -> Job \cup {None}] /\ lifecycle_task' \in (SUBSET Ids) \cup {None}
<1>1. jobs[k] \in Job /\ [jobs[k] EXCEPT !.stage = stage] \in Job
  BY RunningJob, JobTypes
<1>2. jobs' = [jobs EXCEPT ![k] = [jobs[k] EXCEPT !.stage = stage]]
  BY DEF Goto
<1> QED BY <1>1, <1>2, JobsUpdate DEF TypeOK, Goto

\* What is left of a killed job is a job.
LEMMA KilledType ==
  ASSUME TypeOK
  PROVE  /\ \A k \in Jobs : Killed(jobs[k]) \in Job \cup {None}
         /\ EndTasks => jobs' \in [Jobs -> Job \cup {None}]
<1>1. \A k \in Jobs : Killed(jobs[k]) \in Job \cup {None}
  <2> SUFFICES ASSUME NEW k \in Jobs PROVE Killed(jobs[k]) \in Job \cup {None}
    OBVIOUS
  <2>1. CASE jobs[k] = None
    BY <2>1 DEF Killed
  <2>2. CASE jobs[k] # None
    BY <2>2, RunningJob, JobTypes DEF Killed, Running
  <2> QED BY <2>1, <2>2
<1> QED BY <1>1 DEF EndTasks

\* A worker that is forgotten.
LEMMA UntrackType ==
  ASSUME TypeOK, NEW ids, Untrack(ids)
  PROVE  workers' \in [Ids -> Tracked \cup {None}]
<1> QED BY DEF TypeOK, Untrack

\* The jobs that a check starts: each is for a worker that is due, at a number
\* that was free.
LEMMA CheckJobs ==
  ASSUME TypeOK, LifecycleCheck, NEW k \in Jobs
  PROVE  \/ jobs'[k] = jobs[k]
         \/ /\ jobs[k] = None /\ lifecycle_task = None
            /\ \E i \in TrackedIds : jobs'[k] = NewJob("check", PidOf(i))
<1>1. CASE lifecycle_task # None
  BY <1>1 DEF LifecycleCheck
<1>2. CASE lifecycle_task = None
  <2>1. PICK due \in SUBSET TrackedIds :
          /\ Assigned(due) # {}
          /\ LET f == CHOOSE g \in Assigned(due) : TRUE IN
             jobs' = [l \in Jobs |-> IF \E i \in due : f[i] = l
                                     THEN NewJob("check", PidOf(CHOOSE i \in due : f[i] = l))
                                     ELSE jobs[l]]
    BY <1>2 DEF LifecycleCheck
  <2> DEFINE f == CHOOSE g \in Assigned(due) : TRUE
  <2>2. f \in [due -> Free]
    <3>1. f \in Assigned(due)
      BY <2>1
    <3> QED BY <3>1 DEF Assigned
  <2> HIDE DEF f
  <2>3. CASE \E i \in due : f[i] = k
    <3> DEFINE i == CHOOSE j \in due : f[j] = k
    <3>1. i \in due /\ f[i] = k
      BY <2>3
    <3>2. jobs'[k] = NewJob("check", PidOf(i))
      BY <2>1, <2>3 DEF f
    <3> HIDE DEF i
    <3>3. k \in Free /\ i \in TrackedIds
      BY <2>2, <3>1
    <3> QED BY <1>2, <3>2, <3>3 DEF Free, Running
  <2>4. CASE ~\E i \in due : f[i] = k
    BY <2>1, <2>4 DEF f
  <2> QED BY <2>3, <2>4
<1> QED BY <1>1, <1>2

\* The jobs that a check starts are jobs.
LEMMA CheckJobsType ==
  ASSUME TypeOK, LifecycleCheck
  PROVE  jobs' \in [Jobs -> Job \cup {None}]
<1>1. jobs' = [k \in Jobs |-> jobs'[k]]
  BY DEF LifecycleCheck, TypeOK
<1>2. \A k \in Jobs : jobs'[k] \in Job \cup {None}
  <2> SUFFICES ASSUME NEW k \in Jobs PROVE jobs'[k] \in Job \cup {None}
    OBVIOUS
  <2>1. CASE jobs'[k] = jobs[k]
    BY <2>1 DEF TypeOK
  <2>2. ASSUME NEW i \in TrackedIds, jobs'[k] = NewJob("check", PidOf(i))
        PROVE  jobs'[k] \in Job
    BY <2>2, TrackedPid, JobTypes
  <2> QED BY <2>1, <2>2, CheckJobs
<1> QED BY <1>1, <1>2

\* The values of the variables after a callback of the manager.
LEMMA HandleType ==
  ASSUME TypeOK, Handle
  PROVE  TypeOK'
<1> USE DEF fleet, history
<1>1. ASSUME NEW p \in Pid, Track(p) PROVE TypeOK'
  <2>1. Receive(PidMsg("track", p)) /\ p[1] \in Ids /\ p[2] \in Boots
    BY <1>1 DEF Track, Pid
  <2>2. Tail(mailbox) \in Seq(Message) /\ PidMsg("DOWN", p) \in Message
    BY <2>1, Received, Messages
  <2>3. mailbox' \in Seq(Message)
    BY <1>1, <2>2, HasAppend DEF Track, Monitor
  <2>4. [boot |-> p[2], request_count |-> 0] \in Tracked
    BY <2>1, Constants DEF Tracked
  <2>5. workers' \in [Ids -> Tracked \cup {None}]
    BY <1>1, <2>4 DEF Track, TypeOK
  <2> QED BY <1>1, <2>3, <2>5 DEF Track, TypeOK
<1>2. ASSUME NEW p \in Pid, WorkerDown(p) PROVE TypeOK'
  <2>1. Tail(mailbox) \in Seq(Message)
    BY <1>2, Received DEF WorkerDown
  <2>2. workers' \in [Ids -> Tracked \cup {None}]
    BY <1>2, UntrackType DEF WorkerDown, TypeOK
  <2> QED BY <1>2, <2>1, <2>2 DEF WorkerDown, TypeOK
<1>3. ASSUME NEW i \in Ids, IncrementRequests(i) PROVE TypeOK'
  <2>1. Tail(mailbox) \in Seq(Message) /\ IdMsg("recycle_worker", i) \in Message
    BY <1>3, Received, Messages DEF IncrementRequests
  <2>2. mailbox' \in Seq(Message)
    BY <1>3, <2>1, HasAppend DEF IncrementRequests
  <2>3. workers' \in [Ids -> Tracked \cup {None}]
    <3>1. CASE workers[i] = None
      BY <1>3, <3>1 DEF IncrementRequests, TypeOK
    <3>2. CASE workers[i] # None
      <4>1. workers[i] \in Tracked
        BY <3>2 DEF TypeOK
      <4>2. \A n \in Nat : Count(n) \in 0..MaxRequests
        BY Constants DEF Count
      <4>3. [workers[i] EXCEPT !.request_count = Count(workers[i].request_count + 1)] \in Tracked
        BY <4>1, <4>2 DEF Tracked
      <4>4. workers' = [workers EXCEPT ![i] =
              [workers[i] EXCEPT !.request_count = Count(workers[i].request_count + 1)]]
        BY <1>3, <3>2 DEF IncrementRequests
      <4> QED BY <4>3, <4>4 DEF TypeOK
    <3> QED BY <3>1, <3>2
  <2> QED BY <1>3, <2>2, <2>3 DEF IncrementRequests, TypeOK
<1>4. ASSUME NEW i \in Ids, RecycleWorker(i) PROVE TypeOK'
  <2>1. Tail(mailbox) \in Seq(Message)
    BY <1>4, Received DEF RecycleWorker
  <2>2. mailbox' \in Seq(Message)
    <3>1. Untracked(Tail(mailbox), {i}) \in Seq(Message)
      BY <2>1, HasUntracked
    <3> QED BY <1>4, <2>1, <3>1 DEF RecycleWorker
  <2>3. workers' \in [Ids -> Tracked \cup {None}]
    BY <1>4, UntrackType DEF RecycleWorker, TypeOK
  <2>4. jobs' \in [Jobs -> Job \cup {None}]
    <3>1. CASE workers[i] = None
      BY <1>4, <3>1 DEF RecycleWorker, TypeOK
    <3>2. CASE workers[i] # None
      <4>1. NewJob("recycle", PidOf(i)) \in Job
        BY <3>2, TrackedPid, JobTypes DEF TrackedIds
      <4> QED BY <1>4, <3>2, <4>1, JobsUpdate DEF RecycleWorker, TypeOK
    <3> QED BY <3>1, <3>2
  <2> QED BY <1>4, <2>2, <2>3, <2>4 DEF RecycleWorker, TypeOK
<1>5. ASSUME LifecycleCheck PROVE TypeOK'
  <2>1. Tail(mailbox) \in Seq(Message)
    BY <1>5, Received DEF LifecycleCheck
  <2>2. lifecycle_task' \in (SUBSET Ids) \cup {None}
    BY <1>5 DEF LifecycleCheck, TypeOK
  <2>3. jobs' \in [Jobs -> Job \cup {None}]
    BY <1>5, CheckJobsType
  <2> QED BY <1>5, <2>1, <2>2, <2>3 DEF LifecycleCheck, TypeOK
<1>6. ASSUME NEW ids \in SUBSET Ids, CheckComplete(ids) PROVE TypeOK'
  <2>1. Tail(mailbox) \in Seq(Message)
    BY <1>6, Received DEF CheckComplete
  <2>2. mailbox' \in Seq(Message)
    BY <1>6, <2>1, HasUntracked DEF CheckComplete
  <2>3. workers' \in [Ids -> Tracked \cup {None}]
    BY <1>6, UntrackType DEF CheckComplete
  <2> QED BY <1>6, <2>2, <2>3 DEF CheckComplete, Schedule, TypeOK
<1>7. ASSUME CheckDown PROVE TypeOK'
  <2>1. Tail(mailbox) \in Seq(Message)
    BY <1>7, Received DEF CheckDown
  <2> QED BY <1>7, <2>1 DEF CheckDown, Schedule, TypeOK
<1> QED BY <1>1, <1>2, <1>3, <1>4, <1>5, <1>6, <1>7 DEF Handle

\* The values of the variables after a step of a job.
LEMMA StepType ==
  ASSUME TypeOK, OneReport, NEW k \in Jobs, Step(k)
  PROVE  TypeOK'
<1> USE DEF fleet, history
<1>1. ASSUME StopWorker(k) PROVE TypeOK'
  <2>1. k \in Running
    BY <1>1 DEF StopWorker, Task, AtStage
  <2>2. /\ jobs' \in [Jobs -> Job \cup {None}] /\ lifecycle_task' \in (SUBSET Ids) \cup {None}
        /\ stale' \in BOOLEAN
    BY <1>1, <2>1, GotoType DEF StopWorker, TypeOK
  <2> QED BY <1>1, <2>2 DEF StopWorker, TypeOK
<1>2. ASSUME TerminateChild(k) PROVE TypeOK'
  <2> DEFINE i == jobs[k].pid[1]
  <2>1. k \in Running /\ i \in Ids
    BY <1>2, RunningJob, JobTypes DEF TerminateChild, AtStage
  <2>2. CASE starter[i]
    <3>1. <<i, boot[i]>> \in Pid
      BY <2>1 DEF TypeOK, Pid
    <3>2. mailbox' \in Seq(Message)
      BY <1>2, <2>2, <3>1, DownType DEF TerminateChild, TypeOK
    <3>3. /\ jobs' \in [Jobs -> Job \cup {None}]
          /\ lifecycle_task' \in (SUBSET Ids) \cup {None} /\ cut' \in BOOLEAN
      <4>1. CASE jobs[k].by = "nobody"
        BY <1>2, <2>2, <4>1, JobsUpdate DEF TerminateChild, TypeOK
      <4>2. CASE jobs[k].by # "nobody"
        BY <1>2, <2>1, <2>2, <4>2, GotoType DEF TerminateChild, TypeOK
      <4> QED BY <4>1, <4>2
    <3>4. /\ starter' \in [Ids -> BOOLEAN] /\ child' \in [Ids -> {"none", "booting", "up"}]
      BY <1>2, <2>1, <2>2 DEF TerminateChild, TypeOK
    <3> QED BY <1>2, <3>2, <3>3, <3>4 DEF TerminateChild, TypeOK
  <2>3. CASE ~starter[i]
    <3>1. /\ NotFound(k)
          /\ UNCHANGED <<starter, child, mailbox, cut>>
      BY <1>2, <2>3 DEF TerminateChild
    <3>2. jobs' \in [Jobs -> Job \cup {None}] /\ lifecycle_task' \in (SUBSET Ids) \cup {None}
      BY <2>1, <3>1, NotFoundType
    <3> QED BY <1>2, <3>1, <3>2 DEF TerminateChild, TypeOK
  <2> QED BY <2>2, <2>3
<1>3. ASSUME StartChild(k) PROVE TypeOK'
  <2>1. k \in Running
    BY <1>3 DEF StartChild, AtStage
  <2>2. PICK i \in Ids :
          /\ starter' = [starter EXCEPT ![i] = TRUE]
          /\ child' = [child EXCEPT ![i] = "booting"]
          /\ boot' = [boot EXCEPT ![i] = 1]
          /\ jobs' = [jobs EXCEPT ![k] =
                        IF jobs[k].by = "nobody" THEN None
                        ELSE [jobs[k] EXCEPT !.stage = "resolve", !.new = <<i, 1>>]]
    BY <1>3 DEF StartChild
  <2>3. <<i, 1>> \in Pid
    BY Constants DEF Pid
  <2>4. jobs[k] \in Job /\ [jobs[k] EXCEPT !.stage = "resolve", !.new = <<i, 1>>] \in Job
    BY <2>1, <2>3, RunningJob, JobTypes
  <2>5. jobs' \in [Jobs -> Job \cup {None}]
    BY <2>2, <2>4, JobsUpdate DEF TypeOK
  <2>6. /\ starter' \in [Ids -> BOOLEAN] /\ child' \in [Ids -> {"none", "booting", "up"}]
        /\ boot' \in [Ids -> Boots]
    BY <2>2, Constants DEF TypeOK
  <2> QED BY <1>3, <2>5, <2>6 DEF StartChild, TypeOK
<1>4. ASSUME StartFails(k) PROVE TypeOK'
  <2>1. k \in Running
    BY <1>4 DEF StartFails, AtStage
  <2>2. jobs' \in [Jobs -> Job \cup {None}] /\ lifecycle_task' \in (SUBSET Ids) \cup {None}
    BY <1>4, <2>1, NotFoundType DEF StartFails
  <2>3. faults' \in 0..MaxFaults
    BY <1>4, Constants DEF StartFails, Fault, TypeOK
  <2> QED BY <1>4, <2>2, <2>3 DEF StartFails, TypeOK
<1>5. ASSUME ResolvePid(k) PROVE TypeOK'
  <2> DEFINE i == jobs[k].new[1]
  <2>1. k \in Running /\ i \in Ids
    BY <1>5, RunningJob, JobTypes DEF ResolvePid, Task, AtStage
  <2>2. jobs' \in [Jobs -> Job \cup {None}] /\ lifecycle_task' \in (SUBSET Ids) \cup {None}
    <3>1. CASE child[i] # "none"
      <4>1. <<i, boot[i]>> \in Pid
        BY <2>1 DEF TypeOK, Pid
      <4>2. [jobs[k] EXCEPT !.stage = "track", !.new = <<i, boot[i]>>] \in Job
        BY <2>1, <4>1, RunningJob, JobTypes
      <4>3. jobs' = [jobs EXCEPT ![k] =
                       [jobs[k] EXCEPT !.stage = "track", !.new = <<i, boot[i]>>]]
        BY <1>5, <2>1, <3>1 DEF ResolvePid, TypeOK
      <4> QED BY <1>5, <3>1, <4>2, <4>3, JobsUpdate DEF ResolvePid, TypeOK
    <3>2. CASE child[i] = "none"
      BY <1>5, <2>1, <3>2, FinishType DEF ResolvePid
    <3> QED BY <3>1, <3>2
  <2> QED BY <1>5, <2>2 DEF ResolvePid, TypeOK
<1>6. ASSUME TrackReplacement(k) PROVE TypeOK'
  <2>1. k \in Running /\ jobs[k].new \in Pid
    BY <1>6, RunningJob, JobTypes DEF TrackReplacement, Task, AtStage
  <2>2. mailbox' \in Seq(Message)
    BY <1>6, <2>1, Messages, DeliveredType DEF TrackReplacement
  <2>3. jobs' \in [Jobs -> Job \cup {None}] /\ lifecycle_task' \in (SUBSET Ids) \cup {None}
    BY <1>6, <2>1, FinishType DEF TrackReplacement
  <2> QED BY <1>6, <2>2, <2>3 DEF TrackReplacement, TypeOK
<1> QED BY <1>1, <1>2, <1>3, <1>4, <1>5, <1>6 DEF Step

\* Every step leads to values of the variables.
LEMMA TypeStep ==
  ASSUME TypeOK, OneReport, [Next]_vars
  PROVE  TypeOK'
<1> USE DEF fleet, history
<1>0. ASSUME NEW kind, Fault(kind) PROVE faults' \in 0..MaxFaults
  BY <1>0, Constants DEF Fault, TypeOK
<1>1. CASE Handle
  BY <1>1, HandleType
<1>2. ASSUME NEW k \in Jobs, Step(k) PROVE TypeOK'
  BY <1>2, StepType
<1>3. ASSUME NEW k \in Jobs, ActionTimeout(k) PROVE TypeOK'
  <2>1. jobs' \in [Jobs -> Job \cup {None}]
    BY <1>3, KilledType, JobsUpdate DEF ActionTimeout, TypeOK
  <2> QED BY <1>0, <1>3, <2>1 DEF ActionTimeout, TypeOK
<1>4. CASE CheckEnds
  <2>1. [type |-> "check_complete", ids |-> lifecycle_task] \in Message
    BY <1>4, Messages DEF CheckEnds, TypeOK
  <2>2. mailbox' \in Seq(Message)
    BY <1>4, <2>1, DeliveredType DEF CheckEnds
  <2> QED BY <1>4, <2>2 DEF CheckEnds, TypeOK
<1>5. CASE TasksKilled
  <2>1. mailbox' \in Seq(Message)
    BY <1>5, Messages, DeliveredType DEF TasksKilled, TypeOK
  <2> QED BY <1>0, <1>5, <2>1, KilledType DEF TasksKilled, TypeOK
<1>6. ASSUME NEW how \in {"stopped", "killed"}, Ended(how) PROVE TypeOK'
  <2>1. workers' \in [Ids -> Tracked \cup {None}]
    BY <1>6, UntrackType DEF Ended
  <2>2. mailbox' \in Seq(Message)
    BY <1>6 DEF Ended
  <2> QED BY <1>6, <2>1, <2>2 DEF Ended, TypeOK
<1>14. ASSUME NEW k \in Jobs, SignalArrives(k) PROVE TypeOK'
  <2>1. jobs' \in [Jobs -> Job \cup {None}]
    BY <1>14, KilledType, JobsUpdate DEF SignalArrives, TypeOK
  <2> QED BY <1>14, <2>1 DEF SignalArrives, TypeOK
<1>7. CASE TimerFires
  <2>1. mailbox' \in Seq(Message)
    BY <1>7, Messages, DeliveredType DEF TimerFires
  <2> QED BY <1>7, <2>1 DEF TimerFires, TypeOK
<1>8. ASSUME NEW i \in Ids, Ready(i) PROVE TypeOK'
  <2>1. <<i, boot[i]>> \in Pid
    BY DEF TypeOK, Pid
  <2>2. mailbox' \in Seq(Message)
    BY <1>8, <2>1, Messages, DeliveredType DEF Ready
  <2> QED BY <1>8, <2>2 DEF Ready, TypeOK
<1>9. ASSUME NEW i \in Ids, Crash(i) PROVE TypeOK'
  <2>1. <<i, boot[i]>> \in Pid
    BY DEF TypeOK, Pid
  <2>2. mailbox' \in Seq(Message)
    BY <1>9, <2>1, DownType DEF Crash
  <2>3. boot' \in [Ids -> Boots]
    BY <1>9 DEF Crash, TypeOK
  <2> QED BY <1>0, <1>9, <2>2, <2>3 DEF Crash, TypeOK
<1>10. ASSUME NEW i \in Ids, Exit(i) PROVE TypeOK'
  <2>1. <<i, boot[i]>> \in Pid
    BY DEF TypeOK, Pid
  <2>2. mailbox' \in Seq(Message)
    BY <1>10, <2>1, DownType DEF Exit
  <2> QED BY <1>0, <1>10, <2>2 DEF Exit, TypeOK
<1>11. ASSUME NEW i \in Ids, Served(i) PROVE TypeOK'
  <2>1. mailbox' \in Seq(Message)
    BY <1>11, Messages, DeliveredType DEF Served
  <2> QED BY <1>11, <2>1 DEF Served, TypeOK
<1>12. ASSUME NEW i \in Ids, AskRecycle(i) PROVE TypeOK'
  <2>1. mailbox' \in Seq(Message)
    BY <1>12, Messages, DeliveredType DEF AskRecycle
  <2> QED BY <1>12, <2>1 DEF AskRecycle, TypeOK
<1>13. CASE UNCHANGED vars
  BY <1>13 DEF vars, TypeOK
<1> QED BY <1>1, <1>2, <1>3, <1>4, <1>5, <1>6, <1>7, <1>8, <1>9, <1>10, <1>11, <1>12, <1>13,
           <1>14
        DEF Next, Terminate, KilledManager

----------------------------------------------------------------------------
(* The reports of the checks.                                              *)

\* The mailbox has no report that it had not before.
NoNewReport ==
  /\ Once(mailbox, ReportMsg) => Once(mailbox', ReportMsg)
  /\ Has(mailbox', ReportMsg) => Has(mailbox, ReportMsg)

\* A manager that is up was up before.
LEMMA WasUp ==
  ASSUME [Next]_vars, manager' = "up"
  PROVE  manager = "up"
<1> QED BY DEF Next, vars, Handle, Track, WorkerDown, IncrementRequests, RecycleWorker,
               LifecycleCheck, CheckComplete, CheckDown, Step, StopWorker, TerminateChild,
               StartChild, StartFails, ResolvePid, TrackReplacement, ActionTimeout, CheckEnds,
               TasksKilled, Terminate, KilledManager, Ended, SignalArrives, TimerFires, Ready, Crash,
               Exit, Served, AskRecycle

\* What keeps the reports of the checks as they should be.
LEMMA OneReportKept ==
  ASSUME [Next]_vars, OneReport, NoNewReport, Checking' \subseteq Checking,
         lifecycle_task # None => lifecycle_task' # None
  PROVE  OneReport'
<1>1. ReportMsg' = ReportMsg
  BY DEF ReportMsg, Message, Pid
<1>2. manager' = "up" => manager = "up"
  BY WasUp
<1> QED BY <1>1, <1>2 DEF OneReport, NoNewReport, Has, Once

\* The other messages are no reports.
LEMMA NoReports ==
  /\ \A p : PidMsg("track", p) \notin ReportMsg /\ PidMsg("DOWN", p) \notin ReportMsg
  /\ \A i : /\ IdMsg("increment_requests", i) \notin ReportMsg
            /\ IdMsg("recycle_worker", i) \notin ReportMsg
  /\ Plain("lifecycle_check") \notin ReportMsg /\ Plain("check_down") \in ReportMsg
  /\ \A ids \in SUBSET Ids : [type |-> "check_complete", ids |-> ids] \in ReportMsg
<1>1. \A ids \in SUBSET Ids : [type |-> "check_complete", ids |-> ids] \in Message
  BY Messages
<1>2. Plain("check_down") \in Message
  BY Messages
<1> QED BY <1>1, <1>2 DEF ReportMsg, PidMsg, IdMsg, Plain

\* Adding a message that is no report adds no report.
LEMMA AppendNoReport ==
  ASSUME TypeOK, NEW m \in Message, m \notin ReportMsg,
         \/ mailbox' = Append(mailbox, m)
         \/ mailbox' = Delivered(mailbox, m)
         \/ mailbox' = mailbox
  PROVE  NoNewReport
<1>1. mailbox \in Seq(Message)
  BY DEF TypeOK
<1>2. mailbox' = Append(mailbox, m) \/ mailbox' = mailbox
  BY DEF Delivered
<1>3. CASE mailbox' = Append(mailbox, m)
  BY <1>1, <1>3, HasAppend DEF NoNewReport
<1>4. CASE mailbox' = mailbox
  BY <1>4 DEF NoNewReport
<1> QED BY <1>2, <1>3, <1>4

\* The end of a process adds no report.
LEMMA DownNoReport ==
  ASSUME TypeOK, NEW p \in Pid, Down(p)
  PROVE  NoNewReport
<1> QED BY AppendNoReport, Messages, NoReports DEF Down

\* Jobs that end, or go on for the same or for nobody.
LEMMA CheckingKept ==
  ASSUME NEW k \in Jobs, NEW j, j = None \/ j.by \in {jobs[k].by, "nobody"},
         TypeOK, k \in Running, jobs' = [jobs EXCEPT ![k] = j]
  PROVE  Checking' \subseteq Checking
<1>1. ASSUME NEW l \in Checking' PROVE l \in Checking
  <2>1. l \in Jobs /\ jobs'[l] # None /\ jobs'[l].by = "check"
    BY <1>1 DEF Checking, Running
  <2>2. CASE l = k
    BY <2>1, <2>2 DEF Checking, TypeOK
  <2>3. CASE l # k
    BY <2>1, <2>3 DEF Checking, Running, TypeOK
  <2> QED BY <2>2, <2>3
<1> QED BY <1>1

\* What the end of a task, an error and a next stage do to the checks.
LEMMA JobKeepsCheck ==
  ASSUME TypeOK, OneReport, NEW k \in Running, NEW stage,
         Finish(k) \/ NotFound(k) \/ Goto(k, stage)
  PROVE  /\ Checking' \subseteq Checking
         /\ lifecycle_task # None => lifecycle_task' # None
<1>0. k \in Jobs /\ jobs[k] \in Job /\ jobs[k].pid[1] \in Ids
  BY RunningJob, JobTypes
<1>1. ASSUME Finish(k)
      PROVE  /\ Checking' \subseteq Checking
             /\ lifecycle_task # None => lifecycle_task' # None
  <2>1. lifecycle_task # None => lifecycle_task \cup {jobs[k].pid[1]} \in SUBSET Ids
    BY <1>0 DEF TypeOK
  <2> QED BY <1>0, <1>1, <2>1, CheckingKept, NoneAssumption DEF Finish
<1>2. ASSUME NotFound(k)
      PROVE  /\ Checking' \subseteq Checking
             /\ lifecycle_task # None => lifecycle_task' # None
  <2>1. CASE jobs[k].by = "nobody"
    BY <1>0, <1>2, <2>1, CheckingKept DEF NotFound
  <2>2. CASE jobs[k].by # "nobody"
    BY <1>1, <1>2, <2>2 DEF NotFound
  <2> QED BY <2>1, <2>2
<1>3. ASSUME Goto(k, stage)
      PROVE  /\ Checking' \subseteq Checking
             /\ lifecycle_task # None => lifecycle_task' # None
  <2>1. jobs' = [jobs EXCEPT ![k] = [jobs[k] EXCEPT !.stage = stage]]
    BY <1>3 DEF Goto
  <2>2. [jobs[k] EXCEPT !.stage = stage].by = jobs[k].by
    BY <1>0 DEF Job
  <2>3. Checking' \subseteq Checking
    BY <1>0, <2>1, <2>2, CheckingKept
  <2> QED BY <1>3, <2>3 DEF Goto
<1> QED BY <1>1, <1>2, <1>3

\* Killed jobs are nobody's.
LEMMA KilledKeepsCheck ==
  ASSUME TypeOK
  PROVE  /\ EndTasks => Checking' = {}
         /\ \A k \in Jobs : Killed(jobs[k]) = None \/ Killed(jobs[k]).by = "nobody"
<1>1. \A k \in Jobs : Killed(jobs[k]) = None \/ Killed(jobs[k]).by = "nobody"
  <2> SUFFICES ASSUME NEW k \in Jobs, Killed(jobs[k]) # None PROVE Killed(jobs[k]).by = "nobody"
    OBVIOUS
  <2>1. k \in Running /\ jobs[k] \in Job
    BY RunningJob DEF Killed, Running
  <2>2. [jobs[k] EXCEPT !.by = "nobody"].by = "nobody"
    BY <2>1 DEF Job
  <2> QED BY <2>2 DEF Killed
<1>2. ASSUME EndTasks PROVE Checking' = {}
  BY <1>1, <1>2 DEF EndTasks, Checking, Running
<1> QED BY <1>1, <1>2

\* A callback of the manager takes a report with it, and starts a check when
\* none runs only.
LEMMA HandleReport ==
  ASSUME TypeOK, OneReport, [Next]_vars, Handle
  PROVE  OneReport'
<1>0. ASSUME NEW m, Receive(m), mailbox' = Tail(mailbox)
      PROVE  /\ NoNewReport
             /\ m \in ReportMsg => ~Has(mailbox', ReportMsg) /\ Once(mailbox', ReportMsg)
                                   /\ Has(mailbox, ReportMsg)
  <2>1. /\ mailbox # <<>> /\ mailbox \in Seq(Message) /\ Head(mailbox) = m
    BY <1>0, Received
  <2>2. Head(mailbox) = mailbox[1] /\ 1 \in 1..Len(mailbox)
    BY <2>1
  <2> QED BY <1>0, <2>1, <2>2, HasTail DEF NoNewReport, OneReport, Has
<1>01. ASSUME NEW ids, mailbox' = Untracked(Tail(mailbox), ids), NEW m, Receive(m)
       PROVE  /\ NoNewReport
              /\ m \in ReportMsg => ~Has(mailbox', ReportMsg) /\ Once(mailbox', ReportMsg)
                                    /\ Has(mailbox, ReportMsg)
  <2> DEFINE t == Tail(mailbox)
  <2>1. /\ mailbox # <<>> /\ mailbox \in Seq(Message) /\ Head(mailbox) = m
        /\ t \in Seq(Message)
    BY <1>01, Received
  <2>2. Head(mailbox) = mailbox[1] /\ 1 \in 1..Len(mailbox)
    BY <2>1
  <2>3. /\ Once(mailbox, ReportMsg) => Once(t, ReportMsg)
        /\ Has(t, ReportMsg) => Has(mailbox, ReportMsg)
        /\ m \in ReportMsg => ~Has(t, ReportMsg) /\ Has(mailbox, ReportMsg)
    BY <2>1, <2>2, HasTail DEF OneReport, Has
  <2> HIDE DEF t
  <2>4. /\ Once(t, ReportMsg) => Once(Untracked(t, ids), ReportMsg)
        /\ Has(Untracked(t, ids), ReportMsg) => Has(t, ReportMsg)
    BY <2>1, HasUntracked
  <2>5. mailbox' = Untracked(t, ids)
    BY <1>01 DEF t
  <2> QED BY <2>3, <2>4, <2>5 DEF NoNewReport, OneReport
<1>1. ASSUME NEW p \in Pid, Track(p) PROVE OneReport'
  <2> DEFINE t == Tail(mailbox)
  <2>1. Receive(PidMsg("track", p))
    BY <1>1 DEF Track
  <2>2. t \in Seq(Message) /\ mailbox \in Seq(Message) /\ mailbox # <<>>
        /\ PidMsg("DOWN", p) \in Message /\ PidMsg("DOWN", p) \notin ReportMsg
    BY <2>1, Received, Messages, NoReports
  <2>3. /\ Once(mailbox, ReportMsg) => Once(t, ReportMsg)
        /\ Has(t, ReportMsg) => Has(mailbox, ReportMsg)
    BY <2>2, HasTail
  <2> HIDE DEF t
  <2>4. mailbox' = t \/ mailbox' = Append(t, PidMsg("DOWN", p))
    BY <1>1 DEF Track, Monitor, t
  <2>5. NoNewReport
    <3>1. CASE mailbox' = t
      BY <2>3, <3>1 DEF NoNewReport
    <3>2. CASE mailbox' = Append(t, PidMsg("DOWN", p))
      BY <2>2, <2>3, <3>2, HasAppend DEF NoNewReport
    <3> QED BY <2>4, <3>1, <3>2
  <2> QED BY <1>1, <2>5, OneReportKept DEF Track, Checking, Running
<1>2. ASSUME NEW p \in Pid, WorkerDown(p) PROVE OneReport'
  <2>1. NoNewReport
    BY <1>0, <1>2 DEF WorkerDown
  <2> QED BY <1>2, <2>1, OneReportKept DEF WorkerDown, Checking, Running
<1>3. ASSUME NEW i \in Ids, IncrementRequests(i) PROVE OneReport'
  <2> DEFINE t == Tail(mailbox)
  <2>1. Receive(IdMsg("increment_requests", i))
    BY <1>3 DEF IncrementRequests
  <2>2. t \in Seq(Message) /\ mailbox \in Seq(Message) /\ mailbox # <<>>
        /\ IdMsg("recycle_worker", i) \in Message /\ IdMsg("recycle_worker", i) \notin ReportMsg
    BY <2>1, Received, Messages, NoReports
  <2>3. /\ Once(mailbox, ReportMsg) => Once(t, ReportMsg)
        /\ Has(t, ReportMsg) => Has(mailbox, ReportMsg)
    BY <2>2, HasTail
  <2> HIDE DEF t
  <2>4. mailbox' = t \/ mailbox' = Append(t, IdMsg("recycle_worker", i))
    BY <1>3 DEF IncrementRequests, t
  <2>5. NoNewReport
    <3>1. CASE mailbox' = t
      BY <2>3, <3>1 DEF NoNewReport
    <3>2. CASE mailbox' = Append(t, IdMsg("recycle_worker", i))
      BY <2>2, <2>3, <3>2, HasAppend DEF NoNewReport
    <3> QED BY <2>4, <3>1, <3>2
  <2> QED BY <1>3, <2>5, OneReportKept DEF IncrementRequests, Checking, Running
<1>4. ASSUME NEW i \in Ids, RecycleWorker(i) PROVE OneReport'
  <2>1. NoNewReport
    BY <1>0, <1>01, <1>4 DEF RecycleWorker
  <2>2. Checking' \subseteq Checking
    <3>1. \A p : NewJob("recycle", p).by = "recycle"
      BY DEF NewJob
    <3>2. \A k \in Jobs : jobs'[k] = jobs[k] \/ jobs'[k].by = "recycle"
      BY <1>4, <3>1 DEF RecycleWorker, TypeOK
    <3> QED BY <3>2 DEF Checking, Running
  <2> QED BY <1>4, <2>1, <2>2, OneReportKept DEF RecycleWorker
<1>5. ASSUME LifecycleCheck PROVE OneReport'
  <2>1. NoNewReport
    BY <1>0, <1>5 DEF LifecycleCheck
  <2>2. CASE lifecycle_task # None
    BY <1>5, <2>1, <2>2, OneReportKept DEF LifecycleCheck, Checking, Running
  <2>3. CASE lifecycle_task = None
    <3>1. ~Has(mailbox, ReportMsg) /\ lifecycle_task' = {}
      BY <1>5, <2>3 DEF OneReport, LifecycleCheck
    <3>2. lifecycle_task' # None
      BY <3>1, NoneAssumption
    <3>3. ReportMsg' = ReportMsg
      BY DEF ReportMsg, Message, Pid
    <3>4. ~Has(mailbox', ReportMsg)
      BY <2>1, <3>1 DEF NoNewReport
    <3> QED BY <2>1, <3>2, <3>3, <3>4 DEF OneReport, NoNewReport, Has, Once
  <2> QED BY <2>2, <2>3
<1>6. ASSUME NEW m \in ReportMsg, Receive(m), lifecycle_task' = None, UNCHANGED jobs,
             mailbox' = Tail(mailbox) \/ \E ids : mailbox' = Untracked(Tail(mailbox), ids)
      PROVE  OneReport'
  <2>1. ~Has(mailbox', ReportMsg) /\ Once(mailbox', ReportMsg) /\ Has(mailbox, ReportMsg)
    BY <1>0, <1>01, <1>6
  <2>2. Checking' = {}
    BY <1>6, <2>1 DEF OneReport, Checking, Running
  <2>3. ReportMsg' = ReportMsg
    BY DEF ReportMsg, Message, Pid
  <2> QED BY <2>1, <2>2, <2>3 DEF OneReport, Has, Once
<1>7. ASSUME NEW ids \in SUBSET Ids, CheckComplete(ids) PROVE OneReport'
  BY <1>6, <1>7, NoReports DEF CheckComplete
<1>8. ASSUME CheckDown PROVE OneReport'
  BY <1>6, <1>8, NoReports DEF CheckDown
<1> QED BY <1>1, <1>2, <1>3, <1>4, <1>5, <1>7, <1>8 DEF Handle

\* Every other step.
LEMMA OneReportStep ==
  ASSUME TypeOK, OneReport, [Next]_vars
  PROVE  OneReport'
<1>0. UNCHANGED mailbox => NoNewReport
  BY DEF NoNewReport
<1>1. CASE Handle
  BY <1>1, HandleReport
<1>2. ASSUME NEW k \in Jobs, Step(k) PROVE OneReport'
  <2>0. k \in Running
    BY <1>2 DEF Step, StopWorker, TerminateChild, StartChild, StartFails, ResolvePid,
               TrackReplacement, Task, AtStage
  <2>00. jobs[k] \in Job /\ jobs[k].new \in Pid /\ jobs[k].pid[1] \in Ids
    BY <2>0, RunningJob, JobTypes
  <2>1. CASE StopWorker(k)
    BY <1>0, <2>0, <2>1, JobKeepsCheck, OneReportKept DEF StopWorker
  <2>2. CASE TerminateChild(k)
    <3>1. NoNewReport
      <4>1. <<jobs[k].pid[1], boot[jobs[k].pid[1]]>> \in Pid
        BY <2>00 DEF TypeOK, Pid
      <4> QED BY <1>0, <2>2, <4>1, DownNoReport DEF TerminateChild
    <3>2. /\ Checking' \subseteq Checking
          /\ lifecycle_task # None => lifecycle_task' # None
      <4>1. CASE starter[jobs[k].pid[1]] /\ jobs[k].by = "nobody"
        BY <2>0, <2>2, <4>1, CheckingKept DEF TerminateChild
      <4>2. CASE ~(starter[jobs[k].pid[1]] /\ jobs[k].by = "nobody")
        BY <2>0, <2>2, <4>2, JobKeepsCheck DEF TerminateChild
      <4> QED BY <4>1, <4>2
    <3> QED BY <3>1, <3>2, OneReportKept
  <2>3. CASE StartChild(k)
    <3>1. PICK j : /\ jobs' = [jobs EXCEPT ![k] = j]
                   /\ \/ j = None
                      \/ \E p : j = [jobs[k] EXCEPT !.stage = "resolve", !.new = p]
      BY <2>3 DEF StartChild
    <3>2. j = None \/ j.by = jobs[k].by
      BY <2>00, <3>1 DEF Job
    <3>3. Checking' \subseteq Checking
      BY <2>0, <3>1, <3>2, CheckingKept
    <3> QED BY <1>0, <2>3, <3>3, OneReportKept DEF StartChild
  <2>4. CASE StartFails(k)
    BY <1>0, <2>0, <2>4, JobKeepsCheck, OneReportKept DEF StartFails
  <2>5. CASE ResolvePid(k)
    <3> DEFINE i == jobs[k].new[1]
    <3>1. CASE child[i] # "none"
      <4>1. jobs' = [jobs EXCEPT ![k] = [jobs[k] EXCEPT !.stage = "track", !.new = <<i, boot[i]>>]]
        BY <2>5, <3>1 DEF ResolvePid, TypeOK
      <4>2. [jobs[k] EXCEPT !.stage = "track", !.new = <<i, boot[i]>>].by = jobs[k].by
        BY <2>00 DEF Job
      <4>3. Checking' \subseteq Checking
        BY <2>0, <4>1, <4>2, CheckingKept
      <4> QED BY <1>0, <2>5, <3>1, <4>3, OneReportKept DEF ResolvePid
    <3>2. CASE child[i] = "none"
      BY <1>0, <2>0, <2>5, <3>2, JobKeepsCheck, OneReportKept DEF ResolvePid
    <3> QED BY <3>1, <3>2
  <2>6. CASE TrackReplacement(k)
    <3>1. NoNewReport
      BY <2>00, <2>6, Messages, NoReports, AppendNoReport DEF TrackReplacement
    <3> QED BY <2>0, <2>6, <3>1, JobKeepsCheck, OneReportKept DEF TrackReplacement
  <2> QED BY <1>2, <2>1, <2>2, <2>3, <2>4, <2>5, <2>6 DEF Step
<1>3. ASSUME NEW k \in Jobs, ActionTimeout(k) \/ SignalArrives(k) PROVE OneReport'
  <2>1. k \in Running
    BY <1>3 DEF ActionTimeout, SignalArrives, Checking
  <2>2. Checking' \subseteq Checking
    BY <1>3, <2>1, KilledKeepsCheck, CheckingKept DEF ActionTimeout, SignalArrives
  <2> QED BY <1>0, <1>3, <2>2, OneReportKept DEF ActionTimeout, SignalArrives
<1>4. CASE CheckEnds
  <2>1. /\ lifecycle_task \in SUBSET Ids /\ lifecycle_task # None /\ Checking = {}
        /\ ~Has(mailbox, ReportMsg) /\ mailbox \in Seq(Message)
    BY <1>4, ReportedHas DEF CheckEnds, TypeOK
  <2>2. [type |-> "check_complete", ids |-> lifecycle_task] \in Message
    BY <2>1, Messages
  <2>3. Once(mailbox', ReportMsg)
    BY <1>4, <2>1, <2>2, HasAppend DEF CheckEnds, OneReport
  <2>4. ReportMsg' = ReportMsg
    BY DEF ReportMsg, Message, Pid
  <2> QED BY <1>4, <2>1, <2>3, <2>4 DEF CheckEnds, OneReport, Checking, Running, Has, Once
<1>5. CASE TasksKilled
  <2>1. Checking' = {} /\ lifecycle_task' = lifecycle_task /\ mailbox \in Seq(Message)
    BY <1>5, KilledKeepsCheck DEF TasksKilled, TypeOK
  <2>2. CASE lifecycle_task # None /\ ~Reported
    <3>1. mailbox' = Append(mailbox, Plain("check_down"))
      BY <1>5, <2>2 DEF TasksKilled
    <3>2. Once(mailbox', ReportMsg)
      BY <2>1, <2>2, <3>1, HasAppend, Messages, ReportedHas DEF OneReport
    <3>3. ReportMsg' = ReportMsg
      BY DEF ReportMsg, Message, Pid
    <3> QED BY <2>1, <2>2, <3>2, <3>3 DEF OneReport, Has, Once
  <2>3. CASE ~(lifecycle_task # None /\ ~Reported)
    BY <1>0, <1>5, <2>1, <2>3, OneReportKept DEF TasksKilled
  <2> QED BY <2>2, <2>3
<1>6. CASE Terminate \/ KilledManager
  <2>1. manager' # "up" /\ mailbox' = <<>>
    BY <1>6 DEF Terminate, KilledManager, Ended
  <2> QED BY <2>1 DEF OneReport, Has, Once
<1>7. CASE TimerFires
  <2>1. NoNewReport
    BY <1>7, Messages, NoReports, AppendNoReport DEF TimerFires
  <2> QED BY <1>7, <2>1, OneReportKept DEF TimerFires, Checking, Running
<1>8. ASSUME NEW i \in Ids, Ready(i) PROVE OneReport'
  <2>1. <<i, boot[i]>> \in Pid
    BY DEF TypeOK, Pid
  <2>2. NoNewReport
    BY <1>8, <2>1, Messages, NoReports, AppendNoReport DEF Ready
  <2> QED BY <1>8, <2>2, OneReportKept DEF Ready, Checking, Running
<1>9. ASSUME NEW i \in Ids, Crash(i) \/ Exit(i) PROVE OneReport'
  <2>1. <<i, boot[i]>> \in Pid
    BY DEF TypeOK, Pid
  <2>2. NoNewReport
    BY <1>9, <2>1, DownNoReport DEF Crash, Exit
  <2> QED BY <1>9, <2>2, OneReportKept DEF Crash, Exit, Checking, Running
<1>10. ASSUME NEW i \in Ids, Served(i) \/ AskRecycle(i) PROVE OneReport'
  <2>1. NoNewReport
    BY <1>10, Messages, NoReports, AppendNoReport DEF Served, AskRecycle
  <2> QED BY <1>10, <2>1, OneReportKept DEF Served, AskRecycle, Checking, Running
<1>11. CASE UNCHANGED vars
  BY <1>0, <1>11, OneReportKept DEF vars, Checking, Running
<1> QED BY <1>1, <1>2, <1>3, <1>4, <1>5, <1>6, <1>7, <1>8, <1>9, <1>10, <1>11 DEF Next

\* The workers are tracked before anything is sent.
LEMMA InitTypes ==
  ASSUME Init
  PROVE  TypeOK /\ OneReport
<1>1. [boot |-> 1, request_count |-> 0] \in Tracked
  BY Constants DEF Tracked
<1>2. TypeOK
  <2>1. workers \in [Ids -> Tracked \cup {None}]
    BY <1>1 DEF Init
  <2>2. mailbox \in Seq(Message) /\ jobs \in [Jobs -> Job \cup {None}]
    BY DEF Init
  <2>3. /\ starter \in [Ids -> BOOLEAN] /\ child \in [Ids -> {"none", "booting", "up"}]
        /\ boot \in [Ids -> Boots]
    BY Constants DEF Init
  <2>4. /\ manager \in {"up", "stopped", "killed"} /\ check_timer \in BOOLEAN
        /\ lifecycle_task \in (SUBSET Ids) \cup {None}
        /\ cut \in BOOLEAN /\ stale \in BOOLEAN
    BY DEF Init
  <2>5. faults \in 0..MaxFaults
    BY Constants DEF Init
  <2> QED BY <2>1, <2>2, <2>3, <2>4, <2>5 DEF TypeOK
<1>3. Checking = {}
  BY DEF Init, Checking, Running
<1> QED BY <1>2, <1>3 DEF Init, OneReport, Once, Has

\* Values of the variables, and one report of a check at a time.
THEOREM TypeCorrect == Spec => [](TypeOK /\ OneReport)
<1>1. Init => TypeOK /\ OneReport
  BY InitTypes
<1>2. TypeOK /\ OneReport /\ [Next]_vars => (TypeOK /\ OneReport)'
  BY TypeStep, OneReportStep
<1> QED BY <1>1, <1>2, PTL DEF Spec

----------------------------------------------------------------------------
(* What a step does to a job.                                              *)

\* A job goes from a stage to the next, ends, is killed, or starts.
JobMove(j, n) ==
  /\ j # None /\ n # None /\ n.pid = j.pid
  /\ \/ /\ n.by = "nobody" /\ n.stage = j.stage
        /\ j.stage \in {"terminating", "starting"}
     \/ /\ j.by # "nobody" /\ n.by = j.by
        /\ \/ j.stage = "lookup" /\ n.stage = "terminating"
           \/ j.stage = "lookup" /\ n.stage = "starting" /\ ~Alive(j.pid) /\ UNCHANGED fleet
           \/ j.stage = "terminating" /\ n.stage = "starting" /\ child'[j.pid[1]] = "none"
           \/ j.stage = "starting" /\ n.stage = "resolve"
           \/ j.stage = "resolve" /\ n.stage = "track"

JobStep(k) ==
  \/ jobs'[k] = jobs[k]
  \/ jobs'[k] = None
  \/ /\ jobs[k] = None /\ manager = "up"
     /\ \E p \in Pid : jobs'[k] \in {NewJob("check", p), NewJob("recycle", p)}
  \/ JobMove(jobs[k], jobs'[k])

\* A killed job.
LEMMA KilledMoves ==
  ASSUME TypeOK, NEW k \in Jobs, jobs'[k] = Killed(jobs[k])
  PROVE  JobStep(k)
<1>1. CASE Killed(jobs[k]) = None
  BY <1>1 DEF JobStep
<1>2. CASE Killed(jobs[k]) # None
  <2>1. /\ jobs[k] \in Job /\ jobs[k] # None /\ jobs[k].stage \in {"terminating", "starting"}
        /\ jobs'[k] = [jobs[k] EXCEPT !.by = "nobody"]
    BY <1>2, RunningJob DEF Killed, Running
  <2>2. /\ jobs'[k].by = "nobody" /\ jobs'[k].stage = jobs[k].stage
        /\ jobs'[k].pid = jobs[k].pid /\ jobs'[k] # None
    BY <1>2, <2>1 DEF Job
  <2> QED BY <2>1, <2>2 DEF JobStep, JobMove
<1> QED BY <1>1, <1>2

\* A job that is set to its next stage is a job.
LEMMA Staged ==
  ASSUME NEW j \in Job, NEW stage
  PROVE  /\ [j EXCEPT !.stage = stage].pid = j.pid
         /\ [j EXCEPT !.stage = stage].by = j.by
         /\ [j EXCEPT !.stage = stage].stage = stage
         /\ \A p : /\ [j EXCEPT !.stage = stage, !.new = p].pid = j.pid
                   /\ [j EXCEPT !.stage = stage, !.new = p].by = j.by
                   /\ [j EXCEPT !.stage = stage, !.new = p].stage = stage
<1> QED BY DEF Job

\* The number that a recycle gets is free.
LEMMA FirstFreeIsFree ==
  ASSUME Free # {}
  PROVE  FirstFree \in Free
<1>1. Free \subseteq Nat
  BY LifecycleAssumption DEF Free
<1>2. \E k \in Free : \A l \in Free : k <= l
  BY <1>1, LeastNat
<1> QED BY <1>2 DEF FirstFree

\* Of every other job a step on job k leaves everything as it is.
LEMMA OtherJobs ==
  ASSUME TypeOK, NEW k \in Jobs, NEW j, jobs' = [jobs EXCEPT ![k] = j], NEW l \in Jobs
  PROVE  jobs'[l] = IF l = k THEN j ELSE jobs[l]
<1> QED BY DEF TypeOK

\* The stages of a job.
LEMMA StepMoves ==
  ASSUME TypeOK, NEW k \in Jobs, Step(k), NEW l \in Jobs
  PROVE  JobStep(l)
<1>0. k \in Running /\ jobs[k] \in Job /\ jobs[k] # None /\ jobs[k].pid[1] \in Ids
  <2>1. k \in Running
    BY DEF Step, StopWorker, TerminateChild, StartChild, StartFails, ResolvePid,
           TrackReplacement, Task, AtStage
  <2> QED BY <2>1, RunningJob, JobTypes
<1>1. ASSUME Finish(k) \/ NotFound(k) PROVE JobStep(l)
  BY <1>1, OtherJobs DEF Finish, NotFound, JobStep
<1>2. ASSUME NEW stage \in {"terminating", "starting"}, Goto(k, stage),
             jobs[k].by # "nobody",
             \/ jobs[k].stage = "lookup" /\ stage = "terminating"
             \/ jobs[k].stage = "lookup" /\ stage = "starting"
                /\ ~Alive(jobs[k].pid) /\ UNCHANGED fleet
             \/ jobs[k].stage = "terminating" /\ stage = "starting"
                /\ child'[jobs[k].pid[1]] = "none"
      PROVE  JobStep(l)
  <2>1. jobs' = [jobs EXCEPT ![k] = [jobs[k] EXCEPT !.stage = stage]]
    BY <1>2 DEF Goto
  <2>2. [jobs[k] EXCEPT !.stage = stage] \in Job
    BY <1>0, <1>2, JobTypes
  <2>3. CASE l = k
    <3>1. /\ jobs'[k].pid = jobs[k].pid /\ jobs'[k].by = jobs[k].by
          /\ jobs'[k].stage = stage /\ jobs'[k] # None
      <4>1. jobs'[k] = [jobs[k] EXCEPT !.stage = stage]
        BY <2>1 DEF TypeOK
      <4> QED BY <1>0, <2>2, <4>1, Staged, NoneAssumption
    <3> QED BY <1>0, <1>2, <2>3, <3>1 DEF JobStep, JobMove
  <2>4. CASE l # k
    BY <2>1, <2>4, OtherJobs DEF JobStep
  <2> QED BY <2>3, <2>4
<1>3. CASE StopWorker(k)
  BY <1>2, <1>3 DEF StopWorker, Task, AtStage
<1>4. CASE TerminateChild(k)
  <2>1. CASE starter[jobs[k].pid[1]] /\ jobs[k].by = "nobody"
    BY <1>4, <2>1, OtherJobs DEF TerminateChild, JobStep
  <2>2. CASE starter[jobs[k].pid[1]] /\ jobs[k].by # "nobody"
    <3>1. Goto(k, "starting") /\ jobs[k].stage = "terminating"
      BY <1>4, <2>2 DEF TerminateChild, AtStage
    <3>2. child'[jobs[k].pid[1]] = "none"
      BY <1>0, <1>4, <2>2 DEF TerminateChild, TypeOK
    <3> QED BY <1>2, <2>2, <3>1, <3>2
  <2>3. CASE ~starter[jobs[k].pid[1]]
    BY <1>1, <1>4, <2>3 DEF TerminateChild
  <2> QED BY <2>1, <2>2, <2>3
<1>5. CASE StartChild(k)
  <2>1. CASE jobs[k].by = "nobody"
    BY <1>5, <2>1, OtherJobs DEF StartChild, JobStep
  <2>2. CASE jobs[k].by # "nobody"
    <3>1. PICK i \in Ids :
            jobs' = [jobs EXCEPT ![k] = [jobs[k] EXCEPT !.stage = "resolve", !.new = <<i, 1>>]]
      BY <1>5, <2>2 DEF StartChild
    <3>2. <<i, 1>> \in Pid
      BY Constants DEF Pid
    <3>3. [jobs[k] EXCEPT !.stage = "resolve", !.new = <<i, 1>>] \in Job
      BY <1>0, <3>2, JobTypes
    <3>4. CASE l = k
      <4>1. /\ jobs'[k].pid = jobs[k].pid /\ jobs'[k].by = jobs[k].by
            /\ jobs'[k].stage = "resolve" /\ jobs'[k] # None /\ jobs[k].stage = "starting"
        <5>1. jobs'[k] = [jobs[k] EXCEPT !.stage = "resolve", !.new = <<i, 1>>]
          BY <3>1 DEF TypeOK
        <5>2. jobs[k].stage = "starting"
          BY <1>5 DEF StartChild, AtStage
        <5> QED BY <1>0, <3>3, <5>1, <5>2, Staged, NoneAssumption
      <4> QED BY <1>0, <2>2, <3>4, <4>1 DEF JobStep, JobMove
    <3>5. CASE l # k
      BY <3>1, <3>5, OtherJobs DEF JobStep
    <3> QED BY <3>4, <3>5
  <2> QED BY <2>1, <2>2
<1>6. CASE StartFails(k)
  BY <1>1, <1>6 DEF StartFails
<1>7. CASE ResolvePid(k)
  <2> DEFINE i == jobs[k].new[1]
             n == [jobs[k] EXCEPT !.stage = "track", !.new = <<i, boot[i]>>]
  <2>1. CASE child[i] # "none"
    <3>1. jobs' = [jobs EXCEPT ![k] = n]
      BY <1>7, <2>1 DEF ResolvePid, TypeOK
    <3>2. <<i, boot[i]>> \in Pid
      BY <1>0, JobTypes DEF TypeOK, Pid
    <3>3. n \in Job
      BY <1>0, <3>2, JobTypes
    <3>4. n.pid = jobs[k].pid /\ n.by = jobs[k].by /\ n.stage = "track"
      BY <1>0, Staged
    <3> HIDE DEF n
    <3>5. CASE l = k
      <4>1. jobs'[k] = n /\ n # None
        BY <3>1, <3>3, NoneAssumption DEF TypeOK
      <4>2. jobs[k].stage = "resolve" /\ jobs[k].by # "nobody"
        BY <1>7 DEF ResolvePid, Task, AtStage
      <4> QED BY <1>0, <3>4, <3>5, <4>1, <4>2 DEF JobStep, JobMove
    <3>6. CASE l # k
      BY <3>1, <3>6, OtherJobs DEF JobStep
    <3> QED BY <3>5, <3>6
  <2>2. CASE child[i] = "none"
    BY <1>1, <1>7, <2>2 DEF ResolvePid
  <2> QED BY <2>1, <2>2
<1>8. CASE TrackReplacement(k)
  BY <1>1, <1>8 DEF TrackReplacement
<1> QED BY <1>3, <1>4, <1>5, <1>6, <1>7, <1>8 DEF Step

\* Every step moves a job along its stages, or starts one for a manager that is
\* up.
LEMMA JobSteps ==
  ASSUME TypeOK, [Next]_vars, NEW l \in Jobs
  PROVE  JobStep(l)
<1>0. UNCHANGED jobs => JobStep(l)
  BY DEF JobStep
<1>1. ASSUME NEW i \in Ids, RecycleWorker(i) PROVE JobStep(l)
  <2>1. CASE workers[i] = None
    BY <1>0, <1>1, <2>1 DEF RecycleWorker
  <2>2. CASE workers[i] # None
    <3>1. FirstFree \in Free /\ jobs' = [jobs EXCEPT ![FirstFree] = NewJob("recycle", PidOf(i))]
      BY <1>1, <2>2, FirstFreeIsFree DEF RecycleWorker
    <3>2. FirstFree \in Jobs /\ jobs[FirstFree] = None
      BY <3>1 DEF Free, Running
    <3>3. PidOf(i) \in Pid
      BY <2>2, TrackedPid DEF TrackedIds
    <3>4. manager = "up"
      BY <1>1 DEF RecycleWorker, Receive
    <3> HIDE DEF FirstFree
    <3> QED BY <3>1, <3>2, <3>3, <3>4, OtherJobs DEF JobStep
  <2> QED BY <2>1, <2>2
<1>2. CASE LifecycleCheck
  <2>1. manager = "up"
    BY <1>2 DEF LifecycleCheck, Receive
  <2>2. \A i \in TrackedIds : PidOf(i) \in Pid
    BY TrackedPid
  <2> QED BY <1>2, <2>1, <2>2, CheckJobs DEF JobStep
<1>3. CASE Handle
  <2>1. \/ UNCHANGED jobs
        \/ \E i \in Ids : RecycleWorker(i)
        \/ LifecycleCheck
    BY <1>3 DEF Handle, Track, WorkerDown, IncrementRequests, CheckComplete, CheckDown
  <2> QED BY <1>0, <1>1, <1>2, <2>1
<1>4. ASSUME NEW k \in Jobs, Step(k) \/ ActionTimeout(k) \/ SignalArrives(k) PROVE JobStep(l)
  <2>1. CASE ActionTimeout(k) \/ SignalArrives(k)
    <3>1. jobs'[l] = IF l = k THEN Killed(jobs[l]) ELSE jobs[l]
      BY <2>1, OtherJobs DEF ActionTimeout, SignalArrives
    <3> QED BY <3>1, KilledMoves DEF JobStep
  <2> QED BY <1>4, <2>1, StepMoves
<1>5. CASE TasksKilled
  <2>1. jobs'[l] = Killed(jobs[l])
    BY <1>5 DEF TasksKilled, EndTasks
  <2> QED BY <2>1, KilledMoves
<1>6. CASE \/ CheckEnds \/ TimerFires \/ Terminate \/ KilledManager
           \/ \E i \in Ids : Ready(i) \/ Crash(i) \/ Exit(i) \/ Served(i) \/ AskRecycle(i)
  BY <1>0, <1>6 DEF CheckEnds, TimerFires, Terminate, KilledManager, Ended, Ready, Crash, Exit,
                    Served, AskRecycle
<1>7. CASE UNCHANGED vars
  BY <1>0, <1>7 DEF vars
<1> QED BY <1>3, <1>4, <1>5, <1>6, <1>7 DEF Next

----------------------------------------------------------------------------
(* A worker is dead before it is replaced.                                 *)

\* A process that comes to life is one that nothing names: no entry of the
\* table, no job and no message has its pid.
LEMMA RevivedIsNew ==
  ASSUME TypeOK, [Next]_vars, NEW p \in Pid, ~Alive(p), Alive(p)'
  PROVE  ~Named(p)
<1> USE DEF fleet, history
<1>0. p = <<p[1], p[2]>> /\ p[1] \in Ids /\ p[2] \in Boots
  BY DEF Pid
<1>1. CASE UNCHANGED <<child, boot>>
  BY <1>1 DEF Alive
<1>2. ASSUME NEW k \in Jobs, StartChild(k) PROVE ~Named(p)
  <2>1. PICK i \in Ids : /\ Fresh(i)
                         /\ child' = [child EXCEPT ![i] = "booting"]
                         /\ boot' = [boot EXCEPT ![i] = 1]
    BY <1>2 DEF StartChild
  <2>2. p[1] = i
    BY <1>0, <2>1 DEF Alive, TypeOK
  <2> QED BY <1>0, <2>1, <2>2 DEF Fresh
<1>3. ASSUME NEW i \in Ids, Crash(i) PROVE ~Named(p)
  <2>1. PICK b \in Boots : /\ ~Named(<<i, b>>)
                           /\ boot' = [boot EXCEPT ![i] = b]
                           /\ child' = [child EXCEPT ![i] = "booting"]
    BY <1>3 DEF Crash
  <2>2. p[1] = i /\ p[2] = b
    BY <1>0, <2>1 DEF Alive, TypeOK
  <2> QED BY <1>0, <2>1, <2>2
<1>4. ASSUME NEW k \in Jobs, TerminateChild(k) PROVE FALSE
  <2>1. boot' = boot /\ jobs[k].pid[1] \in Ids
    BY <1>4, RunningJob, JobTypes DEF TerminateChild, AtStage
  <2>2. child' = child \/ child' = [child EXCEPT ![jobs[k].pid[1]] = "none"]
    BY <1>4 DEF TerminateChild
  <2> QED BY <1>0, <2>1, <2>2 DEF Alive, TypeOK
<1>5. ASSUME NEW i \in Ids, Ready(i) \/ Exit(i) PROVE FALSE
  BY <1>0, <1>5 DEF Ready, Exit, Alive, TypeOK
<1>6. ASSUME NEW k \in Jobs, Step(k) \/ ActionTimeout(k) \/ SignalArrives(k),
             ~StartChild(k), ~TerminateChild(k)
      PROVE  UNCHANGED <<child, boot>>
  BY <1>6 DEF Step, StopWorker, StartFails, ResolvePid, TrackReplacement, ActionTimeout,
              SignalArrives
<1>7. CASE Handle
  <2>1. UNCHANGED <<child, boot>>
    BY <1>7 DEF Handle, Track, WorkerDown, IncrementRequests, RecycleWorker, LifecycleCheck,
                CheckComplete, CheckDown
  <2> QED BY <1>1, <2>1
<1>8. CASE \/ CheckEnds \/ TasksKilled \/ Terminate \/ KilledManager \/ TimerFires
           \/ UNCHANGED vars
           \/ \E i \in Ids : Served(i) \/ AskRecycle(i)
  <2>1. UNCHANGED <<child, boot>>
    BY <1>8 DEF CheckEnds, TasksKilled, Terminate, KilledManager, Ended, TimerFires, Served,
                AskRecycle, vars
  <2> QED BY <1>1, <2>1
<1> QED BY <1>1, <1>2, <1>3, <1>4, <1>5, <1>6, <1>7, <1>8 DEF Next

\* A replacement is only asked for once the process it replaces is dead, and
\* that process does not come back: its pid is named by the job.
LEMMA StoppedStep ==
  ASSUME TypeOK, StoppedBeforeReplaced, [Next]_vars
  PROVE  StoppedBeforeReplaced'
<1> SUFFICES ASSUME NEW k \in Jobs, jobs'[k] # None,
                    jobs'[k].stage \in {"starting", "resolve", "track"}
             PROVE  ~Alive(jobs[k].pid)'
  BY DEF StoppedBeforeReplaced, Running
<1> SUFFICES ASSUME NEW q, q = jobs'[k].pid PROVE ~Alive(q)'
  BY DEF Alive
<1>1. JobStep(k)
  BY JobSteps
<1>2. ASSUME NEW p \in Pid, p = jobs[k].pid, jobs[k] # None, ~Alive(p) PROVE ~Alive(p)'
  <2>1. Named(p)
    BY <1>2 DEF Named, Running
  <2> QED BY <1>2, <2>1, RevivedIsNew
<1>3. jobs[k] # None => jobs[k] \in Job /\ jobs[k].pid \in Pid /\ jobs[k].pid[1] \in Ids
  BY RunningJob, JobTypes DEF Running
<1>4. CASE jobs'[k] = jobs[k]
  BY <1>2, <1>3, <1>4 DEF StoppedBeforeReplaced, Running
<1>5. CASE \E p \in Pid : jobs'[k] \in {NewJob("check", p), NewJob("recycle", p)}
  BY <1>5 DEF NewJob
<1>6. CASE JobMove(jobs[k], jobs'[k])
  <2> DEFINE j == jobs[k]
             n == jobs'[k]
  <2>1. j # None /\ n.pid = j.pid
    BY <1>6 DEF JobMove
  <2>2. CASE j.stage \in {"starting", "resolve", "track"}
    BY <1>2, <1>3, <2>1, <2>2 DEF StoppedBeforeReplaced, Running
  <2>3. CASE j.stage = "lookup"
    <3>1. ~Alive(j.pid)
      BY <1>6, <2>3 DEF JobMove
    <3> QED BY <1>2, <1>3, <2>1, <3>1
  <2>4. CASE j.stage = "terminating"
    <3>1. child'[j.pid[1]] = "none"
      BY <1>6, <2>4 DEF JobMove
    <3> QED BY <2>1, <3>1 DEF Alive
  <2> QED BY <1>3, <2>1, <2>2, <2>3, <2>4 DEF Job
<1> QED BY <1>1, <1>4, <1>5, <1>6 DEF JobStep

\* A replacement is only asked for once the process it replaces is dead, in
\* whatever order tasks, restarts and stops of that worker come, and also by a
\* task that outlives the manager.
THEOREM DeadBeforeReplaced == Spec => []StoppedBeforeReplaced
<1>1. Init => StoppedBeforeReplaced
  BY DEF Init, StoppedBeforeReplaced, Running
<1>2. TypeOK /\ StoppedBeforeReplaced /\ [Next]_vars => StoppedBeforeReplaced'
  BY StoppedStep
<1> QED BY <1>1, <1>2, TypeCorrect, PTL DEF Spec

----------------------------------------------------------------------------
(* Messages on their way.                                                  *)

\* A message stays in the mailbox until it is handled, except for the :DOWN of
\* a worker that is no longer tracked.
LEMMA MailKept ==
  ASSUME TypeOK, [Next]_vars, manager' = "up", NEW m \in Message, Has(mailbox, {m})
  PROVE  \/ Has(mailbox', {m})
         \/ Receive(m) /\ Handle
         \/ m.type = "DOWN" /\ m.pid[1] \in Ids /\ workers'[m.pid[1]] = None
<1>0. UNCHANGED mailbox => Has(mailbox', {m})
  OBVIOUS
<1>1. ASSUME NEW n \in Message, mailbox' = Append(mailbox, n) \/ mailbox' = Delivered(mailbox, n)
      PROVE  Has(mailbox', {m})
  <2>1. mailbox \in Seq(Message) /\ (mailbox' = Append(mailbox, n) \/ mailbox' = mailbox)
    BY <1>1 DEF TypeOK, Delivered
  <2>2. Has(Append(mailbox, n), {m})
    BY <2>1, HasAppend
  <2> QED BY <1>0, <2>1, <2>2
<1>2. ASSUME NEW p \in Pid, Down(p) PROVE Has(mailbox', {m})
  BY <1>0, <1>1, <1>2, Messages DEF Down
<1>3. ASSUME NEW h, Receive(h), h # m PROVE Has(Tail(mailbox), {m}) /\ Tail(mailbox) \in Seq(Message)
  <2>1. /\ mailbox # <<>> /\ mailbox \in Seq(Message) /\ Head(mailbox) = h
    BY <1>3, Received
  <2> QED BY <1>3, <2>1, HasTail
<1>4. ASSUME NEW h, Receive(h), h # m, NEW n \in Message,
             mailbox' = Tail(mailbox) \/ mailbox' = Append(Tail(mailbox), n)
      PROVE  Has(mailbox', {m})
  <2> DEFINE t == Tail(mailbox)
  <2>1. Has(t, {m}) /\ t \in Seq(Message) /\ (mailbox' = t \/ mailbox' = Append(t, n))
    BY <1>3, <1>4
  <2> HIDE DEF t
  <2>2. Has(Append(t, n), {m})
    BY <2>1, HasAppend
  <2> QED BY <2>1, <2>2
<1>5. ASSUME NEW h, Receive(h), h # m, NEW ids \in SUBSET Ids,
             mailbox' = Untracked(Tail(mailbox), ids), Untrack(ids)
      PROVE  \/ Has(mailbox', {m})
             \/ m.type = "DOWN" /\ m.pid[1] \in Ids /\ workers'[m.pid[1]] = None
  <2> DEFINE t == Tail(mailbox)
  <2>1. Has(t, {m}) /\ t \in Seq(Message) /\ mailbox' = Untracked(t, ids)
    BY <1>3, <1>5
  <2> HIDE DEF t
  <2>2. CASE m.type = "DOWN" /\ m.pid[1] \in ids
    BY <1>5, <2>2 DEF Untrack
  <2>3. CASE ~(m.type = "DOWN" /\ m.pid[1] \in ids)
    <3>1. \A l \in {m} \cap Message : l.type = "DOWN" => l.pid[1] \notin ids
      BY <2>3
    <3> QED BY <2>1, <3>1, HasUntracked
  <2> QED BY <2>2, <2>3
<1>6. CASE Handle
  <2>1. SUFFICES ASSUME ~Receive(m)
                 PROVE  \/ Has(mailbox', {m})
                        \/ m.type = "DOWN" /\ m.pid[1] \in Ids /\ workers'[m.pid[1]] = None
    BY <1>6
  <2>2. ASSUME NEW p \in Pid, Track(p) PROVE Has(mailbox', {m})
    BY <1>4, <2>1, <2>2, Messages DEF Track, Monitor
  <2>3. ASSUME NEW p \in Pid, WorkerDown(p) PROVE Has(mailbox', {m})
    BY <1>4, <2>1, <2>3 DEF WorkerDown
  <2>4. ASSUME NEW i \in Ids, IncrementRequests(i) PROVE Has(mailbox', {m})
    <3>1. \/ mailbox' = Tail(mailbox)
          \/ mailbox' = Append(Tail(mailbox), IdMsg("recycle_worker", i))
      BY <2>4 DEF IncrementRequests
    <3> QED BY <1>4, <2>1, <2>4, <3>1, Messages DEF IncrementRequests
  <2>5. ASSUME NEW i \in Ids, RecycleWorker(i)
        PROVE  \/ Has(mailbox', {m})
               \/ m.type = "DOWN" /\ m.pid[1] \in Ids /\ workers'[m.pid[1]] = None
    BY <1>4, <1>5, <2>1, <2>5 DEF RecycleWorker
  <2>6. CASE LifecycleCheck
    BY <1>4, <2>1, <2>6 DEF LifecycleCheck
  <2>7. ASSUME NEW ids \in SUBSET Ids, CheckComplete(ids)
        PROVE  \/ Has(mailbox', {m})
               \/ m.type = "DOWN" /\ m.pid[1] \in Ids /\ workers'[m.pid[1]] = None
    BY <1>5, <2>1, <2>7 DEF CheckComplete
  <2>8. CASE CheckDown
    BY <1>4, <2>1, <2>8 DEF CheckDown
  <2> QED BY <1>6, <2>2, <2>3, <2>4, <2>5, <2>6, <2>7, <2>8 DEF Handle
<1>7. ASSUME NEW k \in Jobs, Step(k) PROVE Has(mailbox', {m})
  <2>1. CASE TerminateChild(k)
    <3>1. <<jobs[k].pid[1], boot[jobs[k].pid[1]]>> \in Pid
      BY <2>1, RunningJob, JobTypes DEF TerminateChild, AtStage, TypeOK, Pid
    <3> QED BY <1>0, <1>2, <2>1, <3>1 DEF TerminateChild
  <2>2. CASE TrackReplacement(k)
    <3>1. jobs[k].new \in Pid
      BY <2>2, RunningJob, JobTypes DEF TrackReplacement, Task, AtStage
    <3> QED BY <1>1, <2>2, <3>1, Messages DEF TrackReplacement
  <2>3. CASE ~TerminateChild(k) /\ ~TrackReplacement(k)
    BY <1>0, <1>7, <2>3 DEF Step, StopWorker, StartChild, StartFails, ResolvePid
  <2> QED BY <2>1, <2>2, <2>3
<1>8. CASE CheckEnds
  <2>1. lifecycle_task \in SUBSET Ids
    BY <1>8 DEF CheckEnds, TypeOK
  <2> QED BY <1>1, <1>8, <2>1, Messages DEF CheckEnds
<1>9. CASE TasksKilled
  BY <1>0, <1>1, <1>9, Messages DEF TasksKilled
<1>10. CASE Terminate \/ KilledManager
  BY <1>10 DEF Terminate, KilledManager, Ended
<1>11. ASSUME NEW i \in Ids, Ready(i) \/ Crash(i) \/ Exit(i) \/ Served(i) \/ AskRecycle(i)
       PROVE  Has(mailbox', {m})
  <2>1. <<i, boot[i]>> \in Pid
    BY DEF TypeOK, Pid
  <2> QED BY <1>1, <1>2, <1>11, <2>1, Messages DEF Ready, Crash, Exit, Served, AskRecycle
<1>12. CASE TimerFires
  BY <1>1, <1>12, Messages DEF TimerFires
<1>13. ASSUME NEW k \in Jobs, ActionTimeout(k) \/ SignalArrives(k) PROVE Has(mailbox', {m})
  BY <1>0, <1>13 DEF ActionTimeout, SignalArrives
<1>14. CASE UNCHANGED vars
  BY <1>0, <1>14 DEF vars
<1> QED BY <1>6, <1>7, <1>8, <1>9, <1>10, <1>11, <1>12, <1>13, <1>14 DEF Next

\* Each kind of message has its callback.
LEMMA HandledBy ==
  ASSUME NEW m, Receive(m), Handle
  PROVE  /\ m.type = "DOWN" => \E p \in Pid : WorkerDown(p) /\ m = PidMsg("DOWN", p)
         /\ m.type = "recycle_worker"
              => \E i \in Ids : RecycleWorker(i) /\ m = IdMsg("recycle_worker", i)
         /\ m.type = "lifecycle_check" => LifecycleCheck
<1>1. ASSUME NEW n, Receive(n) PROVE m = n
  BY <1>1 DEF Receive
<1>2. ASSUME NEW p \in Pid, Track(p) PROVE m.type = "track"
  BY <1>1, <1>2 DEF Track, PidMsg
<1>3. ASSUME NEW p \in Pid, WorkerDown(p) PROVE m = PidMsg("DOWN", p) /\ m.type = "DOWN"
  BY <1>1, <1>3 DEF WorkerDown, PidMsg
<1>4. ASSUME NEW i \in Ids, IncrementRequests(i) PROVE m.type = "increment_requests"
  BY <1>1, <1>4 DEF IncrementRequests, IdMsg
<1>5. ASSUME NEW i \in Ids, RecycleWorker(i)
      PROVE  m = IdMsg("recycle_worker", i) /\ m.type = "recycle_worker"
  BY <1>1, <1>5 DEF RecycleWorker, IdMsg
<1>6. ASSUME LifecycleCheck PROVE m.type = "lifecycle_check"
  BY <1>1, <1>6 DEF LifecycleCheck, Plain
<1>7. ASSUME NEW ids \in SUBSET Ids, CheckComplete(ids) PROVE m.type = "check_complete"
  BY <1>1, <1>7 DEF CheckComplete
<1>8. ASSUME CheckDown PROVE m.type = "check_down"
  BY <1>1, <1>8 DEF CheckDown, Plain
<1> QED BY <1>2, <1>3, <1>4, <1>5, <1>6, <1>7, <1>8 DEF Handle

\* A worker of the table was there before, with a count that only a served
\* call raises, or has just been tracked.
LEMMA EntrySteps ==
  ASSUME TypeOK, [Next]_vars, manager' = "up", NEW i \in Ids, workers'[i] # None
  PROVE  \/ workers[i] # None /\ workers'[i] = workers[i]
         \/ /\ workers[i] # None /\ workers'[i].boot = workers[i].boot
            /\ IncrementRequests(i)
            /\ workers'[i].request_count = Count(workers[i].request_count + 1)
         \/ \E p \in Pid : /\ p[1] = i /\ Track(p)
                           /\ workers'[i] = [boot |-> p[2], request_count |-> 0]
<1> DEFINE Same == workers[i] # None /\ workers'[i] = workers[i]
<1>0. UNCHANGED workers => Same
  OBVIOUS
<1>1. ASSUME NEW ids, Untrack(ids) PROVE Same
  BY <1>1 DEF Untrack
<1>2. ASSUME NEW p \in Pid, Track(p)
      PROVE  \/ Same
             \/ p[1] = i /\ workers'[i] = [boot |-> p[2], request_count |-> 0]
  BY <1>2 DEF Track, TypeOK
<1>3. ASSUME NEW l \in Ids, IncrementRequests(l)
      PROVE  \/ Same
             \/ /\ workers[i] # None /\ workers'[i].boot = workers[i].boot /\ l = i
                /\ workers'[i].request_count = Count(workers[i].request_count + 1)
  <2>1. CASE workers[l] = None \/ l # i
    BY <1>3, <2>1 DEF IncrementRequests, TypeOK
  <2>2. CASE workers[l] # None /\ l = i
    <3>1. workers[i] \in Tracked
      BY <2>2 DEF TypeOK
    <3>2. workers'[i] = [workers[i] EXCEPT !.request_count = Count(workers[i].request_count + 1)]
      BY <1>3, <2>2 DEF IncrementRequests, TypeOK
    <3> QED BY <2>2, <3>1, <3>2 DEF Tracked
  <2> QED BY <2>1, <2>2
<1>4. CASE Handle
  <2>1. ASSUME NEW p \in Pid, WorkerDown(p) PROVE Same
    BY <1>0, <1>1, <2>1 DEF WorkerDown
  <2>2. ASSUME NEW l \in Ids, RecycleWorker(l) PROVE Same
    BY <1>0, <1>1, <2>2 DEF RecycleWorker
  <2>3. ASSUME NEW ids \in SUBSET Ids, CheckComplete(ids) PROVE Same
    BY <1>1, <2>3 DEF CheckComplete
  <2>4. CASE LifecycleCheck \/ CheckDown
    BY <1>0, <2>4 DEF LifecycleCheck, CheckDown
  <2> QED BY <1>2, <1>3, <1>4, <2>1, <2>2, <2>3, <2>4 DEF Handle
<1>5. CASE Terminate \/ KilledManager
  BY <1>5 DEF Terminate, KilledManager, Ended
<1>6. CASE ~Handle /\ ~Terminate /\ ~KilledManager
  <2>1. UNCHANGED workers
    BY <1>6 DEF Next, vars, Step, StopWorker, TerminateChild, StartChild, StartFails, ResolvePid,
                TrackReplacement, ActionTimeout, SignalArrives, CheckEnds, TasksKilled, TimerFires,
                Ready, Crash, Exit, Served, AskRecycle
  <2> QED BY <1>0, <2>1
<1> QED BY <1>4, <1>5, <1>6

----------------------------------------------------------------------------
(* The dead leave the table.                                               *)

\* The :DOWN of this process is on its way.
DownSent(p) == Has(mailbox, {PidMsg("DOWN", p)})

\* DeadLeaveTracking in terms of the messages on their way.
LEMMA DeadLeaveIff ==
  DeadLeaveTracking <=>
    \A i \in TrackedIds : manager = "up" /\ ~Alive(PidOf(i)) => DownSent(PidOf(i))
<1> QED BY DEF DeadLeaveTracking, DownSent, Has

\* A tracked process that dies sends its :DOWN.
LEMMA DeathIsSeen ==
  ASSUME TypeOK, [Next]_vars, manager = "up", NEW p \in Pid,
         IsTracked(p), Alive(p), ~Alive(p)'
  PROVE  DownSent(p)'
<1> USE DEF fleet, history
<1>0. p = <<p[1], p[2]>> /\ p[1] \in Ids /\ p[2] \in Boots
  BY DEF Pid
<1>1. ASSUME NEW i \in Ids, Down(<<i, boot[i]>>), p[1] = i PROVE DownSent(p)'
  <2>1. p = <<i, boot[i]>>
    BY <1>0, <1>1 DEF Alive
  <2>2. mailbox' = Append(mailbox, PidMsg("DOWN", p)) /\ PidMsg("DOWN", p) \in Message
    BY <1>1, <2>1, Messages DEF Down, Delivered
  <2>3. Has(mailbox', {PidMsg("DOWN", p)})
    BY <2>2, HasAppend DEF TypeOK
  <2> QED BY <2>3 DEF DownSent, PidMsg, Has
<1>2. ASSUME NEW k \in Jobs, TerminateChild(k) PROVE DownSent(p)'
  <2> DEFINE i == jobs[k].pid[1]
  <2>1. i \in Ids
    BY <1>2, RunningJob, JobTypes DEF TerminateChild, AtStage
  <2>2. boot' = boot /\ child'[p[1]] = "none" /\ child[p[1]] # "none"
    BY <1>0, <1>2 DEF TerminateChild, Alive
  <2>3. starter[i] /\ p[1] = i
    BY <1>0, <1>2, <2>1, <2>2 DEF TerminateChild, TypeOK
  <2>4. Down(<<i, boot[i]>>)
    BY <1>2, <2>2, <2>3 DEF TerminateChild
  <2> QED BY <1>1, <2>1, <2>3, <2>4
<1>3. ASSUME NEW i \in Ids, Crash(i) \/ Exit(i) PROVE DownSent(p)'
  <2>1. p[1] = i /\ Down(<<i, boot[i]>>)
    BY <1>0, <1>3 DEF Crash, Exit, Alive, TypeOK
  <2> QED BY <1>1, <2>1
<1>4. ASSUME NEW k \in Jobs, StartChild(k) PROVE FALSE
  <2>1. PICK i \in Ids : /\ workers[i] = None
                         /\ child' = [child EXCEPT ![i] = "booting"]
                         /\ boot' = [boot EXCEPT ![i] = 1]
    BY <1>4 DEF StartChild, Fresh
  <2> QED BY <1>0, <2>1 DEF IsTracked, Alive, TypeOK
<1>5. ASSUME NEW i \in Ids, Ready(i) PROVE FALSE
  BY <1>0, <1>5 DEF Ready, Alive, TypeOK
<1>6. CASE /\ ~\E k \in Jobs : TerminateChild(k) \/ StartChild(k)
           /\ ~\E i \in Ids : Ready(i) \/ Crash(i) \/ Exit(i)
  <2>1. UNCHANGED <<child, boot>>
    BY <1>6 DEF Next, vars, Handle, Track, WorkerDown, IncrementRequests, RecycleWorker,
                LifecycleCheck, CheckComplete, CheckDown, Step, StopWorker, StartFails, ResolvePid,
                TrackReplacement, ActionTimeout, SignalArrives, CheckEnds, TasksKilled, Terminate,
                KilledManager, Ended, TimerFires, Served, AskRecycle
  <2> QED BY <2>1 DEF Alive
<1> QED BY <1>2, <1>3, <1>4, <1>5, <1>6

\* A tracked process that is dead has its :DOWN on the way after every step.
LEMMA DeadLeaveStep ==
  ASSUME TypeOK, DeadLeaveTracking, [Next]_vars
  PROVE  DeadLeaveTracking'
<1> SUFFICES ASSUME manager' = "up", NEW i \in TrackedIds', ~Alive(PidOf(i))'
             PROVE  DownSent(PidOf(i))'
  BY DeadLeaveIff DEF DeadLeaveTracking, DownSent, Has
<1>1. i \in Ids /\ workers'[i] # None /\ manager = "up"
  BY WasUp DEF TrackedIds
<1> SUFFICES ASSUME NEW p, p = <<i, workers'[i].boot>>, ~Alive(p)' PROVE DownSent(p)'
  BY DEF PidOf, Alive, DownSent, Has, PidMsg
<1>2. ASSUME workers[i] # None, workers'[i].boot = workers[i].boot PROVE DownSent(p)'
  <2>1. p = PidOf(i) /\ p \in Pid /\ p[1] = i /\ IsTracked(p) /\ i \in TrackedIds
    BY <1>1, <1>2, TrackedPid DEF PidOf, IsTracked, TrackedIds
  <2>2. CASE Alive(p)
    BY <1>1, <2>1, <2>2, DeathIsSeen
  <2>3. CASE ~Alive(p)
    <3>1. DownSent(p)
      BY <1>1, <2>1, <2>3, DeadLeaveIff
    <3>2. PidMsg("DOWN", p) \in Message /\ PidMsg("DOWN", p).type = "DOWN" /\ PidMsg("DOWN", p).pid = p
      BY <2>1, Messages, Kinds
    <3>3. ~(Receive(PidMsg("DOWN", p)) /\ Handle)
      <4>1. ASSUME Receive(PidMsg("DOWN", p)), Handle PROVE FALSE
        <5>1. PICK q \in Pid : WorkerDown(q) /\ PidMsg("DOWN", p) = PidMsg("DOWN", q)
          BY <3>2, <4>1, HandledBy
        <5>2. q = p
          BY <5>1 DEF PidMsg
        <5> QED BY <1>1, <2>1, <5>1, <5>2 DEF WorkerDown, Untrack
      <4> QED BY <4>1
    <3>4. Has(mailbox', {PidMsg("DOWN", p)})
      BY <1>1, <2>1, <3>1, <3>2, <3>3, MailKept DEF DownSent
    <3> QED BY <3>4 DEF DownSent, Has, PidMsg
  <2> QED BY <2>2, <2>3
<1>3. ASSUME NEW q \in Pid, q[1] = i, Track(q),
             workers'[i] = [boot |-> q[2], request_count |-> 0]
      PROVE  DownSent(p)'
  <2>1. q = p
    BY <1>3 DEF Pid
  <2>2. ~Alive(q)
    BY <1>3, <2>1 DEF Track, fleet, Alive
  <2>3. /\ mailbox' = Append(Tail(mailbox), PidMsg("DOWN", q))
        /\ Tail(mailbox) \in Seq(Message) /\ PidMsg("DOWN", q) \in Message
    BY <1>3, <2>2, Received, Messages DEF Track, Monitor
  <2> DEFINE t == Tail(mailbox)
  <2> HIDE DEF t
  <2>4. Has(Append(t, PidMsg("DOWN", q)), {PidMsg("DOWN", q)})
    BY <2>3, HasAppend DEF t
  <2>5. Has(mailbox', {PidMsg("DOWN", p)})
    BY <2>1, <2>3, <2>4 DEF t
  <2> QED BY <2>5 DEF DownSent, Has, PidMsg
<1> QED BY <1>1, <1>2, <1>3, EntrySteps

----------------------------------------------------------------------------
(* A worker at its limit is recycled.                                      *)

\* A request to recycle this worker is on its way.
RecycleSent(i) == Has(mailbox, {IdMsg("recycle_worker", i)})

\* DueIsRecycled in terms of the messages on their way.
LEMMA DueIff ==
  DueIsRecycled <=> \A i \in TrackedIds : manager = "up" /\ AtLimit(i) => RecycleSent(i)
<1> QED BY DEF DueIsRecycled, RecycleSent, Has

\* A worker at its limit has its recycle on the way after every step.
LEMMA DueStep ==
  ASSUME TypeOK, DueIsRecycled, [Next]_vars
  PROVE  DueIsRecycled'
<1> SUFFICES ASSUME manager' = "up", NEW i \in TrackedIds',
                    workers'[i].request_count >= MaxRequests
             PROVE  Has(mailbox', {IdMsg("recycle_worker", i)})
  BY DEF DueIsRecycled, AtLimit, Has, IdMsg
<1>1. i \in Ids /\ workers'[i] # None /\ manager = "up"
  BY WasUp DEF TrackedIds
<1>2. IdMsg("recycle_worker", i) \in Message /\ IdMsg("recycle_worker", i).type # "DOWN"
  BY <1>1, Messages, Kinds
<1>3. CASE workers[i] # None /\ AtLimit(i)
  <2>1. RecycleSent(i)
    BY <1>1, <1>3, DueIff DEF TrackedIds
  <2>2. ~(Receive(IdMsg("recycle_worker", i)) /\ Handle)
    <3>1. ASSUME Receive(IdMsg("recycle_worker", i)), Handle PROVE FALSE
      <4>1. PICK l \in Ids : /\ RecycleWorker(l)
                             /\ IdMsg("recycle_worker", i) = IdMsg("recycle_worker", l)
        BY <1>1, <3>1, HandledBy, Kinds
      <4>2. l = i
        BY <4>1 DEF IdMsg
      <4> QED BY <1>1, <4>1, <4>2 DEF RecycleWorker, Untrack
    <3> QED BY <3>1
  <2> QED BY <1>1, <1>2, <2>1, <2>2, MailKept DEF RecycleSent
<1>4. CASE workers[i] # None /\ ~AtLimit(i) /\ workers'[i] = workers[i]
  BY <1>4 DEF AtLimit
<1>5. CASE /\ workers[i] # None /\ IncrementRequests(i)
           /\ workers'[i].request_count = Count(workers[i].request_count + 1)
  <2> DEFINE c == workers[i].request_count + 1
             t == Tail(mailbox)
  <2>1. c \in Nat
    <3>1. workers[i] \in Tracked
      BY <1>1, <1>5 DEF TypeOK
    <3> QED BY <3>1, Constants DEF Tracked
  <2>2. Limit(c)
    BY <1>5, <2>1, Constants DEF Limit, Count
  <2>3. mailbox' = Append(t, IdMsg("recycle_worker", i)) /\ t \in Seq(Message)
    BY <1>5, <2>2, Received DEF IncrementRequests
  <2> HIDE DEF t
  <2>4. Has(Append(t, IdMsg("recycle_worker", i)), {IdMsg("recycle_worker", i)})
    BY <1>2, <2>3, HasAppend
  <2> QED BY <2>3, <2>4
<1>6. ASSUME NEW q \in Pid, workers'[i] = [boot |-> q[2], request_count |-> 0] PROVE FALSE
  BY <1>6, Constants
<1> QED BY <1>1, <1>3, <1>4, <1>5, <1>6, EntrySteps

\* A tracked worker that reached its limit of requests has a recycle on the way.
THEOREM LimitIsKept == Spec => []DueIsRecycled
<1>1. Init => DueIsRecycled
  <2> SUFFICES ASSUME Init PROVE \A i \in TrackedIds : ~AtLimit(i)
    BY DEF DueIsRecycled
  <2>1. \A i \in TrackedIds : workers[i].request_count = 0
    BY DEF Init, TrackedIds
  <2> QED BY <2>1, Constants DEF AtLimit
<1>2. TypeOK /\ DueIsRecycled /\ [Next]_vars => DueIsRecycled'
  BY DueStep
<1> QED BY <1>1, <1>2, TypeCorrect, PTL DEF Spec

----------------------------------------------------------------------------
(* The checks go on.                                                       *)

\* The next check is on its way.
CheckSent == Has(mailbox, {Plain("lifecycle_check")})

\* A check that is on its way, in terms of the messages.
LEMMA CheckSentIff ==
  ASSUME mailbox \in Seq(Message)
  PROVE  (\E n \in 1..Len(mailbox) : mailbox[n].type = "lifecycle_check") <=> CheckSent
<1>1. \A n \in 1..Len(mailbox) : mailbox[n] \in Message
  OBVIOUS
<1> QED BY <1>1, Kinds DEF CheckSent, Has

\* A job does not end the check it belongs to.
LEMMA StepKeepsTask ==
  ASSUME TypeOK, OneReport, NEW k \in Jobs, Step(k), lifecycle_task # None
  PROVE  lifecycle_task' # None
<1>1. k \in Running
  BY DEF Step, StopWorker, TerminateChild, StartChild, StartFails, ResolvePid, TrackReplacement,
         Task, AtStage
<1>2. \/ UNCHANGED lifecycle_task
      \/ Finish(k) \/ NotFound(k) \/ Goto(k, "terminating") \/ Goto(k, "starting")
  BY DEF Step, StopWorker, TerminateChild, StartChild, StartFails, ResolvePid, TrackReplacement
<1>3. ASSUME NEW stage, Finish(k) \/ NotFound(k) \/ Goto(k, stage)
      PROVE  lifecycle_task' # None
  BY <1>1, <1>3, JobKeepsCheck
<1> QED BY <1>2, <1>3

\* After a step the timer is armed, a check runs or a check is on its way.
LEMMA CheckStep ==
  ASSUME TypeOK, OneReport, CheckOnItsWay, [Next]_vars, manager' = "up"
  PROVE  check_timer' \/ lifecycle_task' # None \/ Has(mailbox', {Plain("lifecycle_check")})
<1>0. /\ manager = "up" /\ mailbox \in Seq(Message)
      /\ Plain("lifecycle_check") \in Message
      /\ Plain("lifecycle_check").type = "lifecycle_check"
  BY WasUp, Messages, Kinds DEF TypeOK
<1>1. CASE TimerFires
  <2>1. Has(Append(mailbox, Plain("lifecycle_check")), {Plain("lifecycle_check")})
    BY <1>0, HasAppend
  <2> QED BY <1>1, <2>1 DEF TimerFires
<1>2. CASE check_timer /\ ~TimerFires
  <2>1. check_timer'
    BY <1>0, <1>2 DEF Next, vars, Handle, Track, WorkerDown, IncrementRequests, RecycleWorker,
           LifecycleCheck, CheckComplete, CheckDown, Schedule, Step, StopWorker, TerminateChild,
           StartChild, StartFails, ResolvePid, TrackReplacement, ActionTimeout, SignalArrives,
           CheckEnds, TasksKilled, Terminate, KilledManager, Ended, Ready, Crash, Exit, Served,
           AskRecycle
  <2> QED BY <2>1
<1>3. CASE lifecycle_task # None
  <2>1. CASE \E k \in Jobs : Step(k)
    BY <1>3, <2>1, StepKeepsTask
  <2>2. CASE ~\E k \in Jobs : Step(k)
    BY <1>3, <2>2 DEF Next, vars, Handle, Track, WorkerDown, IncrementRequests, RecycleWorker,
           LifecycleCheck, CheckComplete, CheckDown, Schedule, ActionTimeout, SignalArrives,
           CheckEnds, TasksKilled, Terminate, KilledManager, Ended, TimerFires, Ready, Crash, Exit,
           Served, AskRecycle
  <2> QED BY <2>1, <2>2
<1>4. CASE CheckSent
  <2>1. CASE Receive(Plain("lifecycle_check")) /\ Handle
    <3>1. LifecycleCheck
      BY <1>0, <2>1, HandledBy
    <3>2. lifecycle_task' # None
      BY <3>1, NoneAssumption DEF LifecycleCheck
    <3> QED BY <3>2
  <2>2. CASE ~(Receive(Plain("lifecycle_check")) /\ Handle)
    BY <1>0, <1>4, <2>2, MailKept DEF CheckSent
  <2> QED BY <2>1, <2>2
<1> QED BY <1>0, <1>1, <1>2, <1>3, <1>4, CheckSentIff DEF CheckOnItsWay

\* The checks go on after every step.
LEMMA CheckOnItsWayStep ==
  ASSUME TypeOK, OneReport, CheckOnItsWay, [Next]_vars
  PROVE  CheckOnItsWay'
<1> SUFFICES ASSUME manager' = "up"
             PROVE  \/ check_timer' \/ lifecycle_task' # None
                    \/ \E n \in 1..Len(mailbox') : mailbox'[n].type = "lifecycle_check"
  BY DEF CheckOnItsWay
<1> QED BY CheckStep, Kinds DEF Has

----------------------------------------------------------------------------
(* The size of the pool.                                                   *)

\* The sets whose sizes are compared are finite.
LEMMA Sizes ==
  /\ IsFiniteSet(Starters) /\ IsFiniteSet(Owed) /\ IsFiniteSet(Initial)
  /\ Cardinality(Starters) \in Nat /\ Cardinality(Owed) \in Nat /\ Cardinality(Initial) \in Nat
<1>1. Starters \subseteq Ids /\ Owed \subseteq Jobs
  BY DEF Starters, Owed, Running
<1>2. IsFiniteSet(Starters) /\ IsFiniteSet(Owed) /\ IsFiniteSet(Initial)
  BY <1>1, FS_Subset, LifecycleAssumption
<1> QED BY <1>2, FS_CardinalityType

\* Another step on a job changes what is owed by that job only.
LEMMA OwedBy ==
  ASSUME TypeOK, NEW k \in Jobs, NEW j, jobs' = [jobs EXCEPT ![k] = j]
  PROVE  /\ j # None /\ j.stage = "starting" => Owed' = Owed \cup {k}
         /\ ~(j # None /\ j.stage = "starting") => Owed' = Owed \ {k}
<1>1. \A l \in Jobs : jobs'[l] = IF l = k THEN j ELSE jobs[l]
  BY DEF TypeOK
<1> QED BY <1>1 DEF Owed, Running

\* The size stays, and what has happened stays in the history.
LEMMA SizeKept ==
  ASSUME SizeAccounted, Starters' = Starters, Owed' = Owed, cut => cut', stale => stale'
  PROVE  SizeAccounted'
<1> QED BY DEF SizeAccounted

\* A killed job owes what it owed.
LEMMA KilledOwes ==
  ASSUME TypeOK, NEW k \in Jobs, jobs'[k] = Killed(jobs[k])
  PROVE  k \in Owed' <=> k \in Owed
<1>1. CASE jobs[k] # None /\ jobs[k].stage \in {"terminating", "starting"}
  <2>1. jobs'[k] = [jobs[k] EXCEPT !.by = "nobody"] /\ jobs[k] \in Job
    BY <1>1, RunningJob DEF Killed, Running
  <2>2. jobs'[k] \in Job /\ jobs'[k].stage = jobs[k].stage
    BY <2>1 DEF Job
  <2> QED BY <1>1, <2>2, NoneAssumption DEF Owed, Running
<1>2. CASE ~(jobs[k] # None /\ jobs[k].stage \in {"terminating", "starting"})
  <2>1. jobs'[k] = None
    BY <1>2 DEF Killed
  <2> QED BY <1>2, <2>1 DEF Owed, Running
<1> QED BY <1>1, <1>2

\* A job that starts owes nothing yet.
LEMMA HandleOwes ==
  ASSUME TypeOK, Handle
  PROVE  Owed' = Owed
<1>0. \A p : NewJob("check", p).stage = "lookup" /\ NewJob("recycle", p).stage = "lookup"
  BY DEF NewJob
<1>1. ASSUME NEW i \in Ids, RecycleWorker(i), workers[i] # None PROVE Owed' = Owed
  <2>1. FirstFree \in Free /\ jobs' = [jobs EXCEPT ![FirstFree] = NewJob("recycle", PidOf(i))]
    BY <1>1, FirstFreeIsFree DEF RecycleWorker
  <2>2. FirstFree \in Jobs /\ FirstFree \notin Owed
    BY <2>1 DEF Free, Owed
  <2> HIDE DEF FirstFree
  <2>3. NewJob("recycle", PidOf(i)).stage # "starting"
    BY <1>0
  <2> QED BY <2>1, <2>2, <2>3, OwedBy
<1>2. CASE LifecycleCheck
  <2>1. ASSUME NEW k \in Jobs PROVE k \in Owed' <=> k \in Owed
    BY <1>0, <1>2, CheckJobs DEF Owed, Running
  <2> QED BY <2>1 DEF Owed, Running
<1>3. UNCHANGED jobs => Owed' = Owed
  BY DEF Owed, Running
<1>4. \/ UNCHANGED jobs
      \/ \E i \in Ids : RecycleWorker(i) /\ workers[i] # None
      \/ LifecycleCheck
  BY DEF Handle, Track, WorkerDown, IncrementRequests, RecycleWorker, CheckComplete, CheckDown
<1> QED BY <1>1, <1>2, <1>3, <1>4

\* What a step of a job does to the size.
LEMMA SizeByJob ==
  ASSUME TypeOK, SizeAccounted, NEW k \in Jobs, Step(k)
  PROVE  SizeAccounted'
<1> USE DEF fleet, history
<1>0. /\ k \in Running /\ jobs[k] \in Job /\ jobs[k].pid[1] \in Ids /\ jobs[k].new[1] \in Ids
  <2>1. k \in Running
    BY DEF Step, StopWorker, TerminateChild, StartChild, StartFails, ResolvePid,
           TrackReplacement, Task, AtStage
  <2> QED BY <2>1, RunningJob, JobTypes
<1>1. ASSUME Finish(k) \/ NotFound(k) PROVE Owed' = Owed \ {k}
  BY <1>1, OwedBy DEF Finish, NotFound
<1>2. ASSUME NEW stage \in {"terminating", "starting"}, Goto(k, stage)
      PROVE  /\ stage = "starting" => Owed' = Owed \cup {k}
             /\ stage # "starting" => Owed' = Owed \ {k}
  <2>1. jobs' = [jobs EXCEPT ![k] = [jobs[k] EXCEPT !.stage = stage]]
    BY <1>2 DEF Goto
  <2>2. [jobs[k] EXCEPT !.stage = stage] \in Job /\ [jobs[k] EXCEPT !.stage = stage].stage = stage
    BY <1>0, <1>2, JobTypes, Staged
  <2>3. [jobs[k] EXCEPT !.stage = stage] # None
    BY <2>2, NoneAssumption
  <2> QED BY <2>1, <2>2, <2>3, OwedBy
<1>3. jobs[k].stage # "starting" => k \notin Owed
  BY DEF Owed
<1>4. jobs[k].stage = "starting" => k \in Owed
  BY <1>0 DEF Owed
<1>5. Starters' \subseteq Ids /\ UNCHANGED starter => Starters' = Starters
  BY DEF Starters
<1>6. ASSUME k \notin Owed, Owed' = Owed \ {k} PROVE Owed' = Owed
  BY <1>6
<1>7. ASSUME NEW S, IsFiniteSet(S), NEW e, e \notin S
      PROVE  Cardinality(S \cup {e}) = Cardinality(S) + 1
  BY <1>7, FS_AddElement
<1>8. ASSUME NEW S, IsFiniteSet(S), NEW e, e \in S
      PROVE  Cardinality(S \ {e}) = Cardinality(S) - 1
  BY <1>8, FS_RemoveElement
<1>9. CASE StopWorker(k)
  <2>1. jobs[k].stage = "lookup" /\ Starters' = Starters /\ cut' = cut
    BY <1>9 DEF StopWorker, Task, AtStage, Starters
  <2>2. CASE Alive(jobs[k].pid)
    <3>1. Goto(k, "terminating") /\ UNCHANGED stale
      BY <1>9, <2>2 DEF StopWorker
    <3>2. Owed' = Owed
      BY <1>2, <1>3, <2>1, <3>1
    <3> QED BY <2>1, <3>1, <3>2, SizeKept
  <2>3. CASE ~Alive(jobs[k].pid)
    <3>1. Goto(k, "starting") /\ stale'
      BY <1>9, <2>3 DEF StopWorker
    <3>2. Cardinality(Owed') = Cardinality(Owed) + 1
      BY <1>2, <1>3, <1>7, <2>1, <3>1, Sizes
    <3> QED BY <2>1, <3>1, <3>2, Sizes DEF SizeAccounted
  <2> QED BY <2>2, <2>3
<1>10. CASE TerminateChild(k)
  <2> DEFINE i == jobs[k].pid[1]
  <2>1. jobs[k].stage = "terminating" /\ stale' = stale
    BY <1>10 DEF TerminateChild, AtStage
  <2>2. CASE starter[i]
    <3>1. i \in Starters /\ Starters' = Starters \ {i}
      BY <1>0, <1>10, <2>2 DEF TerminateChild, Starters, TypeOK
    <3>2. Cardinality(Starters') = Cardinality(Starters) - 1
      BY <1>8, <3>1, Sizes
    <3>3. CASE jobs[k].by = "nobody"
      <4>1. cut' /\ jobs' = [jobs EXCEPT ![k] = None]
        BY <1>10, <2>2, <3>3 DEF TerminateChild
      <4>2. Owed' = Owed
        BY <1>3, <1>6, <2>1, <4>1, OwedBy
      <4> QED BY <2>1, <3>2, <4>1, <4>2, Sizes DEF SizeAccounted
    <3>4. CASE jobs[k].by # "nobody"
      <4>1. Goto(k, "starting") /\ UNCHANGED cut
        BY <1>10, <2>2, <3>4 DEF TerminateChild
      <4>2. Cardinality(Owed') = Cardinality(Owed) + 1
        BY <1>2, <1>3, <1>7, <2>1, <4>1, Sizes
      <4> QED BY <2>1, <3>2, <4>1, <4>2, Sizes DEF SizeAccounted
    <3> QED BY <3>3, <3>4
  <2>3. CASE ~starter[i]
    <3>1. NotFound(k) /\ UNCHANGED <<starter, cut>>
      BY <1>10, <2>3 DEF TerminateChild
    <3>2. Owed' = Owed /\ Starters' = Starters
      BY <1>1, <1>3, <1>6, <2>1, <3>1 DEF Starters
    <3> QED BY <2>1, <3>1, <3>2, SizeKept
  <2> QED BY <2>2, <2>3
<1>11. CASE StartChild(k)
  <2>1. PICK i \in Ids :
          /\ Fresh(i)
          /\ starter' = [starter EXCEPT ![i] = TRUE]
          /\ jobs' = [jobs EXCEPT ![k] =
                        IF jobs[k].by = "nobody" THEN None
                        ELSE [jobs[k] EXCEPT !.stage = "resolve", !.new = <<i, 1>>]]
    BY <1>11 DEF StartChild
  <2>2. k \in Owed /\ cut' = cut /\ stale' = stale
    BY <1>4, <1>11 DEF StartChild, AtStage
  <2>3. i \notin Starters /\ Starters' = Starters \cup {i}
    BY <2>1 DEF Fresh, Starters, TypeOK
  <2>4. [jobs[k] EXCEPT !.stage = "resolve", !.new = <<i, 1>>].stage # "starting"
    BY <1>0, Staged
  <2>5. Owed' = Owed \ {k}
    <3>1. CASE jobs[k].by = "nobody"
      BY <2>1, <3>1, OwedBy
    <3>2. CASE jobs[k].by # "nobody"
      BY <2>1, <2>4, <3>2, OwedBy
    <3> QED BY <3>1, <3>2
  <2>6. /\ Cardinality(Starters') = Cardinality(Starters) + 1
        /\ Cardinality(Owed') = Cardinality(Owed) - 1
    BY <1>7, <1>8, <2>2, <2>3, <2>5, Sizes
  <2> QED BY <2>2, <2>6, Sizes DEF SizeAccounted
<1>12. CASE StartFails(k)
  <2>1. k \in Owed /\ cut' /\ stale' = stale /\ Starters' = Starters
    BY <1>4, <1>12 DEF StartFails, AtStage, Starters
  <2>2. Cardinality(Owed') = Cardinality(Owed) - 1
    BY <1>1, <1>8, <1>12, <2>1, Sizes DEF StartFails
  <2> QED BY <2>1, <2>2, Sizes DEF SizeAccounted
<1>13. CASE ResolvePid(k)
  <2> DEFINE i == jobs[k].new[1]
             n == [jobs[k] EXCEPT !.stage = "track", !.new = <<i, boot[i]>>]
  <2>1. k \notin Owed /\ Starters' = Starters /\ cut' = cut /\ stale' = stale
    BY <1>3, <1>13 DEF ResolvePid, Task, AtStage, Starters
  <2>2. CASE child[i] # "none"
    <3>1. jobs' = [jobs EXCEPT ![k] = n]
      BY <1>13, <2>2 DEF ResolvePid, TypeOK
    <3>2. n.stage # "starting"
      BY <1>0, Staged
    <3> HIDE DEF n
    <3>3. Owed' = Owed
      BY <1>6, <2>1, <3>1, <3>2, OwedBy
    <3> QED BY <2>1, <3>3, SizeKept
  <2>3. CASE child[i] = "none"
    <3>1. Owed' = Owed
      BY <1>1, <1>6, <1>13, <2>1, <2>3 DEF ResolvePid
    <3> QED BY <2>1, <3>1, SizeKept
  <2> QED BY <2>2, <2>3
<1>14. CASE TrackReplacement(k)
  <2>1. k \notin Owed /\ Starters' = Starters /\ cut' = cut /\ stale' = stale
    BY <1>3, <1>14 DEF TrackReplacement, Task, AtStage, Starters
  <2>2. Owed' = Owed
    BY <1>1, <1>6, <1>14, <2>1 DEF TrackReplacement
  <2> QED BY <2>1, <2>2, SizeKept
<1> QED BY <1>9, <1>10, <1>11, <1>12, <1>13, <1>14 DEF Step

\* The size of the pool is accounted for after every step.
LEMMA SizeStep ==
  ASSUME TypeOK, SizeAccounted, [Next]_vars
  PROVE  SizeAccounted'
<1> USE DEF fleet, history
<1>0. ASSUME UNCHANGED starter, UNCHANGED jobs, UNCHANGED <<cut, stale>> PROVE SizeAccounted'
  <2>1. Starters' = Starters /\ Owed' = Owed
    BY <1>0 DEF Starters, Owed, Running
  <2> QED BY <1>0, <2>1, SizeKept
<1>1. CASE Handle
  <2>1. UNCHANGED <<starter, cut, stale>>
    BY <1>1 DEF Handle, Track, WorkerDown, IncrementRequests, RecycleWorker, LifecycleCheck,
                CheckComplete, CheckDown
  <2>2. Starters' = Starters
    BY <2>1 DEF Starters
  <2> QED BY <1>1, <2>1, <2>2, HandleOwes, SizeKept
<1>2. ASSUME NEW k \in Jobs, Step(k) PROVE SizeAccounted'
  BY <1>2, SizeByJob
<1>3. ASSUME \/ TasksKilled
             \/ \E k \in Jobs : ActionTimeout(k) \/ SignalArrives(k)
      PROVE  SizeAccounted'
  <2>1. UNCHANGED <<starter, cut, stale>>
    BY <1>3 DEF TasksKilled, SignalArrives, ActionTimeout
  <2>2. \A l \in Jobs : jobs'[l] = jobs[l] \/ jobs'[l] = Killed(jobs[l])
    BY <1>3 DEF TasksKilled, SignalArrives, EndTasks, ActionTimeout, TypeOK
  <2>3. \A l \in Jobs : l \in Owed' <=> l \in Owed
    <3> SUFFICES ASSUME NEW l \in Jobs PROVE l \in Owed' <=> l \in Owed
      OBVIOUS
    <3>1. CASE jobs'[l] = jobs[l]
      BY <3>1 DEF Owed, Running
    <3>2. CASE jobs'[l] = Killed(jobs[l])
      BY <3>2, KilledOwes
    <3> QED BY <2>2, <3>1, <3>2
  <2>4. Owed' = Owed /\ Starters' = Starters
    BY <2>1, <2>3 DEF Owed, Running, Starters
  <2> QED BY <2>1, <2>4, SizeKept
<1>4. CASE \/ CheckEnds \/ TimerFires \/ Terminate \/ KilledManager
           \/ \E i \in Ids : Ready(i) \/ Crash(i) \/ Exit(i) \/ Served(i) \/ AskRecycle(i)
  BY <1>0, <1>4 DEF CheckEnds, TimerFires, Terminate, KilledManager, Ended, Ready, Crash, Exit,
                    Served, AskRecycle
<1>5. CASE UNCHANGED vars
  BY <1>0, <1>5 DEF vars
<1> QED BY <1>1, <1>2, <1>3, <1>4, <1>5 DEF Next

\* The manager's books and the pool agree: the size of the pool is accounted for,
\* the dead leave the table, and a check that looks at the rest is on its way.
THEOREM PoolIsAccounted == Spec => []PoolAccounted
<1>1. Init => DeadLeaveTracking /\ SizeAccounted /\ CheckOnItsWay
  <2> SUFFICES ASSUME Init PROVE DeadLeaveTracking /\ SizeAccounted /\ CheckOnItsWay
    OBVIOUS
  <2>1. \A i \in TrackedIds : Alive(PidOf(i))
    <3> SUFFICES ASSUME NEW i \in TrackedIds PROVE Alive(PidOf(i))
      OBVIOUS
    <3>1. i \in Initial /\ i \in Ids /\ workers[i] = [boot |-> 1, request_count |-> 0]
      BY DEF Init, TrackedIds
    <3> QED BY <3>1 DEF Init, Alive, PidOf
  <2>2. Starters = Initial /\ Owed = {}
    BY Constants DEF Init, Starters, Owed, Running
  <2>3. Cardinality(Owed) = 0
    BY <2>2, FS_EmptySet
  <2> QED BY <2>1, <2>2, <2>3, Sizes DEF DeadLeaveTracking, SizeAccounted, CheckOnItsWay, Init
<1>2. /\ TypeOK /\ OneReport /\ DeadLeaveTracking /\ SizeAccounted /\ CheckOnItsWay
      /\ [Next]_vars
      => (DeadLeaveTracking /\ SizeAccounted /\ CheckOnItsWay)'
  BY DeadLeaveStep, SizeStep, CheckOnItsWayStep
<1> QED BY <1>1, <1>2, TypeCorrect, PTL DEF Spec, PoolAccounted
----------------------------------------------------------------------------
(* ProcessRegistry: the types of its variables.                            *)

LEMMA EntryTypes ==
  ASSUME RegistryTypes
  PROVE  /\ NoEntry \in Entry /\ Reservation \in Entry
         /\ \A w \in WorkerIds : Activation(w) \in Entry
         /\ NoEntries \in [WorkerIds -> Entry]
         /\ \A t \in [WorkerIds -> Entry] : \A S : Drop(t, S) \in [WorkerIds -> Entry]
<1> USE RegistryAssumption
<1>1. NoEntry \in Entry /\ Reservation \in Entry
  BY DEF RegistryTypes, NoEntry, Reservation, Entry
<1>2. \A w \in WorkerIds : Activation(w) \in Entry
  BY DEF RegistryTypes, Activation, Entry
<1>3. NoEntries \in [WorkerIds -> Entry]
  BY <1>1 DEF NoEntries
<1>4. \A t \in [WorkerIds -> Entry] : \A S : Drop(t, S) \in [WorkerIds -> Entry]
  BY <1>1 DEF Drop
<1> QED BY <1>1, <1>2, <1>3, <1>4

LEMMA KillTypes ==
  ASSUME proc \in [Pids -> {"none", "alive", "doomed"}], NEW S, Kill(S)
  PROVE  proc' \in [Pids -> {"none", "alive", "doomed"}]
BY DEF Kill

\* A fresh registry and the end of a BEAM leave well-typed tables and timers.
LEMMA TablesTyped ==
  ASSUME RegistryTypes, NEW t \in [WorkerIds -> Entry],
         FreshRegistry(t) \/ \E how : BeamEnds(how, t)
  PROVE  /\ ets' \in [WorkerIds -> Entry] /\ dets' \in [WorkerIds -> Entry]
         /\ disk' \in [WorkerIds -> Entry] /\ casts' = {} /\ retries' = {}
         /\ cleanup' \in [stage : {"none", "read", "kill", "remove", "scan"},
                          seen : [WorkerIds -> Entry]]
         /\ cleanup'.stage # "none" => registry' # "off"
BY EntryTypes DEF FreshRegistry, BeamEnds

\* Each step keeps the types.
LEMMA RegistryTypesStep ==
  ASSUME RegistryTypes, [RegistryNext]_regVars
  PROVE  RegistryTypes'
<1> USE RegistryAssumption DEF tables, timers, control, actors, system
<1>0. run \in Nat /\ RegistryTypes
  BY DEF RegistryTypes
<1>1. CASE StartApplication
  <2>1. disk \in [WorkerIds -> Entry]
    BY <1>0 DEF RegistryTypes
  <2>2. FreshRegistry(disk)
    BY <1>1 DEF StartApplication
  <2>3. /\ run' = run + 1 /\ beam' = run + 1 /\ app' = "up" /\ registry' = "starting"
        /\ known' \subseteq Pids /\ UNCHANGED <<scan, actors, system>>
    BY <1>1 DEF StartApplication, FreshRegistry, Found
  <2> QED BY <1>0, <2>1, <2>2, <2>3, TablesTyped DEF RegistryTypes
<1>2. CASE RegistryRestarts
  <2>1. dets \in [WorkerIds -> Entry]
    BY <1>0 DEF RegistryTypes
  <2>2. FreshRegistry(dets)
    BY <1>2 DEF RegistryRestarts
  <2>3. /\ run' = run + 1 /\ registry' = "starting"
        /\ app' = app /\ app \in {"up", "stopping"} /\ UNCHANGED <<beam, scan, known, actors, system>>
    BY <1>2 DEF RegistryRestarts, FreshRegistry, RegistryTypes
  <2> QED BY <1>0, <2>1, <2>2, <2>3, TablesTyped DEF RegistryTypes
<1>3. CASE BeamCrashes \/ EndStop
  <2>1. PICK t \in {disk, dets}, how \in {"crashed", "stopped", "cut"} : BeamEnds(how, t)
    BY <1>3 DEF BeamCrashes, EndStop
  <2>2. t \in [WorkerIds -> Entry]
    BY <1>0 DEF RegistryTypes
  <2>3. /\ app' = how /\ registry' = "off" /\ UNCHANGED <<run, beam, scan, known, cmd>>
        /\ phase' = [w \in WorkerIds |-> "none"] /\ named' = [w \in WorkerIds |-> 0]
        /\ process_pid' = [w \in WorkerIds |-> NoPid]
    BY <2>1 DEF BeamEnds
  <2>4. proc' = proc \/ \E S : Kill(S)
    BY <1>3 DEF BeamCrashes, EndStop
  <2>5. proc' \in [Pids -> {"none", "alive", "doomed"}]
    BY <1>0, <2>4, KillTypes DEF RegistryTypes
  <2> QED BY <1>0, <2>1, <2>2, <2>3, <2>5, TablesTyped DEF RegistryTypes
<1>4. CASE BeginStop \/ Sync \/ UNCHANGED regVars
  BY <1>4 DEF BeginStop, Sync, RegistryTypes, regVars
<1>5. CASE StartCleanup \/ CleanupReads \/ CleanupDies
  <2>1. /\ cleanup' \in [stage : {"none", "read", "kill"}, seen : [WorkerIds -> Entry]]
        /\ registry # "off"
    <3>1. CASE CleanupReads
      <4>1. \E S : cleanup' = [stage |-> "kill", seen |-> Drop(dets, S)]
        BY <3>1 DEF CleanupReads, Proceed
      <4>2. dets \in [WorkerIds -> Entry] /\ registry # "off"
        BY <3>1 DEF CleanupReads, RegistryTypes
      <4> QED BY <4>1, <4>2, EntryTypes
    <3>2. CASE StartCleanup \/ CleanupDies
      BY <3>2, EntryTypes DEF StartCleanup, CleanupDies, Proceed
    <3> QED BY <1>5, <3>1, <3>2
  <2>2. UNCHANGED <<control, tables, disk, timers, actors, system>>
    BY <1>5 DEF StartCleanup, CleanupReads, CleanupDies
  <2> QED BY <2>1, <2>2 DEF RegistryTypes
<1>6. CASE CleanupKills \/ CleanupScans
  <2>1. proc' \in [Pids -> {"none", "alive", "doomed"}]
    BY <1>6, KillTypes DEF CleanupKills, CleanupScans, RegistryTypes
  <2> QED BY <1>6, <2>1, EntryTypes DEF CleanupKills, CleanupScans, Proceed, RegistryTypes
<1>7. CASE CleanupRemoves
  BY <1>7, EntryTypes DEF CleanupRemoves, Proceed, RegistryTypes
<1>8. ASSUME NEW w \in WorkerIds,
             Reserve(w) \/ NameRun(w) \/ InitFails(w) \/ WorkerKilled(w) \/ TerminateWorker(w)
      PROVE  RegistryTypes'
  <2>1. CASE Reserve(w)
    BY <1>8, <2>1, EntryTypes DEF Reserve, RegistryTypes
  <2>2. CASE NameRun(w)
    BY <1>8, <2>2 DEF NameRun, RegistryTypes
  <2>3. CASE InitFails(w) \/ WorkerKilled(w)
    BY <1>8, <2>3 DEF InitFails, WorkerKilled, Leave, RegistryTypes
  <2>4. CASE TerminateWorker(w)
    <3>1. proc' \in [Pids -> {"none", "alive", "doomed"}]
      BY <2>4, KillTypes DEF TerminateWorker, RegistryTypes
    <3> QED BY <1>8, <2>4, <3>1 DEF TerminateWorker, Leave, RegistryTypes
  <2> QED BY <1>8, <2>1, <2>2, <2>3, <2>4
<1>9. ASSUME NEW w \in WorkerIds, Activate(w) PROVE RegistryTypes'
  <2>1. Activation(w) \in Entry
    BY EntryTypes
  <2> QED BY <1>9, <2>1 DEF Activate, RegistryTypes
<1>10. ASSUME NEW w \in WorkerIds, NEW p \in Pids, Spawn(w, p) PROVE RegistryTypes'
  <2>1. named[w] \in 0..run
    BY DEF RegistryTypes
  <2> QED BY <1>10, <2>1 DEF Spawn, RegistryTypes
<1>11. ASSUME NEW w \in WorkerIds, Unregister(w) PROVE RegistryTypes'
  <2>1. CASE ProcessAlive(ets[w].pid)
    <3>1. /\ dets' = [v \in WorkerIds |-> IF v \in {w} THEN ets[v] ELSE dets[v]] /\ ets' = ets
          /\ retries' = retries \cup {<<w, ets[w].pid, Attempts>>} /\ casts' = casts \ {w}
          /\ UNCHANGED <<control, disk, cleanup, actors, system>>
      BY <1>11, <2>1 DEF Unregister, Keep
    <3>2. Attempts \in 1..Attempts /\ ets[w].pid \in Pids
      BY <2>1 DEF ProcessAlive
    <3>3. dets' \in [WorkerIds -> Entry]
      BY <3>1 DEF RegistryTypes
    <3>4. retries' \subseteq WorkerIds \X Pids \X (1..Attempts)
      BY <3>1, <3>2 DEF RegistryTypes
    <3> QED BY <3>1, <3>3, <3>4 DEF RegistryTypes
  <2>2. CASE ~ProcessAlive(ets[w].pid)
    <3>1. /\ ets' = Drop(ets, {w}) /\ dets' = Drop(dets, {w})
          /\ retries' = retries /\ casts' = casts \ {w}
          /\ UNCHANGED <<control, disk, cleanup, actors, system>>
      BY <1>11, <2>2 DEF Unregister, Forget
    <3> QED BY <3>1, EntryTypes DEF RegistryTypes
  <2> QED BY <2>1, <2>2
<1>12. ASSUME NEW w \in WorkerIds, NEW p \in Pids, NEW n \in 1..Attempts, UnregisterRetry(w, p, n)
       PROVE  RegistryTypes'
  <2>1. /\ \/ UNCHANGED tables
           \/ ets' = Drop(ets, {w}) /\ dets' = Drop(dets, {w})
        /\ UNCHANGED <<control, disk, casts, cleanup, actors, system>>
    BY <1>12 DEF UnregisterRetry, Forget
  <2>2. retries' \subseteq WorkerIds \X Pids \X (1..Attempts)
    <3>1. n > 1 => n - 1 \in 1..Attempts
      OBVIOUS
    <3>2. retries' \subseteq retries \cup (IF n > 1 THEN {<<w, p, n - 1>>} ELSE {})
      BY <1>12 DEF UnregisterRetry
    <3> QED BY <3>1, <3>2 DEF RegistryTypes
  <2> QED BY <2>1, <2>2, EntryTypes DEF RegistryTypes
<1>13. CASE CleanupDeadWorkers
  <2>1. PICK dead, left :
          /\ ets' = Drop(ets, dead \ left)
          /\ dets' = [w \in WorkerIds |-> IF w \in left THEN ets[w]
                                          ELSE IF w \in dead THEN NoEntry ELSE dets[w]]
          /\ UNCHANGED <<control, disk, timers, cleanup, actors, system>>
    BY <1>13 DEF CleanupDeadWorkers
  <2>2. dets' \in [WorkerIds -> Entry]
    BY <2>1, EntryTypes DEF RegistryTypes
  <2> QED BY <2>1, <2>2, EntryTypes DEF RegistryTypes
<1>14. ASSUME NEW p \in Pids, ProcessEnds(p) \/ ProgramStarts(p) PROVE RegistryTypes'
  BY <1>0, <1>14 DEF ProcessEnds, ProgramStarts, RegistryTypes
<1> QED
  BY <1>1, <1>2, <1>3, <1>4, <1>5, <1>6, <1>7, <1>8, <1>9, <1>10, <1>11, <1>12, <1>13, <1>14
     DEF RegistryNext

----------------------------------------------------------------------------
(* ProcessRegistry: what the entries say, whose the processes are, what a  *)
(* cleanup knows.                                                          *)

\* An entry that was written names a run, and a process if it is active.
WellFormed(e) ==
  \/ e = NoEntry
  \/ e.run > 0 /\ e.status = "reserved" /\ e.pid = NoPid
  \/ e.run > 0 /\ e.status = "active" /\ e.pid \in Pids

\* The entries on disk and in DETS are well-formed and of runs that have begun;
\* those of ETS are of the run of this registry.
EntriesWell ==
  /\ \A w \in WorkerIds :
       /\ WellFormed(dets[w]) /\ dets[w].run <= run
       /\ WellFormed(disk[w]) /\ disk[w].run <= run
       /\ WellFormed(ets[w]) /\ (registry # "off" => ets[w].run \in {0, run})
  /\ registry # "off" => run > 0

\* A worker has a run id from the time this application runs, of an earlier
\* registry while a registry starts.  It has a pid from its spawn on, and the
\* process of that pid carries its run id.
Attached ==
  /\ \A p \in Pids : proc[p] = "none" => cmd[p] = 0
  /\ \A w \in WorkerIds :
       /\ phase[w] \in {"named", "spawned", "up"} =>
            beam <= named[w] /\ (registry = "starting" => named[w] < run)
       /\ process_pid[w] \in Pids <=> phase[w] \in {"spawned", "up"}
       /\ process_pid[w] \in Pids /\ proc[process_pid[w]] # "none" =>
            cmd[process_pid[w]] = named[w]
       /\ w \in casts => phase[w] = "none"
       /\ registry = "off" => phase[w] = "none"

\* The startup cleanup works on all that DETS holds, which is of earlier runs, and
\* leaves it empty.  A later cleanup sees but reservations of workers that failed.
CleanupKnows ==
  /\ registry = "starting" =>
       /\ cleanup.stage # "none"
       /\ \A w \in WorkerIds : dets[w].run < run
       /\ cleanup.stage \in {"kill", "remove"} => cleanup.seen = dets
       /\ cleanup.stage = "scan" => dets = NoEntries
  /\ registry = "up" =>
       \A w \in WorkerIds :
         /\ dets[w].run \in {0, run}
         /\ cleanup.seen[w] # NoEntry => phase[w] = "gone" /\ cleanup.seen[w] = Reservation

\* The living worker of this run is on record.
OnRecord ==
  \A w \in WorkerIds :
    phase[w] = "up" /\ named[w] = run /\ ProcessAlive(process_pid[w]) =>
      ets[w] = Activation(w) /\ dets[w] = Activation(w)

ServerLives(p) == proc[p] = "alive" /\ cmd[p] # 0

\* A server of an earlier application that was on record lives until the startup
\* cleanup kills, and the entry that names it is there until then.
OrphansKnown ==
  \A p \in Pids : ServerLives(p) =>
    /\ registry # "off" /\ cmd[p] < beam =>
         /\ registry = "up" => ~scan
         /\ p \in known => /\ registry = "starting" /\ cleanup.stage \in {"read", "kill"}
                           /\ \E w \in WorkerIds : Matches(dets[w], p)
    /\ app = "stopped" => cmd[p] # run

RegistryInv == EntriesWell /\ Attached /\ CleanupKnows /\ OnRecord /\ OrphansKnown

\* The entries that remain are well-formed, whatever is written, dropped or synced.
LEMMA EntriesWellStep ==
  ASSUME RegistryTypes, EntriesWell, Attached, [RegistryNext]_regVars
  PROVE  EntriesWell'
<1> USE RegistryAssumption DEF tables, timers, control, actors, system
<1>0. /\ run \in Nat /\ WellFormed(NoEntry) /\ NoEntry.run = 0
      /\ \A w \in WorkerIds : /\ ets[w].run \in Nat /\ dets[w].run \in Nat /\ disk[w].run \in Nat
                              /\ NoEntries[w] = NoEntry
  BY DEF RegistryTypes, Entry, WellFormed, NoEntry, NoEntries
<1>1. CASE StartApplication \/ RegistryRestarts
  <2>1. PICK t \in {disk, dets} : FreshRegistry(t)
    BY <1>1 DEF StartApplication, RegistryRestarts
  <2>2. run' = run + 1 /\ ets' = NoEntries /\ dets' = t /\ disk' = t
    BY <2>1 DEF FreshRegistry
  <2> QED BY <1>0, <2>2 DEF EntriesWell
<1>2. CASE BeamCrashes \/ EndStop
  <2>1. PICK t \in {disk, dets} : \E how : BeamEnds(how, t)
    BY <1>2 DEF BeamCrashes, EndStop
  <2>2. run' = run /\ ets' = NoEntries /\ dets' = t /\ disk' = t /\ registry' = "off"
    BY <2>1 DEF BeamEnds
  <2> QED BY <1>0, <2>2 DEF EntriesWell
<1>3. ASSUME run' = run, registry # "off" \/ registry' = registry,
             \A w \in WorkerIds : /\ ets'[w] \in {ets[w], NoEntry}
                                  /\ dets'[w] \in {dets[w], NoEntry}
                                       \cup (IF registry # "off" THEN {ets[w]} ELSE {})
                                  /\ disk'[w] \in {disk[w], dets[w], dets'[w]}
      PROVE  EntriesWell'
  <2> SUFFICES ASSUME NEW w \in WorkerIds
               PROVE  /\ WellFormed(dets'[w]) /\ dets'[w].run <= run
                      /\ WellFormed(disk'[w]) /\ disk'[w].run <= run
                      /\ WellFormed(ets'[w]) /\ (registry' # "off" => ets'[w].run \in {0, run})
                      /\ (registry' # "off" => run > 0)
    BY <1>3 DEF EntriesWell
  <2>1. /\ WellFormed(dets[w]) /\ dets[w].run <= run
        /\ WellFormed(disk[w]) /\ disk[w].run <= run
        /\ WellFormed(ets[w]) /\ (registry # "off" => ets[w].run \in {0, run})
        /\ (registry # "off" => run > 0)
    BY DEF EntriesWell
  <2>2. WellFormed(dets'[w]) /\ dets'[w].run <= run
    BY <1>0, <1>3, <2>1
  <2>3. WellFormed(disk'[w]) /\ disk'[w].run <= run
    BY <1>3, <2>1, <2>2
  <2>4. WellFormed(ets'[w]) /\ (registry' # "off" => ets'[w].run \in {0, run})
    BY <1>0, <1>3, <2>1
  <2> QED BY <1>3, <2>1, <2>2, <2>3, <2>4
<1>4. CASE \/ BeginStop \/ Sync \/ UNCHANGED regVars \/ StartCleanup \/ CleanupReads
           \/ CleanupKills \/ CleanupDies \/ CleanupScans
           \/ \E p \in Pids : ProcessEnds(p) \/ ProgramStarts(p)
  <2>1. /\ run' = run /\ (registry # "off" \/ registry' = registry)
        /\ ets' = ets /\ dets' = dets /\ disk' \in {disk, dets}
    BY <1>4 DEF BeginStop, Sync, regVars, StartCleanup, CleanupReads, CleanupKills, CleanupDies,
       CleanupScans, ProcessEnds, ProgramStarts, RegistryTypes
  <2> QED BY <1>3, <2>1
<1>5. CASE CleanupRemoves
  BY <1>3, <1>5 DEF CleanupRemoves, Drop
<1>6. ASSUME NEW w \in WorkerIds,
             \/ NameRun(w) \/ InitFails(w) \/ WorkerKilled(w) \/ TerminateWorker(w)
             \/ \E p \in Pids : Spawn(w, p)
      PROVE  EntriesWell'
  BY <1>3, <1>6 DEF NameRun, InitFails, WorkerKilled, TerminateWorker, Spawn
<1>7. ASSUME NEW w \in WorkerIds, Reserve(w) \/ Activate(w) PROVE EntriesWell'
  <2>1. /\ registry = "up" /\ run' = run /\ disk' = disk /\ registry' = registry
        /\ \/ ets' = ets /\ dets' = [dets EXCEPT ![w] = Reservation]
           \/ /\ ets' = [ets EXCEPT ![w] = Activation(w)]
              /\ dets' = [dets EXCEPT ![w] = Activation(w)]
              /\ process_pid[w] \in Pids
    BY <1>7 DEF Reserve, Activate, Attached
  <2>2. run > 0
    BY <2>1 DEF EntriesWell
  <2>3. WellFormed(Reservation) /\ Reservation.run = run
    BY <2>2 DEF WellFormed, Reservation
  <2>4. process_pid[w] \in Pids => WellFormed(Activation(w)) /\ Activation(w).run = run
    BY <2>2 DEF WellFormed, Activation
  <2>5. ets \in [WorkerIds -> Entry] /\ dets \in [WorkerIds -> Entry]
    BY DEF RegistryTypes
  <2> QED BY <1>0, <2>1, <2>2, <2>3, <2>4, <2>5 DEF EntriesWell
<1>8. ASSUME NEW w \in WorkerIds, Unregister(w) PROVE EntriesWell'
  BY <1>3, <1>8 DEF Unregister, Keep, Forget, Drop
<1>9. ASSUME NEW w \in WorkerIds, NEW p \in Pids, NEW n \in 1..Attempts, UnregisterRetry(w, p, n)
      PROVE  EntriesWell'
  BY <1>3, <1>9 DEF UnregisterRetry, Forget, Drop
<1>10. CASE CleanupDeadWorkers
  BY <1>3, <1>10 DEF CleanupDeadWorkers, Drop
<1> QED
  BY <1>1, <1>2, <1>4, <1>5, <1>6, <1>7, <1>8, <1>9, <1>10 DEF RegistryNext

\* A signal starts and ends no process.
LEMMA KilledStay ==
  ASSUME NEW S, Kill(S), proc \in [Pids -> {"none", "alive", "doomed"}]
  PROVE  \A p \in Pids : /\ proc'[p] = "none" <=> proc[p] = "none"
                         /\ proc'[p] = "alive" => proc[p] = "alive" /\ p \notin S
                         /\ proc'[p] = "doomed" /\ proc[p] # "doomed" => p \in S
BY DEF Kill

\* A worker keeps its process, and the process its run id.
LEMMA AttachedStep ==
  ASSUME RegistryTypes, Attached, [RegistryNext]_regVars
  PROVE  Attached'
<1> USE RegistryAssumption DEF tables, timers, control, actors, system
<1>0. /\ run \in Nat /\ named \in [WorkerIds -> 0..run] /\ beam \in 0..run
      /\ process_pid \in [WorkerIds -> Pids \cup {NoPid}]
      /\ proc \in [Pids -> {"none", "alive", "doomed"}] /\ cmd \in [Pids -> 0..run]
      /\ phase \in [WorkerIds -> {"none", "reserved", "named", "spawned", "up", "gone"}]
  BY DEF RegistryTypes
<1>1. ASSUME UNCHANGED <<beam, run, actors, cmd>>, casts' \subseteq casts,
             \A p \in Pids : proc'[p] = "none" <=> proc[p] = "none",
             registry' = registry \/ (registry # "off" /\ registry' = "up")
      PROVE  Attached'
  BY <1>1 DEF Attached
<1>2. CASE StartApplication
  <2>1. /\ registry = "off" /\ registry' = "starting" /\ casts' = {}
        /\ UNCHANGED <<actors, system>>
    BY <1>2 DEF StartApplication, FreshRegistry
  <2> QED BY <1>0, <2>1 DEF Attached
<1>3. CASE RegistryRestarts
  <2>1. /\ registry # "off" /\ registry' = "starting" /\ casts' = {} /\ run' = run + 1
        /\ UNCHANGED <<beam, actors, system>>
    BY <1>3 DEF RegistryRestarts, FreshRegistry
  <2> QED BY <1>0, <2>1 DEF Attached
<1>4. CASE BeamCrashes \/ EndStop
  <2>1. \E how, t : BeamEnds(how, t)
    BY <1>4 DEF BeamCrashes, EndStop
  <2>2. /\ registry' = "off" /\ casts' = {} /\ UNCHANGED cmd
        /\ phase' = [w \in WorkerIds |-> "none"] /\ process_pid' = [w \in WorkerIds |-> NoPid]
    BY <2>1 DEF BeamEnds
  <2>3. \A p \in Pids : proc'[p] = "none" <=> proc[p] = "none"
    BY <1>0, <1>4, KilledStay DEF BeamCrashes, EndStop
  <2> QED BY <2>2, <2>3 DEF Attached
<1>5. CASE \/ BeginStop \/ Sync \/ UNCHANGED regVars \/ StartCleanup \/ CleanupReads
           \/ CleanupRemoves \/ CleanupDies \/ CleanupDeadWorkers
           \/ \E w \in WorkerIds : \/ Unregister(w)
                                   \/ \E p \in Pids, n \in 1..Attempts : UnregisterRetry(w, p, n)
  BY <1>1, <1>5 DEF BeginStop, Sync, regVars, StartCleanup, CleanupReads, CleanupRemoves,
     CleanupDies, CleanupDeadWorkers, Unregister, UnregisterRetry
<1>6. CASE CleanupKills \/ CleanupScans
  <2>1. \A p \in Pids : proc'[p] = "none" <=> proc[p] = "none"
    BY <1>0, <1>6, KilledStay DEF CleanupKills, CleanupScans
  <2>2. /\ UNCHANGED <<beam, run, actors, cmd>> /\ casts' = casts
        /\ registry' = registry \/ (registry # "off" /\ registry' = "up")
    BY <1>6 DEF CleanupKills, CleanupScans, RegistryTypes
  <2> QED BY <1>1, <2>1, <2>2
<1>7. ASSUME NEW v \in WorkerIds, NameRun(v) PROVE Attached'
  <2>1. /\ registry = "up" /\ phase[v] = "reserved" /\ registry' = registry
        /\ phase' = [phase EXCEPT ![v] = "named"] /\ named' = [named EXCEPT ![v] = run]
        /\ UNCHANGED <<beam, run, casts, process_pid, system>>
    BY <1>7 DEF NameRun
  <2> QED BY <1>0, <2>1 DEF Attached
<1>8. ASSUME NEW v \in WorkerIds, NEW p \in Pids, Spawn(v, p) PROVE Attached'
  <2>1. /\ phase[v] = "named" /\ Unused(p)
        /\ phase' = [phase EXCEPT ![v] = "spawned"]
        /\ process_pid' = [process_pid EXCEPT ![v] = p]
        /\ proc' = [proc EXCEPT ![p] = "alive"] /\ cmd' = [cmd EXCEPT ![p] = named[v]]
        /\ UNCHANGED <<registry, beam, run, casts, named>>
    BY <1>8 DEF Spawn
  <2>2. \A w \in WorkerIds : process_pid[w] # p
    BY <2>1 DEF Unused
  <2> QED BY <1>0, <2>1, <2>2 DEF Attached
<1>9. ASSUME NEW v \in WorkerIds, Reserve(v) \/ Activate(v) PROVE Attached'
  <2>1. /\ UNCHANGED <<registry, beam, run, casts, named, process_pid, system>>
        /\ registry = "up"
        /\ \/ v \notin casts /\ phase[v] = "none" /\ phase' = [phase EXCEPT ![v] = "reserved"]
           \/ phase[v] = "spawned" /\ phase' = [phase EXCEPT ![v] = "up"]
    BY <1>9 DEF Reserve, Activate
  <2> QED BY <1>0, <2>1 DEF Attached
<1>10. ASSUME NEW v \in WorkerIds, InitFails(v) \/ WorkerKilled(v) \/ TerminateWorker(v)
       PROVE  Attached'
  <2>1. PICK to \in {"none", "gone"} : Leave(v, to) /\ (to = "gone" => casts' = casts)
    BY <1>10 DEF InitFails, WorkerKilled, TerminateWorker
  <2>2. /\ phase[v] # "none" /\ casts' \subseteq casts \cup {v} /\ (casts' # casts => to = "none")
        /\ UNCHANGED <<registry, beam, run, cmd>>
        /\ \A p \in Pids : proc'[p] = "none" <=> proc[p] = "none"
    BY <1>0, <1>10, <2>1, KilledStay DEF InitFails, WorkerKilled, TerminateWorker
  <2>3. /\ phase' = [phase EXCEPT ![v] = to] /\ named' = [named EXCEPT ![v] = 0]
        /\ process_pid' = [process_pid EXCEPT ![v] = NoPid]
    BY <2>1 DEF Leave
  <2> QED BY <1>0, <2>1, <2>2, <2>3 DEF Attached
<1>11. ASSUME NEW p \in Pids, ProcessEnds(p) \/ ProgramStarts(p) PROVE Attached'
  <2>1. CASE ProcessEnds(p)
    BY <1>0, <2>1 DEF ProcessEnds, Attached
  <2>2. CASE ProgramStarts(p)
    <3>1. /\ \A w \in WorkerIds : process_pid[w] # p
          /\ proc' = [proc EXCEPT ![p] = "alive"]
          /\ UNCHANGED <<registry, beam, run, casts, actors, cmd>>
      BY <2>2 DEF ProgramStarts, Unused
    <3> QED BY <1>0, <3>1 DEF Attached
  <2> QED BY <1>11, <2>1, <2>2
<1> QED
  BY <1>2, <1>3, <1>4, <1>5, <1>6, <1>7, <1>8, <1>9, <1>10, <1>11 DEF RegistryNext

\* The startup cleanup empties the file, and a cleanup beside a registry that serves
\* removes only what a failed worker left.
LEMMA CleanupKnowsStep ==
  ASSUME RegistryTypes, EntriesWell, CleanupKnows, [RegistryNext]_regVars
  PROVE  CleanupKnows'
<1> USE RegistryAssumption DEF tables, timers, control, actors, system
<1>0. /\ run \in Nat /\ dets \in [WorkerIds -> Entry] /\ NoEntry.run = 0
      /\ \A w \in WorkerIds : NoEntries[w] = NoEntry
      /\ phase \in [WorkerIds -> {"none", "reserved", "named", "spawned", "up", "gone"}]
  BY DEF RegistryTypes, NoEntry, NoEntries
<1>1. CASE StartApplication \/ RegistryRestarts
  <2>1. PICK t \in {disk, dets} : FreshRegistry(t)
    BY <1>1 DEF StartApplication, RegistryRestarts
  <2>2. run' = run + 1 /\ dets' = t /\ registry' = "starting" /\ cleanup'.stage = "read"
    BY <2>1 DEF FreshRegistry
  <2>3. \A w \in WorkerIds : t[w].run \in Nat /\ t[w].run <= run
    BY <2>1 DEF EntriesWell, RegistryTypes, Entry
  <2> QED BY <1>0, <2>2, <2>3 DEF CleanupKnows
<1>2. CASE BeamCrashes \/ EndStop
  <2>1. \E how, t : BeamEnds(how, t)
    BY <1>2 DEF BeamCrashes, EndStop
  <2> QED BY <2>1 DEF BeamEnds, CleanupKnows
<1>3. ASSUME UNCHANGED <<registry, run, cleanup>>,
             \A w \in WorkerIds : phase[w] = "gone" => phase'[w] = "gone",
             \/ UNCHANGED dets
             \/ registry = "up" /\ \A w \in WorkerIds : dets'[w].run \in {0, run}
      PROVE  CleanupKnows'
  BY <1>3 DEF CleanupKnows, Reservation
<1>4. CASE \/ BeginStop \/ Sync \/ UNCHANGED regVars
           \/ \E p \in Pids : ProcessEnds(p) \/ ProgramStarts(p)
  BY <1>3, <1>4 DEF BeginStop, Sync, regVars, ProcessEnds, ProgramStarts
<1>5. CASE CleanupReads
  <2>1. PICK old \in SUBSET {w \in WorkerIds : phase[w] = "gone" /\ dets[w].status = "reserved"} :
          cleanup' = [stage |-> "kill",
                      seen |-> Drop(dets, {w \in WorkerIds : dets[w].run = run /\ w \notin old})]
    BY <1>5 DEF CleanupReads, Proceed
  <2>2. UNCHANGED <<registry, run, dets, phase>>
    BY <1>5 DEF CleanupReads
  <2>3. cleanup'.stage = "kill"
        /\ \A w \in WorkerIds : cleanup'.seen[w] =
             IF dets[w].run = run /\ w \notin old THEN NoEntry ELSE dets[w]
    BY <2>1 DEF Drop
  <2>4. CASE registry = "starting"
    <3>1. \A w \in WorkerIds : dets[w].run # run
      BY <1>0, <2>4 DEF CleanupKnows, Entry
    <3>2. cleanup'.seen = [w \in WorkerIds |-> dets[w]]
      BY <2>1, <3>1 DEF Drop
    <3> QED BY <1>0, <2>2, <2>3, <2>4, <3>2 DEF CleanupKnows
  <2>5. CASE registry = "up"
    <3>1. ASSUME NEW w \in WorkerIds, cleanup'.seen[w] # NoEntry
          PROVE  phase'[w] = "gone" /\ cleanup'.seen[w] = Reservation'
      <4>1. cleanup'.seen[w] = dets[w] /\ dets[w] # NoEntry /\ (dets[w].run = run => w \in old)
        BY <2>3, <3>1
      <4>2. WellFormed(dets[w]) /\ dets[w].run \in {0, run} /\ dets[w] \in Entry
        BY <1>0, <2>5 DEF EntriesWell, CleanupKnows
      <4>3. dets[w].run = run /\ w \in old
        BY <4>1, <4>2 DEF WellFormed
      <4>4. phase[w] = "gone" /\ dets[w].status = "reserved"
        BY <2>1, <4>3
      <4>5. dets[w].pid = NoPid
        BY <4>1, <4>2, <4>4 DEF WellFormed
      <4>6. dets[w] = Reservation
        BY <4>2, <4>3, <4>4, <4>5 DEF Entry, Reservation
      <4> QED BY <2>2, <4>1, <4>4, <4>6 DEF Reservation
    <3> QED BY <2>2, <2>5, <3>1 DEF CleanupKnows
  <2> QED BY <1>5, <2>4, <2>5 DEF CleanupReads, RegistryTypes
<1>6. CASE CleanupKills
  <2>1. /\ cleanup.stage = "kill" /\ cleanup' = [stage |-> "remove", seen |-> cleanup.seen]
        /\ UNCHANGED <<registry, run, dets, phase>>
    BY <1>6 DEF CleanupKills, Proceed
  <2> QED BY <2>1 DEF CleanupKnows, Reservation
<1>7. CASE CleanupRemoves
  <2>1. /\ cleanup.stage = "remove" /\ cleanup' = [stage |-> "scan", seen |-> NoEntries]
        /\ dets' = Drop(dets, {w \in WorkerIds : cleanup.seen[w] # NoEntry})
        /\ UNCHANGED <<registry, run, phase>>
    BY <1>7 DEF CleanupRemoves, Proceed
  <2>2. CASE registry = "starting"
    <3>1. cleanup.seen = dets
      BY <2>1, <2>2 DEF CleanupKnows
    <3>2. dets' = NoEntries
      BY <2>1, <3>1 DEF Drop, NoEntries
    <3>3. \A w \in WorkerIds : dets'[w].run < run
      BY <1>0, <2>2, <3>2 DEF EntriesWell
    <3> QED BY <2>1, <2>2, <3>2, <3>3 DEF CleanupKnows
  <2>3. CASE registry # "starting"
    BY <1>0, <2>1, <2>3 DEF CleanupKnows, Drop
  <2> QED BY <2>2, <2>3
<1>8. CASE CleanupScans
  <2>1. /\ cleanup.stage = "scan" /\ cleanup'.seen = NoEntries /\ registry' = "up"
        /\ UNCHANGED <<run, dets>> /\ registry # "off"
    BY <1>8 DEF CleanupScans, Proceed, RegistryTypes
  <2>2. \A w \in WorkerIds : dets[w].run \in {0, run}
    BY <1>0, <2>1 DEF CleanupKnows, RegistryTypes
  <2> QED BY <1>0, <2>1, <2>2 DEF CleanupKnows
<1>9. CASE StartCleanup \/ CleanupDies
  BY <1>0, <1>9 DEF StartCleanup, CleanupDies, Proceed, CleanupKnows
<1>10. ASSUME NEW v \in WorkerIds, \/ NameRun(v) \/ InitFails(v) \/ WorkerKilled(v)
              \/ TerminateWorker(v) \/ \E p \in Pids : Spawn(v, p)
       PROVE  CleanupKnows'
  <2>1. UNCHANGED <<registry, run, cleanup, dets>>
    BY <1>10 DEF NameRun, InitFails, WorkerKilled, TerminateWorker, Spawn
  <2>2. phase[v] # "gone" /\ (\E to : phase' = [phase EXCEPT ![v] = to])
    BY <1>10 DEF NameRun, InitFails, WorkerKilled, TerminateWorker, Spawn, Leave
  <2> QED BY <1>0, <1>3, <2>1, <2>2
<1>11. ASSUME NEW v \in WorkerIds, Reserve(v) \/ Activate(v) PROVE CleanupKnows'
  <2>1. /\ UNCHANGED <<registry, run, cleanup>> /\ registry = "up" /\ phase[v] # "gone"
    BY <1>11 DEF Reserve, Activate
  <2>2. \E to \in {"reserved", "up"} : phase' = [phase EXCEPT ![v] = to]
    BY <1>11 DEF Reserve, Activate
  <2>3. PICK e \in {Reservation, Activation(v)} : dets' = [dets EXCEPT ![v] = e]
    BY <1>11 DEF Reserve, Activate
  <2>4. e.run = run
    BY <2>3 DEF Reservation, Activation
  <2>5. \A w \in WorkerIds : dets'[w].run \in {0, run}
    BY <1>0, <2>1, <2>3, <2>4 DEF CleanupKnows
  <2> QED BY <1>0, <1>3, <2>1, <2>2, <2>5
<1>12. CASE \/ CleanupDeadWorkers
            \/ \E w \in WorkerIds : \/ Unregister(w)
                                    \/ \E p \in Pids, n \in 1..Attempts : UnregisterRetry(w, p, n)
  <2>1. /\ UNCHANGED <<registry, run, cleanup, phase>> /\ registry = "up"
        /\ \A w \in WorkerIds : dets'[w] \in {dets[w], ets[w], NoEntry}
    BY <1>12 DEF CleanupDeadWorkers, Unregister, UnregisterRetry, Keep, Forget, Drop
  <2>2. \A w \in WorkerIds : dets[w].run \in {0, run} /\ ets[w].run \in {0, run}
    BY <2>1 DEF CleanupKnows, EntriesWell
  <2> QED BY <1>0, <1>3, <2>1, <2>2
<1> QED
  BY <1>1, <1>2, <1>4, <1>5, <1>6, <1>7, <1>8, <1>9, <1>10, <1>11, <1>12 DEF RegistryNext

\* No report, retry, cleanup or other worker takes a living worker off the record.
LEMMA OnRecordStep ==
  ASSUME RegistryTypes, Attached, CleanupKnows, OnRecord, [RegistryNext]_regVars
  PROVE  OnRecord'
<1> USE RegistryAssumption DEF tables, timers, control, actors, system
<1> DEFINE Held(w) == phase[w] = "up" /\ named[w] = run /\ ProcessAlive(process_pid[w])
<1>0. /\ run \in Nat /\ named \in [WorkerIds -> 0..run]
      /\ process_pid \in [WorkerIds -> Pids \cup {NoPid}]
      /\ proc \in [Pids -> {"none", "alive", "doomed"}]
      /\ ets \in [WorkerIds -> Entry] /\ dets \in [WorkerIds -> Entry]
      /\ phase \in [WorkerIds -> {"none", "reserved", "named", "spawned", "up", "gone"}]
  BY DEF RegistryTypes
<1>a. \A w \in WorkerIds : Held(w) => /\ ets[w] = Activation(w) /\ dets[w] = Activation(w)
                                      /\ registry = "up" /\ w \notin casts
                                      /\ proc[process_pid[w]] # "none" /\ process_pid[w] \in Pids
  BY <1>0 DEF OnRecord, Attached, ProcessAlive, RegistryTypes
<1>1. ASSUME run' = run,
             \A w \in WorkerIds : Held(w)' => /\ Held(w) /\ process_pid'[w] = process_pid[w]
                                              /\ ets'[w] = ets[w] /\ dets'[w] = dets[w]
      PROVE  OnRecord'
  BY <1>1, <1>a DEF OnRecord, Activation
<1>2. CASE StartApplication \/ RegistryRestarts \/ BeamCrashes \/ EndStop
  <2>1. \A w \in WorkerIds : ~Held(w)'
    <3>1. CASE StartApplication
      BY <3>1 DEF StartApplication, Attached
    <3>2. CASE RegistryRestarts
      BY <1>0, <3>2 DEF RegistryRestarts, FreshRegistry
    <3>3. CASE BeamCrashes \/ EndStop
      BY <3>3 DEF BeamCrashes, EndStop, BeamEnds
    <3> QED BY <1>2, <3>1, <3>2, <3>3
  <2> QED BY <2>1 DEF OnRecord
<1>3. CASE \/ BeginStop \/ Sync \/ UNCHANGED regVars
           \/ StartCleanup \/ CleanupReads \/ CleanupDies
  BY <1>1, <1>3 DEF BeginStop, Sync, regVars, StartCleanup, CleanupReads, CleanupDies, ProcessAlive
<1>4. CASE CleanupKills \/ CleanupScans
  <2>1. \A p \in Pids : proc'[p] = "none" <=> proc[p] = "none"
    BY <1>0, <1>4, KilledStay DEF CleanupKills, CleanupScans
  <2>2. UNCHANGED <<run, ets, dets, actors>>
    BY <1>4 DEF CleanupKills, CleanupScans
  <2> QED BY <1>1, <2>1, <2>2 DEF ProcessAlive
<1>5. CASE CleanupRemoves
  <2>1. /\ dets' = Drop(dets, {w \in WorkerIds : cleanup.seen[w] # NoEntry})
        /\ UNCHANGED <<run, ets, actors, proc>>
    BY <1>5 DEF CleanupRemoves
  <2>2. \A w \in WorkerIds : Held(w)' => Held(w)
    BY <2>1 DEF ProcessAlive
  <2>3. \A w \in WorkerIds : Held(w) => cleanup.seen[w] = NoEntry
    BY <1>a DEF CleanupKnows
  <2>4. \A w \in WorkerIds : Held(w) => dets'[w] = dets[w]
    BY <2>1, <2>3 DEF Drop
  <2> QED BY <1>1, <2>1, <2>2, <2>4
<1>6. ASSUME NEW v \in WorkerIds, NameRun(v) \/ InitFails(v) \/ WorkerKilled(v) PROVE OnRecord'
  <2>1. UNCHANGED <<run, ets, dets, proc>>
    BY <1>6 DEF NameRun, InitFails, WorkerKilled
  <2>2. /\ phase'[v] # "up"
        /\ \A w \in WorkerIds : w # v => /\ phase'[w] = phase[w] /\ named'[w] = named[w]
                                         /\ process_pid'[w] = process_pid[w]
    BY <1>0, <1>6 DEF NameRun, InitFails, WorkerKilled, Leave
  <2> QED BY <1>1, <2>1, <2>2 DEF ProcessAlive
<1>7. ASSUME NEW v \in WorkerIds, TerminateWorker(v) PROVE OnRecord'
  <2>1. /\ UNCHANGED <<run, ets, dets>> /\ Kill({process_pid[v]}) /\ Leave(v, "none")
    BY <1>7 DEF TerminateWorker
  <2>2. /\ phase'[v] # "up"
        /\ \A w \in WorkerIds : w # v => /\ phase'[w] = phase[w] /\ named'[w] = named[w]
                                         /\ process_pid'[w] = process_pid[w]
    BY <1>0, <2>1 DEF Leave
  <2>3. \A p \in Pids : proc'[p] = "none" <=> proc[p] = "none"
    BY <1>0, <2>1, KilledStay
  <2> QED BY <1>1, <2>1, <2>2, <2>3 DEF ProcessAlive
<1>8. ASSUME NEW v \in WorkerIds, NEW p \in Pids, Spawn(v, p) PROVE OnRecord'
  <2>1. /\ UNCHANGED <<run, ets, dets, named>>
        /\ \A w \in WorkerIds : process_pid[w] # p
        /\ proc' = [proc EXCEPT ![p] = "alive"]
        /\ phase' = [phase EXCEPT ![v] = "spawned"]
        /\ process_pid' = [process_pid EXCEPT ![v] = p]
    BY <1>8 DEF Spawn, Unused
  <2> QED BY <1>0, <1>1, <2>1 DEF ProcessAlive
<1>9. ASSUME NEW v \in WorkerIds, Reserve(v) PROVE OnRecord'
  <2>1. /\ UNCHANGED <<run, ets, named, process_pid, proc>> /\ phase[v] = "none"
        /\ phase' = [phase EXCEPT ![v] = "reserved"]
        /\ dets' = [dets EXCEPT ![v] = Reservation]
    BY <1>9 DEF Reserve
  <2> QED BY <1>0, <1>1, <2>1 DEF ProcessAlive
<1>10. ASSUME NEW v \in WorkerIds, Activate(v) PROVE OnRecord'
  <2>1. /\ UNCHANGED <<run, named, process_pid, proc>>
        /\ phase' = [phase EXCEPT ![v] = "up"]
        /\ ets' = [ets EXCEPT ![v] = Activation(v)] /\ dets' = [dets EXCEPT ![v] = Activation(v)]
    BY <1>10 DEF Activate
  <2>2. \A w \in WorkerIds : Activation(w)' = Activation(w)
    BY <2>1 DEF Activation
  <2>3. \A w \in WorkerIds : w # v => (Held(w)' => Held(w))
    BY <1>0, <2>1 DEF ProcessAlive
  <2> QED BY <1>0, <1>a, <2>1, <2>2, <2>3 DEF OnRecord
<1>11. ASSUME NEW v \in WorkerIds, Unregister(v) PROVE OnRecord'
  <2>1. /\ v \in casts /\ UNCHANGED <<run, actors, proc>>
        /\ \A w \in WorkerIds : w # v => ets'[w] = ets[w] /\ dets'[w] = dets[w]
    BY <1>11 DEF Unregister, Keep, Forget, Drop
  <2>2. \A w \in WorkerIds : Held(w)' => Held(w)
    BY <2>1 DEF ProcessAlive
  <2>3. \A w \in WorkerIds : Held(w) => w # v
    BY <1>a, <2>1
  <2> QED BY <1>1, <2>1, <2>2, <2>3
<1>12. ASSUME NEW v \in WorkerIds, NEW p \in Pids, NEW n \in 1..Attempts, UnregisterRetry(v, p, n)
       PROVE  OnRecord'
  <2>1. /\ UNCHANGED <<run, actors, proc>>
        /\ \/ UNCHANGED tables
           \/ ets[v].pid = p /\ ~ProcessAlive(p) /\ Forget({v})
    BY <1>12 DEF UnregisterRetry
  <2>2. \A w \in WorkerIds : Held(w)' => Held(w)
    BY <2>1 DEF ProcessAlive
  <2>3. \A w \in WorkerIds : Held(w) => ets'[w] = ets[w] /\ dets'[w] = dets[w]
    <3>1. CASE UNCHANGED tables
      BY <3>1
    <3>2. CASE ets[v].pid = p /\ ~ProcessAlive(p) /\ Forget({v})
      <4>1. \A w \in WorkerIds : w # v => ets'[w] = ets[w] /\ dets'[w] = dets[w]
        BY <3>2 DEF Forget, Drop
      <4>2. ASSUME Held(v) PROVE FALSE
        <5>1. ets[v] = Activation(v)
          BY <1>a, <4>2
        <5>2. Activation(v).pid = process_pid[v]
          BY DEF Activation
        <5> QED BY <3>2, <4>2, <5>1, <5>2
      <4> QED BY <4>1, <4>2
    <3> QED BY <2>1, <3>1, <3>2
  <2> QED BY <1>1, <2>1, <2>2, <2>3
<1>13. CASE CleanupDeadWorkers
  <2>1. /\ UNCHANGED <<run, actors, proc>>
        /\ \A w \in WorkerIds : ElixirAlive(w) => ets'[w] = ets[w] /\ dets'[w] = dets[w]
    <3> DEFINE dead == {w \in WorkerIds : ets[w] # NoEntry /\ ~ElixirAlive(w)}
               left == {w \in dead : ProcessAlive(ets[w].pid)}
    <3>1. /\ ets' = Drop(ets, dead \ left)
          /\ dets' = [w \in WorkerIds |-> IF w \in left THEN ets[w]
                                          ELSE IF w \in dead THEN NoEntry ELSE dets[w]]
          /\ UNCHANGED <<run, actors, proc>>
      BY <1>13 DEF CleanupDeadWorkers
    <3>2. /\ \A w \in WorkerIds : ElixirAlive(w) => w \notin dead
          /\ left \subseteq dead
      OBVIOUS
    <3> HIDE DEF dead, left
    <3>3. \A w \in WorkerIds : w \notin dead => ets'[w] = ets[w] /\ dets'[w] = dets[w]
      BY <3>1, <3>2 DEF Drop
    <3> QED BY <3>1, <3>2, <3>3
  <2>2. \A w \in WorkerIds : Held(w)' => Held(w)
    BY <2>1 DEF ProcessAlive
  <2>3. \A w \in WorkerIds : Held(w) => ElixirAlive(w)
    <3>1. \A w \in WorkerIds : Activation(w).pid = process_pid[w]
      BY DEF Activation
    <3> QED BY <1>a, <3>1 DEF ElixirAlive
  <2> QED BY <1>1, <2>1, <2>2, <2>3
<1>14. ASSUME NEW p \in Pids, ProcessEnds(p) \/ ProgramStarts(p) PROVE OnRecord'
  <2>1. UNCHANGED <<run, ets, dets, actors>>
    BY <1>14 DEF ProcessEnds, ProgramStarts
  <2>2. \A w \in WorkerIds : Held(w)' => Held(w)
    BY <1>0, <1>14, <2>1 DEF ProcessEnds, ProgramStarts, Unused, ProcessAlive
  <2> QED BY <1>1, <2>1, <2>2
<1> QED
  BY <1>2, <1>3, <1>4, <1>5, <1>6, <1>7, <1>8, <1>9, <1>10, <1>11, <1>12, <1>13, <1>14
     DEF RegistryNext

\* An orphan is killed before its entry goes, and an orderly stop leaves none.
LEMMA OrphansKnownStep ==
  ASSUME RegistryTypes, Attached, CleanupKnows, OrphansKnown, [RegistryNext]_regVars
  PROVE  OrphansKnown'
<1> USE RegistryAssumption DEF tables, timers, control, actors, system
<1>0. /\ run \in Nat /\ beam \in 0..run /\ named \in [WorkerIds -> 0..run]
      /\ proc \in [Pids -> {"none", "alive", "doomed"}] /\ cmd \in [Pids -> 0..run]
      /\ registry = "off" <=> app \notin {"up", "stopping"}
  BY DEF RegistryTypes
<1>1. ASSUME UNCHANGED <<app, registry, run, beam, scan, known>>,
             cleanup' = cleanup \/ registry = "up",
             dets' = dets \/ registry = "up",
             \A p \in Pids : ServerLives(p)' => ServerLives(p) /\ cmd'[p] = cmd[p]
      PROVE  OrphansKnown'
  BY <1>1 DEF OrphansKnown, Matches
<1>2. CASE StartApplication
  <2>1. /\ registry' = "starting" /\ cleanup'.stage = "read" /\ dets' = disk /\ app' = "up"
        /\ known' = Found(disk) /\ UNCHANGED system
    BY <1>2 DEF StartApplication, FreshRegistry
  <2>2. \A p \in known' : \E w \in WorkerIds : Matches(dets[w], p)'
    BY <2>1 DEF Found, Matches
  <2> QED BY <2>1, <2>2 DEF OrphansKnown
<1>3. CASE RegistryRestarts
  <2>1. /\ registry # "off" /\ registry' = "starting" /\ cleanup'.stage = "read" /\ dets' = dets
        /\ UNCHANGED <<app, beam, known, system>>
    BY <1>3 DEF RegistryRestarts, FreshRegistry
  <2>2. app' # "stopped"
    BY <1>0, <2>1
  <2> QED BY <2>1, <2>2 DEF OrphansKnown, ServerLives, Matches
<1>4. CASE BeamCrashes
  <2>1. registry' = "off" /\ app' = "crashed"
    BY <1>4 DEF BeamCrashes, BeamEnds
  <2> QED BY <2>1 DEF OrphansKnown
<1>5. CASE EndStop
  <2>1. registry' = "off" /\ UNCHANGED <<run, cmd>>
    BY <1>5 DEF EndStop, BeamEnds
  <2>2. CASE app' = "stopped"
    <3>1. Kill(Orphans)
      BY <1>5, <2>2 DEF EndStop, BeamEnds
    <3>2. \A p \in Pids : proc'[p] = "alive" => p \notin Orphans
      BY <1>0, <3>1, KilledStay
    <3> QED BY <2>1, <3>2 DEF OrphansKnown, ServerLives, Orphans
  <2>3. CASE app' # "stopped"
    BY <2>1, <2>3 DEF OrphansKnown
  <2> QED BY <2>2, <2>3
<1>6. CASE BeginStop
  <2>1. /\ UNCHANGED <<registry, beam, scan, known, cleanup, dets, system>> /\ app' = "stopping"
    BY <1>6 DEF BeginStop
  <2> QED BY <2>1 DEF OrphansKnown, ServerLives, Matches
<1>7. CASE Sync \/ UNCHANGED regVars \/ StartCleanup \/ CleanupDies
  BY <1>1, <1>7 DEF Sync, regVars, StartCleanup, CleanupDies, ServerLives
<1>8. CASE CleanupReads
  <2>1. /\ UNCHANGED <<app, registry, run, beam, scan, known, dets, proc, cmd>>
        /\ cleanup'.stage = "kill"
    BY <1>8 DEF CleanupReads, Proceed
  <2>2. \A p \in Pids : /\ ServerLives(p)' <=> ServerLives(p)
                       /\ \A w \in WorkerIds : Matches(dets[w], p)' <=> Matches(dets[w], p)
    BY <2>1 DEF ServerLives, Matches
  <2> QED BY <2>1, <2>2 DEF OrphansKnown
<1>9. CASE CleanupKills
  <2>1. /\ cleanup.stage = "kill" /\ Kill(Found(cleanup.seen)) /\ registry # "off"
        /\ UNCHANGED <<app, registry, run, beam, scan, known, dets, cmd>>
    BY <1>9 DEF CleanupKills, RegistryTypes
  <2>2. \A p \in Pids : proc'[p] = "alive" => proc[p] = "alive" /\ p \notin Found(cleanup.seen)
    BY <1>0, <2>1, KilledStay
  <2>3. registry = "starting" => cleanup.seen = dets
    BY <2>1 DEF CleanupKnows
  <2>4. ASSUME NEW p \in Pids, ServerLives(p)', cmd[p] < beam, p \in known PROVE FALSE
    <3>1. ServerLives(p) /\ p \notin Found(cleanup.seen)
      BY <2>1, <2>2, <2>4 DEF ServerLives
    <3>2. registry = "starting" /\ \E w \in WorkerIds : Matches(dets[w], p)
      BY <2>1, <2>4, <3>1 DEF OrphansKnown
    <3> QED BY <2>3, <3>1, <3>2 DEF Found
  <2>5. app' # "stopped"
    BY <1>0, <2>1
  <2>6. \A p \in Pids : ServerLives(p)' /\ cmd[p] < beam => (registry = "up" => ~scan)
    BY <2>1, <2>2 DEF OrphansKnown, ServerLives
  <2> QED BY <2>1, <2>4, <2>5, <2>6 DEF OrphansKnown
<1>10. CASE CleanupRemoves
  <2>1. /\ cleanup.stage = "remove" /\ registry # "off"
        /\ UNCHANGED <<app, registry, run, beam, scan, known, system>>
    BY <1>10 DEF CleanupRemoves, RegistryTypes
  <2>2. \A p \in Pids : ServerLives(p) /\ cmd[p] < beam => p \notin known
    BY <2>1 DEF OrphansKnown
  <2> QED BY <2>1, <2>2 DEF OrphansKnown, ServerLives
<1>11. CASE CleanupScans
  <2>1. /\ cleanup.stage = "scan" /\ registry # "off" /\ registry' = "up"
        /\ Kill(IF scan THEN Rogues ELSE {})
        /\ UNCHANGED <<app, run, beam, scan, known, cmd>>
    BY <1>11 DEF CleanupScans, RegistryTypes
  <2>2. \A p \in Pids : proc'[p] = "alive" => proc[p] = "alive" /\ (scan => p \notin Rogues)
    BY <1>0, <2>1, KilledStay
  <2>3. \A p \in Pids : ServerLives(p)' /\ cmd[p] < beam => p \notin known /\ ~scan
    BY <1>0, <2>1, <2>2 DEF OrphansKnown, ServerLives, Rogues
  <2>4. app # "stopped"
    BY <1>0, <2>1
  <2> QED BY <2>1, <2>3, <2>4 DEF OrphansKnown
<1>12. ASSUME NEW v \in WorkerIds,
              \/ NameRun(v) \/ InitFails(v) \/ WorkerKilled(v) \/ Reserve(v) \/ Activate(v)
              \/ Unregister(v) \/ \E p \in Pids, n \in 1..Attempts : UnregisterRetry(v, p, n)
       PROVE  OrphansKnown'
  BY <1>1, <1>12 DEF NameRun, InitFails, WorkerKilled, Reserve, Activate, Unregister,
     UnregisterRetry, ServerLives
<1>13. ASSUME NEW v \in WorkerIds, TerminateWorker(v) PROVE OrphansKnown'
  <2>1. /\ UNCHANGED <<app, registry, run, beam, scan, known, cleanup, dets, cmd>>
        /\ Kill({process_pid[v]})
    BY <1>13 DEF TerminateWorker
  <2>2. \A p \in Pids : proc'[p] = "alive" => proc[p] = "alive"
    BY <1>0, <2>1, KilledStay
  <2> QED BY <1>1, <2>1, <2>2 DEF ServerLives
<1>14. ASSUME NEW v \in WorkerIds, NEW p \in Pids, Spawn(v, p) PROVE OrphansKnown'
  <2>1. /\ UNCHANGED <<app, registry, run, beam, scan, known, cleanup, dets>>
        /\ phase[v] = "named" /\ cmd' = [cmd EXCEPT ![p] = named[v]]
        /\ proc' = [proc EXCEPT ![p] = "alive"]
    BY <1>14 DEF Spawn
  <2>2. beam <= named[v] /\ registry # "off"
    BY <2>1 DEF Attached
  <2>3. app # "stopped"
    BY <1>0, <2>2
  <2>4. ~(cmd'[p] < beam)
    BY <1>0, <2>1, <2>2
  <2>5. \A q \in Pids : q # p => proc'[q] = proc[q] /\ cmd'[q] = cmd[q]
    BY <1>0, <2>1
  <2> QED BY <2>1, <2>3, <2>4, <2>5 DEF OrphansKnown, ServerLives, Matches
<1>15. CASE CleanupDeadWorkers
  BY <1>1, <1>15 DEF CleanupDeadWorkers, ServerLives
<1>16. ASSUME NEW p \in Pids, ProcessEnds(p) \/ ProgramStarts(p) PROVE OrphansKnown'
  <2>1. UNCHANGED <<app, registry, run, beam, scan, known, cleanup, dets>>
    BY <1>16 DEF ProcessEnds, ProgramStarts
  <2>2. \A q \in Pids : ServerLives(q)' => ServerLives(q) /\ cmd'[q] = cmd[q]
    BY <1>0, <1>16 DEF ProcessEnds, ProgramStarts, Unused, ServerLives, Attached
  <2> QED BY <1>1, <2>1, <2>2
<1> QED
  BY <1>2, <1>3, <1>4, <1>5, <1>6, <1>7, <1>8, <1>9, <1>10, <1>11, <1>12, <1>13, <1>14, <1>15, <1>16
     DEF RegistryNext

\* What InitRegistry holds is well-typed and has no entry, worker or process.
LEMMA RegistryStarts ==
  ASSUME InitRegistry
  PROVE  RegistryTypes /\ RegistryInv
<1> USE RegistryAssumption DEF InitRegistry
<1>1. NoEntry \in Entry /\ NoEntries \in [WorkerIds -> Entry] /\ WellFormed(NoEntry)
  BY DEF NoEntry, NoEntries, Entry, WellFormed
<1>2. RegistryTypes
  BY <1>1 DEF RegistryTypes
<1>3. \A w \in WorkerIds : NoEntries[w] = NoEntry /\ NoEntry.run = 0
  BY DEF NoEntries, NoEntry
<1>4. EntriesWell
  BY <1>1, <1>3 DEF EntriesWell
<1>5. Attached /\ CleanupKnows /\ OnRecord /\ OrphansKnown
  BY DEF Attached, CleanupKnows, OnRecord, OrphansKnown, ServerLives
<1> QED BY <1>2, <1>4, <1>5 DEF RegistryInv

\* The tables and the variables beside them are always well-typed, and what the
\* registry's entries say of runs, workers and processes always holds.
THEOREM RegistryInvariant == RegistrySpec => [](RegistryTypes /\ RegistryInv)
<1>1. InitRegistry => RegistryTypes /\ RegistryInv
  BY RegistryStarts
<1>2. RegistryTypes /\ RegistryInv /\ [RegistryNext]_regVars => (RegistryTypes /\ RegistryInv)'
  BY RegistryTypesStep, EntriesWellStep, AttachedStep, CleanupKnowsStep, OnRecordStep,
     OrphansKnownStep DEF RegistryInv
<1> QED BY <1>1, <1>2, PTL DEF RegistrySpec

\* Once the registry serves, no process of an earlier application lives that was on
\* record on disk or that the scan could see, wherever BEAM or registry crashed;
\* after an orderly stop none of the last run does (cleanup_orphaned_processes/7,
\* ApplicationCleanup).
THEOREM NoOrphanSurvives == RegistrySpec => []OrphansGone
<1>1. RegistryTypes /\ RegistryInv => OrphansGone
  <2> SUFFICES ASSUME RegistryTypes, RegistryInv, NEW p \in Pids,
                      proc[p] = "alive", cmd[p] # 0
               PROVE  /\ registry = "up" /\ cmd[p] < beam => ~scan /\ p \notin known
                      /\ app = "stopped" => cmd[p] # run
    BY DEF OrphansGone
  <2> QED BY DEF RegistryInv, OrphansKnown, ServerLives
<1> QED BY <1>1, RegistryInvariant, PTL

\* The record of a worker of this run whose process lives stays in both tables,
\* whatever retry, cleanup or late report of an earlier worker with its id comes.
THEOREM RecordsKept == RegistrySpec => []RunningRecorded
<1>1. RegistryTypes /\ RegistryInv => RunningRecorded
  BY DEF RegistryInv, OnRecord, RunningRecorded
<1> QED BY <1>1, RegistryInvariant, PTL

\* A cleanup kills servers of this instance, and a worker of this run only for a
\* reservation of this run: the run id on the command line, not the pid, decides.
THEOREM WorkersAreSpared == RegistrySpec => CleanupSparesWorkers
<1>1. ASSUME RegistryTypes, RegistryInv, CleanupKills \/ CleanupScans
      PROVE  WorkersSpared
  <2> SUFFICES ASSUME NEW p \in Pids, proc[p] = "alive", proc'[p] = "doomed"
               PROVE  /\ cmd[p] # 0
                      /\ \/ \A w \in WorkerIds : named[w] = run => process_pid[w] # p
                         \/ \E w \in WorkerIds : cleanup.seen[w] = Reservation
    BY DEF WorkersSpared
  <2>0. \A S : Kill(S) => p \in S
    BY DEF Kill
  <2>1. registry \in {"starting", "up"} /\ run \in Nat /\ run > 0
    BY <1>1 DEF RegistryTypes, RegistryInv, EntriesWell, CleanupKills, CleanupScans
  <2>2. ASSUME NEW w \in WorkerIds, process_pid[w] = p, named[w] = run
        PROVE  cmd[p] = run /\ registry = "up"
    <3>1. phase[w] \in {"spawned", "up"}
      BY <1>1, <2>2 DEF RegistryInv, Attached
    <3>2. cmd[p] = run /\ (registry = "starting" => run < run)
      BY <1>1, <2>2, <3>1 DEF RegistryInv, Attached
    <3> QED BY <2>1, <3>2
  <2>3. CASE CleanupKills
    <3>1. PICK v \in WorkerIds : Matches(cleanup.seen[v], p)
      BY <2>0, <2>3 DEF CleanupKills, Found
    <3>2. cleanup.seen[v] # NoEntry /\ cmd[p] = cleanup.seen[v].run
      BY <3>1 DEF Matches, NoEntry
    <3>3. CASE registry = "up"
      <4>1. cleanup.seen[v] = Reservation
        BY <1>1, <3>2, <3>3 DEF RegistryInv, CleanupKnows
      <4> QED BY <2>1, <3>2, <4>1 DEF Reservation
    <3>4. CASE registry = "starting"
      <4>1. cleanup.seen[v] = dets[v]
        BY <1>1, <2>3, <3>4 DEF RegistryInv, CleanupKnows, CleanupKills
      <4>2. cmd[p] > 0
        BY <1>1, <3>2, <4>1 DEF RegistryInv, EntriesWell, WellFormed
      <4> QED BY <2>2, <3>4, <4>2
    <3> QED BY <2>1, <3>3, <3>4
  <2>4. CASE CleanupScans
    <3>1. p \in Rogues
      BY <2>0, <2>4 DEF CleanupScans
    <3> QED BY <2>2, <3>1 DEF Rogues
  <2> QED BY <1>1, <2>3, <2>4
<1>2. RegistryTypes /\ RegistryInv =>
        [CleanupKills \/ CleanupScans => WorkersSpared]_regVars
  BY <1>1
<1> QED BY <1>2, RegistryInvariant, PTL DEF CleanupSparesWorkers
=============================================================================
