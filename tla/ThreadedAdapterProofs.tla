----------------------- MODULE ThreadedAdapterProofs -----------------------
(***************************************************************************)
(* Proofs about ThreadedAdapter for any finite set of threads and any      *)
(* number of calls: the tracker and the lock know who is inside, the       *)
(* statistics add up, and what the checker reports fits its accesses.      *)
(*                                                                         *)
(* AddUp is the inductive invariant of the statistics. A thread inside the *)
(* wrappers has a credit, for the wrappers it went through before its      *)
(* request is counted; a request may be half counted, and only the holder  *)
(* of the lock can have one; and a reader that has copied is not ahead of  *)
(* what it will show.                                                      *)
(***************************************************************************)
EXTENDS ThreadedAdapter, FiniteSetTheorems, TLAPS

Trackers == [total : Nat, byThread : [Threads -> Nat], active : [Threads -> Nat]]

\* The types that the counts and the lock depend on.
Shape ==
  /\ pc \in [Threads -> Points]
  /\ tool \in [Threads -> Tools]
  /\ tracker \in Trackers
  /\ lock \in Threads \cup {NoThread}

Exact == Shape /\ InsideExact

----------------------------------------------------------------------------
(* The tracker.                                                            *)

\* start_request counts one more for its thread and no other.
LEMMA Started ==
  ASSUME NEW k \in Trackers, NEW t \in Threads
  PROVE  /\ StartRequest(k, t) \in Trackers
         /\ StartRequest(k, t).active[t] = k.active[t] + 1
         /\ \A u \in Threads \ {t} : StartRequest(k, t).active[u] = k.active[u]
  <1> DEFINE r == StartRequest(k, t)
  <1>1. r = [k EXCEPT !.total = k.total + 1,
                      !.byThread = [k.byThread EXCEPT ![t] = k.byThread[t] + 1],
                      !.active = [k.active EXCEPT ![t] = k.active[t] + 1]]
    BY DEF StartRequest, Trackers
  <1>2. [k.active EXCEPT ![t] = k.active[t] + 1] \in [Threads -> Nat]
          /\ [k.byThread EXCEPT ![t] = k.byThread[t] + 1] \in [Threads -> Nat]
    BY DEF Trackers
  <1>3. /\ r.active = [k.active EXCEPT ![t] = k.active[t] + 1]
        /\ r.byThread = [k.byThread EXCEPT ![t] = k.byThread[t] + 1]
        /\ r.total = k.total + 1
        /\ r = [total |-> r.total, byThread |-> r.byThread, active |-> r.active]
    BY <1>1 DEF Trackers
  <1>4. r \in Trackers
    <2>1. r.total \in Nat BY <1>3 DEF Trackers
    <2>. QED BY <1>2, <1>3, <2>1 DEF Trackers
  <1>5. /\ r.active[t] = k.active[t] + 1
        /\ \A u \in Threads \ {t} : r.active[u] = k.active[u]
    BY <1>3 DEF Trackers
  <1>. QED BY <1>4, <1>5

\* end_request counts one less for its thread and no other.
LEMMA Ended ==
  ASSUME NEW k \in Trackers, NEW t \in Threads, k.active[t] > 0
  PROVE  /\ EndRequest(k, t) \in Trackers
         /\ EndRequest(k, t).active[t] = k.active[t] - 1
         /\ \A u \in Threads \ {t} : EndRequest(k, t).active[u] = k.active[u]
  <1> DEFINE r == EndRequest(k, t)
  <1>0. k.active[t] - 1 \in Nat BY DEF Trackers
  <1>1. r = [k EXCEPT !.active = [k.active EXCEPT ![t] = k.active[t] - 1]]
    BY DEF EndRequest, Trackers
  <1>2. [k.active EXCEPT ![t] = k.active[t] - 1] \in [Threads -> Nat]
    BY <1>0 DEF Trackers
  <1>3. r.active = [k.active EXCEPT ![t] = k.active[t] - 1]
    BY <1>1 DEF Trackers
  <1>. QED BY <1>0, <1>1, <1>2, <1>3 DEF Trackers

\* A step moves one thread: its count and the lock must fit the point it reaches,
\* and are for the other threads as before.
LEMMA Moved ==
  ASSUME Exact, NEW t \in Threads, NEW point \in Points, Goto(t, point),
         tool' \in [Threads -> Tools],
         tracker' \in Trackers, tracker'.active[t] = Depth(point),
         \A u \in Threads \ {t} : tracker'.active[u] = tracker.active[u],
         lock' \in Threads \cup {NoThread}, lock' = t <=> point \in Critical,
         \A u \in Threads \ {t} : lock' = u <=> lock = u
  PROVE  Exact'
  <1>1. pc' \in [Threads -> Points] /\ pc'[t] = point
          /\ \A u \in Threads \ {t} : pc'[u] = pc[u]
    BY DEF Goto, Exact, Shape
  <1>2. Shape' BY <1>1 DEF Shape
  <1>3. ASSUME NEW u \in Threads
        PROVE  tracker'.active[u] = Depth(pc'[u]) /\ (lock' = u <=> pc'[u] \in Critical)
    <2>1. CASE u = t BY <1>1, <2>1
    <2>2. CASE u # t
      <3>1. pc'[u] = pc[u] /\ tracker'.active[u] = tracker.active[u]
              /\ (lock' = u <=> lock = u)
        BY <1>1, <2>2
      <3>2. tracker.active[u] = Depth(pc[u]) /\ (lock = u <=> pc[u] \in Critical)
        BY DEF Exact, InsideExact
      <3>. QED BY <3>1, <3>2
    <2>. QED BY <2>1, <2>2
  <1>. QED BY <1>2, <1>3 DEF Exact, InsideExact

\* What a thread's point says of its count.
LEMMA Depths ==
  /\ \A p \in {"idle", "check", "execute"} : Depth(p) = 0 /\ p \notin Critical
  /\ \A p \in {"dispatch", "leave"} : Depth(p) = 1 /\ p \notin Critical
  /\ \A p \in {"body", "update", "shown", "return"} : Depth(p) = 2 /\ p \notin Critical
  /\ \A p \in {"count", "use", "log"} : Depth(p) = 2 /\ p \in Critical
  BY DEF Depth, Critical

\* A step that changes neither the tracker nor the lock goes to a point like the
\* one it comes from.
LEMMA Stayed ==
  ASSUME Exact, NEW t \in Threads, NEW point \in Points, Goto(t, point),
         tool' \in [Threads -> Tools], UNCHANGED <<tracker, lock>>,
         Depth(pc[t]) = Depth(point), pc[t] \in Critical <=> point \in Critical
  PROVE  Exact'
  <1>1. tracker'.active[t] = Depth(point) /\ (lock' = t <=> point \in Critical)
    BY DEF Exact, InsideExact
  <1>2. tracker' \in Trackers /\ lock' \in Threads \cup {NoThread}
    BY DEF Exact, Shape
  <1>3. \A u \in Threads \ {t} : /\ tracker'.active[u] = tracker.active[u]
                                 /\ lock' = u <=> lock = u
    OBVIOUS
  <1>. QED BY <1>1, <1>2, <1>3, Moved

\* The lock is taken when it is free, and given back by its holder.
LEMMA Locked ==
  ASSUME Exact, NEW t \in Threads, NEW point \in Points, Acquires(t, point),
         Depth(pc[t]) = Depth(point), point \in Critical, UNCHANGED <<tool, tracker>>
  PROVE  Exact'
  <1>1. /\ lock = NoThread /\ lock' = t /\ Goto(t, point)
        /\ tool' \in [Threads -> Tools] /\ tracker' \in Trackers
        /\ tracker'.active[t] = Depth(point)
    BY DEF Acquires, Exact, Shape, InsideExact
  <1>2. \A u \in Threads \ {t} : /\ tracker'.active[u] = tracker.active[u]
                                 /\ lock' = u <=> lock = u
    BY <1>1, Assumptions
  <1>. QED BY <1>1, <1>2, Moved

\* A thread leaves the lock at the depth it had.
LEMMA Unlocked ==
  ASSUME Exact, NEW t \in Threads, NEW point \in Points, Releases(t, point),
         pc[t] \in Critical,
         Depth(pc[t]) = Depth(point), point \notin Critical, UNCHANGED <<tool, tracker>>
  PROVE  Exact'
  <1>1. /\ lock = t /\ lock' = NoThread /\ Goto(t, point)
        /\ tool' \in [Threads -> Tools] /\ tracker' \in Trackers
        /\ tracker'.active[t] = Depth(point)
    BY DEF Releases, Exact, Shape, InsideExact
  <1>2. \A u \in Threads \ {t} : /\ tracker'.active[u] = tracker.active[u]
                                 /\ lock' = u <=> lock = u
    BY <1>1, Assumptions
  <1>3. lock' # t BY <1>1, Assumptions
  <1>. QED BY <1>1, <1>2, <1>3, Moved

\* A wrapper counts the thread in, and out whatever happened inside.
LEMMA CountedIn ==
  ASSUME Exact, NEW t \in Threads, NEW point \in Points, Goto(t, point),
         tracker' = StartRequest(tracker, t), UNCHANGED <<tool, lock>>,
         Depth(point) = Depth(pc[t]) + 1,
         pc[t] \notin Critical, point \notin Critical
  PROVE  Exact'
  <1>1. tracker \in Trackers /\ tracker.active[t] = Depth(pc[t]) /\ lock # t
          /\ lock' \in Threads \cup {NoThread} /\ tool' \in [Threads -> Tools]
    BY DEF Exact, Shape, InsideExact
  <1>2. /\ tracker' \in Trackers /\ tracker'.active[t] = Depth(point)
        /\ \A u \in Threads \ {t} : tracker'.active[u] = tracker.active[u]
    BY <1>1, Started
  <1>3. \A u \in Threads \ {t} : lock' = u <=> lock = u OBVIOUS
  <1>. QED BY <1>1, <1>2, <1>3, Moved

\* A thread leaves a tracked request.
LEMMA CountedOut ==
  ASSUME Exact, NEW t \in Threads, NEW point \in Points, Goto(t, point),
         tracker' = EndRequest(tracker, t), tool' \in [Threads -> Tools],
         UNCHANGED lock, Depth(pc[t]) = Depth(point) + 1, Depth(point) \in Nat,
         pc[t] \notin Critical, point \notin Critical
  PROVE  Exact'
  <1>1. tracker \in Trackers /\ tracker.active[t] = Depth(point) + 1 /\ lock # t
          /\ lock' \in Threads \cup {NoThread}
    BY DEF Exact, Shape, InsideExact
  <1>2. /\ tracker' \in Trackers /\ tracker'.active[t] = Depth(point)
        /\ \A u \in Threads \ {t} : tracker'.active[u] = tracker.active[u]
    BY <1>1, Ended
  <1>3. \A u \in Threads \ {t} : lock' = u <=> lock = u OBVIOUS
  <1>. QED BY <1>1, <1>2, <1>3, Moved

----------------------------------------------------------------------------
(* The steps.                                                              *)

\* Every step of a thread keeps the tracker and the lock exact.
LEMMA ThreadKeeps ==
  ASSUME Exact, NEW t \in Threads, ThreadStep(t)
  PROVE  Exact'
  <1>. USE Depths
  <1>p. \A p \in {"idle", "check", "execute", "dispatch", "leave", "body", "update",
                  "shown", "return", "count", "use", "log"} : p \in Points
    BY DEF Points
  <1>q. /\ pc \in [Threads -> Points] /\ tool \in [Threads -> Tools]
        /\ [tool EXCEPT ![t] = "clear_caches"] \in [Threads -> Tools]
    BY DEF Exact, Shape, Tools
  <1>1. CASE CheckMethodAccess(t)
    <2>1. CASE Ends(t)
      <3>1. pc[t] = "check" /\ Goto(t, "idle") /\ tool' \in [Threads -> Tools]
              /\ UNCHANGED <<tracker, lock>>
        BY <1>1, <1>q, <2>1 DEF CheckMethodAccess, At, Ends
      <3>. QED BY <1>p, <3>1, Stayed
    <2>2. CASE ~Ends(t)
      <3>1. pc[t] = "check" /\ Goto(t, "execute") /\ tool' \in [Threads -> Tools]
              /\ UNCHANGED <<tracker, lock>>
        BY <1>1, <1>q, <2>2 DEF CheckMethodAccess, At
      <3>. QED BY <1>p, <3>1, Stayed
    <2>. QED BY <2>1, <2>2
  <1>2. CASE ExecuteTool(t)
    <2>1. pc[t] = "execute" /\ Goto(t, "dispatch")
            /\ tracker' = StartRequest(tracker, t) /\ UNCHANGED <<tool, lock>>
      BY <1>2 DEF ExecuteTool, At
    <2>. QED BY <1>p, <2>1, CountedIn
  <1>3. CASE CallTool(t)
    <2>1. CASE tool[t] = "unknown"
      <3>1. pc[t] = "dispatch" /\ Goto(t, "leave") /\ tool' \in [Threads -> Tools]
              /\ UNCHANGED <<tracker, lock>>
        BY <1>3, <1>q, <2>1 DEF CallTool, At
      <3>. QED BY <1>p, <3>1, Stayed
    <2>2. CASE tool[t] # "unknown"
      <3>1. pc[t] = "dispatch" /\ Goto(t, "body")
              /\ tracker' = StartRequest(tracker, t) /\ UNCHANGED <<tool, lock>>
        BY <1>3, <2>2 DEF CallTool, At
      <3>. QED BY <1>p, <3>1, CountedIn
    <2>. QED BY <2>1, <2>2
  <1>4. CASE LeaveTool(t)
    <2>1. pc[t] = "return" /\ Goto(t, "leave") /\ tool' \in [Threads -> Tools]
            /\ tracker' = EndRequest(tracker, t) /\ UNCHANGED lock
      BY <1>4, <1>q DEF LeaveTool, At
    <2>. QED BY <1>p, <2>1, CountedOut
  <1>5. CASE LeaveExecuteTool(t)
    <2>1. pc[t] = "leave" /\ Goto(t, "idle") /\ tool' \in [Threads -> Tools]
            /\ tracker' = EndRequest(tracker, t) /\ UNCHANGED lock
      BY <1>5, <1>q DEF LeaveExecuteTool, At, Ends
    <2>. QED BY <1>p, <2>1, CountedOut
  <1>6. CASE ComputeIntensive(t)
    <2>1. /\ pc[t] = "body" /\ tool' \in [Threads -> Tools]
          /\ Goto(t, "return") \/ Goto(t, "update")
          /\ UNCHANGED <<tracker, lock>>
      BY <1>6, <1>q DEF ComputeIntensive, InTool, At
    <2>. QED BY <1>p, <2>1, Stayed
  <1>7. CASE ClearCaches(t) \/ ToolRaises(t)
    <2>1. pc[t] = "body" /\ Goto(t, "return") /\ tool' \in [Threads -> Tools]
            /\ UNCHANGED <<tracker, lock>>
      BY <1>7, <1>q DEF ClearCaches, ToolRaises, InTool, At
    <2>. QED BY <1>p, <2>1, Stayed
  <1>8. CASE UpdateGlobalStats(t) \/ BatchProcess(t)
    <2>1. pc[t] \in {"update", "body"} /\ Acquires(t, "count")
            /\ UNCHANGED <<tool, tracker>>
      BY <1>8 DEF UpdateGlobalStats, BatchProcess, InTool, At
    <2>. QED BY <1>p, <2>1, Locked
  <1>9. CASE CountRequest(t)
    <2>1. /\ pc[t] = "count" /\ tool' \in [Threads -> Tools]
          /\ Goto(t, "log") \/ Goto(t, "use")
          /\ UNCHANGED <<tracker, lock>>
      BY <1>9, <1>q DEF CountRequest, At
    <2>. QED BY <1>p, <2>1, Stayed
  <1>10. CASE CountUsage(t) \/ LogBatch(t)
    <2>1. pc[t] \in {"use", "log"} /\ Releases(t, "return")
            /\ UNCHANGED <<tool, tracker>>
      BY <1>10 DEF CountUsage, LogBatch, At
    <2>. QED BY <1>p, <2>1, Unlocked
  <1>11. CASE CopyStats(t) \/ CopyRecent(t)
    <2>1. pc[t] = "body" /\ Goto(t, "shown") /\ tool' \in [Threads -> Tools]
            /\ UNCHANGED <<tracker, lock>>
      BY <1>11, <1>q DEF CopyStats, CopyRecent, InTool, At
    <2>. QED BY <1>p, <2>1, Stayed
  <1>12. CASE AnswerReading(t)
    <2>1. pc[t] = "shown" /\ Goto(t, "return") /\ tool' \in [Threads -> Tools]
            /\ UNCHANGED <<tracker, lock>>
      BY <1>12, <1>q DEF AnswerReading, At
    <2>. QED BY <1>p, <2>1, Stayed
  <1>. QED
    BY <1>1, <1>2, <1>3, <1>4, <1>5, <1>6, <1>7, <1>8, <1>9, <1>10, <1>11, <1>12
       DEF ThreadStep

\* Nobody is inside.
LEMMA ExactInit == Init => Exact
  <1>. SUFFICES ASSUME Init PROVE Exact
    OBVIOUS
  <1>1. Shape BY DEF Init, Shape, Points, Tools, Trackers
  <1>2. InsideExact
    BY Assumptions, Depths DEF Init, InsideExact
  <1>. QED BY <1>1, <1>2 DEF Exact

\* Every step keeps the tracker and the lock exact.
LEMMA ExactStep == Exact /\ [Next]_vars => Exact'
  <1>. SUFFICES ASSUME Exact, [Next]_vars PROVE Exact'
    OBVIOUS
  <1>1. ASSUME NEW t \in Threads, NEW x \in Tools, Call(t, x) PROVE Exact'
    <2>1. pc[t] = "idle" /\ Goto(t, "check") /\ UNCHANGED <<tracker, lock>>
            /\ "check" \in Points
      BY <1>1 DEF Call, At, Points
    <2>2. tool' \in [Threads -> Tools] BY <1>1 DEF Call, Exact, Shape
    <2>. QED BY <2>1, <2>2, Depths, Stayed
  <1>2. CASE Switch \/ UNCHANGED vars
    BY <1>2 DEF Switch, vars, Exact, Shape, InsideExact
  <1>. QED
    BY <1>1, <1>2, ThreadKeeps DEF Next, EnableChecking, DisableChecking, Reset

\* However the threads interleave and whatever their tools do, each thread is
\* counted as often as it is inside a wrapper, and the lock is held exactly by the
\* thread that is in a critical section: at most one is, and none leaves it locked.
THEOREM TrackerAndLockExact == Spec => []InsideExact
  <1>1. Exact => InsideExact BY DEF Exact
  <1>. QED BY <1>1, ExactInit, ExactStep, PTL DEF Spec

----------------------------------------------------------------------------
(* Sums of counts.                                                         *)

\* The things counted for one thread.
LEMMA Column ==
  ASSUME NEW t, NEW n \in Nat
  PROVE  IsFiniteSet({t} \X (1..n)) /\ Cardinality({t} \X (1..n)) = n
  <1>1. IsFiniteSet({t}) /\ Cardinality({t}) = 1 BY FS_Singleton
  <1>2. IsFiniteSet(1..n) /\ Cardinality(1..n) = n BY FS_Interval
  <1>3. /\ IsFiniteSet({t} \X (1..n))
        /\ Cardinality({t} \X (1..n)) = Cardinality({t}) * Cardinality(1..n)
    BY <1>1, <1>2, FS_Product
  <1>. QED BY <1>1, <1>2, <1>3

\* The things counted for the threads other than t.
Others(f, t) == UNION {{u} \X (1..f[u]) : u \in Threads \ {t}}

\* What is counted for t adds to what is counted for the others.
LEMMA TotalSplit ==
  ASSUME NEW f \in [Threads -> Nat], NEW t \in Threads
  PROVE  /\ Cardinality(Others(f, t)) \in Nat
         /\ Total(f) = Cardinality(Others(f, t)) + f[t]
  <1> DEFINE columns == {{u} \X (1..f[u]) : u \in Threads \ {t}}
             column == [u \in Threads \ {t} |-> {u} \X (1..f[u])]
  <1>1. IsFiniteSet(Others(f, t))
    <2>1. column \in Surjection(Threads \ {t}, columns)
      BY DEF Surjection
    <2>2. IsFiniteSet(Threads \ {t}) BY Assumptions, FS_Subset
    <2>3. IsFiniteSet(columns) BY <2>1, <2>2, FS_Surjection
    <2>4. ASSUME NEW c \in columns PROVE IsFiniteSet(c)
      <3>1. PICK u \in Threads \ {t} : c = {u} \X (1..f[u]) BY <2>4
      <3>2. f[u] \in Nat OBVIOUS
      <3>3. IsFiniteSet({u} \X (1..f[u])) BY <3>2, Column
      <3>. QED BY <3>1, <3>3
    <2>. QED BY <2>3, <2>4, FS_UNION DEF Others
  <1>2. Units(f) = Others(f, t) \cup ({t} \X (1..f[t])) BY DEF Units, Others
  <1>3. Others(f, t) \cap ({t} \X (1..f[t])) = {} BY DEF Others
  <1>4. IsFiniteSet({t} \X (1..f[t])) /\ Cardinality({t} \X (1..f[t])) = f[t]
    BY Column
  <1>5. Cardinality(Units(f)) = Cardinality(Others(f, t)) + f[t] - Cardinality({})
    BY <1>1, <1>2, <1>3, <1>4, FS_Union
  <1>6. Cardinality(Others(f, t)) \in Nat BY <1>1, FS_CardinalityType
  <1>. QED BY <1>5, <1>6, FS_EmptySet DEF Total

\* A sum is at least each of its counts.
LEMMA TotalNat ==
  ASSUME NEW f \in [Threads -> Nat], NEW t \in Threads
  PROVE  Total(f) \in Nat /\ f[t] <= Total(f)
  BY TotalSplit

\* A sum changes as the one count that changes.
LEMMA TotalUpdated ==
  ASSUME NEW f \in [Threads -> Nat], NEW t \in Threads, NEW n \in Nat
  PROVE  Total([f EXCEPT ![t] = n]) + f[t] = Total(f) + n
  <1> DEFINE g == [f EXCEPT ![t] = n]
  <1>1. g \in [Threads -> Nat] /\ g[t] = n OBVIOUS
  <1>2. Others(g, t) = Others(f, t) BY DEF Others
  <1>3. Total(g) = Cardinality(Others(f, t)) + n BY <1>1, <1>2, TotalSplit
  <1>4. /\ Cardinality(Others(f, t)) \in Nat
        /\ Total(f) = Cardinality(Others(f, t)) + f[t]
    BY TotalSplit
  <1>. QED BY <1>3, <1>4

\* Nothing has been counted.
LEMMA TotalZero == Total([t \in Threads |-> 0]) = 0
  <1>1. Units([t \in Threads |-> 0]) = {} BY DEF Units
  <1>. QED BY <1>1, FS_EmptySet DEF Total

\* No thread is inside more than two wrappers.
LEMMA TotalBounded ==
  ASSUME NEW f \in [Threads -> 0..2]
  PROVE  Total(f) \in 0..(2 * Cardinality(Threads))
  <1>1. Units(f) \subseteq Threads \X (1..2)
    <2>1. ASSUME NEW u \in Units(f) PROVE u \in Threads \X (1..2)
      <3>1. PICK t \in Threads : u \in {t} \X (1..f[t]) BY DEF Units
      <3>2. f[t] \in 0..2 OBVIOUS
      <3>. QED BY <3>1, <3>2
    <2>. QED BY <2>1
  <1>2. IsFiniteSet(1..2) /\ Cardinality(1..2) = 2
    <2>1. \A n \in Nat : IsFiniteSet(1..n) /\ Cardinality(1..n) = n BY FS_Interval
    <2>. QED BY <2>1
  <1>3. /\ IsFiniteSet(Threads \X (1..2))
        /\ Cardinality(Threads \X (1..2)) = Cardinality(Threads) * 2
    BY <1>2, Assumptions, FS_Product
  <1>4. IsFiniteSet(Units(f)) /\ Cardinality(Units(f)) <= Cardinality(Threads) * 2
    BY <1>1, <1>3, FS_Subset
  <1>5. Cardinality(Units(f)) \in Nat /\ Cardinality(Threads) \in Nat
    BY <1>4, Assumptions, FS_CardinalityType
  <1>. QED BY <1>4, <1>5 DEF Total

----------------------------------------------------------------------------
(* The statistics.                                                         *)

\* The wrappers that a thread at point p has gone through for a request that is not
\* counted in the statistics yet.
CreditAt(p) ==
  IF p = "dispatch" THEN 1 ELSE IF p \in {"body", "update", "count"} THEN 2 ELSE 0

Credit == [t \in Threads |-> CreditAt(pc[t])]

\* A request counted in the total, and not yet for its thread or in the history.
Half == {"use", "log"}

Pending == IF \E t \in Threads : pc[t] \in Half THEN 1 ELSE 0

StatsTyped ==
  /\ history \in Nat
  /\ stats \in [total : Nat, usage : [Threads -> Nat],
                max : 0..(2 * Cardinality(Threads))]

Sums ==
  /\ tracker.total = Total(tracker.byThread)
  /\ stats.total = Total(stats.usage) + history + Pending
  /\ 2 * stats.total + Total(Credit) <= tracker.total
  /\ Total(stats.usage) > 0 => stats.max >= 2

\* What a reader has copied is never more than it will show.
Readings == [copied : Nat, entries : Nat, shown : Nat, answered : BOOLEAN]

ReaderRight(t) ==
  /\ read[t].answered => read[t].copied <= read[t].shown /\ pc[t] \in {"return", "leave"}
  /\ At(t, "shown") => read[t].copied <= Shown(t)

ReadersRight == read \in [Threads -> Readings] /\ \A t \in Threads : ReaderRight(t)

OthersTyped ==
  /\ calls \in 0..MaxCalls /\ cached \subseteq Threads
  /\ timing \in [Threads -> 0..(MaxSwitches + 1)]
  /\ switches \in 0..MaxSwitches
  /\ checker.generation \in Nat /\ checker.generation <= switches + 1

AddUp == Exact /\ StatsTyped /\ Sums /\ ReadersRight /\ OthersTyped

\* A credit is a count.
LEMMA CreditTyped ==
  /\ \A p : CreditAt(p) \in 0..2
  /\ Credit \in [Threads -> Nat] /\ Total(Credit) \in Nat
  <1>1. \A p : CreditAt(p) \in 0..2 BY DEF CreditAt
  <1>2. Credit \in [Threads -> 0..2] BY <1>1 DEF Credit
  <1>3. Credit \in [Threads -> Nat] BY <1>2
  <1>4. Total(Credit) \in 0..(2 * Cardinality(Threads)) BY <1>2, TotalBounded
  <1>5. Cardinality(Threads) \in Nat BY Assumptions, FS_CardinalityType
  <1>. QED BY <1>1, <1>3, <1>4, <1>5

\* The credits change as that of the thread that moves.
LEMMA CreditMoved ==
  ASSUME pc \in [Threads -> Points], NEW t \in Threads, NEW point \in Points,
         Goto(t, point)
  PROVE  /\ Total(Credit)' \in Nat
         /\ Total(Credit)' + CreditAt(pc[t]) = Total(Credit) + CreditAt(point)
  <1>1. Credit' = [Credit EXCEPT ![t] = CreditAt(point)] BY DEF Credit, Goto
  <1>2. Credit[t] = CreditAt(pc[t]) /\ CreditAt(point) \in Nat
    BY CreditTyped DEF Credit
  <1>3. Total(Credit') + CreditAt(pc[t]) = Total(Credit) + CreditAt(point)
    <2>1. PICK f \in [Threads -> Nat] : f = Credit BY CreditTyped
    <2>2. PICK n \in Nat : n = CreditAt(point) BY <1>2
    <2>3. Total([f EXCEPT ![t] = n]) + f[t] = Total(f) + n BY TotalUpdated
    <2>. QED BY <1>1, <1>2, <2>1, <2>2, <2>3
  <1>4. Credit' \in [Threads -> Nat] BY <1>1, <1>2, CreditTyped
  <1>5. Total(Credit') \in Nat BY <1>4, TotalNat
  <1>. QED BY <1>3, <1>5

\* What each point is worth.
LEMMA Credits ==
  /\ CreditAt("dispatch") = 1
  /\ \A p \in {"body", "update", "count"} : CreditAt(p) = 2
  /\ \A p \in {"idle", "check", "execute", "use", "log", "shown", "return", "leave"} :
       CreditAt(p) = 0
  BY DEF CreditAt

\* Only the holder of the lock can have a request half counted.
LEMMA HalfCounted ==
  ASSUME Exact
  PROVE  /\ lock = NoThread => Pending = 0
         /\ \A t \in Threads : lock = t => (Pending = 1 <=> pc[t] \in Half)
         /\ Pending \in {0, 1}
  <1>1. \A t \in Threads : pc[t] \in Half => lock = t
    BY DEF Exact, InsideExact, Critical, Half
  <1>. QED BY <1>1, Assumptions DEF Pending

\* A thread that moves between points where nothing is half counted.
LEMMA PendingStays ==
  ASSUME pc \in [Threads -> Points], NEW t \in Threads, NEW point \in Points,
         Goto(t, point), pc[t] \in Half <=> point \in Half
  PROVE  Pending' = Pending
  <1>1. \A u \in Threads : pc'[u] \in Half <=> pc[u] \in Half BY DEF Goto
  <1>. QED BY <1>1 DEF Pending

\* A step that counts nothing and gives no credit.
LEMMA SumsKept ==
  ASSUME AddUp, NEW t \in Threads, NEW point \in Points, Goto(t, point),
         tracker'.total = tracker.total, tracker'.byThread = tracker.byThread,
         UNCHANGED <<stats, history>>,
         CreditAt(point) <= CreditAt(pc[t]), pc[t] \notin Half, point \notin Half
  PROVE  StatsTyped' /\ Sums'
  <1>1. StatsTyped' BY DEF AddUp, StatsTyped
  <1>2. Pending' = Pending BY PendingStays DEF AddUp, Exact, Shape
  <1>3. /\ Total(Credit)' \in Nat
        /\ Total(Credit)' + CreditAt(pc[t]) = Total(Credit) + CreditAt(point)
    BY CreditMoved DEF AddUp, Exact, Shape
  <1>4. Total(Credit)' <= Total(Credit)
    BY <1>3, CreditTyped
  <1>5. stats.total \in Nat /\ tracker.total \in Nat
    BY DEF AddUp, StatsTyped, Exact, Shape, Trackers
  <1>6. 2 * stats.total + Total(Credit) <= tracker.total BY DEF AddUp, Sums
  <1>7. 2 * stats.total + Total(Credit)' <= tracker.total
    BY <1>3, <1>4, <1>5, <1>6, CreditTyped
  <1>. QED BY <1>1, <1>2, <1>7 DEF AddUp, Sums

\* A wrapper is entered: the thread has one credit more, or none at all.
LEMMA SumsStarted ==
  ASSUME AddUp, NEW t \in Threads, NEW point \in Points, Goto(t, point),
         tracker' = StartRequest(tracker, t), UNCHANGED <<stats, history>>,
         CreditAt(point) <= CreditAt(pc[t]) + 1, pc[t] \notin Half, point \notin Half
  PROVE  StatsTyped' /\ Sums'
  <1>1. StatsTyped' BY DEF AddUp, StatsTyped
  <1>2. Pending' = Pending BY PendingStays DEF AddUp, Exact, Shape
  <1>3. /\ Total(Credit)' \in Nat
        /\ Total(Credit)' + CreditAt(pc[t]) = Total(Credit) + CreditAt(point)
    BY CreditMoved DEF AddUp, Exact, Shape
  <1>4. /\ tracker.byThread \in [Threads -> Nat] /\ tracker.total \in Nat
        /\ tracker'.total = tracker.total + 1
        /\ tracker'.byThread = [tracker.byThread EXCEPT ![t] = tracker.byThread[t] + 1]
    BY DEF AddUp, Exact, Shape, Trackers, StartRequest
  <1>5. Total(tracker'.byThread) = Total(tracker.byThread) + 1
    <2>1. tracker.byThread[t] \in Nat /\ tracker.byThread[t] + 1 \in Nat BY <1>4
    <2>2. Total(tracker'.byThread) + tracker.byThread[t]
            = Total(tracker.byThread) + (tracker.byThread[t] + 1)
      BY <1>4, <2>1, TotalUpdated
    <2>3. tracker'.byThread \in [Threads -> Nat] BY <1>4, <2>1
    <2>4. Total(tracker'.byThread) \in Nat /\ Total(tracker.byThread) \in Nat
      BY <1>4, <2>3, TotalNat
    <2>. QED BY <2>1, <2>2, <2>4
  <1>6. stats.total \in Nat BY DEF AddUp, StatsTyped
  <1>7. 2 * stats.total + Total(Credit) <= tracker.total BY DEF AddUp, Sums
  <1>8. Total(Credit)' <= Total(Credit) + 1 BY <1>3, CreditTyped
  <1>9. 2 * stats.total + Total(Credit)' <= tracker.total + 1
    BY <1>3, <1>4, <1>6, <1>7, <1>8, CreditTyped
  <1>. QED BY <1>1, <1>2, <1>4, <1>5, <1>9 DEF AddUp, Sums

\* The first half of a count: both credits are spent.
LEMMA SumsCounted ==
  ASSUME AddUp, NEW t \in Threads, CountRequest(t)
  PROVE  StatsTyped' /\ Sums'
  <1>1. PICK point \in Half : Goto(t, point)
    BY DEF CountRequest, Half
  <1>2. pc[t] = "count" /\ point \in Points /\ UNCHANGED <<tracker, history, lock>>
    BY DEF CountRequest, At, Half, Points
  <1>3. /\ stats.total \in Nat /\ stats.usage \in [Threads -> Nat]
        /\ stats' = [stats EXCEPT !.total = stats.total + 1]
    BY DEF AddUp, StatsTyped, CountRequest
  <1>4. StatsTyped' BY <1>2, <1>3 DEF AddUp, StatsTyped
  <1>5. /\ stats'.total = stats.total + 1 /\ stats'.usage = stats.usage
        /\ stats'.max = stats.max
    BY <1>3 DEF AddUp, StatsTyped
  <1>6. Pending = 0
    <2>1. lock = t /\ pc[t] \notin Half
      BY <1>2 DEF AddUp, Exact, InsideExact, Critical, Half
    <2>. QED BY <2>1, HalfCounted DEF AddUp
  <1>7. Pending' = 1
    <2>1. pc'[t] = point BY <1>1 DEF Goto, AddUp, Exact, Shape
    <2>. QED BY <2>1 DEF Pending
  <1>8. Total(Credit)' \in Nat /\ Total(Credit)' + 2 = Total(Credit)
    <2>1. CreditAt(pc[t]) = 2 /\ CreditAt(point) = 0 BY <1>2, Credits DEF Half
    <2>2. /\ Total(Credit)' \in Nat
          /\ Total(Credit)' + CreditAt(pc[t]) = Total(Credit) + CreditAt(point)
      BY <1>1, <1>2, CreditMoved DEF AddUp, Exact, Shape
    <2>. QED BY <2>1, <2>2, CreditTyped
  <1>9. 2 * (stats.total + 1) + Total(Credit)' <= tracker.total
    <2>1. 2 * stats.total + Total(Credit) <= tracker.total /\ tracker.total \in Nat
      BY DEF AddUp, Sums, Exact, Shape, Trackers
    <2>. QED BY <1>3, <1>8, <2>1
  <1>10. stats.total + 1 = Total(stats.usage) + history + 1
    <2>1. Total(stats.usage) \in Nat /\ history \in Nat
      BY <1>3, TotalNat DEF AddUp, StatsTyped
    <2>2. stats.total = Total(stats.usage) + history + 0
      BY <1>6 DEF AddUp, Sums
    <2>. QED BY <1>3, <2>1, <2>2
  <1>. QED BY <1>2, <1>4, <1>5, <1>7, <1>9, <1>10 DEF AddUp, Sums

\* The holder of the lock ends a count that was half done.
LEMMA PendingEnds ==
  ASSUME Exact, NEW t \in Threads, Goto(t, "return"), pc[t] \in Half
  PROVE  Pending = 1 /\ Pending' = 0
  <1>1. lock = t BY DEF Exact, InsideExact, Critical, Half
  <1>2. \A u \in Threads \ {t} : pc[u] \notin Half
    BY <1>1 DEF Exact, InsideExact, Critical, Half
  <1>3. \A u \in Threads : pc'[u] = IF u = t THEN "return" ELSE pc[u]
    BY DEF Goto, Exact, Shape
  <1>4. \A u \in Threads : pc'[u] \notin Half BY <1>2, <1>3 DEF Half
  <1>. QED BY <1>4 DEF Pending

\* The second half: for the thread, with the largest concurrency seen, which is that
\* of this thread at least.
LEMMA SumsUsed ==
  ASSUME AddUp, NEW t \in Threads, CountUsage(t)
  PROVE  StatsTyped' /\ Sums'
  <1> DEFINE seen == Active(tracker)
             high == IF seen > stats.max THEN seen ELSE stats.max
             used == [stats.usage EXCEPT ![t] = stats.usage[t] + 1]
  <1>1. /\ pc[t] = "use" /\ Goto(t, "return") /\ UNCHANGED <<tracker, history>>
        /\ "return" \in Points /\ "use" \in Half
    BY DEF CountUsage, At, Releases, Points, Half
  <1>2. /\ stats.total \in Nat /\ stats.usage \in [Threads -> Nat]
        /\ stats.max \in 0..(2 * Cardinality(Threads))
    BY DEF AddUp, StatsTyped
  <1>3. seen \in 0..(2 * Cardinality(Threads)) /\ seen >= 2 /\ seen \in Nat
    <2>1. tracker.active \in [Threads -> Nat]
      BY DEF AddUp, Exact, Shape, Trackers
    <2>2. \A u \in Threads : tracker.active[u] \in 0..2
      BY DEF AddUp, Exact, InsideExact, Depth
    <2>3. tracker.active \in [Threads -> 0..2] BY <2>1, <2>2
    <2>4. tracker.active[t] = 2 BY <1>1, Depths DEF AddUp, Exact, InsideExact
    <2>5. Total(tracker.active) \in Nat /\ 2 <= Total(tracker.active)
      BY <2>1, <2>4, TotalNat
    <2>6. Total(tracker.active) \in 0..(2 * Cardinality(Threads))
      BY <2>3, TotalBounded
    <2>. QED BY <2>5, <2>6 DEF Active
  <1>4. stats' = [stats EXCEPT !.usage = used, !.max = high]
    BY DEF CountUsage, AddUp, StatsTyped
  <1>5. used \in [Threads -> Nat] BY <1>2
  <1>6. high \in 0..(2 * Cardinality(Threads)) /\ high >= 2
    <2>1. Cardinality(Threads) \in Nat BY Assumptions, FS_CardinalityType
    <2>. QED BY <1>2, <1>3, <2>1
  <1>7. stats'.total = stats.total /\ stats'.usage = used /\ stats'.max = high
    BY <1>4 DEF AddUp, StatsTyped
  <1>8. StatsTyped' BY <1>1, <1>2, <1>4, <1>5, <1>6 DEF AddUp, StatsTyped
  <1>9. Total(used) = Total(stats.usage) + 1 /\ Total(stats.usage) \in Nat
    <2>1. Total(used) + stats.usage[t] = Total(stats.usage) + (stats.usage[t] + 1)
      BY <1>2, TotalUpdated
    <2>2. Total(used) \in Nat /\ Total(stats.usage) \in Nat /\ stats.usage[t] \in Nat
      BY <1>2, <1>5, TotalNat
    <2>. QED BY <2>1, <2>2
  <1>10. stats.total = Total(used) + history + Pending'
    <2>1. Pending = 1 /\ Pending' = 0
      BY <1>1, PendingEnds DEF AddUp
    <2>2. stats.total = Total(stats.usage) + history + 1 /\ history \in Nat
      BY <2>1 DEF AddUp, Sums, StatsTyped
    <2>. QED BY <1>9, <2>1, <2>2
  <1>11. Total(Credit)' = Total(Credit)
    <2>1. CreditAt(pc[t]) = 0 /\ CreditAt("return") = 0 BY <1>1, Credits
    <2>2. /\ Total(Credit)' \in Nat
          /\ Total(Credit)' + CreditAt(pc[t]) = Total(Credit) + CreditAt("return")
      BY <1>1, CreditMoved DEF AddUp, Exact, Shape
    <2>. QED BY <2>1, <2>2, CreditTyped
  <1>. HIDE DEF seen, high, used
  <1>. QED BY <1>1, <1>6, <1>7, <1>8, <1>10, <1>11 DEF AddUp, Sums

\* The second half of a batch: an entry of the history.
LEMMA SumsLogged ==
  ASSUME AddUp, NEW t \in Threads, LogBatch(t)
  PROVE  StatsTyped' /\ Sums'
  <1>1. /\ pc[t] = "log" /\ Goto(t, "return") /\ UNCHANGED <<tracker, stats>>
        /\ "return" \in Points /\ "log" \in Half /\ history' = history + 1
    BY DEF LogBatch, At, Releases, Points, Half
  <1>2. stats.total \in Nat /\ stats.usage \in [Threads -> Nat] /\ history \in Nat
    BY DEF AddUp, StatsTyped
  <1>3. StatsTyped' BY <1>1, <1>2 DEF AddUp, StatsTyped
  <1>4. stats.total = Total(stats.usage) + history' + Pending'
    <2>1. Pending = 1 /\ Pending' = 0
      BY <1>1, PendingEnds DEF AddUp
    <2>2. stats.total = Total(stats.usage) + history + 1
      BY <2>1 DEF AddUp, Sums
    <2>3. Total(stats.usage) \in Nat BY <1>2, TotalNat
    <2>. QED BY <1>1, <1>2, <2>1, <2>2, <2>3
  <1>5. Total(Credit)' = Total(Credit)
    <2>1. CreditAt(pc[t]) = 0 /\ CreditAt("return") = 0 BY <1>1, Credits
    <2>2. /\ Total(Credit)' \in Nat
          /\ Total(Credit)' + CreditAt(pc[t]) = Total(Credit) + CreditAt("return")
      BY <1>1, CreditMoved DEF AddUp, Exact, Shape
    <2>. QED BY <2>1, <2>2, CreditTyped
  <1>. QED BY <1>1, <1>3, <1>4, <1>5 DEF AddUp, Sums

----------------------------------------------------------------------------
(* The readers, and the rest.                                              *)

\* The counters that a reader looks at twice never go back.
LEMMA CountersGrow ==
  ASSUME AddUp, NEW t \in Threads, ThreadStep(t)
  PROVE  /\ history \in Nat /\ history' \in Nat /\ history <= history'
         /\ Total(stats.usage) \in Nat /\ Total(stats'.usage) \in Nat
         /\ Total(stats.usage) <= Total(stats'.usage)
  <1>1. history \in Nat /\ stats.usage \in [Threads -> Nat]
    BY DEF AddUp, StatsTyped
  <1>2. Total(stats.usage) \in Nat BY <1>1, TotalNat
  <1>3. CASE CountUsage(t)
    <2>1. stats'.usage = [stats.usage EXCEPT ![t] = stats.usage[t] + 1]
      BY <1>3 DEF CountUsage, AddUp, StatsTyped
    <2>2. stats.usage[t] \in Nat /\ stats.usage[t] + 1 \in Nat BY <1>1
    <2>3. Total(stats'.usage) + stats.usage[t] = Total(stats.usage) + (stats.usage[t] + 1)
      BY <1>1, <2>1, <2>2, TotalUpdated
    <2>4. stats'.usage \in [Threads -> Nat] BY <1>1, <2>1, <2>2
    <2>5. Total(stats'.usage) \in Nat BY <2>4, TotalNat
    <2>. QED BY <1>1, <1>2, <1>3, <2>2, <2>3, <2>5 DEF CountUsage
  <1>4. CASE ~CountUsage(t)
    <2>1. stats'.usage = stats.usage /\ (history' = history \/ history' = history + 1)
      BY <1>4 DEF ThreadStep, CheckMethodAccess, ExecuteTool, CallTool, LeaveTool,
                  LeaveExecuteTool, ComputeIntensive, ClearCaches, ToolRaises,
                  UpdateGlobalStats, BatchProcess, CountRequest, LogBatch, CopyStats,
                  CopyRecent, AnswerReading, AddUp, StatsTyped
    <2>. QED BY <1>1, <1>2, <2>1
  <1>. QED BY <1>3, <1>4

\* A step of one thread leaves what another one has read, and does not overtake it.
LEMMA OthersRead ==
  ASSUME AddUp, NEW t \in Threads, ThreadStep(t), NEW u \in Threads,
         pc'[u] = pc[u], tool'[u] = tool[u], read'[u] = read[u]
  PROVE  ReaderRight(u)'
  <1>1. read[u] \in Readings /\ ReaderRight(u) BY DEF AddUp, ReadersRight
  <1>2. ASSUME At(u, "shown")' PROVE read'[u].copied <= Shown(u)'
    <2>1. read[u].copied <= Shown(u) /\ read[u].copied \in Nat /\ read[u].entries \in Nat
      BY <1>1, <1>2 DEF ReaderRight, At, Readings
    <2>2. /\ history \in Nat /\ history' \in Nat /\ history <= history'
          /\ Total(stats.usage) \in Nat /\ Total(stats'.usage) \in Nat
          /\ Total(stats.usage) <= Total(stats'.usage)
      BY CountersGrow
    <2>3. CASE tool[u] = "get_history"
      BY <2>1, <2>2, <2>3 DEF Shown
    <2>4. CASE tool[u] # "get_history"
      <3>1. /\ Shown(u) = Total(stats.usage) + read[u].entries
            /\ Shown(u)' = Total(stats'.usage) + read[u].entries
        BY <2>4 DEF Shown
      <3>. QED BY <2>1, <2>2, <3>1
    <2>. QED BY <2>3, <2>4
  <1>. QED BY <1>1, <1>2 DEF ReaderRight

\* A step of t keeps the readers right when it keeps t right.
LEMMA ReadersFrom ==
  ASSUME AddUp, NEW t \in Threads, ThreadStep(t), NEW r \in Readings,
         read' = [read EXCEPT ![t] = r], NEW point \in Points, Goto(t, point),
         \A u \in Threads \ {t} : tool'[u] = tool[u],
         r.answered => r.copied <= r.shown /\ point \in {"return", "leave"},
         point = "shown" => r.copied <= Shown(t)'
  PROVE  ReadersRight'
  <1>1. read \in [Threads -> Readings] /\ pc \in [Threads -> Points]
    BY DEF AddUp, ReadersRight, Exact, Shape
  <1>2. read' \in [Threads -> Readings] /\ read'[t] = r /\ pc'[t] = point
    BY <1>1 DEF Goto
  <1>3. ReaderRight(t)' BY <1>2 DEF ReaderRight, At
  <1>4. ASSUME NEW u \in Threads \ {t} PROVE ReaderRight(u)'
    <2>1. pc'[u] = pc[u] /\ tool'[u] = tool[u] /\ read'[u] = read[u]
      BY <1>1 DEF Goto
    <2>. QED BY <2>1, OthersRead
  <1>. QED BY <1>2, <1>3, <1>4 DEF ReadersRight

\* A thread that has read nothing, and does not stop to show anything.
LEMMA NothingToShow ==
  ASSUME AddUp, NEW t \in Threads, ThreadStep(t), UNCHANGED <<read, tool>>,
         NEW point \in Points, Goto(t, point), point # "shown",
         read[t].answered => point \in {"return", "leave"}
  PROVE  ReadersRight'
  <1>1. read \in [Threads -> Readings] /\ ReaderRight(t)
    BY DEF AddUp, ReadersRight
  <1>2. PICK r \in Readings : r = read[t] BY <1>1
  <1>3. read' = [read EXCEPT ![t] = r] BY <1>1, <1>2
  <1>4. r.answered => r.copied <= r.shown /\ point \in {"return", "leave"}
    BY <1>1, <1>2 DEF ReaderRight
  <1>. QED BY <1>3, <1>4, ReadersFrom

\* The locals of a thread that ends its call are gone.
LEMMA EndedReads ==
  ASSUME AddUp, NEW t \in Threads, ThreadStep(t), Ends(t)
  PROVE  ReadersRight'
  <1>1. NothingRead \in Readings /\ ~NothingRead.answered /\ "idle" \in Points
    BY DEF NothingRead, Readings, Points
  <1>2. \A u \in Threads \ {t} : tool'[u] = tool[u] BY DEF Ends, AddUp, Exact, Shape
  <1>. QED BY <1>1, <1>2, ReadersFrom DEF Ends

\* What is copied under the lock is what is shown, or less.
LEMMA CopiedReads ==
  ASSUME AddUp, NEW t \in Threads, CopyStats(t) \/ CopyRecent(t)
  PROVE  ReadersRight'
  <1>1. ThreadStep(t) /\ Goto(t, "shown") /\ UNCHANGED <<tool, stats, history>>
          /\ lock = NoThread /\ pc[t] = "body" /\ "shown" \in Points
    BY DEF ThreadStep, CopyStats, CopyRecent, InTool, At, Points
  <1>2. read[t] \in Readings /\ read \in [Threads -> Readings] /\ ~read[t].answered
    BY <1>1 DEF AddUp, ReadersRight, ReaderRight
  <1>3. /\ stats.total \in Nat /\ history \in Nat
        /\ stats.usage \in [Threads -> Nat] /\ Total(stats.usage) \in Nat
    BY TotalNat DEF AddUp, StatsTyped
  <1>4. stats.total = Total(stats.usage) + history
    <2>1. Pending = 0 BY <1>1, HalfCounted DEF AddUp
    <2>2. stats.total = Total(stats.usage) + history + Pending BY DEF AddUp, Sums
    <2>. QED BY <1>3, <2>1, <2>2
  <1>5. CASE CopyStats(t)
    <2> DEFINE r == [read[t] EXCEPT !.copied = stats.total, !.entries = history]
    <2>1. r \in Readings BY <1>2, <1>3 DEF Readings
    <2>2. read' = [read EXCEPT ![t] = r] BY <1>2, <1>5 DEF CopyStats, Readings
    <2>3. /\ r.answered = read[t].answered /\ r.copied = stats.total /\ r.entries = history
      BY <1>2 DEF Readings
    <2>4. tool'[t] # "get_history" BY <1>1, <1>5 DEF CopyStats, InTool
    <2>5. read'[t] = r BY <1>2, <2>2
    <2>6. r.copied <= Shown(t)'
      <3>1. Shown(t)' = Total(stats.usage) + history
        BY <1>1, <2>3, <2>4, <2>5 DEF Shown
      <3>. QED BY <1>3, <1>4, <2>3, <3>1
    <2>. HIDE DEF r
    <2>. QED BY <1>1, <1>2, <2>1, <2>2, <2>3, <2>6, ReadersFrom
  <1>6. CASE CopyRecent(t)
    <2> DEFINE r == [read[t] EXCEPT !.copied = history]
    <2>1. r \in Readings BY <1>2, <1>3 DEF Readings
    <2>2. read' = [read EXCEPT ![t] = r] BY <1>2, <1>6 DEF CopyRecent, Readings
    <2>3. r.answered = read[t].answered /\ r.copied = history BY <1>2 DEF Readings
    <2>4. tool'[t] = "get_history" BY <1>1, <1>6 DEF CopyRecent, InTool
    <2>5. Shown(t)' = history BY <1>1, <2>4 DEF Shown
    <2>6. r.copied <= Shown(t)' BY <1>3, <2>3, <2>5
    <2>. HIDE DEF r
    <2>. QED BY <1>1, <1>2, <2>1, <2>2, <2>3, <2>6, ReadersFrom
  <1>. QED BY <1>5, <1>6

\* The answer is read after the copy.
LEMMA AnsweredReads ==
  ASSUME AddUp, NEW t \in Threads, AnswerReading(t)
  PROVE  ReadersRight'
  <1>1. ThreadStep(t) /\ Goto(t, "return") /\ UNCHANGED tool
          /\ pc[t] = "shown" /\ "return" \in Points
    BY DEF ThreadStep, AnswerReading, At, Points
  <1>2. read[t] \in Readings /\ read \in [Threads -> Readings]
          /\ read[t].copied <= Shown(t)
    BY <1>1 DEF AddUp, ReadersRight, ReaderRight, At
  <1>3. Shown(t) \in Nat
    <2>1. history \in Nat /\ Total(stats.usage) \in Nat
      BY TotalNat DEF AddUp, StatsTyped
    <2>2. read[t].entries \in Nat BY <1>2 DEF Readings
    <2>. QED BY <2>1, <2>2 DEF Shown
  <1>4. PICK n \in Nat : n = Shown(t) BY <1>3
  <1> DEFINE r == [read[t] EXCEPT !.shown = n, !.answered = TRUE]
  <1>5. r \in Readings BY <1>2 DEF Readings
  <1>6. read' = [read EXCEPT ![t] = r] BY <1>2, <1>4 DEF AnswerReading, Readings
  <1>7. r.copied <= r.shown BY <1>2, <1>4 DEF Readings
  <1>. HIDE DEF r
  <1>. QED BY <1>1, <1>5, <1>6, <1>7, ReadersFrom

\* The other variables keep their types: a generation is one more than the switches
\* so far at most.
LEMMA OthersStayTyped ==
  ASSUME OthersTyped, [Next]_vars
  PROVE  OthersTyped'
  <1>1. MaxSwitches \in Nat /\ MaxCalls \in Nat BY Assumptions
  <1>2. ASSUME NEW t \in Threads, ThreadStep(t) PROVE OthersTyped'
    <2>1. calls' = calls /\ switches' = switches
      BY <1>2 DEF ThreadStep, CheckMethodAccess, ExecuteTool, CallTool, LeaveTool,
                  LeaveExecuteTool, ComputeIntensive, ClearCaches, ToolRaises,
                  UpdateGlobalStats, BatchProcess, CountRequest, CountUsage, LogBatch,
                  CopyStats, CopyRecent, AnswerReading
    <2>2. cached' \subseteq Threads
      BY <1>2 DEF OthersTyped, ThreadStep, CheckMethodAccess, ExecuteTool, CallTool,
                  LeaveTool, LeaveExecuteTool, ComputeIntensive, ClearCaches, ToolRaises,
                  UpdateGlobalStats, BatchProcess, CountRequest, CountUsage, LogBatch,
                  CopyStats, CopyRecent, AnswerReading
    <2>3. timing' \in [Threads -> 0..(MaxSwitches + 1)]
      <3>1. CASE ExecuteTool(t)
        <4>1. checker.generation \in 0..(MaxSwitches + 1) BY <1>1 DEF OthersTyped
        <4>2. 0 \in 0..(MaxSwitches + 1) BY <1>1
        <4>. QED BY <3>1, <4>1, <4>2 DEF ExecuteTool, OthersTyped
      <3>2. CASE LeaveExecuteTool(t)
        <4>1. 0 \in 0..(MaxSwitches + 1) BY <1>1
        <4>. QED BY <3>2, <4>1 DEF LeaveExecuteTool, OthersTyped
      <3>3. CASE ~ExecuteTool(t) /\ ~LeaveExecuteTool(t)
        BY <1>2, <3>3 DEF OthersTyped, ThreadStep, CheckMethodAccess, CallTool, LeaveTool,
                    ComputeIntensive, ClearCaches, ToolRaises, UpdateGlobalStats,
                    BatchProcess, CountRequest, CountUsage, LogBatch, CopyStats,
                    CopyRecent, AnswerReading
      <3>. QED BY <3>1, <3>2, <3>3
    <2>4. checker'.generation = checker.generation
      <3>1. CASE CheckMethodAccess(t)
        <4>1. Recorded(checker, t).generation = checker.generation BY DEF Recorded
        <4>. QED BY <3>1, <4>1 DEF CheckMethodAccess
      <3>2. CASE LeaveExecuteTool(t) BY <3>2 DEF LeaveExecuteTool
      <3>3. CASE ~CheckMethodAccess(t) /\ ~LeaveExecuteTool(t)
        BY <1>2, <3>3 DEF ThreadStep, ExecuteTool, CallTool, LeaveTool,
                    ComputeIntensive, ClearCaches, ToolRaises, UpdateGlobalStats,
                    BatchProcess, CountRequest, CountUsage, LogBatch, CopyStats,
                    CopyRecent, AnswerReading
      <3>. QED BY <3>1, <3>2, <3>3
    <2>. QED BY <2>1, <2>2, <2>3, <2>4 DEF OthersTyped
  <1>3. ASSUME NEW t \in Threads, NEW x \in Tools, Call(t, x) PROVE OthersTyped'
    BY <1>1, <1>3 DEF Call, OthersTyped
  <1>4. CASE EnableChecking \/ DisableChecking \/ Reset
    <2>1. checker'.generation \in {checker.generation, checker.generation + 1}
      <3>1. CASE EnableChecking BY <3>1 DEF EnableChecking, ANewChecker
      <3>2. CASE DisableChecking BY <3>2 DEF DisableChecking
      <3>3. CASE Reset BY <3>3 DEF Reset, Forgotten, ANewChecker
      <3>. QED BY <1>4, <3>1, <3>2, <3>3
    <2>2. /\ switches' = switches + 1 /\ switches < MaxSwitches
          /\ UNCHANGED <<calls, cached, timing>>
      BY <1>4 DEF EnableChecking, DisableChecking, Reset, Switch
    <2>. QED BY <1>1, <2>1, <2>2 DEF OthersTyped
  <1>5. CASE UNCHANGED vars BY <1>5 DEF vars, OthersTyped
  <1>. QED BY <1>2, <1>3, <1>4, <1>5 DEF Next

----------------------------------------------------------------------------
(* The sums over all the steps.                                            *)

\* Every step of a thread keeps the sums and the readers right.
LEMMA ThreadAddsUp ==
  ASSUME AddUp, NEW t \in Threads, ThreadStep(t)
  PROVE  StatsTyped' /\ Sums' /\ ReadersRight'
  <1>p. \A p \in {"idle", "check", "execute", "dispatch", "leave", "body", "update",
                  "shown", "return", "count", "use", "log"} : p \in Points
    BY DEF Points
  <1>h. \A p \in Points : p \in Half <=> p \in {"use", "log"}
    BY DEF Half
  <1>a. read[t].answered => pc[t] \in {"return", "leave"}
    BY DEF AddUp, ReadersRight, ReaderRight
  <1>. USE Credits
  <1>1. CASE CheckMethodAccess(t)
    <2>1. pc[t] = "check" /\ UNCHANGED <<tracker, stats, history>>
            /\ (Ends(t) \/ (Goto(t, "execute") /\ UNCHANGED <<tool, read>>))
      BY <1>1 DEF CheckMethodAccess, At
    <2>2. CASE Ends(t)
      <3>1. Goto(t, "idle") BY <2>2 DEF Ends
      <3>. QED BY <1>p, <1>h, <2>1, <2>2, <3>1, SumsKept, EndedReads
    <2>3. CASE Goto(t, "execute") /\ UNCHANGED <<tool, read>>
      BY <1>p, <1>h, <1>a, <2>1, <2>3, SumsKept, NothingToShow
    <2>. QED BY <2>1, <2>2, <2>3
  <1>2. CASE ExecuteTool(t)
    <2>1. pc[t] = "execute" /\ Goto(t, "dispatch") /\ tracker' = StartRequest(tracker, t)
            /\ UNCHANGED <<stats, history, tool, read>>
      BY <1>2 DEF ExecuteTool, At
    <2>. QED BY <1>p, <1>h, <1>a, <2>1, SumsStarted, NothingToShow
  <1>3. CASE CallTool(t)
    <2>1. pc[t] = "dispatch" /\ UNCHANGED <<stats, history, tool, read>>
            /\ \/ Goto(t, "leave") /\ UNCHANGED tracker
               \/ Goto(t, "body") /\ tracker' = StartRequest(tracker, t)
      BY <1>3 DEF CallTool, At
    <2>2. CASE Goto(t, "leave") /\ UNCHANGED tracker
      BY <1>p, <1>h, <1>a, <2>1, <2>2, SumsKept, NothingToShow
    <2>3. CASE Goto(t, "body") /\ tracker' = StartRequest(tracker, t)
      BY <1>p, <1>h, <1>a, <2>1, <2>3, SumsStarted, NothingToShow
    <2>. QED BY <2>1, <2>2, <2>3
  <1>4. CASE LeaveTool(t) \/ LeaveExecuteTool(t)
    <2>1. pc[t] \in {"return", "leave"} /\ tracker' = EndRequest(tracker, t)
            /\ UNCHANGED <<stats, history>>
            /\ \/ Goto(t, "leave") /\ UNCHANGED <<tool, read>>
               \/ Ends(t)
      BY <1>4 DEF LeaveTool, LeaveExecuteTool, At
    <2>2. tracker'.total = tracker.total /\ tracker'.byThread = tracker.byThread
      BY <2>1 DEF EndRequest, AddUp, Exact, Shape, Trackers
    <2>3. CASE Ends(t)
      <3>1. Goto(t, "idle") BY <2>3 DEF Ends
      <3>. QED BY <1>p, <1>h, <2>1, <2>2, <2>3, <3>1, SumsKept, EndedReads
    <2>4. CASE Goto(t, "leave") /\ UNCHANGED <<tool, read>>
      BY <1>p, <1>h, <2>1, <2>2, <2>4, SumsKept, NothingToShow
    <2>. QED BY <2>1, <2>3, <2>4
  <1>5. CASE ComputeIntensive(t) \/ ClearCaches(t) \/ ToolRaises(t)
    <2>1. pc[t] = "body" /\ UNCHANGED <<tracker, stats, history, tool, read>>
            /\ (Goto(t, "return") \/ Goto(t, "update"))
      BY <1>5 DEF ComputeIntensive, ClearCaches, ToolRaises, InTool, At
    <2>2. CASE Goto(t, "return")
      BY <1>p, <1>h, <1>a, <2>1, <2>2, SumsKept, NothingToShow
    <2>3. CASE Goto(t, "update")
      BY <1>p, <1>h, <1>a, <2>1, <2>3, SumsKept, NothingToShow
    <2>. QED BY <2>1, <2>2, <2>3
  <1>6. CASE UpdateGlobalStats(t) \/ BatchProcess(t)
    <2>1. pc[t] \in {"body", "update"} /\ Goto(t, "count")
            /\ UNCHANGED <<tracker, stats, history, tool, read>>
      BY <1>6 DEF UpdateGlobalStats, BatchProcess, Acquires, InTool, At
    <2>. QED BY <1>p, <1>h, <1>a, <2>1, SumsKept, NothingToShow
  <1>7. CASE CountRequest(t)
    <2>1. pc[t] = "count" /\ (Goto(t, "use") \/ Goto(t, "log")) /\ UNCHANGED <<tool, read>>
      BY <1>7 DEF CountRequest, At
    <2>2. CASE Goto(t, "use") BY <1>p, <1>a, <1>7, <2>1, <2>2, SumsCounted, NothingToShow
    <2>3. CASE Goto(t, "log") BY <1>p, <1>a, <1>7, <2>1, <2>3, SumsCounted, NothingToShow
    <2>. QED BY <2>1, <2>2, <2>3
  <1>8. CASE CountUsage(t) \/ LogBatch(t)
    <2>1. pc[t] \in {"use", "log"} /\ Goto(t, "return") /\ UNCHANGED <<tool, read>>
      BY <1>8 DEF CountUsage, LogBatch, Releases, At
    <2>. QED BY <1>p, <1>a, <1>8, <2>1, SumsUsed, SumsLogged, NothingToShow
  <1>9. CASE CopyStats(t) \/ CopyRecent(t)
    <2>1. pc[t] = "body" /\ Goto(t, "shown") /\ UNCHANGED <<tracker, stats, history>>
      BY <1>9 DEF CopyStats, CopyRecent, InTool, At
    <2>. QED BY <1>p, <1>h, <1>9, <2>1, SumsKept, CopiedReads
  <1>10. CASE AnswerReading(t)
    <2>1. pc[t] = "shown" /\ Goto(t, "return") /\ UNCHANGED <<tracker, stats, history>>
      BY <1>10 DEF AnswerReading, At
    <2>. QED BY <1>p, <1>h, <1>10, <2>1, SumsKept, AnsweredReads
  <1>. QED
    BY <1>1, <1>2, <1>3, <1>4, <1>5, <1>6, <1>7, <1>8, <1>9, <1>10 DEF ThreadStep

\* A new call brings nothing yet.
LEMMA CallAddsUp ==
  ASSUME AddUp, NEW t \in Threads, NEW x \in Tools, Call(t, x)
  PROVE  StatsTyped' /\ Sums' /\ ReadersRight'
  <1>1. pc[t] = "idle" /\ Goto(t, "check") /\ "check" \in Points
          /\ UNCHANGED <<tracker, stats, history, read>>
    BY DEF Call, At, Points
  <1>2. StatsTyped' /\ Sums' BY <1>1, Credits, SumsKept DEF Half
  <1>3. /\ pc \in [Threads -> Points] /\ tool \in [Threads -> Tools]
        /\ read \in [Threads -> Readings] /\ \A u \in Threads : ReaderRight(u)
    BY DEF AddUp, Exact, Shape, ReadersRight
  <1>4. ASSUME NEW u \in Threads PROVE ReaderRight(u)'
    <2>1. CASE u = t
      <3>1. pc'[u] = "check" /\ ~read[u].answered
        BY <1>1, <1>3, <2>1 DEF Goto, ReaderRight
      <3>. QED BY <1>1, <3>1 DEF ReaderRight, At
    <2>2. CASE u # t
      <3>1. pc'[u] = pc[u] /\ tool'[u] = tool[u]
        BY <1>1, <1>3, <2>2 DEF Goto, Call
      <3>2. Shown(u)' = Shown(u) BY <1>1, <3>1 DEF Shown
      <3>. QED BY <1>1, <1>3, <3>1, <3>2 DEF ReaderRight, At
    <2>. QED BY <2>1, <2>2
  <1>. QED BY <1>1, <1>2, <1>3, <1>4 DEF ReadersRight

\* Nothing has been counted or read.
LEMMA AddUpInit == Init => AddUp
  <1>. SUFFICES ASSUME Init PROVE AddUp
    OBVIOUS
  <1>1. Exact BY ExactInit
  <1>2. StatsTyped
    <2>1. Cardinality(Threads) \in Nat BY Assumptions, FS_CardinalityType
    <2>2. 0 \in 0..(2 * Cardinality(Threads)) BY <2>1
    <2>. QED BY <2>2 DEF Init, StatsTyped
  <1>3. Sums
    <2>1. Credit = [t \in Threads |-> 0] BY Credits DEF Init, Credit
    <2>2. Total(Credit) = 0 BY <2>1, TotalZero
    <2>3. Pending = 0 BY DEF Init, Pending, Half
    <2>4. Total(tracker.byThread) = 0 /\ Total(stats.usage) = 0
      BY TotalZero DEF Init
    <2>5. tracker.total = 0 /\ stats.total = 0 /\ history = 0 BY DEF Init
    <2>. QED BY <2>2, <2>3, <2>4, <2>5 DEF Sums
  <1>4. ReadersRight
    <2>1. NothingRead \in Readings /\ ~NothingRead.answered BY DEF NothingRead, Readings
    <2>. QED BY <2>1 DEF Init, ReadersRight, ReaderRight, At
  <1>5. OthersTyped BY Assumptions DEF Init, OthersTyped, ANewChecker
  <1>. QED BY <1>1, <1>2, <1>3, <1>4, <1>5 DEF AddUp

\* Every step keeps the sums right.
LEMMA AddUpStep == AddUp /\ [Next]_vars => AddUp'
  <1>. SUFFICES ASSUME AddUp, [Next]_vars PROVE AddUp'
    OBVIOUS
  <1>1. Exact' BY ExactStep DEF AddUp
  <1>2. OthersTyped' BY OthersStayTyped DEF AddUp
  <1>3. StatsTyped' /\ Sums' /\ ReadersRight'
    <2>1. CASE UNCHANGED <<pc, tool, tracker, stats, history, read>>
      <3>1. StatsTyped' BY <2>1 DEF AddUp, StatsTyped
      <3>2. Credit' = Credit /\ Pending' = Pending BY <2>1 DEF Credit, Pending
      <3>3. Sums' BY <2>1, <3>2 DEF AddUp, Sums
      <3>4. ReadersRight' BY <2>1 DEF AddUp, ReadersRight, ReaderRight, Shown, At
      <3>. QED BY <3>1, <3>3, <3>4
    <2>2. CASE EnableChecking \/ DisableChecking \/ Reset
      BY <2>1, <2>2 DEF EnableChecking, DisableChecking, Reset, Switch
    <2>3. CASE UNCHANGED vars BY <2>1, <2>3 DEF vars
    <2>. QED BY <2>2, <2>3, ThreadAddsUp, CallAddsUp DEF Next
  <1>. QED BY <1>1, <1>2, <1>3 DEF AddUp

\* For any number of threads, calls and switches of the checker, outside the lock
\* every counted request is counted for its thread or logged, it has gone through both
\* wrappers, and a reader never shows less than it copied: StatsAddUp.
THEOREM StatisticsAddUp == Spec => []StatsAddUp
  <1>1. AddUp => StatsAddUp
    <2> SUFFICES ASSUME AddUp PROVE StatsAddUp
      OBVIOUS
    <2>1. TypeOK
      <3>1. tracker.active \in [Threads -> 0..2]
        <4>1. tracker.active \in [Threads -> Nat]
          BY DEF AddUp, Exact, Shape, Trackers
        <4>2. \A u \in Threads : tracker.active[u] \in 0..2
          BY DEF AddUp, Exact, InsideExact, Depth
        <4>. QED BY <4>1, <4>2
      <3>2. tracker \in [total : Nat, byThread : [Threads -> Nat],
                         active : [Threads -> 0..2]]
        BY <3>1 DEF AddUp, Exact, Shape, Trackers
      <3>3. \A t \in Threads : /\ read[t].copied \in Nat /\ read[t].entries \in Nat
                               /\ read[t].shown \in Nat  /\ read[t].answered \in BOOLEAN
        BY DEF AddUp, ReadersRight, Readings
      <3>. QED BY <3>2, <3>3 DEF TypeOK, AddUp, Exact, Shape, StatsTyped, OthersTyped
    <2>2. lock = NoThread => stats.total = Total(stats.usage) + history
      <3>1. lock = NoThread => Pending = 0 BY HalfCounted DEF AddUp
      <3>2. Total(stats.usage) \in Nat /\ history \in Nat
        <4>1. stats.usage \in [Threads -> Nat] /\ history \in Nat
          BY DEF AddUp, StatsTyped
        <4>2. Total(stats.usage) \in Nat
          <5>1. CASE Threads = {}
            <6>1. Units(stats.usage) = {} BY <4>1, <5>1 DEF Units
            <6>. QED BY <6>1, FS_EmptySet DEF Total
          <5>2. CASE Threads # {} BY <4>1, <5>2, TotalNat
          <5>. QED BY <5>1, <5>2
        <4>. QED BY <4>1, <4>2
      <3>. QED BY <3>1, <3>2 DEF AddUp, Sums
    <2>3. 2 * stats.total <= tracker.total
      <3>1. stats.total \in Nat /\ tracker.total \in Nat
        BY DEF AddUp, StatsTyped, Exact, Shape, Trackers
      <3>. QED BY <3>1, CreditTyped DEF AddUp, Sums
    <2>. QED
      BY <2>1, <2>2, <2>3 DEF StatsAddUp, AddUp, Sums, ReadersRight, ReaderRight
  <1>. QED BY <1>1, AddUpInit, AddUpStep, PTL DEF Spec

----------------------------------------------------------------------------
(* The checker.                                                            *)

Checkers ==
  [generation : Nat, enabled : BOOLEAN, accessed : SUBSET Threads,
   issued : BOOLEAN, refused : Nat, calls : [Threads -> Nat], known : SUBSET Threads]

\* CheckerConsistent of a checker c.
Consistent(c) ==
  /\ c.issued <=> Cardinality(c.accessed) > 1
  /\ c.refused = IF c.issued THEN 1 ELSE 0
  /\ c.accessed = {t \in Threads : c.calls[t] > 0}
  /\ c.accessed \subseteq c.known

Judged == checker \in Checkers /\ Consistent(checker)

\* A checker that has just been created has nothing to say.
LEMMA NewChecker ==
  ASSUME NEW g \in Nat, NEW on \in BOOLEAN
  PROVE  ANewChecker(g, on) \in Checkers /\ Consistent(ANewChecker(g, on))
  <1> DEFINE c == ANewChecker(g, on)
  <1>1. c \in Checkers BY DEF ANewChecker, Checkers
  <1>2. /\ c.accessed = {} /\ c.issued = FALSE /\ c.refused = 0 /\ c.known = {}
        /\ c.calls = [t \in Threads |-> 0]
    BY DEF ANewChecker
  <1>3. Cardinality(c.accessed) = 0 BY <1>2, FS_EmptySet
  <1>4. c.accessed = {t \in Threads : c.calls[t] > 0} BY <1>2
  <1>. QED BY <1>1, <1>2, <1>3, <1>4 DEF Consistent

\* More accesses never leave fewer threads.
LEMMA Widened ==
  ASSUME NEW S \in SUBSET Threads, NEW t \in Threads
  PROVE  /\ Cardinality(S) \in Nat /\ Cardinality(S \cup {t}) \in Nat
         /\ Cardinality(S) <= Cardinality(S \cup {t})
  <1>1. IsFiniteSet(S \cup {t}) /\ IsFiniteSet(S)
    BY Assumptions, FS_Subset
  <1>. QED BY <1>1, FS_Subset, FS_CardinalityType

\* An access that is recorded notes a warning when it should.
LEMMA RecordedConsistent ==
  ASSUME NEW c \in Checkers, Consistent(c), NEW t \in Threads
  PROVE  Recorded(c, t) \in Checkers /\ Consistent(Recorded(c, t))
  <1> DEFINE threads == c.accessed \cup {t}
             warns == Cardinality(threads) > 1 /\ ~c.issued
             issued == c.issued \/ warns
             refused == IF warns THEN c.refused + 1 ELSE c.refused
             counted == [c.calls EXCEPT ![t] = c.calls[t] + 1]
  <1>1. PICK w \in BOOLEAN : w = issued BY Zenon DEF Checkers
  <1>2. PICK n \in Nat : n = refused BY DEF Checkers
  <1> DEFINE r == [c EXCEPT !.accessed = threads, !.calls = counted,
                            !.known = c.known \cup {t}, !.issued = w, !.refused = n]
  <1>3. Recorded(c, t) = r
    <2>1. Recorded(c, t) =
            [c EXCEPT !.accessed = threads, !.calls = counted,
                      !.known = c.known \cup {t}, !.issued = issued, !.refused = refused]
      BY Zenon DEF Recorded
    <2>. QED BY <1>1, <1>2, <2>1, Zenon
  <1>4. counted \in [Threads -> Nat] BY DEF Checkers
  <1>5. r \in Checkers BY <1>4 DEF Checkers
  <1>6. /\ r.accessed = threads /\ r.calls = counted /\ r.known = c.known \cup {t}
        /\ r.issued = w /\ r.refused = n
    BY DEF Checkers
  <1>7. /\ Cardinality(c.accessed) \in Nat /\ Cardinality(threads) \in Nat
        /\ Cardinality(c.accessed) <= Cardinality(threads)
    BY Widened DEF Checkers
  <1>8. c.issued => Cardinality(threads) > 1
    BY <1>7 DEF Consistent
  <1>9. w <=> Cardinality(threads) > 1 BY <1>1, <1>8, Zenon
  <1>10. n = IF w THEN 1 ELSE 0
    <2>1. CASE c.issued
      BY <1>1, <1>2, <2>1 DEF Consistent
    <2>2. CASE ~c.issued
      <3>1. c.refused = 0 BY <2>2 DEF Consistent
      <3>2. w <=> warns BY <1>9, <2>2
      <3>. QED BY <1>2, <3>1, <3>2
    <2>. QED BY <2>1, <2>2
  <1>11. threads = {u \in Threads : counted[u] > 0}
    BY DEF Consistent, Checkers
  <1>12. threads \subseteq c.known \cup {t} BY DEF Consistent
  <1>. HIDE DEF r, threads, counted
  <1>. QED BY <1>3, <1>5, <1>6, <1>9, <1>10, <1>11, <1>12 DEF Consistent

\* No access has been recorded.
LEMMA JudgedInit == Init => Judged
  <1>1. /\ ANewChecker(1, FALSE) \in Checkers
        /\ Consistent(ANewChecker(1, FALSE))
    BY NewChecker
  <1>. QED BY <1>1 DEF Init, Judged

\* Every step keeps the checker consistent.
LEMMA JudgedStep == Judged /\ [Next]_vars => Judged'
  <1>. SUFFICES ASSUME Judged, [Next]_vars PROVE Judged'
    OBVIOUS
  <1>1. CASE UNCHANGED checker BY <1>1 DEF Judged
  <1>2. ASSUME NEW t \in Threads, CheckMethodAccess(t) PROVE Judged'
    BY <1>1, <1>2, RecordedConsistent DEF CheckMethodAccess, Judged
  <1>3. ASSUME NEW t \in Threads, LeaveExecuteTool(t) PROVE Judged'
    <2> DEFINE r == [checker EXCEPT !.known = checker.known \cup {t}]
    <2>1. CASE checker' = r
      <3>1. r \in Checkers BY DEF Judged, Checkers
      <3>2. Consistent(r) BY DEF Judged, Checkers, Consistent
      <3>. QED BY <2>1, <3>1, <3>2 DEF Judged
    <2>. QED BY <1>1, <1>3, <2>1 DEF LeaveExecuteTool
  <1>4. CASE EnableChecking
    <2>1. checker.generation + 1 \in Nat BY DEF Judged, Checkers
    <2>. QED BY <1>4, <2>1, NewChecker DEF EnableChecking, Judged
  <1>5. CASE DisableChecking
    <2> DEFINE r == [checker EXCEPT !.enabled = FALSE]
    <2>1. r \in Checkers BY DEF Judged, Checkers
    <2>2. Consistent(r) BY DEF Judged, Checkers, Consistent
    <2>. QED BY <1>5, <2>1, <2>2 DEF DisableChecking, Judged
  <1>6. CASE Reset
    BY <1>6, NewChecker DEF Reset, Forgotten, Judged, Checkers
  <1>7. ASSUME NEW t \in Threads, NEW x \in Tools, Call(t, x) PROVE Judged'
    BY <1>1, <1>7 DEF Call
  <1>8. ASSUME NEW t \in Threads,
               \/ ExecuteTool(t) \/ CallTool(t) \/ LeaveTool(t) \/ ComputeIntensive(t)
               \/ ClearCaches(t) \/ ToolRaises(t) \/ UpdateGlobalStats(t)
               \/ BatchProcess(t) \/ CountRequest(t) \/ CountUsage(t) \/ LogBatch(t)
               \/ CopyStats(t) \/ CopyRecent(t) \/ AnswerReading(t)
        PROVE  Judged'
    BY <1>1, <1>8
       DEF ExecuteTool, CallTool, LeaveTool, ComputeIntensive, ClearCaches, ToolRaises,
           UpdateGlobalStats, BatchProcess, CountRequest, CountUsage, LogBatch, CopyStats,
           CopyRecent, AnswerReading
  <1>9. CASE UNCHANGED vars BY <1>1, <1>9 DEF vars
  <1>. QED
    BY <1>2, <1>3, <1>4, <1>5, <1>6, <1>7, <1>8, <1>9 DEF Next, ThreadStep

\* The checker notes a warning exactly when two threads have come, and then it has
\* refused one call, for any number of threads and however it is replaced, reset or
\* switched off while calls are under way.
THEOREM CheckerFitsAccesses == Spec => []CheckerConsistent
  <1>1. Judged => CheckerConsistent BY DEF Judged, Consistent, CheckerConsistent
  <1>. QED BY <1>1, JudgedInit, JudgedStep, PTL DEF Spec
=============================================================================
