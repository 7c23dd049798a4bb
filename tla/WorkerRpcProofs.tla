--------------------------- MODULE WorkerRpcProofs ---------------------------
(***************************************************************************)
(* Proofs about WorkerRpc for any calls, health checks and faults: calls   *)
(* run one at a time, and none is stranded or answered twice; and they are *)
(* served in the order in which they were asked for (SerialCalls).         *)
(***************************************************************************)
EXTENDS WorkerRpc, SequenceTheorems, FiniteSetTheorems, TLAPS

----------------------------------------------------------------------------
(* What a sequence holds.                                                  *)

Occurs(s, e) == \E i \in 1..Len(s) : s[i] = e
Once(s, e)   == \A i, j \in 1..Len(s) : s[i] = e /\ s[j] = e => i = j

\* Nothing occurs in the empty sequence.
LEMMA NothingOccurs ==
  ASSUME NEW e
  PROVE  ~Occurs(<<>>, e) /\ Once(<<>>, e)
  BY DEF Occurs, Once

\* What occurs, occurs in what the sequence is made of.
LEMMA OccursIn ==
  ASSUME NEW S, NEW s \in Seq(S), NEW e, Occurs(s, e)
  PROVE  e \in S
  BY ElementOfSeq DEF Occurs

\* A sequence gains its last element.
LEMMA Appended ==
  ASSUME NEW S, NEW s \in Seq(S), NEW e \in S
  PROVE  /\ Append(s, e) \in Seq(S) /\ Append(s, e) # <<>>
         /\ \A m : Occurs(Append(s, e), m) <=> Occurs(s, m) \/ m = e
         /\ \A m : Once(s, m) /\ (m = e => ~Occurs(s, m)) => Once(Append(s, e), m)
  <1> DEFINE t == Append(s, e)
  <1>1. /\ t \in Seq(S) /\ t # <<>> /\ Len(s) \in Nat /\ Len(t) = Len(s) + 1
        /\ \A i \in 1..Len(s) : t[i] = s[i]
        /\ t[Len(s) + 1] = e
    BY AppendProperties, LenProperties
  <1> HIDE DEF t
  <1>2. \A m : Occurs(t, m) <=> Occurs(s, m) \/ m = e
    <2> TAKE m
    <2>1. ASSUME Occurs(t, m) PROVE Occurs(s, m) \/ m = e
      BY <1>1, <2>1 DEF Occurs
    <2>2. ASSUME Occurs(s, m) PROVE Occurs(t, m)
      BY <1>1, <2>2 DEF Occurs
    <2>3. ASSUME m = e PROVE Occurs(t, m)
      BY <1>1, <2>3 DEF Occurs
    <2>. QED BY <2>1, <2>2, <2>3
  <1>3. ASSUME NEW m, Once(s, m), m = e => ~Occurs(s, m)
        PROVE  Once(t, m)
    <2>1. SUFFICES ASSUME NEW i \in 1..Len(t), NEW j \in 1..Len(t),
                          t[i] = m, t[j] = m
                   PROVE  i = j
      BY DEF Once
    <2>2. CASE i \in 1..Len(s) /\ j \in 1..Len(s)
      BY <1>1, <1>3, <2>1, <2>2 DEF Once
    <2>3. CASE i = Len(s) + 1 \/ j = Len(s) + 1
      BY <1>1, <1>3, <2>1, <2>3 DEF Occurs
    <2>. QED BY <1>1, <2>1, <2>2, <2>3
  <1>. QED BY <1>1, <1>2, <1>3 DEF t

\* A sequence loses its first element.
LEMMA Shortened ==
  ASSUME NEW S, NEW s \in Seq(S), s # <<>>
  PROVE  /\ Head(s) \in S /\ Tail(s) \in Seq(S)
         /\ \A m : Occurs(s, m) <=> m = Head(s) \/ Occurs(Tail(s), m)
         /\ \A m : Once(s, m) => Once(Tail(s), m)
         /\ \A m : Once(s, m) /\ m = Head(s) => ~Occurs(Tail(s), m)
  <1> DEFINE t == Tail(s)
             h == Head(s)
  <1>1. /\ t \in Seq(S) /\ h \in S /\ Len(s) \in Nat /\ Len(t) = Len(s) - 1
        /\ Len(s) # 0
        /\ h = s[1] /\ \A i \in 1..Len(t) : t[i] = s[i + 1]
    BY HeadTailProperties, EmptySeq, LenProperties
  <1> HIDE DEF t, h
  <1>2. ASSUME NEW m, Occurs(s, m) PROVE m = h \/ Occurs(t, m)
    <2>1. PICK i \in 1..Len(s) : s[i] = m BY <1>2 DEF Occurs
    <2>2. CASE i = 1 BY <1>1, <2>1, <2>2
    <2>3. CASE i # 1
      <3>1. i - 1 \in 1..Len(t) /\ t[i - 1] = s[i - 1 + 1] /\ i - 1 + 1 = i
        BY <1>1, <2>3
      <3>. QED BY <2>1, <3>1 DEF Occurs
    <2>. QED BY <2>2, <2>3
  <1>3. ASSUME NEW m, m = h \/ Occurs(t, m) PROVE Occurs(s, m)
    <2>1. CASE m = h BY <1>1, <2>1 DEF Occurs
    <2>2. CASE Occurs(t, m)
      <3>1. PICK i \in 1..Len(t) : t[i] = m BY <2>2 DEF Occurs
      <3>2. i + 1 \in 1..Len(s) /\ s[i + 1] = m BY <1>1, <3>1
      <3>. QED BY <3>2 DEF Occurs
    <2>. QED BY <1>3, <2>1, <2>2
  <1>4. ASSUME NEW m, Once(s, m) PROVE Once(t, m)
    <2>1. SUFFICES ASSUME NEW i \in 1..Len(t), NEW j \in 1..Len(t),
                          t[i] = m, t[j] = m
                   PROVE  i = j
      BY DEF Once
    <2>2. i + 1 \in 1..Len(s) /\ j + 1 \in 1..Len(s) /\ s[i + 1] = m /\ s[j + 1] = m
      BY <1>1, <2>1
    <2>3. i + 1 = j + 1 BY <1>4, <2>2 DEF Once
    <2>. QED BY <2>1, <2>3
  <1>5. ASSUME NEW m, Once(s, m), m = h PROVE ~Occurs(t, m)
    <2>1. SUFFICES ASSUME NEW i \in 1..Len(t), t[i] = m PROVE FALSE
      BY DEF Occurs
    <2>2. i + 1 \in 1..Len(s) /\ s[i + 1] = m /\ 1 \in 1..Len(s) /\ s[1] = m
      BY <1>1, <1>5, <2>1
    <2>3. i + 1 = 1 BY <1>5, <2>2 DEF Once
    <2>. QED BY <2>1, <2>3
  <1>. QED BY <1>1, <1>2, <1>3, <1>4, <1>5 DEF t, h

\* The flush takes nothing but a :DOWN of c.
LEMMA Flushes ==
  ASSUME NEW S, NEW s \in Seq(S), NEW c
  PROVE  /\ Flush(s, c) \in Seq(S)
         /\ \A m : Occurs(Flush(s, c), m) => Occurs(s, m)
         /\ \A m : Occurs(s, m) /\ m # Msg("down", c) => Occurs(Flush(s, c), m)
         /\ \A m : Once(s, m) => Once(Flush(s, c), m)
  <1>1. CASE ~\E i \in 1..Len(s) : s[i] = Msg("down", c)
    BY <1>1 DEF Flush
  <1>2. CASE \E i \in 1..Len(s) : s[i] = Msg("down", c)
    <2> DEFINE k == CHOOSE i \in 1..Len(s) : s[i] = Msg("down", c)
               t == Flush(s, c)
    <2>1. k \in 1..Len(s) /\ s[k] = Msg("down", c) BY <1>2
    <2>2. t = [j \in 1..(Len(s) - 1) |-> IF j < k THEN s[j] ELSE s[j + 1]]
      BY <1>2 DEF Flush, Without
    <2>3. Len(s) \in Nat /\ Len(s) - 1 \in Nat /\ k \in Nat
      BY <2>1, LenProperties
    <2> HIDE DEF k, t
    <2>4. t \in Seq(S) /\ Len(t) = Len(s) - 1
      <3>1. \A j \in 1..(Len(s) - 1) : (IF j < k THEN s[j] ELSE s[j + 1]) \in S
        <4> TAKE j \in 1..(Len(s) - 1)
        <4>1. j \in 1..Len(s) /\ j + 1 \in 1..Len(s) BY <2>3
        <4>. QED BY <4>1, ElementOfSeq
      <3>2. t \in [1..(Len(s) - 1) -> S] BY <2>2, <3>1
      <3>. QED BY <2>3, <3>2, IsASeq, LenProperties
    <2>5. ASSUME NEW m, Occurs(t, m) PROVE Occurs(s, m)
      <3>1. PICK j \in 1..Len(t) : t[j] = m BY <2>5 DEF Occurs
      <3>2. /\ j \in 1..Len(s) /\ j + 1 \in 1..Len(s)
            /\ s[j] = m \/ s[j + 1] = m
        BY <2>2, <2>3, <2>4, <3>1
      <3>. QED BY <3>2 DEF Occurs
    <2>6. ASSUME NEW m, Occurs(s, m), m # Msg("down", c) PROVE Occurs(t, m)
      <3>1. PICK j \in 1..Len(s) : s[j] = m BY <2>6 DEF Occurs
      <3>2. j # k BY <2>1, <2>6, <3>1
      <3>3. CASE j < k
        <4>1. j \in 1..Len(t) /\ t[j] = m BY <2>1, <2>2, <2>3, <2>4, <3>1, <3>3
        <4>. QED BY <4>1 DEF Occurs
      <3>4. CASE j > k
        <4>1. j - 1 \in 1..Len(t) /\ ~(j - 1 < k) /\ j - 1 + 1 = j
          BY <2>1, <2>3, <2>4, <3>1, <3>4
        <4>2. t[j - 1] = m BY <2>2, <2>4, <3>1, <4>1
        <4>. QED BY <4>1, <4>2 DEF Occurs
      <3>. QED BY <2>3, <3>1, <3>2, <3>3, <3>4
    <2>7. ASSUME NEW m, Once(s, m) PROVE Once(t, m)
      <3>1. SUFFICES ASSUME NEW i \in 1..Len(t), NEW j \in 1..Len(t),
                            t[i] = m, t[j] = m
                     PROVE  i = j
        BY DEF Once
      <3> DEFINE At(n) == IF n < k THEN n ELSE n + 1
      <3>2. /\ At(i) \in 1..Len(s) /\ s[At(i)] = m
            /\ At(j) \in 1..Len(s) /\ s[At(j)] = m
        BY <2>2, <2>3, <2>4, <3>1
      <3>3. At(i) = At(j) BY <2>7, <3>2 DEF Once
      <3>. QED BY <2>3, <3>1, <3>3
    <2>. QED BY <2>4, <2>5, <2>6, <2>7 DEF t
  <1>. QED BY <1>1, <1>2

----------------------------------------------------------------------------
(* The inductive invariant.                                                *)

\* The message that asks for c waits in the mailbox.
Asked(c) == \/ Occurs(mailbox, Msg("call", c))
            \/ Occurs(mailbox, Msg("health_check", c))

\* A call is in the mailbox, then in the queue, then in its task, and once in
\* each; a task that does not run was heard of, or will be.
CallInv(c) ==
  /\ Once(mailbox, Msg("call", c)) /\ Once(mailbox, Msg("health_check", c))
  /\ Once(queue, c)
  /\ Asked(c) => task[c] = "none" /\ ~Occurs(queue, c)
  /\ Occurs(queue, c) => task[c] = "none"
  /\ c \in pending => task[c] # "none"
  /\ task[c] = "running" => c \in pending
  /\ Occurs(mailbox, Msg("result", c)) => task[c] \in {"returned", "dead"}
  /\ Occurs(mailbox, Msg("down", c)) => task[c] = "dead"
  /\ c \in pending => \/ task[c] = "running"
                      \/ Occurs(mailbox, Msg("result", c))
                      \/ Occurs(mailbox, Msg("down", c))

\* Where the worker knows of a call.
Known(c) == Asked(c) \/ Occurs(queue, c) \/ c \in pending

\* A client that waits is known of, and one that is known of is not answered.
ClientInv(c) ==
  /\ caller[c] = "idle" => ~Known(c) /\ task[c] = "none" /\ replies[c] = 0
  /\ caller[c] = "waiting" => Known(c)
  /\ Known(c) => replies[c] = 0

\* One call is pending, and none is if nothing of it is.
PendingInv ==
  /\ monitors = pending
  /\ \A c, d \in pending : c = d
  /\ queue # <<>> => pending # {}

\* A worker that stopped has nothing pending.
DownInv == worker = "down" => pending = {}

IInv ==
  /\ TypeOK
  /\ DownInv
  /\ PendingInv
  /\ \A c \in Calls : CallInv(c)
  /\ \A c \in Clients : ClientInv(c)

----------------------------------------------------------------------------
(* Messages and the start of a call.                                       *)

\* Messages that differ in kind or call differ.
LEMMA MsgFacts ==
  /\ \A t, u, c, d : Msg(t, c) = Msg(u, d) <=> t = u /\ c = d
  /\ \A t, u, d : Signal(t) # Msg(u, d)
  <1>1. ASSUME NEW t, NEW u, NEW c, NEW d
        PROVE  Msg(t, c) = Msg(u, d) <=> t = u /\ c = d
    <2>1. Msg(t, c).type = t /\ Msg(t, c).call = c /\ Msg(u, d).type = u /\ Msg(u, d).call = d
      BY DEF Msg
    <2>. QED BY <2>1
  <1>2. ASSUME NEW t, NEW u, NEW d
        PROVE  Signal(t) # Msg(u, d)
    <2>1. DOMAIN Signal(t) = {"type"} /\ DOMAIN Msg(u, d) = {"type", "call"}
      BY DEF Signal, Msg
    <2>. QED BY <2>1
  <1>. QED BY <1>1, <1>2

\* The messages there are, and whose they may be.
LEMMA MessageFacts ==
  /\ \A c \in Clients : Msg("call", c) \in Message
  /\ \A k \in Checks : Msg("health_check", k) \in Message
  /\ \A c \in Calls : Msg("result", c) \in Message /\ Msg("down", c) \in Message
  /\ \A t \in {"exit_stop", "exit_error", "port_down", "EXIT_shutdown", "EXIT_heartbeat"} :
       Signal(t) \in Message
  /\ \A c : Msg("call", c) \in Message => c \in Clients
  /\ \A c : Msg("health_check", c) \in Message => c \in Checks
  BY DEF Msg, Signal, Message

\* Clients and checks are different calls.
LEMMA CallFacts ==
  /\ Clients \subseteq Calls /\ Checks \subseteq Calls
  /\ \A c \in Clients : c \notin Checks
  BY RpcAssumption DEF Calls

\* maybe_start_next_rpc_call/1 starts a set of at most one call: a queued one,
\* and only when none is pending.
LEMMA Started ==
  ASSUME NEW q \in Seq(Calls), NEW running \in SUBSET Calls,
         task \in [Calls -> {"none", "running", "returned", "dead"}],
         \A c, d \in running : c = d,
         \A c \in Calls : Once(q, c),
         StartNext(q, running)
  PROVE  \E S \in SUBSET Calls :
           /\ \A c \in S : Occurs(q, c)
           /\ S # {} => running = {}
           /\ \A c, d \in S : c = d
           /\ queue' \in Seq(Calls)
           /\ \A c \in Calls : Occurs(queue', c) <=> Occurs(q, c) /\ c \notin S
           /\ \A c \in Calls : Once(queue', c)
           /\ queue' # <<>> => pending' # {}
           /\ pending' = running \cup S /\ monitors' = pending'
           /\ task' = [c \in Calls |-> IF c \in S THEN "running" ELSE task[c]]
  <1>1. CASE MayStart(q, running)
    <2> DEFINE h == Head(q)
    <2>1. running = {} /\ q # <<>> BY <1>1 DEF MayStart
    <2>2. /\ queue' = Tail(q) /\ pending' = running \cup {h} /\ monitors' = running \cup {h}
          /\ task' = [task EXCEPT ![h] = "running"]
      BY <1>1 DEF StartNext
    <2>3. /\ h \in Calls /\ Tail(q) \in Seq(Calls)
          /\ \A m : Occurs(q, m) <=> m = h \/ Occurs(Tail(q), m)
          /\ \A m : Once(q, m) => Once(Tail(q), m)
          /\ \A m : Once(q, m) /\ m = h => ~Occurs(Tail(q), m)
      BY <2>1, Shortened
    <2> HIDE DEF h
    <2>4. task' = [c \in Calls |-> IF c \in {h} THEN "running" ELSE task[c]]
      BY <2>2, <2>3
    <2>5. /\ {h} \in SUBSET Calls
          /\ \A c \in {h} : Occurs(q, c)
          /\ \A c, d \in {h} : c = d
          /\ \A c \in Calls : Occurs(queue', c) <=> Occurs(q, c) /\ c \notin {h}
          /\ \A c \in Calls : Once(queue', c)
          /\ pending' # {} /\ monitors' = pending'
      BY <2>2, <2>3
    <2>. QED BY <2>1, <2>2, <2>3, <2>4, <2>5
  <1>2. CASE ~MayStart(q, running)
    <2>1. queue' = q /\ pending' = running /\ monitors' = running /\ task' = task
      BY <1>2 DEF StartNext
    <2>2. q # <<>> => running # {} BY <1>2 DEF MayStart
    <2>3. task = [c \in Calls |-> IF c \in {} THEN "running" ELSE task[c]]
      OBVIOUS
    <2>4. /\ {} \in SUBSET Calls /\ pending' = running \cup {}
          /\ \A c \in Calls : Occurs(queue', c) <=> Occurs(q, c) /\ c \notin {}
          /\ \A c \in Calls : Once(queue', c)
          /\ queue' \in Seq(Calls)
      BY <2>1
    <2>. QED BY <2>1, <2>2, <2>3, <2>4
  <1>. QED BY <1>1, <1>2

----------------------------------------------------------------------------
(* The steps.                                                              *)

\* A message is taken from the mailbox.
LEMMA Received ==
  ASSUME TypeOK, NEW m, Receive(m)
  PROVE  /\ worker = "up" /\ m \in Message
         /\ Tail(mailbox) \in Seq(Message)
         /\ \A x : Occurs(mailbox, x) <=> x = m \/ Occurs(Tail(mailbox), x)
         /\ \A x : Once(mailbox, x) => Once(Tail(mailbox), x)
         /\ Once(mailbox, m) => ~Occurs(Tail(mailbox), m)
  BY Shortened DEF TypeOK, Receive

\* A message is added to it.
LEMMA Sent ==
  ASSUME TypeOK, NEW m \in Message, Send(m)
  PROVE  /\ mailbox' \in Seq(Message)
         /\ \A x : Occurs(mailbox', x) <=> Occurs(mailbox, x) \/ x = m
         /\ \A x : Once(mailbox, x) /\ (x = m => ~Occurs(mailbox, x)) => Once(mailbox', x)
  BY Appended DEF TypeOK, Send

\* The signal of a process that is no task, the death of Python and the stop
\* of the system change nothing a call depends on.
LEMMA SignalSent ==
  ASSUME IInv, NEW s \in {"exit_stop", "exit_error", "port_down",
                          "EXIT_shutdown", "EXIT_heartbeat"},
         Send(Signal(s)),
         UNCHANGED <<rpc, caller, replies, health_timer, worker, exit>>,
         python' \in BOOLEAN, stopping' \in BOOLEAN
  PROVE  IInv'
  <1>1. Signal(s) \in Message BY MessageFacts
  <1>2. /\ mailbox' \in Seq(Message)
        /\ \A x : Occurs(mailbox', x) <=> Occurs(mailbox, x) \/ x = Signal(s)
        /\ \A x : Once(mailbox, x) /\ (x = Signal(s) => ~Occurs(mailbox, x)) => Once(mailbox', x)
    BY <1>1, Sent DEF IInv
  <1>3. \A t, c : /\ Occurs(mailbox', Msg(t, c)) <=> Occurs(mailbox, Msg(t, c))
                  /\ Once(mailbox, Msg(t, c)) => Once(mailbox', Msg(t, c))
    BY <1>2, MsgFacts
  <1>4. TypeOK' BY <1>2 DEF IInv, TypeOK, rpc
  <1>5. PendingInv' /\ DownInv' BY DEF IInv, PendingInv, DownInv, rpc
  <1>6. ASSUME NEW c \in Calls PROVE CallInv(c)'
    BY <1>3 DEF IInv, CallInv, Asked, rpc
  <1>7. ASSUME NEW c \in Clients PROVE ClientInv(c)'
    BY <1>3 DEF IInv, ClientInv, Known, Asked, rpc
  <1>. QED BY <1>4, <1>5, <1>6, <1>7 DEF IInv

\* A client asks: its call is nowhere yet.
LEMMA AskStep ==
  ASSUME IInv, NEW c \in Clients, Ask(c)
  PROVE  IInv'
  <1> DEFINE m == Msg("call", c)
  <1>1. m \in Message BY MessageFacts
  <1>2. /\ mailbox' \in Seq(Message)
        /\ \A x : Occurs(mailbox', x) <=> Occurs(mailbox, x) \/ x = m
        /\ \A x : Once(mailbox, x) /\ (x = m => ~Occurs(mailbox, x)) => Once(mailbox', x)
    BY <1>1, Sent DEF IInv, Ask
  <1>3. ~Known(c) /\ task[c] = "none" /\ replies[c] = 0 /\ caller[c] = "idle"
    BY DEF IInv, ClientInv, Ask
  <1>4. ~Occurs(mailbox, m) BY <1>3 DEF Known, Asked
  <1>5. \A t, d : /\ Occurs(mailbox', Msg(t, d))
                       <=> Occurs(mailbox, Msg(t, d)) \/ (t = "call" /\ d = c)
                  /\ Once(mailbox, Msg(t, d)) => Once(mailbox', Msg(t, d))
    BY <1>2, <1>4, MsgFacts
  <1>6. caller' = [caller EXCEPT ![c] = "waiting"]
          /\ UNCHANGED <<rpc, replies, health_timer, ends>>
    BY DEF Ask
  <1>7. TypeOK' BY <1>2, <1>6 DEF IInv, TypeOK, rpc, ends
  <1>8. PendingInv' /\ DownInv' BY <1>6 DEF IInv, PendingInv, DownInv, rpc, ends
  <1>9. ASSUME NEW d \in Calls PROVE CallInv(d)'
    BY <1>3, <1>5, <1>6 DEF IInv, CallInv, Asked, Known, rpc
  <1>10. ASSUME NEW d \in Clients PROVE ClientInv(d)'
    <2>1. CASE d = c
      BY <1>3, <1>5, <1>6, <2>1 DEF IInv, TypeOK, ClientInv, Known, Asked, rpc
    <2>2. CASE d # c
      BY <1>5, <1>6, <2>2 DEF IInv, TypeOK, ClientInv, Known, Asked, rpc
    <2>. QED BY <2>1, <2>2
  <1>. QED BY <1>7, <1>8, <1>9, <1>10 DEF IInv

\* A client that gives up changes nothing the worker knows.
LEMMA CallerTimeoutStep ==
  ASSUME IInv, NEW c \in Clients, CallerTimeout(c)
  PROVE  IInv'
  <1>1. caller' = [caller EXCEPT ![c] = "gave_up"]
          /\ UNCHANGED <<mailbox, rpc, replies, health_timer, ends>>
    BY DEF CallerTimeout
  <1>2. TypeOK' BY <1>1 DEF IInv, TypeOK, rpc, ends
  <1>3. PendingInv' /\ DownInv' BY <1>1 DEF IInv, PendingInv, DownInv, rpc, ends
  <1>4. ASSUME NEW d \in Calls PROVE CallInv(d)'
    BY <1>1 DEF IInv, CallInv, Asked, rpc
  <1>5. ASSUME NEW d \in Clients PROVE ClientInv(d)'
    BY <1>1 DEF IInv, TypeOK, ClientInv, Known, Asked, rpc
  <1>. QED BY <1>2, <1>3, <1>4, <1>5 DEF IInv

\* The health timer asks for a check that is nowhere yet.
LEMMA HealthTimerStep ==
  ASSUME IInv, NEW k \in Checks, HealthTimer(k)
  PROVE  IInv'
  <1> DEFINE m == Msg("health_check", k)
  <1>1. m \in Message /\ k \in Calls BY MessageFacts, CallFacts
  <1>2. /\ mailbox' \in Seq(Message)
        /\ \A x : Occurs(mailbox', x) <=> Occurs(mailbox, x) \/ x = m
        /\ \A x : Once(mailbox, x) /\ (x = m => ~Occurs(mailbox, x)) => Once(mailbox', x)
    BY <1>1, Sent DEF IInv, HealthTimer
  <1>3. task[k] = "none" /\ ~Occurs(queue, k) /\ ~Occurs(mailbox, m)
    BY DEF HealthTimer, Queued, InMail, Occurs
  <1>4. \A t, d : /\ Occurs(mailbox', Msg(t, d))
                       <=> Occurs(mailbox, Msg(t, d)) \/ (t = "health_check" /\ d = k)
                  /\ Once(mailbox, Msg(t, d)) => Once(mailbox', Msg(t, d))
    BY <1>2, <1>3, MsgFacts
  <1>5. health_timer' = FALSE /\ UNCHANGED <<rpc, caller, replies, ends>>
    BY DEF HealthTimer
  <1>6. TypeOK' BY <1>2, <1>5 DEF IInv, TypeOK, rpc, ends
  <1>7. PendingInv' /\ DownInv' BY <1>5 DEF IInv, PendingInv, DownInv, rpc, ends
  <1>8. ASSUME NEW d \in Calls PROVE CallInv(d)'
    BY <1>3, <1>4, <1>5 DEF IInv, CallInv, Asked, rpc
  <1>9. ASSUME NEW d \in Clients PROVE ClientInv(d)'
    <2>1. d # k BY CallFacts
    <2>. QED BY <1>4, <1>5, <2>1 DEF IInv, ClientInv, Known, Asked, rpc
  <1>. QED BY <1>6, <1>7, <1>8, <1>9 DEF IInv

\* A request leaves the mailbox for the queue, and the next call may start.
LEMMA Queues ==
  ASSUME IInv, NEW c \in Calls, NEW t \in {"call", "health_check"},
         Receive(Msg(t, c)), mailbox' = Tail(mailbox),
         StartNext(Push(queue, c), pending),
         UNCHANGED <<caller, replies, ends>>, health_timer' \in BOOLEAN
  PROVE  IInv'
  <1> DEFINE m == Msg(t, c)
  <1>1. /\ mailbox' \in Seq(Message)
        /\ \A x : Occurs(mailbox, x) <=> x = m \/ Occurs(mailbox', x)
        /\ \A x : Once(mailbox, x) => Once(mailbox', x)
        /\ Once(mailbox, m) => ~Occurs(mailbox', m)
    BY Received DEF IInv
  <1>2. CallInv(c) /\ Asked(c) BY <1>1 DEF IInv, Asked
  <1>3. task[c] = "none" /\ ~Occurs(queue, c) /\ c \notin pending
          /\ ~Occurs(mailbox', m)
    BY <1>1, <1>2 DEF CallInv
  <1>4. \A u, d : /\ Occurs(mailbox', Msg(u, d))
                       <=> Occurs(mailbox, Msg(u, d)) /\ ~(u = t /\ d = c)
                  /\ Once(mailbox, Msg(u, d)) => Once(mailbox', Msg(u, d))
    BY <1>1, <1>3, MsgFacts
  <1>5. ~Asked(c)'
    <2>1. Msg(t, c) \in Message BY Received DEF IInv
    <2>2. CASE t = "call"
      <3>1. c \notin Checks BY <2>1, <2>2, MessageFacts, CallFacts
      <3>2. ~Occurs(mailbox', Msg("health_check", c)) BY <1>1, <3>1, OccursIn, MessageFacts
      <3>. QED BY <1>3, <2>2, <3>2 DEF Asked
    <2>3. CASE t = "health_check"
      <3>1. c \notin Clients BY <2>1, <2>3, MessageFacts, CallFacts
      <3>2. ~Occurs(mailbox', Msg("call", c)) BY <1>1, <3>1, OccursIn, MessageFacts
      <3>. QED BY <1>3, <2>3, <3>2 DEF Asked
    <2>. QED BY <2>2, <2>3
  <1> DEFINE q == Push(queue, c)
  <1>6. /\ q \in Seq(Calls)
        /\ \A d \in Calls : Occurs(q, d) <=> Occurs(queue, d) \/ d = c
        /\ \A d \in Calls : Once(q, d)
    BY <1>3, Appended DEF IInv, TypeOK, CallInv, Push
  <1> HIDE DEF q
  <1>7. PICK S \in SUBSET Calls :
           /\ \A d \in S : Occurs(q, d)
           /\ S # {} => pending = {}
           /\ \A d, e \in S : d = e
           /\ queue' \in Seq(Calls)
           /\ \A d \in Calls : Occurs(queue', d) <=> Occurs(q, d) /\ d \notin S
           /\ \A d \in Calls : Once(queue', d)
           /\ queue' # <<>> => pending' # {}
           /\ pending' = pending \cup S /\ monitors' = pending'
           /\ task' = [d \in Calls |-> IF d \in S THEN "running" ELSE task[d]]
    <2>1. StartNext(q, pending) BY DEF q
    <2>. QED BY <1>6, <2>1, Started DEF IInv, TypeOK, PendingInv
  <1>8. TypeOK' BY <1>1, <1>7 DEF IInv, TypeOK, ends
  <1>9. PendingInv' /\ DownInv'
    <2>1. worker' = "up" BY Received DEF IInv, ends
    <2>. QED BY <1>7, <2>1 DEF IInv, PendingInv, DownInv
  <1>10. ASSUME NEW d \in Calls PROVE CallInv(d)'
    <2>1. CallInv(d) BY DEF IInv
    <2>2. CASE d = c
      BY <1>3, <1>4, <1>5, <1>6, <1>7, <2>1, <2>2 DEF CallInv
    <2>3. CASE d # c
      <3>1. Asked(d)' <=> Asked(d) BY <1>4, <2>3 DEF Asked
      <3>. QED BY <1>4, <1>6, <1>7, <2>1, <2>3, <3>1 DEF CallInv
    <2>. QED BY <2>2, <2>3
  <1>11. ASSUME NEW d \in Clients PROVE ClientInv(d)'
    <2>1. d \in Calls /\ ClientInv(d) BY CallFacts DEF IInv
    <2>2. Known(d)' <=> Known(d)
      <3>1. CASE d = c
        BY <1>2, <1>6, <1>7, <2>1, <3>1 DEF Known
      <3>2. CASE d # c
        <4>1. Asked(d)' <=> Asked(d) BY <1>4, <3>2 DEF Asked
        <4>. QED BY <1>6, <1>7, <2>1, <3>2, <4>1 DEF Known
      <3>. QED BY <3>1, <3>2
    <2>3. task[d] = "none" /\ ~Known(d) => task'[d] = "none"
      BY <1>2, <1>6, <1>7, <2>1 DEF Known
    <2>. QED BY <2>1, <2>2, <2>3 DEF ClientInv
  <1>. QED BY <1>8, <1>9, <1>10, <1>11 DEF IInv

\* A pending call ends: it is answered and the next one may start.
LEMMA Ends ==
  ASSUME IInv, NEW c \in pending, task[c] # "running",
         mailbox' \in Seq(Message),
         \A x : Occurs(mailbox', x) => Occurs(mailbox, x),
         \A x : Once(mailbox, x) => Once(mailbox', x),
         \A x : Occurs(mailbox, x) /\ x # Msg("result", c) /\ x # Msg("down", c)
                  => Occurs(mailbox', x),
         Reply({c}), StartNext(queue, pending \ {c}),
         UNCHANGED <<health_timer, ends>>
  PROVE  IInv'
  <1>1. /\ c \in Calls /\ CallInv(c) /\ pending \ {c} = {} /\ pending = {c}
    BY DEF IInv, TypeOK, PendingInv
  <1> DEFINE rest == pending \ {c}
  <1> HIDE DEF rest
  <1>2. PICK S \in SUBSET Calls :
           /\ \A d \in S : Occurs(queue, d)
           /\ S # {} => rest = {}
           /\ \A d, e \in S : d = e
           /\ queue' \in Seq(Calls)
           /\ \A d \in Calls : Occurs(queue', d) <=> Occurs(queue, d) /\ d \notin S
           /\ \A d \in Calls : Once(queue', d)
           /\ queue' # <<>> => pending' # {}
           /\ pending' = rest \cup S /\ monitors' = pending'
           /\ task' = [d \in Calls |-> IF d \in S THEN "running" ELSE task[d]]
    <2>1. /\ queue \in Seq(Calls) /\ rest \in SUBSET Calls /\ StartNext(queue, rest)
          /\ \A d, e \in rest : d = e
          /\ \A d \in Calls : Once(queue, d)
          /\ task \in [Calls -> {"none", "running", "returned", "dead"}]
      BY DEF IInv, TypeOK, PendingInv, CallInv, rest
    <2>. QED BY <2>1, Started
  <1> USE DEF rest
  <1>3. /\ ~Occurs(queue, c) /\ ~Asked(c) /\ task[c] # "none" /\ c \notin S /\ c \notin pending'
    BY <1>1, <1>2 DEF CallInv
  <1>4. \A u, d : /\ Occurs(mailbox', Msg(u, d)) => Occurs(mailbox, Msg(u, d))
                  /\ d # c => (Occurs(mailbox', Msg(u, d)) <=> Occurs(mailbox, Msg(u, d)))
                  /\ Once(mailbox, Msg(u, d)) => Once(mailbox', Msg(u, d))
    BY MsgFacts
  <1>5. \A d \in Clients :
          /\ d = c => replies'[d] = replies[d] + 1 /\ caller'[d] # "waiting"
                        /\ (caller'[d] = "idle" => caller[d] = "idle")
          /\ d # c => replies'[d] = replies[d] /\ caller'[d] = caller[d]
    BY DEF Reply, IInv, TypeOK
  <1>6. c \in Clients => replies[c] = 0
    BY DEF IInv, ClientInv, Known
  <1>7. TypeOK'
    <2>1. replies' \in [Clients -> 0..1]
      BY <1>5, <1>6 DEF Reply, IInv, TypeOK
    <2>2. caller' \in [Clients -> {"idle", "waiting", "answered", "gave_up", "exited"}]
      BY DEF Reply, IInv, TypeOK
    <2>. QED BY <1>2, <2>1, <2>2 DEF IInv, TypeOK, ends
  <1>8. PendingInv' /\ DownInv' BY <1>1, <1>2 DEF PendingInv, DownInv, IInv, ends
  <1>9. ASSUME NEW d \in Calls PROVE CallInv(d)'
    <2>1. CallInv(d) BY DEF IInv
    <2>2. CASE d = c
      BY <1>2, <1>3, <1>4, <2>1, <2>2 DEF CallInv, Asked
    <2>3. CASE d # c
      <3>1. Asked(d)' <=> Asked(d) BY <1>4, <2>3 DEF Asked
      <3>. QED BY <1>1, <1>2, <1>4, <2>1, <2>3, <3>1 DEF CallInv
    <2>. QED BY <2>2, <2>3
  <1>10. ASSUME NEW d \in Clients PROVE ClientInv(d)'
    <2>1. d \in Calls /\ ClientInv(d) BY CallFacts DEF IInv
    <2>2. CASE d = c
      <3>1. ~Known(d)' BY <1>2, <1>3, <1>4, <2>1, <2>2 DEF Known, Asked
      <3>2. caller[d] # "idle" BY <1>3, <2>1, <2>2 DEF ClientInv
      <3>. QED BY <1>5, <2>2, <3>1, <3>2 DEF ClientInv
    <2>3. CASE d # c
      <3>1. Known(d)' <=> Known(d) BY <1>1, <1>2, <1>4, <2>1, <2>3 DEF Known, Asked
      <3>2. task[d] = "none" /\ ~Known(d) => task'[d] = "none"
        BY <1>2, <2>1 DEF Known
      <3>. QED BY <1>5, <2>1, <2>3, <3>1, <3>2 DEF ClientInv
    <2>. QED BY <2>2, <2>3
  <1>. QED BY <1>7, <1>8, <1>9, <1>10 DEF IInv

\* A message about a call that is not pending is dropped.
LEMMA Ignored ==
  ASSUME IInv, NEW c, c \notin pending, NEW t \in {"result", "down"},
         mailbox' \in Seq(Message),
         UNCHANGED <<rpc, caller, replies, health_timer, ends>>,
         \A u, d : /\ Occurs(mailbox', Msg(u, d)) => Occurs(mailbox, Msg(u, d))
                   /\ Once(mailbox, Msg(u, d)) => Once(mailbox', Msg(u, d))
                   /\ u # t \/ d # c =>
                        (Occurs(mailbox', Msg(u, d)) <=> Occurs(mailbox, Msg(u, d)))
  PROVE  IInv'
  <1>1. TypeOK' BY DEF IInv, TypeOK, rpc, ends
  <1>2. PendingInv' /\ DownInv' BY DEF IInv, PendingInv, DownInv, rpc, ends
  <1>3. \A d : Asked(d)' <=> Asked(d) BY DEF Asked
  <1>4. ASSUME NEW d \in Calls PROVE CallInv(d)'
    <2>1. CallInv(d) BY DEF IInv
    <2>. QED BY <1>3, <2>1 DEF CallInv, rpc
  <1>5. ASSUME NEW d \in Clients PROVE ClientInv(d)'
    BY <1>3 DEF IInv, ClientInv, Known, rpc
  <1>. QED BY <1>1, <1>2, <1>4, <1>5 DEF IInv

\* A task that returns has its result in the mailbox.
LEMMA TaskReturnsStep ==
  ASSUME IInv, NEW c \in Calls, TaskReturns(c)
  PROVE  IInv'
  <1> DEFINE m == Msg("result", c)
  <1>1. /\ task[c] = "running" /\ task' = [task EXCEPT ![c] = "returned"]
        /\ UNCHANGED <<queue, pending, monitors, caller, replies, health_timer, ends>>
    BY DEF TaskReturns
  <1>2. worker = "up" => Send(m) BY DEF TaskReturns
  <1>3. worker # "up" => mailbox' = mailbox BY DEF TaskReturns
  <1>4. CallInv(c) /\ c \in pending BY <1>1 DEF IInv, CallInv
  <1>5. IInv' 
    <2>1. CASE worker = "up"
      <3>1. m \in Message BY MessageFacts
      <3>2. /\ mailbox' \in Seq(Message)
            /\ \A x : Occurs(mailbox', x) <=> Occurs(mailbox, x) \/ x = m
            /\ \A x : Once(mailbox, x) /\ (x = m => ~Occurs(mailbox, x)) => Once(mailbox', x)
        BY <1>2, <2>1, <3>1, Sent DEF IInv
      <3>3. \A t, d : /\ Occurs(mailbox', Msg(t, d))
                           <=> Occurs(mailbox, Msg(t, d)) \/ (t = "result" /\ d = c)
                      /\ t # "result" /\ Once(mailbox, Msg(t, d)) => Once(mailbox', Msg(t, d))
        BY <3>2, MsgFacts
      <3>4. TypeOK' BY <1>1, <3>2 DEF IInv, TypeOK, ends
      <3>5. PendingInv' /\ DownInv' BY <1>1 DEF IInv, PendingInv, DownInv, ends
      <3>6. ASSUME NEW d \in Calls PROVE CallInv(d)'
        <4>1. CallInv(d) /\ (Asked(d)' <=> Asked(d)) BY <3>3 DEF IInv, Asked
        <4>2. CASE d = c
          BY <1>1, <1>4, <3>3, <4>1, <4>2 DEF IInv, TypeOK, CallInv
        <4>3. CASE d # c
          BY <1>1, <3>3, <4>1, <4>3 DEF IInv, TypeOK, CallInv
        <4>. QED BY <4>2, <4>3
      <3>7. ASSUME NEW d \in Clients PROVE ClientInv(d)'
        <4>1. d \in Calls /\ ClientInv(d) /\ (Asked(d)' <=> Asked(d))
          BY <3>3, CallFacts DEF IInv, Asked
        <4>2. Known(d)' <=> Known(d) BY <1>1, <4>1 DEF Known
        <4>3. task[d] = "none" => task'[d] = "none"
          BY <1>1, <4>1 DEF IInv, TypeOK
        <4>. QED BY <1>1, <4>1, <4>2, <4>3 DEF ClientInv
      <3>. QED BY <3>4, <3>5, <3>6, <3>7 DEF IInv
    <2>2. CASE worker # "up"
      <3>1. worker = "down" /\ pending = {} BY <2>2 DEF IInv, TypeOK, DownInv
      <3>. QED BY <1>4, <3>1
    <2>. QED BY <2>1, <2>2
  <1>. QED BY <1>5

\* A task that is killed has its death in the mailbox.
LEMMA TaskKilledStep ==
  ASSUME IInv, NEW c \in Calls, TaskKilled(c)
  PROVE  IInv'
  <1> DEFINE m == Msg("down", c)
  <1>1. /\ task[c] \in {"running", "returned"} /\ task' = [task EXCEPT ![c] = "dead"]
        /\ c \in monitors /\ Send(m)
        /\ UNCHANGED <<queue, pending, monitors, caller, replies, health_timer, ends>>
    BY DEF TaskKilled
  <1>2. CallInv(c) /\ c \in pending BY <1>1 DEF IInv, PendingInv
  <1>3. m \in Message BY MessageFacts
  <1>4. /\ mailbox' \in Seq(Message)
        /\ \A x : Occurs(mailbox', x) <=> Occurs(mailbox, x) \/ x = m
        /\ \A x : Once(mailbox, x) /\ (x = m => ~Occurs(mailbox, x)) => Once(mailbox', x)
    BY <1>1, <1>3, Sent DEF IInv
  <1>5. \A t, d : /\ Occurs(mailbox', Msg(t, d))
                       <=> Occurs(mailbox, Msg(t, d)) \/ (t = "down" /\ d = c)
                  /\ t # "down" /\ Once(mailbox, Msg(t, d)) => Once(mailbox', Msg(t, d))
    BY <1>4, MsgFacts
  <1>6. TypeOK' BY <1>1, <1>4 DEF IInv, TypeOK, ends
  <1>7. PendingInv' /\ DownInv' BY <1>1 DEF IInv, PendingInv, DownInv, ends
  <1>8. ASSUME NEW d \in Calls PROVE CallInv(d)'
    <2>1. CallInv(d) /\ (Asked(d)' <=> Asked(d)) BY <1>5 DEF IInv, Asked
    <2>2. CASE d = c
      BY <1>1, <1>2, <1>5, <2>1, <2>2 DEF IInv, TypeOK, CallInv
    <2>3. CASE d # c
      BY <1>1, <1>5, <2>1, <2>3 DEF IInv, TypeOK, CallInv
    <2>. QED BY <2>2, <2>3
  <1>9. ASSUME NEW d \in Clients PROVE ClientInv(d)'
    <2>1. d \in Calls /\ ClientInv(d) /\ (Asked(d)' <=> Asked(d))
      BY <1>5, CallFacts DEF IInv, Asked
    <2>2. Known(d)' <=> Known(d) BY <1>1, <2>1 DEF Known
    <2>3. task[d] = "none" => task'[d] = "none"
      BY <1>1, <2>1 DEF IInv, TypeOK
    <2>. QED BY <1>1, <2>1, <2>2, <2>3 DEF ClientInv
  <1>. QED BY <1>6, <1>7, <1>8, <1>9 DEF IInv

\* A result ends its call, or is dropped.
LEMMA ResultStep ==
  ASSUME IInv, NEW c \in Calls, Result(c)
  PROVE  IInv'
  <1> DEFINE m == Msg("result", c)
             t == Tail(mailbox)
  <1>1. Receive(m) BY DEF Result
  <1>2. /\ t \in Seq(Message)
        /\ \A x : Occurs(mailbox, x) <=> x = m \/ Occurs(t, x)
        /\ \A x : Once(mailbox, x) => Once(t, x)
    BY <1>1, Received DEF IInv
  <1> HIDE DEF t
  <1>3. CASE c \in pending
    <2>1. mailbox' = Flush(t, c) /\ Reply({c}) /\ StartNext(queue, pending \ {c})
            /\ UNCHANGED <<health_timer, ends>>
      BY <1>3 DEF Result, t
    <2>2. /\ Flush(t, c) \in Seq(Message)
          /\ \A x : Occurs(Flush(t, c), x) => Occurs(t, x)
          /\ \A x : Occurs(t, x) /\ x # Msg("down", c) => Occurs(Flush(t, c), x)
          /\ \A x : Once(t, x) => Once(Flush(t, c), x)
      BY <1>2, Flushes
    <2>3. /\ mailbox' \in Seq(Message)
          /\ \A x : Occurs(mailbox', x) => Occurs(mailbox, x)
          /\ \A x : Once(mailbox, x) => Once(mailbox', x)
          /\ \A x : Occurs(mailbox, x) /\ x # m /\ x # Msg("down", c) => Occurs(mailbox', x)
      BY <1>2, <2>1, <2>2
    <2>4. task[c] # "running" BY <1>2 DEF IInv, CallInv
    <2>. QED BY <1>3, <2>1, <2>3, <2>4, Ends
  <1>4. CASE c \notin pending
    <2>1. mailbox' = t /\ UNCHANGED <<rpc, caller, replies, health_timer, ends>>
      BY <1>4 DEF Result, t
    <2>2. \A u, d : /\ Occurs(mailbox', Msg(u, d)) => Occurs(mailbox, Msg(u, d))
                    /\ Once(mailbox, Msg(u, d)) => Once(mailbox', Msg(u, d))
                    /\ u # "result" \/ d # c =>
                         (Occurs(mailbox', Msg(u, d)) <=> Occurs(mailbox, Msg(u, d)))
      BY <1>2, <2>1, MsgFacts
    <2>. QED BY <1>2, <1>4, <2>1, <2>2, Ignored
  <1>. QED BY <1>3, <1>4

\* The death of a task ends its call, or is dropped.
LEMMA DownStep ==
  ASSUME IInv, NEW c \in Calls, Down(c)
  PROVE  IInv'
  <1> DEFINE m == Msg("down", c)
             t == Tail(mailbox)
  <1>1. Receive(m) /\ mailbox' = t BY DEF Down
  <1>2. /\ t \in Seq(Message)
        /\ \A x : Occurs(mailbox, x) <=> x = m \/ Occurs(t, x)
        /\ \A x : Once(mailbox, x) => Once(t, x)
    BY <1>1, Received DEF IInv
  <1> HIDE DEF t
  <1>3. CASE c \in monitors
    <2>1. Reply({c}) /\ StartNext(queue, pending \ {c}) /\ UNCHANGED <<health_timer, ends>>
      BY <1>3 DEF Down, AfterDown
    <2>2. c \in pending /\ task[c] # "running"
      BY <1>2, <1>3 DEF IInv, PendingInv, CallInv
    <2>. QED BY <1>1, <1>2, <2>1, <2>2, Ends
  <1>4. CASE c \notin monitors
    <2>1. UNCHANGED <<rpc, caller, replies, health_timer, ends>>
      BY <1>4 DEF Down
    <2>2. c \notin pending BY <1>4 DEF IInv, PendingInv
    <2>3. \A u, d : /\ Occurs(mailbox', Msg(u, d)) => Occurs(mailbox, Msg(u, d))
                    /\ Once(mailbox, Msg(u, d)) => Once(mailbox', Msg(u, d))
                    /\ u # "down" \/ d # c =>
                         (Occurs(mailbox', Msg(u, d)) <=> Occurs(mailbox, Msg(u, d)))
      BY <1>1, <1>2, MsgFacts
    <2>. QED BY <1>1, <1>2, <2>1, <2>2, <2>3, Ignored
  <1>. QED BY <1>3, <1>4

\* A client's call is asked for by a call message.
LEMMA ClientAsks ==
  ASSUME TypeOK, NEW c \in Clients, Asked(c)
  PROVE  Occurs(mailbox, Msg("call", c))
  <1>1. mailbox \in Seq(Message) BY DEF TypeOK
  <1>2. Occurs(mailbox, Msg("health_check", c)) => c \in Checks
    BY <1>1, OccursIn, MessageFacts
  <1>. QED BY <1>2, CallFacts DEF Asked

\* terminate/2 answers, or ends with an exit, every call that waits.
LEMMA StopStep ==
  ASSUME IInv, worker = "up", NEW why \in {"shutdown", "heartbeat", "crash"}, Stop(why)
  PROVE  IInv'
  <1>1. /\ worker' = "down" /\ exit' = why /\ python' = FALSE /\ stopping' = stopping
        /\ mailbox' = <<>> /\ queue' = <<>> /\ pending' = {} /\ monitors' = {}
        /\ health_timer' = FALSE
        /\ task' = [c \in Calls |-> IF c \in pending THEN "dead" ELSE task[c]]
    BY DEF Stop
  <1>2. ASSUME NEW c \in Clients
        PROVE  /\ replies'[c] \in 0..1
               /\ caller'[c] \in {"waiting", "idle", "answered", "gave_up", "exited"}
               /\ caller'[c] = "idle" => caller[c] = "idle" /\ replies'[c] = replies[c]
               /\ caller'[c] # "waiting"
    <2>1. c \in Calls /\ ClientInv(c) BY CallFacts DEF IInv
    <2>2. c \in Answered => Known(c)
      BY DEF Answered, Known, Queued, Occurs
    <2>3. Known(c) => c \in Answered \/ InMail(Msg("call", c))
      <3>1. Asked(c) => InMail(Msg("call", c)) BY ClientAsks DEF IInv, InMail, Occurs
      <3>. QED BY <2>1, <3>1 DEF Answered, Known, Queued, Occurs
    <2>4. replies'[c] = IF c \in Answered THEN replies[c] + 1 ELSE replies[c]
      BY DEF Stop
    <2>5. caller'[c] = IF caller[c] # "waiting" THEN caller[c]
                       ELSE IF c \in Answered THEN "answered"
                       ELSE IF InMail(Msg("call", c)) THEN "exited" ELSE caller[c]
      BY DEF Stop
    <2>6. replies[c] \in 0..1
            /\ caller[c] \in {"idle", "waiting", "answered", "gave_up", "exited"}
      BY DEF IInv, TypeOK
    <2>7. CASE caller[c] # "waiting"
      <3>1. caller'[c] = caller[c] BY <2>5, <2>7
      <3>. QED BY <2>1, <2>2, <2>4, <2>6, <2>7, <3>1 DEF ClientInv
    <2>8. CASE caller[c] = "waiting"
      <3>1. Known(c) /\ replies[c] = 0 BY <2>1, <2>8 DEF ClientInv
      <3>2. caller'[c] \in {"answered", "exited"}
        BY <2>3, <2>5, <2>8, <3>1
      <3>. QED BY <2>4, <2>6, <3>1, <3>2
    <2>. QED BY <2>7, <2>8
  <1>3. TypeOK'
    <2>1. replies' \in [Clients -> 0..1] BY <1>2 DEF Stop
    <2>2. caller' \in [Clients -> {"idle", "waiting", "answered", "gave_up", "exited"}]
      BY <1>2 DEF Stop
    <2>3. task' \in [Calls -> {"none", "running", "returned", "dead"}]
      BY <1>1 DEF IInv, TypeOK
    <2>4. <<>> \in Seq(Message) /\ <<>> \in Seq(Calls) BY EmptySeq
    <2>. QED BY <1>1, <2>1, <2>2, <2>3, <2>4 DEF IInv, TypeOK
  <1>4. PendingInv' /\ DownInv' BY <1>1 DEF PendingInv, DownInv
  <1>5. \A x : ~Occurs(mailbox', x) /\ ~Occurs(queue', x) /\ Once(mailbox', x) /\ Once(queue', x)
    BY <1>1, NothingOccurs
  <1>6. ASSUME NEW c \in Calls PROVE CallInv(c)'
    <2>1. task[c] = "running" => c \in pending BY DEF IInv, CallInv
    <2>2. task'[c] # "running" BY <1>1, <2>1
    <2>. QED BY <1>1, <1>5, <2>2 DEF CallInv, Asked
  <1>7. ASSUME NEW c \in Clients PROVE ClientInv(c)'
    <2>1. ClientInv(c) /\ c \in Calls BY CallFacts DEF IInv
    <2>2. ~Known(c)' BY <1>1, <1>5 DEF Known, Asked
    <2>3. caller[c] = "idle" => task'[c] = "none" BY <1>1, <2>1 DEF ClientInv, Known
    <2>. QED BY <1>2, <2>1, <2>2, <2>3 DEF ClientInv
  <1>. QED BY <1>3, <1>4, <1>6, <1>7 DEF IInv

\* Every step of the worker, its clients and its Python process.
LEMMA StepInv ==
  ASSUME IInv, [Next]_vars
  PROVE  IInv'
  <1>1. CASE UNCHANGED vars
    <2>1. TypeOK' BY <1>1 DEF IInv, TypeOK, vars, rpc, ends
    <2>2. PendingInv' /\ DownInv' BY <1>1 DEF IInv, PendingInv, DownInv, vars, rpc, ends
    <2>3. \A c \in Calls : CallInv(c)'
      BY <1>1 DEF IInv, CallInv, Asked, vars, rpc
    <2>4. \A c \in Clients : ClientInv(c)'
      BY <1>1 DEF IInv, ClientInv, Known, Asked, vars, rpc
    <2>. QED BY <2>1, <2>2, <2>3, <2>4 DEF IInv
  <1>2. ASSUME NEW c \in Calls, Result(c) \/ Down(c) \/ TaskReturns(c) \/ TaskKilled(c)
        PROVE  IInv'
    BY <1>2, ResultStep, DownStep, TaskReturnsStep, TaskKilledStep
  <1>3. ASSUME NEW c \in Clients, Ask(c) \/ CallerTimeout(c)
        PROVE  IInv'
    BY <1>3, AskStep, CallerTimeoutStep
  <1>4. ASSUME NEW c \in Clients, Enqueue(c)
        PROVE  IInv'
    <2>1. c \in Calls BY CallFacts
    <2>2. health_timer' \in BOOLEAN BY <1>4 DEF Enqueue, IInv, TypeOK
    <2>. QED BY <1>4, <2>1, <2>2, Queues DEF Enqueue
  <1>5. ASSUME NEW k \in Checks, HealthCheck(k)
        PROVE  IInv'
    <2>1. k \in Calls BY CallFacts
    <2>. QED BY <1>5, <2>1, Queues DEF HealthCheck
  <1>6. ASSUME NEW k \in Checks, HealthTimer(k)
        PROVE  IInv'
    BY <1>6, HealthTimerStep
  <1>7. CASE PortGone \/ Told
    <2>1. worker = "up" BY <1>7 DEF PortGone, Told, Receive
    <2>2. \E why \in {"shutdown", "heartbeat", "crash"} : Stop(why)
      BY <1>7 DEF PortGone, Told
    <2>. QED BY <2>1, <2>2, StopStep
  <1>8. CASE PythonExit
    <2>1. PICK t \in {"exit_stop", "exit_error", "port_down"} : Send(Signal(t))
      BY <1>8 DEF PythonExit
    <2>2. /\ python' \in BOOLEAN /\ stopping' \in BOOLEAN
          /\ UNCHANGED <<rpc, caller, replies, health_timer, worker, exit>>
      BY <1>8 DEF PythonExit, IInv, TypeOK
    <2>. QED BY <2>1, <2>2, SignalSent
  <1>9. CASE \/ ExitSignal("EXIT_shutdown", "supervisor")
             \/ ExitSignal("EXIT_heartbeat", "heartbeat")
    <2>1. PICK t \in {"EXIT_shutdown", "EXIT_heartbeat"} : Send(Signal(t))
      BY <1>9 DEF ExitSignal
    <2>2. UNCHANGED <<rpc, caller, replies, health_timer, ends>>
      BY <1>9 DEF ExitSignal
    <2>3. /\ python' \in BOOLEAN /\ stopping' \in BOOLEAN
          /\ UNCHANGED <<rpc, caller, replies, health_timer, worker, exit>>
      BY <2>2 DEF ends, IInv, TypeOK
    <2>. QED BY <2>1, <2>3, SignalSent
  <1>10. CASE SystemStops
    <2>1. /\ stopping' = TRUE
          /\ UNCHANGED <<mailbox, rpc, caller, replies, health_timer, worker, exit, python>>
      BY <1>10 DEF SystemStops
    <2>2. TypeOK' BY <2>1 DEF IInv, TypeOK, rpc
    <2>3. PendingInv' /\ DownInv' BY <2>1 DEF IInv, PendingInv, DownInv, rpc
    <2>4. \A c \in Calls : CallInv(c)'
      BY <2>1 DEF IInv, CallInv, Asked, rpc
    <2>5. \A c \in Clients : ClientInv(c)'
      BY <2>1 DEF IInv, ClientInv, Known, Asked, rpc
    <2>. QED BY <2>2, <2>3, <2>4, <2>5 DEF IInv
  <1>. QED BY <1>1, <1>2, <1>3, <1>4, <1>5, <1>6, <1>7, <1>8, <1>9, <1>10 DEF Next, Handle

\* Nobody has asked for anything.
LEMMA InitInv == Init => IInv
  <1> SUFFICES ASSUME Init PROVE IInv OBVIOUS
  <1>1. <<>> \in Seq(Message) /\ <<>> \in Seq(Calls) BY EmptySeq
  <1>2. TypeOK
    <2>1. replies \in [Clients -> 0..1] BY DEF Init
    <2>2. task \in [Calls -> {"none", "running", "returned", "dead"}] BY DEF Init
    <2>3. caller \in [Clients -> {"idle", "waiting", "answered", "gave_up", "exited"}]
      BY DEF Init
    <2>. QED BY <1>1, <2>1, <2>2, <2>3 DEF Init, TypeOK
  <1>3. PendingInv /\ DownInv BY DEF Init, PendingInv, DownInv
  <1>4. \A x : ~Occurs(mailbox, x) /\ ~Occurs(queue, x) /\ Once(mailbox, x) /\ Once(queue, x)
    BY NothingOccurs DEF Init
  <1>5. \A c \in Calls : CallInv(c) BY <1>4 DEF Init, CallInv, Asked
  <1>6. \A c \in Clients : ClientInv(c)
    BY <1>4, CallFacts DEF Init, ClientInv, Known, Asked
  <1>. QED BY <1>2, <1>3, <1>5, <1>6 DEF IInv

\* The inductive invariant says what the property asks.
LEMMA InvImplies == IInv => NoCallStranded
  <1> SUFFICES ASSUME IInv PROVE NoCallStranded OBVIOUS
  <1>1. TypeOK /\ NeverIdle BY DEF IInv, PendingInv, NeverIdle
  <1>2. OneAtATime
    BY DEF IInv, PendingInv, CallInv, OneAtATime
  <1>3. PendingWillEnd
    <2>1. \A c \in pending : c \in Calls /\ CallInv(c) BY DEF IInv, TypeOK
    <2>. QED BY <2>1 DEF IInv, PendingInv, CallInv, PendingWillEnd, InMail, Occurs
  <1>4. ASSUME NEW c \in Clients
        PROVE  /\ caller[c] = "waiting" => Places(c) = 1
               /\ Places(c) + replies[c] <= 1
    <2>1. c \in Calls /\ CallInv(c) /\ ClientInv(c) BY CallFacts DEF IInv
    <2>2. /\ InMail(Msg("call", c)) <=> Occurs(mailbox, Msg("call", c))
          /\ Queued(c) <=> Occurs(queue, c)
      BY DEF InMail, Queued, Occurs
    <2>3. Asked(c) => Occurs(mailbox, Msg("call", c)) BY ClientAsks DEF IInv
    <2>4. Known(c) <=> InMail(Msg("call", c)) \/ Queued(c) \/ c \in pending
      BY <2>2, <2>3 DEF Known, Asked
    <2>5. /\ ~(InMail(Msg("call", c)) /\ Queued(c))
          /\ ~(InMail(Msg("call", c)) /\ c \in pending)
          /\ ~(Queued(c) /\ c \in pending)
      BY <2>1, <2>2 DEF CallInv, Asked
    <2>6. Places(c) = IF Known(c) THEN 1 ELSE 0
      BY <2>4, <2>5 DEF Places
    <2>7. replies[c] \in 0..1 BY DEF IInv, TypeOK
    <2>. QED BY <2>1, <2>6, <2>7 DEF ClientInv
  <1>5. WaitsSomewhere BY <1>4 DEF WaitsSomewhere
  <1>. QED BY <1>1, <1>2, <1>3, <1>5 DEF NoCallStranded

\* THEOREM: calls run one at a time and none is stranded or answered twice
\* (handle_info of the result and of the :DOWN of a task, maybe_start_next_rpc_call,
\* cancel_pending_rpc_calls), whatever dies, gives up or is stopped.
THEOREM CallsNeverStranded == Spec => []NoCallStranded
  <1>1. Init => IInv BY InitInv
  <1>2. IInv /\ [Next]_vars => IInv' BY StepInv
  <1>3. IInv => NoCallStranded BY InvImplies
  <1>. QED BY <1>1, <1>2, <1>3, PTL DEF Spec

\* THEOREM: the exit of Python is not taken for a crash when the stop was asked
\* for, whichever message comes first (the port handlers of handle_info).
THEOREM PlannedStopIsNoCrash == Spec => NoFalseCrash
  <1>1. ASSUME [Next]_vars, exit' = "crash", exit = "none",
               Head(mailbox).type # "exit_error"
        PROVE  ~stopping /\ ~InMail(Signal("EXIT_shutdown"))
    <2>1. ASSUME exit' = exit PROVE FALSE BY <1>1, <2>1
    <2>2. PortGone
      <3>1. CASE Told
        <4>1. exit' \in {"shutdown", "heartbeat"} BY <3>1 DEF Told, Stop
        <4>. QED BY <1>1, <4>1
      <3>2. CASE ~Told /\ ~PortGone
        <4>1. exit' = exit
          BY <1>1, <3>2 DEF Next, Handle, vars, ends, Ask, CallerTimeout, HealthTimer,
             TaskReturns, TaskKilled, PythonExit, ExitSignal, SystemStops, Result, Down,
             Enqueue, HealthCheck
        <4>. QED BY <2>1, <4>1
      <3>. QED BY <3>1, <3>2
    <2>3. ~(Receive(Signal("exit_error")))
      BY <1>1 DEF Receive, Signal
    <2>4. ~ShuttingDown BY <1>1, <2>2, <2>3 DEF PortGone, Stop
    <2>. QED BY <2>4 DEF ShuttingDown
  <1>. QED BY <1>1, PTL DEF Spec, NoFalseCrash

----------------------------------------------------------------------------
(* The line of calls that ServesInOrder speaks of.                         *)

\* A set of natural numbers that has a member has a least one.
LEMMA LeastNat ==
  ASSUME NEW T, T \subseteq Nat, T # {}
  PROVE  \E x \in T : \A y \in T : x <= y
  <1> DEFINE R == OpToRel(<, Nat)
  <1>1. IsWellFoundedOn(R, Nat) BY NatLessThanWellFounded
  <1>2. \A x, y \in Nat : <<x, y>> \in R <=> x < y BY DEF OpToRel
  <1> HIDE DEF R
  <1>3. PICK x \in T : \A y \in T : ~(<<y, x>> \in R) BY <1>1, WFMin
  <1>4. ASSUME NEW y \in T PROVE x <= y
    <2>1. x \in Nat /\ y \in Nat OBVIOUS
    <2>2. ~(y < x) BY <1>2, <1>3, <2>1
    <2>. QED BY <2>1, <2>2
  <1>. QED BY <1>4

\* s is made of the calls of the requests of q, in their order: f says where
\* each was.
Picked(s, q, f) ==
  /\ f \in [1..Len(s) -> Requests(q)]
  /\ \A n \in Requests(q) : \E m \in 1..Len(s) : f[m] = n
  /\ \A l, m \in 1..Len(s) : l < m => f[l] < f[m]
  /\ \A m \in 1..Len(s) : s[m] = q[f[m]].call

\* A message that asks for a call is one of the two kinds of request.
LEMMA RequestFacts ==
  /\ \A m \in Message : IsRequest(m) => /\ m.call \in Calls
                                        /\ m = Msg("call", m.call) \/ m = Msg("health_check", m.call)
  /\ \A t \in {"call", "health_check"} : \A c : IsRequest(Msg(t, c)) /\ Msg(t, c).call = c
  /\ \A t \in {"result", "down"} : \A c : ~IsRequest(Msg(t, c))
  /\ \A t \in {"exit_stop", "exit_error", "port_down", "EXIT_shutdown", "EXIT_heartbeat"} :
       ~IsRequest(Signal(t))
  BY DEF IsRequest, Message, Msg, Signal, Calls

\* The places of requests are places of the mailbox.
LEMMA RequestPlaces ==
  ASSUME NEW q \in Seq(Message), NEW n \in Requests(q)
  PROVE  /\ n \in Nat /\ n \in 1..Len(q) /\ q[n] \in Message /\ IsRequest(q[n])
         /\ q[n].call \in Calls
  <1>1. n \in 1..Len(q) /\ IsRequest(q[n]) BY DEF Requests
  <1>2. n \in Nat /\ q[n] \in Message BY <1>1, ElementOfSeq
  <1>. QED BY <1>1, <1>2, RequestFacts

\* Two lines of the same mailbox agree as far as the first one goes.
LEMMA LinesAgree ==
  ASSUME NEW q \in Seq(Message), NEW s \in Seq(Calls), NEW t \in Seq(Calls),
         NEW f, NEW g, Picked(s, q, f), Picked(t, q, g), NEW n \in 1..Len(s)
  PROVE  n \in 1..Len(t) /\ f[n] = g[n]
  <1> DEFINE Bad == {k \in 1..Len(s) : ~(k \in 1..Len(t) /\ f[k] = g[k])}
  <1>1. Len(s) \in Nat /\ Len(t) \in Nat BY LenProperties
  <1>2. /\ \A m \in 1..Len(s) : f[m] \in Requests(q) /\ f[m] \in Nat
        /\ \A m \in 1..Len(t) : g[m] \in Requests(q) /\ g[m] \in Nat
    BY RequestPlaces DEF Picked
  <1>3. ASSUME Bad # {} PROVE FALSE
    <2>1. PICK b \in Bad : \A k \in Bad : b <= k
      <3>1. Bad \subseteq Nat BY <1>1
      <3>. QED BY <1>3, <3>1, LeastNat
    <2>2. b \in 1..Len(s) /\ b \in Nat BY <1>1
    <2>3. \A k \in 1..Len(s) : k < b => k \in 1..Len(t) /\ f[k] = g[k]
      <3>1. SUFFICES ASSUME NEW k \in 1..Len(s), k < b, k \in Bad PROVE FALSE OBVIOUS
      <3>. QED BY <1>1, <2>1, <2>2, <3>1
    <2>4. PICK k \in 1..Len(t) : g[k] = f[b] BY <1>2, <2>2 DEF Picked
    <2>5. CASE k < b
      <3>1. k \in 1..Len(s) BY <1>1, <2>2, <2>5
      <3>2. f[k] = g[k] /\ f[k] < f[b] BY <2>2, <2>3, <2>5, <3>1 DEF Picked
      <3>. QED BY <1>2, <2>2, <2>4, <3>1, <3>2
    <2>6. CASE k = b BY <2>1, <2>4, <2>6
    <2>7. CASE b < k
      <3>1. b \in 1..Len(t) BY <1>1, <2>2, <2>7
      <3>2. g[b] < f[b] BY <2>4, <2>7, <3>1 DEF Picked
      <3>3. PICK l \in 1..Len(s) : f[l] = g[b] BY <1>2, <3>1 DEF Picked
      <3>4. l < b
        <4>1. CASE b < l
          <5>1. f[b] < f[l] BY <2>2, <4>1 DEF Picked
          <5>. QED BY <1>2, <2>2, <3>2, <3>3, <5>1
        <4>2. CASE l = b BY <1>2, <2>2, <3>2, <3>3, <4>2
        <4>. QED BY <1>1, <2>2, <4>1, <4>2
      <3>5. l \in 1..Len(t) /\ g[l] = g[b] BY <2>3, <3>3, <3>4
      <3>6. g[l] < g[b] BY <3>1, <3>4, <3>5 DEF Picked
      <3>. QED BY <1>2, <3>1, <3>5, <3>6
    <2>8. k \in Nat BY <1>1
    <2>. QED BY <2>2, <2>5, <2>6, <2>7, <2>8
  <1>. QED BY <1>3

\* A mailbox has one line.
LEMMA OneLine ==
  ASSUME NEW q \in Seq(Message), NEW s \in Seq(Calls), NEW t \in Seq(Calls),
         NEW f, NEW g, Picked(s, q, f), Picked(t, q, g)
  PROVE  s = t
  <1>1. /\ \A n \in 1..Len(s) : n \in 1..Len(t) /\ f[n] = g[n]
        /\ \A n \in 1..Len(t) : n \in 1..Len(s)
    BY LinesAgree
  <1>2. Len(s) \in Nat /\ Len(t) \in Nat BY LenProperties
  <1>3. Len(s) = Len(t)
    <2>1. Len(s) <= Len(t)
      <3>1. CASE Len(s) = 0 BY <1>2, <3>1
      <3>2. CASE Len(s) # 0
        <4>1. Len(s) \in 1..Len(s) BY <1>2, <3>2
        <4>2. Len(s) \in 1..Len(t) BY <1>1, <4>1
        <4>. QED BY <1>2, <4>2
      <3>. QED BY <3>1, <3>2
    <2>2. Len(t) <= Len(s)
      <3>1. CASE Len(t) = 0 BY <1>2, <3>1
      <3>2. CASE Len(t) # 0
        <4>1. Len(t) \in 1..Len(t) BY <1>2, <3>2
        <4>2. Len(t) \in 1..Len(s) BY <1>1, <4>1
        <4>. QED BY <1>2, <4>2
      <3>. QED BY <3>1, <3>2
    <2>. QED BY <1>2, <2>1, <2>2
  <1>4. \A n \in 1..Len(s) : s[n] = t[n] BY <1>1, <1>3 DEF Picked
  <1>. QED BY <1>3, <1>4, SeqEqual

\* The line of a mailbox is made of its requests, in their order.
LEMMA AskedInPicked ==
  ASSUME NEW q \in Seq(Message)
  PROVE  AskedIn(q) \in Seq(Calls) /\ \E f : Picked(AskedIn(q), q, f)
  <1> DEFINE P == Requests(q)
             C == Cardinality(P)
             Upto(n) == {l \in P : l <= n}
             Rank(n) == Cardinality(Upto(n))
             rank == [n \in P |-> Rank(n)]
             at(m) == CHOOSE n \in P : Rank(n) = m
             s == AskedIn(q)
             f == [m \in 1..C |-> at(m)]
  <1>1. IsFiniteSet(P) /\ C \in Nat
    <2>1. IsFiniteSet(1..Len(q)) BY FS_Interval, LenProperties
    <2>2. P \subseteq 1..Len(q) BY DEF Requests
    <2>. QED BY <2>1, <2>2, FS_Subset, FS_CardinalityType
  <1>2. \A n \in P : n \in Nat BY RequestPlaces
  <1>3. ASSUME NEW n \in P PROVE IsFiniteSet(Upto(n)) /\ Rank(n) \in Nat /\ Rank(n) \in 1..C
    <2>1. Upto(n) \subseteq P OBVIOUS
    <2>2. IsFiniteSet(Upto(n)) /\ Rank(n) <= C BY <1>1, <2>1, FS_Subset
    <2>3. n \in Upto(n) BY <1>2
    <2>4. Rank(n) \in Nat /\ Rank(n) # 0
      BY <2>2, <2>3, FS_CardinalityType, FS_EmptySet
    <2>. QED BY <1>1, <2>2, <2>4
  <1>4. \A n, m \in P : n < m => Rank(n) < Rank(m)
    <2> SUFFICES ASSUME NEW n \in P, NEW m \in P, n < m PROVE Rank(n) < Rank(m) OBVIOUS
    <2>1. Upto(n) \subseteq Upto(m)
      <3>1. ASSUME NEW l \in P, l <= n PROVE l <= m BY <1>2, <3>1
      <3>. QED BY <3>1
    <2>2. m \in Upto(m) /\ m \notin Upto(n) BY <1>2
    <2>3. Rank(n) <= Rank(m) /\ (Rank(n) = Rank(m) => Upto(n) = Upto(m))
      BY <1>3, <2>1, FS_Subset
    <2>4. Rank(n) \in Nat /\ Rank(m) \in Nat
      <3> HIDE DEF Rank
      <3>. QED BY <1>3
    <2>. QED BY <2>2, <2>3, <2>4
  <1>5. AskedIn(q) = [n \in 1..Len(AtPlaces(q, P)) |-> AtPlaces(q, P)[n].call]
    BY DEF AskedIn
  <1>6. AtPlaces(q, P) = [m \in 1..C |-> q[at(m)]]
    BY DEF AtPlaces
  <1> HIDE DEF Rank, C, P
  <1>7. \A n, m \in P : Rank(n) = Rank(m) => n = m
    <2>1. SUFFICES ASSUME NEW n \in P, NEW m \in P, Rank(n) = Rank(m) PROVE n = m OBVIOUS
    <2>2. ASSUME NEW k \in P, NEW l \in P, k < l PROVE Rank(k) # Rank(l)
      <3>1. Rank(k) < Rank(l) /\ Rank(k) \in Nat /\ Rank(l) \in Nat BY <1>3, <1>4, <2>2
      <3>. QED BY <3>1
    <2>3. ~(n < m) /\ ~(m < n) BY <2>1, <2>2
    <2>. QED BY <1>2, <2>3
  <1>8. \A m \in 1..C : \E n \in P : Rank(n) = m
    <2>1. rank \in Injection(P, 1..C) BY <1>3, <1>7 DEF Injection, IsInjective
    <2>2. IsFiniteSet(1..C) /\ Cardinality(1..C) = C BY <1>1, FS_Interval
    <2>3. Cardinality(P) = C BY DEF C
    <2> HIDE DEF rank
    <2>4. rank \in Surjection(P, 1..C) BY <1>1, <2>1, <2>2, <2>3, FS_Injection
    <2> USE DEF rank
    <2>. QED BY <2>4 DEF Surjection
  <1>9. \A m \in 1..C : at(m) \in P /\ Rank(at(m)) = m BY <1>8
  <1>10. \A n \in P : at(Rank(n)) = n BY <1>3, <1>7, <1>9
  <1> HIDE DEF at
  <1>11. \A m \in 1..C : q[at(m)] \in Message /\ q[at(m)].call \in Calls
    BY <1>9, RequestPlaces DEF P
  <1>12. Len(AtPlaces(q, P)) = C
    <2>1. AtPlaces(q, P) \in Seq(Message) BY <1>1, <1>6, <1>11, IsASeq
    <2>2. DOMAIN AtPlaces(q, P) = 1..C BY <1>6
    <2>. QED BY <1>1, <2>1, <2>2, LenProperties
  <1>13. s = [m \in 1..C |-> q[at(m)].call]
    BY <1>5, <1>6, <1>12
  <1> HIDE DEF s
  <1>14. s \in Seq(Calls) /\ Len(s) = C
    <2>1. s \in Seq(Calls) BY <1>1, <1>11, <1>13, IsASeq
    <2>2. DOMAIN s = 1..C BY <1>13
    <2>. QED BY <1>1, <2>1, <2>2, LenProperties
  <1>15. Picked(s, q, f)
    <2>1. f \in [1..Len(s) -> Requests(q)] BY <1>9, <1>14 DEF P
    <2>2. ASSUME NEW n \in Requests(q) PROVE \E m \in 1..Len(s) : f[m] = n
      <3>1. Rank(n) \in 1..C /\ at(Rank(n)) = n BY <1>3, <1>10, <2>2 DEF P
      <3>. QED BY <1>14, <3>1
    <2>3. ASSUME NEW l \in 1..Len(s), NEW m \in 1..Len(s), l < m PROVE f[l] < f[m]
      <3>1. /\ at(l) \in P /\ Rank(at(l)) = l /\ at(m) \in P /\ Rank(at(m)) = m
            /\ f[l] = at(l) /\ f[m] = at(m)
        BY <1>9, <1>14
      <3>2. at(l) # at(m) BY <1>1, <1>14, <2>3, <3>1
      <3>3. ~(at(m) < at(l))
        <4>1. SUFFICES ASSUME at(m) < at(l) PROVE FALSE OBVIOUS
        <4>2. m < l BY <1>4, <3>1, <4>1
        <4>. QED BY <1>1, <1>14, <2>3, <4>2
      <3>4. at(l) \in Nat /\ at(m) \in Nat BY <1>2, <3>1
      <3>. QED BY <3>1, <3>2, <3>3, <3>4
    <2>4. \A m \in 1..Len(s) : s[m] = q[f[m]].call BY <1>13, <1>14
    <2>. QED BY <2>1, <2>2, <2>3, <2>4 DEF Picked
  <1>. QED BY <1>14, <1>15 DEF s

\* What is picked from a mailbox is its line.
LEMMA AskedInIs ==
  ASSUME NEW q \in Seq(Message), NEW s \in Seq(Calls), NEW f, Picked(s, q, f)
  PROVE  AskedIn(q) = s
  <1>1. AskedIn(q) \in Seq(Calls) /\ \E g : Picked(AskedIn(q), q, g) BY AskedInPicked
  <1>. QED BY <1>1, OneLine

\* An empty mailbox has an empty line.
LEMMA NoneAsked == AskedIn(<<>>) = <<>>
  <1>1. <<>> \in Seq(Message) /\ <<>> \in Seq(Calls) /\ Len(<<>>) = 0 BY EmptySeq
  <1>2. Picked(<<>>, <<>>, <<>>)
    <2>1. Requests(<<>>) = {} BY <1>1 DEF Requests
    <2>2. 1..Len(<<>>) = {} BY <1>1
    <2>3. <<>> \in [{} -> {}] OBVIOUS
    <2>. QED BY <2>1, <2>2, <2>3 DEF Picked
  <1>. QED BY <1>1, <1>2, AskedInIs

\* A line holds the calls that are asked for, and nothing else.
LEMMA InTheLine ==
  ASSUME NEW q \in Seq(Message), NEW c
  PROVE  Occurs(AskedIn(q), c) <=> Occurs(q, Msg("call", c)) \/ Occurs(q, Msg("health_check", c))
  <1> DEFINE s == AskedIn(q)
  <1>1. s \in Seq(Calls) BY AskedInPicked
  <1>2. PICK f : Picked(s, q, f) BY AskedInPicked
  <1> HIDE DEF s
  <1>3. ASSUME Occurs(s, c) PROVE Occurs(q, Msg("call", c)) \/ Occurs(q, Msg("health_check", c))
    <2>1. PICK m \in 1..Len(s) : s[m] = c BY <1>3 DEF Occurs
    <2>2. f[m] \in Requests(q) /\ q[f[m]].call = c BY <1>2, <2>1 DEF Picked
    <2>3. f[m] \in 1..Len(q) /\ q[f[m]] \in Message /\ IsRequest(q[f[m]])
      BY <2>2, RequestPlaces
    <2>4. q[f[m]] = Msg("call", c) \/ q[f[m]] = Msg("health_check", c)
      BY <2>2, <2>3, RequestFacts
    <2>. QED BY <2>3, <2>4 DEF Occurs
  <1>4. ASSUME NEW t \in {"call", "health_check"}, Occurs(q, Msg(t, c)) PROVE Occurs(s, c)
    <2>1. PICK n \in 1..Len(q) : q[n] = Msg(t, c) BY <1>4 DEF Occurs
    <2>2. n \in Requests(q) /\ q[n].call = c BY <2>1, RequestFacts DEF Requests
    <2>3. PICK m \in 1..Len(s) : f[m] = n BY <1>2, <2>2 DEF Picked
    <2>4. s[m] = c BY <1>2, <2>2, <2>3 DEF Picked
    <2>. QED BY <2>4 DEF Occurs
  <1>. QED BY <1>3, <1>4 DEF s

\* A message joins the mailbox, and a request its line.
LEMMA Joined ==
  ASSUME NEW q \in Seq(Message), NEW m \in Message
  PROVE  /\ IsRequest(m) => AskedIn(Append(q, m)) = Append(AskedIn(q), m.call)
         /\ ~IsRequest(m) => AskedIn(Append(q, m)) = AskedIn(q)
  <1> DEFINE r == Append(q, m)
             s == AskedIn(q)
             k == Len(q) + 1
  <1>1. s \in Seq(Calls) BY AskedInPicked
  <1>2. PICK f : Picked(s, q, f) BY AskedInPicked
  <1>3. /\ r \in Seq(Message) /\ Len(q) \in Nat /\ Len(r) = k /\ k \in Nat
        /\ \A i \in 1..Len(q) : r[i] = q[i]
        /\ r[k] = m
    BY AppendProperties, LenProperties
  <1>4. Len(s) \in Nat BY <1>1, LenProperties
  <1> HIDE DEF r, s
  <1>5. /\ \A i \in Requests(q) : i \in 1..Len(q) /\ i \in Requests(r) /\ i < k
        /\ \A i \in Requests(r) : i \in Requests(q) \/ (i = k /\ IsRequest(m))
        /\ IsRequest(m) => k \in Requests(r)
    <2>1. ASSUME NEW i \in Requests(q) PROVE i \in 1..Len(q) /\ i \in Requests(r) /\ i < k
      <3>1. i \in 1..Len(q) /\ IsRequest(q[i]) BY DEF Requests
      <3>2. i \in 1..k /\ i < k BY <1>3, <3>1
      <3>. QED BY <1>3, <3>1, <3>2 DEF Requests
    <2>2. ASSUME NEW i \in Requests(r) PROVE i \in Requests(q) \/ (i = k /\ IsRequest(m))
      <3>1. i \in 1..k /\ IsRequest(r[i]) BY <1>3 DEF Requests
      <3>2. CASE i = k BY <1>3, <3>1, <3>2
      <3>3. CASE i # k
        <4>1. i \in 1..Len(q) BY <1>3, <3>1, <3>3
        <4>. QED BY <1>3, <3>1, <4>1 DEF Requests
      <3>. QED BY <3>2, <3>3
    <2>3. ASSUME IsRequest(m) PROVE k \in Requests(r)
      <3>1. k \in 1..Len(r) BY <1>3
      <3>. QED BY <1>3, <2>3, <3>1 DEF Requests
    <2>. QED BY <2>1, <2>2, <2>3
  <1>6. /\ \A i \in 1..Len(s) : f[i] \in Requests(q) /\ f[i] \in 1..Len(q) /\ f[i] < k
        /\ \A i \in 1..Len(s) : s[i] = r[f[i]].call
    BY <1>2, <1>3, <1>5 DEF Picked
  <1>7. ASSUME ~IsRequest(m) PROVE AskedIn(r) = s
    <2>1. Requests(r) = Requests(q) BY <1>5, <1>7
    <2>2. Picked(s, r, f) BY <1>2, <1>6, <2>1 DEF Picked
    <2>. QED BY <1>1, <1>3, <2>2, AskedInIs
  <1>8. ASSUME IsRequest(m) PROVE AskedIn(r) = Append(s, m.call)
    <2> DEFINE t == Append(s, m.call)
               n == Len(s) + 1
               g == [i \in 1..n |-> IF i \in 1..Len(s) THEN f[i] ELSE k]
    <2>1. m.call \in Calls BY <1>8, RequestFacts
    <2>2. /\ t \in Seq(Calls) /\ Len(t) = n /\ t[n] = m.call
          /\ \A i \in 1..Len(s) : t[i] = s[i]
      BY <1>1, <2>1, AppendProperties
    <2>3. /\ n \in 1..n /\ n \in Nat /\ n \notin 1..Len(s)
          /\ \A i \in 1..n : i \in 1..Len(s) \/ i = n
      BY <1>4
    <2>4. /\ \A i \in 1..Len(s) : i \in 1..n /\ g[i] = f[i]
          /\ g[n] = k
      BY <1>4, <2>3
    <2> HIDE DEF t, g, n
    <2>5. Picked(t, r, g)
      <3>1. g \in [1..n -> Requests(r)]
        <4>1. \A i \in 1..n : (IF i \in 1..Len(s) THEN f[i] ELSE k) \in Requests(r)
          BY <1>5, <1>6, <1>8
        <4>. QED BY <4>1 DEF g
      <3>2. ASSUME NEW i \in Requests(r) PROVE \E l \in 1..n : g[l] = i
        <4>1. CASE i \in Requests(q) BY <1>2, <2>4, <4>1 DEF Picked
        <4>2. CASE i = k BY <2>3, <2>4, <4>2
        <4>. QED BY <1>5, <3>2, <4>1, <4>2
      <3>3. ASSUME NEW i \in 1..n, NEW l \in 1..n, i < l PROVE g[i] < g[l]
        <4>1. i \in 1..Len(s)
          <5>1. CASE i = n BY <1>4, <2>3, <3>3, <5>1 DEF n
          <5>. QED BY <2>3, <5>1
        <4>2. CASE l \in 1..Len(s) BY <1>2, <2>4, <3>3, <4>1, <4>2 DEF Picked
        <4>3. CASE l = n BY <1>6, <2>4, <4>1, <4>3
        <4>. QED BY <2>3, <4>2, <4>3
      <3>4. ASSUME NEW i \in 1..n PROVE t[i] = r[g[i]].call
        <4>1. CASE i \in 1..Len(s) BY <1>6, <2>2, <2>4, <4>1
        <4>2. CASE i = n BY <1>3, <2>2, <2>4, <4>2
        <4>. QED BY <2>3, <4>1, <4>2
      <3>. QED BY <2>2, <3>1, <3>2, <3>3, <3>4 DEF Picked
    <2>6. AskedIn(r) = t BY <1>3, <2>2, <2>5, AskedInIs
    <2>. QED BY <2>6 DEF t
  <1>. QED BY <1>7, <1>8 DEF r, s

\* The first message leaves the mailbox: if it is a request, its call is the
\* first of the line.
LEMMA Left ==
  ASSUME NEW q \in Seq(Message), q # <<>>
  PROVE  /\ IsRequest(Head(q)) => /\ AskedIn(q) # <<>> /\ Head(AskedIn(q)) = Head(q).call
                                  /\ AskedIn(Tail(q)) = Tail(AskedIn(q))
         /\ ~IsRequest(Head(q)) => AskedIn(Tail(q)) = AskedIn(q)
  <1> DEFINE r == Tail(q)
             s == AskedIn(q)
             m == Head(q)
  <1>1. s \in Seq(Calls) BY AskedInPicked
  <1>2. PICK f : Picked(s, q, f) BY AskedInPicked
  <1>3. /\ r \in Seq(Message) /\ Len(q) \in Nat /\ Len(r) = Len(q) - 1 /\ Len(q) # 0
        /\ m = q[1] /\ m \in Message
        /\ \A i \in 1..Len(r) : r[i] = q[i + 1]
    BY HeadTailProperties, EmptySeq, LenProperties
  <1>4. Len(s) \in Nat BY <1>1, LenProperties
  <1> HIDE DEF r, s, m
  <1>5. /\ \A i \in Requests(q) : i \in Nat /\ i >= 1
        /\ \A i \in Requests(q) : i # 1 => /\ i - 1 \in Requests(r) /\ i - 1 \in Nat
                                           /\ r[i - 1] = q[i]
        /\ \A i \in Requests(r) : i \in Nat /\ i >= 1 /\ i + 1 \in Requests(q)
        /\ 1 \in Requests(q) <=> IsRequest(m)
    <2>1. ASSUME NEW i \in Requests(q)
          PROVE  /\ i \in Nat /\ i >= 1
                 /\ i # 1 => i - 1 \in Requests(r) /\ i - 1 \in Nat /\ r[i - 1] = q[i]
      <3>1. i \in 1..Len(q) /\ IsRequest(q[i]) BY DEF Requests
      <3>2. CASE i # 1
        <4>1. i - 1 \in 1..Len(r) /\ i - 1 + 1 = i BY <1>3, <3>1, <3>2
        <4>2. r[i - 1] = q[i] BY <1>3, <4>1
        <4>. QED BY <3>1, <4>1, <4>2 DEF Requests
      <3>. QED BY <1>3, <3>1, <3>2
    <2>2. ASSUME NEW i \in Requests(r) PROVE i \in Nat /\ i >= 1 /\ i + 1 \in Requests(q)
      <3>1. i \in 1..Len(r) /\ IsRequest(r[i]) BY DEF Requests
      <3>2. i + 1 \in 1..Len(q) /\ r[i] = q[i + 1] BY <1>3, <3>1
      <3>. QED BY <3>1, <3>2 DEF Requests
    <2>3. 1 \in Requests(q) <=> IsRequest(m)
      <3>1. 1 \in 1..Len(q) BY <1>3
      <3>. QED BY <1>3, <3>1 DEF Requests
    <2>. QED BY <2>1, <2>2, <2>3
  <1>6. \A i \in 1..Len(s) : f[i] \in Requests(q) /\ f[i] \in Nat /\ f[i] >= 1
    BY <1>2, <1>5 DEF Picked
  <1>7. ASSUME ~IsRequest(m) PROVE AskedIn(r) = s
    <2> DEFINE g == [i \in 1..Len(s) |-> f[i] - 1]
    <2>1. \A i \in 1..Len(s) : /\ g[i] = f[i] - 1 /\ f[i] # 1
                               /\ g[i] \in Requests(r) /\ r[g[i]] = q[f[i]]
      BY <1>5, <1>6, <1>7
    <2>2. Picked(s, r, g)
      <3>1. g \in [1..Len(s) -> Requests(r)] BY <2>1
      <3>2. ASSUME NEW i \in Requests(r) PROVE \E l \in 1..Len(s) : g[l] = i
        <4>1. i \in Nat /\ i + 1 \in Requests(q) BY <1>5, <3>2
        <4>2. PICK l \in 1..Len(s) : f[l] = i + 1 BY <1>2, <4>1 DEF Picked
        <4>3. g[l] = f[l] - 1 BY <2>1
        <4>4. g[l] = i BY <4>1, <4>2, <4>3
        <4>. QED BY <4>4
      <3>3. ASSUME NEW i \in 1..Len(s), NEW l \in 1..Len(s), i < l PROVE g[i] < g[l]
        <4>1. f[i] < f[l] BY <1>2, <3>3 DEF Picked
        <4>2. g[i] = f[i] - 1 /\ g[l] = f[l] - 1 BY <2>1
        <4>. QED BY <1>6, <4>1, <4>2
      <3>4. \A i \in 1..Len(s) : s[i] = r[g[i]].call BY <1>2, <2>1 DEF Picked
      <3>. QED BY <3>1, <3>2, <3>3, <3>4 DEF Picked
    <2>. QED BY <1>1, <1>3, <2>2, AskedInIs
  <1>8. ASSUME IsRequest(m)
        PROVE  s # <<>> /\ Head(s) = m.call /\ AskedIn(r) = Tail(s)
    <2> DEFINE t == Tail(s)
               g == [i \in 1..Len(t) |-> f[i + 1] - 1]
    <2>1. PICK a \in 1..Len(s) : f[a] = 1 BY <1>2, <1>5, <1>8 DEF Picked
    <2>2. a = 1
      <3>1. CASE 1 < a
        <4>1. 1 \in 1..Len(s) BY <1>4
        <4>2. f[1] < f[a] BY <1>2, <3>1, <4>1 DEF Picked
        <4>. QED BY <1>6, <2>1, <4>1, <4>2
      <3>. QED BY <1>4, <3>1
    <2>3. s # <<>> /\ f[1] = 1 /\ 1 \in 1..Len(s)
      <3>1. Len(<<>>) = 0 BY EmptySeq
      <3>. QED BY <1>4, <2>1, <2>2, <3>1
    <2>4. /\ t \in Seq(Calls) /\ Len(t) = Len(s) - 1 /\ Head(s) = s[1]
          /\ \A i \in 1..Len(t) : t[i] = s[i + 1]
      BY <1>1, <2>3, HeadTailProperties
    <2>5. Head(s) = m.call
      <3>1. s[1] = q[f[1]].call BY <1>2, <2>3 DEF Picked
      <3>. QED BY <1>3, <2>3, <2>4, <3>1
    <2> HIDE DEF t
    <2>6. \A i \in 1..Len(t) : /\ i + 1 \in 1..Len(s) /\ f[i + 1] # 1
                               /\ g[i] = f[i + 1] - 1
                               /\ g[i] \in Requests(r) /\ r[g[i]] = q[f[i + 1]]
      <3> SUFFICES ASSUME NEW i \in 1..Len(t)
                   PROVE  /\ i + 1 \in 1..Len(s) /\ f[i + 1] # 1
                          /\ g[i] = f[i + 1] - 1
                          /\ g[i] \in Requests(r) /\ r[g[i]] = q[f[i + 1]]
        OBVIOUS
      <3>1. i + 1 \in 1..Len(s) /\ 1 < i + 1 BY <1>4, <2>4
      <3>2. f[1] < f[i + 1] BY <1>2, <2>3, <3>1 DEF Picked
      <3>3. f[i + 1] # 1 BY <1>6, <2>3, <3>1, <3>2
      <3>4. g[i] = f[i + 1] - 1 OBVIOUS
      <3> HIDE DEF g
      <3>. QED BY <1>5, <1>6, <3>1, <3>3, <3>4
    <2>7. Picked(t, r, g)
      <3>1. g \in [1..Len(t) -> Requests(r)] BY <2>6
      <3>2. ASSUME NEW i \in Requests(r) PROVE \E l \in 1..Len(t) : g[l] = i
        <4>1. i \in Nat /\ i >= 1 /\ i + 1 \in Requests(q) BY <1>5, <3>2
        <4>2. PICK l \in 1..Len(s) : f[l] = i + 1 BY <1>2, <4>1 DEF Picked
        <4>3. l # 1 BY <2>3, <4>1, <4>2
        <4>4. l - 1 \in 1..Len(t) /\ l - 1 + 1 = l BY <1>4, <2>4, <4>3
        <4>5. g[l - 1] = f[l] - 1 BY <2>6, <4>4
        <4>6. g[l - 1] = i BY <4>1, <4>2, <4>5
        <4>. QED BY <4>4, <4>6
      <3>3. ASSUME NEW i \in 1..Len(t), NEW l \in 1..Len(t), i < l PROVE g[i] < g[l]
        <4>1. i + 1 \in 1..Len(s) /\ l + 1 \in 1..Len(s) /\ i + 1 < l + 1
          BY <1>4, <2>4, <3>3
        <4>2. f[i + 1] < f[l + 1] BY <1>2, <4>1 DEF Picked
        <4>3. g[i] = f[i + 1] - 1 /\ g[l] = f[l + 1] - 1 BY <2>6
        <4>4. f[i + 1] \in Nat /\ f[l + 1] \in Nat BY <1>6, <4>1
        <4> HIDE DEF g
        <4>. QED BY <4>2, <4>3, <4>4
      <3>4. ASSUME NEW i \in 1..Len(t) PROVE t[i] = r[g[i]].call
        <4>1. i + 1 \in 1..Len(s) /\ r[g[i]] = q[f[i + 1]] BY <2>6
        <4>2. s[i + 1] = q[f[i + 1]].call BY <1>2, <4>1 DEF Picked
        <4> HIDE DEF g
        <4>. QED BY <2>4, <4>1, <4>2
      <3>. QED BY <3>1, <3>2, <3>3, <3>4 DEF Picked
    <2>8. AskedIn(r) = t BY <1>3, <2>4, <2>7, AskedInIs
    <2>. QED BY <2>3, <2>5, <2>8 DEF t
  <1>. QED BY <1>7, <1>8 DEF r, s, m

\* The flush of a :DOWN leaves the line as it is.
LEMMA Flushed ==
  ASSUME NEW q \in Seq(Message), NEW c
  PROVE  AskedIn(Flush(q, c)) = AskedIn(q)
  <1>1. CASE ~\E i \in 1..Len(q) : q[i] = Msg("down", c)
    BY <1>1 DEF Flush
  <1>2. CASE \E i \in 1..Len(q) : q[i] = Msg("down", c)
    <2> DEFINE k == CHOOSE i \in 1..Len(q) : q[i] = Msg("down", c)
               r == Flush(q, c)
               s == AskedIn(q)
    <2>1. k \in 1..Len(q) /\ q[k] = Msg("down", c) BY <1>2
    <2>2. r = [j \in 1..(Len(q) - 1) |-> IF j < k THEN q[j] ELSE q[j + 1]]
      BY <1>2 DEF Flush, Without
    <2>3. Len(q) \in Nat /\ Len(q) - 1 \in Nat /\ k \in Nat
      BY <2>1, LenProperties
    <2>4. r \in Seq(Message) BY Flushes
    <2>5. s \in Seq(Calls) BY AskedInPicked
    <2>6. PICK f : Picked(s, q, f) BY AskedInPicked
    <2> HIDE DEF k, r, s
    <2>7. Len(r) = Len(q) - 1
      <3>1. DOMAIN r = 1..(Len(q) - 1) BY <2>2
      <3>. QED BY <2>3, <2>4, <3>1, LenProperties
    <2>8. /\ \A j \in 1..Len(r) : j < k => j \in 1..Len(q) /\ r[j] = q[j]
          /\ \A j \in 1..Len(r) : ~(j < k) => j + 1 \in 1..Len(q) /\ r[j] = q[j + 1]
      BY <2>2, <2>3, <2>7
    <2>9. \A i \in Requests(q) :
            /\ i \in Nat /\ i # k
            /\ i < k => i \in Requests(r) /\ r[i] = q[i]
            /\ k < i => i - 1 \in Requests(r) /\ i - 1 \in Nat /\ r[i - 1] = q[i]
      <3> SUFFICES ASSUME NEW i \in Requests(q)
                   PROVE  /\ i \in Nat /\ i # k
                          /\ i < k => i \in Requests(r) /\ r[i] = q[i]
                          /\ k < i => i - 1 \in Requests(r) /\ i - 1 \in Nat /\ r[i - 1] = q[i]
        OBVIOUS
      <3>1. i \in 1..Len(q) /\ i \in Nat /\ IsRequest(q[i]) BY RequestPlaces
      <3>2. i # k BY <2>1, <3>1, RequestFacts
      <3>3. ASSUME i < k PROVE i \in Requests(r) /\ r[i] = q[i]
        <4>1. i \in 1..Len(r) BY <2>1, <2>3, <2>7, <3>1, <3>3
        <4>2. r[i] = q[i] BY <2>8, <3>3, <4>1
        <4>. QED BY <3>1, <4>1, <4>2 DEF Requests
      <3>4. ASSUME k < i PROVE i - 1 \in Requests(r) /\ i - 1 \in Nat /\ r[i - 1] = q[i]
        <4>1. i - 1 \in 1..Len(r) /\ i - 1 \in Nat /\ ~(i - 1 < k) /\ i - 1 + 1 = i
          BY <2>1, <2>3, <2>7, <3>1, <3>4
        <4>2. r[i - 1] = q[i] BY <2>8, <4>1
        <4>. QED BY <3>1, <4>1, <4>2 DEF Requests
      <3>. QED BY <3>1, <3>2, <3>3, <3>4
    <2>10. \A j \in Requests(r) :
             /\ j \in Nat
             /\ j < k => j \in Requests(q)
             /\ ~(j < k) => j + 1 \in Requests(q)
      BY <2>4, <2>8, RequestPlaces DEF Requests
    <2> DEFINE g == [m \in 1..Len(s) |-> IF f[m] < k THEN f[m] ELSE f[m] - 1]
    <2>11. \A m \in 1..Len(s) :
             /\ f[m] \in Requests(q) /\ f[m] \in Nat /\ f[m] # k
             /\ f[m] < k => g[m] = f[m]
             /\ k < f[m] => g[m] = f[m] - 1
             /\ g[m] \in Requests(r) /\ r[g[m]] = q[f[m]]
      <3> SUFFICES ASSUME NEW m \in 1..Len(s)
                   PROVE  /\ f[m] \in Requests(q) /\ f[m] \in Nat /\ f[m] # k
                          /\ f[m] < k => g[m] = f[m]
                          /\ k < f[m] => g[m] = f[m] - 1
                          /\ g[m] \in Requests(r) /\ r[g[m]] = q[f[m]]
        OBVIOUS
      <3>1. f[m] \in Requests(q) BY <2>6 DEF Picked
      <3>2. f[m] \in Nat /\ f[m] # k BY <2>9, <3>1
      <3>3. CASE f[m] < k
        <4>1. g[m] = f[m] BY <3>3
        <4>2. ~(k < f[m]) BY <2>3, <3>2, <3>3
        <4> HIDE DEF g
        <4>. QED BY <2>9, <3>1, <3>2, <3>3, <4>1, <4>2
      <3>4. CASE k < f[m]
        <4>1. ~(f[m] < k) BY <2>3, <3>2, <3>4
        <4>2. g[m] = f[m] - 1 BY <4>1
        <4> HIDE DEF g
        <4>. QED BY <2>9, <3>1, <3>2, <3>4, <4>1, <4>2
      <3>. QED BY <2>3, <3>2, <3>3, <3>4
    <2> HIDE DEF g
    <2>12. Picked(s, r, g)
      <3>1. g \in [1..Len(s) -> Requests(r)] BY <2>11 DEF g
      <3>2. ASSUME NEW j \in Requests(r) PROVE \E m \in 1..Len(s) : g[m] = j
        <4>1. CASE j < k
          <5>1. PICK m \in 1..Len(s) : f[m] = j BY <2>6, <2>10, <3>2, <4>1 DEF Picked
          <5>. QED BY <2>11, <4>1, <5>1
        <4>2. CASE ~(j < k)
          <5>1. j \in Nat /\ j + 1 \in Requests(q) BY <2>10, <3>2, <4>2
          <5>2. PICK m \in 1..Len(s) : f[m] = j + 1 BY <2>6, <5>1 DEF Picked
          <5>3. k < f[m] BY <2>3, <4>2, <5>1, <5>2
          <5>4. g[m] = f[m] - 1 BY <2>11, <5>3
          <5>. QED BY <5>1, <5>2, <5>4
        <4>. QED BY <4>1, <4>2
      <3>3. ASSUME NEW l \in 1..Len(s), NEW m \in 1..Len(s), l < m PROVE g[l] < g[m]
        <4>1. f[l] < f[m] BY <2>6, <3>3 DEF Picked
        <4>2. /\ f[l] \in Nat /\ f[l] # k /\ f[m] \in Nat /\ f[m] # k
              /\ f[l] < k => g[l] = f[l]
              /\ k < f[l] => g[l] = f[l] - 1
              /\ f[m] < k => g[m] = f[m]
              /\ k < f[m] => g[m] = f[m] - 1
          BY <2>11
        <4>. QED BY <2>3, <4>1, <4>2
      <3>4. \A m \in 1..Len(s) : s[m] = r[g[m]].call BY <2>6, <2>11 DEF Picked
      <3>. QED BY <3>1, <3>2, <3>3, <3>4 DEF Picked
    <2>13. AskedIn(r) = s BY <2>4, <2>5, <2>12, AskedInIs
    <2>. QED BY <2>13 DEF r, s
  <1>. QED BY <1>1, <1>2

\* What joins the second of two sequences joins both; what leaves the second
\* for the first stays where it was; the first of the first is the first.
LEMMA Joints ==
  ASSUME NEW q \in Seq(Calls), NEW s \in Seq(Calls)
  PROVE  /\ q \o s \in Seq(Calls)
         /\ \A c \in Calls : q \o Append(s, c) = Append(q \o s, c)
         /\ s # <<>> => Append(q, Head(s)) \o Tail(s) = q \o s
         /\ q # <<>> => q \o s # <<>> /\ Head(q \o s) = Head(q) /\ Tail(q \o s) = Tail(q) \o s
         /\ \A c : Occurs(q \o s, c) => Occurs(q, c) \/ Occurs(s, c)
  <1> DEFINE r == q \o s
  <1>1. /\ r \in Seq(Calls) /\ Len(r) = Len(q) + Len(s)
        /\ \A i \in 1..(Len(q) + Len(s)) : r[i] = IF i <= Len(q) THEN q[i] ELSE s[i - Len(q)]
    BY ConcatProperties
  <1>2. Len(q) \in Nat /\ Len(s) \in Nat BY LenProperties
  <1> HIDE DEF r
  <1>3. ASSUME NEW c \in Calls PROVE q \o Append(s, c) = Append(r, c)
    <2> DEFINE t == Append(s, c)
               x == q \o t
               y == Append(r, c)
    <2>1. /\ t \in Seq(Calls) /\ Len(t) = Len(s) + 1 /\ t[Len(s) + 1] = c
          /\ \A i \in 1..Len(s) : t[i] = s[i]
      BY AppendProperties
    <2>2. /\ y \in Seq(Calls) /\ Len(y) = Len(r) + 1 /\ y[Len(r) + 1] = c
          /\ \A i \in 1..Len(r) : y[i] = r[i]
      <3>1. r \in Seq(Calls) BY <1>1
      <3> HIDE DEF t
      <3>. QED BY <3>1, AppendProperties
    <2> HIDE DEF t, y
    <2>3. /\ x \in Seq(Calls) /\ Len(x) = Len(q) + Len(t)
          /\ \A i \in 1..(Len(q) + Len(t)) : x[i] = IF i <= Len(q) THEN q[i] ELSE t[i - Len(q)]
      BY <2>1, ConcatProperties
    <2> HIDE DEF x
    <2>4. Len(x) = Len(y) BY <1>1, <1>2, <2>1, <2>2, <2>3
    <2>5. ASSUME NEW i \in 1..Len(x) PROVE x[i] = y[i]
      <3>1. CASE i <= Len(q)
        <4>1. i \in 1..Len(r) BY <1>1, <1>2, <3>1, <2>5
        <4>. QED BY <1>1, <1>2, <2>1, <2>2, <2>3, <3>1, <4>1
      <3>2. CASE i > Len(q) /\ i <= Len(q) + Len(s)
        <4>1. i \in 1..Len(r) /\ i - Len(q) \in 1..Len(s) /\ ~(i <= Len(q))
          BY <1>1, <1>2, <3>2, <2>5
        <4>2. x[i] = t[i - Len(q)] BY <2>1, <2>3, <4>1, <2>5
        <4>3. y[i] = s[i - Len(q)] BY <1>1, <2>2, <4>1
        <4>. QED BY <2>1, <4>1, <4>2, <4>3
      <3>3. CASE i = Len(q) + Len(s) + 1
        <4>1. ~(i <= Len(q)) /\ i - Len(q) = Len(s) + 1 /\ i = Len(r) + 1
          BY <1>1, <1>2, <3>3
        <4>2. x[i] = t[i - Len(q)] BY <2>3, <4>1, <2>5
        <4>. QED BY <2>1, <2>2, <4>1, <4>2
      <3>4. i \in Nat /\ i <= Len(q) + Len(s) + 1 BY <1>2, <2>1, <2>3, <2>5
      <3>5. i <= Len(q) \/ (i > Len(q) /\ i <= Len(q) + Len(s)) \/ i = Len(q) + Len(s) + 1
        BY <1>2, <3>4
      <3>. QED BY <3>1, <3>2, <3>3, <3>5
    <2>6. x = y BY <2>2, <2>3, <2>4, <2>5, SeqEqual
    <2>. QED BY <2>6 DEF x, y, t
  <1>4. ASSUME s # <<>> PROVE Append(q, Head(s)) \o Tail(s) = r
    <2> DEFINE h == Head(s)
               t == Tail(s)
               p == Append(q, h)
               x == p \o t
    <2>1. /\ h \in Calls /\ t \in Seq(Calls) /\ Len(t) = Len(s) - 1 /\ h = s[1] /\ Len(s) # 0
          /\ \A i \in 1..Len(t) : t[i] = s[i + 1]
      BY <1>4, HeadTailProperties, EmptySeq
    <2> HIDE DEF h, t
    <2>2. /\ p \in Seq(Calls) /\ Len(p) = Len(q) + 1 /\ p[Len(q) + 1] = h
          /\ \A i \in 1..Len(q) : p[i] = q[i]
      BY <2>1, AppendProperties
    <2> HIDE DEF p
    <2>3. /\ x \in Seq(Calls) /\ Len(x) = Len(p) + Len(t)
          /\ \A i \in 1..(Len(p) + Len(t)) : x[i] = IF i <= Len(p) THEN p[i] ELSE t[i - Len(p)]
      BY <2>1, <2>2, ConcatProperties
    <2> HIDE DEF x
    <2>4. Len(x) = Len(r) BY <1>1, <1>2, <2>1, <2>2, <2>3
    <2>5. ASSUME NEW i \in 1..Len(x) PROVE x[i] = r[i]
      <3>1. CASE i <= Len(q)
        <4>1. i \in 1..Len(q) /\ i <= Len(p) BY <1>2, <2>2, <3>1, <2>5
        <4>2. x[i] = p[i] BY <2>3, <4>1, <2>5
        <4>3. r[i] = q[i] BY <1>1, <2>4, <3>1, <2>5
        <4>. QED BY <2>2, <4>1, <4>2, <4>3
      <3>2. CASE i = Len(q) + 1
        <4>1. i <= Len(p) /\ ~(i <= Len(q)) /\ i - Len(q) = 1 BY <1>2, <2>2, <3>2
        <4>2. x[i] = p[i] BY <2>3, <4>1, <2>5
        <4>3. r[i] = s[i - Len(q)] BY <1>1, <2>4, <4>1, <2>5
        <4>. QED BY <2>1, <2>2, <3>2, <4>1, <4>2, <4>3
      <3>3. CASE i > Len(q) + 1
        <4>1. /\ ~(i <= Len(p)) /\ ~(i <= Len(q)) /\ i - Len(p) \in 1..Len(t)
              /\ i - Len(p) + 1 = i - Len(q)
          BY <1>2, <2>1, <2>2, <2>3, <3>3, <2>5
        <4>2. x[i] = t[i - Len(p)] BY <2>3, <4>1, <2>5
        <4>3. r[i] = s[i - Len(q)] BY <1>1, <2>4, <4>1, <2>5
        <4>4. t[i - Len(p)] = s[i - Len(p) + 1] BY <2>1, <4>1
        <4>. QED BY <4>1, <4>2, <4>3, <4>4
      <3>. QED BY <1>2, <2>5, <3>1, <3>2, <3>3
    <2>6. x = r BY <1>1, <2>3, <2>4, <2>5, SeqEqual
    <2>. QED BY <2>6 DEF x, p, t, h
  <1>5. ASSUME q # <<>> PROVE r # <<>> /\ Head(r) = Head(q) /\ Tail(r) = Tail(q) \o s
    <2> DEFINE t == Tail(q)
               u == Tail(r)
               x == t \o s
    <2>1. /\ t \in Seq(Calls) /\ Len(t) = Len(q) - 1 /\ Head(q) = q[1] /\ Len(q) # 0
          /\ \A i \in 1..Len(t) : t[i] = q[i + 1]
      BY <1>5, HeadTailProperties, EmptySeq
    <2>2. r # <<>>
      <3>1. Len(<<>>) = 0 BY EmptySeq
      <3>. QED BY <1>1, <1>2, <2>1, <3>1
    <2>3. /\ u \in Seq(Calls) /\ Len(u) = Len(r) - 1 /\ Head(r) = r[1]
          /\ \A i \in 1..Len(u) : u[i] = r[i + 1]
      BY <1>1, <2>2, HeadTailProperties
    <2> HIDE DEF t, u
    <2>4. /\ x \in Seq(Calls) /\ Len(x) = Len(t) + Len(s)
          /\ \A i \in 1..(Len(t) + Len(s)) : x[i] = IF i <= Len(t) THEN t[i] ELSE s[i - Len(t)]
      BY <2>1, ConcatProperties
    <2> HIDE DEF x
    <2>5. Head(r) = Head(q)
      <3>1. 1 \in 1..(Len(q) + Len(s)) /\ 1 <= Len(q) BY <1>2, <2>1
      <3>. QED BY <1>1, <2>1, <2>3, <3>1
    <2>6. Len(u) = Len(x) BY <1>1, <1>2, <2>1, <2>3, <2>4
    <2>7. ASSUME NEW i \in 1..Len(u) PROVE u[i] = x[i]
      <3>1. i \in Nat /\ i + 1 \in 1..(Len(q) + Len(s)) /\ i \in 1..(Len(t) + Len(s))
        BY <1>1, <1>2, <2>1, <2>3, <2>7
      <3>2. u[i] = r[i + 1] BY <2>3, <2>7
      <3>3. CASE i <= Len(t)
        <4>1. i \in 1..Len(t) /\ i + 1 <= Len(q) BY <1>2, <2>1, <3>1, <3>3
        <4>2. r[i + 1] = q[i + 1] BY <1>1, <3>1, <4>1
        <4>3. x[i] = t[i] BY <2>4, <3>1, <3>3
        <4>. QED BY <2>1, <3>2, <4>1, <4>2, <4>3
      <3>4. CASE ~(i <= Len(t))
        <4>1. ~(i + 1 <= Len(q)) /\ i + 1 - Len(q) = i - Len(t)
          BY <1>2, <2>1, <3>1, <3>4
        <4>2. r[i + 1] = s[i + 1 - Len(q)] BY <1>1, <3>1, <4>1
        <4>3. x[i] = s[i - Len(t)] BY <2>4, <3>1, <3>4
        <4>. QED BY <3>2, <4>1, <4>2, <4>3
      <3>. QED BY <3>3, <3>4
    <2>8. u = x BY <2>3, <2>4, <2>6, <2>7, SeqEqual
    <2>. QED BY <2>2, <2>5, <2>8 DEF u, x, t
  <1>6. ASSUME NEW c, Occurs(r, c) PROVE Occurs(q, c) \/ Occurs(s, c)
    <2>1. PICK i \in 1..Len(r) : r[i] = c BY <1>6 DEF Occurs
    <2>2. CASE i <= Len(q)
      <3>1. i \in 1..Len(q) BY <1>2, <2>1, <2>2
      <3>2. r[i] = q[i] BY <1>1, <2>1, <2>2
      <3>. QED BY <2>1, <3>1, <3>2 DEF Occurs
    <2>3. CASE ~(i <= Len(q))
      <3>1. i - Len(q) \in 1..Len(s) BY <1>1, <1>2, <2>1, <2>3
      <3>2. r[i] = s[i - Len(q)] BY <1>1, <2>1, <2>3
      <3>. QED BY <2>1, <3>1, <3>2 DEF Occurs
    <2>. QED BY <2>2, <2>3
  <1>. QED BY <1>1, <1>3, <1>4, <1>5, <1>6 DEF r

----------------------------------------------------------------------------
(* The worker serves its calls as SerialCalls describes.                   *)

\* The mapped state is of the types of the line.
LEMMA LineTyped ==
  ASSUME IInv
  PROVE  /\ AskedIn(mailbox) \in Seq(Calls) /\ InOrder \in Seq(Calls)
         /\ \A c : Occurs(InOrder, c) => Occurs(queue, c) \/ Asked(c)
  <1>1. mailbox \in Seq(Message) /\ queue \in Seq(Calls) BY DEF IInv, TypeOK
  <1>2. AskedIn(mailbox) \in Seq(Calls) BY <1>1, AskedInPicked
  <1>3. /\ queue \o AskedIn(mailbox) \in Seq(Calls)
        /\ \A c : Occurs(queue \o AskedIn(mailbox), c)
                    => Occurs(queue, c) \/ Occurs(AskedIn(mailbox), c)
    BY <1>1, <1>2, Joints
  <1>4. \A c : Occurs(AskedIn(mailbox), c) => Asked(c) BY <1>1, InTheLine DEF Asked
  <1>. QED BY <1>2, <1>3, <1>4 DEF InOrder

\* Ask and HealthTimer: a call comes, and takes the last place of the line.
LEMMA Comes ==
  ASSUME IInv, NEW c \in Calls, NEW t \in {"call", "health_check"},
         worker = "up", task[c] = "none", ~Occurs(queue, c), ~Asked(c),
         Msg(t, c) \in Message, Send(Msg(t, c)), UNCHANGED <<rpc, ends>>
  PROVE  Serial!Come(c)
  <1>1. mailbox' = Append(mailbox, Msg(t, c)) /\ mailbox \in Seq(Message) /\ queue \in Seq(Calls)
    BY DEF Send, IInv, TypeOK
  <1>2. AskedIn(mailbox') = Append(AskedIn(mailbox), c)
    BY <1>1, Joined, RequestFacts
  <1>3. AskedIn(mailbox) \in Seq(Calls) BY LineTyped
  <1>4. queue \o Append(AskedIn(mailbox), c) = Append(queue \o AskedIn(mailbox), c)
    BY <1>1, <1>3, Joints
  <1>5. InOrder' = Append(InOrder, c) BY <1>2, <1>4 DEF InOrder, rpc
  <1>6. ~Serial!InLine(c)
    <2>1. ~Occurs(InOrder, c) BY LineTyped
    <2>. QED BY <2>1 DEF Serial!InLine, Occurs
  <1>7. c \notin pending /\ c \notin Ended
    BY DEF IInv, CallInv, Ended, Over
  <1>8. UNCHANGED <<pending, Ended, worker>> BY DEF Ended, Over, rpc, ends
  <1>. QED BY <1>5, <1>6, <1>7, <1>8 DEF Serial!Come

\* Enqueue and HealthCheck: a call that joins the queue keeps its place, and
\* the first of the line begins when nothing is pending.
LEMMA Begins ==
  ASSUME IInv, NEW c \in Calls, NEW t \in {"call", "health_check"},
         Receive(Msg(t, c)), mailbox' = Tail(mailbox),
         StartNext(Push(queue, c), pending), UNCHANGED ends
  PROVE  Serial!Begin \/ UNCHANGED Serial!vars
  <1> DEFINE m == Msg(t, c)
             q == Push(queue, c)
             s == AskedIn(mailbox)
  <1>1. /\ mailbox \in Seq(Message) /\ mailbox # <<>> /\ Head(mailbox) = m /\ worker = "up"
        /\ queue \in Seq(Calls) /\ pending \subseteq Calls
        /\ task \in [Calls -> {"none", "running", "returned", "dead"}]
    BY DEF IInv, TypeOK, Receive
  <1>2. IsRequest(m) /\ m.call = c BY RequestFacts
  <1>3. s \in Seq(Calls) /\ s # <<>> /\ Head(s) = c /\ AskedIn(mailbox') = Tail(s)
    BY <1>1, <1>2, Left, LineTyped
  <1>4. q \o AskedIn(mailbox') = InOrder
    <2>1. Append(queue, Head(s)) \o Tail(s) = queue \o s BY <1>1, <1>3, Joints
    <2>. QED BY <1>3, <2>1 DEF InOrder, Push
  <1>5. q \in Seq(Calls) /\ q # <<>> BY <1>1, AppendProperties DEF Push
  <1>6. AskedIn(mailbox') \in Seq(Calls) BY <1>1, <1>3, HeadTailProperties
  <1>7. \A d \in Calls : Occurs(q, d) => task[d] = "none"
    <2>1. Asked(c) BY <1>1, Shortened DEF Asked
    <2>2. task[c] = "none" BY <2>1 DEF IInv, CallInv
    <2>3. \A d \in Calls : Occurs(q, d) => Occurs(queue, d) \/ d = c
      BY <1>1, Appended DEF Push
    <2>. QED BY <2>2, <2>3 DEF IInv, CallInv
  <1>8. worker' = "up" BY <1>1 DEF ends
  <1> HIDE DEF q, s
  <1>9. CASE MayStart(q, pending)
    <2> DEFINE h == Head(q)
    <2>1. pending = {} BY <1>9 DEF MayStart
    <2>2. queue' = Tail(q) /\ pending' = {h} /\ task' = [task EXCEPT ![h] = "running"]
      <3>1. StartNext(q, pending) BY DEF q
      <3>. QED BY <1>9, <2>1, <3>1 DEF StartNext
    <2>3. h \in Calls /\ task[h] = "none"
      <3>1. h \in Calls /\ Occurs(q, h) BY <1>5, Shortened
      <3>. QED BY <1>7, <3>1
    <2>4. InOrder # <<>> /\ Head(InOrder) = h /\ InOrder' = Tail(InOrder)
      <3>1. /\ q \o AskedIn(mailbox') # <<>> /\ Head(q \o AskedIn(mailbox')) = h
            /\ Tail(q \o AskedIn(mailbox')) = Tail(q) \o AskedIn(mailbox')
        BY <1>5, <1>6, Joints
      <3>. QED BY <1>4, <2>2, <3>1 DEF InOrder
    <2> HIDE DEF h
    <2>5. Over' = Over
      <3>1. ASSUME NEW d \in Calls
            PROVE  (task'[d] # "none" /\ d \notin pending') <=> (task[d] # "none" /\ d \notin pending)
        <4>1. CASE d = h BY <2>2, <2>3, <4>1
        <4>2. CASE d # h BY <1>1, <2>1, <2>2, <4>2
        <4>. QED BY <4>1, <4>2
      <3>. QED BY <3>1 DEF Over
    <2>6. UNCHANGED <<Ended, worker>> BY <1>1, <1>8, <2>5 DEF Ended
    <2>. QED BY <2>1, <2>2, <2>4, <2>6 DEF Serial!Begin
  <1>10. CASE ~MayStart(q, pending)
    <2>1. queue' = q /\ pending' = pending /\ task' = task
      <3>1. StartNext(q, pending) BY DEF q
      <3>. QED BY <1>10, <3>1 DEF StartNext
    <2>2. InOrder' = InOrder BY <1>4, <2>1 DEF InOrder
    <2>3. UNCHANGED <<Ended, worker>> BY <1>1, <1>8, <2>1 DEF Ended, Over
    <2>. QED BY <2>1, <2>2, <2>3 DEF Serial!vars
  <1>. QED BY <1>9, <1>10

\* Result and Down of a pending call: it ends, and the next one of the queue
\* begins at once.
LEMMA EndsInOrder ==
  ASSUME IInv, NEW c \in pending, worker = "up", AskedIn(mailbox') = AskedIn(mailbox),
         StartNext(queue, pending \ {c}), UNCHANGED ends
  PROVE  Serial!End(c)
  <1>1. /\ queue \in Seq(Calls) /\ c \in Calls /\ pending = {c} /\ pending \ {c} = {}
        /\ task \in [Calls -> {"none", "running", "returned", "dead"}]
    BY DEF IInv, TypeOK, PendingInv
  <1>2. task[c] # "none" BY <1>1 DEF IInv, CallInv
  <1>3. AskedIn(mailbox) \in Seq(Calls) BY LineTyped
  <1>4. worker' = "up" BY DEF ends
  <1>5. CASE queue # <<>>
    <2> DEFINE h == Head(queue)
    <2>1. queue' = Tail(queue) /\ pending' = {h} /\ task' = [task EXCEPT ![h] = "running"]
      <3>1. MayStart(queue, pending \ {c}) BY <1>1, <1>5 DEF MayStart
      <3>. QED BY <1>1, <3>1 DEF StartNext
    <2>2. h \in Calls /\ task[h] = "none"
      <3>1. h \in Calls /\ Occurs(queue, h) BY <1>1, <1>5, Shortened
      <3>. QED BY <3>1 DEF IInv, CallInv
    <2>3. InOrder # <<>> /\ Head(InOrder) = h /\ InOrder' = Tail(InOrder)
      <3>1. /\ queue \o AskedIn(mailbox) # <<>> /\ Head(queue \o AskedIn(mailbox)) = h
            /\ Tail(queue \o AskedIn(mailbox)) = Tail(queue) \o AskedIn(mailbox)
        BY <1>1, <1>3, <1>5, Joints
      <3>. QED BY <2>1, <3>1 DEF InOrder
    <2> HIDE DEF h
    <2>4. Over' = Over \cup {c}
      <3>1. ASSUME NEW d \in Calls
            PROVE  (task'[d] # "none" /\ d \notin pending')
                     <=> ((task[d] # "none" /\ d \notin pending) \/ d = c)
        <4>1. CASE d = h BY <1>2, <2>1, <2>2, <4>1
        <4>2. CASE d # h BY <1>1, <1>2, <2>1, <4>2
        <4>. QED BY <4>1, <4>2
      <3>. QED BY <1>1, <3>1 DEF Over
    <2>5. Ended' = Ended \cup {c} /\ UNCHANGED worker BY <1>4, <2>4 DEF Ended
    <2>. QED BY <1>1, <2>1, <2>3, <2>5 DEF Serial!End
  <1>6. CASE queue = <<>>
    <2>1. queue' = queue /\ pending' = {} /\ task' = task
      <3>1. ~MayStart(queue, pending \ {c}) BY <1>6 DEF MayStart
      <3>. QED BY <1>1, <3>1 DEF StartNext
    <2>2. InOrder' = InOrder BY <2>1 DEF InOrder
    <2>3. Over' = Over \cup {c} BY <1>1, <1>2, <2>1 DEF Over
    <2>4. Ended' = Ended \cup {c} /\ UNCHANGED worker BY <1>4, <2>3 DEF Ended
    <2>. QED BY <1>1, <2>1, <2>2, <2>4 DEF Serial!End
  <1>. QED BY <1>5, <1>6

\* A message that is no request comes or goes, and what the worker knows of
\* calls stays: nothing happens to the line.
LEMMA NothingHappens ==
  ASSUME AskedIn(mailbox') = AskedIn(mailbox), UNCHANGED <<queue, pending, worker>>,
         \A c \in Calls : c \in pending \/ task'[c] = task[c]
  PROVE  UNCHANGED Serial!vars
  <1>1. InOrder' = InOrder BY DEF InOrder
  <1>2. Over' = Over BY DEF Over
  <1>. QED BY <1>1, <1>2 DEF Serial!vars, Ended

\* Stop: the worker closes.
LEMMA Closes ==
  ASSUME worker = "up", NEW why, Stop(why)
  PROVE  Serial!Close
  <1>1. mailbox' = <<>> /\ queue' = <<>> /\ pending' = {} /\ worker' = "down" BY DEF Stop
  <1>2. InOrder' = <<>>
    <2>1. InOrder' = <<>> \o AskedIn(<<>>) BY <1>1 DEF InOrder
    <2>2. <<>> \in Seq(Calls) BY EmptySeq
    <2>. QED BY <2>1, <2>2, NoneAsked, ConcatEmptySeq
  <1>3. Ended' = Calls BY <1>1 DEF Ended
  <1>. QED BY <1>1, <1>2, <1>3 DEF Serial!Close

\* Every step of the worker is a step of the line, or none.
LEMMA StepInOrder ==
  ASSUME IInv, [Next]_vars
  PROVE  [Serial!Next]_Serial!vars
  <1>1. /\ mailbox \in Seq(Message)
        /\ \A c \in Clients : c \in Calls
        /\ \A k \in Checks : k \in Calls
    BY CallFacts DEF IInv, TypeOK
  <1>2. ASSUME NEW s \in {"exit_stop", "exit_error", "port_down", "EXIT_shutdown", "EXIT_heartbeat"},
               Send(Signal(s)), UNCHANGED <<rpc, worker>>
        PROVE  UNCHANGED Serial!vars
    <2>1. AskedIn(mailbox') = AskedIn(mailbox)
      BY <1>1, <1>2, Joined, RequestFacts, MessageFacts DEF Send
    <2>. QED BY <1>2, <2>1, NothingHappens DEF rpc
  <1>3. ASSUME NEW c \in Calls, NEW t \in {"result", "down"}, Receive(Msg(t, c))
        PROVE  AskedIn(Tail(mailbox)) = AskedIn(mailbox) /\ Tail(mailbox) \in Seq(Message)
    <2>1. mailbox # <<>> /\ Head(mailbox) = Msg(t, c) BY <1>3 DEF Receive
    <2>. QED BY <1>1, <2>1, Left, RequestFacts, HeadTailProperties
  <1>4. CASE UNCHANGED vars
    BY <1>4, NothingHappens DEF vars, rpc, ends
  <1>5. ASSUME NEW c \in Calls, Result(c) PROVE Serial!End(c) \/ UNCHANGED Serial!vars
    <2>1. /\ AskedIn(Tail(mailbox)) = AskedIn(mailbox) /\ Tail(mailbox) \in Seq(Message)
          /\ worker = "up"
      BY <1>3, <1>5 DEF Result, Receive
    <2>2. CASE c \in pending
      <3>1. AskedIn(mailbox') = AskedIn(mailbox) BY <1>5, <2>1, <2>2, Flushed DEF Result
      <3>. QED BY <1>5, <2>1, <2>2, <3>1, EndsInOrder DEF Result
    <2>3. CASE c \notin pending
      BY <1>5, <2>1, <2>3, NothingHappens DEF Result, rpc, ends
    <2>. QED BY <2>2, <2>3
  <1>6. ASSUME NEW c \in Calls, Down(c) PROVE Serial!End(c) \/ UNCHANGED Serial!vars
    <2>1. AskedIn(mailbox') = AskedIn(mailbox) /\ worker = "up"
      BY <1>3, <1>6 DEF Down, Receive
    <2>2. CASE c \in monitors
      <3>1. c \in pending BY <2>2 DEF IInv, PendingInv
      <3>. QED BY <1>6, <2>1, <2>2, <3>1, EndsInOrder DEF Down, AfterDown
    <2>3. CASE c \notin monitors
      BY <1>6, <2>1, <2>3, NothingHappens DEF Down, rpc, ends
    <2>. QED BY <2>2, <2>3
  <1>7. ASSUME NEW c \in Clients, Enqueue(c) PROVE Serial!Begin \/ UNCHANGED Serial!vars
    BY <1>1, <1>7, Begins DEF Enqueue
  <1>8. ASSUME NEW k \in Checks, HealthCheck(k) PROVE Serial!Begin \/ UNCHANGED Serial!vars
    BY <1>1, <1>8, Begins DEF HealthCheck
  <1>9. CASE PortGone \/ Told
    <2>1. worker = "up" /\ \E why : Stop(why) BY <1>9 DEF PortGone, Told, Receive
    <2>. QED BY <2>1, Closes DEF Serial!Next
  <1>10. ASSUME NEW c \in Clients, Ask(c) PROVE Serial!Come(c)
    <2>1. task[c] = "none" /\ ~Occurs(queue, c) /\ ~Asked(c)
      BY <1>10 DEF IInv, ClientInv, Known, Ask
    <2>. QED BY <1>1, <1>10, <2>1, Comes, MessageFacts DEF Ask
  <1>11. ASSUME NEW c \in Clients, CallerTimeout(c) PROVE UNCHANGED Serial!vars
    BY <1>11, NothingHappens DEF CallerTimeout, rpc, ends
  <1>12. ASSUME NEW k \in Checks, HealthTimer(k) PROVE Serial!Come(k)
    <2>1. /\ task[k] = "none" /\ ~Occurs(queue, k)
          /\ ~Occurs(mailbox, Msg("health_check", k))
      BY <1>12 DEF HealthTimer, Queued, InMail, Occurs
    <2>2. ~Occurs(mailbox, Msg("call", k))
      <3>1. k \notin Clients BY CallFacts
      <3>. QED BY <1>1, <3>1, OccursIn, MessageFacts
    <2>. QED BY <1>1, <1>12, <2>1, <2>2, Comes, MessageFacts DEF HealthTimer, Asked
  <1>13. ASSUME NEW c \in Calls, TaskReturns(c) PROVE UNCHANGED Serial!vars
    <2>1. c \in pending BY <1>13 DEF TaskReturns, IInv, CallInv
    <2>2. AskedIn(mailbox') = AskedIn(mailbox)
      <3>1. CASE worker = "up"
        <4>1. mailbox' = Append(mailbox, Msg("result", c))
          BY <1>13, <3>1 DEF TaskReturns, Send
        <4>2. Msg("result", c) \in Message /\ ~IsRequest(Msg("result", c))
          BY RequestFacts, MessageFacts
        <4>. QED BY <1>1, <4>1, <4>2, Joined
      <3>2. CASE worker # "up" BY <1>13, <3>2 DEF TaskReturns
      <3>. QED BY <3>1, <3>2
    <2>3. \A d \in Calls : d \in pending \/ task'[d] = task[d]
      BY <1>13, <2>1 DEF TaskReturns, IInv, TypeOK
    <2>. QED BY <1>13, <2>2, <2>3, NothingHappens DEF TaskReturns, ends
  <1>14. ASSUME NEW c \in Calls, TaskKilled(c) PROVE UNCHANGED Serial!vars
    <2>1. c \in pending BY <1>14 DEF TaskKilled, IInv, PendingInv
    <2>2. AskedIn(mailbox') = AskedIn(mailbox)
      BY <1>1, <1>14, Joined, RequestFacts, MessageFacts DEF TaskKilled, Send
    <2>3. \A d \in Calls : d \in pending \/ task'[d] = task[d]
      BY <1>14, <2>1 DEF TaskKilled, IInv, TypeOK
    <2>. QED BY <1>14, <2>2, <2>3, NothingHappens DEF TaskKilled, ends
  <1>15. CASE PythonExit
    BY <1>2, <1>15 DEF PythonExit
  <1>16. CASE \/ ExitSignal("EXIT_shutdown", "supervisor")
              \/ ExitSignal("EXIT_heartbeat", "heartbeat")
    <2>1. PICK s \in {"EXIT_shutdown", "EXIT_heartbeat"} : Send(Signal(s))
      BY <1>16 DEF ExitSignal
    <2>2. UNCHANGED <<rpc, worker>> BY <1>16 DEF ExitSignal, ends
    <2>. QED BY <1>2, <2>1, <2>2
  <1>17. CASE SystemStops
    BY <1>17, NothingHappens DEF SystemStops, rpc
  <1>. QED BY <1>1, <1>4, <1>5, <1>6, <1>7, <1>8, <1>9, <1>10, <1>11, <1>12, <1>13, <1>14,
              <1>15, <1>16, <1>17 DEF Next, Handle, Serial!Next

\* The worker starts with an empty line.
LEMMA InitInOrder == Init => Serial!Init
  <1> SUFFICES ASSUME Init PROVE Serial!Init OBVIOUS
  <1>1. InOrder = <<>>
    <2>1. InOrder = <<>> \o AskedIn(<<>>) BY DEF InOrder, Init
    <2>2. <<>> \in Seq(Calls) BY EmptySeq
    <2>. QED BY <2>1, <2>2, NoneAsked, ConcatEmptySeq
  <1>2. Ended = {} BY DEF Init, Ended, Over
  <1>. QED BY <1>1, <1>2 DEF Init, Serial!Init

\* THEOREM: the worker implements SerialCalls (enqueue_async_rpc_call,
\* maybe_start_next_rpc_call, the result and the :DOWN of a task, terminate): calls
\* are served one at a time, in the order in which they were asked for, and each
\* is over once, whatever dies, gives up or is stopped.
THEOREM CallsServedInOrder == Spec => ServesInOrder
  <1>1. Init => IInv BY InitInv
  <1>2. IInv /\ [Next]_vars => IInv' BY StepInv
  <1>3. Init => Serial!Init BY InitInOrder
  <1>4. IInv /\ [Next]_vars => [Serial!Next]_Serial!vars BY StepInOrder
  <1>. QED BY <1>1, <1>2, <1>3, <1>4, PTL DEF Spec, ServesInOrder, Serial!Spec
=============================================================================
