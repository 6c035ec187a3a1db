------------------------ MODULE IngestionPoolProofs ------------------------
(* Proofs that IngestionPool keeps its types, its backpressure bound, its    *)
(* per-contract order and every item it accepted, that drain and stop answer *)
(* no earlier than they say, and that each step is one of KeyedChannel, for  *)
(* every number of workers, keys and items; and that the ring buffer of a    *)
(* partition is a queue of the order in which it is filled, for every        *)
(* capacity.                                                                 *)
EXTENDS IngestionPool, RingBuffer, FiniteSetTheorems, FunctionTheorems, SequenceTheorems,
        WellFoundedInduction, TLAPS

-----------------------------------------------------------------------------
(* Types.                                                                *)

LEMMA PartitionInRange == \A k \in Keys : partition(k) \in Workers
  <1>1. ASSUME NEW h \in Nat, NEW n \in Nat \ {0} PROVE h % n \in 0 .. n - 1
    BY <1>1
  <1> QED BY <1>1, PoolAssumption DEF partition, Workers

\* Every accepted item has a partition.
LEMMA ItemPartition ==
    ASSUME TypeOK, NEW i \in 1 .. enqueued
    PROVE  partition(arrival[i]) \in Workers
  <1>1. arrival[i] \in Keys BY DEF TypeOK, enqueued
  <1> QED BY <1>1, PartitionInRange

\* The consumer loop and the helpers keep the types of what they assign.
LEMMA RunLoopType ==
    ASSUME TypeOK, NEW w \in Workers, RunLoop(w)
    PROVE  /\ queues' \in [Workers -> Seq(Nat)]
           /\ current' \in [Workers -> Nat]
           /\ consumer' \in [Workers -> {"idle", "woken", "busy", "done"}]
  <1>1. queues[w] \in Seq(Nat) BY DEF TypeOK
  <1>2. CASE queues[w] # <<>>
    <2>1. Head(queues[w]) \in Nat /\ Tail(queues[w]) \in Seq(Nat) BY <1>1, <1>2
    <2> QED BY <1>2, <2>1 DEF RunLoop, TypeOK
  <1>3. CASE queues[w] = <<>>
    <2> DEFINE next == IF running THEN "idle" ELSE "done"
    <2>1. next \in {"idle", "woken", "busy", "done"} OBVIOUS
    <2>2. /\ current' = [current EXCEPT ![w] = 0]
          /\ queues' = queues
          /\ consumer' = [consumer EXCEPT ![w] = next]
      BY <1>3 DEF RunLoop
    <2> HIDE DEF next
    <2> QED BY <2>1, <2>2 DEF TypeOK
  <1> QED BY <1>2, <1>3

LEMMA WakeType ==
    ASSUME TypeOK, NEW W, Wake(W)
    PROVE  consumer' \in [Workers -> {"idle", "woken", "busy", "done"}]
  BY DEF TypeOK, Wake

\* Every step of the pool keeps the variables in their types.
LEMMA TypeStep == TypeOK /\ [Next]_vars => TypeOK'
  <1> SUFFICES ASSUME TypeOK, [Next]_vars PROVE TypeOK' OBVIOUS
  <1>1. ASSUME NEW p \in Producers, NEW k \in Keys, Enqueue(p, k) PROVE TypeOK'
    <2>1. partition(k) \in Workers BY PartitionInRange
    <2>2. arrival' \in Seq(Keys) BY <1>1 DEF Enqueue, TypeOK
    <2>3. enqueued + 1 \in Nat BY DEF TypeOK, enqueued
    <2>4. queues' \in [Workers -> Seq(Nat)] BY <1>1, <2>1, <2>3 DEF Enqueue, TypeOK
    <2>5. consumer' \in [Workers -> {"idle", "woken", "busy", "done"}]
      BY <1>1, WakeType DEF Enqueue
    <2>6. producer' \in [Producers -> {"ready", "parked", "rejected"}]
      BY <1>1 DEF Enqueue, TypeOK
    <2> QED BY <1>1, <2>2, <2>4, <2>5, <2>6 DEF Enqueue, TypeOK
  <1>2. ASSUME NEW p \in Producers, Reject(p) PROVE TypeOK'
    BY <1>2 DEF Reject, TypeOK
  <1>3. ASSUME NEW w \in Workers, Resume(w) PROVE TypeOK'
    BY <1>3, RunLoopType DEF Resume, TypeOK
  <1>4. ASSUME NEW w \in Workers, Settle(w), processed' \in Nat, failed' \in Nat
        PROVE TypeOK'
    <2>1. finished' \in SUBSET Nat BY <1>4 DEF Settle, TypeOK
    <2>2. producer' \in [Producers -> {"ready", "parked", "rejected"}]
      BY <1>4 DEF Settle, releaseBackpressure, TypeOK
    <2>3. /\ drain' \in [Drainers -> {"none", "waiting", "resolved"}]
          /\ stopping' \in {"no", "draining", "drained", "closing", "stopped"}
      BY <1>4 DEF Settle, resolveDrainIfIdle, TypeOK
    <2>4. RunLoop(w) BY <1>4 DEF Settle
    <2> QED BY <1>4, <2>1, <2>2, <2>3, <2>4, RunLoopType DEF Settle, TypeOK
  <1>5. ASSUME NEW w \in Workers, Succeed(w) PROVE TypeOK'
    BY <1>4, <1>5 DEF Succeed, TypeOK
  <1>6. ASSUME NEW w \in Workers, Fail(w) PROVE TypeOK'
    BY <1>4, <1>6 DEF Fail, TypeOK
  <1>7. ASSUME NEW d \in Drainers, DrainCall(d) PROVE TypeOK'
    BY <1>7 DEF DrainCall, TypeOK, enqueued
  <1>8. CASE StopCall BY <1>8 DEF StopCall, TypeOK
  <1>9. CASE StopConsumers BY <1>9, WakeType DEF StopConsumers, TypeOK
  <1>10. CASE StopDone BY <1>10 DEF StopDone, TypeOK
  <1>11. CASE UNCHANGED vars BY <1>11 DEF vars, TypeOK
  <1> QED BY <1>1, <1>2, <1>3, <1>5, <1>6, <1>7, <1>8, <1>9, <1>10, <1>11
          DEF Next, Terminated

LEMMA TypeInit == Init => TypeOK
  BY DEF Init, TypeOK

\* The pool's variables keep their types, for every instance.
THEOREM TypeCorrect == Spec => []TypeOK
  BY TypeInit, TypeStep, PTL DEF Spec

-----------------------------------------------------------------------------
(* Per-contract order.                                                   *)

\* What one turn of the consumer loop does to each partition.
LEMMA RunLoopEffect ==
    ASSUME TypeOK, NEW w \in Workers, RunLoop(w)
    PROVE  /\ \A v \in Workers \ {w} : /\ queues'[v] = queues[v]
                                       /\ current'[v] = current[v]
                                       /\ consumer'[v] = consumer[v]
           /\ \/ /\ queues[w] # <<>>
                 /\ consumer'[w] = "busy"
                 /\ Len(queues[w]) \in Nat \ {0}
                 /\ current'[w] = queues[w][1]
                 /\ Len(queues'[w]) = Len(queues[w]) - 1
                 /\ \A n \in 1 .. Len(queues[w]) - 1 : queues'[w][n] = queues[w][n + 1]
              \/ /\ queues[w] = <<>>
                 /\ queues'[w] = queues[w]
                 /\ consumer'[w] = "idle" => running
                 /\ consumer'[w] = "done" => ~running
                 /\ consumer'[w] \in {"idle", "done"}
  <1>1. queues[w] \in Seq(Nat) BY DEF TypeOK
  <1>2. CASE queues[w] # <<>>
    <2>1. /\ current' = [current EXCEPT ![w] = Head(queues[w])]
          /\ queues' = [queues EXCEPT ![w] = Tail(queues[w])]
          /\ consumer' = [consumer EXCEPT ![w] = "busy"]
      BY <1>2 DEF RunLoop
    <2>2. queues'[w] = Tail(queues[w]) /\ current'[w] = Head(queues[w])
          /\ consumer'[w] = "busy"
      BY <2>1 DEF TypeOK
    <2>3. /\ Len(queues[w]) \in Nat \ {0}
          /\ Head(queues[w]) = queues[w][1]
          /\ Len(Tail(queues[w])) = Len(queues[w]) - 1
          /\ \A n \in 1 .. Len(queues[w]) - 1 : Tail(queues[w])[n] = queues[w][n + 1]
      BY <1>1, <1>2
    <2>4. \A v \in Workers \ {w} : /\ queues'[v] = queues[v]
                                   /\ current'[v] = current[v]
                                   /\ consumer'[v] = consumer[v]
      BY <2>1 DEF TypeOK
    <2> QED BY <1>2, <2>2, <2>3, <2>4
  <1>3. CASE queues[w] = <<>>
    <2> DEFINE next == IF running THEN "idle" ELSE "done"
    <2>1. /\ current' = [current EXCEPT ![w] = 0]
          /\ queues' = queues
          /\ consumer' = [consumer EXCEPT ![w] = next]
      BY <1>3 DEF RunLoop
    <2>2. /\ next \in {"idle", "done"}
          /\ next = "idle" => running
          /\ next = "done" => ~running
      OBVIOUS
    <2> HIDE DEF next
    <2>3. consumer'[w] = next BY <2>1 DEF TypeOK
    <2>4. \A v \in Workers \ {w} : /\ current'[v] = current[v]
                                   /\ consumer'[v] = consumer[v]
      BY <2>1 DEF TypeOK
    <2> QED BY <1>3, <2>1, <2>2, <2>3, <2>4
  <1> QED BY <1>2, <1>3

\* An item is queued only on the partition of its key, in arrival order.
QueueInv ==
    \A w \in Workers : \A n \in 1 .. Len(queues[w]) :
        /\ queues[w][n] \in 1 .. enqueued
        /\ partition(arrival[queues[w][n]]) = w
        /\ \A m \in 1 .. n - 1 : queues[w][m] < queues[w][n]

\* The item in process left its queue before everything still in it.
CurrentInv ==
    \A w \in Workers : consumer[w] = "busy" =>
        /\ current[w] \in 1 .. enqueued
        /\ partition(arrival[current[w]]) = w
        /\ \A n \in 1 .. Len(queues[w]) : current[w] < queues[w][n]

\* Every accepted item has settled, is in process, or waits on its partition.
AccountInv ==
    \A i \in 1 .. enqueued :
        LET w == partition(arrival[i]) IN
        \/ i \in finished
        \/ consumer[w] = "busy" /\ current[w] = i
        \/ \E n \in 1 .. Len(queues[w]) : queues[w][n] = i

OrderInv == TypeOK /\ QueueInv /\ CurrentInv /\ AccountInv

\* One turn of the loop keeps the order, once the item it held has settled.
LEMMA OrderLoop ==
    ASSUME OrderInv, TypeOK', NEW w \in Workers, RunLoop(w), arrival' = arrival,
           \/ consumer[w] # "busy" /\ finished' = finished
           \/ finished' = finished \cup {current[w]}
    PROVE  OrderInv'
  <1> USE DEF OrderInv
  <1>1. queues[w] \in Seq(Nat) /\ Len(queues[w]) \in Nat BY DEF TypeOK
  <1>2. enqueued' = enqueued /\ enqueued \in Nat BY DEF enqueued, TypeOK
  <1>3. QueueInv'
    <2> SUFFICES ASSUME NEW v \in Workers, NEW n \in 1 .. Len(queues'[v])
                 PROVE  /\ queues'[v][n] \in 1 .. enqueued
                        /\ partition(arrival[queues'[v][n]]) = v
                        /\ \A m \in 1 .. n - 1 : queues'[v][m] < queues'[v][n]
      BY <1>2 DEF QueueInv, partition
    <2>1. CASE v # w BY <2>1, RunLoopEffect DEF QueueInv
    <2>2. CASE v = w /\ queues[w] = <<>> BY <2>2, RunLoopEffect DEF QueueInv
    <2>3. CASE v = w /\ queues[w] # <<>>
      <3>1. /\ Len(queues'[w]) = Len(queues[w]) - 1
            /\ \A k \in 1 .. Len(queues[w]) - 1 : queues'[w][k] = queues[w][k + 1]
        BY <2>3, RunLoopEffect
      <3>2. n + 1 \in 1 .. Len(queues[w]) BY <1>1, <2>3, <3>1
      <3>3. \A m \in 1 .. n - 1 : m + 1 \in 1 .. (n + 1) - 1 /\ m \in 1 .. Len(queues[w]) - 1
        BY <1>1, <2>3, <3>1
      <3> QED BY <1>1, <2>3, <3>1, <3>2, <3>3 DEF QueueInv
    <2> QED BY <2>1, <2>2, <2>3
  <1>4. CurrentInv'
    <2> SUFFICES ASSUME NEW v \in Workers, consumer'[v] = "busy"
                 PROVE  /\ current'[v] \in 1 .. enqueued
                        /\ partition(arrival[current'[v]]) = v
                        /\ \A n \in 1 .. Len(queues'[v]) : current'[v] < queues'[v][n]
      BY <1>2 DEF CurrentInv, partition
    <2>1. CASE v # w BY <2>1, RunLoopEffect DEF CurrentInv
    <2>2. CASE v = w
      <3>1. /\ queues[w] # <<>>
            /\ Len(queues[w]) \in Nat \ {0}
            /\ current'[w] = queues[w][1]
            /\ Len(queues'[w]) = Len(queues[w]) - 1
            /\ \A k \in 1 .. Len(queues[w]) - 1 : queues'[w][k] = queues[w][k + 1]
        BY <2>2, RunLoopEffect
      <3>2. \A n \in 1 .. Len(queues[w]) - 1 : n + 1 \in 1 .. Len(queues[w]) /\ 1 \in 1 .. (n + 1) - 1
        BY <3>1
      <3>3. 1 \in 1 .. Len(queues[w]) BY <3>1
      <3> QED BY <2>2, <3>1, <3>2, <3>3 DEF QueueInv
    <2> QED BY <2>1, <2>2
  <1>5. AccountInv'
    <2> SUFFICES ASSUME NEW i \in 1 .. enqueued, NEW v, v = partition(arrival[i])
                 PROVE  \/ i \in finished'
                        \/ consumer'[v] = "busy" /\ current'[v] = i
                        \/ \E n \in 1 .. Len(queues'[v]) : queues'[v][n] = i
      BY <1>2 DEF AccountInv, partition
    <2>1. v \in Workers BY ItemPartition
    <2>2. CASE i \in finished BY <2>2
    <2>3. CASE consumer[v] = "busy" /\ current[v] = i
      BY <2>1, <2>3, RunLoopEffect
    <2>4. ASSUME NEW n \in 1 .. Len(queues[v]), queues[v][n] = i
          PROVE  \/ consumer'[v] = "busy" /\ current'[v] = i
                 \/ \E m \in 1 .. Len(queues'[v]) : queues'[v][m] = i
      <3>1. CASE v # w BY <2>1, <2>4, <3>1, RunLoopEffect
      <3>2. CASE v = w
        <4>1. queues[w] # <<>> BY <1>1, <2>4, <3>2
        <4>2. /\ consumer'[w] = "busy"
              /\ current'[w] = queues[w][1]
              /\ Len(queues'[w]) = Len(queues[w]) - 1
              /\ \A k \in 1 .. Len(queues[w]) - 1 : queues'[w][k] = queues[w][k + 1]
          BY <4>1, RunLoopEffect
        <4>3. CASE n = 1 BY <2>4, <3>2, <4>2, <4>3
        <4>4. CASE n > 1
          <5>1. n - 1 \in 1 .. Len(queues[w]) - 1 /\ (n - 1) + 1 = n BY <1>1, <3>2, <4>4
          <5> QED BY <2>4, <3>2, <4>2, <5>1
        <4> QED BY <4>3, <4>4
      <3> QED BY <3>1, <3>2
    <2> QED BY <2>2, <2>3, <2>4 DEF AccountInv
  <1> QED BY <1>3, <1>4, <1>5

\* wake() leaves busy consumers busy, and nobody else becomes busy.
LEMMA WakeBusy ==
    ASSUME TypeOK, NEW W, Wake(W), NEW v \in Workers
    PROVE  /\ consumer'[v] = "busy" <=> consumer[v] = "busy"
           /\ consumer'[v] = "done" <=> consumer[v] = "done"
  BY DEF Wake, TypeOK

\* An accepted item joins the end of its own partition's queue.
LEMMA OrderEnqueue ==
    ASSUME OrderInv, TypeOK', NEW p \in Producers, NEW k \in Keys, Enqueue(p, k)
    PROVE  OrderInv'
  <1> USE DEF OrderInv
  <1> DEFINE u == partition(k)
             e == enqueued + 1
  <1>1. /\ u \in Workers
        /\ queues[u] \in Seq(Nat) /\ Len(queues[u]) \in Nat
        /\ enqueued \in Nat /\ e \in Nat
    BY PartitionInRange DEF TypeOK, enqueued
  <1>2. /\ enqueued' = e
        /\ arrival'[e] = k
        /\ \A i \in 1 .. enqueued : arrival'[i] = arrival[i]
    BY DEF Enqueue, TypeOK, enqueued
  <1>3. /\ \A v \in Workers \ {u} : queues'[v] = queues[v]
        /\ queues'[u] = Append(queues[u], e)
    BY <1>1 DEF Enqueue, TypeOK
  <1>4. /\ Len(queues'[u]) = Len(queues[u]) + 1
        /\ queues'[u][Len(queues[u]) + 1] = e
        /\ \A n \in 1 .. Len(queues[u]) : queues'[u][n] = queues[u][n]
    BY <1>1, <1>3
  <1>5. /\ current' = current /\ finished' = finished
        /\ \A v \in Workers : consumer'[v] = "busy" <=> consumer[v] = "busy"
    BY WakeBusy DEF Enqueue
  <1> HIDE DEF e, u
  <1>6. e = enqueued + 1 /\ u = partition(k) BY DEF e, u
  <1>7. QueueInv'
    <2> SUFFICES ASSUME NEW v \in Workers, NEW n \in 1 .. Len(queues'[v])
                 PROVE  /\ queues'[v][n] \in 1 .. enqueued'
                        /\ partition(arrival'[queues'[v][n]]) = v
                        /\ \A m \in 1 .. n - 1 : queues'[v][m] < queues'[v][n]
      BY DEF QueueInv, partition
    <2>0. queues[v] \in Seq(Nat) /\ Len(queues[v]) \in Nat BY DEF TypeOK
    <2>1. CASE v # u \/ n <= Len(queues[u])
      <3>1. n \in 1 .. Len(queues[v])
            /\ \A m \in 1 .. n : queues'[v][m] = queues[v][m]
        <4>1. CASE v # u BY <1>3, <4>1
        <4>2. CASE v = u /\ n <= Len(queues[u])
          <5>1. n \in 1 .. Len(queues[u]) /\ 1 .. n \subseteq 1 .. Len(queues[u])
            BY <1>1, <1>4, <4>2
          <5> QED BY <1>4, <4>2, <5>1
        <4> QED BY <2>1, <4>1, <4>2
      <3>2. queues[v][n] \in 1 .. enqueued
            /\ partition(arrival[queues[v][n]]) = v
            /\ \A m \in 1 .. n - 1 : queues[v][m] < queues[v][n]
        BY <3>1 DEF QueueInv
      <3>3. \A m \in 1 .. n - 1 : m \in 1 .. n BY <2>0, <3>1
      <3>4. n \in 1 .. n BY <2>0, <3>1
      <3> QED BY <1>1, <1>2, <1>6, <3>1, <3>2, <3>3, <3>4
    <2>2. CASE v = u /\ n = Len(queues[u]) + 1
      <3>1. queues'[u][n] = e /\ partition(arrival'[e]) = u BY <1>2, <1>4, <1>6, <2>2
      <3>2. ASSUME NEW m \in 1 .. n - 1 PROVE queues'[u][m] < e
        <4>1. m \in 1 .. Len(queues[u]) BY <1>1, <2>2
        <4>2. queues[u][m] \in 1 .. enqueued BY <1>1, <4>1 DEF QueueInv
        <4> QED BY <1>1, <1>4, <1>6, <4>1, <4>2
      <3>3. e \in 1 .. e BY <1>1, <1>6
      <3> QED BY <1>2, <2>2, <3>1, <3>2, <3>3
    <2> QED BY <1>1, <1>4, <2>0, <2>1, <2>2
  <1>8. CurrentInv'
    <2> SUFFICES ASSUME NEW v \in Workers, consumer[v] = "busy"
                 PROVE  /\ current[v] \in 1 .. enqueued'
                        /\ partition(arrival'[current[v]]) = v
                        /\ \A n \in 1 .. Len(queues'[v]) : current[v] < queues'[v][n]
      BY <1>5 DEF CurrentInv, partition
    <2>1. /\ current[v] \in 1 .. enqueued
          /\ partition(arrival[current[v]]) = v
          /\ \A n \in 1 .. Len(queues[v]) : current[v] < queues[v][n]
      BY DEF CurrentInv
    <2>2. CASE v # u BY <1>1, <1>2, <1>3, <1>6, <2>1, <2>2
    <2>3. CASE v = u
      <3>1. ASSUME NEW n \in 1 .. Len(queues[u]) + 1 PROVE current[v] < queues'[u][n]
        <4>1. CASE n = Len(queues[u]) + 1 BY <1>1, <1>4, <1>6, <2>1, <4>1
        <4>2. CASE n \in 1 .. Len(queues[u]) BY <1>4, <2>1, <2>3, <4>2
        <4> QED BY <1>1, <4>1, <4>2
      <3> QED BY <1>1, <1>2, <1>4, <1>6, <2>1, <2>3, <3>1
    <2> QED BY <2>2, <2>3
  <1>9. AccountInv'
    <2> SUFFICES ASSUME NEW i \in 1 .. e, NEW v, v = partition(arrival'[i])
                 PROVE  \/ i \in finished
                        \/ consumer[v] = "busy" /\ current[v] = i
                        \/ \E n \in 1 .. Len(queues'[v]) : queues'[v][n] = i
      <3>1. ASSUME NEW i \in 1 .. e PROVE partition(arrival'[i]) \in Workers
        <4>1. arrival' \in Seq(Keys) /\ Len(arrival') = e BY <1>2 DEF TypeOK, enqueued
        <4> QED BY <4>1, PartitionInRange
      <3> QED BY <1>2, <1>5, <3>1 DEF AccountInv, partition
    <2>1. CASE i \in 1 .. enqueued
      <3>1. v = partition(arrival[i]) BY <1>2, <2>1
      <3>2. v \in Workers BY <2>1, <3>1, ItemPartition
      <3>3. ASSUME NEW n \in 1 .. Len(queues[v]), queues[v][n] = i
            PROVE  \E m \in 1 .. Len(queues'[v]) : queues'[v][m] = i
        <4>1. CASE v = u
          <5>1. n \in 1 .. Len(queues'[u]) BY <1>1, <1>4, <3>3, <4>1
          <5> QED BY <1>4, <3>3, <4>1, <5>1
        <4>2. CASE v # u BY <1>3, <3>2, <3>3, <4>2
        <4> QED BY <4>1, <4>2
      <3> QED BY <2>1, <3>1, <3>3 DEF AccountInv
    <2>2. CASE i = e
      <3>1. v = u BY <1>2, <1>6, <2>2
      <3>2. Len(queues[u]) + 1 \in 1 .. Len(queues'[u]) BY <1>1, <1>4
      <3> QED BY <1>4, <2>2, <3>1, <3>2
    <2> QED BY <1>1, <1>6, <2>1, <2>2
  <1> QED BY <1>7, <1>8, <1>9

\* Steps that touch neither the queues nor the busy consumers keep the order.
LEMMA OrderFrame ==
    ASSUME OrderInv, TypeOK',
           UNCHANGED <<arrival, queues, current, finished>>,
           \A v \in Workers : consumer'[v] = "busy" <=> consumer[v] = "busy"
    PROVE  OrderInv'
  <1>1. enqueued' = enqueued BY DEF enqueued
  <1>2. QueueInv' BY <1>1 DEF OrderInv, QueueInv, partition
  <1>3. CurrentInv' BY <1>1 DEF OrderInv, CurrentInv, partition
  <1>4. AccountInv'
    <2>1. \A i \in 1 .. enqueued : partition(arrival[i]) \in Workers
      BY ItemPartition DEF OrderInv
    <2> QED BY <1>1, <2>1 DEF OrderInv, AccountInv, partition
  <1> QED BY <1>2, <1>3, <1>4 DEF OrderInv

LEMMA OrderStep == OrderInv /\ [Next]_vars => OrderInv'
  <1> SUFFICES ASSUME OrderInv, [Next]_vars PROVE OrderInv' OBVIOUS
  <1>0. TypeOK /\ TypeOK' BY TypeStep DEF OrderInv
  <1>1. ASSUME NEW p \in Producers, NEW k \in Keys, Enqueue(p, k) PROVE OrderInv'
    BY <1>0, <1>1, OrderEnqueue
  <1>2. ASSUME NEW p \in Producers, Reject(p) PROVE OrderInv'
    BY <1>0, <1>2, OrderFrame DEF Reject
  <1>3. ASSUME NEW w \in Workers, Resume(w) PROVE OrderInv'
    <2>1. consumer[w] # "busy" /\ RunLoop(w) /\ UNCHANGED <<arrival, finished>>
      BY <1>3 DEF Resume
    <2> QED BY <1>0, <2>1, OrderLoop
  <1>4. ASSUME NEW w \in Workers, Succeed(w) \/ Fail(w) PROVE OrderInv'
    <2>1. RunLoop(w) /\ arrival' = arrival /\ finished' = finished \cup {current[w]}
      BY <1>4 DEF Succeed, Fail, Settle
    <2> QED BY <1>0, <2>1, OrderLoop
  <1>5. ASSUME NEW d \in Drainers, DrainCall(d) PROVE OrderInv'
    BY <1>0, <1>5, OrderFrame DEF DrainCall
  <1>6. CASE StopCall BY <1>0, <1>6, OrderFrame DEF StopCall
  <1>7. CASE StopConsumers BY <1>0, <1>7, OrderFrame, WakeBusy DEF StopConsumers
  <1>8. CASE StopDone BY <1>0, <1>8, OrderFrame DEF StopDone
  <1>9. CASE UNCHANGED vars BY <1>0, <1>9, OrderFrame DEF vars
  <1> QED BY <1>1, <1>2, <1>3, <1>4, <1>5, <1>6, <1>7, <1>8, <1>9
          DEF Next, Terminated

LEMMA OrderInit == Init => OrderInv
  <1> SUFFICES ASSUME Init PROVE OrderInv OBVIOUS
  <1>1. enqueued = 0 /\ \A w \in Workers : Len(queues[w]) = 0 /\ consumer[w] # "busy"
    BY DEF Init, enqueued
  <1> QED BY <1>1, TypeInit DEF OrderInv, QueueInv, CurrentInv, AccountInv

\* Within OrderInv nothing overtakes: an earlier item of the same contract can
\* neither be queued behind the one in process nor be in process elsewhere.
LEMMA OrderImplied == OrderInv => PerKeyOrder
  <1> SUFFICES ASSUME OrderInv, NEW w \in Busy, NEW j \in 1 .. current[w] - 1,
                      arrival[j] = arrival[current[w]]
               PROVE  j \in finished
    BY DEF PerKeyOrder
  <1>1. w \in Workers /\ consumer[w] = "busy" BY DEF Busy
  <1>2. /\ current[w] \in 1 .. enqueued
        /\ partition(arrival[current[w]]) = w
        /\ \A n \in 1 .. Len(queues[w]) : current[w] < queues[w][n]
    BY <1>1 DEF OrderInv, CurrentInv
  <1>3. j \in 1 .. enqueued /\ j < current[w] /\ enqueued \in Nat
    BY <1>2 DEF OrderInv, TypeOK, enqueued
  <1>4. partition(arrival[j]) = w BY <1>2
  <1>5. \A n \in 1 .. Len(queues[w]) : queues[w][n] # j
    <2>1. \A n \in 1 .. Len(queues[w]) : queues[w][n] \in 1 .. enqueued
      BY <1>1 DEF OrderInv, QueueInv
    <2> QED BY <1>2, <1>3, <2>1
  <1>6. current[w] # j BY <1>2, <1>3
  <1> QED BY <1>3, <1>4, <1>5, <1>6 DEF OrderInv, AccountInv

\* Per-contract ordering holds for any number of consumers, keys and items.
THEOREM OrderCorrect == Spec => []PerKeyOrder
  <1>1. Spec => []OrderInv BY OrderInit, OrderStep, PTL DEF Spec
  <1> QED BY <1>1, OrderImplied, PTL

-----------------------------------------------------------------------------
(* drain() and stop().                                                   *)

\* What has settled was accepted and is no longer held by any consumer.
HeldInv ==
    /\ finished \subseteq 1 .. enqueued
    /\ \A w \in Workers :
        /\ consumer[w] = "busy" => current[w] \notin finished
        /\ \A n \in 1 .. Len(queues[w]) : queues[w][n] \notin finished

\* The two counters count every settled item once.
TallyInv == Cardinality(finished) = processed + failed

\* drain() was called on items already accepted.
MarkInv == \A d \in Drainers : mark[d] <= enqueued

\* A consumer leaves its loop only with running cleared and its queue empty.
DoneInv ==
    /\ \A w \in Workers : consumer[w] = "done" => ~running /\ queues[w] = <<>>
    /\ running <=> stopping \in {"no", "draining", "drained"}
    /\ stopping = "stopped" => \A w \in Workers : consumer[w] = "done"

CountInv == OrderInv /\ HeldInv /\ TallyInv /\ MarkInv /\ DoneInv /\ DrainSound

\* One turn of the loop, once the item it held (if any) has settled.
LEMMA HeldLoop ==
    ASSUME OrderInv, HeldInv, NEW w \in Workers, RunLoop(w), arrival' = arrival,
           \/ consumer[w] # "busy" /\ finished' = finished
           \/ consumer[w] = "busy" /\ finished' = finished \cup {current[w]}
    PROVE  HeldInv'
  <1>1. enqueued' = enqueued BY DEF enqueued
  <1>2. finished' \subseteq 1 .. enqueued
    <2>1. finished \subseteq 1 .. enqueued BY DEF HeldInv
    <2>2. consumer[w] = "busy" => current[w] \in 1 .. enqueued BY DEF OrderInv, CurrentInv
    <2> QED BY <2>1, <2>2
  <1>3. ASSUME NEW v \in Workers, NEW i,
               \/ consumer[v] = "busy" /\ current[v] = i /\ v # w
               \/ \E n \in 1 .. Len(queues[v]) : queues[v][n] = i
        PROVE  i \notin finished'
    <2>1. i \notin finished BY <1>3 DEF HeldInv
    <2>2. consumer[w] = "busy" => i # current[w]
      <3> SUFFICES ASSUME consumer[w] = "busy", i = current[w] PROVE FALSE OBVIOUS
      <3>1. partition(arrival[i]) = v BY <1>3 DEF OrderInv, CurrentInv, QueueInv
      <3>2. partition(arrival[i]) = w BY DEF OrderInv, CurrentInv
      <3>3. i \in Nat /\ \A n \in 1 .. Len(queues[w]) : i < queues[w][n]
        BY DEF OrderInv, CurrentInv, TypeOK
      <3> QED BY <1>3, <3>1, <3>2, <3>3
    <2> QED BY <2>1, <2>2
  <1>4. ASSUME NEW v \in Workers, consumer'[v] = "busy" PROVE current'[v] \notin finished'
    <2>1. CASE v # w BY <1>3, <1>4, <2>1, RunLoopEffect DEF OrderInv
    <2>2. CASE v = w
      <3>1. Len(queues[w]) \in Nat \ {0} /\ current'[w] = queues[w][1]
        BY <1>4, <2>2, RunLoopEffect DEF OrderInv
      <3>2. 1 \in 1 .. Len(queues[w]) BY <3>1
      <3> QED BY <1>3, <2>2, <3>1, <3>2
    <2> QED BY <2>1, <2>2
  <1>5. ASSUME NEW v \in Workers, NEW n \in 1 .. Len(queues'[v])
        PROVE  queues'[v][n] \notin finished'
    <2>1. CASE v # w BY <1>3, <1>5, <2>1, RunLoopEffect DEF OrderInv
    <2>2. CASE v = w /\ queues[w] = <<>> BY <1>3, <2>2, RunLoopEffect DEF OrderInv
    <2>3. CASE v = w /\ queues[w] # <<>>
      <3>1. /\ Len(queues[w]) \in Nat
            /\ Len(queues'[w]) = Len(queues[w]) - 1
            /\ \A k \in 1 .. Len(queues[w]) - 1 : queues'[w][k] = queues[w][k + 1]
        BY <2>3, RunLoopEffect DEF OrderInv
      <3>2. n + 1 \in 1 .. Len(queues[w]) /\ queues'[w][n] = queues[w][n + 1]
        BY <2>3, <3>1
      <3> QED BY <1>3, <2>3, <3>2
    <2> QED BY <2>1, <2>2, <2>3
  <1> QED BY <1>1, <1>2, <1>4, <1>5 DEF HeldInv

\* The settled items form a finite set: they were all accepted.
LEMMA FinishedFinite ==
    ASSUME TypeOK, HeldInv
    PROVE  IsFiniteSet(finished) /\ Cardinality(finished) \in Nat
  <1>1. enqueued \in Nat BY DEF TypeOK, enqueued
  <1>2. IsFiniteSet(1 .. enqueued) BY <1>1, FS_Interval
  <1>3. finished \in SUBSET (1 .. enqueued) BY DEF HeldInv
  <1> QED BY <1>2, <1>3, FS_Subset, FS_CardinalityType

\* A set of n accepted items out of n is all of them.
LEMMA AllSettled ==
    ASSUME NEW n \in Nat, NEW S \in SUBSET (1 .. n), Cardinality(S) = n
    PROVE  S = 1 .. n
  <1>1. IsFiniteSet(1 .. n) /\ Cardinality(1 .. n) = n BY FS_Interval
  <1> QED BY <1>1, FS_Subset

LEMMA CountSettle ==
    ASSUME CountInv, OrderInv', NEW w \in Workers, Settle(w),
           processed' + failed' = processed + failed + 1,
           processed' \in Nat, failed' \in Nat
    PROVE  CountInv'
  <1> USE DEF CountInv
  <1>1. /\ consumer[w] = "busy" /\ RunLoop(w) /\ arrival' = arrival
        /\ finished' = finished \cup {current[w]}
        /\ running' = running /\ mark' = mark
        /\ resolveDrainIfIdle(outstanding - 1)
    BY DEF Settle
  <1>2. enqueued' = enqueued /\ TypeOK /\ TypeOK' BY <1>1 DEF enqueued, OrderInv
  <1>3. HeldInv' BY <1>1, HeldLoop
  <1>4. TallyInv'
    <2>1. current[w] \notin finished BY <1>1 DEF HeldInv
    <2>2. Cardinality(finished') = Cardinality(finished) + 1
      BY <1>1, <1>2, <2>1, FinishedFinite, FS_AddElement
    <2> QED BY <2>2 DEF TallyInv
  <1>5. MarkInv' BY <1>1, <1>2 DEF MarkInv
  <1>6. DoneInv'
    <2>1. \A v \in Workers : consumer'[v] = "done" => ~running /\ queues'[v] = <<>>
      BY <1>1, <1>2, RunLoopEffect DEF DoneInv
    <2>2. stopping' \in {"no", "draining", "drained"} <=> stopping \in {"no", "draining", "drained"}
      BY <1>1 DEF resolveDrainIfIdle
    <2>3. stopping' # "stopped"
      <3>1. stopping # "stopped" BY <1>1 DEF DoneInv
      <3> QED BY <1>1, <3>1 DEF resolveDrainIfIdle
    <2> QED BY <1>1, <2>1, <2>2, <2>3 DEF DoneInv
  <1>7. DrainSound'
    <2> SUFFICES ASSUME NEW d \in Drainers, drain'[d] = "resolved"
                 PROVE  1 .. mark[d] \subseteq finished'
      BY <1>1 DEF DrainSound
    <2>1. CASE drain[d] = "resolved" BY <1>1, <2>1 DEF DrainSound
    <2>2. CASE drain[d] # "resolved"
      <3>1. outstanding - 1 = 0 BY <1>1, <1>2, <2>2 DEF resolveDrainIfIdle, TypeOK
      <3>2. enqueued \in Nat /\ processed \in Nat /\ failed \in Nat
        BY <1>2 DEF TypeOK, enqueued
      <3>3. processed' + failed' = enqueued
        <4>1. (enqueued - processed - failed) - 1 = 0 BY <3>1 DEF outstanding
        <4>2. enqueued = processed + failed + 1 BY <3>2, <4>1
        <4> QED BY <4>2
      <3>4. finished' \in SUBSET (1 .. enqueued) /\ Cardinality(finished') = enqueued
        BY <1>2, <1>3, <1>4, <3>3 DEF HeldInv, TallyInv
      <3>5. finished' = 1 .. enqueued BY <3>2, <3>4, AllSettled
      <3>6. mark[d] <= enqueued /\ mark[d] \in Nat BY <1>2 DEF MarkInv, TypeOK
      <3> QED BY <3>2, <3>5, <3>6
    <2> QED BY <2>1, <2>2
  <1> QED BY <1>3, <1>4, <1>5, <1>6, <1>7

LEMMA CountEnqueue ==
    ASSUME CountInv, OrderInv', NEW p \in Producers, NEW k \in Keys, Enqueue(p, k)
    PROVE  CountInv'
  <1> USE DEF CountInv
  <1> DEFINE u == partition(k)
  <1>1. TypeOK /\ TypeOK' /\ enqueued \in Nat /\ u \in Workers
    <2>1. TypeOK /\ TypeOK' BY DEF OrderInv
    <2>2. enqueued \in Nat BY <2>1 DEF TypeOK, enqueued
    <2> QED BY <2>1, <2>2, PartitionInRange
  <1>2. /\ enqueued' = enqueued + 1 /\ running
        /\ UNCHANGED <<current, finished, processed, failed, mark, drain, running, stopping>>
        /\ \A v \in Workers : (consumer'[v] = "busy" <=> consumer[v] = "busy")
                             /\ (consumer'[v] = "done" <=> consumer[v] = "done")
    <2>1. /\ running
          /\ UNCHANGED <<current, finished, processed, failed, mark, drain, running, stopping>>
      BY DEF Enqueue
    <2>2. enqueued' = enqueued + 1 BY <1>1 DEF Enqueue, TypeOK, enqueued
    <2>3. Wake({u}) BY DEF Enqueue
    <2>4. \A v \in Workers : (consumer'[v] = "busy" <=> consumer[v] = "busy")
                            /\ (consumer'[v] = "done" <=> consumer[v] = "done")
      BY <1>1, <2>3, WakeBusy
    <2> QED BY <2>1, <2>2, <2>4
  <1>3. /\ \A v \in Workers \ {u} : queues'[v] = queues[v]
        /\ queues'[u] = Append(queues[u], enqueued + 1)
    BY <1>1 DEF Enqueue, TypeOK
  <1>4. HeldInv'
    <2>1. finished' \subseteq 1 .. enqueued' BY <1>1, <1>2 DEF HeldInv
    <2>2. ASSUME NEW v \in Workers, NEW n \in 1 .. Len(queues'[v])
          PROVE  queues'[v][n] \notin finished
      <3>1. queues[v] \in Seq(Nat) /\ Len(queues[v]) \in Nat BY <1>1 DEF TypeOK
      <3>2. CASE v # u BY <1>3, <2>2, <3>2 DEF HeldInv
      <3>3. CASE v = u /\ n = Len(queues[v]) + 1
        <4>1. queues'[v][n] = enqueued + 1 BY <1>3, <3>1, <3>3
        <4> QED BY <1>1, <4>1 DEF HeldInv
      <3>4. CASE v = u /\ n \in 1 .. Len(queues[v])
        <4>1. queues'[v][n] = queues[v][n] BY <1>1, <1>3, <3>1, <3>4
        <4> QED BY <3>4, <4>1 DEF HeldInv
      <3>5. v = u => Len(queues'[v]) = Len(queues[v]) + 1 BY <1>3, <3>1
      <3> QED BY <3>1, <3>2, <3>3, <3>4, <3>5
    <2> QED BY <1>2, <2>1, <2>2 DEF HeldInv
  <1>5. TallyInv' BY <1>2 DEF TallyInv
  <1>6. MarkInv'
    <2>1. \A d \in Drainers : mark[d] \in Nat /\ mark[d] <= enqueued
      BY <1>1 DEF MarkInv, TypeOK
    <2> QED BY <1>1, <1>2, <2>1 DEF MarkInv
  <1>7. DoneInv'
    <2>1. \A v \in Workers : consumer'[v] # "done" BY <1>2 DEF DoneInv
    <2>2. stopping # "stopped" BY <1>2 DEF DoneInv
    <2> QED BY <1>2, <2>1, <2>2 DEF DoneInv
  <1>8. DrainSound' BY <1>2 DEF DrainSound
  <1> QED BY <1>4, <1>5, <1>6, <1>7, <1>8

LEMMA CountDrain ==
    ASSUME CountInv, OrderInv', NEW d \in Drainers, DrainCall(d)
    PROVE  CountInv'
  <1> USE DEF CountInv
  <1>1. /\ UNCHANGED <<arrival, queues, current, consumer, processed, failed,
                       finished, running, stopping>>
        /\ drain' = [drain EXCEPT ![d] = IF outstanding = 0 THEN "resolved" ELSE "waiting"]
        /\ mark' = [mark EXCEPT ![d] = enqueued]
    BY DEF DrainCall
  <1>2. /\ TypeOK /\ enqueued' = enqueued /\ enqueued \in Nat
        /\ processed \in Nat /\ failed \in Nat
    BY <1>1 DEF OrderInv, TypeOK, enqueued
  <1>3. HeldInv' /\ TallyInv' /\ DoneInv' BY <1>1, <1>2 DEF HeldInv, TallyInv, DoneInv
  <1>4. MarkInv' BY <1>1, <1>2 DEF MarkInv, TypeOK
  <1>5. DrainSound'
    <2> SUFFICES ASSUME NEW e \in Drainers, drain'[e] = "resolved"
                 PROVE  1 .. mark'[e] \subseteq finished
      BY <1>1 DEF DrainSound
    <2>1. CASE e # d BY <1>1, <1>2, <2>1 DEF DrainSound, TypeOK
    <2>2. CASE e = d
      <3>1. outstanding = 0 /\ mark'[d] = enqueued BY <1>1, <1>2, <2>2 DEF TypeOK
      <3>2. processed + failed = enqueued BY <1>2, <3>1 DEF outstanding
      <3>3. finished \in SUBSET (1 .. enqueued) /\ Cardinality(finished) = enqueued
        BY <3>2 DEF HeldInv, TallyInv
      <3> QED BY <1>2, <2>2, <3>1, <3>3, AllSettled
    <2> QED BY <2>1, <2>2
  <1> QED BY <1>3, <1>4, <1>5

LEMMA CountStep == CountInv /\ [Next]_vars => CountInv'
  <1> SUFFICES ASSUME CountInv, [Next]_vars PROVE CountInv' OBVIOUS
  <1>0. OrderInv /\ OrderInv' /\ TypeOK BY OrderStep DEF CountInv, OrderInv
  <1>1. ASSUME NEW p \in Producers, NEW k \in Keys, Enqueue(p, k) PROVE CountInv'
    BY <1>0, <1>1, CountEnqueue
  <1>2. ASSUME UNCHANGED <<arrival, queues, current, finished, processed, failed, mark, drain>>,
               DoneInv', \A v \in Workers : consumer'[v] = "busy" <=> consumer[v] = "busy"
        PROVE  CountInv'
    <2>1. enqueued' = enqueued BY <1>2 DEF enqueued
    <2> QED BY <1>0, <1>2, <2>1
            DEF CountInv, HeldInv, TallyInv, MarkInv, DrainSound
  <1>3. ASSUME NEW p \in Producers, Reject(p) PROVE CountInv'
    BY <1>2, <1>3 DEF Reject, CountInv, DoneInv
  <1>4. ASSUME NEW w \in Workers, Resume(w) PROVE CountInv'
    <2>1. /\ consumer[w] # "busy" /\ RunLoop(w)
          /\ UNCHANGED <<arrival, finished, processed, failed, mark, drain, running, stopping>>
      BY <1>4 DEF Resume
    <2>2. enqueued' = enqueued BY <2>1 DEF enqueued
    <2>3. HeldInv' BY <1>0, <2>1, HeldLoop DEF CountInv
    <2>4. DoneInv'
      <3>1. consumer[w] # "done" BY <1>4 DEF Resume
      <3>2. \A v \in Workers : consumer'[v] = "done" => ~running /\ queues'[v] = <<>>
        BY <1>0, <2>1, RunLoopEffect DEF DoneInv, CountInv
      <3> QED BY <2>1, <3>1, <3>2 DEF DoneInv, CountInv
    <2> QED BY <1>0, <2>1, <2>2, <2>3, <2>4
            DEF CountInv, TallyInv, MarkInv, DrainSound
  <1>5. ASSUME NEW w \in Workers, Succeed(w) PROVE CountInv'
    <2>1. Settle(w) /\ processed' = processed + 1 /\ failed' = failed
      BY <1>5 DEF Succeed
    <2>2. processed \in Nat /\ failed \in Nat BY <1>0 DEF TypeOK
    <2> QED BY <1>0, <2>1, <2>2, CountSettle
  <1>6. ASSUME NEW w \in Workers, Fail(w) PROVE CountInv'
    <2>1. Settle(w) /\ processed' = processed /\ failed' = failed + 1
      BY <1>6 DEF Fail
    <2>2. processed \in Nat /\ failed \in Nat BY <1>0 DEF TypeOK
    <2> QED BY <1>0, <2>1, <2>2, CountSettle
  <1>7. ASSUME NEW d \in Drainers, DrainCall(d) PROVE CountInv'
    BY <1>0, <1>7, CountDrain
  <1>8. CASE StopCall
    <2>1. DoneInv' BY <1>8 DEF StopCall, CountInv, DoneInv
    <2> QED BY <1>2, <1>8, <2>1 DEF StopCall
  <1>9. CASE StopConsumers
    <2>1. \A v \in Workers : (consumer'[v] = "busy" <=> consumer[v] = "busy")
                            /\ (consumer'[v] = "done" <=> consumer[v] = "done")
      BY <1>0, <1>9, WakeBusy DEF StopConsumers
    <2>2. DoneInv'
      <3>1. running' = FALSE /\ stopping' = "closing" /\ queues' = queues
        BY <1>9 DEF StopConsumers
      <3>2. \A v \in Workers : consumer'[v] = "done" => queues[v] = <<>>
        BY <2>1 DEF CountInv, DoneInv
      <3> QED BY <3>1, <3>2 DEF DoneInv
    <2>3. UNCHANGED <<arrival, queues, current, finished, processed, failed, mark, drain>>
      BY <1>9 DEF StopConsumers
    <2>4. \A v \in Workers : consumer'[v] = "busy" <=> consumer[v] = "busy" BY <2>1
    <2> QED BY <1>2, <2>2, <2>3, <2>4
  <1>10. CASE StopDone
    <2>1. DoneInv' BY <1>10 DEF StopDone, CountInv, DoneInv
    <2> QED BY <1>2, <1>10, <2>1 DEF StopDone
  <1>11. CASE UNCHANGED vars BY <1>2, <1>11 DEF vars, CountInv, DoneInv
  <1> QED BY <1>1, <1>3, <1>4, <1>5, <1>6, <1>7, <1>8, <1>9, <1>10, <1>11
          DEF Next, Terminated

LEMMA CountInit == Init => CountInv
  <1> SUFFICES ASSUME Init PROVE CountInv OBVIOUS
  <1>1. enqueued = 0 /\ finished = {} /\ Cardinality(finished) = 0
    BY FS_EmptySet DEF Init, enqueued
  <1>2. HeldInv /\ TallyInv /\ MarkInv /\ DoneInv /\ DrainSound
    BY <1>1 DEF Init, HeldInv, TallyInv, MarkInv, DoneInv, DrainSound
  <1> QED BY <1>2, OrderInit DEF CountInv

\* stop() returned, so every consumer left with an empty queue: by AccountInv
\* there is nowhere left for an unsettled item to be.
LEMMA StopImplied == CountInv => StopSound
  <1> SUFFICES ASSUME CountInv, stopping = "stopped" PROVE finished = 1 .. enqueued
    BY DEF StopSound
  <1>1. \A w \in Workers : consumer[w] = "done" /\ queues[w] = <<>>
    BY DEF CountInv, DoneInv
  <1>2. ASSUME NEW i \in 1 .. enqueued PROVE i \in finished
    <2> DEFINE w == partition(arrival[i])
    <2>1. w \in Workers BY ItemPartition DEF CountInv, OrderInv
    <2>2. consumer[w] # "busy" /\ Len(queues[w]) = 0 BY <1>1, <2>1
    <2> QED BY <2>2 DEF CountInv, OrderInv, AccountInv
  <1> QED BY <1>2 DEF CountInv, HeldInv

\* drain() never resolves over an unsettled item accepted before the call.
THEOREM DrainCorrect == Spec => []DrainSound
  <1>1. Spec => []CountInv BY CountInit, CountStep, PTL DEF Spec
  <1>2. CountInv => DrainSound BY DEF CountInv
  <1> QED BY <1>1, <1>2, PTL

\* stop() never returns over an accepted item that has not settled.
THEOREM StopCorrect == Spec => []StopSound
  <1>1. Spec => []CountInv BY CountInit, CountStep, PTL DEF Spec
  <1> QED BY <1>1, StopImplied, PTL

-----------------------------------------------------------------------------
(* Where an item is.                                                     *)

\* No queue is longer than what was accepted: the item at place n is no earlier than n.
DepthInv == \A w \in Workers : \A n \in 1 .. Len(queues[w]) : n <= queues[w][n]

\* A queue that keeps its places, or loses its first, keeps DepthInv.
LEMMA DepthLoop ==
    ASSUME TypeOK, TypeOK', DepthInv, NEW w \in Workers, RunLoop(w)
    PROVE  DepthInv'
  <1> SUFFICES ASSUME NEW v \in Workers, NEW n \in 1 .. Len(queues'[v])
               PROVE  n <= queues'[v][n]
    BY DEF DepthInv
  <1>1. CASE v # w BY <1>1, RunLoopEffect DEF DepthInv
  <1>2. CASE v = w /\ queues[w] = <<>> BY <1>2, RunLoopEffect DEF DepthInv
  <1>3. CASE v = w /\ queues[w] # <<>>
    <2>1. /\ queues[w] \in Seq(Nat) /\ Len(queues[w]) \in Nat
          /\ Len(queues'[w]) = Len(queues[w]) - 1
          /\ \A k \in 1 .. Len(queues[w]) - 1 : queues'[w][k] = queues[w][k + 1]
      BY <1>3, RunLoopEffect DEF TypeOK
    <2>2. n + 1 \in 1 .. Len(queues[w]) /\ queues'[w][n] = queues[w][n + 1] BY <1>3, <2>1
    <2>3. n + 1 <= queues[w][n + 1] /\ queues[w][n + 1] \in Nat BY <2>1, <2>2 DEF DepthInv
    <2> QED BY <1>3, <2>2, <2>3
  <1> QED BY <1>1, <1>2, <1>3

LEMMA DepthEnqueue ==
    ASSUME OrderInv, DepthInv, NEW p \in Producers, NEW k \in Keys, Enqueue(p, k)
    PROVE  DepthInv'
  <1> DEFINE u == partition(k)
  <1>1. /\ TypeOK /\ enqueued \in Nat /\ u \in Workers
        /\ \A v \in Workers : queues[v] \in Seq(Nat) /\ Len(queues[v]) \in Nat
    BY PartitionInRange DEF OrderInv, TypeOK, enqueued
  <1>2. /\ \A v \in Workers \ {u} : queues'[v] = queues[v]
        /\ queues'[u] = Append(queues[u], enqueued + 1)
    BY <1>1 DEF Enqueue, TypeOK
  <1> HIDE DEF u
  <1>3. Len(queues[u]) <= enqueued
    <2>1. CASE Len(queues[u]) = 0 BY <1>1, <2>1
    <2>2. CASE Len(queues[u]) # 0
      <3>1. Len(queues[u]) \in 1 .. Len(queues[u]) BY <1>1, <2>2
      <3>2. /\ Len(queues[u]) <= queues[u][Len(queues[u])]
            /\ queues[u][Len(queues[u])] \in 1 .. enqueued
        BY <1>1, <3>1 DEF DepthInv, OrderInv, QueueInv
      <3> QED BY <1>1, <3>2
    <2> QED BY <2>1, <2>2
  <1> SUFFICES ASSUME NEW v \in Workers, NEW n \in 1 .. Len(queues'[v])
               PROVE  n <= queues'[v][n]
    BY DEF DepthInv
  <1>4. CASE v # u BY <1>2, <1>4 DEF DepthInv
  <1>5. CASE v = u
    <2>1. /\ Len(queues'[u]) = Len(queues[u]) + 1
          /\ queues'[u][Len(queues[u]) + 1] = enqueued + 1
          /\ \A m \in 1 .. Len(queues[u]) : queues'[u][m] = queues[u][m]
      BY <1>1, <1>2
    <2>2. CASE n = Len(queues[u]) + 1 BY <1>1, <1>3, <1>5, <2>1, <2>2
    <2>3. CASE n \in 1 .. Len(queues[u]) BY <1>5, <2>1, <2>3 DEF DepthInv
    <2> QED BY <1>1, <1>5, <2>1, <2>2, <2>3
  <1> QED BY <1>4, <1>5

PlaceInv == CountInv /\ DepthInv

LEMMA PlaceStep == PlaceInv /\ [Next]_vars => PlaceInv'
  <1> SUFFICES ASSUME PlaceInv, [Next]_vars PROVE DepthInv'
    BY CountStep DEF PlaceInv
  <1>0. OrderInv /\ TypeOK /\ TypeOK' /\ DepthInv
    BY TypeStep DEF PlaceInv, CountInv, OrderInv
  <1>1. ASSUME NEW p \in Producers, NEW k \in Keys, Enqueue(p, k) PROVE DepthInv'
    BY <1>0, <1>1, DepthEnqueue
  <1>2. ASSUME NEW w \in Workers, Resume(w) \/ Succeed(w) \/ Fail(w) PROVE DepthInv'
    BY <1>0, <1>2, DepthLoop DEF Resume, Succeed, Fail, Settle
  <1>3. ASSUME UNCHANGED queues PROVE DepthInv' BY <1>0, <1>3 DEF DepthInv
  <1>4. ASSUME NEW p \in Producers, Reject(p) PROVE DepthInv' BY <1>3, <1>4 DEF Reject
  <1>5. ASSUME NEW d \in Drainers, DrainCall(d) PROVE DepthInv' BY <1>3, <1>5 DEF DrainCall
  <1>6. CASE StopCall \/ StopConsumers \/ StopDone
    BY <1>3, <1>6 DEF StopCall, StopConsumers, StopDone
  <1>7. CASE UNCHANGED vars BY <1>3, <1>7 DEF vars
  <1> QED BY <1>1, <1>2, <1>4, <1>5, <1>6, <1>7 DEF Next, Terminated

LEMMA PlaceInit == Init => PlaceInv
  <1> SUFFICES ASSUME Init PROVE DepthInv BY CountInit DEF PlaceInv
  <1>1. \A w \in Workers : Len(queues[w]) = 0 BY DEF Init
  <1> QED BY <1>1 DEF DepthInv

\* The only consumer that may hold an item is the one of its partition.
LEMMA HolderIsPartition ==
    ASSUME OrderInv, NEW w \in Workers, NEW i \in 1 .. enqueued,
           \/ consumer[w] = "busy" /\ current[w] = i
           \/ \E n \in 1 .. Len(queues[w]) : queues[w][n] = i
    PROVE  w = partition(arrival[i])
  BY DEF OrderInv, QueueInv, CurrentInv

\* Every accepted item is in exactly one place, by the order of the places: what is in
\* process left the queue before what is still in it.
LEMMA PlaceImplied == PlaceInv => NoItemLost
  <1> SUFFICES ASSUME PlaceInv, NEW i \in 1 .. enqueued
               PROVE  LET holders == {w \in Busy : current[w] = i}
                          slots   == {s \in Workers \X (1 .. enqueued) :
                                          s[2] <= Len(queues[s[1]]) /\ queues[s[1]][s[2]] = i}
                      IN Cardinality(holders) + Cardinality(slots)
                           = IF i \in finished THEN 0 ELSE 1
    BY DEF NoItemLost
  <1> DEFINE holders == {w \in Busy : current[w] = i}
             slots   == {s \in Workers \X (1 .. enqueued) :
                             s[2] <= Len(queues[s[1]]) /\ queues[s[1]][s[2]] = i}
             u       == partition(arrival[i])
  <1>1. OrderInv /\ TypeOK /\ HeldInv /\ DepthInv /\ u \in Workers /\ i \in Nat /\ enqueued \in Nat
    <2>1. OrderInv /\ TypeOK /\ HeldInv /\ DepthInv BY DEF PlaceInv, CountInv, OrderInv
    <2>2. enqueued \in Nat BY <2>1 DEF TypeOK, enqueued
    <2> QED BY <2>1, <2>2, ItemPartition
  <1>2. \A w \in Workers : queues[w] \in Seq(Nat) /\ Len(queues[w]) \in Nat BY <1>1 DEF TypeOK
  <1>3. holders \subseteq {u}
    BY <1>1, HolderIsPartition DEF Busy
  <1>4. ASSUME NEW s \in slots
        PROVE  /\ s = <<u, s[2]>> /\ s[2] \in 1 .. Len(queues[u]) /\ queues[u][s[2]] = i
    <2>1. /\ s = <<s[1], s[2]>> /\ s[1] \in Workers /\ s[2] \in 1 .. enqueued
          /\ s[2] <= Len(queues[s[1]]) /\ queues[s[1]][s[2]] = i
      OBVIOUS
    <2>2. s[2] \in 1 .. Len(queues[s[1]]) BY <1>2, <2>1
    <2>3. s[1] = u BY <1>1, <2>1, <2>2, HolderIsPartition
    <2> QED BY <2>1, <2>2, <2>3
  <1>5. ASSUME NEW s \in slots PROVE slots = {s}
    <2> SUFFICES ASSUME NEW t \in slots PROVE t = s OBVIOUS
    <2>1. s[2] \in 1 .. Len(queues[u]) /\ t[2] \in 1 .. Len(queues[u])
          /\ queues[u][s[2]] = i /\ queues[u][t[2]] = i
      BY <1>4
    <2>2. ~(s[2] < t[2]) /\ ~(t[2] < s[2])
      <3>1. ASSUME NEW a \in 1 .. Len(queues[u]), NEW b \in 1 .. Len(queues[u]), a < b
            PROVE  queues[u][a] < queues[u][b]
        <4>1. a \in 1 .. b - 1 BY <1>2, <3>1
        <4> QED BY <1>1, <4>1 DEF OrderInv, QueueInv
      <3> QED BY <1>1, <2>1, <3>1
    <2>3. s[2] = t[2] BY <1>1, <1>2, <2>1, <2>2
    <2> QED BY <1>4, <2>3
  <1>6. ASSUME NEW s \in slots, u \in holders PROVE FALSE
    <2>1. consumer[u] = "busy" /\ current[u] = i BY <1>6 DEF Busy
    <2>2. \A n \in 1 .. Len(queues[u]) : i < queues[u][n]
      BY <1>1, <2>1 DEF OrderInv, CurrentInv
    <2> QED BY <1>1, <1>4, <2>2
  <1>7. CASE i \in finished
    <2>1. holders = {}
      BY <1>1, <1>7 DEF HeldInv, Busy
    <2>2. slots = {}
      <3> SUFFICES ASSUME NEW s \in slots PROVE FALSE OBVIOUS
      <3>1. s[2] \in 1 .. Len(queues[u]) /\ queues[u][s[2]] = i BY <1>4
      <3> QED BY <1>1, <1>7, <3>1 DEF HeldInv
    <2>3. Cardinality(holders) = 0 /\ Cardinality(slots) = 0 BY <2>1, <2>2, FS_EmptySet
    <2> QED BY <1>7, <2>3
  <1>8. CASE i \notin finished
    <2>1. CASE consumer[u] = "busy" /\ current[u] = i
      <3>1. u \in holders BY <1>1, <2>1 DEF Busy
      <3>2. holders = {u} /\ slots = {} BY <1>3, <1>6, <3>1
      <3>3. Cardinality(holders) = 1 /\ Cardinality(slots) = 0
        BY <3>2, FS_EmptySet, FS_Singleton
      <3> QED BY <1>8, <3>3
    <2>2. ASSUME NEW n \in 1 .. Len(queues[u]), queues[u][n] = i
          PROVE  Cardinality(holders) + Cardinality(slots) = 1
      <3>1. n <= i BY <1>1, <2>2 DEF DepthInv
      <3>2. n \in 1 .. enqueued BY <1>1, <1>2, <3>1
      <3>3. <<u, n>> \in slots BY <1>1, <1>2, <2>2, <3>2
      <3>4. slots = {<<u, n>>} BY <1>5, <3>3
      <3>5. holders = {} BY <1>3, <1>6, <3>3
      <3>6. Cardinality(holders) = 0 /\ Cardinality(slots) = 1
        BY <3>4, <3>5, FS_EmptySet, FS_Singleton
      <3> QED BY <3>6
    <2> QED BY <1>1, <1>8, <2>1, <2>2 DEF OrderInv, AccountInv
  <1> QED BY <1>7, <1>8

\* An accepted item is settled, or in one consumer's hands, or in one place of one queue,
\* whatever callers, consumers and stop() do.
THEOREM NothingLost == Spec => []NoItemLost
  <1>1. Spec => []PlaceInv BY PlaceInit, PlaceStep, PTL DEF Spec
  <1> QED BY <1>1, PlaceImplied, PTL

-----------------------------------------------------------------------------
(* Backpressure.                                                         *)

\* Parking one more caller pays for the item it just handed in.
LEMMA ParkOne ==
    ASSUME TypeOK, NEW p \in Producers, producer[p] = "ready",
           producer' = [producer EXCEPT ![p] = "parked"]
    PROVE  Cardinality(Parked') = Cardinality(Parked) + 1
  <1>1. IsFiniteSet(Parked) BY PoolAssumption, FS_Subset DEF Parked
  <1>2. p \notin Parked BY DEF Parked
  <1>3. Parked' = Parked \cup {p} BY DEF Parked, TypeOK
  <1> QED BY <1>1, <1>2, <1>3, FS_AddElement

LEMMA ParkedFinite == IsFiniteSet(Parked) /\ Cardinality(Parked) \in Nat
  <1>1. Parked \in SUBSET Producers BY DEF Parked
  <1> QED BY <1>1, PoolAssumption, FS_Subset, FS_CardinalityType

\* A settled item frees either nobody or every parked caller at once.
LEMMA BackpressureSettle ==
    ASSUME TypeOK, Backpressure, NEW w \in Workers, Settle(w),
           outstanding' = outstanding - 1
    PROVE  Backpressure'
  <1> DEFINE n == outstanding - 1
  <1>1. /\ enqueued \in Nat /\ processed \in Nat /\ failed \in Nat
        /\ MaxQueueSize \in Nat \ {0}
    BY PoolAssumption DEF TypeOK, enqueued
  <1>2. outstanding \in Int /\ outstanding' = n
    BY <1>1 DEF outstanding
  <1> HIDE DEF n
  <1>3. n = outstanding - 1 BY DEF n
  <1>4. producer' = [p \in Producers |->
            IF producer[p] = "parked" /\ n < MaxQueueSize THEN "ready" ELSE producer[p]]
    BY DEF Settle, releaseBackpressure, n
  <1>5. CASE n < MaxQueueSize
    <2>1. Parked' = {} BY <1>4, <1>5 DEF Parked
    <2> QED BY <1>1, <1>2, <1>3, <1>5, <2>1, FS_EmptySet DEF Backpressure
  <1>6. CASE ~(n < MaxQueueSize)
    <2>1. Parked' = Parked BY <1>4, <1>6 DEF Parked, TypeOK
    <2>2. Cardinality(Parked) \in Nat BY ParkedFinite
    <2>3. outstanding <= MaxQueueSize - 1 + Cardinality(Parked) BY DEF Backpressure
    <2> QED BY <1>1, <1>2, <1>3, <1>6, <2>1, <2>2, <2>3 DEF Backpressure
  <1> QED BY <1>5, <1>6

LEMMA BackpressureStep == TypeOK /\ Backpressure /\ [Next]_vars => Backpressure'
  <1> SUFFICES ASSUME TypeOK, Backpressure, [Next]_vars PROVE Backpressure' OBVIOUS
  <1>0. /\ enqueued \in Nat /\ processed \in Nat /\ failed \in Nat
        /\ MaxQueueSize \in Nat \ {0} /\ Cardinality(Parked) \in Nat
    BY PoolAssumption, ParkedFinite DEF TypeOK, enqueued
  <1>1. ASSUME NEW p \in Producers, NEW k \in Keys, Enqueue(p, k) PROVE Backpressure'
    <2>1. enqueued' = enqueued + 1 BY <1>1 DEF Enqueue, TypeOK, enqueued
    <2>2. outstanding \in Int /\ outstanding' = outstanding + 1
      BY <1>0, <1>1, <2>1 DEF outstanding, Enqueue
    <2>3. CASE outstanding + 1 >= MaxQueueSize
      <3>1. producer' = [producer EXCEPT ![p] = "parked"] /\ producer[p] = "ready"
        BY <1>1, <2>3 DEF Enqueue
      <3>2. Cardinality(Parked') = Cardinality(Parked) + 1 BY <3>1, ParkOne
      <3> QED BY <1>0, <2>2, <2>3, <3>2 DEF Backpressure
    <2>4. CASE ~(outstanding + 1 >= MaxQueueSize)
      <3>1. producer' = producer BY <1>1, <2>4 DEF Enqueue, TypeOK
      <3>2. Parked' = Parked BY <3>1 DEF Parked
      <3>3. Parked = {} BY <1>0, <2>2, <2>4 DEF Backpressure
      <3> QED BY <1>0, <2>2, <2>4, <3>2, <3>3, FS_EmptySet DEF Backpressure
    <2> QED BY <2>3, <2>4
  <1>2. ASSUME NEW p \in Producers, Reject(p) PROVE Backpressure'
    <2>1. Parked' = Parked BY <1>2 DEF Reject, Parked, TypeOK
    <2>2. outstanding' = outstanding BY <1>2 DEF Reject, outstanding, enqueued
    <2> QED BY <2>1, <2>2 DEF Backpressure
  <1>3. ASSUME NEW w \in Workers, Succeed(w) PROVE Backpressure'
    <2>1. Settle(w) /\ processed' = processed + 1 /\ failed' = failed
      BY <1>3 DEF Succeed
    <2>2. outstanding' = outstanding - 1
      BY <1>0, <2>1 DEF Settle, outstanding, enqueued
    <2> QED BY <2>1, <2>2, BackpressureSettle
  <1>4. ASSUME NEW w \in Workers, Fail(w) PROVE Backpressure'
    <2>1. Settle(w) /\ processed' = processed /\ failed' = failed + 1
      BY <1>4 DEF Fail
    <2>2. outstanding' = outstanding - 1
      BY <1>0, <2>1 DEF Settle, outstanding, enqueued
    <2> QED BY <2>1, <2>2, BackpressureSettle
  <1>5. ASSUME UNCHANGED <<arrival, processed, failed, producer>> PROVE Backpressure'
    BY <1>5 DEF Backpressure, Parked, outstanding, enqueued
  <1>6. ASSUME NEW w \in Workers, Resume(w) PROVE Backpressure'
    BY <1>5, <1>6 DEF Resume
  <1>7. ASSUME NEW d \in Drainers, DrainCall(d) PROVE Backpressure'
    BY <1>5, <1>7 DEF DrainCall
  <1>8. CASE StopCall BY <1>5, <1>8 DEF StopCall
  <1>9. CASE StopConsumers BY <1>5, <1>9 DEF StopConsumers
  <1>10. CASE StopDone BY <1>5, <1>10 DEF StopDone
  <1>11. CASE UNCHANGED vars BY <1>5, <1>11 DEF vars
  <1> QED BY <1>1, <1>2, <1>3, <1>4, <1>6, <1>7, <1>8, <1>9, <1>10, <1>11
          DEF Next, Terminated

LEMMA BackpressureInit == Init => Backpressure
  <1> SUFFICES ASSUME Init PROVE Backpressure OBVIOUS
  <1>1. Parked = {} /\ outstanding = 0 BY DEF Init, Parked, outstanding, enqueued
  <1> QED BY <1>1, PoolAssumption, FS_EmptySet DEF Backpressure

\* The pool never holds more than MaxQueueSize - 1 items plus one per parked
\* caller, and nobody is parked below the threshold.
THEOREM BackpressureCorrect == Spec => []Backpressure
  BY TypeInit, TypeStep, BackpressureInit, BackpressureStep, PTL DEF Spec

\* enqueue(), drain() and stop() keep their promises, for any number of consumers,
\* producers and callers of drain().
THEOREM PromisesCorrect == Spec => []PromisesKept
  <1>1. TypeOK /\ Backpressure /\ DrainSound /\ StopSound => PromisesKept BY DEF PromisesKept
  <1> QED BY <1>1, TypeCorrect, BackpressureCorrect, DrainCorrect, StopCorrect, PTL

-----------------------------------------------------------------------------
(* The channel: what waits for a contract and what is in process of it, read *)
(* out of the queue and the consumer of its partition, move as KeyedChannel  *)
(* says.                                                                     *)

\* What waits for a contract is in the queue of its partition, and in process only at the
\* consumer of its partition.
LEMMA KeyFacts ==
    ASSUME OrderInv, NEW k \in Keys, NEW u \in Workers, partition(k) = u
    PROVE  /\ \A i : i \in KeyPending(k) <=> arrival[i] = k /\ \E n \in 1 .. Len(queues[u]) : queues[u][n] = i
           /\ \A i : i \in KeyActive(k) <=> consumer[u] = "busy" /\ arrival[current[u]] = k /\ current[u] = i
           /\ KeyPending(k) \subseteq 1 .. enqueued /\ KeyActive(k) \subseteq 1 .. enqueued
  <1>1. TypeOK /\ QueueInv /\ CurrentInv BY DEF OrderInv
  <1>2. queues[u] \in Seq(Nat) /\ DOMAIN queues[u] = 1 .. Len(queues[u]) BY <1>1 DEF TypeOK
  <1>3. \A i : i \in KeyPending(k) <=> arrival[i] = k /\ \E n \in 1 .. Len(queues[u]) : queues[u][n] = i
    BY <1>2 DEF KeyPending
  <1>4. \A n \in 1 .. Len(queues[u]) : queues[u][n] \in 1 .. enqueued BY <1>1 DEF QueueInv
  <1>5. \A w \in Busy : /\ w \in Workers /\ consumer[w] = "busy" /\ current[w] \in 1 .. enqueued
                        /\ partition(arrival[current[w]]) = w
    BY <1>1 DEF Busy, CurrentInv
  <1>6. \A i : i \in KeyActive(k) <=> \E w \in Busy : arrival[current[w]] = k /\ current[w] = i
    BY DEF KeyActive
  <1>7. \A i : i \in KeyActive(k) <=> consumer[u] = "busy" /\ arrival[current[u]] = k /\ current[u] = i
    <2>1. ASSUME NEW i, NEW w \in Busy, arrival[current[w]] = k, current[w] = i PROVE w = u
      BY <1>5, <2>1
    <2>2. consumer[u] = "busy" => u \in Busy BY DEF Busy
    <2> QED BY <1>5, <1>6, <2>1, <2>2
  <1> QED BY <1>3, <1>4, <1>5, <1>6, <1>7

\* The facts as a state predicate, so that they can be had of the state after a step.
KeyView ==
    \A k \in Keys, u \in Workers : partition(k) = u =>
        /\ \A i : i \in KeyPending(k) <=> arrival[i] = k /\ \E n \in 1 .. Len(queues[u]) : queues[u][n] = i
        /\ \A i : i \in KeyActive(k) <=> consumer[u] = "busy" /\ arrival[current[u]] = k /\ current[u] = i

\* It holds of every state of the ordering invariant.
LEMMA KeyViewHolds == OrderInv => KeyView
  BY KeyFacts DEF KeyView

\* What waits for a contract and what is in process of it, after a step.
LEMMA NextKeyFacts ==
    ASSUME OrderInv', NEW k \in Keys, NEW u \in Workers, partition(k) = u
    PROVE  /\ \A i : i \in KeyPending(k)' <=>
                arrival'[i] = k /\ \E n \in 1 .. Len(queues'[u]) : queues'[u][n] = i
           /\ \A i : i \in KeyActive(k)' <=>
                consumer'[u] = "busy" /\ arrival'[current'[u]] = k /\ current'[u] = i
  <1>1. OrderInv' => KeyView' BY KeyViewHolds, PTL
  <1>2. partition(k)' = partition(k) BY DEF partition
  <1>3. KeyView' BY <1>1
  <1> QED BY <1>2, <1>3 DEF KeyView

\* A step that leaves what waits and what is in process alone.
LEMMA ChannelSame ==
    ASSUME UNCHANGED <<arrival, queues, finished>>, Busy' = Busy, \A w \in Busy : current'[w] = current[w]
    PROVE  UNCHANGED Channel!vars
  <1>1. \A k \in Keys : KeyPending(k)' = KeyPending(k) BY DEF KeyPending, partition
  <1>2. \A k \in Keys : KeyActive(k)' = KeyActive(k) BY DEF KeyActive
  <1> QED BY <1>1, <1>2 DEF Channel!vars

\* The head of a queue is the oldest item that waits for its contract.
LEMMA HeadIsOldest ==
    ASSUME OrderInv, NEW u \in Workers, queues[u] # <<>>,
           NEW k \in Keys, k = arrival[queues[u][1]]
    PROVE  /\ queues[u][1] \in KeyPending(k) /\ partition(k) = u
           /\ Channel!Oldest(KeyPending(k)) = queues[u][1]
  <1>1. TypeOK /\ QueueInv BY DEF OrderInv
  <1>2. queues[u] \in Seq(Nat) /\ Len(queues[u]) \in Nat \ {0} BY <1>1 DEF TypeOK
  <1>3. /\ \A n \in 1 .. Len(queues[u]) : queues[u][n] \in Nat /\ (n > 1 => queues[u][1] < queues[u][n])
        /\ partition(k) = u
    BY <1>1, <1>2 DEF QueueInv, enqueued
  <1>4. PICK h : h = queues[u][1] OBVIOUS
  <1>5. h \in KeyPending(k) BY <1>2, <1>3, <1>4, KeyFacts
  <1>6. \A i \in KeyPending(k) : i \in Nat /\ h <= i
    <2>1. ASSUME NEW i \in KeyPending(k) PROVE i \in Nat /\ h <= i
      <3>1. PICK n \in 1 .. Len(queues[u]) : queues[u][n] = i BY <1>3, KeyFacts
      <3> QED BY <1>2, <1>3, <1>4, <3>1
    <2> QED BY <2>1
  <1>7. PICK o : o = Channel!Oldest(KeyPending(k)) OBVIOUS
  <1>8. o \in KeyPending(k) /\ \A i \in KeyPending(k) : o <= i BY <1>5, <1>6, <1>7 DEF Channel!Oldest
  <1>9. o = h BY <1>5, <1>6, <1>8
  <1> QED BY <1>3, <1>4, <1>5, <1>7, <1>9

\* One move of the channel, key by key.
LEMMA ChannelMove ==
    ASSUME NEW F \in SUBSET Keys, NEW S \in SUBSET Keys, F \cup S # {},
           F = {} \/ \E k \in Keys : F = {k}, S = {} \/ \E k \in Keys : S = {k},
           \A k \in F : KeyActive(k) # {},
           \A k \in S : KeyPending(k) # {} /\ (KeyActive(k) = {} \/ k \in F),
           finished' = finished \cup UNION {KeyActive(k) : k \in F},
           \A k \in Keys : KeyActive(k)' = IF k \in S THEN {Channel!Oldest(KeyPending(k))}
                                           ELSE IF k \in F THEN {} ELSE KeyActive(k),
           \A k \in Keys : KeyPending(k)' = IF k \in S THEN KeyPending(k) \ {Channel!Oldest(KeyPending(k))}
                                            ELSE KeyPending(k)
    PROVE  Channel!Next
  <1> DEFINE P == [k \in Keys |-> KeyPending(k)]
             A == [k \in Keys |-> KeyActive(k)]
  <1>1. \A k \in Keys : P[k] = KeyPending(k) /\ A[k] = KeyActive(k) OBVIOUS
  <1>2. P' = [k \in Keys |-> IF k \in S THEN P[k] \ {Channel!Oldest(P[k])} ELSE P[k]] OBVIOUS
  <1>3. A' = [k \in Keys |-> IF k \in S THEN {Channel!Oldest(P[k])} ELSE IF k \in F THEN {} ELSE A[k]] OBVIOUS
  <1>4. finished' = finished \cup UNION {A[k] : k \in F}
    <2>1. \A k \in F : A[k] = KeyActive(k) OBVIOUS
    <2> HIDE DEF A
    <2>2. {A[k] : k \in F} = {KeyActive(k) : k \in F} BY <2>1
    <2> QED BY <2>2
  <1>5. /\ \A k \in F : A[k] # {}
        /\ \A k \in S : P[k] # {} /\ (A[k] = {} \/ k \in F)
    OBVIOUS
  <1>6. Channel!Move(F, S) BY <1>2, <1>3, <1>4, <1>5 DEF Channel!Move
  <1>7. F \in Channel!AtMostOne /\ S \in Channel!AtMostOne BY DEF Channel!AtMostOne
  <1>8. PICK k \in Keys : k \in F \cup S OBVIOUS
  <1> QED BY <1>6, <1>7, <1>8 DEF Channel!Next, Channel!Serve

\* A turn of the consumer loop, after what it had in process has ended or after it was
\* woken, is a move of the channel, or none when there was nothing to do.
LEMMA ChannelTurn ==
    ASSUME CountInv, CountInv', NEW w \in Workers, RunLoop(w), UNCHANGED arrival,
           \/ consumer[w] = "busy" /\ finished' = finished \cup {current[w]}
           \/ consumer[w] # "busy" /\ finished' = finished
    PROVE  Channel!Next \/ UNCHANGED Channel!vars
  <1>1. OrderInv /\ OrderInv' /\ TypeOK /\ QueueInv /\ CurrentInv BY DEF CountInv, OrderInv
  <1>2. /\ \A v \in Workers \ {w} : queues'[v] = queues[v] /\ current'[v] = current[v] /\ consumer'[v] = consumer[v]
        /\ \/ /\ queues[w] # <<>> /\ consumer'[w] = "busy"
              /\ Len(queues[w]) \in Nat \ {0} /\ current'[w] = queues[w][1]
              /\ Len(queues'[w]) = Len(queues[w]) - 1
              /\ \A n \in 1 .. Len(queues[w]) - 1 : queues'[w][n] = queues[w][n + 1]
           \/ queues[w] = <<>> /\ queues'[w] = queues[w] /\ consumer'[w] \in {"idle", "done"}
    BY <1>1, RunLoopEffect
  <1> DEFINE F == IF consumer[w] = "busy" THEN {arrival[current[w]]} ELSE {}
             S == IF queues[w] # <<>> THEN {arrival[queues[w][1]]} ELSE {}
             h == queues[w][1]
  \* Both are contracts of this consumer.
  <1>4. /\ F \in SUBSET Keys /\ \A k \in F : partition(k) = w
        /\ S \in SUBSET Keys /\ \A k \in S : partition(k) = w
        /\ F = {} \/ \E k \in Keys : F = {k}
        /\ S = {} \/ \E k \in Keys : S = {k}
    <2>1. arrival \in Seq(Keys) /\ enqueued = Len(arrival) BY <1>1 DEF TypeOK, enqueued
    <2>2. consumer[w] = "busy" => arrival[current[w]] \in Keys /\ partition(arrival[current[w]]) = w
      BY <1>1, <2>1 DEF CurrentInv
    <2>3. queues[w] # <<>> => 1 \in 1 .. Len(queues[w]) BY <1>2
    <2>4. queues[w] # <<>> => arrival[queues[w][1]] \in Keys /\ partition(arrival[queues[w][1]]) = w
      BY <1>1, <2>1, <2>3 DEF QueueInv
    <2> QED BY <2>2, <2>4
  <1>5. \A k \in F : KeyActive(k) = {current[w]}
    BY <1>1, <1>4, KeyFacts
  <1>6. \A k \in Keys : k \notin F /\ partition(k) = w => KeyActive(k) = {}
    BY <1>1, KeyFacts
  <1>7. \A k \in S : h \in KeyPending(k) /\ Channel!Oldest(KeyPending(k)) = h
    BY <1>1, <1>4, HeadIsOldest
  <1>8. finished' = finished \cup UNION {KeyActive(k) : k \in F}
    <2>1. CASE consumer[w] = "busy"
      <3>1. PICK k \in Keys : F = {k} BY <1>4, <2>1
      <3>2. UNION {KeyActive(j) : j \in F} = {current[w]} BY <1>5, <3>1
      <3> QED BY <2>1, <3>2
    <2>2. CASE consumer[w] # "busy" BY <2>2
    <2> QED BY <2>1, <2>2
  <1>9. ASSUME NEW k \in Keys
        PROVE  /\ KeyActive(k)' = IF k \in S THEN {h} ELSE IF k \in F THEN {} ELSE KeyActive(k)
               /\ KeyPending(k)' = IF k \in S THEN KeyPending(k) \ {h} ELSE KeyPending(k)
    <2>1. PICK u \in Workers : u = partition(k) BY PartitionInRange
    <2>2. /\ \A i : i \in KeyPending(k) <=> arrival[i] = k /\ \E n \in 1 .. Len(queues[u]) : queues[u][n] = i
          /\ \A i : i \in KeyActive(k) <=> consumer[u] = "busy" /\ arrival[current[u]] = k /\ current[u] = i
      BY <1>1, <2>1, KeyFacts
    <2>4. /\ \A i : i \in KeyPending(k)' <=> arrival[i] = k /\ \E n \in 1 .. Len(queues'[u]) : queues'[u][n] = i
          /\ \A i : i \in KeyActive(k)' <=> consumer'[u] = "busy" /\ arrival[current'[u]] = k /\ current'[u] = i
      BY <1>1, <2>1, NextKeyFacts
    <2>5. CASE u # w
      <3>1. k \notin S /\ k \notin F BY <1>4, <2>1, <2>5
      <3>2. queues'[u] = queues[u] /\ consumer'[u] = consumer[u] /\ current'[u] = current[u] BY <1>2, <2>5
      <3>3. KeyPending(k)' = KeyPending(k)
        <4>1. \A i : i \in KeyPending(k)' <=> i \in KeyPending(k) BY <2>2, <2>4, <3>2
        <4> QED BY <4>1
      <3>4. KeyActive(k)' = KeyActive(k) BY <2>2, <2>4, <3>2
      <3> QED BY <3>1, <3>3, <3>4
    <2>6. CASE u = w /\ queues[w] = <<>>
      <3>1. S = {} /\ queues'[w] = queues[w] /\ consumer'[w] # "busy" BY <1>2, <2>6
      <3>2. KeyPending(k)' = KeyPending(k)
        <4>1. \A i : i \in KeyPending(k)' <=> i \in KeyPending(k) BY <2>2, <2>4, <2>6, <3>1
        <4> QED BY <4>1
      <3>3. KeyActive(k)' = {} BY <2>4, <2>6, <3>1
      <3>4. k \notin F => KeyActive(k) = {} BY <1>6, <2>1, <2>6
      <3> QED BY <3>1, <3>2, <3>3, <3>4
    <2>7. CASE u = w /\ queues[w] # <<>>
      <3>1. /\ consumer'[w] = "busy" /\ current'[w] = h
            /\ Len(queues[w]) \in Nat \ {0} /\ Len(queues'[w]) = Len(queues[w]) - 1
            /\ \A n \in 1 .. Len(queues[w]) - 1 : queues'[w][n] = queues[w][n + 1]
        BY <1>2, <2>7
      <3>2. k \in S <=> arrival[h] = k BY <2>7
      <3>3. KeyActive(k)' = IF k \in S THEN {h} ELSE {} BY <2>4, <2>7, <3>1, <3>2
      <3>4. k \notin F => KeyActive(k) = {} BY <1>6, <2>1, <2>7
      <3>5. \A n \in 1 .. Len(queues[w]) : queues[w][n] \in Nat /\ (n > 1 => h < queues[w][n])
        BY <1>1, <3>1 DEF QueueInv, enqueued
      <3>6. \A i : (\E n \in 1 .. Len(queues'[w]) : queues'[w][n] = i)
                    <=> i # h /\ \E n \in 1 .. Len(queues[w]) : queues[w][n] = i
        <4>1. ASSUME NEW i, NEW n \in 1 .. Len(queues'[w]), queues'[w][n] = i
              PROVE  i # h /\ \E m \in 1 .. Len(queues[w]) : queues[w][m] = i
          <5>1. PICK m \in 1 .. Len(queues[w]) : m = n + 1 /\ m > 1 BY <3>1
          <5>2. queues[w][m] = i BY <3>1, <4>1, <5>1
          <5> QED BY <3>5, <5>1, <5>2
        <4>2. ASSUME NEW i, i # h, NEW n \in 1 .. Len(queues[w]), queues[w][n] = i
              PROVE  \E m \in 1 .. Len(queues'[w]) : queues'[w][m] = i
          <5>1. n # 1 BY <4>2 DEF h
          <5>2. n \in 1 .. Len(queues[w]) BY <4>2
          <5>3. Len(queues[w]) \in Nat \ {0} BY <3>1
          <5>4. PICK m : m = n - 1 OBVIOUS
          <5>5. m \in 1 .. Len(queues[w]) - 1 /\ m + 1 = n BY ONLY <5>1, <5>2, <5>3, <5>4
          <5>6. queues'[w][m] = queues[w][m + 1] BY <3>1, <5>5
          <5>7. m \in 1 .. Len(queues'[w]) BY <3>1, <5>5
          <5>8. queues'[w][m] = i BY <4>2, <5>5, <5>6
          <5> QED BY <5>7, <5>8
        <4> QED BY <4>1, <4>2
      <3>7. KeyPending(k)' = IF k \in S THEN KeyPending(k) \ {h} ELSE KeyPending(k)
        <4>1. \A i : i \in KeyPending(k)' <=> i \in KeyPending(k) /\ i # h BY <2>2, <2>4, <2>7, <3>6
        <4>2. k \notin S => h \notin KeyPending(k) BY <2>2, <3>2
        <4> QED BY <4>1, <4>2
      <3> QED BY <3>3, <3>4, <3>7
    <2> QED BY <2>5, <2>6, <2>7
  <1> HIDE DEF F, S, h
  <1>10. CASE F \cup S = {}
    <2>1. \A k \in Keys : KeyActive(k)' = KeyActive(k) /\ KeyPending(k)' = KeyPending(k) BY <1>9, <1>10
    <2>2. finished' = finished BY <1>8, <1>10
    <2> QED BY <2>1, <2>2 DEF Channel!vars
  <1>11. CASE F \cup S # {}
    <2>1. \A k \in F : KeyActive(k) # {} BY <1>5
    <2>2. \A k \in S : KeyPending(k) # {} /\ (KeyActive(k) = {} \/ k \in F) BY <1>4, <1>6, <1>7
    <2>3. \A k \in Keys : KeyActive(k)' = IF k \in S THEN {Channel!Oldest(KeyPending(k))}
                                          ELSE IF k \in F THEN {} ELSE KeyActive(k)
      BY <1>7, <1>9
    <2>4. \A k \in Keys : KeyPending(k)' = IF k \in S THEN KeyPending(k) \ {Channel!Oldest(KeyPending(k))}
                                           ELSE KeyPending(k)
      BY <1>7, <1>9
    <2> QED BY <1>4, <1>8, <1>11, <2>1, <2>2, <2>3, <2>4, ChannelMove
  <1> QED BY <1>10, <1>11

\* Accepting an item is accepting it into the channel, as the newest.
LEMMA ChannelAccept ==
    ASSUME CountInv, CountInv', NEW p \in Producers, NEW k \in Keys, Enqueue(p, k)
    PROVE  Channel!Next
  <1>1. OrderInv /\ OrderInv' /\ TypeOK BY DEF CountInv, OrderInv
  <1> DEFINE i == enqueued + 1
  <1>2. /\ enqueued \in Nat /\ enqueued < MaxItems /\ arrival' = Append(arrival, k)
        /\ queues' = [queues EXCEPT ![partition(k)] = Append(@, i)]
        /\ Wake({partition(k)}) /\ UNCHANGED <<current, finished>>
    BY <1>1 DEF Enqueue, TypeOK, enqueued
  <1>3. i \in 1 .. MaxItems BY <1>2, PoolAssumption
  <1>4. /\ arrival'[i] = k /\ \A j \in 1 .. enqueued : arrival'[j] = arrival[j]
        /\ arrival \in Seq(Keys)
    <2>1. arrival \in Seq(Keys) /\ Len(arrival) = enqueued BY <1>1 DEF TypeOK, enqueued
    <2> QED BY <1>2, <2>1, AppendProperties
  <1>5. Busy' = Busy BY <1>1, <1>2, WakeBusy DEF Busy
  <1>6. ASSUME NEW l \in Keys
        PROVE  /\ KeyActive(l)' = KeyActive(l)
               /\ KeyPending(l)' = IF l = k THEN KeyPending(l) \cup {i} ELSE KeyPending(l)
    <2>1. PICK u \in Workers : u = partition(l) BY PartitionInRange
    <2>2. /\ \A j : j \in KeyPending(l) <=> arrival[j] = l /\ \E n \in 1 .. Len(queues[u]) : queues[u][n] = j
          /\ KeyPending(l) \subseteq 1 .. enqueued
      BY <1>1, <2>1, KeyFacts
    <2>4. \A j : j \in KeyPending(l)' <=> arrival'[j] = l /\ \E n \in 1 .. Len(queues'[u]) : queues'[u][n] = j
      BY <1>1, <2>1, NextKeyFacts
    <2>5. \A n \in 1 .. Len(queues[u]) : queues[u][n] \in 1 .. enqueued BY <1>1 DEF OrderInv, QueueInv
    <2>6. KeyActive(l)' = KeyActive(l)
      <3>1. \A v \in Busy : current[v] \in 1 .. enqueued BY <1>1 DEF OrderInv, CurrentInv, Busy
      <3> QED BY <1>2, <1>4, <1>5, <3>1 DEF KeyActive
    <2>7. CASE u # partition(k)
      <3>1. queues'[u] = queues[u] /\ l # k BY <1>1, <1>2, <2>1, <2>7 DEF TypeOK
      <3>2. \A j : j \in KeyPending(l)' <=> j \in KeyPending(l) BY <1>4, <2>2, <2>4, <2>5, <3>1
      <3> QED BY <2>6, <3>1, <3>2
    <2>8. CASE u = partition(k)
      <3>1. queues'[u] = Append(queues[u], i) /\ queues[u] \in Seq(Nat) BY <1>1, <1>2, <2>8 DEF TypeOK
      <3>2. /\ Len(queues'[u]) = Len(queues[u]) + 1 /\ queues'[u][Len(queues[u]) + 1] = i
            /\ \A n \in 1 .. Len(queues[u]) : queues'[u][n] = queues[u][n]
            /\ Len(queues[u]) \in Nat
        BY <1>2, <3>1, AppendProperties
      <3>3. \A j : (\E n \in 1 .. Len(queues'[u]) : queues'[u][n] = j)
                    <=> j = i \/ \E n \in 1 .. Len(queues[u]) : queues[u][n] = j
        BY <3>2
      <3>4. i \notin 1 .. enqueued BY <1>2
      <3>5. \A j : j \in KeyPending(l)' <=> j \in KeyPending(l) \/ (j = i /\ l = k)
        <4>1. \A j : j \in KeyPending(l)' <=>
                 arrival'[j] = l /\ (j = i \/ \E n \in 1 .. Len(queues[u]) : queues[u][n] = j)
          BY <2>4, <3>3
        <4>2. \A j \in 1 .. enqueued : j # i /\ arrival'[j] = arrival[j] BY <1>4, <3>4
        <4>3. ASSUME NEW j, j # i PROVE j \in KeyPending(l)' <=> j \in KeyPending(l)
          BY <2>2, <2>5, <4>1, <4>2, <4>3
        <4>4. i \in KeyPending(l)' <=> l = k BY <1>4, <4>1
        <4>5. i \notin KeyPending(l) BY <2>2, <3>4
        <4> HIDE DEF i
        <4> QED BY <4>3, <4>4, <4>5
      <3> QED BY <2>6, <3>5
    <2> QED BY <2>7, <2>8
  <1>7. \A j \in finished \cup UNION {KeyPending(l) \cup KeyActive(l) : l \in Keys} : j < i
    <2>1. finished \subseteq 1 .. enqueued BY DEF CountInv, HeldInv
    <2>2. \A l \in Keys : KeyPending(l) \subseteq 1 .. enqueued /\ KeyActive(l) \subseteq 1 .. enqueued
      BY <1>1, PartitionInRange, KeyFacts
    <2> QED BY <1>2, <2>1, <2>2
  <1> HIDE DEF i
  <1> DEFINE P == [l \in Keys |-> KeyPending(l)]
             A == [l \in Keys |-> KeyActive(l)]
  <1>8. P' = [P EXCEPT ![k] = @ \cup {i}] /\ A' = A BY <1>6
  <1>9. \A j \in Channel!Known : j < i
    <2>1. \A l \in Keys : P[l] = KeyPending(l) /\ A[l] = KeyActive(l) OBVIOUS
    <2>2. Channel!Known = finished \cup UNION {P[l] \cup A[l] : l \in Keys} BY DEF Channel!Known
    <2> HIDE DEF P, A
    <2>3. {P[l] \cup A[l] : l \in Keys} = {KeyPending(l) \cup KeyActive(l) : l \in Keys} BY <2>1
    <2> QED BY <1>7, <2>2, <2>3
  <1>10. Channel!Accept(k, i) BY <1>2, <1>8, <1>9 DEF Channel!Accept
  <1> QED BY <1>3, <1>10 DEF Channel!Next

\* Before anything is accepted the channel is empty.
LEMMA ChannelInit == Init => Channel!Init
  <1> SUFFICES ASSUME Init PROVE Channel!Init OBVIOUS
  <1>1. \A k \in Keys : KeyPending(k) = {} BY PartitionInRange DEF Init, KeyPending
  <1>2. Busy = {} BY DEF Init, Busy
  <1>3. \A k \in Keys : KeyActive(k) = {} BY <1>2 DEF KeyActive
  <1> QED BY <1>1, <1>3 DEF Init, Channel!Init

\* Every step of the pool is a step of the channel, or none.
LEMMA ChannelStep ==
    ASSUME CountInv, CountInv', [Next]_vars
    PROVE  Channel!Next \/ UNCHANGED Channel!vars
  <1>1. TypeOK BY DEF CountInv, OrderInv
  <1>2. ASSUME NEW p \in Producers, NEW k \in Keys, Enqueue(p, k) PROVE Channel!Next
    BY <1>2, ChannelAccept
  <1>3. ASSUME NEW w \in Workers, Resume(w) \/ Succeed(w) \/ Fail(w)
        PROVE  Channel!Next \/ UNCHANGED Channel!vars
    <2>1. RunLoop(w) /\ UNCHANGED arrival BY <1>3 DEF Resume, Succeed, Fail, Settle
    <2>2. \/ consumer[w] = "busy" /\ finished' = finished \cup {current[w]}
          \/ consumer[w] # "busy" /\ finished' = finished
      BY <1>3 DEF Resume, Succeed, Fail, Settle
    <2> QED BY <2>1, <2>2, ChannelTurn
  <1>4. ASSUME UNCHANGED <<arrival, queues, finished, current, consumer>> PROVE UNCHANGED Channel!vars
    BY <1>4, ChannelSame DEF Busy
  <1>5. ASSUME NEW p \in Producers, Reject(p) PROVE UNCHANGED Channel!vars BY <1>4, <1>5 DEF Reject
  <1>6. ASSUME NEW d \in Drainers, DrainCall(d) PROVE UNCHANGED Channel!vars BY <1>4, <1>6 DEF DrainCall
  <1>7. CASE StopCall \/ StopDone \/ Terminated \/ UNCHANGED vars
    BY <1>4, <1>7 DEF StopCall, StopDone, Terminated, vars
  <1>8. CASE StopConsumers
    <2>1. UNCHANGED <<arrival, queues, finished, current>> /\ Wake(Workers) BY <1>8 DEF StopConsumers
    <2>2. Busy' = Busy BY <1>1, <2>1, WakeBusy DEF Busy
    <2> QED BY <2>1, <2>2, ChannelSame
  <1> QED BY <1>2, <1>3, <1>5, <1>6, <1>7, <1>8 DEF Next

\* The pool implements the channel: whatever the consumers, callers and partitions do,
\* each contract has one queue, whose items are taken in the order of their arrival, one at
\* a time and once.
THEOREM ImplementsChannelSteps == Spec => ImplementsSteps
  <1>1. CountInv /\ [Next]_vars => CountInv' BY CountStep
  <1>2. CountInv /\ CountInv' /\ [Next]_vars => [Channel!Next]_(Channel!vars) BY ChannelStep
  <1> QED BY CountInit, ChannelInit, <1>1, <1>2, PTL DEF Spec, ImplementsSteps

-----------------------------------------------------------------------------
(* The ring buffer of a partition.                                       *)

\* A set of numbers that is not empty has a least one.
LEMMA LeastOf ==
    ASSUME NEW S \in SUBSET Nat, S # {}
    PROVE  \E x \in S : \A y \in S : x <= y
  <1>1. PICK x \in S : \A y \in S : ~(<<y, x>> \in OpToRel(<, Nat))
    BY NatLessThanWellFounded, WFMin
  <1>2. ASSUME NEW y \in S PROVE ~(y < x)
    BY <1>1 DEF OpToRel
  <1>3. \A y \in S : x <= y
    BY <1>2
  <1> QED BY <1>3

\* Powers of two.  The provers know nothing of them but how many subsets a set has:
\* those of 1 .. k + 1 are those of 1 .. k, without and with the last number.
LEMMA PowerOfTwo ==
    ASSUME NEW k \in Nat
    PROVE  2 ^ k \in Nat /\ 2 ^ (k + 1) = 2 * 2 ^ k
  <1> DEFINE A == SUBSET (1 .. k)
             B == {s \cup {k + 1} : s \in A}
  <1>1. /\ IsFiniteSet(1 .. k) /\ Cardinality(1 .. k) = k
        /\ IsFiniteSet(1 .. k + 1) /\ Cardinality(1 .. k + 1) = k + 1
    BY FS_Interval
  <1>2. IsFiniteSet(A) /\ Cardinality(A) = 2 ^ k BY <1>1, FS_SUBSET
  <1>3. Cardinality(SUBSET (1 .. k + 1)) = 2 ^ (k + 1)
    <2>1. Cardinality(SUBSET (1 .. k + 1)) = 2 ^ Cardinality(1 .. k + 1) BY <1>1, FS_SUBSET
    <2> QED BY <1>1, <2>1
  <1>4. SUBSET (1 .. k + 1) = A \cup B
    <2>1. ASSUME NEW s \in SUBSET (1 .. k + 1) PROVE s \in A \cup B
      <3>1. s \ {k + 1} \in A OBVIOUS
      <3>2. CASE k + 1 \in s
        <4>1. s = (s \ {k + 1}) \cup {k + 1} BY <3>2
        <4> QED BY <3>1, <4>1
      <3>3. CASE k + 1 \notin s BY <3>1, <3>3
      <3> QED BY <3>2, <3>3
    <2>2. ASSUME NEW s \in A PROVE s \in SUBSET (1 .. k + 1) /\ s \cup {k + 1} \in SUBSET (1 .. k + 1)
      <3>1. s \subseteq 1 .. k OBVIOUS
      <3>2. 1 .. k \subseteq 1 .. k + 1 /\ k + 1 \in 1 .. k + 1 OBVIOUS
      <3> QED BY <3>1, <3>2
    <2>3. A \cup B \subseteq SUBSET (1 .. k + 1)
      <3>1. ASSUME NEW t \in B PROVE t \in SUBSET (1 .. k + 1)
        <4>1. PICK s \in A : t = s \cup {k + 1} OBVIOUS
        <4> QED BY <2>2, <4>1
      <3> QED BY <2>2, <3>1
    <2> HIDE DEF A, B
    <2> QED BY <2>1, <2>3
  <1>5. A \cap B = {}
    <2>1. \A s \in A : k + 1 \notin s OBVIOUS
    <2> QED BY <2>1
  <1>6. IsFiniteSet(B) /\ Cardinality(B) = Cardinality(A)
    <2> DEFINE f == [s \in A |-> s \cup {k + 1}]
    <2>1. f \in Bijection(A, B)
      <3>1. f \in [A -> B] OBVIOUS
      <3>2. ASSUME NEW s \in A, NEW t \in A, f[s] = f[t] PROVE s = t
        <4>1. s \cup {k + 1} = t \cup {k + 1} BY <3>2
        <4>2. k + 1 \notin s /\ k + 1 \notin t OBVIOUS
        <4> QED BY <4>1, <4>2
      <3>3. \A b \in B : \E s \in A : f[s] = b OBVIOUS
      <3> QED BY <3>1, <3>2, <3>3 DEF Bijection, Injection, Surjection, IsInjective
    <2> QED BY <1>2, <2>1, FS_Bijection DEF ExistsBijection
  <1>7. Cardinality(A \cup B) = Cardinality(A) + Cardinality(B) - Cardinality(A \cap B)
    BY <1>2, <1>6, FS_Union
  <1>8. Cardinality(A) \in Nat BY <1>2, FS_CardinalityType
  <1>9. Cardinality(A \cap B) = 0 BY <1>5, FS_EmptySet
  <1>10. Cardinality(A \cup B) = 2 ^ (k + 1) BY <1>3, <1>4
  <1> HIDE DEF A, B
  <1> QED BY <1>2, <1>6, <1>7, <1>8, <1>9, <1>10

\* The n-th power of two exceeds n, since no least number is an exception.
LEMMA PowerExceeds ==
    ASSUME NEW n \in Nat
    PROVE  2 ^ n > n
  <1> DEFINE S == {k \in Nat : 2 ^ k <= k}
  <1>1. SUFFICES ASSUME S # {} PROVE FALSE BY PowerOfTwo
  <1>2. PICK x \in S : \A y \in S : x <= y BY <1>1, LeastOf
  <1>3. x \in Nat /\ 2 ^ x <= x BY <1>2
  <1>4. x # 0
    <2>1. x = 0 => 2 ^ x = 2 ^ 0 OBVIOUS
    <2>2. 2 ^ 0 = 1 OBVIOUS
    <2>3. x = 0 => 2 ^ x = 1 BY ONLY Zenon, <2>1, <2>2
    <2> QED BY <1>3, <2>3
  <1>5. PICK y \in Nat : x = y + 1 BY <1>3, <1>4
  <1>6. y \notin S BY <1>2, <1>3, <1>5
  <1>7. 2 ^ y > y /\ 2 ^ y \in Nat BY <1>6, PowerOfTwo
  <1>8. 2 ^ x = 2 * 2 ^ y BY <1>5, PowerOfTwo
  <1> QED BY <1>3, <1>5, <1>7, <1>8

\* A capacity is a power of two, and not the first.
LEMMA CapacityOf ==
    ASSUME NEW n \in Nat, n >= 2
    PROVE  \E k \in Nat \ {0} : nextPow2(n) = 2 ^ k /\ k <= nextPow2(n)
  <1> DEFINE P == {2 ^ k : k \in 0 .. n}
             S == {p \in P : p >= n}
  <1>1. P \subseteq Nat BY PowerOfTwo
  <1>2. 2 ^ n \in S BY <1>1, PowerExceeds
  <1>3. PICK p \in S : \A q \in S : p <= q BY <1>1, <1>2, LeastOf
  <1>4. p \in P /\ p >= n /\ \A k \in 0 .. n : 2 ^ k >= n => p <= 2 ^ k BY <1>3
  <1>5. PICK m : m = nextPow2(n) OBVIOUS
  <1>6. m \in P /\ m >= n BY <1>4, <1>5 DEF nextPow2
  <1>7. PICK k \in 0 .. n : m = 2 ^ k BY <1>6
  <1>8. k # 0
    <2>1. k = 0 => 2 ^ k = 2 ^ 0 OBVIOUS
    <2>2. 2 ^ 0 = 1 OBVIOUS
    <2>3. k = 0 => 2 ^ k = 1 BY ONLY Zenon, <2>1, <2>2
    <2> QED BY <1>6, <1>7, <2>3
  <1>9. 2 ^ k > k /\ 2 ^ k \in Nat BY PowerOfTwo, PowerExceeds
  <1> QED BY <1>5, <1>7, <1>8, <1>9

\* Positions less than a capacity apart are at different slots.
LEMMA Wraps ==
    ASSUME NEW c \in Nat \ {0}, NEW h \in 0 .. c - 1, NEW n \in 0 .. c
    PROVE  /\ Masked(h + n, c) = IF h + n < c THEN h + n ELSE h + n - c
           /\ Masked(h + n, c) \in 0 .. c - 1
  BY DEF Masked

\* Counting from the slot after the first one.
LEMMA Turned ==
    ASSUME NEW c \in Nat \ {0}, NEW h \in 0 .. c - 1, NEW m \in 1 .. c, NEW g, NEW n,
           g = IF h + 1 < c THEN h + 1 ELSE h + 1 - c, n = m - 1
    PROVE  (IF g + n < c THEN g + n ELSE g + n - c) = (IF h + m < c THEN h + m ELSE h + m - c)
  <1>1. CASE h + 1 < c
    <2>1. g = h + 1 BY <1>1
    <2>2. g + n = h + m BY ONLY <2>1, n = m - 1, h \in 0 .. c - 1, m \in 1 .. c, c \in Nat \ {0}
    <2> QED BY <2>2
  <1>2. CASE ~(h + 1 < c)
    <2>1. h + 1 = c BY <1>2
    <2>2. g = 0 BY <1>2, <2>1
    <2>3. g + n = m - 1 /\ h + m = c + (m - 1) BY <2>1, <2>2
    <2> QED BY <2>3
  <1> QED BY <1>1, <1>2

\* Appending to the items in the queue.
LEMMA Appended ==
    ASSUME NEW q \in Seq(Nat), NEW e \in Nat, NEW n, Len(q) = n
    PROVE  /\ Append(q, e) \in Seq(Nat) /\ Len(Append(q, e)) = n + 1 /\ Append(q, e)[n + 1] = e
           /\ \A k \in 1 .. n : Append(q, e)[k] = q[k]
  BY AppendProperties

\* The inductive invariant of a ring buffer: types, and the properties themselves.
RingInv ==
    /\ capacity \in Nat \ {0} /\ buf \in [0 .. capacity - 1 -> Nat]
    /\ head \in 0 .. capacity - 1 /\ ringSize \in 0 .. capacity /\ enqueuedItems \in Nat
    /\ fifo \in Seq(Nat)
    /\ RingIsFifo /\ SlotsAreReleased /\ CapacityIsPowerOfTwo

\* An empty buffer of its first capacity satisfies the invariant.
LEMMA RingInitial == RingInit => RingInv
  <1> SUFFICES ASSUME RingInit PROVE RingInv OBVIOUS
  <1>1. PICK n \in Nat : n = (IF initialCapacity < 2 THEN 2 ELSE initialCapacity) /\ n >= 2
    BY RingAssumption
  <1>2. capacity = nextPow2(n) BY <1>1 DEF RingInit
  <1>3. PICK k \in Nat \ {0} : capacity = 2 ^ k /\ k <= capacity BY <1>1, <1>2, CapacityOf
  <1>4. capacity \in Nat \ {0} BY <1>3, PowerOfTwo, PowerExceeds
  <1>5. /\ buf = [slot \in 0 .. capacity - 1 |-> 0] /\ head = 0 /\ tail = 0
        /\ ringSize = 0 /\ enqueuedItems = 0 /\ fifo = <<>>
    BY DEF RingInit, Undefined
  <1>6. CapacityIsPowerOfTwo BY <1>3, <1>4 DEF CapacityIsPowerOfTwo
  <1>7. RingIsFifo BY <1>5 DEF RingIsFifo
  <1>8. SlotsAreReleased
    <2>1. Masked(0 + 0, capacity) = 0 BY <1>4, Wraps
    <2> QED BY <1>4, <1>5, <2>1 DEF SlotsAreReleased, Undefined
  <1> QED BY <1>4, <1>5, <1>6, <1>7, <1>8 DEF RingInv

\* The slots of the items, as long as they fit.
LEMMA SlotFacts ==
    ASSUME RingInv
    PROVE  /\ \A k \in 1 .. capacity :
                 /\ SlotOf(k) = IF head + k - 1 < capacity THEN head + k - 1 ELSE head + k - 1 - capacity
                 /\ SlotOf(k) \in 0 .. capacity - 1
           /\ \A j, k \in 1 .. capacity : SlotOf(j) = SlotOf(k) => j = k
  <1>0. capacity \in Nat \ {0} /\ head \in 0 .. capacity - 1 BY DEF RingInv
  <1> USE <1>0
  <1>1. ASSUME NEW k \in 1 .. capacity
        PROVE  /\ SlotOf(k) = IF head + k - 1 < capacity THEN head + k - 1 ELSE head + k - 1 - capacity
               /\ SlotOf(k) \in 0 .. capacity - 1
    <2>1. PICK n \in 0 .. capacity : n = k - 1 OBVIOUS
    <2>2. SlotOf(k) = Masked(head + n, capacity) BY <2>1 DEF SlotOf
    <2> QED BY <2>1, <2>2, Wraps
  <1>2. ASSUME NEW j \in 1 .. capacity, NEW k \in 1 .. capacity, SlotOf(j) = SlotOf(k) PROVE j = k
    <2>1. /\ SlotOf(j) = IF head + j - 1 < capacity THEN head + j - 1 ELSE head + j - 1 - capacity
          /\ SlotOf(k) = IF head + k - 1 < capacity THEN head + k - 1 ELSE head + k - 1 - capacity
      BY <1>1
    <2>2. \/ SlotOf(j) = head + j - 1 /\ head + j - 1 < capacity
          \/ SlotOf(j) = head + j - 1 - capacity /\ head + j - 1 >= capacity
      BY <2>1
    <2>3. \/ SlotOf(k) = head + k - 1 /\ head + k - 1 < capacity
          \/ SlotOf(k) = head + k - 1 - capacity /\ head + k - 1 >= capacity
      BY <2>1
    <2>4. capacity \in Nat /\ head \in 0 .. capacity - 1 OBVIOUS
    <2> QED BY ONLY <1>2, <2>2, <2>3, <2>4
  <1> QED BY <1>1, <1>2

\* An item that has room goes to the one slot after the last item.
LEMMA EnqueueStep == ASSUME RingInv, EnqueueItem, ringSize < capacity PROVE RingInv'
  <1>0. /\ capacity \in Nat \ {0} /\ buf \in [0 .. capacity - 1 -> Nat]
        /\ head \in 0 .. capacity - 1 /\ ringSize \in 0 .. capacity /\ enqueuedItems \in Nat
        /\ fifo \in Seq(Nat) /\ RingIsFifo /\ SlotsAreReleased /\ CapacityIsPowerOfTwo
    BY DEF RingInv
  <1> USE <1>0
  <1>1. /\ ringSize' = ringSize + 1 /\ enqueuedItems' = enqueuedItems + 1
        /\ fifo' = Append(fifo, enqueuedItems + 1)
        /\ buf' = [buf EXCEPT ![tail] = enqueuedItems + 1] /\ tail' = Masked(tail + 1, capacity)
        /\ capacity' = capacity /\ head' = head
    BY DEF EnqueueItem
  <1>2. tail = Masked(head + ringSize, capacity) BY DEF SlotsAreReleased
  <1>3. /\ tail = IF head + ringSize < capacity THEN head + ringSize ELSE head + ringSize - capacity
        /\ tail \in 0 .. capacity - 1
    BY <1>2, Wraps
  <1>4. ringSize + 1 \in 1 .. capacity /\ SlotOf(ringSize + 1) = tail BY <1>2 DEF SlotOf
  <1>5. \A k \in 1 .. ringSize : SlotOf(k) # tail /\ SlotOf(k) \in 0 .. capacity - 1 BY <1>4, SlotFacts
  <1>6. \A k : SlotOf(k)' = SlotOf(k) BY <1>1 DEF SlotOf
  <1>7. Len(fifo) = ringSize BY DEF RingIsFifo
  <1>8. fifo' \in Seq(Nat) /\ Len(fifo') = ringSize + 1 /\ fifo'[ringSize + 1] = enqueuedItems + 1
        /\ \A k \in 1 .. ringSize : fifo'[k] = fifo[k]
    <2>1. PICK e \in Nat : e = enqueuedItems + 1 OBVIOUS
    <2>2. fifo' = Append(fifo, e) BY <1>1, <2>1
    <2>3. /\ Append(fifo, e) \in Seq(Nat)
          /\ Len(Append(fifo, e)) = ringSize + 1 /\ Append(fifo, e)[ringSize + 1] = e
          /\ \A k \in 1 .. ringSize : Append(fifo, e)[k] = fifo[k]
      BY <1>7, Appended
    <2> QED BY <2>1, <2>2, <2>3
  <1>9. buf' \in [0 .. capacity - 1 -> Nat] /\ buf'[tail] = enqueuedItems + 1
        /\ \A slot \in 0 .. capacity - 1 : slot # tail => buf'[slot] = buf[slot]
    BY <1>1, <1>3
  <1>10. RingIsFifo'
    <2>1. ASSUME NEW k \in 1 .. ringSize + 1 PROVE buf'[SlotOf(k)] = fifo'[k]
      <3>1. CASE k = ringSize + 1 BY <1>4, <1>8, <1>9, <3>1
      <3>2. CASE k \in 1 .. ringSize
        <4>1. buf[SlotOf(k)] = fifo[k] BY <3>2 DEF RingIsFifo
        <4> QED BY <1>5, <1>8, <1>9, <3>2, <4>1
      <3> QED BY <3>1, <3>2
    <2> QED BY <1>1, <1>6, <1>8, <2>1 DEF RingIsFifo
  <1>11. SlotsAreReleased'
    <2>1. ASSUME NEW slot \in 0 .. capacity - 1, buf'[slot] # Undefined
          PROVE  \E k \in 1 .. ringSize + 1 : slot = SlotOf(k)
      <3>1. CASE slot = tail BY <1>4, <3>1
      <3>2. CASE slot # tail
        <4>1. buf[slot] # Undefined BY <1>9, <2>1, <3>2
        <4>2. PICK k \in 1 .. ringSize : slot = SlotOf(k) BY <4>1 DEF SlotsAreReleased
        <4> QED BY <4>2
      <3> QED BY <3>1, <3>2
    <2>2. tail' = Masked(head + (ringSize + 1), capacity)
      <3>1. PICK n \in 0 .. capacity : n = ringSize + 1 OBVIOUS
      <3>2. Masked(head + n, capacity) = IF head + n < capacity THEN head + n ELSE head + n - capacity BY Wraps
      <3>3. Masked(tail + 1, capacity) = IF tail + 1 < capacity THEN tail + 1 ELSE tail + 1 - capacity
        <4>1. PICK m \in 0 .. capacity : m = 1 OBVIOUS
        <4> QED BY <1>3, <4>1, Wraps
      <3> QED BY <1>1, <1>3, <3>1, <3>2, <3>3
    <2> QED BY <1>1, <1>6, <2>1, <2>2 DEF SlotsAreReleased
  <1>12. CapacityIsPowerOfTwo' BY <1>1 DEF CapacityIsPowerOfTwo
  <1> QED BY <1>1, <1>8, <1>9, <1>10, <1>11, <1>12 DEF RingInv

\* Growing puts the items at the first slots, in their order.
LEMMA GrowStep == ASSUME RingInv, EnqueueItem, ringSize = capacity PROVE RingInv'
  <1>0. /\ capacity \in Nat \ {0} /\ buf \in [0 .. capacity - 1 -> Nat]
        /\ head \in 0 .. capacity - 1 /\ ringSize \in 0 .. capacity /\ enqueuedItems \in Nat
        /\ fifo \in Seq(Nat) /\ RingIsFifo /\ SlotsAreReleased /\ CapacityIsPowerOfTwo
    BY DEF RingInv
  <1> USE <1>0
  <1>1. /\ ringSize' = ringSize + 1 /\ enqueuedItems' = enqueuedItems + 1
        /\ fifo' = Append(fifo, enqueuedItems + 1)
        /\ buf' = [grow EXCEPT ![ringSize] = enqueuedItems + 1] /\ tail' = Masked(ringSize + 1, 2 * capacity)
        /\ capacity' = 2 * capacity /\ head' = 0
    BY DEF EnqueueItem
  <1>2. PICK c \in Nat \ {0} : c = 2 * capacity OBVIOUS
  <1>3. \A k \in 1 .. ringSize : buf[SlotOf(k)] = fifo[k] /\ SlotOf(k) \in 0 .. capacity - 1
    BY SlotFacts DEF RingIsFifo
  <1>4. PICK g : g = grow OBVIOUS
  <1>5. /\ g \in [0 .. c - 1 -> Nat]
        /\ \A k \in 1 .. ringSize : g[k - 1] = fifo[k]
        /\ \A slot \in 0 .. c - 1 : slot >= ringSize => g[slot] = Undefined
    <2>1. g = [slot \in 0 .. c - 1 |-> IF slot < ringSize THEN buf[Masked(head + slot, capacity)] ELSE Undefined]
      BY <1>2, <1>4 DEF grow
    <2>2. ASSUME NEW slot \in 0 .. c - 1
          PROVE  (IF slot < ringSize THEN buf[Masked(head + slot, capacity)] ELSE Undefined) \in Nat
      <3>1. CASE slot < ringSize
        <4>1. Masked(head + slot, capacity) \in 0 .. capacity - 1 BY <3>1, Wraps
        <4> QED BY <3>1, <4>1
      <3>2. CASE ~(slot < ringSize) BY <3>2 DEF Undefined
      <3> QED BY <3>1, <3>2
    <2>3. g \in [0 .. c - 1 -> Nat] BY <2>1, <2>2
    <2>4. ASSUME NEW k \in 1 .. ringSize PROVE g[k - 1] = fifo[k]
      <3>1. k - 1 \in 0 .. c - 1 /\ k - 1 < ringSize BY <1>2
      <3>2. g[k - 1] = buf[Masked(head + (k - 1), capacity)] BY <2>1, <3>1
      <3>3. SlotOf(k) = Masked(head + (k - 1), capacity)
        <4>1. head + k - 1 = head + (k - 1) OBVIOUS
        <4> QED BY <4>1 DEF SlotOf
      <3> QED BY <1>3, <3>2, <3>3
    <2>5. ASSUME NEW slot \in 0 .. c - 1, slot >= ringSize PROVE g[slot] = Undefined
      BY <2>1, <2>5
    <2> QED BY <2>3, <2>4, <2>5
  <1>6. Len(fifo) = ringSize BY DEF RingIsFifo
  <1>7. fifo' \in Seq(Nat) /\ Len(fifo') = ringSize + 1 /\ fifo'[ringSize + 1] = enqueuedItems + 1
        /\ \A k \in 1 .. ringSize : fifo'[k] = fifo[k]
    <2>1. PICK e \in Nat : e = enqueuedItems + 1 OBVIOUS
    <2> QED BY <1>1, <1>6, <2>1, Appended
  <1>8. ringSize \in 0 .. c - 1 /\ ringSize + 1 \in 0 .. c BY <1>2
  <1>9. buf' \in [0 .. c - 1 -> Nat] /\ buf'[ringSize] = enqueuedItems + 1
        /\ \A slot \in 0 .. c - 1 : slot # ringSize => buf'[slot] = g[slot]
    BY <1>1, <1>4, <1>5, <1>8
  <1>10. \A k \in 1 .. ringSize + 1 : SlotOf(k)' = k - 1
    <2>1. ASSUME NEW k \in 1 .. ringSize + 1 PROVE SlotOf(k)' = k - 1
      <3>1. PICK n \in 0 .. c : n = k - 1 /\ n < c BY <1>8
      <3>2. Masked(0 + n, c) = n
        <4>1. PICK z \in 0 .. c - 1 : z = 0 OBVIOUS
        <4>2. Masked(z + n, c) = IF z + n < c THEN z + n ELSE z + n - c BY <4>1, Wraps
        <4>3. z + n = 0 + n /\ z + n = n BY <3>1, <4>1
        <4> QED BY <3>1, <4>2, <4>3
      <3>3. SlotOf(k)' = Masked(0 + n, c) BY <1>1, <1>2, <3>1 DEF SlotOf
      <3> QED BY <3>1, <3>2, <3>3
    <2> QED BY <2>1
  <1>11. RingIsFifo'
    <2>1. ASSUME NEW k \in 1 .. ringSize + 1 PROVE buf'[k - 1] = fifo'[k]
      <3>1. CASE k = ringSize + 1 BY <1>7, <1>9, <3>1
      <3>2. CASE k \in 1 .. ringSize
        <4>1. k - 1 \in 0 .. c - 1 /\ k - 1 # ringSize BY <1>8, <3>2
        <4> QED BY <1>5, <1>7, <1>9, <3>2, <4>1
      <3>3. k = ringSize + 1 \/ k \in 1 .. ringSize OBVIOUS
      <3> QED BY ONLY <3>1, <3>2, <3>3
    <2> QED BY <1>1, <1>7, <1>10, <2>1 DEF RingIsFifo
  <1>12. SlotsAreReleased'
    <2>1. ASSUME NEW slot \in 0 .. c - 1, buf'[slot] # Undefined PROVE slot + 1 \in 1 .. ringSize + 1
      BY <1>5, <1>8, <1>9, <2>1
    <2>2. \A slot \in 0 .. c - 1 : buf'[slot] # Undefined => \E k \in 1 .. ringSize + 1 : slot = k - 1
      BY <2>1
    <2>3. tail' = Masked(0 + ringSize', capacity') BY <1>1, <1>2, <1>8
    <2>4. \A slot \in 0 .. c - 1 : buf'[slot] # Undefined => \E k \in 1 .. ringSize + 1 : slot = SlotOf(k)'
      <3>1. ASSUME NEW slot \in 0 .. c - 1, buf'[slot] # Undefined
            PROVE  \E k \in 1 .. ringSize + 1 : slot = SlotOf(k)'
        <4>1. PICK k \in 1 .. ringSize + 1 : slot = k - 1 BY <2>2, <3>1
        <4> QED BY <1>10, <4>1
      <3> QED BY <3>1
    <2>5. capacity' = c /\ ringSize' = ringSize + 1 BY <1>1, <1>2
    <2>6. tail' = Masked(head' + ringSize', capacity') BY <1>1, <2>3
    <2> QED BY <2>4, <2>5, <2>6 DEF SlotsAreReleased
  <1>13. CapacityIsPowerOfTwo'
    <2>1. PICK k \in 1 .. capacity : capacity = 2 ^ k BY DEF CapacityIsPowerOfTwo
    <2>2. capacity' = 2 ^ (k + 1) /\ k + 1 \in 1 .. capacity' BY <1>1, <2>1, PowerOfTwo
    <2> QED BY <2>2 DEF CapacityIsPowerOfTwo
  <1> QED BY <1>1, <1>2, <1>7, <1>8, <1>9, <1>11, <1>12, <1>13 DEF RingInv

\* Taking the first item off, whose slot no other item has.
LEMMA DequeueStep == ASSUME RingInv, DequeueItem PROVE RingInv'
  <1> USE DEF RingInv
  <1>1. /\ ringSize > 0 /\ ringSize' = ringSize - 1 /\ fifo' = Tail(fifo)
        /\ buf' = [buf EXCEPT ![head] = Undefined] /\ head' = Masked(head + 1, capacity)
        /\ capacity' = capacity /\ tail' = tail /\ enqueuedItems' = enqueuedItems
    BY DEF DequeueItem
  <1>2. /\ head' = IF head + 1 < capacity THEN head + 1 ELSE head + 1 - capacity
        /\ head' \in 0 .. capacity - 1
    BY <1>1, Wraps
  <1>3. Len(fifo) = ringSize BY DEF RingIsFifo
  <1>4. fifo' \in Seq(Nat) /\ Len(fifo') = ringSize - 1 /\ \A k \in 1 .. ringSize - 1 : fifo'[k] = fifo[k + 1]
    BY <1>1, <1>3
  <1>5. /\ buf' \in [0 .. capacity - 1 -> Nat] /\ buf'[head] = Undefined
        /\ \A slot \in 0 .. capacity - 1 : slot # head => buf'[slot] = buf[slot]
    BY <1>1 DEF Undefined
  <1>6. 1 \in 1 .. capacity /\ SlotOf(1) = head BY SlotFacts
  <1>7. ASSUME NEW k \in 1 .. ringSize - 1 PROVE SlotOf(k)' = SlotOf(k + 1)
    <2>1. PICK n \in 0 .. capacity : n = k - 1 OBVIOUS
    <2>2. Masked(head' + n, capacity) = IF head' + n < capacity THEN head' + n ELSE head' + n - capacity
      BY <1>2, Wraps
    <2>3. SlotOf(k)' = Masked(head' + n, capacity) BY <1>1, <1>2, <2>1 DEF SlotOf
    <2>4. k + 1 \in 1 .. capacity OBVIOUS
    <2>5. SlotOf(k + 1) = IF head + (k + 1) - 1 < capacity THEN head + (k + 1) - 1 ELSE head + (k + 1) - 1 - capacity
      BY <2>4, SlotFacts
    <2> QED BY <1>2, <2>1, <2>2, <2>3, <2>5
  <1>8. \A k \in 1 .. ringSize - 1 : SlotOf(k + 1) # head /\ SlotOf(k + 1) \in 0 .. capacity - 1
    BY <1>6, SlotFacts
  <1>9. RingIsFifo'
    <2>1. ASSUME NEW k \in 1 .. ringSize - 1 PROVE buf'[SlotOf(k)'] = fifo'[k]
      <3>1. buf[SlotOf(k + 1)] = fifo[k + 1] BY DEF RingIsFifo
      <3> QED BY <1>4, <1>5, <1>7, <1>8, <3>1
    <2> QED BY <1>1, <1>4, <2>1 DEF RingIsFifo
  <1>10. SlotsAreReleased'
    <2>1. ASSUME NEW slot \in 0 .. capacity - 1, buf'[slot] # Undefined
          PROVE  \E k \in 1 .. ringSize - 1 : slot = SlotOf(k)'
      <3>1. slot # head BY <1>5, <2>1
      <3>2. buf[slot] # Undefined BY <1>5, <2>1, <3>1
      <3>3. PICK j \in 1 .. ringSize : slot = SlotOf(j) BY <3>2 DEF SlotsAreReleased
      <3>4. j # 1 BY <1>6, <3>1, <3>3
      <3>5. PICK k \in 1 .. ringSize - 1 : j = k + 1 BY <3>4
      <3> QED BY <1>7, <3>3, <3>5
    <2>2. tail = Masked(head' + (ringSize - 1), capacity)
      <3>1. tail = Masked(head + ringSize, capacity) BY DEF SlotsAreReleased
      <3>2. tail = IF head + ringSize < capacity THEN head + ringSize ELSE head + ringSize - capacity
        BY <3>1, Wraps
      <3>3. PICK n \in 0 .. capacity : n = ringSize - 1 BY <1>1
      <3>4. Masked(head' + n, capacity) = IF head' + n < capacity THEN head' + n ELSE head' + n - capacity
        BY <1>2, Wraps
      <3>5. tail = IF head' + n < capacity THEN head' + n ELSE head' + n - capacity
        <4>1. capacity \in Nat \ {0} /\ head \in 0 .. capacity - 1 OBVIOUS
        <4>2. ringSize \in 1 .. capacity BY <1>1
        <4>3. head' = IF head + 1 < capacity THEN head + 1 ELSE head + 1 - capacity BY <1>2
        <4>4. n = ringSize - 1 BY <3>3
        <4>5. (IF head' + n < capacity THEN head' + n ELSE head' + n - capacity)
              = (IF head + ringSize < capacity THEN head + ringSize ELSE head + ringSize - capacity)
          BY ONLY <4>1, <4>2, <4>3, <4>4, Turned
        <4> QED BY ONLY <3>2, <4>5
      <3> QED BY <3>3, <3>4, <3>5
    <2> QED BY <1>1, <2>1, <2>2 DEF SlotsAreReleased
  <1>11. CapacityIsPowerOfTwo' BY <1>1 DEF CapacityIsPowerOfTwo
  <1> QED BY <1>1, <1>2, <1>4, <1>5, <1>9, <1>10, <1>11

\* However often it has wrapped around and grown, the buffer of a partition gives its
\* items back in the order in which they came, and forgets those it gave back.
THEOREM RingCorrect == RingSpec => []RingSafety
  <1>1. RingInv /\ [RingNext]_ringvars => RingInv'
    <2> SUFFICES ASSUME RingInv, [RingNext]_ringvars PROVE RingInv' OBVIOUS
    <2>1. CASE EnqueueItem BY <2>1, EnqueueStep, GrowStep DEF EnqueueItem
    <2>2. CASE DequeueItem BY <2>2, DequeueStep
    <2>3. CASE UNCHANGED ringvars
      BY <2>3 DEF ringvars, RingInv, RingIsFifo, SlotsAreReleased, CapacityIsPowerOfTwo, SlotOf
    <2> QED BY <2>1, <2>2, <2>3 DEF RingNext
  <1>2. RingInv => RingSafety BY DEF RingInv, RingSafety
  <1> QED BY RingInitial, <1>1, <1>2, PTL DEF RingSpec
=============================================================================
