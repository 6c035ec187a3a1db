--------------------------- MODULE IngestionPool ---------------------------
(***************************************************************************)
(* The partitioned producer/consumer pool of lib/stellar/ingestion-pool.ts *)
(* (createIngestionPool).  JavaScript runs one callback at a time, so an   *)
(* action is one synchronous stretch of code between two awaits.  The      *)
(* order in which the event loop picks ready continuations is left open.   *)
(*                                                                         *)
(* An item is named by its arrival number 1, 2, ...; arrival[i] is its     *)
(* partition key (the contract ID).                                        *)
(***************************************************************************)
EXTENDS Naturals, Sequences, FiniteSets

CONSTANTS
    Keys,          \* partition keys (contract IDs)
    Producers,     \* concurrent callers of enqueue (one per stream callback)
    Drainers,      \* callers of drain() other than stop()
    WorkerCount,   \* number of partitions and of consumer loops
    MaxQueueSize,  \* backpressure threshold
    hashKey,       \* the string hash, a function from Keys to Nat
    MaxItems       \* bound: items handed to the pool in a behaviour

ASSUME PoolAssumption ==
    /\ WorkerCount \in Nat \ {0}
    /\ MaxQueueSize \in Nat \ {0}
    /\ MaxItems \in Nat
    /\ hashKey \in [Keys -> Nat]
    /\ IsFiniteSet(Producers)

VARIABLES
    arrival,    \* keys of the accepted items, in order (enqueued = Len(arrival))
    queues,     \* one FIFO of items per partition
    current,    \* the item a consumer awaits process() on, 0 when there is none
    consumer,   \* where each consumer loop stands
    producer,   \* what each enqueue caller awaits
    processed,  \* counter of fulfilled process() calls
    failed,     \* counter of rejected process() calls
    finished,   \* history: items whose process() has settled
    running,    \* the flag cleared by stop()
    drain,      \* state of each drain() promise
    mark,       \* history: items accepted when drain() was called
    stopping    \* progress of stop()

vars == <<arrival, queues, current, consumer, producer, processed, failed,
          finished, running, drain, mark, stopping>>

Workers == 0 .. WorkerCount - 1

\* Regression: items dealt to the partitions round-robin.
partitionRoundRobin(k) == Len(arrival) % WorkerCount

partition(k) == hashKey[k] % WorkerCount

enqueued == Len(arrival)

outstanding == enqueued - processed - failed

Init ==
    /\ arrival = <<>>
    /\ queues = [w \in Workers |-> <<>>]
    /\ current = [w \in Workers |-> 0]
    /\ consumer = [w \in Workers |-> "idle"]
    /\ producer = [p \in Producers |-> "ready"]
    /\ processed = 0
    /\ failed = 0
    /\ finished = {}
    /\ running = TRUE
    /\ drain = [d \in Drainers |-> "none"]
    /\ mark = [d \in Drainers |-> 0]
    /\ stopping = "no"

-----------------------------------------------------------------------------
(* The consumer loop, from its head to the next await.                   *)

\* Regression: the loop leaves as soon as running is cleared.
RunLoopEager(w) ==
    LET more == running /\ queues[w] # <<>> IN
    /\ current' = [current EXCEPT ![w] = IF more THEN Head(queues[w]) ELSE 0]
    /\ queues' = [queues EXCEPT ![w] = IF more THEN Tail(@) ELSE @]
    /\ consumer' = [consumer EXCEPT ![w] =
           IF more THEN "busy" ELSE IF running THEN "idle" ELSE "done"]

\* Regression: the loop reads the head and leaves it in the queue.
RunLoopPeek(w) ==
    LET more == queues[w] # <<>> IN
    /\ current' = [current EXCEPT ![w] = IF more THEN Head(queues[w]) ELSE 0]
    /\ consumer' = [consumer EXCEPT ![w] =
           IF more THEN "busy" ELSE IF running THEN "idle" ELSE "done"]
    /\ UNCHANGED queues

\* Regression: the loop takes the newest item (pop() for shift()).
RunLoopNewest(w) ==
    LET n == Len(queues[w]) IN
    /\ current' = [current EXCEPT ![w] = IF n > 0 THEN queues[w][n] ELSE 0]
    /\ queues' = [queues EXCEPT ![w] = IF n > 0 THEN SubSeq(@, 1, n - 1) ELSE @]
    /\ consumer' = [consumer EXCEPT ![w] =
           IF n > 0 THEN "busy" ELSE IF running THEN "idle" ELSE "done"]

RunLoop(w) ==
    \/ /\ queues[w] # <<>>
       /\ current' = [current EXCEPT ![w] = Head(queues[w])]
       /\ queues' = [queues EXCEPT ![w] = Tail(queues[w])]
       /\ consumer' = [consumer EXCEPT ![w] = "busy"]
    \/ /\ queues[w] = <<>>
       /\ current' = [current EXCEPT ![w] = 0]
       /\ consumer' = [consumer EXCEPT ![w] = IF running THEN "idle" ELSE "done"]
       /\ UNCHANGED queues

\* Regression: only the woken consumers stay registered.
WakeForget(W) ==
    consumer' = [w \in W |-> IF consumer[w] = "idle" THEN "woken" ELSE consumer[w]]

\* wake(): resolves the waker of each idle consumer in W.
Wake(W) ==
    consumer' = [w \in Workers |->
        IF w \in W /\ consumer[w] = "idle" THEN "woken" ELSE consumer[w]]

\* Regression: callers are released while the pool is still full.
releaseBackpressureEarly(n) ==
    producer' = [p \in Producers |->
        IF producer[p] = "parked" /\ n <= MaxQueueSize THEN "ready" ELSE producer[p]]

\* Regression: the item that just settled still counts.
releaseBackpressureLate(n) ==
    producer' = [p \in Producers |->
        IF producer[p] = "parked" /\ n + 1 < MaxQueueSize THEN "ready" ELSE producer[p]]

\* releaseBackpressure() once n items are outstanding: all parked callers or none.
releaseBackpressure(n) ==
    producer' = [p \in Producers |->
        IF producer[p] = "parked" /\ n < MaxQueueSize THEN "ready" ELSE producer[p]]

\* Regression: the last item in process is not counted as outstanding.
resolveDrainIfNearlyIdle(n) ==
    /\ drain' = [d \in Drainers |->
           IF n <= 1 /\ drain[d] = "waiting" THEN "resolved" ELSE drain[d]]
    /\ stopping' = IF n <= 1 /\ stopping = "draining" THEN "drained" ELSE stopping

\* resolveDrainIfIdle() once n items are outstanding; stop() awaits a drain() too.
resolveDrainIfIdle(n) ==
    /\ drain' = [d \in Drainers |->
           IF n = 0 /\ drain[d] = "waiting" THEN "resolved" ELSE drain[d]]
    /\ stopping' = IF n = 0 /\ stopping = "draining" THEN "drained" ELSE stopping

-----------------------------------------------------------------------------
(* Producers.                                                            *)

Enqueue(p, k) ==
    /\ producer[p] = "ready"
    /\ running
    /\ enqueued < MaxItems
    /\ arrival' = Append(arrival, k)
    /\ queues' = [queues EXCEPT ![partition(k)] = Append(@, enqueued + 1)]
    /\ Wake({partition(k)})
    /\ producer' = [producer EXCEPT ![p] =
           IF outstanding + 1 >= MaxQueueSize THEN "parked" ELSE @]
    /\ UNCHANGED <<current, processed, failed, finished, running, drain, mark, stopping>>

\* enqueue() on a stopped pool rejects, which ends the caller's loop.
Reject(p) ==
    /\ producer[p] = "ready"
    /\ ~running
    /\ producer' = [producer EXCEPT ![p] = "rejected"]
    /\ UNCHANGED <<arrival, queues, current, consumer, processed, failed,
                   finished, running, drain, mark, stopping>>

-----------------------------------------------------------------------------
(* Consumers.                                                            *)

\* The continuation of the waker promise.
Resume(w) ==
    /\ consumer[w] = "woken"
    /\ RunLoop(w)
    /\ UNCHANGED <<arrival, producer, processed, failed, finished, running,
                   drain, mark, stopping>>

\* process(item) settles: count it, run the finally block, go round the loop.
Settle(w) ==
    /\ consumer[w] = "busy"
    /\ finished' = finished \cup {current[w]}
    /\ releaseBackpressure(outstanding - 1)
    /\ resolveDrainIfIdle(outstanding - 1)
    /\ RunLoop(w)
    /\ UNCHANGED <<arrival, running, mark>>

Succeed(w) ==
    /\ processed' = processed + 1
    /\ Settle(w)
    /\ UNCHANGED failed

Fail(w) ==
    /\ failed' = failed + 1
    /\ Settle(w)
    /\ UNCHANGED processed

-----------------------------------------------------------------------------
(* drain() and stop().                                                   *)

DrainCall(d) ==
    /\ drain[d] = "none"
    /\ drain' = [drain EXCEPT ![d] = IF outstanding = 0 THEN "resolved" ELSE "waiting"]
    /\ mark' = [mark EXCEPT ![d] = enqueued]
    /\ UNCHANGED <<arrival, queues, current, consumer, producer, processed,
                   failed, finished, running, stopping>>

StopCall ==
    /\ stopping = "no"
    /\ stopping' = IF outstanding = 0 THEN "drained" ELSE "draining"
    /\ UNCHANGED <<arrival, queues, current, consumer, producer, processed,
                   failed, finished, running, drain, mark>>

\* Regression: stop() clears the flag and leaves idle consumers asleep.
StopConsumersAsleep ==
    /\ stopping = "drained"
    /\ running' = FALSE
    /\ stopping' = "closing"
    /\ UNCHANGED <<arrival, queues, current, consumer, producer, processed, failed,
                   finished, drain, mark>>

\* stop() resumes after its drain(): items may have arrived in between.
StopConsumers ==
    /\ stopping = "drained"
    /\ running' = FALSE
    /\ Wake(Workers)
    /\ stopping' = "closing"
    /\ UNCHANGED <<arrival, queues, current, producer, processed, failed,
                   finished, drain, mark>>

StopDone ==
    /\ stopping = "closing"
    /\ \A w \in Workers : consumer[w] = "done"
    /\ stopping' = "stopped"
    /\ UNCHANGED <<arrival, queues, current, consumer, producer, processed,
                   failed, finished, running, drain, mark>>

\* Nothing is left to do once stop() has returned.
Terminated == stopping = "stopped" /\ UNCHANGED vars

Next ==
    \/ \E p \in Producers, k \in Keys : Enqueue(p, k)
    \/ \E p \in Producers : Reject(p)
    \/ \E w \in Workers : Resume(w) \/ Succeed(w) \/ Fail(w)
    \/ \E d \in Drainers : DrainCall(d)
    \/ StopCall \/ StopConsumers \/ StopDone
    \/ Terminated

Spec == Init /\ [][Next]_vars

(* The event loop runs every ready continuation, and process() is assumed *)
(* to settle.  Nobody is obliged to enqueue, drain or stop.               *)
Fairness ==
    /\ \A w \in Workers : WF_vars(Resume(w) \/ Succeed(w) \/ Fail(w))
    /\ WF_vars(StopConsumers)
    /\ WF_vars(StopDone)

FairSpec == Spec /\ Fairness

-----------------------------------------------------------------------------
(* Properties.                                                           *)

Busy == {w \in Workers : consumer[w] = "busy"}
Parked == {p \in Producers : producer[p] = "parked"}

\* Type invariant of the pool's variables.
TypeOK ==
    /\ arrival \in Seq(Keys)
    /\ queues \in [Workers -> Seq(Nat)]
    /\ current \in [Workers -> Nat]
    /\ consumer \in [Workers -> {"idle", "woken", "busy", "done"}]
    /\ producer \in [Producers -> {"ready", "parked", "rejected"}]
    /\ processed \in Nat
    /\ failed \in Nat
    /\ finished \in SUBSET Nat
    /\ running \in BOOLEAN
    /\ drain \in [Drainers -> {"none", "waiting", "resolved"}]
    /\ mark \in [Drainers -> Nat]
    /\ stopping \in {"no", "draining", "drained", "closing", "stopped"}

\* Per-contract ordering: while an item is being processed, every earlier item
\* of the same contract has already settled (so no two of them overlap either).
PerKeyOrder ==
    \A w \in Busy : \A j \in 1 .. current[w] - 1 :
        arrival[j] = arrival[current[w]] => j \in finished

\* Items are never dropped nor handed out twice: an accepted item is settled,
\* or being processed by one consumer, or queued in one place.
NoItemLost ==
    \A i \in 1 .. enqueued :
        LET holders == {w \in Busy : current[w] = i}
            slots   == {s \in Workers \X (1 .. enqueued) :
                            s[2] <= Len(queues[s[1]]) /\ queues[s[1]][s[2]] = i}
        IN Cardinality(holders) + Cardinality(slots)
             = IF i \in finished THEN 0 ELSE 1

\* Backpressure: a caller is parked only while the pool is saturated, and each
\* item over the threshold is owed by a caller that is parked for it.
Backpressure ==
    /\ Parked # {} => outstanding >= MaxQueueSize
    /\ outstanding <= MaxQueueSize - 1 + Cardinality(Parked)

\* drain() resolves only once every item accepted before the call has settled.
DrainSound ==
    \A d \in Drainers : drain[d] = "resolved" => 1 .. mark[d] \subseteq finished

\* stop() returns only when everything the pool ever accepted has settled,
\* including items that arrived between its drain and the clearing of running.
StopSound == stopping = "stopped" => finished = 1 .. enqueued

\* The items of a contract that wait, and those in process.
KeyPending(k) == {i \in {queues[partition(k)][n] : n \in DOMAIN queues[partition(k)]} : arrival[i] = k}
KeyActive(k) == {current[w] : w \in {v \in Busy : arrival[current[v]] = k}}

Channel == INSTANCE KeyedChannel WITH
    Items   <- 1 .. MaxItems,
    pending <- [k \in Keys |-> KeyPending(k)],
    active  <- [k \in Keys |-> KeyActive(k)],
    served  <- finished

\* Every step of the pool is one of the channel, or none.
ImplementsSteps == Channel!Init /\ [][Channel!Next]_(Channel!vars)

\* The pool behaves like one FIFO per contract, each item processed exactly
\* once, one at a time and in order, and every item eventually processed.
ImplementsChannel == Channel!Spec

\* Every accepted item is eventually processed, whatever is enqueued or stopped.
EveryItemSettles ==
    \A i \in 1 .. MaxItems : (i <= enqueued) ~> (i \in finished)

\* A parked producer is eventually released.
ParkedReleased == \A p \in Producers : (producer[p] = "parked") ~> (producer[p] # "parked")

\* stop() eventually returns (the number of items is finite).
StopReturns == (stopping # "no") ~> (stopping = "stopped")

\* What enqueue(), drain() and stop() promise their callers, over any schedule of the
\* consumers: who is parked and released, and what has settled when a promise resolves.
PromisesKept == TypeOK /\ Backpressure /\ DrainSound /\ StopSound

\* Under fair scheduling everything that waits goes on: items, parked producers, stop().
EverythingSettles == EveryItemSettles /\ ParkedReleased /\ StopReturns
=============================================================================
