----------------------------- MODULE RingBuffer -----------------------------
(***************************************************************************)
(* The queue of one partition of the ingestion pool: class RingBuffer of   *)
(* lib/stellar/ingestion-pool.ts, whose order IngestionPool takes for      *)
(* granted.  A position is masked with the capacity less one, which is its *)
(* remainder as long as the capacity is a power of two.                    *)
(***************************************************************************)
EXTENDS Naturals, Sequences

CONSTANTS
    initialCapacity,
    MaxEnqueued       \* bound: items enqueued, numbered from 1

ASSUME RingAssumption == {initialCapacity, MaxEnqueued} \subseteq Nat

VARIABLES
    buf,       \* a function of the slots 0 .. capacity - 1
    capacity,  \* buf.length
    head, tail, ringSize,
    enqueuedItems,  \* how many so far
    fifo       \* history: the items in the queue, the oldest first

ringvars == <<buf, capacity, head, tail, ringSize, enqueuedItems, fifo>>

Undefined == 0
Masked(n, length) == n % length

\* Regression: the capacity is taken as it is.
nextPow2As(n) == n

\* The smallest power of two that is not below n.
nextPow2(n) == CHOOSE p \in {2 ^ k : k \in 0 .. n} : p >= n /\ \A k \in 0 .. n : 2 ^ k >= n => p <= 2 ^ k

RingInit ==
    /\ capacity = nextPow2(IF initialCapacity < 2 THEN 2 ELSE initialCapacity)
    /\ buf = [slot \in 0 .. capacity - 1 |-> Undefined]
    /\ head = 0 /\ tail = 0 /\ ringSize = 0
    /\ enqueuedItems = 0 /\ fifo = <<>>

\* Regression: the slots are copied as they lie.
growAsItLies == [slot \in 0 .. 2 * capacity - 1 |-> IF slot < capacity THEN buf[slot] ELSE Undefined]

\* _grow(): twice the slots, the contents from the first one on.
grow == [slot \in 0 .. 2 * capacity - 1 |->
            IF slot < ringSize THEN buf[Masked(head + slot, capacity)] ELSE Undefined]

\* enqueue() into a buffer with room, and into a full one, which grows first.
EnqueueItem ==
    /\ enqueuedItems < MaxEnqueued /\ enqueuedItems' = enqueuedItems + 1
    /\ ringSize' = ringSize + 1 /\ fifo' = Append(fifo, enqueuedItems + 1)
    /\ \/ /\ ringSize < capacity
          /\ buf' = [buf EXCEPT ![tail] = enqueuedItems + 1]
          /\ tail' = Masked(tail + 1, capacity)
          /\ UNCHANGED <<capacity, head>>
       \/ /\ ringSize = capacity
          /\ capacity' = 2 * capacity
          /\ buf' = [grow EXCEPT ![ringSize] = enqueuedItems + 1]
          /\ head' = 0 /\ tail' = Masked(ringSize + 1, 2 * capacity)

\* Regression: the slot keeps the item.
DequeueKeep ==
    /\ ringSize > 0
    /\ head' = Masked(head + 1, capacity) /\ ringSize' = ringSize - 1
    /\ fifo' = Tail(fifo)
    /\ UNCHANGED <<buf, capacity, tail, enqueuedItems>>

\* dequeue() of a buffer that is not empty gives buf[head].
DequeueItem ==
    /\ ringSize > 0
    /\ buf' = [buf EXCEPT ![head] = Undefined]
    /\ head' = Masked(head + 1, capacity) /\ ringSize' = ringSize - 1
    /\ fifo' = Tail(fifo)
    /\ UNCHANGED <<capacity, tail, enqueuedItems>>

RingNext == EnqueueItem \/ DequeueItem

RingSpec == RingInit /\ [][RingNext]_ringvars

-----------------------------------------------------------------------------
(* Properties.                                                             *)

\* The slot of the k-th oldest item.
SlotOf(k) == Masked(head + k - 1, capacity)

\* However often the positions wrapped around and the buffer grew in between, the next
\* items to be dequeued are those of the queue in their order.
RingIsFifo ==
    /\ ringSize = Len(fifo)
    /\ \A k \in 1 .. ringSize : buf[SlotOf(k)] = fifo[k]

\* A slot that is not in use refers to nothing, and the next item goes to a free one.
SlotsAreReleased ==
    /\ \A slot \in 0 .. capacity - 1 : buf[slot] # Undefined => \E k \in 1 .. ringSize : slot = SlotOf(k)
    /\ tail = Masked(head + ringSize, capacity)

\* Masking is a remainder only then.
CapacityIsPowerOfTwo == \E k \in 1 .. capacity : capacity = 2 ^ k

RingSafety == ringSize <= capacity /\ RingIsFifo /\ SlotsAreReleased /\ CapacityIsPowerOfTwo
=============================================================================
