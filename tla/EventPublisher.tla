--------------------------- MODULE EventPublisher ---------------------------
(***************************************************************************)
(* The indexer worker of src/worker/indexer.ts: handleEvent of             *)
(* StellarIndexerWorker over the RedisPublisher with its publish queue.    *)
(*                                                                         *)
(* Messages are numbered in the order handleEvent is called.  A publish    *)
(* call is in flight until Redis answers it or the client rejects it: the  *)
(* client sends what a lost connection left unanswered once more.  A       *)
(* flush is the list of messages it has still to publish, the first of     *)
(* which may be in flight.  Between two flushes the connection is lost, so *)
(* the losses before it began tell a flush from the others.                *)
(***************************************************************************)
EXTENDS Naturals, Sequences, FiniteSets

CONSTANTS
    maxQueueSize,  \* most messages publish() queues
    maxReconnectAttempts,  \* the retry strategy gives up after these
    MaxMessages,   \* bound: events handled
    MaxLosses      \* bound: connection losses, and rejected publish calls

ASSUME PublisherAssumption ==
    maxQueueSize \in Nat /\ maxReconnectAttempts \in Nat /\ MaxMessages \in Nat /\ MaxLosses \in Nat

VARIABLES
    worker,        \* life of the worker process
    isConnected,   \* the publisher's flag
    reconnectAttempts,
    publishQueue,
    flushes,       \* running flushQueue() calls: [since, rest, sent]
    sending,       \* messages whose handleEvent awaits Redis
    handled,       \* events handed to handleEvent
    processed,     \* history: messages counted in processedCount, webhooks dispatched
    errors,        \* history: messages counted in errorCount, which has the indexer's own errors too
    untranslated,  \* history: messages that could not be translated or written
    confirmed,     \* history: how often Redis confirmed that it published a message
    resent,        \* history: how often it did so and the answer was lost
    dropped,       \* history: messages dropped by a full queue
    rejected,      \* history: messages some publish call was rejected for
    overrun,       \* history: times flushQueue queued a message itself
    losses         \* counter for MaxLosses

link == <<isConnected, reconnectAttempts>>
queues == <<publishQueue, flushes, sending, handled>>
tally == <<processed, errors, untranslated, confirmed, resent, dropped, rejected, overrun>>
pubvars == <<worker, link, queues, tally, losses>>

Messages == 1 .. MaxMessages

PubInit ==
    /\ worker = "connecting"
    /\ isConnected = FALSE /\ reconnectAttempts = 0
    /\ publishQueue = <<>> /\ flushes = {} /\ sending = {} /\ handled = 0
    /\ processed = {} /\ errors = {} /\ untranslated = {}
    /\ confirmed = [m \in Messages |-> 0] /\ resent = [m \in Messages |-> 0]
    /\ dropped = {} /\ rejected = {} /\ overrun = 0
    /\ losses = 0

Running == worker \in {"running", "stopping"}

\* Regression: one message too many fits in the queue.
enqueueOneMore(m) ==
    IF Len(publishQueue) <= maxQueueSize
    THEN publishQueue' = Append(publishQueue, m) /\ UNCHANGED dropped
    ELSE dropped' = dropped \cup {m} /\ UNCHANGED publishQueue

\* publish() without a connection: queue the message, or drop it.
enqueue(m) ==
    IF Len(publishQueue) < maxQueueSize
    THEN publishQueue' = Append(publishQueue, m) /\ UNCHANGED dropped
    ELSE dropped' = dropped \cup {m} /\ UNCHANGED publishQueue

-----------------------------------------------------------------------------
(* The connection.                                                       *)

\* Regression: what was queued stays in the queue while it is flushed.
flushQueueKeep ==
    IF publishQueue = <<>> THEN UNCHANGED <<publishQueue, flushes>>
    ELSE /\ flushes' = flushes \cup {[since |-> losses, rest |-> publishQueue, sent |-> FALSE]}
         /\ UNCHANGED publishQueue

\* flushQueue() up to its first publish().
flushQueue ==
    IF publishQueue = <<>> THEN UNCHANGED <<publishQueue, flushes>>
    ELSE /\ flushes' = flushes \cup {[since |-> losses, rest |-> publishQueue, sent |-> FALSE]}
         /\ publishQueue' = <<>>

\* The "ready" event; the first one also ends connect() and starts the indexer.
Ready ==
    /\ worker # "exited" /\ ~isConnected /\ reconnectAttempts <= maxReconnectAttempts
    /\ isConnected' = TRUE /\ reconnectAttempts' = 0
    /\ worker' = IF worker = "connecting" THEN "running" ELSE worker
    /\ flushQueue
    /\ UNCHANGED <<sending, handled, tally, losses>>

\* connect() times out or meets an error before it is ready: the process ends.
ConnectFails ==
    /\ worker = "connecting"
    /\ worker' = "exited"
    /\ UNCHANGED <<link, queues, tally, losses>>

Unanswered == sending \cup {Head(f.rest) : f \in {g \in flushes : g.sent}}

\* The "error" or "close" event.  Redis may have published what is in flight without its
\* answer arriving: the client sends these commands again (maxRetriesPerRequest).
Loss ==
    /\ isConnected /\ losses < MaxLosses
    /\ isConnected' = FALSE
    /\ losses' = losses + 1
    /\ \E S \in SUBSET Unanswered : resent' = [m \in Messages |-> resent[m] + IF m \in S THEN 1 ELSE 0]
    /\ UNCHANGED <<worker, reconnectAttempts, queues, processed, errors, untranslated, confirmed,
                   dropped, rejected, overrun>>

\* The retry strategy: one more attempt than maxReconnectAttempts is the end.
Reconnecting ==
    /\ worker # "exited" /\ ~isConnected /\ reconnectAttempts <= maxReconnectAttempts
    /\ reconnectAttempts' = reconnectAttempts + 1
    /\ UNCHANGED <<worker, isConnected, queues, tally, losses>>

-----------------------------------------------------------------------------
(* handleEvent() and publish().                                          *)

HandleEvent ==
    /\ Running /\ handled < MaxMessages
    /\ handled' = handled + 1
    /\ IF isConnected
       THEN /\ sending' = sending \cup {handled + 1}
            /\ UNCHANGED <<publishQueue, dropped, processed>>
       ELSE /\ enqueue(handled + 1)
            /\ processed' = processed \cup {handled + 1}
            /\ UNCHANGED sending
    /\ UNCHANGED <<worker, link, flushes, errors, untranslated, confirmed, resent, rejected, overrun, losses>>

\* translateEvent() or JSON.stringify() throws: the event is an error, and nothing is sent.
TranslateFails ==
    /\ Running /\ handled < MaxMessages
    /\ handled' = handled + 1
    /\ errors' = errors \cup {handled + 1} /\ untranslated' = untranslated \cup {handled + 1}
    /\ UNCHANGED <<worker, link, publishQueue, flushes, sending, processed, confirmed, resent, dropped,
                   rejected, overrun, losses>>

\* Redis publishes and answers: count the event and dispatch its webhooks.
Published(m) ==
    /\ Running /\ m \in sending
    /\ sending' = sending \ {m}
    /\ confirmed' = [confirmed EXCEPT ![m] = @ + 1]
    /\ processed' = processed \cup {m}
    /\ UNCHANGED <<worker, link, publishQueue, flushes, handled, errors, untranslated, resent, dropped,
                   rejected, overrun, losses>>

\* The call is rejected: queue the message, if there is room, and throw.
PublishFails(m) ==
    /\ Running /\ m \in sending /\ losses < MaxLosses
    /\ losses' = losses + 1
    /\ sending' = sending \ {m}
    /\ enqueue(m)
    /\ rejected' = rejected \cup {m}
    /\ errors' = errors \cup {m}
    /\ UNCHANGED <<worker, link, flushes, handled, processed, untranslated, confirmed, resent, overrun>>

-----------------------------------------------------------------------------
(* The loop of flushQueue().                                             *)

Rest(f) ==
    IF Len(f.rest) > 1 THEN {[since |-> f.since, rest |-> Tail(f.rest), sent |-> FALSE]}
    ELSE {}

Advance(f) == flushes' = (flushes \ {f}) \cup Rest(f)

FlushSend(f) ==
    /\ Running /\ ~f.sent
    /\ IF isConnected
       THEN /\ flushes' = (flushes \ {f}) \cup {[since |-> f.since, rest |-> f.rest, sent |-> TRUE]}
            /\ UNCHANGED <<publishQueue, dropped>>
       ELSE Advance(f) /\ enqueue(Head(f.rest))
    /\ UNCHANGED <<worker, link, sending, handled, processed, errors, untranslated, confirmed, resent,
                   rejected, overrun, losses>>

FlushPublished(f) ==
    /\ Running /\ f.sent
    /\ Advance(f)
    /\ confirmed' = [confirmed EXCEPT ![Head(f.rest)] = @ + 1]
    /\ UNCHANGED <<worker, link, publishQueue, sending, handled, processed, errors, untranslated, resent,
                   dropped, rejected, overrun, losses>>

\* Regression: a message that could not be flushed is given up.
FlushFailsForget(f) ==
    /\ Running /\ f.sent /\ losses < MaxLosses
    /\ losses' = losses + 1
    /\ Advance(f)
    /\ UNCHANGED <<worker, link, publishQueue, sending, handled, tally>>

\* publish() queues the message if there is room, and flushQueue() once more.
FlushFails(f) ==
    LET m == Head(f.rest)
        queued == IF Len(publishQueue) < maxQueueSize THEN Append(publishQueue, m) ELSE publishQueue
    IN  /\ Running /\ f.sent /\ losses < MaxLosses
        /\ losses' = losses + 1
        /\ Advance(f)
        /\ publishQueue' = Append(queued, m)
        /\ overrun' = overrun + 1
        /\ rejected' = rejected \cup {m}
        /\ UNCHANGED <<worker, link, sending, handled, processed, errors, untranslated, confirmed, resent,
                       dropped>>

-----------------------------------------------------------------------------
(* stop(): the indexer stops, quit() waits for the commands sent so far. *)

Stop ==
    /\ worker = "running"
    /\ worker' = "stopping"
    /\ UNCHANGED <<link, queues, tally, losses>>

\* quit() settled and the process exits, with whatever is still queued.
Exit ==
    /\ worker = "stopping"
    /\ worker' = "exited"
    /\ UNCHANGED <<link, queues, tally, losses>>

Flush == \E f \in flushes : FlushSend(f) \/ FlushPublished(f) \/ FlushFails(f)

Deliver == \E m \in Messages : Published(m) \/ PublishFails(m)

PubNext ==
    \/ Ready \/ ConnectFails \/ Loss \/ Reconnecting
    \/ HandleEvent \/ TranslateFails \/ Deliver \/ Flush \/ Stop \/ Exit

\* Redis answers or rejects what was sent, and a lost connection comes back
\* unless the retry strategy gives up first.
PubFairness == WF_pubvars(Ready) /\ WF_pubvars(Flush) /\ WF_pubvars(Deliver)

PubSpec == PubInit /\ [][PubNext]_pubvars /\ PubFairness

-----------------------------------------------------------------------------
(* Properties.                                                           *)

PubTypeOK ==
    /\ worker \in {"connecting", "running", "stopping", "exited"}
    /\ isConnected \in BOOLEAN /\ reconnectAttempts \in 0 .. maxReconnectAttempts + 1
    /\ publishQueue \in Seq(Messages)
    /\ \A f \in flushes :
         /\ f.since \in 0 .. MaxLosses /\ f.rest \in Seq(Messages) \ {<<>>} /\ f.sent \in BOOLEAN
    /\ handled \in 0 .. MaxMessages
    /\ \A S \in {sending, processed, errors, untranslated, dropped, rejected} : S \subseteq Messages
    /\ confirmed \in [Messages -> Nat] /\ resent \in [Messages -> Nat]
    /\ losses \in 0 .. MaxLosses /\ overrun \in 0 .. losses

At(s, m) == {i \in DOMAIN s : s[i] = m}

\* Where m waits or is on its way: the queue, its own publish call, or a flush.
Places(m) ==
    {<<"queue", 0, i>> : i \in At(publishQueue, m)}
      \cup {<<"call", 0, 0>> : s \in sending \cap {m}}
      \cup UNION {{<<"flush", f.since, i>> : i \in At(f.rest, m)} : f \in flushes}

\* How often m was published and confirmed, waits, or is on its way.
Copies(m) == confirmed[m] + Cardinality(Places(m))

\* A message no publish call was rejected for is published exactly once, however often
\* the connection is lost while it waits or is flushed, and again at most once for each
\* loss that took the answer; never if the full queue dropped it or it could not be
\* translated.
ExactlyOnceUnlessRejected ==
    \A m \in (1 .. handled) \ rejected :
        LET never == m \in dropped \cup untranslated
        IN  /\ Copies(m) = IF never THEN 0 ELSE 1
            /\ resent[m] <= IF never THEN 0 ELSE losses

\* A message whose publish call was rejected is not lost while the worker lives,
\* unless the queue was full: it waits for the next flush, maybe twice.
RejectedIsKept == \A m \in rejected \ dropped : confirmed[m] > 0 \/ Places(m) # {}

\* The queue outgrows its limit only by the messages flushQueue() queues itself.
QueueBound == Len(publishQueue) <= maxQueueSize + overrun

\* A handled event is counted once: as an error when it could not be translated or its
\* own publish call was rejected, although that message may still go out with a flush.
CountedOnce ==
    /\ processed \cap errors = {}
    /\ processed \cup errors \cup sending = 1 .. handled
    /\ untranslated \subseteq errors /\ errors \subseteq rejected \cup untranslated

GaveUp == reconnectAttempts > maxReconnectAttempts

\* What was queued while Redis was away goes out once it is back: there is always a
\* time to come when everything in the queue was published before, rejected, dropped by
\* a full queue, or given up with the connection.
QueueDrains ==
    []<>(\A m \in Messages :
            At(publishQueue, m) # {}
              => confirmed[m] > 0 \/ m \in rejected \cup dropped \/ GaveUp \/ worker = "exited")

\* No event is lost or published twice without a cause, and the worker's counts
\* agree with what it was told.
PublisherSafety ==
    PubTypeOK /\ ExactlyOnceUnlessRejected /\ RejectedIsKept /\ QueueBound /\ CountedOnce
=============================================================================
