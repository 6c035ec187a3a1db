------------------------------ MODULE Webhooks ------------------------------
(***************************************************************************)
(* Webhook subscriptions and their deliveries: lib/webhooks/deliver.ts     *)
(* and the routes that register and deactivate a subscription.             *)
(*                                                                         *)
(* The subscriptions of an event are read, and its deliveries start when   *)
(* the answer arrives.  A running delivery posts one event to one          *)
(* subscription, with back-off between attempts, then writes its row and,  *)
(* after the last failure, deactivates the subscription.  Any database     *)
(* call may fail.                                                          *)
(***************************************************************************)
EXTENDS Naturals, FiniteSets

CONSTANTS
    Subscriptions,
    Contracts,
    contractOf,      \* the contract each subscription is for
    MAX_ATTEMPTS,
    MaxDispatches,   \* bound: events dispatched, numbered from 1
    MaxFaults        \* bound: database errors and restarts of the process

ASSUME WebhookAssumption ==
    /\ IsFiniteSet(Subscriptions) /\ contractOf \in [Subscriptions -> Contracts]
    /\ MAX_ATTEMPTS \in Nat \ {0}
    /\ MaxDispatches \in Nat /\ MaxFaults \in Nat

VARIABLES
    subscription,  \* none, active, off
    toStart,       \* subscriptions read as active, whose deliveries are still to start
    deliveries,    \* running deliverToSubscription() calls
    rows,          \* WebhookDelivery rows
    dispatches,    \* events dispatched so far
    owed,          \* history: subscriptions read as active, by event
    accepted,      \* history: times the worker got a 2xx answer, by delivery
    taken,         \* history: times the receiver took the event, answered in time or not
    unsubscribed,  \* history: subscriptions their owner deactivated
    lost,          \* history: deliveries a fault ended before their row
    faults         \* counter for MaxFaults

hookvars ==
    <<subscription, toStart, deliveries, rows, dispatches, owed, accepted, taken, unsubscribed, lost, faults>>

receipts == <<accepted, taken>>

Dispatched == 1 .. MaxDispatches
Key == Subscriptions \X Dispatched
KeyOf(d) == <<d.sub, d.event>>

HookInit ==
    /\ subscription = [s \in Subscriptions |-> "none"]
    /\ toStart = {} /\ deliveries = {} /\ rows = {} /\ dispatches = 0 /\ owed = {}
    /\ accepted = [k \in Key |-> 0] /\ taken = [k \in Key |-> 0]
    /\ unsubscribed = {} /\ lost = {} /\ faults = 0

\* POST /api/webhooks, past its validation and rate limit.
Register(s) ==
    /\ subscription[s] = "none"
    /\ subscription' = [subscription EXCEPT ![s] = "active"]
    /\ UNCHANGED <<toStart, deliveries, rows, dispatches, owed, receipts, unsubscribed, lost, faults>>

\* DELETE /api/webhooks/[id]
Unsubscribe(s) ==
    /\ subscription[s] # "none"
    /\ subscription' = [subscription EXCEPT ![s] = "off"]
    /\ unsubscribed' = unsubscribed \cup {s}
    /\ UNCHANGED <<toStart, deliveries, rows, dispatches, owed, receipts, lost, faults>>

\* dispatchWebhooks() of an event of contract c: findMany() reads the active subscriptions.
FindSubscriptions(c) ==
    LET active == {s \in Subscriptions : subscription[s] = "active" /\ contractOf[s] = c}
    IN  /\ dispatches < MaxDispatches
        /\ dispatches' = dispatches + 1
        /\ toStart' = toStart \cup (active \X {dispatches + 1})
        /\ owed' = owed \cup (active \X {dispatches + 1})
        /\ UNCHANGED <<subscription, deliveries, rows, receipts, unsubscribed, lost, faults>>

\* findMany() fails: the event is dispatched to nobody.
DispatchFails ==
    /\ dispatches < MaxDispatches /\ faults < MaxFaults
    /\ dispatches' = dispatches + 1
    /\ faults' = faults + 1
    /\ UNCHANGED <<subscription, toStart, deliveries, rows, owed, receipts, unsubscribed, lost>>

FirstAttempt(k) == [sub |-> k[1], event |-> k[2], attempt |-> 1, at |-> "post"]

\* Its answer arrives: a delivery for each of them, active or not by now.
StartDeliveries(e) ==
    LET due == {k \in toStart : k[2] = e}
    IN  /\ due # {}
        /\ toStart' = toStart \ due
        /\ deliveries' = deliveries \cup {FirstAttempt(k) : k \in due}
        /\ UNCHANGED <<subscription, rows, dispatches, owed, receipts, unsubscribed, lost, faults>>

Replace(d, D) == deliveries' = (deliveries \ {d}) \cup D

\* Regression: one attempt too many.
PostFailsAgain(d) ==
    /\ d.at = "post"
    /\ Replace(d, IF d.attempt <= MAX_ATTEMPTS THEN {[d EXCEPT !.attempt = @ + 1]}
                  ELSE {[d EXCEPT !.at = "recordFailure"]})
    /\ \E n \in {0, 1} : taken' = [taken EXCEPT ![KeyOf(d)] = @ + n]
    /\ UNCHANGED <<subscription, toStart, rows, dispatches, owed, accepted, unsubscribed, lost, faults>>

\* An attempt fails or times out, which the receiver may have taken: back off, or give up.
PostFails(d) ==
    /\ d.at = "post"
    /\ Replace(d, IF d.attempt < MAX_ATTEMPTS THEN {[d EXCEPT !.attempt = @ + 1]}
                  ELSE {[d EXCEPT !.at = "recordFailure"]})
    /\ \E n \in {0, 1} : taken' = [taken EXCEPT ![KeyOf(d)] = @ + n]
    /\ UNCHANGED <<subscription, toStart, rows, dispatches, owed, accepted, unsubscribed, lost, faults>>

PostSucceeds(d) ==
    /\ d.at = "post"
    /\ Replace(d, {[d EXCEPT !.at = "recordSuccess"]})
    /\ accepted' = [accepted EXCEPT ![KeyOf(d)] = @ + 1]
    /\ taken' = [taken EXCEPT ![KeyOf(d)] = @ + 1]
    /\ UNCHANGED <<subscription, toStart, rows, dispatches, owed, unsubscribed, lost, faults>>

Row(d, success) ==
    [sub |-> d.sub, event |-> d.event, success |-> success, attemptCount |-> d.attempt]

RecordSuccess(d) ==
    /\ d.at = "recordSuccess"
    /\ rows' = rows \cup {Row(d, TRUE)}
    /\ Replace(d, {})
    /\ UNCHANGED <<subscription, toStart, dispatches, owed, receipts, unsubscribed, lost, faults>>

RecordFailure(d) ==
    /\ d.at = "recordFailure"
    /\ rows' = rows \cup {Row(d, FALSE)}
    /\ Replace(d, {[d EXCEPT !.at = "deactivate"]})
    /\ UNCHANGED <<subscription, toStart, dispatches, owed, receipts, unsubscribed, lost, faults>>

\* Regression: a delivery deactivates whenever its first attempt failed.
DeactivateEarly(d) ==
    /\ d.at \in {"deactivate", "post"} /\ (d.at = "post" => d.attempt > 1)
    /\ subscription' = [subscription EXCEPT ![d.sub] = "off"]
    /\ Replace(d, IF d.at = "post" THEN {d} ELSE {})
    /\ UNCHANGED <<toStart, rows, dispatches, owed, receipts, unsubscribed, lost, faults>>

Deactivate(d) ==
    /\ d.at = "deactivate"
    /\ subscription' = [subscription EXCEPT ![d.sub] = "off"]
    /\ Replace(d, {})
    /\ UNCHANGED <<toStart, rows, dispatches, owed, receipts, unsubscribed, lost, faults>>

\* A database call of the delivery fails: it ends there, and is only logged.
DeliveryAborts(d) ==
    /\ d.at # "post" /\ faults < MaxFaults
    /\ faults' = faults + 1
    /\ lost' = IF d.at = "deactivate" THEN lost ELSE lost \cup {KeyOf(d)}
    /\ Replace(d, {})
    /\ UNCHANGED <<subscription, toStart, rows, dispatches, owed, receipts, unsubscribed>>

\* The worker process ends: nothing resumes its deliveries.
ProcessExit ==
    /\ deliveries # {} \/ toStart # {}
    /\ faults < MaxFaults
    /\ faults' = faults + 1
    /\ lost' = lost \cup toStart \cup {KeyOf(d) : d \in {x \in deliveries : x.at # "deactivate"}}
    /\ toStart' = {} /\ deliveries' = {}
    /\ UNCHANGED <<subscription, rows, dispatches, owed, receipts, unsubscribed>>

deliverToSubscription(d) ==
    \/ PostFails(d) \/ PostSucceeds(d)
    \/ RecordSuccess(d) \/ RecordFailure(d) \/ Deactivate(d) \/ DeliveryAborts(d)

HookNext ==
    \/ \E s \in Subscriptions : Register(s) \/ Unsubscribe(s)
    \/ \E c \in Contracts : FindSubscriptions(c)
    \/ \E e \in Dispatched : StartDeliveries(e)
    \/ DispatchFails \/ ProcessExit
    \/ \E d \in deliveries : deliverToSubscription(d)

HookSpec == HookInit /\ [][HookNext]_hookvars

-----------------------------------------------------------------------------
(* Properties.                                                           *)

HookTypeOK ==
    /\ subscription \in [Subscriptions -> {"none", "active", "off"}]
    /\ deliveries \subseteq
         [sub : Subscriptions, event : Dispatched, attempt : 1 .. MAX_ATTEMPTS,
          at : {"post", "recordSuccess", "recordFailure", "deactivate"}]
    /\ rows \subseteq [sub : Subscriptions, event : Dispatched, success : BOOLEAN,
                       attemptCount : 1 .. MAX_ATTEMPTS]
    /\ accepted \in [Key -> Nat] /\ taken \in [Key -> Nat]
    /\ dispatches \in 0 .. MaxDispatches /\ faults \in 0 .. MaxFaults
    /\ unsubscribed \subseteq Subscriptions
    /\ toStart \subseteq Key /\ owed \subseteq Key /\ lost \subseteq Key

Written(k) == {r \in rows : <<r.sub, r.event>> = k}
Unwritten(k) == {d \in deliveries : KeyOf(d) = k /\ d.at # "deactivate"}

\* What is owed to a subscription that was read as active has still to start, is in
\* progress, has its one row, or was ended by a fault, whatever went off meanwhile; and
\* nothing else is delivered.  The row says whether the receiver answered with success,
\* after which it is posted no more; it takes the event at most once for each attempt.
DeliveryAccounted ==
    \A k \in Key :
        /\ Cardinality(Written(k)) + Cardinality(Unwritten(k)) + Cardinality({k} \cap (toStart \cup lost))
             = Cardinality({k} \cap owed)
        /\ {k} \cap toStart \cap lost = {}
        /\ \A r \in Written(k) : (r.success <=> accepted[k] = 1) /\ taken[k] <= r.attemptCount
        /\ accepted[k] <= 1 /\ accepted[k] <= taken[k] /\ taken[k] <= MAX_ATTEMPTS

\* However the deliveries of several events interleave, a subscription its owner
\* did not end goes off only for a recorded delivery that used up its attempts.
DeactivatedForCause ==
    \A s \in Subscriptions \ unsubscribed :
        subscription[s] = "off" =>
            \E r \in rows : r.sub = s /\ ~r.success /\ r.attemptCount = MAX_ATTEMPTS

\* Every delivery is accounted for, and a subscription goes off for a reason.
WebhookSafety == HookTypeOK /\ DeliveryAccounted /\ DeactivatedForCause
=============================================================================
