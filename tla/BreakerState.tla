---------------------------- MODULE BreakerState ----------------------------
(***************************************************************************)
(* The state of one circuit breaker (lib/resilience/circuit-breaker.ts) as *)
(* a record, and what recording a result does to it.  CircuitBreaker runs  *)
(* one of them, ResilientClient one per endpoint.                          *)
(*                                                                         *)
(* The two counters are only compared with their thresholds, so they stop  *)
(* counting there.  A timer is the delay it was armed with, 0 for none.    *)
(***************************************************************************)
EXTENDS Naturals

CONSTANTS
    failureThreshold,  \* consecutive failures that open the circuit
    successThreshold,  \* successes that close it again
    resetTimeout,      \* first delay in OPEN
    maxResetTimeout    \* cap of the delay

ASSUME BreakerAssumption ==
    /\ failureThreshold \in Nat \ {0} /\ successThreshold \in Nat \ {0}
    /\ resetTimeout \in Nat \ {0} /\ maxResetTimeout \in Nat
    /\ resetTimeout <= maxResetTimeout

States == {"CLOSED", "OPEN", "HALF_OPEN"}

Delays == resetTimeout .. maxResetTimeout

Breaker == [state : States, failures : 0 .. failureThreshold,
            successes : 0 .. successThreshold, backoff : Delays,
            timer : {0} \cup Delays, disposed : BOOLEAN]

InitialBreaker ==
    [state |-> "CLOSED", failures |-> 0, successes |-> 0,
     backoff |-> resetTimeout, timer |-> 0, disposed |-> FALSE]

atMost(n, bound) == IF n > bound THEN bound ELSE n

\* Regression: the pending timer is not cleared when the state changes.
transitionToKeepTimer(b, s) ==
    IF b.state = s THEN b
    ELSE [b EXCEPT !.state = s, !.timer = IF s = "OPEN" THEN b.backoff ELSE @]

\* Regression: the timer is armed only by the first opening.
transitionToArmOnce(b, s) ==
    IF b.state = s THEN b
    ELSE [b EXCEPT !.state = s,
                   !.timer = IF s = "OPEN" /\ b.state = "CLOSED" THEN b.backoff ELSE 0]

transitionTo(b, s) ==
    IF b.state = s THEN b
    ELSE [b EXCEPT !.state = s, !.timer = IF s = "OPEN" THEN b.backoff ELSE 0]

\* Regression: a success does not end the run of failures.
recordSuccessKeepFailures(b) ==
    LET n == [b EXCEPT !.successes = atMost(@ + 1, successThreshold),
                       !.backoff = resetTimeout]
    IN  IF n.state = "HALF_OPEN" /\ n.successes >= successThreshold
        THEN [transitionTo(n, "CLOSED") EXCEPT !.successes = 0]
        ELSE n

recordSuccess(b) ==
    LET n == [b EXCEPT !.failures = 0,
                       !.successes = atMost(@ + 1, successThreshold),
                       !.backoff = resetTimeout]
    IN  IF n.state = "HALF_OPEN" /\ n.successes >= successThreshold
        THEN [transitionTo(n, "CLOSED") EXCEPT !.successes = 0]
        ELSE n

\* Regression: the circuit reopens before the delay is doubled.
recordFailureSwapped(b) ==
    LET n == [b EXCEPT !.successes = 0, !.failures = atMost(@ + 1, failureThreshold)]
    IN  CASE n.state = "HALF_OPEN" ->
               [transitionTo(n, "OPEN") EXCEPT !.failures = 0,
                   !.backoff = atMost(2 * @, maxResetTimeout)]
          [] n.state = "CLOSED" /\ n.failures >= failureThreshold -> transitionTo(n, "OPEN")
          [] OTHER -> n

\* Regression: the delay is doubled without a cap.
recordFailureUncapped(b) ==
    LET n == [b EXCEPT !.successes = 0, !.failures = atMost(@ + 1, failureThreshold)]
    IN  CASE n.state = "HALF_OPEN" ->
               [transitionTo([n EXCEPT !.backoff = 2 * @], "OPEN") EXCEPT !.failures = 0]
          [] n.state = "CLOSED" /\ n.failures >= failureThreshold -> transitionTo(n, "OPEN")
          [] OTHER -> n

recordFailure(b) ==
    LET n == [b EXCEPT !.successes = 0, !.failures = atMost(@ + 1, failureThreshold)]
    IN  CASE n.state = "HALF_OPEN" ->
               [transitionTo([n EXCEPT !.backoff = atMost(2 * @, maxResetTimeout)], "OPEN")
                  EXCEPT !.failures = 0]
          [] n.state = "CLOSED" /\ n.failures >= failureThreshold -> transitionTo(n, "OPEN")
          [] OTHER -> n

\* close(), which forgets the failures first.
closeCircuit(b) ==
    transitionTo([b EXCEPT !.failures = 0, !.successes = 0, !.backoff = resetTimeout], "CLOSED")

disposeBreaker(b) == [b EXCEPT !.disposed = TRUE, !.timer = 0]
=============================================================================
