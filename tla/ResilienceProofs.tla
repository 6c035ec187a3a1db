--------------------------- MODULE ResilienceProofs ---------------------------
(* Proofs about lib/resilience: the record of a breaker, one breaker with its *)
(* callers, and the client with its bucket and a breaker per endpoint.        *)
EXTENDS CircuitBreaker, ResilientClient, FiniteSetTheorems, TLAPS

-----------------------------------------------------------------------------
(* What the operations on a breaker's record do.                         *)

\* The timer belongs to the opening.
Timely(b) == ~b.disposed => (b.timer # 0 <=> b.state = "OPEN")

\* Also of a disposed breaker only an opening has a timer.
Armed(b) == b.timer # 0 => b.state = "OPEN"

LEMMA DelayFacts ==
    /\ resetTimeout \in Delays
    /\ \A d \in Delays : d \in Nat /\ d # 0 /\ atMost(2 * d, maxResetTimeout) \in Delays
    /\ \A bound \in Nat : \A n \in 0 .. bound : atMost(n + 1, bound) \in 0 .. bound
  BY BreakerAssumption DEF Delays, atMost

\* A change of state arms the timer exactly when the new state is OPEN.
LEMMA TransitionFacts ==
    ASSUME NEW b \in Breaker, NEW s \in States
    PROVE  /\ transitionTo(b, s) \in Breaker
           /\ transitionTo(b, s).state = s
           /\ transitionTo(b, s).failures = b.failures
           /\ transitionTo(b, s).backoff = b.backoff
           /\ transitionTo(b, s).disposed = b.disposed
           /\ b.state # s => transitionTo(b, s).timer = IF s = "OPEN" THEN b.backoff ELSE 0
           /\ b.state = s => transitionTo(b, s) = b
           /\ Timely(b) => Timely(transitionTo(b, s))
           /\ Armed(b) => Armed(transitionTo(b, s))
  <1>1. CASE b.state = s BY <1>1 DEF transitionTo, Breaker
  <1>2. CASE b.state # s
    <2> DEFINE t == IF s = "OPEN" THEN b.backoff ELSE 0
    <2>1. t \in {0} \cup Delays /\ (t # 0 <=> s = "OPEN") BY DelayFacts DEF Breaker
    <2>2. transitionTo(b, s) = [b EXCEPT !.state = s, !.timer = t]
      BY <1>2 DEF transitionTo
    <2> HIDE DEF t
    <2>3. transitionTo(b, s) \in Breaker BY <2>1, <2>2 DEF Breaker
    <2>4. /\ transitionTo(b, s).state = s
          /\ transitionTo(b, s).failures = b.failures
          /\ transitionTo(b, s).backoff = b.backoff
          /\ transitionTo(b, s).disposed = b.disposed
          /\ transitionTo(b, s).timer = t
      BY <2>2 DEF Breaker
    <2> QED BY <1>2, <2>1, <2>3, <2>4 DEF Timely, Armed, t
  <1> QED BY <1>1, <1>2

\* A success forgets the failures and the back-off, and never opens the circuit.
LEMMA SuccessFacts ==
    ASSUME NEW b \in Breaker
    PROVE  /\ recordSuccess(b) \in Breaker
           /\ recordSuccess(b).failures = 0
           /\ recordSuccess(b).state = "OPEN" => b.state = "OPEN"
           /\ recordSuccess(b).state # "CLOSED" => b.state # "CLOSED"
           /\ Timely(b) => Timely(recordSuccess(b))
           /\ Armed(b) => Armed(recordSuccess(b))
  <1> DEFINE n == [b EXCEPT !.failures = 0,
                            !.successes = atMost(@ + 1, successThreshold),
                            !.backoff = resetTimeout]
  <1>1. atMost(b.successes + 1, successThreshold) \in 0 .. successThreshold
    <2>1. b.successes \in 0 .. successThreshold BY DEF Breaker
    <2> QED BY <2>1, DelayFacts, BreakerAssumption
  <1>2. /\ n \in Breaker /\ n.state = b.state /\ n.failures = 0
        /\ n.timer = b.timer /\ n.disposed = b.disposed
    <2>1. 0 \in 0 .. failureThreshold /\ resetTimeout \in Delays BY DelayFacts, BreakerAssumption
    <2> DEFINE m == atMost(b.successes + 1, successThreshold)
    <2>2. n = [b EXCEPT !.failures = 0, !.successes = m, !.backoff = resetTimeout] OBVIOUS
    <2> HIDE DEF m, n
    <2>3. m \in 0 .. successThreshold BY <1>1 DEF m
    <2> QED BY <2>1, <2>2, <2>3 DEF Breaker
  <1>3. (Timely(b) => Timely(n)) /\ (Armed(b) => Armed(n)) BY <1>2 DEF Timely, Armed
  <1>4. recordSuccess(b) = IF n.state = "HALF_OPEN" /\ n.successes >= successThreshold
                           THEN [transitionTo(n, "CLOSED") EXCEPT !.successes = 0]
                           ELSE n
    BY DEF recordSuccess
  <1> HIDE DEF n
  <1>5. CASE n.state = "HALF_OPEN" /\ n.successes >= successThreshold
    <2> DEFINE m == transitionTo(n, "CLOSED")
    <2>1. /\ m \in Breaker /\ m.failures = 0 /\ m.state = "CLOSED"
          /\ (Timely(n) => Timely(m)) /\ (Armed(n) => Armed(m))
      BY <1>2, TransitionFacts DEF States
    <2>2. recordSuccess(b) = [m EXCEPT !.successes = 0] BY <1>4, <1>5
    <2> HIDE DEF m
    <2>3. /\ recordSuccess(b) \in Breaker /\ recordSuccess(b).failures = 0
          /\ recordSuccess(b).state = "CLOSED" /\ recordSuccess(b).timer = m.timer
          /\ recordSuccess(b).disposed = m.disposed
      BY <2>1, <2>2, BreakerAssumption DEF Breaker
    <2>4. (Timely(m) => Timely(recordSuccess(b))) /\ (Armed(m) => Armed(recordSuccess(b)))
      BY <2>1, <2>3 DEF Timely, Armed
    <2> QED BY <1>2, <1>3, <1>5, <2>1, <2>3, <2>4
  <1>6. CASE ~(n.state = "HALF_OPEN" /\ n.successes >= successThreshold)
    BY <1>2, <1>3, <1>4, <1>6
  <1> QED BY <1>5, <1>6

\* A failure opens a closed circuit only as the threshold's last, and a half-open
\* one with the doubled delay.
LEMMA FailureFacts ==
    ASSUME NEW b \in Breaker
    PROVE  /\ recordFailure(b) \in Breaker
           /\ b.state = "CLOSED" =>
                 /\ recordFailure(b).failures = atMost(b.failures + 1, failureThreshold)
                 /\ recordFailure(b).state = "OPEN" =>
                       /\ recordFailure(b).failures >= failureThreshold
                       /\ recordFailure(b).timer = b.backoff
           /\ b.state = "HALF_OPEN" =>
                 /\ recordFailure(b).state = "OPEN"
                 /\ recordFailure(b).backoff = atMost(2 * b.backoff, maxResetTimeout)
                 /\ recordFailure(b).timer = recordFailure(b).backoff
           /\ b.state # "HALF_OPEN" => recordFailure(b).backoff = b.backoff
           /\ recordFailure(b).state # b.state => recordFailure(b).state = "OPEN"
           /\ recordFailure(b).failures <= b.failures + 1
           /\ Timely(b) => Timely(recordFailure(b))
           /\ Armed(b) => Armed(recordFailure(b))
  <1> DEFINE n == [b EXCEPT !.successes = 0, !.failures = atMost(@ + 1, failureThreshold)]
  <1>1. atMost(b.failures + 1, failureThreshold) \in 0 .. failureThreshold
    <2>1. b.failures \in 0 .. failureThreshold BY DEF Breaker
    <2> QED BY <2>1, DelayFacts, BreakerAssumption
  <1>2. /\ n \in Breaker /\ n.state = b.state /\ n.backoff = b.backoff /\ n.timer = b.timer
        /\ n.failures = atMost(b.failures + 1, failureThreshold) /\ n.disposed = b.disposed
    <2>1. 0 \in 0 .. successThreshold BY BreakerAssumption
    <2> DEFINE m == atMost(b.failures + 1, failureThreshold)
    <2>2. n = [b EXCEPT !.successes = 0, !.failures = m] OBVIOUS
    <2>3. m \in 0 .. failureThreshold BY <1>1
    <2> HIDE DEF m, n
    <2>4. n.failures = m BY <2>2 DEF Breaker
    <2> QED BY <2>1, <2>2, <2>3, <2>4 DEF Breaker, m
  <1>3. (Timely(b) => Timely(n)) /\ (Armed(b) => Armed(n)) BY <1>2 DEF Timely, Armed
  <1>0. n.failures <= b.failures + 1 /\ b.failures \in Nat
    <2>1. b.failures \in Nat BY BreakerAssumption DEF Breaker
    <2> QED BY <1>2, <2>1, BreakerAssumption DEF atMost
  <1>4. recordFailure(b) =
          CASE n.state = "HALF_OPEN" ->
                 [transitionTo([n EXCEPT !.backoff = atMost(2 * @, maxResetTimeout)], "OPEN")
                    EXCEPT !.failures = 0]
            [] n.state = "CLOSED" /\ n.failures >= failureThreshold -> transitionTo(n, "OPEN")
            [] OTHER -> n
    BY DEF recordFailure
  <1> HIDE DEF n
  <1>5. CASE n.state = "HALF_OPEN"
    <2> DEFINE d == atMost(2 * b.backoff, maxResetTimeout)
               p == [n EXCEPT !.backoff = d]
               m == transitionTo(p, "OPEN")
    <2>1. d \in Delays BY DelayFacts DEF Breaker
    <2>2. recordFailure(b) = [m EXCEPT !.failures = 0]
      BY <1>2, <1>4, <1>5 DEF Breaker
    <2> HIDE DEF d
    <2>3. p \in Breaker /\ p.state = "HALF_OPEN" /\ p.backoff = d /\ p.timer = n.timer /\ p.disposed = n.disposed
      BY <1>2, <1>5, <2>1 DEF Breaker
    <2>4. Timely(n) => Timely(p) BY <1>5, <2>3 DEF Timely
    <2> HIDE DEF p
    <2>5. /\ m \in Breaker /\ m.state = "OPEN" /\ m.backoff = d /\ m.timer = d
          /\ Timely(p) => Timely(m)
      BY <2>3, TransitionFacts DEF States
    <2> HIDE DEF m
    <2>6. /\ recordFailure(b) \in Breaker /\ recordFailure(b).state = "OPEN"
          /\ recordFailure(b).backoff = d /\ recordFailure(b).timer = d
          /\ recordFailure(b).disposed = m.disposed /\ recordFailure(b).failures = 0
      BY <2>2, <2>5, BreakerAssumption DEF Breaker
    <2>7. Timely(b) => Timely(recordFailure(b)) BY <1>3, <2>4, <2>5, <2>6 DEF Timely
    <2>8. Armed(recordFailure(b)) BY <2>6 DEF Armed
    <2>9. recordFailure(b).failures <= b.failures + 1 BY <1>0, <2>6
    <2> QED BY <1>2, <1>5, <2>6, <2>7, <2>8, <2>9 DEF d
  <1>6. CASE n.state = "CLOSED" /\ n.failures >= failureThreshold
    <2>1. recordFailure(b) = transitionTo(n, "OPEN") BY <1>4, <1>6
    <2> QED BY <1>0, <1>2, <1>3, <1>6, <2>1, TransitionFacts DEF States
  <1>7. CASE ~(n.state = "HALF_OPEN") /\ ~(n.state = "CLOSED" /\ n.failures >= failureThreshold)
    <2>1. recordFailure(b) = n BY <1>4, <1>7
    <2>2. b.state = "CLOSED" => recordFailure(b).state # "OPEN" BY <1>2, <2>1
    <2> QED BY <1>0, <1>2, <1>3, <1>7, <2>1, <2>2
  <1> QED BY <1>5, <1>6, <1>7

LEMMA CloseFacts ==
    ASSUME NEW b \in Breaker
    PROVE  /\ closeCircuit(b) \in Breaker
           /\ closeCircuit(b).failures = 0
           /\ closeCircuit(b).state = "CLOSED"
           /\ Timely(b) => Timely(closeCircuit(b))
  <1> DEFINE n == [b EXCEPT !.failures = 0, !.successes = 0, !.backoff = resetTimeout]
  <1>1. /\ n \in Breaker /\ n.state = b.state /\ n.failures = 0
        /\ n.timer = b.timer /\ n.disposed = b.disposed
    <2>1. /\ 0 \in 0 .. failureThreshold /\ 0 \in 0 .. successThreshold
          /\ resetTimeout \in Delays
      BY DelayFacts, BreakerAssumption
    <2> QED BY <2>1 DEF Breaker
  <1>2. Timely(b) => Timely(n) BY <1>1 DEF Timely
  <1>3. closeCircuit(b) = transitionTo(n, "CLOSED") BY DEF closeCircuit
  <1> HIDE DEF n
  <1> QED BY <1>1, <1>2, <1>3, TransitionFacts DEF States

LEMMA DisposeFacts ==
    ASSUME NEW b \in Breaker
    PROVE  disposeBreaker(b) \in Breaker /\ disposeBreaker(b).disposed
           /\ disposeBreaker(b).state = b.state /\ disposeBreaker(b).failures = b.failures
           /\ disposeBreaker(b).backoff = b.backoff /\ Armed(disposeBreaker(b))
  BY DEF disposeBreaker, Breaker, Armed

-----------------------------------------------------------------------------
(* The invariant: in a closed circuit the breaker never counts more failures *)
(* than came in a row, and its delay is the one of its last opening.         *)

CountInv == state = "CLOSED" => breaker.failures <= failRun

WaitInv == lastWait # 0 => breaker.backoff = lastWait

BreakerInv == BreakerTypeOK /\ TimerIffOpen /\ CountInv /\ WaitInv

LEMMA BreakerBegins == BreakerInit => BreakerInv
  <1> SUFFICES ASSUME BreakerInit PROVE BreakerInv OBVIOUS
  <1>1. InitialBreaker \in Breaker
    BY DelayFacts, BreakerAssumption DEF InitialBreaker, Breaker, States
  <1>2. BreakerTypeOK BY <1>1, BreakerAssumption, CallerAssumption DEF BreakerInit, BreakerTypeOK
  <1> QED BY <1>2 DEF BreakerInit, InitialBreaker, BreakerInv, TimerIffOpen, state, CountInv, WaitInv

\* The rest of the state changes only within its types.
LEMMA RestType == BreakerTypeOK /\ [BreakerNext]_breakervars =>
    /\ callPhase' \in [Requests -> {"idle", "running", "fallback"}]
    /\ healthy' \in BOOLEAN
    /\ manual' \in 0 .. MaxManual
  <1> SUFFICES ASSUME BreakerTypeOK, [BreakerNext]_breakervars
      PROVE /\ callPhase' \in [Requests -> {"idle", "running", "fallback"}]
            /\ healthy' \in BOOLEAN
            /\ manual' \in 0 .. MaxManual
    OBVIOUS
  <1> USE DEF BreakerTypeOK
  <1>1. ASSUME NEW r \in Requests, ExecuteCall(r)
        PROVE callPhase' \in [Requests -> {"idle", "running", "fallback"}]
    BY <1>1 DEF ExecuteCall, CallThrough, CallFallback, CallSucceeds, CallFails, CallFailsOther, FallbackEnds, Rescue
  <1>2. ASSUME NEW r \in Requests, ExecuteCall(r) PROVE UNCHANGED <<healthy, manual>>
    BY <1>2 DEF ExecuteCall, CallThrough, CallFallback, CallSucceeds, CallFails, CallFailsOther, FallbackEnds
  <1>3. ASSUME open \/ close \/ halfOpen
        PROVE UNCHANGED <<callPhase, healthy>> /\ manual' \in 0 .. MaxManual
    BY <1>3, CallerAssumption DEF open, close, halfOpen, Manual
  <1>4. CASE ResetTimerFires \/ disposeCircuit \/ UpstreamChanges \/ UNCHANGED breakervars
    BY <1>4 DEF ResetTimerFires, disposeCircuit, UpstreamChanges, breakervars
  <1> QED BY <1>1, <1>2, <1>3, <1>4 DEF BreakerNext

\* What an operation must do to the record for the invariant to survive it.
LEMMA BecomeStep ==
    ASSUME BreakerInv, NEW b \in Breaker, NEW result, Become(b, result), Timely(b),
           b.state = "CLOSED" =>
              \/ b.failures = 0
              \/ /\ state = "CLOSED" /\ result = "fail"
                 /\ b.failures = atMost(breaker.failures + 1, failureThreshold)
              \/ /\ state = "CLOSED" /\ result \notin {"ok", "fail"}
                 /\ b.failures = breaker.failures,
           \/ result \in {"ok", "close"}
           \/ b.state = "OPEN" /\ state # "OPEN" /\ b.timer = b.backoff
           \/ ~(b.state = "OPEN" /\ state # "OPEN") /\ b.backoff = breaker.backoff
    PROVE  /\ breaker' \in Breaker /\ failRun' \in 0 .. failureThreshold
           /\ lastWait' \in {0} \cup Delays
           /\ TimerIffOpen' /\ CountInv' /\ WaitInv'
  <1> USE DEF BreakerInv
  <1>1. breaker' = b BY DEF Become
  <1>2. /\ failRun \in 0 .. failureThreshold /\ breaker.failures \in 0 .. failureThreshold
        /\ lastWait \in {0} \cup Delays /\ b.timer \in {0} \cup Delays
        /\ b.failures \in 0 .. failureThreshold
    BY DEF BreakerTypeOK, Breaker
  <1>3. failRun' \in {0, failRun, atMost(failRun + 1, failureThreshold)}
    BY DEF Become
  <1>4. failRun' \in 0 .. failureThreshold BY <1>2, <1>3, DelayFacts, BreakerAssumption
  <1>5. lastWait' \in {0, b.timer, lastWait} BY DEF Become
  <1>6. TimerIffOpen' BY <1>1 DEF Timely, TimerIffOpen, state
  <1>7. CountInv'
    <2> SUFFICES ASSUME b.state = "CLOSED" PROVE b.failures <= failRun'
      BY <1>1 DEF CountInv, state
    <2>1. CASE b.failures = 0 BY <1>4, <2>1, BreakerAssumption
    <2>2. CASE /\ state = "CLOSED" /\ result = "fail"
               /\ b.failures = atMost(breaker.failures + 1, failureThreshold)
      <3>1. failRun' = atMost(failRun + 1, failureThreshold) BY <2>2 DEF Become
      <3> QED BY <1>2, <2>2, <3>1, BreakerAssumption DEF CountInv, atMost
    <2>3. CASE /\ state = "CLOSED" /\ result \notin {"ok", "fail"}
               /\ b.failures = breaker.failures
      <3>1. failRun' = failRun BY <2>3 DEF Become
      <3> QED BY <2>3, <3>1 DEF CountInv
    <2> QED BY <2>1, <2>2, <2>3
  <1>8. WaitInv'
    <2>1. CASE result \in {"ok", "close"}
      <3>1. lastWait' = 0 BY <2>1 DEF Become
      <3> QED BY <3>1 DEF WaitInv
    <2>2. CASE result \notin {"ok", "close"} /\ b.state = "OPEN" /\ state # "OPEN"
      <3>1. b.timer = b.backoff /\ lastWait' = b.timer BY <2>2 DEF Become
      <3> QED BY <1>1, <3>1 DEF WaitInv
    <2>3. CASE result \notin {"ok", "close"} /\ ~(b.state = "OPEN" /\ state # "OPEN")
      <3>1. b.backoff = breaker.backoff /\ lastWait' = lastWait BY <2>3 DEF Become
      <3> QED BY <1>1, <3>1 DEF WaitInv
    <2> QED BY <2>1, <2>2, <2>3
  <1> QED BY <1>1, <1>2, <1>4, <1>5, <1>6, <1>7, <1>8

LEMMA BreakerStep == BreakerInv /\ [BreakerNext]_breakervars => BreakerInv'
  <1> SUFFICES ASSUME BreakerInv, [BreakerNext]_breakervars PROVE BreakerInv' OBVIOUS
  <1> USE DEF BreakerInv
  <1> DEFINE Kept == /\ breaker' \in Breaker /\ failRun' \in 0 .. failureThreshold
                     /\ lastWait' \in {0} \cup Delays
                     /\ TimerIffOpen' /\ CountInv' /\ WaitInv'
  <1>1. breaker \in Breaker /\ Timely(breaker)
    BY DEF BreakerTypeOK, TimerIffOpen, Timely, state
  <1>2. breaker.state \in States BY <1>1 DEF Breaker
  <1>3. ASSUME UNCHANGED <<breaker, history>> PROVE Kept
    BY <1>3 DEF BreakerTypeOK, TimerIffOpen, CountInv, WaitInv, state, history
  <1>4. ASSUME Become(recordSuccess(breaker), "ok") PROVE Kept
    <2>1. recordSuccess(breaker) \in Breaker /\ recordSuccess(breaker).failures = 0
          /\ Timely(recordSuccess(breaker))
      BY <1>1, SuccessFacts
    <2> QED BY <1>4, <2>1, BecomeStep
  <1>5. ASSUME Become(recordFailure(breaker), "fail") PROVE Kept
    <2> DEFINE b == recordFailure(breaker)
    <2>1. b \in Breaker /\ Timely(b) BY <1>1, FailureFacts
    <2>2. b.state = "CLOSED" =>
            state = "CLOSED" /\ b.failures = atMost(breaker.failures + 1, failureThreshold)
      BY <1>1, FailureFacts DEF state
    <2>3. \/ b.state = "OPEN" /\ state # "OPEN" /\ b.timer = b.backoff
          \/ ~(b.state = "OPEN" /\ state # "OPEN") /\ b.backoff = breaker.backoff
      BY <1>1, <1>2, FailureFacts DEF state, States
    <2> HIDE DEF b
    <2>4. Become(b, "fail") BY <1>5 DEF b
    <2> QED BY <2>1, <2>2, <2>3, <2>4, BecomeStep
  <1>6. ASSUME NEW s \in {"OPEN", "HALF_OPEN"}, NEW result \in {"timer", "open", "halfOpen"},
               Become(transitionTo(breaker, s), result)
        PROVE  Kept
    <2> DEFINE b == transitionTo(breaker, s)
    <2>1. b \in Breaker /\ b.state = s /\ Timely(b) /\ b.backoff = breaker.backoff
          /\ (breaker.state # s => b.timer = IF s = "OPEN" THEN b.backoff ELSE 0)
      BY <1>1, TransitionFacts DEF States
    <2> HIDE DEF b
    <2>2. \/ b.state = "OPEN" /\ state # "OPEN" /\ b.timer = b.backoff
          \/ ~(b.state = "OPEN" /\ state # "OPEN") /\ b.backoff = breaker.backoff
      BY <2>1 DEF state
    <2>3. b.state # "CLOSED" BY <2>1
    <2>4. Become(b, result) BY <1>6 DEF b
    <2> QED BY <2>1, <2>2, <2>3, <2>4, BecomeStep
  <1>7. ASSUME Become(closeCircuit(breaker), "close") PROVE Kept
    <2>1. closeCircuit(breaker) \in Breaker /\ closeCircuit(breaker).failures = 0
          /\ Timely(closeCircuit(breaker))
      BY <1>1, CloseFacts
    <2> QED BY <1>7, <2>1, BecomeStep
  <1>8. ASSUME Become(disposeBreaker(breaker), "dispose") PROVE Kept
    <2> DEFINE b == disposeBreaker(breaker)
    <2>1. b \in Breaker /\ Timely(b) /\ b.state = state /\ b.backoff = breaker.backoff
          /\ b.failures = breaker.failures
      BY <1>1, DisposeFacts DEF Timely, state
    <2> HIDE DEF b
    <2>2. Become(b, "dispose") BY <1>8 DEF b
    <2> QED BY <2>1, <2>2, BecomeStep
  <1>9. Kept
    <2>1. ASSUME NEW r \in Requests, ExecuteCall(r) PROVE Kept
      BY <1>3, <1>4, <1>5, <2>1
         DEF ExecuteCall, CallThrough, CallFallback, CallSucceeds, CallFails, CallFailsOther, FallbackEnds
    <2>2. CASE ResetTimerFires BY <1>6, <2>2 DEF ResetTimerFires
    <2>3. CASE open BY <1>6, <2>3 DEF open, Manual
    <2>4. CASE close BY <1>7, <2>4 DEF close, Manual
    <2>5. CASE halfOpen BY <1>6, <2>5 DEF halfOpen, Manual
    <2>6. CASE disposeCircuit BY <1>8, <2>6 DEF disposeCircuit
    <2>7. CASE UpstreamChanges \/ UNCHANGED breakervars
      BY <1>3, <2>7 DEF UpstreamChanges, breakervars, history
    <2> HIDE DEF Kept
    <2> QED BY <2>1, <2>2, <2>3, <2>4, <2>5, <2>6, <2>7 DEF BreakerNext
  <1> QED BY <1>9, RestType DEF BreakerTypeOK

-----------------------------------------------------------------------------
(* The theorems.                                                         *)

LEMMA BreakerAlways == BreakerSpec => []BreakerInv
  BY BreakerBegins, BreakerStep, PTL DEF BreakerSpec

\* The record, the calls and the histories keep their types.
THEOREM BreakerTypeCorrect == BreakerSpec => []BreakerTypeOK
  <1>1. BreakerInv => BreakerTypeOK BY DEF BreakerInv
  <1> QED BY <1>1, BreakerAlways, PTL

\* An open circuit always has its timer, and no timer survives its opening.
THEOREM TimerCorrect == BreakerSpec => []TimerIffOpen
  <1>1. BreakerInv => TimerIffOpen BY DEF BreakerInv
  <1> QED BY <1>1, BreakerAlways, PTL

\* A step that takes the circuit from CLOSED to OPEN without a manual call, or
\* from HALF_OPEN to OPEN, records a failure.
LEMMA OnlyFailuresOpen ==
    ASSUME BreakerTypeOK, [BreakerNext]_breakervars, breaker'.state = "OPEN", state # "OPEN", manual' = manual
    PROVE  breaker' = recordFailure(breaker)
  <1>1. breaker \in Breaker BY DEF BreakerTypeOK
  <1>2. ASSUME NEW r \in Requests, ExecuteCall(r) PROVE breaker' = recordFailure(breaker)
    <2>1. CASE CallSucceeds(r)
      BY <1>1, <2>1, SuccessFacts DEF CallSucceeds, Become, state
    <2>2. CASE CallFails(r) BY <2>2 DEF CallFails, Become
    <2>3. CASE CallThrough(r) \/ CallFallback(r) \/ CallFailsOther(r) \/ FallbackEnds(r)
      BY <2>3 DEF CallThrough, CallFallback, CallFailsOther, FallbackEnds, state
    <2> QED BY <1>2, <2>1, <2>2, <2>3 DEF ExecuteCall
  <1>3. ~ResetTimerFires BY <1>1, TransitionFacts DEF ResetTimerFires, Become, States
  <1>4. ~(open \/ close \/ halfOpen)
    BY CallerAssumption DEF open, close, halfOpen, Manual, BreakerTypeOK
  <1>5. ~disposeCircuit BY <1>1, DisposeFacts DEF disposeCircuit, Become, state
  <1>6. ~UpstreamChanges /\ ~UNCHANGED breakervars BY DEF UpstreamChanges, breakervars, state
  <1> QED BY <1>2, <1>3, <1>4, <1>5, <1>6 DEF BreakerNext

\* Only the threshold's last failure in a row opens a closed circuit.
THEOREM TripCorrect == BreakerSpec => TripsOnThreshold
  <1>1. ASSUME BreakerInv, [BreakerNext]_breakervars
        PROVE  [state = "CLOSED" /\ breaker'.state = "OPEN" /\ manual' = manual
                  => failRun + 1 >= failureThreshold]_breakervars
    <2> SUFFICES ASSUME state = "CLOSED", breaker'.state = "OPEN", manual' = manual
                 PROVE  failRun + 1 >= failureThreshold
      OBVIOUS
    <2> USE DEF BreakerInv
    <2>1. breaker' = recordFailure(breaker) BY <1>1, OnlyFailuresOpen
    <2>2. atMost(breaker.failures + 1, failureThreshold) >= failureThreshold
      BY <1>1, <2>1, FailureFacts DEF BreakerTypeOK, state
    <2>3. breaker.failures \in 0 .. failureThreshold /\ failRun \in 0 .. failureThreshold
      BY <1>1 DEF BreakerTypeOK, Breaker
    <2>4. breaker.failures <= failRun BY <1>1 DEF CountInv
    <2> QED BY <2>2, <2>3, <2>4, BreakerAssumption DEF atMost
  <1> QED BY <1>1, BreakerAlways, PTL DEF BreakerSpec, TripsOnThreshold

\* An opening that follows another without a success in between waits twice as
\* long, up to the cap.
THEOREM BackOffCorrect == BreakerSpec => BacksOff
  <1>1. ASSUME BreakerInv, [BreakerNext]_breakervars
        PROVE  [state = "HALF_OPEN" /\ breaker'.state = "OPEN" /\ manual' = manual /\ lastWait # 0
                  => breaker'.timer = atMost(2 * lastWait, maxResetTimeout)]_breakervars
    <2> SUFFICES ASSUME state = "HALF_OPEN", breaker'.state = "OPEN", manual' = manual, lastWait # 0
                 PROVE  breaker'.timer = atMost(2 * lastWait, maxResetTimeout)
      OBVIOUS
    <2> USE DEF BreakerInv
    <2>1. breaker' = recordFailure(breaker) BY <1>1, OnlyFailuresOpen
    <2>2. breaker'.timer = atMost(2 * breaker.backoff, maxResetTimeout)
      BY <1>1, <2>1, FailureFacts DEF BreakerTypeOK, state
    <2> QED BY <1>1, <2>2 DEF WaitInv
  <1> QED BY <1>1, BreakerAlways, PTL DEF BreakerSpec, BacksOff

\* An open circuit has its timer, and no timer survives its opening.
THEOREM BreakerSafe == BreakerSpec => []BreakerSafety
  <1>1. BreakerTypeOK /\ TimerIffOpen => BreakerSafety BY DEF BreakerSafety
  <1> QED BY <1>1, BreakerTypeCorrect, TimerCorrect, PTL

\* Only a run of failures opens a closed circuit, and openings in a row back off.
THEOREM OpeningCorrect == BreakerSpec => OpensProperly
  BY TripCorrect, BackOffCorrect, PTL DEF OpensProperly

-----------------------------------------------------------------------------
(* What a tick does.                                                     *)

\* A tick serves a prefix of the queue, pays a token for each, and leaves no
\* waiter behind while a whole token is left.
LEMMA ServedBounds ==
    ASSUME BucketTypeOK
    PROVE  /\ refilled \in 0 .. capacity * Token
           /\ served \in 0 .. Len(queue)
           /\ refilled - served * Token \in 0 .. capacity * Token
           /\ served < Len(queue) => refilled - served * Token < Token
  <1>1. capacity * Token \in Nat BY BucketAssumption DEF Token
  <1>2. refilled \in 0 .. capacity * Token
    BY <1>1, BucketAssumption DEF refilled, BucketTypeOK
  <1> DEFINE q == refilled \div Token
  <1>3. q \in Nat /\ q * Token <= refilled /\ refilled < q * Token + Token
    BY <1>1, <1>2 DEF Token
  <1>4. Len(queue) \in Nat BY DEF BucketTypeOK
  <1>5. served = IF q < Len(queue) THEN q ELSE Len(queue) BY DEF served
  <1> HIDE DEF q
  <1>6. CASE q < Len(queue)
    <2>1. served = q BY <1>5, <1>6
    <2> QED BY <1>1, <1>2, <1>3, <1>4, <1>6, <2>1 DEF Token
  <1>7. CASE ~(q < Len(queue))
    <2>1. served = Len(queue) BY <1>5, <1>7
    <2> QED BY <1>1, <1>2, <1>3, <1>4, <1>7, <2>1 DEF Token
  <1> QED BY <1>6, <1>7

\* The rest of the queue once its first n calls are served.
LEMMA Rest ==
    ASSUME NEW s \in Seq(Calls), NEW n \in 0 .. Len(s)
    PROVE  LET r == SubSeq(s, n + 1, Len(s)) IN
           /\ r \in Seq(Calls) /\ Len(r) = Len(s) - n
           /\ \A i \in 1 .. Len(s) - n : r[i] = s[i + n]
  OBVIOUS

-----------------------------------------------------------------------------
(* Types.                                                                *)

\* The bucket starts full, with nobody waiting.
LEMMA InitType == Init => BucketTypeOK
  <1> SUFFICES ASSUME Init PROVE BucketTypeOK OBVIOUS
  <1>1. tokens \in 0 .. capacity * Token BY BucketAssumption DEF Init, Token
  <1>2. queue \in Seq(Calls) /\ Len(queue) = 0 BY DEF Init
  <1>3. outcome \in [Calls -> {"none", "waiting", "granted", "rejected"}] BY DEF Init
  <1>4. totalConsumed \in Nat /\ calls \in 0 .. MaxCalls /\ ticks \in 0 .. MaxTicks
    BY BucketAssumption DEF Init
  <1>5. disposed \in BOOLEAN BY DEF Init
  <1>6. Len(queue) <= maxQueueSize BY <1>2, BucketAssumption
  <1> QED BY <1>1, <1>2, <1>3, <1>4, <1>5, <1>6 DEF BucketTypeOK

\* Each step keeps the variables of the bucket in their types.
LEMMA TypeStep == BucketTypeOK /\ [Next]_bucket => BucketTypeOK'
  <1> SUFFICES ASSUME BucketTypeOK, [Next]_bucket PROVE BucketTypeOK' OBVIOUS
  <1>1. CASE refillTokens
    <2>1. served \in 0 .. Len(queue) /\ refilled - served * Token \in 0 .. capacity * Token
      BY ServedBounds
    <2>2. queue \in Seq(Calls) /\ Len(queue) \in Nat BY DEF BucketTypeOK
    <2>3. queue' = SubSeq(queue, served + 1, Len(queue)) BY <1>1 DEF refillTokens, Grant
    <2>4. queue' \in Seq(Calls) /\ Len(queue') = Len(queue) - served
      BY <2>1, <2>2, <2>3, Rest
    <2>5. Len(queue') <= maxQueueSize
      BY <2>1, <2>2, <2>4, BucketAssumption DEF BucketTypeOK
    <2>6. totalConsumed' \in Nat BY <1>1, <2>1, <2>2 DEF refillTokens, Grant, BucketTypeOK
    <2>7. outcome' \in [Calls -> {"none", "waiting", "granted", "rejected"}]
      BY <1>1 DEF refillTokens, Grant, BucketTypeOK
    <2>8. ticks' \in 0 .. MaxTicks
      BY <1>1, BucketAssumption DEF refillTokens, Tick, BucketTypeOK
    <2> QED BY <1>1, <2>1, <2>4, <2>5, <2>6, <2>7, <2>8 DEF refillTokens, Tick, BucketTypeOK
  <1>2. ASSUME NEW o \in {"waiting", "granted", "rejected"}, Called(o)
        PROVE  /\ calls' \in 0 .. MaxCalls /\ disposed' \in BOOLEAN /\ ticks' \in 0 .. MaxTicks
               /\ outcome' \in [Calls -> {"none", "waiting", "granted", "rejected"}]
               /\ calls + 1 \in Calls
    BY <1>2, BucketAssumption DEF Called, BucketTypeOK, Calls
  <1>3. CASE Take
    BY <1>2, <1>3, BucketAssumption DEF Take, BucketTypeOK, Token
  <1>4. CASE Wait
    <2>1. queue \in Seq(Calls) /\ calls + 1 \in Calls BY <1>2, <1>4 DEF Wait, BucketTypeOK
    <2>2. queue' \in Seq(Calls) /\ Len(queue') = Len(queue) + 1 BY <1>4, <2>1 DEF Wait
    <2> QED BY <1>2, <1>4, <2>1, <2>2, BucketAssumption DEF Wait, BucketTypeOK
  <1>5. CASE Called("rejected") /\ UNCHANGED <<tokens, queue, totalConsumed>>
    BY <1>2, <1>5 DEF BucketTypeOK
  <1>6. CASE dispose
    BY <1>6, BucketAssumption DEF dispose, BucketTypeOK
  <1>7. CASE UNCHANGED bucket
    BY <1>7 DEF bucket, BucketTypeOK
  <1> QED BY <1>1, <1>3, <1>4, <1>5, <1>6, <1>7 DEF Next, acquire, tryAcquire, Refuse

\* Every variable of the bucket keeps its type; in particular the bucket never
\* overflows or goes negative, and no more than maxQueueSize calls wait.
THEOREM BucketTypeCorrect == Spec => []BucketTypeOK
  <1>1. Init => BucketTypeOK BY InitType
  <1> QED BY <1>1, TypeStep, PTL DEF Spec

-----------------------------------------------------------------------------
(* Order.                                                                *)

\* The queue holds exactly the waiting calls, oldest first.
QueueInv ==
    /\ \A i \in 1 .. Len(queue) : queue[i] <= calls /\ outcome[queue[i]] = "waiting"
    /\ \A i, j \in 1 .. Len(queue) : i < j => queue[i] < queue[j]
    /\ \A c \in Calls : outcome[c] = "waiting" => \E i \in 1 .. Len(queue) : queue[i] = c

\* Nothing has become of the calls still to be made.
FutureInv == \A c \in Calls : c > calls => outcome[c] = "none"

\* Nobody waits while a whole token is there.
DryInv == Len(queue) > 0 => tokens < Token

OrderInv == BucketTypeOK /\ QueueInv /\ FutureInv /\ DryInv /\ NoBarging

\* A tick serves the oldest waiters and leaves the rest in order.
LEMMA RefillOrder == OrderInv /\ refillTokens => QueueInv' /\ FutureInv' /\ DryInv' /\ NoBarging'
  <1> SUFFICES ASSUME OrderInv, refillTokens
      PROVE QueueInv' /\ FutureInv' /\ DryInv' /\ NoBarging'
    OBVIOUS
  <1> USE DEF OrderInv
  <1> DEFINE n == served
  <1>1. n \in 0 .. Len(queue) /\ (n < Len(queue) => refilled - n * Token < Token)
    BY ServedBounds
  <1>2. queue \in Seq(Calls) /\ Len(queue) \in Nat BY DEF BucketTypeOK
  <1>3. /\ queue' = SubSeq(queue, n + 1, Len(queue))
        /\ outcome' = [c \in Calls |->
              IF \E i \in 1 .. n : queue[i] = c THEN "granted" ELSE outcome[c]]
        /\ tokens' = refilled - n * Token /\ calls' = calls
    BY DEF refillTokens, Grant, Tick
  <1> HIDE DEF n
  <1>4. /\ Len(queue') = Len(queue) - n
        /\ \A i \in 1 .. Len(queue) - n : queue'[i] = queue[i + n]
    BY <1>1, <1>2, <1>3, Rest
  <1>5. \A i \in 1 .. Len(queue) : queue[i] \in Calls BY <1>2
  <1>6. \A c \in Calls : outcome'[c] = "waiting" <=>
            outcome[c] = "waiting" /\ ~\E i \in 1 .. n : queue[i] = c
    BY <1>3 DEF QueueInv
  <1>7. \A i \in 1 .. Len(queue) - n : outcome'[queue[i + n]] = "waiting"
    <2> SUFFICES ASSUME NEW i \in 1 .. Len(queue) - n PROVE outcome'[queue[i + n]] = "waiting"
      OBVIOUS
    <2>1. i + n \in 1 .. Len(queue) /\ i + n > n BY <1>1, <1>2
    <2>2. ~\E k \in 1 .. n : queue[k] = queue[i + n]
      <3> SUFFICES ASSUME NEW k \in 1 .. n, queue[k] = queue[i + n] PROVE FALSE OBVIOUS
      <3>1. k \in 1 .. Len(queue) /\ k < i + n BY <1>1, <1>2, <2>1
      <3>2. queue[k] < queue[i + n] BY <2>1, <3>1 DEF QueueInv
      <3>3. queue[i + n] \in Nat BY <1>5, <2>1 DEF Calls
      <3> QED BY <3>2, <3>3
    <2>3. queue[i + n] \in Calls /\ outcome[queue[i + n]] = "waiting"
      BY <1>5, <2>1 DEF QueueInv
    <2> QED BY <1>6, <2>2, <2>3
  <1>8. QueueInv'
    <2>1. \A i \in 1 .. Len(queue') : queue'[i] <= calls' /\ outcome'[queue'[i]] = "waiting"
      <3> SUFFICES ASSUME NEW i \in 1 .. Len(queue')
                   PROVE queue'[i] <= calls' /\ outcome'[queue'[i]] = "waiting"
        OBVIOUS
      <3>1. i \in 1 .. Len(queue) - n /\ i + n \in 1 .. Len(queue) BY <1>1, <1>2, <1>4
      <3>2. queue'[i] = queue[i + n] BY <1>4, <3>1
      <3> QED BY <1>3, <1>7, <3>1, <3>2 DEF QueueInv
    <2>2. \A i, j \in 1 .. Len(queue') : i < j => queue'[i] < queue'[j]
      <3> SUFFICES ASSUME NEW i \in 1 .. Len(queue'), NEW j \in 1 .. Len(queue'), i < j
                   PROVE queue'[i] < queue'[j]
        OBVIOUS
      <3>1. /\ i \in 1 .. Len(queue) - n /\ i + n \in 1 .. Len(queue)
            /\ j \in 1 .. Len(queue) - n /\ j + n \in 1 .. Len(queue)
            /\ i + n < j + n
        BY <1>1, <1>2, <1>4
      <3>2. queue'[i] = queue[i + n] /\ queue'[j] = queue[j + n] BY <1>4, <3>1
      <3> QED BY <3>1, <3>2 DEF QueueInv
    <2>3. \A c \in Calls : outcome'[c] = "waiting" => \E i \in 1 .. Len(queue') : queue'[i] = c
      <3> SUFFICES ASSUME NEW c \in Calls, outcome'[c] = "waiting"
                   PROVE \E i \in 1 .. Len(queue') : queue'[i] = c
        OBVIOUS
      <3>1. PICK k \in 1 .. Len(queue) : queue[k] = c BY <1>6 DEF QueueInv
      <3>2. ~(k \in 1 .. n) BY <1>6, <3>1
      <3>3. k - n \in 1 .. Len(queue) - n /\ (k - n) + n = k BY <1>1, <1>2, <3>2
      <3>4. queue'[k - n] = c BY <1>4, <3>1, <3>3
      <3> QED BY <1>4, <3>3, <3>4
    <2> QED BY <2>1, <2>2, <2>3 DEF QueueInv
  <1>9. FutureInv'
    <2> SUFFICES ASSUME NEW c \in Calls, c > calls PROVE outcome'[c] = "none"
      BY <1>3 DEF FutureInv
    <2>1. outcome[c] = "none" BY DEF FutureInv
    <2>2. ~\E i \in 1 .. n : queue[i] = c
      <3> SUFFICES ASSUME NEW i \in 1 .. n, queue[i] = c PROVE FALSE OBVIOUS
      <3>1. i \in 1 .. Len(queue) BY <1>1, <1>2
      <3> QED BY <2>1, <3>1 DEF QueueInv
    <2> QED BY <1>3, <2>1, <2>2
  <1>10. DryInv'
    BY <1>1, <1>2, <1>3, <1>4 DEF DryInv
  <1>11. NoBarging'
    <2> SUFFICES ASSUME NEW c \in Calls, NEW d \in Calls, c < d,
                        outcome'[c] = "waiting", outcome'[d] = "granted"
                 PROVE FALSE
      BY DEF NoBarging
    <2>1. outcome[c] = "waiting" /\ ~\E i \in 1 .. n : queue[i] = c BY <1>6
    <2>2. outcome[d] # "granted" BY <2>1 DEF NoBarging
    <2>3. PICK j \in 1 .. n : queue[j] = d BY <1>3, <2>2
    <2>4. PICK k \in 1 .. Len(queue) : queue[k] = c BY <2>1 DEF QueueInv
    <2>5. j \in 1 .. Len(queue) /\ j < k BY <1>1, <1>2, <2>1, <2>4
    <2>6. queue[j] < queue[k] BY <2>5 DEF QueueInv
    <2> QED BY <2>3, <2>4, <2>6 DEF Calls
  <1> QED BY <1>8, <1>9, <1>10, <1>11

\* A new call is later than every call in the queue.
LEMMA CalledOrder ==
    ASSUME OrderInv, NEW o \in {"granted", "rejected"}, Called(o),
           UNCHANGED queue, tokens' \in Nat, tokens' <= tokens, o = "granted" => Len(queue) = 0
    PROVE  QueueInv' /\ FutureInv' /\ DryInv' /\ NoBarging'
  <1> USE DEF OrderInv
  <1>1. /\ calls + 1 \in Calls /\ calls' = calls + 1 /\ calls \in Nat
        /\ outcome' = [outcome EXCEPT ![calls + 1] = o]
        /\ outcome[calls + 1] = "none"
    BY BucketAssumption DEF Called, BucketTypeOK, FutureInv, Calls
  <1>2. queue \in Seq(Calls) /\ Len(queue) \in Nat /\ outcome \in [Calls -> {"none", "waiting", "granted", "rejected"}]
        /\ tokens \in Nat
    BY BucketAssumption DEF BucketTypeOK, Token
  <1>3. \A i \in 1 .. Len(queue) : queue[i] \in Calls /\ queue[i] # calls + 1
    BY <1>1, <1>2 DEF QueueInv
  <1>4. QueueInv'
    <2>1. \A i \in 1 .. Len(queue) : queue[i] <= calls' /\ outcome'[queue[i]] = "waiting"
      BY <1>1, <1>2, <1>3 DEF QueueInv, Calls
    <2>2. \A c \in Calls : outcome'[c] = "waiting" => \E i \in 1 .. Len(queue) : queue[i] = c
      BY <1>1, <1>2 DEF QueueInv
    <2> QED BY <2>1, <2>2 DEF QueueInv
  <1>5. FutureInv' BY <1>1, <1>2 DEF FutureInv, Calls
  <1>6. DryInv' BY <1>1, <1>2 DEF DryInv, Token, BucketTypeOK, Called
  <1>7. NoBarging'
    <2> SUFFICES ASSUME NEW c \in Calls, NEW d \in Calls, c < d,
                        outcome'[c] = "waiting", outcome'[d] = "granted"
                 PROVE FALSE
      BY DEF NoBarging
    <2>1. c # calls + 1 /\ outcome[c] = "waiting" BY <1>1, <1>2
    <2>2. d = calls + 1 /\ o = "granted" BY <1>1, <1>2, <2>1 DEF NoBarging
    <2>3. PICK i \in 1 .. Len(queue) : queue[i] = c BY <2>1 DEF QueueInv
    <2> QED BY <1>2, <2>2, <2>3
  <1> QED BY <1>4, <1>5, <1>6, <1>7

\* A call that has to wait goes to the end of the queue.
LEMMA WaitOrder == OrderInv /\ Wait => QueueInv' /\ FutureInv' /\ DryInv' /\ NoBarging'
  <1> SUFFICES ASSUME OrderInv, Wait PROVE QueueInv' /\ FutureInv' /\ DryInv' /\ NoBarging'
    OBVIOUS
  <1> USE DEF OrderInv
  <1>1. /\ calls + 1 \in Calls /\ calls' = calls + 1 /\ calls \in Nat
        /\ outcome' = [outcome EXCEPT ![calls + 1] = "waiting"]
        /\ outcome[calls + 1] = "none"
    BY BucketAssumption DEF Wait, Called, BucketTypeOK, FutureInv, Calls
  <1>2. /\ queue \in Seq(Calls) /\ Len(queue) \in Nat
        /\ outcome \in [Calls -> {"none", "waiting", "granted", "rejected"}]
    BY DEF BucketTypeOK
  <1>3. /\ Len(queue') = Len(queue) + 1 /\ queue'[Len(queue) + 1] = calls + 1
        /\ \A i \in 1 .. Len(queue) : queue'[i] = queue[i]
    BY <1>1, <1>2 DEF Wait
  <1>4. \A i \in 1 .. Len(queue) : queue[i] \in Calls /\ queue[i] < calls + 1
    <2>1. \A i \in 1 .. Len(queue) : queue[i] \in Calls /\ queue[i] <= calls
      BY <1>2 DEF QueueInv
    <2> QED BY <1>1, <2>1 DEF Calls
  <1>5. QueueInv'
    <2>1. \A i \in 1 .. Len(queue') : queue'[i] <= calls' /\ outcome'[queue'[i]] = "waiting"
      <3> SUFFICES ASSUME NEW i \in 1 .. Len(queue')
                   PROVE queue'[i] <= calls' /\ outcome'[queue'[i]] = "waiting"
        OBVIOUS
      <3>1. CASE i = Len(queue) + 1 BY <1>1, <1>2, <1>3, <3>1
      <3>2. CASE i \in 1 .. Len(queue)
        <4>1. queue'[i] = queue[i] /\ outcome[queue[i]] = "waiting" BY <1>3, <3>2 DEF QueueInv
        <4>2. queue[i] \in Nat /\ queue[i] < calls + 1 BY <1>4, <3>2 DEF Calls
        <4> QED BY <1>1, <1>2, <1>4, <3>2, <4>1, <4>2
      <3> QED BY <1>2, <1>3, <3>1, <3>2
    <2>2. \A i, j \in 1 .. Len(queue') : i < j => queue'[i] < queue'[j]
      <3> SUFFICES ASSUME NEW i \in 1 .. Len(queue'), NEW j \in 1 .. Len(queue'), i < j
                   PROVE queue'[i] < queue'[j]
        OBVIOUS
      <3>1. i \in 1 .. Len(queue) BY <1>2, <1>3
      <3>2. CASE j = Len(queue) + 1 BY <1>3, <1>4, <3>1, <3>2
      <3>3. CASE j \in 1 .. Len(queue) BY <1>3, <3>1, <3>3 DEF QueueInv
      <3> QED BY <1>2, <1>3, <3>2, <3>3
    <2>3. \A c \in Calls : outcome'[c] = "waiting" => \E i \in 1 .. Len(queue') : queue'[i] = c
      <3> SUFFICES ASSUME NEW c \in Calls, outcome'[c] = "waiting"
                   PROVE \E i \in 1 .. Len(queue') : queue'[i] = c
        OBVIOUS
      <3>1. CASE c = calls + 1 BY <1>2, <1>3, <3>1
      <3>2. CASE c # calls + 1
        <4>1. PICK i \in 1 .. Len(queue) : queue[i] = c BY <1>1, <1>2, <3>2 DEF QueueInv
        <4> QED BY <1>2, <1>3, <4>1
      <3> QED BY <3>1, <3>2
    <2> QED BY <2>1, <2>2, <2>3 DEF QueueInv
  <1>6. FutureInv' BY <1>1, <1>2 DEF FutureInv, Calls
  <1>7. DryInv' BY DEF DryInv, Wait
  <1>8. NoBarging'
    <2> SUFFICES ASSUME NEW c \in Calls, NEW d \in Calls, c < d,
                        outcome'[c] = "waiting", outcome'[d] = "granted"
                 PROVE FALSE
      BY DEF NoBarging
    <2>1. outcome[d] = "granted" BY <1>1, <1>2
    <2>2. d <= calls BY <1>1, <2>1 DEF FutureInv, Calls
    <2>3. outcome[c] = "waiting" BY <1>1, <1>2, <2>2 DEF Calls
    <2> QED BY <2>1, <2>3 DEF NoBarging
  <1> QED BY <1>5, <1>6, <1>7, <1>8

\* The order of service, with what it rests on, is kept by every step.
LEMMA OrderStep == OrderInv /\ [Next]_bucket => OrderInv'
  <1> SUFFICES ASSUME OrderInv, [Next]_bucket PROVE OrderInv' OBVIOUS
  <1>0. BucketTypeOK' BY TypeStep DEF OrderInv
  <1>1. CASE refillTokens BY <1>0, <1>1, RefillOrder DEF OrderInv
  <1>2. CASE Take
    <2>1. tokens \in Nat /\ tokens >= 10 /\ tokens' = tokens - 10
      BY <1>2, BucketAssumption DEF Take, Token, OrderInv, BucketTypeOK
    <2>2. tokens' \in Nat /\ tokens' <= tokens BY <2>1
    <2>3. Len(queue) = 0 BY <2>1 DEF OrderInv, DryInv, Token, BucketTypeOK
    <2>4. Called("granted") /\ UNCHANGED queue BY <1>2 DEF Take
    <2> QED BY <1>0, <2>2, <2>3, <2>4, CalledOrder DEF OrderInv
  <1>3. CASE Wait BY <1>0, <1>3, WaitOrder DEF OrderInv
  <1>4. CASE Called("rejected") /\ UNCHANGED <<tokens, queue, totalConsumed>>
    <2>1. tokens' \in Nat /\ tokens' <= tokens
      BY <1>4, BucketAssumption DEF OrderInv, BucketTypeOK, Token
    <2> QED BY <1>0, <1>4, <2>1, CalledOrder DEF OrderInv
  <1>5. CASE dispose
    <2>1. /\ queue' = <<>> /\ calls' = calls
          /\ outcome' = [c \in Calls |-> IF outcome[c] = "waiting" THEN "rejected" ELSE outcome[c]]
      BY <1>5 DEF dispose
    <2>2. QueueInv' /\ DryInv' BY <2>1 DEF QueueInv, DryInv
    <2>3. FutureInv' BY <2>1 DEF OrderInv, FutureInv
    <2>4. NoBarging' BY <2>1 DEF NoBarging
    <2> QED BY <1>0, <2>2, <2>3, <2>4 DEF OrderInv
  <1>6. CASE UNCHANGED bucket
    BY <1>6 DEF bucket, OrderInv, BucketTypeOK, QueueInv, FutureInv, DryInv, NoBarging
  <1> QED BY <1>1, <1>2, <1>3, <1>4, <1>5, <1>6 DEF Next, acquire, tryAcquire, Refuse

\* First come, first served, for acquire() and tryAcquire() alike.
THEOREM FirstComeFirstServed == Spec => []NoBarging
  <1>1. Init => OrderInv
    <2> SUFFICES ASSUME Init PROVE OrderInv OBVIOUS
    <2>1. BucketTypeOK BY InitType
    <2> QED BY <2>1 DEF Init, OrderInv, QueueInv, FutureInv, DryInv, NoBarging, Calls
  <1>2. OrderInv => NoBarging BY DEF OrderInv
  <1> QED BY <1>1, <1>2, OrderStep, PTL DEF Spec

-----------------------------------------------------------------------------
(* Rate.                                                                 *)

\* Tokens are neither minted nor handed out twice: what was handed out and what
\* is left is covered by the first filling and the ticks.
LEMMA RateStep == BucketTypeOK /\ RateBound /\ [Next]_bucket => RateBound'
  <1> SUFFICES ASSUME BucketTypeOK, RateBound, [Next]_bucket, ticks' < MaxTicks
               PROVE totalConsumed' * Token + tokens' <= capacity * Token + ticks' * refillRate
    BY DEF RateBound
  <1> USE BucketAssumption DEF Token
  <1>0. /\ tokens \in Nat /\ totalConsumed \in Nat /\ ticks \in Nat /\ Len(queue) \in Nat
        /\ ticks <= MaxTicks
    BY DEF BucketTypeOK
  <1>1. CASE refillTokens
    <2>1. served \in Nat /\ refilled \in Nat /\ refilled <= tokens + refillRate
      BY <1>0, ServedBounds DEF refilled
    <2>2. /\ totalConsumed' = totalConsumed + served
          /\ tokens' = refilled - served * 10
      BY <1>1 DEF refillTokens, Grant
    <2>3. ticks' = ticks + 1 /\ ticks < MaxTicks
      BY <1>0, <1>1 DEF refillTokens, Tick
    <2>4. totalConsumed * 10 + tokens <= capacity * 10 + ticks * refillRate
      BY <2>3 DEF RateBound
    <2>5. ticks' * refillRate = ticks * refillRate + refillRate /\ ticks * refillRate \in Nat
      BY <1>0, <2>3
    <2>6. totalConsumed' * 10 + tokens' = totalConsumed * 10 + refilled
      BY <1>0, <2>1, <2>2
    <2> QED BY <1>0, <2>1, <2>4, <2>5, <2>6
  <1>2. CASE Take
    <2>1. totalConsumed' = totalConsumed + 1 /\ tokens' = tokens - 10 /\ ticks' = ticks
      BY <1>2 DEF Take, Called
    <2>2. totalConsumed * 10 + tokens <= capacity * 10 + ticks * refillRate
      BY <2>1 DEF RateBound
    <2>3. ticks * refillRate \in Nat BY <1>0
    <2> QED BY <1>0, <2>1, <2>2, <2>3
  <1>3. CASE UNCHANGED <<tokens, totalConsumed, ticks>> BY <1>3 DEF RateBound
  <1> QED BY <1>1, <1>2, <1>3
      DEF Next, acquire, tryAcquire, Wait, Refuse, Called, dispose, bucket

\* The rate limit: k ticks after the start at most a bucketful and k refills of
\* tokens have been handed out.
THEOREM RateCorrect == Spec => []RateBound
  <1>1. Init => RateBound BY BucketAssumption DEF Init, RateBound, Token
  <1>2. BucketTypeOK /\ RateBound /\ [Next]_bucket => RateBound' BY RateStep
  <1> QED BY <1>1, <1>2, BucketTypeCorrect, PTL DEF Spec

\* Any number of callers are served in turn and within the rate.
THEOREM ServiceCorrect == Spec => []ServedInTurn
  <1>1. NoBarging /\ RateBound => ServedInTurn BY DEF ServedInTurn
  <1> QED BY <1>1, FirstComeFirstServed, RateCorrect, PTL

-----------------------------------------------------------------------------
(* The client and its bucket.                                            *)

\* Every step of the client is a step of the bucket or leaves it alone.
LEMMA BucketSimulation == [CNext]_vars => [Next]_bucket
  <1> SUFFICES ASSUME [CNext]_vars PROVE [Next]_bucket OBVIOUS
  <1>1. CASE Acquire BY <1>1 DEF Acquire, Next
  <1>2. CASE Refill BY <1>2 DEF Refill, Next
  <1>3. CASE Dispose BY <1>3 DEF Dispose, Next
  <1>4. ASSUME NEW c \in Calls, Execute(c) PROVE UNCHANGED bucket
    BY <1>4 DEF Execute, Admitted, Send, Skip, Succeed, Fail, FailOther
  <1>5. ASSUME NEW e \in Endpoints, TimerFires(e) PROVE UNCHANGED bucket
    BY <1>5 DEF TimerFires
  <1>6. CASE UNCHANGED vars BY <1>6 DEF vars
  <1> QED BY <1>1, <1>2, <1>3, <1>4, <1>5, <1>6 DEF CNext

\* The client implements the token bucket.
THEOREM ClientImplementsBucket == CSpec => Spec
  <1>1. CInit => Init BY DEF CInit
  <1> QED BY <1>1, BucketSimulation, PTL DEF CSpec, Spec

\* Calls of execute() get their tokens in the order they asked for them, and no
\* faster than the bucket's rate.
THEOREM ClientServedInTurn == CSpec => []ServedInTurn
  BY ClientImplementsBucket, ServiceCorrect, PTL

-----------------------------------------------------------------------------
(* The order of the endpoints.                                           *)

\* What the bucket decided about a call stays decided.
LEMMA Settled ==
    ASSUME OrderInv, [Next]_bucket, NEW c \in Calls, outcome[c] \in {"granted", "rejected"}
    PROVE  outcome'[c] = outcome[c]
  <1> USE DEF OrderInv
  <1>1. CASE refillTokens
    <2>1. served \in 0 .. Len(queue) /\ Len(queue) \in Nat
      BY ServedBounds DEF BucketTypeOK
    <2>2. ~\E i \in 1 .. served : queue[i] = c BY <2>1 DEF QueueInv
    <2> QED BY <1>1, <2>2 DEF refillTokens, Grant
  <1>2. ASSUME NEW o, Called(o) PROVE outcome'[c] = outcome[c]
    <2>1. c # calls + 1
      BY <1>2, BucketAssumption DEF Called, FutureInv, BucketTypeOK, Calls
    <2> QED BY <1>2, <2>1 DEF Called, BucketTypeOK
  <1>3. CASE dispose BY <1>3 DEF dispose
  <1>4. CASE UNCHANGED bucket BY <1>4 DEF bucket
  <1> QED BY <1>1, <1>2, <1>3, <1>4 DEF Next, acquire, tryAcquire, Take, Wait, Refuse

\* The types of what the visit of the endpoints is made of.
VisitType ==
    /\ phase \in [Calls -> {"acquire", "visit", "running", "done", "failed"}]
    /\ endpoint \in [Calls -> Endpoints]
    /\ visited \in [Calls -> [Endpoints -> {"not", "refused", "error", "answered"}]]

\* A call past acquire() was decided; one that visits endpoints has a token.
AdmittedInv ==
    \A c \in Calls :
        /\ phase[c] # "acquire" => outcome[c] \in {"granted", "rejected"}
        /\ phase[c] \in {"visit", "running", "done"} => outcome[c] = "granted"

VisitInv == OrderInv /\ VisitType /\ AdmittedInv /\ BackupsInOrder

LEMMA VisitInit == CInit => VisitInv
  <1> SUFFICES ASSUME CInit PROVE VisitInv OBVIOUS
  <1>1. OrderInv
    <2>1. BucketTypeOK BY InitType DEF CInit
    <2> QED BY <2>1 DEF CInit, Init, OrderInv, QueueInv, FutureInv, DryInv, NoBarging, Calls
  <1>2. 1 \in Endpoints BY EndpointAssumption DEF Endpoints
  <1>3. VisitType BY <1>2 DEF CInit, VisitType
  <1>4. AdmittedInv BY DEF CInit, AdmittedInv
  <1>5. BackupsInOrder BY DEF CInit, BackupsInOrder, Endpoints
  <1> QED BY <1>1, <1>3, <1>4, <1>5 DEF VisitInv

\* Moving on from an endpoint marks it, and no later one.
LEMMA MoveOnStep ==
    ASSUME VisitInv, NEW c \in Calls, NEW why \in {"refused", "error"},
           MoveOn(c, why), outcome[c] = "granted", phase[c] \in {"visit", "running"},
           UNCHANGED outcome
    PROVE  VisitType' /\ AdmittedInv' /\ BackupsInOrder'
  <1> USE DEF VisitInv
  <1> DEFINE k == endpoint[c]
  <1>1. k \in Endpoints /\ visited[c] \in [Endpoints -> {"not", "refused", "error", "answered"}]
    BY DEF VisitType
  <1>2. visited' = [visited EXCEPT ![c] = [visited[c] EXCEPT ![k] = why]]
    BY DEF MoveOn
  <1>3. /\ visited'[c] = [visited[c] EXCEPT ![k] = why]
        /\ \A d \in Calls : d # c => visited'[d] = visited[d]
        /\ visited' \in [Calls -> [Endpoints -> {"not", "refused", "error", "answered"}]]
    BY <1>1, <1>2 DEF VisitType
  <1>4. \A e \in Endpoints : e <= k => visited'[c][e] \in {"refused", "error"}
    <2>1. \A e \in Endpoints : e < k => visited[c][e] \in {"refused", "error"}
      BY DEF BackupsInOrder
    <2>2. \A e \in Endpoints : visited'[c][e] = IF e = k THEN why ELSE visited[c][e]
      BY <1>1, <1>3
    <2>3. \A e \in Endpoints : e <= k => e < k \/ e = k
      BY <1>1, EndpointAssumption DEF Endpoints
    <2> HIDE DEF k
    <2> QED BY <2>1, <2>2, <2>3
  <1> HIDE DEF k
  <1>5. CASE k < NumEndpoints
    <2>1. /\ phase' = [phase EXCEPT ![c] = "visit"]
          /\ endpoint' = [endpoint EXCEPT ![c] = k + 1]
      BY <1>5 DEF MoveOn, k
    <2>2. k + 1 \in Endpoints BY <1>1, <1>5, EndpointAssumption DEF Endpoints
    <2>3. VisitType' BY <1>3, <2>1, <2>2 DEF VisitType
    <2>4. AdmittedInv' BY <2>1 DEF AdmittedInv, VisitType
    <2>5. BackupsInOrder'
      <3> SUFFICES ASSUME NEW d \in Calls, NEW e \in Endpoints,
                          e < endpoint'[d] \/ (phase'[d] = "failed" /\ outcome[d] = "granted")
                   PROVE visited'[d][e] \in {"refused", "error"}
        BY DEF BackupsInOrder
      <3>1. CASE d = c
        <4>1. e < k + 1 BY <2>1, <3>1 DEF VisitType
        <4> QED BY <1>1, <1>4, <3>1, <4>1 DEF Endpoints
      <3>2. CASE d # c BY <1>3, <2>1, <3>2 DEF BackupsInOrder, VisitType
      <3> QED BY <3>1, <3>2
    <2> QED BY <2>3, <2>4, <2>5
  <1>6. CASE ~(k < NumEndpoints)
    <2>1. phase' = [phase EXCEPT ![c] = "failed"] /\ endpoint' = endpoint
      BY <1>6 DEF MoveOn, k
    <2>2. \A e \in Endpoints : e <= k BY <1>1, <1>6, EndpointAssumption DEF Endpoints
    <2>3. VisitType' BY <1>3, <2>1 DEF VisitType
    <2>4. AdmittedInv' BY <2>1 DEF AdmittedInv, VisitType
    <2>5. BackupsInOrder'
      <3> SUFFICES ASSUME NEW d \in Calls, NEW e \in Endpoints,
                          e < endpoint[d] \/ (phase'[d] = "failed" /\ outcome[d] = "granted")
                   PROVE visited'[d][e] \in {"refused", "error"}
        BY <2>1 DEF BackupsInOrder
      <3>1. CASE d = c BY <1>4, <2>2, <3>1
      <3>2. CASE d # c BY <1>3, <2>1, <3>2 DEF BackupsInOrder, VisitType
      <3> QED BY <3>1, <3>2
    <2> QED BY <2>3, <2>4, <2>5
  <1> QED BY <1>5, <1>6

\* Steps of the bucket leave the visits alone.
LEMMA BucketKeepsVisits ==
    ASSUME VisitInv, [Next]_bucket, UNCHANGED <<phase, endpoint, visited>>
    PROVE  VisitType' /\ AdmittedInv' /\ BackupsInOrder'
  <1> USE DEF VisitInv
  <1>1. \A c \in Calls : outcome[c] \in {"granted", "rejected"} => outcome'[c] = outcome[c]
    BY Settled
  <1>2. VisitType' BY DEF VisitType
  <1>3. AdmittedInv' BY <1>1 DEF AdmittedInv
  <1>4. BackupsInOrder'
    <2>1. \A c \in Calls : phase[c] = "failed" => outcome'[c] = outcome[c]
      BY <1>1 DEF AdmittedInv
    <2> QED BY <2>1 DEF BackupsInOrder
  <1> QED BY <1>2, <1>3, <1>4

LEMMA VisitStep == VisitInv /\ [CNext]_vars => VisitInv'
  <1> SUFFICES ASSUME VisitInv, [CNext]_vars PROVE VisitInv' OBVIOUS
  <1> USE DEF VisitInv
  <1>0. OrderInv' /\ [Next]_bucket BY BucketSimulation, OrderStep
  <1>1. CASE Acquire \/ Refill \/ Dispose \/ UNCHANGED vars
    BY <1>0, <1>1, BucketKeepsVisits DEF Acquire, Refill, Dispose, vars, client
  <1>2. ASSUME NEW e \in Endpoints, TimerFires(e) PROVE VisitInv'
    BY <1>0, <1>2, BucketKeepsVisits DEF TimerFires
  <1>3. ASSUME NEW c \in Calls, Admitted(c) PROVE VisitInv'
    <2>1. /\ UNCHANGED <<outcome, endpoint, visited>>
          /\ phase' = [phase EXCEPT ![c] = IF outcome[c] = "granted" THEN "visit" ELSE "failed"]
          /\ outcome[c] \in {"granted", "rejected"}
      BY <1>3 DEF Admitted, bucket
    <2>2. VisitType' BY <2>1 DEF VisitType
    <2>3. AdmittedInv' BY <2>1 DEF AdmittedInv, VisitType
    <2>4. \A d \in Calls : phase'[d] = "failed" /\ outcome[d] = "granted" => phase[d] = "failed"
      BY <2>1 DEF VisitType
    <2>5. BackupsInOrder' BY <2>1, <2>4 DEF BackupsInOrder
    <2> QED BY <1>0, <2>2, <2>3, <2>5
  <1>4. ASSUME NEW c \in Calls, Send(c) PROVE VisitInv'
    <2>1. /\ UNCHANGED <<outcome, endpoint, visited>>
          /\ phase[c] = "visit" /\ phase' = [phase EXCEPT ![c] = "running"]
      BY <1>4 DEF Send, bucket
    <2>2. VisitType' BY <2>1 DEF VisitType
    <2>3. AdmittedInv' BY <2>1 DEF AdmittedInv, VisitType
    <2>4. \A d \in Calls : phase'[d] = "failed" => phase[d] = "failed"
      BY <2>1 DEF VisitType
    <2>5. BackupsInOrder' BY <2>1, <2>4 DEF BackupsInOrder
    <2> QED BY <1>0, <2>2, <2>3, <2>5
  <1>5. ASSUME NEW c \in Calls, Skip(c) \/ Fail(c) \/ FailOther(c) PROVE VisitInv'
    <2>1. phase[c] \in {"visit", "running"} /\ UNCHANGED outcome
      BY <1>5 DEF Skip, Fail, FailOther, bucket
    <2>2. outcome[c] = "granted" BY <2>1 DEF AdmittedInv
    <2>3. MoveOn(c, "refused") \/ MoveOn(c, "error") BY <1>5 DEF Skip, Fail, FailOther
    <2> QED BY <1>0, <2>1, <2>2, <2>3, MoveOnStep
  <1>6. ASSUME NEW c \in Calls, Succeed(c) PROVE VisitInv'
    <2> DEFINE k == endpoint[c]
    <2>1. k \in Endpoints /\ visited[c] \in [Endpoints -> {"not", "refused", "error", "answered"}]
      BY DEF VisitType
    <2>2. /\ UNCHANGED <<outcome, endpoint>> /\ phase[c] = "running"
          /\ phase' = [phase EXCEPT ![c] = "done"]
          /\ visited' = [visited EXCEPT ![c] = [visited[c] EXCEPT ![k] = "answered"]]
      BY <1>6 DEF Succeed, bucket
    <2>3. VisitType' BY <2>1, <2>2 DEF VisitType
    <2>4. AdmittedInv' BY <2>2 DEF AdmittedInv, VisitType
    <2>5. BackupsInOrder'
      <3> SUFFICES ASSUME NEW d \in Calls, NEW e \in Endpoints,
                          e < endpoint[d] \/ (phase'[d] = "failed" /\ outcome[d] = "granted")
                   PROVE visited'[d][e] \in {"refused", "error"}
        BY <2>2 DEF BackupsInOrder
      <3>1. e < endpoint[d] \/ (phase[d] = "failed" /\ outcome[d] = "granted")
        BY <2>2 DEF VisitType
      <3>2. visited[d][e] \in {"refused", "error"} BY <3>1 DEF BackupsInOrder
      <3>3. CASE d = c
        <4>1. e < k BY <2>2, <3>3 DEF VisitType
        <4>2. visited'[c][e] = visited[c][e] BY <2>1, <2>2, <4>1 DEF VisitType, Endpoints
        <4> QED BY <3>2, <3>3, <4>2
      <3>4. CASE d # c BY <2>2, <3>2, <3>4 DEF VisitType
      <3> QED BY <3>3, <3>4
    <2> QED BY <1>0, <2>3, <2>4, <2>5
  <1> QED BY <1>1, <1>2, <1>3, <1>4, <1>5, <1>6 DEF CNext, Execute

\* A call reaches a backup, or fails with a token in hand, only after every
\* better endpoint refused or failed it.
THEOREM FailoverInOrder == CSpec => []BackupsInOrder
  <1>1. VisitInv => BackupsInOrder BY DEF VisitInv
  <1> QED BY <1>1, VisitInit, VisitStep, PTL DEF CSpec

-----------------------------------------------------------------------------
(* The endpoints.                                                        *)

Granted == {c \in Calls : outcome[c] = "granted"}

\* Calls that endpoint e failed, and calls a request was sent to it for.
Errors(e) == {c \in Calls : visited[c][e] = "error"}
Sent(e) == {c \in Calls : \/ visited[c][e] \in {"error", "answered"}
                          \/ phase[c] = "running" /\ endpoint[c] = e}

\* A call leaves its mark at an endpoint once, when it is done with it.
MarkInv ==
    \A c \in Calls, e \in Endpoints :
        /\ phase[c] \in {"visit", "running"} /\ e >= endpoint[c] => visited[c][e] = "not"
        /\ visited[c][e] # "not" => phase[c] # "acquire" /\ outcome[c] = "granted"

\* A breaker counts errors of its own endpoint.
BlameInv ==
    /\ breakers \in [Endpoints -> Breaker]
    /\ \A e \in Endpoints :
          /\ Armed(breakers[e])
          /\ breakers[e].failures <= Cardinality(Errors(e))
          /\ breakers[e].state # "CLOSED" => Cardinality(Errors(e)) >= failureThreshold

\* A request is sent to an endpoint once for each token at most.
SentInv ==
    /\ rpcs \in [Endpoints -> Nat]
    /\ \A e \in Endpoints : rpcs[e] <= Cardinality(Sent(e))
    /\ Cardinality(Granted) <= totalConsumed

ApartInv == VisitInv /\ MarkInv /\ BlameInv /\ SentInv

\* Sets of calls are finite.
LEMMA CallSets ==
    ASSUME NEW S \in SUBSET Calls
    PROVE  /\ IsFiniteSet(S) /\ Cardinality(S) \in Nat
           /\ \A T \in SUBSET S : Cardinality(T) \in Nat /\ Cardinality(T) <= Cardinality(S)
           /\ \A c \in Calls \ S : Cardinality(S \cup {c}) = Cardinality(S) + 1
  <1>1. IsFiniteSet(Calls)
    <2>1. 1 \in Int /\ MaxCalls \in Int BY BucketAssumption
    <2> QED BY <2>1, FS_Interval DEF Calls
  <1>2. IsFiniteSet(S) BY <1>1, FS_Subset
  <1>3. \A T \in SUBSET S : IsFiniteSet(T) /\ Cardinality(T) <= Cardinality(S)
    BY <1>2, FS_Subset
  <1>4. \A c \in Calls \ S : Cardinality(S \cup {c}) = Cardinality(S) + 1
    BY <1>2, FS_AddElement
  <1> QED BY <1>2, <1>3, <1>4, FS_CardinalityType

\* The bucket grants no more calls than it counts tokens.
LEMMA GrantedStep ==
    ASSUME OrderInv, Cardinality(Granted) <= totalConsumed, [Next]_bucket
    PROVE  Cardinality(Granted') <= totalConsumed'
  <1> USE DEF OrderInv
  <1>1. /\ Granted \subseteq Calls /\ Granted' \subseteq Calls
        /\ Cardinality(Granted) \in Nat /\ Cardinality(Granted') \in Nat
        /\ IsFiniteSet(Granted) /\ totalConsumed \in Nat
    <2>1. Granted \subseteq Calls /\ Granted' \subseteq Calls BY DEF Granted
    <2> QED BY <2>1, CallSets DEF BucketTypeOK
  <1>2. ASSUME Granted' \subseteq Granted, totalConsumed' = totalConsumed
        PROVE  Cardinality(Granted') <= totalConsumed'
    <2>1. Cardinality(Granted') <= Cardinality(Granted) BY <1>1, <1>2, CallSets
    <2> QED BY <1>1, <1>2, <2>1
  <1>3. CASE refillTokens
    <2> DEFINE n == served
               Won == {queue[i] : i \in 1 .. n}
               f == [i \in 1 .. n |-> queue[i]]
    <2>1. n \in Nat BY ServedBounds DEF BucketTypeOK
    <2>2. totalConsumed' = totalConsumed + n /\ Granted' \subseteq Granted \cup Won
      BY <1>3 DEF refillTokens, Grant, Granted
    <2> HIDE DEF n
    <2>3. IsFiniteSet(1 .. n) /\ Cardinality(1 .. n) = n
      <3>1. IsFiniteSet(1 .. n) /\ Cardinality(1 .. n) = IF 1 > n THEN 0 ELSE n - 1 + 1
        BY <2>1, FS_Interval
      <3> QED BY <2>1, <3>1
    <2>4. f \in Surjection(1 .. n, Won) BY DEF Surjection
    <2> HIDE DEF f, Won
    <2>5. IsFiniteSet(Won) /\ Cardinality(Won) <= n
      BY <2>3, <2>4, FS_Surjection
    <2>6. Cardinality(Won) \in Nat /\ Cardinality(Granted \cap Won) \in Nat
      <3>1. IsFiniteSet(Granted \cap Won) BY <1>1, FS_Subset
      <3> QED BY <2>5, <3>1, FS_CardinalityType
    <2>7. /\ IsFiniteSet(Granted \cup Won)
          /\ Cardinality(Granted \cup Won) = Cardinality(Granted) + Cardinality(Won) - Cardinality(Granted \cap Won)
      BY <1>1, <2>5, FS_Union
    <2>8. Cardinality(Granted') <= Cardinality(Granted \cup Won)
      BY <2>2, <2>7, FS_Subset
    <2> QED BY <1>1, <2>1, <2>2, <2>5, <2>6, <2>7, <2>8
  <1>4. ASSUME NEW o, Called(o)
        PROVE  /\ calls + 1 \in Calls /\ outcome' = [outcome EXCEPT ![calls + 1] = o]
               /\ Granted' \subseteq Granted \cup {calls + 1}
               /\ o # "granted" => Granted' \subseteq Granted
    <2>1. calls + 1 \in Calls BY <1>4, BucketAssumption DEF Called, BucketTypeOK, Calls
    <2>2. outcome' = [outcome EXCEPT ![calls + 1] = o] BY <1>4 DEF Called
    <2> QED BY <2>1, <2>2 DEF Granted, BucketTypeOK
  <1>5. CASE Take
    <2>1. calls + 1 \in Calls /\ Granted' \subseteq Granted \cup {calls + 1}
          /\ totalConsumed' = totalConsumed + 1
      BY <1>4, <1>5 DEF Take
    <2>2. /\ IsFiniteSet(Granted \cup {calls + 1})
          /\ Cardinality(Granted \cup {calls + 1})
                = IF calls + 1 \in Granted THEN Cardinality(Granted) ELSE Cardinality(Granted) + 1
      BY <1>1, FS_AddElement
    <2>3. Cardinality(Granted') <= Cardinality(Granted \cup {calls + 1})
      BY <2>1, <2>2, FS_Subset
    <2> QED BY <1>1, <2>1, <2>2, <2>3
  <1>6. CASE Wait
    <2>1. Granted' \subseteq Granted /\ totalConsumed' = totalConsumed BY <1>4, <1>6 DEF Wait
    <2> QED BY <1>2, <2>1
  <1>7. ASSUME Called("rejected"), UNCHANGED totalConsumed
        PROVE  Cardinality(Granted') <= totalConsumed'
    <2>1. Granted' \subseteq Granted BY <1>4, <1>7
    <2> QED BY <1>2, <1>7, <2>1
  <1>8. CASE dispose
    <2>1. Granted' \subseteq Granted /\ totalConsumed' = totalConsumed BY <1>8 DEF dispose, Granted
    <2> QED BY <1>2, <2>1
  <1>9. CASE UNCHANGED bucket
    <2>1. Granted' \subseteq Granted /\ totalConsumed' = totalConsumed BY <1>9 DEF bucket, Granted
    <2> QED BY <1>2, <2>1
  <1> QED BY <1>3, <1>5, <1>6, <1>7, <1>8, <1>9 DEF Next, acquire, tryAcquire, Refuse

\* What moving on from an endpoint changes.
LEMMA MoveOnFacts ==
    ASSUME VisitType, NEW c \in Calls, NEW why \in {"refused", "error"}, MoveOn(c, why)
    PROVE  /\ endpoint[c] \in Endpoints
           /\ \A d \in Calls, e \in Endpoints :
                 visited'[d][e] = IF d = c /\ e = endpoint[c] THEN why ELSE visited[d][e]
           /\ \A d \in Calls \ {c} : phase'[d] = phase[d] /\ endpoint'[d] = endpoint[d]
           /\ phase'[c] \in {"visit", "failed"}
           /\ phase'[c] = "visit" => endpoint'[c] = endpoint[c] + 1
  <1> DEFINE k == endpoint[c]
  <1>1. k \in Endpoints /\ visited[c] \in [Endpoints -> {"not", "refused", "error", "answered"}]
    BY DEF VisitType
  <1>2. visited' = [visited EXCEPT ![c] = [visited[c] EXCEPT ![k] = why]] BY DEF MoveOn
  <1>3. \A d \in Calls : visited'[d] = IF d = c THEN [visited[c] EXCEPT ![k] = why] ELSE visited[d]
    BY <1>2 DEF VisitType
  <1>4. \A d \in Calls, e \in Endpoints :
           visited'[d][e] = IF d = c /\ e = k THEN why ELSE visited[d][e]
    BY <1>1, <1>3
  <1>5. \/ phase' = [phase EXCEPT ![c] = "visit"] /\ endpoint' = [endpoint EXCEPT ![c] = k + 1]
        \/ phase' = [phase EXCEPT ![c] = "failed"] /\ endpoint' = endpoint
    BY DEF MoveOn
  <1> HIDE DEF k
  <1>6. /\ \A d \in Calls \ {c} : phase'[d] = phase[d] /\ endpoint'[d] = endpoint[d]
        /\ phase'[c] \in {"visit", "failed"}
        /\ phase'[c] = "visit" => endpoint'[c] = k + 1
    BY <1>5 DEF VisitType
  <1> QED BY <1>1, <1>4, <1>6 DEF k

\* An answer ends the visit at the endpoint that gave it.
LEMMA SucceedFacts ==
    ASSUME VisitType, NEW c \in Calls, Succeed(c)
    PROVE  /\ endpoint[c] \in Endpoints /\ phase[c] = "running"
           /\ \A d \in Calls, e \in Endpoints :
                 visited'[d][e] = IF d = c /\ e = endpoint[c] THEN "answered" ELSE visited[d][e]
           /\ \A d \in Calls \ {c} : phase'[d] = phase[d]
           /\ phase'[c] = "done" /\ endpoint' = endpoint
  <1> DEFINE k == endpoint[c]
  <1>1. k \in Endpoints /\ visited[c] \in [Endpoints -> {"not", "refused", "error", "answered"}]
    BY DEF VisitType
  <1>2. visited' = [visited EXCEPT ![c] = [visited[c] EXCEPT ![k] = "answered"]]
    BY DEF Succeed
  <1>3. \A d \in Calls :
           visited'[d] = IF d = c THEN [visited[c] EXCEPT ![k] = "answered"] ELSE visited[d]
    BY <1>2 DEF VisitType
  <1>4. \A d \in Calls, e \in Endpoints :
           visited'[d][e] = IF d = c /\ e = k THEN "answered" ELSE visited[d][e]
    BY <1>1, <1>3
  <1>5. phase[c] = "running" /\ phase' = [phase EXCEPT ![c] = "done"] /\ endpoint' = endpoint
    BY DEF Succeed
  <1> HIDE DEF k
  <1>6. phase'[c] = "done" /\ \A d \in Calls \ {c} : phase'[d] = phase[d]
    BY <1>5 DEF VisitType
  <1> QED BY <1>1, <1>4, <1>5, <1>6 DEF k

LEMMA MarkStep == ASSUME VisitInv, MarkInv, [CNext]_vars PROVE MarkInv'
  <1> USE DEF VisitInv
  <1>1. \A c \in Calls : outcome[c] = "granted" => outcome'[c] = "granted"
    BY BucketSimulation, Settled
  <1>2. CASE UNCHANGED <<phase, endpoint, visited>> BY <1>1, <1>2 DEF MarkInv
  <1>3. ASSUME NEW c \in Calls, Admitted(c) PROVE MarkInv'
    <2>1. UNCHANGED <<endpoint, visited>> /\ phase[c] = "acquire"
          /\ phase' = [phase EXCEPT ![c] = IF outcome[c] = "granted" THEN "visit" ELSE "failed"]
      BY <1>3 DEF Admitted
    <2>2. /\ \A d \in Calls \ {c} : phase'[d] = phase[d]
          /\ phase'[c] \in {"visit", "failed"}
      BY <2>1 DEF VisitType
    <2>3. \A e \in Endpoints : visited[c][e] = "not" BY <2>1 DEF MarkInv
    <2> QED BY <1>1, <2>1, <2>2, <2>3 DEF MarkInv
  <1>4. ASSUME NEW c \in Calls, Send(c) PROVE MarkInv'
    <2>1. /\ UNCHANGED <<endpoint, visited>> /\ phase[c] = "visit"
          /\ phase' = [phase EXCEPT ![c] = "running"]
      BY <1>4 DEF Send
    <2>2. phase'[c] = "running" /\ \A d \in Calls \ {c} : phase'[d] = phase[d]
      BY <2>1 DEF VisitType
    <2> QED BY <1>1, <2>1, <2>2 DEF MarkInv
  <1>5. ASSUME NEW c \in Calls, NEW why \in {"refused", "error"}, MoveOn(c, why),
               phase[c] \in {"visit", "running"}
        PROVE  MarkInv'
    <2>1. outcome[c] = "granted" BY <1>5 DEF AdmittedInv
    <2>2. /\ endpoint[c] \in Endpoints
          /\ \A d \in Calls, e \in Endpoints :
                visited'[d][e] = IF d = c /\ e = endpoint[c] THEN why ELSE visited[d][e]
          /\ \A d \in Calls \ {c} : phase'[d] = phase[d] /\ endpoint'[d] = endpoint[d]
          /\ phase'[c] \in {"visit", "failed"}
          /\ phase'[c] = "visit" => endpoint'[c] = endpoint[c] + 1
      BY <1>5, MoveOnFacts
    <2>3. ASSUME NEW e \in Endpoints, phase'[c] \in {"visit", "running"}, e >= endpoint'[c]
          PROVE  visited'[c][e] = "not"
      <3>1. e >= endpoint[c] /\ e # endpoint[c] BY <2>2, <2>3, EndpointAssumption DEF Endpoints
      <3> QED BY <1>5, <2>2, <3>1 DEF MarkInv
    <2>4. ASSUME NEW d \in Calls, NEW e \in Endpoints, visited'[d][e] # "not"
          PROVE  phase'[d] # "acquire" /\ outcome'[d] = "granted"
      <3>1. CASE d = c BY <1>1, <2>1, <2>2, <3>1
      <3>2. CASE d # c BY <1>1, <2>2, <2>4, <3>2 DEF MarkInv
      <3> QED BY <3>1, <3>2
    <2>5. ASSUME NEW d \in Calls \ {c}, NEW e \in Endpoints, phase'[d] \in {"visit", "running"},
                 e >= endpoint'[d]
          PROVE  visited'[d][e] = "not"
      BY <2>2, <2>5 DEF MarkInv
    <2> QED BY <2>3, <2>4, <2>5 DEF MarkInv
  <1>6. ASSUME NEW c \in Calls, Succeed(c) PROVE MarkInv'
    <2>1. /\ endpoint[c] \in Endpoints /\ phase[c] = "running"
          /\ \A d \in Calls, e \in Endpoints :
                visited'[d][e] = IF d = c /\ e = endpoint[c] THEN "answered" ELSE visited[d][e]
          /\ \A d \in Calls \ {c} : phase'[d] = phase[d]
          /\ phase'[c] = "done" /\ endpoint' = endpoint
      BY <1>6, SucceedFacts
    <2>2. outcome[c] = "granted" BY <2>1 DEF AdmittedInv
    <2> QED BY <1>1, <2>1, <2>2 DEF MarkInv
  <1>7. CASE Acquire \/ Refill \/ Dispose \/ (\E e \in Endpoints : TimerFires(e)) \/ UNCHANGED vars
    <2>1. UNCHANGED <<phase, endpoint, visited>>
      BY <1>7 DEF Acquire, Refill, Dispose, TimerFires, vars, client
    <2> QED BY <1>2, <2>1
  <1>8. ASSUME NEW c \in Calls, Skip(c) \/ Fail(c) \/ FailOther(c) PROVE MarkInv'
    <2>1. phase[c] \in {"visit", "running"} /\ \E why \in {"refused", "error"} : MoveOn(c, why)
      BY <1>8 DEF Skip, Fail, FailOther
    <2> QED BY <1>5, <2>1
  <1> QED BY <1>3, <1>4, <1>6, <1>7, <1>8 DEF CNext, Execute

\* What the endpoints were blamed for, and asked, only grows.
LEMMA HistoryGrows ==
    ASSUME VisitInv, MarkInv, [CNext]_vars, NEW e \in Endpoints
    PROVE  Errors(e) \subseteq Errors(e)' /\ Sent(e) \subseteq Sent(e)'
  <1> USE DEF VisitInv
  <1>1. CASE UNCHANGED <<phase, endpoint, visited>> BY <1>1 DEF Errors, Sent
  <1>2. ASSUME NEW c \in Calls, Admitted(c) \/ Send(c)
        PROVE  Errors(e) \subseteq Errors(e)' /\ Sent(e) \subseteq Sent(e)'
    <2>1. /\ UNCHANGED <<endpoint, visited>> /\ phase[c] # "running"
          /\ \A d \in Calls \ {c} : phase'[d] = phase[d]
      BY <1>2 DEF Admitted, Send, VisitType
    <2> QED BY <2>1 DEF Errors, Sent
  <1>3. ASSUME NEW c \in Calls, NEW why \in {"refused", "error"}, MoveOn(c, why),
               phase[c] = "visit" \/ (phase[c] = "running" /\ why = "error")
        PROVE  Errors(e) \subseteq Errors(e)' /\ Sent(e) \subseteq Sent(e)'
    <2>1. /\ endpoint[c] \in Endpoints
          /\ \A d \in Calls, i \in Endpoints :
                visited'[d][i] = IF d = c /\ i = endpoint[c] THEN why ELSE visited[d][i]
          /\ \A d \in Calls \ {c} : phase'[d] = phase[d] /\ endpoint'[d] = endpoint[d]
      BY <1>3, MoveOnFacts
    <2>2. endpoint[c] >= endpoint[c] BY <2>1, EndpointAssumption DEF Endpoints
    <2>3. visited[c][endpoint[c]] = "not" BY <1>3, <2>1, <2>2 DEF MarkInv
    <2>4. Errors(e) \subseteq Errors(e)' BY <2>1, <2>3 DEF Errors
    <2>5. Sent(e) \subseteq Sent(e)' BY <1>3, <2>1, <2>3 DEF Sent
    <2> QED BY <2>4, <2>5
  <1>4. ASSUME NEW c \in Calls, Succeed(c)
        PROVE  Errors(e) \subseteq Errors(e)' /\ Sent(e) \subseteq Sent(e)'
    <2>1. /\ endpoint[c] \in Endpoints /\ phase[c] = "running"
          /\ \A d \in Calls, i \in Endpoints :
                visited'[d][i] = IF d = c /\ i = endpoint[c] THEN "answered" ELSE visited[d][i]
          /\ \A d \in Calls \ {c} : phase'[d] = phase[d]
          /\ endpoint' = endpoint
      BY <1>4, SucceedFacts
    <2>2. endpoint[c] >= endpoint[c] BY <2>1, EndpointAssumption DEF Endpoints
    <2>3. visited[c][endpoint[c]] = "not" BY <2>1, <2>2 DEF MarkInv
    <2>4. Errors(e) \subseteq Errors(e)' BY <2>1, <2>3 DEF Errors
    <2>5. Sent(e) \subseteq Sent(e)' BY <2>1, <2>3 DEF Sent
    <2> QED BY <2>4, <2>5
  <1>5. CASE Acquire \/ Refill \/ Dispose \/ (\E i \in Endpoints : TimerFires(i)) \/ UNCHANGED vars
    <2>1. UNCHANGED <<phase, endpoint, visited>>
      BY <1>5 DEF Acquire, Refill, Dispose, TimerFires, vars, client
    <2> QED BY <1>1, <2>1
  <1>6. ASSUME NEW c \in Calls, Skip(c) \/ Fail(c) \/ FailOther(c)
        PROVE  Errors(e) \subseteq Errors(e)' /\ Sent(e) \subseteq Sent(e)'
    <2>1. \/ phase[c] = "visit" /\ MoveOn(c, "refused")
          \/ phase[c] = "running" /\ MoveOn(c, "error")
      BY <1>6 DEF Skip, Fail, FailOther
    <2> QED BY <1>3, <2>1
  <1> QED BY <1>2, <1>4, <1>5, <1>6 DEF CNext, Execute

\* Requests are counted with the calls they were sent for.
LEMMA SentStep ==
    ASSUME VisitInv, MarkInv, SentInv, [CNext]_vars PROVE SentInv'
  <1>1. Cardinality(Granted') <= totalConsumed'
    BY GrantedStep, BucketSimulation DEF SentInv, VisitInv
  <1>2. /\ \A e \in Endpoints : Sent(e) \subseteq Sent(e)' /\ Sent(e)' \subseteq Calls
        /\ \A e \in Endpoints : /\ Cardinality(Sent(e)) \in Nat /\ Cardinality(Sent(e)') \in Nat
                                /\ Cardinality(Sent(e)) <= Cardinality(Sent(e)')
    <2>1. \A e \in Endpoints : Sent(e) \subseteq Sent(e)' /\ Sent(e)' \subseteq Calls
      BY HistoryGrows DEF Sent
    <2> QED BY <2>1, CallSets
  <1>3. CASE UNCHANGED rpcs
    <2>1. \A e \in Endpoints : rpcs'[e] <= Cardinality(Sent(e)')
      <3> SUFFICES ASSUME NEW e \in Endpoints PROVE rpcs[e] <= Cardinality(Sent(e)') BY <1>3
      <3>1. rpcs[e] \in Nat /\ rpcs[e] <= Cardinality(Sent(e)) BY DEF SentInv
      <3>2. Cardinality(Sent(e)) \in Nat /\ Cardinality(Sent(e)') \in Nat
            /\ Cardinality(Sent(e)) <= Cardinality(Sent(e)')
        BY <1>2
      <3> QED BY <3>1, <3>2
    <2> QED BY <1>1, <1>3, <2>1 DEF SentInv
  <1>4. ASSUME NEW c \in Calls, Send(c) PROVE SentInv'
    <2>0. PICK k \in Endpoints : k = endpoint[c] BY DEF VisitInv, VisitType
    <2>1. /\ phase[c] = "visit"
          /\ rpcs' = [rpcs EXCEPT ![k] = rpcs[k] + 1]
          /\ phase' = [phase EXCEPT ![c] = "running"] /\ endpoint' = endpoint
          /\ visited' = visited
      BY <1>4, <2>0 DEF Send
    <2>2. visited[c][k] = "not"
      <3>1. k >= k BY EndpointAssumption DEF Endpoints
      <3> QED BY <2>0, <2>1, <3>1 DEF MarkInv
    <2>3. c \notin Sent(k) /\ c \in Sent(k)'
      BY <2>0, <2>1, <2>2 DEF Sent, VisitInv, VisitType
    <2>4. Sent(k) \subseteq Calls BY DEF Sent
    <2>5. Cardinality(Sent(k) \cup {c}) = Cardinality(Sent(k)) + 1 BY <2>3, <2>4, CallSets
    <2>6. Cardinality(Sent(k) \cup {c}) <= Cardinality(Sent(k)')
      <3>1. Sent(k) \cup {c} \subseteq Sent(k)' BY <1>2, <2>1, <2>3
      <3>2. Sent(k)' \in SUBSET Calls BY <1>2, <2>1
      <3> QED BY <3>1, <3>2, CallSets
    <2>7. ASSUME NEW e \in Endpoints PROVE rpcs'[e] <= Cardinality(Sent(e)')
      <3>1. rpcs[e] \in Nat /\ rpcs[e] <= Cardinality(Sent(e)) BY DEF SentInv
      <3>2. Cardinality(Sent(e)) \in Nat /\ Cardinality(Sent(e)') \in Nat
            /\ Cardinality(Sent(e)) <= Cardinality(Sent(e)')
        BY <1>2
      <3>3. CASE e = k
        <4>1. rpcs'[e] = rpcs[e] + 1 BY <2>1, <3>3 DEF SentInv
        <4>2. Cardinality(Sent(e)) + 1 <= Cardinality(Sent(e)') BY <2>5, <2>6, <3>3
        <4> QED BY <3>1, <3>2, <4>1, <4>2
      <3>4. CASE e # k
        <4>1. rpcs'[e] = rpcs[e] BY <2>1, <3>4 DEF SentInv
        <4> QED BY <3>1, <3>2, <4>1
      <3> QED BY <3>3, <3>4
    <2>8. rpcs' \in [Endpoints -> Nat]
      <3>1. rpcs[k] + 1 \in Nat BY <2>1 DEF SentInv
      <3> QED BY <2>1, <3>1 DEF SentInv
    <2> QED BY <1>1, <2>7, <2>8 DEF SentInv
  <1>5. UNCHANGED rpcs \/ \E c \in Calls : Send(c)
    BY DEF CNext, Execute, Acquire, Refill, Dispose, Admitted, Skip, Succeed, Fail, FailOther,
           TimerFires, vars, client
  <1> QED BY <1>3, <1>4, <1>5

\* One breaker changes as its endpoint's errors allow; the others stay.
LEMMA BlameKept ==
    ASSUME BlameInv, NEW k \in Endpoints, NEW b \in Breaker, Armed(b),
           breakers' = [breakers EXCEPT ![k] = b],
           \A e \in Endpoints : Errors(e) \subseteq Errors(e)',
           b.failures <= Cardinality(Errors(k)'),
           b.state # "CLOSED" => Cardinality(Errors(k)') >= failureThreshold
    PROVE  BlameInv'
  <1>1. breakers' \in [Endpoints -> Breaker] BY DEF BlameInv
  <1>2. ASSUME NEW e \in Endpoints
        PROVE  /\ Armed(breakers'[e]) /\ breakers'[e].failures <= Cardinality(Errors(e)')
               /\ breakers'[e].state # "CLOSED" => Cardinality(Errors(e)') >= failureThreshold
    <2>1. CASE e = k
      <3>1. breakers'[e] = b BY <2>1 DEF BlameInv
      <3> QED BY <2>1, <3>1
    <2>2. CASE e # k
      <3>1. breakers'[e] = breakers[e] BY <2>2 DEF BlameInv
      <3>2. /\ Cardinality(Errors(e)) \in Nat /\ Cardinality(Errors(e)') \in Nat
            /\ Cardinality(Errors(e)) <= Cardinality(Errors(e)')
        <4>1. Errors(e)' \in SUBSET Calls /\ Errors(e) \in SUBSET Errors(e)' BY DEF Errors
        <4> QED BY <4>1, CallSets
      <3>3. breakers[e].failures \in Nat BY BreakerAssumption DEF BlameInv, Breaker
      <3>4. /\ Armed(breakers[e]) /\ breakers[e].failures <= Cardinality(Errors(e))
            /\ breakers[e].state # "CLOSED" => Cardinality(Errors(e)) >= failureThreshold
        BY DEF BlameInv
      <3>5. breakers[e].failures <= Cardinality(Errors(e)') BY <3>2, <3>3, <3>4
      <3>6. breakers[e].state # "CLOSED" => Cardinality(Errors(e)') >= failureThreshold
        BY <3>2, <3>4, BreakerAssumption
      <3> QED BY <3>1, <3>4, <3>5, <3>6
    <2> QED BY <2>1, <2>2
  <1> QED BY <1>1, <1>2 DEF BlameInv

\* Only an error of its endpoint brings a breaker nearer to opening.
LEMMA BlameStep ==
    ASSUME VisitInv, MarkInv, BlameInv, [CNext]_vars PROVE BlameInv'
  <1>1. \A e \in Endpoints : Errors(e) \subseteq Errors(e)' /\ Errors(e)' \in SUBSET Calls
    BY HistoryGrows DEF Errors
  <1>2. \A e \in Endpoints : /\ Cardinality(Errors(e)) \in Nat /\ Cardinality(Errors(e)') \in Nat
                             /\ Cardinality(Errors(e)) <= Cardinality(Errors(e)')
    BY <1>1, CallSets
  <1>3. ASSUME NEW e \in Endpoints
        PROVE  /\ breakers[e] \in Breaker /\ breakers[e].failures \in Nat /\ Armed(breakers[e])
               /\ breakers[e].failures <= Cardinality(Errors(e)')
               /\ breakers[e].state # "CLOSED" => Cardinality(Errors(e)') >= failureThreshold
    <2>1. breakers[e] \in Breaker /\ breakers[e].failures \in Nat
      BY BreakerAssumption DEF BlameInv, Breaker
    <2>2. /\ Armed(breakers[e]) /\ breakers[e].failures <= Cardinality(Errors(e))
          /\ breakers[e].state # "CLOSED" => Cardinality(Errors(e)) >= failureThreshold
      BY DEF BlameInv
    <2>3. /\ Cardinality(Errors(e)) \in Nat /\ Cardinality(Errors(e)') \in Nat
          /\ Cardinality(Errors(e)) <= Cardinality(Errors(e)')
      BY <1>2
    <2>4. breakers[e].failures <= Cardinality(Errors(e)') BY <2>1, <2>2, <2>3
    <2>5. breakers[e].state # "CLOSED" => Cardinality(Errors(e)') >= failureThreshold
      BY <2>2, <2>3, BreakerAssumption
    <2> QED BY <2>1, <2>2, <2>4, <2>5
  <1>4. CASE UNCHANGED breakers
    BY <1>3, <1>4 DEF BlameInv
  <1>5. CASE Dispose
    <2>1. breakers' = [e \in Endpoints |-> disposeBreaker(breakers[e])] BY <1>5 DEF Dispose
    <2>2. ASSUME NEW e \in Endpoints
          PROVE  /\ breakers'[e] \in Breaker /\ Armed(breakers'[e])
                 /\ breakers'[e].state = breakers[e].state
                 /\ breakers'[e].failures = breakers[e].failures
      BY <1>3, <2>1, DisposeFacts
    <2>3. breakers' \in [Endpoints -> Breaker] BY <2>1, <2>2
    <2> QED BY <1>3, <2>2, <2>3 DEF BlameInv
  <1>6. ASSUME NEW e \in Endpoints, TimerFires(e) PROVE BlameInv'
    <2> DEFINE b == transitionTo(breakers[e], "HALF_OPEN")
    <2>1. breakers' = [breakers EXCEPT ![e] = b] /\ breakers[e].timer # 0
      BY <1>6 DEF TimerFires
    <2>2. breakers[e].state = "OPEN" BY <1>3, <2>1 DEF Armed
    <2>3. b \in Breaker /\ Armed(b) /\ b.failures = breakers[e].failures
      BY <1>3, TransitionFacts DEF States
    <2> HIDE DEF b
    <2>4. /\ b.failures <= Cardinality(Errors(e)')
          /\ Cardinality(Errors(e)') >= failureThreshold
      BY <1>3, <2>2, <2>3
    <2> QED BY <1>1, <2>1, <2>3, <2>4, BlameKept
  <1>7. ASSUME NEW c \in Calls, Succeed(c) PROVE BlameInv'
    <2>1. PICK k \in Endpoints : k = endpoint[c] BY DEF VisitInv, VisitType
    <2> DEFINE b == recordSuccess(breakers[k])
    <2>2. breakers' = [breakers EXCEPT ![k] = b] BY <1>7, <2>1 DEF Succeed
    <2>3. /\ b \in Breaker /\ Armed(b) /\ b.failures = 0
          /\ b.state # "CLOSED" => breakers[k].state # "CLOSED"
      BY <1>3, SuccessFacts
    <2> HIDE DEF b
    <2>4. /\ b.failures <= Cardinality(Errors(k)')
          /\ b.state # "CLOSED" => Cardinality(Errors(k)') >= failureThreshold
      BY <1>2, <1>3, <2>3
    <2> QED BY <1>1, <2>2, <2>3, <2>4, BlameKept
  <1>8. ASSUME NEW c \in Calls, Fail(c) PROVE BlameInv'
    <2>1. PICK k \in Endpoints : k = endpoint[c] BY DEF VisitInv, VisitType
    <2> DEFINE b == recordFailure(breakers[k])
    <2>2. breakers' = [breakers EXCEPT ![k] = b] /\ MoveOn(c, "error") /\ phase[c] = "running"
      BY <1>8, <2>1 DEF Fail
    <2>3. visited[c][k] = "not"
      <3>1. k >= k BY EndpointAssumption DEF Endpoints
      <3> QED BY <2>1, <2>2, <3>1 DEF MarkInv
    <2>4. c \notin Errors(k) /\ c \in Errors(k)'
      <3>1. visited'[c][k] = "error" BY <2>1, <2>2, MoveOnFacts DEF VisitInv
      <3> QED BY <2>3, <3>1 DEF Errors
    <2>5. Cardinality(Errors(k)) + 1 <= Cardinality(Errors(k)')
      <3>1. Errors(k) \in SUBSET Calls BY DEF Errors
      <3>2. Cardinality(Errors(k) \cup {c}) = Cardinality(Errors(k)) + 1
        BY <2>4, <3>1, CallSets
      <3>3. Errors(k) \cup {c} \in SUBSET Errors(k)' BY <1>1, <2>4
      <3>4. Cardinality(Errors(k) \cup {c}) <= Cardinality(Errors(k)')
        BY <1>1, <3>3, CallSets
      <3> QED BY <3>2, <3>4
    <2>6. /\ b \in Breaker /\ Armed(b) /\ b.failures <= breakers[k].failures + 1
          /\ breakers[k].state = "CLOSED" /\ b.state # "CLOSED" =>
                /\ b.failures = atMost(breakers[k].failures + 1, failureThreshold)
                /\ b.failures >= failureThreshold
      BY <1>3, FailureFacts
    <2> HIDE DEF b
    <2>7. b.failures \in Nat BY <2>6, BreakerAssumption DEF Breaker
    <2>8. breakers[k].failures <= Cardinality(Errors(k)) BY DEF BlameInv
    <2>9. b.failures <= Cardinality(Errors(k)')
      BY <1>2, <1>3, <2>5, <2>6, <2>7, <2>8
    <2>10. b.state # "CLOSED" => Cardinality(Errors(k)') >= failureThreshold
      <3>1. CASE breakers[k].state # "CLOSED" BY <1>3, <3>1
      <3>2. CASE breakers[k].state = "CLOSED"
        BY <1>2, <2>6, <2>7, <2>9, <3>2, BreakerAssumption
      <3> QED BY <3>1, <3>2
    <2> QED BY <1>1, <2>2, <2>6, <2>9, <2>10, BlameKept
  <1>9. UNCHANGED breakers \/ Dispose \/ (\E e \in Endpoints : TimerFires(e))
        \/ (\E c \in Calls : Succeed(c) \/ Fail(c))
    BY DEF CNext, Execute, Acquire, Refill, Admitted, Send, Skip, FailOther, vars, client
  <1> QED BY <1>4, <1>5, <1>6, <1>7, <1>8, <1>9

LEMMA ApartInit == CInit => ApartInv
  <1> SUFFICES ASSUME CInit PROVE ApartInv OBVIOUS
  <1>1. VisitInv BY VisitInit
  <1>2. MarkInv BY DEF CInit, MarkInv
  <1>3. \A e \in Endpoints : Cardinality(Errors(e)) \in Nat /\ Cardinality(Sent(e)) \in Nat
    <2>1. \A e \in Endpoints : Errors(e) \in SUBSET Calls /\ Sent(e) \in SUBSET Calls
      BY DEF Errors, Sent
    <2> QED BY <2>1, CallSets
  <1>4. BlameInv
    <2>1. InitialBreaker \in Breaker
      BY DelayFacts, BreakerAssumption DEF InitialBreaker, Breaker, States
    <2>2. \A e \in Endpoints : breakers[e] = InitialBreaker BY DEF CInit
    <2>3. /\ InitialBreaker.timer = 0 /\ InitialBreaker.failures = 0
          /\ InitialBreaker.state = "CLOSED"
      BY DEF InitialBreaker
    <2>4. breakers \in [Endpoints -> Breaker] BY <2>1 DEF CInit
    <2> QED BY <1>3, <2>2, <2>3, <2>4 DEF BlameInv, Armed
  <1>5. SentInv
    <2>1. rpcs = [e \in Endpoints |-> 0] BY DEF CInit
    <2>2. Granted = {} /\ totalConsumed = 0 BY DEF CInit, Init, Granted
    <2>3. Cardinality(Granted) = 0 BY <2>2, FS_EmptySet
    <2> QED BY <1>3, <2>1, <2>2, <2>3 DEF SentInv
  <1> QED BY <1>1, <1>2, <1>4, <1>5 DEF ApartInv

LEMMA ApartStep == ApartInv /\ [CNext]_vars => ApartInv'
  BY VisitStep, MarkStep, BlameStep, SentStep DEF ApartInv

\* No more requests went to an endpoint than calls got a token.
LEMMA ApartImplied == ApartInv => EndpointsApart
  <1> SUFFICES ASSUME ApartInv PROVE EndpointsApart OBVIOUS
  <1> USE DEF ApartInv
  <1>1. TypeOK BY DEF TypeOK, VisitInv, OrderInv, VisitType, BlameInv, SentInv
  <1>2. BlameIsOwn BY DEF BlameIsOwn, BlameInv, Errors
  <1>3. EndpointRate
    <2> SUFFICES ASSUME NEW e \in Endpoints PROVE rpcs[e] <= totalConsumed BY DEF EndpointRate
    <2>1. Sent(e) \subseteq Granted
      <3>1. ASSUME NEW c \in Sent(e) PROVE outcome[c] = "granted"
        <4>1. c \in Calls BY DEF Sent
        <4>2. CASE visited[c][e] \in {"error", "answered"} BY <4>1, <4>2 DEF MarkInv
        <4>3. CASE phase[c] = "running" BY <4>1, <4>3 DEF VisitInv, AdmittedInv
        <4> QED BY <4>2, <4>3 DEF Sent
      <3> QED BY <3>1 DEF Sent, Granted
    <2>2. Granted \in SUBSET Calls BY DEF Granted
    <2>3. /\ Cardinality(Granted) \in Nat /\ Cardinality(Sent(e)) \in Nat
          /\ Cardinality(Sent(e)) <= Cardinality(Granted)
      BY <2>1, <2>2, CallSets
    <2>4. rpcs[e] \in Nat /\ rpcs[e] <= Cardinality(Sent(e)) /\ Cardinality(Granted) <= totalConsumed
      BY DEF SentInv
    <2>5. totalConsumed \in Nat BY DEF VisitInv, OrderInv, BucketTypeOK
    <2> QED BY <2>3, <2>4, <2>5
  <1> QED BY <1>1, <1>2, <1>3 DEF EndpointsApart

\* A breaker opens for errors of its own endpoint only, and no endpoint gets more
\* requests than the shared bucket handed out tokens: for any number of endpoints,
\* calls and thresholds, whatever answers arrive late or after dispose().
THEOREM EndpointsKeptApart == CSpec => []EndpointsApart
  <1> QED BY ApartInit, ApartStep, ApartImplied, PTL DEF CSpec
===============================================================================
