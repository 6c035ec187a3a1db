--------------------------- MODULE CircuitBreaker ---------------------------
(***************************************************************************)
(* One circuit breaker and its callers (lib/resilience/circuit-breaker.ts, *)
(* createCircuitBreaker).  A request that timed out is failed at once; the *)
(* late answer of its function is not looked at.  Timer and answers come   *)
(* in any order: the delays are configuration.                             *)
(***************************************************************************)
EXTENDS BreakerState

CONSTANTS
    Requests,     \* slots for concurrent calls of execute
    HasFallback,  \* whether a fallback is configured
    MaxManual     \* bound: calls of open(), close() and halfOpen()

ASSUME CallerAssumption == HasFallback \in BOOLEAN /\ MaxManual \in Nat

VARIABLES
    breaker,   \* the breaker's record
    callPhase,     \* what each call of execute awaits
    healthy,   \* whether the upstream answers
    manual,    \* counter for MaxManual
    failRun,   \* history: failures recorded in a row while CLOSED
    lastWait   \* history: delay of the last opening, 0 after a success

breakervars == <<breaker, callPhase, healthy, manual, failRun, lastWait>>

state == breaker.state

BreakerInit ==
    /\ breaker = InitialBreaker
    /\ callPhase = [r \in Requests |-> "idle"]
    /\ healthy \in BOOLEAN
    /\ manual = 0
    /\ failRun = 0 /\ lastWait = 0

\* The breaker becomes b; result says which answer was recorded, if any.
Become(b, result) ==
    /\ breaker' = b
    /\ failRun' = IF result = "ok" \/ b.state # "CLOSED" \/ state # "CLOSED" THEN 0
                  ELSE IF result = "fail" THEN atMost(failRun + 1, failureThreshold)
                  ELSE failRun
    /\ lastWait' = IF result \in {"ok", "close"} THEN 0
                   ELSE IF b.state = "OPEN" /\ state # "OPEN" THEN b.timer
                   ELSE lastWait

history == <<failRun, lastWait>>

-----------------------------------------------------------------------------
(* execute()                                                             *)

\* The circuit lets the request through.
CallThrough(r) ==
    /\ callPhase[r] = "idle" /\ ~breaker.disposed
    /\ state # "OPEN"
    /\ callPhase' = [callPhase EXCEPT ![r] = "running"]
    /\ UNCHANGED <<breaker, healthy, manual, history>>

\* The circuit is open: the fallback answers; without one the call throws.
CallFallback(r) ==
    /\ callPhase[r] = "idle" /\ ~breaker.disposed
    /\ state = "OPEN" /\ HasFallback
    /\ callPhase' = [callPhase EXCEPT ![r] = "fallback"]
    /\ UNCHANGED <<breaker, healthy, manual, history>>

CallSucceeds(r) ==
    /\ callPhase[r] = "running" /\ healthy
    /\ Become(recordSuccess(breaker), "ok")
    /\ callPhase' = [callPhase EXCEPT ![r] = "idle"]
    /\ UNCHANGED <<healthy, manual>>

\* After an error the fallback runs if the circuit is now open.
Rescue(r) ==
    callPhase' = [callPhase EXCEPT ![r] =
                IF breaker'.state = "OPEN" /\ HasFallback THEN "fallback" ELSE "idle"]

\* A time-out, or an error that isFailure counts.
CallFails(r) ==
    /\ callPhase[r] = "running" /\ ~healthy
    /\ Become(recordFailure(breaker), "fail")
    /\ Rescue(r)
    /\ UNCHANGED <<healthy, manual>>

\* Any other error is passed through.
CallFailsOther(r) ==
    /\ callPhase[r] = "running"
    /\ UNCHANGED <<breaker, healthy, manual, history>>
    /\ Rescue(r)

FallbackEnds(r) ==
    /\ callPhase[r] = "fallback"
    /\ callPhase' = [callPhase EXCEPT ![r] = "idle"]
    /\ UNCHANGED <<breaker, healthy, manual, history>>

-----------------------------------------------------------------------------
(* The timer, the operator, and the upstream.                            *)

ResetTimerFires ==
    /\ breaker.timer # 0
    /\ Become(transitionTo(breaker, "HALF_OPEN"), "timer")
    /\ UNCHANGED <<callPhase, healthy, manual>>

Manual(b, result) ==
    /\ manual < MaxManual
    /\ manual' = manual + 1
    /\ Become(b, result)
    /\ UNCHANGED <<callPhase, healthy>>

open == Manual(transitionTo(breaker, "OPEN"), "open")

close == Manual(closeCircuit(breaker), "close")

halfOpen == Manual(transitionTo(breaker, "HALF_OPEN"), "halfOpen")

disposeCircuit ==
    /\ ~breaker.disposed
    /\ Become(disposeBreaker(breaker), "dispose")
    /\ UNCHANGED <<callPhase, healthy, manual>>

UpstreamChanges ==
    /\ healthy' = ~healthy
    /\ UNCHANGED <<breaker, callPhase, manual, history>>

ExecuteCall(r) ==
    CallThrough(r) \/ CallFallback(r) \/ CallSucceeds(r) \/ CallFails(r) \/ CallFailsOther(r) \/ FallbackEnds(r)

BreakerNext ==
    \/ \E r \in Requests : ExecuteCall(r)
    \/ ResetTimerFires
    \/ open \/ close \/ halfOpen \/ disposeCircuit
    \/ UpstreamChanges

BreakerSpec == BreakerInit /\ [][BreakerNext]_breakervars

(* Callers keep calling, timers fire, the fallback settles, every running *)
(* request settles at the latest by its time-out, and a healthy upstream  *)
(* does not answer every request with an error of its own.                *)
BreakerFairness ==
    /\ WF_breakervars(ResetTimerFires)
    /\ \A r \in Requests :
          /\ WF_breakervars(CallThrough(r))
          /\ WF_breakervars(FallbackEnds(r))
          /\ WF_breakervars(CallSucceeds(r) \/ CallFails(r) \/ CallFailsOther(r))
          /\ SF_breakervars(CallSucceeds(r))

FairBreakerSpec == BreakerSpec /\ BreakerFairness

-----------------------------------------------------------------------------
(* Properties.                                                           *)

BreakerTypeOK ==
    /\ breaker \in Breaker
    /\ callPhase \in [Requests -> {"idle", "running", "fallback"}]
    /\ healthy \in BOOLEAN
    /\ manual \in 0 .. MaxManual
    /\ failRun \in 0 .. failureThreshold
    /\ lastWait \in {0} \cup Delays

\* An open circuit has a timer that will try recovery, and a timer never
\* survives the opening it belongs to, whatever answers arrive late.
TimerIffOpen == ~breaker.disposed => (breaker.timer # 0 <=> state = "OPEN")

\* Only failureThreshold failures in a row, recorded while the circuit is
\* closed, open it: failures of an earlier opening do not count.
TripsOnThreshold ==
    [][state = "CLOSED" /\ breaker'.state = "OPEN" /\ manual' = manual
          => failRun + 1 >= failureThreshold]_breakervars

\* Opening again without a success in between waits twice as long, up to the cap.
BacksOff ==
    [][state = "HALF_OPEN" /\ breaker'.state = "OPEN" /\ manual' = manual /\ lastWait # 0
          => breaker'.timer = atMost(2 * lastWait, maxResetTimeout)]_breakervars

\* Once the upstream stays healthy the circuit closes again and again.
Recovers == <>[](healthy /\ ~breaker.disposed) => []<>(state = "CLOSED")

\* The breaker's state and its one timer fit each other.
BreakerSafety == BreakerTypeOK /\ TimerIffOpen

\* A circuit opens for its cause, and waits as long as its history asks for.
OpensProperly == TripsOnThreshold /\ BacksOff
=============================================================================
