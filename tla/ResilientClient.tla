--------------------------- MODULE ResilientClient ---------------------------
(***************************************************************************)
(* The client of lib/resilience/resilient-client.ts                        *)
(* (createResilientClient): one token bucket for all endpoints and one     *)
(* circuit breaker per endpoint.  Endpoints are numbered in the order of   *)
(* their priority.  Each call of execute() acquires one token, numbered as *)
(* in TokenBucket, then visits the endpoints in turn.  The breakers have   *)
(* no fallback of their own.                                               *)
(***************************************************************************)
EXTENDS TokenBucket, BreakerState, FiniteSets

CONSTANT NumEndpoints

ASSUME EndpointAssumption == NumEndpoints \in Nat \ {0}

Endpoints == 1 .. NumEndpoints

VARIABLES
    breakers,  \* one breaker per endpoint
    phase,     \* where each call of execute() is
    endpoint,  \* the endpoint each call visits
    rpcs,      \* history: requests sent to each endpoint
    visited    \* history: what each call met at each endpoint

client == <<breakers, phase, endpoint, rpcs, visited>>

vars == <<bucket, client>>

CInit ==
    /\ Init
    /\ breakers = [e \in Endpoints |-> InitialBreaker]
    /\ phase = [c \in Calls |-> "acquire"]
    /\ endpoint = [c \in Calls |-> 1]
    /\ rpcs = [e \in Endpoints |-> 0]
    /\ visited = [c \in Calls |-> [e \in Endpoints |-> "not"]]

\* execute() asks for a token.
Acquire == acquire /\ UNCHANGED client

Refill == refillTokens /\ UNCHANGED client

\* Regression: the outcome of acquire() is not awaited.
AdmittedAnyway(c) ==
    /\ phase[c] = "acquire" /\ outcome[c] # "none"
    /\ phase' = [phase EXCEPT ![c] = "visit"]
    /\ UNCHANGED <<bucket, breakers, endpoint, rpcs, visited>>

\* acquire() settled: visit the first endpoint, or fail with its error.
Admitted(c) ==
    /\ phase[c] = "acquire" /\ outcome[c] \in {"granted", "rejected"}
    /\ phase' = [phase EXCEPT ![c] = IF outcome[c] = "granted" THEN "visit" ELSE "failed"]
    /\ UNCHANGED <<bucket, breakers, endpoint, rpcs, visited>>

\* Regression: the last endpoint is never reached.
MoveOnShort(c, why) ==
    /\ visited' = [visited EXCEPT ![c][endpoint[c]] = why]
    /\ IF endpoint[c] + 1 < NumEndpoints
       THEN /\ phase' = [phase EXCEPT ![c] = "visit"]
            /\ endpoint' = [endpoint EXCEPT ![c] = @ + 1]
       ELSE phase' = [phase EXCEPT ![c] = "failed"] /\ UNCHANGED endpoint

\* The error why sends call c to the next endpoint, if there is one.
MoveOn(c, why) ==
    /\ visited' = [visited EXCEPT ![c][endpoint[c]] = why]
    /\ IF endpoint[c] < NumEndpoints
       THEN /\ phase' = [phase EXCEPT ![c] = "visit"]
            /\ endpoint' = [endpoint EXCEPT ![c] = @ + 1]
       ELSE phase' = [phase EXCEPT ![c] = "failed"] /\ UNCHANGED endpoint

\* The endpoint's breaker lets the request through.
Send(c) ==
    LET e == endpoint[c]
    IN  /\ phase[c] = "visit"
        /\ ~breakers[e].disposed /\ breakers[e].state # "OPEN"
        /\ phase' = [phase EXCEPT ![c] = "running"]
        /\ rpcs' = [rpcs EXCEPT ![e] = @ + 1]
        /\ UNCHANGED <<bucket, breakers, endpoint, visited>>

\* The breaker is disposed or open: its error comes at once.
Skip(c) ==
    LET b == breakers[endpoint[c]]
    IN  /\ phase[c] = "visit"
        /\ b.disposed \/ b.state = "OPEN"
        /\ MoveOn(c, "refused")
        /\ UNCHANGED <<bucket, breakers, rpcs>>

Succeed(c) ==
    /\ phase[c] = "running"
    /\ breakers' = [breakers EXCEPT ![endpoint[c]] = recordSuccess(@)]
    /\ visited' = [visited EXCEPT ![c][endpoint[c]] = "answered"]
    /\ phase' = [phase EXCEPT ![c] = "done"]
    /\ UNCHANGED <<bucket, endpoint, rpcs>>

\* Regression: an error of one endpoint is put down to the first.
FailPrimary(c) ==
    /\ phase[c] = "running"
    /\ breakers' = [breakers EXCEPT ![1] = recordFailure(@)]
    /\ MoveOn(c, "error")
    /\ UNCHANGED <<bucket, rpcs>>

\* A time-out or another error that counts.
Fail(c) ==
    /\ phase[c] = "running"
    /\ breakers' = [breakers EXCEPT ![endpoint[c]] = recordFailure(@)]
    /\ MoveOn(c, "error")
    /\ UNCHANGED <<bucket, rpcs>>

\* An error that does not count.
FailOther(c) ==
    /\ phase[c] = "running"
    /\ MoveOn(c, "error")
    /\ UNCHANGED <<bucket, breakers, rpcs>>

TimerFires(e) ==
    /\ breakers[e].timer # 0
    /\ breakers' = [breakers EXCEPT ![e] = transitionTo(@, "HALF_OPEN")]
    /\ UNCHANGED <<bucket, phase, endpoint, rpcs, visited>>

\* The bucket first, then each breaker.
Dispose ==
    /\ dispose
    /\ breakers' = [e \in Endpoints |-> disposeBreaker(breakers[e])]
    /\ UNCHANGED <<phase, endpoint, rpcs, visited>>

Execute(c) == Admitted(c) \/ Send(c) \/ Skip(c) \/ Succeed(c) \/ Fail(c) \/ FailOther(c)

CNext ==
    \/ Acquire \/ Refill \/ Dispose
    \/ \E c \in Calls : Execute(c)
    \/ \E e \in Endpoints : TimerFires(e)

CSpec == CInit /\ [][CNext]_vars

\* Timers fire and every request settles, at the latest by its time-out.
CFairSpec ==
    /\ CSpec
    /\ WF_vars(Refill)
    /\ \A c \in Calls : WF_vars(Execute(c))

-----------------------------------------------------------------------------
(* Properties.                                                           *)

TypeOK ==
    /\ BucketTypeOK
    /\ breakers \in [Endpoints -> Breaker]
    /\ phase \in [Calls -> {"acquire", "visit", "running", "done", "failed"}]
    /\ endpoint \in [Calls -> Endpoints]
    /\ rpcs \in [Endpoints -> Nat]
    /\ visited \in [Calls -> [Endpoints -> {"not", "refused", "error", "answered"}]]

\* A call that got its token fails only after every endpoint refused or failed
\* it, and reaches a backup only after every better endpoint did.
BackupsInOrder ==
    \A c \in Calls, e \in Endpoints :
        (e < endpoint[c] \/ (phase[c] = "failed" /\ outcome[c] = "granted"))
            => visited[c][e] \in {"refused", "error"}

\* An open breaker belongs to an endpoint that failed failureThreshold calls:
\* no endpoint is blamed for another one's errors.
BlameIsOwn ==
    \A e \in Endpoints : breakers[e].state # "CLOSED" =>
        Cardinality({c \in Calls : visited[c][e] = "error"}) >= failureThreshold

\* No endpoint gets more requests than the bucket handed out tokens.
EndpointRate == \A e \in Endpoints : rpcs[e] <= totalConsumed

\* Every call of execute() settles, disposed or not.
EveryCallSettles ==
    \A c \in Calls : (outcome[c] # "none") ~> (phase[c] \in {"done", "failed"})

\* Each endpoint answers for its own errors only and sees no more than the bucket's rate.
EndpointsApart == TypeOK /\ BlameIsOwn /\ EndpointRate
=============================================================================
