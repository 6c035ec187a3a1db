---------------------------- MODULE TokenBucket ----------------------------
(***************************************************************************)
(* The rate limiter of lib/resilience/token-bucket.ts (createTokenBucket). *)
(* Tokens are counted in tenths: a tick of the 100 ms interval adds        *)
(* refillRate tenths of a token.  The calls of acquire() and tryAcquire()  *)
(* are numbered in the order they are made.                                *)
(***************************************************************************)
EXTENDS Naturals, Sequences

CONSTANTS
    capacity,      \* most tokens the bucket holds
    refillRate,    \* tokens added per second
    maxQueueSize,  \* most calls that wait
    MaxCalls,      \* bound: calls in a behaviour
    MaxTicks       \* bound: the tick counter stops here

ASSUME BucketAssumption ==
    /\ capacity \in Nat \ {0} /\ refillRate \in Nat \ {0}
    /\ maxQueueSize \in Nat /\ MaxCalls \in Nat /\ MaxTicks \in Nat

VARIABLES
    tokens,         \* tenths of a token in the bucket
    queue,          \* waiting calls, oldest first
    disposed,       \* set by dispose()
    totalConsumed,  \* tokens handed out
    calls,          \* calls made
    outcome,        \* what became of each call
    ticks           \* history: ticks so far, up to MaxTicks

bucket == <<tokens, queue, disposed, totalConsumed, calls, outcome, ticks>>

Token == 10

Calls == 1 .. MaxCalls

Init ==
    /\ tokens = capacity * Token
    /\ queue = <<>>
    /\ disposed = FALSE
    /\ totalConsumed = 0
    /\ calls = 0
    /\ outcome = [c \in Calls |-> "none"]
    /\ ticks = 0

\* The tenths in the bucket once a tick's tokens are added.
refilled ==
    IF tokens + refillRate > capacity * Token THEN capacity * Token ELSE tokens + refillRate

\* Regression: a waiter is served only when more than a token is there.
servedStrict == IF refilled > Token /\ Len(queue) > 0 THEN 1 ELSE 0

\* How many waiters those pay for.
served == IF refilled \div Token < Len(queue) THEN refilled \div Token ELSE Len(queue)

\* The first n waiters get their token.
Grant(n) ==
    /\ totalConsumed' = totalConsumed + n
    /\ queue' = SubSeq(queue, n + 1, Len(queue))
    /\ outcome' = [c \in Calls |->
          IF \E i \in 1 .. n : queue[i] = c THEN "granted" ELSE outcome[c]]

Tick ==
    /\ ticks' = IF ticks < MaxTicks THEN ticks + 1 ELSE ticks
    /\ UNCHANGED <<disposed, calls>>

\* Regression: a waiter is let go without paying its token.
refillTokensFree ==
    /\ ~disposed
    /\ Grant(served)
    /\ tokens' = refilled
    /\ Tick

\* Regression: the bucket overflows.
refillTokensOverflow ==
    /\ ~disposed
    /\ Grant(served)
    /\ tokens' = tokens + refillRate - served * Token
    /\ Tick

\* The interval timer: add tokens, then serve waiters while a whole one is left.
refillTokens ==
    /\ ~disposed
    /\ Grant(served)
    /\ tokens' = refilled - served * Token
    /\ Tick

\* A call is made: its outcome is o.
Called(o) ==
    /\ calls < MaxCalls
    /\ calls' = calls + 1
    /\ outcome' = [outcome EXCEPT ![calls + 1] = o]
    /\ UNCHANGED <<disposed, ticks>>

\* A whole token is there: take it.
Take ==
    /\ ~disposed /\ tokens >= Token
    /\ Called("granted")
    /\ tokens' = tokens - Token
    /\ totalConsumed' = totalConsumed + 1
    /\ UNCHANGED queue

Wait ==
    /\ ~disposed /\ tokens < Token
    /\ Len(queue) < maxQueueSize
    /\ Called("waiting")
    /\ queue' = Append(queue, calls + 1)
    /\ UNCHANGED <<tokens, totalConsumed>>

\* The bucket is disposed, or empty with a full queue.
Refuse ==
    /\ disposed \/ (tokens < Token /\ Len(queue) >= maxQueueSize)
    /\ Called("rejected")
    /\ UNCHANGED <<tokens, queue, totalConsumed>>

acquire == Take \/ Wait \/ Refuse

\* tryAcquire() never waits.
tryAcquire ==
    \/ Take
    \/ /\ disposed \/ tokens < Token
       /\ Called("rejected")
       /\ UNCHANGED <<tokens, queue, totalConsumed>>

\* Regression: the waiting calls are forgotten.
disposeForget ==
    /\ ~disposed
    /\ disposed' = TRUE
    /\ queue' = <<>>
    /\ UNCHANGED <<tokens, totalConsumed, calls, outcome, ticks>>

dispose ==
    /\ ~disposed
    /\ disposed' = TRUE
    /\ queue' = <<>>
    /\ outcome' = [c \in Calls |-> IF outcome[c] = "waiting" THEN "rejected" ELSE outcome[c]]
    /\ UNCHANGED <<tokens, totalConsumed, calls, ticks>>

Next == refillTokens \/ acquire \/ tryAcquire \/ dispose

Spec == Init /\ [][Next]_bucket

-----------------------------------------------------------------------------
(* Properties.                                                           *)

BucketTypeOK ==
    /\ tokens \in 0 .. capacity * Token
    /\ queue \in Seq(Calls) /\ Len(queue) <= maxQueueSize
    /\ disposed \in BOOLEAN
    /\ totalConsumed \in Nat
    /\ calls \in 0 .. MaxCalls
    /\ outcome \in [Calls -> {"none", "waiting", "granted", "rejected"}]
    /\ ticks \in 0 .. MaxTicks

\* First come, first served: nobody, not even tryAcquire, is granted a token
\* while an earlier call waits.
NoBarging ==
    \A c, d \in Calls : c < d /\ outcome[c] = "waiting" => outcome[d] # "granted"

\* The rate limit: after k ticks at most capacity tokens and k refills were used.
RateBound ==
    ticks < MaxTicks =>
        totalConsumed * Token + tokens <= capacity * Token + ticks * refillRate

\* Callers of one bucket are served in turn and never beyond its rate.
ServedInTurn == NoBarging /\ RateBound
=============================================================================
