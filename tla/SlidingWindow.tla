--------------------------- MODULE SlidingWindow ---------------------------
(***************************************************************************)
(* The sliding-window limiters: of API keys (lib/auth/rateLimit.ts), of    *)
(* webhook registrations (lib/webhooks/ip-rate-limit.ts) and of developer  *)
(* keys (lib/api/rateLimiter.ts), for one key.                             *)
(*                                                                         *)
(* A request reads the clock in its process and is judged later, in Redis, *)
(* in whatever order the calls arrive there.                               *)
(***************************************************************************)
EXTENDS Naturals, FiniteSets

CONSTANTS
    LimitPerWindow,
    Window,
    MaxClock,     \* bound: the last point of time
    MaxRequests   \* bound: requests made, numbered from 1

ASSUME SlidingWindowAssumption ==
    /\ LimitPerWindow \in Nat \ {0} /\ Window \in Nat \ {0}
    /\ MaxClock \in Nat /\ Window <= MaxClock /\ MaxRequests \in Nat

VARIABLES
    limiter,      \* auth, ip or api: the limiter this behaviour is about
    clock,
    requests,     \* requests under way: [id, now, at]
    zset,         \* the sorted set: [score, member]
    memoryStore,  \* times the fallback of the ip limiter let pass: [score, member]
    admitted,     \* history: [id, now, store] of requests that were allowed
    promise,      \* history: [at, retry] of the last rejection by auth
    latestNow,    \* history: the largest now judged in Redis
    overtaken,    \* history: a request was judged after one with a later clock
    sentRequests  \* counter for MaxRequests

windowvars == <<limiter, clock, requests, zset, memoryStore, admitted, promise, latestNow,
                overtaken, sentRequests>>

NoPromise == [from |-> 0, retry |-> 0]

WindowInit ==
    /\ limiter \in {"auth", "ip", "api"}
    /\ clock = Window /\ requests = {} /\ zset = {} /\ memoryStore = {}
    /\ admitted = {} /\ promise = NoPromise /\ latestNow = 0 /\ overtaken = FALSE
    /\ sentRequests = 0

ClockTick ==
    /\ clock < MaxClock /\ clock' = clock + 1
    /\ UNCHANGED <<limiter, requests, zset, memoryStore, admitted, promise, latestNow, overtaken,
                   sentRequests>>

Request ==
    /\ sentRequests < MaxRequests
    /\ sentRequests' = sentRequests + 1
    /\ requests' = requests \cup {[id |-> sentRequests + 1, now |-> clock, at |-> "call"]}
    /\ UNCHANGED <<limiter, clock, zset, memoryStore, admitted, promise, latestNow, overtaken>>

Trimmed(S, now) == {x \in S : x.score > now - Window}
Oldest(S) == CHOOSE x \in S : \A y \in S : x.score <= y.score

Judged(r) ==
    /\ latestNow' = IF r.now > latestNow THEN r.now ELSE latestNow
    /\ overtaken' = (overtaken \/ r.now < latestNow)

Admit(r, store) == admitted' = admitted \cup {[id |-> r.id, now |-> r.now, store |-> store]}

\* Regression: a full window takes one request more.
ScriptOneMore(r, member) ==
    LET S == Trimmed(zset, r.now)
    IN  /\ requests' = requests \ {r}
        /\ Judged(r)
        /\ IF Cardinality(S) <= LimitPerWindow
           THEN zset' = S \cup {[score |-> r.now, member |-> member]} /\ Admit(r, "redis")
           ELSE zset' = S /\ UNCHANGED admitted

\* The script both limiters run, as one step: trim the window, count, and add the
\* request if there is room.
Script(r, member) ==
    LET S == Trimmed(zset, r.now)
    IN  /\ requests' = requests \ {r}
        /\ Judged(r)
        /\ IF Cardinality(S) < LimitPerWindow
           THEN zset' = S \cup {[score |-> r.now, member |-> member]} /\ Admit(r, "redis")
           ELSE zset' = S /\ UNCHANGED admitted

\* Regression: the client is told a time one too early.
AuthPromiseShort(r) ==
    /\ limiter = "auth" /\ r.at = "call"
    /\ Script(r, r.now)
    /\ promise' = IF admitted' # admitted \/ zset' = {} THEN promise
                  ELSE [from |-> r.now, retry |-> Oldest(zset').score + Window - 1]
    /\ UNCHANGED <<limiter, clock, memoryStore, sentRequests>>

\* checkRateLimit() of the auth limiter: a set member is the time itself.  A rejected
\* request is told when the oldest entry will have left the window.
AuthCheck(r) ==
    /\ limiter = "auth" /\ r.at = "call"
    /\ Script(r, r.now)
    /\ promise' = IF admitted' # admitted \/ zset' = {} THEN promise
                  ELSE [from |-> r.now, retry |-> Oldest(zset').score + Window]
    /\ UNCHANGED <<limiter, clock, memoryStore, sentRequests>>

\* checkRedis(): the member is unique.
IpCheck(r) ==
    /\ limiter = "ip" /\ r.at = "call"
    /\ Script(r, r.id)
    /\ UNCHANGED <<limiter, clock, memoryStore, promise, sentRequests>>

\* Regression: the fallback forgets what it let pass.
checkMemoryForget(r) ==
    /\ limiter = "ip" /\ r.at = "call"
    /\ requests' = requests \ {r}
    /\ Cardinality(Trimmed(memoryStore, clock)) < LimitPerWindow
    /\ Admit([r EXCEPT !.now = clock], "memory")
    /\ UNCHANGED <<limiter, clock, zset, memoryStore, promise, latestNow, overtaken, sentRequests>>

\* Redis is away: checkMemory() reads the clock anew and keeps its own window.
checkMemory(r) ==
    LET S == Trimmed(memoryStore, clock)
    IN  /\ limiter = "ip" /\ r.at = "call"
        /\ requests' = requests \ {r}
        /\ IF Cardinality(S) >= LimitPerWindow THEN UNCHANGED <<memoryStore, admitted>>
           ELSE /\ memoryStore' = S \cup {[score |-> clock, member |-> r.id]}
                /\ Admit([r EXCEPT !.now = clock], "memory")
        /\ UNCHANGED <<limiter, clock, zset, promise, latestNow, overtaken, sentRequests>>

\* The pipeline of the developer limiter; other clients' commands may come between
\* its own: trim, add the request, and count what is there.
ApiTrim(r) ==
    /\ limiter = "api" /\ r.at = "call"
    /\ zset' = Trimmed(zset, r.now)
    /\ requests' = (requests \ {r}) \cup {[r EXCEPT !.at = "add"]}
    /\ Judged(r)
    /\ UNCHANGED <<limiter, clock, memoryStore, admitted, promise, sentRequests>>

ApiAdd(r) ==
    /\ r.at = "add"
    /\ zset' = zset \cup {[score |-> r.now, member |-> r.id]}
    /\ requests' = (requests \ {r}) \cup {[r EXCEPT !.at = "count"]}
    /\ UNCHANGED <<limiter, clock, memoryStore, admitted, promise, latestNow, overtaken, sentRequests>>

ApiCount(r) ==
    /\ r.at = "count"
    /\ requests' = requests \ {r}
    /\ IF Cardinality(zset) <= LimitPerWindow THEN Admit(r, "redis") ELSE UNCHANGED admitted
    /\ overtaken' = (overtaken \/ r.now < latestNow)
    /\ UNCHANGED <<limiter, clock, zset, memoryStore, promise, latestNow, sentRequests>>

WindowNext ==
    \/ ClockTick \/ Request
    \/ \E r \in requests : AuthCheck(r) \/ IpCheck(r) \/ checkMemory(r)
                             \/ ApiTrim(r) \/ ApiAdd(r) \/ ApiCount(r)

WindowSpec == WindowInit /\ [][WindowNext]_windowvars

-----------------------------------------------------------------------------
(* Properties.                                                           *)

WindowTypeOK ==
    /\ clock \in Window .. MaxClock /\ sentRequests \in 0 .. MaxRequests
    /\ requests \subseteq [id : 1 .. MaxRequests, now : 0 .. MaxClock, at : {"call", "add", "count"}]
    /\ admitted \subseteq [id : 1 .. MaxRequests, now : 0 .. MaxClock, store : {"redis", "memory"}]
    /\ zset \cup memoryStore \subseteq [score : 0 .. MaxClock, member : Nat]

\* What one store admitted within the window that ends with a.
InWindow(a) == {b \in admitted : b.store = a.store /\ a.now - Window < b.now /\ b.now <= a.now}

\* No window holds more admitted requests of a store than the limit, unless a request
\* was overtaken on its way to Redis; that requests interleave within the pipeline of
\* the developer limiter does not matter, as each counts itself before it is judged.
WindowLimit ==
    limiter # "auth" => \A a \in admitted :
        (a.store = "redis" => ~overtaken) => Cardinality(InWindow(a)) <= LimitPerWindow

\* The auth limiter bounds the instants of a window at which it admits, since requests
\* of one instant are one member of its set.
InstantLimit ==
    limiter = "auth" /\ ~overtaken =>
        \A a \in admitted : Cardinality({b.now : b \in InWindow(a)}) <= LimitPerWindow

\* Once the time a rejected client was told has come there is room again, unless
\* requests made after the rejection took it.
RetryFindsRoom ==
    limiter = "auth" /\ promise # NoPromise /\ ~overtaken =>
        Cardinality({x \in zset : x.score <= promise.from /\ x.score > promise.retry - Window})
            < LimitPerWindow

\* Each limiter keeps the limit it enforces and the promise it makes.
LimiterSafety == WindowTypeOK /\ WindowLimit /\ InstantLimit /\ RetryFindsRoom
=============================================================================
