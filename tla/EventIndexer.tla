---------------------------- MODULE EventIndexer ----------------------------
(***************************************************************************)
(* The polling indexer of lib/stellar/indexer.ts (startEventIndexer and    *)
(* fetchEventsWithRetry) with its durable state store and the Redis cache  *)
(* of RPC responses.                                                       *)
(*                                                                         *)
(* A ledger of EventLedgers carries one event of the watched contracts,    *)
(* named by its ledger number.  The RPC node is assumed to answer          *)
(* getEvents(startLedger) with every event from startLedger to the latest  *)
(* ledger: the code sends no cursor and never asks for a second page.  The *)
(* onError callback does not throw.                                        *)
(***************************************************************************)
EXTENDS Naturals

CONSTANTS
    MaxLedger,   \* bound: the chain stops closing ledgers here
    EventLedgers,\* the ledgers that carry an event
    MaxRetries,  \* retryConfig.maxRetries
    MaxCrashes,  \* bound: process crashes in a behaviour
    startLedger, \* where a first run starts
    HasStore,    \* whether a stateStore is configured
    RedisEnabled,\* whether REDIS_URL is set
    CacheExpires \* whether REDIS_TTL_SECONDS gives cached answers a life time

ASSUME IndexerAssumption ==
    /\ MaxLedger \in Nat /\ MaxRetries \in Nat /\ MaxCrashes \in Nat
    /\ startLedger \in 1 .. MaxLedger
    /\ EventLedgers \subseteq startLedger .. MaxLedger
    /\ HasStore \in BOOLEAN /\ RedisEnabled \in BOOLEAN /\ CacheExpires \in BOOLEAN

VARIABLES
    tip,        \* latest ledger of the chain
    cache,      \* cached latestLedger by startLedger, 0 when there is none
    store,      \* lastLedger of the saved snapshot, 0 when there is none
    cursor,     \* cursor.lastLedger, in memory
    phase,      \* what the polling loop awaits
    attempt,    \* attempts already failed in this fetch
    latest,     \* latestLedger of the response being handled
    isRunning,  \* cleared by stop()
    crashes,    \* counter for MaxCrashes
    delivered   \* history: events a call of onEvents returned for

vars == <<tip, cache, store, cursor, phase, attempt, latest, isRunning,
          crashes, delivered>>

chain == <<tip, cache, crashes>>

Ledgers == 1 .. MaxLedger

events == EventLedgers \cap (cursor .. latest)

Init ==
    /\ tip = startLedger
    /\ cache = [l \in Ledgers |-> 0]
    /\ store = 0
    /\ cursor = startLedger
    /\ phase = "load"
    /\ attempt = 0
    /\ latest = 0
    /\ isRunning = TRUE
    /\ crashes = 0
    /\ delivered = {}

-----------------------------------------------------------------------------
(* The environment: the chain, the cache's clock, and crashes.           *)

CloseLedger ==
    /\ tip < MaxLedger
    /\ tip' = tip + 1
    /\ UNCHANGED <<cache, store, cursor, phase, attempt, latest, isRunning, crashes, delivered>>

Expire(l) ==
    /\ CacheExpires /\ cache[l] # 0
    /\ cache' = [cache EXCEPT ![l] = 0]
    /\ UNCHANGED <<tip, store, cursor, phase, attempt, latest, isRunning, crashes, delivered>>

\* The process dies and startEventIndexer runs again, from ledger s.
CrashRestart(s) ==
    /\ crashes < MaxCrashes
    /\ crashes' = crashes + 1
    /\ cursor' = s
    /\ phase' = "load"
    /\ attempt' = 0
    /\ latest' = 0
    /\ isRunning' = TRUE
    /\ UNCHANGED <<tip, cache, store, delivered>>

-----------------------------------------------------------------------------
(* The polling loop.                                                     *)

\* The head of the while loop, reached after the load, a sleep or an error.
LoopHead ==
    /\ phase' = IF isRunning THEN "lookup" ELSE "stopped"
    /\ attempt' = 0
    /\ latest' = 0

Sleep ==
    /\ phase' = "sleep"
    /\ attempt' = 0
    /\ latest' = 0

\* Regression: the saved cursor is not restored.
LoadStateIgnored ==
    /\ phase = "load"
    /\ LoopHead
    /\ UNCHANGED <<chain, store, cursor, isRunning, delivered>>

LoadState ==
    /\ phase = "load"
    /\ cursor' = IF HasStore /\ store > 0 THEN store ELSE cursor
    /\ LoopHead
    /\ UNCHANGED <<chain, store, isRunning, delivered>>

\* stateStore.load() throws: poll() rejects and the loop never starts.
LoadFails ==
    /\ phase = "load" /\ HasStore
    /\ phase' = "dead"
    /\ UNCHANGED <<chain, store, cursor, attempt, latest, isRunning, delivered>>

\* The cache lookup precedes the first attempt; a hit replaces the request.
LookupHit ==
    /\ phase = "lookup"
    /\ RedisEnabled /\ cache[cursor] # 0
    /\ latest' = cache[cursor]
    /\ phase' = "handle"
    /\ UNCHANGED <<chain, store, cursor, attempt, isRunning, delivered>>

LookupMiss ==
    /\ phase = "lookup"
    /\ ~RedisEnabled \/ cache[cursor] = 0
    /\ phase' = "fetch"
    /\ UNCHANGED <<chain, store, cursor, attempt, latest, isRunning, delivered>>

\* A Redis error while reading counts as a miss.
LookupFails ==
    /\ phase = "lookup" /\ RedisEnabled
    /\ phase' = "fetch"
    /\ UNCHANGED <<chain, store, cursor, attempt, latest, isRunning, delivered>>

\* The answer is cached, unless Redis fails while writing.
FetchOk ==
    /\ phase = "fetch"
    /\ latest' = tip
    /\ cache' \in {cache} \cup (IF RedisEnabled THEN {[cache EXCEPT ![cursor] = tip]} ELSE {})
    /\ phase' = "handle"
    /\ UNCHANGED <<tip, crashes, store, cursor, attempt, isRunning, delivered>>

\* A retriable error with attempts left: back off and try again.
FetchRetry ==
    /\ phase = "fetch" /\ attempt < MaxRetries
    /\ attempt' = attempt + 1
    /\ UNCHANGED <<chain, store, cursor, phase, latest, isRunning, delivered>>

\* Out of attempts with an error the loop still calls retriable: no sleep.
FetchGivesUp ==
    /\ phase = "fetch" /\ attempt = MaxRetries
    /\ LoopHead
    /\ UNCHANGED <<chain, store, cursor, isRunning, delivered>>

\* An error that is not retriable, or no longer looks so once wrapped.
FetchFails ==
    /\ phase = "fetch"
    /\ Sleep
    /\ UNCHANGED <<chain, store, cursor, isRunning, delivered>>

\* onEvents returns: advance the cursor, then save it if there is a store.
HandlerReturns ==
    /\ phase = "handle"
    /\ delivered' = delivered \cup events
    /\ cursor' = latest
    /\ attempt' = 0
    /\ latest' = 0
    /\ phase' = IF HasStore THEN "save" ELSE "sleep"
    /\ UNCHANGED <<chain, store, isRunning>>

\* Regression: a failed batch is skipped.
HandlerThrowsSkip ==
    /\ phase = "handle"
    /\ Sleep
    /\ cursor' = latest
    /\ UNCHANGED <<chain, store, isRunning, delivered>>

\* onEvents throws: the batch is fetched again, after a sleep or at once.
HandlerThrows ==
    /\ phase = "handle"
    /\ Sleep \/ LoopHead
    /\ UNCHANGED <<chain, store, cursor, isRunning, delivered>>

\* Regression: the snapshot names the ledger after the last one delivered.
SaveOkNext ==
    /\ phase = "save"
    /\ store' = cursor + 1
    /\ Sleep
    /\ UNCHANGED <<chain, cursor, isRunning, delivered>>

SaveOk ==
    /\ phase = "save"
    /\ store' = cursor
    /\ Sleep
    /\ UNCHANGED <<chain, cursor, isRunning, delivered>>

\* save() throws: the cursor in memory has moved already.
SaveFails ==
    /\ phase = "save"
    /\ Sleep \/ LoopHead
    /\ UNCHANGED <<chain, store, cursor, isRunning, delivered>>

\* Regression: waking up does not look at isRunning.
SleepOverForever ==
    /\ phase = "sleep"
    /\ phase' = "lookup"
    /\ attempt' = 0
    /\ latest' = 0
    /\ UNCHANGED <<chain, store, cursor, isRunning, delivered>>

SleepOver ==
    /\ phase = "sleep"
    /\ LoopHead
    /\ UNCHANGED <<chain, store, cursor, isRunning, delivered>>

\* stop() only clears the flag; the loop looks at it at its head.
Stop ==
    /\ isRunning
    /\ isRunning' = FALSE
    /\ UNCHANGED <<chain, store, cursor, phase, attempt, latest, delivered>>

Lookup == LookupHit \/ LookupMiss \/ LookupFails

Fetch == FetchOk \/ FetchRetry \/ FetchGivesUp \/ FetchFails

Handle == HandlerReturns \/ HandlerThrows

Loop == LoadState \/ LoadFails \/ Lookup \/ Fetch \/ Handle \/ SaveOk \/ SaveFails \/ SleepOver

Next ==
    \/ CloseLedger
    \/ \E l \in Ledgers : Expire(l)
    \/ CrashRestart(startLedger)
    \/ Loop
    \/ Stop

Spec == Init /\ [][Next]_vars

(* Timers fire and pending calls settle.  A call that keeps failing fails   *)
(* for ever only if the environment is broken for ever: fetches and handler *)
(* calls that are tried again and again succeed at last.                    *)
Fairness ==
    /\ WF_vars(Loop)
    /\ SF_vars(FetchOk)
    /\ SF_vars(HandlerReturns)
    /\ \A l \in Ledgers : WF_vars(Expire(l))

FairSpec == Spec /\ Fairness

-----------------------------------------------------------------------------
(* Properties.                                                           *)

TypeOK ==
    /\ tip \in Ledgers
    /\ cache \in [Ledgers -> {0} \cup Ledgers]
    /\ store \in {0} \cup Ledgers
    /\ cursor \in Ledgers
    /\ phase \in {"load", "lookup", "fetch", "handle", "save", "sleep", "stopped", "dead"}
    /\ attempt \in 0 .. MaxRetries
    /\ latest \in {0} \cup Ledgers
    /\ isRunning \in BOOLEAN
    /\ crashes \in 0 .. MaxCrashes
    /\ delivered \subseteq EventLedgers

\* No event is skipped: whatever failed, crashed or was served from the cache,
\* everything below the cursor (in memory or saved) went through onEvents.
NoEventSkipped ==
    \A e \in EventLedgers :
        e < cursor \/ (HasStore /\ e <= store) => e \in delivered

\* The saved cursor never moves back, so a restart never loses progress twice.
SavedNeverRegresses == [][store' >= store]_vars

\* stop() ends the loop even while every fetch, handler call and save fails.
StopEndsLoop == ~isRunning ~> (isRunning \/ phase \in {"stopped", "dead"})

\* A continuous indexer: every event of a closed ledger is delivered, unless
\* somebody stops the indexer or its state cannot be loaded.
EveryEventDelivered ==
    \A e \in EventLedgers :
        (e <= tip) ~> (e \in delivered \/ ~isRunning \/ phase = "dead")

\* The indexer's state is sound: its types, and nothing below the cursor was skipped.
IndexerSafety == TypeOK /\ NoEventSkipped

\* The loop goes on while it runs and ends when it is told to.
IndexerProgress == StopEndsLoop /\ EveryEventDelivered
=============================================================================
