------------------------- MODULE EventIndexerProofs -------------------------
(* Proofs about EventIndexer and PersistentIndexer: no event is skipped, the *)
(* saved cursor never moves back, and the tables hold what the database's    *)
(* cursor has passed, for every chain, retry limit and number of crashes.    *)
EXTENDS PersistentIndexer, TLAPS

-----------------------------------------------------------------------------
(* The invariant.                                                        *)

\* Nothing the indexer knows is ahead of the chain, and a cached answer is at
\* least as new as the ledger it was asked for.
BehindTip ==
    /\ startLedger <= tip
    /\ cursor <= tip
    /\ store <= tip
    /\ \A l \in Ledgers : cache[l] # 0 => l <= cache[l] /\ cache[l] <= tip
    /\ phase = "handle" => cursor <= latest /\ latest <= tip

\* A cursor about to be saved was delivered, and is not behind the saved one.
SaveInv ==
    /\ phase = "save" => HasStore /\ \A e \in EventLedgers : e <= cursor => e \in delivered
    /\ HasStore /\ phase \notin {"load", "dead"} => store <= cursor

IndexInv == TypeOK /\ BehindTip /\ SaveInv /\ NoEventSkipped

LEMMA EventFacts ==
    /\ MaxLedger \in Nat /\ startLedger \in Ledgers
    /\ \A e \in EventLedgers : e \in Ledgers /\ e >= startLedger
    /\ MaxRetries \in Nat /\ MaxCrashes \in Nat
    /\ \A l \in Ledgers : l \in Nat /\ l # 0
  BY IndexerAssumption DEF Ledgers

LEMMA IndexInit == Init => IndexInv
  <1> SUFFICES ASSUME Init PROVE IndexInv OBVIOUS
  <1> USE EventFacts DEF Init
  <1>1. TypeOK BY DEF TypeOK
  <1>2. BehindTip BY DEF BehindTip
  <1>3. SaveInv BY DEF SaveInv
  <1>4. NoEventSkipped BY DEF NoEventSkipped
  <1> QED BY <1>1, <1>2, <1>3, <1>4 DEF IndexInv

-----------------------------------------------------------------------------
(* The steps.                                                            *)

\* Steps that only change what the loop waits for.
LEMMA WaitStep ==
    ASSUME IndexInv, UNCHANGED <<tip, cache, store, cursor, crashes, delivered>>,
           \/ phase' = phase /\ latest' = latest
           \/ /\ phase' \in {"lookup", "fetch", "sleep", "stopped"}
              /\ phase \notin {"load", "dead"} /\ latest' \in {0, latest}
           \/ phase' = "dead" /\ latest' = latest,
           attempt' \in 0 .. MaxRetries, isRunning' \in BOOLEAN
    PROVE  IndexInv'
  <1> USE EventFacts DEF IndexInv
  <1>1. TypeOK' BY DEF TypeOK
  <1>2. BehindTip' BY DEF BehindTip
  <1>3. SaveInv' BY DEF SaveInv
  <1>4. NoEventSkipped' BY DEF NoEventSkipped
  <1> QED BY <1>1, <1>2, <1>3, <1>4

\* The answer of an RPC call or of the cache is handed to onEvents.
LEMMA AnswerStep ==
    ASSUME IndexInv, LookupHit \/ FetchOk
    PROVE  IndexInv'
  <1> USE EventFacts DEF IndexInv
  <1>1. /\ UNCHANGED <<tip, store, cursor, crashes, delivered, attempt, isRunning>>
        /\ phase \notin {"load", "dead"} /\ phase' = "handle"
    BY DEF LookupHit, FetchOk, chain
  <1>2. cache' = cache \/ cache' = [cache EXCEPT ![cursor] = tip]
    BY DEF LookupHit, FetchOk, chain
  <1>3. latest' \in Ledgers /\ cursor <= latest' /\ latest' <= tip
    <2>1. CASE LookupHit BY <2>1 DEF LookupHit, TypeOK, BehindTip
    <2>2. CASE FetchOk BY <2>2 DEF FetchOk, TypeOK, BehindTip
    <2> QED BY <2>1, <2>2
  <1>4. TypeOK' BY <1>1, <1>2, <1>3 DEF TypeOK
  <1>5. \A l \in Ledgers : cache'[l] # 0 => l <= cache'[l] /\ cache'[l] <= tip
    BY <1>2 DEF TypeOK, BehindTip
  <1>6. BehindTip' BY <1>1, <1>3, <1>5 DEF BehindTip
  <1>7. SaveInv' BY <1>1 DEF SaveInv
  <1>8. NoEventSkipped' BY <1>1 DEF NoEventSkipped
  <1> QED BY <1>4, <1>6, <1>7, <1>8

LEMMA HandledStep == ASSUME IndexInv, HandlerReturns PROVE IndexInv'
  <1> USE EventFacts DEF IndexInv
  <1>1. /\ phase = "handle" /\ delivered' = delivered \cup events /\ cursor' = latest
        /\ UNCHANGED <<tip, cache, store, crashes, isRunning>> /\ attempt' = 0 /\ latest' = 0
        /\ phase' \in {"save", "sleep"} /\ (phase' = "save" => HasStore)
    BY DEF HandlerReturns, chain
  <1>2. latest \in Ledgers /\ cursor <= latest /\ latest <= tip /\ cursor \in Ledgers
    BY <1>1 DEF TypeOK, BehindTip
  <1>3. \A e \in EventLedgers : e <= latest => e \in delivered'
    BY <1>1, <1>2 DEF NoEventSkipped, events
  <1>4. TypeOK' BY <1>1, <1>2 DEF TypeOK, events
  <1>5. BehindTip' BY <1>1, <1>2 DEF BehindTip
  <1>6. HasStore => store <= latest BY <1>1, <1>2 DEF SaveInv, TypeOK
  <1>7. SaveInv' BY <1>1, <1>3, <1>6 DEF SaveInv
  <1>8. NoEventSkipped' BY <1>1, <1>2, <1>3 DEF NoEventSkipped
  <1> QED BY <1>4, <1>5, <1>7, <1>8

LEMMA SavedStep == ASSUME IndexInv, SaveOk PROVE IndexInv' /\ store' >= store
  <1> USE EventFacts DEF IndexInv
  <1>1. /\ phase = "save" /\ store' = cursor /\ phase' = "sleep" /\ attempt' = 0 /\ latest' = 0
        /\ UNCHANGED <<tip, cache, crashes, cursor, isRunning, delivered>>
    BY DEF SaveOk, Sleep, chain
  <1>2. TypeOK' BY <1>1 DEF TypeOK
  <1>3. BehindTip' BY <1>1 DEF BehindTip
  <1>4. SaveInv' BY <1>1 DEF SaveInv, TypeOK
  <1>5. NoEventSkipped' BY <1>1 DEF NoEventSkipped, SaveInv
  <1>6. store' >= store BY <1>1 DEF SaveInv, TypeOK
  <1> QED BY <1>2, <1>3, <1>4, <1>5, <1>6

LEMMA LoadedStep == ASSUME IndexInv, LoadState PROVE IndexInv'
  <1> USE EventFacts DEF IndexInv
  <1>1. /\ cursor' = IF HasStore /\ store > 0 THEN store ELSE cursor
        /\ UNCHANGED <<tip, cache, crashes, store, isRunning, delivered>>
        /\ phase' \in {"lookup", "stopped"} /\ attempt' = 0 /\ latest' = 0
    BY DEF LoadState, LoopHead, chain
  <1>2. cursor' \in Ledgers BY <1>1 DEF TypeOK
  <1>3. TypeOK' BY <1>1, <1>2 DEF TypeOK
  <1>4. BehindTip' BY <1>1 DEF BehindTip
  <1>5. SaveInv' BY <1>1 DEF SaveInv, TypeOK
  <1>6. NoEventSkipped'
    <2> SUFFICES ASSUME NEW e \in EventLedgers, e < cursor' \/ (HasStore /\ e <= store)
                 PROVE  e \in delivered
      BY <1>1 DEF NoEventSkipped
    <2>1. CASE HasStore /\ store > 0
      <3>1. cursor' = store BY <1>1, <2>1
      <3>2. e \in Nat /\ store \in Nat BY DEF TypeOK
      <3>3. e <= store BY <3>1, <3>2
      <3> QED BY <2>1, <3>3 DEF NoEventSkipped
    <2>2. CASE ~(HasStore /\ store > 0)
      BY <1>1, <2>2 DEF NoEventSkipped, TypeOK
    <2> QED BY <2>1, <2>2
  <1> QED BY <1>3, <1>4, <1>5, <1>6

\* The steps of the chain, the cache's clock, and crashes.
LEMMA WorldStep ==
    ASSUME IndexInv, CloseLedger \/ (\E l \in Ledgers : Expire(l)) \/ CrashRestart(startLedger)
    PROVE  IndexInv' /\ store' = store
  <1> USE EventFacts DEF IndexInv
  <1>1. CASE CloseLedger
    <2>1. tip' \in Ledgers BY <1>1 DEF CloseLedger, TypeOK, Ledgers
    <2>2. TypeOK' BY <1>1, <2>1 DEF CloseLedger, TypeOK
    <2>3. BehindTip' BY <1>1 DEF CloseLedger, BehindTip, TypeOK
    <2>4. SaveInv' BY <1>1 DEF CloseLedger, SaveInv
    <2>5. NoEventSkipped' BY <1>1 DEF CloseLedger, NoEventSkipped
    <2> QED BY <1>1, <2>2, <2>3, <2>4, <2>5 DEF CloseLedger
  <1>2. ASSUME NEW l \in Ledgers, Expire(l) PROVE IndexInv' /\ store' = store
    <2>1. TypeOK' BY <1>2 DEF Expire, TypeOK
    <2>2. BehindTip' BY <1>2 DEF Expire, BehindTip, TypeOK
    <2>3. SaveInv' BY <1>2 DEF Expire, SaveInv
    <2>4. NoEventSkipped' BY <1>2 DEF Expire, NoEventSkipped
    <2> QED BY <1>2, <2>1, <2>2, <2>3, <2>4 DEF Expire
  <1>3. CASE CrashRestart(startLedger)
    <2>1. TypeOK' BY <1>3 DEF CrashRestart, TypeOK
    <2>2. BehindTip' BY <1>3 DEF CrashRestart, BehindTip
    <2>3. SaveInv' BY <1>3 DEF CrashRestart, SaveInv
    <2>4. NoEventSkipped' BY <1>3 DEF CrashRestart, NoEventSkipped
    <2> QED BY <1>3, <2>1, <2>2, <2>3, <2>4 DEF CrashRestart
  <1> QED BY <1>1, <1>2, <1>3

LEMMA IndexStep == IndexInv /\ [Next]_vars => IndexInv' /\ store' >= store
  <1> SUFFICES ASSUME IndexInv, [Next]_vars PROVE IndexInv' /\ store' >= store OBVIOUS
  <1>1. store \in Nat BY EventFacts DEF IndexInv, TypeOK
  <1>2. CASE CloseLedger \/ (\E l \in Ledgers : Expire(l)) \/ CrashRestart(startLedger)
    BY <1>1, <1>2, WorldStep
  <1>3. CASE LoadState BY <1>1, <1>3, LoadedStep DEF LoadState
  <1>4. CASE LookupHit \/ FetchOk BY <1>1, <1>4, AnswerStep DEF LookupHit, FetchOk
  <1>5. CASE HandlerReturns BY <1>1, <1>5, HandledStep DEF HandlerReturns
  <1>6. CASE SaveOk BY <1>6, SavedStep
  <1>7. CASE LookupMiss \/ LookupFails \/ SleepOver \/ SaveFails \/ HandlerThrows
             \/ FetchRetry \/ FetchGivesUp \/ FetchFails \/ LoadFails \/ Stop \/ UNCHANGED vars
    <2>1. UNCHANGED <<tip, cache, store, cursor, crashes, delivered>>
      BY <1>7 DEF LookupMiss, LookupFails, SleepOver, SaveFails, HandlerThrows, FetchRetry,
                  FetchGivesUp, FetchFails, LoadFails, Stop, chain, vars
    <2>2. \/ phase' = phase /\ latest' = latest
          \/ /\ phase' \in {"lookup", "fetch", "sleep", "stopped"}
             /\ phase \notin {"load", "dead"} /\ latest' \in {0, latest}
          \/ phase' = "dead" /\ latest' = latest
      <3>1. CASE LookupMiss \/ LookupFails BY <3>1 DEF LookupMiss, LookupFails
      <3>2. CASE SleepOver \/ SaveFails BY <3>2 DEF SleepOver, SaveFails, LoopHead, Sleep
      <3>3. CASE HandlerThrows BY <3>3 DEF HandlerThrows, LoopHead, Sleep
      <3>4. CASE FetchRetry BY <3>4 DEF FetchRetry
      <3>5. CASE FetchGivesUp \/ FetchFails
        BY <3>5 DEF FetchGivesUp, FetchFails, LoopHead, Sleep
      <3>6. CASE LoadFails \/ Stop \/ UNCHANGED vars BY <3>6 DEF LoadFails, Stop, vars
      <3> QED BY <1>7, <3>1, <3>2, <3>3, <3>4, <3>5, <3>6
    <2>3. attempt' \in {0, attempt} \/ (attempt < MaxRetries /\ attempt' = attempt + 1)
      BY <1>7 DEF LookupMiss, LookupFails, SleepOver, SaveFails, HandlerThrows, FetchRetry,
                  FetchGivesUp, FetchFails, LoadFails, Stop, vars, LoopHead, Sleep
    <2>4. attempt' \in 0 .. MaxRetries BY <2>3, EventFacts DEF IndexInv, TypeOK
    <2>5. isRunning' = isRunning \/ isRunning' = FALSE
      BY <1>7 DEF LookupMiss, LookupFails, SleepOver, SaveFails, HandlerThrows, FetchRetry,
                  FetchGivesUp, FetchFails, LoadFails, Stop, vars
    <2>6. isRunning' \in BOOLEAN BY <2>5 DEF IndexInv, TypeOK
    <2> QED BY <1>1, <2>1, <2>2, <2>4, <2>6, WaitStep
  <1> QED BY <1>2, <1>3, <1>4, <1>5, <1>6, <1>7 DEF Next, Loop, Lookup, Fetch, Handle

-----------------------------------------------------------------------------
(* The theorems.                                                         *)

\* The state of the indexer keeps its types.
THEOREM IndexerTypeCorrect == Spec => []TypeOK
  <1>1. IndexInv => TypeOK BY DEF IndexInv
  <1> QED BY <1>1, IndexInit, IndexStep, PTL DEF Spec

\* Whatever failed, crashed or came from the cache, everything below the cursor,
\* in memory or saved, went through onEvents.
THEOREM NothingSkipped == Spec => []NoEventSkipped
  <1>1. IndexInv => NoEventSkipped BY DEF IndexInv
  <1> QED BY <1>1, IndexInit, IndexStep, PTL DEF Spec

\* The saved cursor never moves back.
THEOREM SavedProgressKept == Spec => SavedNeverRegresses
  <1>1. IndexInv /\ [Next]_vars => [store' >= store]_vars BY IndexStep
  <1> QED BY <1>1, IndexInit, IndexStep, PTL DEF Spec, SavedNeverRegresses

\* The indexer's state keeps its types and nothing below the cursor was skipped, for any
\* chain, retry limit and number of crashes.
THEOREM IndexerSafe == Spec => []IndexerSafety
  <1>1. TypeOK /\ NoEventSkipped => IndexerSafety BY DEF IndexerSafety
  <1> QED BY <1>1, IndexerTypeCorrect, NothingSkipped, PTL
-----------------------------------------------------------------------------
(* The persistent indexer.                                               *)

\* Nothing below the database's cursor was skipped, and what was handed to the
\* persistence layer is in one of its tables unless a write has failed.
DbInv ==
    /\ rows \subseteq EventLedgers /\ dlq \subseteq EventLedgers
    /\ dbCursor \in 0 .. MaxLedger /\ boot \in 0 .. MaxLedger /\ dbFailed \in BOOLEAN
    /\ dbCursor <= tip
    /\ \A e \in EventLedgers : e < dbCursor => e \in delivered
    /\ ~dbFailed => delivered \subseteq rows \cup dlq

PersistInv == IndexInv /\ DbInv

\* A restart from a ledger that nothing undelivered lies below.
LEMMA RestartStep ==
    ASSUME IndexInv, NEW s \in Ledgers, s <= tip,
           \A e \in EventLedgers : e < s => e \in delivered,
           CrashRestart(s)
    PROVE  IndexInv' /\ UNCHANGED <<tip, delivered>>
  <1> USE EventFacts DEF IndexInv
  <1>1. TypeOK' BY DEF CrashRestart, TypeOK
  <1>2. BehindTip' BY DEF CrashRestart, BehindTip
  <1>3. SaveInv' BY DEF CrashRestart, SaveInv
  <1>4. NoEventSkipped' BY DEF CrashRestart, NoEventSkipped
  <1> QED BY <1>1, <1>2, <1>3, <1>4 DEF CrashRestart

\* updateCursor() saves the cursor of before the batch, if anything.
LEMMA UpdateStep ==
    ASSUME IndexInv, DbInv, updateCursor
    PROVE  /\ dbCursor' \in 0 .. MaxLedger /\ dbCursor' <= tip
           /\ \A e \in EventLedgers : e < dbCursor' => e \in delivered
  <1>1. dbCursor' = dbCursor \/ dbCursor' = cursor BY DEF updateCursor
  <1>2. /\ cursor \in 0 .. MaxLedger /\ cursor <= tip
        /\ \A e \in EventLedgers : e < cursor => e \in delivered
    BY EventFacts DEF IndexInv, TypeOK, BehindTip, NoEventSkipped, Ledgers
  <1> QED BY <1>1, <1>2 DEF DbInv

LEMMA BatchStep == ASSUME PersistInv, PersistBatch PROVE PersistInv'
  <1>1. IndexInv /\ DbInv /\ HandlerReturns /\ boot' = boot BY DEF PersistInv, PersistBatch
  <1>2. IndexInv' BY <1>1, HandledStep
  <1>3. delivered' = delivered \cup events /\ tip' = tip BY <1>1 DEF HandlerReturns, chain
  <1>4. CASE events = {} /\ UNCHANGED <<rows, dlq, dbCursor, dbFailed>>
    <2>1. delivered' = delivered BY <1>3, <1>4
    <2> QED BY <1>1, <1>2, <1>3, <1>4, <2>1 DEF PersistInv, DbInv
  <1>5. ASSUME NEW S \in SUBSET events, NEW D \in SUBSET events, Persist(S, D),
               dbFailed' = (dbFailed \/ S \cup D # events), updateCursor
        PROVE  PersistInv'
    <2>1. rows' = rows \cup S /\ dlq' = dlq \cup D BY <1>5 DEF Persist
    <2>2. events \subseteq EventLedgers BY DEF events
    <2>3. /\ dbCursor' \in 0 .. MaxLedger /\ dbCursor' <= tip
          /\ \A e \in EventLedgers : e < dbCursor' => e \in delivered
      BY <1>1, <1>5, UpdateStep
    <2>4. dbFailed' \in BOOLEAN BY <1>1, <1>5 DEF DbInv
    <2>5. ~dbFailed' => delivered' \subseteq rows' \cup dlq'
      <3>1. ~dbFailed' => ~dbFailed /\ S \cup D = events BY <1>5
      <3> QED BY <1>1, <1>3, <2>1, <3>1 DEF DbInv
    <2> QED BY <1>1, <1>2, <1>3, <2>1, <2>2, <2>3, <2>4, <2>5 DEF PersistInv, DbInv
  <1> QED BY <1>4, <1>5 DEF PersistBatch

\* Whatever part of a batch a crash leaves behind, the restart is early enough.
LEMMA CrashStep == ASSUME PersistInv, PersistCrash PROVE PersistInv'
  <1>1. IndexInv /\ DbInv /\ boot' = dbCursor' /\ CrashRestart(resumeAt(dbCursor'))
    BY DEF PersistInv, PersistCrash
  <1>2. /\ rows \subseteq rows' /\ rows' \subseteq EventLedgers
        /\ dlq \subseteq dlq' /\ dlq' \subseteq EventLedgers
        /\ dbFailed' \in BOOLEAN /\ (dbFailed => dbFailed')
        /\ dbCursor' = dbCursor \/ updateCursor
    <2>1. CASE UNCHANGED <<rows, dlq, dbCursor, dbFailed>> BY <1>1, <2>1 DEF DbInv
    <2>2. ASSUME NEW S \in SUBSET events, NEW D \in SUBSET events, Persist(S, D)
          PROVE  /\ rows \subseteq rows' /\ rows' \subseteq EventLedgers
                 /\ dlq \subseteq dlq' /\ dlq' \subseteq EventLedgers
      BY <1>1, <2>2 DEF Persist, DbInv, events
    <2>3. dbFailed' \in BOOLEAN /\ (dbFailed => dbFailed')
      <3>1. \/ dbFailed' = dbFailed
            \/ \E S, D \in SUBSET events : dbFailed' = (dbFailed \/ S \cup D # events)
        BY DEF PersistCrash
      <3> QED BY <1>1, <3>1 DEF DbInv
    <2> QED BY <2>1, <2>2, <2>3 DEF PersistCrash
  <1>3. /\ dbCursor' \in 0 .. MaxLedger /\ dbCursor' <= tip
        /\ \A e \in EventLedgers : e < dbCursor' => e \in delivered
    BY <1>1, <1>2, UpdateStep DEF DbInv
  <1> DEFINE s == resumeAt(dbCursor')
  <1>4. /\ s \in Ledgers /\ s <= tip
        /\ \A e \in EventLedgers : e < s => e \in delivered
    <2>1. CASE dbCursor' > 0
      <3>1. s = dbCursor' BY <2>1 DEF resumeAt
      <3>2. dbCursor' \in Ledgers BY <1>3, <2>1, EventFacts DEF Ledgers
      <3> QED BY <1>3, <3>1, <3>2
    <2>2. CASE ~(dbCursor' > 0)
      <3>1. s = startLedger BY <2>2 DEF resumeAt
      <3>2. startLedger <= tip BY <1>1 DEF IndexInv, BehindTip
      <3>3. \A e \in EventLedgers : ~(e < startLedger) BY EventFacts
      <3> QED BY <3>1, <3>2, <3>3, EventFacts
    <2> QED BY <2>1, <2>2
  <1> HIDE DEF s
  <1>5. IndexInv' /\ tip' = tip /\ delivered' = delivered
    BY <1>1, <1>4, RestartStep DEF s
  <1>6. ~dbFailed' => delivered' \subseteq rows' \cup dlq'
    <2> SUFFICES ASSUME ~dbFailed', NEW e \in delivered' PROVE e \in rows' \cup dlq' OBVIOUS
    <2>1. ~dbFailed BY <1>2
    <2>2. e \in rows \cup dlq BY <1>1, <1>5, <2>1 DEF DbInv
    <2> QED BY <1>2, <2>2
  <1>7. dbCursor' <= tip' /\ \A e \in EventLedgers : e < dbCursor' => e \in delivered'
    BY <1>3, <1>5
  <1>8. boot' \in 0 .. MaxLedger BY <1>1, <1>3
  <1>9. DbInv' BY <1>2, <1>3, <1>6, <1>7, <1>8 DEF DbInv
  <1> QED BY <1>5, <1>9 DEF PersistInv

LEMMA PersistStep == PersistInv /\ [PNext]_pvars => PersistInv'
  <1> SUFFICES ASSUME PersistInv, [PNext]_pvars PROVE PersistInv' OBVIOUS
  <1>1. CASE PersistBatch BY <1>1, BatchStep
  <1>2. CASE PersistCrash BY <1>2, CrashStep
  <1>3. ASSUME [Next]_vars, UNCHANGED db, delivered' = delivered, tip' \in {tip, tip + 1}
        PROVE  PersistInv'
    <2>1. IndexInv' BY <1>3, IndexStep DEF PersistInv
    <2>2. tip \in Nat BY EventFacts DEF PersistInv, IndexInv, TypeOK, Ledgers
    <2>3. dbCursor \in 0 .. MaxLedger /\ dbCursor <= tip BY DEF PersistInv, DbInv
    <2>4. /\ rows' = rows /\ dlq' = dlq /\ dbCursor' = dbCursor /\ boot' = boot
          /\ dbFailed' = dbFailed
      BY <1>3 DEF db
    <2>5. dbCursor' <= tip' BY <1>3, <2>2, <2>3, <2>4, EventFacts
    <2>6. DbInv' BY <1>3, <2>4, <2>5 DEF PersistInv, DbInv
    <2> QED BY <2>1, <2>6 DEF PersistInv
  <1>4. CASE UNCHANGED db /\ (CloseLedger \/ Stop \/ \E l \in Ledgers : Expire(l))
    <2>1. [Next]_vars BY <1>4 DEF Next
    <2>2. delivered' = delivered /\ tip' \in {tip, tip + 1}
      <3>1. CASE CloseLedger BY <3>1 DEF CloseLedger
      <3>2. CASE Stop
        <4>1. delivered' = delivered /\ tip' = tip BY <3>2 DEF Stop, chain
        <4> QED BY <4>1
      <3>3. CASE \E l \in Ledgers : Expire(l) BY <3>3 DEF Expire
      <3> QED BY <1>4, <3>1, <3>2, <3>3
    <2> QED BY <1>3, <1>4, <2>1, <2>2
  <1>5. CASE UNCHANGED db /\ Poll
    <2>1. [Next]_vars BY <1>5 DEF Poll, Next, Loop
    <2>2. delivered' = delivered /\ tip' = tip
      BY <1>5 DEF Poll, LoadState, LoadFails, Lookup, LookupHit, LookupMiss, LookupFails, Fetch,
                  FetchOk, FetchRetry, FetchGivesUp, FetchFails, SaveOk, SaveFails, SleepOver, chain
    <2> QED BY <1>3, <1>5, <2>1, <2>2
  <1>6. CASE UNCHANGED pvars BY <1>3, <1>6 DEF pvars, vars
  <1> QED BY <1>1, <1>2, <1>4, <1>5, <1>6 DEF PNext

LEMMA PersistInit == PInit => PersistInv
  <1> SUFFICES ASSUME PInit PROVE PersistInv OBVIOUS
  <1>1. IndexInv BY IndexInit DEF PInit
  <1>2. /\ rows = {} /\ dlq = {} /\ dbCursor = 0 /\ boot = 0 /\ dbFailed = FALSE
        /\ delivered = {} /\ tip = startLedger
    BY DEF PInit, Init
  <1>3. \A e \in EventLedgers : ~(e < dbCursor) BY <1>2, EventFacts DEF Ledgers
  <1>4. /\ dbCursor \in 0 .. MaxLedger /\ boot \in 0 .. MaxLedger /\ dbCursor <= tip
    BY <1>2, EventFacts DEF Ledgers
  <1>5. DbInv BY <1>2, <1>3, <1>4 DEF DbInv
  <1> QED BY <1>1, <1>5 DEF PersistInv

LEMMA PersistImplied == PersistInv => PersistenceSafety
  <1> SUFFICES ASSUME IndexInv, DbInv PROVE PersistenceSafety BY DEF PersistInv
  <1>1. PTypeOK BY DEF IndexInv, DbInv, PTypeOK
  <1>2. ResumeCoversUndelivered
    <2> SUFFICES ASSUME NEW e \in EventLedgers, e < resumeAt(dbCursor), ~dbFailed
                 PROVE  e \in rows \cup dlq
      BY DEF ResumeCoversUndelivered
    <2>1. e < dbCursor BY EventFacts DEF resumeAt
    <2> QED BY <2>1 DEF DbInv
  <1>3. HealthyComplete BY DEF HealthyComplete, IndexInv, NoEventSkipped, DbInv
  <1> QED BY <1>1, <1>2, <1>3 DEF PersistenceSafety

\* Through crashes in the middle of a batch and failing writes, a restart resumes at or
\* before the first event that is in neither table, and with a working database the
\* tables hold everything below the cursor.
THEOREM PersistenceCorrect == PSpec => []PersistenceSafety
  <1>1. PSpec => []PersistInv BY PersistInit, PersistStep, PTL DEF PSpec
  <1> QED BY <1>1, PersistImplied, PTL
=============================================================================
