------------------------- MODULE ChainReadersProofs -------------------------
(* Proofs about what walks a chain range by range and fills a table: a       *)
(* back-fill that completes has handed over its whole range, the jobs of     *)
(* reconciliation run out of attempts with each run on record, and the       *)
(* bridge indexer never passes a log and misses no pair.  Each part is       *)
(* proved by itself, from its inductive invariant.                           *)
EXTENDS HistoricalIngester, Reconciliation, Bridge,
        FiniteSetTheorems, SequenceTheorems, WellFoundedInduction, TLAPS

-----------------------------------------------------------------------------
(* The chunks of a range.                                                *)

OptionsType ==
    /\ startSequence \in 0 .. MaxLedger /\ endSequence \in Ledgers
    /\ chunkSize \in 1 .. MaxChunk /\ continueOnFailure \in BOOLEAN

\* What ingestHistoricalRange checks before it starts.
ValidRange == 1 <= startSequence /\ startSequence <= endSequence

\* There is at least one chunk, and never more of them than ledgers.
LEMMA ChunkCount ==
    ASSUME OptionsType, ValidRange
    PROVE  /\ totalChunks \in 1 .. MaxLedger
           /\ endSequence - startSequence < totalChunks * chunkSize
  <1> DEFINE n == endSequence - startSequence
  <1>1. /\ MaxLedger \in Nat /\ n \in Nat /\ n < MaxLedger
        /\ chunkSize \in Nat /\ chunkSize >= 1
    BY IngesterAssumption DEF OptionsType, ValidRange, Ledgers
  <1>2. totalChunks = (n + chunkSize) \div chunkSize
    <2>1. endSequence - startSequence + 1 + chunkSize - 1 = n + chunkSize
      BY <1>1, IngesterAssumption DEF OptionsType, Ledgers
    <2> QED BY <2>1 DEF totalChunks
  <1> HIDE DEF n
  <1>3. /\ totalChunks \in Nat
        /\ totalChunks * chunkSize <= n + chunkSize
        /\ n + chunkSize < (totalChunks + 1) * chunkSize
    BY <1>1, <1>2
  <1>4. n < totalChunks * chunkSize BY <1>1, <1>3
  <1>5. totalChunks >= 1 BY <1>1, <1>3, <1>4
  <1>6. totalChunks <= MaxLedger
    <2>1. (totalChunks - 1) * chunkSize <= n BY <1>1, <1>3
    <2>2. totalChunks - 1 <= (totalChunks - 1) * chunkSize BY <1>1, <1>3, <1>5
    <2> QED BY <1>1, <1>3, <1>5, <2>1, <2>2
  <1> QED BY <1>1, <1>3, <1>4, <1>5, <1>6 DEF n

\* Every ledger of the range lies in one of the chunks.
LEMMA ChunksCover ==
    ASSUME OptionsType, ValidRange, NEW l \in startSequence .. endSequence
    PROVE  \E i \in Chunks : l \in chunkStart(i) .. chunkEnd(i)
  <1> DEFINE d == l - startSequence
             i == d \div chunkSize
  <1>1. /\ startSequence \in Nat /\ endSequence \in Nat /\ l \in Nat /\ d \in Nat
        /\ l <= endSequence /\ d <= endSequence - startSequence
        /\ chunkSize \in Nat /\ chunkSize >= 1 /\ l = startSequence + d
    BY IngesterAssumption DEF OptionsType, ValidRange, Ledgers
  <1> HIDE DEF d
  <1>2. i \in Nat /\ i * chunkSize <= d /\ d < (i + 1) * chunkSize BY <1>1
  <1> HIDE DEF i
  <1>3. totalChunks \in Nat /\ endSequence - startSequence < totalChunks * chunkSize
    BY ChunkCount, IngesterAssumption
  <1>4. i < totalChunks
    <2> SUFFICES ASSUME totalChunks <= i PROVE FALSE BY <1>2, <1>3
    <2>1. totalChunks * chunkSize <= i * chunkSize BY <1>1, <1>2, <1>3
    <2>2. i * chunkSize \in Nat /\ totalChunks * chunkSize \in Nat BY <1>1, <1>2, <1>3
    <2> QED BY <1>1, <1>2, <1>3, <2>1, <2>2
  <1>5. i \in Chunks BY <1>2, <1>3, <1>4 DEF Chunks
  <1>6. l \in chunkStart(i) .. chunkEnd(i)
    <2>1. i * chunkSize \in Nat /\ (i + 1) * chunkSize = i * chunkSize + chunkSize
      BY <1>1, <1>2
    <2> QED BY <1>1, <1>2, <2>1 DEF chunkStart, chunkEnd
  <1> QED BY <1>5, <1>6

-----------------------------------------------------------------------------
(* The invariant.                                                        *)

\* Where the loop stands.
LoopInv ==
    phase # "rejected" =>
        /\ ValidRange
        /\ phase \in {"fetch", "chunk"} => chunkIndex < totalChunks
        /\ phase \in {"complete", "done"} => chunkIndex = totalChunks

\* A chunk that was left without an error was fetched, and all of the answer was
\* handed over; the answer being handled runs to the tip of its request.
HandedInv ==
    /\ phase = "chunk" =>
          /\ fetchedAt[chunkIndex] # 0
          /\ events = chunkStart(chunkIndex) .. fetchedAt[chunkIndex]
    /\ \A i \in 0 .. MaxLedger :
          i < chunkIndex /\ i \notin failed =>
              fetchedAt[i] # 0 /\ handed[i] = chunkStart(i) .. fetchedAt[i]

\* A failed chunk left the loop running only when that was asked for.
FailureInv == ~continueOnFailure /\ phase # "threw" => failed = {}

IngestInv == TypeOK /\ LoopInv /\ HandedInv /\ FailureInv
-----------------------------------------------------------------------------
(* The steps.                                                            *)

\* What the loop of a back-fill may take for granted.
LEMMA IngestFacts ==
    IngestInv => /\ MaxLedger \in Nat /\ MaxRetries \in Nat /\ tip \in Ledgers
                 /\ OptionsType /\ chunkIndex \in Nat
  BY IngesterAssumption DEF IngestInv, TypeOK, OptionsType

\* The invariant holds before the first chunk.
LEMMA IngestInit == Init => IngestInv
  <1> SUFFICES ASSUME Init PROVE IngestInv OBVIOUS
  <1> USE IngesterAssumption DEF Init
  <1>1. TypeOK BY DEF TypeOK, Ledgers
  <1>2. LoopInv
    <2> SUFFICES ASSUME phase # "rejected" PROVE ValidRange /\ chunkIndex < totalChunks
      BY DEF LoopInv
    <2>1. OptionsType /\ ValidRange BY DEF OptionsType, ValidRange, Ledgers
    <2>2. totalChunks \in 1 .. MaxLedger BY <2>1, ChunkCount
    <2> QED BY <2>1, <2>2
  <1>3. HandedInv BY DEF HandedInv
  <1>4. FailureInv BY DEF FailureInv
  <1> QED BY <1>1, <1>2, <1>3, <1>4 DEF IngestInv

\* The loop's head moves to a chunk that exists, or ends the loop after the last one.
LEMMA HeadStep ==
    ASSUME IngestInv, phase \in {"fetch", "chunk"}, NextChunk(chunkIndex + 1),
           UNCHANGED <<options, tip>>
    PROVE  /\ chunkIndex' \in 0 .. MaxLedger /\ chunkIndex' = chunkIndex + 1
           /\ phase' \in {"fetch", "complete"} /\ LoopInv'
           /\ attempt' = 0 /\ events' = {}
  <1>1. /\ chunkIndex' = chunkIndex + 1 /\ attempt' = 0 /\ events' = {}
        /\ phase' = IF chunkIndex + 1 < totalChunks THEN "fetch" ELSE "complete"
    BY DEF NextChunk
  <1>2. ValidRange /\ chunkIndex < totalChunks BY DEF IngestInv, LoopInv
  <1>3. totalChunks \in Nat /\ totalChunks <= MaxLedger
    BY <1>2, ChunkCount, IngestFacts
  <1>4. totalChunks' = totalChunks /\ (ValidRange' <=> ValidRange)
    BY DEF options, totalChunks, ValidRange
  <1>5. /\ phase' = "fetch" => chunkIndex' < totalChunks'
        /\ phase' = "complete" => chunkIndex' = totalChunks'
    BY <1>1, <1>2, <1>3, <1>4, IngestFacts
  <1>6. phase' \in {"fetch", "complete"} BY <1>1
  <1>7. LoopInv' BY <1>2, <1>4, <1>5, <1>6 DEF LoopInv
  <1>8. chunkIndex' \in 0 .. MaxLedger BY <1>1, <1>2, <1>3, IngestFacts
  <1> QED BY <1>1, <1>6, <1>7, <1>8

\* The answer to a request runs from the chunk's first ledger to the tip.
LEMMA FetchedStep == ASSUME IngestInv, FetchOk PROVE IngestInv'
  <1>1. /\ phase = "fetch" /\ phase' = "chunk" /\ events' = response
        /\ fetchedAt' = [fetchedAt EXCEPT ![chunkIndex] = tip]
        /\ totalEvents' = totalEvents + Cardinality(response)
        /\ UNCHANGED <<options, tip, chunkIndex, attempt, handed, failed>>
    BY DEF FetchOk
  <1>2. /\ startSequence \in Nat /\ startSequence >= 1 /\ chunkSize \in Nat
        /\ chunkIndex \in 0 .. MaxLedger /\ tip \in Ledgers /\ tip # 0
    BY <1>1, IngesterAssumption DEF IngestInv, TypeOK, LoopInv, ValidRange, Ledgers
  <1>3. chunkStart(chunkIndex) \in Nat /\ chunkStart(chunkIndex) >= 1
    <2>1. chunkIndex * chunkSize \in Nat BY <1>2, IngesterAssumption
    <2> QED BY <1>2, <2>1 DEF chunkStart
  <1>4. response \subseteq Ledgers BY <1>2, <1>3, IngesterAssumption DEF response, Ledgers
  <1>5. Cardinality(response) \in Nat
    <2>1. tip \in Int /\ chunkStart(chunkIndex) \in Int
      BY <1>2, <1>3, IngesterAssumption DEF Ledgers
    <2>2. IsFiniteSet(response) BY <2>1, FS_Interval DEF response
    <2> QED BY <2>2, FS_CardinalityType
  <1>6. fetchedAt' \in [0 .. MaxLedger -> 0 .. MaxLedger]
    <2>1. fetchedAt \in [0 .. MaxLedger -> 0 .. MaxLedger] BY DEF IngestInv, TypeOK
    <2>2. tip \in 0 .. MaxLedger BY <1>2, IngesterAssumption DEF Ledgers
    <2> QED BY <1>1, <1>2, <2>1, <2>2
  <1>7. totalEvents' \in Nat BY <1>1, <1>5 DEF IngestInv, TypeOK
  <1>8. TypeOK' BY <1>1, <1>4, <1>6, <1>7 DEF IngestInv, TypeOK, options
  <1>9. LoopInv'
    <2>1. totalChunks' = totalChunks /\ (ValidRange' <=> ValidRange)
      BY <1>1 DEF options, totalChunks, ValidRange
    <2> QED BY <1>1, <2>1 DEF IngestInv, LoopInv
  <1>10. HandedInv'
    <2>1. \A i : chunkStart(i)' = chunkStart(i) BY <1>1 DEF options, chunkStart
    <2>2. fetchedAt'[chunkIndex] = tip BY <1>1, <1>2 DEF IngestInv, TypeOK
    <2>3. events' = chunkStart(chunkIndex) .. fetchedAt'[chunkIndex]
      BY <1>1, <2>2 DEF response
    <2>4. ASSUME NEW i \in 0 .. MaxLedger, i < chunkIndex, i \notin failed
          PROVE  fetchedAt'[i] # 0 /\ handed'[i] = chunkStart(i) .. fetchedAt'[i]
      <3>1. i # chunkIndex BY <1>2, <2>4, IngesterAssumption
      <3>2. fetchedAt'[i] = fetchedAt[i] BY <1>1, <2>4, <3>1 DEF IngestInv, TypeOK
      <3> QED BY <1>1, <2>4, <3>2 DEF IngestInv, HandedInv
    <2> QED BY <1>1, <1>2, <2>1, <2>2, <2>3, <2>4 DEF HandedInv
  <1>11. FailureInv' BY <1>1 DEF IngestInv, FailureInv, options
  <1> QED BY <1>8, <1>9, <1>10, <1>11 DEF IngestInv

\* onChunkComplete accepted the answer.
LEMMA HandedStep == ASSUME IngestInv, ChunkHanded PROVE IngestInv'
  <1>1. /\ phase = "chunk" /\ handed' = [handed EXCEPT ![chunkIndex] = events]
        /\ NextChunk(chunkIndex + 1)
        /\ UNCHANGED <<options, tip, fetchedAt, failed, totalEvents>>
    BY DEF ChunkHanded
  <1>2. /\ chunkIndex' \in 0 .. MaxLedger /\ chunkIndex' = chunkIndex + 1
        /\ phase' \in {"fetch", "complete"} /\ LoopInv' /\ attempt' = 0 /\ events' = {}
    BY <1>1, HeadStep
  <1>3. chunkIndex \in 0 .. MaxLedger BY DEF IngestInv, TypeOK
  <1>4. handed' \in [0 .. MaxLedger -> SUBSET Ledgers] BY <1>1, <1>3 DEF IngestInv, TypeOK
  <1>5. TypeOK' BY <1>1, <1>2, <1>4, IngestFacts DEF IngestInv, TypeOK, options
  <1>6. HandedInv'
    <2>1. \A i : chunkStart(i)' = chunkStart(i) BY <1>1 DEF options, chunkStart
    <2>2. ASSUME NEW i \in 0 .. MaxLedger, i < chunkIndex', i \notin failed
          PROVE  fetchedAt[i] # 0 /\ handed'[i] = chunkStart(i) .. fetchedAt[i]
      <3>1. CASE i = chunkIndex
        <4>1. handed'[i] = events BY <1>1, <3>1, <1>3 DEF IngestInv, TypeOK
        <4> QED BY <1>1, <3>1, <4>1 DEF IngestInv, HandedInv
      <3>2. CASE i # chunkIndex
        <4>1. i < chunkIndex BY <1>2, <1>3, <2>2, <3>2, IngestFacts
        <4>2. handed'[i] = handed[i] BY <1>1, <3>2 DEF IngestInv, TypeOK
        <4> QED BY <2>2, <4>1, <4>2 DEF IngestInv, HandedInv
      <3> QED BY <3>1, <3>2
    <2> QED BY <1>1, <1>2, <2>1, <2>2 DEF HandedInv
  <1>7. FailureInv' BY <1>1 DEF IngestInv, FailureInv, options
  <1> QED BY <1>2, <1>5, <1>6, <1>7 DEF IngestInv

\* The request or onChunkComplete failed for good.
LEMMA FailedStep == ASSUME IngestInv, ChunkFails PROVE IngestInv'
  <1>1. /\ phase \in {"fetch", "chunk"} /\ failed' = failed \cup {chunkIndex}
        /\ UNCHANGED <<options, tip, fetchedAt, handed, totalEvents>>
    BY DEF ChunkFails
  <1>2. chunkIndex \in 0 .. MaxLedger /\ failed' \subseteq 0 .. MaxLedger
    BY <1>1 DEF IngestInv, TypeOK
  <1>3. \A i : chunkStart(i)' = chunkStart(i) BY <1>1 DEF options, chunkStart
  <1>4. CASE continueOnFailure
    <2>1. NextChunk(chunkIndex + 1) BY <1>4 DEF ChunkFails
    <2>2. /\ chunkIndex' \in 0 .. MaxLedger /\ chunkIndex' = chunkIndex + 1
          /\ phase' \in {"fetch", "complete"} /\ LoopInv' /\ attempt' = 0 /\ events' = {}
      BY <1>1, <2>1, HeadStep
    <2>3. TypeOK' BY <1>1, <1>2, <2>2, IngestFacts DEF IngestInv, TypeOK, options
    <2>4. ASSUME NEW i \in 0 .. MaxLedger, i < chunkIndex', i \notin failed'
          PROVE  fetchedAt[i] # 0 /\ handed[i] = chunkStart(i) .. fetchedAt[i]
      <3>1. i # chunkIndex /\ i \notin failed BY <1>1, <2>4
      <3>2. i < chunkIndex BY <1>2, <2>2, <2>4, <3>1, IngestFacts
      <3> QED BY <2>4, <3>1, <3>2 DEF IngestInv, HandedInv
    <2>5. HandedInv' BY <1>1, <1>3, <2>2, <2>4 DEF HandedInv
    <2>6. FailureInv' BY <1>1, <1>4 DEF FailureInv, options
    <2> QED BY <2>2, <2>3, <2>5, <2>6 DEF IngestInv
  <1>5. CASE ~continueOnFailure
    <2>1. phase' = "threw" /\ UNCHANGED <<chunkIndex, attempt, events>>
      BY <1>5 DEF ChunkFails
    <2>2. TypeOK' BY <1>1, <1>2, <2>1 DEF IngestInv, TypeOK, options
    <2>3. LoopInv' BY <1>1, <2>1 DEF IngestInv, LoopInv, ValidRange, options
    <2>4. HandedInv' BY <1>1, <1>3, <2>1 DEF IngestInv, HandedInv
    <2>5. FailureInv' BY <2>1 DEF FailureInv
    <2> QED BY <2>2, <2>3, <2>4, <2>5 DEF IngestInv
  <1> QED BY <1>4, <1>5

\* Every step of a back-fill keeps the invariant.
LEMMA IngestStep == IngestInv /\ [Next]_vars => IngestInv'
  <1> SUFFICES ASSUME IngestInv, [Next]_vars PROVE IngestInv' OBVIOUS
  <1>1. CASE FetchOk BY <1>1, FetchedStep
  <1>2. CASE ChunkHanded BY <1>2, HandedStep
  <1>3. CASE ChunkFails BY <1>3, FailedStep
  <1>4. CASE CloseLedger \/ FetchRetry \/ Complete \/ UNCHANGED vars
    <2>1. UNCHANGED <<options, chunkIndex, events, fetchedAt, handed, failed, totalEvents>>
      BY <1>4 DEF CloseLedger, FetchRetry, Complete, vars
    <2>2. \/ phase' = phase
          \/ phase = "complete" /\ phase' \in {"done", "threw"}
      BY <1>4 DEF CloseLedger, FetchRetry, Complete, vars
    <2>3. tip' \in Ledgers
      <3>1. tip' = tip \/ (tip < MaxLedger /\ tip' = tip + 1)
        BY <1>4 DEF CloseLedger, FetchRetry, Complete, vars
      <3> QED BY <3>1, IngestFacts DEF Ledgers
    <2>4. attempt' \in 0 .. MaxRetries
      <3>1. attempt' = attempt \/ (attempt < MaxRetries /\ attempt' = attempt + 1)
        BY <1>4 DEF CloseLedger, FetchRetry, Complete, vars
      <3> QED BY <3>1, IngestFacts DEF IngestInv, TypeOK
    <2>5. TypeOK'
      <3>1. phase' \in {"rejected", "fetch", "chunk", "complete", "done", "threw"}
        BY <2>2 DEF IngestInv, TypeOK
      <3> QED BY <2>1, <2>3, <2>4, <3>1 DEF IngestInv, TypeOK, options
    <2>6. totalChunks' = totalChunks /\ (ValidRange' <=> ValidRange)
          /\ \A i : chunkStart(i)' = chunkStart(i)
      BY <2>1 DEF options, totalChunks, ValidRange, chunkStart
    <2>7. LoopInv' BY <2>1, <2>2, <2>6 DEF IngestInv, LoopInv
    <2>8. HandedInv' BY <2>1, <2>2, <2>6 DEF IngestInv, HandedInv
    <2>9. FailureInv' BY <2>1, <2>2 DEF IngestInv, FailureInv, options
    <2> QED BY <2>5, <2>7, <2>8, <2>9 DEF IngestInv
  <1> QED BY <1>1, <1>2, <1>3, <1>4 DEF Next, Ingest, Ended

\* At completion every chunk lies behind the loop.
LEMMA IngestImplied == IngestInv => BackfillSafety
  <1> SUFFICES ASSUME IngestInv PROVE BackfillSafety OBVIOUS
  <1>1. TypeOK BY DEF IngestInv
  <1>2. CompleteCoversRange
    <2> SUFFICES ASSUME phase = "done", NEW l \in startSequence .. endSequence
                 PROVE  \E i \in Chunks :
                           /\ l \in chunkStart(i) .. chunkEnd(i)
                           /\ i \notin failed =>
                                 fetchedAt[i] # 0 /\ (l <= fetchedAt[i] => l \in handed[i])
      BY DEF CompleteCoversRange
    <2>1. ValidRange /\ chunkIndex = totalChunks BY DEF IngestInv, LoopInv
    <2>2. PICK i \in Chunks : l \in chunkStart(i) .. chunkEnd(i)
      BY <2>1, ChunksCover, IngestFacts
    <2>3. totalChunks \in Nat /\ totalChunks <= MaxLedger BY <2>1, ChunkCount, IngestFacts
    <2>4. i \in 0 .. MaxLedger /\ i < chunkIndex BY <2>1, <2>3, IngestFacts DEF Chunks
    <2>5. i \notin failed => fetchedAt[i] # 0 /\ handed[i] = chunkStart(i) .. fetchedAt[i]
      BY <2>4 DEF IngestInv, HandedInv
    <2>6. fetchedAt[i] \in Nat BY <2>4, IngesterAssumption DEF IngestInv, TypeOK
    <2>7. l \in Nat /\ chunkStart(i) \in Nat /\ chunkStart(i) <= l
      <3>1. /\ startSequence \in Nat /\ chunkSize \in Nat /\ i \in Nat /\ l \in Nat
            /\ endSequence \in Nat
        BY <2>4, IngestFacts, IngesterAssumption DEF OptionsType, Ledgers
      <3>2. i * chunkSize \in Nat BY <3>1
      <3>3. chunkStart(i) \in Nat BY <3>1, <3>2 DEF chunkStart
      <3>4. chunkEnd(i) \in Int BY <3>1, <3>3 DEF chunkEnd
      <3> QED BY <2>2, <3>1, <3>3, <3>4
    <2>8. i \notin failed => fetchedAt[i] # 0 /\ (l <= fetchedAt[i] => l \in handed[i])
      BY <2>2, <2>5, <2>6, <2>7
    <2> QED BY <2>2, <2>8
  <1>3. FailureStops BY DEF IngestInv, FailureInv, FailureStops
  <1> QED BY <1>1, <1>2, <1>3 DEF BackfillSafety

-----------------------------------------------------------------------------
(* The theorem.                                                          *)

\* A back-fill that reports completion has handed over every event of its range that
\* was closed when its chunk was fetched, chunks reported as failed excepted, and a
\* failed chunk ends it unless it was told to go on: for any range, chunk size, retry
\* limit and pace of the chain.
THEOREM BackfillCorrect == Spec => []BackfillSafety
  <1> QED BY IngestInit, IngestStep, IngestImplied, PTL DEF Spec

-----------------------------------------------------------------------------
(* Reconciliation.                                                       *)

ConfigCall == [at : {"none", "update", "updated", "read", "schedule", "done"}, on : BOOLEAN]
RowRecord == [status : {"pending", "processing", "completed", "failed"},
              range : Ranges, by : {"cron", "manual"}]
JobRecord == [at : {"toAdd", "none", "waiting", "flag", "throw", "failed"},
              made : 0 .. maxAttempts, stalls : 0 .. 2]

\* While requests have not met, one at most is under way; the scheduler holds every task;
\* a request to start finds none; and a task outlives its permission only until the
\* request that took it back gets to stop it.
OneRequest == \A c, d \in Underway : c = d
StartsAfresh == \A c \in ConfigCalls : call[c].at \in {"read", "schedule"} => scheduledJob = NoTask
KnowsConfig ==
    \A c \in ConfigCalls : call[c].at \in {"updated", "read", "schedule"} => call[c].on = configEnabled
StopsSoon ==
    cronTasks # {} /\ ~configEnabled => \E c \in ConfigCalls : call[c].at = "updated" /\ ~call[c].on
SchedInv ==
    ~requestsMet => OneRequest /\ cronTasks \subseteq {scheduledJob} /\ StartsAfresh
                      /\ KnowsConfig /\ StopsSoon

\* A run that is about to fail has been logged.
ThrownIsFlagged == \A j \in Jobs : job[j].at = "throw" => ThisRun(j) \in audit \cup unlogged
NewHasNoRuns == \A j \in Jobs : job[j].at = "toAdd" => job[j].made = 0 /\ job[j].stalls = 0
RowsPending == \A i \in DOMAIN jobRow : jobRow[i].status = "pending"

JobInv ==
    /\ RunsAreFlagged /\ ThrownIsFlagged /\ AttemptsRunOut /\ NewHasNoRuns /\ RowsPending

RecInv == RecTypeOK /\ SchedInv /\ JobInv

LEMMA CallMoves ==
    ASSUME RecTypeOK, NEW c \in ConfigCalls, NEW at \in {"none", "update", "updated", "read", "schedule", "done"},
           NEW on \in BOOLEAN, CallBecomes(c, at, on)
    PROVE  /\ call' \in [ConfigCalls -> ConfigCall]
           /\ call'[c].at = at /\ call'[c].on = on
           /\ \A d \in ConfigCalls : d # c => call'[d] = call[d]
           /\ Underway' = IF at \in {"none", "done"} THEN Underway \ {c} ELSE Underway \cup {c}
<1> DEFINE r == [at |-> at, on |-> on]
<1>1. call \in [ConfigCalls -> ConfigCall] BY DEF RecTypeOK, ConfigCall
<1>2. r \in ConfigCall BY DEF ConfigCall
<1>3. call' = [call EXCEPT ![c] = r] BY DEF CallBecomes
<1>4. call' \in [ConfigCalls -> ConfigCall] /\ call'[c] = r
  BY <1>1, <1>2, <1>3
<1>5. \A d \in ConfigCalls : d # c => call'[d] = call[d] BY <1>1, <1>3
<1>6. r.at = at /\ r.on = on OBVIOUS
<1>7. Underway' = IF at \in {"none", "done"} THEN Underway \ {c} ELSE Underway \cup {c}
  BY <1>4, <1>5, <1>6 DEF Underway
<1> QED BY <1>4, <1>5, <1>6, <1>7

\* What the scheduler's steps leave alone.
LEMMA JobsAside ==
    ASSUME JobInv, UNCHANGED <<jobvars, logvars>>
    PROVE  JobInv'
BY DEF JobInv, RunsAreFlagged, ThrownIsFlagged, AttemptsRunOut, NewHasNoRuns, RowsPending,
       jobvars, logvars, Jobs, RunsEnded, ThisRun

LEMMA SchedulerAside ==
    ASSUME SchedInv, UNCHANGED schedvars
    PROVE  SchedInv'
BY DEF SchedInv, OneRequest, StartsAfresh, KnowsConfig, StopsSoon, Underway, schedvars

\* A type invariant of the scheduler's half, and of the other half.
SchedTypes ==
    /\ configEnabled \in BOOLEAN /\ requestsMet \in BOOLEAN
    /\ call \in [ConfigCalls -> ConfigCall]
    /\ scheduledJob \in ConfigCalls \cup {NoTask} /\ cronTasks \subseteq ConfigCalls
JobTypes ==
    /\ jobRow \in Seq(RowRecord) /\ job \in Seq(JobRecord)
    /\ Len(job) = Len(jobRow) /\ Len(job) <= MaxJobs
RestTypes == ticking \in 0 .. MaxTicks /\ errorCount \in 0 .. MaxErrors

LEMMA TypesSplit == RecTypeOK <=> SchedTypes /\ JobTypes /\ RestTypes
BY DEF RecTypeOK, SchedTypes, JobTypes, RestTypes, ConfigCall, RowRecord, JobRecord

LEMMA SchedTypesAside == ASSUME SchedTypes, UNCHANGED schedvars PROVE SchedTypes'
BY DEF SchedTypes, schedvars
LEMMA JobTypesAside == ASSUME JobTypes, UNCHANGED jobvars PROVE JobTypes'
BY DEF JobTypes, jobvars

LEMMA ErrorCounts ==
    ASSUME RestTypes, CallFails \/ UNCHANGED errorCount
    PROVE  errorCount' \in 0 .. MaxErrors
BY ReconciliationAssumption DEF RestTypes, CallFails

\* A step of a request: who is under way, and what it knows.
LEMMA PutStep ==
    ASSUME RecInv, NEW c \in ConfigCalls, NEW on \in BOOLEAN, PutConfig(c, on)
    PROVE  SchedTypes' /\ SchedInv'
<1>1. RecTypeOK /\ SchedInv /\ SchedTypes BY TypesSplit DEF RecInv
<1>2. call[c].at = "none" /\ CallBecomes(c, "update", on)
      /\ requestsMet' = (requestsMet \/ Underway # {})
      /\ UNCHANGED <<configEnabled, scheduledJob, cronTasks>>
  BY DEF PutConfig
<1>3. /\ call' \in [ConfigCalls -> ConfigCall] /\ call'[c].at = "update"
      /\ \A d \in ConfigCalls : d # c => call'[d] = call[d]
      /\ Underway' = Underway \cup {c}
  BY <1>1, <1>2, CallMoves
<1>4. SchedTypes' BY <1>1, <1>2, <1>3 DEF SchedTypes
<1>5. ASSUME ~requestsMet' PROVE SchedInv'
  <2>1. ~requestsMet /\ Underway = {} BY <1>1, <1>2, <1>5 DEF SchedTypes
  <2>2. OneRequest' BY <2>1, <1>3 DEF OneRequest
  <2>3. cronTasks' \subseteq {scheduledJob'} BY <1>1, <1>2, <2>1 DEF SchedInv
  <2>4. StartsAfresh' BY <1>1, <1>2, <1>3, <2>1 DEF SchedInv, StartsAfresh
  <2>5. KnowsConfig' BY <1>1, <1>2, <1>3, <2>1 DEF SchedInv, KnowsConfig
  <2>6. StopsSoon' BY <1>1, <1>2, <1>3, <2>1 DEF SchedInv, StopsSoon
  <2> QED BY <2>2, <2>3, <2>4, <2>5, <2>6 DEF SchedInv
<1>6. SchedInv' BY <1>5 DEF SchedInv
<1> QED BY <1>4, <1>6

LEMMA RequestStep ==
    ASSUME RecInv, NEW c \in ConfigCalls, updateReconciliationConfig(c)
    PROVE  SchedTypes' /\ SchedInv'
<1>1. RecTypeOK /\ SchedInv /\ SchedTypes BY TypesSplit DEF RecInv
<1>2. call[c].on \in BOOLEAN BY <1>1 DEF SchedTypes, ConfigCall
<1>3. ASSUME NEW at \in {"updated", "read", "schedule", "done"}, NEW on \in BOOLEAN,
             CallBecomes(c, at, on), c \in Underway, UNCHANGED requestsMet,
             configEnabled' \in BOOLEAN, scheduledJob' \in ConfigCalls \cup {NoTask},
             cronTasks' \subseteq ConfigCalls,
             ~requestsMet /\ (\A d \in Underway : d = c) => cronTasks' \subseteq {scheduledJob'},
             at \in {"read", "schedule"} => scheduledJob' = NoTask,
             at # "done" => on = configEnabled',
             ~requestsMet /\ (\A d \in Underway : d = c) /\ cronTasks' # {} /\ ~configEnabled'
                => at = "updated" /\ ~on
      PROVE  SchedTypes' /\ SchedInv'
  <2>1. /\ call' \in [ConfigCalls -> ConfigCall] /\ call'[c].at = at /\ call'[c].on = on
        /\ \A d \in ConfigCalls : d # c => call'[d] = call[d]
        /\ Underway' = IF at \in {"none", "done"} THEN Underway \ {c} ELSE Underway \cup {c}
    BY <1>1, <1>3, CallMoves
  <2>2. SchedTypes' BY <1>1, <1>3, <2>1 DEF SchedTypes
  <2>3. ASSUME ~requestsMet' PROVE SchedInv'
    <3>1. \A d \in Underway : d = c BY <1>1, <1>3, <2>3 DEF SchedInv, OneRequest
    <3>2. \A d \in ConfigCalls : d # c => call'[d].at \in {"none", "done"}
      BY <2>1, <3>1 DEF Underway
    <3>3. OneRequest' BY <2>1, <3>1, <1>3 DEF OneRequest
    <3>4. cronTasks' \subseteq {scheduledJob'} BY <1>3, <2>3, <3>1
    <3>5. StartsAfresh' BY <1>3, <2>1, <3>2 DEF StartsAfresh
    <3>6. KnowsConfig' BY <1>3, <2>1, <3>2 DEF KnowsConfig
    <3>7. StopsSoon' BY <1>3, <2>1, <2>3, <3>1 DEF StopsSoon
    <3> QED BY <3>3, <3>4, <3>5, <3>6, <3>7 DEF SchedInv
  <2> QED BY <2>2, <2>3 DEF SchedInv
<1>4. ASSUME ~requestsMet, \A d \in Underway : d = c
      PROVE  /\ cronTasks \subseteq {scheduledJob} /\ StartsAfresh /\ KnowsConfig
             /\ cronTasks # {} /\ ~configEnabled => call[c].at = "updated" /\ ~call[c].on
  <2>1. cronTasks \subseteq {scheduledJob} /\ StartsAfresh /\ KnowsConfig /\ StopsSoon
    BY <1>1, <1>4 DEF SchedInv
  <2>2. ASSUME NEW d \in ConfigCalls, call[d].at = "updated" PROVE d = c BY <1>4, <2>2 DEF Underway
  <2> QED BY <2>1, <2>2 DEF StopsSoon
<1>5. CASE UpdateConfig(c)
  <2>1. call[c].at = "update" /\ c \in Underway BY <1>5 DEF UpdateConfig, Underway
  <2>2. UNCHANGED <<scheduledJob, cronTasks, requestsMet>> BY <1>5 DEF UpdateConfig
  <2>3. CASE configEnabled' = call[c].on /\ CallBecomes(c, "updated", call[c].on)
    BY <1>1, <1>2, <1>3, <1>4, <2>1, <2>2, <2>3 DEF SchedTypes
  <2>4. CASE UNCHANGED configEnabled /\ CallBecomes(c, "done", FALSE)
    BY <1>1, <1>2, <1>3, <1>4, <2>1, <2>2, <2>4 DEF SchedTypes
  <2> QED BY <1>5, <2>3, <2>4 DEF UpdateConfig
<1>6. CASE ConfigUpdated(c)
  <2>1. call[c].at = "updated" /\ c \in Underway BY <1>6 DEF ConfigUpdated, Underway
  <2>2. UNCHANGED <<configEnabled, requestsMet>> BY <1>6 DEF ConfigUpdated, stopReconciliationScheduler
  <2>3. ~requestsMet /\ (\A d \in Underway : d = c) => call[c].on = configEnabled
    BY <1>4, <2>1 DEF KnowsConfig
  <2>4. CASE call[c].on /\ scheduledJob = NoTask /\ CallBecomes(c, "read", TRUE)
             /\ UNCHANGED <<scheduledJob, cronTasks>>
    <3>1. SchedTypes' /\ SchedInv'
      <4>1. CASE requestsMet
        <5>1. /\ call' \in [ConfigCalls -> ConfigCall] BY <1>1, <2>4, CallMoves
        <5> QED BY <1>1, <2>2, <2>4, <4>1, <5>1 DEF SchedTypes, SchedInv
      <4>2. CASE ~requestsMet
        <5>1. \A d \in Underway : d = c BY <1>1, <2>1, <4>2 DEF SchedInv, OneRequest
        <5> QED BY <1>1, <1>2, <1>3, <1>4, <2>1, <2>2, <2>3, <2>4, <4>2, <5>1 DEF SchedTypes
      <4> QED BY <4>1, <4>2, <1>1 DEF SchedTypes
    <3> QED BY <3>1
  <2>5. CASE ~call[c].on /\ scheduledJob # NoTask /\ CallBecomes(c, "done", FALSE)
             /\ cronTasks' = cronTasks \ {scheduledJob} /\ scheduledJob' \in {NoTask, scheduledJob}
    <3>1. scheduledJob' \in ConfigCalls \cup {NoTask} /\ cronTasks' \subseteq ConfigCalls
      BY <1>1, <2>5 DEF SchedTypes
    <3>2. ~requestsMet /\ (\A d \in Underway : d = c) => cronTasks' = {} BY <1>4, <2>5
    <3>3. configEnabled' \in BOOLEAN BY <1>1, <2>2 DEF SchedTypes
    <3> QED BY <1>3, <2>1, <2>2, <2>5, <3>1, <3>2, <3>3
  <2>6. CASE (call[c].on <=> scheduledJob # NoTask) /\ CallBecomes(c, "done", FALSE)
             /\ UNCHANGED <<scheduledJob, cronTasks>>
    <3>1. ~requestsMet /\ (\A d \in Underway : d = c) => cronTasks \subseteq {scheduledJob} BY <1>4
    <3>2. ~requestsMet /\ (\A d \in Underway : d = c) => cronTasks = {} \/ configEnabled
      BY <1>1, <2>3, <2>6, <3>1, ReconciliationAssumption DEF SchedTypes
    <3> QED BY <1>1, <1>3, <2>1, <2>2, <2>6, <3>1, <3>2 DEF SchedTypes
  <2> QED BY <1>6, <2>4, <2>5, <2>6 DEF ConfigUpdated, stopReconciliationScheduler
<1>7. CASE ReadConfig(c)
  <2>1. call[c].at = "read" /\ c \in Underway BY <1>7 DEF ReadConfig, Underway
  <2>2. UNCHANGED <<configEnabled, scheduledJob, cronTasks, requestsMet>> BY <1>7 DEF ReadConfig
  <2>3. CASE requestsMet
    <3>1. CallBecomes(c, "schedule", configEnabled) \/ CallBecomes(c, "done", FALSE)
      BY <1>7 DEF ReadConfig
    <3>2. configEnabled \in BOOLEAN BY <1>1 DEF SchedTypes
    <3>3. call' \in [ConfigCalls -> ConfigCall] BY <1>1, <3>1, <3>2, CallMoves
    <3> QED BY <1>1, <2>2, <2>3, <3>3 DEF SchedTypes, SchedInv
  <2>4. CASE ~requestsMet
    <3>1. \A d \in Underway : d = c BY <1>1, <2>1, <2>4 DEF SchedInv, OneRequest
    <3>2. scheduledJob = NoTask /\ (cronTasks # {} => configEnabled)
      BY <1>4, <2>1, <2>4, <3>1 DEF StartsAfresh
    <3>3. CASE CallBecomes(c, "schedule", configEnabled)
      BY <1>1, <1>3, <1>4, <2>1, <2>2, <2>4, <3>1, <3>2, <3>3 DEF SchedTypes
    <3>4. CASE CallBecomes(c, "done", FALSE)
      BY <1>1, <1>3, <1>4, <2>1, <2>2, <2>4, <3>1, <3>2, <3>4 DEF SchedTypes
    <3> QED BY <1>7, <3>3, <3>4 DEF ReadConfig
  <2> QED BY <1>1, <2>3, <2>4 DEF SchedTypes
<1>8. CASE Schedule(c)
  <2>1. call[c].at = "schedule" /\ c \in Underway BY <1>8 DEF Schedule, Underway
  <2>2. UNCHANGED <<configEnabled, requestsMet>> /\ CallBecomes(c, "done", FALSE)
    BY <1>8 DEF Schedule
  <2>3. \/ call[c].on /\ cronTasks' = cronTasks \cup {c} /\ scheduledJob' = c
        \/ ~call[c].on /\ UNCHANGED <<cronTasks, scheduledJob>>
    BY <1>8 DEF Schedule
  <2>4. configEnabled' \in BOOLEAN /\ scheduledJob' \in ConfigCalls \cup {NoTask}
        /\ cronTasks' \subseteq ConfigCalls
    BY <1>1, <2>2, <2>3 DEF SchedTypes
  <2>5. ASSUME ~requestsMet, \A d \in Underway : d = c
        PROVE  cronTasks' \subseteq {scheduledJob'} /\ (cronTasks' # {} => configEnabled')
    <3>1. cronTasks = {} /\ call[c].on = configEnabled
      BY <1>1, <1>4, <2>1, <2>5, ReconciliationAssumption DEF StartsAfresh, KnowsConfig, SchedTypes
    <3> QED BY <2>2, <2>3, <3>1
  <2> QED BY <1>3, <2>1, <2>2, <2>4, <2>5
<1> QED BY <1>5, <1>6, <1>7, <1>8 DEF updateReconciliationConfig

\* A job takes another record.
LEMMA JobMoves ==
    ASSUME JobTypes, NEW j \in Jobs, NEW r \in JobRecord, job' = [job EXCEPT ![j] = r]
    PROVE  /\ job' \in Seq(JobRecord) /\ Len(job') = Len(job) /\ DOMAIN job' = DOMAIN job
           /\ job'[j] = r /\ \A i \in Jobs : i # j => job'[i] = job[i]
<1>1. job \in Seq(JobRecord) BY DEF JobTypes
<1>2. j \in 1 .. Len(job) BY <1>1 DEF Jobs
<1> QED BY <1>1, <1>2, ExceptSeq DEF Jobs

LEMMA JobIs ==
    ASSUME JobTypes, NEW j \in Jobs
    PROVE  /\ job[j] \in JobRecord
           /\ job[j] = [at |-> job[j].at, made |-> job[j].made, stalls |-> job[j].stalls]
           /\ job[j].made \in Nat /\ job[j].stalls \in Nat /\ RunsEnded(j) \in Nat
<1>1. job[j] \in JobRecord BY DEF JobTypes, Jobs
<1>2. maxAttempts \in Nat BY ReconciliationAssumption
<1> QED BY <1>1, <1>2 DEF JobRecord, RunsEnded

\* A step of one job that leaves its runs as they are.
LEMMA JobStaysSound ==
    ASSUME JobTypes, JobInv, NEW j \in Jobs, NEW at \in {"none", "waiting", "flag", "throw"},
           JobGoto(j, at), UNCHANGED <<jobRow, cut>>,
           audit \subseteq audit', audit' \subseteq audit \cup {ThisRun(j)}, unlogged \subseteq unlogged',
           at = "throw" => ThisRun(j) \in audit' \cup unlogged',
           at # "none" => job[j].made < maxAttempts /\ job[j].stalls < 2
    PROVE  JobTypes' /\ JobInv'
<1> DEFINE r == [at |-> at, made |-> job[j].made, stalls |-> job[j].stalls]
<1>1. job[j] \in JobRecord /\ RunsEnded(j) \in Nat BY JobIs
<1>2. r \in JobRecord BY <1>1 DEF JobRecord
<1>3. job' = [job EXCEPT ![j] = r]
  <2>3. job[j] = [at |-> job[j].at, made |-> job[j].made, stalls |-> job[j].stalls] BY JobIs
  <2>1. [job[j] EXCEPT !.at = at] = r BY ONLY <2>3
  <2>2. job' = [job EXCEPT ![j] = [job[j] EXCEPT !.at = at]] BY DEF JobGoto
  <2> QED BY <2>1, <2>2
<1>4. /\ job' \in Seq(JobRecord) /\ Len(job') = Len(job) /\ DOMAIN job' = DOMAIN job
      /\ job'[j] = r /\ \A i \in Jobs : i # j => job'[i] = job[i]
  BY <1>2, <1>3, JobMoves
<1>5. Jobs' = Jobs /\ \A i \in Jobs : /\ job'[i].made = job[i].made /\ job'[i].stalls = job[i].stalls
                                      /\ i # j => job'[i].at = job[i].at
  BY <1>4 DEF Jobs
<1>6. \A i \in Jobs : RunsEnded(i)' = RunsEnded(i) /\ ThisRun(i)' = ThisRun(i)
  BY <1>5 DEF RunsEnded, ThisRun
<1>7. JobTypes' BY <1>4 DEF JobTypes
<1>8. RunsAreFlagged'
  <2>1. \A i \in Jobs : \A n \in 1 .. RunsEnded(i) : <<i, n>> \in audit \cup unlogged \cup cut
    BY DEF JobInv, RunsAreFlagged
  <2>2. ThisRun(j)[1] \in Jobs /\ ThisRun(j)[2] \in 1 .. RunsEnded(ThisRun(j)[1]) + 1
    BY <1>1 DEF ThisRun
  <2>3. \A x \in audit' : x[1] \in Jobs /\ x[2] \in 1 .. RunsEnded(x[1]) + 1
    BY <2>2 DEF JobInv, RunsAreFlagged
  <2> QED BY <1>5, <1>6, <2>1, <2>3 DEF RunsAreFlagged
<1>9. ThrownIsFlagged' BY <1>4, <1>5, <1>6 DEF JobInv, ThrownIsFlagged
<1>10. AttemptsRunOut' BY <1>4, <1>5 DEF JobInv, AttemptsRunOut
<1>11. NewHasNoRuns' BY <1>4, <1>5 DEF JobInv, NewHasNoRuns
<1>12. RowsPending' BY DEF JobInv, RowsPending
<1> QED BY <1>7, <1>8, <1>9, <1>10, <1>11, <1>12 DEF JobInv

LEMMA JobFailsStep ==
    ASSUME JobTypes, JobInv, NEW j \in Jobs, JobFails(j)
    PROVE  JobTypes' /\ JobInv'
<1> DEFINE at == IF job[j].made + 1 < maxAttempts THEN "waiting" ELSE "failed"
<1> DEFINE r == [at |-> at, made |-> job[j].made + 1, stalls |-> job[j].stalls]
<1>1. job[j] \in JobRecord /\ job[j].made \in Nat /\ job[j].stalls \in Nat /\ RunsEnded(j) \in Nat
  BY JobIs
<1>2. /\ job[j].at = "throw" /\ job[j].made < maxAttempts /\ job[j].stalls < 2
      /\ ThisRun(j) \in audit \cup unlogged
  BY DEF JobFails, JobInv, AttemptsRunOut, ThrownIsFlagged
<1>3. maxAttempts \in Nat BY ReconciliationAssumption
<1>4. r \in JobRecord BY <1>1, <1>2, <1>3 DEF JobRecord
<1>5. job' = [job EXCEPT ![j] = r] BY DEF JobFails
<1>6. /\ job' \in Seq(JobRecord) /\ Len(job') = Len(job) /\ DOMAIN job' = DOMAIN job
      /\ job'[j] = r /\ \A i \in Jobs : i # j => job'[i] = job[i]
  BY <1>4, <1>5, JobMoves
<1>7. UNCHANGED <<jobRow, audit, unlogged, cut>> BY DEF JobFails, logvars
<1>8. Jobs' = Jobs /\ RunsEnded(j)' = RunsEnded(j) + 1
      /\ \A i \in Jobs : i # j => RunsEnded(i)' = RunsEnded(i) /\ ThisRun(i)' = ThisRun(i)
  BY <1>1, <1>6 DEF Jobs, RunsEnded, ThisRun
<1>9. JobTypes' BY <1>6, <1>7 DEF JobTypes
<1>10. RunsAreFlagged'
  <2>1. \A i \in Jobs : \A n \in 1 .. RunsEnded(i) : <<i, n>> \in audit \cup unlogged \cup cut
    BY DEF JobInv, RunsAreFlagged
  <2>2. \A n \in 1 .. RunsEnded(j) + 1 : <<j, n>> \in audit \cup unlogged \cup cut
    BY <1>1, <1>2, <2>1 DEF ThisRun
  <2>3. \A i \in Jobs : \A n \in 1 .. RunsEnded(i)' : <<i, n>> \in audit \cup unlogged \cup cut
    BY <1>8, <2>1, <2>2
  <2>4. \A x \in audit : x[1] \in Jobs /\ x[2] \in 1 .. RunsEnded(x[1]) + 1
    BY DEF JobInv, RunsAreFlagged
  <2>5. \A x \in audit : x[1] \in Jobs /\ x[2] \in 1 .. RunsEnded(x[1])' + 1
    BY <1>1, <1>8, <2>4
  <2> QED BY <1>7, <1>8, <2>3, <2>5 DEF RunsAreFlagged
<1>11. ThrownIsFlagged' BY <1>6, <1>7, <1>8 DEF JobInv, ThrownIsFlagged
<1>12. AttemptsRunOut' BY <1>1, <1>2, <1>3, <1>6, <1>8 DEF JobInv, AttemptsRunOut
<1>13. NewHasNoRuns' BY <1>6, <1>8 DEF JobInv, NewHasNoRuns
<1>14. RowsPending' BY <1>7 DEF JobInv, RowsPending
<1> QED BY <1>9, <1>10, <1>11, <1>12, <1>13, <1>14 DEF JobInv

LEMMA NewRowStep ==
    ASSUME JobTypes, JobInv, NEW range \in Ranges, NEW by \in {"cron", "manual"},
           CreateJobRow(range, by)
    PROVE  JobTypes' /\ JobInv'
<1> DEFINE row == [status |-> "pending", range |-> range, by |-> by]
           r == [at |-> "toAdd", made |-> 0, stalls |-> 0]
<1> PICK n : n = Len(job) + 1 OBVIOUS
<1>1. row \in RowRecord /\ r \in JobRecord BY ReconciliationAssumption DEF RowRecord, JobRecord
<1>2. /\ Len(job) < MaxJobs /\ jobRow' = Append(jobRow, row) /\ job' = Append(job, r)
      /\ UNCHANGED <<audit, unlogged, cut>>
  BY DEF CreateJobRow, logvars
<1>3. job \in Seq(JobRecord) /\ jobRow \in Seq(RowRecord) /\ Len(job) = Len(jobRow) BY DEF JobTypes
<1>4. MaxJobs \in Nat BY ReconciliationAssumption
<1>5. job' \in Seq(JobRecord) /\ jobRow' \in Seq(RowRecord) /\ Len(job') = n /\ Len(jobRow') = n
  BY <1>1, <1>2, <1>3
<1>6. JobTypes' BY <1>2, <1>3, <1>4, <1>5 DEF JobTypes
<1>7. Jobs = 1 .. Len(job) /\ Jobs' = Jobs \cup {n} /\ n \notin Jobs BY <1>3, <1>5 DEF Jobs
<1>8. job'[n] = r /\ \A i \in Jobs : job'[i] = job[i] BY <1>2, <1>3, <1>7
<1>9. RunsEnded(n)' = 0 /\ \A i \in Jobs : RunsEnded(i)' = RunsEnded(i) /\ ThisRun(i)' = ThisRun(i)
  <2>1. job'[n].made = 0 /\ job'[n].stalls = 0 BY <1>8
  <2>2. job'[n].made + job'[n].stalls = 0 BY <2>1
  <2>3. RunsEnded(n)' = 0 BY <2>2 DEF RunsEnded
  <2>4. \A i \in Jobs : RunsEnded(i)' = RunsEnded(i) BY <1>8 DEF RunsEnded
  <2> QED BY <2>3, <2>4 DEF ThisRun
<1>10. RunsAreFlagged'
  <2>3. /\ \A i \in Jobs : \A k \in 1 .. RunsEnded(i) : <<i, k>> \in audit \cup unlogged \cup cut
        /\ \A x \in audit : x[1] \in Jobs /\ x[2] \in 1 .. RunsEnded(x[1]) + 1
    BY DEF JobInv, RunsAreFlagged
  <2>4. 1 .. RunsEnded(n)' = {} BY <1>9
  <2>1. \A i \in Jobs' : \A k \in 1 .. RunsEnded(i)' : <<i, k>> \in audit \cup unlogged \cup cut
    <3>1. ASSUME NEW i \in Jobs', NEW k \in 1 .. RunsEnded(i)'
          PROVE  <<i, k>> \in audit \cup unlogged \cup cut
      <4>1. i # n BY <2>4, <3>1
      <4>2. i \in Jobs /\ k \in 1 .. RunsEnded(i) BY <1>7, <1>9, <3>1, <4>1
      <4> QED BY <2>3, <4>2
    <3> QED BY <3>1
  <2>2. \A x \in audit : x[1] \in Jobs' /\ x[2] \in 1 .. RunsEnded(x[1])' + 1
    BY <1>7, <1>9, <2>3
  <2> QED BY <1>2, <2>1, <2>2 DEF RunsAreFlagged
<1>11. ThrownIsFlagged' BY <1>2, <1>7, <1>8, <1>9 DEF JobInv, ThrownIsFlagged
<1>12. AttemptsRunOut' BY <1>7, <1>8 DEF JobInv, AttemptsRunOut
<1>13. NewHasNoRuns' BY <1>7, <1>8 DEF JobInv, NewHasNoRuns
<1>14. RowsPending'
  <2>1. \A i \in DOMAIN jobRow : jobRow'[i] = jobRow[i] BY <1>2, <1>3
  <2>2. DOMAIN jobRow' = DOMAIN jobRow \cup {n} /\ jobRow'[n] = row BY <1>2, <1>3, <1>5
  <2> QED BY <2>1, <2>2 DEF JobInv, RowsPending
<1> QED BY <1>6, <1>10, <1>11, <1>12, <1>13, <1>14 DEF JobInv

LEMMA ExitStep ==
    ASSUME SchedTypes, SchedInv, JobTypes, JobInv, Exit
    PROVE  SchedTypes' /\ SchedInv' /\ JobTypes' /\ JobInv'
<1>1. call \in [ConfigCalls -> ConfigCall] BY DEF SchedTypes
<1>2. /\ call' = [c \in ConfigCalls |-> IF c \in Underway THEN [at |-> "done", on |-> FALSE] ELSE call[c]]
      /\ scheduledJob' = NoTask /\ cronTasks' = {} /\ UNCHANGED <<configEnabled, requestsMet>>
  BY DEF Exit
<1>3. call' \in [ConfigCalls -> ConfigCall] /\ \A c \in ConfigCalls : call'[c].at \in {"none", "done"}
  BY <1>1, <1>2 DEF ConfigCall, Underway
<1>4. SchedTypes' BY <1>2, <1>3 DEF SchedTypes
<1>5. SchedInv'
  BY <1>2, <1>3 DEF SchedInv, OneRequest, StartsAfresh, KnowsConfig, StopsSoon, Underway
<1>6. /\ job' = [j \in Jobs |-> AfterExit(j)] /\ UNCHANGED <<jobRow, audit, unlogged>>
      /\ cut' = cut \cup {ThisRun(j) : j \in {i \in Jobs : Running(i)}}
  BY DEF Exit
<1>7. job \in Seq(JobRecord) /\ Len(job) = Len(jobRow) /\ Jobs = 1 .. Len(job) BY DEF JobTypes, Jobs
<1>8. ASSUME NEW j \in Jobs
      PROVE  /\ AfterExit(j) \in JobRecord
             /\ AfterExit(j).made = job[j].made
             /\ AfterExit(j).stalls = IF Running(j) THEN job[j].stalls + 1 ELSE job[j].stalls
             /\ AfterExit(j).at = IF Running(j) THEN IF job[j].stalls = 0 THEN "waiting" ELSE "failed"
                                  ELSE IF job[j].at = "toAdd" THEN "none" ELSE job[j].at
  <2>1. /\ job[j] \in JobRecord /\ job[j].made \in Nat /\ job[j].stalls \in Nat
        /\ job[j] = [at |-> job[j].at, made |-> job[j].made, stalls |-> job[j].stalls]
    BY JobIs
  <2>2. CASE Running(j)
    <3>1. job[j].stalls < 2 BY <2>2 DEF JobInv, AttemptsRunOut, Running
    <3>2. AfterExit(j) = [at |-> IF job[j].stalls = 0 THEN "waiting" ELSE "failed",
                          made |-> job[j].made, stalls |-> job[j].stalls + 1]
      BY <2>1, <2>2 DEF AfterExit
    <3> QED BY <2>1, <2>2, <3>1, <3>2 DEF JobRecord
  <2>3. CASE ~Running(j) /\ job[j].at = "toAdd"
    <3>1. AfterExit(j) = [at |-> "none", made |-> job[j].made, stalls |-> job[j].stalls]
      BY <2>1, <2>3 DEF AfterExit
    <3> QED BY <2>1, <2>3, <3>1 DEF JobRecord
  <2>4. CASE ~Running(j) /\ job[j].at # "toAdd"
    <3>1. AfterExit(j) = job[j] BY <2>4 DEF AfterExit
    <3> QED BY <2>1, <2>4, <3>1
  <2> QED BY <2>2, <2>3, <2>4
<1>9. job' \in Seq(JobRecord) /\ Len(job') = Len(job) /\ Jobs' = Jobs
  <2>1. job' \in [1 .. Len(job) -> JobRecord] BY <1>6, <1>7, <1>8
  <2>2. Len(job) \in Nat BY <1>7
  <2> QED BY <1>7, <2>1, <2>2 DEF Jobs
<1>10. \A j \in Jobs : job'[j] = AfterExit(j) BY <1>6
<1>11. JobTypes' BY <1>6, <1>9 DEF JobTypes
<1>12. \A j \in Jobs : RunsEnded(j) \in Nat /\ RunsEnded(j)' = IF Running(j) THEN RunsEnded(j) + 1 ELSE RunsEnded(j)
  <2> SUFFICES ASSUME NEW j \in Jobs
               PROVE  RunsEnded(j) \in Nat
                      /\ RunsEnded(j)' = IF Running(j) THEN RunsEnded(j) + 1 ELSE RunsEnded(j)
    OBVIOUS
  <2>1. job[j].made \in Nat /\ job[j].stalls \in Nat /\ RunsEnded(j) \in Nat BY JobIs
  <2>2. RunsEnded(j)' = job[j].made + IF Running(j) THEN job[j].stalls + 1 ELSE job[j].stalls
    BY <1>8, <1>10 DEF RunsEnded
  <2> QED BY <2>1, <2>2 DEF RunsEnded
<1>13. RunsAreFlagged'
  <2>1. ASSUME NEW j \in Jobs, NEW n \in 1 .. RunsEnded(j)'
        PROVE  <<j, n>> \in audit \cup unlogged \cup cut'
    <3>1. CASE n \in 1 .. RunsEnded(j) BY <1>6, <3>1 DEF JobInv, RunsAreFlagged
    <3>2. CASE n \notin 1 .. RunsEnded(j)
      <4>1. Running(j) /\ n = RunsEnded(j) + 1 BY <1>12, <2>1, <3>2
      <4>2. <<j, n>> = ThisRun(j) BY <4>1 DEF ThisRun
      <4> QED BY <1>6, <4>1, <4>2
    <3> QED BY <3>1, <3>2
  <2>2. \A x \in audit : x[1] \in Jobs /\ x[2] \in 1 .. RunsEnded(x[1]) + 1
    BY DEF JobInv, RunsAreFlagged
  <2>3. \A x \in audit : x[1] \in Jobs /\ x[2] \in 1 .. RunsEnded(x[1])' + 1 BY <1>12, <2>2
  <2> QED BY <1>6, <1>9, <2>1, <2>3 DEF RunsAreFlagged
<1>14. ThrownIsFlagged' BY <1>8, <1>9, <1>10 DEF ThrownIsFlagged, Running
<1>15. AttemptsRunOut'
  <2>1. ASSUME NEW j \in Jobs
        PROVE  /\ job'[j].at = "failed" => job'[j].made = maxAttempts \/ job'[j].stalls = 2
               /\ job'[j].at \in {"waiting", "flag", "throw"}
                    => job'[j].made < maxAttempts /\ job'[j].stalls < 2
    <3>1. job[j].made \in Nat /\ job[j].stalls \in Nat BY JobIs
    <3>2. /\ job[j].at = "failed" => job[j].made = maxAttempts \/ job[j].stalls = 2
          /\ job[j].at \in {"waiting", "flag", "throw"} => job[j].made < maxAttempts /\ job[j].stalls < 2
      BY DEF JobInv, AttemptsRunOut
    <3>3. CASE Running(j) BY <1>8, <1>10, <3>1, <3>2, <3>3 DEF Running
    <3>4. CASE ~Running(j) BY <1>8, <1>10, <3>2, <3>4
    <3> QED BY <3>3, <3>4
  <2> QED BY <1>9, <2>1 DEF AttemptsRunOut
<1>16. NewHasNoRuns' BY <1>8, <1>9, <1>10 DEF JobInv, NewHasNoRuns
<1>17. RowsPending' BY <1>6 DEF JobInv, RowsPending
<1> QED BY <1>4, <1>5, <1>11, <1>13, <1>14, <1>15, <1>16, <1>17 DEF JobInv

LEMMA RecInitially == RecInit => RecInv
<1> SUFFICES ASSUME RecInit PROVE RecInv OBVIOUS
<1>1. call \in [ConfigCalls -> ConfigCall] BY DEF RecInit, ConfigCall
<1>2. SchedTypes BY <1>1 DEF RecInit, SchedTypes
<1>3. SchedInv BY DEF RecInit, SchedInv, OneRequest, StartsAfresh, KnowsConfig, StopsSoon, Underway
<1>4. job = <<>> /\ jobRow = <<>> /\ audit = {} /\ Jobs = {} /\ DOMAIN jobRow = {} BY DEF RecInit, Jobs
<1>5. JobTypes /\ RestTypes BY <1>4, ReconciliationAssumption DEF RecInit, JobTypes, RestTypes
<1>6. JobInv
  BY <1>4 DEF JobInv, RunsAreFlagged, ThrownIsFlagged, AttemptsRunOut, NewHasNoRuns, RowsPending
<1> QED BY <1>2, <1>3, <1>5, <1>6, TypesSplit DEF RecInv

LEMMA RecSteps == RecInv /\ [RecNext]_recvars => RecInv'
<1> SUFFICES ASSUME RecInv, [RecNext]_recvars PROVE RecInv' OBVIOUS
<1>1. SchedTypes /\ JobTypes /\ RestTypes /\ SchedInv /\ JobInv BY TypesSplit DEF RecInv
<1>2. MaxTicks \in Nat /\ MaxErrors \in Nat BY ReconciliationAssumption
<1>3. ASSUME SchedTypes', SchedInv', JobTypes', JobInv', RestTypes' PROVE RecInv'
  <2>1. RecTypeOK' BY <1>3 DEF RecTypeOK, SchedTypes, JobTypes, RestTypes, ConfigCall, RowRecord, JobRecord
  <2> QED BY <1>3, <2>1 DEF RecInv
<1>4. ASSUME NEW c \in ConfigCalls,
             updateReconciliationConfig(c) \/ \E on \in BOOLEAN : PutConfig(c, on)
      PROVE  RecInv'
  <2>1. SchedTypes' /\ SchedInv' BY <1>4, PutStep, RequestStep
  <2>2. UNCHANGED <<ticking, jobvars, logvars>> /\ (CallFails \/ UNCHANGED errorCount)
    BY <1>4 DEF PutConfig, updateReconciliationConfig, UpdateConfig, ConfigUpdated,
            stopReconciliationScheduler, ReadConfig, Schedule
  <2>3. JobTypes' /\ JobInv' BY <1>1, <2>2, JobsAside, JobTypesAside
  <2>4. RestTypes' BY <1>1, <2>2, ErrorCounts DEF RestTypes
  <2> QED BY <1>3, <2>1, <2>3, <2>4
<1>5. ASSUME CronTick \/ CronTickEnds PROVE RecInv'
  <2>1. UNCHANGED <<schedvars, jobvars, logvars, errorCount>> BY <1>5 DEF CronTick, CronTickEnds
  <2>2. RestTypes' BY <1>1, <1>2, <1>5, <2>1 DEF RestTypes, CronTick, CronTickEnds
  <2> QED BY <1>1, <1>3, <2>1, <2>2, SchedTypesAside, SchedulerAside, JobTypesAside, JobsAside
<1>6. ASSUME NEW range \in Ranges, CronTask(range) \/ triggerReconciliation(range) PROVE RecInv'
  <2>1. CreateJobRow(range, "cron") \/ CreateJobRow(range, "manual")
    BY <1>6 DEF CronTask, triggerReconciliation
  <2>2. UNCHANGED <<schedvars, errorCount>> BY <2>1 DEF CreateJobRow
  <2>3. ticking' \in 0 .. MaxTicks BY <1>1, <1>2, <1>6 DEF RestTypes, CronTask, triggerReconciliation
  <2>4. RestTypes' BY <1>1, <2>2, <2>3 DEF RestTypes
  <2>5. JobTypes' /\ JobInv' BY <1>1, <2>1, NewRowStep
  <2> QED BY <1>1, <1>3, <2>2, <2>4, <2>5, SchedTypesAside, SchedulerAside
<1>7. ASSUME NEW j \in Jobs, AddJob(j) \/ runReconciliation(j) PROVE RecInv'
  <2>1. UNCHANGED <<schedvars, ticking>> /\ (CallFails \/ UNCHANGED errorCount)
    BY <1>7 DEF AddJob, runReconciliation, Start, Flag, recordAuditLog, JobFails
  <2>2. RestTypes' BY <1>1, <2>1, ErrorCounts DEF RestTypes
  <2>3. ASSUME AddJob(j) PROVE JobTypes' /\ JobInv'
    <3>1. job[j].made = 0 /\ job[j].stalls = 0 BY <1>1, <2>3 DEF AddJob, JobInv, NewHasNoRuns
    <3>2. job[j].made < maxAttempts /\ job[j].stalls < 2 BY <3>1, ReconciliationAssumption
    <3>3. UNCHANGED <<jobRow, audit, unlogged, cut>> BY <2>3 DEF AddJob, logvars
    <3>4. JobGoto(j, "waiting") \/ JobGoto(j, "none") BY <2>3 DEF AddJob
    <3>5. CASE JobGoto(j, "waiting")
      <4> DEFINE at == "waiting"
      <4>1. at \in {"none", "waiting", "flag", "throw"} /\ at # "throw" /\ JobGoto(j, at) BY <3>5
      <4> HIDE DEF at
      <4> QED BY <1>1, <1>7, <3>2, <3>3, <4>1, JobStaysSound
    <3>6. CASE JobGoto(j, "none")
      <4> DEFINE at == "none"
      <4>1. at \in {"none", "waiting", "flag", "throw"} /\ at # "throw" /\ JobGoto(j, at) BY <3>6
      <4> HIDE DEF at
      <4> QED BY <1>1, <1>7, <3>2, <3>3, <4>1, JobStaysSound
    <3> QED BY <3>4, <3>5, <3>6
  <2>4. ASSUME Start(j) PROVE JobTypes' /\ JobInv'
    <3>1. job[j].made < maxAttempts /\ job[j].stalls < 2 BY <1>1, <2>4 DEF Start, JobInv, AttemptsRunOut
    <3>2. UNCHANGED <<jobRow, audit, unlogged, cut>> /\ JobGoto(j, "flag") BY <2>4 DEF Start, logvars
    <3> DEFINE at == "flag"
    <3>3. at \in {"none", "waiting", "flag", "throw"} /\ at # "throw" /\ JobGoto(j, at) BY <3>2
    <3> HIDE DEF at
    <3> QED BY <1>1, <1>7, <3>1, <3>2, <3>3, JobStaysSound
  <2>5. ASSUME Flag(j) PROVE JobTypes' /\ JobInv'
    <3>1. job[j].made < maxAttempts /\ job[j].stalls < 2 BY <1>1, <2>5 DEF Flag, JobInv, AttemptsRunOut
    <3>2. UNCHANGED <<jobRow, cut>> /\ JobGoto(j, "throw") BY <2>5 DEF Flag, recordAuditLog
    <3>3. /\ audit \subseteq audit' /\ audit' \subseteq audit \cup {ThisRun(j)}
          /\ unlogged \subseteq unlogged' /\ ThisRun(j) \in audit' \cup unlogged'
      BY <2>5 DEF Flag, recordAuditLog
    <3> DEFINE at == "throw"
    <3>4. at \in {"none", "waiting", "flag", "throw"} /\ JobGoto(j, at) BY <3>2
    <3> HIDE DEF at
    <3> QED BY <1>1, <1>7, <3>1, <3>2, <3>3, <3>4, JobStaysSound
  <2>6. ASSUME JobFails(j) PROVE JobTypes' /\ JobInv' BY <1>1, <1>7, <2>6, JobFailsStep
  <2>7. JobTypes' /\ JobInv' BY <1>7, <2>3, <2>4, <2>5, <2>6 DEF runReconciliation
  <2> QED BY <1>1, <1>3, <2>1, <2>2, <2>7, SchedTypesAside, SchedulerAside
<1>8. ASSUME NEW h \in handlers, FailedHandler(h), ~Exit PROVE RecInv'
  <2>1. UNCHANGED <<schedvars, ticking, jobRow, job, logvars, errorCount>> BY <1>8 DEF FailedHandler
  <2>2. JobTypes' BY <1>1, <2>1 DEF JobTypes
  <2>3. JobInv'
    BY <1>1, <2>1 DEF JobInv, RunsAreFlagged, ThrownIsFlagged, AttemptsRunOut, NewHasNoRuns,
       RowsPending, logvars, Jobs, RunsEnded, ThisRun
  <2>4. RestTypes' BY <1>1, <2>1 DEF RestTypes
  <2> QED BY <1>1, <1>3, <2>1, <2>2, <2>3, <2>4, SchedTypesAside, SchedulerAside
<1>9. ASSUME Exit, CallFails \/ UNCHANGED errorCount PROVE RecInv'
  <2>1. ticking' = 0 BY <1>9 DEF Exit
  <2>2. RestTypes' BY <1>1, <1>2, <1>9, <2>1, ErrorCounts DEF RestTypes
  <2> QED BY <1>1, <1>3, <1>9, <2>2, ExitStep
<1>10. CASE UNCHANGED recvars
  <2>1. UNCHANGED <<schedvars, ticking, jobvars, logvars, errorCount>> BY <1>10 DEF recvars
  <2>2. RestTypes' BY <1>1, <2>1 DEF RestTypes
  <2> QED BY <1>1, <1>3, <2>1, <2>2, SchedTypesAside, SchedulerAside, JobTypesAside, JobsAside
<1>11. CASE RecNext
  <2>1. CASE \E h \in handlers : FailedHandler(h) BY <1>8, <1>9, <2>1 DEF FailedHandler
  <2>2. CASE ProcessExit BY <1>9, <2>2 DEF ProcessExit
  <2> QED BY <1>4, <1>5, <1>6, <1>7, <1>11, <2>1, <2>2 DEF RecNext
<1> QED BY <1>10, <1>11

LEMMA RecImplies == RecInv => ReconciliationSafety
<1> SUFFICES ASSUME RecInv PROVE ReconciliationSafety OBVIOUS
<1>1. RecTypeOK /\ RunsAreFlagged /\ AttemptsRunOut /\ RowsPending BY DEF RecInv, JobInv
<1>2. TasksFollowConfig
  <2>1. ASSUME ~requestsMet PROVE cronTasks \subseteq {scheduledJob} /\ StopsSoon
    BY <2>1 DEF RecInv, SchedInv
  <2>2. ASSUME Underway = {} PROVE \A c \in ConfigCalls : call[c].at # "updated"
    BY <2>2 DEF Underway
  <2> QED BY <2>1, <2>2 DEF TasksFollowConfig, StopsSoon
<1>3. StatusShowsNothing
  <2>1. status("processing") = {} /\ status("completed") = {} /\ status("failed") = {}
    BY <1>1 DEF RowsPending, status
  <2>2. Cardinality({}) = 0 BY FS_EmptySet
  <2> QED BY <2>1, <2>2 DEF StatusShowsNothing, statusAnswer
<1> QED BY <1>1, <1>2, <1>3 DEF ReconciliationSafety

\* For any ranges, requests, failed calls and ends of the process: requests that do not
\* overlap keep the cron task in step with the configuration, every run that ended is on
\* record or known to be cut short, and no job uses more than its attempts and one stall.
THEOREM ReconciliationCorrect == RecSpec => []ReconciliationSafety
<1>1. RecInit => RecInv BY RecInitially
<1>2. RecInv /\ [RecNext]_recvars => RecInv' BY RecSteps
<1>3. RecInv => ReconciliationSafety BY RecImplies
<1> QED BY <1>1, <1>2, <1>3, PTL DEF RecSpec

-----------------------------------------------------------------------------
(* The bridge.                                                           *)

\* An event row, a match record, and the fields of a task.
EventRecord == [event : BridgeEvents, matchId : Nat]
MatchRecord == [status : {"matched", "unmatched"}, of : SUBSET Nat]
IsTask(t) == t = [chain |-> t.chain, todo |-> t.todo, to |-> t.to, at |-> t.at, row |-> t.row,
                  partner |-> t.partner, awaited |-> t.awaited, id |-> t.id]

\* A task has logs of its chain to store up to its last block, and the row it works for
\* is there.
TaskOK(t, n) ==
    /\ IsTask(t)
    /\ t.chain \in EvmChains \cup {Stellar} /\ t.to \in Nat
    /\ t.chain \in EvmChains => t.to <= lastBlock[t.chain]
    /\ t.todo \subseteq BridgeEvents
    /\ \A e \in t.todo : e.chain = t.chain /\ (t.chain \in EvmChains => e.block <= t.to)
    /\ t.at \in {"lookup", "create", "find", "match", "cursor"}
    /\ t.at \in {"lookup", "create"} => t.todo # {}
    /\ t.at = "lookup" => t.chain = Stellar
    /\ t.at = "cursor" => t.todo = {} /\ t.chain \in EvmChains
    /\ t.chain = Stellar => \A e \in t.todo : e.type = "burn"
    /\ t.row \in 0 .. n /\ t.partner \in 0 .. n /\ t.awaited \in BOOLEAN
    /\ t.at \in {"find", "match"} => t.row # 0
    /\ t.at = "match" => t.partner # 0

BridgeTypes ==
    /\ eventRows \in Seq(EventRecord) /\ matchRows \in Seq(MatchRecord)
    /\ \A t \in tasks : TaskOK(t, Len(eventRows))
    /\ blockCursor \in [EvmChains -> Nat] /\ latestBlock \in [EvmChains -> Nat]
    /\ \A c \in EvmChains : blockCursor[c] <= lastBlock[c] + 1 /\ latestBlock[c] <= lastBlock[c]
    /\ loop \in {"sleep", "poll", "expire", "mark"} /\ (loop = "mark" <=> expiring # {})
    /\ expiring \subseteq DOMAIN eventRows
    /\ calls \in 0 .. MaxCalls /\ callsMet \in BOOLEAN /\ bridgeFaults \in 0 .. MaxBridgeFaults

\* Records and rows point to each other.
Links ==
    /\ \A i \in DOMAIN eventRows : eventRows[i].matchId \in 0 .. Len(matchRows)
    /\ \A m \in DOMAIN matchRows : matchRows[m].of \subseteq DOMAIN eventRows
    /\ LinkNamesRow

\* The later row of a pair is still being handled.
Pairs ==
    bridgeFaults = 0 =>
        \A i, k \in DOMAIN eventRows :
            i < k /\ Matchable(i, k) /\ Unlinked(i) /\ Unlinked(k)
                => \E t \in tasks : t.row = k /\ t.at \in {"find", "match"}

\* While nothing overlaps, one event is handled at a time and its rows have no match yet,
\* none while burns are marked, and each row of a record points to it.
Single ==
    ~overlapped /\ bridgeFaults = 0 =>
        /\ \A t, u \in Working : t = u
        /\ \A t \in Working : Unlinked(t.row) /\ (t.at = "match" => Unlinked(t.partner))
        /\ loop = "mark" => Working = {}
        /\ \A i \in expiring : Unlinked(i)
        /\ \A m \in DOMAIN matchRows : \A i \in matchRows[m].of : eventRows[i].matchId = m

\* A poll that has not stored a log yet has all those of its range before it, and so has a
\* cursor.
Passed ==
    \A e \in BridgeEvents : e.chain \in EvmChains /\ FromStart(e.chain) =>
        /\ blockCursor[e.chain] <= e.block
        /\ \A t \in tasks :
             t.chain = e.chain /\ t.at \in {"create", "cursor"} /\ e.block <= t.to => e \in t.todo

\* The rows of Stellar are burns.  While calls have not met there is one at most, which is
\* to store a burn that has no row yet.
BurnRows == \A i \in DOMAIN eventRows : eventRows[i].event.chain = Stellar => eventRows[i].event.type = "burn"
NewBurns(t) ==
    \A e \in t.todo : \A i \in DOMAIN eventRows :
        eventRows[i].event.chain = Stellar => eventRows[i].event.tx # e.tx
OneCall == \A t, u \in tasks : t.chain = Stellar /\ u.chain = Stellar => t = u
Burns ==
    /\ BurnRows
    /\ ~callsMet => /\ OneCall
                    /\ \A t \in tasks : t.chain = Stellar /\ t.at = "create" => NewBurns(t)
    /\ BurnStoredOnce

\* The loop waits for a poll only in its poll state.
Awaited == \A t \in tasks : t.chain \in EvmChains /\ t.awaited => loop = "poll"

\* The inductive invariant of the bridge.
BridgeInv == BridgeTypes /\ Links /\ Awaited /\ Pairs /\ Single /\ Passed /\ FirstLogOnly /\ Burns

\* The invariant says what the property does.
LEMMA BridgeAccounts == BridgeInv => BridgeSafety
<1> SUFFICES ASSUME BridgeInv PROVE BridgeSafety OBVIOUS
<1>1. BridgeTypes /\ Links /\ Pairs /\ Single /\ Passed /\ FirstLogOnly /\ Burns BY DEF BridgeInv
<1>2. BridgeTypeOK
  <2>1. ASSUME NEW i \in DOMAIN eventRows
        PROVE  eventRows[i].event \in BridgeEvents /\ eventRows[i].matchId \in 0 .. Len(matchRows)
    <3>1. eventRows[i] \in EventRecord BY <1>1 DEF BridgeTypes
    <3> QED BY <3>1, <1>1 DEF EventRecord, Links
  <2>2. ASSUME NEW m \in DOMAIN matchRows
        PROVE  matchRows[m].status \in {"matched", "unmatched"} /\ matchRows[m].of \subseteq DOMAIN eventRows
    <3>1. matchRows[m] \in MatchRecord BY <1>1 DEF BridgeTypes
    <3> QED BY <3>1, <1>1 DEF MatchRecord, Links
  <2>3. ASSUME NEW t \in tasks
        PROVE  /\ t.row \in 0 .. Len(eventRows) /\ t.partner \in 0 .. Len(eventRows)
               /\ t.at \in {"lookup", "create"} => t.todo # {}
               /\ t.at \in {"find", "match"} => t.row # 0
    BY <1>1 DEF BridgeTypes, TaskOK
  <2>4. ASSUME NEW c \in EvmChains PROVE blockCursor[c] \in 0 .. lastBlock[c] + 1
    BY <1>1, BridgeAssumption DEF BridgeTypes
  <2>5. /\ loop \in {"sleep", "poll", "expire", "mark"} /\ (loop = "mark" <=> expiring # {})
        /\ calls \in 0 .. MaxCalls /\ callsMet \in BOOLEAN /\ bridgeFaults \in 0 .. MaxBridgeFaults
    BY <1>1 DEF BridgeTypes
  <2> QED BY <2>1, <2>2, <2>3, <2>4, <2>5 DEF BridgeTypeOK
<1>3. NoPairMissed BY <1>1 DEF Pairs, NoPairMissed
<1>4. OneMatchEach
  <2>1. SUFFICES ASSUME ~overlapped, bridgeFaults = 0, NEW m \in DOMAIN matchRows, NEW n \in DOMAIN matchRows, m # n,
                        NEW i \in matchRows[m].of, i \in matchRows[n].of
                 PROVE  FALSE
    BY DEF OneMatchEach
  <2> QED BY <1>1, <2>1 DEF Single
<1>5. LinkNamesRow BY <1>1 DEF Links
<1>6. NoLogPassed BY <1>1 DEF NoLogPassed, Passed
<1>7. BurnStoredOnce BY <1>1 DEF Burns
<1> QED BY <1>1, <1>2, <1>3, <1>4, <1>5, <1>6, <1>7 DEF BridgeSafety, MatchingSound, LogsStored

\* Before the first poll there are no rows and no tasks.
LEMMA BridgeInitial == BridgeInit => BridgeInv
<1> SUFFICES ASSUME BridgeInit PROVE BridgeInv OBVIOUS
<1>1. /\ eventRows = <<>> /\ matchRows = <<>> /\ tasks = {}
      /\ blockCursor = [c \in EvmChains |-> 0] /\ latestBlock = [c \in EvmChains |-> FirstBlock]
      /\ loop = "sleep" /\ expiring = {} /\ calls = 0 /\ callsMet = FALSE /\ bridgeFaults = 0
  BY DEF BridgeInit
<1>2. /\ eventRows \in Seq(EventRecord) /\ matchRows \in Seq(MatchRecord)
      /\ DOMAIN eventRows = {} /\ DOMAIN matchRows = {}
  BY <1>1, EmptySeq
<1>3. BridgeTypes
  <2>1. {FirstBlock, MaxCalls, MaxBridgeFaults} \subseteq Nat BY BridgeAssumption
  <2>2. ASSUME NEW c \in EvmChains PROVE lastBlock[c] \in Nat /\ FirstBlock <= lastBlock[c]
    BY BridgeAssumption
  <2>3. blockCursor \in [EvmChains -> Nat] /\ latestBlock \in [EvmChains -> Nat] BY <1>1, <2>1
  <2>4. ASSUME NEW c \in EvmChains
        PROVE  blockCursor[c] <= lastBlock[c] + 1 /\ latestBlock[c] <= lastBlock[c]
    BY <1>1, <2>2
  <2>5. callsMet \in BOOLEAN BY <1>1
  <2>6. calls \in 0 .. MaxCalls /\ bridgeFaults \in 0 .. MaxBridgeFaults BY <1>1, <2>1
  <2> QED BY <1>1, <1>2, <2>3, <2>4, <2>5, <2>6 DEF BridgeTypes
<1>4. Links /\ Pairs /\ Single BY <1>1, <1>2 DEF Links, LinkNamesRow, Pairs, Single, Working
<1>5. FirstLogOnly /\ Burns
  <2>1. FirstLogOnly BY <1>2 DEF FirstLogOnly
  <2>2. BurnStoredOnce BY <1>2 DEF BurnStoredOnce
  <2>3. BurnRows BY <1>2 DEF BurnRows
  <2>4. OneCall BY <1>1 DEF OneCall
  <2> QED BY <1>1, <2>1, <2>2, <2>3, <2>4 DEF Burns
<1>6. Passed
  <2>1. \A e \in BridgeEvents : e.block \in Nat BY BridgeAssumption
  <2> QED BY <1>1, <2>1 DEF Passed
<1>7. Awaited BY <1>1 DEF Awaited
<1> QED BY <1>3, <1>4, <1>5, <1>6, <1>7 DEF BridgeInv

-----------------------------------------------------------------------------

\* What was created stays, and a step that creates no row has the same rows.
SameRows ==
    /\ DOMAIN eventRows' = DOMAIN eventRows
    /\ \A i \in DOMAIN eventRows : eventRows'[i].event = eventRows[i].event

\* Rows that are unchanged are the same.
LEMMA SameUnchanged ==
    ASSUME UNCHANGED eventRows
    PROVE  SameRows
BY DEF SameRows

\* A match record more, for the rows in S, of which some are linked to it.
Recorded(S, linked, st) ==
    /\ matchRows' = Append(matchRows, [status |-> st, of |-> S])
    /\ eventRows' = [i \in DOMAIN eventRows |->
          IF i \in linked THEN [eventRows[i] EXCEPT !.matchId = Len(matchRows) + 1] ELSE eventRows[i]]

\* What a record more comes to.
RecordedFacts(S, linked) ==
    /\ eventRows' \in Seq(EventRecord) /\ Len(eventRows') = Len(eventRows)
    /\ matchRows' \in Seq(MatchRecord) /\ DOMAIN matchRows' = DOMAIN matchRows \cup {Len(matchRows) + 1}
    /\ Len(matchRows) \in Nat /\ Len(matchRows) + 1 \notin DOMAIN matchRows
    /\ \A m \in DOMAIN matchRows : matchRows'[m] = matchRows[m]
    /\ matchRows'[Len(matchRows) + 1].of = S
    /\ \A i \in DOMAIN eventRows :
         eventRows'[i].matchId = IF i \in linked THEN Len(matchRows) + 1 ELSE eventRows[i].matchId

\* A record more leaves the rows what they are, and the links in order.
LEMMA RecordedHas ==
    ASSUME BridgeInv, NEW S, NEW linked, NEW st \in {"matched", "unmatched"}, Recorded(S, linked, st),
           linked \subseteq S, S \subseteq DOMAIN eventRows
    PROVE  RecordedFacts(S, linked) /\ SameRows /\ Links'
<1>1. eventRows \in Seq(EventRecord) /\ matchRows \in Seq(MatchRecord) /\ Links
  BY DEF BridgeInv, BridgeTypes
<1>2. DOMAIN eventRows = 1 .. Len(eventRows) /\ Len(eventRows) \in Nat BY <1>1
<1>3. DOMAIN matchRows = 1 .. Len(matchRows) /\ Len(matchRows) \in Nat BY <1>1
<1> PICK n : n = Len(matchRows) + 1 OBVIOUS
<1> PICK r : r = [status |-> st, of |-> S] OBVIOUS
<1>4. r \in MatchRecord /\ r.of = S BY <1>2 DEF MatchRecord
<1>5. matchRows' = Append(matchRows, r) BY DEF Recorded
<1>6. /\ matchRows' \in Seq(MatchRecord) /\ Len(matchRows') = n /\ matchRows'[n] = r
      /\ \A m \in 1 .. Len(matchRows) : matchRows'[m] = matchRows[m]
      /\ n \in Nat \ {0} /\ DOMAIN matchRows' = 1 .. n
  BY <1>1, <1>3, <1>4, <1>5
<1>7. DOMAIN matchRows' = DOMAIN matchRows \cup {n} /\ n \notin DOMAIN matchRows BY <1>3, <1>6
<1>8. ASSUME NEW i \in DOMAIN eventRows
      PROVE  /\ eventRows'[i] \in EventRecord /\ eventRows'[i].event = eventRows[i].event
             /\ eventRows'[i].matchId = IF i \in linked THEN n ELSE eventRows[i].matchId
  <2>1. eventRows[i] \in EventRecord BY <1>1, <1>2
  <2>2. eventRows'[i] = IF i \in linked THEN [eventRows[i] EXCEPT !.matchId = n] ELSE eventRows[i]
    BY DEF Recorded
  <2>3. n \in Nat BY <1>6
  <2> QED BY <2>1, <2>2, <2>3 DEF EventRecord
<1>9. DOMAIN eventRows' = DOMAIN eventRows BY DEF Recorded
<1>10. eventRows' \in Seq(EventRecord) /\ Len(eventRows') = Len(eventRows)
  <2>1. DOMAIN eventRows' = 1 .. Len(eventRows) /\ eventRows' = [i \in DOMAIN eventRows |-> eventRows'[i]]
    BY <1>2 DEF Recorded
  <2>2. eventRows' \in [1 .. Len(eventRows) -> EventRecord] BY <1>2, <1>8, <2>1
  <2> QED BY <1>2, <2>2
<1>11. RecordedFacts(S, linked) BY <1>3, <1>4, <1>6, <1>7, <1>8, <1>10 DEF RecordedFacts
<1>12. SameRows BY <1>8, <1>9 DEF SameRows
<1>13. ASSUME NEW i \in DOMAIN eventRows' PROVE eventRows'[i].matchId \in 0 .. Len(matchRows')
  <2>1. eventRows[i].matchId \in 0 .. Len(matchRows) BY <1>1, <1>9 DEF Links
  <2> QED BY <2>1, <1>3, <1>6, <1>8, <1>9
<1>14. ASSUME NEW m \in DOMAIN matchRows' PROVE matchRows'[m].of \subseteq DOMAIN eventRows'
  BY <1>1, <1>4, <1>6, <1>7, <1>3, <1>9 DEF Links
<1>15. LinkNamesRow'
  <2>1. SUFFICES ASSUME NEW i \in DOMAIN eventRows, eventRows'[i].matchId # 0
                 PROVE  i \in matchRows'[eventRows'[i].matchId].of
    BY <1>9 DEF LinkNamesRow
  <2>2. CASE i \in linked BY <2>2, <1>4, <1>6, <1>8
  <2>3. CASE i \notin linked
    <3>1. eventRows'[i].matchId = eventRows[i].matchId BY <2>3, <1>8
    <3>2. eventRows[i].matchId \in 0 .. Len(matchRows) BY <1>1 DEF Links
    <3>3. eventRows[i].matchId \in 1 .. Len(matchRows) BY <2>1, <3>1, <3>2, <1>3
    <3>4. i \in matchRows[eventRows[i].matchId].of BY <1>1, <2>1, <3>1 DEF Links, LinkNamesRow
    <3> QED BY <3>1, <3>3, <3>4, <1>6
  <2> QED BY <2>2, <2>3
<1>16. Links' BY <1>13, <1>14, <1>15 DEF Links
<1> QED BY <1>11, <1>12, <1>16

\* The parts of the invariant a step leaves alone.
LEMMA LinksAside == ASSUME BridgeInv, UNCHANGED <<eventRows, matchRows>> PROVE Links'
BY DEF BridgeInv, Links, LinkNamesRow

\* A step after which no task has left a row that could be matched.
LEMMA PairsAside ==
    ASSUME BridgeInv, SameRows, bridgeFaults' = 0 => bridgeFaults = 0,
           \A i \in DOMAIN eventRows : Unlinked(i)' => Unlinked(i),
           \A t \in tasks : t.at \in {"find", "match"} /\ Unlinked(t.row)' =>
              \/ \E u \in tasks' : u.row = t.row /\ u.at \in {"find", "match"}
              \/ ~\E i \in DOMAIN eventRows : i < t.row /\ Matchable(i, t.row) /\ Unlinked(i)
    PROVE  Pairs'
<1>1. SUFFICES ASSUME bridgeFaults' = 0, NEW i \in DOMAIN eventRows, NEW k \in DOMAIN eventRows,
                      i < k, Matchable(i, k)', Unlinked(i)', Unlinked(k)'
               PROVE  \E t \in tasks' : t.row = k /\ t.at \in {"find", "match"}
  BY DEF Pairs, SameRows
<1>2. Matchable(i, k)
  <2>1. eventRows'[i].event = eventRows[i].event /\ eventRows'[k].event = eventRows[k].event BY DEF SameRows
  <2> QED BY <1>1, <2>1 DEF Matchable
<1>3. Unlinked(i) /\ Unlinked(k) BY <1>1
<1>4. PICK t \in tasks : t.row = k /\ t.at \in {"find", "match"} BY <1>1, <1>2, <1>3 DEF BridgeInv, Pairs
<1>5. Unlinked(t.row)' BY <1>1, <1>4
<1> QED BY <1>1, <1>2, <1>3, <1>4, <1>5

\* A step that starts no handling.
LEMMA SingleAside ==
    ASSUME BridgeInv, UNCHANGED <<eventRows, matchRows, expiring, overlapped>>,
           bridgeFaults' = 0 => bridgeFaults = 0,
           ~overlapped /\ bridgeFaults = 0 => Working' \subseteq Working, loop' = "mark" => loop = "mark"
    PROVE  Single'
BY DEF BridgeInv, Single, Unlinked

\* A step that ends no cycle.
LEMMA AwaitedAside ==
    ASSUME BridgeInv, loop = "poll" => loop' = "poll",
           \A t \in tasks' : \E u \in tasks : t.chain = u.chain /\ t.awaited = u.awaited
    PROVE  Awaited'
BY DEF BridgeInv, Awaited

\* A step that moves no cursor and takes no log from a poll that has stored none.
LEMMA PassedAside ==
    ASSUME BridgeInv, UNCHANGED blockCursor,
           \A t \in tasks' : t.at \in {"create", "cursor"} =>
              \E u \in tasks : /\ t.chain = u.chain /\ t.to = u.to /\ t.todo = u.todo
                               /\ u.at \in {"create", "cursor"} \/ t.chain = Stellar
    PROVE  Passed'
BY BridgeAssumption DEF BridgeInv, Passed, FromStart

\* A step that creates no row.
LEMMA FirstsAside == ASSUME BridgeInv, SameRows PROVE FirstLogOnly'
BY DEF BridgeInv, FirstLogOnly, SameRows

\* A step that creates no row, and starts no call of the listener.
LEMMA BurnsAside ==
    ASSUME BridgeInv, SameRows, UNCHANGED callsMet,
           \A t \in tasks' : t.chain = Stellar => t \in tasks
    PROVE  Burns'
<1>1. Burns BY DEF BridgeInv
<1>2. BurnRows' BY <1>1 DEF Burns, BurnRows, SameRows
<1>3. BurnStoredOnce' BY <1>1 DEF Burns, BurnStoredOnce, SameRows
<1>4. ASSUME ~callsMet PROVE OneCall' BY <1>1, <1>4 DEF Burns, OneCall
<1>5. ASSUME ~callsMet, NEW t \in tasks', t.chain = Stellar, t.at = "create" PROVE NewBurns(t)'
  <2>1. NewBurns(t) BY <1>1, <1>5 DEF Burns
  <2> QED BY <2>1 DEF NewBurns, SameRows
<1> QED BY <1>2, <1>3, <1>4, <1>5 DEF Burns

-----------------------------------------------------------------------------

\* A new block keeps the invariant.
LEMMA BlockStep ==
    ASSUME BridgeInv, NEW c \in EvmChains, NextBlock(c)
    PROVE  BridgeInv'
<1>1. UNCHANGED <<eventRows, matchRows, tasks, blockCursor, loop, expiring, calls, callsMet, overlapped, bridgeFaults>>
  BY DEF NextBlock, loopvars, callvars
<1>2. /\ latestBlock \in [EvmChains -> Nat] /\ latestBlock[c] < lastBlock[c]
      /\ latestBlock' = [latestBlock EXCEPT ![c] = latestBlock[c] + 1]
      /\ lastBlock \in [EvmChains -> Nat] /\ \A x \in EvmChains : latestBlock[x] <= lastBlock[x]
  BY BridgeAssumption DEF NextBlock, BridgeInv, BridgeTypes
<1>3. latestBlock' \in [EvmChains -> Nat] /\ \A x \in EvmChains : latestBlock'[x] <= lastBlock[x] BY <1>2
<1>4. BridgeTypes' BY <1>1, <1>3 DEF BridgeInv, BridgeTypes
<1>5. Links' BY <1>1, LinksAside
<1>6. SameRows BY <1>1, SameUnchanged
<1>7. Pairs' BY <1>1, <1>6, PairsAside DEF Unlinked
<1>8. Single' BY <1>1, SingleAside DEF Working
<1>9. Passed' BY <1>1, <1>6, PassedAside
<1>10. FirstLogOnly' /\ Burns' BY <1>1, <1>6, FirstsAside, BurnsAside
<1>11. Awaited' BY <1>1, AwaitedAside
<1> QED BY <1>4, <1>5, <1>7, <1>8, <1>9, <1>10, <1>11 DEF BridgeInv

\* The end of a cycle whose polls have all ended keeps the invariant.
LEMMA PollsDoneStep ==
    ASSUME BridgeInv, PollsDone
    PROVE  BridgeInv'
<1>1. /\ UNCHANGED <<eventRows, matchRows, tasks, blockCursor, latestBlock, expiring, calls, callsMet, overlapped, bridgeFaults>>
      /\ loop = "poll" /\ loop' \in {"sleep", "expire"} /\ \A t \in tasks : t.chain \in EvmChains => ~t.awaited
  BY DEF PollsDone, chainvars, callvars
<1>2. BridgeTypes' BY <1>1 DEF BridgeInv, BridgeTypes
<1>3. Links' BY <1>1, LinksAside
<1>4. SameRows BY <1>1, SameUnchanged
<1>5. Pairs' BY <1>1, <1>4, PairsAside DEF Unlinked
<1>6. Single' BY <1>1, SingleAside DEF Working
<1>7. Passed' BY <1>1, <1>4, PassedAside
<1>8. FirstLogOnly' /\ Burns' BY <1>1, <1>4, FirstsAside, BurnsAside
<1>9. Awaited' BY <1>1 DEF Awaited
<1> QED BY <1>2, <1>3, <1>5, <1>6, <1>7, <1>8, <1>9 DEF BridgeInv

\* The logs in todo are of a chain, and in the range of a poll.
Within(todo, chain, to) == \A e \in todo : e.chain = chain /\ (chain \in EvmChains => e.block <= to)

\* A task before its first step.
LEMMA NewTask ==
    ASSUME BridgeInv, NEW chain \in EvmChains \cup {Stellar}, NEW at \in {"lookup", "create", "cursor"},
           NEW todo \in SUBSET BridgeEvents, NEW to \in Nat,
           chain \in EvmChains => to <= lastBlock[chain],
           Within(todo, chain, to),
           at \in {"lookup", "create"} => todo # {}, at = "lookup" => chain = Stellar,
           at = "cursor" => todo = {} /\ chain \in EvmChains,
           chain = Stellar => \A e \in todo : e.type = "burn",
           NEW n, n = Task(chain, at, todo, to)
    PROVE  /\ TaskOK(n, Len(eventRows))
           /\ n.chain = chain /\ n.at = at /\ n.todo = todo /\ n.to = to /\ n.row = 0 /\ n.awaited
<1>1. PICK d : n = [chain |-> chain, todo |-> todo, to |-> to, at |-> at, row |-> 0, partner |-> 0,
                    awaited |-> TRUE, id |-> d]
  BY DEF Task
<1>2. /\ n.chain = chain /\ n.at = at /\ n.todo = todo /\ n.to = to /\ n.row = 0 /\ n.partner = 0
      /\ n.awaited = TRUE /\ n.id = d
  BY <1>1
<1>3. IsTask(n) BY <1>1, <1>2 DEF IsTask
<1>4. Len(eventRows) \in Nat BY DEF BridgeInv, BridgeTypes
<1>5. n.row \in 0 .. Len(eventRows) /\ n.partner \in 0 .. Len(eventRows) BY <1>2, <1>4
<1> QED BY <1>2, <1>3, <1>5 DEF TaskOK, Within

\* The polls of a cycle, each from its cursor, keep the invariant.
LEMMA StartPollsStep ==
    ASSUME BridgeInv, StartPolls
    PROVE  BridgeInv'
<1> DEFINE New == UNION {Poll(c) : c \in EvmChains}
<1>1. /\ loop = "sleep" /\ loop' = "poll" /\ tasks' = tasks \cup New
      /\ UNCHANGED <<eventRows, matchRows, blockCursor, latestBlock, expiring, calls, callsMet, overlapped, bridgeFaults>>
  BY DEF StartPolls, chainvars, callvars
<1>2. ASSUME NEW c \in EvmChains, NEW t \in Poll(c)
      PROVE  /\ TaskOK(t, Len(eventRows)) /\ t.chain = c /\ t.at \in {"create", "cursor"} /\ t.awaited
             /\ blockCursor[c] <= t.to
             /\ FromStart(c) =>
                  \A e \in BridgeEvents :
                    e.chain = c /\ e.block <= t.to /\ e.block >= blockCursor[c] => e \in t.todo
             /\ Poll(c) = {t}
    <2> PICK latest, from : /\ latest = latestBlock[c]
                            /\ from = (IF blockCursor[c] # 0 THEN blockCursor[c]
                                       ELSE IF latest > FirstLookback THEN latest - FirstLookback ELSE 0)
      OBVIOUS
    <2> PICK to : to = (IF from + MAX_BLOCK_RANGE < latest THEN from + MAX_BLOCK_RANGE ELSE latest) OBVIOUS
    <2> PICK logs : logs = {e \in BridgeEvents : e.chain = c /\ e.block \in from .. to} OBVIOUS
    <2>1. Poll(c) = IF from >= latest THEN {} ELSE {Task(c, IF logs = {} THEN "cursor" ELSE "create", logs, to)}
      BY DEF Poll
    <2>2. /\ blockCursor[c] \in Nat /\ latest \in Nat /\ latest <= lastBlock[c] /\ lastBlock[c] \in Nat
          /\ FirstLookback \in Nat /\ MAX_BLOCK_RANGE \in Nat /\ \A e \in BridgeEvents : e.block \in Nat
          /\ c # Stellar
      BY BridgeAssumption DEF BridgeInv, BridgeTypes
    <2>3. ~(from >= latest) BY <2>1
    <2>4. from \in Nat /\ from >= blockCursor[c] BY <2>2
    <2>5. to \in Nat /\ from <= to /\ to <= lastBlock[c] BY <2>2, <2>3, <2>4
    <2> PICK at : at = (IF logs = {} THEN "cursor" ELSE "create") OBVIOUS
    <2>6. t = Task(c, at, logs, to) /\ Poll(c) = {t} BY <2>1, <2>3
    <2>7. logs \in SUBSET BridgeEvents /\ \A e \in logs : e.chain = c /\ e.block \in Nat /\ from <= e.block /\ e.block <= to
      BY <2>2, <2>4, <2>5
    <2>8. /\ TaskOK(t, Len(eventRows))
          /\ t.chain = c /\ t.at = at /\ t.todo = logs /\ t.to = to /\ t.row = 0 /\ t.awaited
      <3>2. c \in EvmChains \cup {Stellar} OBVIOUS
      <3>3. Within(logs, c, to) BY <2>7 DEF Within
      <3>4. to \in Nat /\ (c \in EvmChains => to <= lastBlock[c]) /\ logs \in SUBSET BridgeEvents BY <2>5, <2>7
      <3>5. t = Task(c, at, logs, to) BY <2>6
      <3>6. CASE logs = {}
        <4>1. t = Task(c, "cursor", {}, to) /\ Within({}, c, to) /\ {} \in SUBSET BridgeEvents BY <3>3, <3>5, <3>6
        <4>2. "cursor" \in {"lookup", "create", "cursor"} OBVIOUS
        <4>3. /\ TaskOK(t, Len(eventRows))
              /\ t.chain = c /\ t.at = "cursor" /\ t.todo = {} /\ t.to = to /\ t.row = 0 /\ t.awaited
          BY ONLY BridgeInv, <2>2, <3>2, <3>4, <4>1, <4>2, c \in EvmChains, NewTask
        <4> QED BY <4>3, <3>6
      <3>7. CASE logs # {}
        <4>1. t = Task(c, "create", logs, to) BY <3>5, <3>7
        <4>2. "create" \in {"lookup", "create", "cursor"} OBVIOUS
        <4>3. /\ TaskOK(t, Len(eventRows))
              /\ t.chain = c /\ t.at = "create" /\ t.todo = logs /\ t.to = to /\ t.row = 0 /\ t.awaited
          BY ONLY BridgeInv, <2>2, <3>2, <3>3, <3>4, <3>7, <4>1, <4>2, c \in EvmChains, NewTask
        <4> QED BY <4>3, <3>7
      <3> QED BY <3>6, <3>7
    <2>10. blockCursor[c] <= t.to BY <2>2, <2>4, <2>5, <2>8
    <2>11. ASSUME FromStart(c), NEW e \in BridgeEvents, e.chain = c, e.block <= t.to, e.block >= blockCursor[c]
           PROVE  e \in t.todo
      <3>1. blockCursor[c] = 0 => from = 0 BY <2>2, <2>11 DEF FromStart
      <3>2. blockCursor[c] # 0 => from = blockCursor[c] BY <2>2
      <3>3. e.block \in from .. to BY <2>2, <2>4, <2>5, <2>8, <2>11, <3>1, <3>2
      <3> QED BY <2>8, <2>11, <3>3
    <2> QED BY <2>6, <2>8, <2>10, <2>11
<1>3. \A t \in New : \E c \in EvmChains : t \in Poll(c) OBVIOUS
<1> HIDE DEF New
<1>4. BridgeTypes'
  <2>1. \A t \in tasks' : TaskOK(t, Len(eventRows)) BY <1>1, <1>2, <1>3 DEF BridgeInv, BridgeTypes
  <2> QED BY <1>1, <2>1 DEF BridgeInv, BridgeTypes
<1>5. Links' BY <1>1, LinksAside
<1>6. SameRows BY <1>1, SameUnchanged
<1>7. Pairs' BY <1>1, <1>6, PairsAside DEF Unlinked
<1>8. Single'
  <2>1. Working' \subseteq Working BY <1>1, <1>2, <1>3 DEF Working
  <2> QED BY <1>1, <2>1, SingleAside
<1>10. Passed'
  <2>1. SUFFICES ASSUME NEW e \in BridgeEvents, e.chain \in EvmChains, FromStart(e.chain)
                 PROVE  /\ blockCursor[e.chain] <= e.block
                        /\ \A t \in tasks' : t.chain = e.chain /\ t.at \in {"create", "cursor"} /\ e.block <= t.to
                                              => e \in t.todo
    BY <1>1 DEF Passed, FromStart
  <2>2. /\ blockCursor[e.chain] <= e.block
        /\ \A t \in tasks : t.chain = e.chain /\ t.at \in {"create", "cursor"} /\ e.block <= t.to => e \in t.todo
    BY <2>1 DEF BridgeInv, Passed
  <2>3. ASSUME NEW t \in New, t.chain = e.chain, e.block <= t.to PROVE e \in t.todo
    <3>1. PICK c \in EvmChains : t \in Poll(c) BY <1>3, <2>3
    <3>2. c = e.chain BY <1>2, <2>3, <3>1
    <3>3. e.block \in Nat /\ blockCursor[c] \in Nat BY BridgeAssumption DEF BridgeInv, BridgeTypes
    <3>4. e.block >= blockCursor[c] BY <2>2, <3>2, <3>3
    <3> QED BY <1>2, <2>1, <2>3, <3>1, <3>2, <3>4
  <2> QED BY <1>1, <2>2, <2>3
<1>11. FirstLogOnly' /\ Burns'
  <2>1. \A t \in New : t.chain # Stellar BY <1>2, <1>3, BridgeAssumption
  <2>2. \A t \in tasks' : t.chain = Stellar => t \in tasks BY <1>1, <2>1
  <2> QED BY <1>1, <1>6, <2>2, FirstsAside, BurnsAside
<1>12. Awaited' BY <1>1 DEF Awaited
<1> QED BY <1>4, <1>5, <1>7, <1>8, <1>10, <1>11, <1>12 DEF BridgeInv

\* A cursor that is moved behind a range whose logs are stored keeps the invariant.
LEMMA AdvanceCursorStep ==
    ASSUME BridgeInv, NEW t \in tasks, AdvanceCursor(t)
    PROVE  BridgeInv'
<1>1. /\ t.at = "cursor" /\ tasks' = tasks \ {t}
      /\ blockCursor' = [blockCursor EXCEPT ![t.chain] = t.to + 1]
      /\ UNCHANGED <<eventRows, matchRows, latestBlock, loop, expiring, calls, callsMet, overlapped, bridgeFaults>>
  BY DEF AdvanceCursor, Become, loopvars, callvars
<1>2. TaskOK(t, Len(eventRows)) /\ blockCursor \in [EvmChains -> Nat] BY DEF BridgeInv, BridgeTypes
<1>3. t.todo = {} /\ t.chain \in EvmChains /\ t.to \in Nat /\ t.to <= lastBlock[t.chain]
  BY <1>1, <1>2 DEF TaskOK
<1>4. lastBlock[t.chain] \in Nat /\ \A e \in BridgeEvents : e.block \in Nat BY <1>3, BridgeAssumption
<1>5. blockCursor' \in [EvmChains -> Nat] /\ \A c \in EvmChains : blockCursor'[c] = IF c = t.chain THEN t.to + 1 ELSE blockCursor[c]
  BY <1>1, <1>2, <1>3
<1>6. BridgeTypes'
  <2>1. \A c \in EvmChains : blockCursor'[c] <= lastBlock[c] + 1
    <3>1. \A c \in EvmChains : blockCursor[c] <= lastBlock[c] + 1 BY DEF BridgeInv, BridgeTypes
    <3> QED BY <1>3, <1>4, <1>5, <3>1
  <2> QED BY <1>1, <1>5, <2>1 DEF BridgeInv, BridgeTypes
<1>7. Links' BY <1>1, LinksAside
<1>8. SameRows BY <1>1, SameUnchanged
<1>9. Pairs' BY <1>1, <1>8, PairsAside DEF Unlinked
<1>10. Single'
  <2>1. Working' \subseteq Working BY <1>1 DEF Working
  <2> QED BY <1>1, <2>1, SingleAside
<1>12. Passed'
  <2>1. SUFFICES ASSUME NEW e \in BridgeEvents, e.chain \in EvmChains, FromStart(e.chain)
                 PROVE  /\ blockCursor'[e.chain] <= e.block
                        /\ \A u \in tasks : u.chain = e.chain /\ u.at \in {"create", "cursor"} /\ e.block <= u.to
                                             => e \in u.todo
    BY <1>1 DEF Passed, FromStart
  <2>2. /\ blockCursor[e.chain] <= e.block
        /\ \A u \in tasks : u.chain = e.chain /\ u.at \in {"create", "cursor"} /\ e.block <= u.to => e \in u.todo
    BY <2>1 DEF BridgeInv, Passed
  <2>3. CASE e.chain = t.chain
    <3>1. ~(e.block <= t.to) BY <1>1, <1>3, <2>2, <2>3
    <3>2. blockCursor'[e.chain] <= e.block BY <1>3, <1>4, <1>5, <2>1, <2>3, <3>1
    <3> QED BY <2>2, <3>2
  <2>4. CASE e.chain # t.chain
    <3>1. blockCursor'[e.chain] = blockCursor[e.chain] BY <1>5, <2>1, <2>4
    <3> QED BY <2>2, <3>1
  <2> QED BY <2>3, <2>4
<1>13. FirstLogOnly' /\ Burns' BY <1>1, <1>8, FirstsAside, BurnsAside
<1>14. Awaited' BY <1>1, AwaitedAside
<1> QED BY <1>6, <1>7, <1>9, <1>10, <1>12, <1>13, <1>14 DEF BridgeInv

\* A call of the Stellar listener keeps the invariant.
LEMMA StellarStep ==
    ASSUME BridgeInv, NEW e \in BridgeEvents, StellarEvent(e)
    PROVE  BridgeInv'
<1> PICK n : n = Task(Stellar, "lookup", {e}, 0) OBVIOUS
<1>1. /\ e.chain = Stellar /\ e.type = "burn" /\ calls < MaxCalls /\ calls' = calls + 1 /\ tasks' = tasks \cup {n}
      /\ callsMet' = (callsMet \/ \E t \in tasks : t.chain = Stellar)
      /\ UNCHANGED <<eventRows, matchRows, blockCursor, latestBlock, loop, expiring, overlapped, bridgeFaults>>
  BY DEF StellarEvent, chainvars, loopvars, callvars
<1>2. Stellar \notin EvmChains /\ MaxCalls \in Nat BY BridgeAssumption
<1>3. /\ TaskOK(n, Len(eventRows)) /\ n.chain = Stellar /\ n.at = "lookup" /\ n.todo = {e} /\ n.to = 0 /\ n.row = 0
      /\ n.awaited
  <2> PICK todo, c, at : todo = {e} /\ c = Stellar /\ at = "lookup" OBVIOUS
  <2>1. Within(todo, c, 0) BY <1>1, <1>2 DEF Within
  <2>2. c \in EvmChains \cup {Stellar} /\ at \in {"lookup", "create", "cursor"} /\ todo \in SUBSET BridgeEvents /\ 0 \in Nat
    OBVIOUS
  <2>3. (c \in EvmChains => 0 <= lastBlock[c]) /\ (at \in {"lookup", "create"} => todo # {}) BY <1>2
  <2>4. (at = "lookup" => c = Stellar) /\ (at = "cursor" => todo = {} /\ c \in EvmChains) OBVIOUS
  <2>5. n = Task(c, at, todo, 0) OBVIOUS
  <2>7. c = Stellar => \A f \in todo : f.type = "burn" BY <1>1
  <2>6. /\ TaskOK(n, Len(eventRows))
        /\ n.chain = c /\ n.at = at /\ n.todo = todo /\ n.to = 0 /\ n.row = 0 /\ n.awaited
    BY ONLY BridgeInv, <2>1, <2>2, <2>3, <2>4, <2>5, <2>7, NewTask
  <2> QED BY <2>6
<1>4. BridgeTypes'
  <2>1. \A t \in tasks' : TaskOK(t, Len(eventRows)) BY <1>1, <1>3 DEF BridgeInv, BridgeTypes
  <2>2. calls' \in 0 .. MaxCalls /\ callsMet' \in BOOLEAN BY <1>1, <1>2 DEF BridgeInv, BridgeTypes
  <2> QED BY <1>1, <2>1, <2>2 DEF BridgeInv, BridgeTypes
<1>5. Links' BY <1>1, LinksAside
<1>6. SameRows BY <1>1, SameUnchanged
<1>7. Pairs' BY <1>1, <1>6, PairsAside DEF Unlinked
<1>8. Single'
  <2>1. Working' \subseteq Working BY <1>1, <1>3 DEF Working
  <2> QED BY <1>1, <2>1, SingleAside
<1>10. Passed'
  <2>1. \A t \in tasks' : t.at \in {"create", "cursor"} => t \in tasks BY <1>1, <1>3
  <2> QED BY <1>1, <2>1, PassedAside
<1>11. FirstLogOnly' /\ Burns'
  <2>1. Burns BY DEF BridgeInv
  <2>2. BurnRows' BY <1>1, <2>1 DEF Burns, BurnRows
  <2>3. BurnStoredOnce' BY <1>1, <2>1 DEF Burns, BurnStoredOnce
  <2>4. ASSUME ~callsMet'
        PROVE  OneCall' /\ \A t \in tasks' : t.chain = Stellar /\ t.at = "create" => NewBurns(t)'
    <3>1. \A t \in tasks' : t.chain = Stellar => t = n BY <1>1, <2>4
    <3> QED BY <1>3, <3>1 DEF OneCall
  <2>5. Burns' BY <2>2, <2>3, <2>4 DEF Burns
  <2> QED BY <1>6, <2>5, FirstsAside
<1>12. Awaited' BY <1>1, <1>2, <1>3 DEF Awaited, BridgeInv
<1> QED BY <1>4, <1>5, <1>7, <1>8, <1>10, <1>11, <1>12 DEF BridgeInv

\* The look-up for a burn that is replayed keeps the invariant.
LEMMA LookupStep ==
    ASSUME BridgeInv, NEW t \in tasks, Lookup(t)
    PROVE  BridgeInv'
<1>1. /\ t.at = "lookup"
      /\ UNCHANGED <<eventRows, matchRows, blockCursor, latestBlock, loop, expiring, calls, callsMet, overlapped, bridgeFaults>>
  BY DEF Lookup, chainvars, loopvars, callvars
<1> DEFINE Replayed == \E i \in DOMAIN eventRows, e \in t.todo :
                          /\ eventRows[i].event.tx = e.tx
                          /\ eventRows[i].event.type = "burn" /\ eventRows[i].event.chain = Stellar
<1>2. PICK T : /\ T \in {{}, {[t EXCEPT !.at = "create"]}} /\ (Replayed => T = {})
               /\ tasks' = (tasks \ {t}) \cup T
  BY DEF Lookup, Become
<1>3. TaskOK(t, Len(eventRows)) BY DEF BridgeInv, BridgeTypes
<1>4. t.chain = Stellar /\ t.todo # {} BY <1>1, <1>3 DEF TaskOK
<1> PICK n : n = [t EXCEPT !.at = "create"] OBVIOUS
<1>5. /\ IsTask(n) /\ n.at = "create" /\ n.chain = t.chain /\ n.to = t.to /\ n.todo = t.todo /\ n.row = t.row
      /\ n.partner = t.partner /\ n.awaited = t.awaited
  BY <1>3 DEF TaskOK, IsTask
<1>6. TaskOK(n, Len(eventRows)) BY <1>1, <1>3, <1>5 DEF TaskOK
<1>7. \A u \in tasks' : u \in tasks \/ u = n BY <1>2
<1>8. \A u \in tasks : u \in tasks' \/ u = t BY <1>2
<1>9. BridgeTypes'
  <2>1. \A u \in tasks' : TaskOK(u, Len(eventRows)) BY <1>6, <1>7 DEF BridgeInv, BridgeTypes
  <2> QED BY <1>1, <2>1 DEF BridgeInv, BridgeTypes
<1>10. Links' BY <1>1, LinksAside
<1>11. SameRows BY <1>1, SameUnchanged
<1>12. Pairs' BY <1>1, <1>8, <1>11, PairsAside DEF Unlinked
<1>13. Single'
  <2>1. Working' \subseteq Working BY <1>5, <1>7 DEF Working
  <2> QED BY <1>1, <2>1, SingleAside
<1>14. Passed'
  <2>1. \A v \in tasks' : \E u \in tasks :
          v.chain = u.chain /\ v.to = u.to /\ v.todo = u.todo /\ (u.at = v.at \/ v.chain = Stellar)
    BY <1>4, <1>5, <1>7
  <2> QED BY <1>1, <2>1, PassedAside
<1>15. Burns'
  <2>1. Burns BY DEF BridgeInv
  <2>2. BurnRows' BY <1>1, <2>1 DEF Burns, BurnRows
  <2>3. BurnStoredOnce' BY <1>1, <2>1 DEF Burns, BurnStoredOnce
  <2>4. ASSUME ~callsMet
        PROVE  OneCall' /\ \A u \in tasks' : u.chain = Stellar /\ u.at = "create" => NewBurns(u)'
    <3>1. \A u \in tasks : u.chain = Stellar => u = t BY <1>4, <2>1, <2>4 DEF Burns, OneCall
    <3>2. \A u \in tasks' : u.chain = Stellar => u = n BY <1>2, <1>7, <3>1
    <3>3. ASSUME n \in tasks' PROVE NewBurns(n)
      <4>0. n \notin tasks \ {t} BY <1>4, <1>5, <3>1
      <4>1. ~Replayed BY <1>2, <3>3, <4>0
      <4>2. BurnRows BY <2>1 DEF Burns
      <4> QED BY <1>5, <4>1, <4>2 DEF NewBurns, BurnRows
    <3>4. NewBurns(n)' <=> NewBurns(n) BY <1>1 DEF NewBurns
    <3> QED BY <3>2, <3>3, <3>4 DEF OneCall
  <2> QED BY <1>1, <2>2, <2>3, <2>4 DEF Burns
<1>17. FirstLogOnly' BY <1>11, FirstsAside
<1>16. Awaited'
  <2>1. \A v \in tasks' : \E u \in tasks : v.chain = u.chain /\ v.awaited = u.awaited BY <1>5, <1>7
  <2> QED BY <1>1, <2>1, AwaitedAside
<1> QED BY <1>9, <1>10, <1>12, <1>13, <1>14, <1>15, <1>16, <1>17 DEF BridgeInv

-----------------------------------------------------------------------------

\* A task that is handled ends, for a poll by what its publication throws.
LEMMA HandledThrows == ASSUME NEW t, Handled(t) PROVE TaskThrows(t)
BY BridgeAssumption DEF Handled, TaskThrows

\* What the end of a task leaves of the others.
LEMMA ThrowFacts ==
    ASSUME BridgeInv, NEW t \in tasks, TaskThrows(t)
    PROVE  /\ \A x \in tasks' :
                /\ TaskOK(x, Len(eventRows)) /\ (x.chain = Stellar => x \in tasks)
                /\ \E y \in tasks \ {t} : /\ x.chain = y.chain /\ x.to = y.to /\ x.todo = y.todo /\ x.at = y.at
                                          /\ x.row = y.row /\ x.partner = y.partner
           /\ \A y \in tasks \ {t} : \E x \in tasks' : x.row = y.row /\ x.at = y.at
           /\ loop' \in {"sleep", "poll", "expire", "mark"} /\ (loop' = "mark" <=> expiring # {})
           /\ loop' = "mark" => loop = "mark"
           /\ Awaited'
<1>1. \A x \in tasks : TaskOK(x, Len(eventRows)) BY DEF BridgeInv, BridgeTypes
<1>2. CASE t.awaited /\ t.chain \in EvmChains
  <2>1. /\ tasks' = {[x EXCEPT !.awaited = x.awaited /\ x.chain = Stellar] : x \in tasks \ {t}}
        /\ loop' = "sleep"
    BY <1>2 DEF TaskThrows
  <2>2. loop = "poll" BY <1>2 DEF BridgeInv, Awaited
  <2>3. expiring = {} BY <2>2 DEF BridgeInv, BridgeTypes
  <2>4. ASSUME NEW y \in tasks, NEW x, x = [y EXCEPT !.awaited = y.awaited /\ y.chain = Stellar]
        PROVE  /\ x.chain = y.chain /\ x.to = y.to /\ x.todo = y.todo /\ x.at = y.at
               /\ x.row = y.row /\ x.partner = y.partner
               /\ TaskOK(x, Len(eventRows)) /\ (x.chain \in EvmChains => ~x.awaited)
               /\ x.chain = Stellar => x = y
    <3> PICK w \in BOOLEAN : w = (y.awaited /\ y.chain = Stellar) OBVIOUS
    <3>1. TaskOK(y, Len(eventRows)) BY <1>1
    <3>2. x = [y EXCEPT !.awaited = w] BY <2>4
    <3>3. /\ IsTask(x) /\ x.chain = y.chain /\ x.todo = y.todo /\ x.to = y.to /\ x.at = y.at /\ x.row = y.row
          /\ x.partner = y.partner /\ x.awaited = w /\ x.id = y.id
      BY <3>1, <3>2 DEF TaskOK, IsTask
    <3>4. TaskOK(x, Len(eventRows)) BY <3>1, <3>3 DEF TaskOK
    <3>5. x.chain \in EvmChains => ~x.awaited BY <3>3, BridgeAssumption
    <3>6. ASSUME x.chain = Stellar PROVE x = y
      <4>1. w = y.awaited BY <3>1, <3>3, <3>6 DEF TaskOK
      <4> QED BY <3>1, <3>3, <4>1 DEF TaskOK, IsTask
    <3> QED BY <3>3, <3>4, <3>5, <3>6
  <2>5. \A x \in tasks' : \E y \in tasks \ {t} : x = [y EXCEPT !.awaited = y.awaited /\ y.chain = Stellar]
    BY <2>1
  <2>6. Awaited' BY <2>4, <2>5 DEF Awaited
  <2>7. ASSUME NEW y \in tasks \ {t} PROVE \E x \in tasks' : x.row = y.row /\ x.at = y.at
    <3> PICK x : x = [y EXCEPT !.awaited = y.awaited /\ y.chain = Stellar] OBVIOUS
    <3>1. x \in tasks' BY <2>1
    <3>2. x.row = y.row /\ x.at = y.at BY <2>4
    <3> QED BY <3>1, <3>2
  <2>8. ASSUME NEW x \in tasks'
        PROVE  /\ TaskOK(x, Len(eventRows)) /\ (x.chain = Stellar => x \in tasks)
               /\ \E y \in tasks \ {t} : /\ x.chain = y.chain /\ x.to = y.to /\ x.todo = y.todo /\ x.at = y.at
                                         /\ x.row = y.row /\ x.partner = y.partner
    <3>1. PICK y \in tasks \ {t} : x = [y EXCEPT !.awaited = y.awaited /\ y.chain = Stellar] BY <2>5
    <3> QED BY <2>4, <3>1
  <2> QED BY <2>1, <2>3, <2>6, <2>7, <2>8
<1>3. CASE ~(t.awaited /\ t.chain \in EvmChains)
  <2>1. tasks' = tasks \ {t} /\ loop' = loop BY <1>3 DEF TaskThrows, Become
  <2>2. Awaited' BY <2>1, AwaitedAside
  <2>3. loop \in {"sleep", "poll", "expire", "mark"} /\ (loop = "mark" <=> expiring # {})
    BY DEF BridgeInv, BridgeTypes
  <2> QED BY <1>1, <2>1, <2>2, <2>3
<1> QED BY <1>2, <1>3

\* A task that ends while the rows have their events.
LEMMA TaskEnds ==
    ASSUME BridgeInv, NEW t \in tasks, TaskThrows(t),
           SameRows, Len(eventRows') = Len(eventRows), UNCHANGED <<blockCursor, callsMet>>
    PROVE  /\ \A u \in tasks' : TaskOK(u, Len(eventRows'))
           /\ \A u \in Working' : \E v \in Working \ {t} : TRUE
           /\ \A u \in tasks : u.at \in {"find", "match"} =>
                u = t \/ \E v \in tasks' : v.row = u.row /\ v.at \in {"find", "match"}
           /\ loop' \in {"sleep", "poll", "expire", "mark"} /\ (loop' = "mark" <=> expiring # {})
           /\ loop' = "mark" => loop = "mark"
           /\ Passed' /\ FirstLogOnly' /\ Burns' /\ Awaited'
<1>1. /\ \A x \in tasks' :
           /\ TaskOK(x, Len(eventRows)) /\ (x.chain = Stellar => x \in tasks)
           /\ \E y \in tasks \ {t} : /\ x.chain = y.chain /\ x.to = y.to /\ x.todo = y.todo /\ x.at = y.at
                                     /\ x.row = y.row /\ x.partner = y.partner
      /\ \A y \in tasks \ {t} : \E x \in tasks' : x.row = y.row /\ x.at = y.at
      /\ loop' \in {"sleep", "poll", "expire", "mark"} /\ (loop' = "mark" <=> expiring # {})
      /\ loop' = "mark" => loop = "mark"
      /\ Awaited'
  BY ThrowFacts
<1>2. \A u \in tasks' : TaskOK(u, Len(eventRows')) BY <1>1
<1>3. ASSUME NEW u \in Working' PROVE \E v \in Working \ {t} : TRUE
  <2>1. u \in tasks' /\ u.at \in {"find", "match"} BY <1>3 DEF Working
  <2>2. PICK y \in tasks \ {t} : y.at = u.at BY <1>1, <2>1
  <2>3. y \in Working \ {t} BY <2>1, <2>2 DEF Working
  <2> QED BY <2>3
<1>4. \A u \in tasks : u.at \in {"find", "match"} =>
        u = t \/ \E v \in tasks' : v.row = u.row /\ v.at \in {"find", "match"}
  BY <1>1
<1>5. Passed' BY <1>1, PassedAside
<1>6. FirstLogOnly' /\ Burns' BY <1>1, FirstsAside, BurnsAside
<1> QED BY <1>1, <1>2, <1>3, <1>4, <1>5, <1>6

\* The rows hold events of the bridge, and the rows are numbered.
LEMMA RowTypes ==
    ASSUME BridgeInv
    PROVE  /\ \A i \in DOMAIN eventRows : eventRows[i] \in EventRecord /\ eventRows[i].event \in BridgeEvents
           /\ DOMAIN eventRows = 1 .. Len(eventRows) /\ Len(eventRows) \in Nat
<1>1. eventRows \in Seq(EventRecord) BY DEF BridgeInv, BridgeTypes
<1>2. DOMAIN eventRows = 1 .. Len(eventRows) /\ Len(eventRows) \in Nat BY <1>1
<1>3. \A i \in DOMAIN eventRows : eventRows[i] \in EventRecord BY <1>1, <1>2
<1> QED BY <1>2, <1>3 DEF EventRecord

\* Agreement is mutual.
LEMMA AgreesBack ==
    ASSUME NEW e \in BridgeEvents, NEW f \in BridgeEvents, NEW tier \in 1 .. 3, Agrees(tier, e, f)
    PROVE  Agrees(tier, f, e)
<1>1. tier = 1 \/ tier = 2 \/ tier = 3 OBVIOUS
<1>2. Near(e, f) <=> Near(f, e) BY DEF Near
<1>3. CASE tier = 1 BY <1>3 DEF Agrees
<1>4. CASE tier = 2 BY <1>2, <1>4 DEF Agrees
<1>5. CASE tier = 3 BY <1>2, <1>5 DEF Agrees
<1> QED BY <1>1, <1>3, <1>4, <1>5

\* A set of numbers has a least one.
LEMMA LeastOf ==
    ASSUME NEW S \in SUBSET Nat, S # {}
    PROVE  \E x \in S : \A y \in S : x <= y
<1>1. PICK x \in S : \A y \in S : ~(<<y, x>> \in OpToRel(<, Nat)) BY NatLessThanWellFounded, WFMin
<1>2. ASSUME NEW y \in S PROVE ~(y < x) BY <1>1 DEF OpToRel
<1>3. \A y \in S : x <= y BY <1>2
<1> QED BY <1>3

\* The search finds a row when there is a counterpart.
LEMMA EarliestOf ==
    ASSUME BridgeInv, NEW S \in SUBSET DOMAIN eventRows, Earliest(S) = {}
    PROVE  S = {}
<1> SUFFICES ASSUME S # {} PROVE FALSE OBVIOUS
<1> DEFINE T == {eventRows[i].event.time : i \in S}
<1>1. \A i \in DOMAIN eventRows : eventRows[i].event \in BridgeEvents BY RowTypes
<1>2. T \subseteq Nat BY <1>1, BridgeAssumption
<1>3. T # {} OBVIOUS
<1> HIDE DEF T
<1>4. PICK m \in T : \A x \in T : m <= x BY <1>2, <1>3, LeastOf
<1>5. PICK i \in S : eventRows[i].event.time = m BY <1>4 DEF T
<1>6. \A j \in S : eventRows[j].event.time \in T BY DEF T
<1>7. i \in Earliest(S) BY <1>4, <1>5, <1>6 DEF Earliest
<1> QED BY <1>7

\* A search keeps the invariant: what it does not find is not there.
LEMMA FindStep ==
    ASSUME BridgeInv, NEW t \in tasks, Find(t)
    PROVE  BridgeInv'
<1>1. /\ t.at = "find"
      /\ UNCHANGED <<eventRows, matchRows, blockCursor, latestBlock, expiring, calls, callsMet, overlapped, bridgeFaults>>
  BY DEF Find, chainvars, callvars
<1> PICK e, C1, C2, C3 : /\ e = eventRows[t.row].event
                         /\ C1 = Counterparts(1, e) /\ C2 = Counterparts(2, e) /\ C3 = Counterparts(3, e)
  OBVIOUS
<1> PICK S : S = (IF C1 # {} THEN C1 ELSE IF C2 # {} THEN Earliest(C2) ELSE Earliest(C3)) OBVIOUS
<1>2. IF S = {} THEN Handled(t)
      ELSE UNCHANGED loop /\ \E i \in S : Become(t, {[t EXCEPT !.at = "match", !.partner = i]})
  BY DEF Find
<1>3. TaskOK(t, Len(eventRows)) /\ t \in Working BY <1>1 DEF BridgeInv, BridgeTypes, Working
<1>4. t.row \in DOMAIN eventRows BY <1>1, <1>3, RowTypes DEF TaskOK
<1>5. C1 \subseteq DOMAIN eventRows /\ C2 \subseteq DOMAIN eventRows /\ C3 \subseteq DOMAIN eventRows
      /\ \A i \in C1 \cup C2 \cup C3 : Unlinked(i)
  BY DEF Counterparts, Unlinked
<1>6. S \subseteq C1 \cup C2 \cup C3 BY DEF Earliest
<1>7. Links' BY <1>1, LinksAside
<1>8. SameRows BY <1>1, SameUnchanged
<1>9. CASE S = {}
  <2>1. TaskThrows(t) BY <1>2, <1>9, HandledThrows
  <2>2. /\ \A u \in tasks' : TaskOK(u, Len(eventRows'))
        /\ \A u \in Working' : \E v \in Working \ {t} : TRUE
        /\ \A u \in tasks : u.at \in {"find", "match"} =>
             u = t \/ \E v \in tasks' : v.row = u.row /\ v.at \in {"find", "match"}
        /\ loop' \in {"sleep", "poll", "expire", "mark"} /\ (loop' = "mark" <=> expiring # {})
        /\ loop' = "mark" => loop = "mark"
        /\ Passed' /\ FirstLogOnly' /\ Burns' /\ Awaited'
    <3>1. Len(eventRows') = Len(eventRows) /\ UNCHANGED <<blockCursor, callsMet>> BY <1>1
    <3> QED BY ONLY BridgeInv, t \in tasks, <1>8, <2>1, <3>1, TaskEnds
  <2>3. BridgeTypes' BY <1>1, <2>2 DEF BridgeInv, BridgeTypes
  <2>4. C1 = {} /\ C2 = {} /\ C3 = {}
    <3>1. C1 = {} BY <1>9
    <3>2. C2 # {} => Earliest(C2) = {} BY <1>9, <3>1
    <3>3. C2 = {} BY <1>5, <3>2, EarliestOf
    <3>4. Earliest(C3) = {} BY <1>9, <3>1, <3>3
    <3>5. C3 = {} BY <1>5, <3>4, EarliestOf
    <3> QED BY <3>1, <3>3, <3>5
  <2>5. ~\E i \in DOMAIN eventRows : i < t.row /\ Matchable(i, t.row) /\ Unlinked(i)
    <3>1. SUFFICES ASSUME NEW i \in DOMAIN eventRows, Matchable(i, t.row), Unlinked(i) PROVE FALSE OBVIOUS
    <3>2. PICK tier \in 1 .. 3 : Agrees(tier, eventRows[i].event, e) BY <3>1 DEF Matchable
    <3>3. eventRows[i].event \in BridgeEvents /\ e \in BridgeEvents BY <1>4, RowTypes
    <3>4. Agrees(tier, e, eventRows[i].event) BY <3>2, <3>3, AgreesBack
    <3>5. i \in Counterparts(tier, e) BY <3>1, <3>4 DEF Counterparts, Matchable, Unlinked
    <3>6. tier = 1 \/ tier = 2 \/ tier = 3 BY <3>2
    <3>7. i \in C1 \/ i \in C2 \/ i \in C3 BY <3>5, <3>6
    <3> QED BY <2>4, <3>7
  <2>6. Pairs' BY <1>1, <1>8, <2>2, <2>5, PairsAside DEF Unlinked
  <2>7. Single'
    <3>1. ~overlapped /\ bridgeFaults = 0 => Working' \subseteq Working
      BY <1>3, <2>2 DEF BridgeInv, Single
    <3> QED BY <1>1, <2>2, <3>1, SingleAside
  <2> QED BY <1>7, <2>2, <2>3, <2>6, <2>7 DEF BridgeInv
<1>10. CASE S # {}
  <2>1. PICK i \in S : Become(t, {[t EXCEPT !.at = "match", !.partner = i]}) BY <1>2, <1>10
  <2>15. UNCHANGED loop BY <1>2, <1>10
  <2>2. i \in DOMAIN eventRows /\ Unlinked(i) BY <1>5, <1>6
  <2> PICK n : n = [t EXCEPT !.at = "match", !.partner = i] OBVIOUS
  <2>3. tasks' = (tasks \ {t}) \cup {n} BY <2>1 DEF Become
  <2>4. /\ IsTask(n) /\ n.at = "match" /\ n.partner = i /\ n.row = t.row
        /\ n.chain = t.chain /\ n.to = t.to /\ n.todo = t.todo /\ n.awaited = t.awaited
    BY <1>3 DEF TaskOK, IsTask
  <2>5. i \in 0 .. Len(eventRows) /\ i # 0 BY <2>2, RowTypes
  <2>6. TaskOK(n, Len(eventRows)) BY <1>1, <1>3, <2>4, <2>5 DEF TaskOK
  <2>7. BridgeTypes'
    <3>1. \A u \in tasks' : TaskOK(u, Len(eventRows)) BY <2>3, <2>6 DEF BridgeInv, BridgeTypes
    <3> QED BY <1>1, <2>15, <3>1 DEF BridgeInv, BridgeTypes
  <2>8. Pairs'
    <3>1. \A u \in tasks : u.at \in {"find", "match"} =>
            \E v \in tasks' : v.row = u.row /\ v.at \in {"find", "match"}
      BY <2>3, <2>4
    <3> QED BY <1>1, <1>8, <3>1, PairsAside DEF Unlinked
  <2>9. Single'
    <3>1. SUFFICES ASSUME ~overlapped, bridgeFaults = 0
                   PROVE  /\ \A u, v \in Working' : u = v
                          /\ \A u \in Working' : Unlinked(u.row) /\ (u.at = "match" => Unlinked(u.partner))
                          /\ loop = "mark" => Working' = {}
                          /\ \A k \in expiring : Unlinked(k)
                          /\ \A m \in DOMAIN matchRows : \A k \in matchRows[m].of : eventRows[k].matchId = m
      BY <1>1, <2>15 DEF Single, Unlinked
    <3>2. /\ \A u, v \in Working : u = v
          /\ \A u \in Working : Unlinked(u.row)
          /\ loop = "mark" => Working = {}
          /\ \A k \in expiring : Unlinked(k)
          /\ \A m \in DOMAIN matchRows : \A k \in matchRows[m].of : eventRows[k].matchId = m
      BY <3>1 DEF BridgeInv, Single
    <3>3. \A u \in Working' : u = n BY <1>3, <2>3, <3>2 DEF Working
    <3>4. Unlinked(n.row) /\ Unlinked(n.partner) BY <1>3, <2>2, <2>4, <3>2
    <3>5. loop # "mark" BY <1>3, <3>2
    <3> QED BY <3>2, <3>3, <3>4, <3>5
  <2>10. \A v \in tasks' : v.at \in {"create", "cursor"} => v \in tasks BY <2>3, <2>4
  <2>11. Passed' BY <1>1, <2>10, PassedAside
  <2>12. FirstLogOnly' BY <1>8, FirstsAside
  <2>13. Burns'
    <3>1. Burns BY DEF BridgeInv
    <3>2. BurnRows' /\ BurnStoredOnce' BY <1>1, <3>1 DEF Burns, BurnRows, BurnStoredOnce
    <3>3. ASSUME ~callsMet
          PROVE  OneCall' /\ \A u \in tasks' : u.chain = Stellar /\ u.at = "create" => NewBurns(u)'
      <4>1. \A u, v \in tasks : u.chain = Stellar /\ v.chain = Stellar => u = v BY <3>1, <3>3 DEF Burns, OneCall
      <4>2. OneCall' BY <2>3, <2>4, <4>1 DEF OneCall
      <4>3. ASSUME NEW u \in tasks', u.chain = Stellar, u.at = "create" PROVE NewBurns(u)'
        <5>1. NewBurns(u) BY <2>10, <3>1, <3>3, <4>3 DEF Burns
        <5> QED BY <1>1, <5>1 DEF NewBurns
      <4> QED BY <4>2, <4>3
    <3> QED BY <1>1, <3>2, <3>3 DEF Burns
  <2>14. Awaited'
    <3>1. \A v \in tasks' : \E u \in tasks : v.chain = u.chain /\ v.awaited = u.awaited BY <2>3, <2>4
    <3> QED BY <2>15, <3>1, AwaitedAside
  <2> QED BY <1>7, <2>7, <2>8, <2>9, <2>11, <2>12, <2>13, <2>14 DEF BridgeInv
<1> QED BY <1>9, <1>10

\* The match is recorded, and its two rows are linked to it.
LEMMA LinkStep ==
    ASSUME BridgeInv, NEW t \in tasks, Link(t)
    PROVE  BridgeInv'
<1>1. /\ t.at = "match" /\ TaskThrows(t)
      /\ UNCHANGED <<blockCursor, latestBlock, expiring, calls, callsMet, overlapped, bridgeFaults>>
  BY HandledThrows DEF Link, PersistMatch, chainvars, callvars
<1> PICK S : S = {t.row, t.partner} OBVIOUS
<1>2. Recorded(S, S, "matched") BY DEF Link, PersistMatch, Recorded
<1>3. TaskOK(t, Len(eventRows)) /\ t \in Working BY <1>1 DEF BridgeInv, BridgeTypes, Working
<1>4. t.row \in DOMAIN eventRows /\ t.partner \in DOMAIN eventRows BY <1>1, <1>3, RowTypes DEF TaskOK
<1>5. RecordedFacts(S, S) /\ SameRows /\ Links'
  <2>1. "matched" \in {"matched", "unmatched"} /\ S \subseteq S /\ S \subseteq DOMAIN eventRows BY <1>4
  <2> QED BY ONLY BridgeInv, <1>2, <2>1, RecordedHas
<1>6. /\ eventRows' \in Seq(EventRecord) /\ Len(eventRows') = Len(eventRows)
      /\ matchRows' \in Seq(MatchRecord) /\ DOMAIN matchRows' = DOMAIN matchRows \cup {Len(matchRows) + 1}
      /\ Len(matchRows) \in Nat /\ Len(matchRows) + 1 \notin DOMAIN matchRows
      /\ \A m \in DOMAIN matchRows : matchRows'[m] = matchRows[m]
      /\ matchRows'[Len(matchRows) + 1].of = S
      /\ \A i \in DOMAIN eventRows :
           eventRows'[i].matchId = IF i \in S THEN Len(matchRows) + 1 ELSE eventRows[i].matchId
  BY <1>5 DEF RecordedFacts
<1>7. /\ \A u \in tasks' : TaskOK(u, Len(eventRows'))
      /\ \A u \in Working' : \E v \in Working \ {t} : TRUE
      /\ \A u \in tasks : u.at \in {"find", "match"} =>
           u = t \/ \E v \in tasks' : v.row = u.row /\ v.at \in {"find", "match"}
      /\ loop' \in {"sleep", "poll", "expire", "mark"} /\ (loop' = "mark" <=> expiring # {})
      /\ loop' = "mark" => loop = "mark"
      /\ Passed' /\ FirstLogOnly' /\ Burns' /\ Awaited'
  <2>1. Len(eventRows') = Len(eventRows) /\ UNCHANGED <<blockCursor, callsMet>> BY <1>1, <1>6
  <2> QED BY ONLY BridgeInv, t \in tasks, <1>1, <1>5, <2>1, TaskEnds
<1>8. DOMAIN eventRows' = DOMAIN eventRows BY <1>5 DEF SameRows
<1>9. BridgeTypes' BY <1>1, <1>6, <1>7, <1>8 DEF BridgeInv, BridgeTypes
<1>10. \A i \in DOMAIN eventRows : Unlinked(i)' => Unlinked(i) /\ i \notin S
  <2>1. Len(matchRows) + 1 # 0 BY <1>6
  <2> QED BY <1>6, <2>1 DEF Unlinked
<1>11. Pairs'
  <2>1. ~Unlinked(t.row)' BY <1>4, <1>10
  <2> QED BY <1>1, <1>5, <1>7, <1>10, <2>1, PairsAside
<1>12. Single'
  <2>1. SUFFICES ASSUME ~overlapped, bridgeFaults = 0
                 PROVE  /\ Working' = {} /\ \A k \in expiring : Unlinked(k)'
                        /\ \A m \in DOMAIN matchRows' : \A k \in matchRows'[m].of : eventRows'[k].matchId = m
    BY <1>1 DEF Single
  <2>2. /\ \A u, v \in Working : u = v
        /\ Unlinked(t.row) /\ Unlinked(t.partner)
        /\ loop = "mark" => Working = {}
        /\ \A m \in DOMAIN matchRows : \A k \in matchRows[m].of : eventRows[k].matchId = m
    BY <1>1, <1>3, <2>1 DEF BridgeInv, Single
  <2>3. Working' = {} BY <1>3, <1>7, <2>2
  <2>4. expiring = {} BY <1>3, <2>2 DEF BridgeInv, BridgeTypes
  <2>5. ASSUME NEW m \in DOMAIN matchRows', NEW k \in matchRows'[m].of PROVE eventRows'[k].matchId = m
    <3>1. CASE m \in DOMAIN matchRows
      <4>1. k \in matchRows[m].of /\ k \in DOMAIN eventRows /\ eventRows[k].matchId = m
        BY <1>6, <2>2, <2>5, <3>1 DEF BridgeInv, Links
      <4>2. m # 0
        <5>1. matchRows \in Seq(MatchRecord) BY DEF BridgeInv, BridgeTypes
        <5> QED BY <3>1, <5>1
      <4>3. k \notin S BY <2>2, <4>1, <4>2 DEF Unlinked
      <4> QED BY <1>6, <4>1, <4>3
    <3>2. CASE m = Len(matchRows) + 1
      <4>1. k \in S BY <1>6, <2>5, <3>2
      <4> QED BY <1>4, <1>6, <3>2, <4>1
    <3> QED BY <1>6, <3>1, <3>2
  <2> QED BY <2>3, <2>4, <2>5
<1> QED BY <1>5, <1>7, <1>9, <1>11, <1>12 DEF BridgeInv

\* A task has the same right to be there when there are more rows.
LEMMA TaskStays ==
    ASSUME NEW t, NEW n \in Nat, TaskOK(t, n)
    PROVE  TaskOK(t, n + 1)
<1>1. t.row \in 0 .. n + 1 /\ t.partner \in 0 .. n + 1 BY DEF TaskOK
<1> QED BY <1>1 DEF TaskOK

\* A log that gets its row, and is then to be matched, keeps the invariant.
LEMMA CreateRowStep ==
    ASSUME BridgeInv, NEW t \in tasks, CreateRow(t)
    PROVE  BridgeInv'
<1> PICK n : n = Len(eventRows) + 1 OBVIOUS
<1>1. PICK e \in t.todo :
        /\ eventRows' = Append(eventRows, [event |-> e, matchId |-> 0])
        /\ Become(t, {[t EXCEPT !.at = "find", !.row = Len(eventRows) + 1, !.todo = {}]})
        /\ \A f \in t.todo : ~InChainOrder(f, e)
  BY DEF CreateRow
<1>2. /\ t.at = "create" /\ overlapped' = (overlapped \/ Working # {} \/ loop = "mark")
      /\ UNCHANGED <<matchRows, blockCursor, latestBlock, loop, expiring, calls, callsMet, bridgeFaults>>
  BY DEF CreateRow, chainvars, loopvars, callvars
<1> PICK r : r = [event |-> e, matchId |-> 0] OBVIOUS
<1> PICK todo : todo = {} OBVIOUS
<1> PICK u : u = [t EXCEPT !.at = "find", !.row = n, !.todo = todo] OBVIOUS
<1>3. eventRows' = Append(eventRows, r) /\ tasks' = (tasks \ {t}) \cup {u} BY <1>1 DEF Become
<1>4. TaskOK(t, Len(eventRows)) BY DEF BridgeInv, BridgeTypes
<1>5. e \in BridgeEvents /\ e.chain = t.chain /\ (t.chain \in EvmChains => e.block <= t.to) BY <1>1, <1>4 DEF TaskOK
<1>6. r \in EventRecord /\ r.event = e /\ r.matchId = 0 BY <1>5 DEF EventRecord
<1>7. eventRows \in Seq(EventRecord) /\ Len(eventRows) \in Nat BY DEF BridgeInv, BridgeTypes
<1>8. /\ eventRows' \in Seq(EventRecord) /\ Len(eventRows') = n /\ n \in Nat \ {0}
      /\ \A i \in 1 .. Len(eventRows) : eventRows'[i] = eventRows[i]
      /\ eventRows'[n] = r
  BY <1>3, <1>6, <1>7
<1>9. DOMAIN eventRows = 1 .. Len(eventRows) /\ DOMAIN eventRows' = 1 .. n BY <1>7, <1>8
<1>10. /\ DOMAIN eventRows' = DOMAIN eventRows \cup {n} /\ n \notin DOMAIN eventRows
       /\ \A i \in DOMAIN eventRows : i < n
  BY <1>7, <1>8, <1>9
<1>11. \A i \in DOMAIN eventRows : eventRows'[i] = eventRows[i] BY <1>8, <1>9
<1>12. /\ IsTask(u) /\ u.at = "find" /\ u.row = n /\ u.todo = todo
       /\ u.chain = t.chain /\ u.to = t.to /\ u.partner = t.partner /\ u.awaited = t.awaited
  BY <1>4 DEF TaskOK, IsTask
<1>13. TaskOK(t, n) BY <1>4, <1>7, TaskStays
<1>14. TaskOK(u, n)
  <2>1. n \in 0 .. n /\ n # 0 BY <1>8
  <2>2. todo \subseteq t.todo OBVIOUS
  <2> QED BY <1>12, <1>13, <2>1, <2>2 DEF TaskOK
<1>15. BridgeTypes'
  <2>1. \A x \in tasks : TaskOK(x, n) BY <1>7, TaskStays DEF BridgeInv, BridgeTypes
  <2>2. \A x \in tasks' : TaskOK(x, Len(eventRows')) BY <1>3, <1>8, <1>14, <2>1
  <2>3. expiring \subseteq DOMAIN eventRows' BY <1>10 DEF BridgeInv, BridgeTypes
  <2> QED BY <1>2, <1>8, <2>2, <2>3 DEF BridgeInv, BridgeTypes
<1>16. Links'
  <2>1. Links BY DEF BridgeInv
  <2>2. Len(matchRows) \in Nat BY DEF BridgeInv, BridgeTypes
  <2>3. \A i \in DOMAIN eventRows' : eventRows'[i].matchId \in 0 .. Len(matchRows)
    BY <2>1, <2>2, <1>6, <1>8, <1>10, <1>11 DEF Links
  <2>4. \A m \in DOMAIN matchRows : matchRows[m].of \subseteq DOMAIN eventRows' BY <2>1, <1>10 DEF Links
  <2>5. \A i \in DOMAIN eventRows' : eventRows'[i].matchId # 0 => i \in matchRows[eventRows'[i].matchId].of
    BY <2>1, <1>6, <1>8, <1>10, <1>11 DEF Links, LinkNamesRow
  <2> QED BY <1>2, <2>3, <2>4, <2>5 DEF Links, LinkNamesRow
<1>17. \A i \in DOMAIN eventRows : Unlinked(i)' <=> Unlinked(i) BY <1>11 DEF Unlinked
<1>18. Unlinked(n)' BY <1>6, <1>8 DEF Unlinked
<1>19. Pairs'
  <2>1. SUFFICES ASSUME bridgeFaults = 0, NEW i \in DOMAIN eventRows', NEW k \in DOMAIN eventRows',
                        i < k, Matchable(i, k)', Unlinked(i)', Unlinked(k)'
                 PROVE  \E x \in tasks' : x.row = k /\ x.at \in {"find", "match"}
    BY <1>2 DEF Pairs
  <2>2. CASE k = n BY <2>2, <1>3, <1>12
  <2>3. CASE k # n
    <3>1. k \in DOMAIN eventRows /\ i \in DOMAIN eventRows
      <4>1. k \in DOMAIN eventRows BY <2>3, <1>10
      <4>2. i # n BY <4>1, <2>1, <1>7, <1>8, <1>9
      <4> QED BY <4>1, <4>2, <1>10
    <3>2. Matchable(i, k)
      <4>1. eventRows'[i] = eventRows[i] /\ eventRows'[k] = eventRows[k] BY <3>1, <1>11
      <4> QED BY <2>1, <4>1 DEF Matchable
    <3>3. PICK x \in tasks : x.row = k /\ x.at \in {"find", "match"}
      BY <1>17, <2>1, <3>1, <3>2 DEF BridgeInv, Pairs
    <3> QED BY <1>2, <1>3, <3>3
  <2> QED BY <2>2, <2>3
<1>20. Single'
  <2>1. SUFFICES ASSUME ~overlapped', bridgeFaults = 0
                 PROVE  /\ \A x, y \in Working' : x = y
                        /\ \A x \in Working' : Unlinked(x.row)' /\ (x.at = "match" => Unlinked(x.partner)')
                        /\ loop = "mark" => Working' = {}
                        /\ \A i \in expiring : Unlinked(i)'
                        /\ \A m \in DOMAIN matchRows : \A i \in matchRows[m].of : eventRows'[i].matchId = m
    BY <1>2 DEF Single, Unlinked
  <2>2. ~overlapped /\ Working = {} /\ loop # "mark" BY <1>2, <2>1
  <2>3. \A x \in Working' : x = u BY <1>3, <2>2 DEF Working
  <2>4. \A x \in Working' : Unlinked(x.row)' /\ x.at = "find"
    <3>1. Unlinked(u.row)' BY <1>12, <1>18 DEF Unlinked
    <3> QED BY <1>12, <2>3, <3>1 DEF Unlinked
  <2>5. /\ \A i \in expiring : Unlinked(i)
        /\ \A m \in DOMAIN matchRows : \A i \in matchRows[m].of : eventRows[i].matchId = m
        /\ expiring \subseteq DOMAIN eventRows
        /\ \A m \in DOMAIN matchRows : matchRows[m].of \subseteq DOMAIN eventRows
    BY <2>1, <2>2 DEF BridgeInv, Single, BridgeTypes, Links
  <2>6. \A i \in expiring : Unlinked(i)' BY <2>5, <1>17
  <2>7. \A m \in DOMAIN matchRows : \A i \in matchRows[m].of : eventRows'[i].matchId = m BY <2>5, <1>11
  <2> QED BY <2>2, <2>3, <2>4, <2>6, <2>7
<1>21. \A x \in tasks' : (x \in tasks /\ x # t) \/ x = u BY <1>3
<1>22. Passed'
  <2>1. \A x \in tasks' : x.at \in {"create", "cursor"} => x \in tasks BY <1>12, <1>21
  <2> QED BY <1>2, <2>1, PassedAside
<1>23. FirstLogOnly'
  <2>1. SUFFICES ASSUME NEW i \in DOMAIN eventRows', NEW f \in BridgeEvents, eventRows'[i].event.chain = f.chain,
                        f.chain \in EvmChains, FromStart(f.chain), InChainOrder(f, eventRows'[i].event)
                 PROVE  FALSE
    BY DEF FirstLogOnly, FromStart
  <2>2. CASE i \in DOMAIN eventRows
    BY <1>11, <2>1, <2>2 DEF BridgeInv, FirstLogOnly
  <2>3. CASE i = n
    <3>1. f.chain = t.chain /\ InChainOrder(f, e) BY <1>5, <1>6, <1>8, <2>1, <2>3
    <3>2. f.block \in Nat /\ e.block \in Nat /\ t.to \in Nat BY <1>4, <1>5, BridgeAssumption DEF TaskOK
    <3>3. f.block <= e.block BY <3>1, <3>2 DEF InChainOrder
    <3>4. f.block <= t.to BY <1>5, <2>1, <3>1, <3>2, <3>3
    <3>5. f \in t.todo BY <1>2, <2>1, <3>1, <3>4 DEF BridgeInv, Passed
    <3> QED BY <1>1, <3>1, <3>5
  <2> QED BY <1>10, <2>1, <2>2, <2>3
<1>25. Burns'
  <2>1. Burns BY DEF BridgeInv
  <2>2. t.chain = Stellar => e.type = "burn" BY <1>1, <1>4 DEF TaskOK
  <2>3. BurnRows' BY <1>5, <1>6, <1>8, <1>10, <1>11, <2>1, <2>2 DEF Burns, BurnRows
  <2>4. ASSUME ~callsMet, NEW i \in DOMAIN eventRows, e.chain = Stellar, eventRows[i].event.chain = Stellar
        PROVE  eventRows[i].event.tx # e.tx
    <3>1. NewBurns(t) BY <1>2, <1>5, <2>1, <2>4 DEF Burns
    <3> QED BY <1>1, <2>4, <3>1 DEF NewBurns
  <2>5. BurnStoredOnce'
    <3>1. SUFFICES ASSUME ~callsMet, NEW i \in DOMAIN eventRows', NEW k \in DOMAIN eventRows',
                          eventRows'[i].event.chain = Stellar, eventRows'[k].event.chain = Stellar,
                          eventRows'[i].event.tx = eventRows'[k].event.tx
                   PROVE  i = k
      BY <1>2 DEF BurnStoredOnce
    <3>2. CASE i = n /\ k \in DOMAIN eventRows BY <1>6, <1>8, <1>11, <2>4, <3>1, <3>2
    <3>3. CASE k = n /\ i \in DOMAIN eventRows BY <1>6, <1>8, <1>11, <2>4, <3>1, <3>3
    <3>4. CASE i \in DOMAIN eventRows /\ k \in DOMAIN eventRows
      BY <1>11, <2>1, <3>1, <3>4 DEF Burns, BurnStoredOnce
    <3> QED BY <1>10, <3>2, <3>3, <3>4
  <2>6. ASSUME ~callsMet
        PROVE  OneCall' /\ \A x \in tasks' : x.chain = Stellar /\ x.at = "create" => NewBurns(x)'
    <3>1. \A x, y \in tasks : x.chain = Stellar /\ y.chain = Stellar => x = y BY <2>1, <2>6 DEF Burns, OneCall
    <3>2. OneCall' BY <1>12, <1>21, <3>1 DEF OneCall
    <3>3. ASSUME NEW x \in tasks', x.chain = Stellar, x.at = "create" PROVE NewBurns(x)'
      <4>1. x \in tasks /\ x # t BY <1>12, <1>21, <3>3
      <4>2. t.chain # Stellar BY <3>1, <3>3, <4>1
      <4>3. NewBurns(x) BY <2>1, <2>6, <3>3, <4>1 DEF Burns
      <4>4. e.chain # Stellar BY <1>5, <4>2
      <4> QED BY <1>6, <1>8, <1>10, <1>11, <4>3, <4>4 DEF NewBurns
    <3> QED BY <3>2, <3>3
  <2> QED BY <1>2, <2>3, <2>5, <2>6 DEF Burns
<1>24. Awaited'
  <2>1. \A x \in tasks' : \E y \in tasks : x.chain = y.chain /\ x.awaited = y.awaited BY <1>3, <1>12
  <2> QED BY <1>2, <2>1, AwaitedAside
<1> QED BY <1>15, <1>16, <1>19, <1>20, <1>22, <1>23, <1>24, <1>25 DEF BridgeInv

-----------------------------------------------------------------------------

\* Reading the burns that are past the timeout keeps the invariant.
LEMMA ReadStaleStep ==
    ASSUME BridgeInv, ReadStale
    PROVE  BridgeInv'
<1>1. /\ loop = "expire" /\ expiring' = StaleBurns /\ loop' = IF StaleBurns = {} THEN "sleep" ELSE "mark"
      /\ overlapped' = (overlapped \/ Working # {})
      /\ UNCHANGED <<eventRows, matchRows, tasks, blockCursor, latestBlock, calls, callsMet, bridgeFaults>>
  BY DEF ReadStale, chainvars, callvars
<1>2. StaleBurns \subseteq DOMAIN eventRows /\ \A i \in StaleBurns : Unlinked(i) BY DEF StaleBurns, Unlinked
<1>3. BridgeTypes'
  <2>1. /\ loop' \in {"sleep", "poll", "expire", "mark"} /\ (loop' = "mark" <=> expiring' # {})
        /\ expiring' \subseteq DOMAIN eventRows
    BY <1>1, <1>2
  <2> QED BY <1>1, <2>1 DEF BridgeInv, BridgeTypes
<1>4. Links' BY <1>1, LinksAside
<1>5. SameRows BY <1>1, SameUnchanged
<1>6. Pairs' BY <1>1, <1>5, PairsAside DEF Unlinked
<1>7. Single'
  <2>1. SUFFICES ASSUME ~overlapped', bridgeFaults = 0 PROVE Single' BY <1>1 DEF Single
  <2>2. ~overlapped /\ Working = {} BY <1>1, <2>1
  <2>3. Working' = {} BY <1>1, <2>2 DEF Working
  <2>4. \A i \in expiring' : Unlinked(i)' BY <1>1, <1>2 DEF Unlinked
  <2>5. \A m \in DOMAIN matchRows : \A i \in matchRows[m].of : eventRows[i].matchId = m
    BY <2>1, <2>2 DEF BridgeInv, Single
  <2> QED BY <1>1, <2>3, <2>4, <2>5 DEF Single
<1>8. Passed' BY <1>1, <1>5, PassedAside
<1>9. FirstLogOnly' /\ Burns' BY <1>1, <1>5, FirstsAside, BurnsAside
<1>10. Awaited' BY <1>1, AwaitedAside
<1> QED BY <1>3, <1>4, <1>6, <1>7, <1>8, <1>9, <1>10 DEF BridgeInv

\* Marking a burn as unmatched keeps the invariant.
LEMMA MarkUnmatchedStep ==
    ASSUME BridgeInv, MarkUnmatched
    PROVE  BridgeInv'
<1>1. /\ loop = "mark" /\ overlapped' = (overlapped \/ Working # {})
      /\ UNCHANGED <<tasks, blockCursor, latestBlock, calls, callsMet, bridgeFaults>>
  BY DEF MarkUnmatched, chainvars, callvars
<1>2. PICK i \in expiring :
        /\ matchRows' = Append(matchRows, [status |-> "unmatched", of |-> {i}])
        /\ eventRows' = [eventRows EXCEPT ![i].matchId = Len(matchRows) + 1]
        /\ expiring' = expiring \ {i}
        /\ loop' = IF expiring = {i} THEN "sleep" ELSE "mark"
  BY DEF MarkUnmatched
<1> PICK S : S = {i} OBVIOUS
<1>3. S \subseteq DOMAIN eventRows BY <1>2 DEF BridgeInv, BridgeTypes
<1>4. Recorded(S, S, "unmatched")
  <2>1. eventRows \in Seq(EventRecord) BY DEF BridgeInv, BridgeTypes
  <2>2. eventRows = [k \in DOMAIN eventRows |-> eventRows[k]] BY <2>1
  <2>3. eventRows' = [k \in DOMAIN eventRows |->
          IF k \in S THEN [eventRows[k] EXCEPT !.matchId = Len(matchRows) + 1] ELSE eventRows[k]]
    BY <1>2, <1>3, <2>2
  <2> QED BY <1>2, <2>3 DEF Recorded
<1>5. RecordedFacts(S, S) /\ SameRows /\ Links'
  <2>1. "unmatched" \in {"matched", "unmatched"} /\ S \subseteq S OBVIOUS
  <2> QED BY ONLY BridgeInv, <1>3, <1>4, <2>1, RecordedHas
<1>6. /\ eventRows' \in Seq(EventRecord) /\ Len(eventRows') = Len(eventRows)
      /\ matchRows' \in Seq(MatchRecord) /\ DOMAIN matchRows' = DOMAIN matchRows \cup {Len(matchRows) + 1}
      /\ Len(matchRows) \in Nat /\ Len(matchRows) + 1 \notin DOMAIN matchRows
      /\ \A m \in DOMAIN matchRows : matchRows'[m] = matchRows[m]
      /\ matchRows'[Len(matchRows) + 1].of = S
      /\ \A k \in DOMAIN eventRows :
           eventRows'[k].matchId = IF k \in S THEN Len(matchRows) + 1 ELSE eventRows[k].matchId
  BY <1>5 DEF RecordedFacts
<1>7. DOMAIN eventRows' = DOMAIN eventRows BY <1>5 DEF SameRows
<1>8. BridgeTypes'
  <2>1. \A x \in tasks' : TaskOK(x, Len(eventRows')) BY <1>1, <1>6 DEF BridgeInv, BridgeTypes
  <2>2. /\ loop' \in {"sleep", "poll", "expire", "mark"} /\ (loop' = "mark" <=> expiring' # {})
        /\ expiring' \subseteq DOMAIN eventRows'
    BY <1>2, <1>7 DEF BridgeInv, BridgeTypes
  <2> QED BY <1>1, <1>6, <2>1, <2>2 DEF BridgeInv, BridgeTypes
<1>9. \A k \in DOMAIN eventRows : Unlinked(k)' <=> Unlinked(k) /\ k \notin S
  <2>1. Len(matchRows) + 1 # 0 BY <1>6
  <2> QED BY <1>6, <2>1 DEF Unlinked
<1>10. Pairs' BY <1>1, <1>5, <1>9, PairsAside
<1>11. Single'
  <2>1. SUFFICES ASSUME ~overlapped', bridgeFaults = 0 PROVE Single' BY <1>1 DEF Single
  <2>2. ~overlapped /\ Working = {} BY <1>1, <2>1
  <2>3. Working' = {} BY <1>1, <2>2 DEF Working
  <2>4. /\ \A k \in expiring : Unlinked(k)
        /\ \A m \in DOMAIN matchRows : \A k \in matchRows[m].of : eventRows[k].matchId = m
    BY <2>1, <2>2 DEF BridgeInv, Single
  <2>5. \A k \in expiring' : Unlinked(k)'
    <3>1. \A k \in expiring' : k \in expiring /\ k \notin S /\ k \in DOMAIN eventRows
      BY <1>2 DEF BridgeInv, BridgeTypes
    <3> QED BY <1>9, <2>4, <3>1
  <2>6. ASSUME NEW m \in DOMAIN matchRows', NEW k \in matchRows'[m].of PROVE eventRows'[k].matchId = m
    <3>1. CASE m \in DOMAIN matchRows
      <4>1. k \in matchRows[m].of /\ k \in DOMAIN eventRows /\ eventRows[k].matchId = m
        BY <1>6, <2>4, <2>6, <3>1 DEF BridgeInv, Links
      <4>2. m # 0
        <5>1. matchRows \in Seq(MatchRecord) BY DEF BridgeInv, BridgeTypes
        <5> QED BY <3>1, <5>1
      <4>3. k \notin S BY <1>2, <2>4, <4>1, <4>2 DEF Unlinked
      <4> QED BY <1>6, <4>1, <4>3
    <3>2. CASE m = Len(matchRows) + 1
      <4>1. k \in S BY <1>6, <2>6, <3>2
      <4> QED BY <1>3, <1>6, <3>2, <4>1
    <3> QED BY <1>6, <3>1, <3>2
  <2> QED BY <2>3, <2>5, <2>6 DEF Single
<1>12. Passed' BY <1>1, <1>5, PassedAside
<1>13. FirstLogOnly' /\ Burns' BY <1>1, <1>5, FirstsAside, BurnsAside
<1>14. Awaited' BY <1>1, AwaitedAside
<1> QED BY <1>5, <1>8, <1>10, <1>11, <1>12, <1>13, <1>14 DEF BridgeInv

\* What a failure has to leave in order.
LEMMA AfterFault ==
    ASSUME BridgeInv, Fault
    PROVE  bridgeFaults' \in 0 .. MaxBridgeFaults /\ Pairs' /\ Single'
<1>1. /\ bridgeFaults \in 0 .. MaxBridgeFaults /\ bridgeFaults < MaxBridgeFaults /\ bridgeFaults' = bridgeFaults + 1
      /\ MaxBridgeFaults \in Nat
  BY BridgeAssumption DEF BridgeInv, BridgeTypes, Fault
<1>2. bridgeFaults' \in 0 .. MaxBridgeFaults /\ bridgeFaults' # 0 BY <1>1
<1> QED BY <1>2 DEF Pairs, Single

\* The end of the indexer keeps the invariant.
LEMMA IndexerDiesStep ==
    ASSUME BridgeInv, IndexerDies
    PROVE  BridgeInv'
<1>1. /\ Fault /\ tasks' = {t \in tasks : t.chain = Stellar} /\ loop' = "sleep" /\ expiring' = {}
      /\ UNCHANGED <<eventRows, matchRows, blockCursor, latestBlock, calls, callsMet, overlapped>>
  BY DEF IndexerDies, chainvars, callvars
<1>2. bridgeFaults' \in 0 .. MaxBridgeFaults /\ Pairs' /\ Single' BY <1>1, AfterFault
<1>3. BridgeTypes' BY <1>1, <1>2 DEF BridgeInv, BridgeTypes
<1>4. Links' BY <1>1, LinksAside
<1>5. SameRows BY <1>1, SameUnchanged
<1>6. Passed' BY <1>1, <1>5, PassedAside
<1>8. FirstLogOnly' /\ Burns' BY <1>1, <1>5, FirstsAside, BurnsAside
<1>7. Awaited' BY <1>1, BridgeAssumption DEF Awaited
<1> QED BY <1>2, <1>3, <1>4, <1>6, <1>7, <1>8 DEF BridgeInv

\* A failure of the expiry keeps the invariant.
LEMMA ExpiryFailsStep ==
    ASSUME BridgeInv, ExpiryFails
    PROVE  BridgeInv'
<1>1. /\ Fault /\ loop \in {"expire", "mark"} /\ loop' = "sleep" /\ expiring' = {}
      /\ UNCHANGED <<eventRows, tasks, blockCursor, latestBlock, calls, callsMet, overlapped>>
  BY DEF ExpiryFails, chainvars, callvars
<1>2. bridgeFaults' \in 0 .. MaxBridgeFaults /\ Pairs' /\ Single' BY <1>1, AfterFault
<1>3. eventRows \in Seq(EventRecord) /\ matchRows \in Seq(MatchRecord) BY DEF BridgeInv, BridgeTypes
<1>4. matchRows' \in Seq(MatchRecord) /\ Links'
  <2>1. CASE UNCHANGED matchRows BY <2>1, <1>1, <1>3, LinksAside
  <2>2. CASE \E i \in expiring : matchRows' = Append(matchRows, [status |-> "unmatched", of |-> {i}])
    <3>1. PICK i \in expiring : matchRows' = Append(matchRows, [status |-> "unmatched", of |-> {i}]) BY <2>2
    <3> PICK S, none : S = {i} /\ none = {} OBVIOUS
    <3>2. S \subseteq DOMAIN eventRows /\ none \subseteq S BY <3>1 DEF BridgeInv, BridgeTypes
    <3>3. Recorded(S, none, "unmatched")
      <4>1. eventRows = [k \in DOMAIN eventRows |-> eventRows[k]] BY <1>3
      <4>2. eventRows' = [k \in DOMAIN eventRows |->
              IF k \in none THEN [eventRows[k] EXCEPT !.matchId = Len(matchRows) + 1] ELSE eventRows[k]]
        BY <1>1, <4>1
      <4> QED BY <3>1, <4>2 DEF Recorded
    <3>4. RecordedFacts(S, none) /\ Links'
      <4>1. "unmatched" \in {"matched", "unmatched"} OBVIOUS
      <4> QED BY ONLY BridgeInv, <3>2, <3>3, <4>1, RecordedHas
    <3> QED BY <3>4 DEF RecordedFacts
  <2> QED BY <2>1, <2>2 DEF ExpiryFails
<1>5. BridgeTypes' BY <1>1, <1>2, <1>4 DEF BridgeInv, BridgeTypes
<1>6. SameRows BY <1>1, SameUnchanged
<1>7. Passed' BY <1>1, <1>6, PassedAside
<1>9. FirstLogOnly' /\ Burns' BY <1>1, <1>6, FirstsAside, BurnsAside
<1>8. Awaited' BY <1>1 DEF BridgeInv, Awaited
<1> QED BY <1>2, <1>4, <1>5, <1>7, <1>8, <1>9 DEF BridgeInv

\* A failure of a task keeps the invariant, with whatever it leaves of a match.
LEMMA TaskFailsStep ==
    ASSUME BridgeInv, NEW t \in tasks, TaskFails(t)
    PROVE  BridgeInv'
<1>1. Fault /\ TaskThrows(t) /\ UNCHANGED <<blockCursor, latestBlock, expiring, calls, callsMet, overlapped>> BY DEF TaskFails, chainvars, callvars
<1>2. bridgeFaults' \in 0 .. MaxBridgeFaults /\ Pairs' /\ Single' BY <1>1, AfterFault
<1>3. eventRows \in Seq(EventRecord) /\ matchRows \in Seq(MatchRecord) BY DEF BridgeInv, BridgeTypes
<1>4. /\ eventRows' \in Seq(EventRecord) /\ Len(eventRows') = Len(eventRows)
      /\ matchRows' \in Seq(MatchRecord) /\ Links' /\ SameRows
  <2> PICK S, none : S = {t.row, t.partner} /\ none = {} OBVIOUS
  <2>1. CASE UNCHANGED <<eventRows, matchRows>> BY <2>1, <1>3, LinksAside, SameUnchanged
  <2>2. ASSUME t.at = "match" PROVE S \subseteq DOMAIN eventRows
    BY <2>2, RowTypes DEF BridgeInv, BridgeTypes, TaskOK
  <2>3. "matched" \in {"matched", "unmatched"} /\ none \subseteq S /\ S \subseteq S OBVIOUS
  <2>4. CASE PersistMatch(t, {})
    <3>1. t.at = "match" /\ Recorded(S, none, "matched") BY <2>4 DEF PersistMatch, Recorded
    <3>2. S \subseteq DOMAIN eventRows BY <2>2, <3>1
    <3>3. RecordedFacts(S, none) /\ SameRows /\ Links' BY ONLY BridgeInv, <2>3, <3>1, <3>2, RecordedHas
    <3> QED BY <3>3 DEF RecordedFacts
  <2>5. CASE PersistMatch(t, {t.row, t.partner})
    <3>1. t.at = "match" /\ Recorded(S, S, "matched") BY <2>5 DEF PersistMatch, Recorded
    <3>2. S \subseteq DOMAIN eventRows BY <2>2, <3>1
    <3>3. RecordedFacts(S, S) /\ SameRows /\ Links' BY ONLY BridgeInv, <2>3, <3>1, <3>2, RecordedHas
    <3> QED BY <3>3 DEF RecordedFacts
  <2> QED BY <2>1, <2>4, <2>5 DEF TaskFails
<1>6. /\ \A x \in tasks' : TaskOK(x, Len(eventRows'))
      /\ loop' \in {"sleep", "poll", "expire", "mark"} /\ (loop' = "mark" <=> expiring # {})
      /\ Passed' /\ FirstLogOnly' /\ Burns' /\ Awaited'
  BY <1>1, <1>4, TaskEnds
<1>7. BridgeTypes'
  <2>1. expiring \subseteq DOMAIN eventRows' BY <1>4 DEF BridgeInv, BridgeTypes, SameRows
  <2> QED BY <1>1, <1>2, <1>4, <1>6, <2>1 DEF BridgeInv, BridgeTypes
<1> QED BY <1>2, <1>4, <1>6, <1>7 DEF BridgeInv

\* A stuttering step keeps the invariant.
LEMMA BridgeStutter ==
    ASSUME BridgeInv, UNCHANGED bridgevars
    PROVE  BridgeInv'
<1>1. UNCHANGED <<eventRows, matchRows, tasks, blockCursor, latestBlock, loop, expiring, calls, callsMet, overlapped, bridgeFaults>>
  BY DEF bridgevars, chainvars, loopvars, callvars
<1>2. BridgeTypes' BY <1>1 DEF BridgeInv, BridgeTypes
<1>3. Links' BY <1>1, LinksAside
<1>4. SameRows BY <1>1, SameUnchanged
<1>5. Pairs' BY <1>1, <1>4, PairsAside DEF Unlinked
<1>6. Single' BY <1>1, SingleAside DEF Working
<1>7. Passed' BY <1>1, <1>4, PassedAside
<1>8. FirstLogOnly' /\ Burns' BY <1>1, <1>4, FirstsAside, BurnsAside
<1>9. Awaited' BY <1>1, AwaitedAside
<1> QED BY <1>2, <1>3, <1>5, <1>6, <1>7, <1>8, <1>9 DEF BridgeInv

\* Every step keeps the invariant.
LEMMA BridgePreserved == BridgeInv /\ [BridgeNext]_bridgevars => BridgeInv'
<1> SUFFICES ASSUME BridgeInv, [BridgeNext]_bridgevars PROVE BridgeInv' OBVIOUS
<1>1. CASE StartPolls BY <1>1, StartPollsStep
<1>2. CASE PollsDone BY <1>2, PollsDoneStep
<1>3. CASE ReadStale BY <1>3, ReadStaleStep
<1>4. CASE MarkUnmatched BY <1>4, MarkUnmatchedStep
<1>5. CASE ExpiryFails BY <1>5, ExpiryFailsStep
<1>6. CASE IndexerDies BY <1>6, IndexerDiesStep
<1>7. ASSUME NEW c \in EvmChains, NextBlock(c) PROVE BridgeInv' BY <1>7, BlockStep
<1>8. ASSUME NEW e \in BridgeEvents, StellarEvent(e) PROVE BridgeInv' BY <1>8, StellarStep
<1>9. ASSUME NEW t \in tasks, pollChain(t) PROVE BridgeInv'
  <2>1. CASE Lookup(t) BY <2>1, LookupStep
  <2>2. CASE CreateRow(t) BY <2>2, CreateRowStep
  <2>3. CASE Find(t) BY <2>3, FindStep
  <2>4. CASE Link(t) BY <2>4, LinkStep
  <2>5. CASE AdvanceCursor(t) BY <2>5, AdvanceCursorStep
  <2>6. CASE TaskFails(t) BY <2>6, TaskFailsStep
  <2> QED BY <1>9, <2>1, <2>2, <2>3, <2>4, <2>5, <2>6 DEF pollChain
<1>10. CASE UNCHANGED bridgevars BY <1>10, BridgeStutter
<1> QED BY <1>1, <1>2, <1>3, <1>4, <1>5, <1>6, <1>7, <1>8, <1>9, <1>10 DEF BridgeNext

\* Whatever chains, logs and failures: pairs are found and belong together, and every log
\* a poll reads gets its row (evm-bridge-indexer.ts with lib/bridge/matcher.ts).
THEOREM BridgeCorrect == BridgeSpec => []BridgeSafety
<1>1. BridgeInit => BridgeInv BY BridgeInitial
<1>2. BridgeInv /\ [BridgeNext]_bridgevars => BridgeInv' BY BridgePreserved
<1>3. BridgeInv => BridgeSafety BY BridgeAccounts
<1> QED BY <1>1, <1>2, <1>3, PTL DEF BridgeSpec

=============================================================================
