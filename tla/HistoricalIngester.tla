------------------------- MODULE HistoricalIngester -------------------------
(***************************************************************************)
(* The back-fill of lib/stellar/historical-ingester.ts                     *)
(* (ingestHistoricalRange): one request per chunk of ledgers, each with    *)
(* the retries of fetchEventsWithRetry.                                    *)
(*                                                                         *)
(* Every ledger carries one event, named by its number.                    *)
(***************************************************************************)
EXTENDS Naturals, FiniteSets

CONSTANTS
    MaxLedger,         \* bound on ledger numbers
    MaxChunk,          \* bound on chunkSize
    MaxRetries         \* retryConfig.maxRetries

ASSUME IngesterAssumption ==
    /\ MaxLedger \in Nat \ {0} /\ MaxChunk \in Nat \ {0} /\ MaxRetries \in Nat

VARIABLES
    startSequence, endSequence, chunkSize, continueOnFailure,  \* the options
    tip,         \* latest ledger of the chain
    chunkIndex,  \* the loop variable
    phase,       \* what the ingester awaits, or how it ended
    attempt,     \* failed attempts of the current request
    events,      \* events of the response being handled
    fetchedAt,   \* history: tip when each chunk was fetched, 0 before
    handed,      \* history: what onChunkComplete accepted, by chunk
    failed,      \* history: chunks that raised an error
    totalEvents  \* the running total reported to onComplete

options == <<startSequence, endSequence, chunkSize, continueOnFailure>>
vars == <<options, tip, chunkIndex, phase, attempt, events, fetchedAt, handed,
          failed, totalEvents>>

Ledgers == 1 .. MaxLedger

totalChunks == (endSequence - startSequence + 1 + chunkSize - 1) \div chunkSize

chunkStart(i) == startSequence + i * chunkSize

\* Regression: the last ledger of a chunk is left out.
chunkEndShort(i) ==
    LET e == chunkStart(i) + chunkSize - 2 IN IF e < endSequence THEN e ELSE endSequence

chunkEnd(i) ==
    LET e == chunkStart(i) + chunkSize - 1 IN IF e < endSequence THEN e ELSE endSequence

Chunks == 0 .. totalChunks - 1

\* getEvents is given the first ledger only: the answer runs to the tip (a node
\* is assumed not to cut it off, as the code never asks for a second page).
response == chunkStart(chunkIndex) .. tip

Init ==
    /\ startSequence \in 0 .. MaxLedger
    /\ endSequence \in Ledgers
    /\ chunkSize \in 1 .. MaxChunk
    /\ continueOnFailure \in BOOLEAN
    /\ tip \in Ledgers
    /\ chunkIndex = 0
    /\ phase = IF startSequence < 1 \/ endSequence < startSequence THEN "rejected" ELSE "fetch"
    /\ attempt = 0
    /\ events = {}
    /\ fetchedAt = [i \in 0 .. MaxLedger |-> 0]
    /\ handed = [i \in 0 .. MaxLedger |-> {}]
    /\ failed = {}
    /\ totalEvents = 0

CloseLedger ==
    /\ tip < MaxLedger /\ phase \in {"fetch", "chunk", "complete"}
    /\ tip' = tip + 1
    /\ UNCHANGED <<options, chunkIndex, phase, attempt, events, fetchedAt, handed, failed, totalEvents>>

\* The head of the for loop, for chunk i.
NextChunk(i) ==
    /\ chunkIndex' = i
    /\ phase' = IF i < totalChunks THEN "fetch" ELSE "complete"
    /\ attempt' = 0
    /\ events' = {}

FetchOk ==
    /\ phase = "fetch"
    /\ events' = response
    /\ fetchedAt' = [fetchedAt EXCEPT ![chunkIndex] = tip]
    /\ totalEvents' = totalEvents + Cardinality(response)
    /\ phase' = "chunk"
    /\ UNCHANGED <<options, tip, chunkIndex, attempt, handed, failed>>

\* A retriable error with attempts left.
FetchRetry ==
    /\ phase = "fetch" /\ attempt < MaxRetries
    /\ attempt' = attempt + 1
    /\ UNCHANGED <<options, tip, chunkIndex, phase, events, fetchedAt, handed, failed, totalEvents>>

\* Regression: after a failed chunk the loop runs it again instead of going on.
ChunkFailsAgain ==
    /\ phase \in {"fetch", "chunk"}
    /\ failed' = failed \cup {chunkIndex}
    /\ IF continueOnFailure
       THEN NextChunk(chunkIndex)
       ELSE phase' = "threw" /\ UNCHANGED <<chunkIndex, attempt, events>>
    /\ UNCHANGED <<options, tip, fetchedAt, handed, totalEvents>>

\* Regression: a failed chunk is reported and skipped whatever the option says.
ChunkFailsGoesOn ==
    /\ phase \in {"fetch", "chunk"}
    /\ failed' = failed \cup {chunkIndex}
    /\ NextChunk(chunkIndex + 1)
    /\ UNCHANGED <<options, tip, fetchedAt, handed, totalEvents>>

\* The request fails for good, or onChunkComplete throws.
ChunkFails ==
    /\ phase \in {"fetch", "chunk"}
    /\ failed' = failed \cup {chunkIndex}
    /\ IF continueOnFailure
       THEN NextChunk(chunkIndex + 1)
       ELSE phase' = "threw" /\ UNCHANGED <<chunkIndex, attempt, events>>
    /\ UNCHANGED <<options, tip, fetchedAt, handed, totalEvents>>

\* Regression: the loop steps over every other chunk.
ChunkHandedSkip ==
    /\ phase = "chunk"
    /\ handed' = [handed EXCEPT ![chunkIndex] = events]
    /\ NextChunk(chunkIndex + 2)
    /\ UNCHANGED <<options, tip, fetchedAt, failed, totalEvents>>

ChunkHanded ==
    /\ phase = "chunk"
    /\ handed' = [handed EXCEPT ![chunkIndex] = events]
    /\ NextChunk(chunkIndex + 1)
    /\ UNCHANGED <<options, tip, fetchedAt, failed, totalEvents>>

\* onComplete may reject too, which the caller sees.
Complete ==
    /\ phase = "complete"
    /\ phase' \in {"done", "threw"}
    /\ UNCHANGED <<options, tip, chunkIndex, attempt, events, fetchedAt, handed, failed, totalEvents>>

Ended == phase \in {"done", "threw", "rejected"} /\ UNCHANGED vars

Ingest == FetchOk \/ FetchRetry \/ ChunkFails \/ ChunkHanded \/ Complete

Next == CloseLedger \/ Ingest \/ Ended

Spec == Init /\ [][Next]_vars

FairSpec == Spec /\ WF_vars(Ingest)

-----------------------------------------------------------------------------
(* Properties.                                                           *)

TypeOK ==
    /\ startSequence \in 0 .. MaxLedger /\ endSequence \in Ledgers
    /\ chunkSize \in 1 .. MaxChunk /\ continueOnFailure \in BOOLEAN
    /\ tip \in Ledgers
    /\ chunkIndex \in 0 .. MaxLedger
    /\ phase \in {"rejected", "fetch", "chunk", "complete", "done", "threw"}
    /\ attempt \in 0 .. MaxRetries
    /\ events \subseteq Ledgers
    /\ fetchedAt \in [0 .. MaxLedger -> 0 .. MaxLedger]
    /\ handed \in [0 .. MaxLedger -> SUBSET Ledgers]
    /\ failed \subseteq 0 .. MaxLedger
    /\ totalEvents \in Nat

\* When the back-fill reports completion, each event of a ledger in the range
\* that was closed when the back-fill reached it was handed over with the chunk
\* its ledger belongs to, unless that chunk failed and the caller said go on.
CompleteCoversRange ==
    phase = "done" =>
        \A l \in startSequence .. endSequence :
            \E i \in Chunks :
                /\ l \in chunkStart(i) .. chunkEnd(i)
                /\ i \notin failed =>
                      fetchedAt[i] # 0 /\ (l <= fetchedAt[i] => l \in handed[i])

\* A failed chunk ends the back-fill unless continueOnFailure is set.
FailureStops == phase = "done" /\ ~continueOnFailure => failed = {}

\* The back-fill ends, whatever the RPC node answers.
IngestEnds == <>(phase \in {"done", "threw", "rejected"})

\* What the completion of a back-fill means for its range and its failed chunks.
BackfillSafety == TypeOK /\ CompleteCoversRange /\ FailureStops
=============================================================================
