----------------------------- MODULE ColumnStore -----------------------------
(***************************************************************************)
(* Back-fills into ClickHouse: POST of app/api/ingest-historical/route.ts  *)
(* over the shared buffer of lib/db/clickhouse-ingest.ts.  The requests    *)
(* take turns at every await: a chunk of events, an insert, the cursor.    *)
(*                                                                         *)
(* ingestHistoricalRange() is HistoricalIngester.tla; here it gives a      *)
(* request its chunks, or throws.  The client of lib/db/clickhouse.ts sets *)
(* async_insert and no wait_for_async_insert: ClickHouse answers an insert *)
(* when it has queued it, and writes the queue, or loses it, later.        *)
(***************************************************************************)
EXTENDS Naturals, Sequences, FiniteSets, SequencesExt

CONSTANTS
    Backfills,      \* requests
    chunksOf,       \* request -> its chunks, sequences of rows
    timestamped,    \* the rows with a timestamp: RawEvents have one, what getEvents() answers has not
    BATCH_SIZE,
    MaxStoreFaults

\* The rows of a request.
RowsOf(p) == UNION {Range(chunksOf[p][n]) : n \in DOMAIN chunksOf[p]}

ASSUME ColumnStoreAssumption ==
    /\ BATCH_SIZE \in Nat \ {0} /\ MaxStoreFaults \in Nat
    /\ \A p \in Backfills : chunksOf[p] \in Seq(Seq(RowsOf(p)))
    \* a row is what one request got from the node at one place: what two of them get are two rows
    /\ \A p, q \in Backfills : \A m \in DOMAIN chunksOf[p], n \in DOMAIN chunksOf[q] :
          \A j \in DOMAIN chunksOf[p][m], k \in DOMAIN chunksOf[q][n] :
             chunksOf[p][m][j] = chunksOf[q][n][k] => <<p, m, j>> = <<q, n, k>>

VARIABLES
    rowBuffer,    \* buffer
    backfill,     \* request -> [at, chunk, batch]: what it awaits, its next chunk, the rows being inserted
    lostRows,     \* rows whose flush failed: no request has them any more
    unflushed,    \* rows ClickHouse has queued and answered for
    columns,      \* the rows of its table
    droppedRows,  \* rows it queued and did not write
    cursorRow,    \* request -> its row of indexer_cursor: "none", "queued", "stored" or "dropped"
    storeFaults

clickhousevars == <<unflushed, columns, droppedRows, cursorRow>>
columnvars == <<rowBuffer, backfill, lostRows, clickhousevars, storeFaults>>

ColumnInit ==
    /\ rowBuffer = <<>> /\ lostRows = {} /\ storeFaults = 0
    /\ unflushed = {} /\ columns = {} /\ droppedRows = {}
    /\ cursorRow = [p \in Backfills |-> "none"]
    /\ backfill = [p \in Backfills |-> [at |-> "fetch", chunk |-> 1, batch |-> <<>>]]

-----------------------------------------------------------------------------

\* Whether toRow() throws: the time of a row without a timestamp is not a date.
toRowThrows(batch) == \E n \in DOMAIN batch : batch[n] \notin timestamped

\* flush(): the batch has left the buffer already, `back` is where its insert returns to.
flush(p, batch, back) ==
    IF toRowThrows(batch)
    THEN /\ backfill' = [backfill EXCEPT ![p].at = "failed", ![p].batch = <<>>]
         /\ lostRows' = lostRows \cup Range(batch)
    ELSE /\ backfill' = [backfill EXCEPT ![p].at = back, ![p].batch = batch]
         /\ UNCHANGED lostRows

\* Regression: the batch leaves the buffer when its insert has returned.
bufferLoopLate(p, buffer) ==
    IF Len(buffer) >= BATCH_SIZE
    THEN rowBuffer' = buffer /\ flush(p, SubSeq(buffer, 1, BATCH_SIZE), "batch")
    ELSE /\ rowBuffer' = buffer /\ UNCHANGED lostRows
         /\ backfill' = [backfill EXCEPT ![p] = [at |-> "fetch", chunk |-> @.chunk + 1, batch |-> <<>>]]

\* The loop of bufferEvents(): a batch is cut off and inserted, or the next chunk is fetched.
bufferLoop(p, buffer) ==
    IF Len(buffer) >= BATCH_SIZE
    THEN /\ rowBuffer' = SubSeq(buffer, BATCH_SIZE + 1, Len(buffer))
         /\ flush(p, SubSeq(buffer, 1, BATCH_SIZE), "batch")
    ELSE /\ rowBuffer' = buffer /\ UNCHANGED lostRows
         /\ backfill' = [backfill EXCEPT ![p] = [at |-> "fetch", chunk |-> @.chunk + 1, batch |-> <<>>]]

\* onChunkComplete()
ChunkComplete(p) ==
    /\ backfill[p].at = "fetch" /\ backfill[p].chunk <= Len(chunksOf[p])
    /\ bufferLoop(p, rowBuffer \o chunksOf[p][backfill[p].chunk])
    /\ UNCHANGED <<clickhousevars, storeFaults>>

\* onComplete(): flushEvents() takes all there is, whosever it is, or nothing.
flushEvents(p) ==
    /\ backfill[p].at = "fetch" /\ backfill[p].chunk > Len(chunksOf[p])
    /\ rowBuffer' = <<>>
    /\ IF rowBuffer = <<>> THEN backfill' = [backfill EXCEPT ![p].at = "cursor"] /\ UNCHANGED lostRows
       ELSE flush(p, rowBuffer, "rest")
    /\ UNCHANGED <<clickhousevars, storeFaults>>

\* The insert of a batch returns: ClickHouse has queued it.  The loop goes on, and the insert of
\* the rest leads to the cursor.
InsertReturns(p) ==
    /\ backfill[p].at \in {"batch", "rest"}
    /\ unflushed' = unflushed \cup Range(backfill[p].batch)
    /\ IF backfill[p].at = "batch" THEN bufferLoop(p, rowBuffer)
       ELSE /\ backfill' = [backfill EXCEPT ![p].at = "cursor", ![p].batch = <<>>]
            /\ UNCHANGED <<rowBuffer, lostRows>>
    /\ UNCHANGED <<columns, droppedRows, cursorRow, storeFaults>>

\* updateCursorCH(), an insert like the others, and the answer.
updateCursorCH(p) ==
    /\ backfill[p].at = "cursor"
    /\ cursorRow' = [cursorRow EXCEPT ![p] = "queued"]
    /\ backfill' = [backfill EXCEPT ![p].at = "success"]
    /\ UNCHANGED <<rowBuffer, lostRows, unflushed, columns, droppedRows, storeFaults>>

\* The RPC node, an insert or the cursor fails, and with it the request; its rows stay in
\* the buffer for the next that flushes.
BackfillFails(p) ==
    /\ backfill[p].at \notin {"success", "failed"}
    /\ storeFaults < MaxStoreFaults /\ storeFaults' = storeFaults + 1
    /\ backfill' = [backfill EXCEPT ![p].at = "failed", ![p].batch = <<>>]
    /\ lostRows' = lostRows \cup Range(backfill[p].batch)
    /\ UNCHANGED <<rowBuffer, clickhousevars>>

\* ClickHouse writes the queue of one of its two tables.
ServerWrites ==
    /\ \/ unflushed # {} /\ unflushed' = {} /\ columns' = columns \cup unflushed /\ UNCHANGED cursorRow
       \/ \E p \in Backfills : /\ cursorRow[p] = "queued" /\ cursorRow' = [cursorRow EXCEPT ![p] = "stored"]
                               /\ UNCHANGED <<unflushed, columns>>
    /\ UNCHANGED <<rowBuffer, backfill, lostRows, droppedRows, storeFaults>>

\* It cannot: what was queued is gone, and no request is told.
ServerLoses ==
    /\ storeFaults < MaxStoreFaults /\ storeFaults' = storeFaults + 1
    /\ \/ unflushed # {} /\ unflushed' = {} /\ droppedRows' = droppedRows \cup unflushed /\ UNCHANGED cursorRow
       \/ \E p \in Backfills : /\ cursorRow[p] = "queued" /\ cursorRow' = [cursorRow EXCEPT ![p] = "dropped"]
                               /\ UNCHANGED <<unflushed, droppedRows>>
    /\ UNCHANGED <<rowBuffer, backfill, lostRows, columns>>

ColumnNext ==
    \/ \E p \in Backfills : \/ ChunkComplete(p) \/ flushEvents(p) \/ InsertReturns(p)
                            \/ updateCursorCH(p) \/ BackfillFails(p)
    \/ ServerWrites \/ ServerLoses

ColumnSpec == ColumnInit /\ [][ColumnNext]_columnvars

-----------------------------------------------------------------------------
(* Properties                                                            *)

\* Rows given to bufferEvents() so far: a request counts its chunk when the loop is left.
Buffered(p) ==
    UNION {Range(chunksOf[p][n]) : n \in {m \in DOMAIN chunksOf[p] :
              m < backfill[p].chunk \/ (m = backfill[p].chunk /\ backfill[p].at \in {"batch", "failed"})}}

InFlight == {p \in Backfills : backfill[p].batch # <<>>}

\* However the requests and the server's writes take turns, a row that was buffered is in one
\* place only: the buffer, once, the insert of one request, the queue of ClickHouse, its table,
\* or it was lost with a flush that failed or by the server; and batches gather behind no
\* request that still inserts, unless one failed.
RowsInOnePlace ==
    LET inBuffer == Range(rowBuffer)
        inserting == UNION {Range(backfill[p].batch) : p \in InFlight}
        places == <<inBuffer, inserting, unflushed, columns, droppedRows, lostRows>>
    IN  /\ IsInjective(rowBuffer)
        /\ \A p, q \in InFlight : p # q => Range(backfill[p].batch) \cap Range(backfill[q].batch) = {}
        /\ \A m, n \in DOMAIN places : m < n => places[m] \cap places[n] = {}
        /\ \A p \in Backfills : backfill[p].at # "failed" => Buffered(p) \subseteq UNION Range(places)
        /\ Len(rowBuffer) >= BATCH_SIZE => \E p \in Backfills : backfill[p].at \in {"batch", "failed"}

Alone(p) == \A q \in Backfills \ {p} : backfill[q].chunk = 1 /\ backfill[q].at = "fetch"

\* "Successful ingestion" of a request that had the buffer to itself, or its end in the cursor's
\* table: all its rows were handed to ClickHouse first, and its end as well.  They are not
\* stored for that: the server may still have them queued, or have lost them, with the cursor
\* written.  (Beside another request it says less: one that flushes takes the rows of the
\* others along, who find the buffer empty and answer before those are sent, or although
\* they were lost.)
SuccessAloneIsHandedOver ==
    \A p \in Backfills :
        Alone(p) /\ (backfill[p].at = "success" \/ cursorRow[p] # "none")
            => RowsOf(p) \subseteq unflushed \cup columns \cup droppedRows /\ cursorRow[p] # "none"

ColumnStoreSafety == RowsInOnePlace /\ SuccessAloneIsHandedOver
=============================================================================
