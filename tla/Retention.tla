----------------------------- MODULE Retention ------------------------------
(***************************************************************************)
(* Archive and purge of old events: lib/retention/archiver.ts, started by  *)
(* the cron task of scheduler.ts and by the trigger route.                 *)
(*                                                                         *)
(* A run writes the rows older than its cutoff to the file of its day, in  *)
(* batches, and then deletes them by id.  Runs may overlap: nothing keeps  *)
(* a second one out.  Rows are numbered in the order they were created; a  *)
(* row is old from a point of time on.                                     *)
(***************************************************************************)
EXTENDS Naturals, FiniteSets, FiniteSetsExt

CONSTANTS
    oldFrom,     \* for each row, the time from which it is past the cutoff
    archiveBatchSize,
    TicksPerDay, \* bound: points of time in a day
    MaxTime,     \* bound: the last point of time
    MaxRuns,     \* bound: runs started
    MaxFailures  \* bound: errors and deaths of the process

OldRows == DOMAIN oldFrom
Days == {time \div TicksPerDay : time \in 0 .. MaxTime}

ASSUME RetentionAssumption ==
    /\ archiveBatchSize \in Nat \ {0} /\ TicksPerDay \in Nat \ {0}
    /\ MaxTime \in Nat /\ MaxRuns \in Nat /\ MaxFailures \in Nat
    /\ OldRows \subseteq Nat /\ IsFiniteSet(OldRows) /\ oldFrom \in [OldRows -> Nat]
    /\ \A r, q \in OldRows : r < q => oldFrom[r] <= oldFrom[q]

VARIABLES
    hour,
    table,       \* rows of the Event table
    archive,     \* for each day, the rows its file holds
    run,         \* runs: [at, cutoff, day, file, written, deleted]; file is what became of
                 \* the one it opened
    started,     \* runs started so far
    purged,      \* history: rows deleted
    overwritten, \* history: rows of files another run opened or wrote to as well
    unlinked,    \* history: rows of files removed after an error
    failures     \* counter for MaxFailures

retvars == <<hour, table, archive, run, started, purged, overwritten, unlinked, failures>>
causes == <<overwritten, unlinked, failures>>

Runs == 1 .. MaxRuns
Idle == [at |-> "none", cutoff |-> 0, day |-> 0, file |-> "none", written |-> {}, deleted |-> {}]

RetInit ==
    /\ hour = 0 /\ table = OldRows
    /\ archive = [d \in Days |-> {}]
    /\ run = [i \in Runs |-> Idle] /\ started = 0
    /\ purged = {} /\ overwritten = {} /\ unlinked = {} /\ failures = 0

Eligible(i) == {r \in table : oldFrom[r] <= run[i].cutoff}
RunGoto(i, r) == run' = [run EXCEPT ![i] = r]

Tick ==
    /\ hour < MaxTime /\ hour' = hour + 1
    /\ UNCHANGED <<table, archive, run, started, purged, causes>>

\* archiveAndPurgeOldEvents() up to its count; without old rows it ends at once, as it does
\* when the count fails.
StartRun ==
    /\ started < MaxRuns
    /\ started' = started + 1
    /\ \E at \in {"open", "done"} :
         /\ at = "open" => \E r \in table : oldFrom[r] <= hour
         /\ RunGoto(started + 1, [Idle EXCEPT !.at = at, !.cutoff = hour])
    /\ UNCHANGED <<hour, table, archive, purged, causes>>

\* The runs that write to the file that is there for a day.
Writers(day) == {k \in Runs : run[k].at = "read" /\ run[k].day = day /\ run[k].file # "gone"}
WithFile(i, file) == [run[i] EXCEPT !.at = "read", !.day = hour \div TicksPerDay, !.file = file]

\* Regression: a run that writes to the file already keeps it.
OpenFileApart(i) ==
    LET day == hour \div TicksPerDay
    IN  /\ run[i].at = "open"
        /\ RunGoto(i, WithFile(i, "whole"))
        /\ archive' = [archive EXCEPT ![day] = {}]
        /\ overwritten' = overwritten \cup archive[day]
        /\ UNCHANGED <<hour, table, started, purged, unlinked, failures>>

\* createWriteStream() truncates the file of the day.  What others that hold it write goes
\* between what this run writes, however they end.
OpenFile(i) ==
    LET day == hour \div TicksPerDay
    IN  /\ run[i].at = "open"
        /\ run' = [k \in Runs |->
               IF k = i THEN WithFile(i, IF Writers(day) = {} THEN "whole" ELSE "garbled")
               ELSE IF k \in Writers(day) THEN [run[k] EXCEPT !.file = "garbled"] ELSE run[k]]
        /\ archive' = [archive EXCEPT ![day] = {}]
        /\ overwritten' = overwritten \cup archive[day]
        /\ UNCHANGED <<hour, table, started, purged, unlinked, failures>>

FirstRows(S) == {r \in S : Cardinality({q \in S : q < r}) < archiveBatchSize}

\* The next rows in the order of creation, after the cursor; without its row the
\* cursor finds nothing more.
NextBatch(i) ==
    LET w == run[i].written
    IN  IF w # {} /\ Max(w) \notin table THEN {}
        ELSE FirstRows({r \in Eligible(i) : w = {} \/ r > Max(w)})

ReadOldBatch(i) ==
    /\ run[i].at = "read" /\ NextBatch(i) # {}
    /\ RunGoto(i, [run[i] EXCEPT !.written = @ \cup NextBatch(i)])
    /\ UNCHANGED <<hour, table, archive, started, purged, causes>>

\* The file is complete, if nobody else wrote to it and nobody removed it.
EndFile(i) ==
    /\ run[i].at = "read" /\ NextBatch(i) = {}
    /\ RunGoto(i, [run[i] EXCEPT !.at = "delete"])
    /\ archive' = IF run[i].file = "whole" THEN [archive EXCEPT ![run[i].day] = run[i].written]
                  ELSE archive
    /\ overwritten' = IF run[i].file = "garbled" THEN overwritten \cup run[i].written ELSE overwritten
    /\ unlinked' = IF run[i].file = "gone" THEN unlinked \cup run[i].written ELSE unlinked
    /\ UNCHANGED <<hour, table, started, purged, failures>>

\* Regression: whatever is old is deleted, written or not.
DeleteOld(i) ==
    /\ run[i].at = "delete" /\ run[i].written # run[i].deleted
    /\ RunGoto(i, [run[i] EXCEPT !.deleted = run[i].written])
    /\ table' = {r \in table : oldFrom[r] > hour}
    /\ purged' = purged \cup (table \ table')
    /\ UNCHANGED <<hour, archive, started, causes>>

\* One batch of the ids that were written is deleted.
DeleteBatch(i) ==
    LET batch == FirstRows(run[i].written \ run[i].deleted)
    IN  /\ run[i].at = "delete" /\ batch # {}
        /\ RunGoto(i, [run[i] EXCEPT !.deleted = @ \cup batch])
        /\ table' = table \ batch
        /\ purged' = purged \cup (batch \cap table)
        /\ UNCHANGED <<hour, archive, started, causes>>

\* The counts are compared, which only warns, and the run is logged.
Finish(i) ==
    /\ run[i].at = "delete" /\ run[i].written = run[i].deleted
    /\ RunGoto(i, [run[i] EXCEPT !.at = "done"])
    /\ UNCHANGED <<hour, table, archive, started, purged, causes>>

\* An error of the file or the database: the file of the day is removed, whoever wrote or
\* still writes to it.
RunFails(i) ==
    LET day == run[i].day
    IN  /\ run[i].at \in {"read", "delete"} /\ failures < MaxFailures
        /\ failures' = failures + 1
        /\ run' = [k \in Runs |->
               IF k = i THEN [run[i] EXCEPT !.at = "done"]
               ELSE IF k \in Writers(day) THEN [run[k] EXCEPT !.file = "gone"] ELSE run[k]]
        /\ archive' = [archive EXCEPT ![day] = {}]
        /\ unlinked' = unlinked \cup archive[day]
        /\ UNCHANGED <<hour, table, started, purged, overwritten>>

\* The process dies: its runs end where they are, the files stay as they are.
RunCrashes ==
    /\ failures < MaxFailures
    /\ \E i \in Runs : run[i].at \in {"read", "delete"}
    /\ failures' = failures + 1
    /\ run' = [i \in Runs |-> IF run[i].at = "none" THEN run[i] ELSE [run[i] EXCEPT !.at = "done"]]
    /\ UNCHANGED <<hour, table, archive, started, purged, overwritten, unlinked>>

RetNext ==
    \/ Tick \/ StartRun \/ RunCrashes
    \/ \E i \in Runs : OpenFile(i) \/ ReadOldBatch(i) \/ EndFile(i) \/ DeleteBatch(i) \/ Finish(i)
                         \/ RunFails(i)

RetSpec == RetInit /\ [][RetNext]_retvars

-----------------------------------------------------------------------------
(* Properties.                                                           *)

RetTypeOK ==
    /\ hour \in 0 .. MaxTime /\ table \subseteq OldRows
    /\ archive \in [Days -> SUBSET OldRows]
    /\ run \in [Runs -> [at : {"none", "open", "read", "delete", "done"}, cutoff : 0 .. MaxTime,
                         day : Days, file : {"none", "whole", "garbled", "gone"},
                         written : SUBSET OldRows, deleted : SUBSET OldRows]]
    /\ started \in 0 .. MaxRuns /\ failures \in 0 .. MaxFailures

\* A deleted row is in an archive file, unless another run opened or wrote to that file,
\* before, during or after, or an error of some run of the day removed it.
PurgedIsArchived ==
    purged \subseteq (UNION {archive[d] : d \in Days}) \cup overwritten \cup unlinked

\* What is deleted was past the cutoff of a run, however runs and days interleave:
\* rows that became old after the run began stay.
PurgedWasOld ==
    \A r \in purged : \E i \in Runs : run[i].at # "none" /\ r \in run[i].written
                                        /\ oldFrom[r] <= run[i].cutoff

\* While no two runs open the file of one day, and none fails, nothing is lost.
LossNeedsCause ==
    (/\ failures = 0
     /\ \A i, k \in Runs : i # k /\ run[i].file # "none" /\ run[k].file # "none" => run[i].day # run[k].day)
        => purged \subseteq UNION {archive[d] : d \in Days}

\* What was deleted was old, and is in an archive unless a listed cause removed it.
RetentionSafety == RetTypeOK /\ PurgedIsArchived /\ PurgedWasOld /\ LossNeedsCause

-----------------------------------------------------------------------------
(***************************************************************************)
(* The cycle of lib/retention/pruner.ts: batches of rows before the cutoff *)
(* are archived and deleted, and the next batch is looked up by id.  The   *)
(* function archiveBatch it imports is not in the repository; it is        *)
(* modelled by how the cycle uses it.                                      *)
(***************************************************************************)

CONSTANTS
    timestampOf,   \* the timestamp of each row; rows are compared by id
    Cutoff,        \* rows with an earlier timestamp are candidates
    policyBatchSize,
    MaxCycles,     \* bound: cycles run
    MaxBatchErrors \* bound: batches that fail

PrunerRows == DOMAIN timestampOf

ASSUME PrunerAssumption ==
    /\ PrunerRows \subseteq Nat \ {0} /\ IsFiniteSet(PrunerRows) /\ timestampOf \in [PrunerRows -> Nat]
    /\ Cutoff \in Nat /\ policyBatchSize \in Nat \ {0}
    /\ MaxCycles \in Nat /\ MaxBatchErrors \in Nat

VARIABLES
    hotTable,    \* rows of the Event table
    csv,         \* rows in the archives of archiveBatch()
    cycle,       \* [at, dryRun, lastId, batch]; lastId 0 is none
    cycles,      \* cycles run so far
    atStart,     \* history: candidates when this cycle began
    failedRows,  \* history: rows of this cycle's failed batches
    batchErrors  \* counter for MaxBatchErrors

prunevars == <<hotTable, csv, cycle, cycles, atStart, failedRows, batchErrors>>

Resting == [at |-> "idle", dryRun |-> FALSE, lastId |-> 0, batch |-> {}]

PruneInit ==
    /\ hotTable = {} /\ csv = {} /\ cycle = Resting /\ cycles = 0
    /\ atStart = {} /\ failedRows = {} /\ batchErrors = 0

Candidates == {r \in hotTable : timestampOf[r] < Cutoff}

Before(r, q) ==
    \/ timestampOf[r] < timestampOf[q]
    \/ timestampOf[r] = timestampOf[q] /\ r < q

FirstOf(S) == {r \in S : Cardinality({q \in S : Before(q, r)}) < policyBatchSize}
LastOf(S) == CHOOSE r \in S : \A q \in S : q = r \/ Before(q, r)

StartCycle(dryRun) ==
    /\ cycle.at \in {"idle", "failed"} /\ cycles < MaxCycles /\ Candidates # {}
    /\ cycle' = [Resting EXCEPT !.at = "fetch", !.dryRun = dryRun]
    /\ cycles' = cycles + 1
    /\ atStart' = Candidates /\ failedRows' = {}
    /\ UNCHANGED <<hotTable, csv, batchErrors>>

\* Regression: the next batch is looked up from the first row again.
FetchAgain ==
    LET batch == FirstOf(Candidates)
    IN  /\ cycle.at = "fetch"
        /\ cycle' = IF batch = {} THEN [cycle EXCEPT !.at = "idle"]
                    ELSE [cycle EXCEPT !.at = "archive", !.batch = batch]
        /\ UNCHANGED <<hotTable, csv, cycles, atStart, failedRows, batchErrors>>

\* The next batch: the first rows by timestamp and id, of those with a larger id
\* than the last row of the batch before.
Fetch ==
    LET batch == FirstOf({r \in Candidates : r > cycle.lastId})
    IN  /\ cycle.at = "fetch"
        /\ cycle' = IF batch = {} THEN [cycle EXCEPT !.at = "idle"]
                    ELSE [cycle EXCEPT !.at = "archive", !.batch = batch]
        /\ UNCHANGED <<hotTable, csv, cycles, atStart, failedRows, batchErrors>>

\* The look-up fails, which ends the cycle: only what is done with a batch is tried.
FetchFails ==
    /\ cycle.at = "fetch" /\ batchErrors < MaxBatchErrors
    /\ batchErrors' = batchErrors + 1
    /\ cycle' = [cycle EXCEPT !.at = "failed"]
    /\ UNCHANGED <<hotTable, csv, cycles, atStart, failedRows>>

\* Regression: a full batch ends the loop.
EndBatchFull(c) ==
    [c EXCEPT !.lastId = LastOf(c.batch), !.batch = {},
              !.at = IF Cardinality(c.batch) = policyBatchSize THEN "idle" ELSE "fetch"]

\* The loop goes on unless the batch was short.
EndBatch(c) ==
    [c EXCEPT !.lastId = LastOf(c.batch), !.batch = {},
              !.at = IF Cardinality(c.batch) < policyBatchSize THEN "idle" ELSE "fetch"]

\* Regression: a dry run deletes as well.
ArchiveAlways ==
    /\ cycle.at = "archive"
    /\ csv' = csv \cup (IF cycle.dryRun THEN {} ELSE cycle.batch)
    /\ cycle' = [cycle EXCEPT !.at = "delete"]
    /\ UNCHANGED <<hotTable, cycles, atStart, failedRows, batchErrors>>

\* archiveBatch(), which writes nothing in a dry run.
Archive ==
    /\ cycle.at = "archive"
    /\ IF cycle.dryRun
       THEN cycle' = EndBatch(cycle) /\ UNCHANGED csv
       ELSE cycle' = [cycle EXCEPT !.at = "delete"] /\ csv' = csv \cup cycle.batch
    /\ UNCHANGED <<hotTable, cycles, atStart, failedRows, batchErrors>>

Delete ==
    /\ cycle.at = "delete"
    /\ hotTable' = hotTable \ cycle.batch
    /\ cycle' = EndBatch(cycle)
    /\ UNCHANGED <<csv, cycles, atStart, failedRows, batchErrors>>

\* Archiving or deleting a batch fails, or only the answer to the deletion: noted, and on to
\* the next one.
BatchFails ==
    /\ cycle.at \in {"archive", "delete"} /\ batchErrors < MaxBatchErrors
    /\ batchErrors' = batchErrors + 1
    /\ failedRows' = failedRows \cup cycle.batch
    /\ \/ UNCHANGED hotTable
       \/ cycle.at = "delete" /\ hotTable' = hotTable \ cycle.batch
    /\ cycle' = EndBatch(cycle)
    /\ UNCHANGED <<csv, cycles, atStart>>

\* The indexer stores a row meanwhile.
Insert(r) ==
    /\ r \in PrunerRows \ (hotTable \cup csv)
    /\ hotTable' = hotTable \cup {r}
    /\ UNCHANGED <<csv, cycle, cycles, atStart, failedRows, batchErrors>>

PruneNext ==
    \/ \E dryRun \in BOOLEAN : StartCycle(dryRun)
    \/ Fetch \/ FetchFails \/ Archive \/ Delete \/ BatchFails
    \/ \E r \in PrunerRows : Insert(r)

PruneSpec == PruneInit /\ [][PruneNext]_prunevars

-----------------------------------------------------------------------------
(* Properties.                                                           *)

PruneTypeOK ==
    /\ hotTable \subseteq PrunerRows /\ csv \subseteq PrunerRows
    /\ cycle \in [at : {"idle", "fetch", "archive", "delete", "failed"}, dryRun : BOOLEAN,
                  lastId : PrunerRows \cup {0}, batch : SUBSET PrunerRows]
    /\ cycles \in 0 .. MaxCycles /\ batchErrors \in 0 .. MaxBatchErrors

\* A row leaves the table only into an archive, and never in a dry run.
DeletedIsArchived ==
    [][hotTable \ hotTable' \subseteq csv
         /\ (cycle.dryRun => hotTable \subseteq hotTable')]_prunevars

\* Although batches are ordered by timestamp and continued by id, no batch of a cycle
\* takes up an id the cycle has passed, not even of rows that stay in the table after
\* a failed batch or in a dry run: the loop ends.
NeverTurnsBack ==
    [][cycle.at \notin {"idle", "failed"} =>
         /\ cycle'.lastId >= cycle.lastId
         /\ (\A r \in cycle'.batch : r > cycle.lastId) \/ cycle'.batch = cycle.batch]_prunevars

\* What a cycle leaves of its candidates, apart from failed batches, are rows a batch
\* passed over: their id is smaller than the last one of a batch, their timestamp not.
\* Only a cycle whose look-up failed leaves others.
LeftOnlyPassedOver ==
    cycle.at = "idle" /\ ~cycle.dryRun =>
        \A r \in (atStart \cap hotTable) \ failedRows : r < cycle.lastId

\* A cycle leaves none of its candidates without a cause, and a step of it neither
\* deletes what is not archived nor goes back.
PrunerSafety == [](PruneTypeOK /\ LeftOnlyPassedOver) /\ DeletedIsArchived /\ NeverTurnsBack
=============================================================================
