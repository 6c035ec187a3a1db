-------------------------- MODULE PersistentIndexer --------------------------
(***************************************************************************)
(* startPersistentEventIndexer of lib/stellar/indexer-persistent.ts: the   *)
(* polling indexer with a handler that translates and stores each batch    *)
(* and keeps the cursor in the database (lib/db/utils.ts).                 *)
(*                                                                         *)
(* A failed write of one event is counted and otherwise ignored; an event  *)
(* that cannot be translated goes to the dead letter table.                *)
(***************************************************************************)
EXTENDS EventIndexer

VARIABLES
    rows,      \* events stored in the event table
    dlq,       \* events stored in the dead letter table
    dbCursor,  \* lastLedger of the indexerCursor row, 0 when there is none
    boot,      \* lastLedger read when the indexer started
    dbFailed   \* history: some write has failed

db == <<rows, dlq, dbCursor, boot, dbFailed>>

PInit ==
    /\ Init
    /\ rows = {} /\ dlq = {}
    /\ dbCursor = 0 /\ boot = 0
    /\ dbFailed = FALSE

\* Where startPersistentEventIndexer begins, given the saved cursor c.
resumeAt(c) == IF c > 0 THEN c ELSE startLedger

\* Regression: an event that cannot be translated is dropped.
PersistNoDeadLetter(S, D) ==
    /\ S \cup D \subseteq events /\ S \cap D = {}
    /\ rows' = rows \cup S
    /\ UNCHANGED dlq

\* translateAndPersistBatch stores the events of S, files those of D as dead
\* letters, and loses what is left to write errors.
Persist(S, D) ==
    /\ S \cup D \subseteq events /\ S \cap D = {}
    /\ rows' = rows \cup S
    /\ dlq' = dlq \cup D

\* Regression: the saved cursor is one past the ledger just received.
updateCursorNext == dbCursor' \in {dbCursor, latest + 1}

\* updateCursor with the cursor of before this batch; it may fail, unnoticed.
updateCursor == dbCursor' \in {dbCursor} \cup (IF cursor > boot THEN {cursor} ELSE {})

\* wrappedOnEvents never throws: the polling loop sees a success.
PersistBatch ==
    /\ HandlerReturns
    /\ UNCHANGED boot
    /\ \/ events = {} /\ UNCHANGED <<rows, dlq, dbCursor, dbFailed>>
       \/ \E S, D \in SUBSET events :
            /\ events # {}
            /\ Persist(S, D)
            /\ dbFailed' = (dbFailed \/ S \cup D # events)
            /\ updateCursor

\* Regression: the cursor is saved while the batch is still being stored.
PersistCrashEager ==
    /\ \/ UNCHANGED <<rows, dlq, dbCursor, dbFailed>>
       \/ /\ phase = "handle"
          /\ \E S, D \in SUBSET events : Persist(S, D)
          /\ dbCursor' = latest
          /\ UNCHANGED dbFailed
    /\ boot' = dbCursor'
    /\ CrashRestart(resumeAt(dbCursor'))

\* The process dies, perhaps while a batch is being stored: some of its events
\* are stored, and the cursor is updated only after all were tried.
PersistCrash ==
    /\ \/ UNCHANGED <<rows, dlq, dbCursor, dbFailed>>
       \/ /\ phase = "handle"
          /\ \E S, D \in SUBSET events : Persist(S, D)
          /\ UNCHANGED <<dbCursor, dbFailed>>
       \/ /\ phase = "handle"
          /\ \E S, D \in SUBSET events :
                /\ Persist(S, D)
                /\ dbFailed' = (dbFailed \/ S \cup D # events)
          /\ updateCursor
    /\ boot' = dbCursor'
    /\ CrashRestart(resumeAt(dbCursor'))

\* What the polling loop does around its handler.
Poll == LoadState \/ LoadFails \/ Lookup \/ Fetch \/ SaveOk \/ SaveFails \/ SleepOver

PNext ==
    \/ PersistBatch
    \/ PersistCrash
    \/ /\ \/ CloseLedger \/ Stop
          \/ \E l \in Ledgers : Expire(l)
          \/ Poll
       /\ UNCHANGED db

pvars == <<vars, db>>

PSpec == PInit /\ [][PNext]_pvars

\* As in EventIndexer; the database is not assumed to work.
PFairSpec ==
    /\ PSpec
    /\ WF_pvars(Poll /\ UNCHANGED db)
    /\ WF_pvars(PersistBatch)
    /\ SF_pvars(FetchOk /\ UNCHANGED db)

-----------------------------------------------------------------------------
(* Properties.                                                           *)

PTypeOK ==
    /\ TypeOK
    /\ rows \subseteq EventLedgers /\ dlq \subseteq EventLedgers
    /\ dbCursor \in 0 .. MaxLedger /\ boot \in 0 .. MaxLedger
    /\ dbFailed \in BOOLEAN

\* A restart resumes at or before the first event that was not yet handed to
\* the persistence layer, whatever crashed in between.
ResumeCoversUndelivered ==
    \A e \in EventLedgers : e < resumeAt(dbCursor) => e \in rows \cup dlq \/ dbFailed

\* Events stored by a batch that crashed are stored again, never doubled nor
\* forgotten: with a working database everything below the cursor is stored.
HealthyComplete ==
    ~dbFailed => \A e \in EventLedgers : e < cursor => e \in rows \cup dlq

\* With a working database every event ends up in one of the two tables.
EveryEventStored ==
    \A e \in EventLedgers :
        (e <= tip) ~> (e \in rows \cup dlq \/ dbFailed \/ ~isRunning \/ phase = "dead")

\* indexer-persistent.ts:34, "Updates cursor state after successful processing":
\* an event below the saved cursor is stored.
CursorAfterPersistence ==
    \A e \in EventLedgers : e < dbCursor => e \in rows \cup dlq

\* The saved cursor, the two tables and the indexer's cursor fit each other through
\* crashes in the middle of a batch and failing writes.
PersistenceSafety == PTypeOK /\ ResumeCoversUndelivered /\ HealthyComplete
=============================================================================
