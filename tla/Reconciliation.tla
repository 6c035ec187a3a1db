--------------------------- MODULE Reconciliation ---------------------------
(***************************************************************************)
(* Reconciliation of the event table with the RPC node: the cron scheduler *)
(* and its configuration (lib/reconciliation/scheduler.ts), the jobs and   *)
(* their status rows (lib/jobs/queue.ts), and the runs of a job with their *)
(* audit log (lib/reconciliation/engine.ts, auditor.ts).                   *)
(*                                                                         *)
(* A run ends where it starts: updateMany() takes one argument, and the    *)
(* engine, like the completed and failed handlers of the queue, calls it   *)
(* with two, so that the database client rejects the call.  The comparison *)
(* with the node comes after it and is never reached.  The processors are  *)
(* taken as started (initializeQueueProcessors(), queue.ts:55) by the      *)
(* process that runs the jobs; no file of the repository does so.          *)
(***************************************************************************)
EXTENDS Naturals, Sequences, FiniteSets

CONSTANTS
    ConfigCalls,    \* calls of updateReconciliationConfig() that set "enabled"
    NoTask,         \* scheduledJob is null
    maxAttempts,    \* QUEUE_MAX_ATTEMPTS
    Ranges,         \* bound: ranges of ledgers jobs are queued for, <<start, end>>
    MaxJobs,        \* bound: rows created
    MaxTicks,       \* bound: ticks of a cron task in progress at once
    MaxErrors       \* bound: failed calls and ends of the process

ASSUME ReconciliationAssumption ==
    /\ NoTask \notin ConfigCalls
    /\ maxAttempts \in Nat \ {0}
    /\ \A r \in Ranges : r \in Nat \X Nat /\ r[1] <= r[2]
    /\ MaxJobs \in Nat /\ MaxTicks \in Nat /\ MaxErrors \in Nat

VARIABLES
    configEnabled,  \* "enabled" of the configuration row
    call,           \* updateReconciliationConfig(): [at, on], by call
    scheduledJob,   \* the task the scheduler holds: the call that made it
    cronTasks,      \* cron tasks that tick
    ticking,        \* ticks in progress
    requestsMet,    \* history: a configuration call started while another ran
    jobRow,         \* ReconciliationJob rows: [status, range, by]
    job,            \* their Bull jobs: [at, made, stalls]
    handlers,       \* failed events not handled yet: <<job, runs ended>>
    audit,          \* flagged entries of the audit log: <<job, run>>
    unlogged,       \* history: runs of which recordAuditLog() dropped the entry
    cut,            \* history: runs the end of the process cut short
    errorCount      \* counter for MaxErrors

schedvars == <<configEnabled, call, scheduledJob, cronTasks, requestsMet>>
jobvars == <<jobRow, job, handlers>>
logvars == <<audit, unlogged, cut>>
recvars == <<schedvars, ticking, jobvars, logvars, errorCount>>

Jobs == DOMAIN job

RecInit ==
    /\ configEnabled \in BOOLEAN
    /\ call = [c \in ConfigCalls |-> [at |-> "none", on |-> FALSE]]
    /\ scheduledJob = NoTask /\ cronTasks = {} /\ ticking = 0 /\ requestsMet = FALSE
    /\ jobRow = <<>> /\ job = <<>> /\ handlers = {}
    /\ audit = {} /\ unlogged = {} /\ cut = {}
    /\ errorCount = 0

CallFails == errorCount < MaxErrors /\ errorCount' = errorCount + 1

-----------------------------------------------------------------------------
(* The scheduler and its configuration.                                  *)

CallBecomes(c, at, on) == call' = [call EXCEPT ![c] = [at |-> at, on |-> on]]
Underway == {c \in ConfigCalls : call[c].at \notin {"none", "done"}}

\* PUT /api/reconciliation/config
PutConfig(c, on) ==
    /\ call[c].at = "none"
    /\ CallBecomes(c, "update", on)
    /\ requestsMet' = (requestsMet \/ Underway # {})
    /\ UNCHANGED <<configEnabled, scheduledJob, cronTasks, ticking, jobvars, logvars, errorCount>>

\* The row is updated; a rejected call ends the request.
UpdateConfig(c) ==
    /\ call[c].at = "update"
    /\ \/ /\ configEnabled' = call[c].on
          /\ CallBecomes(c, "updated", call[c].on)
          /\ UNCHANGED errorCount
       \/ CallBecomes(c, "done", FALSE) /\ CallFails /\ UNCHANGED configEnabled
    /\ UNCHANGED <<scheduledJob, cronTasks, ticking, requestsMet, jobvars, logvars>>

\* Regression: a scheduler that runs already is started again.
ConfigUpdatedAlways(c) ==
    /\ call[c].at = "updated"
    /\ IF call[c].on
       THEN CallBecomes(c, "read", TRUE) /\ UNCHANGED <<scheduledJob, cronTasks>>
       ELSE /\ CallBecomes(c, "done", FALSE)
            /\ cronTasks' = cronTasks \ {scheduledJob}
            /\ scheduledJob' \in {NoTask, scheduledJob}
    /\ UNCHANGED <<configEnabled, ticking, requestsMet, jobvars, logvars, errorCount>>

\* destroy() comes between the stop and the reset of scheduledJob; where the library's task
\* has no such method, the reset is skipped.
stopReconciliationScheduler ==
    /\ cronTasks' = cronTasks \ {scheduledJob}
    /\ scheduledJob' \in {NoTask, scheduledJob}

\* The answer: a scheduler that is wanted and not there is started, one that is there
\* and not wanted is stopped.
ConfigUpdated(c) ==
    /\ call[c].at = "updated"
    /\ \/ /\ call[c].on /\ scheduledJob = NoTask
          /\ CallBecomes(c, "read", TRUE)
          /\ UNCHANGED <<scheduledJob, cronTasks>>
       \/ /\ ~call[c].on /\ scheduledJob # NoTask
          /\ stopReconciliationScheduler
          /\ CallBecomes(c, "done", FALSE)
       \/ /\ call[c].on <=> scheduledJob # NoTask
          /\ CallBecomes(c, "done", FALSE)
          /\ UNCHANGED <<scheduledJob, cronTasks>>
    /\ UNCHANGED <<configEnabled, ticking, requestsMet, jobvars, logvars, errorCount>>

\* startReconciliationScheduler() reads the configuration,
ReadConfig(c) ==
    /\ call[c].at = "read"
    /\ \/ CallBecomes(c, "schedule", configEnabled) /\ UNCHANGED errorCount
       \/ CallBecomes(c, "done", FALSE) /\ CallFails
    /\ UNCHANGED <<configEnabled, scheduledJob, cronTasks, requestsMet, ticking, jobvars, logvars>>

\* and, if it is enabled, makes a task that replaces whatever it held.
Schedule(c) ==
    /\ call[c].at = "schedule"
    /\ CallBecomes(c, "done", FALSE)
    /\ IF call[c].on THEN cronTasks' = cronTasks \cup {c} /\ scheduledJob' = c
       ELSE UNCHANGED <<cronTasks, scheduledJob>>
    /\ UNCHANGED <<configEnabled, ticking, requestsMet, jobvars, logvars, errorCount>>

\* A task ticks: it reads the cursor and the oldest event of the look-back,
CronTick ==
    /\ cronTasks # {} /\ ticking < MaxTicks
    /\ ticking' = ticking + 1
    /\ UNCHANGED <<schedvars, jobvars, logvars, errorCount>>

\* and finds nothing to reconcile, or fails.
CronTickEnds ==
    /\ ticking > 0 /\ ticking' = ticking - 1
    /\ UNCHANGED <<schedvars, jobvars, logvars, errorCount>>

-----------------------------------------------------------------------------
(* Jobs and their rows.                                                  *)

JobGoto(j, at) == job' = [job EXCEPT ![j].at = at]

\* addReconciliationJob(): the row comes first,
CreateJobRow(range, by) ==
    /\ Len(job) < MaxJobs
    /\ jobRow' = Append(jobRow, [status |-> "pending", range |-> range, by |-> by])
    /\ job' = Append(job, [at |-> "toAdd", made |-> 0, stalls |-> 0])
    /\ UNCHANGED <<schedvars, handlers, logvars, errorCount>>

\* A tick, from the oldest event of the look-back to the cursor, if that is further.
CronTask(range) ==
    /\ ticking > 0 /\ ticking' = ticking - 1
    /\ range[1] < range[2] /\ CreateJobRow(range, "cron")

\* POST /api/reconciliation/trigger, for a range of one ledger or more.
triggerReconciliation(range) ==
    range[1] <= range[2] /\ CreateJobRow(range, "manual") /\ UNCHANGED ticking

\* then the job, in Bull's queue.  The caller hears of an error; the row stays.
AddJob(j) ==
    /\ job[j].at = "toAdd"
    /\ \/ JobGoto(j, "waiting") /\ UNCHANGED errorCount
       \/ JobGoto(j, "none") /\ CallFails
    /\ UNCHANGED <<schedvars, ticking, jobRow, handlers, logvars>>

\* The runs of a job that have ended, and the one under way.
RunsEnded(j) == job[j].made + job[j].stalls
ThisRun(j) == <<j, RunsEnded(j) + 1>>

\* Regression: the rows of the range are processing, and the run goes on to its end.
StartAccepted(j) ==
    /\ job[j].at = "waiting"
    /\ JobGoto(j, "flag")
    /\ jobRow' = [i \in DOMAIN jobRow |->
                    IF jobRow[i].range = jobRow[j].range THEN [jobRow[i] EXCEPT !.status = "processing"]
                    ELSE jobRow[i]]
    /\ UNCHANGED <<schedvars, ticking, handlers, logvars, errorCount>>

\* runReconciliation(): the update of the pending rows of the range is rejected.
Start(j) ==
    /\ job[j].at = "waiting"
    /\ JobGoto(j, "flag")
    /\ UNCHANGED <<schedvars, ticking, jobRow, handlers, logvars, errorCount>>

\* An entry of the log, unless its write fails, which the log keeps to itself.
recordAuditLog(run) ==
    \/ audit' = audit \cup {run} /\ UNCHANGED <<unlogged, errorCount>>
    \/ unlogged' = unlogged \cup {run} /\ CallFails /\ UNCHANGED audit

\* The error is logged under the range, and thrown.
Flag(j) ==
    /\ job[j].at = "flag"
    /\ JobGoto(j, "throw")
    /\ recordAuditLog(ThisRun(j))
    /\ UNCHANGED <<schedvars, ticking, jobRow, handlers, cut>>

\* Bull fails the job, to be tried again after its back-off or not, and emits "failed".
JobFails(j) ==
    LET made == job[j].made + 1
    IN  /\ job[j].at = "throw"
        /\ job' = [job EXCEPT ![j] =
                    [at |-> IF made < maxAttempts THEN "waiting" ELSE "failed",
                     made |-> made, stalls |-> job[j].stalls]]
        /\ handlers' = handlers \cup {ThisRun(j)}
        /\ UNCHANGED <<schedvars, ticking, jobRow, logvars, errorCount>>

\* The process ends.  Requests, tasks and handlers are gone, and Bull starts a job that
\* was running again, or fails it when that happens for the second time.
Running(j) == job[j].at \in {"flag", "throw"}
AfterExit(j) ==
    IF Running(j) THEN [job[j] EXCEPT !.stalls = @ + 1,
                                      !.at = IF job[j].stalls = 0 THEN "waiting" ELSE "failed"]
    ELSE IF job[j].at = "toAdd" THEN [job[j] EXCEPT !.at = "none"]
    ELSE job[j]

Exit ==
    /\ call' = [c \in ConfigCalls |-> IF c \in Underway THEN [at |-> "done", on |-> FALSE]
                                      ELSE call[c]]
    /\ scheduledJob' = NoTask /\ cronTasks' = {} /\ ticking' = 0
    /\ job' = [j \in Jobs |-> AfterExit(j)]
    /\ handlers' = {ThisRun(j) : j \in {i \in Jobs : Running(i) /\ job[i].stalls > 0}}
    /\ cut' = cut \cup {ThisRun(j) : j \in {i \in Jobs : Running(i)}}
    /\ UNCHANGED <<configEnabled, requestsMet, jobRow, audit, unlogged>>

ProcessExit == Exit /\ CallFails

\* The failed handler: its update of the processing rows of the trigger is rejected too.
\* Nobody handles that rejection, and the process goes on or ends by it.
FailedHandler(h) ==
    /\ h \in handlers
    /\ \/ /\ handlers' = handlers \ {h}
          /\ UNCHANGED <<schedvars, ticking, jobRow, job, logvars>>
       \/ Exit
    /\ UNCHANGED errorCount

runReconciliation(j) == Start(j) \/ Flag(j) \/ JobFails(j)

updateReconciliationConfig(c) ==
    UpdateConfig(c) \/ ConfigUpdated(c) \/ ReadConfig(c) \/ Schedule(c)

RecNext ==
    \/ \E c \in ConfigCalls : (\E on \in BOOLEAN : PutConfig(c, on)) \/ updateReconciliationConfig(c)
    \/ CronTick \/ CronTickEnds
    \/ \E range \in Ranges : CronTask(range) \/ triggerReconciliation(range)
    \/ \E j \in Jobs : AddJob(j) \/ runReconciliation(j)
    \/ \E h \in handlers : FailedHandler(h)
    \/ ProcessExit

RecSpec == RecInit /\ [][RecNext]_recvars

\* GET /api/reconciliation/status
status(s) == {i \in DOMAIN jobRow : jobRow[i].status = s}
statusAnswer ==
    [active |-> status("processing"),
     completedJobs |-> Cardinality(status("completed")), failedJobs |-> Cardinality(status("failed"))]

-----------------------------------------------------------------------------
(* Properties.                                                           *)

RecTypeOK ==
    /\ configEnabled \in BOOLEAN /\ requestsMet \in BOOLEAN
    /\ call \in [ConfigCalls -> [at : {"none", "update", "updated", "read", "schedule", "done"},
                                 on : BOOLEAN]]
    /\ scheduledJob \in ConfigCalls \cup {NoTask} /\ cronTasks \subseteq ConfigCalls
    /\ ticking \in 0 .. MaxTicks
    /\ jobRow \in Seq([status : {"pending", "processing", "completed", "failed"},
                       range : Ranges, by : {"cron", "manual"}])
    /\ job \in Seq([at : {"toAdd", "none", "waiting", "flag", "throw", "failed"},
                    made : 0 .. maxAttempts, stalls : 0 .. 2])
    /\ Len(job) = Len(jobRow) /\ Len(job) <= MaxJobs
    /\ errorCount \in 0 .. MaxErrors

\* Unless two requests that switch the scheduler overlap, one cron task ticks at most,
\* the one the scheduler holds and can stop, and none ticks while it is disabled.
TasksFollowConfig ==
    ~requestsMet =>
        /\ cronTasks \subseteq {scheduledJob}
        /\ Underway = {} /\ ~configEnabled => cronTasks = {}

\* Each run of a job that has ended left its entry in the log, though under an id its
\* jobs share, unless the write failed or the process ended before it; no entry is of a
\* run that never was.
RunsAreFlagged ==
    /\ \A j \in Jobs : \A n \in 1 .. RunsEnded(j) : <<j, n>> \in audit \cup unlogged \cup cut
    /\ \A r \in audit : r[1] \in Jobs /\ r[2] \in 1 .. RunsEnded(r[1]) + 1

\* Attempts and stalls together: a job is given up for the last of its attempts or its
\* second stall, and one that waits or runs has both left.
AttemptsRunOut ==
    \A j \in Jobs :
        /\ job[j].at = "failed" => job[j].made = maxAttempts \/ job[j].stalls = 2
        /\ job[j].at \in {"waiting", "flag", "throw"} => job[j].made < maxAttempts /\ job[j].stalls < 2

\* No run ever marks a row, its own or that of another job: the status route shows no
\* active job and counts no ended one, whatever the queue did.
StatusShowsNothing == statusAnswer = [active |-> {}, completedJobs |-> 0, failedJobs |-> 0]

\* The scheduler follows its configuration, and jobs run out of attempts with each run
\* on record, though never on their rows.
ReconciliationSafety ==
    /\ RecTypeOK /\ TasksFollowConfig /\ RunsAreFlagged /\ AttemptsRunOut /\ StatusShowsNothing
=============================================================================
