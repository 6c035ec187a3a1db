---------------------------- MODULE CaptiveCore ----------------------------
(***************************************************************************)
(* The supervisor of a stellar-core subprocess (lib/stellar/captive-core.ts,*)
(* startCaptiveCoreIndexer) over stdio, with a state store.                *)
(*                                                                         *)
(* Launch i is the i-th call of launch() and the core it spawns.  Frames   *)
(* are handled concurrently: each one's handler waits for onLedger and     *)
(* onEvent, then for the save.  fail() waits for the archive of the state. *)
(* An error of load(), archive() or spawn() is an unhandled rejection and  *)
(* ends the process, as Crash does.                                        *)
(***************************************************************************)
EXTENDS Naturals, FiniteSets

CONSTANTS
    MaxLedger,           \* bound: the network closes ledgers 1 .. MaxLedger
    maxRestartAttempts,
    MaxFailures,         \* bound: failures in a behaviour
    MaxInFlight,         \* bound: frames handled at once
    MaxCrashes           \* bound: process crashes in a behaviour

ASSUME CoreAssumption ==
    /\ MaxLedger \in Nat /\ maxRestartAttempts \in Nat
    /\ MaxFailures \in Nat /\ MaxInFlight \in Nat /\ MaxCrashes \in Nat

VARIABLES
    stage,      \* what each launch is at
    next,       \* next ledger each core sends
    current,    \* launch of currentChild, 0 for null
    startup,    \* launches whose startup timer runs
    heart,      \* launches whose heartbeat timer runs
    timersOf,   \* launch whose timers startupTimer and heartbeatTimer name
    status, restartAttempts, lastLedger, stopping,
    silent,     \* no frame came for heartbeatTimeoutMs
    stored,     \* lastLedger of the saved snapshot, 0 when there is none
    failing,    \* calls of fail() that wait for the archive
    handling,   \* frames whose handler runs
    failures, crashes,  \* counters for MaxFailures and MaxCrashes
    exhausted,  \* history: onExhausted was called
    settled     \* history: ledgers delivered, reported to onError as failed, or
                \* cut short by a stop or a crash

core == <<stage, next, current>>
timers == <<startup, heart, timersOf>>
memory == <<status, restartAttempts, lastLedger, stopping, silent, failing, exhausted>>
ledgers == <<stored, handling, settled>>
vars == <<core, timers, memory, ledgers, failures, crashes>>

Ledgers == 1 .. MaxLedger
Launches == 1 .. MaxFailures + 1

Frames == [of : Launches, ledger : Ledgers, waits : {"deliver", "save"}]

larger(a, b) == IF a > b THEN a ELSE b

Init ==
    /\ stage = [i \in Launches |-> IF i = 1 THEN "loading" ELSE "none"]
    /\ next = [i \in Launches |-> 1]
    /\ current = 0 /\ timersOf = 0
    /\ startup = {} /\ heart = {}
    /\ status = "starting" /\ restartAttempts = 0 /\ lastLedger = 0
    /\ stopping = FALSE /\ silent = FALSE /\ exhausted = FALSE
    /\ stored = 0 /\ failing = 0 /\ handling = {}
    /\ failures = 0 /\ crashes = 0
    /\ settled = {}

-----------------------------------------------------------------------------
(* fail()                                                                *)

\* Regression: a failure after stop() is taken like any other.
failStopped(bad) ==
    /\ failures < MaxFailures
    /\ failures' = failures + 1
    /\ settled' = settled \cup bad
    /\ status' = "failed" /\ failing' = failing + 1

\* Up to the archive.  bad holds the ledger of the frame that failed, if any.
fail(bad) ==
    /\ failures < MaxFailures
    /\ failures' = failures + 1
    /\ settled' = settled \cup bad
    /\ IF stopping THEN UNCHANGED <<status, failing>>
       ELSE status' = "failed" /\ failing' = failing + 1

clearTimers ==
    /\ startup' = startup \ {timersOf}
    /\ heart' = heart \ {timersOf}
    /\ timersOf' = 0

\* Launches with currentChild killed and its listeners removed.
Killed == [i \in Launches |-> IF i = current THEN "gone" ELSE stage[i]]

Spare == {i \in Launches : stage[i] = "none"}

Relaunched(i) == [Killed EXCEPT ![i] = "delayed"]

\* Regression: a relaunch is only scheduled while the status is still failed.
FailEndsChecked ==
    /\ failing > 0
    /\ failing' = failing - 1
    /\ clearTimers
    /\ current' = 0
    /\ IF restartAttempts < maxRestartAttempts /\ status = "failed"
       THEN /\ restartAttempts' = restartAttempts + 1
            /\ \E i \in Spare : (\A j \in Spare : i <= j) /\ stage' = Relaunched(i)
            /\ UNCHANGED exhausted
       ELSE /\ stage' = Killed
            /\ exhausted' = (exhausted \/ restartAttempts >= maxRestartAttempts)
            /\ UNCHANGED restartAttempts
    /\ UNCHANGED <<next, status, lastLedger, stopping, silent, ledgers, failures, crashes>>

\* Regression: one restart more than configured.
FailEndsOneMore ==
    /\ failing > 0
    /\ failing' = failing - 1
    /\ clearTimers
    /\ current' = 0
    /\ IF restartAttempts <= maxRestartAttempts
       THEN /\ restartAttempts' = restartAttempts + 1
            /\ \E i \in Spare : (\A j \in Spare : i <= j) /\ stage' = Relaunched(i)
            /\ UNCHANGED exhausted
       ELSE /\ stage' = Killed
            /\ exhausted' = TRUE
            /\ UNCHANGED restartAttempts
    /\ UNCHANGED <<next, status, lastLedger, stopping, silent, ledgers, failures, crashes>>

\* From the archive on; stopping is not looked at again.
FailEnds ==
    /\ failing > 0
    /\ failing' = failing - 1
    /\ clearTimers
    /\ current' = 0
    /\ IF restartAttempts < maxRestartAttempts
       THEN /\ restartAttempts' = restartAttempts + 1
            /\ \E i \in Spare : (\A j \in Spare : i <= j) /\ stage' = Relaunched(i)
            /\ UNCHANGED exhausted
       ELSE /\ stage' = Killed
            /\ exhausted' = TRUE
            /\ UNCHANGED restartAttempts
    /\ UNCHANGED <<next, status, lastLedger, stopping, silent, ledgers, failures, crashes>>

-----------------------------------------------------------------------------
(* launch()                                                              *)

DelayOver(i) ==
    /\ stage[i] = "delayed"
    /\ stage' = [stage EXCEPT ![i] = "loading"]
    /\ status' = "starting"
    /\ UNCHANGED <<next, current, timers, restartAttempts, lastLedger, stopping, silent,
                   failing, exhausted, ledgers, failures, crashes>>

\* Regression: the core starts two ledgers after the saved one.
LoadedSkip(i) ==
    /\ stage[i] = "loading"
    /\ lastLedger' = larger(lastLedger, stored)
    /\ next' = [next EXCEPT ![i] = (IF stored # 0 THEN stored ELSE lastLedger') + 2]
    /\ stage' = [stage EXCEPT ![i] = "writing"]
    /\ UNCHANGED <<current, timers, status, restartAttempts, stopping, silent, failing,
                   exhausted, ledgers, failures, crashes>>

\* The state is loaded; the core will start after the saved ledger.
Loaded(i) ==
    /\ stage[i] = "loading"
    /\ lastLedger' = larger(lastLedger, stored)
    /\ next' = [next EXCEPT ![i] = (IF stored # 0 THEN stored ELSE lastLedger') + 1]
    /\ stage' = [stage EXCEPT ![i] = "writing"]
    /\ UNCHANGED <<current, timers, status, restartAttempts, stopping, silent, failing,
                   exhausted, ledgers, failures, crashes>>

\* The configuration is written: spawn the core and arm both timers.
Spawn(i) ==
    /\ stage[i] = "writing"
    /\ stage' = [stage EXCEPT ![i] = "alive"]
    /\ current' = i
    /\ startup' = startup \cup {i}
    /\ heart' = heart \cup {i}
    /\ timersOf' = i
    /\ UNCHANGED <<next, memory, ledgers, failures, crashes>>

\* Regression: the startup timer looks at a core that already runs.
StartupFiresLate(i) ==
    /\ i \in startup
    /\ startup' = startup \ {i}
    /\ IF status = "running" THEN fail({})
       ELSE UNCHANGED <<failures, status, failing, settled>>
    /\ UNCHANGED <<core, heart, timersOf, restartAttempts, lastLedger, stopping, silent,
                   exhausted, stored, handling, crashes>>

StartupFires(i) ==
    /\ i \in startup
    /\ startup' = startup \ {i}
    /\ IF status = "starting" THEN fail({})
       ELSE UNCHANGED <<failures, status, failing, settled>>
    /\ UNCHANGED <<core, heart, timersOf, restartAttempts, lastLedger, stopping, silent,
                   exhausted, stored, handling, crashes>>

HeartbeatFires(i) ==
    /\ i \in heart
    /\ status = "running" /\ silent
    /\ fail({})
    /\ UNCHANGED <<core, timers, restartAttempts, lastLedger, stopping, silent, exhausted,
                   stored, handling, crashes>>

-----------------------------------------------------------------------------
(* The frames of a core, also of one that was replaced, and those still in *)
(* the pipe of one that is gone.                                           *)

Sends(i) == stage[i] \in {"alive", "gone"} /\ next[i] <= MaxLedger

Frame(i) ==
    /\ Sends(i) /\ Cardinality(handling) < MaxInFlight
    /\ silent' = FALSE
    /\ status' = "running"
    /\ restartAttempts' = 0
    /\ lastLedger' = next[i]
    /\ handling' = handling \cup {[of |-> i, ledger |-> next[i], waits |-> "deliver"]}
    /\ next' = [next EXCEPT ![i] = @ + 1]
    /\ UNCHANGED <<stage, current, timers, stopping, failing, exhausted,
                   stored, settled, failures, crashes>>

\* The decoder throws.
FrameBad(i) ==
    /\ Sends(i)
    /\ silent' = FALSE
    /\ fail({next[i]})
    /\ next' = [next EXCEPT ![i] = @ + 1]
    /\ UNCHANGED <<stage, current, timers, restartAttempts, lastLedger, stopping, exhausted,
                   stored, handling, crashes>>

\* onLedger and every onEvent returned: save.
Delivered(f) ==
    /\ f.waits = "deliver"
    /\ settled' = settled \cup {f.ledger}
    /\ handling' = (handling \ {f}) \cup {[f EXCEPT !.waits = "save"]}
    /\ UNCHANGED <<core, timers, memory, stored, failures, crashes>>

\* Saves share one temporary file, so a save may write what another one wrote there.
SaveOk(f) ==
    /\ f.waits = "save"
    /\ stored' \in {g.ledger : g \in {h \in handling : h.waits = "save"}}
    /\ handling' = handling \ {f}
    /\ UNCHANGED <<core, timers, memory, settled, failures, crashes>>

\* onLedger, onEvent or the save throws.
HandlerFails(f) ==
    /\ fail({f.ledger})
    /\ handling' = handling \ {f}
    /\ UNCHANGED <<core, timers, restartAttempts, lastLedger, stopping, silent, exhausted,
                   stored, crashes>>

-----------------------------------------------------------------------------
(* The core process, the caller and the host.                            *)

\* The core exits, or could not be spawned: its listener calls fail().
Exit(i) ==
    /\ stage[i] \in {"alive", "hung"}
    /\ stage' = [stage EXCEPT ![i] = "gone"]
    /\ fail({})
    /\ UNCHANGED <<next, current, timers, restartAttempts, lastLedger, stopping, silent,
                   exhausted, stored, handling, crashes>>

\* The output stream breaks while the core goes on.
StreamFails(i) ==
    /\ stage[i] = "alive"
    /\ stage' = [stage EXCEPT ![i] = "hung"]
    /\ fail({})
    /\ UNCHANGED <<next, current, timers, restartAttempts, lastLedger, stopping, silent,
                   exhausted, stored, handling, crashes>>

\* The core stops sending.
Hang(i) ==
    /\ stage[i] = "alive"
    /\ stage' = [stage EXCEPT ![i] = "hung"]
    /\ UNCHANGED <<next, current, timers, memory, ledgers, failures, crashes>>

\* Only looked at while running, which starts with a frame.
GoSilent ==
    /\ ~silent /\ status = "running"
    /\ silent' = TRUE
    /\ UNCHANGED <<core, timers, status, restartAttempts, lastLedger, stopping, failing,
                   exhausted, ledgers, failures, crashes>>

\* stop() exists once the first launch has returned.
Stop ==
    /\ ~stopping /\ stage[1] \notin {"loading", "writing"}
    /\ stopping' = TRUE
    /\ status' = "stopped"
    /\ clearTimers
    /\ stage' = Killed
    /\ current' = 0
    /\ UNCHANGED <<next, restartAttempts, lastLedger, silent, failing, exhausted,
                   ledgers, failures, crashes>>

\* The process dies and startCaptiveCoreIndexer runs again.
Crash ==
    /\ crashes < MaxCrashes
    /\ crashes' = crashes + 1
    /\ settled' = settled \cup {f.ledger : f \in handling}
    /\ handling' = {}
    /\ stage' = [i \in Launches |-> IF i = 1 THEN "loading" ELSE "none"]
    /\ next' = [i \in Launches |-> 1]
    /\ current' = 0 /\ timersOf' = 0
    /\ startup' = {} /\ heart' = {}
    /\ status' = "starting" /\ restartAttempts' = 0 /\ lastLedger' = 0
    /\ stopping' = FALSE /\ silent' = FALSE /\ exhausted' = FALSE
    /\ failing' = 0
    /\ UNCHANGED <<stored, failures>>

Launch(i) == DelayOver(i) \/ Loaded(i) \/ Spawn(i)

Handle == \E f \in handling : Delivered(f) \/ SaveOk(f) \/ HandlerFails(f)

Next ==
    \/ FailEnds
    \/ \E i \in Launches :
          \/ Launch(i) \/ StartupFires(i) \/ HeartbeatFires(i)
          \/ Frame(i) \/ FrameBad(i)
          \/ Exit(i) \/ StreamFails(i) \/ Hang(i)
    \/ Handle
    \/ GoSilent
    \/ Stop
    \/ Crash

Spec == Init /\ [][Next]_vars

(* Timers fire, I/O and handlers end, a running core sends the next ledger, *)
(* and when none is running, the silence lasts for heartbeatTimeoutMs.      *)
Fairness ==
    /\ WF_vars(FailEnds)
    /\ \A i \in Launches :
          /\ WF_vars(Launch(i))
          /\ WF_vars(StartupFires(i))
          /\ WF_vars(HeartbeatFires(i))
          /\ WF_vars(stage[i] = "alive" /\ Frame(i))
    /\ WF_vars(Handle)
    /\ WF_vars(GoSilent /\ \A i \in Launches : stage[i] # "alive")

FairSpec == Spec /\ Fairness

-----------------------------------------------------------------------------
(* Properties.                                                           *)

TypeOK ==
    /\ stage \in [Launches -> {"none", "delayed", "loading", "writing", "alive", "hung", "gone"}]
    /\ next \in [Launches -> 1 .. MaxLedger + 1]
    /\ current \in {0} \cup Launches /\ timersOf \in {0} \cup Launches
    /\ startup \subseteq Launches /\ heart \subseteq Launches
    /\ status \in {"starting", "running", "stopped", "failed"}
    /\ restartAttempts \in 0 .. maxRestartAttempts
    /\ lastLedger \in {0} \cup Ledgers /\ stored \in {0} \cup Ledgers
    /\ stopping \in BOOLEAN /\ silent \in BOOLEAN /\ exhausted \in BOOLEAN
    /\ failing \in 0 .. MaxFailures
    /\ handling \subseteq Frames
    /\ failures \in 0 .. MaxFailures /\ crashes \in 0 .. MaxCrashes
    /\ settled \subseteq Ledgers

Accounted == settled \cup {f.ledger : f \in handling}

\* Restarts and overlapping cores leave no ledger out silently: one at or below
\* the saved cursor, or before the next frame of a core, was delivered, is being
\* handled, was reported to onError, or was cut short by a stop or a crash.
NoSilentGap ==
    \A l \in Ledgers :
        \/ l <= stored
        \/ \E i \in Launches : stage[i] \in {"writing", "alive", "hung"} /\ l < next[i]
        => l \in Accounted

\* Until it is stopped or gives up, the supervisor never loses its core: one
\* lives and is watched by a heartbeat, or a launch or a failure is under way.
NeverAbandoned ==
    stopping \/ exhausted \/ failing > 0 \/
    \E i \in Launches :
        \/ stage[i] \in {"delayed", "loading", "writing"}
        \/ stage[i] \in {"alive", "hung"} /\ i \in heart

\* Every ledger is received, or its loss known: a core that dies, hangs or sends
\* garbage is replaced until the restarts are used up.
EveryLedgerReceived ==
    \A l \in Ledgers :
        <>(l \in Accounted \/ stopping \/ exhausted \/ failures = MaxFailures)

MayRun == failing + Cardinality({i \in Launches : stage[i] \notin {"none", "gone"}})

\* stop() cancels neither a restart that is scheduled nor a failure that waits for its
\* archive, each of which can still lead to one core.  But nothing is added to them:
\* what runs or may come to run after the stop never grows in number.
StopWindsDown == [][stopping /\ stopping' => MayRun' <= MayRun]_vars

\* A core that is wanted is replaced, one that is not has no successors.
RestartsAndStops == EveryLedgerReceived /\ StopWindsDown

\* Through restarts, overlapping cores and crashes: no ledger is left out silently, and
\* the supervisor is never left without a watched core.
SupervisionSafety == TypeOK /\ NoSilentGap /\ NeverAbandoned
=============================================================================
