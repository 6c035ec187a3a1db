--------------------------- MODULE SandboxRunner ---------------------------
(***************************************************************************)
(* WasmSandboxRunner of lib/wasm-sandbox/wasm-sandbox-runner.ts: one       *)
(* worker thread per execution, its events against the timeout, and the    *)
(* cache of compiled modules.  What the worker thread does is known to the *)
(* runner only by the events it leaves: a message, an error, its exit.     *)
(***************************************************************************)
EXTENDS Naturals, Sequences, FiniteSets

CONSTANTS
    Executions,   \* calls of execute()
    wasmPath,     \* the module file each of them asks for
    invalidInput  \* calls whose input validateInput() refuses

ASSUME SandboxAssumption ==
    IsFiniteSet(Executions) /\ invalidInput \subseteq Executions /\ DOMAIN wasmPath = Executions

VARIABLES
    phase,          \* new, load, run, settled
    outcome,        \* the promise of execute(): none, output, or the type of its error
    instanceCache,  \* paths whose module is cached
    thread,         \* worker thread: none, alive, gone
    pending,        \* events of the worker not handled yet
    completed, timedOut, armed,  \* the flags and the timer of executeWithTimeout()
    answered        \* history: the first event or timeout handled

sandboxvars == <<phase, outcome, instanceCache, thread, pending, completed, timedOut, armed, answered>>

SandboxInit ==
    /\ phase = [x \in Executions |-> "new"] /\ outcome = [x \in Executions |-> "none"]
    /\ instanceCache = {}
    /\ thread = [x \in Executions |-> "none"] /\ pending = [x \in Executions |-> <<>>]
    /\ completed = {} /\ timedOut = {} /\ armed = {}
    /\ answered = [x \in Executions |-> "none"]

Settled(x, result) ==
    /\ phase' = [phase EXCEPT ![x] = "settled"]
    /\ outcome' = [outcome EXCEPT ![x] = result]

\* The input has data, not too much of it, and a contract.
validateInput(x) == x \notin invalidInput

\* What is left of an output whose shape and size may be wrong.
validateOutput == {"output", "INVALID_OUTPUT"}

\* execute() up to the load: the input is validated.
execute(x) ==
    /\ phase[x] = "new"
    /\ IF ~validateInput(x) THEN Settled(x, "INVALID_INPUT")
       ELSE phase' = [phase EXCEPT ![x] = "load"] /\ UNCHANGED outcome
    /\ UNCHANGED <<instanceCache, thread, pending, completed, timedOut, armed, answered>>

\* loadModule(), cached or compiled; then the worker is started and the timer armed.
loadModule(x) ==
    /\ phase[x] = "load"
    /\ \/ /\ instanceCache' = instanceCache \cup {wasmPath[x]}
          /\ phase' = [phase EXCEPT ![x] = "run"]
          /\ thread' = [thread EXCEPT ![x] = "alive"]
          /\ armed' = armed \cup {x}
          /\ UNCHANGED outcome
       \/ /\ wasmPath[x] \notin instanceCache
          /\ Settled(x, "LOAD_FAILED")
          /\ UNCHANGED <<instanceCache, thread, armed>>
    /\ UNCHANGED <<pending, completed, timedOut, answered>>

clearCache ==
    /\ instanceCache # {} /\ instanceCache' = {}
    /\ UNCHANGED <<phase, outcome, thread, pending, completed, timedOut, armed, answered>>

-----------------------------------------------------------------------------
(* The worker thread: one message or error at most, and its exit.        *)

Leaves(x, events) ==
    /\ thread[x] = "alive"
    /\ pending' = [pending EXCEPT ![x] = @ \o events]
    /\ UNCHANGED <<phase, outcome, instanceCache, completed, timedOut, armed, answered>>

PostExecute(x) ==
    /\ pending[x] = <<>> /\ x \notin completed
    /\ \E m \in {"success", "failure"} : Leaves(x, <<m>>)
    /\ UNCHANGED thread

ThreadEnds(x) ==
    /\ \/ \E code \in {"exit0", "exit1"} : Leaves(x, <<code>>)
       \/ pending[x] = <<>> /\ Leaves(x, <<"error", "exit1">>)
    /\ thread' = [thread EXCEPT ![x] = "gone"]

-----------------------------------------------------------------------------
(* What the runner does about it.  A promise settles once.               *)

\* Regression: a late event replaces what was answered.
AnswerAgain(x, event, result) ==
    /\ answered' = [answered EXCEPT ![x] = IF @ = "none" THEN event ELSE @]
    /\ IF result # "none" THEN Settled(x, result) ELSE UNCHANGED <<phase, outcome>>

Answer(x, event, result) ==
    /\ answered' = [answered EXCEPT ![x] = IF @ = "none" THEN event ELSE @]
    /\ IF outcome[x] = "none" /\ result # "none" THEN Settled(x, result)
       ELSE UNCHANGED <<phase, outcome>>

\* Terminating a thread that is alive makes it exit with code 1.
Terminate(x, rest) ==
    /\ thread' = [thread EXCEPT ![x] = "gone"]
    /\ pending' = [pending EXCEPT ![x] = rest \o (IF thread[x] = "alive" THEN <<"exit1">> ELSE <<>>)]

Timeout(x) ==
    /\ x \in armed /\ armed' = armed \ {x}
    /\ timedOut' = timedOut \cup {x}
    /\ Terminate(x, pending[x])
    /\ Answer(x, "timeout", "TIMEOUT_EXCEEDED")
    /\ UNCHANGED <<instanceCache, completed>>

Taken(x, e) == pending[x] # <<>> /\ Head(pending[x]) = e

\* Regression: the timer goes on after a message.
OnWorkerMessageArmed(x) ==
    /\ \/ Taken(x, "success") /\ \E r \in validateOutput : Answer(x, "message", r)
       \/ Taken(x, "failure") /\ Answer(x, "message", "RUNTIME_PANIC")
    /\ Terminate(x, Tail(pending[x]))
    /\ completed' = completed \cup {x}
    /\ UNCHANGED <<instanceCache, timedOut, armed>>

\* The message; its output is validated once the promise is resolved.
OnWorkerMessage(x) ==
    /\ \/ Taken(x, "success") /\ \E r \in validateOutput : Answer(x, "message", r)
       \/ Taken(x, "failure") /\ Answer(x, "message", "RUNTIME_PANIC")
    /\ Terminate(x, Tail(pending[x]))
    /\ completed' = completed \cup {x} /\ armed' = armed \ {x}
    /\ UNCHANGED <<instanceCache, timedOut>>

OnError(x) ==
    /\ Taken(x, "error")
    /\ Answer(x, "error", "RUNTIME_PANIC")
    /\ Terminate(x, Tail(pending[x]))
    /\ completed' = completed \cup {x} /\ armed' = armed \ {x}
    /\ UNCHANGED <<instanceCache, timedOut>>

\* Regression: an exit is no answer.
OnExitIgnored(x) ==
    /\ Taken(x, "exit0") \/ Taken(x, "exit1")
    /\ pending' = [pending EXCEPT ![x] = Tail(@)]
    /\ IF x \in completed THEN UNCHANGED <<completed, armed, answered, phase, outcome>>
       ELSE /\ completed' = completed \cup {x} /\ armed' = armed \ {x}
            /\ UNCHANGED <<answered, phase, outcome>>
    /\ UNCHANGED <<instanceCache, thread, timedOut>>

\* An exit before any message: an error, except when the exit code is 0.
OnExit(x) ==
    /\ Taken(x, "exit0") \/ Taken(x, "exit1")
    /\ pending' = [pending EXCEPT ![x] = Tail(@)]
    /\ IF x \in completed THEN UNCHANGED <<completed, armed, answered, phase, outcome>>
       ELSE /\ completed' = completed \cup {x} /\ armed' = armed \ {x}
            /\ Answer(x, Head(pending[x]), IF Taken(x, "exit1") THEN "RUNTIME_PANIC" ELSE "none")
    /\ UNCHANGED <<instanceCache, thread, timedOut>>

executeWithTimeout(x) == Timeout(x) \/ OnWorkerMessage(x) \/ OnError(x) \/ OnExit(x)

SandboxNext ==
    \/ clearCache
    \/ \E x \in Executions : execute(x) \/ loadModule(x) \/ PostExecute(x) \/ ThreadEnds(x) \/ executeWithTimeout(x)

\* The event loop runs what is due.
SandboxSpec == SandboxInit /\ [][SandboxNext]_sandboxvars
                 /\ \A x \in Executions : WF_sandboxvars(executeWithTimeout(x))

-----------------------------------------------------------------------------
(* Properties.                                                           *)

SandboxTypeOK ==
    /\ phase \in [Executions -> {"new", "load", "run", "settled"}]
    /\ outcome \in [Executions -> {"none", "output", "INVALID_INPUT", "LOAD_FAILED",
                                   "TIMEOUT_EXCEEDED", "RUNTIME_PANIC", "INVALID_OUTPUT"}]
    /\ thread \in [Executions -> {"none", "alive", "gone"}]
    /\ \A S \in {completed, timedOut, armed, invalidInput} : S \subseteq Executions
    /\ \A x \in Executions : outcome[x] = "none" <=> phase[x] # "settled"

\* The first of message, error, exit and timeout decides, however late the others
\* come: nothing is reported as timed out that had answered, and the reverse.
FirstAnswerDecides ==
    \A x \in Executions :
        /\ outcome[x] = "TIMEOUT_EXCEEDED" <=> answered[x] = "timeout"
        /\ outcome[x] \in {"output", "INVALID_OUTPUT"} => answered[x] = "message"

\* An execution that has settled holds no thread and no timer.
NothingLeftRunning ==
    \A x \in Executions : phase[x] = "settled" => thread[x] # "alive" /\ x \notin armed

\* Every execution that runs settles, except after an exit with code 0 and no message,
\* which clears the timer and settles nothing.
RunSettles == []<>(\A x \in Executions : phase[x] = "run" => answered[x] = "exit0")

\* What an execution reports is what happened first, and nothing of it stays behind.
SandboxSafety == SandboxTypeOK /\ FirstAnswerDecides /\ NothingLeftRunning
=============================================================================
