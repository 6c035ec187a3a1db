--------------------------- MODULE ServicesProofs ---------------------------
(* Proofs about the services beside the indexer: the sandbox that runs       *)
(* decoders, the web hooks, the retention job with its archives, the         *)
(* pruner, the realtime server with the live feeds it serves, the rate       *)
(* limiters, and the worker that publishes the events.  Each part is proved  *)
(* by itself, from its inductive invariant.                                  *)
EXTENDS LiveFeed, Retention, Webhooks, SandboxRunner, SlidingWindow, EventPublisher,
        FiniteSetTheorems, SequenceTheorems, WellFoundedInduction, TLAPS

-----------------------------------------------------------------------------
(* The sandbox.                                                          *)

\* What a thread posts, how it exits, and what an execution can be refused with.
Posted == {"success", "failure"}
Exits == {"exit0", "exit1"}
Errors == {"INVALID_INPUT", "LOAD_FAILED", "TIMEOUT_EXCEEDED", "RUNTIME_PANIC", "INVALID_OUTPUT"}

\* What a worker thread can have left: alive, at most its message; then an exit, which
\* a message or an error may precede.
Quiet == {<<>>} \cup {<<m>> : m \in Posted}
Ending == {<<>>} \cup {<<c>> : c \in Exits}
Left == Quiet \cup Ending \cup {<<m, c>> : m \in Posted \cup {"error"}, c \in Exits}

\* The stages of one execution: the timer runs as long as nothing was answered, only an
\* exit with code 0 is answered without settling, and what settled first stays.
Stage(ph, oc, th, pe, an) ==
    /\ ph \in {"new", "load", "run", "settled"} /\ oc \in {"none", "output"} \cup Errors
    /\ th \in {"none", "alive", "gone"} /\ pe \in Left
    /\ oc = "none" <=> ph # "settled"
    /\ oc = "TIMEOUT_EXCEEDED" <=> an = "timeout"
    /\ oc \in {"output", "INVALID_OUTPUT"} => an = "message"
    /\ th = "none" => pe = <<>>
    /\ th = "alive" => pe \in Quiet /\ ph = "run"
    /\ ph \in {"new", "load"} => th = "none" /\ an = "none"
    /\ ph = "run" => th # "none" /\ (an # "none" => an = "exit0" /\ th = "gone" /\ pe = <<>>)
    /\ ph = "settled" /\ an = "none" => th = "none"

\* The stage of an execution, and whether its timer is running.
StageOf(x) ==
    /\ Stage(phase[x], outcome[x], thread[x], pending[x], answered[x])
    /\ x \in armed <=> phase[x] = "run" /\ answered[x] = "none"

\* f is a function of the executions.
Total(f) == f = [x \in Executions |-> f[x]]

\* Every execution is at a stage, and nothing is recorded of anything else.
SandboxInv ==
    /\ Total(phase) /\ Total(outcome) /\ Total(thread) /\ Total(pending) /\ Total(answered)
    /\ \A S \in {completed, timedOut, armed, invalidInput} : S \subseteq Executions
    /\ \A x \in Executions : StageOf(x)

-----------------------------------------------------------------------------

\* What is left of the events of a thread when one is handled, or its end is added.
LEMMA LeftFacts ==
    /\ \A p \in Left : p # <<>> => Tail(p) \in Ending
    /\ \A p \in Left : p # <<>> /\ Head(p) \in Exits => Tail(p) = <<>> /\ p \notin Quiet
    /\ \A p \in Quiet : p # <<>> => Tail(p) = <<>>
    /\ \A p \in Quiet : \A c \in Exits : p \o <<c>> \in Left
    /\ \A p \in Left : p \o <<>> = p
    /\ \A m \in Posted : <<>> \o <<m>> \in Quiet
    /\ <<>> \o <<"error", "exit1">> \in Left
    /\ <<>> \in Quiet /\ Quiet \subseteq Left /\ Ending \subseteq Left
<1>1. \A p \in Left : p = <<>> \/ (\E e \in Posted \cup Exits : p = <<e>>)
                        \/ \E m \in Posted \cup {"error"}, c \in Exits : p = <<m, c>>
  BY DEF Left, Quiet, Ending
<1>2. \A p \in Quiet : p = <<>> \/ \E e \in Posted : p = <<e>>
  BY DEF Quiet
<1>3. \A e : /\ Head(<<e>>) = e /\ Tail(<<e>>) = <<>> /\ <<e>> # <<>>
             /\ <<e>> \o <<>> = <<e>> /\ <<>> \o <<e>> = <<e>>
  OBVIOUS
<1>4. \A e, c : Head(<<e, c>>) = e /\ Tail(<<e, c>>) = <<c>> /\ <<e, c>> # <<>>
  OBVIOUS
<1>5. ASSUME NEW e, NEW c PROVE <<e, c>> \o <<>> = <<e, c>>
  BY ConcatEmptySeq, <<e, c>> \in Seq({e, c})
<1>6. ASSUME NEW e, NEW c PROVE <<e>> \o <<c>> = <<e, c>>
  <2>1. <<e>> \in Seq({e, c})
    OBVIOUS
  <2>2. <<e, c>> \in Seq({e, c}) /\ Len(<<e>>) = 1 /\ Len(<<e, c>>) = 2 /\ <<e>>[1] = e
        /\ <<e, c>>[1] = e /\ <<e, c>>[2] = c
    OBVIOUS
  <2>3. \A i \in 1 .. 2 : Append(<<e>>, c)[i] = <<e, c>>[i]
    BY <2>1, <2>2, AppendProperties, c \in {e, c}
  <2>4. Append(<<e>>, c) \in Seq({e, c}) /\ Len(Append(<<e>>, c)) = 2
    BY <2>1, <2>2, AppendProperties, c \in {e, c}
  <2>5. Append(<<e>>, c) = <<e, c>>
    BY <2>2, <2>3, <2>4, SeqEqual
  <2> QED BY <2>1, <2>5, AppendIsConcat, c \in {e, c}
<1>7. <<>> \o <<>> = <<>> /\ <<>> \o <<"error", "exit1">> = <<"error", "exit1">>
  OBVIOUS
<1>8. /\ \A c \in Exits : <<c>> \in Ending /\ <<c>> \in Left
      /\ \A m \in Posted \cup {"error"}, c \in Exits : <<m, c>> \in Left
      /\ \A m \in Posted : <<m>> \in Quiet
      /\ <<>> \in Quiet /\ <<>> \in Ending /\ Quiet \subseteq Left /\ Ending \subseteq Left
  BY DEF Quiet, Ending, Left
<1>9. ASSUME NEW p \in Left, p # <<>>
      PROVE  Tail(p) \in Ending /\ (Head(p) \in Exits => Tail(p) = <<>> /\ p \notin Quiet)
  <2>1. CASE \E e \in Posted \cup Exits : p = <<e>>
    <3>1. PICK e \in Posted \cup Exits : p = <<e>>
      BY <2>1
    <3>2. Head(p) = e /\ Tail(p) = <<>>
      BY <3>1, <1>3
    <3>3. e \in Exits => p \notin Quiet
      <4>1. ASSUME e \in Exits, p \in Quiet PROVE FALSE
        <5>1. PICK d \in Posted : p = <<d>>
          BY <1>2, <1>9, <4>1
        <5>2. d = e
          BY <3>2, <5>1, <1>3
        <5> QED BY <4>1, <5>2 DEF Posted, Exits
      <4> QED BY <4>1
    <3> QED BY <3>2, <3>3, <1>8
  <2>2. CASE \E m \in Posted \cup {"error"}, c \in Exits : p = <<m, c>>
    <3>1. PICK m \in Posted \cup {"error"}, c \in Exits : p = <<m, c>>
      BY <2>2
    <3>2. Head(p) = m /\ Tail(p) = <<c>>
      BY <3>1, <1>4
    <3> QED BY <3>2, <1>8 DEF Posted, Exits
  <2> QED BY <1>1, <1>9, <2>1, <2>2
<1>10. \A p \in Quiet : \A c \in Exits : p \o <<c>> \in Left
  <2> SUFFICES ASSUME NEW p \in Quiet, NEW c \in Exits PROVE p \o <<c>> \in Left
    OBVIOUS
  <2>1. CASE p = <<>>
    BY <2>1, <1>3, <1>8
  <2>2. ASSUME NEW e \in Posted, p = <<e>> PROVE p \o <<c>> \in Left
    BY <2>2, <1>6, <1>8
  <2> QED BY <1>2, <2>1, <2>2
<1>11. \A p \in Left : p \o <<>> = p
  BY <1>1, <1>3, <1>5, <1>7
<1>12. \A p \in Quiet : p # <<>> => Tail(p) = <<>>
  BY <1>2, <1>3
<1> QED BY <1>3, <1>7, <1>8, <1>9, <1>10, <1>11, <1>12 DEF Exits

\* A step for one execution leaves the others alone: it is enough to look at its stage.
Only(x) ==
    /\ phase' = [phase EXCEPT ![x] = phase'[x]] /\ outcome' = [outcome EXCEPT ![x] = outcome'[x]]
    /\ thread' = [thread EXCEPT ![x] = thread'[x]] /\ pending' = [pending EXCEPT ![x] = pending'[x]]
    /\ answered' = [answered EXCEPT ![x] = answered'[x]]
    /\ armed' \ {x} = armed \ {x}
    /\ completed' \subseteq completed \cup {x} /\ timedOut' \subseteq timedOut \cup {x}

\* A step for one execution that puts it at a stage keeps the invariant.
LEMMA OneExecution ==
    ASSUME SandboxInv, NEW x \in Executions, Only(x), StageOf(x)'
    PROVE  SandboxInv'
<1>1. Total(phase') /\ Total(outcome') /\ Total(thread') /\ Total(pending') /\ Total(answered')
  BY DEF SandboxInv, Total, Only, Total
<1>2. ASSUME NEW y \in Executions \ {x} PROVE StageOf(y)'
  <2>1. StageOf(y)
    BY DEF SandboxInv, Total
  <2>2. y \in armed' <=> y \in armed
    BY DEF Only
  <2>3. phase'[y] = phase[y] /\ outcome'[y] = outcome[y] /\ thread'[y] = thread[y]
        /\ pending'[y] = pending[y] /\ answered'[y] = answered[y]
    BY DEF SandboxInv, Total, Only
  <2> QED BY <2>1, <2>2, <2>3 DEF StageOf, Stage
<1>3. \A S \in {completed', timedOut', armed', invalidInput} : S \subseteq Executions
  BY DEF SandboxInv, Total, Only
<1> QED BY <1>1, <1>2, <1>3 DEF SandboxInv, Total

\* Before anything is executed every execution is new.
LEMMA SandboxInitial == SandboxInit => SandboxInv
<1> SUFFICES ASSUME SandboxInit PROVE SandboxInv
  OBVIOUS
<1>1. \A x \in Executions : StageOf(x)
  BY LeftFacts DEF SandboxInit, StageOf, Stage
<1> QED BY <1>1, SandboxAssumption DEF SandboxAssumption, SandboxInit, SandboxInv, Total

\* execute() and loading its module keep the invariant.
LEMMA SandboxStart ==
    ASSUME SandboxInv, NEW x \in Executions, execute(x) \/ loadModule(x)
    PROVE  SandboxInv'
<1>1. StageOf(x)
  BY DEF SandboxInv, Total
<1>2. Only(x)
  <2>1. /\ phase = [phase EXCEPT ![x] = phase[x]] /\ outcome = [outcome EXCEPT ![x] = outcome[x]]
        /\ thread = [thread EXCEPT ![x] = thread[x]] /\ pending = [pending EXCEPT ![x] = pending[x]]
        /\ answered = [answered EXCEPT ![x] = answered[x]]
    BY DEF SandboxInv, Total
  <2>2. CASE execute(x)
    <3>1. /\ phase' = [phase EXCEPT ![x] = phase'[x]] /\ outcome' = [outcome EXCEPT ![x] = outcome'[x]]
      BY <2>1, <2>2 DEF SandboxInv, Total, execute, Settled
    <3> QED BY <2>1, <2>2, <3>1 DEF Only, execute
  <2>3. CASE loadModule(x)
    <3>1. /\ phase' = [phase EXCEPT ![x] = phase'[x]] /\ outcome' = [outcome EXCEPT ![x] = outcome'[x]]
      BY <2>1, <2>3 DEF SandboxInv, Total, loadModule, Settled
    <3>2. thread' = [thread EXCEPT ![x] = thread'[x]] /\ armed' \ {x} = armed \ {x}
      BY <2>1, <2>3 DEF SandboxInv, Total, loadModule
    <3> QED BY <2>1, <2>3, <3>1, <3>2 DEF Only, loadModule
  <2> QED BY <2>2, <2>3
<1>3. CASE execute(x)
  <2>1. /\ phase[x] = "new"
        /\ UNCHANGED <<thread, pending, armed, answered>>
        /\ \/ phase'[x] = "settled" /\ outcome'[x] = "INVALID_INPUT"
           \/ phase'[x] = "load" /\ outcome'[x] = outcome[x]
    BY <1>3 DEF execute, Settled, SandboxInv, Total
  <2>2. StageOf(x)'
    BY <1>1, <2>1 DEF StageOf, Stage, Errors
  <2> QED BY <1>2, <2>2, OneExecution
<1>4. CASE loadModule(x)
  <2>1. /\ phase[x] = "load"
        /\ UNCHANGED <<pending, answered>>
        /\ \/ phase'[x] = "run" /\ outcome'[x] = outcome[x] /\ thread'[x] = "alive" /\ armed' = armed \cup {x}
           \/ phase'[x] = "settled" /\ outcome'[x] = "LOAD_FAILED" /\ thread' = thread /\ armed' = armed
    BY <1>4 DEF loadModule, Settled, SandboxInv, Total
  <2>2. StageOf(x)'
    BY <1>1, <2>1, LeftFacts DEF StageOf, Stage, Errors
  <2> QED BY <1>2, <2>2, OneExecution
<1> QED BY <1>3, <1>4

\* What a worker thread does, a post or an end, keeps the invariant.
LEMMA SandboxThread ==
    ASSUME SandboxInv, NEW x \in Executions, PostExecute(x) \/ ThreadEnds(x)
    PROVE  SandboxInv'
<1>1. StageOf(x) /\ thread[x] = "alive" /\ UNCHANGED <<phase, outcome, completed, timedOut, armed, answered>>
  BY DEF SandboxInv, Total, PostExecute, ThreadEnds, Leaves
<1>2. phase[x] = "run" /\ answered[x] = "none" /\ pending[x] \in Quiet
  BY <1>1 DEF StageOf, Stage
<1>3. Only(x)
  BY <1>1 DEF SandboxInv, Total, Only, PostExecute, ThreadEnds, Leaves
<1>4. CASE PostExecute(x)
  <2>1. PICK m \in Posted : Leaves(x, <<m>>)
    BY <1>4 DEF PostExecute, Posted
  <2>2. pending'[x] = <<>> \o <<m>> /\ thread' = thread
    BY <1>4, <2>1 DEF PostExecute, Leaves, SandboxInv, Total
  <2>3. StageOf(x)'
    BY <1>1, <1>2, <2>2, LeftFacts DEF StageOf, Stage
  <2> QED BY <1>3, <2>3, OneExecution
<1>5. CASE ThreadEnds(x)
  <2>1. pending'[x] \in Left
    <3>1. CASE \E code \in Exits : Leaves(x, <<code>>)
      <4>1. PICK code \in Exits : Leaves(x, <<code>>)
        BY <3>1
      <4>2. pending'[x] = pending[x] \o <<code>>
        BY <4>1 DEF Leaves, SandboxInv, Total
      <4> QED BY <1>2, <4>2, LeftFacts
    <3>2. CASE pending[x] = <<>> /\ Leaves(x, <<"error", "exit1">>)
      <4>1. pending'[x] = <<>> \o <<"error", "exit1">>
        BY <3>2 DEF Leaves, SandboxInv, Total
      <4> QED BY <4>1, LeftFacts
    <3> QED BY <1>5, <3>1, <3>2 DEF ThreadEnds, Exits
  <2>2. thread'[x] = "gone"
    BY <1>5 DEF ThreadEnds, SandboxInv, Total
  <2>3. StageOf(x)'
    BY <1>1, <1>2, <2>1, <2>2 DEF StageOf, Stage
  <2> QED BY <1>3, <2>3, OneExecution
<1> QED BY <1>4, <1>5

\* Terminating a thread, and what Answer() makes of an event.
LEMMA TerminateFacts ==
    ASSUME SandboxInv, NEW x \in Executions, NEW p \in Left, Terminate(x, p),
           thread[x] = "alive" => p \in Quiet
    PROVE  /\ thread' = [thread EXCEPT ![x] = "gone"] /\ thread'[x] = "gone"
           /\ pending' = [pending EXCEPT ![x] = pending'[x]] /\ pending'[x] \in Left
<1>1. thread' = [thread EXCEPT ![x] = "gone"] /\ thread'[x] = "gone"
      /\ pending' = [pending EXCEPT ![x] = p \o (IF thread[x] = "alive" THEN <<"exit1">> ELSE <<>>)]
  BY DEF Terminate, SandboxInv, Total
<1>2. CASE thread[x] = "alive"
  <2>1. pending'[x] = p \o <<"exit1">>
    BY <1>1, <1>2 DEF SandboxInv, Total
  <2>2. p \o <<"exit1">> \in Left
    BY <1>2, LeftFacts DEF Exits
  <2> QED BY <1>1, <2>1, <2>2 DEF SandboxInv, Total
<1>3. CASE thread[x] # "alive"
  <2>1. pending'[x] = p \o <<>>
    BY <1>1, <1>3 DEF SandboxInv, Total
  <2>2. p \o <<>> \in Left
    BY LeftFacts
  <2> QED BY <1>1, <2>1, <2>2 DEF SandboxInv, Total
<1> QED BY <1>2, <1>3

\* Answer() settles an execution that has not settled, and records the first event only.
LEMMA AnswerFacts ==
    ASSUME SandboxInv, NEW x \in Executions, NEW event, NEW result, Answer(x, event, result)
    PROVE  /\ phase' = [phase EXCEPT ![x] = phase'[x]] /\ outcome' = [outcome EXCEPT ![x] = outcome'[x]]
           /\ answered' = [answered EXCEPT ![x] = answered'[x]]
           /\ answered'[x] = IF answered[x] = "none" THEN event ELSE answered[x]
           /\ IF outcome[x] = "none" /\ result # "none" THEN phase'[x] = "settled" /\ outcome'[x] = result
              ELSE phase'[x] = phase[x] /\ outcome'[x] = outcome[x]
BY DEF Answer, Settled, SandboxInv, Total

\* The timer that fires keeps the invariant.
LEMMA SandboxTimeout ==
    ASSUME SandboxInv, NEW x \in Executions, Timeout(x)
    PROVE  SandboxInv'
<1>1. StageOf(x) /\ x \in armed /\ armed' = armed \ {x} /\ completed' = completed /\ timedOut' = timedOut \cup {x}
      /\ Answer(x, "timeout", "TIMEOUT_EXCEEDED") /\ Terminate(x, pending[x])
  BY DEF Timeout, SandboxInv, Total
<1>2. phase[x] = "run" /\ answered[x] = "none" /\ outcome[x] = "none" /\ pending[x] \in Left
      /\ (thread[x] = "alive" => pending[x] \in Quiet)
  BY <1>1 DEF StageOf, Stage
<1>3. /\ thread' = [thread EXCEPT ![x] = "gone"] /\ thread'[x] = "gone"
      /\ pending' = [pending EXCEPT ![x] = pending'[x]] /\ pending'[x] \in Left
  BY <1>1, <1>2, TerminateFacts
<1>4. /\ phase' = [phase EXCEPT ![x] = phase'[x]] /\ outcome' = [outcome EXCEPT ![x] = outcome'[x]]
      /\ answered' = [answered EXCEPT ![x] = answered'[x]] /\ answered'[x] = "timeout"
      /\ phase'[x] = "settled" /\ outcome'[x] = "TIMEOUT_EXCEEDED"
  BY <1>1, <1>2, AnswerFacts
<1>5. Only(x)
  BY <1>1, <1>3, <1>4 DEF Only
<1>6. StageOf(x)'
  BY <1>1, <1>3, <1>4 DEF StageOf, Stage, Errors
<1> QED BY <1>5, <1>6, OneExecution

\* A message or an error, from a thread that is then terminated.
LEMMA SandboxReport ==
    ASSUME SandboxInv, NEW x \in Executions,
           NEW event \in {"message", "error"}, NEW result \in {"output", "INVALID_OUTPUT", "RUNTIME_PANIC"},
           result # "RUNTIME_PANIC" => event = "message",
           pending[x] # <<>>, Answer(x, event, result), Terminate(x, Tail(pending[x])),
           completed' = completed \cup {x}, armed' = armed \ {x}, timedOut' = timedOut
    PROVE  SandboxInv'
<1>1. StageOf(x)
  BY DEF SandboxInv, Total
<1>2. pending[x] \in Left /\ phase[x] \in {"run", "settled"} /\ (phase[x] = "run" <=> outcome[x] = "none")
      /\ (phase[x] = "run" <=> answered[x] = "none") /\ (thread[x] = "alive" => pending[x] \in Quiet)
  BY <1>1 DEF StageOf, Stage
<1>3. Tail(pending[x]) \in Left /\ (thread[x] = "alive" => Tail(pending[x]) \in Quiet)
  BY <1>2, LeftFacts
<1>4. /\ thread' = [thread EXCEPT ![x] = "gone"] /\ thread'[x] = "gone"
      /\ pending' = [pending EXCEPT ![x] = pending'[x]] /\ pending'[x] \in Left
  BY <1>3, TerminateFacts
<1>5. /\ phase' = [phase EXCEPT ![x] = phase'[x]] /\ outcome' = [outcome EXCEPT ![x] = outcome'[x]]
      /\ answered' = [answered EXCEPT ![x] = answered'[x]]
      /\ answered'[x] = IF answered[x] = "none" THEN event ELSE answered[x]
      /\ IF outcome[x] = "none" THEN phase'[x] = "settled" /\ outcome'[x] = result
         ELSE phase'[x] = phase[x] /\ outcome'[x] = outcome[x]
  BY AnswerFacts
<1>6. Only(x)
  BY <1>4, <1>5 DEF Only
<1>7. StageOf(x)'
  BY <1>1, <1>2, <1>4, <1>5 DEF StageOf, Stage, Errors
<1> QED BY <1>6, <1>7, OneExecution

\* An exit comes last, from a thread that is gone.
LEMMA SandboxExit ==
    ASSUME SandboxInv, NEW x \in Executions, OnExit(x)
    PROVE  SandboxInv'
<1>1. StageOf(x) /\ pending[x] # <<>> /\ Head(pending[x]) \in Exits /\ UNCHANGED <<thread, timedOut>>
      /\ pending' = [pending EXCEPT ![x] = Tail(pending[x])] /\ pending'[x] = Tail(pending[x])
  BY DEF OnExit, Taken, Exits, SandboxInv, Total
<1>2. Tail(pending[x]) = <<>> /\ pending[x] \notin Quiet
  BY <1>1, LeftFacts DEF StageOf, Stage
<1>3. thread[x] = "gone" /\ phase[x] \in {"run", "settled"} /\ (phase[x] = "run" <=> answered[x] = "none")
      /\ (phase[x] = "run" <=> outcome[x] = "none")
  BY <1>1, <1>2 DEF StageOf, Stage
<1>4. CASE UNCHANGED <<completed, armed, answered, phase, outcome>>
  <2>1. Only(x)
    BY <1>1, <1>4 DEF Only, SandboxInv, Total
  <2>2. StageOf(x)'
    BY <1>1, <1>2, <1>3, <1>4, LeftFacts DEF StageOf, Stage
  <2> QED BY <2>1, <2>2, OneExecution
<1>5. ASSUME NEW event \in Exits, Answer(x, event, IF event = "exit1" THEN "RUNTIME_PANIC" ELSE "none"),
             completed' = completed \cup {x}, armed' = armed \ {x}
      PROVE  SandboxInv'
  <2>1. /\ phase' = [phase EXCEPT ![x] = phase'[x]] /\ outcome' = [outcome EXCEPT ![x] = outcome'[x]]
        /\ answered' = [answered EXCEPT ![x] = answered'[x]]
        /\ answered'[x] = IF answered[x] = "none" THEN event ELSE answered[x]
        /\ IF outcome[x] = "none" /\ event = "exit1" THEN phase'[x] = "settled" /\ outcome'[x] = "RUNTIME_PANIC"
           ELSE phase'[x] = phase[x] /\ outcome'[x] = outcome[x]
    BY <1>5, AnswerFacts
  <2>2. Only(x)
    BY <1>1, <1>5, <2>1 DEF Only, SandboxInv, Total
  <2>3. StageOf(x)'
    BY <1>1, <1>2, <1>3, <1>5, <2>1, LeftFacts DEF StageOf, Stage, Errors, Exits
  <2> QED BY <2>2, <2>3, OneExecution
<1> QED BY <1>1, <1>4, <1>5 DEF OnExit, Taken, Exits

\* Whatever comes first decides, and what settled or ended holds no thread and no timer:
\* for any number of executions and every order of their events.
THEOREM SandboxCorrect == SandboxSpec => []SandboxSafety
<1>1. SandboxInv /\ [SandboxNext]_sandboxvars => SandboxInv'
  <2>1. ASSUME SandboxInv, clearCache \/ UNCHANGED sandboxvars PROVE SandboxInv'
    <3>1. \A x \in Executions : StageOf(x)'
      BY <2>1 DEF clearCache, sandboxvars, SandboxInv, Total, StageOf, Stage
    <3> QED BY <2>1, <3>1 DEF clearCache, sandboxvars, SandboxInv, Total
  <2>2. ASSUME SandboxInv, NEW x \in Executions, executeWithTimeout(x) PROVE SandboxInv'
    <3>1. CASE OnWorkerMessage(x)
      BY <2>2, <3>1, SandboxReport DEF OnWorkerMessage, Taken, validateOutput
    <3>2. CASE OnError(x)
      BY <2>2, <3>2, SandboxReport DEF OnError, Taken
    <3> QED BY <2>2, <3>1, <3>2, SandboxTimeout, SandboxExit DEF executeWithTimeout
  <2> QED BY <2>1, <2>2, SandboxStart, SandboxThread DEF SandboxNext
<1>2. SandboxInv => SandboxSafety
  <2> SUFFICES ASSUME SandboxInv PROVE SandboxSafety
    OBVIOUS
  <2>1. \A x \in Executions : StageOf(x)
    BY DEF SandboxInv, Total
  <2>2. /\ \A x \in Executions : phase[x] \in {"new", "load", "run", "settled"}
        /\ \A x \in Executions : outcome[x] \in {"none", "output"} \cup Errors
        /\ \A x \in Executions : thread[x] \in {"none", "alive", "gone"}
    BY <2>1 DEF StageOf, Stage
  <2>3. SandboxTypeOK
    BY <2>1, <2>2 DEF SandboxInv, Total, SandboxTypeOK, StageOf, Stage, Errors
  <2>4. FirstAnswerDecides /\ NothingLeftRunning
    BY <2>1 DEF StageOf, Stage, FirstAnswerDecides, NothingLeftRunning
  <2> QED BY <2>3, <2>4 DEF SandboxSafety
<1> QED BY SandboxInitial, <1>1, <1>2, PTL DEF SandboxSpec

-----------------------------------------------------------------------------
(* The web hooks.                                                        *)

\* A key that was read as owed: it is still to start, has a delivery or a row, or is lost.
Placed(k) ==
    \/ k \in lost \cup toStart
    \/ \E d \in deliveries : KeyOf(d) = k
    \/ \E r \in rows : KeyOf(r) = k

\* A key has at most one delivery, which goes through its stages once, and one row.
OneCourse ==
    /\ \A d, e \in deliveries : KeyOf(d) = KeyOf(e) => d = e
    /\ \A r, q \in rows : KeyOf(r) = KeyOf(q) => r = q
    /\ \A d \in deliveries, r \in rows :
         KeyOf(d) = KeyOf(r) => d.at = "deactivate" /\ ~r.success /\ r.attemptCount = MAX_ATTEMPTS
    /\ \A k \in lost \cup toStart :
         (\A d \in deliveries : KeyOf(d) # k) /\ \A r \in rows : KeyOf(r) # k
    /\ lost \cap toStart = {}
    /\ \A k \in Key : k \in owed <=> Placed(k)

\* What each stage has behind it.
HasBehind(d) ==
    /\ d.at \in {"post", "recordFailure"} => accepted[KeyOf(d)] = 0
    /\ d.at = "recordSuccess" => accepted[KeyOf(d)] = 1
    /\ d.at = "recordFailure" => d.attempt = MAX_ATTEMPTS
    /\ d.at = "deactivate" => \E r \in rows : KeyOf(r) = KeyOf(d)
    /\ d.at = "post" => taken[KeyOf(d)] < d.attempt
    /\ d.at \in {"recordSuccess", "recordFailure"} => taken[KeyOf(d)] <= d.attempt

\* How often an event was taken, and was not before its delivery started.
Receipt(k) ==
    /\ accepted[k] \in {0, 1} /\ accepted[k] <= taken[k] /\ taken[k] <= MAX_ATTEMPTS
    /\ k \notin owed \/ k \in toStart => taken[k] = 0

StageKnown ==
    /\ \A d \in deliveries : HasBehind(d)
    /\ \A r \in rows : (r.success <=> accepted[KeyOf(r)] = 1) /\ taken[KeyOf(r)] <= r.attemptCount
    /\ \A k \in owed : k[2] <= dispatches
    /\ \A k \in Key : Receipt(k)

\* The inductive invariant of the web hooks in memory.
HookInv == HookTypeOK /\ OneCourse /\ StageKnown /\ DeactivatedForCause

\* Before any event nothing is owed.
LEMMA HookInitial == HookInit => HookInv
BY WebhookAssumption DEF WebhookAssumption, HookInit, HookInv, HookTypeOK, OneCourse, Placed, StageKnown,
     Receipt, DeactivatedForCause, Key

\* The records of the deliveries.
Courses == [sub : Subscriptions, event : Dispatched, attempt : 1 .. MAX_ATTEMPTS,
            at : {"post", "recordSuccess", "recordFailure", "deactivate"}]

\* A delivery or a row has a key, that of its own event.
LEMMA KeyFacts ==
    /\ \A d : HookTypeOK /\ d \in deliveries => d \in Courses /\ KeyOf(d) \in Key
    /\ \A r : HookTypeOK /\ r \in rows => KeyOf(r) \in Key
BY DEF HookTypeOK, KeyOf, Key, Courses

\* What is known of the stages and receipts, for a step that leaves them and what is owed.
LEMMA SameStages ==
    ASSUME HookInv, UNCHANGED <<toStart, deliveries, rows, owed, accepted, taken, lost>>,
           dispatches' = dispatches \/ dispatches' = dispatches + 1
    PROVE  OneCourse' /\ StageKnown'
<1>1. OneCourse' BY DEF HookInv, OneCourse, Placed, KeyOf, Key, Dispatched
<1>2. \A k \in owed : k[2] <= dispatches'
  <2>1. dispatches \in Nat BY DEF HookInv, HookTypeOK
  <2>2. \A k \in owed : k[2] \in Nat /\ k[2] <= dispatches BY DEF HookInv, HookTypeOK, StageKnown, Key, Dispatched
  <2> QED BY <2>1, <2>2
<1>3. \A d \in deliveries : HasBehind(d)' BY DEF HookInv, StageKnown, HasBehind, KeyOf
<1>4. \A k \in Key : Receipt(k)' BY DEF HookInv, StageKnown, Receipt
<1> QED BY <1>1, <1>2, <1>3, <1>4 DEF HookInv, StageKnown, Key, Dispatched, KeyOf

\* The steps of the owner of a subscription, and an event dispatched to nobody.
LEMMA OwnerSteps ==
    ASSUME HookInv,
           \/ \E s \in Subscriptions : Register(s) \/ Unsubscribe(s)
           \/ DispatchFails
           \/ UNCHANGED hookvars
    PROVE  HookInv'
<1>1. UNCHANGED <<toStart, deliveries, rows, owed, accepted, taken, lost>>
      /\ (dispatches' = dispatches \/ dispatches' = dispatches + 1)
  BY DEF Register, Unsubscribe, DispatchFails, hookvars, receipts
<1>2. HookTypeOK'
  BY <1>1, WebhookAssumption DEF WebhookAssumption, HookInv, HookTypeOK, Register, Unsubscribe, DispatchFails,
     hookvars, Dispatched, Key
<1>3. OneCourse' /\ StageKnown' BY <1>1, SameStages
<1>4. DeactivatedForCause'
  BY <1>1 DEF HookInv, HookTypeOK, DeactivatedForCause, Register, Unsubscribe, DispatchFails, hookvars
<1> QED BY <1>2, <1>3, <1>4 DEF HookInv

\* What is owed anew is of an event that was never dispatched before.
LEMMA FindStep ==
    ASSUME HookInv, NEW c \in Contracts, FindSubscriptions(c)
    PROVE  HookInv'
<1> PICK New : New = {s \in Subscriptions : subscription[s] = "active" /\ contractOf[s] = c} \X {dispatches + 1}
  OBVIOUS
<1>1. /\ dispatches < MaxDispatches /\ dispatches' = dispatches + 1
      /\ toStart' = toStart \cup New /\ owed' = owed \cup New
      /\ UNCHANGED <<subscription, deliveries, rows, accepted, taken, unsubscribed, lost, faults>>
  BY DEF FindSubscriptions, receipts
<1>2. dispatches \in Nat /\ MaxDispatches \in Nat BY WebhookAssumption DEF WebhookAssumption, HookInv, HookTypeOK
<1>3. New \subseteq Key /\ \A k \in New : k[2] = dispatches + 1
  BY <1>1, <1>2 DEF Key, Dispatched
<1>4. HookTypeOK'
  <2>1. dispatches' \in 0 .. MaxDispatches BY <1>1, <1>2
  <2>2. toStart' \subseteq Key /\ owed' \subseteq Key BY <1>1, <1>3 DEF HookInv, HookTypeOK
  <2> QED BY <1>1, <2>1, <2>2 DEF HookInv, HookTypeOK, Key, Dispatched
<1>5. \A k \in owed : k[2] \in Nat /\ k[2] <= dispatches
  BY DEF HookInv, HookTypeOK, StageKnown, Key, Dispatched
<1>6. \A k \in New : k \notin owed
  <2>1. \A n \in Nat : n <= dispatches => n # dispatches + 1 BY <1>2
  <2> QED BY <2>1, <1>3, <1>5
<1>7. \A k \in New : k \notin lost \cup toStart /\ (\A d \in deliveries : KeyOf(d) # k) /\ \A r \in rows : KeyOf(r) # k
  BY <1>3, <1>6 DEF HookInv, OneCourse, Placed
<1>8. OneCourse'
  <2>1. \A k \in Key : k \in owed' <=> Placed(k)'
    <3> TAKE k \in Key
    <3>1. k \in owed <=> Placed(k) BY DEF HookInv, OneCourse
    <3>2. Placed(k)' <=> Placed(k) \/ k \in New BY <1>1 DEF Placed, KeyOf
    <3> QED BY <3>1, <3>2, <1>1
  <2>2. \A k \in lost \cup toStart' : (\A d \in deliveries : KeyOf(d) # k) /\ \A r \in rows : KeyOf(r) # k
    BY <1>1, <1>7 DEF HookInv, OneCourse
  <2>3. lost \cap toStart' = {} BY <1>1, <1>7 DEF HookInv, OneCourse
  <2> QED BY <1>1, <2>1, <2>2, <2>3 DEF HookInv, OneCourse, Key, Dispatched
<1>9. StageKnown'
  <2>1. \A k \in owed' : k[2] <= dispatches' BY <1>1, <1>2, <1>3, <1>5
  <2>2. \A k \in Key : Receipt(k)'
    <3> TAKE k \in Key
    <3>1. Receipt(k) BY DEF HookInv, StageKnown
    <3>2. k \notin owed' \/ k \in toStart' => taken[k] = 0 BY <3>1, <1>1, <1>6 DEF Receipt
    <3> QED BY <3>1, <3>2, <1>1 DEF Receipt
  <2>3. \A d \in deliveries : HasBehind(d)' BY <1>1 DEF HookInv, StageKnown, HasBehind, KeyOf
  <2> QED BY <1>1, <2>1, <2>2, <2>3 DEF HookInv, StageKnown, Key, Dispatched, KeyOf
<1>10. DeactivatedForCause' BY <1>1 DEF HookInv, DeactivatedForCause
<1> QED BY <1>4, <1>8, <1>9, <1>10 DEF HookInv

\* What was owed and not started is delivered now.
LEMMA DispatchStep ==
    ASSUME HookInv, NEW e \in Dispatched, StartDeliveries(e)
    PROVE  HookInv'
<1> PICK due : due = {k \in toStart : k[2] = e} OBVIOUS
<1> PICK New : New = {FirstAttempt(k) : k \in due} OBVIOUS
<1>1. /\ toStart' = toStart \ due /\ deliveries' = deliveries \cup New
      /\ UNCHANGED <<subscription, rows, dispatches, owed, accepted, taken, unsubscribed, lost, faults>>
  BY DEF StartDeliveries, receipts
<1>2. MAX_ATTEMPTS \in Nat \ {0} /\ due \subseteq toStart /\ toStart \subseteq Key
  BY WebhookAssumption DEF WebhookAssumption, HookInv, HookTypeOK
<1>3. ASSUME NEW k \in due
      PROVE  /\ FirstAttempt(k) \in Courses /\ KeyOf(FirstAttempt(k)) = k
             /\ FirstAttempt(k).at = "post" /\ FirstAttempt(k).attempt = 1
  <2>1. k \in Key BY <1>2
  <2>2. k = <<k[1], k[2]>> /\ k[1] \in Subscriptions /\ k[2] \in Dispatched BY <2>1 DEF Key
  <2>3. FirstAttempt(k).sub = k[1] /\ FirstAttempt(k).event = k[2] /\ FirstAttempt(k).at = "post" /\ FirstAttempt(k).attempt = 1 BY DEF FirstAttempt
  <2>4. FirstAttempt(k) \in Courses BY <2>2, <1>2 DEF FirstAttempt, Courses
  <2> QED BY <2>2, <2>3, <2>4 DEF KeyOf
<1>4. \A d \in New : d \in Courses /\ KeyOf(d) \in due /\ d = FirstAttempt(KeyOf(d)) /\ d.at = "post" /\ d.attempt = 1
  BY <1>3
<1>5. HookTypeOK'
  <2>1. deliveries' \subseteq Courses BY <1>1, <1>4 DEF HookInv, HookTypeOK, Courses
  <2>2. toStart' \subseteq Key BY <1>1, <1>2
  <2> QED BY <1>1, <2>1, <2>2 DEF HookInv, HookTypeOK, Courses, Key, Dispatched
<1>6. \A k \in due : k \notin lost /\ (\A d \in deliveries : KeyOf(d) # k) /\ \A r \in rows : KeyOf(r) # k
  BY <1>2 DEF HookInv, OneCourse
<1>7. OneCourse'
  <2>1. \A d, x \in deliveries' : KeyOf(d) = KeyOf(x) => d = x
    BY <1>1, <1>4, <1>6 DEF HookInv, OneCourse
  <2>2. \A d \in deliveries', r \in rows' :
         KeyOf(d) = KeyOf(r) => d.at = "deactivate" /\ ~r.success /\ r.attemptCount = MAX_ATTEMPTS
    BY <1>1, <1>4, <1>6 DEF HookInv, OneCourse
  <2>3. \A k \in lost' \cup toStart' : \A d \in deliveries' : KeyOf(d) # k
    BY <1>1, <1>4, <1>6 DEF HookInv, OneCourse
  <2>4. \A k \in Key : k \in owed' <=> Placed(k)'
    <3> TAKE k \in Key
    <3>1. (\E d \in deliveries' : KeyOf(d) = k) <=> (\E d \in deliveries : KeyOf(d) = k) \/ k \in due
      <4>1. ASSUME k \in due PROVE \E d \in New : KeyOf(d) = k
        <5>1. FirstAttempt(k) \in New BY <4>1
        <5> QED BY <5>1, <4>1, <1>3
      <4> QED BY <1>1, <1>4, <4>1
    <3>2. k \in owed <=> Placed(k) BY DEF HookInv, OneCourse
    <3>3. Placed(k)' <=> Placed(k)
      <4>1. k \in lost' \cup toStart' \/ k \in due <=> k \in lost \cup toStart BY <1>1, <1>2
      <4> QED BY <4>1, <3>1, <1>1 DEF Placed, KeyOf
    <3> QED BY <1>1, <3>2, <3>3
  <2> QED BY <1>1, <2>1, <2>2, <2>3, <2>4 DEF HookInv, OneCourse, Key, Dispatched
<1>8. StageKnown'
  <2>1. \A d \in deliveries' : HasBehind(d)'
    <3>1. ASSUME NEW d \in New PROVE HasBehind(d)'
      <4>1. Receipt(KeyOf(d)) /\ KeyOf(d) \in toStart BY <1>2, <1>4 DEF HookInv, StageKnown
      <4>2. taken[KeyOf(d)] = 0 /\ accepted[KeyOf(d)] = 0 BY <4>1 DEF Receipt
      <4>3. d.at = "post" /\ d.attempt = 1 BY <1>4
      <4>4. taken'[KeyOf(d)] = 0 /\ accepted'[KeyOf(d)] = 0 BY <4>2, <1>1
      <4> QED BY <4>3, <4>4 DEF HasBehind, KeyOf
    <3>2. ASSUME NEW d \in deliveries PROVE HasBehind(d)' BY <1>1 DEF HookInv, StageKnown, HasBehind, KeyOf
    <3> QED BY <1>1, <3>1, <3>2
  <2>2. \A k \in Key : Receipt(k)' BY <1>1 DEF HookInv, StageKnown, Receipt
  <2> QED BY <1>1, <2>1, <2>2 DEF HookInv, StageKnown, Key, Dispatched, KeyOf
<1>9. DeactivatedForCause' BY <1>1 DEF HookInv, DeactivatedForCause
<1> QED BY <1>5, <1>7, <1>8, <1>9 DEF HookInv

\* An attempt ends: the delivery is at its next stage, and its event was taken or not.
LEMMA StageStep ==
    ASSUME HookInv, NEW d \in deliveries, PostFails(d) \/ PostSucceeds(d)
    PROVE  HookInv'
<1>0. PICK x : \E n \in {0, 1} :
        /\ d.at = "post" /\ deliveries' = (deliveries \ {d}) \cup {x}
        /\ UNCHANGED <<subscription, toStart, rows, dispatches, owed, unsubscribed, lost, faults>>
        /\ taken' = [taken EXCEPT ![KeyOf(d)] = @ + n]
        /\ \/ /\ accepted' = accepted
              /\ \/ d.attempt < MAX_ATTEMPTS /\ x = [d EXCEPT !.attempt = @ + 1]
                 \/ ~(d.attempt < MAX_ATTEMPTS) /\ x = [d EXCEPT !.at = "recordFailure"]
           \/ /\ n = 1 /\ accepted' = [accepted EXCEPT ![KeyOf(d)] = @ + 1]
              /\ x = [d EXCEPT !.at = "recordSuccess"]
  <2>1. CASE PostFails(d)
    <3>1. PICK m \in {0, 1} : taken' = [taken EXCEPT ![KeyOf(d)] = @ + m] BY <2>1 DEF PostFails
    <3>2. PICK y : y = [d EXCEPT !.attempt = @ + 1] OBVIOUS
    <3>3. PICK z : z = [d EXCEPT !.at = "recordFailure"] OBVIOUS
    <3>4. /\ d.at = "post" /\ accepted' = accepted
          /\ UNCHANGED <<subscription, toStart, rows, dispatches, owed, unsubscribed, lost, faults>>
      BY <2>1 DEF PostFails
    <3>5. CASE d.attempt < MAX_ATTEMPTS
      <4>1. deliveries' = (deliveries \ {d}) \cup {y} BY <2>1, <3>2, <3>5 DEF PostFails, Replace
      <4> QED BY <4>1, <3>1, <3>2, <3>4, <3>5
    <3>6. CASE ~(d.attempt < MAX_ATTEMPTS)
      <4>1. deliveries' = (deliveries \ {d}) \cup {z} BY <2>1, <3>3, <3>6 DEF PostFails, Replace
      <4> QED BY <4>1, <3>1, <3>3, <3>4, <3>6
    <3> QED BY <3>5, <3>6
  <2>2. CASE PostSucceeds(d)
    <3>1. PICK y : y = [d EXCEPT !.at = "recordSuccess"] OBVIOUS
    <3>2. /\ d.at = "post" /\ deliveries' = (deliveries \ {d}) \cup {y}
          /\ UNCHANGED <<subscription, toStart, rows, dispatches, owed, unsubscribed, lost, faults>>
          /\ accepted' = [accepted EXCEPT ![KeyOf(d)] = @ + 1]
          /\ taken' = [taken EXCEPT ![KeyOf(d)] = @ + 1]
      BY <3>1, <2>2 DEF PostSucceeds, Replace
    <3>3. 1 \in {0, 1} OBVIOUS
    <3> QED BY <3>1, <3>2, <3>3
  <2> QED BY <2>1, <2>2
<1>1. PICK n \in {0, 1} :
        /\ d.at = "post" /\ deliveries' = (deliveries \ {d}) \cup {x}
        /\ UNCHANGED <<subscription, toStart, rows, dispatches, owed, unsubscribed, lost, faults>>
        /\ taken' = [taken EXCEPT ![KeyOf(d)] = @ + n]
        /\ \/ /\ accepted' = accepted
              /\ \/ d.attempt < MAX_ATTEMPTS /\ x = [d EXCEPT !.attempt = @ + 1]
                 \/ ~(d.attempt < MAX_ATTEMPTS) /\ x = [d EXCEPT !.at = "recordFailure"]
           \/ /\ n = 1 /\ accepted' = [accepted EXCEPT ![KeyOf(d)] = @ + 1]
              /\ x = [d EXCEPT !.at = "recordSuccess"]
  BY <1>0
<1>2. d \in Courses BY KeyFacts DEF HookInv
<1>k. KeyOf(d) \in Key BY KeyFacts DEF HookInv
<1>m. MAX_ATTEMPTS \in Nat \ {0} /\ accepted \in [Key -> Nat] /\ taken \in [Key -> Nat]
  BY WebhookAssumption DEF WebhookAssumption, HookInv, HookTypeOK
<1>3. x \in Courses /\ KeyOf(x) = KeyOf(d) BY <1>1, <1>2, <1>m DEF Courses, KeyOf
<1>4. \/ x.at = "post" /\ accepted' = accepted /\ x.attempt = d.attempt + 1
      \/ x.at = "recordFailure" /\ accepted' = accepted /\ x.attempt = MAX_ATTEMPTS /\ x.attempt = d.attempt
      \/ x.at = "recordSuccess" /\ accepted' = [accepted EXCEPT ![KeyOf(d)] = @ + 1] /\ x.attempt = d.attempt /\ n = 1
  BY <1>1, <1>2, <1>m DEF Courses
<1>5. accepted[KeyOf(d)] = 0 /\ taken[KeyOf(d)] < d.attempt /\ taken[KeyOf(d)] \in Nat /\ d.attempt \in 1 .. MAX_ATTEMPTS
  <2>1. HasBehind(d) BY DEF HookInv, StageKnown
  <2> QED BY <2>1, <1>1, <1>2, <1>k, <1>m DEF HasBehind, Courses
<1>r. /\ \A r \in rows : KeyOf(r) # KeyOf(d)
      /\ KeyOf(d) \notin lost \cup toStart /\ KeyOf(d) \in owed
  BY <1>1, <1>k DEF HookInv, OneCourse, Placed
<1>6. /\ accepted' \in [Key -> Nat] /\ taken' \in [Key -> Nat]
      /\ \A k \in Key : k # KeyOf(d) => accepted'[k] = accepted[k] /\ taken'[k] = taken[k]
      /\ taken'[KeyOf(d)] = taken[KeyOf(d)] + n
  BY <1>1, <1>k, <1>m
<1>7. /\ x.at \in {"post", "recordFailure"} => accepted'[KeyOf(d)] = 0
      /\ x.at = "recordSuccess" => accepted'[KeyOf(d)] = 1 /\ taken'[KeyOf(d)] >= 1
      /\ x.at = "post" => taken'[KeyOf(d)] < x.attempt
      /\ taken'[KeyOf(d)] <= x.attempt /\ taken'[KeyOf(d)] <= MAX_ATTEMPTS
  BY <1>k, <1>m, <1>4, <1>5, <1>6
<1>8. HookTypeOK'
  <2>1. deliveries' \subseteq Courses BY <1>1, <1>3 DEF HookInv, HookTypeOK, Courses
  <2> QED BY <1>1, <2>1, <1>6 DEF HookInv, HookTypeOK, Courses, Key, Dispatched
<1>9. OneCourse'
  <2>1. \A y, z \in deliveries' : KeyOf(y) = KeyOf(z) => y = z
    BY <1>1, <1>3 DEF HookInv, OneCourse
  <2>2. \A y \in deliveries', r \in rows' : KeyOf(y) = KeyOf(r) =>
            y.at = "deactivate" /\ ~r.success /\ r.attemptCount = MAX_ATTEMPTS
    BY <1>1, <1>3, <1>r DEF HookInv, OneCourse
  <2>3. \A k \in lost' \cup toStart' : \A y \in deliveries' : KeyOf(y) # k
    BY <1>1, <1>3 DEF HookInv, OneCourse
  <2>4. \A k : (\E y \in deliveries' : KeyOf(y) = k) <=> \E y \in deliveries : KeyOf(y) = k
    BY <1>1, <1>3
  <2>5. \A k \in Key : k \in owed' <=> Placed(k)'
    <3> TAKE k \in Key
    <3>1. k \in owed <=> Placed(k) BY DEF HookInv, OneCourse
    <3>2. Placed(k)' <=> Placed(k) BY <1>1, <2>4 DEF Placed, KeyOf
    <3> QED BY <3>1, <3>2, <1>1
  <2> QED BY <1>1, <2>1, <2>2, <2>3, <2>5 DEF HookInv, OneCourse, Key, Dispatched
<1>10. StageKnown'
  <2>1. \A y \in deliveries \ {d} : KeyOf(y) # KeyOf(d) /\ KeyOf(y) \in Key
    BY KeyFacts DEF HookInv, OneCourse
  <2>2. \A y \in deliveries' : HasBehind(y)'
    <3>1. ASSUME NEW y \in deliveries \ {d} PROVE HasBehind(y)'
      <4>1. HasBehind(y) BY DEF HookInv, StageKnown
      <4>2. accepted'[KeyOf(y)] = accepted[KeyOf(y)] /\ taken'[KeyOf(y)] = taken[KeyOf(y)] BY <1>6, <2>1
      <4> QED BY <4>1, <4>2, <1>1 DEF HasBehind, KeyOf
    <3>2. HasBehind(x)'
      <4>1. KeyOf(x)' = KeyOf(d) BY <1>3 DEF KeyOf
      <4> QED BY <4>1, <1>4, <1>7 DEF HasBehind
    <3> QED BY <1>1, <3>1, <3>2
  <2>3. \A r \in rows : (r.success <=> accepted'[KeyOf(r)] = 1) /\ taken'[KeyOf(r)] <= r.attemptCount
    <3> TAKE r \in rows
    <3>1. KeyOf(r) \in Key /\ KeyOf(r) # KeyOf(d) BY <1>r, KeyFacts DEF HookInv
    <3>2. accepted'[KeyOf(r)] = accepted[KeyOf(r)] /\ taken'[KeyOf(r)] = taken[KeyOf(r)] BY <3>1, <1>6
    <3> QED BY <3>2 DEF HookInv, StageKnown
  <2>4. \A k \in Key : Receipt(k)'
    <3> TAKE k \in Key
    <3>1. CASE k = KeyOf(d) BY <1>1, <1>4, <1>6, <1>7, <1>r, <3>1 DEF Receipt
    <3>2. CASE k # KeyOf(d)
      <4>1. Receipt(k) BY DEF HookInv, StageKnown
      <4> QED BY <4>1, <3>2, <1>1, <1>6 DEF Receipt
    <3> QED BY <3>1, <3>2
  <2> QED BY <1>1, <2>2, <2>3, <2>4 DEF HookInv, StageKnown, Key, Dispatched, KeyOf
<1>11. DeactivatedForCause' BY <1>1 DEF HookInv, DeactivatedForCause
<1> QED BY <1>8, <1>9, <1>10, <1>11 DEF HookInv

\* The row of a delivery, and what comes after it.
LEMMA RowStep ==
    ASSUME HookInv, NEW d \in deliveries, RecordSuccess(d) \/ RecordFailure(d)
    PROVE  HookInv'
<1>1. PICK success \in BOOLEAN, D \in SUBSET {[d EXCEPT !.at = "deactivate"]} :
        /\ d.at = (IF success THEN "recordSuccess" ELSE "recordFailure")
        /\ D = (IF success THEN {} ELSE {[d EXCEPT !.at = "deactivate"]})
        /\ rows' = rows \cup {Row(d, success)} /\ deliveries' = (deliveries \ {d}) \cup D
        /\ UNCHANGED <<subscription, toStart, dispatches, owed, accepted, taken, unsubscribed, lost, faults>>
  <2>1. CASE RecordSuccess(d)
    BY <2>1 DEF RecordSuccess, Replace, receipts
  <2>2. CASE RecordFailure(d)
    BY <2>2 DEF RecordFailure, Replace, receipts
  <2> QED BY <2>1, <2>2
<1>2. d \in Courses /\ KeyOf(d) \in Key BY KeyFacts DEF HookInv
<1> PICK q : q = Row(d, success) OBVIOUS
<1>3. /\ q \in [sub : Subscriptions, event : Dispatched, success : BOOLEAN, attemptCount : 1 .. MAX_ATTEMPTS]
      /\ KeyOf(q) = KeyOf(d) /\ (q.success <=> success) /\ q.attemptCount = d.attempt
  BY <1>1, <1>2 DEF Row, KeyOf, Courses
<1>4. \A e \in D : /\ e \in Courses
                   /\ KeyOf(e) = KeyOf(d) /\ e.at = "deactivate" /\ ~success
                   /\ \A f \in D : e = f
  BY <1>1, <1>2 DEF KeyOf, Courses
<1>5. /\ accepted[KeyOf(d)] = (IF success THEN 1 ELSE 0)
      /\ ~success => d.attempt = MAX_ATTEMPTS
      /\ taken[KeyOf(d)] <= d.attempt
  <2>1. HasBehind(d) BY DEF HookInv, StageKnown
  <2> QED BY <2>1, <1>1 DEF HasBehind
<1>r. /\ \A r \in rows : KeyOf(r) # KeyOf(d)
      /\ KeyOf(d) \notin lost \cup toStart /\ KeyOf(d) \in owed
      /\ \A x \in deliveries \ {d} : KeyOf(x) # KeyOf(d)
  BY <1>1, <1>2 DEF HookInv, OneCourse, Placed
<1>6. rows' = rows \cup {q} BY <1>1
<1>7. HookTypeOK'
  <2>1. deliveries' \subseteq Courses BY <1>1, <1>4 DEF HookInv, HookTypeOK, Courses
  <2> QED BY <1>1, <1>3, <1>6, <2>1 DEF HookInv, HookTypeOK, Courses, Key, Dispatched
<1>8. OneCourse'
  <2>1. \A x, y \in deliveries' : KeyOf(x) = KeyOf(y) => x = y
    BY <1>1, <1>4, <1>r DEF HookInv, OneCourse
  <2>2. \A x, y \in rows' : KeyOf(x) = KeyOf(y) => x = y
    BY <1>3, <1>r, <1>6 DEF HookInv, OneCourse
  <2>3. ASSUME NEW x \in deliveries', NEW r \in rows', KeyOf(x) = KeyOf(r)
        PROVE  x.at = "deactivate" /\ ~r.success /\ r.attemptCount = MAX_ATTEMPTS
    <3>1. CASE x \in deliveries /\ r \in rows
      BY <2>3, <3>1 DEF HookInv, OneCourse
    <3>2. CASE x \notin deliveries \ {d} /\ r = q
      BY <1>1, <1>3, <1>4, <1>5, <3>2
    <3> QED BY <1>1, <1>3, <1>4, <1>r, <1>6, <2>3, <3>1, <3>2
  <2>4. \A k \in lost' \cup toStart' : (\A x \in deliveries' : KeyOf(x) # k) /\ \A r \in rows' : KeyOf(r) # k
    BY <1>1, <1>3, <1>4, <1>r, <1>6 DEF HookInv, OneCourse
  <2>5. \A k \in Key : k \in owed' <=> Placed(k)'
    <3> TAKE k \in Key
    <3>1. k \in owed <=> Placed(k) BY DEF HookInv, OneCourse
    <3>2. Placed(k)' <=> Placed(k)
      <4>1. CASE k = KeyOf(d)
        <5>1. Placed(k) BY <4>1 DEF Placed
        <5>2. q \in rows' /\ KeyOf(q)' = k BY <4>1, <1>3, <1>6 DEF KeyOf
        <5> QED BY <5>1, <5>2 DEF Placed
      <4>2. CASE k # KeyOf(d)
        <5>1. (\E x \in deliveries' : KeyOf(x) = k) <=> \E x \in deliveries : KeyOf(x) = k BY <4>2, <1>1, <1>4
        <5>2. (\E r \in rows' : KeyOf(r) = k) <=> \E r \in rows : KeyOf(r) = k BY <4>2, <1>3, <1>6
        <5> QED BY <5>1, <5>2, <1>1 DEF Placed, KeyOf
      <4> QED BY <4>1, <4>2
    <3> QED BY <3>1, <3>2, <1>1
  <2>6. lost' \cap toStart' = {} BY <1>1 DEF HookInv, OneCourse
  <2> QED BY <2>1, <2>2, <2>3, <2>4, <2>5, <2>6 DEF OneCourse, Key, Dispatched
<1>9. StageKnown'
  <2>1. \A x \in deliveries' : HasBehind(x)'
    <3>1. ASSUME NEW x \in deliveries PROVE HasBehind(x)'
      <4>1. HasBehind(x) BY DEF HookInv, StageKnown
      <4> QED BY <4>1, <1>1, <1>6 DEF HasBehind, KeyOf
    <3>2. ASSUME NEW x \in D PROVE HasBehind(x)'
      <4>1. x.at = "deactivate" /\ KeyOf(x) = KeyOf(q) /\ q \in rows' BY <1>3, <1>4, <1>6
      <4> QED BY <4>1 DEF HasBehind, KeyOf
    <3> QED BY <1>1, <3>1, <3>2
  <2>2. \A r \in rows' : (r.success <=> accepted'[KeyOf(r)] = 1) /\ taken'[KeyOf(r)] <= r.attemptCount
    BY <1>1, <1>3, <1>5, <1>6 DEF HookInv, StageKnown
  <2>3. \A k \in Key : Receipt(k)' BY <1>1 DEF HookInv, StageKnown, Receipt
  <2> QED BY <1>1, <2>1, <2>2, <2>3 DEF HookInv, StageKnown, Key, Dispatched, KeyOf
<1>10. DeactivatedForCause' BY <1>1 DEF HookInv, DeactivatedForCause
<1> QED BY <1>7, <1>8, <1>9, <1>10 DEF HookInv

\* A delivery ends: it deactivates its subscription, a call fails, or the process exits.
LEMMA EndStep ==
    ASSUME HookInv, NEW D \in SUBSET deliveries, NEW R \in SUBSET toStart,
           deliveries' = deliveries \ D, toStart' = toStart \ R,
           UNCHANGED <<rows, dispatches, owed, accepted, taken, unsubscribed>>,
           lost' = (lost \cup R) \cup {KeyOf(x) : x \in {y \in D : y.at # "deactivate"}},
           faults' \in 0 .. MaxFaults,
           \/ subscription' = subscription
           \/ \E x \in deliveries : x.at = "deactivate" /\ subscription' = [subscription EXCEPT ![x.sub] = "off"]
    PROVE  HookInv'
<1>1. HookTypeOK'
  BY KeyFacts DEF HookInv, HookTypeOK, Key, Dispatched
<1>d. \A x \in deliveries : HasBehind(x) BY DEF HookInv, StageKnown
<1>e. \A x \in D : x.at = "deactivate" => \E r \in rows : KeyOf(r) = KeyOf(x) BY <1>d DEF HasBehind
<1>2. OneCourse'
  <2>1. \A k \in lost' \cup toStart' : \A x \in deliveries' : KeyOf(x) # k
    BY DEF HookInv, OneCourse
  <2>2. \A k \in lost' \cup toStart' : \A r \in rows' : KeyOf(r) # k
    BY DEF HookInv, OneCourse
  <2>3. \A x, y \in deliveries' : KeyOf(x) = KeyOf(y) => x = y
    BY DEF HookInv, OneCourse
  <2>4. \A x \in deliveries', r \in rows' : KeyOf(x) = KeyOf(r) =>
            x.at = "deactivate" /\ ~r.success /\ r.attemptCount = MAX_ATTEMPTS
    BY DEF HookInv, OneCourse
  <2>5. \A r, q \in rows' : KeyOf(r) = KeyOf(q) => r = q
    BY DEF HookInv, OneCourse
  <2>6. lost' \cap toStart' = {}
    BY DEF HookInv, OneCourse
  <2>7. \A k \in Key : k \in owed' <=> Placed(k)'
    <3> TAKE k \in Key
    <3>1. k \in owed <=> Placed(k) BY DEF HookInv, OneCourse
    <3>2. ASSUME NEW x \in D, KeyOf(x) = k PROVE k \in lost' \/ \E r \in rows : KeyOf(r) = k BY <3>2, <1>e
    <3>3. ASSUME NEW x \in D PROVE Placed(KeyOf(x)) BY DEF Placed
    <3>4. Placed(k) => Placed(k)' BY <3>2 DEF Placed, KeyOf
    <3>5. Placed(k)' => Placed(k) BY <3>3 DEF Placed, KeyOf
    <3> QED BY <3>1, <3>4, <3>5
  <2> QED BY <2>1, <2>2, <2>3, <2>4, <2>5, <2>6, <2>7 DEF OneCourse, Key, Dispatched
<1>3. StageKnown'
  <2>1. \A x \in deliveries' : HasBehind(x)' BY <1>d DEF HasBehind, KeyOf
  <2>2. \A k \in Key : Receipt(k)' BY DEF HookInv, StageKnown, Receipt
  <2> QED BY <2>1, <2>2 DEF HookInv, StageKnown, Key, Dispatched, KeyOf
<1>4. DeactivatedForCause'
  <2>1. ASSUME NEW x \in deliveries, x.at = "deactivate"
        PROVE  \E r \in rows : r.sub = x.sub /\ ~r.success /\ r.attemptCount = MAX_ATTEMPTS
    <3>1. PICK r \in rows : KeyOf(r) = KeyOf(x)
      BY <1>d, <2>1 DEF HasBehind
    <3>2. r.sub = x.sub
      BY <3>1 DEF KeyOf
    <3> QED BY <2>1, <3>1, <3>2 DEF HookInv, OneCourse
  <2> QED BY <2>1 DEF HookInv, HookTypeOK, DeactivatedForCause
<1> QED BY <1>1, <1>2, <1>3, <1>4 DEF HookInv

\* Every step of the web hooks keeps the invariant.
LEMMA HookPreserved ==
    ASSUME HookInv, [HookNext]_hookvars PROVE HookInv'
<1>0. faults \in 0 .. MaxFaults /\ MaxFaults \in Nat
  BY WebhookAssumption DEF WebhookAssumption, HookInv, HookTypeOK
<1>1. ASSUME NEW d \in deliveries, Deactivate(d) PROVE HookInv'
  <2>1. /\ deliveries' = deliveries \ {d} /\ toStart' = toStart \ {}
        /\ lost' = (lost \cup {}) \cup {KeyOf(x) : x \in {y \in {d} : y.at # "deactivate"}}
        /\ UNCHANGED <<rows, dispatches, owed, accepted, taken, unsubscribed, faults>>
    BY <1>1 DEF Deactivate, Replace, receipts
  <2>2. \E x \in deliveries : x.at = "deactivate" /\ subscription' = [subscription EXCEPT ![x.sub] = "off"]
    BY <1>1 DEF Deactivate
  <2>3. {d} \in SUBSET deliveries /\ {} \in SUBSET toStart OBVIOUS
  <2> QED BY <1>0, <2>1, <2>2, <2>3, EndStep
<1>2. ASSUME NEW d \in deliveries, DeliveryAborts(d) PROVE HookInv'
  <2>1. /\ deliveries' = deliveries \ {d} /\ toStart' = toStart \ {}
        /\ lost' = (lost \cup {}) \cup {KeyOf(x) : x \in {y \in {d} : y.at # "deactivate"}}
        /\ UNCHANGED <<subscription, rows, dispatches, owed, accepted, taken, unsubscribed>>
    BY <1>2 DEF DeliveryAborts, Replace, receipts
  <2>2. faults' \in 0 .. MaxFaults
    BY <1>0, <1>2 DEF DeliveryAborts
  <2>3. {d} \in SUBSET deliveries /\ {} \in SUBSET toStart OBVIOUS
  <2> QED BY <2>1, <2>2, <2>3, EndStep
<1>3. ASSUME ProcessExit PROVE HookInv'
  <2>1. /\ deliveries' = deliveries \ deliveries /\ toStart' = toStart \ toStart /\ faults' \in 0 .. MaxFaults
        /\ UNCHANGED <<subscription, rows, dispatches, owed, accepted, taken, unsubscribed>>
        /\ lost' = (lost \cup toStart) \cup {KeyOf(x) : x \in {y \in deliveries : y.at # "deactivate"}}
    BY <1>0, <1>3 DEF ProcessExit, receipts
  <2>2. deliveries \in SUBSET deliveries /\ toStart \in SUBSET toStart OBVIOUS
  <2> QED BY <2>1, <2>2, EndStep
<1> QED BY <1>1, <1>2, <1>3, OwnerSteps, FindStep, DispatchStep, StageStep, RowStep DEF HookNext, deliverToSubscription

\* A set with at most one member has as many members as it has.
LEMMA AtMostOne ==
    ASSUME NEW S, \A x, y \in S : x = y
    PROVE  Cardinality(S) = IF S = {} THEN 0 ELSE 1
<1>1. CASE S = {} BY <1>1, FS_EmptySet
<1>2. CASE S # {}
  <2>1. PICK x : S = {x} BY <1>2
  <2> QED BY <1>2, <2>1, FS_Singleton
<1> QED BY <1>1, <1>2

\* The invariant accounts for each event that is owed to a subscription.
LEMMA HookAccounts == HookInv => WebhookSafety
<1> SUFFICES ASSUME HookInv, NEW k \in Key
             PROVE  /\ Cardinality(Written(k)) + Cardinality(Unwritten(k))
                         + Cardinality({k} \cap (toStart \cup lost)) = Cardinality({k} \cap owed)
                    /\ {k} \cap toStart \cap lost = {}
                    /\ \A r \in Written(k) : (r.success <=> accepted[k] = 1) /\ taken[k] <= r.attemptCount
                    /\ accepted[k] <= 1 /\ accepted[k] <= taken[k] /\ taken[k] <= MAX_ATTEMPTS
  BY DEF HookInv, WebhookSafety, DeliveryAccounted
<1>1. /\ \A r \in Written(k) : r \in rows /\ KeyOf(r) = k
      /\ \A d \in Unwritten(k) : d \in deliveries /\ KeyOf(d) = k /\ d.at # "deactivate"
      /\ \A r \in rows : KeyOf(r) = k => r \in Written(k)
      /\ \A d \in deliveries : KeyOf(d) = k /\ d.at # "deactivate" => d \in Unwritten(k)
  BY DEF Written, Unwritten, KeyOf
<1>2. /\ \A r, q \in Written(k) : r = q
      /\ \A d, e \in Unwritten(k) : d = e
      /\ Written(k) = {} \/ Unwritten(k) = {}
  BY <1>1 DEF HookInv, OneCourse
<1>3. /\ k \in toStart \cup lost => Written(k) = {} /\ Unwritten(k) = {}
      /\ k \in owed <=> k \in toStart \cup lost \/ Written(k) # {} \/ Unwritten(k) # {}
  <2>1. \A d \in deliveries : HasBehind(d) BY DEF HookInv, StageKnown
  <2>2. \A d \in deliveries : KeyOf(d) = k => Written(k) # {} \/ Unwritten(k) # {}
    <3> SUFFICES ASSUME NEW d \in deliveries, KeyOf(d) = k PROVE Written(k) # {} \/ Unwritten(k) # {} OBVIOUS
    <3>1. CASE d.at = "deactivate" BY <2>1, <1>1, <3>1 DEF HasBehind
    <3>2. CASE d.at # "deactivate" BY <1>1, <3>2
    <3> QED BY <3>1, <3>2
  <2>3. k \in owed <=> Placed(k) BY DEF HookInv, OneCourse
  <2>4. Placed(k) <=> k \in toStart \cup lost \/ Written(k) # {} \/ Unwritten(k) # {}
    BY <2>2, <1>1 DEF Placed
  <2>5. k \in toStart \cup lost => Written(k) = {} /\ Unwritten(k) = {} BY <1>1 DEF HookInv, OneCourse
  <2> QED BY <2>3, <2>4, <2>5
<1>4. /\ Cardinality(Written(k)) = IF Written(k) = {} THEN 0 ELSE 1
      /\ Cardinality(Unwritten(k)) = IF Unwritten(k) = {} THEN 0 ELSE 1
  BY <1>2, AtMostOne
<1>5. \A S : Cardinality({k} \cap S) = IF k \in S THEN 1 ELSE 0
  <2> SUFFICES ASSUME NEW S PROVE Cardinality({k} \cap S) = IF k \in S THEN 1 ELSE 0 OBVIOUS
  <2>1. CASE k \in S
    <3>1. {k} \cap S = {k} BY <2>1
    <3> QED BY <2>1, <3>1, FS_Singleton
  <2>2. CASE k \notin S
    <3>1. {k} \cap S = {} BY <2>2
    <3> QED BY <2>2, <3>1, FS_EmptySet
  <2> QED BY <2>1, <2>2
<1>6. Cardinality({k} \cap (toStart \cup lost)) = IF k \in toStart \cup lost THEN 1 ELSE 0 BY <1>5
<1>7. Cardinality({k} \cap owed) = IF k \in owed THEN 1 ELSE 0 BY <1>5
<1>8. Cardinality(Written(k)) + Cardinality(Unwritten(k)) + Cardinality({k} \cap (toStart \cup lost))
        = Cardinality({k} \cap owed)
  BY <1>2, <1>3, <1>4, <1>6, <1>7
<1>9. {k} \cap toStart \cap lost = {} BY DEF HookInv, OneCourse
<1>10. \A r \in Written(k) : (r.success <=> accepted[k] = 1) /\ taken[k] <= r.attemptCount
  BY <1>1 DEF HookInv, StageKnown
<1>11. accepted[k] <= 1 /\ accepted[k] <= taken[k] /\ taken[k] <= MAX_ATTEMPTS
  <2>1. Receipt(k) BY DEF HookInv, StageKnown
  <2> QED BY <2>1 DEF Receipt
<1> QED BY <1>8, <1>9, <1>10, <1>11

\* What is owed to a subscription that was read as active is delivered in one course and
\* recorded in one row, which says whether the endpoint answered with success, or a fault
\* ended it; nothing else is delivered, an endpoint takes an event at most once for each
\* attempt, and a subscription goes off only for a cause.
THEOREM WebhooksCorrect == HookSpec => []WebhookSafety
<1>1. HookInv /\ [HookNext]_hookvars => HookInv'
  BY HookPreserved
<1> QED BY HookInitial, <1>1, HookAccounts, PTL DEF HookSpec

-----------------------------------------------------------------------------
(* The retention job.                                                    *)

\* The rows that are in a file, or whose file a listed cause took away.
Kept ==
    {r \in OldRows : r \in overwritten \/ r \in unlinked \/ \E d \in Days : r \in archive[d]}

\* The rows kept, before and after a step.
LEMMA KeptRows ==
    /\ \A r : r \in Kept <=>
            r \in OldRows /\ (r \in overwritten \/ r \in unlinked \/ \E d \in Days : r \in archive[d])
    /\ \A r : r \in Kept' <=>
            r \in OldRows /\ (r \in overwritten' \/ r \in unlinked' \/ \E d \in Days : r \in archive'[d])
  BY DEF Kept, Days, OldRows

\* No two runs open the file of one day.
OneRunADay ==
    \A i, k \in Runs : i # k /\ run[i].file # "none" /\ run[k].file # "none" => run[i].day # run[k].day

\* What a run has written was old when it began, and is kept once it may delete it.
RunOK(k) ==
    /\ run[k].at = "none" <=> k > started
    /\ run[k].at \in {"none", "open"} => run[k].file = "none"
    /\ run[k].at \in {"read", "delete"} => run[k].file # "none"
    /\ run[k].file = "none" => run[k].written = {}
    /\ \A r \in run[k].written : oldFrom[r] <= run[k].cutoff
    /\ run[k].at = "delete" => run[k].written \subseteq Kept

\* The file a run writes to counts for nothing yet, and is whole if nobody else writes to it.
FileOK(k) ==
    run[k].at = "read" /\ run[k].file # "gone" =>
        /\ archive[run[k].day] = {}
        /\ run[k].file = "whole" =>
             \A q \in Runs : run[q].at = "read" /\ run[q].day = run[k].day /\ run[q].file # "gone" => q = k

RunsInv == \A k \in Runs : RunOK(k) /\ FileOK(k)

\* A file is filled by a run of its day; what is deleted was written and kept.
Filled ==
    \A d \in Days : archive[d] # {} =>
        \E k \in Runs : run[k].day = d /\ run[k].file # "none" /\ run[k].at \in {"delete", "done"}
PurgedKnown == purged \subseteq Kept /\ \A r \in purged : \E i \in Runs : r \in run[i].written
Clean ==
    failures = 0 /\ OneRunADay =>
        overwritten = {} /\ unlinked = {} /\ \A k \in Runs : run[k].at = "read" => run[k].file = "whole"

\* The inductive invariant of the retention job.
ArchiveInv == RetTypeOK /\ RunsInv /\ Filled /\ PurgedKnown /\ Clean

\* The stages of a run, and the record it keeps.
Stages == {"none", "open", "read", "delete", "done"}
RunFiles == {"none", "whole", "garbled", "gone"}
RunRecord == [at : Stages, cutoff : 0 .. MaxTime, day : Days, file : RunFiles,
              written : SUBSET OldRows, deleted : SUBSET OldRows]

LEMMA RetTypes ==
    ASSUME ArchiveInv
    PROVE  /\ run \in [Runs -> RunRecord] /\ archive \in [Days -> SUBSET OldRows]
           /\ started \in 0 .. MaxRuns /\ MaxRuns \in Nat /\ failures \in 0 .. MaxFailures
           /\ MaxFailures \in Nat /\ hour \in 0 .. MaxTime /\ table \subseteq OldRows
           /\ hour \div TicksPerDay \in Days
<1>1. hour \div TicksPerDay \in Days BY DEF ArchiveInv, RetTypeOK, Days
<1>2. MaxRuns \in Nat /\ MaxFailures \in Nat BY RetentionAssumption DEF RetentionAssumption
<1> QED BY <1>1, <1>2 DEF ArchiveInv, RetTypeOK, RunRecord, Stages, RunFiles

\* What a step may not do to what is known of the purged rows.
LEMMA PurgedStays ==
    ASSUME ArchiveInv, Kept \subseteq Kept',
           \A k \in Runs : run[k].written \subseteq run'[k].written,
           \A r \in purged' \ purged : r \in Kept' /\ \E i \in Runs : r \in run'[i].written
    PROVE  PurgedKnown'
  BY DEF ArchiveInv, PurgedKnown, Runs

\* Days stay apart backwards: a step opens files and forgets none.
LEMMA DaysApart ==
    ASSUME \A k \in Runs : run[k].file # "none" => run'[k].file # "none" /\ run'[k].day = run[k].day,
           OneRunADay'
    PROVE  OneRunADay
  BY DEF OneRunADay, Runs

\* Opening the file of the day, which empties it, keeps the invariant.
LEMMA OpenFileStep == ASSUME ArchiveInv, NEW i \in Runs, OpenFile(i) PROVE ArchiveInv'
<1>0. /\ run \in [Runs -> RunRecord] /\ archive \in [Days -> SUBSET OldRows] /\ hour \div TicksPerDay \in Days
  BY RetTypes
<1> PICK day \in Days : day = hour \div TicksPerDay BY <1>0
<1> PICK file : file = IF Writers(day) = {} THEN "whole" ELSE "garbled" OBVIOUS
<1>1. /\ run[i].at = "open"
      /\ archive' = [archive EXCEPT ![day] = {}] /\ overwritten' = overwritten \cup archive[day]
      /\ UNCHANGED <<hour, table, started, purged, unlinked, failures>>
      /\ run' = [k \in Runs |-> IF k = i THEN WithFile(i, file)
                                ELSE IF k \in Writers(day) THEN [run[k] EXCEPT !.file = "garbled"] ELSE run[k]]
  BY DEF OpenFile
<1>2. /\ run[i].file = "none" /\ run[i].written = {} BY <1>1 DEF ArchiveInv, RunsInv, RunOK
<1>3. \A k \in Runs : k \in Writers(day) <=> run[k].at = "read" /\ run[k].day = day /\ run[k].file # "gone"
  BY DEF Writers
<1>4. /\ run'[i] \in RunRecord /\ run'[i].at = "read" /\ run'[i].day = day /\ run'[i].file = file
      /\ run'[i].written = {} /\ run'[i].cutoff = run[i].cutoff
  <2>1. run'[i] = [run[i] EXCEPT !.at = "read", !.day = day, !.file = file] BY <1>1 DEF WithFile
  <2>2. file \in RunFiles BY DEF RunFiles
  <2>3. run[i] \in RunRecord BY <1>0
  <2>4. PICK n : n = [run[i] EXCEPT !.at = "read", !.day = day, !.file = file] OBVIOUS
  <2>5. n \in RunRecord BY <2>2, <2>3, <2>4 DEF RunRecord, Stages
  <2>6. /\ n.at = "read" /\ n.day = day /\ n.file = file
        /\ n.written = run[i].written /\ n.cutoff = run[i].cutoff
    BY <2>3, <2>4 DEF RunRecord
  <2>7. run'[i] = n BY <2>1, <2>4
  <2> QED BY <1>2, <2>5, <2>6, <2>7
<1>5. ASSUME NEW k \in Runs, k # i
      PROVE  /\ run'[k] \in RunRecord /\ run'[k].at = run[k].at /\ run'[k].day = run[k].day
             /\ run'[k].cutoff = run[k].cutoff /\ run'[k].written = run[k].written
             /\ k \in Writers(day) => run'[k].file = "garbled"
             /\ k \notin Writers(day) => run'[k].file = run[k].file
  <2>1. CASE k \in Writers(day)
    <3>1. run'[k] = [run[k] EXCEPT !.file = "garbled"] BY <1>1, <1>5, <2>1
    <3> QED BY <1>0, <2>1, <3>1 DEF RunRecord, RunFiles
  <2>2. CASE k \notin Writers(day)
    <3>1. run'[k] = run[k] BY <1>1, <1>5, <2>2
    <3> QED BY <1>0, <2>2, <3>1
  <2> QED BY <2>1, <2>2
<1>6. run' \in [Runs -> RunRecord]
  <2>1. \A k \in Runs : run'[k] \in RunRecord BY <1>4, <1>5
  <2>2. DOMAIN run' = Runs /\ run' = [k \in Runs |-> run'[k]] BY <1>1
  <2> QED BY <2>1, <2>2
<1>7. archive' \in [Days -> SUBSET OldRows] /\ archive'[day] = {} /\ \A d \in Days \ {day} : archive'[d] = archive[d]
  BY <1>0, <1>1
<1>8. Kept \subseteq Kept'
  <2>1. \A d \in Days : archive[d] \subseteq archive'[d] \cup overwritten' BY <1>1, <1>7
  <2>2. overwritten \subseteq overwritten' /\ unlinked = unlinked' BY <1>1
  <2> QED BY <2>1, <2>2, KeptRows
<1>9. ASSUME NEW k \in Runs PROVE RunOK(k)'
  <2>1. RunOK(k) BY DEF ArchiveInv, RunsInv
  <2>2. CASE k = i BY <1>1, <1>4, <2>1, <2>2 DEF RunOK
  <2>3. CASE k # i
    <3>1. run'[k].file = "none" <=> run[k].file = "none" BY <1>3, <1>5, <2>1, <2>3 DEF RunOK
    <3> QED BY <1>1, <1>5, <1>8, <2>1, <2>3, <3>1 DEF RunOK
  <2> QED BY <2>2, <2>3
<1>10. file = "whole" => \A k \in Runs : k # i => ~(run[k].at = "read" /\ run[k].day = day /\ run[k].file # "gone")
  BY <1>3
<1>11. ASSUME NEW k \in Runs PROVE FileOK(k)'
  <2>1. CASE k = i
    <3>1. ASSUME file = "whole", NEW q \in Runs, run'[q].at = "read", run'[q].day = day, run'[q].file # "gone"
          PROVE  q = i
      <4>1. SUFFICES ASSUME q # i PROVE FALSE OBVIOUS
      <4>2. q \notin Writers(day) BY <3>1
      <4> QED BY <1>3, <1>5, <3>1, <4>1, <4>2
    <3> QED BY <1>4, <1>7, <2>1, <3>1 DEF FileOK
  <2>2. CASE k # i
    <3>1. FileOK(k) BY DEF ArchiveInv, RunsInv
    <3>2. SUFFICES ASSUME run'[k].at = "read", run'[k].file # "gone" PROVE FileOK(k)' BY DEF FileOK
    <3>3. run[k].at = "read" /\ run[k].file # "gone" BY <1>3, <1>5, <2>2, <3>2
    <3>4. archive'[run'[k].day] = {} BY <1>0, <1>5, <1>7, <2>2, <3>1, <3>3 DEF FileOK, RunRecord
    <3>5. ASSUME run'[k].file = "whole", NEW q \in Runs, run'[q].at = "read", run'[q].day = run'[k].day,
                 run'[q].file # "gone"
          PROVE  q = k
      <4>1. k \notin Writers(day) BY <1>5, <2>2, <3>5
      <4>2. run[k].day # day /\ run[k].file = "whole" BY <1>3, <1>5, <2>2, <3>3, <3>5, <4>1
      <4>3. q # i BY <1>4, <1>5, <2>2, <3>5, <4>2
      <4>4. run[q].at = "read" /\ run[q].day = run[k].day /\ run[q].file # "gone"
        BY <1>3, <1>5, <2>2, <3>5, <4>3
      <4> QED BY <3>1, <3>3, <4>2, <4>4 DEF FileOK
    <3> QED BY <3>4, <3>5 DEF FileOK
  <2> QED BY <2>1, <2>2
<1>12. RunsInv' BY <1>9, <1>11 DEF RunsInv, Runs
<1>13. Filled'
  <2>1. SUFFICES ASSUME NEW d \in Days, archive'[d] # {}
                 PROVE  \E k \in Runs : run'[k].day = d /\ run'[k].file # "none" /\ run'[k].at \in {"delete", "done"}
    BY DEF Filled, Days, Runs
  <2>2. d # day /\ archive[d] # {} BY <1>7, <2>1
  <2>3. PICK k \in Runs : run[k].day = d /\ run[k].file # "none" /\ run[k].at \in {"delete", "done"}
    BY <2>2 DEF ArchiveInv, Filled
  <2>4. k # i /\ k \notin Writers(day) BY <1>1, <1>3, <2>3
  <2> QED BY <1>5, <2>3, <2>4
<1>14. PurgedKnown'
  <2>1. \A k \in Runs : run[k].written \subseteq run'[k].written BY <1>2, <1>4, <1>5
  <2> QED BY <1>1, <1>8, <2>1, PurgedStays
<1>15. Clean'
  <2>1. SUFFICES ASSUME failures' = 0, OneRunADay'
                 PROVE  overwritten' = {} /\ unlinked' = {} /\ \A k \in Runs : run'[k].at = "read" => run'[k].file = "whole"
    BY DEF Clean, Runs
  <2>2. \A k \in Runs : run[k].file # "none" => run'[k].file # "none" /\ run'[k].day = run[k].day
    BY <1>2, <1>5
  <2>3. OneRunADay BY <2>1, <2>2, DaysApart
  <2>4. overwritten = {} /\ unlinked = {} /\ \A k \in Runs : run[k].at = "read" => run[k].file = "whole"
    BY <1>1, <2>1, <2>3 DEF ArchiveInv, Clean
  <2>5. \A k \in Runs : k # i /\ run[k].file # "none" => run[k].day # day
    <3>1. file # "none" OBVIOUS
    <3> QED BY <1>4, <1>5, <2>1, <2>2, <3>1 DEF OneRunADay
  <2>6. Writers(day) = {}
    <3>1. \A k \in Runs : run[k].at = "read" => run[k].file # "none" BY DEF ArchiveInv, RunsInv, RunOK
    <3> QED BY <1>1, <1>3, <2>5, <3>1 DEF Writers
  <2>7. archive[day] = {}
    <3>1. SUFFICES ASSUME archive[day] # {} PROVE FALSE OBVIOUS
    <3>2. PICK k \in Runs : run[k].day = day /\ run[k].file # "none" /\ run[k].at \in {"delete", "done"}
      BY <3>1 DEF ArchiveInv, Filled
    <3> QED BY <1>1, <2>5, <3>2
  <2>8. file = "whole" BY <2>6
  <2> QED BY <1>1, <1>4, <1>5, <2>4, <2>6, <2>7, <2>8
<1>16. RetTypeOK' BY <1>1, <1>6, <1>7 DEF ArchiveInv, RetTypeOK, RunRecord, Stages, RunFiles
<1> QED BY <1>12, <1>13, <1>14, <1>15, <1>16 DEF ArchiveInv

\* A step that leaves the files alone keeps all there was.
LEMMA SameFiles ==
    ASSUME UNCHANGED <<archive, overwritten, unlinked>>
    PROVE  Kept' = Kept
  BY DEF Kept

\* A step of one run that keeps its day and file, and of whose rows none is lost.
LEMMA RunStep ==
    ASSUME ArchiveInv, NEW i \in Runs, run[i].at \in {"read", "delete"},
           NEW new \in RunRecord, run' = [run EXCEPT ![i] = new],
           new.at \notin {"none", "open"}, new.cutoff = run[i].cutoff, new.day = run[i].day,
           new.file = run[i].file, run[i].written \subseteq new.written,
           \A r \in new.written : oldFrom[r] <= new.cutoff,
           new.at = "read" => run[i].at = "read",
           new.at = "delete" => new.written \subseteq Kept',
           Kept \subseteq Kept', UNCHANGED <<started, failures, hour>>,
           archive' \in [Days -> SUBSET OldRows], table' \subseteq OldRows,
           \A d \in Days : archive'[d] # archive[d] =>
              /\ d = run[i].day /\ new.at \in {"delete", "done"}
              /\ \A q \in Runs : run[q].at = "read" /\ run[q].day = d /\ run[q].file # "gone" => q = i,
           \A r \in purged' \ purged : r \in Kept' /\ r \in new.written,
           failures = 0 /\ OneRunADay => UNCHANGED <<overwritten, unlinked>>
    PROVE  ArchiveInv'
<1>0. run \in [Runs -> RunRecord] /\ archive \in [Days -> SUBSET OldRows] BY RetTypes
<1>1. run' \in [Runs -> RunRecord] /\ run'[i] = new /\ \A k \in Runs : k # i => run'[k] = run[k] BY <1>0
<1>2. run[i].file # "none" /\ i <= started
  <2>1. RunOK(i) BY DEF ArchiveInv, RunsInv
  <2> QED BY <2>1, RetTypes DEF RunOK, Runs
<1>3. ASSUME NEW k \in Runs PROVE RunOK(k)'
  <2>1. RunOK(k) BY DEF ArchiveInv, RunsInv
  <2>2. CASE k = i BY <1>1, <1>2, <2>1, <2>2 DEF RunOK
  <2>3. CASE k # i BY <1>1, <2>1, <2>3 DEF RunOK
  <2> QED BY <2>2, <2>3
<1>4. ASSUME NEW k \in Runs PROVE FileOK(k)'
  <2>1. FileOK(k) BY DEF ArchiveInv, RunsInv
  <2>2. SUFFICES ASSUME run'[k].at = "read", run'[k].file # "gone" PROVE FileOK(k)' BY DEF FileOK
  <2>3. run[k].at = "read" /\ run[k].file = run'[k].file /\ run[k].day = run'[k].day BY <1>1, <2>2
  <2>4. archive'[run[k].day] = archive[run[k].day]
    <3>1. run[k].day \in Days BY <1>0 DEF RunRecord
    <3>2. SUFFICES ASSUME archive'[run[k].day] # archive[run[k].day] PROVE FALSE OBVIOUS
    <3>3. k = i /\ new.at \in {"delete", "done"} BY <2>2, <2>3, <3>1, <3>2
    <3> QED BY <1>1, <2>2, <3>3
  <2>5. \A q \in Runs : run'[q].at = "read" /\ run'[q].file # "gone" =>
            run[q].at = "read" /\ run[q].file # "gone" /\ run[q].day = run'[q].day
    BY <1>1
  <2> QED BY <2>1, <2>2, <2>3, <2>4, <2>5 DEF FileOK
<1>5. RunsInv' BY <1>3, <1>4 DEF RunsInv, Runs
<1>6. Filled'
  <2>1. SUFFICES ASSUME NEW d \in Days, archive'[d] # {}
                 PROVE  \E k \in Runs : run'[k].day = d /\ run'[k].file # "none" /\ run'[k].at \in {"delete", "done"}
    BY DEF Filled, Days, Runs
  <2>2. CASE archive'[d] # archive[d] BY <1>1, <1>2, <2>2
  <2>3. CASE archive'[d] = archive[d]
    <3>1. PICK k \in Runs : run[k].day = d /\ run[k].file # "none" /\ run[k].at \in {"delete", "done"}
      BY <2>1, <2>3 DEF ArchiveInv, Filled
    <3>2. CASE k # i BY <1>1, <3>1, <3>2
    <3>3. CASE k = i
      <4>1. new.at # "read" BY <3>1, <3>3
      <4>2. new.at \in {"delete", "done"} BY <4>1 DEF RunRecord, Stages
      <4> QED BY <1>1, <3>1, <3>3, <4>2
    <3> QED BY <3>2, <3>3
  <2> QED BY <2>2, <2>3
<1>7. PurgedKnown'
  <2>1. \A k \in Runs : run[k].written \subseteq run'[k].written BY <1>1
  <2>2. \A r \in purged' \ purged : r \in Kept' /\ \E k \in Runs : r \in run'[k].written BY <1>1
  <2> QED BY <2>1, <2>2, PurgedStays
<1>8. Clean'
  <2>1. \A k \in Runs : run'[k].file = run[k].file /\ run'[k].day = run[k].day
                          /\ (run'[k].at = "read" => run[k].at = "read")
    BY <1>1
  <2>2. OneRunADay' => OneRunADay BY <2>1 DEF OneRunADay, Runs
  <2>3. Clean BY DEF ArchiveInv
  <2> QED BY <2>1, <2>2, <2>3 DEF Clean, Runs
<1>9. RetTypeOK' BY <1>1 DEF ArchiveInv, RetTypeOK, RunRecord, Stages, RunFiles
<1> QED BY <1>5, <1>6, <1>7, <1>8, <1>9 DEF ArchiveInv

\* The batch of a read is old.
LEMMA BatchIsOld ==
    ASSUME ArchiveInv, NEW i \in Runs
    PROVE  \A r \in NextBatch(i) : r \in OldRows /\ oldFrom[r] <= run[i].cutoff
  BY DEF NextBatch, FirstRows, Eligible, ArchiveInv, RetTypeOK

\* Reading a batch of old rows keeps the invariant.
LEMMA ReadStep == ASSUME ArchiveInv, NEW i \in Runs, ReadOldBatch(i) PROVE ArchiveInv'
<1>0. run \in [Runs -> RunRecord] /\ archive \in [Days -> SUBSET OldRows] /\ table \subseteq OldRows BY RetTypes
<1> PICK new : new = [run[i] EXCEPT !.written = run[i].written \cup NextBatch(i)] OBVIOUS
<1>1. /\ run[i].at = "read" /\ run' = [run EXCEPT ![i] = new]
      /\ UNCHANGED <<hour, table, archive, started, purged, overwritten, unlinked, failures>>
  BY <1>0 DEF ReadOldBatch, RunGoto, causes
<1>2. /\ new \in RunRecord /\ new.at = "read" /\ new.cutoff = run[i].cutoff /\ new.day = run[i].day
      /\ new.file = run[i].file /\ new.written = run[i].written \cup NextBatch(i)
  BY <1>0, <1>1, BatchIsOld DEF RunRecord
<1>3. \A r \in new.written : oldFrom[r] <= new.cutoff
  <2>1. RunOK(i) BY DEF ArchiveInv, RunsInv
  <2> QED BY <1>2, <2>1, BatchIsOld DEF RunOK
<1>4. Kept' = Kept BY <1>1, SameFiles
<1>5. Kept \subseteq Kept' /\ purged' \ purged = {} /\ archive' \in [Days -> SUBSET OldRows] /\ table' \subseteq OldRows
  BY <1>0, <1>1, <1>4
<1> QED BY <1>1, <1>2, <1>3, <1>5, RunStep

\* Ending the file keeps the invariant: what was written is kept from here on.
LEMMA EndFileStep == ASSUME ArchiveInv, NEW i \in Runs, EndFile(i) PROVE ArchiveInv'
<1>0. /\ run \in [Runs -> RunRecord] /\ archive \in [Days -> SUBSET OldRows] /\ table \subseteq OldRows
      /\ run[i] \in RunRecord
  BY RetTypes
<1> PICK new : new = [run[i] EXCEPT !.at = "delete"] OBVIOUS
<1>1. /\ run[i].at = "read" /\ run' = [run EXCEPT ![i] = new]
      /\ archive' = IF run[i].file = "whole" THEN [archive EXCEPT ![run[i].day] = run[i].written] ELSE archive
      /\ overwritten' = IF run[i].file = "garbled" THEN overwritten \cup run[i].written ELSE overwritten
      /\ unlinked' = IF run[i].file = "gone" THEN unlinked \cup run[i].written ELSE unlinked
      /\ UNCHANGED <<hour, table, started, purged, failures>>
  BY <1>0 DEF EndFile, RunGoto
<1>2. /\ new \in RunRecord /\ new.at = "delete" /\ new.cutoff = run[i].cutoff /\ new.day = run[i].day
      /\ new.file = run[i].file /\ new.written = run[i].written
  BY <1>0 DEF RunRecord, Stages
<1>3. RunOK(i) /\ FileOK(i) BY DEF ArchiveInv, RunsInv
<1>4. run[i].day \in Days /\ run[i].written \in SUBSET OldRows BY <1>0 DEF RunRecord
<1>5. /\ archive' \in [Days -> SUBSET OldRows] /\ \A d \in Days : archive[d] \subseteq archive'[d]
      /\ \A d \in Days : archive'[d] # archive[d] => d = run[i].day /\ run[i].file = "whole"
  <2>1. CASE run[i].file = "whole"
    <3>1. archive[run[i].day] = {} BY <1>1, <1>3, <2>1 DEF FileOK
    <3> QED BY <1>0, <1>1, <1>4, <2>1, <3>1
  <2>2. CASE run[i].file # "whole" BY <1>0, <1>1, <2>2
  <2> QED BY <2>1, <2>2
<1>6. Kept \subseteq Kept'
  <2>1. overwritten \subseteq overwritten' /\ unlinked \subseteq unlinked' BY <1>1
  <2> QED BY <1>5, <2>1, KeptRows
<1>7. new.written \subseteq Kept'
  <2>1. run[i].file \in {"whole", "garbled", "gone"} BY <1>0, <1>1, <1>3 DEF RunOK, RunRecord, RunFiles
  <2>2. CASE run[i].file = "whole"
    <3>1. archive'[run[i].day] = run[i].written BY <1>0, <1>1, <1>4, <2>2
    <3> QED BY <1>2, <1>4, <3>1, KeptRows
  <2>3. CASE run[i].file = "garbled" BY <1>1, <1>2, <1>4, <2>3, KeptRows
  <2>4. CASE run[i].file = "gone" BY <1>1, <1>2, <1>4, <2>4, KeptRows
  <2> QED BY <2>1, <2>2, <2>3, <2>4
<1>8. ASSUME NEW d \in Days, archive'[d] # archive[d]
      PROVE  /\ d = run[i].day
             /\ \A q \in Runs : run[q].at = "read" /\ run[q].day = d /\ run[q].file # "gone" => q = i
  BY <1>1, <1>3, <1>5, <1>8 DEF FileOK
<1>9. failures = 0 /\ OneRunADay => UNCHANGED <<overwritten, unlinked>>
  BY <1>1 DEF ArchiveInv, Clean
<1>10. \A r \in new.written : oldFrom[r] <= new.cutoff BY <1>2, <1>3 DEF RunOK
<1>11. table' \subseteq OldRows /\ purged' \ purged = {} BY <1>0, <1>1
<1>12. /\ new \in RunRecord /\ new.at = "delete" /\ new.at \notin {"none", "open", "read"}
       /\ run[i].at \in {"read", "delete"} /\ run[i].written \subseteq new.written
       /\ \A r \in purged' \ purged : r \in Kept' /\ r \in new.written
  BY <1>1, <1>2, <1>11
<1>13. \A d \in Days : archive'[d] # archive[d] =>
         /\ d = run[i].day /\ new.at \in {"delete", "done"}
         /\ \A q \in Runs : run[q].at = "read" /\ run[q].day = d /\ run[q].file # "gone" => q = i
  BY <1>8, <1>12
<1>14. new.cutoff = run[i].cutoff /\ new.day = run[i].day /\ new.file = run[i].file BY <1>2
<1> QED BY <1>1, <1>5, <1>6, <1>7, <1>9, <1>10, <1>11, <1>12, <1>13, <1>14, RunStep

\* Deleting a batch, which is kept, and finishing keep the invariant.
LEMMA DeleteStep ==
    ASSUME ArchiveInv, NEW i \in Runs, DeleteBatch(i) \/ Finish(i)
    PROVE  ArchiveInv'
<1>0. /\ run \in [Runs -> RunRecord] /\ archive \in [Days -> SUBSET OldRows] /\ run[i] \in RunRecord
      /\ run[i].written \in SUBSET OldRows /\ table \subseteq OldRows
  BY RetTypes DEF RunRecord
<1>1. /\ run[i].at = "delete"
      /\ UNCHANGED <<hour, archive, started, overwritten, unlinked, failures>>
  BY DEF DeleteBatch, Finish, RunGoto, causes
<1>2. PICK new \in RunRecord :
        /\ run' = [run EXCEPT ![i] = new] /\ new.at \in {"delete", "done"} /\ new.cutoff = run[i].cutoff
        /\ new.day = run[i].day /\ new.file = run[i].file /\ new.written = run[i].written
        /\ table' \subseteq OldRows /\ purged' \ purged \subseteq run[i].written
  <2>1. CASE Finish(i)
    <3>1. PICK n : n = [run[i] EXCEPT !.at = "done"] OBVIOUS
    <3>2. run' = [run EXCEPT ![i] = n] /\ UNCHANGED <<table, purged>> BY <1>0, <2>1, <3>1 DEF Finish, RunGoto
    <3>3. /\ n \in RunRecord /\ n.at = "done" /\ n.cutoff = run[i].cutoff /\ n.day = run[i].day
          /\ n.file = run[i].file /\ n.written = run[i].written
      BY <1>0, <3>1 DEF RunRecord, Stages
    <3> QED BY <1>0, <3>2, <3>3
  <2>2. CASE DeleteBatch(i)
    <3>1. PICK batch \in SUBSET run[i].written :
             /\ run' = [run EXCEPT ![i] = [run[i] EXCEPT !.deleted = run[i].deleted \cup batch]]
             /\ table' = table \ batch /\ purged' = purged \cup (batch \cap table)
      BY <1>0, <2>2 DEF DeleteBatch, RunGoto, FirstRows
    <3>2. PICK n : n = [run[i] EXCEPT !.deleted = run[i].deleted \cup batch] OBVIOUS
    <3>3. /\ n \in RunRecord /\ n.at = "delete" /\ n.cutoff = run[i].cutoff /\ n.day = run[i].day
          /\ n.file = run[i].file /\ n.written = run[i].written
      BY <1>0, <1>1, <3>1, <3>2 DEF RunRecord
    <3>4. table' \subseteq OldRows /\ purged' \ purged \subseteq run[i].written BY <1>0, <3>1
    <3> QED BY <3>1, <3>2, <3>3, <3>4
  <2> QED BY <2>1, <2>2
<1>3. Kept' = Kept BY <1>1, SameFiles
<1>4. run[i].written \subseteq Kept /\ \A r \in new.written : oldFrom[r] <= new.cutoff
  <2>1. RunOK(i) BY DEF ArchiveInv, RunsInv
  <2> QED BY <1>1, <1>2, <2>1 DEF RunOK
<1>5. /\ archive' \in [Days -> SUBSET OldRows] /\ \A d \in Days : archive'[d] = archive[d]
      /\ Kept \subseteq Kept' /\ new.written \subseteq Kept' /\ new.at # "read"
      /\ \A r \in purged' \ purged : r \in Kept' /\ r \in new.written
  BY <1>0, <1>1, <1>2, <1>3, <1>4
<1> QED BY <1>1, <1>2, <1>4, <1>5, RunStep

\* A run that fails, and removes the file of its day, keeps the invariant.
LEMMA FailStep == ASSUME ArchiveInv, NEW i \in Runs, RunFails(i) PROVE ArchiveInv'
<1>0. /\ run \in [Runs -> RunRecord] /\ archive \in [Days -> SUBSET OldRows] /\ run[i] \in RunRecord
      /\ failures \in Nat /\ MaxFailures \in Nat
  BY RetTypes
<1> PICK day \in Days : day = run[i].day BY <1>0 DEF RunRecord
<1>1. /\ run[i].at \in {"read", "delete"} /\ failures < MaxFailures /\ failures' = failures + 1
      /\ archive' = [archive EXCEPT ![day] = {}] /\ unlinked' = unlinked \cup archive[day]
      /\ UNCHANGED <<hour, table, started, purged, overwritten>>
      /\ run' = [k \in Runs |-> IF k = i THEN [run[i] EXCEPT !.at = "done"]
                                ELSE IF k \in Writers(day) THEN [run[k] EXCEPT !.file = "gone"] ELSE run[k]]
  BY DEF RunFails
<1>2. RunOK(i) BY DEF ArchiveInv, RunsInv
<1>3. \A k \in Runs : k \in Writers(day) <=> run[k].at = "read" /\ run[k].day = day /\ run[k].file # "gone"
  BY DEF Writers
<1>4. /\ run'[i] \in RunRecord /\ run'[i].at = "done" /\ run'[i].day = day /\ run'[i].file = run[i].file
      /\ run'[i].written = run[i].written /\ run'[i].cutoff = run[i].cutoff
  <2>1. run'[i] = [run[i] EXCEPT !.at = "done"] BY <1>1
  <2> QED BY <1>0, <2>1 DEF RunRecord, Stages
<1>5. ASSUME NEW k \in Runs, k # i
      PROVE  /\ run'[k] \in RunRecord /\ run'[k].at = run[k].at /\ run'[k].day = run[k].day
             /\ run'[k].cutoff = run[k].cutoff /\ run'[k].written = run[k].written
             /\ k \in Writers(day) => run'[k].file = "gone"
             /\ k \notin Writers(day) => run'[k].file = run[k].file
  <2>1. CASE k \in Writers(day)
    <3>1. run'[k] = [run[k] EXCEPT !.file = "gone"] BY <1>1, <1>5, <2>1
    <3> QED BY <1>0, <2>1, <3>1 DEF RunRecord, RunFiles
  <2>2. CASE k \notin Writers(day)
    <3>1. run'[k] = run[k] BY <1>1, <1>5, <2>2
    <3> QED BY <1>0, <2>2, <3>1
  <2> QED BY <2>1, <2>2
<1>6. run' \in [Runs -> RunRecord]
  <2>1. \A k \in Runs : run'[k] \in RunRecord BY <1>4, <1>5
  <2>2. DOMAIN run' = Runs /\ run' = [k \in Runs |-> run'[k]] BY <1>1
  <2> QED BY <2>1, <2>2
<1>7. archive' \in [Days -> SUBSET OldRows] /\ archive'[day] = {} /\ \A d \in Days \ {day} : archive'[d] = archive[d]
  BY <1>0, <1>1
<1>8. Kept \subseteq Kept'
  <2>1. \A d \in Days : archive[d] \subseteq archive'[d] \cup unlinked' BY <1>1, <1>7
  <2>2. overwritten = overwritten' /\ unlinked \subseteq unlinked' BY <1>1
  <2> QED BY <2>1, <2>2, KeptRows
<1>9. ASSUME NEW k \in Runs PROVE RunOK(k)'
  <2>1. RunOK(k) BY DEF ArchiveInv, RunsInv
  <2>2. CASE k = i BY <1>1, <1>4, <2>1, <2>2 DEF RunOK
  <2>3. CASE k # i
    <3>1. run'[k].file = "none" <=> run[k].file = "none" BY <1>3, <1>5, <2>1, <2>3 DEF RunOK
    <3> QED BY <1>1, <1>5, <1>8, <2>1, <2>3, <3>1 DEF RunOK
  <2> QED BY <2>2, <2>3
<1>10. \A q \in Runs : run'[q].at = "read" /\ run'[q].file # "gone" =>
          /\ run[q].at = "read" /\ run[q].file = run'[q].file /\ run[q].day = run'[q].day /\ run[q].day # day
  BY <1>3, <1>4, <1>5
<1>11. ASSUME NEW k \in Runs PROVE FileOK(k)'
  <2>1. FileOK(k) BY DEF ArchiveInv, RunsInv
  <2>2. SUFFICES ASSUME run'[k].at = "read", run'[k].file # "gone" PROVE FileOK(k)' BY DEF FileOK
  <2>3. archive'[run'[k].day] = {} BY <1>0, <1>7, <1>10, <2>1, <2>2 DEF FileOK, RunRecord
  <2> QED BY <1>10, <2>1, <2>2, <2>3 DEF FileOK
<1>12. RunsInv' BY <1>9, <1>11 DEF RunsInv, Runs
<1>13. Filled'
  <2>1. SUFFICES ASSUME NEW d \in Days, archive'[d] # {}
                 PROVE  \E k \in Runs : run'[k].day = d /\ run'[k].file # "none" /\ run'[k].at \in {"delete", "done"}
    BY DEF Filled, Days, Runs
  <2>2. d # day /\ archive[d] # {} BY <1>7, <2>1
  <2>3. PICK k \in Runs : run[k].day = d /\ run[k].file # "none" /\ run[k].at \in {"delete", "done"}
    BY <2>2 DEF ArchiveInv, Filled
  <2>4. k # i /\ k \notin Writers(day) BY <1>3, <2>2, <2>3
  <2> QED BY <1>5, <2>3, <2>4
<1>14. PurgedKnown'
  <2>1. \A k \in Runs : run[k].written \subseteq run'[k].written BY <1>4, <1>5
  <2> QED BY <1>1, <1>8, <2>1, PurgedStays
<1>15. failures' # 0 /\ failures' \in 0 .. MaxFailures BY <1>0, <1>1
<1>16. Clean' BY <1>15 DEF Clean
<1>17. RetTypeOK' BY <1>1, <1>6, <1>7, <1>15 DEF ArchiveInv, RetTypeOK, RunRecord, Stages, RunFiles
<1> QED BY <1>12, <1>13, <1>14, <1>16, <1>17 DEF ArchiveInv

\* A crash, which leaves every run undone, keeps the invariant.
LEMMA CrashStep == ASSUME ArchiveInv, RunCrashes PROVE ArchiveInv'
<1>0. /\ run \in [Runs -> RunRecord] /\ archive \in [Days -> SUBSET OldRows] /\ failures \in Nat /\ MaxFailures \in Nat
  BY RetTypes
<1>1. /\ run' = [i \in Runs |-> IF run[i].at = "none" THEN run[i] ELSE [run[i] EXCEPT !.at = "done"]]
      /\ failures' = failures + 1 /\ failures < MaxFailures
      /\ UNCHANGED <<hour, table, archive, started, purged, overwritten, unlinked>>
  BY DEF RunCrashes
<1>2. ASSUME NEW i \in Runs
      PROVE  /\ run'[i] \in RunRecord /\ run'[i].cutoff = run[i].cutoff /\ run'[i].day = run[i].day
             /\ run'[i].file = run[i].file /\ run'[i].written = run[i].written /\ run'[i].at \in {"none", "done"}
             /\ run'[i].at = "none" <=> run[i].at = "none"
    BY <1>0, <1>1 DEF RunRecord, Stages
<1>3. Kept' = Kept BY <1>1, SameFiles
<1>4. RunsInv'
  <2>1. ASSUME NEW k \in Runs PROVE RunOK(k)'
    <3>1. RunOK(k) BY DEF ArchiveInv, RunsInv
    <3> QED BY <1>1, <1>2, <3>1 DEF RunOK
  <2>2. ASSUME NEW k \in Runs PROVE FileOK(k)' BY <1>2 DEF FileOK
  <2> QED BY <2>1, <2>2 DEF RunsInv, Runs
<1>5. run' \in [Runs -> RunRecord] /\ failures' # 0 /\ failures' \in 0 .. MaxFailures
  <2>1. DOMAIN run' = Runs /\ run' = [k \in Runs |-> run'[k]] BY <1>1
  <2> QED BY <1>0, <1>1, <1>2, <2>1
<1>6. Filled'
  <2>1. SUFFICES ASSUME NEW d \in Days, archive'[d] # {}
                 PROVE  \E k \in Runs : run'[k].day = d /\ run'[k].file # "none" /\ run'[k].at \in {"delete", "done"}
    BY DEF Filled, Days, Runs
  <2>2. PICK k \in Runs : run[k].day = d /\ run[k].file # "none" /\ run[k].at \in {"delete", "done"}
    BY <1>1, <2>1 DEF ArchiveInv, Filled
  <2> QED BY <1>2, <2>2
<1>7. PurgedKnown'
  <2>1. \A k \in Runs : run[k].written \subseteq run'[k].written BY <1>2
  <2> QED BY <1>1, <1>3, <2>1, PurgedStays
<1>8. Clean' BY <1>5 DEF Clean
<1> QED BY <1>1, <1>4, <1>5, <1>6, <1>7, <1>8 DEF ArchiveInv, RetTypeOK, RunRecord, Stages, RunFiles

\* A run that starts keeps the invariant.
LEMMA StartStep == ASSUME ArchiveInv, StartRun PROVE ArchiveInv'
<1>0. /\ run \in [Runs -> RunRecord] /\ archive \in [Days -> SUBSET OldRows] /\ started \in Nat
      /\ started' = started + 1 /\ started' \in Runs /\ started' \in 0 .. MaxRuns
      /\ UNCHANGED <<hour, table, archive, purged, overwritten, unlinked, failures>>
  BY RetTypes DEF StartRun, Runs, causes
<1>1. PICK s \in Runs : s = started + 1 BY <1>0
<1>2. PICK r \in RunRecord :
        /\ r.at \in {"open", "done"} /\ r.file = "none" /\ r.written = {}
        /\ run' = [run EXCEPT ![s] = r]
  <2>1. 0 \in Days
    <3>1. 0 \div TicksPerDay = 0 /\ 0 \in 0 .. MaxTime BY RetentionAssumption DEF RetentionAssumption
    <3> QED BY <3>1 DEF Days
  <2>2. PICK a \in {"open", "done"} : RunGoto(started + 1, [Idle EXCEPT !.at = a, !.cutoff = hour])
    BY DEF StartRun
  <2>3. PICK n : n = [Idle EXCEPT !.at = a, !.cutoff = hour] OBVIOUS
  <2>4. /\ n \in RunRecord /\ n.at = a /\ n.file = "none" /\ n.written = {}
    BY <2>1, <2>3, RetTypes DEF Idle, RunRecord, Stages, RunFiles
  <2> QED BY <1>1, <2>2, <2>3, <2>4 DEF RunGoto
<1>3. run' \in [Runs -> RunRecord] /\ run'[s] = r /\ \A k \in Runs : k # s => run'[k] = run[k] BY <1>0, <1>2
<1>4. /\ run[s].at = "none" /\ run[s].file = "none" /\ run[s].written = {}
  <2>1. RunOK(s) BY DEF ArchiveInv, RunsInv
  <2> QED BY <1>0, <1>1, <2>1 DEF RunOK
<1>5. Kept' = Kept BY <1>0, SameFiles
<1>6. ASSUME NEW k \in Runs PROVE RunOK(k)'
  <2>1. RunOK(k) BY DEF ArchiveInv, RunsInv
  <2>2. CASE k = s BY <1>0, <1>1, <1>2, <1>3, <2>2 DEF RunOK
  <2>3. CASE k # s
    <3>1. k > started' <=> k > started BY <1>0, <1>1, <2>3 DEF Runs
    <3> QED BY <1>3, <1>5, <2>1, <2>3, <3>1 DEF RunOK
  <2> QED BY <2>2, <2>3
<1>7. ASSUME NEW k \in Runs PROVE FileOK(k)'
  <2>1. FileOK(k) BY DEF ArchiveInv, RunsInv
  <2>2. \A q \in Runs : run'[q].at = "read" => run'[q] = run[q] BY <1>2, <1>3
  <2> QED BY <1>0, <2>1, <2>2 DEF FileOK
<1>8. RunsInv' BY <1>6, <1>7 DEF RunsInv, Runs
<1>9. Filled'
  <2>1. SUFFICES ASSUME NEW d \in Days, archive'[d] # {}
                 PROVE  \E k \in Runs : run'[k].day = d /\ run'[k].file # "none" /\ run'[k].at \in {"delete", "done"}
    BY DEF Filled, Days, Runs
  <2>2. PICK k \in Runs : run[k].day = d /\ run[k].file # "none" /\ run[k].at \in {"delete", "done"}
    BY <1>0, <2>1 DEF ArchiveInv, Filled
  <2> QED BY <1>3, <1>4, <2>2
<1>10. PurgedKnown'
  <2>1. \A k \in Runs : run[k].written \subseteq run'[k].written BY <1>2, <1>3, <1>4
  <2> QED BY <1>0, <1>5, <2>1, PurgedStays
<1>11. Clean'
  <2>1. \A k \in Runs : run[k].file # "none" => run'[k].file # "none" /\ run'[k].day = run[k].day BY <1>3, <1>4
  <2>2. OneRunADay' => OneRunADay BY <2>1, DaysApart
  <2>3. \A k \in Runs : run'[k].at = "read" => run'[k] = run[k] BY <1>2, <1>3
  <2> QED BY <1>0, <2>2, <2>3 DEF ArchiveInv, Clean, Runs
<1> QED BY <1>0, <1>3, <1>8, <1>9, <1>10, <1>11 DEF ArchiveInv, RetTypeOK, RunRecord, Stages, RunFiles

\* Every step of the retention job keeps the invariant.
LEMMA RetPreserved == ASSUME ArchiveInv, [RetNext]_retvars PROVE ArchiveInv'
<1>1. ASSUME UNCHANGED <<table, archive, run, started, purged, overwritten, unlinked, failures>>,
             hour' \in 0 .. MaxTime
      PROVE  ArchiveInv'
  BY <1>1 DEF ArchiveInv, RetTypeOK, RunsInv, RunOK, FileOK, Filled, PurgedKnown, Clean, Kept, OneRunADay
<1>2. CASE UNCHANGED retvars BY <1>1, <1>2, RetTypes DEF retvars, causes
<1>3. CASE Tick BY <1>1, <1>3, RetentionAssumption DEF RetentionAssumption, Tick, causes, ArchiveInv, RetTypeOK
<1> QED BY <1>2, <1>3, StartStep, CrashStep, OpenFileStep, ReadStep, EndFileStep, DeleteStep, FailStep DEF RetNext

\* Before any run no file is written and nothing is purged.
LEMMA RetInitial == RetInit => ArchiveInv
<1> SUFFICES ASSUME RetInit PROVE ArchiveInv
  OBVIOUS
<1>1. 0 \in 0 .. MaxTime /\ 0 \in 0 .. MaxRuns /\ 0 \in 0 .. MaxFailures
  BY RetentionAssumption DEF RetentionAssumption
<1>2. 0 \in Days
  <2>1. 0 = 0 \div TicksPerDay
    BY RetentionAssumption DEF RetentionAssumption
  <2> QED BY <1>1, <2>1 DEF Days
<1>3. RetTypeOK
  BY <1>1, <1>2 DEF RetInit, RetTypeOK, Idle
<1>4. RunsInv BY DEF RetInit, RunsInv, RunOK, FileOK, Runs, Idle
<1>5. Filled /\ PurgedKnown BY DEF RetInit, Filled, PurgedKnown
<1>6. Clean BY DEF RetInit, Clean, Idle
<1> QED BY <1>3, <1>4, <1>5, <1>6 DEF ArchiveInv

\* The invariant says that a purged row was old, and what it takes to lose one.
LEMMA RetAccounts == ArchiveInv => RetentionSafety
<1> SUFFICES ASSUME ArchiveInv PROVE RetentionSafety
  OBVIOUS
<1>1. PurgedIsArchived
  BY DEF PurgedIsArchived, ArchiveInv, PurgedKnown, Kept
<1>2. PurgedWasOld
  <2>1. ASSUME NEW r \in purged
        PROVE  \E i \in Runs : run[i].at # "none" /\ r \in run[i].written /\ oldFrom[r] <= run[i].cutoff
    <3>1. PICK i \in Runs : r \in run[i].written BY DEF ArchiveInv, PurgedKnown
    <3>2. RunOK(i) BY DEF ArchiveInv, RunsInv
    <3> QED BY <3>1, <3>2 DEF RunOK
  <2> QED BY <2>1 DEF PurgedWasOld
<1>3. LossNeedsCause
  BY DEF LossNeedsCause, ArchiveInv, PurgedKnown, Clean, Kept, OneRunADay
<1> QED BY <1>1, <1>2, <1>3 DEF RetentionSafety, ArchiveInv

\* What is purged was old, and is in an archive unless a listed cause removed it, whichever
\* runs of a day overlap or follow each other (lib/retention/archiver.ts).
THEOREM ArchiveCorrect == RetSpec => []RetentionSafety
<1>1. ArchiveInv /\ [RetNext]_retvars => ArchiveInv'
  BY RetPreserved
<1> QED BY RetInitial, <1>1, RetAccounts, PTL DEF RetSpec

-----------------------------------------------------------------------------
(* The pruner.                                                           *)

\* A set of numbers that is not empty has a least one.
LEMMA LeastOf ==
    ASSUME NEW S \in SUBSET Nat, S # {}
    PROVE  \E x \in S : \A y \in S : x <= y
<1>1. PICK x \in S : \A y \in S : ~(<<y, x>> \in OpToRel(<, Nat))
  BY NatLessThanWellFounded, WFMin
<1>2. ASSUME NEW y \in S PROVE ~(y < x)
  BY <1>1 DEF OpToRel
<1>3. \A y \in S : x <= y
  BY <1>2
<1> QED BY <1>3

\* Rows have a number and a time, and a set of rows is finite.
LEMMA RowFacts ==
    /\ \A r \in PrunerRows : r \in Nat /\ r > 0 /\ timestampOf[r] \in Nat
    /\ \A S \in SUBSET PrunerRows : IsFiniteSet(S) /\ Cardinality(S) \in Nat
    /\ \A S \in SUBSET PrunerRows : \A T \in SUBSET S : Cardinality(T) <= Cardinality(S)
    /\ policyBatchSize \in Nat /\ policyBatchSize > 0
<1>1. \A S \in SUBSET PrunerRows : IsFiniteSet(S)
  BY PrunerAssumption, FS_Subset
<1>2. \A S \in SUBSET PrunerRows : Cardinality(S) \in Nat
  BY <1>1, FS_CardinalityType
<1>3. \A S \in SUBSET PrunerRows : \A T \in SUBSET S : Cardinality(T) <= Cardinality(S)
  BY <1>1, FS_Subset
<1>4. \A r \in PrunerRows : r \in Nat /\ r > 0 /\ timestampOf[r] \in Nat
  <2>1. PrunerRows \subseteq Nat \ {0} BY Zenon, PrunerAssumption
  <2>2. timestampOf \in [PrunerRows -> Nat] BY Zenon, PrunerAssumption
  <2> HIDE DEF PrunerRows
  <2>3. \A r \in PrunerRows : r \in Nat /\ r > 0 BY ONLY <2>1
  <2>4. \A r \in PrunerRows : timestampOf[r] \in Nat BY ONLY <2>2
  <2> QED BY <2>3, <2>4
<1>5. policyBatchSize \in Nat /\ policyBatchSize > 0 BY PrunerAssumption
<1> QED BY ONLY Zenon, <1>1, <1>2, <1>3, <1>4, <1>5

\* Rows are in a strict and total order, by time and then by number.
LEMMA BeforeIsOrder ==
    ASSUME NEW r \in PrunerRows, NEW q \in PrunerRows, NEW s \in PrunerRows
    PROVE  /\ ~Before(r, r)
           /\ Before(r, q) /\ Before(q, s) => Before(r, s)
           /\ r = q \/ Before(r, q) \/ Before(q, r)
BY RowFacts DEF Before

\* Some row is before the others.
LEMMA FirstExists ==
    ASSUME NEW S \in SUBSET PrunerRows, S # {}
    PROVE  \E r \in S : \A q \in S : ~Before(q, r)
<1> DEFINE T == {timestampOf[r] : r \in S}
<1>1. T \in SUBSET Nat /\ T # {} BY RowFacts
<1>2. PICK m \in T : \A x \in T : m <= x BY <1>1, LeastOf
<1> DEFINE E == {r \in S : timestampOf[r] = m}
<1>3. E \in SUBSET Nat /\ E # {} BY <1>2, RowFacts
<1>4. PICK r \in E : \A q \in E : r <= q BY <1>3, LeastOf
<1>5. ASSUME NEW q \in S, Before(q, r) PROVE FALSE
  <2>1. timestampOf[q] \in T /\ m <= timestampOf[q] BY <1>2
  <2>2. q \in Nat /\ r \in Nat /\ timestampOf[q] \in Nat /\ timestampOf[r] \in Nat BY RowFacts
  <2>3. timestampOf[r] = m BY <1>4
  <2>4. timestampOf[q] = m /\ q < r BY <1>5, <2>1, <2>2, <2>3 DEF Before
  <2>5. r <= q BY <1>4, <2>4
  <2> QED BY <2>2, <2>4, <2>5
<1> QED BY <1>4, <1>5

\* The rows after a row are fewer than the rows after one before it, so that some row
\* of a set is after all others, and LastOf() is it.
LEMMA LastIsLast ==
    ASSUME NEW S \in SUBSET PrunerRows, S # {}
    PROVE  LastOf(S) \in S /\ \A q \in S : q = LastOf(S) \/ Before(q, LastOf(S))
<1> DEFINE After(r) == {q \in S : Before(r, q)}
           K == {Cardinality(After(r)) : r \in S}
<1>1. \A r \in S : IsFiniteSet(After(r)) /\ Cardinality(After(r)) \in Nat BY RowFacts
<1>2. K \in SUBSET Nat /\ K # {} BY <1>1
<1>3. PICK m \in K : \A x \in K : m <= x BY <1>2, LeastOf
<1>4. PICK r \in S : Cardinality(After(r)) = m BY <1>3
<1>5. ASSUME NEW q \in S, Before(r, q) PROVE FALSE
  <2>1. After(q) \subseteq After(r) BY <1>5, BeforeIsOrder
  <2>2. q \in After(r) /\ q \notin After(q) BY <1>5, BeforeIsOrder
  <2>3. Cardinality(After(q)) <= Cardinality(After(r)) /\ Cardinality(After(q)) # Cardinality(After(r))
    BY <1>1, <2>1, <2>2, FS_Subset
  <2>4. m <= Cardinality(After(q)) BY <1>3
  <2> QED BY <1>1, <1>4, <2>3, <2>4
<1>6. \A q \in S : q = r \/ Before(q, r) BY <1>5, BeforeIsOrder
<1> QED BY <1>6 DEF LastOf

\* A batch is of the rows asked for; it is empty only when there are none, and has all
\* of them when it is short.
LEMMA FirstOfFacts ==
    ASSUME NEW S \in SUBSET PrunerRows
    PROVE  /\ FirstOf(S) \subseteq S
           /\ FirstOf(S) = {} => S = {}
           /\ Cardinality(FirstOf(S)) < policyBatchSize => FirstOf(S) = S
<1>1. FirstOf(S) \subseteq S BY DEF FirstOf
<1>2. ASSUME Cardinality(FirstOf(S)) < policyBatchSize PROVE FirstOf(S) = S
  <2> DEFINE Later == S \ FirstOf(S)
  <2>1. SUFFICES ASSUME Later # {} PROVE FALSE BY <1>1
  <2>2. Later \in SUBSET PrunerRows OBVIOUS
  <2>3. PICK r \in Later : \A q \in Later : ~Before(q, r) BY <2>1, <2>2, FirstExists
  <2> DEFINE Q == {q \in S : Before(q, r)}
  <2>4. Q \in SUBSET FirstOf(S) /\ FirstOf(S) \in SUBSET PrunerRows BY <1>1, <2>3
  <2>5. /\ Cardinality(Q) \in Nat /\ Cardinality(FirstOf(S)) \in Nat
        /\ Cardinality(Q) <= Cardinality(FirstOf(S))
    BY <2>4, RowFacts
  <2>6. Cardinality(Q) < policyBatchSize BY <1>2, <2>5, RowFacts
  <2>7. r \in FirstOf(S) BY <2>6 DEF FirstOf
  <2> QED BY <2>3, <2>7
<1>3. ASSUME FirstOf(S) = {} PROVE S = {}
  <2>1. Cardinality(FirstOf(S)) = 0 BY <1>3, FS_EmptySet
  <2> QED BY <1>2, <1>3, <2>1, RowFacts
<1> QED BY <1>1, <1>2, <1>3

\* What a cycle has left of the rows it began with, but for those of failed batches.
Remaining == (atStart \cap hotTable) \ failedRows

\* A batch is of rows after the last one; it is empty between batches, and a short one
\* has all that was left there.  Once it is to be deleted it is in the archive.
BatchInv ==
    /\ cycle.at \in {"idle", "fetch"} => cycle.batch = {}
    /\ cycle.at \in {"archive", "delete"} =>
          /\ cycle.batch # {} /\ \A r \in cycle.batch : r > cycle.lastId
          /\ Cardinality(cycle.batch) < policyBatchSize =>
                \A r \in Remaining : r > cycle.lastId => r \in cycle.batch
    /\ cycle.at = "delete" => ~cycle.dryRun /\ cycle.batch \subseteq csv

\* The rows a cycle began with are where they were or in the archive, and the last row
\* of a batch is not among those left.
LeftInv ==
    /\ atStart \subseteq hotTable \cup csv
    /\ \A r \in atStart : r \in PrunerRows /\ timestampOf[r] < Cutoff
    /\ ~cycle.dryRun => cycle.lastId \notin Remaining

\* The inductive invariant of the pruner.
PruneInv == PruneTypeOK /\ BatchInv /\ LeftInv /\ LeftOnlyPassedOver

\* Before any cycle nothing is under way.
LEMMA PruneInitial == PruneInit => PruneInv
BY PrunerAssumption DEF PruneInit, PruneInv, PruneTypeOK, BatchInv, LeftInv, LeftOnlyPassedOver, Remaining, Resting

\* The record of a cycle.
CycleRecord == [at : {"idle", "fetch", "archive", "delete", "failed"}, dryRun : BOOLEAN,
                lastId : PrunerRows \cup {0}, batch : SUBSET PrunerRows]

\* A cycle begins with all candidates left.
LEMMA StartCycleStep == ASSUME PruneInv, NEW dryRun \in BOOLEAN, StartCycle(dryRun) PROVE PruneInv'
<1>1. PICK r : r = [at |-> "idle", dryRun |-> FALSE, lastId |-> 0, batch |-> {}] OBVIOUS
<1>2. cycle' = [r EXCEPT !.at = "fetch", !.dryRun = dryRun] BY Zenon, <1>1 DEF StartCycle, Resting
<1>3. cycle'.at = "fetch" /\ cycle'.lastId = 0 /\ cycle'.batch = {} /\ cycle' \in CycleRecord
  <2>1. r \in CycleRecord BY <1>1 DEF CycleRecord
  <2>2. r.lastId = 0 /\ r.batch = {} BY <1>1
  <2> QED BY <1>2, <2>1, <2>2 DEF CycleRecord
<1>4. PruneTypeOK'
  <2>1. /\ hotTable \subseteq PrunerRows /\ csv \subseteq PrunerRows
        /\ cycles \in 0 .. MaxCycles /\ batchErrors \in 0 .. MaxBatchErrors
        /\ cycles < MaxCycles /\ cycles' = cycles + 1 /\ UNCHANGED <<hotTable, csv, batchErrors>>
    BY DEF PruneInv, PruneTypeOK, StartCycle
  <2>2. cycles' \in 0 .. MaxCycles BY <2>1, PrunerAssumption
  <2>3. cycle' \in CycleRecord BY <1>2, <1>3
  <2> QED BY <2>1, <2>2, <2>3 DEF PruneTypeOK, CycleRecord
<1>5. BatchInv' BY <1>2, <1>3 DEF BatchInv
<1>6. LeftInv'
  <2>1. atStart' \subseteq hotTable' /\ \A x \in atStart' : x \in PrunerRows /\ timestampOf[x] < Cutoff
    BY DEF StartCycle, Candidates, PruneInv, PruneTypeOK
  <2> QED BY <1>2, <1>3, <2>1, RowFacts DEF LeftInv, Remaining
<1>7. LeftOnlyPassedOver' BY <1>2, <1>3 DEF LeftOnlyPassedOver
<1> QED BY <1>4, <1>5, <1>6, <1>7 DEF PruneInv

\* A batch that is fetched is of rows after the last, and none is left when there is none.
LEMMA FetchStep == ASSUME PruneInv, Fetch PROVE PruneInv'
<1> DEFINE S == {r \in Candidates : r > cycle.lastId}
<1>1. S \in SUBSET PrunerRows BY DEF Candidates, PruneInv, PruneTypeOK
<1>2. PICK b : b = FirstOf(S) OBVIOUS
<1>3. /\ b \subseteq S /\ (b = {} => S = {})
      /\ Cardinality(b) < policyBatchSize => b = S
  BY <1>1, <1>2, FirstOfFacts
<1>4. /\ cycle.at = "fetch" /\ cycle.batch = {}
      /\ cycle' = IF b = {} THEN [cycle EXCEPT !.at = "idle"]
                  ELSE [cycle EXCEPT !.at = "archive", !.batch = b]
      /\ UNCHANGED <<hotTable, csv, cycles, atStart, failedRows, batchErrors>>
  BY <1>2 DEF Fetch, PruneInv, BatchInv
<1>5. \A r \in Remaining : r > cycle.lastId => r \in S
  BY DEF Remaining, Candidates, PruneInv, LeftInv
<1>6. cycle \in CycleRecord BY DEF PruneInv, PruneTypeOK, CycleRecord
<1>7. /\ cycle' \in CycleRecord /\ cycle'.dryRun = cycle.dryRun /\ cycle'.lastId = cycle.lastId
      /\ cycle'.batch = b /\ cycle'.at = (IF b = {} THEN "idle" ELSE "archive")
  <2>1. b \subseteq PrunerRows BY <1>1, <1>3
  <2>2. CASE b = {} BY <1>4, <1>6, <2>1, <2>2 DEF CycleRecord
  <2>3. CASE b # {} BY <1>4, <1>6, <2>1, <2>3 DEF CycleRecord
  <2> QED BY <2>2, <2>3
<1>8. Remaining' = Remaining BY <1>4 DEF Remaining
<1>9. PruneTypeOK' BY <1>4, <1>7 DEF PruneInv, PruneTypeOK, CycleRecord
<1>10. BatchInv'
  <2>1. \A r \in b : r > cycle.lastId BY <1>3
  <2>2. Cardinality(b) < policyBatchSize => \A r \in Remaining : r > cycle.lastId => r \in b BY <1>3, <1>5
  <2>3. CASE b = {} BY <1>7, <2>3 DEF BatchInv
  <2>4. CASE b # {} BY <1>7, <1>8, <2>1, <2>2, <2>4 DEF BatchInv
  <2> QED BY <2>3, <2>4
<1>11. LeftInv' BY <1>4, <1>7, <1>8 DEF PruneInv, LeftInv
<1>12. LeftOnlyPassedOver'
  <2>1. SUFFICES ASSUME b = {}, ~cycle.dryRun, NEW r \in Remaining PROVE r < cycle.lastId
    BY <1>7, <1>8 DEF LeftOnlyPassedOver, Remaining
  <2>2. ~(r > cycle.lastId) BY <1>3, <1>5, <2>1
  <2>3. r # cycle.lastId BY <2>1 DEF PruneInv, LeftInv
  <2>4. r \in Nat /\ cycle.lastId \in Nat
    BY <1>6, RowFacts DEF Remaining, PruneInv, LeftInv, CycleRecord
  <2> QED BY <2>2, <2>3, <2>4
<1> QED BY <1>9, <1>10, <1>11, <1>12 DEF PruneInv

\* A look-up that fails ends the cycle where it is.
LEMMA FetchFailsStep == ASSUME PruneInv, FetchFails PROVE PruneInv'
<1>1. /\ cycle' = [cycle EXCEPT !.at = "failed"] /\ batchErrors' = batchErrors + 1 /\ batchErrors < MaxBatchErrors
      /\ UNCHANGED <<hotTable, csv, cycles, atStart, failedRows>>
  BY DEF FetchFails
<1>2. cycle \in CycleRecord /\ batchErrors \in 0 .. MaxBatchErrors BY DEF PruneInv, PruneTypeOK, CycleRecord
<1>3. batchErrors' \in 0 .. MaxBatchErrors BY <1>1, <1>2, PrunerAssumption
<1>4. /\ cycle' \in CycleRecord /\ cycle'.at = "failed" /\ cycle'.dryRun = cycle.dryRun
      /\ cycle'.lastId = cycle.lastId
  BY <1>1, <1>2 DEF CycleRecord
<1>5. Remaining' = Remaining BY <1>1 DEF Remaining
<1>6. PruneTypeOK' BY <1>1, <1>3, <1>4 DEF PruneInv, PruneTypeOK, CycleRecord
<1>7. BatchInv' BY <1>4 DEF BatchInv
<1>8. LeftInv' BY <1>1, <1>4, <1>5 DEF PruneInv, LeftInv
<1>9. LeftOnlyPassedOver' BY <1>4 DEF LeftOnlyPassedOver
<1> QED BY <1>6, <1>7, <1>8, <1>9 DEF PruneInv

\* What the end of a batch makes of the record of the cycle.
LEMMA EndBatchFacts ==
    ASSUME PruneInv, cycle.at \in {"archive", "delete"}
    PROVE  /\ EndBatch(cycle) \in CycleRecord /\ EndBatch(cycle).dryRun = cycle.dryRun
           /\ EndBatch(cycle).batch = {}
           /\ EndBatch(cycle).at = (IF Cardinality(cycle.batch) < policyBatchSize THEN "idle" ELSE "fetch")
           /\ EndBatch(cycle).lastId \in cycle.batch
           /\ EndBatch(cycle).lastId \in Nat /\ cycle.lastId \in Nat /\ EndBatch(cycle).lastId > cycle.lastId
<1>1. cycle \in CycleRecord /\ cycle.batch \in SUBSET PrunerRows /\ cycle.lastId \in PrunerRows \cup {0}
  BY DEF PruneInv, PruneTypeOK, CycleRecord
<1>2. cycle.batch # {} /\ \A r \in cycle.batch : r > cycle.lastId BY DEF PruneInv, BatchInv
<1>3. PICK l \in cycle.batch : l = LastOf(cycle.batch) BY <1>1, <1>2, LastIsLast
<1>4. PICK a \in {"idle", "fetch"} : a = (IF Cardinality(cycle.batch) < policyBatchSize THEN "idle" ELSE "fetch")
  OBVIOUS
<1>5. EndBatch(cycle) = [cycle EXCEPT !.lastId = l, !.batch = {}, !.at = a] BY <1>3, <1>4 DEF EndBatch
<1>6. /\ EndBatch(cycle) \in CycleRecord /\ EndBatch(cycle).dryRun = cycle.dryRun
      /\ EndBatch(cycle).batch = {} /\ EndBatch(cycle).at = a /\ EndBatch(cycle).lastId = l
  BY <1>1, <1>3, <1>4, <1>5 DEF CycleRecord
<1>7. l \in Nat /\ cycle.lastId \in Nat BY <1>1, <1>3, RowFacts
<1> QED BY <1>2, <1>3, <1>4, <1>6, <1>7

\* A batch ends, and none of it is among the rows left unless the run is dry.
LEMMA BatchEnds ==
    ASSUME PruneInv, cycle.at \in {"archive", "delete"}, cycle' = EndBatch(cycle),
           UNCHANGED <<csv, cycles, atStart>>,
           hotTable' \subseteq hotTable, hotTable \ hotTable' \subseteq csv,
           failedRows \subseteq failedRows', batchErrors' \in 0 .. MaxBatchErrors,
           cycle.dryRun \/ Remaining' \cap cycle.batch = {}
    PROVE  PruneInv'
<1>1. /\ cycle' \in CycleRecord /\ cycle'.dryRun = cycle.dryRun /\ cycle'.batch = {}
      /\ cycle'.at = (IF Cardinality(cycle.batch) < policyBatchSize THEN "idle" ELSE "fetch")
      /\ cycle'.lastId \in cycle.batch
      /\ cycle'.lastId \in Nat /\ cycle.lastId \in Nat /\ cycle'.lastId > cycle.lastId
  BY EndBatchFacts
<1>2. Remaining' \subseteq Remaining BY DEF Remaining
<1>3. PruneTypeOK' BY <1>1 DEF PruneInv, PruneTypeOK, CycleRecord
<1>4. BatchInv' BY <1>1 DEF BatchInv
<1>5. LeftInv' BY <1>1 DEF PruneInv, LeftInv
<1>6. LeftOnlyPassedOver'
  <2>1. SUFFICES ASSUME cycle'.at = "idle", ~cycle.dryRun, NEW r \in Remaining' PROVE r < cycle'.lastId
    BY <1>1 DEF LeftOnlyPassedOver, Remaining
  <2>2. Cardinality(cycle.batch) < policyBatchSize BY <1>1, <2>1
  <2>3. r \in Remaining /\ r \notin cycle.batch BY <1>2, <2>1
  <2>4. ~(r > cycle.lastId) BY <2>2, <2>3 DEF PruneInv, BatchInv
  <2>5. r \in Nat BY <2>3, RowFacts DEF Remaining, PruneInv, LeftInv
  <2> QED BY <1>1, <2>4, <2>5
<1> QED BY <1>3, <1>4, <1>5, <1>6 DEF PruneInv

\* Archiving, or passing by in a dry run, keeps the invariant.
LEMMA ArchiveStep == ASSUME PruneInv, Archive PROVE PruneInv'
<1>1. CASE cycle.dryRun
  <2>1. /\ cycle.at \in {"archive", "delete"} /\ cycle' = EndBatch(cycle)
        /\ UNCHANGED <<csv, cycles, atStart, hotTable, failedRows, batchErrors>>
    BY <1>1 DEF Archive
  <2>2. batchErrors' \in 0 .. MaxBatchErrors BY <2>1 DEF PruneInv, PruneTypeOK
  <2> QED BY <1>1, <2>1, <2>2, BatchEnds
<1>2. CASE ~cycle.dryRun
  <2>1. /\ cycle.at = "archive" /\ cycle' = [cycle EXCEPT !.at = "delete"]
        /\ csv' = csv \cup cycle.batch
        /\ UNCHANGED <<hotTable, cycles, atStart, failedRows, batchErrors>>
    BY <1>2 DEF Archive
  <2>2. cycle \in CycleRecord BY DEF PruneInv, PruneTypeOK, CycleRecord
  <2>3. /\ cycle' \in CycleRecord /\ cycle'.at = "delete" /\ cycle'.dryRun = cycle.dryRun
        /\ cycle'.lastId = cycle.lastId /\ cycle'.batch = cycle.batch
    BY <2>1, <2>2 DEF CycleRecord
  <2>4. Remaining' = Remaining BY <2>1 DEF Remaining
  <2>5. cycle.batch \subseteq PrunerRows BY <2>2 DEF CycleRecord
  <2>6. PruneTypeOK' BY <2>1, <2>3, <2>5 DEF PruneInv, PruneTypeOK, CycleRecord
  <2>7. BatchInv' BY <1>2, <2>1, <2>3, <2>4 DEF PruneInv, BatchInv
  <2>8. LeftInv' BY <2>1, <2>3, <2>4 DEF PruneInv, LeftInv
  <2>9. LeftOnlyPassedOver' BY <2>3 DEF LeftOnlyPassedOver
  <2> QED BY <2>6, <2>7, <2>8, <2>9 DEF PruneInv
<1> QED BY <1>1, <1>2

\* Deleting a batch that is archived keeps the invariant.
LEMMA PrunerDeleteStep == ASSUME PruneInv, Delete PROVE PruneInv'
<1>1. /\ cycle.at \in {"archive", "delete"} /\ cycle' = EndBatch(cycle)
      /\ hotTable' = hotTable \ cycle.batch
      /\ UNCHANGED <<csv, cycles, atStart, failedRows, batchErrors>>
  BY DEF Delete
<1>2. cycle.batch \subseteq csv BY DEF Delete, PruneInv, BatchInv
<1>3. batchErrors' \in 0 .. MaxBatchErrors BY <1>1 DEF PruneInv, PruneTypeOK
<1>4. Remaining' \cap cycle.batch = {} BY <1>1 DEF Remaining
<1> QED BY <1>1, <1>2, <1>3, <1>4, BatchEnds

\* A batch that fails keeps the invariant.
LEMMA BatchFailsStep == ASSUME PruneInv, BatchFails PROVE PruneInv'
<1>1. /\ cycle.at \in {"archive", "delete"} /\ cycle' = EndBatch(cycle)
      /\ failedRows' = failedRows \cup cycle.batch
      /\ UNCHANGED <<csv, cycles, atStart>>
  BY DEF BatchFails
<1>2. batchErrors' \in 0 .. MaxBatchErrors BY PrunerAssumption DEF BatchFails, PruneInv, PruneTypeOK
<1>3. hotTable' \subseteq hotTable /\ hotTable \ hotTable' \subseteq csv
  <2>1. hotTable' = hotTable \/ (cycle.at = "delete" /\ hotTable' = hotTable \ cycle.batch) BY DEF BatchFails
  <2> QED BY <2>1 DEF PruneInv, BatchInv
<1>4. Remaining' \cap cycle.batch = {} BY <1>1, <1>3 DEF Remaining
<1>5. failedRows \subseteq failedRows' BY <1>1
<1> QED BY <1>1, <1>2, <1>3, <1>4, <1>5, BatchEnds

\* A row that is stored meanwhile is none of those the cycle began with.
LEMMA InsertStep == ASSUME PruneInv, NEW r \in PrunerRows, Insert(r) PROVE PruneInv'
<1>1. /\ r \notin hotTable \cup csv /\ hotTable' = hotTable \cup {r}
      /\ UNCHANGED <<csv, cycle, cycles, atStart, failedRows, batchErrors>>
  BY DEF Insert
<1>2. r \notin atStart BY <1>1 DEF PruneInv, LeftInv
<1>3. Remaining' = Remaining BY <1>1, <1>2 DEF Remaining
<1>4. PruneTypeOK' BY <1>1 DEF PruneInv, PruneTypeOK
<1>5. BatchInv' BY <1>1, <1>3 DEF PruneInv, BatchInv
<1>6. LeftInv' BY <1>1, <1>3 DEF PruneInv, LeftInv
<1>7. LeftOnlyPassedOver' BY <1>1, <1>3 DEF PruneInv, LeftOnlyPassedOver, Remaining
<1> QED BY <1>4, <1>5, <1>6, <1>7 DEF PruneInv

\* Every step of the pruner keeps the invariant.
LEMMA PrunePreserved == ASSUME PruneInv, [PruneNext]_prunevars PROVE PruneInv'
<1>1. CASE UNCHANGED prunevars
  <2>1. Remaining' = Remaining BY <1>1 DEF Remaining, prunevars
  <2> QED BY <1>1, <2>1 DEF prunevars, PruneInv, PruneTypeOK, BatchInv, LeftInv, LeftOnlyPassedOver, Remaining
<1> QED BY <1>1, StartCycleStep, FetchStep, FetchFailsStep, ArchiveStep, PrunerDeleteStep, BatchFailsStep, InsertStep
        DEF PruneNext

\* What a step deletes is archived and no dry run's, and it does not go back.
LEMMA PruneSteps ==
    ASSUME PruneInv, [PruneNext]_prunevars
    PROVE  /\ hotTable \ hotTable' \subseteq csv /\ (cycle.dryRun => hotTable \subseteq hotTable')
           /\ cycle.at \notin {"idle", "failed"} =>
                /\ cycle'.lastId >= cycle.lastId
                /\ (\A r \in cycle'.batch : r > cycle.lastId) \/ cycle'.batch = cycle.batch
<1>1. cycle \in CycleRecord /\ cycle.lastId \in Nat
  BY RowFacts DEF PruneInv, PruneTypeOK, CycleRecord
<1>2. ASSUME hotTable \subseteq hotTable', cycle'.lastId = cycle.lastId, cycle'.batch = cycle.batch
      PROVE  /\ hotTable \ hotTable' \subseteq csv /\ (cycle.dryRun => hotTable \subseteq hotTable')
             /\ cycle'.lastId >= cycle.lastId /\ cycle'.batch = cycle.batch
  BY <1>1, <1>2
<1>3. ASSUME cycle.at \in {"archive", "delete"}, cycle' = EndBatch(cycle)
      PROVE  cycle'.lastId >= cycle.lastId /\ cycle'.batch = {}
  BY <1>3, EndBatchFacts
<1>4. ASSUME NEW dryRun \in BOOLEAN, StartCycle(dryRun)
      PROVE  hotTable' = hotTable /\ cycle.at \in {"idle", "failed"}
  BY <1>4 DEF StartCycle
<1>5. ASSUME Fetch
      PROVE  /\ hotTable' = hotTable /\ cycle'.lastId = cycle.lastId
             /\ \A r \in cycle'.batch : r > cycle.lastId
  <2>1. PICK b : b = FirstOf({r \in Candidates : r > cycle.lastId}) OBVIOUS
  <2>2. \A r \in b : r > cycle.lastId BY <2>1 DEF FirstOf
  <2>3. /\ hotTable' = hotTable /\ cycle.batch = {}
        /\ cycle' = IF b = {} THEN [cycle EXCEPT !.at = "idle"]
                    ELSE [cycle EXCEPT !.at = "archive", !.batch = b]
    BY <1>5, <2>1 DEF Fetch, PruneInv, BatchInv
  <2>4. cycle'.lastId = cycle.lastId /\ cycle'.batch = b
    <3>1. CASE b = {} BY <1>1, <2>3, <3>1 DEF CycleRecord
    <3>2. CASE b # {} BY <1>1, <2>3, <3>2 DEF CycleRecord
    <3> QED BY <3>1, <3>2
  <2> QED BY <2>2, <2>3, <2>4
<1>6. ASSUME Archive
      PROVE  hotTable' = hotTable /\ (cycle' = EndBatch(cycle) \/ cycle' = [cycle EXCEPT !.at = "delete"])
             /\ cycle.at = "archive"
  BY <1>6 DEF Archive
<1>7. ASSUME Delete
      PROVE  /\ hotTable \ hotTable' \subseteq csv /\ ~cycle.dryRun
             /\ cycle' = EndBatch(cycle) /\ cycle.at = "delete"
  BY <1>7 DEF Delete, PruneInv, BatchInv
<1>8. ASSUME BatchFails
      PROVE  /\ hotTable \ hotTable' \subseteq csv /\ (cycle.dryRun => hotTable \subseteq hotTable')
             /\ cycle' = EndBatch(cycle) /\ cycle.at \in {"archive", "delete"}
  <2>1. hotTable' = hotTable \/ (cycle.at = "delete" /\ hotTable' = hotTable \ cycle.batch) BY <1>8 DEF BatchFails
  <2>2. cycle.at = "delete" => ~cycle.dryRun /\ cycle.batch \subseteq csv BY DEF PruneInv, BatchInv
  <2>3. cycle' = EndBatch(cycle) /\ cycle.at \in {"archive", "delete"} BY <1>8 DEF BatchFails
  <2> QED BY <2>1, <2>2, <2>3
<1>9. ASSUME cycle' = [cycle EXCEPT !.at = "delete"]
      PROVE  cycle'.lastId = cycle.lastId /\ cycle'.batch = cycle.batch
  BY <1>1, <1>9 DEF CycleRecord
<1>10. ASSUME NEW r \in PrunerRows, Insert(r) PROVE hotTable \subseteq hotTable' /\ cycle' = cycle
  BY <1>10 DEF Insert
<1>11. ASSUME FetchFails
       PROVE  hotTable' = hotTable /\ cycle'.lastId = cycle.lastId /\ cycle'.batch = cycle.batch
  BY <1>1, <1>11 DEF FetchFails, CycleRecord
<1>12. CASE UNCHANGED prunevars BY <1>2, <1>12 DEF prunevars
<1>13. CASE \E dryRun \in BOOLEAN : StartCycle(dryRun) BY <1>4, <1>13
<1>14. CASE Fetch BY <1>1, <1>5, <1>14
<1>15. CASE Archive BY <1>1, <1>3, <1>6, <1>9, <1>15
<1>16. CASE Delete BY <1>3, <1>7, <1>16
<1>17. CASE BatchFails BY <1>3, <1>8, <1>17
<1>18. CASE \E r \in PrunerRows : Insert(r) BY <1>2, <1>10, <1>18
<1>19. CASE FetchFails BY <1>2, <1>11, <1>19
<1> QED BY <1>12, <1>13, <1>14, <1>15, <1>16, <1>17, <1>18, <1>19 DEF PruneNext

\* What the pruner deletes is in an archive and was not in a dry run, a cycle does not go
\* back, and leaves no candidate that a batch has not failed on or passed over.
THEOREM PrunerCorrect == PruneSpec => PrunerSafety
<1>1. PruneInit => PruneInv BY PruneInitial
<1>2. PruneInv /\ [PruneNext]_prunevars => PruneInv' BY PrunePreserved
<1>3. PruneInv => PruneTypeOK /\ LeftOnlyPassedOver BY DEF PruneInv
<1>4. PruneInv /\ [PruneNext]_prunevars
        => [hotTable \ hotTable' \subseteq csv /\ (cycle.dryRun => hotTable \subseteq hotTable')]_prunevars
  BY PruneSteps
<1>5. PruneInv /\ [PruneNext]_prunevars
        => [cycle.at \notin {"idle", "failed"} =>
              /\ cycle'.lastId >= cycle.lastId
              /\ (\A r \in cycle'.batch : r > cycle.lastId) \/ cycle'.batch = cycle.batch]_prunevars
  BY PruneSteps
<1> QED BY <1>1, <1>2, <1>3, <1>4, <1>5, PTL DEF PruneSpec, PrunerSafety, DeletedIsArchived, NeverTurnsBack

-----------------------------------------------------------------------------
(* The live feed: sequences of messages.                                 *)

\* What is sent on a socket, and the ends of a socket as its client and the server see it.
Message == {Welcome} \cup Event
Ends == {"connecting", "open", "closed"}
ServerEnds == {"none", "open", "rejected", "closed"}

\* The elements of q increase.
Rising(q) == \A i, j \in DOMAIN q : i < j => q[i] < q[j]

\* What Append does to a sequence whose domain is known.
LEMMA AppendTo ==
    ASSUME NEW T, NEW f \in Seq(T), NEW n, n = Len(f), NEW x \in T
    PROVE  /\ Append(f, x) \in [1 .. n + 1 -> T] /\ Append(f, x)[n + 1] = x
           /\ \A i \in 1 .. n : Append(f, x)[i] = f[i]
<1>1. Append(f, x) \in Seq(T) /\ Len(Append(f, x)) = n + 1 /\ Append(f, x)[n + 1] = x
      /\ \A i \in 1 .. n : Append(f, x)[i] = f[i]
  BY AppendProperties
<1>2. Append(f, x) \in [1 .. n + 1 -> T]
  BY <1>1, LenProperties
<1> QED BY <1>1, <1>2

\* Messages are numbers: the greeting is 0, an event its own.
LEMMA Elements == ASSUME NEW q \in Seq(Message) PROVE \A i \in DOMAIN q : q[i] \in Nat
<1>1. DOMAIN q = 1 .. Len(q) /\ \A i \in 1 .. Len(q) : q[i] \in Message
  BY LenProperties
<1>2. Message \subseteq Nat
  BY DEF Message, Event, Welcome
<1> QED BY <1>1, <1>2

\* Appending a message to a sequence of messages, and what keeps it rising.
LEMMA AppendMessage ==
    ASSUME NEW q \in Seq(Message), NEW x \in Message
    PROVE  /\ Append(q, x) \in Seq(Message)
           /\ \A i \in DOMAIN Append(q, x) : Append(q, x)[i] = x \/ \E j \in DOMAIN q : j = i /\ Append(q, x)[i] = q[j]
           /\ Rising(q) /\ (\A i \in DOMAIN q : q[i] < x) => Rising(Append(q, x))
<1>1. /\ Append(q, x) \in Seq(Message) /\ Len(Append(q, x)) = Len(q) + 1 /\ Append(q, x)[Len(q) + 1] = x
      /\ \A i \in 1 .. Len(q) : Append(q, x)[i] = q[i]
  BY AppendProperties
<1>2. Len(q) \in Nat /\ DOMAIN q = 1 .. Len(q) /\ DOMAIN Append(q, x) = 1 .. Len(q) + 1
  BY <1>1, LenProperties
<1>3. \A i \in 1 .. Len(q) + 1 : i \in 1 .. Len(q) \/ i = Len(q) + 1
  BY <1>2
<1>4. \A i, j \in 1 .. Len(q) + 1 : i < j => i \in 1 .. Len(q)
  BY <1>2
<1>5. Rising(q) /\ (\A i \in DOMAIN q : q[i] < x) => Rising(Append(q, x))
  BY <1>1, <1>2, <1>3, <1>4 DEF Rising
<1> QED BY <1>1, <1>2, <1>3, <1>5

\* Taking the first message off a sequence of messages.
LEMMA TailMessage ==
    ASSUME NEW q \in Seq(Message), q # <<>>
    PROVE  /\ Tail(q) \in Seq(Message) /\ Head(q) \in Message
           /\ \E j \in DOMAIN q : Head(q) = q[j]
           /\ \A i \in DOMAIN Tail(q) : \E j \in DOMAIN q : Tail(q)[i] = q[j]
           /\ Rising(q) => Rising(Tail(q)) /\ \A i \in DOMAIN Tail(q) : Head(q) < Tail(q)[i]
<1>1. /\ Tail(q) \in Seq(Message) /\ Head(q) \in Message /\ Head(q) = q[1]
      /\ Len(Tail(q)) = Len(q) - 1 /\ \A i \in 1 .. Len(Tail(q)) : Tail(q)[i] = q[i + 1]
  BY HeadTailProperties, EmptySeq
<1>2. Len(q) \in Nat \ {0} /\ DOMAIN q = 1 .. Len(q) /\ DOMAIN Tail(q) = 1 .. Len(q) - 1
  BY <1>1, LenProperties, EmptySeq
<1>3. \A i \in 1 .. Len(q) - 1 : i + 1 \in 1 .. Len(q) /\ 1 < i + 1
  BY <1>2
<1>4. 1 \in 1 .. Len(q)
  BY <1>2
<1>5. ASSUME Rising(q) PROVE Rising(Tail(q)) /\ \A i \in DOMAIN Tail(q) : Head(q) < Tail(q)[i]
  <2>1. \A i \in 1 .. Len(q) - 1 : Tail(q)[i] = q[i + 1]
    BY <1>1, <1>2
  <2>2. \A i, j \in 1 .. Len(q) - 1 : i < j => i + 1 < j + 1
    BY <1>2
  <2>3. Rising(Tail(q))
    BY <1>2, <1>3, <1>5, <2>1, <2>2 DEF Rising
  <2> QED BY <1>1, <1>2, <1>3, <1>4, <1>5, <2>1, <2>3 DEF Rising
<1> QED BY <1>1, <1>2, <1>3, <1>4, <1>5

-----------------------------------------------------------------------------
(* The server.                                                           *)

\* The sockets the server counts: those open for an address, and those it has seen.
OpenOf(ip) == {s \in Sockets : serverEnd[s] = "open" /\ Ip(s) = ip}
Handled == {s \in Sockets : serverEnd[s] # "none"}

\* The inductive invariant of the server: its two counts are exact, and what is under way
\* on a socket rises and was published.
ServerInv ==
    /\ ServerTypeOK /\ IpCountExact
    /\ connectedClients = Cardinality(Handled)
    /\ \A s \in Sockets :
         /\ Rising(inbox[s])
         /\ serverEnd[s] \in {"none", "rejected"} => inbox[s] = <<>>
         /\ \A i \in DOMAIN inbox[s] : inbox[s][i] <= publishedEvents

\* The sockets are numbered in the order they were opened.
LEMMA SocketFacts ==
    ASSUME ServerTypeOK
    PROVE  /\ Len(owner) \in Nat /\ Sockets = 1 .. Len(owner) /\ IsFiniteSet(Sockets)
           /\ Cardinality(Sockets) = Len(owner)
           /\ owner \in [Sockets -> Clients]
<1>1. owner \in Seq(Clients)
  BY DEF ServerTypeOK
<1>2. Len(owner) \in Nat /\ Sockets = 1 .. Len(owner)
  BY <1>1, LenProperties DEF Sockets
<1>3. owner \in [Sockets -> Clients]
  BY <1>1, <1>2
<1>4. IsFiniteSet(Sockets) /\ Cardinality(Sockets) = Len(owner)
  BY <1>2, FS_Interval
<1> QED BY <1>2, <1>3, <1>4

\* The sets that are counted are finite.
LEMMA CountedFinite ==
    ASSUME ServerTypeOK
    PROVE  /\ IsFiniteSet(Handled) /\ Cardinality(Handled) \in 0 .. Len(owner)
           /\ \A ip \in Ips : IsFiniteSet(OpenOf(ip)) /\ Cardinality(OpenOf(ip)) \in Nat
<1>1. Handled \subseteq Sockets /\ \A ip \in Ips : OpenOf(ip) \subseteq Sockets
  BY DEF Handled, OpenOf
<1>2. IsFiniteSet(Sockets) /\ Cardinality(Sockets) = Len(owner) /\ Len(owner) \in Nat
  BY SocketFacts
<1>3. IsFiniteSet(Handled) /\ Cardinality(Handled) <= Len(owner) /\ Cardinality(Handled) \in Nat
  BY <1>1, <1>2, FS_Subset, FS_CardinalityType
<1>4. \A ip \in Ips : IsFiniteSet(OpenOf(ip)) /\ Cardinality(OpenOf(ip)) \in Nat
  BY <1>1, <1>2, FS_Subset, FS_CardinalityType
<1> QED BY <1>2, <1>3, <1>4

\* A socket that is opened is new, and the server has not seen it.
LEMMA Opened ==
    ASSUME ServerTypeOK, NEW c \in Clients, Open(c)
    PROVE  /\ Len(owner) + 1 \notin Sockets /\ Sockets' = Sockets \cup {Len(owner) + 1}
           /\ Len(owner') = Len(owner) + 1 /\ owner' \in Seq(Clients)
           /\ clientEnd' \in [Sockets' -> Ends] /\ serverEnd' \in [Sockets' -> ServerEnds]
           /\ inbox' \in [Sockets' -> Seq(Message)]
           /\ \A s \in Sockets : /\ owner'[s] = owner[s] /\ clientEnd'[s] = clientEnd[s]
                                 /\ serverEnd'[s] = serverEnd[s] /\ inbox'[s] = inbox[s]
           /\ owner'[Len(owner) + 1] = c /\ clientEnd'[Len(owner) + 1] = "connecting"
           /\ serverEnd'[Len(owner) + 1] = "none" /\ inbox'[Len(owner) + 1] = <<>>
<1>1. PICK n \in Nat : n = Len(owner) /\ Sockets = 1 .. n
  BY SocketFacts
<1>2. owner \in [1 .. n -> Clients] /\ clientEnd \in [1 .. n -> Ends] /\ serverEnd \in [1 .. n -> ServerEnds]
      /\ inbox \in [1 .. n -> Seq(Message)]
  BY <1>1, SocketFacts DEF ServerTypeOK, Ends, ServerEnds, Message
<1>3. /\ owner' \in [1 .. n + 1 -> Clients] /\ owner'[n + 1] = c /\ \A s \in 1 .. n : owner'[s] = owner[s]
  <2>1. owner' = Append(owner, c)
    BY DEF Open
  <2>2. owner \in Seq(Clients) /\ n = Len(owner)
    BY <1>2
  <2>3. /\ Append(owner, c) \in [1 .. n + 1 -> Clients] /\ Append(owner, c)[n + 1] = c
        /\ \A i \in 1 .. n : Append(owner, c)[i] = owner[i]
    BY <2>2, AppendTo
  <2> QED BY <2>1, <2>3
<1>4. /\ clientEnd' \in [1 .. n + 1 -> Ends] /\ clientEnd'[n + 1] = "connecting"
      /\ \A s \in 1 .. n : clientEnd'[s] = clientEnd[s]
  <2>1. "connecting" \in Ends
    BY DEF Ends
  <2>2. clientEnd' = Append(clientEnd, "connecting")
    BY DEF Open
  <2>3. clientEnd \in Seq(Ends) /\ n = Len(clientEnd)
    BY <1>2
  <2>4. /\ Append(clientEnd, "connecting") \in [1 .. n + 1 -> Ends] /\ Append(clientEnd, "connecting")[n + 1] = "connecting"
        /\ \A i \in 1 .. n : Append(clientEnd, "connecting")[i] = clientEnd[i]
    BY <2>1, <2>3, AppendTo
  <2> QED BY <2>2, <2>4
<1>5. /\ serverEnd' \in [1 .. n + 1 -> ServerEnds] /\ serverEnd'[n + 1] = "none"
      /\ \A s \in 1 .. n : serverEnd'[s] = serverEnd[s]
  <2>1. "none" \in ServerEnds
    BY DEF ServerEnds
  <2>2. serverEnd' = Append(serverEnd, "none")
    BY DEF Open
  <2>3. serverEnd \in Seq(ServerEnds) /\ n = Len(serverEnd)
    BY <1>2
  <2>4. /\ Append(serverEnd, "none") \in [1 .. n + 1 -> ServerEnds] /\ Append(serverEnd, "none")[n + 1] = "none"
        /\ \A i \in 1 .. n : Append(serverEnd, "none")[i] = serverEnd[i]
    BY <2>1, <2>3, AppendTo
  <2> QED BY <2>2, <2>4
<1>6. /\ inbox' \in [1 .. n + 1 -> Seq(Message)] /\ inbox'[n + 1] = <<>> /\ \A s \in 1 .. n : inbox'[s] = inbox[s]
  <2>0. <<>> \in Seq(Message)
    OBVIOUS
  <2>1. PICK e \in Seq(Message) : e = <<>>
    BY <2>0, Zenon
  <2>2. inbox' = Append(inbox, e)
    BY <2>1 DEF Open
  <2>3. inbox \in Seq(Seq(Message)) /\ n = Len(inbox)
    BY <1>2
  <2>4. /\ Append(inbox, e) \in [1 .. n + 1 -> Seq(Message)] /\ Append(inbox, e)[n + 1] = e
        /\ \A i \in 1 .. n : Append(inbox, e)[i] = inbox[i]
    BY <2>3, AppendTo
  <2> QED BY <2>1, <2>2, <2>4
<1>7. owner' \in Seq(Clients) /\ Len(owner') = n + 1
  BY <1>1, AppendProperties DEF Open, ServerTypeOK
<1>8. Sockets' = 1 .. n + 1
  BY <1>3 DEF Sockets
<1>9. 1 .. n + 1 = (1 .. n) \cup {n + 1} /\ n + 1 \notin 1 .. n
  OBVIOUS
<1> QED BY <1>1, <1>3, <1>4, <1>5, <1>6, <1>7, <1>8, <1>9

\* Opening a socket, and what happens at the clients' ends, is no matter of the server's.
LEMMA ServerOpen ==
    ASSUME ServerInv, NEW c \in Clients, Open(c), UNCHANGED <<countvars, redisvars>>
    PROVE  ServerInv'
<1> DEFINE new == Len(owner) + 1
<1>0. ServerTypeOK
  BY DEF ServerInv
<1>1. /\ new \notin Sockets /\ Sockets' = Sockets \cup {new}
      /\ Len(owner') = new /\ owner' \in Seq(Clients)
      /\ clientEnd' \in [Sockets' -> Ends] /\ serverEnd' \in [Sockets' -> ServerEnds]
      /\ inbox' \in [Sockets' -> Seq(Message)]
      /\ \A s \in Sockets : /\ owner'[s] = owner[s] /\ clientEnd'[s] = clientEnd[s]
                            /\ serverEnd'[s] = serverEnd[s] /\ inbox'[s] = inbox[s]
      /\ serverEnd'[new] = "none" /\ inbox'[new] = <<>>
  BY <1>0, Opened
<1>2. /\ UNCHANGED <<connectionsByIp, connectedClients, subscriber, publishedEvents, redisLosses>>
      /\ Len(owner) \in Nat
  BY <1>0, SocketFacts DEF countvars, redisvars
<1> HIDE DEF new
<1>3. Handled' = Handled /\ \A ip \in Ips : OpenOf(ip)' = OpenOf(ip)
  <2>1. Handled' = {s \in Sockets' : serverEnd'[s] # "none"}
    BY DEF Handled, Sockets
  <2>2. ASSUME NEW ip \in Ips PROVE OpenOf(ip)' = OpenOf(ip)
    <3>1. OpenOf(ip)' = {s \in Sockets' : serverEnd'[s] = "open" /\ clientIp[owner'[s]] = ip}
      BY DEF OpenOf, Sockets, Ip
    <3> QED BY <1>1, <3>1 DEF OpenOf, Ip
  <2> QED BY <1>1, <2>1, <2>2 DEF Handled
<1>4. IpCountExact'
  BY <1>2, <1>3 DEF ServerInv, IpCountExact, OpenOf
<1>5. connectedClients' \in 0 .. Len(owner') /\ connectedClients' = Cardinality(Handled')
  <2>1. connectedClients \in 0 .. Len(owner) /\ Len(owner') = Len(owner) + 1
    BY <1>0, <1>1 DEF ServerTypeOK, new
  <2> QED BY <1>2, <1>3, <2>1 DEF ServerInv
<1>6. ServerTypeOK'
  BY <1>0, <1>1, <1>2, <1>5 DEF ServerTypeOK, Ends, ServerEnds, Message
<1>7. ASSUME NEW s \in Sockets'
      PROVE  /\ Rising(inbox'[s])
             /\ serverEnd'[s] \in {"none", "rejected"} => inbox'[s] = <<>>
             /\ \A i \in DOMAIN inbox'[s] : inbox'[s][i] <= publishedEvents'
  <2>1. CASE s \in Sockets
    BY <1>1, <1>2, <2>1 DEF ServerInv
  <2>2. CASE s = new
    <3>1. inbox'[s] = <<>> /\ DOMAIN inbox'[s] = {}
      BY <1>1, <2>2, EmptySeq
    <3> QED BY <3>1 DEF Rising
  <2> QED BY <1>1, <2>1, <2>2
<1> QED BY <1>4, <1>5, <1>6, <1>7 DEF ServerInv

\* A step that leaves the sockets and the counts alone keeps the server as it is.
LEMMA ServerAside ==
    ASSUME ServerInv, UNCHANGED <<owner, serverEnd, inbox, countvars, redisvars>>,
           clientEnd' \in [Sockets -> Ends]
    PROVE  ServerInv'
<1>1. Sockets' = Sockets /\ UNCHANGED <<connectionsByIp, connectedClients, subscriber, publishedEvents, redisLosses>>
  BY DEF Sockets, countvars, redisvars
<1>2. ServerTypeOK'
  BY <1>1 DEF ServerInv, ServerTypeOK, Ends
<1>3. IpCountExact' /\ connectedClients' = Cardinality(Handled')
  BY <1>1 DEF ServerInv, IpCountExact, Ip, Handled
<1> QED BY <1>1, <1>2, <1>3 DEF ServerInv

\* A message a client reads is gone from the socket, the rest as before.
LEMMA ServerRead ==
    ASSUME ServerInv, NEW s \in Sockets, inbox[s] # <<>>, inbox' = Set(inbox, s, Tail(inbox[s])),
           UNCHANGED <<owner, clientEnd, serverEnd, countvars, redisvars>>
    PROVE  ServerInv'
<1>1. Sockets' = Sockets /\ UNCHANGED <<connectionsByIp, connectedClients, subscriber, publishedEvents, redisLosses>>
  BY DEF Sockets, countvars, redisvars
<1>2. inbox \in [Sockets -> Seq(Message)] /\ inbox[s] \in Seq(Message)
  BY DEF ServerInv, ServerTypeOK, Message
<1>3. /\ Tail(inbox[s]) \in Seq(Message) /\ Rising(inbox[s])
      /\ \A i \in DOMAIN Tail(inbox[s]) : \E j \in DOMAIN inbox[s] : Tail(inbox[s])[i] = inbox[s][j]
      /\ Rising(inbox[s]) => Rising(Tail(inbox[s]))
  BY <1>2, TailMessage DEF ServerInv
<1>4. PICK q \in Seq(Message) : q = Tail(inbox[s])
  BY <1>3
<1>5. inbox' \in [Sockets -> Seq(Message)] /\ \A t \in Sockets : inbox'[t] = IF t = s THEN q ELSE inbox[t]
  BY <1>2, <1>4 DEF Set
<1>6. ServerTypeOK'
  BY <1>1, <1>5 DEF ServerInv, ServerTypeOK, Message
<1>7. IpCountExact' /\ connectedClients' = Cardinality(Handled')
  BY <1>1 DEF ServerInv, IpCountExact, Ip, Handled
<1>8. Rising(q) /\ serverEnd[s] \notin {"none", "rejected"} /\ \A i \in DOMAIN q : q[i] <= publishedEvents
  BY <1>3, <1>4 DEF ServerInv
<1>9. ASSUME NEW t \in Sockets
      PROVE  /\ Rising(inbox'[t])
             /\ serverEnd'[t] \in {"none", "rejected"} => inbox'[t] = <<>>
             /\ \A i \in DOMAIN inbox'[t] : inbox'[t][i] <= publishedEvents'
  <2>1. CASE t = s
    BY <1>1, <1>5, <1>8, <2>1
  <2>2. CASE t # s
    BY <1>1, <1>5, <2>2 DEF ServerInv
  <2> QED BY <2>1, <2>2
<1> QED BY <1>1, <1>6, <1>7, <1>9 DEF ServerInv

\* A connection, accepted or rejected, keeps the server.
LEMMA ServerConnection == ASSUME ServerInv, NEW s \in Sockets, Connection(s) PROVE ServerInv'
<1>0. /\ ServerTypeOK /\ Len(owner) \in Nat /\ Sockets' = Sockets /\ Sockets = 1 .. Len(owner)
      /\ UNCHANGED <<owner, clientEnd, subscriber, publishedEvents, redisLosses>>
      /\ serverEnd[s] = "none" /\ Ip(s) \in Ips /\ connectedClients' = connectedClients + 1
  <2>1. Ip(s) \in Ips
    BY SocketFacts, BroadcastAssumption DEF BroadcastAssumption, ServerInv, Ip
  <2> QED BY <2>1, SocketFacts DEF ServerInv, Connection, Sockets, redisvars
<1>1. serverEnd \in [Sockets -> ServerEnds] /\ inbox \in [Sockets -> Seq(Message)]
      /\ connectionsByIp \in [Ips -> 0 .. MAX_WS_CONNECTIONS_PER_IP]
  BY DEF ServerInv, ServerTypeOK, ServerEnds, Message
<1>2. PICK e \in {"rejected", "open"} : serverEnd' = [serverEnd EXCEPT ![s] = e]
  BY DEF Connection
<1>3. /\ serverEnd' \in [Sockets -> ServerEnds] /\ serverEnd'[s] = e
      /\ \A t \in Sockets : t # s => serverEnd'[t] = serverEnd[t]
  BY <1>1, <1>2 DEF ServerEnds
<1>4. Handled' = Handled \cup {s} /\ s \notin Handled
  <2>1. Handled' = {t \in Sockets : serverEnd'[t] # "none"}
    BY <1>0 DEF Handled
  <2> QED BY <1>0, <1>2, <1>3, <2>1 DEF Handled
<1>5. connectedClients' = Cardinality(Handled') /\ connectedClients' \in 0 .. Len(owner)
  <2>1. IsFiniteSet(Handled) /\ connectedClients = Cardinality(Handled) /\ connectedClients \in Nat
    BY <1>0, CountedFinite DEF ServerInv
  <2>2. connectedClients' = Cardinality(Handled')
    BY <1>0, <1>4, <2>1, FS_AddElement
  <2>3. Handled' \subseteq Sockets /\ IsFiniteSet(Sockets) /\ Cardinality(Sockets) = Len(owner)
    BY <1>0, SocketFacts DEF Handled
  <2>4. Cardinality(Handled') <= Len(owner)
    BY <2>3, FS_Subset
  <2> QED BY <1>0, <2>1, <2>2, <2>4
<1>6. CASE e = "rejected"
  <2>1. UNCHANGED <<connectionsByIp, inbox>>
    BY <1>1, <1>2, <1>3, <1>6 DEF Connection
  <2>2. \A ip \in Ips : OpenOf(ip)' = OpenOf(ip)
    <3> SUFFICES ASSUME NEW ip \in Ips PROVE OpenOf(ip)' = OpenOf(ip)
      OBVIOUS
    <3>1. OpenOf(ip)' = {t \in Sockets : serverEnd'[t] = "open" /\ Ip(t) = ip}
      BY <1>0 DEF OpenOf, Ip
    <3> QED BY <1>0, <1>3, <1>6, <3>1 DEF OpenOf
  <2>3. IpCountExact'
    BY <2>1, <2>2 DEF ServerInv, IpCountExact, OpenOf
  <2>4. ServerTypeOK'
    BY <1>0, <1>3, <1>5, <2>1 DEF ServerTypeOK, ServerEnds
  <2>5. ASSUME NEW t \in Sockets
        PROVE  /\ Rising(inbox'[t])
               /\ serverEnd'[t] \in {"none", "rejected"} => inbox'[t] = <<>>
               /\ \A i \in DOMAIN inbox'[t] : inbox'[t][i] <= publishedEvents'
    BY <1>0, <1>3, <2>1 DEF ServerInv
  <2> QED BY <1>0, <1>5, <2>3, <2>4, <2>5 DEF ServerInv
<1>7. CASE e = "open"
  <2>1. /\ connectionsByIp[Ip(s)] + 1 <= MAX_WS_CONNECTIONS_PER_IP
        /\ connectionsByIp' = [connectionsByIp EXCEPT ![Ip(s)] = connectionsByIp[Ip(s)] + 1]
        /\ inbox' = [inbox EXCEPT ![s] = Append(inbox[s], Welcome)]
    <3>1. ~(connectionsByIp[Ip(s)] + 1 > MAX_WS_CONNECTIONS_PER_IP)
      BY <1>1, <1>2, <1>3, <1>7 DEF Connection
    <3>2. connectionsByIp[Ip(s)] \in Nat /\ MAX_WS_CONNECTIONS_PER_IP \in Nat
      BY <1>0, <1>1, BroadcastAssumption DEF BroadcastAssumption
    <3>3. /\ connectionsByIp' = [connectionsByIp EXCEPT ![Ip(s)] = connectionsByIp[Ip(s)] + 1]
          /\ inbox' = [inbox EXCEPT ![s] = Append(inbox[s], Welcome)]
      BY <3>1, Zenon DEF Connection
    <3> QED BY <3>1, <3>2, <3>3
  <2>2. connectionsByIp' \in [Ips -> 0 .. MAX_WS_CONNECTIONS_PER_IP]
    BY <1>0, <1>1, <2>1, BroadcastAssumption DEF BroadcastAssumption
  <2>3. IpCountExact'
    <3> SUFFICES ASSUME NEW ip \in Ips PROVE connectionsByIp'[ip] = Cardinality(OpenOf(ip)')
      BY DEF IpCountExact, OpenOf
    <3>1. OpenOf(ip)' = {t \in Sockets : serverEnd'[t] = "open" /\ Ip(t) = ip}
      BY <1>0 DEF OpenOf, Ip
    <3>2. connectionsByIp[ip] = Cardinality(OpenOf(ip)) /\ IsFiniteSet(OpenOf(ip))
      BY <1>0, CountedFinite DEF ServerInv, IpCountExact, OpenOf
    <3>3. CASE ip = Ip(s)
      <4>1. OpenOf(ip)' = OpenOf(ip) \cup {s} /\ s \notin OpenOf(ip)
        BY <1>0, <1>3, <1>7, <3>1, <3>3 DEF OpenOf
      <4>2. Cardinality(OpenOf(ip)') = Cardinality(OpenOf(ip)) + 1
        BY <3>2, <4>1, FS_AddElement
      <4> QED BY <1>0, <1>1, <2>1, <3>2, <3>3, <4>2
    <3>4. CASE ip # Ip(s)
      <4>1. OpenOf(ip)' = OpenOf(ip)
        BY <1>0, <1>3, <3>1, <3>4 DEF OpenOf
      <4> QED BY <1>1, <2>1, <3>2, <3>4, <4>1
    <3> QED BY <3>3, <3>4
  <2>4. inbox[s] = <<>> /\ Welcome \in Message /\ inbox[s] \in Seq(Message)
    BY <1>0, <1>1 DEF ServerInv, Message
  <2>5. PICK q \in Seq(Message) :
          /\ q = Append(inbox[s], Welcome) /\ Rising(q)
          /\ \A i \in DOMAIN q : q[i] = Welcome
    <3>1. DOMAIN inbox[s] = {}
      BY <2>4, EmptySeq
    <3>2. Rising(inbox[s])
      BY <3>1 DEF Rising
    <3>3. /\ Append(inbox[s], Welcome) \in Seq(Message)
          /\ Rising(Append(inbox[s], Welcome))
          /\ \A i \in DOMAIN Append(inbox[s], Welcome) : Append(inbox[s], Welcome)[i] = Welcome
      BY <2>4, <3>1, <3>2, AppendMessage
    <3> QED BY <3>3, Zenon
  <2>6. inbox' \in [Sockets -> Seq(Message)] /\ \A t \in Sockets : inbox'[t] = IF t = s THEN q ELSE inbox[t]
    BY <1>1, <2>1, <2>5
  <2>7. ServerTypeOK'
    BY <1>0, <1>3, <1>5, <2>2, <2>6 DEF ServerTypeOK, ServerEnds, Message
  <2>8. Welcome <= publishedEvents
    BY <1>0, BroadcastAssumption DEF BroadcastAssumption, ServerTypeOK, Welcome
  <2>9. ASSUME NEW t \in Sockets
        PROVE  /\ Rising(inbox'[t])
               /\ serverEnd'[t] \in {"none", "rejected"} => inbox'[t] = <<>>
               /\ \A i \in DOMAIN inbox'[t] : inbox'[t][i] <= publishedEvents'
    <3>1. CASE t = s
      BY <1>0, <1>3, <1>7, <2>5, <2>6, <2>8, <3>1
    <3>2. CASE t # s
      BY <1>0, <1>3, <2>6, <3>2 DEF ServerInv
    <3> QED BY <3>1, <3>2
  <2> QED BY <1>0, <1>5, <2>3, <2>7, <2>9 DEF ServerInv
<1> QED BY <1>6, <1>7

\* A close keeps the server, and its counts exact.
LEMMA ServerClosed == ASSUME ServerInv, NEW s \in Sockets, ServerClose(s) PROVE ServerInv'
<1>0. /\ ServerTypeOK /\ Sockets' = Sockets
      /\ UNCHANGED <<owner, clientEnd, inbox, connectedClients, subscriber, publishedEvents, redisLosses>>
      /\ serverEnd[s] \in {"open", "rejected"} /\ Ip(s) \in Ips
      /\ serverEnd' = [serverEnd EXCEPT ![s] = "closed"]
  <2>1. Ip(s) \in Ips
    BY SocketFacts, BroadcastAssumption DEF BroadcastAssumption, ServerInv, Ip
  <2> QED BY <2>1 DEF ServerInv, ServerClose, Sockets, redisvars
<1>1. serverEnd \in [Sockets -> ServerEnds] /\ connectionsByIp \in [Ips -> 0 .. MAX_WS_CONNECTIONS_PER_IP]
  BY DEF ServerInv, ServerTypeOK, ServerEnds
<1>2. /\ serverEnd' \in [Sockets -> ServerEnds] /\ serverEnd'[s] = "closed"
      /\ \A t \in Sockets : t # s => serverEnd'[t] = serverEnd[t]
  BY <1>0, <1>1 DEF ServerEnds
<1>3. Handled' = Handled
  <2>1. Handled' = {t \in Sockets : serverEnd'[t] # "none"}
    BY <1>0 DEF Handled
  <2> QED BY <1>0, <1>2, <2>1 DEF Handled
<1>4. \A ip \in Ips : OpenOf(ip)' = OpenOf(ip) \ {s}
  <2> SUFFICES ASSUME NEW ip \in Ips PROVE OpenOf(ip)' = OpenOf(ip) \ {s}
    OBVIOUS
  <2>1. OpenOf(ip)' = {t \in Sockets : serverEnd'[t] = "open" /\ Ip(t) = ip}
    BY <1>0 DEF OpenOf, Ip
  <2> QED BY <1>2, <2>1 DEF OpenOf
<1>5. connectionsByIp' \in [Ips -> 0 .. MAX_WS_CONNECTIONS_PER_IP] /\ IpCountExact'
  <2>1. CASE serverEnd[s] = "rejected"
    <3>1. UNCHANGED connectionsByIp /\ \A ip \in Ips : OpenOf(ip)' = OpenOf(ip)
      BY <1>4, <2>1 DEF ServerClose, OpenOf
    <3> QED BY <1>1, <3>1 DEF ServerInv, IpCountExact, OpenOf
  <2>2. CASE serverEnd[s] = "open"
    <3>1. connectionsByIp' = [connectionsByIp EXCEPT ![Ip(s)] =
                                IF connectionsByIp[Ip(s)] = 0 THEN 0 ELSE connectionsByIp[Ip(s)] - 1]
      BY <2>2 DEF ServerClose
    <3>2. connectionsByIp' \in [Ips -> 0 .. MAX_WS_CONNECTIONS_PER_IP]
      BY <1>0, <1>1, <3>1, BroadcastAssumption DEF BroadcastAssumption
    <3>3. ASSUME NEW ip \in Ips PROVE connectionsByIp'[ip] = Cardinality(OpenOf(ip)')
      <4>1. /\ connectionsByIp[ip] = Cardinality(OpenOf(ip)) /\ IsFiniteSet(OpenOf(ip))
            /\ Cardinality(OpenOf(ip)) \in Nat
        BY <1>0, CountedFinite DEF ServerInv, IpCountExact, OpenOf
      <4>2. CASE ip = Ip(s)
        <5>1. s \in OpenOf(ip)
          BY <2>2, <4>2 DEF OpenOf
        <5>2. Cardinality(OpenOf(ip)') = Cardinality(OpenOf(ip)) - 1 /\ Cardinality(OpenOf(ip)) # 0
          BY <1>4, <4>1, <5>1, FS_RemoveElement, FS_EmptySet
        <5> QED BY <1>0, <1>1, <3>1, <4>1, <4>2, <5>2
      <4>3. CASE ip # Ip(s)
        <5>1. OpenOf(ip)' = OpenOf(ip)
          BY <1>4, <4>3 DEF OpenOf
        <5> QED BY <1>1, <3>1, <4>1, <4>3, <5>1
      <4> QED BY <4>2, <4>3
    <3>4. IpCountExact'
      BY <3>3 DEF IpCountExact, OpenOf
    <3> QED BY <3>2, <3>4
  <2> QED BY <1>0, <2>1, <2>2
<1>6. ServerTypeOK'
  BY <1>0, <1>2, <1>5 DEF ServerTypeOK, ServerEnds
<1>7. ASSUME NEW t \in Sockets
      PROVE  /\ Rising(inbox'[t])
             /\ serverEnd'[t] \in {"none", "rejected"} => inbox'[t] = <<>>
             /\ \A i \in DOMAIN inbox'[t] : inbox'[t][i] <= publishedEvents'
  BY <1>0, <1>2 DEF ServerInv
<1> QED BY <1>0, <1>3, <1>5, <1>6, <1>7 DEF ServerInv

\* Publishing, which numbers the event after all others, keeps the server.
LEMMA ServerPublish == ASSUME ServerInv, Publish PROVE ServerInv'
<1>0. /\ ServerTypeOK /\ Sockets' = Sockets
      /\ UNCHANGED <<owner, clientEnd, serverEnd, connectionsByIp, connectedClients, subscriber, redisLosses>>
      /\ publishedEvents < MaxEvents /\ publishedEvents' = publishedEvents + 1
      /\ publishedEvents \in Nat /\ MaxEvents \in Nat
  BY BroadcastAssumption DEF BroadcastAssumption, ServerInv, ServerTypeOK, Publish, Sockets, countvars
<1>1. PICK e \in Message : e = publishedEvents + 1
  BY <1>0 DEF Message, Event
<1>2. inbox \in [Sockets -> Seq(Message)]
  BY DEF ServerInv, ServerTypeOK, Message
<1>a. PICK more \in [Sockets -> Seq(Message)] : \A s \in Sockets : more[s] = Append(inbox[s], e)
  <2>1. \A s \in Sockets : Append(inbox[s], e) \in Seq(Message)
    BY <1>1, <1>2, AppendMessage
  <2>2. [s \in Sockets |-> Append(inbox[s], e)] \in [Sockets -> Seq(Message)]
    BY <2>1
  <2>3. \A s \in Sockets : [t \in Sockets |-> Append(inbox[t], e)][s] = Append(inbox[s], e)
    OBVIOUS
  <2> QED BY <2>2, <2>3, Zenon
<1>b. inbox' = inbox \/ inbox' = [s \in Sockets |-> IF serverEnd[s] = "open" THEN more[s] ELSE inbox[s]]
  <2>1. [s \in Sockets |-> IF serverEnd[s] = "open" THEN more[s] ELSE inbox[s]] =
          [s \in Sockets |-> IF serverEnd[s] = "open" THEN Append(inbox[s], e) ELSE inbox[s]]
    BY <1>a
  <2>2. inbox' = inbox \/ inbox' = [s \in Sockets |-> IF serverEnd[s] = "open" THEN Append(inbox[s], e) ELSE inbox[s]]
    BY <1>1, Zenon DEF Publish, Broadcast
  <2> QED BY <2>1, <2>2, Zenon
<1>3. /\ inbox' \in [Sockets -> Seq(Message)]
      /\ \A s \in Sockets : inbox'[s] = inbox[s] \/ (serverEnd[s] = "open" /\ inbox'[s] = more[s])
  <2>1. inbox' \in [Sockets -> Seq(Message)]
    BY <1>2, <1>b
  <2>2. \A s \in Sockets : inbox'[s] = inbox[s] \/ (serverEnd[s] = "open" /\ inbox'[s] = more[s])
    <3>1. CASE inbox' = inbox
      BY <3>1, Zenon
    <3>2. CASE inbox' = [s \in Sockets |-> IF serverEnd[s] = "open" THEN more[s] ELSE inbox[s]]
      BY <3>2
    <3> QED BY <1>b, <3>1, <3>2
  <2> QED BY <2>1, <2>2
<1>4. ASSUME NEW s \in Sockets
      PROVE  /\ Rising(inbox'[s])
             /\ serverEnd'[s] \in {"none", "rejected"} => inbox'[s] = <<>>
             /\ \A i \in DOMAIN inbox'[s] : inbox'[s][i] <= publishedEvents'
  <2>1. inbox[s] \in Seq(Message) /\ Rising(inbox[s]) /\ \A i \in DOMAIN inbox[s] : inbox[s][i] \in Nat
    <3>1. inbox[s] \in Seq(Message)
      BY <1>2
    <3>2. Message \subseteq Nat
      BY DEF Message, Event, Welcome
    <3>3. Rising(inbox[s])
      BY DEF ServerInv
    <3>4. \A i \in DOMAIN inbox[s] : inbox[s][i] \in Message
      BY <3>1, LenProperties
    <3> QED BY <3>1, <3>2, <3>3, <3>4
  <2>2. \A i \in DOMAIN inbox[s] : inbox[s][i] <= publishedEvents /\ inbox[s][i] < e /\ inbox[s][i] <= publishedEvents'
    BY <1>0, <1>1, <2>1 DEF ServerInv
  <2>3. CASE inbox'[s] = inbox[s]
    BY <1>0, <2>1, <2>2, <2>3 DEF ServerInv
  <2>4. CASE serverEnd[s] = "open" /\ inbox'[s] = more[s]
    <3>0. more[s] = Append(inbox[s], e)
      BY <1>a
    <3>1. e <= publishedEvents'
      BY <1>0, <1>1
    <3>2. Rising(Append(inbox[s], e))
      BY <2>1, <2>2, AppendMessage
    <3>3. \A i \in DOMAIN Append(inbox[s], e) :
            Append(inbox[s], e)[i] = e \/ \E j \in DOMAIN inbox[s] : Append(inbox[s], e)[i] = inbox[s][j]
      BY <2>1, AppendMessage
    <3> QED BY <1>0, <2>2, <2>4, <3>0, <3>1, <3>2, <3>3
  <2> QED BY <1>3, <2>3, <2>4
<1>5. IpCountExact' /\ connectedClients' = Cardinality(Handled')
  BY <1>0 DEF ServerInv, IpCountExact, Ip, Handled
<1>6. publishedEvents' \in 0 .. MaxEvents
  BY <1>0
<1>7. ServerTypeOK'
  BY <1>0, <1>3, <1>6 DEF ServerTypeOK, Message
<1> QED BY <1>0, <1>4, <1>5, <1>7 DEF ServerInv

\* What happens to the subscription to Redis keeps the server.
LEMMA ServerRedis == ASSUME ServerInv, RedisReady \/ RedisLost \/ Shutdown PROVE ServerInv'
<1>1. /\ Sockets' = Sockets
      /\ UNCHANGED <<owner, clientEnd, serverEnd, inbox, connectionsByIp, connectedClients, publishedEvents>>
  BY DEF RedisReady, RedisLost, Shutdown, sockvars, countvars, Sockets
<1>2. subscriber' \in {"down", "ready", "subscribed", "gone", "closed"} /\ redisLosses' \in 0 .. MaxRedisLosses
  BY BroadcastAssumption DEF BroadcastAssumption, ServerInv, ServerTypeOK, RedisReady, RedisLost, Shutdown
<1>3. ServerTypeOK'
  BY <1>1, <1>2 DEF ServerInv, ServerTypeOK
<1>4. IpCountExact' /\ connectedClients' = Cardinality(Handled')
  BY <1>1 DEF ServerInv, IpCountExact, Ip, Handled
<1> QED BY <1>1, <1>3, <1>4 DEF ServerInv

\* Every step of the server keeps its invariant.
LEMMA ServerSteps == ASSUME ServerInv, ServerNext PROVE ServerInv'
  BY ServerConnection, ServerClosed, ServerPublish, ServerRedis DEF ServerNext

\* What the server adds to a socket is a greeting or newer than all before.
LEMMA InboxGrows ==
    ASSUME ServerInv, ServerNext
    PROVE  /\ UNCHANGED <<owner, clientEnd>> /\ Sockets' = Sockets
           /\ publishedEvents <= publishedEvents'
           /\ \A s \in Sockets : \A j \in DOMAIN inbox'[s] :
                 \/ inbox'[s][j] = Welcome \/ publishedEvents < inbox'[s][j]
                 \/ \E k \in DOMAIN inbox[s] : inbox'[s][j] = inbox[s][k]
<1>0. /\ inbox \in [Sockets -> Seq(Message)] /\ publishedEvents \in Nat
      /\ publishedEvents \in 0 .. MaxEvents /\ Welcome \in Message
  BY BroadcastAssumption DEF BroadcastAssumption, ServerInv, ServerTypeOK, Message
<1>1. UNCHANGED <<owner, clientEnd>> /\ Sockets' = Sockets
  BY DEF ServerNext, Connection, ServerClose, RedisReady, RedisLost, Publish, Shutdown, sockvars, Sockets
<1>2. publishedEvents <= publishedEvents'
  BY <1>0 DEF ServerNext, Connection, ServerClose, RedisReady, RedisLost, Publish, Shutdown, redisvars
<1>3. ASSUME NEW s \in Sockets
      PROVE  \/ inbox'[s] = inbox[s]
             \/ \E e \in Message : (e = Welcome \/ publishedEvents < e) /\ inbox'[s] = Append(inbox[s], e)
  <2>1. CASE \E t \in Sockets : ServerClose(t)
    BY <2>1 DEF ServerClose
  <2>2. CASE RedisReady \/ RedisLost \/ Shutdown
    BY <2>2 DEF RedisReady, RedisLost, Shutdown, sockvars
  <2>3. ASSUME NEW t \in Sockets, Connection(t)
        PROVE  inbox'[s] = inbox[s] \/ inbox'[s] = Append(inbox[s], Welcome)
    <3>1. inbox' = inbox \/ inbox' = [inbox EXCEPT ![t] = Append(inbox[t], Welcome)]
      BY <2>3, Zenon DEF Connection
    <3> QED BY <1>0, <3>1
  <2>4. ASSUME Publish
        PROVE  \/ inbox'[s] = inbox[s]
               \/ \E e \in Message : publishedEvents < e /\ inbox'[s] = Append(inbox[s], e)
    <3>1. PICK e \in Message : e = publishedEvents + 1 /\ publishedEvents < e
      BY <1>0, <2>4, BroadcastAssumption DEF BroadcastAssumption, Publish, Message, Event
    <3>2. \/ inbox' = inbox
          \/ inbox' = [t \in Sockets |-> IF serverEnd[t] = "open" THEN Append(inbox[t], e) ELSE inbox[t]]
      BY <2>4, <3>1, Zenon DEF Publish, Broadcast
    <3>3. inbox'[s] = inbox[s] \/ inbox'[s] = Append(inbox[s], e)
      BY <3>2, Zenon
    <3> QED BY <3>1, <3>3
  <2> QED BY <1>0, <2>1, <2>2, <2>3, <2>4 DEF ServerNext
<1>4. ASSUME NEW s \in Sockets, NEW j \in DOMAIN inbox'[s]
      PROVE  \/ inbox'[s][j] = Welcome \/ publishedEvents < inbox'[s][j]
             \/ \E k \in DOMAIN inbox[s] : inbox'[s][j] = inbox[s][k]
  <2>1. CASE inbox'[s] = inbox[s]
    BY <2>1
  <2>2. ASSUME NEW e \in Message, e = Welcome \/ publishedEvents < e, inbox'[s] = Append(inbox[s], e)
        PROVE  \/ inbox'[s][j] = Welcome \/ publishedEvents < inbox'[s][j]
               \/ \E k \in DOMAIN inbox[s] : inbox'[s][j] = inbox[s][k]
    <3>1. inbox[s] \in Seq(Message)
      BY <1>0
    <3>2. \A i \in DOMAIN Append(inbox[s], e) :
            Append(inbox[s], e)[i] = e \/ \E k \in DOMAIN inbox[s] : k = i /\ Append(inbox[s], e)[i] = inbox[s][k]
      BY <3>1, AppendMessage
    <3> QED BY <2>2, <3>2
  <2> QED BY <1>3, <2>1, <2>2
<1> QED BY <1>1, <1>2, <1>4

-----------------------------------------------------------------------------
(* The feeds.                                                            *)

\* A socket that is not closed has its handler and is its client's.
Linked ==
    /\ \A s \in Sockets : /\ s \in attached <=> clientEnd[s] # "closed"
                          /\ clientEnd[s] # "closed" => ws[owner[s]] = s
    /\ \A c \in Clients : ws[c] # 0 => owner[ws[c]] = c /\ clientEnd[ws[c]] # "closed"

\* A feed that is on has a socket or a timer, one that is off neither.
Driven ==
    \A c \in Clients : /\ isLive[c] => ws[c] # 0 \/ reconnectTimer[c]
                       /\ ~isLive[c] => ws[c] = 0 /\ ~reconnectTimer[c]

\* All that is not a greeting in q comes after what is in p.
Behind(p, q) == \A i \in DOMAIN p, j \in DOMAIN q : q[j] = Welcome \/ p[i] < q[j]
\* The events in q increase, whatever greetings are between them.
EventsRise(q) ==
    \A i, j \in DOMAIN q : i < j /\ Welcome \notin {q[i], q[j]} => q[i] < q[j]

\* What a client has been shown or will be, and that what it has received is behind
\* what its sockets still hold.
Viewed(c) ==
    /\ ~isPaused[c] \/ ~isLive[c] => pauseBuffer[c] = <<>>
    /\ isLive[c] => shown[c] \o pauseBuffer[c] = received[c]
    /\ EventsRise(received[c])
    /\ \A i \in DOMAIN received[c] : received[c][i] <= publishedEvents
    /\ \A s \in Sockets : owner[s] = c /\ clientEnd[s] # "closed" => Behind(received[c], inbox[s])

\* The inductive invariant of the server with its clients.
ClientsInv ==
    /\ ServerInv /\ FeedTypeOK /\ Linked /\ Driven
    /\ \A c \in Clients : Viewed(c)

\* Opening a socket for a client that has none.
LEMMA Connected ==
    ASSUME ClientsInv, NEW c \in Clients, connect(c)
    PROVE  /\ Linked' /\ ws'[c] # 0 /\ \A k \in Clients : k # c => ws'[k] = ws[k]
           /\ ws' \in [Clients -> {0} \cup Sockets'] /\ attached' \subseteq Sockets'
           /\ Sockets \subseteq Sockets'
           /\ \A s \in Sockets : owner'[s] = owner[s] /\ clientEnd'[s] = clientEnd[s] /\ inbox'[s] = inbox[s]
           /\ \A s \in Sockets' : s \in Sockets \/ inbox'[s] = <<>>
           /\ UNCHANGED <<countvars, redisvars>> => ServerInv'
<1>0. ServerTypeOK /\ ServerInv /\ Linked /\ ws \in [Clients -> {0} \cup Sockets] /\ attached \subseteq Sockets
  BY DEF ClientsInv, FeedTypeOK
<1>1. CASE ws[c] # 0
  <2>1. UNCHANGED <<owner, clientEnd, serverEnd, inbox, ws, attached>>
    BY <1>1 DEF connect, sockvars
  <2>2. Linked' /\ Sockets' = Sockets
    BY <1>0, <2>1 DEF Linked, Sockets
  <2>3. clientEnd' \in [Sockets -> Ends]
    BY <1>0, <2>1 DEF ServerTypeOK, Ends
  <2> QED BY <1>0, <1>1, <2>1, <2>2, <2>3, ServerAside
<1>2. CASE ws[c] = 0
  <2> DEFINE new == Len(owner) + 1
  <2>1. Open(c) /\ ws' = [ws EXCEPT ![c] = new] /\ attached' = attached \cup {new}
    BY <1>2 DEF connect, Set
  <2>2. /\ new \notin Sockets /\ Sockets' = Sockets \cup {new}
        /\ \A s \in Sockets : /\ owner'[s] = owner[s] /\ clientEnd'[s] = clientEnd[s]
                              /\ inbox'[s] = inbox[s]
        /\ owner'[new] = c /\ clientEnd'[new] = "connecting" /\ inbox'[new] = <<>>
    BY <1>0, <2>1, Opened
  <2>3. new # 0 /\ owner \in [Sockets -> Clients]
    BY <1>0, SocketFacts
  <2> HIDE DEF new
  <2>4. Linked'
    <3>1. ASSUME NEW s \in Sockets'
          PROVE  /\ s \in attached' <=> clientEnd'[s] # "closed"
                 /\ clientEnd'[s] # "closed" => ws'[owner'[s]] = s
      <4>1. CASE s = new
        BY <1>0, <2>1, <2>2, <4>1
      <4>2. CASE s \in Sockets
        <5>1. s # new /\ owner[s] \in Clients /\ s # 0
          BY <1>0, <2>2, <2>3, <4>2, SocketFacts
        <5>2. clientEnd[s] # "closed" => ws[owner[s]] = s /\ owner[s] # c
          BY <1>0, <1>2, <4>2, <5>1 DEF Linked
        <5> QED BY <1>0, <2>1, <2>2, <4>2, <5>1, <5>2 DEF Linked
      <4> QED BY <2>2, <4>1, <4>2
    <3>2. ASSUME NEW k \in Clients, ws'[k] # 0
          PROVE  owner'[ws'[k]] = k /\ clientEnd'[ws'[k]] # "closed"
      <4>1. CASE k = c
        BY <1>0, <2>1, <2>2, <4>1
      <4>2. CASE k # c
        <5>1. ws'[k] = ws[k] /\ ws[k] \in Sockets
          BY <1>0, <2>1, <3>2, <4>2
        <5> QED BY <1>0, <2>2, <3>2, <5>1 DEF Linked
      <4> QED BY <4>1, <4>2
    <3>3. Linked' <=> /\ \A s \in Sockets' : /\ s \in attached' <=> clientEnd'[s] # "closed"
                                             /\ clientEnd'[s] # "closed" => ws'[owner'[s]] = s
                      /\ \A k \in Clients : ws'[k] # 0 => owner'[ws'[k]] = k /\ clientEnd'[ws'[k]] # "closed"
      BY DEF Linked
    <3> QED BY <3>1, <3>2, <3>3
  <2>5. UNCHANGED <<countvars, redisvars>> => ServerInv'
    BY <1>0, <2>1, ServerOpen
  <2>6. ws' \in [Clients -> {0} \cup Sockets'] /\ attached' \subseteq Sockets'
    BY <1>0, <2>1, <2>2
  <2>7. ws'[c] # 0 /\ \A k \in Clients : k # c => ws'[k] = ws[k]
    BY <1>0, <2>1, <2>3
  <2> QED BY <2>2, <2>4, <2>5, <2>6, <2>7
<1> QED BY <1>1, <1>2

\* Tearing a feed down, and the close event of a socket: one socket is closed.
LEMMA SocketGoes ==
    ASSUME ClientsInv, NEW c \in Clients, ws[c] # 0,
           UNCHANGED <<owner, serverEnd, inbox, countvars, redisvars>>,
           clientEnd' = Set(clientEnd, ws[c], "closed"), attached' = attached \ {ws[c]}, ws' = Set(ws, c, 0)
    PROVE  /\ ServerInv' /\ Linked' /\ Sockets' = Sockets
           /\ ws' \in [Clients -> {0} \cup Sockets] /\ attached' \subseteq Sockets
           /\ ws'[c] = 0 /\ \A k \in Clients : k # c => ws'[k] = ws[k]
           /\ \A s \in Sockets : clientEnd'[s] # "closed" => clientEnd[s] # "closed"
<1>0. ServerTypeOK /\ ServerInv /\ Linked /\ ws \in [Clients -> {0} \cup Sockets] /\ attached \subseteq Sockets
  BY DEF ClientsInv, FeedTypeOK
<1>1. /\ Sockets' = Sockets /\ clientEnd \in [Sockets -> Ends] /\ owner \in [Sockets -> Clients]
  BY <1>0, SocketFacts DEF Sockets, ServerTypeOK, Ends
<1>2. PICK s \in Sockets : s = ws[c] /\ owner[s] = c /\ clientEnd[s] # "closed"
  BY <1>0 DEF Linked
<1>3. /\ clientEnd' \in [Sockets -> Ends] /\ clientEnd'[s] = "closed"
      /\ \A t \in Sockets : t # s => clientEnd'[t] = clientEnd[t]
  BY <1>1, <1>2 DEF Set, Ends
<1>4. /\ ws' \in [Clients -> {0} \cup Sockets] /\ ws'[c] = 0 /\ \A k \in Clients : k # c => ws'[k] = ws[k]
  BY <1>0 DEF Set
<1>5. ServerInv'
  BY <1>0, <1>3, ServerAside
<1>6. ASSUME NEW t \in Sockets
      PROVE  /\ t \in attached' <=> clientEnd'[t] # "closed"
             /\ clientEnd'[t] # "closed" => ws'[owner[t]] = t
  <2>1. CASE t = s
    BY <1>2, <1>3, <2>1
  <2>2. CASE t # s
    <3>1. clientEnd[t] # "closed" => owner[t] # c
      BY <1>0, <1>2, <2>2 DEF Linked
    <3> QED BY <1>0, <1>1, <1>2, <1>3, <1>4, <2>2, <3>1 DEF Linked
  <2> QED BY <2>1, <2>2
<1>7. ASSUME NEW k \in Clients, ws'[k] # 0
      PROVE  owner[ws'[k]] = k /\ clientEnd'[ws'[k]] # "closed"
  <2>1. k # c /\ ws'[k] = ws[k] /\ ws[k] \in Sockets
    BY <1>0, <1>4, <1>7
  <2>2. owner[ws[k]] = k /\ clientEnd[ws[k]] # "closed"
    BY <1>0, <1>7, <2>1 DEF Linked
  <2>3. ws[k] # s
    BY <1>2, <2>1, <2>2
  <2> QED BY <1>3, <2>1, <2>2, <2>3
<1>8. Linked'
  BY <1>1, <1>6, <1>7 DEF Linked
<1>9. \A t \in Sockets : clientEnd'[t] # "closed" => clientEnd[t] # "closed"
  BY <1>2, <1>3
<1> QED BY <1>0, <1>1, <1>4, <1>5, <1>8, <1>9

\* What a client received stays behind what its sockets hold, whatever is opened,
\* closed or sent.
LEMMA HistoryKept ==
    ASSUME ClientsInv, NEW k \in Clients, received'[k] = received[k], publishedEvents <= publishedEvents',
           publishedEvents' \in Nat, inbox' \in [Sockets' -> Seq(Message)],
           \A s \in Sockets' :
              owner'[s] = k /\ clientEnd'[s] # "closed" =>
                 \/ inbox'[s] = <<>>
                 \/ /\ s \in Sockets /\ owner[s] = k /\ clientEnd[s] # "closed"
                    /\ \A j \in DOMAIN inbox'[s] :
                          \/ inbox'[s][j] = Welcome \/ publishedEvents < inbox'[s][j]
                          \/ \E i \in DOMAIN inbox[s] : inbox'[s][j] = inbox[s][i]
    PROVE  /\ EventsRise(received'[k])
           /\ \A i \in DOMAIN received'[k] : received'[k][i] <= publishedEvents'
           /\ \A s \in Sockets' : owner'[s] = k /\ clientEnd'[s] # "closed" => Behind(received'[k], inbox'[s])
<1>0. /\ received[k] \in Seq(Message) /\ publishedEvents \in Nat /\ Message \subseteq Nat /\ Viewed(k)
  <2>1. Message \subseteq Nat
    BY DEF Message, Event, Welcome
  <2>2. received[k] \in Seq(Message)
    BY DEF ClientsInv, FeedTypeOK, Message
  <2>3. publishedEvents \in Nat
    BY BroadcastAssumption DEF BroadcastAssumption, ClientsInv, FeedTypeOK, ServerTypeOK
  <2> QED BY <2>1, <2>2, <2>3 DEF ClientsInv
<1>1. \A i \in DOMAIN received[k] : received[k][i] \in Nat
  BY <1>0, Elements
<1>2. \A i \in DOMAIN received[k] : received[k][i] <= publishedEvents
  BY <1>0 DEF Viewed
<1>3. \A i \in DOMAIN received[k] : received[k][i] <= publishedEvents'
  BY <1>0, <1>1, <1>2
<1>4. EventsRise(received[k])
  BY <1>0 DEF Viewed
<1>5. ASSUME NEW s \in Sockets', owner'[s] = k, clientEnd'[s] # "closed"
      PROVE  Behind(received[k], inbox'[s])
  <2>1. CASE inbox'[s] = <<>>
    <3>1. DOMAIN inbox'[s] = {}
      BY <2>1, EmptySeq
    <3> QED BY <3>1 DEF Behind
  <2>2. CASE /\ s \in Sockets /\ owner[s] = k /\ clientEnd[s] # "closed"
             /\ \A j \in DOMAIN inbox'[s] :
                   \/ inbox'[s][j] = Welcome \/ publishedEvents < inbox'[s][j]
                   \/ \E i \in DOMAIN inbox[s] : inbox'[s][j] = inbox[s][i]
    <3>1. Behind(received[k], inbox[s])
      BY <1>0, <2>2 DEF Viewed
    <3>2. ASSUME NEW i \in DOMAIN received[k], NEW j \in DOMAIN inbox'[s], inbox'[s][j] # Welcome
          PROVE  received[k][i] < inbox'[s][j]
      <4>1. inbox'[s][j] \in Nat
        <5>1. inbox'[s] \in Seq(Message)
          OBVIOUS
        <5> QED BY <5>1, Elements
      <4>2. CASE publishedEvents < inbox'[s][j]
        BY <1>0, <1>1, <1>2, <4>1, <4>2
      <4>3. CASE \E n \in DOMAIN inbox[s] : inbox'[s][j] = inbox[s][n]
        BY <3>1, <3>2, <4>3 DEF Behind
      <4> QED BY <2>2, <3>2, <4>2, <4>3
    <3> QED BY <3>2 DEF Behind
  <2> QED BY <1>5, <2>1, <2>2
<1> QED BY <1>3, <1>4, <1>5

\* A step of the server keeps the clients' part too.
LEMMA ServerMoves ==
    ASSUME ClientsInv, ServerNext, UNCHANGED <<feedvars, seenvars>>
    PROVE  ClientsInv'
<1>0. /\ UNCHANGED <<isLive, isPaused, ws, attached, reconnectTimer, attempt, pauseBuffer, shown, received>>
      /\ UNCHANGED <<owner, clientEnd>> /\ Sockets' = Sockets /\ ServerInv'
      /\ publishedEvents <= publishedEvents'
      /\ \A s \in Sockets : \A j \in DOMAIN inbox'[s] :
            \/ inbox'[s][j] = Welcome \/ publishedEvents < inbox'[s][j]
            \/ \E k \in DOMAIN inbox[s] : inbox'[s][j] = inbox[s][k]
  BY InboxGrows, ServerSteps DEF ClientsInv, feedvars, seenvars
<1>1. FeedTypeOK'
  BY <1>0 DEF ClientsInv, FeedTypeOK, ServerInv
<1>2. Linked' /\ Driven'
  BY <1>0 DEF ClientsInv, Linked, Driven
<1>3. inbox' \in [Sockets' -> Seq(Message)] /\ publishedEvents' \in Nat
  BY <1>0, <1>1, BroadcastAssumption DEF BroadcastAssumption, FeedTypeOK, ServerTypeOK, Message
<1>4. ASSUME NEW c \in Clients PROVE Viewed(c)'
  <2>1. /\ EventsRise(received'[c])
        /\ \A i \in DOMAIN received'[c] : received'[c][i] <= publishedEvents'
        /\ \A s \in Sockets' : owner'[s] = c /\ clientEnd'[s] # "closed" => Behind(received'[c], inbox'[s])
    BY <1>0, <1>3, HistoryKept
  <2>2. /\ ~isPaused'[c] \/ ~isLive'[c] => pauseBuffer'[c] = <<>>
        /\ isLive'[c] => shown'[c] \o pauseBuffer'[c] = received'[c]
    BY <1>0 DEF ClientsInv, Viewed
  <2> QED BY <2>1, <2>2 DEF Viewed
<1> QED BY <1>0, <1>1, <1>2, <1>4 DEF ClientsInv


\* Tearing down a feed, whether it has a socket or not.
LEMMA TornDown ==
    ASSUME ClientsInv, NEW c \in Clients, closeSocket(c),
           UNCHANGED <<owner, serverEnd, inbox, countvars, redisvars>>
    PROVE  /\ ServerInv' /\ Linked' /\ Sockets' = Sockets
           /\ ws' \in [Clients -> {0} \cup Sockets] /\ attached' \subseteq Sockets
           /\ ws'[c] = 0 /\ \A k \in Clients : k # c => ws'[k] = ws[k]
           /\ \A s \in Sockets : clientEnd'[s] # "closed" => clientEnd[s] # "closed"
<1>0. /\ ServerTypeOK /\ ServerInv /\ Linked /\ ws \in [Clients -> {0} \cup Sockets] /\ attached \subseteq Sockets
      /\ ws' = Set(ws, c, 0) /\ attached' = attached \ {ws[c]}
  BY DEF ClientsInv, FeedTypeOK, closeSocket
<1>1. CASE ws[c] # 0
  BY <1>0, <1>1, SocketGoes DEF closeSocket
<1>2. CASE ws[c] = 0
  <2>1. 0 \notin Sockets
    BY <1>0, SocketFacts
  <2>2. ws' = ws
    BY <1>0, <1>2 DEF Set
  <2>3. clientEnd' = clientEnd /\ attached' = attached /\ Sockets' = Sockets
    BY <1>0, <1>2, <2>1 DEF closeSocket, Sockets
  <2>4. ServerInv'
    <3>1. clientEnd' \in [Sockets -> Ends]
      BY <1>0, <2>3 DEF ServerTypeOK, Ends
    <3> QED BY <1>0, <3>1, ServerAside
  <2>5. Linked'
    BY <1>0, <2>2, <2>3 DEF Linked
  <2> QED BY <1>0, <1>2, <2>2, <2>3, <2>4, <2>5
<1> QED BY <1>1, <1>2

\* The types of the client variables, for the steps that change one client.
LEMMA FeedTypes ==
    ASSUME ClientsInv
    PROVE  /\ ServerTypeOK /\ ServerInv /\ Linked /\ Driven
           /\ isLive \in [Clients -> BOOLEAN] /\ isPaused \in [Clients -> BOOLEAN]
           /\ reconnectTimer \in [Clients -> BOOLEAN]
           /\ ws \in [Clients -> {0} \cup Sockets] /\ attached \subseteq Sockets
           /\ attempt \in [Clients -> 0 .. MaxAttempts]
           /\ pauseBuffer \in [Clients -> Seq(Message)]
           /\ shown \in [Clients -> Seq(Message)]
           /\ received \in [Clients -> Seq(Message)]
           /\ inbox \in [Sockets -> Seq(Message)] /\ publishedEvents \in Nat /\ MaxAttempts \in Nat
           /\ owner \in [Sockets -> Clients] /\ clientEnd \in [Sockets -> Ends]
<1>1. publishedEvents \in Nat /\ MaxAttempts \in Nat
  BY BroadcastAssumption, FeedAssumption
     DEF BroadcastAssumption, FeedAssumption, ClientsInv, FeedTypeOK, ServerTypeOK
<1>2. owner \in [Sockets -> Clients] /\ inbox \in [Sockets -> Seq(Message)] /\ clientEnd \in [Sockets -> Ends]
  BY SocketFacts DEF ClientsInv, FeedTypeOK, ServerTypeOK, Message, Ends
<1> QED BY <1>1, <1>2 DEF ClientsInv, FeedTypeOK, Message

\* A feed is torn down: turned off, or its component unmounted.
LEMMA FeedOff ==
    ASSUME ClientsInv, NEW c \in Clients, isLive' = Set(isLive, c, FALSE), closeSocket(c),
           attempt' = Set(attempt, c, 0), isPaused' = Set(isPaused, c, FALSE),
           UNCHANGED <<owner, serverEnd, inbox, countvars, redisvars, seenvars>>
    PROVE  ClientsInv'
<1>1. /\ ServerInv' /\ Linked' /\ Sockets' = Sockets
      /\ ws' \in [Clients -> {0} \cup Sockets] /\ attached' \subseteq Sockets
      /\ ws'[c] = 0 /\ \A k \in Clients : k # c => ws'[k] = ws[k]
      /\ \A s \in Sockets : clientEnd'[s] # "closed" => clientEnd[s] # "closed"
  BY TornDown
<1>2. UNCHANGED <<owner, inbox, publishedEvents, shown, received>>
  BY DEF redisvars, seenvars
<1>3. /\ isLive' \in [Clients -> BOOLEAN] /\ isLive'[c] = FALSE /\ \A k \in Clients : k # c => isLive'[k] = isLive[k]
  BY FeedTypes DEF Set
<1>4. /\ isPaused' \in [Clients -> BOOLEAN] /\ \A k \in Clients : k # c => isPaused'[k] = isPaused[k]
  BY FeedTypes DEF Set
<1>5. /\ reconnectTimer' \in [Clients -> BOOLEAN] /\ reconnectTimer'[c] = FALSE
      /\ \A k \in Clients : k # c => reconnectTimer'[k] = reconnectTimer[k]
  <2>1. reconnectTimer' = Set(reconnectTimer, c, FALSE)
    BY DEF closeSocket
  <2> QED BY <2>1, FeedTypes DEF Set
<1>6. /\ pauseBuffer' \in [Clients -> Seq(Message)] /\ pauseBuffer'[c] = <<>>
      /\ \A k \in Clients : k # c => pauseBuffer'[k] = pauseBuffer[k]
  <2>1. PICK e \in Seq(Message) : e = <<>>
    <3>1. <<>> \in Seq(Message)
      OBVIOUS
    <3> QED BY <3>1, Zenon
  <2>2. pauseBuffer' = Set(pauseBuffer, c, e)
    BY <2>1 DEF closeSocket
  <2> QED BY <2>1, <2>2, FeedTypes DEF Set
<1>7. attempt' \in [Clients -> 0 .. MaxAttempts]
  BY FeedTypes DEF Set
<1>8. FeedTypeOK'
  BY <1>1, <1>2, <1>3, <1>4, <1>5, <1>6, <1>7, FeedTypes DEF FeedTypeOK, ServerInv, Message
<1>9. Driven'
  BY <1>1, <1>3, <1>5, FeedTypes DEF Driven
<1>10. ASSUME NEW k \in Clients PROVE Viewed(k)'
  <2>1. inbox' \in [Sockets' -> Seq(Message)] /\ publishedEvents' \in Nat /\ publishedEvents <= publishedEvents'
    BY <1>1, <1>2, FeedTypes
  <2>2. /\ EventsRise(received'[k])
        /\ \A i \in DOMAIN received'[k] : received'[k][i] <= publishedEvents'
        /\ \A s \in Sockets' : owner'[s] = k /\ clientEnd'[s] # "closed" => Behind(received'[k], inbox'[s])
    BY <1>1, <1>2, <2>1, HistoryKept
  <2>3. /\ ~isPaused'[k] \/ ~isLive'[k] => pauseBuffer'[k] = <<>>
        /\ isLive'[k] => shown'[k] \o pauseBuffer'[k] = received'[k]
    <3>1. CASE k = c
      BY <1>3, <1>6, <3>1
    <3>2. CASE k # c
      BY <1>2, <1>3, <1>4, <1>6, <3>2 DEF ClientsInv, Viewed
    <3> QED BY <3>1, <3>2
  <2> QED BY <2>2, <2>3 DEF Viewed
<1> QED BY <1>1, <1>8, <1>9, <1>10 DEF ClientsInv

\* A feed is turned on.
LEMMA FeedOn ==
    ASSUME ClientsInv, NEW c \in Clients, ~isLive[c], ToggleLive(c)
    PROVE  ClientsInv'
<1>1. /\ Linked' /\ ws'[c] # 0 /\ \A k \in Clients : k # c => ws'[k] = ws[k]
      /\ ws' \in [Clients -> {0} \cup Sockets'] /\ attached' \subseteq Sockets'
      /\ Sockets \subseteq Sockets'
      /\ \A s \in Sockets : owner'[s] = owner[s] /\ clientEnd'[s] = clientEnd[s] /\ inbox'[s] = inbox[s]
      /\ \A s \in Sockets' : s \in Sockets \/ inbox'[s] = <<>>
      /\ ServerInv'
  <2>1. connect(c) /\ UNCHANGED <<countvars, redisvars>>
    BY DEF ToggleLive
  <2> QED BY <2>1, Connected
<1>2. UNCHANGED <<isPaused, reconnectTimer, attempt, pauseBuffer, publishedEvents>>
  BY DEF ToggleLive, redisvars
<1>3. /\ isLive' \in [Clients -> BOOLEAN] /\ isLive'[c] = TRUE /\ \A k \in Clients : k # c => isLive'[k] = isLive[k]
  <2>1. isLive' = Set(isLive, c, ~isLive[c]) /\ (~isLive[c]) = TRUE
    BY DEF ToggleLive
  <2> QED BY <2>1, FeedTypes DEF Set
<1>4. PICK e \in Seq(Message) : e = <<>>
  <2>1. <<>> \in Seq(Message)
    OBVIOUS
  <2> QED BY <2>1, Zenon
<1>5. /\ shown' \in [Clients -> Seq(Message)] /\ shown'[c] = e /\ \A k \in Clients : k # c => shown'[k] = shown[k]
  <2>1. shown' = Set(shown, c, e)
    BY <1>4 DEF ToggleLive
  <2> QED BY <2>1, FeedTypes DEF Set
<1>6. /\ received' \in [Clients -> Seq(Message)] /\ received'[c] = e
      /\ \A k \in Clients : k # c => received'[k] = received[k]
  <2>1. received' = Set(received, c, e)
    BY <1>4 DEF ToggleLive
  <2> QED BY <2>1, FeedTypes DEF Set
<1>7. FeedTypeOK'
  BY <1>1, <1>2, <1>3, <1>5, <1>6, FeedTypes DEF FeedTypeOK, ServerInv, Message
<1>8. Driven'
  BY <1>1, <1>2, <1>3, FeedTypes DEF Driven
<1>9. ASSUME NEW k \in Clients PROVE Viewed(k)'
  <2>1. CASE k = c
    <3>1. DOMAIN e = {} /\ e \o e = e
      BY <1>4, EmptySeq, ConcatEmptySeq
    <3>2. /\ EventsRise(received'[k])
          /\ \A i \in DOMAIN received'[k] : received'[k][i] <= publishedEvents'
          /\ \A s \in Sockets' : Behind(received'[k], inbox'[s])
      BY <1>6, <2>1, <3>1 DEF EventsRise, Behind
    <3>3. pauseBuffer'[k] = e
      BY <1>2, <1>4, <2>1 DEF ClientsInv, Viewed
    <3>4. shown'[k] \o pauseBuffer'[k] = received'[k]
      BY <1>5, <1>6, <2>1, <3>1, <3>3
    <3> QED BY <1>4, <3>2, <3>3, <3>4 DEF Viewed
  <2>2. CASE k # c
    <3>0. inbox' \in [Sockets' -> Seq(Message)]
      BY <1>7 DEF FeedTypeOK, ServerTypeOK, Message
    <3>1. publishedEvents' \in Nat /\ publishedEvents <= publishedEvents'
      BY <1>2, FeedTypes
    <3>2. /\ EventsRise(received'[k])
          /\ \A i \in DOMAIN received'[k] : received'[k][i] <= publishedEvents'
          /\ \A s \in Sockets' : owner'[s] = k /\ clientEnd'[s] # "closed" => Behind(received'[k], inbox'[s])
      BY <1>1, <1>6, <2>2, <3>0, <3>1, HistoryKept
    <3>3. /\ ~isPaused'[k] \/ ~isLive'[k] => pauseBuffer'[k] = <<>>
          /\ isLive'[k] => shown'[k] \o pauseBuffer'[k] = received'[k]
      BY <1>2, <1>3, <1>5, <1>6, <2>2 DEF ClientsInv, Viewed
    <3> QED BY <3>2, <3>3 DEF Viewed
  <2> QED BY <2>1, <2>2
<1> QED BY <1>1, <1>7, <1>8, <1>9 DEF ClientsInv

\* The view of every client, when only sockets are opened or closed.
LEMMA ViewsKept ==
    ASSUME ClientsInv, UNCHANGED <<isLive, isPaused, pauseBuffer, shown, received, publishedEvents>>,
           inbox' \in [Sockets' -> Seq(Message)],
           \A s \in Sockets' :
              \/ inbox'[s] = <<>>
              \/ s \in Sockets /\ owner'[s] = owner[s] /\ inbox'[s] = inbox[s]
                 /\ (clientEnd'[s] # "closed" => clientEnd[s] # "closed")
    PROVE  \A k \in Clients : Viewed(k)'
<1> SUFFICES ASSUME NEW k \in Clients PROVE Viewed(k)'
  OBVIOUS
<1>1. publishedEvents' \in Nat /\ publishedEvents <= publishedEvents'
  BY FeedTypes
<1>2. /\ EventsRise(received'[k])
      /\ \A i \in DOMAIN received'[k] : received'[k][i] <= publishedEvents'
      /\ \A s \in Sockets' : owner'[s] = k /\ clientEnd'[s] # "closed" => Behind(received'[k], inbox'[s])
  BY <1>1, HistoryKept
<1>3. /\ ~isPaused'[k] \/ ~isLive'[k] => pauseBuffer'[k] = <<>>
      /\ isLive'[k] => shown'[k] \o pauseBuffer'[k] = received'[k]
  BY DEF ClientsInv, Viewed
<1> QED BY <1>2, <1>3 DEF Viewed

\* The reconnect timer, which opens the next socket, keeps the invariant.
LEMMA TimerFires == ASSUME ClientsInv, NEW c \in Clients, Reconnect(c) PROVE ClientsInv'
<1>0. isLive[c]
  BY FeedTypes DEF Reconnect, Driven
<1>1. /\ Linked' /\ ws'[c] # 0 /\ \A k \in Clients : k # c => ws'[k] = ws[k]
      /\ ws' \in [Clients -> {0} \cup Sockets'] /\ attached' \subseteq Sockets'
      /\ Sockets \subseteq Sockets'
      /\ \A s \in Sockets : owner'[s] = owner[s] /\ clientEnd'[s] = clientEnd[s] /\ inbox'[s] = inbox[s]
      /\ \A s \in Sockets' : s \in Sockets \/ inbox'[s] = <<>>
      /\ ServerInv'
  <2>1. connect(c) /\ UNCHANGED <<countvars, redisvars>>
    BY <1>0 DEF Reconnect
  <2> QED BY <2>1, Connected
<1>2. UNCHANGED <<isLive, isPaused, attempt, pauseBuffer, shown, received, publishedEvents>>
  BY DEF Reconnect, redisvars, seenvars
<1>3. /\ reconnectTimer' \in [Clients -> BOOLEAN] /\ \A k \in Clients : k # c => reconnectTimer'[k] = reconnectTimer[k]
  BY FeedTypes DEF Reconnect, Set
<1>4. FeedTypeOK'
  BY <1>1, <1>2, <1>3, FeedTypes DEF FeedTypeOK, ServerInv, Message
<1>5. Driven'
  BY <1>0, <1>1, <1>2, <1>3, FeedTypes DEF Driven
<1>6. inbox' \in [Sockets' -> Seq(Message)]
  BY <1>4 DEF FeedTypeOK, ServerTypeOK, Message
<1>7. \A k \in Clients : Viewed(k)'
  BY <1>1, <1>2, <1>6, ViewsKept
<1> QED BY <1>1, <1>4, <1>5, <1>7 DEF ClientsInv

\* The open event keeps the invariant.
LEMMA SocketOpens == ASSUME ClientsInv, NEW s \in Sockets, OnOpen(s) PROVE ClientsInv'
<1>0. /\ UNCHANGED <<owner, serverEnd, inbox, isLive, isPaused, ws, attached, reconnectTimer, pauseBuffer,
                     shown, received, publishedEvents>>
      /\ UNCHANGED <<countvars, redisvars>>
      /\ Sockets' = Sockets /\ clientEnd[s] = "connecting" /\ clientEnd' = Set(clientEnd, s, "open")
  BY DEF OnOpen, redisvars, seenvars, Sockets
<1>1. /\ clientEnd' \in [Sockets -> Ends]
      /\ \A t \in Sockets : clientEnd'[t] = "closed" <=> clientEnd[t] = "closed"
  BY <1>0, FeedTypes DEF Set, Ends
<1>2. ServerInv'
  BY <1>0, <1>1, FeedTypes, ServerAside
<1>3. Linked'
  <2>1. \A k \in Clients : ws[k] # 0 => ws[k] \in Sockets
    BY FeedTypes
  <2> QED BY <1>0, <1>1, <2>1, FeedTypes DEF Linked
<1>4. attempt' \in [Clients -> 0 .. MaxAttempts]
  BY FeedTypes DEF OnOpen, Set
<1>5. FeedTypeOK'
  BY <1>0, <1>2, <1>4, FeedTypes DEF FeedTypeOK, ServerInv, Message
<1>6. Driven'
  BY <1>0, FeedTypes DEF Driven
<1>7. \A k \in Clients : Viewed(k)'
  BY <1>0, <1>1, FeedTypes, ViewsKept
<1> QED BY <1>2, <1>3, <1>5, <1>6, <1>7 DEF ClientsInv

\* The close event, which sets a timer for a feed that is on, keeps the invariant.
LEMMA SocketCloses == ASSUME ClientsInv, NEW s \in Sockets, OnClose(s) PROVE ClientsInv'
<1>0. /\ UNCHANGED <<owner, serverEnd, inbox, isLive, isPaused, pauseBuffer, shown, received, publishedEvents>>
      /\ UNCHANGED <<countvars, redisvars>>
      /\ Sockets' = Sockets
  BY DEF OnClose, redisvars, seenvars, Sockets
<1>1. PICK c \in Clients : c = owner[s]
  BY FeedTypes
<1>2. s \in attached /\ ws[c] = s /\ s # 0
  BY <1>1, FeedTypes, SocketFacts DEF OnClose, Linked
<1>3. isLive[c]
  BY <1>2, FeedTypes DEF Driven
<1>4. /\ clientEnd' = Set(clientEnd, ws[c], "closed") /\ attached' = attached \ {ws[c]} /\ ws' = Set(ws, c, 0)
      /\ reconnectTimer' = Set(reconnectTimer, c, TRUE)
      /\ attempt' = (IF attempt[c] < MaxAttempts THEN Set(attempt, c, attempt[c] + 1) ELSE attempt)
  BY <1>1, <1>2, <1>3 DEF OnClose
<1>5. /\ ServerInv' /\ Linked' /\ Sockets' = Sockets
      /\ ws' \in [Clients -> {0} \cup Sockets] /\ attached' \subseteq Sockets
      /\ ws'[c] = 0 /\ \A k \in Clients : k # c => ws'[k] = ws[k]
      /\ \A t \in Sockets : clientEnd'[t] # "closed" => clientEnd[t] # "closed"
  BY <1>0, <1>2, <1>4, SocketGoes
<1>6. /\ reconnectTimer' \in [Clients -> BOOLEAN] /\ reconnectTimer'[c] = TRUE
      /\ \A k \in Clients : k # c => reconnectTimer'[k] = reconnectTimer[k]
  BY <1>4, FeedTypes DEF Set
<1>7. attempt' \in [Clients -> 0 .. MaxAttempts]
  BY <1>4, FeedTypes DEF Set
<1>8. FeedTypeOK'
  BY <1>0, <1>5, <1>6, <1>7, FeedTypes DEF FeedTypeOK, ServerInv, Message
<1>9. Driven'
  BY <1>0, <1>3, <1>5, <1>6, FeedTypes DEF Driven
<1>10. \A k \in Clients : Viewed(k)'
  BY <1>0, <1>5, FeedTypes, ViewsKept
<1> QED BY <1>5, <1>8, <1>9, <1>10 DEF ClientsInv

\* Pausing and resuming, which shows what was buffered, keep the invariant.
LEMMA PauseToggled == ASSUME ClientsInv, NEW c \in Clients, TogglePause(c) PROVE ClientsInv'
<1>0. /\ UNCHANGED <<owner, clientEnd, serverEnd, inbox, isLive, ws, attached, reconnectTimer, attempt, received,
                     publishedEvents>>
      /\ UNCHANGED <<countvars, redisvars>>
      /\ Sockets' = Sockets /\ isPaused' = Set(isPaused, c, ~isPaused[c])
  BY DEF TogglePause, servervars, sockvars, redisvars, Sockets
<1>1. PICK b \in [Clients -> Seq(Message)], v \in [Clients -> Seq(Message)] : b = pauseBuffer /\ v = shown
  BY FeedTypes
<1>2. PICK e \in Seq(Message) : e = <<>>
  <2>1. <<>> \in Seq(Message)
    OBVIOUS
  <2> QED BY <2>1, Zenon
<1>3. /\ isPaused' \in [Clients -> BOOLEAN] /\ isPaused'[c] = ~isPaused[c]
      /\ \A k \in Clients : k # c => isPaused'[k] = isPaused[k]
  BY <1>0, FeedTypes DEF Set
<1>4. PICK joined \in Seq(Message) : joined = v[c] \o b[c]
  BY <1>1, ConcatProperties
<1>5. /\ shown' \in [Clients -> Seq(Message)] /\ pauseBuffer' \in [Clients -> Seq(Message)]
      /\ \A k \in Clients : k # c => shown'[k] = shown[k] /\ pauseBuffer'[k] = pauseBuffer[k]
      /\ isPaused[c] => shown'[c] = joined /\ pauseBuffer'[c] = e
      /\ ~isPaused[c] => shown'[c] = shown[c] /\ pauseBuffer'[c] = pauseBuffer[c]
  <2>1. CASE isPaused[c]
    <3>1. shown' = [v EXCEPT ![c] = joined] /\ pauseBuffer' = [b EXCEPT ![c] = e]
      BY <1>1, <1>2, <1>4, <2>1 DEF TogglePause, Set
    <3> QED BY <1>1, <2>1, <3>1
  <2>2. CASE ~isPaused[c]
    <3>1. UNCHANGED <<shown, pauseBuffer>>
      BY <2>2 DEF TogglePause
    <3> QED BY <2>2, <3>1, FeedTypes
  <2> QED BY <2>1, <2>2
<1>6. ServerInv'
  BY <1>0, FeedTypes, ServerAside
<1>7. FeedTypeOK'
  BY <1>0, <1>3, <1>5, <1>6, FeedTypes DEF FeedTypeOK, ServerInv, Message
<1>8. Linked' /\ Driven'
  BY <1>0, FeedTypes DEF Linked, Driven
<1>9. ASSUME NEW k \in Clients PROVE Viewed(k)'
  <2>1. inbox' \in [Sockets' -> Seq(Message)] /\ publishedEvents' \in Nat /\ publishedEvents <= publishedEvents'
    BY <1>0, FeedTypes
  <2>2. /\ EventsRise(received'[k])
        /\ \A i \in DOMAIN received'[k] : received'[k][i] <= publishedEvents'
        /\ \A s \in Sockets' : owner'[s] = k /\ clientEnd'[s] # "closed" => Behind(received'[k], inbox'[s])
    BY <1>0, <2>1, HistoryKept
  <2>3. Viewed(k)
    BY DEF ClientsInv
  <2>4. /\ ~isPaused'[k] \/ ~isLive'[k] => pauseBuffer'[k] = <<>>
        /\ isLive'[k] => shown'[k] \o pauseBuffer'[k] = received'[k]
    <3>1. CASE k # c
      BY <1>0, <1>3, <1>5, <2>3, <3>1 DEF Viewed
    <3>2. CASE k = c /\ ~isPaused[c]
      BY <1>0, <1>3, <1>5, <2>3, <3>2 DEF Viewed
    <3>3. CASE k = c /\ isPaused[c]
      <4>1. pauseBuffer'[c] = <<>> /\ shown'[c] = joined
        BY <1>2, <1>5, <3>3
      <4>2. joined \o <<>> = joined
        BY ConcatEmptySeq
      <4>3. isLive[c] => joined = received[c]
        BY <1>1, <1>4, <2>3, <3>3 DEF Viewed
      <4> QED BY <1>0, <3>3, <4>1, <4>2, <4>3
    <3> QED BY <3>1, <3>2, <3>3
  <2> QED BY <2>2, <2>4 DEF Viewed
<1> QED BY <1>6, <1>7, <1>8, <1>9 DEF ClientsInv

\* Appending to the second of two joined sequences appends to both.
LEMMA AppendJoined ==
    ASSUME NEW p \in Seq(Message), NEW q \in Seq(Message), NEW x \in Message
    PROVE  p \o Append(q, x) = Append(p \o q, x)
<1>1. /\ p \o q \in Seq(Message) /\ <<x>> \in Seq(Message)
  BY ConcatProperties
<1>2. Append(q, x) = q \o <<x>> /\ Append(p \o q, x) = (p \o q) \o <<x>>
  BY <1>1, AppendIsConcat
<1>3. (p \o q) \o <<x>> = p \o (q \o <<x>>)
  BY <1>1, ConcatAssociative
<1> QED BY <1>2, <1>3

\* A received event is newer than those before it.
LEMMA ReceivedRises ==
    ASSUME NEW q \in Seq(Message), NEW x \in Message, EventsRise(q),
           \A i \in DOMAIN q : x = Welcome \/ q[i] < x
    PROVE  EventsRise(Append(q, x))
<1>1. /\ Len(Append(q, x)) = Len(q) + 1 /\ Append(q, x)[Len(q) + 1] = x
      /\ \A i \in 1 .. Len(q) : Append(q, x)[i] = q[i]
  BY AppendProperties
<1>2. Len(q) \in Nat /\ DOMAIN q = 1 .. Len(q) /\ DOMAIN Append(q, x) = 1 .. Len(q) + 1
  BY <1>1, LenProperties, AppendProperties
<1>3. \A i \in 1 .. Len(q) + 1 : i \in 1 .. Len(q) \/ i = Len(q) + 1
  BY <1>2
<1>4. \A i, j \in 1 .. Len(q) + 1 : i < j => i \in 1 .. Len(q)
  BY <1>2
<1> QED BY <1>1, <1>2, <1>3, <1>4 DEF EventsRise

\* A message that is read, shown or buffered, keeps the invariant.
LEMMA MessageRead == ASSUME ClientsInv, NEW s \in Sockets, OnMessage(s) PROVE ClientsInv'
<1>0. /\ UNCHANGED <<owner, clientEnd, serverEnd, isLive, isPaused, ws, attached, reconnectTimer, attempt,
                     publishedEvents>>
      /\ UNCHANGED <<countvars, redisvars>>
      /\ Sockets' = Sockets /\ clientEnd[s] = "open" /\ inbox[s] # <<>> /\ inbox' = Set(inbox, s, Tail(inbox[s]))
  BY DEF OnMessage, redisvars, Sockets
<1>1. PICK c \in Clients : c = owner[s] /\ ws[c] = s
  BY <1>0, FeedTypes DEF Linked
<1>2. isLive[c] /\ \A t \in Sockets : owner[t] = c /\ clientEnd[t] # "closed" => t = s
  BY <1>1, FeedTypes, SocketFacts DEF Driven, Linked
<1>3. inbox[s] \in Seq(Message) /\ Rising(inbox[s]) /\ Viewed(c) /\ received[c] \in Seq(Message)
      /\ shown[c] \in Seq(Message) /\ pauseBuffer[c] \in Seq(Message)
  <2>1. inbox[s] \in Seq(Message) /\ received[c] \in Seq(Message)
        /\ shown[c] \in Seq(Message) /\ pauseBuffer[c] \in Seq(Message)
    BY FeedTypes
  <2>2. Rising(inbox[s])
    BY FeedTypes DEF ServerInv
  <2> QED BY <2>1, <2>2 DEF ClientsInv
<1>4. PICK x \in Message, rest \in Seq(Message) :
        /\ x = Head(inbox[s]) /\ rest = Tail(inbox[s])
        /\ \E j \in DOMAIN inbox[s] : x = inbox[s][j]
        /\ \A i \in DOMAIN rest : \E j \in DOMAIN inbox[s] : rest[i] = inbox[s][j]
        /\ \A i \in DOMAIN rest : x < rest[i]
  <2>1. /\ Tail(inbox[s]) \in Seq(Message) /\ Head(inbox[s]) \in Message
        /\ \E j \in DOMAIN inbox[s] : Head(inbox[s]) = inbox[s][j]
        /\ \A i \in DOMAIN Tail(inbox[s]) : \E j \in DOMAIN inbox[s] : Tail(inbox[s])[i] = inbox[s][j]
        /\ \A i \in DOMAIN Tail(inbox[s]) : Head(inbox[s]) < Tail(inbox[s])[i]
    BY <1>0, <1>3, TailMessage
  <2> QED BY <2>1, Zenon
<1>5. /\ inbox' \in [Sockets -> Seq(Message)] /\ inbox'[s] = rest
      /\ \A t \in Sockets : t # s => inbox'[t] = inbox[t]
  BY <1>0, <1>4, FeedTypes DEF Set
<1>6. PICK r \in Seq(Message) :
        /\ r = Append(received[c], x)
        /\ \A i \in DOMAIN r : r[i] = x \/ \E j \in DOMAIN received[c] : r[i] = received[c][j]
  <2>1. /\ Append(received[c], x) \in Seq(Message)
        /\ \A i \in DOMAIN Append(received[c], x) :
             Append(received[c], x)[i] = x \/ \E j \in DOMAIN received[c] : Append(received[c], x)[i] = received[c][j]
    BY <1>3, AppendMessage
  <2> QED BY <2>1, Zenon
<1>7. /\ received' \in [Clients -> Seq(Message)] /\ received'[c] = r
      /\ \A k \in Clients : k # c => received'[k] = received[k]
  <2>1. received' = [received EXCEPT ![c] = r]
    BY <1>1, <1>4, <1>6 DEF OnMessage
  <2> QED BY <2>1, FeedTypes
<1>8. PICK p \in Seq(Message), v \in Seq(Message) :
        /\ pauseBuffer' = [pauseBuffer EXCEPT ![c] = p] /\ shown' = [shown EXCEPT ![c] = v]
        /\ ~isPaused[c] => p = <<>>
        /\ v \o p = r
  <2>1. shown[c] \o pauseBuffer[c] = received[c] /\ (~isPaused[c] => pauseBuffer[c] = <<>>)
    BY <1>2, <1>3 DEF Viewed
  <2>2. CASE isPaused[c]
    <3>1. pauseBuffer' = [pauseBuffer EXCEPT ![c] = Append(pauseBuffer[c], x)] /\ shown' = shown
      BY <1>1, <1>4, <2>2 DEF OnMessage
    <3>2. shown = [shown EXCEPT ![c] = shown[c]]
      BY FeedTypes
    <3>3. Append(pauseBuffer[c], x) \in Seq(Message) /\ shown[c] \o Append(pauseBuffer[c], x) = r
      <4>1. Append(pauseBuffer[c], x) \in Seq(Message)
        BY <1>3, AppendProperties
      <4>2. shown[c] \o Append(pauseBuffer[c], x) = Append(shown[c] \o pauseBuffer[c], x)
        BY <1>3, AppendJoined, Zenon
      <4>3. shown[c] \o Append(pauseBuffer[c], x) = Append(received[c], x)
        BY <2>1, <4>2, Zenon
      <4> QED BY <1>6, <4>1, <4>3, Zenon
    <3>4. shown' = [shown EXCEPT ![c] = shown[c]]
      BY <3>1, <3>2
    <3> QED BY <1>3, <2>2, <3>1, <3>3, <3>4
  <2>3. CASE ~isPaused[c]
    <3>1. shown' = [shown EXCEPT ![c] = Append(shown[c], x)] /\ pauseBuffer' = pauseBuffer
      BY <1>1, <1>4, <2>3 DEF OnMessage
    <3>2. pauseBuffer = [pauseBuffer EXCEPT ![c] = pauseBuffer[c]]
      BY FeedTypes
    <3>3. shown[c] = received[c]
      BY <1>3, <2>1, <2>3, ConcatEmptySeq
    <3>4. Append(shown[c], x) \in Seq(Message) /\ Append(shown[c], x) \o pauseBuffer[c] = r
      BY <1>3, <1>6, <2>1, <2>3, <3>3, ConcatEmptySeq, AppendProperties
    <3>5. pauseBuffer' = [pauseBuffer EXCEPT ![c] = pauseBuffer[c]]
      BY <3>1, <3>2
    <3> QED BY <1>3, <2>1, <2>3, <3>1, <3>4, <3>5
  <2> QED BY <2>2, <2>3
<1>9. /\ pauseBuffer' \in [Clients -> Seq(Message)] /\ pauseBuffer'[c] = p
      /\ shown' \in [Clients -> Seq(Message)] /\ shown'[c] = v
      /\ \A k \in Clients : k # c => pauseBuffer'[k] = pauseBuffer[k] /\ shown'[k] = shown[k]
  BY <1>8, FeedTypes
<1>10. ServerInv'
  BY <1>0, FeedTypes, ServerRead
<1>11. FeedTypeOK'
  BY <1>0, <1>7, <1>9, <1>10, FeedTypes DEF FeedTypeOK, ServerInv, Message
<1>12. Linked' /\ Driven'
  BY <1>0, FeedTypes DEF Linked, Driven
<1>13. /\ x <= publishedEvents
       /\ \A i \in DOMAIN received[c] : x = Welcome \/ received[c][i] < x
       /\ \A i \in DOMAIN received[c], j \in DOMAIN rest : rest[j] = Welcome \/ received[c][i] < rest[j]
  <2>1. x <= publishedEvents
    BY <1>4, FeedTypes DEF ServerInv
  <2>2. Behind(received[c], inbox[s])
    BY <1>0, <1>1, <1>3 DEF Viewed
  <2> QED BY <1>4, <2>1, <2>2 DEF Behind
<1>14. Viewed(c)'
  <2>1. EventsRise(r)
    BY <1>3, <1>6, <1>13, ReceivedRises DEF Viewed
  <2>2. \A i \in DOMAIN r : r[i] <= publishedEvents
    BY <1>3, <1>6, <1>13 DEF Viewed
  <2>3. Behind(r, rest)
    BY <1>4, <1>6, <1>13 DEF Behind
  <2>4. \A t \in Sockets' : owner'[t] = c /\ clientEnd'[t] # "closed" => Behind(r, inbox'[t])
    BY <1>0, <1>2, <1>5, <2>3
  <2> QED BY <1>0, <1>2, <1>7, <1>8, <1>9, <2>1, <2>2, <2>4 DEF Viewed
<1>15. ASSUME NEW k \in Clients, k # c PROVE Viewed(k)'
  <2>1. publishedEvents' \in Nat /\ publishedEvents <= publishedEvents'
    BY <1>0, FeedTypes
  <2>2. \A t \in Sockets' : owner'[t] = k => t \in Sockets /\ owner[t] = k /\ inbox'[t] = inbox[t]
    BY <1>0, <1>1, <1>5, <1>15
  <2>3. /\ EventsRise(received'[k])
        /\ \A i \in DOMAIN received'[k] : received'[k][i] <= publishedEvents'
        /\ \A t \in Sockets' : owner'[t] = k /\ clientEnd'[t] # "closed" => Behind(received'[k], inbox'[t])
    BY <1>0, <1>5, <1>7, <1>15, <2>1, <2>2, HistoryKept
  <2> QED BY <1>0, <1>7, <1>9, <1>15, <2>3 DEF ClientsInv, Viewed
<1> QED BY <1>10, <1>11, <1>12, <1>14, <1>15 DEF ClientsInv

\* Every step of the feeds and the server keeps the invariant.
LEMMA FeedPreserved == ASSUME ClientsInv, [FeedNext]_livevars PROVE ClientsInv'
<1>1. CASE UNCHANGED livevars
  <2>1. /\ UNCHANGED <<owner, clientEnd, serverEnd, inbox, publishedEvents>> /\ UNCHANGED <<countvars, redisvars>>
        /\ UNCHANGED <<isLive, isPaused, ws, attached, reconnectTimer, attempt, pauseBuffer, shown, received>>
        /\ Sockets' = Sockets
    BY <1>1 DEF livevars, servervars, sockvars, redisvars, feedvars, seenvars, Sockets
  <2>2. ServerInv'
    BY <2>1, FeedTypes, ServerAside
  <2>3. FeedTypeOK' /\ Linked' /\ Driven' /\ \A c \in Clients : Viewed(c)'
    BY <2>1, <2>2 DEF ClientsInv, ServerInv, FeedTypeOK, Linked, Driven, Viewed
  <2> QED BY <2>2, <2>3 DEF ClientsInv
<1>2. ASSUME NEW c \in Clients, ToggleLive(c) PROVE ClientsInv'
  <2>1. CASE isLive[c]
    <3>1. /\ isLive' = Set(isLive, c, FALSE) /\ closeSocket(c) /\ attempt' = Set(attempt, c, 0)
          /\ isPaused' = Set(isPaused, c, FALSE)
          /\ UNCHANGED <<owner, serverEnd, inbox, countvars, redisvars, seenvars>>
      BY <1>2, <2>1 DEF ToggleLive
    <3> QED BY <3>1, FeedOff
  <2> QED BY <1>2, <2>1, FeedOn
<1>3. ASSUME NEW c \in Clients, Unmount(c) PROVE ClientsInv'
  BY <1>3, FeedOff DEF Unmount
<1> QED BY <1>1, <1>2, <1>3, ServerMoves, PauseToggled, TimerFires, SocketOpens, MessageRead, SocketCloses DEF FeedNext

\* Before a client turns its feed on there are no sockets.
LEMMA FeedInitial == FeedInit => ClientsInv
<1> SUFFICES ASSUME FeedInit PROVE ClientsInv
  OBVIOUS
<1>1. /\ owner \in Seq(Clients) /\ Len(owner) = 0 /\ Sockets = {} /\ connectedClients = 0
      /\ connectionsByIp = [ip \in Ips |-> 0]
  BY EmptySeq DEF FeedInit, ServerInit, Sockets
<1>2. Cardinality({}) = 0
  BY FS_EmptySet
<1>3. ServerTypeOK
  <2>1. clientEnd \in [Sockets -> {"connecting", "open", "closed"}]
    BY <1>1 DEF FeedInit, ServerInit
  <2>2. serverEnd \in [Sockets -> {"none", "open", "rejected", "closed"}]
    BY <1>1 DEF FeedInit, ServerInit
  <2>3. inbox \in [Sockets -> Seq({Welcome} \cup Event)]
    BY <1>1 DEF FeedInit, ServerInit
  <2>4. connectionsByIp \in [Ips -> 0 .. MAX_WS_CONNECTIONS_PER_IP]
    BY <1>1, BroadcastAssumption DEF BroadcastAssumption
  <2> QED BY <1>1, <2>1, <2>2, <2>3, <2>4, BroadcastAssumption DEF BroadcastAssumption, ServerTypeOK, FeedInit, ServerInit
<1>4. ServerInv
  <2>1. IpCountExact
    <3>1. \A ip \in Ips : {s \in Sockets : serverEnd[s] = "open" /\ Ip(s) = ip} = {}
      BY <1>1
    <3> QED BY <1>1, <1>2, <3>1 DEF IpCountExact
  <2>2. Handled = {}
    BY <1>1 DEF Handled
  <2> QED BY <1>1, <1>2, <1>3, <2>1, <2>2 DEF ServerInv
<1>5. <<>> \in Seq(Message) /\ <<>> \o <<>> = <<>> /\ DOMAIN <<>> = {}
  BY ConcatEmptySeq, EmptySeq
<1>6. FeedTypeOK
  <2>1. 0 \in 0 .. MaxAttempts
    BY FeedAssumption DEF FeedAssumption
  <2>2. /\ pauseBuffer \in [Clients -> Seq(Message)] /\ shown \in [Clients -> Seq(Message)]
        /\ received \in [Clients -> Seq(Message)]
    BY <1>5 DEF FeedInit
  <2> QED BY <1>3, <2>1, <2>2 DEF FeedInit, FeedTypeOK, Message
<1>7. Linked /\ Driven
  BY <1>1 DEF FeedInit, Linked, Driven
<1>8. ASSUME NEW c \in Clients PROVE Viewed(c)
  <2>1. received[c] = <<>> /\ shown[c] = <<>> /\ pauseBuffer[c] = <<>>
    BY DEF FeedInit
  <2> QED BY <1>1, <1>5, <2>1 DEF Viewed, EventsRise
<1> QED BY <1>4, <1>6, <1>7, <1>8 DEF ClientsInv

\* The invariant says what a client is shown.
LEMMA FeedAccounts == ClientsInv => RealtimeSafety
<1> SUFFICES ASSUME ClientsInv PROVE RealtimeSafety
  OBVIOUS
<1>1. IpCountExact
  BY DEF ClientsInv, ServerInv
<1>2. SentInOrder
  BY DEF ClientsInv, ServerInv, SentInOrder, Rising
<1>3. OneSocket /\ NeverStalls
  BY DEF ClientsInv, Linked, Driven, OneSocket, NeverStalls
<1>4. ShownOnceInOrder
  BY DEF ClientsInv, Viewed, EventsRise, ShownOnceInOrder
<1> QED BY <1>1, <1>2, <1>3, <1>4 DEF RealtimeSafety, FeedSafety, ClientsInv

\* The count of an address is that of its sockets, and a client is shown what its
\* sockets delivered, once and in order.
THEOREM RealtimeCorrect == FeedSpec => []RealtimeSafety
<1>1. ClientsInv /\ [FeedNext]_livevars => ClientsInv'
  BY FeedPreserved
<1> QED BY FeedInitial, <1>1, FeedAccounts, PTL DEF FeedSpec

-----------------------------------------------------------------------------
(* The rate limiters.                                                    *)

\* The entry of the sorted set, or of the map, that an admitted request made.
EntryOf(a) == [score |-> a.now, member |-> IF limiter = "auth" THEN a.now ELSE a.id]
StoreOf(a) == IF a.store = "redis" THEN zset ELSE memoryStore
NowOf(a) == IF a.store = "redis" THEN latestNow ELSE clock

\* The types the properties need, and where a request can be.
LimitTypes ==
    /\ WindowTypeOK /\ limiter \in {"auth", "ip", "api"}
    /\ IsFiniteSet(zset) /\ IsFiniteSet(memoryStore)
    /\ latestNow \in Nat /\ overtaken \in BOOLEAN
    /\ promise \in [from : Nat, retry : Nat]
    /\ \A r \in requests :
         /\ r.id <= sentRequests /\ r.now <= clock
         /\ r.at # "call" => limiter = "api" /\ r.now <= latestNow
    /\ \A a \in admitted : a.id <= sentRequests /\ (a.store = "memory" => limiter = "ip")

\* A request is under way once, and no longer when it has been admitted.
RequestedOnce ==
    /\ \A r, q \in requests : r.id = q.id => r = q
    /\ \A r \in requests, a \in admitted : r.id # a.id

\* Whatever was admitted, or was added and is about to be counted, is in its store as
\* long as the window of the latest request has not left it behind.
StoresRemember ==
    /\ \A a \in admitted :
         /\ a.now <= NowOf(a)
         /\ a.now + Window > NowOf(a) => EntryOf(a) \in StoreOf(a)
    /\ \A r \in requests :
         r.at = "count" /\ r.now + Window > latestNow => [score |-> r.now, member |-> r.id] \in zset

\* Once a request was rejected, what is left of the set it saw is short of the limit;
\* at the time of the rejection itself the set is full.
PromiseHolds ==
    /\ limiter = "auth" => Cardinality(zset) <= LimitPerWindow
    /\ promise.from <= latestNow
    /\ limiter = "auth" /\ promise # NoPromise /\ promise.from = latestNow =>
         /\ Cardinality(zset) = LimitPerWindow
         /\ \A x \in zset : x.score + Window > promise.from

\* The inductive invariant of the limiters, whose store remembers what was admitted.
LimitInv == LimitTypes /\ RequestedOnce /\ StoresRemember /\ PromiseHolds
              /\ WindowLimit /\ InstantLimit /\ RetryFindsRoom

-----------------------------------------------------------------------------

\* The oldest entry of a set that is not empty is one of it, and no other is older.
LEMMA OldestIsFirst ==
    ASSUME NEW S, S # {}, \A x \in S : x.score \in Nat
    PROVE  Oldest(S) \in S /\ \A y \in S : Oldest(S).score <= y.score
<1>1. PICK n \in {x.score : x \in S} : \A m \in {x.score : x \in S} : n <= m
  <2>1. {x.score : x \in S} \in SUBSET Nat /\ {x.score : x \in S} # {}
    OBVIOUS
  <2> QED BY <2>1, LeastOf
<1>2. PICK x \in S : n = x.score
  BY <1>1
<1>3. \A y \in S : x.score <= y.score
  BY <1>1, <1>2
<1>4. \E z \in S : \A y \in S : z.score <= y.score
  BY <1>3
<1> QED BY <1>4 DEF Oldest

\* Trimming keeps the entries of the window, and no others.
LEMMA TrimmedFacts ==
    ASSUME NEW S, IsFiniteSet(S), S \subseteq [score : 0 .. MaxClock, member : Nat], NEW now \in Nat
    PROVE  /\ Trimmed(S, now) \subseteq S /\ IsFiniteSet(Trimmed(S, now))
           /\ Cardinality(Trimmed(S, now)) \in Nat
           /\ Cardinality(Trimmed(S, now)) <= Cardinality(S)
           /\ Cardinality(S) \in Nat
           /\ \A x \in S : x \in Trimmed(S, now) <=> x.score + Window > now
<1>1. Trimmed(S, now) \in SUBSET S
  BY DEF Trimmed
<1>2. IsFiniteSet(Trimmed(S, now)) /\ Cardinality(Trimmed(S, now)) <= Cardinality(S)
  BY <1>1, FS_Subset
<1>3. Cardinality(Trimmed(S, now)) \in Nat /\ Cardinality(S) \in Nat
  BY <1>2, FS_CardinalityType
<1>4. \A x \in S : x \in Trimmed(S, now) <=> x.score + Window > now
  <2>1. MaxClock \in Nat /\ Window \in Nat
    BY SlidingWindowAssumption DEF SlidingWindowAssumption
  <2>2. \A x \in S : x.score \in Nat
    BY <2>1
  <2> QED BY <2>1, <2>2 DEF Trimmed
<1> QED BY <1>1, <1>2, <1>3, <1>4

\* As many requests as entries: those of one store in the window of a, when all of them
\* are in a set of entries.
LEMMA EntriesBound ==
    ASSUME NEW T, IsFiniteSet(T), NEW n \in Nat, Cardinality(T) <= n,
           NEW A, A \subseteq [id : 1 .. MaxRequests, now : 0 .. MaxClock, store : {"redis", "memory"}],
           NEW s, \A a \in A : a.store = s /\ [score |-> a.now, member |-> a.id] \in T
    PROVE  Cardinality(A) <= n
<1> DEFINE f == [a \in A |-> [score |-> a.now, member |-> a.id]]
<1>1. f \in [A -> T]
  OBVIOUS
<1>2. ASSUME NEW a \in A, NEW b \in A, f[a] = f[b] PROVE a = b
  <2>1. f[a] = [score |-> a.now, member |-> a.id] /\ f[b] = [score |-> b.now, member |-> b.id]
    OBVIOUS
  <2> HIDE DEF f
  <2>2. a.now = b.now /\ a.id = b.id /\ a.store = b.store
    <3>1. \A x, y, v, w : [score |-> x, member |-> v] = [score |-> y, member |-> w] => x = y /\ v = w
      OBVIOUS
    <3>2. [score |-> a.now, member |-> a.id] = [score |-> b.now, member |-> b.id]
      BY <1>2, <2>1, Zenon
    <3>3. a.now = b.now /\ a.id = b.id
      BY <3>1, <3>2, Zenon
    <3>4. a.store = b.store
      OBVIOUS
    <3> QED BY <3>3, <3>4
  <2>3. /\ a \in [id : 1 .. MaxRequests, now : 0 .. MaxClock, store : {"redis", "memory"}]
        /\ b \in [id : 1 .. MaxRequests, now : 0 .. MaxClock, store : {"redis", "memory"}]
    OBVIOUS
  <2> QED BY ONLY <2>2, <2>3
<1> HIDE DEF f
<1>3. f \in Injection(A, T)
  BY <1>1, <1>2 DEF Injection, IsInjective
<1>4. IsFiniteSet(A) /\ Cardinality(A) <= Cardinality(T)
  BY <1>3, FS_Injection
<1> QED BY <1>4, FS_CardinalityType

\* As many instants as entries of the auth limiter.
LEMMA InstantsBound ==
    ASSUME NEW T, IsFiniteSet(T), NEW n \in Nat, Cardinality(T) <= n,
           NEW B, \A t \in B : [score |-> t, member |-> t] \in T
    PROVE  Cardinality(B) <= n
<1> DEFINE f == [t \in B |-> [score |-> t, member |-> t]]
<1>1. f \in [B -> T]
  OBVIOUS
<1>2. ASSUME NEW t \in B, NEW u \in B, f[t] = f[u] PROVE t = u
  <2>1. f[t] = [score |-> t, member |-> t] /\ f[u] = [score |-> u, member |-> u]
    OBVIOUS
  <2> HIDE DEF f
  <2>2. \A x, y : [score |-> x, member |-> x] = [score |-> y, member |-> y] => x = y
    OBVIOUS
  <2> QED BY <1>2, <2>1, <2>2
<1> HIDE DEF f
<1>3. f \in Injection(B, T)
  BY <1>1, <1>2 DEF Injection, IsInjective
<1>4. IsFiniteSet(B) /\ Cardinality(B) <= Cardinality(T)
  BY <1>3, FS_Injection
<1> QED BY <1>4, FS_CardinalityType

\* One more is admitted, at the end of its window: the limit holds for it, for the others
\* of its instant, and for the rest as before.
LEMMA OneMoreAdmitted ==
    ASSUME LimitTypes, WindowLimit, InstantLimit,
           NEW c \in [id : 1 .. MaxRequests, now : 0 .. MaxClock, store : {"redis", "memory"}],
           admitted' = admitted \cup {c}, limiter' = limiter, overtaken => overtaken',
           c.store = "memory" => limiter = "ip",
           NEW T, IsFiniteSet(T), Cardinality(T) <= LimitPerWindow,
           (c.store = "redis" => ~overtaken') =>
               \A a \in admitted' : a.store = c.store =>
                   a.now <= c.now /\ (a.now + Window > c.now => EntryOf(a) \in T)
    PROVE  WindowLimit' /\ InstantLimit'
<1>0. /\ admitted' \subseteq [id : 1 .. MaxRequests, now : 0 .. MaxClock, store : {"redis", "memory"}]
      /\ LimitPerWindow \in Nat /\ Window \in Nat /\ MaxClock \in Nat
  BY SlidingWindowAssumption DEF SlidingWindowAssumption, LimitTypes, WindowTypeOK
<1>1. \A a \in admitted' : a.now \in Nat /\ a.store \in {"redis", "memory"}
  BY <1>0
<1>2. c.now \in Nat
  BY <1>0
<1>3. ASSUME NEW a \in admitted', ~(a.store = c.store /\ a.now >= c.now) PROVE InWindow(a)' = InWindow(a)
  <2>1. ~(c.store = a.store /\ c.now <= a.now)
    BY <1>1, <1>2, <1>3
  <2> QED BY <2>1 DEF InWindow
<1>4. ASSUME NEW a \in admitted', a.store = c.store, a.now >= c.now, c.store = "redis" => ~overtaken'
      PROVE  \A b \in InWindow(a)' : b \in admitted' /\ b.store = c.store /\ EntryOf(b) \in T
  <2>1. a.now = c.now
    BY <1>1, <1>2, <1>4
  <2>2. \A b \in InWindow(a)' : b \in admitted' /\ b.store = c.store /\ c.now - Window < b.now
    BY <1>4, <2>1 DEF InWindow
  <2>3. \A b \in InWindow(a)' : b.now + Window > c.now
    BY <1>0, <1>1, <1>2, <2>2
  <2> QED BY <1>4, <2>2, <2>3
<1>5. ASSUME limiter # "auth", NEW a \in admitted', a.store = "redis" => ~overtaken'
      PROVE  Cardinality(InWindow(a)') <= LimitPerWindow
  <2>1. CASE a.store = c.store /\ a.now >= c.now
    <3>1. c.store = "redis" => ~overtaken'
      BY <1>5, <2>1
    <3>2. \A b \in InWindow(a)' : b.store = c.store /\ [score |-> b.now, member |-> b.id] \in T
      BY <1>4, <1>5, <2>1, <3>1 DEF EntryOf
    <3>3. InWindow(a)' \subseteq [id : 1 .. MaxRequests, now : 0 .. MaxClock, store : {"redis", "memory"}]
      BY <1>0 DEF InWindow
    <3> QED BY <1>0, <3>2, <3>3, EntriesBound
  <2>2. CASE ~(a.store = c.store /\ a.now >= c.now)
    <3>1. InWindow(a)' = InWindow(a)
      BY <1>3, <2>2
    <3>2. a # c
      BY <1>2, <2>2
    <3>3. a \in admitted /\ (a.store = "redis" => ~overtaken)
      BY <1>5, <3>2
    <3> QED BY <1>5, <3>1, <3>3 DEF WindowLimit
  <2> QED BY <2>1, <2>2
<1>6. ASSUME limiter = "auth", ~overtaken', NEW a \in admitted'
      PROVE  Cardinality({b.now : b \in InWindow(a)'}) <= LimitPerWindow
  <2>0. c.store = "redis"
    BY <1>1, <1>6
  <2>1. CASE a.store = c.store /\ a.now >= c.now
    <3>1. \A t \in {b.now : b \in InWindow(a)'} : [score |-> t, member |-> t] \in T
      BY <1>4, <1>6, <2>1 DEF EntryOf
    <3> QED BY <1>0, <3>1, InstantsBound
  <2>2. CASE ~(a.store = c.store /\ a.now >= c.now)
    <3>1. InWindow(a)' = InWindow(a)
      BY <1>3, <2>2
    <3>2. a # c
      BY <1>2, <2>2
    <3>3. a \in admitted /\ ~overtaken
      BY <1>6, <3>2
    <3> QED BY <1>6, <3>1, <3>3 DEF InstantLimit
  <2> QED BY <2>1, <2>2
<1>7. WindowLimit'
  BY <1>5 DEF WindowLimit
<1>8. InstantLimit'
  BY <1>6 DEF InstantLimit
<1> QED BY <1>7, <1>8

-----------------------------------------------------------------------------
(* The steps.                                                            *)

\* What is known of the constants, and of a request under way.
LEMMA LimitFacts ==
    ASSUME LimitTypes
    PROVE  /\ LimitPerWindow \in Nat /\ LimitPerWindow >= 1 /\ Window \in Nat /\ Window >= 1
           /\ MaxClock \in Nat /\ MaxRequests \in Nat /\ clock \in Nat /\ clock <= MaxClock
           /\ sentRequests \in Nat /\ sentRequests <= MaxRequests
           /\ zset \subseteq [score : 0 .. MaxClock, member : Nat]
           /\ memoryStore \subseteq [score : 0 .. MaxClock, member : Nat]
           /\ Cardinality(zset) \in Nat
           /\ \A x \in zset \cup memoryStore : x.score \in Nat
           /\ \A r \in requests : /\ r.id \in 1 .. MaxRequests /\ r.now \in 0 .. MaxClock /\ r.now \in Nat
                                  /\ r.id \in Nat /\ r.at \in {"call", "add", "count"}
           /\ \A a \in admitted : /\ a.id \in Nat /\ a.now \in Nat /\ a.store \in {"redis", "memory"}
<1>1. /\ LimitPerWindow \in Nat /\ LimitPerWindow >= 1 /\ Window \in Nat /\ Window >= 1
      /\ MaxClock \in Nat /\ MaxRequests \in Nat
  BY SlidingWindowAssumption DEF SlidingWindowAssumption
<1>2. clock \in Nat /\ clock <= MaxClock /\ sentRequests \in Nat /\ sentRequests <= MaxRequests
  BY <1>1 DEF LimitTypes, WindowTypeOK
<1>3. /\ zset \subseteq [score : 0 .. MaxClock, member : Nat]
      /\ memoryStore \subseteq [score : 0 .. MaxClock, member : Nat]
  BY DEF LimitTypes, WindowTypeOK
<1>4. Cardinality(zset) \in Nat
  BY FS_CardinalityType DEF LimitTypes
<1>5. \A x \in zset \cup memoryStore : x.score \in Nat
  BY <1>1, <1>3
<1>6. \A r \in requests : /\ r.id \in 1 .. MaxRequests /\ r.now \in 0 .. MaxClock /\ r.now \in Nat
                          /\ r.id \in Nat /\ r.at \in {"call", "add", "count"}
  BY <1>1 DEF LimitTypes, WindowTypeOK
<1>7. \A a \in admitted : /\ a.id \in Nat /\ a.now \in Nat /\ a.store \in {"redis", "memory"}
  BY <1>1 DEF LimitTypes, WindowTypeOK
<1> QED BY <1>1, <1>2, <1>3, <1>4, <1>5, <1>6, <1>7

\* The limits and the promise only depend on the histories and on the sorted set of the
\* auth limiter.
LEMMA LimitsStay ==
    ASSUME WindowLimit, InstantLimit, UNCHANGED <<limiter, admitted>>, overtaken => overtaken'
    PROVE  WindowLimit' /\ InstantLimit'
<1>1. \A a : InWindow(a)' = InWindow(a)
  BY DEF InWindow
<1> QED BY <1>1 DEF WindowLimit, InstantLimit

\* Before any request the stores are empty.
LEMMA LimitInitial == WindowInit => LimitInv
<1> SUFFICES ASSUME WindowInit PROVE LimitInv
  OBVIOUS
<1>1. LimitTypes
  <2>1. clock \in Window .. MaxClock /\ sentRequests \in 0 .. MaxRequests
    BY SlidingWindowAssumption DEF SlidingWindowAssumption, WindowInit
  <2>2. WindowTypeOK
    BY <2>1 DEF WindowInit, WindowTypeOK
  <2>3. overtaken \in BOOLEAN
    BY DEF WindowInit
  <2>4. IsFiniteSet(zset) /\ IsFiniteSet(memoryStore)
    BY FS_EmptySet DEF WindowInit
  <2>5. promise \in [from : Nat, retry : Nat]
    BY DEF WindowInit, NoPromise
  <2> QED BY <2>2, <2>3, <2>4, <2>5 DEF WindowInit, LimitTypes
<1>2. RequestedOnce /\ StoresRemember
  BY DEF WindowInit, RequestedOnce, StoresRemember
<1>3. PromiseHolds
  BY SlidingWindowAssumption, FS_EmptySet DEF SlidingWindowAssumption, WindowInit, PromiseHolds, NoPromise
<1>4. WindowLimit /\ InstantLimit /\ RetryFindsRoom
  BY DEF WindowInit, WindowLimit, InstantLimit, RetryFindsRoom
<1> QED BY <1>1, <1>2, <1>3, <1>4 DEF LimitInv

\* Time passes, or a request is made.
LEMMA ClockStep == ASSUME LimitInv, ClockTick \/ Request \/ UNCHANGED windowvars PROVE LimitInv'
<1>0. LimitTypes /\ RequestedOnce /\ StoresRemember
  BY DEF LimitInv
<1>1. /\ UNCHANGED <<limiter, zset, memoryStore, admitted, promise, latestNow, overtaken>>
      /\ clock' \in {clock, clock + 1} /\ clock' \in Window .. MaxClock
      /\ sentRequests' \in 0 .. MaxRequests /\ sentRequests <= sentRequests'
      /\ \A r \in requests' : r \in requests \/ /\ r = [id |-> sentRequests + 1, now |-> clock, at |-> "call"]
                                                /\ sentRequests' = sentRequests + 1
  <2>1. clock \in Window .. MaxClock /\ sentRequests \in 0 .. MaxRequests
    BY <1>0 DEF LimitTypes, WindowTypeOK
  <2> QED BY <1>0, <2>1, LimitFacts DEF ClockTick, Request, windowvars
<1>2. \A r \in requests' : /\ r.id \in 1 .. MaxRequests /\ r.now \in 0 .. MaxClock /\ r.at \in {"call", "add", "count"}
                           /\ r \in [id : 1 .. MaxRequests, now : 0 .. MaxClock, at : {"call", "add", "count"}]
                           /\ r.id <= sentRequests' /\ r.now <= clock'
                           /\ r.at # "call" => limiter = "api" /\ r.now <= latestNow
  <2>1. /\ requests \subseteq [id : 1 .. MaxRequests, now : 0 .. MaxClock, at : {"call", "add", "count"}]
        /\ \A r \in requests : r.id <= sentRequests /\ r.now <= clock
                               /\ (r.at # "call" => limiter = "api" /\ r.now <= latestNow)
    BY <1>0 DEF LimitTypes, WindowTypeOK
  <2> QED BY <1>0, <1>1, <2>1, LimitFacts
<1>3. WindowTypeOK'
  <2>1. requests' \subseteq [id : 1 .. MaxRequests, now : 0 .. MaxClock, at : {"call", "add", "count"}]
    BY <1>2
  <2> QED BY <1>0, <1>1, <2>1 DEF LimitTypes, WindowTypeOK
<1>4. \A a \in admitted : a.id <= sentRequests'
  BY <1>0, <1>1, LimitFacts DEF LimitTypes
<1>5. LimitTypes'
  BY <1>0, <1>1, <1>2, <1>3, <1>4 DEF LimitTypes
<1>6. RequestedOnce'
  <2>1. \A r \in requests : r.id <= sentRequests
    BY <1>0 DEF LimitTypes
  <2>2. \A a \in admitted : a.id <= sentRequests
    BY <1>0 DEF LimitTypes
  <2> QED BY <1>0, <1>1, <2>1, <2>2, LimitFacts DEF RequestedOnce
<1>7. StoresRemember'
  <2>1. \A a \in admitted : a.now <= NowOf(a)' /\ (a.now + Window > NowOf(a)' => a.now + Window > NowOf(a))
    BY <1>0, <1>1, LimitFacts DEF NowOf, StoresRemember
  <2>2. \A a \in admitted : EntryOf(a)' = EntryOf(a) /\ StoreOf(a)' = StoreOf(a)
    BY <1>1 DEF EntryOf, StoreOf
  <2>3. \A r \in requests' : r.at = "count" => r \in requests
    BY <1>1
  <2> QED BY <1>0, <1>1, <2>1, <2>2, <2>3 DEF StoresRemember
<1>8. PromiseHolds' /\ RetryFindsRoom'
  BY <1>1 DEF LimitInv, PromiseHolds, RetryFindsRoom
<1>9. WindowLimit' /\ InstantLimit'
  BY <1>1, LimitsStay DEF LimitInv
<1> QED BY <1>5, <1>6, <1>7, <1>8, <1>9 DEF LimitInv

\* The script trims the set and adds the request if there is room.
LEMMA ScriptStep ==
    ASSUME LimitInv, NEW r \in requests, r.at = "call", limiter \in {"auth", "ip"},
           NEW m, m = (IF limiter = "auth" THEN r.now ELSE r.id),
           Script(r, m), UNCHANGED <<limiter, clock, memoryStore, sentRequests>>,
           promise' \in [from : Nat, retry : Nat]
    PROVE  /\ LimitTypes' /\ RequestedOnce' /\ StoresRemember' /\ WindowLimit' /\ InstantLimit'
           /\ latestNow' \in Nat /\ latestNow <= latestNow' /\ r.now <= latestNow'
           /\ ~overtaken' => ~overtaken /\ latestNow <= r.now /\ latestNow' = r.now
           /\ \/ /\ admitted' # admitted /\ Cardinality(Trimmed(zset, r.now)) < LimitPerWindow
                 /\ zset' = Trimmed(zset, r.now) \cup {[score |-> r.now, member |-> m]}
              \/ /\ admitted' = admitted /\ Cardinality(Trimmed(zset, r.now)) >= LimitPerWindow
                 /\ zset' = Trimmed(zset, r.now)
<1> DEFINE S == Trimmed(zset, r.now)
           x == [score |-> r.now, member |-> m]
           c == [id |-> r.id, now |-> r.now, store |-> "redis"]
<1>0. /\ LimitTypes /\ RequestedOnce /\ StoresRemember /\ WindowLimit /\ InstantLimit
      /\ latestNow \in Nat /\ overtaken \in BOOLEAN /\ IsFiniteSet(zset)
      /\ LimitPerWindow \in Nat /\ Window \in Nat /\ r.now \in Nat /\ r.id \in Nat
      /\ r.id \in 1 .. MaxRequests /\ r.now \in 0 .. MaxClock /\ m \in Nat
      /\ r.id <= sentRequests /\ r.now <= clock
  <2>1. LimitTypes
    BY DEF LimitInv
  <2>2. r.id <= sentRequests /\ r.now <= clock /\ r.now \in Nat /\ r.id \in Nat
    BY <2>1, LimitFacts DEF LimitTypes
  <2>3. m \in Nat
    BY <2>2
  <2> QED BY <2>1, <2>2, <2>3, LimitFacts DEF LimitInv, LimitTypes
<1>1. /\ S \subseteq zset /\ IsFiniteSet(S) /\ Cardinality(S) \in Nat
      /\ \A y \in zset : y \in S <=> y.score + Window > r.now
  BY <1>0, LimitFacts, TrimmedFacts
<1>2. /\ latestNow' \in Nat /\ latestNow <= latestNow' /\ r.now <= latestNow'
      /\ overtaken' \in BOOLEAN
      /\ ~overtaken' => ~overtaken /\ latestNow <= r.now /\ latestNow' = r.now
      /\ requests' = requests \ {r}
  <2>1. /\ latestNow' = (IF r.now > latestNow THEN r.now ELSE latestNow)
        /\ overtaken' = (overtaken \/ r.now < latestNow)
        /\ requests' = requests \ {r}
    BY DEF Script, Judged
  <2>2. /\ latestNow' \in Nat /\ latestNow <= latestNow' /\ r.now <= latestNow'
        /\ ~(r.now < latestNow) => latestNow <= r.now /\ latestNow' = r.now
    BY <1>0, <2>1
  <2>3. overtaken' \in BOOLEAN /\ (~overtaken' => ~overtaken /\ ~(r.now < latestNow))
    BY <2>1, Zenon
  <2> QED BY <2>1, <2>2, <2>3
<1>3. \/ /\ admitted' = admitted \cup {c} /\ Cardinality(S) < LimitPerWindow /\ zset' = S \cup {x}
      \/ /\ admitted' = admitted /\ Cardinality(S) >= LimitPerWindow /\ zset' = S
  BY <1>0, <1>1 DEF Script, Admit
<1>4. c \notin admitted
  BY <1>0 DEF RequestedOnce
<1>5. IsFiniteSet(zset')
  <2>1. IsFiniteSet(S \cup {x})
    BY <1>1, FS_AddElement
  <2> QED BY <1>1, <1>3, <2>1
<1> HIDE DEF S
<1>6. /\ S \subseteq [score : 0 .. MaxClock, member : Nat] /\ x \in [score : 0 .. MaxClock, member : Nat]
      /\ c \in [id : 1 .. MaxRequests, now : 0 .. MaxClock, store : {"redis", "memory"}]
  BY <1>0, <1>1, LimitFacts
<1>7. c.id = r.id /\ c.now = r.now /\ c.store = "redis" /\ x.score = r.now /\ EntryOf(c) = x
  BY DEF EntryOf
<1> HIDE DEF x, c
<1>8. WindowTypeOK'
  <2>1. zset' \subseteq [score : 0 .. MaxClock, member : Nat]
    BY <1>3, <1>6
  <2>2. admitted' \subseteq [id : 1 .. MaxRequests, now : 0 .. MaxClock, store : {"redis", "memory"}]
    BY <1>0, <1>3, <1>6 DEF LimitTypes, WindowTypeOK
  <2> QED BY <1>0, <1>2, <2>1, <2>2 DEF LimitTypes, WindowTypeOK
<1>9. LimitTypes'
  <2>1. \A a \in admitted' : a.id <= sentRequests /\ (a.store = "memory" => limiter = "ip")
    BY <1>0, <1>3, <1>7 DEF LimitTypes
  <2>2. \A q \in requests' : q \in requests /\ q.id <= sentRequests /\ q.now <= clock
                              /\ (q.at # "call" => limiter = "api" /\ q.now <= latestNow)
    BY <1>0, <1>2 DEF LimitTypes
  <2>3. \A q \in requests' : q.at # "call" => limiter = "api" /\ q.now <= latestNow'
    BY <2>2
  <2> QED BY <1>0, <1>2, <1>5, <1>8, <2>1, <2>2, <2>3 DEF LimitTypes
<1>10. RequestedOnce'
  BY <1>0, <1>2, <1>3, <1>7 DEF RequestedOnce
<1>11. ASSUME NEW a \in admitted', a.store = "redis"
       PROVE  /\ a.now <= latestNow' /\ EntryOf(a)' = EntryOf(a)
              /\ a.now + Window > r.now /\ a.now + Window > latestNow => EntryOf(a) \in zset'
  <2>1. EntryOf(a)' = EntryOf(a)
    BY DEF EntryOf
  <2>2. CASE a \in admitted
    <3>1. a.now \in Nat /\ a.now <= latestNow /\ (a.now + Window > latestNow => EntryOf(a) \in zset)
      BY <1>0, <1>11, <2>2, LimitFacts DEF StoresRemember, NowOf, StoreOf
    <3>2. EntryOf(a).score = a.now
      BY DEF EntryOf
    <3>3. a.now + Window > r.now /\ a.now + Window > latestNow => EntryOf(a) \in S
      BY <1>1, <3>1, <3>2
    <3> QED BY <1>0, <1>2, <1>3, <2>1, <3>1, <3>3
  <2>3. CASE a \notin admitted
    <3>1. a = c /\ x \in zset'
      BY <1>3, <2>3
    <3> QED BY <1>2, <1>7, <2>1, <3>1
  <2> QED BY <2>2, <2>3
<1>12. StoresRemember'
  <2>1. ASSUME NEW a \in admitted', a.store = "redis"
        PROVE  a.now <= latestNow' /\ (a.now + Window > latestNow' => EntryOf(a)' \in zset')
    <3>1. a.now \in Nat
      BY <1>8 , <2>1, SlidingWindowAssumption DEF WindowTypeOK, SlidingWindowAssumption
    <3>2. a.now + Window > latestNow' => a.now + Window > latestNow /\ a.now + Window > r.now
      BY <1>0, <1>2, <3>1
    <3> QED BY <1>11, <2>1, <3>2
  <2>2. ASSUME NEW a \in admitted', a.store # "redis"
        PROVE  a.now <= clock' /\ (a.now + Window > clock' => EntryOf(a)' \in memoryStore')
    <3>1. a \in admitted
      BY <1>3, <1>7, <2>2
    <3>2. a.now <= clock /\ (a.now + Window > clock => EntryOf(a) \in memoryStore)
      BY <1>0, <2>2, <3>1 DEF StoresRemember, NowOf, StoreOf
    <3> QED BY <3>2 DEF EntryOf
  <2>3. \A q \in requests' : q.at # "count"
    BY <1>0, <1>2 DEF LimitTypes
  <2> QED BY <2>1, <2>2, <2>3 DEF StoresRemember, NowOf, StoreOf
<1>13. WindowLimit' /\ InstantLimit'
  <2>1. CASE admitted' = admitted
    BY <1>0, <1>2, <2>1, LimitsStay
  <2>2. CASE admitted' # admitted
    <3>1. admitted' = admitted \cup {c} /\ Cardinality(S) < LimitPerWindow /\ zset' = S \cup {x}
      BY <1>3, <2>2
    <3>2. Cardinality(zset') <= LimitPerWindow
      <4>1. Cardinality(S \cup {x}) = (IF x \in S THEN Cardinality(S) ELSE Cardinality(S) + 1)
        BY <1>1, FS_AddElement
      <4> QED BY <1>0, <1>1, <3>1, <4>1
    <3>3. ASSUME ~overtaken', NEW a \in admitted', a.store = c.store
          PROVE  a.now <= c.now /\ (a.now + Window > c.now => EntryOf(a) \in zset')
      <4>1. a.now \in Nat
        BY <1>8, SlidingWindowAssumption DEF WindowTypeOK, SlidingWindowAssumption
      <4> QED BY <1>0, <1>2, <1>7, <1>11, <3>3, <4>1
    <3> QED BY <1>0, <1>2, <1>5, <1>6, <1>7, <3>1, <3>2, <3>3, OneMoreAdmitted
  <2> QED BY <2>1, <2>2
<1>14. \/ /\ admitted' # admitted /\ Cardinality(S) < LimitPerWindow /\ zset' = S \cup {x}
       \/ /\ admitted' = admitted /\ Cardinality(S) >= LimitPerWindow /\ zset' = S
  BY <1>3, <1>4
<1> QED BY <1>2, <1>9, <1>10, <1>12, <1>13, <1>14 DEF S, x

\* The auth limiter: a rejection promises room for the time its oldest entry is gone, and
\* nothing is let in at the time of the rejection itself.
LEMMA AuthStep == ASSUME LimitInv, NEW r \in requests, AuthCheck(r) PROVE LimitInv'
<1> DEFINE S == Trimmed(zset, r.now)
<1>0. /\ LimitTypes /\ PromiseHolds /\ RetryFindsRoom /\ limiter = "auth" /\ r.at = "call"
      /\ LimitPerWindow \in Nat /\ LimitPerWindow >= 1 /\ Window \in Nat /\ r.now \in Nat
      /\ IsFiniteSet(zset) /\ latestNow \in Nat /\ promise \in [from : Nat, retry : Nat]
  BY LimitFacts DEF LimitInv, LimitTypes, AuthCheck
<1>1. Script(r, r.now) /\ UNCHANGED <<limiter, clock, memoryStore, sentRequests>>
  BY DEF AuthCheck
<1>2. /\ S \subseteq zset /\ IsFiniteSet(S) /\ Cardinality(S) \in Nat /\ Cardinality(S) <= Cardinality(zset)
      /\ Cardinality(zset) \in Nat
      /\ \A y \in zset : y.score \in Nat /\ (y \in S <=> y.score + Window > r.now)
  BY <1>0, LimitFacts, TrimmedFacts
<1>3. promise' = IF admitted' # admitted \/ zset' = {} THEN promise
                 ELSE [from |-> r.now, retry |-> Oldest(zset').score + Window]
  BY DEF AuthCheck
<1>4. S # {} => Oldest(S) \in S /\ Oldest(S).score \in Nat
  BY <1>2, OldestIsFirst
<1>5. zset' # {} => Oldest(zset').score \in Nat
  <2>1. \A x \in zset' : x \in S \/ x = [score |-> r.now, member |-> r.now]
    BY <1>1 DEF Script
  <2>2. \A x \in zset' : x.score \in Nat
    BY <1>0, <1>2, <2>1
  <2> QED BY <2>2, OldestIsFirst
<1> HIDE DEF S
<1>6. promise' \in [from : Nat, retry : Nat]
  BY <1>0, <1>3, <1>5
<1>7. /\ LimitTypes' /\ RequestedOnce' /\ StoresRemember' /\ WindowLimit' /\ InstantLimit'
      /\ latestNow' \in Nat /\ latestNow <= latestNow' /\ r.now <= latestNow'
      /\ ~overtaken' => ~overtaken /\ latestNow <= r.now /\ latestNow' = r.now
      /\ \/ /\ admitted' # admitted /\ Cardinality(S) < LimitPerWindow
            /\ zset' = S \cup {[score |-> r.now, member |-> r.now]}
         \/ /\ admitted' = admitted /\ Cardinality(S) >= LimitPerWindow /\ zset' = S
  BY <1>0, <1>1, <1>6, ScriptStep DEF S
<1>8. CASE admitted' = admitted
  <2>1. zset' = S /\ Cardinality(S) = LimitPerWindow
    BY <1>0, <1>2, <1>7, <1>8 DEF PromiseHolds
  <2>2. S # {}
    BY <1>0, <2>1, FS_EmptySet
  <2>3. promise' = [from |-> r.now, retry |-> Oldest(S).score + Window]
    BY <1>3, <1>8, <2>1, <2>2
  <2>4. PromiseHolds'
    BY <1>0, <1>2, <1>7, <2>1, <2>3 DEF PromiseHolds
  <2>5. RetryFindsRoom'
    <3> DEFINE LeftBy == {x \in zset' : x.score <= promise'.from /\ x.score > promise'.retry - Window}
    <3>1. LeftBy \subseteq S \ {Oldest(S)}
      <4>1. promise'.retry - Window = Oldest(S).score
        BY <1>0, <1>4, <2>2, <2>3
      <4>2. ~(Oldest(S).score > Oldest(S).score)
        BY <1>4, <2>2
      <4> QED BY <2>1, <4>1, <4>2
    <3>2. IsFiniteSet(S \ {Oldest(S)}) /\ Cardinality(S \ {Oldest(S)}) = LimitPerWindow - 1
      BY <1>2, <1>4, <2>1, <2>2, FS_RemoveElement
    <3>3. Cardinality(LeftBy) <= LimitPerWindow - 1 /\ Cardinality(LeftBy) \in Nat
      BY <3>1, <3>2, FS_Subset, FS_CardinalityType
    <3>4. Cardinality(LeftBy) < LimitPerWindow
      BY <1>0, <3>3
    <3> QED BY <3>4 DEF RetryFindsRoom
  <2> QED BY <1>7, <2>4, <2>5 DEF LimitInv
<1>9. CASE admitted' # admitted
  <2>1. /\ Cardinality(S) < LimitPerWindow /\ promise' = promise
        /\ zset' = S \cup {[score |-> r.now, member |-> r.now]}
    BY <1>3, <1>7, <1>9
  <2>2. promise.from \in Nat /\ promise.from <= latestNow /\ promise.from <= latestNow'
    BY <1>0, <1>7 DEF PromiseHolds
  <2>3. ASSUME promise # NoPromise, promise.from = latestNow, r.now <= latestNow PROVE FALSE
    <3>1. Cardinality(zset) = LimitPerWindow /\ \A x \in zset : x.score + Window > promise.from
      BY <1>0, <2>3 DEF PromiseHolds
    <3>2. \A x \in zset : x \in S
      BY <1>0, <1>2, <2>3, <3>1
    <3>3. S = zset
      BY <1>2, <3>2
    <3> QED BY <1>0, <1>2, <2>1, <3>1, <3>3
  <2>4. Cardinality(zset') <= LimitPerWindow
    <3>1. Cardinality(zset') = IF [score |-> r.now, member |-> r.now] \in S THEN Cardinality(S) ELSE Cardinality(S) + 1
      BY <1>2, <2>1, FS_AddElement
    <3> QED BY <1>0, <1>2, <2>1, <3>1
  <2>5. PromiseHolds'
    <3>1. promise # NoPromise => promise.from # latestNow'
      BY <1>0, <1>7, <2>2, <2>3
    <3> QED BY <2>1, <2>2, <2>4, <3>1 DEF PromiseHolds
  <2>6. RetryFindsRoom'
    <3>1. ASSUME promise # NoPromise, ~overtaken'
          PROVE  Cardinality({x \in zset' : x.score <= promise.from /\ x.score > promise.retry - Window}) < LimitPerWindow
      <4> DEFINE Earlier == {x \in zset : x.score <= promise.from /\ x.score > promise.retry - Window}
                 After == {x \in zset' : x.score <= promise.from /\ x.score > promise.retry - Window}
      <4>1. r.now > promise.from
        BY <1>0, <1>7, <2>2, <2>3, <3>1
      <4>2. After \subseteq Earlier
        BY <1>0, <1>2, <2>1, <2>2, <4>1
      <4>3. Cardinality(Earlier) < LimitPerWindow
        BY <1>0, <1>7, <3>1 DEF RetryFindsRoom
      <4>4. IsFiniteSet(Earlier)
        BY <1>0, FS_Subset
      <4> HIDE DEF Earlier, After
      <4>5. Cardinality(After) <= Cardinality(Earlier) /\ Cardinality(After) \in Nat /\ Cardinality(Earlier) \in Nat
        BY <4>2, <4>4, FS_Subset, FS_CardinalityType
      <4>6. Cardinality(After) < LimitPerWindow
        BY <1>0, <4>3, <4>5
      <4> QED BY <4>6 DEF After
    <3> QED BY <2>1, <3>1 DEF RetryFindsRoom
  <2> QED BY <1>7, <2>5, <2>6 DEF LimitInv
<1> QED BY <1>8, <1>9

\* The limiter of registrations, while Redis answers.
LEMMA IpStep == ASSUME LimitInv, NEW r \in requests, IpCheck(r) PROVE LimitInv'
<1>0. LimitTypes /\ PromiseHolds /\ limiter = "ip" /\ r.at = "call" /\ latestNow \in Nat
      /\ promise \in [from : Nat, retry : Nat]
  BY DEF LimitInv, LimitTypes, IpCheck
<1>1. Script(r, r.id) /\ UNCHANGED <<limiter, clock, memoryStore, promise, sentRequests>>
  BY DEF IpCheck
<1>2. /\ LimitTypes' /\ RequestedOnce' /\ StoresRemember' /\ WindowLimit' /\ InstantLimit'
      /\ latestNow' \in Nat /\ latestNow <= latestNow'
  BY <1>0, <1>1, ScriptStep
<1>3. limiter' # "auth" /\ promise.from <= latestNow'
  BY <1>0, <1>1, <1>2 DEF PromiseHolds
<1>4. PromiseHolds' /\ RetryFindsRoom'
  BY <1>1, <1>3 DEF PromiseHolds, RetryFindsRoom
<1> QED BY <1>2, <1>4 DEF LimitInv

\* Without Redis it counts in memory, where the clock never runs backwards.
LEMMA MemoryStep == ASSUME LimitInv, NEW r \in requests, checkMemory(r) PROVE LimitInv'
<1> DEFINE S == Trimmed(memoryStore, clock)
           x == [score |-> clock, member |-> r.id]
           c == [r EXCEPT !.now = clock]
           d == [id |-> r.id, now |-> clock, store |-> "memory"]
<1>0. /\ LimitTypes /\ RequestedOnce /\ StoresRemember /\ WindowLimit /\ InstantLimit /\ PromiseHolds /\ RetryFindsRoom
      /\ limiter = "ip" /\ IsFiniteSet(memoryStore) /\ r.id <= sentRequests
      /\ LimitPerWindow \in Nat /\ Window \in Nat /\ MaxClock \in Nat /\ clock \in 0 .. MaxClock /\ clock \in Nat
      /\ r.id \in 1 .. MaxRequests /\ r.id \in Nat
      /\ memoryStore \subseteq [score : 0 .. MaxClock, member : Nat]
  <2>1. LimitTypes /\ limiter = "ip"
    BY DEF LimitInv, checkMemory
  <2> QED BY <2>1, LimitFacts DEF LimitInv, LimitTypes
<1>1. /\ S \subseteq memoryStore /\ IsFiniteSet(S) /\ Cardinality(S) \in Nat
      /\ \A y \in memoryStore : y \in S <=> y.score + Window > clock
  BY <1>0, TrimmedFacts
<1>2. /\ requests' = requests \ {r}
      /\ UNCHANGED <<limiter, clock, zset, promise, latestNow, overtaken, sentRequests>>
      /\ \/ /\ admitted' = admitted \cup {d} /\ Cardinality(S) < LimitPerWindow /\ memoryStore' = S \cup {x}
         \/ /\ admitted' = admitted /\ memoryStore' = memoryStore
  <2>1. c.id = r.id /\ c.now = clock
    BY <1>0 DEF LimitTypes, WindowTypeOK
  <2>2. Admit(c, "memory") => admitted' = admitted \cup {d}
    BY <2>1 DEF Admit
  <2> HIDE DEF c
  <2> QED BY <1>0, <1>1, <2>2 DEF checkMemory, c
<1> HIDE DEF S
<1>3. /\ S \subseteq [score : 0 .. MaxClock, member : Nat] /\ x \in [score : 0 .. MaxClock, member : Nat]
      /\ d \in [id : 1 .. MaxRequests, now : 0 .. MaxClock, store : {"redis", "memory"}]
      /\ d.id = r.id /\ d.now = clock /\ d.store = "memory" /\ x.score = clock /\ EntryOf(d) = x
  BY <1>0, <1>1 DEF EntryOf
<1> HIDE DEF x, d
<1>4. LimitTypes'
  <2>1. IsFiniteSet(memoryStore')
    <3>1. IsFiniteSet(S \cup {x})
      BY <1>1, FS_AddElement
    <3> QED BY <1>0, <1>2, <3>1
  <2>2. memoryStore' \subseteq [score : 0 .. MaxClock, member : Nat]
    BY <1>0, <1>2, <1>3
  <2>3. admitted' \subseteq [id : 1 .. MaxRequests, now : 0 .. MaxClock, store : {"redis", "memory"}]
    BY <1>0, <1>2, <1>3 DEF LimitTypes, WindowTypeOK
  <2>4. WindowTypeOK'
    BY <1>0, <1>2, <2>2, <2>3 DEF LimitTypes, WindowTypeOK
  <2>5. \A a \in admitted' : a.id <= sentRequests /\ (a.store = "memory" => limiter = "ip")
    BY <1>0, <1>2, <1>3 DEF LimitTypes
  <2> QED BY <1>0, <1>2, <2>1, <2>4, <2>5 DEF LimitTypes
<1>5. RequestedOnce'
  BY <1>0, <1>2, <1>3 DEF RequestedOnce
<1>6. ASSUME NEW a \in admitted', a.store = "memory"
      PROVE  a.now <= clock /\ EntryOf(a)' = EntryOf(a) /\ (a.now + Window > clock => EntryOf(a) \in memoryStore')
  <2>1. EntryOf(a)' = EntryOf(a)
    BY <1>2 DEF EntryOf
  <2>2. CASE a \in admitted
    <3>1. a.now <= clock /\ (a.now + Window > clock => EntryOf(a) \in memoryStore)
      BY <1>0, <1>6, <2>2 DEF StoresRemember, NowOf, StoreOf
    <3>2. EntryOf(a).score = a.now
      BY DEF EntryOf
    <3> QED BY <1>1, <1>2, <2>1, <3>1, <3>2
  <2>3. CASE a \notin admitted
    <3>1. a = d /\ x \in memoryStore'
      BY <1>2, <2>3
    <3> QED BY <1>0, <1>3, <2>1, <3>1
  <2> QED BY <2>2, <2>3
<1>7. StoresRemember'
  <2>1. ASSUME NEW a \in admitted', a.store # "memory"
        PROVE  a.now <= NowOf(a)' /\ (a.now + Window > NowOf(a)' => EntryOf(a)' \in StoreOf(a)')
    <3>1. a \in admitted /\ a.store = "redis"
      BY <1>0, <1>2, <1>3, <2>1, LimitFacts
    <3>2. EntryOf(a)' = EntryOf(a) /\ StoreOf(a)' = StoreOf(a) /\ NowOf(a)' = NowOf(a)
      BY <1>2, <3>1 DEF EntryOf, StoreOf, NowOf
    <3> QED BY <1>0, <3>1, <3>2 DEF StoresRemember
  <2>2. ASSUME NEW a \in admitted', a.store = "memory"
        PROVE  a.now <= NowOf(a)' /\ (a.now + Window > NowOf(a)' => EntryOf(a)' \in StoreOf(a)')
    BY <1>2, <1>6, <2>2 DEF StoreOf, NowOf
  <2>3. \A q \in requests' : q \in requests
    BY <1>2
  <2> QED BY <1>0, <1>2, <2>1, <2>2, <2>3 DEF StoresRemember
<1>8. WindowLimit' /\ InstantLimit'
  <2>1. CASE admitted' = admitted
    BY <1>0, <1>2, <2>1, LimitsStay
  <2>2. CASE admitted' # admitted
    <3>1. admitted' = admitted \cup {d} /\ Cardinality(S) < LimitPerWindow /\ memoryStore' = S \cup {x}
      BY <1>2, <2>2
    <3>2. Cardinality(memoryStore') <= LimitPerWindow
      <4>1. Cardinality(S \cup {x}) = (IF x \in S THEN Cardinality(S) ELSE Cardinality(S) + 1)
        BY <1>1, FS_AddElement
      <4> QED BY <1>0, <1>1, <3>1, <4>1
    <3>3. IsFiniteSet(memoryStore')
      BY <1>4 DEF LimitTypes
    <3>4. \A a \in admitted' : a.store = d.store => a.now <= d.now /\ (a.now + Window > d.now => EntryOf(a) \in memoryStore')
      BY <1>3, <1>6
    <3> QED BY <1>0, <1>2, <1>3, <3>1, <3>2, <3>3, <3>4, OneMoreAdmitted
  <2> QED BY <2>1, <2>2
<1>9. PromiseHolds' /\ RetryFindsRoom'
  BY <1>0, <1>2 DEF PromiseHolds, RetryFindsRoom
<1> QED BY <1>4, <1>5, <1>7, <1>8, <1>9 DEF LimitInv

\* The commands of the developer limiter: the request trims, adds itself, and counts.
LEMMA ApiTrimStep == ASSUME LimitInv, NEW r \in requests, ApiTrim(r) PROVE LimitInv'
<1> DEFINE q == [id |-> r.id, now |-> r.now, at |-> "add"]
<1>0. /\ LimitTypes /\ RequestedOnce /\ StoresRemember /\ WindowLimit /\ InstantLimit /\ PromiseHolds
      /\ limiter = "api" /\ IsFiniteSet(zset) /\ latestNow \in Nat /\ overtaken \in BOOLEAN
      /\ r.now \in Nat /\ r.now \in 0 .. MaxClock /\ r.id \in 1 .. MaxRequests /\ Window \in Nat
      /\ r.id <= sentRequests /\ r.now <= clock
  <2>1. LimitTypes /\ limiter = "api"
    BY DEF LimitInv, ApiTrim
  <2> QED BY <2>1, LimitFacts DEF LimitInv, LimitTypes
<1>1. /\ zset' \subseteq zset /\ IsFiniteSet(zset')
      /\ \A x \in zset : x \in zset' <=> x.score + Window > r.now
  <2>1. zset' = Trimmed(zset, r.now)
    BY DEF ApiTrim
  <2>2. zset \subseteq [score : 0 .. MaxClock, member : Nat]
    BY <1>0, LimitFacts
  <2> QED BY <1>0, <2>1, <2>2, TrimmedFacts
<1>2. /\ latestNow' \in Nat /\ latestNow <= latestNow' /\ r.now <= latestNow'
      /\ overtaken' \in BOOLEAN /\ (overtaken => overtaken')
      /\ UNCHANGED <<limiter, clock, memoryStore, admitted, promise, sentRequests>>
      /\ requests' = (requests \ {r}) \cup {q}
  <2>1. /\ latestNow' = (IF r.now > latestNow THEN r.now ELSE latestNow)
        /\ overtaken' = (overtaken \/ r.now < latestNow)
        /\ UNCHANGED <<limiter, clock, memoryStore, admitted, promise, sentRequests>>
    BY DEF ApiTrim, Judged
  <2>2. latestNow' \in Nat /\ latestNow <= latestNow' /\ r.now <= latestNow'
    BY <1>0, <2>1
  <2>3. overtaken' \in BOOLEAN /\ (overtaken => overtaken')
    BY <2>1, Zenon
  <2>4. requests' = (requests \ {r}) \cup {q}
    <3>1. [r EXCEPT !.at = "add"] = q
      BY <1>0 DEF LimitTypes, WindowTypeOK
    <3> QED BY <3>1 DEF ApiTrim
  <2> QED BY <2>1, <2>2, <2>3, <2>4
<1>3. q.id = r.id /\ q.now = r.now /\ q.at = "add"
      /\ q \in [id : 1 .. MaxRequests, now : 0 .. MaxClock, at : {"call", "add", "count"}]
  BY <1>0
<1> HIDE DEF q
<1>4. LimitTypes'
  <2>1. requests' \subseteq [id : 1 .. MaxRequests, now : 0 .. MaxClock, at : {"call", "add", "count"}]
    BY <1>0, <1>2, <1>3 DEF LimitTypes, WindowTypeOK
  <2>2. WindowTypeOK'
    BY <1>0, <1>1, <1>2, <2>1 DEF LimitTypes, WindowTypeOK
  <2>3. \A p \in requests' : p.id <= sentRequests /\ p.now <= clock /\ p.now \in Nat
                              /\ (p.at # "call" => p.now <= latestNow \/ p.now = r.now)
    BY <1>0, <1>2, <1>3, LimitFacts DEF LimitTypes
  <2>4. \A p \in requests' : p.at # "call" => p.now <= latestNow'
    BY <1>0, <1>2, <2>3
  <2> QED BY <1>0, <1>1, <1>2, <2>2, <2>3, <2>4 DEF LimitTypes
<1>5. RequestedOnce'
  BY <1>0, <1>2, <1>3 DEF RequestedOnce
<1>6. StoresRemember'
  <2>1. ASSUME NEW a \in admitted
        PROVE  a.now <= NowOf(a)' /\ (a.now + Window > NowOf(a)' => EntryOf(a)' \in StoreOf(a)')
    <3>1. a.now <= NowOf(a) /\ (a.now + Window > NowOf(a) => EntryOf(a) \in StoreOf(a))
      BY <1>0 DEF StoresRemember
    <3>2. EntryOf(a)' = EntryOf(a) /\ EntryOf(a).score = a.now /\ a.now \in Nat
      BY <1>0, <1>2, LimitFacts DEF EntryOf
    <3>3. CASE a.store = "redis"
      BY <1>0, <1>1, <1>2, <3>1, <3>2, <3>3 DEF NowOf, StoreOf
    <3>4. CASE a.store # "redis"
      BY <1>2, <3>1, <3>2, <3>4 DEF NowOf, StoreOf
    <3> QED BY <3>3, <3>4
  <2>2. ASSUME NEW p \in requests', p.at = "count", p.now + Window > latestNow'
        PROVE  [score |-> p.now, member |-> p.id] \in zset'
    <3>1. p \in requests /\ p.now \in Nat
      BY <1>0, <1>2, <1>3, <2>2, LimitFacts
    <3>2. p.now + Window > latestNow /\ p.now + Window > r.now
      BY <1>0, <1>2, <2>2, <3>1
    <3>3. [score |-> p.now, member |-> p.id] \in zset
      BY <1>0, <2>2, <3>1, <3>2 DEF StoresRemember
    <3> QED BY <1>1, <3>2, <3>3
  <2> QED BY <1>2, <2>1, <2>2 DEF StoresRemember
<1>7. WindowLimit' /\ InstantLimit'
  BY <1>0, <1>2, LimitsStay
<1>8. PromiseHolds' /\ RetryFindsRoom'
  <2>1. promise.from <= latestNow'
    BY <1>0, <1>2 DEF LimitTypes, PromiseHolds
  <2> QED BY <1>0, <1>2, <2>1 DEF PromiseHolds, RetryFindsRoom
<1> QED BY <1>4, <1>5, <1>6, <1>7, <1>8 DEF LimitInv

\* Adding the entry of a request of the api limiter keeps the invariant.
LEMMA ApiAddStep == ASSUME LimitInv, NEW r \in requests, ApiAdd(r) PROVE LimitInv'
<1> DEFINE q == [id |-> r.id, now |-> r.now, at |-> "count"]
           x == [score |-> r.now, member |-> r.id]
<1>0. /\ LimitTypes /\ RequestedOnce /\ StoresRemember /\ WindowLimit /\ InstantLimit /\ PromiseHolds
      /\ limiter = "api" /\ IsFiniteSet(zset) /\ r.now <= latestNow
      /\ r.now \in Nat /\ r.now \in 0 .. MaxClock /\ r.id \in 1 .. MaxRequests /\ r.id \in Nat
      /\ r.id <= sentRequests /\ r.now <= clock
  <2>1. LimitTypes /\ r.at = "add"
    BY DEF LimitInv, ApiAdd
  <2> QED BY <2>1, LimitFacts DEF LimitInv, LimitTypes
<1>1. /\ zset' = zset \cup {x} /\ requests' = (requests \ {r}) \cup {q}
      /\ UNCHANGED <<limiter, clock, memoryStore, admitted, promise, latestNow, overtaken, sentRequests>>
  <2>1. [r EXCEPT !.at = "count"] = q
    BY <1>0 DEF LimitTypes, WindowTypeOK
  <2> QED BY <2>1 DEF ApiAdd
<1>2. IsFiniteSet(zset') /\ x \in [score : 0 .. MaxClock, member : Nat]
  BY <1>0, <1>1, FS_AddElement
<1>3. q.id = r.id /\ q.now = r.now /\ q.at = "count"
      /\ q \in [id : 1 .. MaxRequests, now : 0 .. MaxClock, at : {"call", "add", "count"}]
  BY <1>0
<1>4. [score |-> q.now, member |-> q.id] = x
  OBVIOUS
<1> HIDE DEF q, x
<1>5. LimitTypes'
  <2>1. WindowTypeOK'
    BY <1>0, <1>1, <1>2, <1>3 DEF LimitTypes, WindowTypeOK
  <2>2. \A p \in requests' : p.id <= sentRequests /\ p.now <= clock /\ (p.at # "call" => p.now <= latestNow)
    BY <1>0, <1>1, <1>3 DEF LimitTypes
  <2> QED BY <1>0, <1>1, <1>2, <2>1, <2>2 DEF LimitTypes
<1>6. RequestedOnce'
  BY <1>0, <1>1, <1>3 DEF RequestedOnce
<1>7. StoresRemember'
  <2>1. \A a \in admitted : EntryOf(a)' = EntryOf(a) /\ NowOf(a)' = NowOf(a) /\ StoreOf(a) \subseteq StoreOf(a)'
    BY <1>1 DEF EntryOf, NowOf, StoreOf
  <2>2. \A p \in requests' : p \in requests \/ p = q
    BY <1>1
  <2> QED BY <1>0, <1>1, <1>4, <2>1, <2>2 DEF StoresRemember
<1>8. WindowLimit' /\ InstantLimit'
  BY <1>0, <1>1, LimitsStay
<1>9. PromiseHolds' /\ RetryFindsRoom'
  BY <1>0, <1>1 DEF PromiseHolds, RetryFindsRoom
<1> QED BY <1>5, <1>6, <1>7, <1>8, <1>9 DEF LimitInv

\* A request that counts sees itself and all that were admitted in its window before.
LEMMA ApiCountStep == ASSUME LimitInv, NEW r \in requests, ApiCount(r) PROVE LimitInv'
<1> DEFINE c == [id |-> r.id, now |-> r.now, store |-> "redis"]
<1>0. /\ LimitTypes /\ RequestedOnce /\ StoresRemember /\ WindowLimit /\ InstantLimit /\ PromiseHolds
      /\ limiter = "api" /\ IsFiniteSet(zset) /\ r.now <= latestNow /\ r.at = "count"
      /\ latestNow \in Nat /\ overtaken \in BOOLEAN /\ Window \in Nat
      /\ r.now \in Nat /\ r.now \in 0 .. MaxClock /\ r.id \in 1 .. MaxRequests /\ r.id \in Nat
      /\ r.id <= sentRequests
  <2>1. LimitTypes /\ r.at = "count"
    BY DEF LimitInv, ApiCount
  <2> QED BY <2>1, LimitFacts DEF LimitInv, LimitTypes
<1>1. /\ requests' = requests \ {r}
      /\ UNCHANGED <<limiter, clock, zset, memoryStore, promise, latestNow, sentRequests>>
      /\ \/ admitted' = admitted \cup {c} /\ Cardinality(zset) <= LimitPerWindow
         \/ admitted' = admitted
  BY DEF ApiCount, Admit
<1>2. overtaken' \in BOOLEAN /\ (~overtaken' => ~overtaken /\ latestNow = r.now)
  <2>1. overtaken' = (overtaken \/ r.now < latestNow)
    BY DEF ApiCount
  <2>2. overtaken' \in BOOLEAN /\ (~overtaken' => ~overtaken /\ ~(r.now < latestNow))
    BY <2>1, Zenon
  <2> QED BY <1>0, <2>2
<1>3. /\ c \in [id : 1 .. MaxRequests, now : 0 .. MaxClock, store : {"redis", "memory"}]
      /\ c.id = r.id /\ c.now = r.now /\ c.store = "redis" /\ EntryOf(c) = [score |-> r.now, member |-> r.id]
  BY <1>0 DEF EntryOf
<1> HIDE DEF c
<1>4. LimitTypes'
  <2>1. admitted' \subseteq [id : 1 .. MaxRequests, now : 0 .. MaxClock, store : {"redis", "memory"}]
    BY <1>0, <1>1, <1>3 DEF LimitTypes, WindowTypeOK
  <2>2. WindowTypeOK'
    BY <1>0, <1>1, <2>1 DEF LimitTypes, WindowTypeOK
  <2>3. \A a \in admitted' : a.id <= sentRequests /\ (a.store = "memory" => limiter = "ip")
    BY <1>0, <1>1, <1>3 DEF LimitTypes
  <2> QED BY <1>0, <1>1, <1>2, <2>2, <2>3 DEF LimitTypes
<1>5. RequestedOnce'
  BY <1>0, <1>1, <1>3 DEF RequestedOnce
<1>6. ASSUME NEW a \in admitted', a.store = "redis"
      PROVE  a.now <= latestNow /\ (a.now + Window > latestNow => EntryOf(a) \in zset)
  <2>1. CASE a \in admitted
    BY <1>0, <1>6, <2>1 DEF StoresRemember, NowOf, StoreOf
  <2>2. CASE a \notin admitted
    <3>1. a = c
      BY <1>1, <2>2
    <3> QED BY <1>0, <1>3, <3>1 DEF StoresRemember
  <2> QED BY <2>1, <2>2
<1>7. StoresRemember'
  <2>1. ASSUME NEW a \in admitted', a.store # "redis"
        PROVE  a.now <= NowOf(a)' /\ (a.now + Window > NowOf(a)' => EntryOf(a)' \in StoreOf(a)')
    <3>1. a \in admitted
      BY <1>1, <1>3, <2>1
    <3>2. EntryOf(a)' = EntryOf(a) /\ StoreOf(a)' = StoreOf(a) /\ NowOf(a)' = NowOf(a)
      BY <1>1, <2>1 DEF EntryOf, StoreOf, NowOf
    <3> QED BY <1>0, <3>1, <3>2 DEF StoresRemember
  <2>2. ASSUME NEW a \in admitted', a.store = "redis"
        PROVE  a.now <= NowOf(a)' /\ (a.now + Window > NowOf(a)' => EntryOf(a)' \in StoreOf(a)')
    BY <1>1, <1>6, <2>2 DEF StoreOf, NowOf, EntryOf
  <2> QED BY <1>0, <1>1, <2>1, <2>2 DEF StoresRemember
<1>8. WindowLimit' /\ InstantLimit'
  <2>1. CASE admitted' = admitted
    BY <1>0, <1>1, <1>2, <2>1, LimitsStay
  <2>2. CASE admitted' # admitted
    <3>1. admitted' = admitted \cup {c} /\ Cardinality(zset) <= LimitPerWindow
      BY <1>1, <2>2
    <3>2. ~overtaken' => \A a \in admitted' : a.store = c.store =>
                            a.now <= c.now /\ (a.now + Window > c.now => EntryOf(a) \in zset)
      BY <1>2, <1>3, <1>6
    <3> QED BY <1>0, <1>1, <1>2, <1>3, <3>1, <3>2, OneMoreAdmitted
  <2> QED BY <2>1, <2>2
<1>9. PromiseHolds' /\ RetryFindsRoom'
  BY <1>0, <1>1 DEF PromiseHolds, RetryFindsRoom
<1> QED BY <1>4, <1>5, <1>7, <1>8, <1>9 DEF LimitInv

\* No window holds more than the limit, of requests or, for the auth limiter, of instants,
\* unless a request was overtaken, and the time a rejected client is told finds room.
THEOREM LimitersCorrect == WindowSpec => []LimiterSafety
<1>1. LimitInv /\ [WindowNext]_windowvars => LimitInv'
  BY ClockStep, AuthStep, IpStep, MemoryStep, ApiTrimStep, ApiAddStep, ApiCountStep DEF WindowNext
<1>2. LimitInv => LimiterSafety
  BY DEF LimitInv, LimitTypes, LimiterSafety
<1> QED BY LimitInitial, <1>1, <1>2, PTL DEF WindowSpec

-----------------------------------------------------------------------------
(* The worker and its publisher.                                         *)

\* Flushes are told apart by the losses before them, and one that begins comes after a loss.
FlushesApart ==
    /\ \A f, g \in flushes : f.since = g.since => f = g
    /\ \A f \in flushes : f.since <= losses /\ (~isConnected => f.since < losses)

\* A message that was not rejected is in one place until it is confirmed or dropped; it is
\* in none if it could not be translated.
OnePlace(m) ==
    /\ confirmed[m] \in {0, 1}
    /\ m \in dropped \/ m \in untranslated => confirmed[m] = 0
    /\ IF m \in dropped \/ m \in untranslated \/ confirmed[m] = 1 THEN Places(m) = {}
       ELSE \E p : Places(m) = {p}

\* A message that was not handled yet is nowhere.
Nowhere(m) == confirmed[m] = 0 /\ Places(m) = {} /\ m \notin dropped \cup untranslated \cup rejected

\* Where m may be, for a message that waits, was rejected, or was not rejected.
Account(m) ==
    /\ m > handled => Nowhere(m)
    /\ m <= handled /\ m \notin rejected => OnePlace(m)
    /\ m \in rejected /\ m \notin dropped => confirmed[m] > 0 \/ Places(m) # {}

Accounted == \A m \in Messages : Account(m)

\* The inductive invariant of the publisher: every message handled so far has its account.
PubInv ==
    /\ PubTypeOK /\ FlushesApart /\ Accounted
    /\ QueueBound /\ CountedOnce
    /\ sending \cap (processed \cup errors) = {}

-----------------------------------------------------------------------------
\* The places of a message in a queue, the calls and the flushes.
PlacesIn(q, s, fs, m) ==
    {<<"queue", 0, i>> : i \in At(q, m)}
      \cup {<<"call", 0, 0>> : c \in s \cap {m}}
      \cup UNION {{<<"flush", f.since, i>> : i \in At(f.rest, m)} : f \in fs}

\* The places of a message before and after a step.
LEMMA PlacesAre ==
    \A m : /\ Places(m) = PlacesIn(publishQueue, sending, flushes, m)
           /\ Places(m)' = PlacesIn(publishQueue', sending', flushes', m)
BY DEF Places, PlacesIn

\* A place is in the queue, a call, or in a flush.
LEMMA PlaceFacts ==
    ASSUME NEW q, NEW s, NEW fs, NEW m, NEW p
    PROVE  p \in PlacesIn(q, s, fs, m) <=>
              \/ \E i \in At(q, m) : p = <<"queue", 0, i>>
              \/ m \in s /\ p = <<"call", 0, 0>>
              \/ \E f \in fs : \E i \in At(f.rest, m) : p = <<"flush", f.since, i>>
<1>1. p \in {<<"queue", 0, i>> : i \in At(q, m)} <=> \E i \in At(q, m) : p = <<"queue", 0, i>>
  OBVIOUS
<1>2. p \in {<<"call", 0, 0>> : c \in s \cap {m}} <=> m \in s /\ p = <<"call", 0, 0>>
  OBVIOUS
<1>3. p \in UNION {{<<"flush", f.since, i>> : i \in At(f.rest, m)} : f \in fs} <=>
        \E f \in fs : \E i \in At(f.rest, m) : p = <<"flush", f.since, i>>
  OBVIOUS
<1> QED BY <1>1, <1>2, <1>3 DEF PlacesIn

\* The places of a message that moves are as many as before: none, one, or some.
Carried(P, Q) == (P = {} <=> Q = {}) /\ ((\E p : P = {p}) => \E p : Q = {p})

\* The image of a set of places has as many of them, none, one, or some.
LEMMA CarriedBy ==
    ASSUME NEW P, NEW g PROVE Carried(P, {g[p] : p \in P})
<1>1. ASSUME NEW p, P = {p} PROVE {g[x] : x \in P} = {g[p]} BY <1>1
<1> QED BY <1>1 DEF Carried

\* A message whose places are carried and of which nothing else is recorded keeps its account.
LEMMA AccountKept ==
    ASSUME NEW m \in Messages, Account(m),
           confirmed'[m] = confirmed[m], m \in dropped' <=> m \in dropped,
           m \in untranslated' <=> m \in untranslated, m \in rejected' <=> m \in rejected,
           m > handled' <=> m > handled, m <= handled' <=> m <= handled,
           Carried(Places(m), Places(m)')
    PROVE  Account(m)'
<1> DEFINE P == Places(m)
           Q == Places(m)'
<1>1. Nowhere(m) => Nowhere(m)' BY DEF Nowhere, Carried
<1>2. OnePlace(m) => OnePlace(m)' BY DEF OnePlace, Carried
<1>3. P # {} => Q # {} BY DEF Carried
<1> QED BY <1>1, <1>2, <1>3 DEF Account

\* Where a message is in a queue with one more message.
LEMMA AppendAt ==
    ASSUME NEW q \in Seq(Messages), NEW e \in Messages, NEW m
    PROVE  /\ At(Append(q, e), m) = At(q, m) \cup (IF m = e THEN {Len(q) + 1} ELSE {})
           /\ Append(q, e) \in Seq(Messages) /\ Len(Append(q, e)) = Len(q) + 1
<1>1. /\ Append(q, e) \in Seq(Messages) /\ Len(Append(q, e)) = Len(q) + 1
      /\ DOMAIN Append(q, e) = 1 .. Len(q) + 1 /\ DOMAIN q = 1 .. Len(q) /\ Len(q) \in Nat
      /\ \A i \in 1 .. Len(q) : Append(q, e)[i] = q[i]
      /\ Append(q, e)[Len(q) + 1] = e
  OBVIOUS
<1>2. \A i : i \in 1 .. Len(q) + 1 <=> i \in 1 .. Len(q) \/ i = Len(q) + 1 BY <1>1
<1>3. ~(Len(q) + 1 \in 1 .. Len(q)) BY <1>1
<1> QED BY <1>1, <1>2, <1>3 DEF At

\* Where a message is in a flush that has gone on.
LEMMA TailAt ==
    ASSUME NEW q \in Seq(Messages), q # <<>>, NEW m
    PROVE  /\ Len(q) \in Nat /\ Len(q) > 0 /\ Head(q) \in Messages
           /\ 1 \in At(q, m) <=> m = Head(q)
           /\ Len(q) > 1 => Tail(q) \in Seq(Messages) \ {<<>>}
           /\ Len(q) > 1 => At(Tail(q), m) = {i - 1 : i \in At(q, m) \ {1}}
           /\ Len(q) <= 1 => At(q, m) \subseteq {1}
<1>1. /\ Len(q) \in Nat /\ Len(q) > 0 /\ Head(q) = q[1] /\ DOMAIN q = 1 .. Len(q)
      /\ \A i \in 1 .. Len(q) : q[i] \in Messages
  OBVIOUS
<1>2. 1 \in At(q, m) <=> m = Head(q) BY <1>1 DEF At
<1>3. Len(q) <= 1 => At(q, m) \subseteq {1} BY <1>1 DEF At
<1>4. ASSUME Len(q) > 1
      PROVE  Tail(q) \in Seq(Messages) \ {<<>>} /\ At(Tail(q), m) = {i - 1 : i \in At(q, m) \ {1}}
  <2>1. /\ Tail(q) \in Seq(Messages) /\ Len(Tail(q)) = Len(q) - 1
        /\ DOMAIN Tail(q) = 1 .. Len(q) - 1
        /\ \A i \in 1 .. Len(q) - 1 : Tail(q)[i] = q[i + 1]
    BY <1>1
  <2>2. Tail(q) # <<>>
    <3>1. Len(Tail(q)) # 0 BY <2>1, <1>4, <1>1
    <3>2. Len(<<>>) = 0 BY EmptySeq
    <3>3. SUFFICES ASSUME Tail(q) = <<>> PROVE FALSE OBVIOUS
    <3> QED BY ONLY <3>1, <3>2, <3>3
  <2>3. \A i : i \in At(Tail(q), m) => i + 1 \in At(q, m) \ {1} /\ i = (i + 1) - 1
    BY <2>1, <1>1 DEF At
  <2>4. \A i \in At(q, m) \ {1} : i - 1 \in At(Tail(q), m)
    <3> TAKE i \in At(q, m) \ {1}
    <3>1. i \in 1 .. Len(q) /\ i # 1 /\ q[i] = m BY <1>1 DEF At
    <3>2. i - 1 \in 1 .. Len(q) - 1 /\ (i - 1) + 1 = i BY <3>1, <1>1
    <3> QED BY <3>1, <3>2, <2>1 DEF At
  <2> QED BY <2>1, <2>2, <2>3, <2>4
<1> QED BY <1>1, <1>2, <1>3, <1>4

\* A message appended to the queue is in one more place, and the others stay.
LEMMA AppendPlaces ==
    ASSUME NEW q \in Seq(Messages), NEW e \in Messages, NEW s, NEW fs, NEW m
    PROVE  PlacesIn(Append(q, e), s, fs, m) =
             PlacesIn(q, s, fs, m) \cup (IF m = e THEN {<<"queue", 0, Len(q) + 1>>} ELSE {})
<1>1. At(Append(q, e), m) = At(q, m) \cup (IF m = e THEN {Len(q) + 1} ELSE {}) BY AppendAt
<1>2. ASSUME NEW p
      PROVE  (\E i \in At(Append(q, e), m) : p = <<"queue", 0, i>>) <=>
               (\E i \in At(q, m) : p = <<"queue", 0, i>>) \/ (m = e /\ p = <<"queue", 0, Len(q) + 1>>)
  BY <1>1
<1>3. ASSUME NEW p
      PROVE  p \in PlacesIn(Append(q, e), s, fs, m) <=>
               p \in PlacesIn(q, s, fs, m) \/ (m = e /\ p = <<"queue", 0, Len(q) + 1>>)
  <2>1. p \in PlacesIn(q, s, fs, m) <=>
              \/ \E i \in At(q, m) : p = <<"queue", 0, i>>
              \/ m \in s /\ p = <<"call", 0, 0>>
              \/ \E f \in fs : \E i \in At(f.rest, m) : p = <<"flush", f.since, i>>
    BY PlaceFacts
  <2>2. p \in PlacesIn(Append(q, e), s, fs, m) <=>
              \/ \E i \in At(Append(q, e), m) : p = <<"queue", 0, i>>
              \/ m \in s /\ p = <<"call", 0, 0>>
              \/ \E f \in fs : \E i \in At(f.rest, m) : p = <<"flush", f.since, i>>
    BY PlaceFacts
  <2> QED BY <2>1, <2>2, <1>2
<1> QED BY <1>3

\* Another message than the one appended stays where it is.
LEMMA AppendOther ==
    ASSUME NEW q \in Seq(Messages), NEW e \in Messages, NEW s, NEW fs, NEW m, m # e
    PROVE  PlacesIn(Append(q, e), s, fs, m) = PlacesIn(q, s, fs, m)
<1>1. At(Append(q, e), m) = At(q, m)
  <2>1. At(Append(q, e), m) = At(q, m) \cup (IF m = e THEN {Len(q) + 1} ELSE {}) BY AppendAt
  <2>2. \A i : i \in At(Append(q, e), m) <=> i \in At(q, m) BY <2>1
  <2> QED BY <2>2 DEF At
<1> QED BY <1>1 DEF PlacesIn

\* The message appended has the last place.
LEMMA AppendOwn ==
    ASSUME NEW q \in Seq(Messages), NEW e \in Messages, NEW s, NEW fs
    PROVE  <<"queue", 0, Len(q) + 1>> \in PlacesIn(Append(q, e), s, fs, e)
<1>1. Len(q) + 1 \in At(Append(q, e), e) BY AppendAt
<1> QED BY <1>1, PlaceFacts

\* Flushes are told apart by the losses before them.
Apart(fs) == \A g, h \in fs : g.since = h.since => g = h

\* The message a flush is at has the first place of the flush.
LEMMA FirstPlace ==
    ASSUME NEW q, NEW s, NEW fs, NEW f \in fs, NEW m, Apart(fs), f.rest \in Seq(Messages), f.rest # <<>>
    PROVE  <<"flush", f.since, 1>> \in PlacesIn(q, s, fs, m) <=> m = Head(f.rest)
<1> DEFINE first == <<"flush", f.since, 1>>
<1>0. \A x, y, z, u, v, w : <<x, y, z>> = <<u, v, w>> <=> x = u /\ y = v /\ z = w OBVIOUS
<1>1. 1 \in At(f.rest, m) <=> m = Head(f.rest) BY TailAt
<1>2. first \in PlacesIn(q, s, fs, m) <=>
         \/ \E i \in At(q, m) : first = <<"queue", 0, i>>
         \/ m \in s /\ first = <<"call", 0, 0>>
         \/ \E h \in fs : \E i \in At(h.rest, m) : first = <<"flush", h.since, i>>
  BY PlaceFacts
<1>4. first \in PlacesIn(q, s, fs, m) <=> m = Head(f.rest)
  <2>1. first \in PlacesIn(q, s, fs, m) <=> \E h \in fs : \E i \in At(h.rest, m) : first = <<"flush", h.since, i>>
    <3>1. \A x, y : first # <<"queue", x, y>> /\ first # <<"call", x, y>> BY <1>0
    <3> QED BY <1>2, <3>1
  <2>2. (\E h \in fs : \E i \in At(h.rest, m) : first = <<"flush", h.since, i>>) <=> 1 \in At(f.rest, m)
    BY <1>0 DEF Apart
  <2> QED BY <2>1, <2>2, <1>1
<1> QED BY <1>4

\* The first message of a flush leaves its place; the others keep theirs, or move up by one.
LEMMA AdvancePlaces ==
    ASSUME NEW q, NEW s, NEW fs, NEW f \in fs, NEW gs, NEW m, Apart(fs),
           f.rest \in Seq(Messages), f.rest # <<>>, gs = (fs \ {f}) \cup Rest(f)
    PROVE  \E g : PlacesIn(q, s, gs, m) =
                    {g[p] : p \in PlacesIn(q, s, fs, m) \ {<<"flush", f.since, 1>>}}
<1> DEFINE P == PlacesIn(q, s, fs, m)
           Q == PlacesIn(q, s, gs, m)
           first == <<"flush", f.since, 1>>
           g == [p \in P |-> IF p[1] = "flush" /\ p[2] = f.since THEN <<"flush", p[2], p[3] - 1>> ELSE p]
<1>0. \A x, y, z, u, v, w : <<x, y, z>> = <<u, v, w>> <=> x = u /\ y = v /\ z = w OBVIOUS
<1>1. /\ Len(f.rest) \in Nat /\ Len(f.rest) > 0
      /\ 1 \in At(f.rest, m) <=> m = Head(f.rest)
      /\ Len(f.rest) > 1 => At(Tail(f.rest), m) = {i - 1 : i \in At(f.rest, m) \ {1}}
      /\ Len(f.rest) <= 1 => At(f.rest, m) \subseteq {1}
  BY TailAt
<1>2. ASSUME NEW p
      PROVE  p \in P <=> \/ \E i \in At(q, m) : p = <<"queue", 0, i>>
                         \/ m \in s /\ p = <<"call", 0, 0>>
                         \/ \E h \in fs : \E i \in At(h.rest, m) : p = <<"flush", h.since, i>>
  BY PlaceFacts
<1>3. ASSUME NEW p
      PROVE  p \in Q <=> \/ \E i \in At(q, m) : p = <<"queue", 0, i>>
                         \/ m \in s /\ p = <<"call", 0, 0>>
                         \/ \E h \in gs :
                              \E i \in At(h.rest, m) : p = <<"flush", h.since, i>>
  BY PlaceFacts
<1>g. \A p \in P : g[p] = IF p[1] = "flush" /\ p[2] = f.since THEN <<"flush", p[2], p[3] - 1>> ELSE p
  OBVIOUS
<1>h. \A x, y, z : <<x, y, z>>[1] = x /\ <<x, y, z>>[2] = y /\ <<x, y, z>>[3] = z
  OBVIOUS
<1> HIDE DEF P, Q, g
<1>5. ASSUME NEW h \in fs \ {f}, NEW i, <<"flush", h.since, i>> \in P
      PROVE  g[<<"flush", h.since, i>>] = <<"flush", h.since, i>>
  <2>1. h.since # f.since BY DEF Apart
  <2> QED BY <1>5, <2>1, <1>g, <1>h
<1>6. \A p \in P \ {first} : g[p] \in Q
  <2> TAKE p \in P \ {first}
  <2>1. CASE \E i \in At(q, m) : p = <<"queue", 0, i>>
    <3>1. g[p] = p
      <4>1. p[1] = "queue" BY <2>1, <1>h
      <4>2. "queue" # "flush" OBVIOUS
      <4> QED BY <4>1, <4>2, <1>g
    <3> QED BY <3>1, <2>1, <1>3
  <2>2. CASE m \in s /\ p = <<"call", 0, 0>>
    <3>1. g[p] = p
      <4>1. p[1] = "call" BY <2>2, <1>h
      <4>2. "call" # "flush" OBVIOUS
      <4> QED BY <4>1, <4>2, <1>g
    <3> QED BY <3>1, <2>2, <1>3
  <2>3. CASE \E h \in fs : \E i \in At(h.rest, m) : p = <<"flush", h.since, i>>
    <3>1. PICK h \in fs : \E i \in At(h.rest, m) : p = <<"flush", h.since, i>> BY <2>3
    <3>2. PICK i \in At(h.rest, m) : p = <<"flush", h.since, i>> BY <3>1
    <3>3. CASE h # f
      <4>1. g[p] = p BY <1>5, <3>2, <3>3
      <4> QED BY <4>1, <3>2, <3>3, <1>3
    <3>4. CASE h = f
      <4>1. i # 1 BY <3>2, <3>4
      <4>2. Len(f.rest) > 1 BY <4>1, <3>2, <3>4, <1>1
      <4>3. i - 1 \in At(Tail(f.rest), m) BY <4>1, <4>2, <3>2, <3>4, <1>1
      <4>4. g[p] = <<"flush", f.since, i - 1>> BY <3>2, <3>4, <1>g, <1>h
      <4> DEFINE r == [since |-> f.since, rest |-> Tail(f.rest), sent |-> FALSE]
      <4>5. r \in Rest(f) /\ r.since = f.since /\ r.rest = Tail(f.rest) BY <4>2 DEF Rest
      <4> HIDE DEF r
      <4> QED BY <4>3, <4>4, <4>5, <1>3
    <3> QED BY <3>3, <3>4
  <2> QED BY <2>1, <2>2, <2>3, <1>2
<1>7. \A x \in Q : \E p \in P \ {first} : x = g[p]
  <2> TAKE x \in Q
  <2>1. CASE \E i \in At(q, m) : x = <<"queue", 0, i>>
    <3>1. x \in P BY <2>1, <1>2
    <3>2. g[x] = x /\ x # first
      <4>1. x[1] = "queue" BY <2>1, <1>h
      <4>2. "queue" # "flush" /\ first[1] = "flush" OBVIOUS
      <4> QED BY <4>1, <4>2, <3>1, <1>g
    <3> QED BY <3>1, <3>2
  <2>2. CASE m \in s /\ x = <<"call", 0, 0>>
    <3>1. x \in P BY <2>2, <1>2
    <3>2. g[x] = x /\ x # first
      <4>1. x[1] = "call" BY <2>2, <1>h
      <4>2. "call" # "flush" /\ first[1] = "flush" OBVIOUS
      <4> QED BY <4>1, <4>2, <3>1, <1>g
    <3> QED BY <3>1, <3>2
  <2>3. CASE \E h \in fs \ {f} : \E i \in At(h.rest, m) : x = <<"flush", h.since, i>>
    <3>1. PICK h \in fs \ {f} : \E i \in At(h.rest, m) : x = <<"flush", h.since, i>> BY <2>3
    <3>2. PICK i \in At(h.rest, m) : x = <<"flush", h.since, i>> BY <3>1
    <3>3. x \in P BY <3>2, <1>2
    <3>4. g[x] = x BY <3>2, <3>3, <1>5
    <3>5. x # first BY <3>2, <1>0 DEF Apart
    <3> QED BY <3>3, <3>4, <3>5
  <2>4. CASE \E h \in Rest(f) : \E i \in At(h.rest, m) : x = <<"flush", h.since, i>>
    <3>1. PICK h \in Rest(f) : \E i \in At(h.rest, m) : x = <<"flush", h.since, i>> BY <2>4
    <3>a. Len(f.rest) > 1 /\ h = [since |-> f.since, rest |-> Tail(f.rest), sent |-> FALSE]
      <4>1. Rest(f) # {} BY <3>1
      <4>2. Len(f.rest) > 1 BY <4>1 DEF Rest
      <4> QED BY <4>2, <3>1 DEF Rest
    <3>2. Len(f.rest) > 1 /\ h.since = f.since /\ h.rest = Tail(f.rest) BY <3>a
    <3>3. PICK j \in At(Tail(f.rest), m) : x = <<"flush", f.since, j>> BY <3>1, <3>2
    <3>4. PICK i \in At(f.rest, m) \ {1} : j = i - 1 BY <3>2, <3>3, <1>1
    <3> DEFINE p == <<"flush", f.since, i>>
    <3>5. p \in P BY <3>4, <1>2
    <3>6. p # first BY <3>4, <1>0
    <3>7. g[p] = x BY <3>3, <3>4, <3>5, <1>g, <1>h
    <3> QED BY <3>5, <3>6, <3>7
  <2> QED BY <2>1, <2>2, <2>3, <2>4, <1>3
<1>8. Q = {g[p] : p \in P \ {first}} BY <1>6, <1>7
<1> QED BY <1>8 DEF P, Q

-----------------------------------------------------------------------------
\* The types of the flushes.
FlushTypes(fs) ==
    \A f \in fs :
        f.since \in 0 .. MaxLosses /\ f.rest \in Seq(Messages) \ {<<>>} /\ f.sent \in BOOLEAN

\* The type invariant, one fact at a time.
LEMMA PubTypes ==
    ASSUME PubTypeOK
    PROVE  /\ worker \in {"connecting", "running", "stopping", "exited"} /\ isConnected \in BOOLEAN
           /\ reconnectAttempts \in 0 .. maxReconnectAttempts + 1
           /\ publishQueue \in Seq(Messages) /\ Len(publishQueue) \in Nat /\ FlushTypes(flushes)
           /\ handled \in Nat /\ handled <= MaxMessages
           /\ sending \subseteq Messages /\ processed \subseteq Messages /\ errors \subseteq Messages
           /\ dropped \subseteq Messages /\ rejected \subseteq Messages /\ untranslated \subseteq Messages
           /\ confirmed \in [Messages -> Nat] /\ resent \in [Messages -> Nat]
           /\ losses \in Nat /\ losses <= MaxLosses /\ overrun \in Nat /\ overrun <= losses
<1>1. publishQueue \in Seq(Messages) BY DEF PubTypeOK
<1>2. Len(publishQueue) \in Nat BY <1>1
<1> QED BY <1>1, <1>2, PublisherAssumption DEF PubTypeOK, FlushTypes

\* An event or an attempt of the connection, and the life of the worker, touch no message.
LEMMA LinkStep ==
    ASSUME PubInv, ConnectFails \/ Loss \/ Reconnecting \/ Stop \/ Exit \/ UNCHANGED pubvars
    PROVE  PubInv'
<1> USE PublisherAssumption
<1>0. PubTypeOK /\ FlushesApart /\ Accounted /\ QueueBound /\ CountedOnce
      /\ sending \cap (processed \cup errors) = {}
  BY DEF PubInv
<1>1. UNCHANGED <<publishQueue, flushes, sending, handled, processed, errors, untranslated, confirmed,
                  dropped, rejected, overrun>>
  BY DEF ConnectFails, Loss, Reconnecting, Stop, Exit, pubvars, queues, tally
<1>2. /\ worker' \in {"connecting", "running", "stopping", "exited"}
      /\ \/ isConnected' = isConnected /\ losses' = losses
         \/ isConnected' = FALSE /\ losses' = losses + 1 /\ losses < MaxLosses
  BY <1>0, PubTypes DEF ConnectFails, Loss, Reconnecting, Stop, Exit, pubvars, link
<1>3. reconnectAttempts' \in 0 .. maxReconnectAttempts + 1
  BY <1>0, PubTypes DEF ConnectFails, Loss, Reconnecting, Stop, Exit, pubvars, link
<1>4. losses' \in 0 .. MaxLosses /\ losses' >= losses /\ overrun \in 0 .. losses' BY <1>0, <1>2, PubTypes
<1>5. isConnected' \in BOOLEAN BY <1>0, <1>2, PubTypes
<1>r. resent' \in [Messages -> Nat]
  <2>1. resent \in [Messages -> Nat] BY <1>0, PubTypes
  <2>2. CASE Loss
    <3>1. PICK S \in SUBSET Unanswered : resent' = [m \in Messages |-> resent[m] + IF m \in S THEN 1 ELSE 0]
      BY <2>2 DEF Loss
    <3>2. \A m \in Messages : resent[m] + (IF m \in S THEN 1 ELSE 0) \in Nat BY <2>1
    <3> QED BY <3>1, <3>2
  <2>3. CASE UNCHANGED resent BY <2>1, <2>3
  <2> QED BY <2>2, <2>3 DEF ConnectFails, Reconnecting, Stop, Exit, pubvars, tally
<1>6. PubTypeOK' BY <1>0, <1>1, <1>2, <1>3, <1>4, <1>5, <1>r DEF PubTypeOK, Messages
<1>7. FlushesApart'
  <2>1. \A f \in flushes : f.since <= losses' /\ (~isConnected' => f.since < losses')
    <3> TAKE f \in flushes
    <3>1. f.since \in Nat /\ f.since <= losses /\ (~isConnected => f.since < losses)
      BY <1>0, PubTypes DEF FlushTypes, FlushesApart
    <3>2. CASE isConnected' = isConnected /\ losses' = losses BY <3>1, <3>2
    <3>3. CASE isConnected' = FALSE /\ losses' = losses + 1 BY <3>1, <3>3, <1>0, PubTypes
    <3> QED BY <3>2, <3>3, <1>2
  <2> QED BY <2>1, <1>0, <1>1 DEF FlushesApart
<1>8. Accounted'
  <2>1. \A m : Places(m)' = Places(m) BY <1>1 DEF Places
  <2> QED BY <2>1, <1>0, <1>1 DEF Accounted, Account, Nowhere, OnePlace, Messages
<1>9. QueueBound' /\ CountedOnce' /\ (sending \cap (processed \cup errors) = {})'
  BY <1>0, <1>1 DEF QueueBound, CountedOnce
<1> QED BY <1>6, <1>7, <1>8, <1>9 DEF PubInv

\* Becoming ready moves the whole queue to a new flush.
LEMMA ReadyPlaces ==
    ASSUME NEW q, NEW s, NEW fs, NEW n, NEW r, r.since = n, r.rest = q, NEW m
    PROVE  Carried(PlacesIn(q, s, fs, m), PlacesIn(<<>>, s, fs \cup {r}, m))
<1> DEFINE P == PlacesIn(q, s, fs, m)
           Q == PlacesIn(<<>>, s, fs \cup {r}, m)
           g == [p \in P |-> IF p[1] = "queue" THEN <<"flush", n, p[3]>> ELSE p]
<1>1. ASSUME NEW p
      PROVE  p \in P <=> \/ \E i \in At(q, m) : p = <<"queue", 0, i>>
                         \/ m \in s /\ p = <<"call", 0, 0>>
                         \/ \E h \in fs : \E i \in At(h.rest, m) : p = <<"flush", h.since, i>>
  BY PlaceFacts
<1>2. ASSUME NEW p
      PROVE  p \in Q <=> \/ \E i \in At(<<>>, m) : p = <<"queue", 0, i>>
                         \/ m \in s /\ p = <<"call", 0, 0>>
                         \/ \E h \in fs \cup {r} : \E i \in At(h.rest, m) : p = <<"flush", h.since, i>>
  BY PlaceFacts
<1>3. \A p \in P : g[p] = IF p[1] = "queue" THEN <<"flush", n, p[3]>> ELSE p
  OBVIOUS
<1>4. \A x, y, z : <<x, y, z>>[1] = x /\ <<x, y, z>>[2] = y /\ <<x, y, z>>[3] = z
  OBVIOUS
<1>5. At(<<>>, m) = {} BY DEF At
<1>6. "queue" # "call" /\ "queue" # "flush" OBVIOUS
<1> HIDE DEF P, Q, g
<1>7. \A p \in P : g[p] \in Q
  <2> TAKE p \in P
  <2>1. CASE \E i \in At(q, m) : p = <<"queue", 0, i>>
    <3>1. PICK i \in At(q, m) : p = <<"queue", 0, i>> BY <2>1
    <3>2. g[p] = <<"flush", r.since, i>> BY <3>1, <1>3, <1>4
    <3> QED BY <3>2, <1>2
  <2>2. CASE m \in s /\ p = <<"call", 0, 0>>
    <3>1. g[p] = p BY <2>2, <1>3, <1>4, <1>6
    <3> QED BY <3>1, <2>2, <1>2
  <2>3. CASE \E h \in fs : \E i \in At(h.rest, m) : p = <<"flush", h.since, i>>
    <3>1. g[p] = p BY <2>3, <1>3, <1>4, <1>6
    <3> QED BY <3>1, <2>3, <1>2
  <2> QED BY <2>1, <2>2, <2>3, <1>1
<1>8. \A x \in Q : \E p \in P : x = g[p]
  <2> TAKE x \in Q
  <2>1. CASE m \in s /\ x = <<"call", 0, 0>>
    <3>1. x \in P BY <2>1, <1>1
    <3> QED BY <3>1, <2>1, <1>3, <1>4, <1>6
  <2>2. CASE \E h \in fs : \E i \in At(h.rest, m) : x = <<"flush", h.since, i>>
    <3>1. x \in P BY <2>2, <1>1
    <3> QED BY <3>1, <2>2, <1>3, <1>4, <1>6
  <2>3. CASE \E i \in At(r.rest, m) : x = <<"flush", r.since, i>>
    <3>1. PICK i \in At(q, m) : x = <<"flush", n, i>> BY <2>3
    <3>2. <<"queue", 0, i>> \in P BY <1>1
    <3>3. g[<<"queue", 0, i>>] = x BY <3>1, <3>2, <1>3, <1>4
    <3> QED BY <3>2, <3>3
  <2> QED BY <2>1, <2>2, <2>3, <1>2, <1>5
<1>9. Q = {g[p] : p \in P} BY <1>7, <1>8
<1>10. Carried(P, {g[p] : p \in P}) BY CarriedBy
<1> QED BY <1>9, <1>10 DEF P, Q

\* Becoming ready, which flushes the queue, keeps the invariant.
LEMMA ReadyStep == ASSUME PubInv, Ready PROVE PubInv'
<1> USE PublisherAssumption
<1>0. PubTypeOK /\ FlushesApart /\ Accounted /\ QueueBound /\ CountedOnce
      /\ sending \cap (processed \cup errors) = {}
  BY DEF PubInv
<1>1. UNCHANGED <<sending, handled, processed, errors, untranslated, confirmed, resent, dropped, rejected,
                  overrun, losses>>
      /\ ~isConnected /\ isConnected' = TRUE /\ reconnectAttempts' = 0
  BY DEF Ready, tally
<1>2. worker' \in {"connecting", "running", "stopping", "exited"} BY <1>0, PubTypes DEF Ready
<1> DEFINE r == [since |-> losses, rest |-> publishQueue, sent |-> FALSE]
<1>3. \/ publishQueue = <<>> /\ UNCHANGED <<publishQueue, flushes>>
      \/ publishQueue # <<>> /\ publishQueue' = <<>> /\ flushes' = flushes \cup {r}
  BY DEF Ready, flushQueue
<1>4. publishQueue' \in Seq(Messages) /\ Len(publishQueue') <= Len(publishQueue)
  <2>1. <<>> \in Seq(Messages) /\ Len(<<>>) = 0 BY EmptySeq
  <2>2. publishQueue \in Seq(Messages) /\ Len(publishQueue) \in Nat BY <1>0, PubTypes
  <2>3. CASE publishQueue' = <<>>
    <3>1. Len(publishQueue') = 0 BY <2>1, <2>3
    <3> QED BY <3>1, <2>1, <2>2, <2>3
  <2>4. CASE publishQueue' = publishQueue BY <2>2, <2>4
  <2> QED BY <2>3, <2>4, <1>3
<1>5. FlushTypes(flushes')
  <2>1. r.since \in 0 .. MaxLosses /\ r.rest = publishQueue /\ r.sent = FALSE BY <1>0, PubTypes
  <2> HIDE DEF r
  <2>2. publishQueue # <<>> => r.rest \in Seq(Messages) \ {<<>>} BY <2>1, <1>0, PubTypes
  <2> QED BY <2>1, <2>2, <1>0, <1>3, PubTypes DEF FlushTypes
<1>6. PubTypeOK'
  <2>1. 0 \in 0 .. maxReconnectAttempts + 1 OBVIOUS
  <2> QED BY <2>1, <1>0, <1>1, <1>2, <1>4, <1>5 DEF PubTypeOK, FlushTypes, Messages
<1>7. FlushesApart'
  <2>1. r.since = losses OBVIOUS
  <2> HIDE DEF r
  <2>2. \A f \in flushes : f.since \in Nat /\ f.since < losses BY <1>0, <1>1, PubTypes DEF FlushTypes, FlushesApart
  <2>3. losses \in Nat BY <1>0, PubTypes
  <2>4. \A f \in flushes' : f.since <= losses' BY <2>1, <2>2, <2>3, <1>1, <1>3
  <2>5. \A f \in flushes : f.since # r.since BY <2>1, <2>2, <2>3
  <2>6. \A f, g \in flushes' : f.since = g.since => f = g BY <2>5, <1>0, <1>3 DEF FlushesApart
  <2> QED BY <2>4, <2>6, <1>1 DEF FlushesApart
<1>8. Accounted'
  <2>1. ASSUME NEW m \in Messages PROVE Carried(Places(m), Places(m)')
    <3>1. Places(m) = PlacesIn(publishQueue, sending, flushes, m)
          /\ Places(m)' = PlacesIn(publishQueue', sending, flushes', m)
      BY PlacesAre, <1>1
    <3>2. CASE UNCHANGED <<publishQueue, flushes>> BY <3>1, <3>2 DEF Carried
    <3>3. CASE publishQueue' = <<>> /\ flushes' = flushes \cup {r}
      <4>1. r.since = losses /\ r.rest = publishQueue OBVIOUS
      <4> HIDE DEF r
      <4>2. Carried(PlacesIn(publishQueue, sending, flushes, m), PlacesIn(<<>>, sending, flushes \cup {r}, m))
        BY <4>1, ReadyPlaces
      <4> QED BY <4>2, <3>1, <3>3
    <3> QED BY <3>2, <3>3, <1>3
  <2>2. ASSUME NEW m \in Messages PROVE Account(m)'
    <3>1. Account(m) BY <1>0 DEF Accounted
    <3> QED BY <3>1, <2>1, <1>1, AccountKept
  <2> QED BY <2>2 DEF Accounted, Messages
<1>9. QueueBound' BY <1>0, <1>1, <1>4, PubTypes DEF QueueBound
<1>10. CountedOnce' /\ (sending \cap (processed \cup errors) = {})' BY <1>0, <1>1 DEF CountedOnce
<1> QED BY <1>6, <1>7, <1>8, <1>9, <1>10 DEF PubInv

\* What publish() does with a message it cannot send: one more place, or dropped.
LEMMA EnqueueFacts ==
    ASSUME PubTypeOK, NEW e \in Messages, enqueue(e)
    PROVE  /\ publishQueue' \in Seq(Messages) /\ dropped' \subseteq Messages
           /\ QueueBound => Len(publishQueue') <= maxQueueSize + overrun
           /\ dropped' = dropped \/ dropped' = dropped \cup {e}
           /\ \A s, fs, m : m # e =>
                PlacesIn(publishQueue', s, fs, m) = PlacesIn(publishQueue, s, fs, m)
           /\ \/ e \in dropped' /\ publishQueue' = publishQueue
              \/ /\ dropped' = dropped
                 /\ \E p : \A s, fs : PlacesIn(publishQueue', s, fs, e) = PlacesIn(publishQueue, s, fs, e) \cup {p}
<1> USE PublisherAssumption
<1>1. publishQueue \in Seq(Messages) /\ dropped \subseteq Messages /\ Len(publishQueue) \in Nat /\ overrun \in Nat
  BY PubTypes
<1>2. CASE Len(publishQueue) < maxQueueSize
  <2>1. publishQueue' = Append(publishQueue, e) /\ dropped' = dropped BY <1>2 DEF enqueue
  <2>2. publishQueue' \in Seq(Messages) /\ Len(publishQueue') = Len(publishQueue) + 1
    BY <2>1, <1>1, AppendAt
  <2>3. \A s, fs, m : PlacesIn(publishQueue', s, fs, m) =
          PlacesIn(publishQueue, s, fs, m) \cup (IF m = e THEN {<<"queue", 0, Len(publishQueue) + 1>>} ELSE {})
    BY <2>1, <1>1, AppendPlaces
  <2>4. Len(publishQueue') <= maxQueueSize + overrun BY <2>2, <1>1, <1>2
  <2>5. \A s, fs, m : m # e => PlacesIn(publishQueue', s, fs, m) = PlacesIn(publishQueue, s, fs, m)
    BY <2>3
  <2>6. \E p : \A s, fs : PlacesIn(publishQueue', s, fs, e) = PlacesIn(publishQueue, s, fs, e) \cup {p}
    BY <2>3
  <2> QED BY <2>1, <2>2, <2>4, <2>5, <2>6, <1>1
<1>3. CASE ~(Len(publishQueue) < maxQueueSize)
  <2>1. publishQueue' = publishQueue /\ dropped' = dropped \cup {e} BY <1>3 DEF enqueue
  <2> QED BY <2>1, <1>1 DEF QueueBound
<1> QED BY <1>2, <1>3

\* An event handed to handleEvent is called with its message, or queues or drops it.
LEMMA HandleStep == ASSUME PubInv, HandleEvent PROVE PubInv'
<1> USE PublisherAssumption
<1> PICK e : e = handled + 1 OBVIOUS
<1>0. PubTypeOK /\ FlushesApart /\ Accounted /\ QueueBound /\ CountedOnce
      /\ sending \cap (processed \cup errors) = {}
  BY DEF PubInv
<1>1. /\ UNCHANGED <<worker, isConnected, reconnectAttempts, flushes, errors, untranslated, confirmed, resent,
                      rejected, overrun, losses>>
      /\ handled' = e /\ handled < MaxMessages
  BY DEF HandleEvent, link
<1>2. handled \in Nat /\ e \in Messages BY <1>0, <1>1, PubTypes DEF Messages
<1>3. \/ /\ sending' = sending \cup {e}
         /\ UNCHANGED <<publishQueue, dropped, processed>>
      \/ enqueue(e) /\ processed' = processed \cup {e} /\ UNCHANGED sending
  BY DEF HandleEvent
<1>4. /\ publishQueue' \in Seq(Messages) /\ dropped' \subseteq Messages
      /\ Len(publishQueue') <= maxQueueSize + overrun
  <2>1. CASE UNCHANGED <<publishQueue, dropped>> BY <2>1, <1>0, PubTypes DEF QueueBound
  <2>2. CASE enqueue(e)
    <3> QED BY <2>2, <1>0, <1>2, EnqueueFacts
  <2> QED BY <2>1, <2>2, <1>3
<1>5. PubTypeOK'
  <2>1. handled' \in 0 .. MaxMessages BY <1>1, <1>2 DEF Messages
  <2>2. sending' \subseteq Messages /\ processed' \subseteq Messages BY <1>0, <1>2, <1>3, PubTypes
  <2> QED BY <2>1, <2>2, <1>0, <1>1, <1>4 DEF PubTypeOK, Messages
<1>6. FlushesApart' BY <1>0, <1>1 DEF FlushesApart
<1>7. Accounted'
  <2>1. ASSUME NEW m \in Messages, m # e PROVE Account(m)'
    <3>1. Places(m) = PlacesIn(publishQueue, sending, flushes, m)
          /\ Places(m)' = PlacesIn(publishQueue', sending', flushes, m)
      BY PlacesAre, <1>1
    <3>2. Places(m)' = Places(m) /\ (m \in dropped' <=> m \in dropped)
      <4>1. CASE sending' = sending \cup {e} /\ UNCHANGED <<publishQueue, dropped>>
        <5>1. m \in sending' <=> m \in sending BY <4>1, <2>1
        <5>2. sending' \cap {m} = sending \cap {m} BY <5>1
        <5> QED BY <5>2, <3>1, <4>1 DEF PlacesIn
      <4>2. CASE enqueue(e) /\ UNCHANGED sending
        <5> QED BY <4>2, <3>1, <2>1, <1>0, <1>2, EnqueueFacts
      <4> QED BY <4>1, <4>2, <1>3
    <3>3. (m > handled' <=> m > handled) /\ (m <= handled' <=> m <= handled)
      BY <1>1, <1>2, <2>1 DEF Messages
    <3>4. Account(m) BY <1>0 DEF Accounted
    <3>5. Carried(Places(m), Places(m)') BY <3>2 DEF Carried
    <3> QED BY <3>2, <3>3, <3>4, <3>5, <1>1, AccountKept
  <2>2. Account(e)'
    <3>1. Nowhere(e)
      <4>1. Account(e) BY <1>0, <1>2 DEF Accounted
      <4>2. e > handled BY <1>2
      <4> QED BY <4>1, <4>2 DEF Account
    <3>2. e <= handled' /\ ~(e > handled') BY <1>1, <1>2
    <3>3. Places(e) = PlacesIn(publishQueue, sending, flushes, e)
          /\ Places(e)' = PlacesIn(publishQueue', sending', flushes, e)
      BY PlacesAre, <1>1
    <3>4. /\ confirmed'[e] = 0 /\ e \notin rejected' /\ Places(e) = {}
          /\ e \notin dropped /\ e \notin untranslated'
      BY <3>1, <1>1 DEF Nowhere
    <3>5. CASE sending' = sending \cup {e} /\ UNCHANGED <<publishQueue, dropped>>
      <4>1. Places(e)' = {<<"call", 0, 0>>}
        <5>1. ASSUME NEW p PROVE p \in Places(e)' <=> p \in Places(e) \/ p = <<"call", 0, 0>>
          <6>1. p \in Places(e) <=>
                   \/ \E i \in At(publishQueue, e) : p = <<"queue", 0, i>>
                   \/ e \in sending /\ p = <<"call", 0, 0>>
                   \/ \E f \in flushes : \E i \in At(f.rest, e) : p = <<"flush", f.since, i>>
            BY <3>3, PlaceFacts
          <6>2. p \in Places(e)' <=>
                   \/ \E i \in At(publishQueue', e) : p = <<"queue", 0, i>>
                   \/ e \in sending' /\ p = <<"call", 0, 0>>
                   \/ \E f \in flushes : \E i \in At(f.rest, e) : p = <<"flush", f.since, i>>
            BY <3>3, PlaceFacts
          <6> QED BY <6>1, <6>2, <3>5
        <5> QED BY <5>1, <3>4
      <4>2. e \notin dropped' BY <3>4, <3>5
      <4>3. confirmed'[e] \in {0, 1} /\ confirmed'[e] # 1 BY <3>4
      <4>4. \E p : Places(e)' = {p} BY <4>1
      <4>5. OnePlace(e)' BY <3>4, <4>2, <4>3, <4>4 DEF OnePlace
      <4> QED BY <4>2, <4>5, <3>2, <3>4 DEF Account
    <3>6. CASE enqueue(e) /\ UNCHANGED sending
      <4>1. \/ e \in dropped' /\ Places(e)' = {}
            \/ e \notin dropped' /\ \E p : Places(e)' = {p}
        <5>1. \/ e \in dropped' /\ publishQueue' = publishQueue
              \/ /\ dropped' = dropped
                 /\ \E p : \A s, fs : PlacesIn(publishQueue', s, fs, e) = PlacesIn(publishQueue, s, fs, e) \cup {p}
          BY <3>6, <1>0, <1>2, EnqueueFacts
        <5>2. Places(e)' = PlacesIn(publishQueue', sending, flushes, e) BY <3>3, <3>6
        <5>3. PlacesIn(publishQueue, sending, flushes, e) = {} BY <3>3, <3>4
        <5>4. CASE e \in dropped' /\ publishQueue' = publishQueue BY <5>2, <5>3, <5>4
        <5>5. CASE /\ dropped' = dropped
                   /\ \E p : \A s, fs : PlacesIn(publishQueue', s, fs, e) = PlacesIn(publishQueue, s, fs, e) \cup {p}
          <6>1. e \notin dropped' BY <5>5, <3>4
          <6>2. PICK p : PlacesIn(publishQueue', sending, flushes, e) = PlacesIn(publishQueue, sending, flushes, e) \cup {p}
            BY <5>5
          <6> QED BY <6>1, <6>2, <5>2, <5>3
        <5> QED BY <5>1, <5>4, <5>5
      <4> QED BY <4>1, <3>2, <3>4 DEF Account, OnePlace
    <3> QED BY <3>5, <3>6, <1>3
  <2>3. ASSUME NEW m \in Messages PROVE Account(m)'
    <3>1. CASE m = e BY <3>1, <2>2
    <3> QED BY <3>1, <2>1
  <2> QED BY <2>3 DEF Accounted, Messages
<1>8. QueueBound' BY <1>1, <1>4 DEF QueueBound
<1>9. CountedOnce' /\ (sending \cap (processed \cup errors) = {})'
  <2>1. 1 .. handled' = (1 .. handled) \cup {e} /\ e \notin 1 .. handled BY <1>1, <1>2
  <2>2. e \notin processed \cup errors \cup sending BY <2>1, <1>0 DEF CountedOnce
  <2> QED BY <2>1, <2>2, <1>0, <1>1, <1>3 DEF CountedOnce
<1> QED BY <1>5, <1>6, <1>7, <1>8, <1>9 DEF PubInv

\* An event that cannot be translated is an error, and its message is in no place.
LEMMA TranslateFailsStep == ASSUME PubInv, TranslateFails PROVE PubInv'
<1> USE PublisherAssumption
<1> PICK e : e = handled + 1 OBVIOUS
<1>0. PubTypeOK /\ FlushesApart /\ Accounted /\ QueueBound /\ CountedOnce
      /\ sending \cap (processed \cup errors) = {}
  BY DEF PubInv
<1>1. /\ UNCHANGED <<worker, isConnected, reconnectAttempts, publishQueue, flushes, sending, processed,
                      confirmed, resent, dropped, rejected, overrun, losses>>
      /\ handled' = e /\ handled < MaxMessages
      /\ errors' = errors \cup {e} /\ untranslated' = untranslated \cup {e}
  BY DEF TranslateFails, link
<1>2. handled \in Nat /\ e \in Messages BY <1>0, <1>1, PubTypes DEF Messages
<1>3. PubTypeOK'
  <2>1. handled' \in 0 .. MaxMessages BY <1>1, <1>2 DEF Messages
  <2>2. errors' \subseteq Messages /\ untranslated' \subseteq Messages BY <1>0, <1>1, <1>2, PubTypes
  <2>3. (\A S \in {sending, processed, errors, untranslated, dropped, rejected} : S \subseteq Messages)'
    BY <2>2, <1>0, <1>1, PubTypes DEF Messages
  <2> QED BY <2>1, <2>3, <1>0, <1>1 DEF PubTypeOK, Messages
<1>4. FlushesApart' BY <1>0, <1>1 DEF FlushesApart
<1>5. ASSUME NEW m \in Messages PROVE Account(m)'
  <2>1. Places(m)' = Places(m) BY <1>1 DEF Places
  <2>2. Account(m) BY <1>0 DEF Accounted
  <2>3. CASE m # e
    <3>1. (m > handled' <=> m > handled) /\ (m <= handled' <=> m <= handled)
      BY <2>3, <1>1, <1>2 DEF Messages
    <3>2. m \in untranslated' <=> m \in untranslated BY <2>3, <1>1
    <3>3. Carried(Places(m), Places(m)') BY <2>1 DEF Carried
    <3> QED BY <3>1, <3>2, <3>3, <2>2, <1>1, AccountKept
  <2>4. CASE m = e
    <3>1. m > handled BY <2>4, <1>2
    <3>2. Nowhere(m) BY <3>1, <2>2 DEF Account
    <3>3. m \in untranslated' /\ confirmed'[m] = 0 /\ Places(m)' = {} /\ m \notin rejected'
      BY <3>2, <2>1, <2>4, <1>1 DEF Nowhere
    <3>4. OnePlace(m)' BY <3>3 DEF OnePlace
    <3>5. ~(m > handled') BY <2>4, <1>1, <1>2
    <3> QED BY <3>3, <3>4, <3>5 DEF Account
  <2> QED BY <2>3, <2>4
<1>6. Accounted' BY <1>5 DEF Accounted, Messages
<1>7. QueueBound' BY <1>0, <1>1 DEF QueueBound
<1>8. CountedOnce' /\ (sending \cap (processed \cup errors) = {})'
  <2>1. 1 .. handled' = (1 .. handled) \cup {e} /\ e \notin 1 .. handled BY <1>1, <1>2
  <2>2. e \notin processed \cup errors \cup sending BY <2>1, <1>0 DEF CountedOnce
  <2> QED BY <2>1, <2>2, <1>0, <1>1 DEF CountedOnce
<1> QED BY <1>3, <1>4, <1>6, <1>7, <1>8 DEF PubInv

\* An answer of Redis takes its message off the calls.
LEMMA CallEnds ==
    ASSUME NEW q, NEW s, NEW fs, NEW c \in s
    PROVE  /\ <<"call", 0, 0>> \in PlacesIn(q, s, fs, c)
           /\ PlacesIn(q, s \ {c}, fs, c) = PlacesIn(q, s, fs, c) \ {<<"call", 0, 0>>}
<1> DEFINE call == <<"call", 0, 0>>
<1>1. call \in PlacesIn(q, s, fs, c) BY PlaceFacts
<1>2. ASSUME NEW x PROVE x \in PlacesIn(q, s \ {c}, fs, c) <=> x \in PlacesIn(q, s, fs, c) /\ x # call
  <2>1. x \in PlacesIn(q, s \ {c}, fs, c) <=>
        \/ \E i \in At(q, c) : x = <<"queue", 0, i>>
        \/ c \in s \ {c} /\ x = call
        \/ \E f \in fs : \E i \in At(f.rest, c) : x = <<"flush", f.since, i>>
    BY PlaceFacts
  <2>2. x \in PlacesIn(q, s, fs, c) <=>
        \/ \E i \in At(q, c) : x = <<"queue", 0, i>>
        \/ c \in s /\ x = call
        \/ \E f \in fs : \E i \in At(f.rest, c) : x = <<"flush", f.since, i>>
    BY PlaceFacts
  <2>3. \A u, v : call # <<"queue", u, v>> /\ call # <<"flush", u, v>> OBVIOUS
  <2> QED BY <2>1, <2>2, <2>3
<1> QED BY <1>1, <1>2

\* A call that Redis answers is counted, and its message confirmed once more.
LEMMA PublishedStep == ASSUME PubInv, NEW c \in Messages, Published(c) PROVE PubInv'
<1> USE PublisherAssumption
<1>0. PubTypeOK /\ FlushesApart /\ Accounted /\ QueueBound /\ CountedOnce
      /\ sending \cap (processed \cup errors) = {}
  BY DEF PubInv
<1>1. /\ UNCHANGED <<worker, isConnected, reconnectAttempts, publishQueue, flushes, handled, errors,
                      untranslated, resent, dropped, rejected, overrun, losses>>
      /\ c \in sending /\ sending' = sending \ {c} /\ processed' = processed \cup {c}
      /\ confirmed' = [confirmed EXCEPT ![c] = @ + 1]
  BY DEF Published, link
<1>2. confirmed \in [Messages -> Nat] BY <1>0, PubTypes
<1>3. confirmed' \in [Messages -> Nat] /\ confirmed'[c] = confirmed[c] + 1
      /\ \A m \in Messages : m # c => confirmed'[m] = confirmed[m]
  BY <1>1, <1>2
<1>4. PubTypeOK'
  <2>1. sending' \subseteq Messages /\ processed' \subseteq Messages BY <1>0, <1>1, PubTypes
  <2>2. (\A S \in {sending, processed, errors, untranslated, dropped, rejected} : S \subseteq Messages)'
    BY <2>1, <1>0, <1>1, PubTypes DEF Messages
  <2> QED BY <2>2, <1>0, <1>1, <1>3 DEF PubTypeOK, Messages
<1>5. FlushesApart' BY <1>0, <1>1 DEF FlushesApart
<1>c. \A q, m :
        /\ m # c => PlacesIn(q, sending \ {c}, flushes, m) = PlacesIn(q, sending, flushes, m)
        /\ (\E p : PlacesIn(q, sending, flushes, c) = {p}) => PlacesIn(q, sending \ {c}, flushes, c) = {}
        /\ PlacesIn(q, sending, flushes, c) # {}
  <2> TAKE q, m
  <2>1. c \in sending BY <1>1
  <2>2. m # c => PlacesIn(q, sending \ {c}, flushes, m) = PlacesIn(q, sending, flushes, m)
    <3>1. ASSUME m # c PROVE (sending \ {c}) \cap {m} = sending \cap {m} BY <3>1
    <3> QED BY <3>1 DEF PlacesIn
  <2>3. <<"call", 0, 0>> \in PlacesIn(q, sending, flushes, c) BY <2>1, CallEnds
  <2>4. PlacesIn(q, sending \ {c}, flushes, c) = PlacesIn(q, sending, flushes, c) \ {<<"call", 0, 0>>}
    BY <2>1, CallEnds
  <2> QED BY <2>2, <2>3, <2>4
<1>6. ASSUME NEW m \in Messages PROVE Account(m)'
  <2>1. Places(m) = PlacesIn(publishQueue, sending, flushes, m)
        /\ Places(m)' = PlacesIn(publishQueue, sending \ {c}, flushes, m)
    BY PlacesAre, <1>1
  <2>2. Account(m) BY <1>0 DEF Accounted
  <2>3. CASE m # c
    <3>1. Places(m)' = Places(m) BY <2>1, <2>3, <1>c
    <3>2. Carried(Places(m), Places(m)') BY <3>1 DEF Carried
    <3> QED BY <3>2, <2>2, <2>3, <1>1, <1>3, AccountKept
  <2>4. CASE m = c
    <3>1. Places(m) # {} BY <2>1, <2>4, <1>c
    <3>2. m <= handled' /\ ~(m > handled')
      <4>1. ~(m > handled) BY <3>1, <2>2 DEF Account, Nowhere
      <4> QED BY <4>1, <1>0, <1>1, PubTypes DEF Messages
    <3>3. confirmed'[m] > 0 BY <1>2, <1>3, <2>4
    <3>4. ASSUME m \notin rejected PROVE OnePlace(m)'
      <4>1. OnePlace(m) BY <3>2, <3>4, <2>2, <1>1 DEF Account
      <4>2. confirmed[m] = 0 /\ m \notin dropped /\ m \notin untranslated /\ \E p : Places(m) = {p}
        BY <4>1, <3>1 DEF OnePlace
      <4>3. Places(m)' = {} BY <4>2, <2>1, <2>4, <1>c
      <4>4. confirmed'[m] = 1 /\ m \notin dropped' /\ m \notin untranslated' BY <4>2, <1>1, <1>3, <2>4
      <4> QED BY <4>3, <4>4 DEF OnePlace
    <3> QED BY <3>2, <3>3, <3>4, <1>1 DEF Account
  <2> QED BY <2>3, <2>4
<1>7. Accounted' BY <1>6 DEF Accounted, Messages
<1>8. QueueBound' BY <1>0, <1>1 DEF QueueBound
<1>9. CountedOnce' /\ (sending \cap (processed \cup errors) = {})' BY <1>0, <1>1 DEF CountedOnce
<1> QED BY <1>4, <1>5, <1>7, <1>8, <1>9 DEF PubInv

\* A call that is rejected counts as an error, and its message waits if there is room.
LEMMA PublishFailsStep == ASSUME PubInv, NEW c \in Messages, PublishFails(c) PROVE PubInv'
<1> USE PublisherAssumption
<1>0. PubTypeOK /\ FlushesApart /\ Accounted /\ QueueBound /\ CountedOnce
      /\ sending \cap (processed \cup errors) = {}
  BY DEF PubInv
<1>1. /\ UNCHANGED <<worker, isConnected, reconnectAttempts, flushes, handled, processed, untranslated, confirmed,
                      resent, overrun>>
      /\ c \in sending /\ sending' = sending \ {c} /\ errors' = errors \cup {c}
      /\ rejected' = rejected \cup {c} /\ losses' = losses + 1 /\ losses < MaxLosses /\ enqueue(c)
  BY DEF PublishFails, link
<1>2. /\ publishQueue' \in Seq(Messages) /\ dropped' \subseteq Messages
      /\ Len(publishQueue') <= maxQueueSize + overrun
      /\ dropped' = dropped \/ dropped' = dropped \cup {c}
  BY <1>0, <1>1, EnqueueFacts
<1>3. losses \in Nat /\ losses' \in 0 .. MaxLosses /\ overrun \in 0 .. losses' BY <1>0, <1>1, PubTypes
<1>4. PubTypeOK'
  <2>1. sending' \subseteq Messages /\ errors' \subseteq Messages /\ rejected' \subseteq Messages
    BY <1>0, <1>1, PubTypes
  <2> QED BY <2>1, <1>0, <1>1, <1>2, <1>3 DEF PubTypeOK, Messages
<1>5. FlushesApart'
  <2>1. \A f \in flushes : f.since \in Nat /\ f.since <= losses' /\ (~isConnected => f.since < losses')
    BY <1>0, <1>1, <1>3, PubTypes DEF FlushTypes, FlushesApart
  <2> QED BY <2>1, <1>0, <1>1 DEF FlushesApart
<1>c. \A q, m :
        /\ m # c => PlacesIn(q, sending \ {c}, flushes, m) = PlacesIn(q, sending, flushes, m)
        /\ (\E p : PlacesIn(q, sending, flushes, c) = {p}) => PlacesIn(q, sending \ {c}, flushes, c) = {}
        /\ PlacesIn(q, sending, flushes, c) # {}
  <2> TAKE q, m
  <2>1. c \in sending BY <1>1
  <2>2. m # c => PlacesIn(q, sending \ {c}, flushes, m) = PlacesIn(q, sending, flushes, m)
    <3>1. ASSUME m # c PROVE (sending \ {c}) \cap {m} = sending \cap {m} BY <3>1
    <3> QED BY <3>1 DEF PlacesIn
  <2>3. <<"call", 0, 0>> \in PlacesIn(q, sending, flushes, c) BY <2>1, CallEnds
  <2>4. PlacesIn(q, sending \ {c}, flushes, c) = PlacesIn(q, sending, flushes, c) \ {<<"call", 0, 0>>}
    BY <2>1, CallEnds
  <2> QED BY <2>2, <2>3, <2>4
<1>6. ASSUME NEW m \in Messages PROVE Account(m)'
  <2>1. Places(m) = PlacesIn(publishQueue, sending, flushes, m)
        /\ Places(m)' = PlacesIn(publishQueue', sending \ {c}, flushes, m)
    BY PlacesAre, <1>1
  <2>2. Account(m) BY <1>0 DEF Accounted
  <2>3. CASE m # c
    <3>1. Places(m)' = PlacesIn(publishQueue, sending \ {c}, flushes, m)
      BY <2>1, <2>3, <1>0, <1>1, EnqueueFacts
    <3>2. Places(m)' = Places(m) BY <3>1, <2>1, <2>3, <1>c
    <3>3. Carried(Places(m), Places(m)') BY <3>2 DEF Carried
    <3>4. (m \in dropped' <=> m \in dropped) /\ (m \in rejected' <=> m \in rejected) BY <2>3, <1>1, <1>2
    <3> QED BY <3>3, <3>4, <2>2, <1>1, AccountKept
  <2>4. CASE m = c
    <3>1. Places(m) # {} BY <2>1, <2>4, <1>c
    <3>2. ~(m > handled') BY <3>1, <2>2, <1>1 DEF Account, Nowhere
    <3>3. m \in rejected' BY <1>1, <2>4
    <3>4. m \in dropped' \/ Places(m)' # {}
      <4>1. \/ m \in dropped'
            \/ \E p : \A s, fs : PlacesIn(publishQueue', s, fs, m) = PlacesIn(publishQueue, s, fs, m) \cup {p}
        BY <2>4, <1>0, <1>1, EnqueueFacts
      <4> QED BY <4>1, <2>1
    <3> QED BY <3>2, <3>3, <3>4 DEF Account
  <2> QED BY <2>3, <2>4
<1>7. Accounted' BY <1>6 DEF Accounted, Messages
<1>8. QueueBound' BY <1>1, <1>2 DEF QueueBound
<1>9. CountedOnce' /\ (sending \cap (processed \cup errors) = {})' BY <1>0, <1>1 DEF CountedOnce
<1> QED BY <1>4, <1>5, <1>7, <1>8, <1>9 DEF PubInv

\* What a flush that goes on to its next message leaves: the types, the other flushes, and
\* every message but the one it was at.
LEMMA AdvanceFacts ==
    ASSUME PubTypeOK, FlushesApart, NEW f \in flushes, Advance(f)
    PROVE  /\ f.rest \in Seq(Messages) \ {<<>>} /\ Head(f.rest) \in Messages
           /\ FlushTypes(flushes')
           /\ \A g \in flushes' : \E h \in flushes : g.since = h.since
           /\ \A g, h \in flushes' : g.since = h.since => g = h
           /\ \A q, s, m : m # Head(f.rest) =>
                Carried(PlacesIn(q, s, flushes, m), PlacesIn(q, s, flushes', m))
           /\ \A q, s : <<"flush", f.since, 1>> \in PlacesIn(q, s, flushes, Head(f.rest))
           /\ \A q, s, p : PlacesIn(q, s, flushes, Head(f.rest)) = {p} =>
                PlacesIn(q, s, flushes', Head(f.rest)) = {}
<1> DEFINE first == <<"flush", f.since, 1>>
<1>1. f.rest \in Seq(Messages) \ {<<>>} /\ f.since \in 0 .. MaxLosses BY PubTypes DEF FlushTypes
<1>2. Head(f.rest) \in Messages /\ (Len(f.rest) > 1 => Tail(f.rest) \in Seq(Messages) \ {<<>>})
  BY <1>1, TailAt
<1>3. flushes' = (flushes \ {f}) \cup Rest(f) BY DEF Advance
<1>4. ASSUME NEW g \in Rest(f)
      PROVE  g.since = f.since /\ g.rest \in Seq(Messages) \ {<<>>} /\ g.sent = FALSE
  <2>1. Rest(f) # {} BY <1>4
  <2>2. Len(f.rest) > 1 BY <2>1 DEF Rest
  <2>3. g = [since |-> f.since, rest |-> Tail(f.rest), sent |-> FALSE] BY <2>2, <1>4 DEF Rest
  <2>4. g.since = f.since /\ g.rest = Tail(f.rest) /\ g.sent = FALSE BY <2>3
  <2> QED BY <2>2, <2>4, <1>2
<1>5. \A g, h \in Rest(f) : g = h BY DEF Rest
<1>6. FlushTypes(flushes') BY <1>1, <1>3, <1>4, PubTypes DEF FlushTypes
<1>7. \A g \in flushes' : \E h \in flushes : g.since = h.since BY <1>3, <1>4
<1>8. Apart(flushes) BY DEF FlushesApart, Apart
<1>9. \A g, h \in flushes' : g.since = h.since => g = h BY <1>3, <1>4, <1>5, <1>8 DEF Apart
<1>10. ASSUME NEW q, NEW s, NEW m
       PROVE  /\ first \in PlacesIn(q, s, flushes, m) <=> m = Head(f.rest)
              /\ \E g : PlacesIn(q, s, flushes', m) = {g[p] : p \in PlacesIn(q, s, flushes, m) \ {first}}
  <2>1. f.rest \in Seq(Messages) /\ f.rest # <<>> BY <1>1
  <2>2. first \in PlacesIn(q, s, flushes, m) <=> m = Head(f.rest) BY <2>1, <1>8, FirstPlace
  <2>3. \E g : PlacesIn(q, s, flushes', m) = {g[p] : p \in PlacesIn(q, s, flushes, m) \ {first}}
    BY <2>1, <1>3, <1>8, AdvancePlaces
  <2> QED BY <2>2, <2>3
<1>11. ASSUME NEW q, NEW s, NEW m, m # Head(f.rest)
       PROVE  Carried(PlacesIn(q, s, flushes, m), PlacesIn(q, s, flushes', m))
  <2> DEFINE P == PlacesIn(q, s, flushes, m)
  <2>1. P \ {first} = P BY <1>10, <1>11
  <2>2. PICK g : PlacesIn(q, s, flushes', m) = {g[p] : p \in P \ {first}} BY <1>10
  <2>3. Carried(P, {g[p] : p \in P}) BY CarriedBy
  <2> HIDE DEF P
  <2>4. {g[p] : p \in P \ {first}} = {g[p] : p \in P} BY <2>1
  <2>5. Carried(P, PlacesIn(q, s, flushes', m)) BY <2>2, <2>3, <2>4
  <2> QED BY <2>5 DEF P
<1>12. ASSUME NEW q, NEW s PROVE first \in PlacesIn(q, s, flushes, Head(f.rest)) BY <1>10
<1>13. ASSUME NEW q, NEW s, NEW p, PlacesIn(q, s, flushes, Head(f.rest)) = {p}
       PROVE  PlacesIn(q, s, flushes', Head(f.rest)) = {}
  <2> DEFINE P == PlacesIn(q, s, flushes, Head(f.rest))
  <2>1. P \ {first} = {} BY <1>12, <1>13
  <2>2. PICK g : PlacesIn(q, s, flushes', Head(f.rest)) = {g[x] : x \in P \ {first}} BY <1>10
  <2> HIDE DEF P
  <2> QED BY <2>1, <2>2
<1> QED BY <1>1, <1>2, <1>6, <1>7, <1>9, <1>11, <1>12, <1>13

\* The flushes that go on are told apart, whether or not the connection was lost.
LEMMA AdvanceApart ==
    ASSUME PubInv, NEW f \in flushes, Advance(f), isConnected' = isConnected,
           losses' = losses \/ losses' = losses + 1
    PROVE  FlushesApart'
<1>1. PubTypeOK /\ FlushesApart BY DEF PubInv
<1>2. \A g \in flushes' : \E h \in flushes : g.since = h.since BY <1>1, AdvanceFacts
<1>3. \A g, h \in flushes' : g.since = h.since => g = h BY <1>1, AdvanceFacts
<1>4. \A h \in flushes : h.since <= losses' /\ (~isConnected => h.since < losses')
  <2> TAKE h \in flushes
  <2>1. h.since \in Nat /\ losses \in Nat BY <1>1, PubTypes DEF FlushTypes
  <2>2. h.since <= losses /\ (~isConnected => h.since < losses) BY <1>1 DEF FlushesApart
  <2> QED BY <2>1, <2>2
<1> QED BY <1>2, <1>3, <1>4 DEF FlushesApart

\* A flush that goes on keeps the account of every message but the one it was at.
LEMMA AdvanceAccount ==
    ASSUME PubInv, NEW f \in flushes, Advance(f), UNCHANGED <<sending, handled>>,
           NEW m \in Messages, m # Head(f.rest),
           PlacesIn(publishQueue', sending, flushes', m) = PlacesIn(publishQueue, sending, flushes', m),
           confirmed'[m] = confirmed[m], m \in dropped' <=> m \in dropped,
           m \in untranslated' <=> m \in untranslated, m \in rejected' <=> m \in rejected
    PROVE  Account(m)'
<1>1. PubTypeOK /\ FlushesApart /\ Account(m) BY DEF PubInv, Accounted
<1>2. Carried(PlacesIn(publishQueue, sending, flushes, m), PlacesIn(publishQueue, sending, flushes', m))
  BY <1>1, AdvanceFacts
<1>3. Places(m) = PlacesIn(publishQueue, sending, flushes, m)
      /\ Places(m)' = PlacesIn(publishQueue', sending, flushes', m)
  BY PlacesAre
<1>4. Carried(Places(m), Places(m)') BY <1>2, <1>3
<1> QED BY <1>1, <1>4, AccountKept

\* The message a flush is at was handled, and is in no other place unless it was rejected.
LEMMA HeadAccount ==
    ASSUME PubInv, NEW f \in flushes, Advance(f), NEW m, m = Head(f.rest)
    PROVE  /\ m \in Messages /\ ~(m > handled) /\ m <= handled
           /\ m \notin rejected =>
                /\ confirmed[m] = 0 /\ m \notin dropped /\ m \notin untranslated
                /\ PlacesIn(publishQueue, sending, flushes', m) = {}
<1>1. PubTypeOK /\ FlushesApart /\ Accounted BY DEF PubInv
<1>2. m \in Messages BY <1>1, AdvanceFacts
<1>3. Places(m) = PlacesIn(publishQueue, sending, flushes, m) BY PlacesAre
<1>4. Places(m) # {}
  <2>1. <<"flush", f.since, 1>> \in PlacesIn(publishQueue, sending, flushes, m) BY <1>1, AdvanceFacts
  <2> QED BY <2>1, <1>3
<1>5. Account(m) BY <1>1, <1>2 DEF Accounted
<1>6. ~(m > handled) BY <1>4, <1>5 DEF Account, Nowhere
<1>7. m <= handled BY <1>1, <1>2, <1>6, PubTypes DEF Messages
<1>8. ASSUME m \notin rejected
      PROVE  /\ confirmed[m] = 0 /\ m \notin dropped /\ m \notin untranslated
             /\ PlacesIn(publishQueue, sending, flushes', m) = {}
  <2>1. OnePlace(m) BY <1>5, <1>7, <1>8 DEF Account
  <2>2. confirmed[m] = 0 /\ m \notin dropped /\ m \notin untranslated /\ \E p : Places(m) = {p}
    BY <2>1, <1>4 DEF OnePlace
  <2>3. PICK p : PlacesIn(publishQueue, sending, flushes, m) = {p} BY <2>2, <1>3
  <2>4. PlacesIn(publishQueue, sending, flushes', m) = {} BY <2>3, <1>1, AdvanceFacts
  <2> QED BY <2>2, <2>4
<1> QED BY <1>2, <1>6, <1>7, <1>8

\* A flush that sends its next message, or queues it again without a connection, keeps
\* the invariant.
LEMMA FlushSendStep == ASSUME PubInv, NEW f \in flushes, FlushSend(f) PROVE PubInv'
<1> USE PublisherAssumption
<1>0. PubTypeOK /\ FlushesApart /\ Accounted /\ QueueBound /\ CountedOnce
      /\ sending \cap (processed \cup errors) = {}
  BY DEF PubInv
<1>1. UNCHANGED <<worker, isConnected, reconnectAttempts, sending, handled, processed, errors,
                  untranslated, confirmed, resent, rejected, overrun, losses>>
  BY DEF FlushSend, link
<1>2. (sending \cap (processed \cup errors) = {})' /\ CountedOnce' BY <1>0, <1>1 DEF CountedOnce
<1> DEFINE r == [since |-> f.since, rest |-> f.rest, sent |-> TRUE]
<1>3. CASE flushes' = (flushes \ {f}) \cup {r} /\ UNCHANGED <<publishQueue, dropped>>
  <2>1. r.since = f.since /\ r.rest = f.rest /\ r.sent = TRUE OBVIOUS
  <2> HIDE DEF r
  <2>2. FlushTypes(flushes') BY <2>1, <1>0, <1>3, PubTypes DEF FlushTypes
  <2>3. PubTypeOK' BY <2>2, <1>0, <1>1, <1>3 DEF PubTypeOK, FlushTypes, Messages
  <2>4. FlushesApart' BY <2>1, <1>0, <1>1, <1>3 DEF FlushesApart
  <2>5. ASSUME NEW m \in Messages PROVE Account(m)'
    <3>1. Places(m) = PlacesIn(publishQueue, sending, flushes, m)
          /\ Places(m)' = PlacesIn(publishQueue, sending, flushes', m)
      BY PlacesAre, <1>1, <1>3
    <3>2. ASSUME NEW p
          PROVE  (\E h \in flushes' : \E i \in At(h.rest, m) : p = <<"flush", h.since, i>>) <=>
                   (\E h \in flushes : \E i \in At(h.rest, m) : p = <<"flush", h.since, i>>)
      BY <2>1, <1>3
    <3>3. ASSUME NEW p PROVE p \in Places(m)' <=> p \in Places(m)
      <4>1. p \in Places(m) <=>
              \/ \E i \in At(publishQueue, m) : p = <<"queue", 0, i>>
              \/ m \in sending /\ p = <<"call", 0, 0>>
              \/ \E h \in flushes : \E i \in At(h.rest, m) : p = <<"flush", h.since, i>>
        BY <3>1, PlaceFacts
      <4>2. p \in Places(m)' <=>
              \/ \E i \in At(publishQueue, m) : p = <<"queue", 0, i>>
              \/ m \in sending /\ p = <<"call", 0, 0>>
              \/ \E h \in flushes' : \E i \in At(h.rest, m) : p = <<"flush", h.since, i>>
        BY <3>1, PlaceFacts
      <4> QED BY <4>1, <4>2, <3>2
    <3>4. Places(m)' = Places(m) BY <3>3, <3>1
    <3>5. Carried(Places(m), Places(m)') BY <3>4 DEF Carried
    <3>6. Account(m) BY <1>0 DEF Accounted
    <3> QED BY <3>5, <3>6, <1>1, <1>3, AccountKept
  <2>6. Accounted' BY <2>5 DEF Accounted, Messages
  <2>7. QueueBound' BY <1>0, <1>1, <1>3 DEF QueueBound
  <2> QED BY <2>3, <2>4, <2>6, <2>7, <1>2 DEF PubInv
<1>4. CASE Advance(f) /\ enqueue(Head(f.rest))
  <2>1. Head(f.rest) \in Messages /\ FlushTypes(flushes') BY <1>0, <1>4, AdvanceFacts
  <2>2. /\ publishQueue' \in Seq(Messages) /\ dropped' \subseteq Messages
        /\ Len(publishQueue') <= maxQueueSize + overrun
        /\ dropped' = dropped \/ dropped' = dropped \cup {Head(f.rest)}
    BY <2>1, <1>0, <1>4, EnqueueFacts
  <2>3. PubTypeOK' BY <2>1, <2>2, <1>0, <1>1 DEF PubTypeOK, FlushTypes, Messages
  <2>4. FlushesApart' BY <1>1, <1>4, AdvanceApart
  <2>5. ASSUME NEW m \in Messages, m # Head(f.rest) PROVE Account(m)'
    <3>1. PlacesIn(publishQueue', sending, flushes', m) = PlacesIn(publishQueue, sending, flushes', m)
      BY <2>1, <2>5, <1>0, <1>4, EnqueueFacts
    <3>2. m \in dropped' <=> m \in dropped BY <2>2, <2>5
    <3> QED BY <3>1, <3>2, <2>5, <1>1, <1>4, AdvanceAccount
  <2>6. ASSUME NEW m, m = Head(f.rest) PROVE Account(m)'
    <3>1. /\ ~(m > handled) /\ m <= handled
          /\ m \notin rejected =>
               /\ confirmed[m] = 0 /\ m \notin dropped /\ m \notin untranslated
               /\ PlacesIn(publishQueue, sending, flushes', m) = {}
      BY <2>6, <1>4, HeadAccount
    <3>2. Places(m)' = PlacesIn(publishQueue', sending, flushes', m) BY PlacesAre, <1>1
    <3>3. \/ m \in dropped' /\ publishQueue' = publishQueue
          \/ /\ dropped' = dropped
             /\ \E p : \A s, fs : PlacesIn(publishQueue', s, fs, m) = PlacesIn(publishQueue, s, fs, m) \cup {p}
      <4>1. m \in Messages /\ enqueue(m) BY <2>1, <2>6, <1>4
      <4> QED BY <4>1, <1>0, EnqueueFacts
    <3>4. m \in dropped' \/ Places(m)' # {} BY <3>2, <3>3
    <3>5. ASSUME m \notin rejected PROVE OnePlace(m)'
      <4>1. confirmed'[m] \in {0, 1} /\ confirmed'[m] # 1 /\ confirmed'[m] = 0 BY <3>1, <3>5, <1>1
      <4>2. /\ m \notin untranslated'
            /\ \/ m \in dropped' /\ Places(m)' = {}
               \/ m \notin dropped' /\ \E p : Places(m)' = {p}
        BY <3>1, <3>2, <3>3, <3>5, <1>1
      <4> QED BY <4>1, <4>2 DEF OnePlace
    <3> QED BY <3>1, <3>4, <3>5, <1>1 DEF Account
  <2>7. ASSUME NEW m \in Messages PROVE Account(m)'
    <3>1. CASE m = Head(f.rest) BY <3>1, <2>6
    <3>2. CASE m # Head(f.rest) BY <3>2, <2>5
    <3> QED BY <3>1, <3>2
  <2>8. Accounted' BY <2>7 DEF Accounted, Messages
  <2>9. QueueBound' BY <2>2, <1>1 DEF QueueBound
  <2> QED BY <2>3, <2>4, <2>8, <2>9, <1>2 DEF PubInv
<1> QED BY <1>3, <1>4 DEF FlushSend

\* A message of a flush that Redis takes is confirmed once more.
LEMMA FlushPublishedStep == ASSUME PubInv, NEW f \in flushes, FlushPublished(f) PROVE PubInv'
<1> USE PublisherAssumption
<1>0. PubTypeOK /\ FlushesApart /\ Accounted /\ QueueBound /\ CountedOnce
      /\ sending \cap (processed \cup errors) = {}
  BY DEF PubInv
<1> PICK c : c = Head(f.rest) OBVIOUS
<1>1. /\ UNCHANGED <<worker, isConnected, reconnectAttempts, publishQueue, sending, handled, processed,
                      errors, untranslated, resent, dropped, rejected, overrun, losses>>
      /\ Advance(f) /\ confirmed' = [confirmed EXCEPT ![c] = @ + 1]
  BY DEF FlushPublished, link
<1>2. c \in Messages /\ FlushTypes(flushes') BY <1>0, <1>1, AdvanceFacts
<1>3. confirmed \in [Messages -> Nat] BY <1>0, PubTypes
<1>4. confirmed' \in [Messages -> Nat] /\ confirmed'[c] = confirmed[c] + 1
      /\ \A m \in Messages : m # c => confirmed'[m] = confirmed[m]
  BY <1>1, <1>2, <1>3
<1>5. PubTypeOK' BY <1>0, <1>1, <1>2, <1>4 DEF PubTypeOK, FlushTypes, Messages
<1>6. FlushesApart' BY <1>1, AdvanceApart
<1>7. ASSUME NEW m \in Messages, m # c PROVE Account(m)' BY <1>1, <1>4, <1>7, AdvanceAccount
<1>8. Account(c)'
  <2>1. /\ ~(c > handled) /\ c <= handled
        /\ c \notin rejected =>
             /\ confirmed[c] = 0 /\ c \notin dropped /\ c \notin untranslated
             /\ PlacesIn(publishQueue, sending, flushes', c) = {}
    BY <1>1, HeadAccount
  <2>2. Places(c)' = PlacesIn(publishQueue, sending, flushes', c) BY PlacesAre, <1>1
  <2>3. confirmed'[c] > 0 BY <1>2, <1>3, <1>4
  <2>4. ASSUME c \notin rejected PROVE OnePlace(c)'
    <3>1. confirmed'[c] = 1 /\ c \notin dropped' /\ c \notin untranslated' /\ Places(c)' = {}
      BY <2>1, <2>2, <2>4, <1>1, <1>4
    <3> QED BY <3>1 DEF OnePlace
  <2> QED BY <2>1, <2>3, <2>4, <1>1 DEF Account
<1>9. Accounted'
  <2>1. ASSUME NEW m \in Messages PROVE Account(m)'
    <3>1. CASE m = c BY <3>1, <1>8
    <3> QED BY <3>1, <1>7
  <2> QED BY <2>1 DEF Accounted, Messages
<1>10. QueueBound' BY <1>0, <1>1 DEF QueueBound
<1>11. CountedOnce' /\ (sending \cap (processed \cup errors) = {})' BY <1>0, <1>1 DEF CountedOnce
<1> QED BY <1>5, <1>6, <1>9, <1>10, <1>11 DEF PubInv

\* A message of a flush that is rejected waits again, twice if publish() found room.
LEMMA FlushFailsStep == ASSUME PubInv, NEW f \in flushes, FlushFails(f) PROVE PubInv'
<1> USE PublisherAssumption
<1>0. PubTypeOK /\ FlushesApart /\ Accounted /\ QueueBound /\ CountedOnce
      /\ sending \cap (processed \cup errors) = {}
  BY DEF PubInv
<1> PICK c : c = Head(f.rest) OBVIOUS
<1> PICK queued : queued = IF Len(publishQueue) < maxQueueSize THEN Append(publishQueue, c) ELSE publishQueue
  OBVIOUS
<1>1. /\ UNCHANGED <<worker, isConnected, reconnectAttempts, sending, handled, processed, errors,
                      untranslated, confirmed, resent, dropped>>
      /\ Advance(f) /\ publishQueue' = Append(queued, c) /\ overrun' = overrun + 1
      /\ rejected' = rejected \cup {c} /\ losses' = losses + 1 /\ losses < MaxLosses
  BY DEF FlushFails, link
<1>2. c \in Messages /\ FlushTypes(flushes') BY <1>0, <1>1, AdvanceFacts
<1>3. publishQueue \in Seq(Messages) /\ Len(publishQueue) \in Nat BY <1>0, PubTypes
<1>4. /\ queued \in Seq(Messages) /\ Len(queued) \in Nat
      /\ Len(publishQueue) < maxQueueSize => Len(queued) = Len(publishQueue) + 1
      /\ ~(Len(publishQueue) < maxQueueSize) => Len(queued) = Len(publishQueue)
  BY <1>2, <1>3
<1>5. publishQueue' \in Seq(Messages) /\ Len(publishQueue') = Len(queued) + 1 BY <1>1, <1>2, <1>4, AppendAt
<1>6. losses \in Nat /\ overrun \in Nat /\ losses' \in 0 .. MaxLosses /\ overrun' \in 0 .. losses'
  BY <1>0, <1>1, PubTypes
<1>7. PubTypeOK'
  <2>1. rejected' \subseteq Messages BY <1>0, <1>1, <1>2, PubTypes
  <2>2. (\A S \in {sending, processed, errors, untranslated, dropped, rejected} : S \subseteq Messages)'
    BY <2>1, <1>0, <1>1, PubTypes DEF Messages
  <2> QED BY <2>2, <1>0, <1>1, <1>2, <1>5, <1>6 DEF PubTypeOK, FlushTypes, Messages
<1>8. FlushesApart' BY <1>1, AdvanceApart
<1>9. ASSUME NEW m \in Messages, m # c PROVE Account(m)'
  <2>1. PlacesIn(queued, sending, flushes', m) = PlacesIn(publishQueue, sending, flushes', m)
    <3>1. CASE queued = publishQueue BY <3>1
    <3>2. CASE queued = Append(publishQueue, c) BY <3>2, <1>2, <1>3, <1>9, AppendOther
    <3> QED BY <3>1, <3>2
  <2>2. PlacesIn(publishQueue', sending, flushes', m) = PlacesIn(queued, sending, flushes', m)
    <3>1. PlacesIn(Append(queued, c), sending, flushes', m) = PlacesIn(queued, sending, flushes', m)
      <4>1. queued \in Seq(Messages) /\ c \in Messages /\ m # c BY <1>2, <1>4, <1>9
      <4> QED BY ONLY <4>1, AppendOther
    <3> QED BY <3>1, <1>1
  <2>3. m \in rejected' <=> m \in rejected BY <1>1, <1>9
  <2> QED BY <2>1, <2>2, <2>3, <1>1, <1>9, AdvanceAccount
<1>10. Account(c)'
  <2>1. ~(c > handled) BY <1>1, HeadAccount
  <2>2. Places(c)' = PlacesIn(publishQueue', sending, flushes', c) BY PlacesAre, <1>1
  <2>3. <<"queue", 0, Len(queued) + 1>> \in PlacesIn(publishQueue', sending, flushes', c)
    BY <1>1, <1>2, <1>4, AppendOwn
  <2>4. Places(c)' # {} BY <2>2, <2>3
  <2>5. ~(c > handled') /\ c \in rejected' BY <2>1, <1>1
  <2> QED BY <2>4, <2>5 DEF Account
<1>11. Accounted'
  <2>1. ASSUME NEW m \in Messages PROVE Account(m)'
    <3>1. CASE m = c BY <3>1, <1>10
    <3> QED BY <3>1, <1>9
  <2> QED BY <2>1 DEF Accounted, Messages
<1>12. QueueBound'
  <2>1. Len(publishQueue) <= maxQueueSize + overrun BY <1>0 DEF QueueBound
  <2>2. Len(publishQueue') <= maxQueueSize + overrun' BY <2>1, <1>1, <1>3, <1>4, <1>5, <1>6
  <2> QED BY <2>2 DEF QueueBound
<1>13. CountedOnce' /\ (sending \cap (processed \cup errors) = {})' BY <1>0, <1>1 DEF CountedOnce
<1> QED BY <1>7, <1>8, <1>11, <1>12, <1>13 DEF PubInv

\* Before any event there is no message anywhere.
LEMMA PubInitial == PubInit => PubInv
<1> SUFFICES ASSUME PubInit PROVE PubInv OBVIOUS
<1> USE PublisherAssumption
<1>1. <<>> \in Seq(Messages) /\ Len(<<>>) = 0 BY EmptySeq
<1>2. confirmed \in [Messages -> Nat] /\ resent \in [Messages -> Nat] BY DEF PubInit
<1>3. PubTypeOK
  <2>1. reconnectAttempts \in 0 .. maxReconnectAttempts + 1 BY DEF PubInit
  <2>2. publishQueue \in Seq(Messages) /\ isConnected \in BOOLEAN BY <1>1 DEF PubInit
  <2>3. handled \in 0 .. MaxMessages /\ losses \in 0 .. MaxLosses /\ overrun \in 0 .. losses BY DEF PubInit
  <2>4. worker \in {"connecting", "running", "stopping", "exited"} BY DEF PubInit
  <2>5. \A S \in {sending, processed, errors, untranslated, dropped, rejected} : S \subseteq Messages BY DEF PubInit
  <2>6. flushes = {} BY DEF PubInit
  <2> QED BY <2>1, <2>2, <2>3, <2>4, <2>5, <2>6, <1>2 DEF PubTypeOK
<1>4. FlushesApart BY DEF PubInit, FlushesApart
<1>5. ASSUME NEW m \in Messages PROVE Account(m)
  <2>1. Places(m) = {}
    <3>1. At(<<>>, m) = {} BY DEF At
    <3>2. Places(m) = PlacesIn(<<>>, {}, {}, m) BY PlacesAre DEF PubInit
    <3>3. ASSUME NEW p \in PlacesIn(<<>>, {}, {}, m) PROVE FALSE
      <4>1. \/ \E i \in At(<<>>, m) : p = <<"queue", 0, i>>
            \/ m \in {} /\ p = <<"call", 0, 0>>
            \/ \E f \in {} : \E i \in At(f.rest, m) : p = <<"flush", f.since, i>>
        BY PlaceFacts
      <4> QED BY <4>1, <3>1
    <3> QED BY <3>2, <3>3
  <2>2. ~(m <= handled) BY DEF PubInit, Messages
  <2> QED BY <2>1, <2>2 DEF Account, Nowhere, PubInit
<1>6. Accounted BY <1>5 DEF Accounted
<1>7. QueueBound BY <1>1 DEF PubInit, QueueBound
<1>8. CountedOnce /\ sending \cap (processed \cup errors) = {} BY DEF PubInit, CountedOnce
<1> QED BY <1>3, <1>4, <1>6, <1>7, <1>8 DEF PubInv

\* Every step of the publisher keeps the invariant.
LEMMA PubPreserved == ASSUME PubInv, [PubNext]_pubvars PROVE PubInv'
<1>1. CASE ConnectFails \/ Loss \/ Reconnecting \/ Stop \/ Exit \/ UNCHANGED pubvars BY <1>1, LinkStep
<1>2. CASE Ready BY <1>2, ReadyStep
<1>3. CASE HandleEvent BY <1>3, HandleStep
<1>6. CASE TranslateFails BY <1>6, TranslateFailsStep
<1>4. CASE Deliver
  <2>1. PICK m \in Messages : Published(m) \/ PublishFails(m) BY <1>4 DEF Deliver
  <2> QED BY <2>1, PublishedStep, PublishFailsStep
<1>5. CASE Flush
  <2>1. PICK f \in flushes : FlushSend(f) \/ FlushPublished(f) \/ FlushFails(f) BY <1>5 DEF Flush
  <2> QED BY <2>1, FlushSendStep, FlushPublishedStep, FlushFailsStep
<1> QED BY <1>1, <1>2, <1>3, <1>4, <1>5, <1>6 DEF PubNext

\* A message goes out again at most once for each loss, and only for a publish call of its
\* own: it was confirmed or rejected since, or the call is still unanswered.
ResentOnce(m) ==
    /\ resent[m] <= losses
    /\ resent[m] > 0 => m \in rejected \/ confirmed[m] > 0 \/ m \in Unanswered

Resent == \A m \in Messages : ResentOnce(m)

\* A step that leaves what is unanswered, or ends one call for a message that is confirmed
\* or rejected with it, keeps the cause of what went out again.
LEMMA ResentKept ==
    ASSUME PubTypeOK, Resent, NEW c, NEW n \in {0, 1}, losses' = losses + n, UNCHANGED resent,
           rejected \subseteq rejected',
           \A m \in Messages : confirmed[m] > 0 => confirmed'[m] > 0,
           Unanswered \ {c} \subseteq Unanswered',
           c \in Messages => c \in rejected' \/ confirmed'[c] > 0 \/ Unanswered \subseteq Unanswered'
    PROVE  Resent'
<1> SUFFICES ASSUME NEW m \in Messages PROVE ResentOnce(m)' BY DEF Resent, Messages
<1>1. ResentOnce(m) BY DEF Resent
<1>2. resent[m] \in Nat /\ losses \in Nat /\ resent'[m] = resent[m] BY PubTypes
<1>3. resent'[m] <= losses' BY <1>1, <1>2 DEF ResentOnce
<1>4. ASSUME resent[m] > 0 PROVE m \in rejected' \/ confirmed'[m] > 0 \/ m \in Unanswered'
  <2>1. m \in rejected \/ confirmed[m] > 0 \/ m \in Unanswered BY <1>1, <1>4 DEF ResentOnce
  <2>2. CASE m = c BY <2>1, <2>2
  <2>3. CASE m # c BY <2>1, <2>3
  <2> QED BY <2>2, <2>3
<1> QED BY <1>2, <1>3, <1>4 DEF ResentOnce

\* A loss makes some of what is unanswered go out again.
LEMMA ResentLoss == ASSUME PubTypeOK, Resent, Loss PROVE Resent'
<1>1. PICK S \in SUBSET Unanswered : resent' = [m \in Messages |-> resent[m] + IF m \in S THEN 1 ELSE 0]
  BY DEF Loss
<1>2. Unanswered' = Unanswered /\ UNCHANGED <<rejected, confirmed>> /\ losses' = losses + 1
  BY DEF Loss, Unanswered, queues
<1> SUFFICES ASSUME NEW m \in Messages PROVE ResentOnce(m)' BY DEF Resent, Messages
<1>3. ResentOnce(m) BY DEF Resent
<1>4. resent[m] \in Nat /\ losses \in Nat BY PubTypes
<1>5. resent'[m] = resent[m] + IF m \in S THEN 1 ELSE 0 BY <1>1
<1>6. resent'[m] <= losses' BY <1>2, <1>3, <1>4, <1>5 DEF ResentOnce
<1>7. resent'[m] > 0 => resent[m] > 0 \/ m \in Unanswered BY <1>1, <1>4, <1>5
<1> QED BY <1>2, <1>3, <1>6, <1>7 DEF ResentOnce

\* Every step keeps the cause of what went out again.
LEMMA ResentStep == ASSUME PubTypeOK, Resent, [PubNext]_pubvars PROVE Resent'
<1>0. losses \in Nat /\ confirmed \in [Messages -> Nat] BY PubTypes
<1>1. CASE Loss BY <1>1, ResentLoss
<1>2. ASSUME \/ ConnectFails \/ Reconnecting \/ HandleEvent \/ TranslateFails \/ Stop \/ Exit
             \/ UNCHANGED pubvars
      PROVE  Resent'
  <2>1. /\ UNCHANGED <<flushes, losses, resent, rejected, confirmed>>
        /\ sending \subseteq sending'
    BY <1>2 DEF ConnectFails, Reconnecting, HandleEvent, TranslateFails, Stop, Exit, pubvars, queues, tally
  <2>2. Unanswered \subseteq Unanswered' BY <2>1 DEF Unanswered
  <2>3. losses' = losses + 0 BY <2>1, <1>0
  <2> QED BY <2>1, <2>2, <2>3, ResentKept
<1>3. CASE Ready
  <2>1. UNCHANGED <<sending, losses, resent, rejected, confirmed>> /\ flushes \subseteq flushes'
    BY <1>3 DEF Ready, flushQueue, tally
  <2>2. Unanswered \subseteq Unanswered' BY <2>1 DEF Unanswered
  <2>3. losses' = losses + 0 BY <2>1, <1>0
  <2> QED BY <2>1, <2>2, <2>3, ResentKept
<1>4. ASSUME NEW c \in Messages, Published(c) PROVE Resent'
  <2>1. UNCHANGED <<flushes, losses, resent, rejected>> /\ sending' = sending \ {c}
        /\ confirmed' = [confirmed EXCEPT ![c] = @ + 1]
    BY <1>4 DEF Published
  <2>2. Unanswered \ {c} \subseteq Unanswered' BY <2>1 DEF Unanswered
  <2>3. confirmed'[c] > 0 /\ \A m \in Messages : confirmed[m] > 0 => confirmed'[m] > 0 BY <2>1, <1>0
  <2>4. losses' = losses + 0 BY <2>1, <1>0
  <2> QED BY <2>1, <2>2, <2>3, <2>4, ResentKept
<1>5. ASSUME NEW c \in Messages, PublishFails(c) PROVE Resent'
  <2>1. UNCHANGED <<flushes, resent, confirmed>> /\ sending' = sending \ {c}
        /\ rejected' = rejected \cup {c} /\ losses' = losses + 1
    BY <1>5 DEF PublishFails
  <2>2. Unanswered \ {c} \subseteq Unanswered' BY <2>1 DEF Unanswered
  <2> QED BY <2>1, <2>2, ResentKept
<1>6. ASSUME NEW f \in flushes, FlushSend(f) PROVE Resent'
  <2>1. UNCHANGED <<sending, losses, resent, rejected, confirmed>> /\ flushes \ {f} \subseteq flushes' /\ ~f.sent
    BY <1>6 DEF FlushSend, Advance
  <2>2. Unanswered \subseteq Unanswered' BY <2>1 DEF Unanswered
  <2>3. losses' = losses + 0 BY <2>1, <1>0
  <2> QED BY <2>1, <2>2, <2>3, ResentKept
<1>7. ASSUME NEW f \in flushes, FlushPublished(f) PROVE Resent'
  <2> PICK c : c = Head(f.rest) OBVIOUS
  <2>1. UNCHANGED <<sending, losses, resent, rejected>> /\ flushes \ {f} \subseteq flushes'
        /\ confirmed' = [confirmed EXCEPT ![c] = @ + 1]
    BY <1>7 DEF FlushPublished, Advance
  <2>2. Unanswered \ {c} \subseteq Unanswered' BY <2>1 DEF Unanswered
  <2>3. (c \in Messages => confirmed'[c] > 0) /\ \A m \in Messages : confirmed[m] > 0 => confirmed'[m] > 0
    BY <2>1, <1>0
  <2>4. losses' = losses + 0 BY <2>1, <1>0
  <2> QED BY <2>1, <2>2, <2>3, <2>4, ResentKept
<1>8. ASSUME NEW f \in flushes, FlushFails(f) PROVE Resent'
  <2> PICK c : c = Head(f.rest) OBVIOUS
  <2>1. UNCHANGED <<sending, resent, confirmed>> /\ flushes \ {f} \subseteq flushes'
        /\ rejected' = rejected \cup {c} /\ losses' = losses + 1
    BY <1>8 DEF FlushFails, Advance
  <2>2. Unanswered \ {c} \subseteq Unanswered' BY <2>1 DEF Unanswered
  <2> QED BY <2>1, <2>2, ResentKept
<1> QED BY <1>1, <1>2, <1>3, <1>4, <1>5, <1>6, <1>7, <1>8 DEF PubNext, Deliver, Flush

\* What is unanswered has a place.
LEMMA UnansweredPlaced ==
    ASSUME PubTypeOK, NEW m \in Unanswered PROVE Places(m) # {}
<1>1. Places(m) = PlacesIn(publishQueue, sending, flushes, m) BY PlacesAre
<1>2. CASE m \in sending
  <2>1. <<"call", 0, 0>> \in PlacesIn(publishQueue, sending, flushes, m) BY <1>2, PlaceFacts
  <2> QED BY <2>1, <1>1
<1>3. CASE \E f \in flushes : m = Head(f.rest)
  <2>1. PICK f \in flushes : m = Head(f.rest) BY <1>3
  <2>2. f.rest \in Seq(Messages) /\ f.rest # <<>> BY PubTypes DEF FlushTypes
  <2>3. 1 \in At(f.rest, m) BY <2>1, <2>2, TailAt
  <2>4. <<"flush", f.since, 1>> \in PlacesIn(publishQueue, sending, flushes, m) BY <2>3, PlaceFacts
  <2> QED BY <2>4, <1>1
<1> QED BY <1>2, <1>3 DEF Unanswered

\* The invariant says how often a message is confirmed, waits, or is on its way.
LEMMA PubAccounts == PubInv /\ Resent => PublisherSafety
<1> SUFFICES ASSUME PubInv, Resent PROVE PublisherSafety OBVIOUS
<1>0. PubTypeOK /\ Accounted /\ QueueBound /\ CountedOnce BY DEF PubInv
<1>1. ExactlyOnceUnlessRejected
  <2> SUFFICES ASSUME NEW m \in 1 .. handled, m \notin rejected
               PROVE  /\ Copies(m) = IF m \in dropped \cup untranslated THEN 0 ELSE 1
                      /\ resent[m] <= IF m \in dropped \cup untranslated THEN 0 ELSE losses
    BY DEF ExactlyOnceUnlessRejected
  <2>1. m \in Messages /\ m <= handled BY <1>0, PubTypes, PublisherAssumption DEF Messages
  <2>2. OnePlace(m) BY <2>1, <1>0 DEF Accounted, Account
  <2>3. Cardinality({}) = 0 BY FS_EmptySet
  <2>4. ResentOnce(m) /\ resent[m] \in Nat BY <2>1, <1>0, PubTypes DEF Resent
  <2>5. CASE m \in dropped \cup untranslated
    <3>1. confirmed[m] = 0 /\ Places(m) = {} BY <2>2, <2>5 DEF OnePlace
    <3>2. Copies(m) = 0 BY <3>1, <2>3 DEF Copies
    <3>3. m \notin Unanswered BY <3>1, <1>0, UnansweredPlaced
    <3>4. ~(resent[m] > 0) BY <3>1, <3>3, <2>4 DEF ResentOnce
    <3>5. resent[m] <= 0 BY <3>4, <2>4
    <3> QED BY <3>2, <3>5, <2>5
  <2>6. CASE m \notin dropped \cup untranslated /\ confirmed[m] = 1
    <3>1. Places(m) = {} BY <2>2, <2>6 DEF OnePlace
    <3>2. Copies(m) = 1 BY <3>1, <2>3, <2>6 DEF Copies
    <3> QED BY <3>2, <2>4, <2>6 DEF ResentOnce
  <2>7. CASE m \notin dropped \cup untranslated /\ confirmed[m] # 1
    <3>1. confirmed[m] = 0 BY <2>2, <2>7 DEF OnePlace
    <3>2. PICK p : Places(m) = {p} BY <2>2, <2>7 DEF OnePlace
    <3>3. Cardinality({p}) = 1 BY FS_Singleton
    <3>4. Copies(m) = 1 BY <3>1, <3>2, <3>3 DEF Copies
    <3> QED BY <3>4, <2>4, <2>7 DEF ResentOnce
  <2> QED BY <2>5, <2>6, <2>7
<1>2. RejectedIsKept
  <2> SUFFICES ASSUME NEW m \in rejected \ dropped PROVE confirmed[m] > 0 \/ Places(m) # {}
    BY DEF RejectedIsKept
  <2>1. m \in Messages BY <1>0, PubTypes
  <2> QED BY <2>1, <1>0 DEF Accounted, Account
<1> QED BY <1>0, <1>1, <1>2 DEF PublisherSafety

\* No message is lost, and none is published twice but by a lost answer or a rejected call,
\* whatever happens to the connection while it waits, is sent or is flushed; and each event
\* is counted once.
THEOREM PublisherCorrect == PubSpec => []PublisherSafety
<1>1. PubInit => PubInv /\ Resent
  <2>1. ASSUME PubInit PROVE Resent BY <2>1 DEF PubInit, Resent, ResentOnce
  <2> QED BY <2>1, PubInitial
<1>2. PubInv /\ Resent /\ [PubNext]_pubvars => (PubInv /\ Resent)'
  <2>1. PubInv => PubTypeOK BY DEF PubInv
  <2> QED BY <2>1, PubPreserved, ResentStep
<1>3. PubInv /\ Resent => PublisherSafety BY PubAccounts
<1> QED BY <1>1, <1>2, <1>3, PTL DEF PubSpec
=============================================================================
