------------------------- MODULE CaptiveCoreProofs -------------------------
(* Proofs about CaptiveCore: through restarts, overlapping cores and crashes *)
(* no ledger is left out silently, the supervisor never loses its core, and  *)
(* nothing new can run after stop().                                         *)
EXTENDS CaptiveCore, FiniteSetTheorems, TLAPS

-----------------------------------------------------------------------------
(* The invariant.                                                        *)

\* A ledger the supervisor has passed: below a saved or received one, below one that
\* is being handled, or before the next frame of some core, living or not.
Passed(l) ==
    \/ l <= stored \/ l <= lastLedger
    \/ \E i \in Launches : l < next[i]
    \/ \E f \in handling : l <= f.ledger

\* A ledger is passed only with its loss known, and one about to be saved is settled.
PassedInv ==
    /\ \A l \in Ledgers : Passed(l) => l \in Accounted
    /\ \A f \in handling : f.waits = "save" => f.ledger \in settled

\* A call of fail() that waits was counted.
FailInv == failing <= failures

CoreInv == TypeOK /\ FailInv /\ PassedInv /\ NeverAbandoned

LEMMA CoreFacts ==
    /\ MaxLedger \in Nat /\ maxRestartAttempts \in Nat /\ MaxFailures \in Nat
    /\ MaxInFlight \in Nat /\ MaxCrashes \in Nat
    /\ 1 \in Launches /\ Launches \subseteq Nat \ {0}
  BY CoreAssumption DEF Launches

LEMMA CoreInit == Init => CoreInv
  <1> SUFFICES ASSUME Init PROVE CoreInv OBVIOUS
  <1> USE CoreFacts DEF Init
  <1>1. TypeOK
    <2>1. /\ stage \in [Launches -> {"none", "delayed", "loading", "writing", "alive", "hung", "gone"}]
          /\ next \in [Launches -> 1 .. MaxLedger + 1]
      OBVIOUS
    <2>2. /\ current = 0 /\ timersOf = 0 /\ startup = {} /\ heart = {} /\ handling = {}
          /\ settled = {} /\ status = "starting"
      OBVIOUS
    <2>3. /\ restartAttempts \in 0 .. maxRestartAttempts /\ failing \in 0 .. MaxFailures
          /\ failures \in 0 .. MaxFailures /\ crashes \in 0 .. MaxCrashes
          /\ lastLedger = 0 /\ stored = 0
      OBVIOUS
    <2>4. stopping \in BOOLEAN /\ silent \in BOOLEAN /\ exhausted \in BOOLEAN OBVIOUS
    <2> QED BY <2>1, <2>2, <2>3, <2>4 DEF TypeOK
  <1>2. FailInv BY DEF FailInv
  <1>3. PassedInv BY DEF PassedInv, Passed, Accounted, Ledgers
  <1>4. NeverAbandoned BY DEF NeverAbandoned
  <1> QED BY <1>1, <1>2, <1>3, <1>4 DEF CoreInv

-----------------------------------------------------------------------------
(* No ledger is left out.                                                *)

\* What was accounted for stays so, and nothing new is passed.
LEMMA PassedSame ==
    ASSUME PassedInv,
           UNCHANGED <<next, lastLedger, stored, handling>>, settled \subseteq settled'
    PROVE  PassedInv'
  <1>1. Accounted \subseteq Accounted' BY DEF Accounted
  <1>2. \A l : Passed(l)' <=> Passed(l) BY DEF Passed
  <1> QED BY <1>1, <1>2 DEF PassedInv

\* fail() only adds to what is settled.
LEMMA FailAdds ==
    ASSUME CoreInv, NEW bad \in SUBSET Ledgers, fail(bad)
    PROVE  /\ settled' = settled \cup bad /\ failures' \in 0 .. MaxFailures
           /\ status' \in {status, "failed"} /\ failing' \in 0 .. MaxFailures
           /\ failing' <= failures'
           /\ \/ stopping /\ failing' = failing
              \/ ~stopping /\ failing' = failing + 1
  <1>1. failures \in Nat /\ failing \in Nat /\ failing <= failures /\ failures < MaxFailures
    BY CoreFacts DEF CoreInv, TypeOK, FailInv, fail
  <1>2. failures' = failures + 1 /\ settled' = settled \cup bad BY DEF fail
  <1>3. CASE stopping
    <2>1. status' = status /\ failing' = failing BY <1>3 DEF fail
    <2> QED BY <1>1, <1>2, <1>3, <2>1, CoreFacts
  <1>4. CASE ~stopping
    <2>1. status' = "failed" /\ failing' = failing + 1 BY <1>4 DEF fail
    <2> QED BY <1>1, <1>2, <1>4, <2>1, CoreFacts
  <1> QED BY <1>3, <1>4
-----------------------------------------------------------------------------
(* The failures.                                                         *)

\* Failures of a timer, a process or a stream: no ledger is touched.
LEMMA FailureStep ==
    ASSUME CoreInv, NEW i \in Launches,
           StartupFires(i) \/ HeartbeatFires(i) \/ Exit(i) \/ StreamFails(i)
    PROVE  CoreInv'
  <1>1. /\ UNCHANGED <<next, current, heart, timersOf, restartAttempts, lastLedger, stopping,
                       silent, exhausted, stored, handling, crashes>>
        /\ startup' \subseteq startup
    BY DEF StartupFires, HeartbeatFires, Exit, StreamFails, core, timers
  <1>2. \/ stage' = stage
        \/ stage[i] \in {"alive", "hung"} /\ stage' = [stage EXCEPT ![i] = "gone"] /\ fail({})
        \/ stage[i] = "alive" /\ stage' = [stage EXCEPT ![i] = "hung"]
    BY DEF StartupFires, HeartbeatFires, Exit, StreamFails, core
  <1>3. fail({}) \/ UNCHANGED <<failures, status, failing, settled>>
    BY DEF StartupFires, HeartbeatFires, Exit, StreamFails
  <1>4. {} \in SUBSET Ledgers OBVIOUS
  <1>5. /\ settled' = settled /\ failures' \in 0 .. MaxFailures
        /\ status' \in {status, "failed"} /\ failing' \in 0 .. MaxFailures
        /\ failing' <= failures'
        /\ fail({}) => stopping \/ failing' > 0
        /\ failing > 0 => failing' > 0
    <2>1. CASE fail({})
      <3>1. failing \in Nat BY CoreFacts DEF CoreInv, TypeOK
      <3>2. /\ settled' = settled \cup {} /\ failures' \in 0 .. MaxFailures
            /\ status' \in {status, "failed"} /\ failing' \in 0 .. MaxFailures
            /\ failing' <= failures'
            /\ \/ stopping /\ failing' = failing
               \/ ~stopping /\ failing' = failing + 1
        BY <1>4, <2>1, FailAdds
      <3> QED BY <3>1, <3>2
    <2>2. CASE ~fail({})
      <3>1. UNCHANGED <<failures, status, failing, settled>> BY <1>3, <2>2
      <3> QED BY <2>2, <3>1 DEF CoreInv, TypeOK, FailInv
    <2> QED BY <2>1, <2>2
  <1>6. TypeOK'
    <2>1. stage' \in [Launches -> {"none", "delayed", "loading", "writing", "alive", "hung", "gone"}]
      BY <1>2 DEF CoreInv, TypeOK
    <2>2. status' \in {"starting", "running", "stopped", "failed"}
      BY <1>5 DEF CoreInv, TypeOK
    <2> QED BY <1>1, <1>5, <2>1, <2>2 DEF CoreInv, TypeOK
  <1>7. FailInv' BY <1>5 DEF FailInv
  <1>8. PassedInv' BY <1>1, <1>5, PassedSame DEF CoreInv
  <1>9. NeverAbandoned'
    <2>1. CASE stopping \/ exhausted \/ failing > 0
      BY <1>1, <1>5, <2>1 DEF NeverAbandoned
    <2>2. CASE fail({}) BY <1>1, <1>5, <2>2 DEF NeverAbandoned
    <2>3. CASE ~(stopping \/ exhausted \/ failing > 0) /\ ~fail({})
      <3>1. PICK j \in Launches : \/ stage[j] \in {"delayed", "loading", "writing"}
                                  \/ stage[j] \in {"alive", "hung"} /\ j \in heart
        BY <2>3 DEF CoreInv, NeverAbandoned
      <3>2. \/ stage'[j] = stage[j]
            \/ stage[j] = "alive" /\ stage'[j] = "hung"
        BY <1>2, <2>3 DEF CoreInv, TypeOK
      <3>3. \/ stage'[j] \in {"delayed", "loading", "writing"}
            \/ stage'[j] \in {"alive", "hung"} /\ j \in heart'
        BY <1>1, <3>1, <3>2
      <3> QED BY <3>3 DEF NeverAbandoned
    <2> QED BY <2>1, <2>2, <2>3
  <1> QED BY <1>6, <1>7, <1>8, <1>9 DEF CoreInv

\* After the archive either a launch is scheduled or the supervisor gives up.
LEMMA FailEndsStep == ASSUME CoreInv, FailEnds PROVE CoreInv'
  <1>1. /\ failing > 0 /\ failing' = failing - 1 /\ clearTimers /\ current' = 0
        /\ UNCHANGED <<next, status, lastLedger, stopping, silent, stored, handling, settled,
                       failures, crashes>>
    BY DEF FailEnds, ledgers
  <1>2. \/ /\ restartAttempts < maxRestartAttempts /\ restartAttempts' = restartAttempts + 1
           /\ \E i \in Spare : stage' = Relaunched(i)
           /\ exhausted' = exhausted
        \/ stage' = Killed /\ exhausted' = TRUE /\ restartAttempts' = restartAttempts
    BY DEF FailEnds
  <1>3. Killed \in [Launches -> {"none", "delayed", "loading", "writing", "alive", "hung", "gone"}]
    BY DEF CoreInv, TypeOK, Killed
  <1>4. \/ exhausted'
        \/ \E i \in Launches : stage'[i] = "delayed"
    BY <1>2, <1>3 DEF Relaunched, Spare
  <1>5. stage' \in [Launches -> {"none", "delayed", "loading", "writing", "alive", "hung", "gone"}]
    BY <1>2, <1>3 DEF Relaunched, Spare
  <1>6. failing' \in 0 .. MaxFailures /\ failing' <= failures'
    <2>1. failing \in 0 .. MaxFailures /\ failures \in 0 .. MaxFailures /\ failing <= failures
      BY DEF CoreInv, TypeOK, FailInv
    <2> QED BY <1>1, <2>1, CoreFacts
  <1>7. restartAttempts' \in 0 .. maxRestartAttempts
    BY <1>2, CoreFacts DEF CoreInv, TypeOK
  <1>8. exhausted' \in BOOLEAN BY <1>2 DEF CoreInv, TypeOK
  <1>9. startup' \subseteq Launches /\ heart' \subseteq Launches /\ timersOf' = 0
    BY <1>1 DEF clearTimers, CoreInv, TypeOK
  <1>10. TypeOK' BY <1>1, <1>5, <1>6, <1>7, <1>8, <1>9 DEF CoreInv, TypeOK
  <1>11. FailInv' BY <1>6 DEF FailInv
  <1>12. PassedInv' BY <1>1, PassedSame DEF CoreInv
  <1>13. NeverAbandoned' BY <1>4 DEF NeverAbandoned
  <1> QED BY <1>10, <1>11, <1>12, <1>13 DEF CoreInv

-----------------------------------------------------------------------------
(* The launches.                                                         *)

LEMMA DelayOverStep ==
    ASSUME CoreInv, NEW i \in Launches, DelayOver(i) PROVE CoreInv'
  <1>1. /\ stage' = [stage EXCEPT ![i] = "loading"] /\ status' = "starting"
        /\ UNCHANGED <<next, current, startup, heart, timersOf, restartAttempts, lastLedger,
                       stopping, silent, failing, exhausted, stored, handling, settled,
                       failures, crashes>>
    BY DEF DelayOver, timers, ledgers
  <1>2. /\ stage' \in [Launches -> {"none", "delayed", "loading", "writing", "alive", "hung", "gone"}]
        /\ stage'[i] = "loading"
    BY <1>1 DEF CoreInv, TypeOK
  <1>3. TypeOK' BY <1>1, <1>2 DEF CoreInv, TypeOK
  <1>4. FailInv' BY <1>1 DEF CoreInv, FailInv
  <1>5. PassedInv' BY <1>1, PassedSame DEF CoreInv
  <1>6. NeverAbandoned' BY <1>2 DEF NeverAbandoned
  <1> QED BY <1>3, <1>4, <1>5, <1>6 DEF CoreInv

\* The loaded core starts right after a ledger that was passed already.
LEMMA LoadedStep ==
    ASSUME CoreInv, NEW i \in Launches, Loaded(i) PROVE CoreInv'
  <1>1. /\ lastLedger' = larger(lastLedger, stored)
        /\ next' = [next EXCEPT ![i] = (IF stored # 0 THEN stored ELSE lastLedger') + 1]
        /\ stage' = [stage EXCEPT ![i] = "writing"]
        /\ UNCHANGED <<current, startup, heart, timersOf, status, restartAttempts, stopping,
                       silent, failing, exhausted, stored, handling, settled, failures, crashes>>
    BY DEF Loaded, timers, ledgers
  <1>2. /\ stage' \in [Launches -> {"none", "delayed", "loading", "writing", "alive", "hung", "gone"}]
        /\ stage'[i] = "writing"
    BY <1>1 DEF CoreInv, TypeOK
  <1>3. /\ lastLedger' \in 0 .. MaxLedger /\ lastLedger' \in {lastLedger, stored}
        /\ stored \in 0 .. MaxLedger
    BY <1>1, CoreFacts DEF CoreInv, TypeOK, larger, Ledgers
  <1> DEFINE m == IF stored # 0 THEN stored ELSE lastLedger'
             n == m + 1
  <1>4. /\ n \in 1 .. MaxLedger + 1 /\ m \in 0 .. MaxLedger
        /\ m \in {lastLedger, stored}
    <2>1. m \in 0 .. MaxLedger /\ m \in {lastLedger, stored} BY <1>3
    <2> HIDE DEF m
    <2> QED BY <2>1, CoreFacts
  <1>5. next' = [next EXCEPT ![i] = n] /\ n = m + 1 BY <1>1
  <1> HIDE DEF m, n
  <1>6. next' \in [Launches -> 1 .. MaxLedger + 1] BY <1>4, <1>5 DEF CoreInv, TypeOK
  <1>7. TypeOK'
    <2>1. lastLedger' \in {0} \cup Ledgers BY <1>3, CoreFacts DEF Ledgers
    <2> QED BY <1>1, <1>2, <1>6, <2>1 DEF CoreInv, TypeOK
  <1>8. FailInv' BY <1>1 DEF CoreInv, FailInv
  <1>9. PassedInv'
    <2>1. Accounted' = Accounted BY <1>1 DEF Accounted
    <2>2. ASSUME NEW l \in Ledgers, Passed(l)' PROVE Passed(l)
      <3>1. l \in Nat BY CoreFacts DEF Ledgers
      <3>2. CASE l <= stored' \/ \E f \in handling' : l <= f.ledger
        BY <1>1, <3>2 DEF Passed
      <3>3. CASE l <= lastLedger' BY <1>3, <3>3 DEF Passed
      <3>4. ASSUME NEW j \in Launches, l < next'[j] PROVE Passed(l)
        <4>1. CASE j = i
          <5>1. l < n BY <1>5, <3>4, <4>1 DEF CoreInv, TypeOK
          <5>2. l <= m BY <1>4, <1>5, <3>1, <5>1, CoreFacts
          <5> QED BY <1>4, <5>2 DEF Passed
        <4>2. CASE j # i
          <5>1. l < next[j] BY <1>5, <3>4, <4>2 DEF CoreInv, TypeOK
          <5> QED BY <5>1 DEF Passed
        <4> QED BY <4>1, <4>2
      <3> QED BY <2>2, <3>2, <3>3, <3>4 DEF Passed
    <2> QED BY <1>1, <2>1, <2>2 DEF CoreInv, PassedInv
  <1>10. NeverAbandoned' BY <1>2 DEF NeverAbandoned
  <1> QED BY <1>7, <1>8, <1>9, <1>10 DEF CoreInv

LEMMA SpawnStep ==
    ASSUME CoreInv, NEW i \in Launches, Spawn(i) PROVE CoreInv'
  <1>1. /\ stage' = [stage EXCEPT ![i] = "alive"] /\ current' = i /\ timersOf' = i
        /\ startup' = startup \cup {i} /\ heart' = heart \cup {i}
        /\ UNCHANGED <<next, status, restartAttempts, lastLedger, stopping, silent, failing,
                       exhausted, stored, handling, settled, failures, crashes>>
    BY DEF Spawn, memory, ledgers
  <1>2. /\ stage' \in [Launches -> {"none", "delayed", "loading", "writing", "alive", "hung", "gone"}]
        /\ stage'[i] = "alive"
    BY <1>1 DEF CoreInv, TypeOK
  <1>3. TypeOK' BY <1>1, <1>2 DEF CoreInv, TypeOK
  <1>4. FailInv' BY <1>1 DEF CoreInv, FailInv
  <1>5. PassedInv' BY <1>1, PassedSame DEF CoreInv
  <1>6. NeverAbandoned' BY <1>1, <1>2 DEF NeverAbandoned
  <1> QED BY <1>3, <1>4, <1>5, <1>6 DEF CoreInv
-----------------------------------------------------------------------------
(* The frames.                                                           *)

\* A frame carries the next ledger of its core, all below which is accounted for.
LEMMA FrameStep ==
    ASSUME CoreInv, NEW i \in Launches, Frame(i) \/ FrameBad(i) PROVE CoreInv'
  <1>1. /\ next[i] <= MaxLedger /\ next' = [next EXCEPT ![i] = @ + 1] /\ silent' = FALSE
        /\ UNCHANGED <<stage, current, startup, heart, timersOf, stopping, exhausted,
                       stored, crashes>>
    BY DEF Frame, FrameBad, Sends, timers
  <1>2. next[i] \in Nat /\ next[i] >= 1 /\ next[i] \in Ledgers
    BY <1>1, CoreFacts DEF CoreInv, TypeOK, Ledgers
  <1>3. /\ next' \in [Launches -> 1 .. MaxLedger + 1] /\ next'[i] = next[i] + 1
        /\ \A j \in Launches : j # i => next'[j] = next[j]
    <2>1. next[i] + 1 \in 1 .. MaxLedger + 1 BY <1>1, <1>2, CoreFacts
    <2> QED BY <1>1, <2>1 DEF CoreInv, TypeOK
  <1>4. CASE Frame(i)
    <2> DEFINE f == [of |-> i, ledger |-> next[i], waits |-> "deliver"]
    <2>1. /\ status' = "running" /\ restartAttempts' = 0 /\ lastLedger' = next[i]
          /\ handling' = handling \cup {f}
          /\ UNCHANGED <<failing, settled, failures>>
      BY <1>4 DEF Frame
    <2>2. f \in Frames /\ f.ledger = next[i] /\ f.waits = "deliver" BY <1>2 DEF Frames
    <2> HIDE DEF f
    <2>3. TypeOK'
      <3>1. restartAttempts' \in 0 .. maxRestartAttempts BY <2>1, CoreFacts
      <3> QED BY <1>1, <1>2, <1>3, <2>1, <2>2, <3>1 DEF CoreInv, TypeOK
    <2>4. FailInv' BY <2>1 DEF CoreInv, FailInv
    <2>5. Accounted \cup {next[i]} \subseteq Accounted' BY <2>1, <2>2 DEF Accounted
    <2>6. ASSUME NEW l \in Ledgers, Passed(l)' PROVE Passed(l) \/ l = next[i]
      <3>1. l \in Nat BY CoreFacts DEF Ledgers
      <3>2. CASE l <= lastLedger' \/ l < next'[i] \/ l <= f.ledger
        <4>1. l < next[i] \/ l = next[i] BY <1>2, <1>3, <2>1, <2>2, <3>1, <3>2
        <4> QED BY <4>1 DEF Passed
      <3>3. CASE \/ l <= stored \/ \E j \in Launches : j # i /\ l < next'[j]
                 \/ \E g \in handling : l <= g.ledger
        BY <1>3, <3>3 DEF Passed
      <3> QED BY <1>1, <2>1, <2>6, <3>2, <3>3 DEF Passed
    <2>7. PassedInv' BY <2>1, <2>2, <2>5, <2>6 DEF CoreInv, PassedInv
    <2>8. NeverAbandoned' BY <1>1, <2>1 DEF CoreInv, NeverAbandoned
    <2> QED BY <2>3, <2>4, <2>7, <2>8 DEF CoreInv
  <1>5. CASE FrameBad(i)
    <2>1. /\ fail({next[i]})
          /\ UNCHANGED <<restartAttempts, lastLedger, handling>>
      BY <1>5 DEF FrameBad
    <2>2. /\ settled' = settled \cup {next[i]} /\ failures' \in 0 .. MaxFailures
          /\ status' \in {status, "failed"} /\ failing' \in 0 .. MaxFailures
          /\ failing' <= failures'
          /\ \/ stopping /\ failing' = failing
             \/ ~stopping /\ failing' = failing + 1
      <3>1. {next[i]} \in SUBSET Ledgers BY <1>2
      <3> QED BY <2>1, <3>1, FailAdds
    <2>3. TypeOK'
      <3>1. status' \in {"starting", "running", "stopped", "failed"}
        BY <2>2 DEF CoreInv, TypeOK
      <3> QED BY <1>1, <1>2, <1>3, <2>1, <2>2, <3>1 DEF CoreInv, TypeOK
    <2>4. FailInv' BY <2>2 DEF FailInv
    <2>5. Accounted \cup {next[i]} \subseteq Accounted' BY <2>1, <2>2 DEF Accounted
    <2>6. ASSUME NEW l \in Ledgers, Passed(l)' PROVE Passed(l) \/ l = next[i]
      <3>1. l \in Nat BY CoreFacts DEF Ledgers
      <3>2. CASE l < next'[i]
        <4>1. l < next[i] \/ l = next[i] BY <1>2, <1>3, <3>1, <3>2
        <4> QED BY <4>1 DEF Passed
      <3>3. CASE ~(l < next'[i])
        BY <1>1, <1>3, <2>1, <2>6, <3>3 DEF Passed
      <3> QED BY <3>2, <3>3
    <2>7. PassedInv' BY <2>1, <2>2, <2>5, <2>6 DEF CoreInv, PassedInv
    <2>8. NeverAbandoned'
      <3>1. failing \in Nat BY CoreFacts DEF CoreInv, TypeOK
      <3>2. stopping' \/ failing' > 0 BY <1>1, <2>2, <3>1
      <3> QED BY <3>2 DEF NeverAbandoned
    <2> QED BY <2>3, <2>4, <2>7, <2>8 DEF CoreInv
  <1> QED BY <1>4, <1>5

\* A frame that leaves its handler is settled.
LEMMA HandleStep ==
    ASSUME CoreInv, NEW f \in handling, Delivered(f) \/ SaveOk(f) \/ HandlerFails(f)
    PROVE  CoreInv'
  <1>1. /\ UNCHANGED <<stage, next, current, startup, heart, timersOf, restartAttempts, lastLedger,
                       stopping, silent, exhausted, crashes>>
    BY DEF Delivered, SaveOk, HandlerFails, core, timers, memory
  <1>2. f \in Frames /\ f.ledger \in Ledgers BY DEF CoreInv, TypeOK, Frames
  <1>3. CASE Delivered(f)
    <2> DEFINE g == [f EXCEPT !.waits = "save"]
    <2>1. /\ settled' = settled \cup {f.ledger} /\ handling' = (handling \ {f}) \cup {g}
          /\ UNCHANGED <<status, failing, stored, failures>>
      BY <1>3 DEF Delivered, memory
    <2>2. g \in Frames /\ g.ledger = f.ledger BY <1>2 DEF Frames
    <2> HIDE DEF g
    <2>3. TypeOK' BY <1>1, <1>2, <2>1, <2>2 DEF CoreInv, TypeOK
    <2>4. FailInv' BY <2>1 DEF CoreInv, FailInv
    <2>5. Accounted \subseteq Accounted' BY <2>1 DEF Accounted
    <2>6. ASSUME NEW l \in Ledgers, Passed(l)' PROVE Passed(l)
      BY <1>1, <2>1, <2>2, <2>6 DEF Passed
    <2>7. \A h \in handling' : h.waits = "save" => h.ledger \in settled'
      BY <2>1, <2>2 DEF CoreInv, PassedInv
    <2>8. PassedInv' BY <2>5, <2>6, <2>7 DEF CoreInv, PassedInv
    <2>9. NeverAbandoned' BY <1>1, <2>1 DEF CoreInv, NeverAbandoned
    <2> QED BY <2>3, <2>4, <2>8, <2>9 DEF CoreInv
  <1>4. CASE SaveOk(f)
    <2>1. /\ f.waits = "save" /\ handling' = handling \ {f}
          /\ UNCHANGED <<status, failing, settled, failures>>
      BY <1>4 DEF SaveOk, memory
    <2>2. PICK h \in handling : stored' = h.ledger BY <1>4 DEF SaveOk
    <2>3. h.ledger \in Ledgers BY DEF CoreInv, TypeOK, Frames
    <2>4. TypeOK' BY <1>1, <2>1, <2>2, <2>3 DEF CoreInv, TypeOK
    <2>5. FailInv' BY <2>1 DEF CoreInv, FailInv
    <2>6. f.ledger \in settled BY <2>1 DEF CoreInv, PassedInv
    <2>7. Accounted \subseteq Accounted' BY <2>1, <2>6 DEF Accounted
    <2>8. ASSUME NEW l \in Ledgers, Passed(l)' PROVE Passed(l)
      BY <1>1, <2>1, <2>2, <2>8 DEF Passed
    <2>9. PassedInv' BY <2>1, <2>7, <2>8 DEF CoreInv, PassedInv
    <2>10. NeverAbandoned' BY <1>1, <2>1 DEF CoreInv, NeverAbandoned
    <2> QED BY <2>4, <2>5, <2>9, <2>10 DEF CoreInv
  <1>5. CASE HandlerFails(f)
    <2>1. fail({f.ledger}) /\ handling' = handling \ {f} /\ stored' = stored
      BY <1>5 DEF HandlerFails
    <2>2. /\ settled' = settled \cup {f.ledger} /\ failures' \in 0 .. MaxFailures
          /\ status' \in {status, "failed"} /\ failing' \in 0 .. MaxFailures
          /\ failing' <= failures'
          /\ \/ stopping /\ failing' = failing
             \/ ~stopping /\ failing' = failing + 1
      <3>1. {f.ledger} \in SUBSET Ledgers BY <1>2
      <3> QED BY <2>1, <3>1, FailAdds
    <2>3. TypeOK'
      <3>1. status' \in {"starting", "running", "stopped", "failed"}
        BY <2>2 DEF CoreInv, TypeOK
      <3> QED BY <1>1, <1>2, <2>1, <2>2, <3>1 DEF CoreInv, TypeOK
    <2>4. FailInv' BY <2>2 DEF FailInv
    <2>5. Accounted \subseteq Accounted' BY <2>1, <2>2 DEF Accounted
    <2>6. ASSUME NEW l \in Ledgers, Passed(l)' PROVE Passed(l)
      BY <1>1, <2>1, <2>6 DEF Passed
    <2>7. PassedInv' BY <2>1, <2>2, <2>5, <2>6 DEF CoreInv, PassedInv
    <2>8. NeverAbandoned'
      <3>1. failing \in Nat BY CoreFacts DEF CoreInv, TypeOK
      <3>2. stopping' \/ failing' > 0 BY <1>1, <2>2, <3>1
      <3> QED BY <3>2 DEF NeverAbandoned
    <2> QED BY <2>3, <2>4, <2>7, <2>8 DEF CoreInv
  <1> QED BY <1>3, <1>4, <1>5

-----------------------------------------------------------------------------
(* The core process, the caller and the host.                            *)

LEMMA WorldStep ==
    ASSUME CoreInv, (\E i \in Launches : Hang(i)) \/ GoSilent \/ Stop PROVE CoreInv'
  <1>1. /\ UNCHANGED <<next, restartAttempts, lastLedger, failing, exhausted, stored, handling,
                       settled, failures, crashes>>
    BY DEF Hang, GoSilent, Stop, core, memory, ledgers
  <1>2. FailInv' BY <1>1 DEF CoreInv, FailInv
  <1>3. PassedInv' BY <1>1, PassedSame DEF CoreInv
  <1>4. ASSUME NEW i \in Launches, Hang(i) PROVE TypeOK' /\ NeverAbandoned'
    <2>1. /\ stage[i] = "alive" /\ stage' = [stage EXCEPT ![i] = "hung"]
          /\ UNCHANGED <<current, startup, heart, timersOf, status, stopping, silent>>
      BY <1>4 DEF Hang, timers, memory
    <2>2. stage' \in [Launches -> {"none", "delayed", "loading", "writing", "alive", "hung", "gone"}]
      BY <2>1 DEF CoreInv, TypeOK
    <2>3. TypeOK' BY <1>1, <2>1, <2>2 DEF CoreInv, TypeOK
    <2>4. \A j \in Launches : \/ stage'[j] = stage[j]
                              \/ stage[j] = "alive" /\ stage'[j] = "hung"
      BY <2>1 DEF CoreInv, TypeOK
    <2>5. NeverAbandoned' BY <1>1, <2>1, <2>4 DEF CoreInv, NeverAbandoned
    <2> QED BY <2>3, <2>5
  <1>5. CASE GoSilent
    <2>1. silent' = TRUE /\ UNCHANGED <<stage, current, startup, heart, timersOf, status, stopping>>
      BY <1>5 DEF GoSilent, core, timers
    <2>2. TypeOK' BY <1>1, <2>1 DEF CoreInv, TypeOK
    <2>3. NeverAbandoned' BY <1>1, <2>1 DEF CoreInv, NeverAbandoned
    <2> QED BY <1>2, <1>3, <2>2, <2>3 DEF CoreInv
  <1>6. CASE Stop
    <2>1. /\ stopping' = TRUE /\ status' = "stopped" /\ clearTimers /\ stage' = Killed
          /\ current' = 0 /\ silent' = silent
      BY <1>6 DEF Stop
    <2>2. Killed \in [Launches -> {"none", "delayed", "loading", "writing", "alive", "hung", "gone"}]
      BY DEF CoreInv, TypeOK, Killed
    <2>3. startup' \subseteq Launches /\ heart' \subseteq Launches /\ timersOf' = 0
      BY <2>1 DEF clearTimers, CoreInv, TypeOK
    <2>4. TypeOK' BY <1>1, <2>1, <2>2, <2>3 DEF CoreInv, TypeOK
    <2>5. NeverAbandoned' BY <2>1 DEF NeverAbandoned
    <2> QED BY <1>2, <1>3, <2>4, <2>5 DEF CoreInv
  <1> QED BY <1>2, <1>3, <1>4, <1>5, <1>6 DEF CoreInv

\* A crash cuts the handlers short and starts over from the saved ledger.
LEMMA CrashStep == ASSUME CoreInv, Crash PROVE CoreInv'
  <1>1. /\ settled' = settled \cup {f.ledger : f \in handling} /\ handling' = {}
        /\ stage' = [i \in Launches |-> IF i = 1 THEN "loading" ELSE "none"]
        /\ next' = [i \in Launches |-> 1]
        /\ current' = 0 /\ timersOf' = 0 /\ startup' = {} /\ heart' = {}
        /\ status' = "starting" /\ restartAttempts' = 0 /\ lastLedger' = 0
        /\ stopping' = FALSE /\ silent' = FALSE /\ exhausted' = FALSE /\ failing' = 0
        /\ stored' = stored /\ failures' = failures
        /\ crashes < MaxCrashes /\ crashes' = crashes + 1
    BY DEF Crash
  <1>2. /\ stage' \in [Launches -> {"none", "delayed", "loading", "writing", "alive", "hung", "gone"}]
        /\ stage'[1] = "loading"
    BY <1>1, CoreFacts
  <1>3. next' \in [Launches -> 1 .. MaxLedger + 1] BY <1>1, CoreFacts
  <1>4. settled' \subseteq Ledgers BY <1>1 DEF CoreInv, TypeOK, Frames
  <1>5. /\ crashes' \in 0 .. MaxCrashes /\ failing' \in 0 .. MaxFailures
        /\ restartAttempts' \in 0 .. maxRestartAttempts
    BY <1>1, CoreFacts DEF CoreInv, TypeOK
  <1>6. TypeOK' BY <1>1, <1>2, <1>3, <1>4, <1>5 DEF CoreInv, TypeOK
  <1>7. FailInv' BY <1>1, CoreFacts DEF CoreInv, TypeOK, FailInv
  <1>8. PassedInv'
    <2>1. Accounted' = Accounted BY <1>1 DEF Accounted
    <2>2. ASSUME NEW l \in Ledgers, Passed(l)' PROVE Passed(l)
      <3>1. l \in Nat /\ l >= 1 BY CoreFacts DEF Ledgers
      <3>2. l <= stored BY <1>1, <2>2, <3>1 DEF Passed
      <3> QED BY <3>2 DEF Passed
    <2> QED BY <1>1, <2>1, <2>2 DEF CoreInv, PassedInv
  <1>9. NeverAbandoned' BY <1>2, CoreFacts DEF NeverAbandoned
  <1> QED BY <1>6, <1>7, <1>8, <1>9 DEF CoreInv

LEMMA CoreStep == CoreInv /\ [Next]_vars => CoreInv'
  <1> SUFFICES ASSUME CoreInv, [Next]_vars PROVE CoreInv' OBVIOUS
  <1>1. CASE FailEnds BY <1>1, FailEndsStep
  <1>2. ASSUME NEW i \in Launches, Launch(i) PROVE CoreInv'
    BY <1>2, DelayOverStep, LoadedStep, SpawnStep DEF Launch
  <1>3. ASSUME NEW i \in Launches,
               StartupFires(i) \/ HeartbeatFires(i) \/ Exit(i) \/ StreamFails(i)
        PROVE  CoreInv'
    BY <1>3, FailureStep
  <1>4. ASSUME NEW i \in Launches, Frame(i) \/ FrameBad(i) PROVE CoreInv'
    BY <1>4, FrameStep
  <1>5. CASE Handle BY <1>5, HandleStep DEF Handle
  <1>6. CASE (\E i \in Launches : Hang(i)) \/ GoSilent \/ Stop BY <1>6, WorldStep
  <1>7. CASE Crash BY <1>7, CrashStep
  <1>8. CASE UNCHANGED vars
    <2>1. UNCHANGED <<stage, next, current, startup, heart, timersOf, status, restartAttempts,
                      lastLedger, stopping, silent, stored, failing, handling, failures,
                      crashes, exhausted, settled>>
      BY <1>8 DEF vars, core, timers, memory, ledgers
    <2>2. TypeOK' /\ FailInv' BY <2>1 DEF CoreInv, TypeOK, FailInv
    <2>3. PassedInv' BY <2>1, PassedSame DEF CoreInv
    <2>4. NeverAbandoned' BY <2>1 DEF CoreInv, NeverAbandoned
    <2> QED BY <2>2, <2>3, <2>4 DEF CoreInv
  <1> QED BY <1>1, <1>2, <1>3, <1>4, <1>5, <1>6, <1>7, <1>8 DEF Next

LEMMA CoreImplied == CoreInv => SupervisionSafety
  <1> SUFFICES ASSUME CoreInv PROVE SupervisionSafety OBVIOUS
  <1>1. NoSilentGap BY DEF CoreInv, PassedInv, Passed, NoSilentGap
  <1> QED BY <1>1 DEF CoreInv, SupervisionSafety
-----------------------------------------------------------------------------
(* What runs after stop().                                               *)

\* Launches whose core lives or may still come to live.
Running == {i \in Launches : stage[i] \notin {"none", "gone"}}

\* Only the end of a fail() adds a launch, and it uses the failure up.
LEMMA StopSteps ==
    ASSUME CoreInv, Next, stopping, stopping'
    PROVE  \/ failing' = failing /\ Running' \subseteq Running
           \/ failing' = failing - 1 /\ \E j \in Launches : Running' \subseteq Running \cup {j}
  <1>1. CASE FailEnds
    <2>1. failing' = failing - 1 BY <1>1 DEF FailEnds
    <2>2. stage' = Killed \/ \E i \in Spare : stage' = Relaunched(i) BY <1>1 DEF FailEnds
    <2>3. \E j \in Launches : Running' \subseteq Running \cup {j}
      <3>1. CASE stage' = Killed
        <4>1. Running' \subseteq Running BY <3>1 DEF Running, Killed
        <4> QED BY <4>1, CoreFacts
      <3>2. ASSUME NEW j \in Spare, stage' = Relaunched(j)
            PROVE  j \in Launches /\ Running' \subseteq Running \cup {j}
        BY <3>2 DEF Running, Relaunched, Killed, Spare
      <3> QED BY <2>2, <3>1, <3>2
    <2> QED BY <2>1, <2>3
  <1>2. ASSUME NEW i \in Launches,
               Launch(i) \/ Hang(i) \/ Frame(i)
        PROVE  failing' = failing /\ Running' \subseteq Running
    <2>1. failing' = failing BY <1>2 DEF Launch, DelayOver, Loaded, Spawn, Hang, Frame, memory
    <2>2. \/ stage' = stage
          \/ stage[i] \notin {"none", "gone"} /\ \E w : stage' = [stage EXCEPT ![i] = w]
      BY <1>2 DEF Launch, DelayOver, Loaded, Spawn, Hang, Frame, core
    <2>3. Running' \subseteq Running BY <2>2 DEF Running, CoreInv, TypeOK
    <2> QED BY <2>1, <2>3
  <1>3. ASSUME NEW i \in Launches,
               \/ StartupFires(i) \/ HeartbeatFires(i) \/ FrameBad(i)
               \/ Exit(i) \/ StreamFails(i)
        PROVE  failing' = failing /\ Running' \subseteq Running
    <2>1. failing' = failing
      BY <1>3 DEF StartupFires, HeartbeatFires, FrameBad, Exit, StreamFails, fail
    <2>2. \/ stage' = stage
          \/ stage[i] \notin {"none", "gone"} /\ \E w : stage' = [stage EXCEPT ![i] = w]
      BY <1>3 DEF StartupFires, HeartbeatFires, FrameBad, Exit, StreamFails, core
    <2>3. Running' \subseteq Running BY <2>2 DEF Running, CoreInv, TypeOK
    <2> QED BY <2>1, <2>3
  <1>4. CASE Handle
    <2>1. stage' = stage /\ failing' = failing
      BY <1>4 DEF Handle, Delivered, SaveOk, HandlerFails, fail, core, memory
    <2> QED BY <2>1 DEF Running
  <1>5. CASE GoSilent
    <2>1. stage' = stage /\ failing' = failing BY <1>5 DEF GoSilent, core
    <2> QED BY <2>1 DEF Running
  <1>6. ~Stop /\ ~Crash BY DEF Stop, Crash
  <1> QED BY <1>1, <1>2, <1>3, <1>4, <1>5, <1>6 DEF Next

LEMMA StopCounts ==
    ASSUME CoreInv, [Next]_vars, stopping, stopping' PROVE MayRun' <= MayRun
  <1>1. /\ IsFiniteSet(Running) /\ IsFiniteSet(Running') /\ failing \in Nat
        /\ MayRun = failing + Cardinality(Running) /\ MayRun' = failing' + Cardinality(Running')
    <2>1. 1 \in Int /\ MaxFailures + 1 \in Int BY CoreFacts
    <2>2. IsFiniteSet(Launches) BY <2>1, FS_Interval DEF Launches
    <2>3. Running \subseteq Launches /\ Running' \subseteq Launches BY DEF Running
    <2>4. IsFiniteSet(Running) /\ IsFiniteSet(Running') BY <2>2, <2>3, FS_Subset
    <2>5. failing \in Nat BY CoreFacts DEF CoreInv, TypeOK
    <2> QED BY <2>4, <2>5 DEF MayRun, Running
  <1>2. Cardinality(Running) \in Nat /\ Cardinality(Running') \in Nat
    BY <1>1, FS_CardinalityType
  <1>3. CASE UNCHANGED vars
    <2>1. Running' = Running /\ failing' = failing BY <1>3 DEF vars, core, memory, Running
    <2> QED BY <1>1, <1>2, <2>1
  <1>4. CASE failing' = failing /\ Running' \subseteq Running
    <2>1. Cardinality(Running') <= Cardinality(Running) BY <1>1, <1>4, FS_Subset
    <2> QED BY <1>1, <1>2, <1>4, <2>1
  <1>5. ASSUME NEW j \in Launches, failing' = failing - 1, Running' \subseteq Running \cup {j}
        PROVE  MayRun' <= MayRun
    <2>1. /\ IsFiniteSet(Running \cup {j})
          /\ \/ Cardinality(Running \cup {j}) = Cardinality(Running)
             \/ Cardinality(Running \cup {j}) = Cardinality(Running) + 1
      BY <1>1, FS_AddElement
    <2>2. Cardinality(Running') <= Cardinality(Running \cup {j}) BY <1>5, <2>1, FS_Subset
    <2> QED BY <1>1, <1>2, <1>5, <2>1, <2>2
  <1> QED BY <1>3, <1>4, <1>5, StopSteps

-----------------------------------------------------------------------------
(* The theorems.                                                         *)

\* Whatever fails, restarts, overlaps or crashes, no ledger is left out silently and
\* the supervisor keeps a watched core until it is stopped or gives up.
THEOREM SupervisionCorrect == Spec => []SupervisionSafety
  <1> QED BY CoreInit, CoreStep, CoreImplied, PTL DEF Spec

\* Nothing is added after stop() to what runs or may come to run, for any number of
\* failures that wait and restarts that are scheduled.
THEOREM StopCorrect == Spec => StopWindsDown
  <1>1. CoreInv /\ [Next]_vars => [stopping /\ stopping' => MayRun' <= MayRun]_vars
    BY StopCounts
  <1> QED BY <1>1, CoreInit, CoreStep, PTL DEF Spec, StopWindsDown
=============================================================================
