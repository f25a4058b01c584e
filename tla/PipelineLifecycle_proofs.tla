---------------------- MODULE PipelineLifecycle_proofs ----------------------
(***************************************************************************)
(* Proofs about PipelineLifecycle.  The invariants that runs check are not *)
(* inductive: LifeInv adds who owns the references of the current loop,    *)
(* and LifeOrder, as long as no stop() has overlapped a start(), how       *)
(* running_, impl_->loop and the two calls under way depend on each other. *)
(***************************************************************************)
EXTENDS PipelineLifecycle, TLAPS

OwnerInv ==
    /\ owner = "newloop" => starts < MaxStarts
    /\ loop <= starts
    /\ myLoop <= starts
    /\ stopper = "unref" => loop # NoLoop

(* impl_->loop holds one reference, g_main_loop_run another. *)
RefsInv ==
    /\ loop # NoLoop => refs[loop] >= 1
    /\ thread \in {"arm", "run"} =>
          /\ myLoop # NoLoop
          /\ refs[myLoop] >= IF loop = myLoop THEN 2 ELSE 1

PipeInv == thread \in {"none", "play", "done"} => pipe = "null"

LifeInv == LifeTypeOK /\ OwnerInv /\ RefsInv /\ PipeInv

LEMMA LifeInvInit == LifeInit => LifeInv
  <1> SUFFICES ASSUME LifeInit PROVE LifeInv
    OBVIOUS
  <1> USE LifecycleAssumption DEF LifecycleAssumption, LifeInit, NoLoop, Loops
  <1>1. running \in BOOLEAN /\ crossed \in BOOLEAN
    OBVIOUS
  <1>2. refs \in [Loops -> Nat]
    OBVIOUS
  <1>3. LifeTypeOK
    BY <1>1, <1>2 DEF LifeTypeOK, OwnerAt, ThreadAt
  <1>4. OwnerInv /\ RefsInv /\ PipeInv
    BY DEF OwnerInv, RefsInv, PipeInv
  <1>5. QED
    BY <1>3, <1>4 DEF LifeInv

LEMMA LifeInvStep == LifeInv /\ [LifeNext]_lifeVars => LifeInv'
  <1> SUFFICES ASSUME LifeInv, [LifeNext]_lifeVars
               PROVE  LifeInv'
    OBVIOUS
  <1> USE LifecycleAssumption
      DEF LifecycleAssumption, LifeInv, LifeTypeOK, OwnerInv, RefsInv, PipeInv, OwnerAt, ThreadAt,
          Loops, NoLoop, glib
  <1>1. CASE StartEnter
    <2>1. crossed' \in BOOLEAN
      BY <1>1 DEF StartEnter
    <2>2. QED
      BY <1>1, <2>1 DEF StartEnter
  <1>2. CASE StartNewLoop
    BY <1>2 DEF StartNewLoop
  <1>3. CASE StartSpawn \/ StartTerminate \/ StartThrows
    BY <1>3 DEF StartSpawn, StartTerminate, StartThrows
  <1>4. CASE StopEnter
    <2>1. crossed' \in BOOLEAN
      BY <1>4 DEF StopEnter, Starting
    <2>2. QED
      BY <1>4, <2>1 DEF StopEnter
  <1>5. CASE StopQuit
    <2>1. looping' \in SUBSET Loops /\ stopper' \in {"idle", "unref"}
      BY <1>5 DEF StopQuit, QuitFlags
    <2>2. QED
      BY <1>5, <2>1 DEF StopQuit
  <1>6. CASE StopUnref
    BY <1>6 DEF StopUnref, Unreffed, LoopAfterStop
  <1>7. CASE WaitEnter \/ WaitJoin \/ DestroyEnter \/ DestroyJoin
    BY <1>7 DEF WaitEnter, WaitJoin, DestroyEnter, DestroyJoin
  <1>8. CASE ThreadPlay \/ ThreadLoad
    BY <1>8 DEF ThreadPlay, ThreadLoad
  <1>9. CASE ThreadEnter
    BY <1>9 DEF ThreadEnter, LoopNull, LoopLive, LoopFreed, AfterLoop
  <1>10. CASE ThreadArm
    BY <1>10 DEF ThreadArm
  <1>11. CASE ThreadExit
    BY <1>11 DEF ThreadExit, AfterLoop
  <1>12. CASE ThreadNull
    BY <1>12 DEF ThreadNull
  <1>13. CASE UNCHANGED lifeVars
    BY <1>13 DEF lifeVars
  <1>14. QED
    BY <1>1, <1>2, <1>3, <1>4, <1>5, <1>6, <1>7, <1>8, <1>9, <1>10, <1>11,
       <1>12, <1>13
       DEF LifeNext, QuietStep, OwnerStep, StopStep, LoopStep

(* With stop() at any moment and any number of restarts, threads,          *)
(* references and the state of the pipeline stay as LifeInv says           *)
(* (deepstream_pipeline.cpp lines 79-182).                                 *)
THEOREM LifecycleInvariant == LifeSpec => []LifeInv
  BY LifeInvInit, LifeInvStep, PTL DEF LifeSpec

(* Every variable of the lifecycle keeps its type: above all no reference  *)
(* count goes below zero, so no GMainLoop is unreffed after it was freed,  *)
(* even by a stop() from a signal handler (lines 160-164, 175-182).        *)
THEOREM LifecycleTyped == LifeSpec => []LifeTypeOK
  BY LifecycleInvariant, PTL DEF LifeInv

(* Once loop_thread is finished the pipeline is back in NULL, for any      *)
(* number of starts and any overlap with stop() (lines 162-164, 169-173).  *)
THEOREM LifecycleQuiet == LifeSpec => []QuietWhenJoined
  <1>1. LifeInv => QuietWhenJoined
    BY DEF LifeInv, PipeInv, QuietWhenJoined
  <1>2. QED
    BY LifecycleInvariant, <1>1, PTL

-----------------------------------------------------------------------------
(* From here on, what holds as long as no stop() has overlapped a start(). *)

LifeOrder ==
    /\ owner \in {"newloop", "spawn"} => running /\ stopper = "idle"
    /\ owner = "newloop" => loop = NoLoop
    /\ owner = "spawn" => loop # NoLoop
    /\ stopper # "idle" => ~running /\ loop # NoLoop
    /\ owner \notin {"newloop", "spawn", "terminated"} /\ stopper = "idle" =>
          (running <=> loop # NoLoop)

(* The references of every loop: impl_->loop's and g_main_loop_run's. *)
Held(l) == (IF l = loop THEN 1 ELSE 0)
         + (IF l = myLoop /\ thread \in {"arm", "run"} THEN 1 ELSE 0)
RefsExact == \A l \in Loops : refs[l] = Held(l)

LEMMA CrossedForGood ==
    ASSUME LifeTypeOK, [LifeNext]_lifeVars, ~crossed'
    PROVE  ~crossed
  BY DEF LifeTypeOK, LifeNext, QuietStep, OwnerStep, StopStep, LoopStep, lifeVars,
         StartEnter, StartNewLoop, StartSpawn, StartTerminate, StartThrows, StopEnter,
         StopQuit, StopUnref, WaitEnter, WaitJoin, DestroyEnter, DestroyJoin,
         ThreadPlay, ThreadLoad, ThreadEnter, ThreadArm, ThreadExit, ThreadNull

LEMMA LifeOrderStep ==
    ASSUME LifeInv, LifeOrder, [LifeNext]_lifeVars, ~crossed'
    PROVE  LifeOrder'
  <1> USE DEF LifeInv, LifeTypeOK, LifeOrder, NoLoop, Loops, glib
  <1>1. CASE StartEnter \/ StartNewLoop \/ StartSpawn \/ StartTerminate \/ StartThrows
    <2>1. StartEnter => stopper = "idle"
      BY DEF StartEnter
    <2>2. QED
      BY <1>1, <2>1 DEF StartEnter, StartNewLoop, StartSpawn, StartTerminate, StartThrows, OwnerInv
  <1>2. CASE StopEnter \/ StopQuit \/ StopUnref
    BY <1>2 DEF StopEnter, StopQuit, StopUnref, Starting, Alive, LoopAfterStop
  <1>3. CASE WaitEnter \/ WaitJoin \/ DestroyEnter \/ DestroyJoin
    BY <1>3 DEF WaitEnter, WaitJoin, DestroyEnter, DestroyJoin
  <1>4. CASE ThreadPlay \/ ThreadNull \/ LoopStep
    BY <1>4 DEF ThreadPlay, ThreadNull, LoopStep, ThreadLoad, ThreadEnter,
                ThreadArm, ThreadExit
  <1>5. CASE UNCHANGED lifeVars
    BY <1>5 DEF lifeVars
  <1>6. QED
    BY <1>1, <1>2, <1>3, <1>4, <1>5
       DEF LifeNext, QuietStep, OwnerStep, StopStep, LoopStep

LEMMA RefsExactStep ==
    ASSUME LifeInv, LifeOrder, RefsExact, [LifeNext]_lifeVars
    PROVE  RefsExact'
  <1> USE LifecycleAssumption
      DEF LifecycleAssumption, LifeInv, LifeTypeOK, OwnerInv, RefsExact, Held,
          NoLoop, Loops, glib
  <1>1. CASE StartNewLoop
    BY <1>1 DEF StartNewLoop, LifeOrder
  <1>2. CASE StopUnref
    BY <1>2 DEF StopUnref, Unreffed, LoopAfterStop
  <1>3. CASE StopQuit
    BY <1>3 DEF StopQuit
  <1>4. CASE ThreadEnter
    <2>1. CASE LoopNull \/ LoopFreed
      BY <1>4, <2>1 DEF ThreadEnter, LoopNull, LoopFreed, AfterLoop
    <2>2. CASE LoopLive
      <3>1. /\ myLoop \in Loops /\ thread = "enter" /\ thread' = "arm"
            /\ loop' = loop /\ myLoop' = myLoop
            /\ refs' = [refs EXCEPT ![myLoop] = @ + 1]
        BY <1>4, <2>2 DEF ThreadEnter, LoopLive
      <3>2. \A l \in Loops : refs'[l] = refs[l] + (IF l = myLoop THEN 1 ELSE 0)
        BY <3>1
      <3>3. QED
        BY <3>1, <3>2
    <2>3. QED
      BY <1>4, <2>1, <2>2 DEF ThreadEnter
  <1>5. CASE ThreadArm
    BY <1>5 DEF ThreadArm
  <1>6. CASE ThreadExit
    <2>1. /\ myLoop \in Loops /\ thread = "run" /\ thread' = "null"
          /\ loop' = loop /\ myLoop' = myLoop
          /\ refs' = [refs EXCEPT ![myLoop] = @ - 1]
      BY <1>6 DEF ThreadExit, AfterLoop, RefsInv
    <2>2. ASSUME NEW l \in Loops PROVE refs'[l] = Held(l)'
      <3>1. CASE l = myLoop
        BY <2>1, <3>1
      <3>2. CASE l # myLoop
        BY <2>1, <3>2
      <3>3. QED
        BY <3>1, <3>2
    <2>3. QED
      BY <2>2
  <1>7. CASE ThreadPlay \/ ThreadLoad \/ ThreadNull
    BY <1>7 DEF ThreadPlay, ThreadLoad, ThreadNull
  <1>8. CASE StartEnter \/ StartSpawn \/ StartTerminate \/ StartThrows \/ StopEnter
    BY <1>8 DEF StartEnter, StartSpawn, StartTerminate, StartThrows, StopEnter
  <1>9. CASE WaitEnter \/ WaitJoin \/ DestroyEnter \/ DestroyJoin
    BY <1>9 DEF WaitEnter, WaitJoin, DestroyEnter, DestroyJoin
  <1>10. CASE UNCHANGED lifeVars
    BY <1>10 DEF lifeVars
  <1>11. QED
    BY <1>1, <1>2, <1>3, <1>4, <1>5, <1>6, <1>7, <1>8, <1>9,
       <1>10
       DEF LifeNext, QuietStep, OwnerStep, StopStep, LoopStep

OrderedInv == ~crossed => LifeOrder /\ RefsExact

LEMMA OrderedInvariant == LifeSpec => [](LifeInv /\ OrderedInv)
  <1>1. LifeInit => OrderedInv
    BY DEF LifeInit, OrderedInv, LifeOrder, RefsExact, Held, NoLoop, Loops
  <1>2. LifeInv /\ OrderedInv /\ [LifeNext]_lifeVars => OrderedInv'
    <2> SUFFICES ASSUME LifeInv, OrderedInv, [LifeNext]_lifeVars, ~crossed'
                 PROVE  LifeOrder' /\ RefsExact'
      BY DEF OrderedInv
    <2>1. ~crossed
      BY CrossedForGood DEF LifeInv
    <2>2. QED
      BY <2>1, LifeOrderStep, RefsExactStep DEF OrderedInv
  <1>3. QED
    BY <1>1, <1>2, LifecycleInvariant, PTL DEF LifeSpec

(* Outside a call, impl_->loop is set exactly when running_ is, over any   *)
(* number of restarts and with stop() at any moment, unless one has        *)
(* overlapped a start() (lines 157-160, 176-182).                          *)
THEOREM LoopMatchesFlag == LifeSpec => []LoopIffRunning
  <1>1. OrderedInv => LoopIffRunning
    BY DEF OrderedInv, LifeOrder, LoopIffRunning
  <1>2. QED
    BY OrderedInvariant, <1>1, PTL

(* Every GMainLoop is freed once its run is over, with the same exception  *)
(* (lines 160, 163, 180-181).                                              *)
THEOREM LoopsFreed == LifeSpec => []NoLoopLeak
  <1>1. LifeInv /\ OrderedInv => NoLoopLeak
    BY DEF OrderedInv, LifeOrder, RefsExact, Held, NoLoopLeak, Loops, NoLoop
  <1>2. QED
    BY OrderedInvariant, <1>1, PTL

=============================================================================
