------------------------- MODULE PipelineLifecycle -------------------------
(***************************************************************************)
(* The life of one DeepStreamPipeline object: start(), stop(), wait() and  *)
(* the destructor, the thread that start() spawns, and the GMainLoop they  *)
(* share through the unprotected pointer impl_->loop.                      *)
(*                                                                         *)
(* Three processes take steps:                                             *)
(*   owner    the thread that constructs the object and calls start(),     *)
(*            wait() and the destructor;                                   *)
(*   stopper  whoever calls stop(): the owner between two of its other     *)
(*            calls, a signal handler or another thread, at any moment;    *)
(*   thread   impl_->loop_thread.                                          *)
(* A step is a stretch of code between two accesses to what they share.    *)
(***************************************************************************)
EXTENDS Naturals

CONSTANT MaxStarts   \* bound: how often start() gets as far as making a loop

ASSUME LifecycleAssumption == MaxStarts \in Nat

VARIABLES
    running,     \* running_
    pipe,        \* state of the GstPipeline: "null", "live", or "failed" when
                 \* a change to PLAYING failed half-way
    owner,       \* where the owner is; "terminated" after std::terminate
    stopper,     \* where a call of stop() is
    thread,      \* where loop_thread is; joinable unless "none"
    loop,        \* impl_->loop: a loop number or NoLoop
    myLoop,      \* the pointer loop_thread passed to g_main_loop_run
    refs,        \* GMainLoop reference counts; freed at 0
    looping,     \* loops whose is_running flag is set
    starts,      \* loops made so far
    crossed      \* history: has a stop() overlapped a start()?

glib == <<loop, myLoop, refs, looping>>
lifeVars == <<running, pipe, owner, stopper, thread, glib, starts, crossed>>

NoLoop == 0
Loops == 1..MaxStarts

OwnerAt == {"idle", "newloop", "spawn", "throwing", "join", "djoin", "terminated", "gone"}
ThreadAt == {"none", "play", "load", "enter", "arm", "run", "stray", "null", "done"}

LifeTypeOK ==
    /\ running \in BOOLEAN
    /\ pipe \in {"null", "live", "failed"}
    /\ owner \in OwnerAt
    /\ stopper \in {"idle", "quit", "unref"}
    /\ thread \in ThreadAt
    /\ loop \in Loops \cup {NoLoop}
    /\ myLoop \in Loops \cup {NoLoop}
    /\ refs \in [Loops -> Nat]
    /\ looping \in SUBSET Loops
    /\ starts \in 0..MaxStarts
    /\ crossed \in BOOLEAN

LifeInit ==
    /\ running = FALSE
    /\ pipe = "null"
    /\ owner = "idle"
    /\ stopper = "idle"
    /\ thread = "none"
    /\ loop = NoLoop
    /\ myLoop = NoLoop
    /\ refs = [l \in Loops |-> 0]
    /\ looping = {}
    /\ starts = 0
    /\ crossed = FALSE

(* What the four small steps below leave behind, and, for each, what a     *)
(* fault in it would: the fault variants are used by no action.            *)
FaultUnrefTwice == [refs EXCEPT ![loop] = @ - 2]
FaultNoUnref == refs
Unreffed == [refs EXCEPT ![loop] = @ - 1]

FaultNoQuit == looping
QuitFlags == looping \ {loop}

FaultNoReset == loop
LoopAfterStop == NoLoop

FaultNoNull == "done"
AfterLoop == "null"

Alive == owner \notin {"terminated", "gone"}
Starting == owner \in {"newloop", "spawn"}

-----------------------------------------------------------------------------
(* start().  A call that finds running_ set returns at once: a stutter.    *)

StartEnter ==
    /\ owner = "idle"
    /\ ~running
    /\ starts < MaxStarts
    /\ running' = TRUE
    /\ owner' = "newloop"
    /\ crossed' = (crossed \/ stopper # "idle")
    /\ UNCHANGED <<pipe, stopper, thread, glib, starts>>

StartNewLoop ==
    /\ owner = "newloop"
    /\ starts' = starts + 1
    /\ loop' = starts'
    /\ refs' = [refs EXCEPT ![starts'] = 1]
    /\ owner' = "spawn"
    /\ UNCHANGED <<running, pipe, stopper, thread, myLoop, looping, crossed>>

StartSpawn ==
    /\ owner = "spawn"
    /\ thread = "none"
    /\ thread' = "play"
    /\ owner' = "idle"
    /\ UNCHANGED <<running, pipe, stopper, glib, starts, crossed>>

(* Assigning to a std::thread that is still joinable calls std::terminate. *)
StartTerminate ==
    /\ owner = "spawn"
    /\ thread # "none"
    /\ owner' = "terminated"
    /\ UNCHANGED <<running, pipe, stopper, thread, glib, starts, crossed>>

(* The system has no thread to give: std::system_error leaves start() with *)
(* running_ set and a loop made, and the owner, as in face_server, unwinds *)
(* through the destructor.                                                 *)
StartThrows ==
    /\ owner = "spawn"
    /\ owner' = "throwing"
    /\ UNCHANGED <<running, pipe, stopper, thread, glib, starts, crossed>>

-----------------------------------------------------------------------------
(* stop().  A call that finds running_ clear returns at once: a stutter.   *)

StopEnter ==
    /\ Alive
    /\ stopper = "idle"
    /\ running
    /\ running' = FALSE
    /\ stopper' = "quit"
    /\ crossed' = (crossed \/ Starting)
    /\ UNCHANGED <<pipe, owner, thread, glib, starts>>

StopQuit ==
    /\ Alive
    /\ stopper = "quit"
    /\ \/ /\ loop = NoLoop
          /\ stopper' = "idle"
          /\ UNCHANGED looping
       \/ /\ loop # NoLoop
          /\ looping' = QuitFlags
          /\ stopper' = "unref"
    /\ UNCHANGED <<running, pipe, owner, thread, loop, myLoop, refs, starts, crossed>>

StopUnref ==
    /\ Alive
    /\ stopper = "unref"
    /\ refs' = Unreffed
    /\ loop' = LoopAfterStop
    /\ stopper' = "idle"
    /\ UNCHANGED <<running, pipe, owner, thread, myLoop, looping, starts, crossed>>

-----------------------------------------------------------------------------
(* wait(), and the destructor: stop(), join, set the pipeline to NULL.     *)

WaitEnter ==
    /\ owner = "idle"
    /\ thread # "none"
    /\ owner' = "join"
    /\ UNCHANGED <<running, pipe, stopper, thread, glib, starts, crossed>>

WaitJoin ==
    /\ owner = "join"
    /\ thread = "done"
    /\ thread' = "none"
    /\ owner' = "idle"
    /\ UNCHANGED <<running, pipe, stopper, glib, starts, crossed>>

DestroyEnter ==
    /\ owner \in {"idle", "throwing"}
    /\ stopper = "idle"
    /\ running' = FALSE
    /\ stopper' = IF running THEN "quit" ELSE "idle"
    /\ owner' = "djoin"
    /\ UNCHANGED <<pipe, thread, glib, starts, crossed>>

DestroyJoin ==
    /\ owner = "djoin"
    /\ stopper = "idle"
    /\ thread \in {"none", "done"}
    /\ thread' = "none"
    /\ pipe' = "null"
    /\ owner' = "gone"
    /\ UNCHANGED <<running, stopper, glib, starts, crossed>>

-----------------------------------------------------------------------------
(* loop_thread, and inside it g_main_loop_run: reject a null pointer, take *)
(* a reference, set is_running, iterate until it is cleared, drop the      *)
(* reference.                                                              *)

ThreadPlay ==
    /\ Alive
    /\ thread = "play"
    /\ pipe' \in {"live", "failed"}     \* line 162 ignores the result
    /\ thread' = "load"
    /\ UNCHANGED <<running, owner, stopper, glib, starts, crossed>>

ThreadLoad ==
    /\ Alive
    /\ thread = "load"
    /\ myLoop' = loop
    /\ thread' = "enter"
    /\ UNCHANGED <<running, pipe, owner, stopper, loop, refs, looping, starts, crossed>>

LoopNull ==
    /\ myLoop = NoLoop
    /\ thread' = AfterLoop
    /\ UNCHANGED refs

LoopLive ==
    /\ myLoop # NoLoop
    /\ refs[myLoop] > 0
    /\ thread' = "arm"
    /\ refs' = [refs EXCEPT ![myLoop] = @ + 1]

(* Reading a freed loop: its reference count reads as zero and the call    *)
(* returns, or the call goes on in memory no stop() will ever touch.       *)
LoopFreed ==
    /\ myLoop # NoLoop
    /\ refs[myLoop] = 0
    /\ thread' \in {AfterLoop, "stray"}
    /\ UNCHANGED refs

ThreadEnter ==
    /\ Alive
    /\ thread = "enter"
    /\ LoopNull \/ LoopLive \/ LoopFreed
    /\ UNCHANGED <<running, pipe, owner, stopper, loop, myLoop, looping, starts, crossed>>

ThreadArm ==
    /\ Alive
    /\ thread = "arm"
    /\ looping' = looping \cup {myLoop}
    /\ thread' = "run"
    /\ UNCHANGED <<running, pipe, owner, stopper, loop, myLoop, refs, starts, crossed>>

ThreadExit ==
    /\ Alive
    /\ thread = "run"
    /\ myLoop \notin looping
    /\ refs' = [refs EXCEPT ![myLoop] = @ - 1]
    /\ thread' = AfterLoop
    /\ UNCHANGED <<running, pipe, owner, stopper, loop, myLoop, looping, starts, crossed>>

ThreadNull ==
    /\ Alive
    /\ thread = "null"
    /\ pipe' = "null"
    /\ thread' = "done"
    /\ UNCHANGED <<running, owner, stopper, glib, starts, crossed>>

-----------------------------------------------------------------------------
(* Steps that touch neither the pipeline's state nor the object's end.     *)
OwnerStep == StartNewLoop \/ StartSpawn \/ StartTerminate \/ StartThrows \/ WaitJoin
StopStep == StopQuit \/ StopUnref
LoopStep == ThreadLoad \/ ThreadEnter \/ ThreadArm \/ ThreadExit
QuietStep == StartEnter \/ StopEnter \/ WaitEnter \/ OwnerStep \/ StopStep \/ LoopStep

LifeNext == QuietStep \/ DestroyEnter \/ DestroyJoin \/ ThreadPlay \/ ThreadNull

(* A call that has begun goes on, and so does the thread: nothing in the   *)
(* code or in GLib blocks them for ever but the conditions in the guards.  *)
(* Nobody is obliged to call anything.                                     *)
LifeFairness ==
    /\ WF_lifeVars(OwnerStep \/ DestroyJoin)
    /\ WF_lifeVars(StopStep)
    /\ WF_lifeVars(LoopStep \/ ThreadPlay \/ ThreadNull)

LifeSpec == LifeInit /\ [][LifeNext]_lifeVars /\ LifeFairness

-----------------------------------------------------------------------------
(* Once loop_thread is not running any more - wait() has returned or is    *)
(* about to - the pipeline is in NULL again, however start() and stop()    *)
(* overlapped, and whatever g_main_loop_run did (lines 162-164, 169-173).  *)
QuietWhenJoined == thread \in {"none", "done"} => pipe = "null"

(* Outside a call, impl_->loop is set exactly when running_ is, unless a   *)
(* stop() has overlapped a start(): so a stop() that finds running_ set    *)
(* always has a loop to quit, and start() never overwrites a loop it would *)
(* leak.  A stop() that overlaps a wait(), the loop thread or a start()    *)
(* that throws does no harm (lines 157-160, 176-182).                      *)
LoopIffRunning ==
    ~crossed /\ owner = "idle" /\ stopper = "idle" => (running <=> loop # NoLoop)

(* No GMainLoop outlives its run: with the object stopped and its thread   *)
(* finished, the references start() and g_main_loop_run took are all       *)
(* returned, over every restart, unless a stop() has overlapped a start()  *)
(* (lines 160, 163, 180-181).                                              *)
NoLoopLeak ==
    /\ ~crossed /\ owner = "idle" /\ stopper = "idle" /\ ~running
    /\ thread \in {"none", "done"}
    => \A l \in Loops : refs[l] = 0

(* A stop() that finds the thread inside g_main_loop_run on the loop it is *)
(* about to quit ends it, whoever else calls what in the meantime (lines   *)
(* 160, 163, 176-184), unless the process is torn down first or a start()  *)
(* that overlaps a stop() puts the next loop in the place of this one.     *)
StopEndsRun ==
    (thread = "run" /\ stopper = "quit" /\ loop = myLoop)
        ~> (thread \in {"done", "none"} \/ ~Alive \/ (crossed /\ starts > 1))

-----------------------------------------------------------------------------
(* What the header says of the class; the code does not keep this.         *)

(* "Request graceful shutdown." then "Block until the pipeline has         *)
(* stopped.": once a stop() is complete, wait() returns, at least where no *)
(* stop() has overlapped a start().                                        *)
WaitReturns ==
    (owner = "join" /\ ~running /\ stopper = "idle" /\ ~crossed) ~> owner # "join"
=============================================================================
