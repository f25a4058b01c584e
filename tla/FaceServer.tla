---------------------------- MODULE FaceServer -----------------------------
(***************************************************************************)
(* face_server: main() loads the configuration, constructs the components  *)
(* from it, installs its signal handlers, starts the pipeline, polls a     *)
(* flag the handlers set, stops the pipeline, waits for it and leaves      *)
(* through the destructors.  The pipeline is that of PipelineLifecycle,    *)
(* whose owner is main(); its loop thread and the signals interleave with  *)
(* every step of it.                                                       *)
(***************************************************************************)
EXTENDS PipelineLifecycle, SystemConfig

CONSTANT Documents   \* what --config may name

ASSUME ServerAssumption == MaxStarts = 1
ASSUME DocumentsAssumption == \A d \in Documents : d # NoDocument => Typed(d)

VARIABLES
    doc,          \* the configuration file
    config,       \* cfg
    main,         \* where main() is
    handled,      \* the signals with a handler of ours
    g_shutdown,
    failed,       \* is an exception on its way to the catch clause?
    exit          \* "running", or how the process ended

serverVars == <<doc, config, main, handled, g_shutdown, failed, exit>>
vars == <<lifeVars, serverVars>>

Signals == {"SIGINT", "SIGTERM"}
kMaxSourcesHardLimit == 32
Levels == {"trace", "debug", "info", "warn", "warning", "error", "err", "critical", "off"}

TypeOK ==
    /\ LifeTypeOK
    /\ main \in {"load", "construct", "install", "start", "poll", "stop", "wait", "leave"}
    /\ handled \subseteq Signals
    /\ g_shutdown \in BOOLEAN
    /\ failed \in BOOLEAN
    /\ exit \in {"running", "success", "failure", "killed"}

Init ==
    /\ LifeInit
    /\ doc \in Documents
    /\ config = Defaults
    /\ main = "load"
    /\ handled = {}
    /\ g_shutdown = FALSE
    /\ failed = FALSE
    /\ exit = "running"

-----------------------------------------------------------------------------
(* main(), up to pipeline.start(): nothing of the pipeline moves.          *)

Load ==
    /\ main = "load"
    /\ \/ /\ Loads(doc)
          /\ config' = Merged(doc)
          /\ main' = "construct"
          /\ UNCHANGED exit
       \/ /\ ~Loads(doc)
          /\ exit' = "failure"
          /\ UNCHANGED <<config, main>>
    /\ UNCHANGED <<lifeVars, doc, handled, g_shutdown, failed>>

FaultStartsAtOnce == "start"
AfterConstruct == "install"

Construct ==
    /\ main = "construct"
    /\ config.logging.level \in Levels
    /\ config.pipeline.max_streams <= kMaxSourcesHardLimit
    /\ main' = AfterConstruct
    /\ UNCHANGED <<lifeVars, doc, config, handled, g_shutdown, failed, exit>>

(* A level or a number of streams out of range, an engine that does not    *)
(* load, no memory on the GPU, an element GStreamer does not have.         *)
ConstructFails ==
    /\ main = "construct"
    /\ exit' = "failure"
    /\ UNCHANGED <<lifeVars, doc, config, main, handled, g_shutdown, failed>>

Install ==
    /\ main = "install"
    /\ \/ handled = {} /\ handled' = {"SIGINT"} /\ UNCHANGED main
       \/ handled = {"SIGINT"} /\ handled' = Signals /\ main' = "start"
    /\ UNCHANGED <<lifeVars, doc, config, g_shutdown, failed, exit>>

(* From here on main() takes the steps of the pipeline's owner.            *)

Start ==
    /\ main = "start"
    /\ \/ (StartEnter \/ StartNewLoop) /\ UNCHANGED <<main, failed>>
       \/ StartSpawn /\ main' = "poll" /\ UNCHANGED failed
       \/ StartThrows /\ main' = "leave" /\ failed' = TRUE
    /\ UNCHANGED <<doc, config, handled, g_shutdown, exit>>

Poll ==
    /\ main = "poll"
    /\ g_shutdown
    /\ main' = "stop"
    /\ UNCHANGED <<lifeVars, doc, config, handled, g_shutdown, failed, exit>>

Stop ==
    /\ main = "stop"
    /\ StopEnter \/ StopStep
    /\ main' = IF stopper' = "idle" THEN "wait" ELSE "stop"
    /\ UNCHANGED <<doc, config, handled, g_shutdown, failed, exit>>

Wait ==
    /\ main = "wait"
    /\ \/ WaitEnter /\ UNCHANGED main
       \/ WaitJoin /\ main' = "leave"
    /\ UNCHANGED <<doc, config, handled, g_shutdown, failed, exit>>

(* The destructor, at the end of the block or on the way to the catch.     *)
Leave ==
    /\ main = "leave"
    /\ \/ (DestroyEnter \/ StopStep) /\ UNCHANGED exit
       \/ DestroyJoin /\ exit' = IF failed THEN "failure" ELSE "success"
    /\ UNCHANGED <<doc, config, main, handled, g_shutdown, failed>>

MainStep ==
    Load \/ Construct \/ ConstructFails \/ Install \/ Start \/ Poll \/ Stop \/ Wait \/ Leave

-----------------------------------------------------------------------------
ThreadStep ==
    /\ LoopStep \/ ThreadPlay \/ ThreadNull
    /\ UNCHANGED serverVars

signal_handler(s) ==
    /\ s \in handled
    /\ g_shutdown' = TRUE
    /\ UNCHANGED <<lifeVars, doc, config, main, handled, failed, exit>>

(* Without a handler the signal ends the process where it stands.          *)
DefaultAction(s) ==
    /\ s \notin handled
    /\ exit' = "killed"
    /\ UNCHANGED <<lifeVars, doc, config, main, handled, g_shutdown, failed>>

Next ==
    /\ exit = "running"
    /\ \/ MainStep \/ ThreadStep
       \/ \E s \in Signals : signal_handler(s) \/ DefaultAction(s)

(* main() and the loop thread keep running; nobody has to send a signal.   *)
Fairness ==
    /\ WF_vars(exit = "running" /\ MainStep)
    /\ WF_vars(exit = "running" /\ ThreadStep)

Spec == Init /\ [][Next]_vars /\ Fairness

-----------------------------------------------------------------------------
(* Each setting in use is what the file says or, where it says nothing,    *)
(* the struct's own default, though load() writes the defaults down a      *)
(* second time for keys missing from a section (system_config.cpp 119-166).*)
Written(s, k) == s \in DOMAIN doc /\ k \in DOMAIN doc[s]

ConfigAsWritten ==
    main # "load" =>
        \A s \in Sections : \A k \in DOMAIN Defaults[s] :
            config[s][k] = IF Written(s, k) THEN Meaning(k, doc[s][k]) ELSE Defaults[s][k]

(* Once the components are constructed, their settings are such as they    *)
(* work with: what the other modules assume of their constants, a product  *)
(* quantizer that divides the embedding (system_config.cpp 68-108,         *)
(* deepstream_pipeline.cpp 37).                                            *)
ConfigFits ==
    main \notin {"load", "construct"} =>
        /\ config.pipeline.max_streams \in 1..kMaxSourcesHardLimit
        /\ config.pipeline.batch_size >= 1
        /\ \A k \in {"input_width", "input_height"} :
              config.detection[k] > 0 /\ config.detection[k] % 32 = 0
        /\ config.detection.nms_iou_threshold \in 0..100
        /\ config.encoding.batch_size >= 1 /\ config.recognition.top_k >= 1
        /\ config.faiss.index_type = "ivf_pq" =>
              \E sub \in 1..config.encoding.embedding_dim :
                  config.faiss.pq_m * sub = config.encoding.embedding_dim

(* A face identical to an enrolled one and unlike all others is named,     *)
(* whatever thresholds were accepted: none of them, above all not one that *)
(* is no number, turns match_decision into a rule that rejects everybody,  *)
(* with the inner product, where a perfect hit is 1 and the next may be -1 *)
(* (system_config.cpp 13-17, 103-107; match_decision.hpp 18-27).           *)
ThresholdsUsable ==
    main # "load" =>
        /\ AtLeast(100, config.recognition.threshold)
        /\ AtLeast(100 - (-100), config.recognition.margin_min)

(* A signal kills the process only while no pipeline runs: there is no     *)
(* moment at which one is live and a handler missing (main.cpp 69-72).     *)
LivePipelineNotKilled == exit = "killed" => thread = "none" /\ pipe = "null"

(* main() never returns over a running pipeline, on its way out normally   *)
(* or through an exception of start(): the thread is joined, the pipeline  *)
(* in NULL, each GMainLoop freed; and it returns success only when it was  *)
(* asked to stop (main.cpp 67-88, deepstream_pipeline.cpp 79-88).          *)
ExitIsClean ==
    exit \in {"success", "failure"} =>
        /\ thread = "none" /\ pipe = "null"
        /\ \A l \in Loops : refs[l] = 0
        /\ exit = "success" => g_shutdown

(* Asked to stop while its loop runs, the server does, with success.  A    *)
(* signal so early that main() calls stop() before g_main_loop_run is the  *)
(* lost stop of WaitReturns (main.cpp 75-82).                              *)
ShutdownServed == (g_shutdown /\ main = "poll" /\ thread = "run") ~> exit = "success"
=============================================================================
