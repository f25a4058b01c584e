------------------------- MODULE FaceServer_proofs --------------------------
(***************************************************************************)
(* face_server takes the steps of PipelineLifecycle in an order of its     *)
(* own, so the lifecycle's inductive invariant carries over; ServerInv     *)
(* adds which of them it has taken by when, and what handlers it has.      *)
(* main() makes its calls one after the other, so none is ever crossed.    *)
(***************************************************************************)
EXTENDS FaceServer, PipelineLifecycle_proofs

Untouched ==
    /\ owner = "idle" /\ stopper = "idle" /\ thread = "none"
    /\ pipe = "null" /\ loop = NoLoop

GoneInv ==
    /\ owner \in {"djoin", "gone"} => ~running
    /\ owner = "gone" => thread = "none" /\ pipe = "null" /\ stopper = "idle"

OrderInv ==
    /\ main \in {"load", "construct", "install"} => Untouched
    /\ main \notin {"load", "construct", "install"} => handled = Signals
    /\ main \in {"stop", "wait"} => g_shutdown
    /\ main = "leave" /\ ~failed => g_shutdown

CallsInv ==
    /\ ~crossed
    /\ main \in {"start", "poll"} => stopper = "idle"
    /\ main \in {"poll", "stop"} => owner = "idle"

ExitInv ==
    /\ exit = "killed" => thread = "none" /\ pipe = "null"
    /\ exit \in {"success", "failure"} => Untouched \/ owner = "gone"
    /\ exit = "success" => g_shutdown

ServerInv ==
    LifeInv /\ LifeOrder /\ RefsExact /\ GoneInv /\ OrderInv /\ CallsInv /\ ExitInv

(* The steps of the server, in those of the pipeline. *)
LEMMA ServerTakesLifeSteps == [Next]_vars => [LifeNext]_lifeVars
  <1> SUFFICES ASSUME [Next]_vars PROVE [LifeNext]_lifeVars
    OBVIOUS
  <1> USE DEF LifeNext, QuietStep, OwnerStep, StopStep
  <1>1. CASE Load \/ Construct \/ ConstructFails \/ Install \/ Poll
    BY <1>1 DEF Load, Construct, ConstructFails, Install, Poll
  <1>2. CASE Start
    BY <1>2 DEF Start
  <1>3. CASE Stop \/ Wait \/ Leave
    BY <1>3 DEF Stop, Wait, Leave
  <1>4. CASE ThreadStep
    BY <1>4 DEF ThreadStep
  <1>5. CASE \E s \in Signals : signal_handler(s) \/ DefaultAction(s)
    BY <1>5 DEF signal_handler, DefaultAction
  <1>6. CASE UNCHANGED vars
    BY <1>6 DEF vars
  <1>7. QED
    BY <1>1, <1>2, <1>3, <1>4, <1>5, <1>6 DEF Next, MainStep

(* main() drives the pipeline in ways its lifecycle allows, and touches it *)
(* in no other (main.cpp lines 67-88).                                     *)
THEOREM ServerDrivesPipeline == Spec => LifeInit /\ [][LifeNext]_lifeVars
  <1>1. Init => LifeInit
    BY DEF Init
  <1>2. QED
    BY <1>1, ServerTakesLifeSteps, PTL DEF Spec

LEMMA ServerInvInit == Init => ServerInv
  <1> SUFFICES ASSUME Init PROVE ServerInv
    OBVIOUS
  <1>1. LifeInv
    BY LifeInvInit DEF Init
  <1>2. LifeOrder /\ RefsExact
    BY DEF Init, LifeInit, LifeOrder, RefsExact, Held, NoLoop, Loops
  <1>3. GoneInv /\ OrderInv /\ CallsInv /\ ExitInv
    BY DEF Init, LifeInit, GoneInv, OrderInv, CallsInv, ExitInv, Untouched
  <1>4. QED
    BY <1>1, <1>2, <1>3 DEF ServerInv

LEMMA GoneInvStep ==
    ASSUME ServerInv, [LifeNext]_lifeVars
    PROVE  GoneInv'
  <1> USE DEF ServerInv, LifeInv, LifeTypeOK, GoneInv, glib
  <1>1. CASE StartEnter \/ OwnerStep \/ WaitEnter
    BY <1>1 DEF StartEnter, WaitEnter, OwnerStep, StartNewLoop, StartSpawn,
                StartTerminate, StartThrows, WaitJoin
  <1>2. CASE StopEnter \/ StopStep
    BY <1>2 DEF StopEnter, StopStep, StopQuit, StopUnref, Alive
  <1>3. CASE DestroyEnter \/ DestroyJoin
    BY <1>3 DEF DestroyEnter, DestroyJoin
  <1>4. CASE LoopStep \/ ThreadPlay \/ ThreadNull
    BY <1>4 DEF LoopStep, ThreadLoad, ThreadEnter, ThreadArm, ThreadExit, ThreadPlay,
                ThreadNull, Alive
  <1>5. CASE UNCHANGED lifeVars
    BY <1>5 DEF lifeVars
  <1>6. QED
    BY <1>1, <1>2, <1>3, <1>4, <1>5 DEF LifeNext, QuietStep

(* Nothing of the pipeline moves before main() starts it. *)
LEMMA OrderExitStep ==
    ASSUME ServerInv, Next
    PROVE  OrderInv' /\ ExitInv'
  <1> USE DEF ServerInv, GoneInv, OrderInv, ExitInv, Untouched, Next
  <1>1. CASE Load \/ Construct \/ ConstructFails \/ Install \/ Poll
    BY <1>1 DEF Load, Construct, ConstructFails, Install, Poll, AfterConstruct, lifeVars, glib
  <1>2. CASE Start
    BY <1>2 DEF Start
  <1>3. CASE Stop
    BY <1>3 DEF Stop
  <1>4. CASE Wait
    BY <1>4 DEF Wait
  <1>5. CASE Leave
    BY <1>5 DEF Leave, DestroyJoin
  <1>6. CASE ThreadStep
    BY <1>6 DEF ThreadStep, serverVars, LoopStep, ThreadLoad, ThreadEnter, ThreadArm,
                ThreadExit, ThreadPlay, ThreadNull
  <1>7. CASE \E s \in Signals : signal_handler(s) \/ DefaultAction(s)
    BY <1>7 DEF signal_handler, DefaultAction, lifeVars, glib
  <1>8. QED
    BY <1>1, <1>2, <1>3, <1>4, <1>5, <1>6, <1>7 DEF MainStep

LEMMA CallsStep ==
    ASSUME ServerInv, Next
    PROVE  CallsInv'
  <1> USE DEF ServerInv, OrderInv, CallsInv, Untouched, Next
  <1>1. CASE Load \/ Construct \/ ConstructFails \/ Install \/ Poll
    BY <1>1 DEF Load, Construct, ConstructFails, Install, Poll, AfterConstruct, lifeVars
  <1>2. CASE Start
    <2>1. ~crossed'
      BY <1>2 DEF Start, StartEnter, StartNewLoop, StartSpawn, StartThrows
    <2>2. QED
      BY <1>2, <2>1 DEF Start, StartEnter, StartNewLoop, StartSpawn, StartThrows
  <1>3. CASE Stop
    <2>1. ~crossed'
      BY <1>3 DEF Stop, StopEnter, StopStep, StopQuit, StopUnref, Starting
    <2>2. QED
      BY <1>3, <2>1 DEF Stop, StopEnter, StopStep, StopQuit, StopUnref
  <1>4. CASE Wait
    BY <1>4 DEF Wait, WaitEnter, WaitJoin
  <1>5. CASE Leave
    BY <1>5 DEF Leave, DestroyEnter, StopStep, StopQuit, StopUnref, DestroyJoin
  <1>6. CASE ThreadStep
    BY <1>6 DEF ThreadStep, serverVars, LoopStep, ThreadLoad, ThreadEnter, ThreadArm,
                ThreadExit, ThreadPlay, ThreadNull
  <1>7. CASE \E s \in Signals : signal_handler(s) \/ DefaultAction(s)
    BY <1>7 DEF signal_handler, DefaultAction, lifeVars
  <1>8. QED
    BY <1>1, <1>2, <1>3, <1>4, <1>5, <1>6, <1>7 DEF MainStep

LEMMA ServerInvStep == ServerInv /\ [Next]_vars => ServerInv'
  <1> SUFFICES ASSUME ServerInv, [Next]_vars PROVE ServerInv'
    OBVIOUS
  <1>1. [LifeNext]_lifeVars
    BY ServerTakesLifeSteps
  <1>2. CallsInv'
    <2>1. CASE Next
      BY <2>1, CallsStep
    <2>2. CASE UNCHANGED vars
      BY <2>2 DEF ServerInv, CallsInv, vars, lifeVars, serverVars
    <2>3. QED
      BY <2>1, <2>2
  <1>3. LifeInv' /\ LifeOrder' /\ RefsExact'
    BY <1>1, <1>2, LifeInvStep, LifeOrderStep, RefsExactStep DEF ServerInv, CallsInv
  <1>4. GoneInv'
    BY <1>1, GoneInvStep
  <1>5. OrderInv' /\ ExitInv'
    <2>1. CASE Next
      BY <2>1, OrderExitStep
    <2>2. CASE UNCHANGED vars
      BY <2>2 DEF ServerInv, OrderInv, ExitInv, Untouched, vars, lifeVars, serverVars, glib
    <2>3. QED
      BY <2>1, <2>2
  <1>6. QED
    BY <1>2, <1>3, <1>4, <1>5 DEF ServerInv

(* Whatever the document and the signals, main() is where ServerInv says   *)
(* it is for each state of the pipeline (main.cpp lines 57-88).            *)
THEOREM ServerInvariant == Spec => []ServerInv
  BY ServerInvInit, ServerInvStep, PTL DEF Spec

(* No document and no timing of SIGINT or SIGTERM ends the process with a  *)
(* pipeline live or its thread running (main.cpp 57-72).                   *)
THEOREM SignalsSpareThePipeline == Spec => []LivePipelineNotKilled
  <1>1. ServerInv => LivePipelineNotKilled
    BY DEF ServerInv, ExitInv, LivePipelineNotKilled
  <1>2. QED
    BY ServerInvariant, <1>1, PTL

(* However main() returns, the loop thread is joined, the pipeline in NULL *)
(* and every GMainLoop freed (main.cpp 67-88, deepstream_pipeline.cpp      *)
(* 79-88, 156-184).                                                        *)
THEOREM ServerExitsCleanly == Spec => []ExitIsClean
  <1>1. ASSUME ServerInv PROVE ExitIsClean
    <2> SUFFICES ASSUME exit \in {"success", "failure"}
                 PROVE  /\ thread = "none" /\ pipe = "null"
                        /\ \A l \in Loops : refs[l] = 0
                        /\ exit = "success" => g_shutdown
      BY DEF ExitIsClean
    <2>1. thread = "none" /\ pipe = "null" /\ stopper = "idle"
      BY <1>1 DEF ServerInv, ExitInv, GoneInv, Untouched
    <2>2. loop = NoLoop
      BY <1>1, <2>1 DEF ServerInv, ExitInv, GoneInv, Untouched, LifeOrder
    <2>3. \A l \in Loops : refs[l] = 0
      BY <1>1, <2>1, <2>2 DEF ServerInv, RefsExact, Held, Loops, NoLoop
    <2>4. QED
      BY <1>1, <2>1, <2>3 DEF ServerInv, ExitInv
  <1>2. QED
    BY ServerInvariant, <1>1, PTL
-----------------------------------------------------------------------------
(* The configuration, for every document. *)

LoadedInv == main # "load" => Loads(doc) /\ config = Merged(doc)

LEMMA LoadedInvariant == Spec => []LoadedInv
  <1>1. Init => LoadedInv
    BY DEF Init, LoadedInv
  <1>2. ASSUME LoadedInv, [Next]_vars PROVE LoadedInv'
    <2>1. CASE Load
      BY <2>1, <1>2 DEF Load, LoadedInv, Loads
    <2>2. CASE UNCHANGED <<doc, config, main>>
      BY <2>2, <1>2 DEF LoadedInv, Loads
    <2>3. CASE main # "load" /\ UNCHANGED <<doc, config>>
      BY <2>3, <1>2 DEF LoadedInv, Loads
    <2>4. QED
      BY <1>2, <2>1, <2>2, <2>3
         DEF Next, MainStep, Construct, ConstructFails, Install, Start, Poll, Stop, Wait,
             Leave, ThreadStep, signal_handler, DefaultAction, vars, serverVars
  <1>3. QED
    BY <1>1, <1>2, PTL DEF Spec

(* The defaults load() writes down for missing keys are those of the       *)
(* struct, all but the engine paths, which it requires.                    *)
LEMMA DefaultsAgree ==
    ASSUME NEW s \in Sections, NEW k \in DOMAIN Defaults[s]
    PROVE  Fallbacks[s][k] \in {Defaults[s][k], Unreadable}
  <1>1. CASE s = "pipeline"
    <2>1. PipelineFallback = PipelineConfig
      BY DEF PipelineConfig, PipelineFallback
    <2>2. QED
      BY <1>1, <2>1 DEF Defaults, Fallbacks
  <1>2. CASE s = "detection"
    <2>1. DetectionFallback["engine_path"] = Unreadable
      BY DEF DetectionFallback
    <2>2. \A f \in DOMAIN DetectionConfig \ {"engine_path"} :
              DetectionFallback[f] = DetectionConfig[f]
      <3>1. DOMAIN DetectionConfig =
                {"engine_path", "input_width", "input_height",
                 "confidence_threshold", "nms_iou_threshold"}
        BY DEF DetectionConfig
      <3>2. DetectionFallback["input_width"] = DetectionConfig["input_width"]
        BY DEF DetectionConfig, DetectionFallback
      <3>3. DetectionFallback["input_height"] = DetectionConfig["input_height"]
        BY DEF DetectionConfig, DetectionFallback
      <3>4. DetectionFallback["confidence_threshold"] = DetectionConfig["confidence_threshold"]
        BY DEF DetectionConfig, DetectionFallback
      <3>5. DetectionFallback["nms_iou_threshold"] = DetectionConfig["nms_iou_threshold"]
        BY DEF DetectionConfig, DetectionFallback
      <3> QED
        BY <3>1, <3>2, <3>3, <3>4, <3>5
    <2>3. Defaults[s] = DetectionConfig /\ Fallbacks[s] = DetectionFallback
      BY <1>2 DEF Defaults, Fallbacks
    <2>4. CASE k = "engine_path"
      BY <2>1, <2>3, <2>4
    <2>5. CASE k # "engine_path"
      BY <2>2, <2>3, <2>5
    <2>6. QED
      BY <2>4, <2>5
  <1>3. CASE s = "encoding"
    <2>1. EncodingFallback["engine_path"] = Unreadable
      BY DEF EncodingFallback
    <2>2. \A f \in DOMAIN EncodingConfig \ {"engine_path"} :
              EncodingFallback[f] = EncodingConfig[f]
      <3>1. DOMAIN EncodingConfig = {"engine_path", "input_size", "embedding_dim", "batch_size"}
        BY DEF EncodingConfig
      <3>2. EncodingFallback["input_size"] = EncodingConfig["input_size"]
        BY DEF EncodingConfig, EncodingFallback
      <3>3. EncodingFallback["embedding_dim"] = EncodingConfig["embedding_dim"]
        BY DEF EncodingConfig, EncodingFallback
      <3>4. EncodingFallback["batch_size"] = EncodingConfig["batch_size"]
        BY DEF EncodingConfig, EncodingFallback
      <3> QED
        BY <3>1, <3>2, <3>3, <3>4
    <2>3. Defaults[s] = EncodingConfig /\ Fallbacks[s] = EncodingFallback
      BY <1>3 DEF Defaults, Fallbacks
    <2>4. CASE k = "engine_path"
      BY <2>1, <2>3, <2>4
    <2>5. CASE k # "engine_path"
      BY <2>2, <2>3, <2>5
    <2>6. QED
      BY <2>4, <2>5
  <1>4. CASE s = "faiss"
    <2>1. FaissFallback = FaissConfig
      BY DEF FaissConfig, FaissFallback
    <2>2. QED
      BY <1>4, <2>1 DEF Defaults, Fallbacks
  <1>5. CASE s = "recognition"
    <2>1. RecognitionFallback = RecognitionConfig
      BY DEF RecognitionConfig, RecognitionFallback
    <2>2. QED
      BY <1>5, <2>1 DEF Defaults, Fallbacks
  <1>6. CASE s = "logging"
    <2>1. LoggingFallback = LoggingConfig
      BY DEF LoggingConfig, LoggingFallback
    <2>2. QED
      BY <1>6, <2>1 DEF Defaults, Fallbacks
  <1>7. QED
    BY <1>1, <1>2, <1>3, <1>4, <1>5, <1>6 DEF Sections, Defaults

(* For every document, each setting in use is the one written there or     *)
(* else the struct's default (system_config.cpp 119-166).                  *)
THEOREM SettingsAsWritten == Spec => []ConfigAsWritten
  <1>1. ASSUME LoadedInv PROVE ConfigAsWritten
    <2> SUFFICES ASSUME main # "load", NEW s \in Sections, NEW k \in DOMAIN Defaults[s]
                 PROVE  config[s][k] = IF Written(s, k) THEN Meaning(k, doc[s][k])
                                       ELSE Defaults[s][k]
      BY DEF ConfigAsWritten
    <2>1. config = Merged(doc) /\ Readable(Merged(doc))
      BY <1>1 DEF LoadedInv, Loads
    <2>2. CASE s \notin DOMAIN doc
      BY <2>1, <2>2 DEF Merged, Written
    <2>3. CASE s \in DOMAIN doc
      <3>1. config[s][k] = optional(doc[s], k, Fallbacks[s][k])
        BY <2>1, <2>3 DEF Merged
      <3>2. CASE Written(s, k)
        BY <3>1, <3>2 DEF Written, optional
      <3>3. CASE ~Written(s, k)
        <4>1. config[s][k] = Fallbacks[s][k]
          BY <2>3, <3>1, <3>3 DEF Written, optional
        <4>2. config[s][k] # Unreadable
          BY <2>1 DEF Readable
        <4>3. QED
          BY <3>3, <4>1, <4>2, DefaultsAgree
      <3>4. QED
        BY <3>2, <3>3
    <2>4. QED
      BY <2>2, <2>3
  <1>2. QED
    BY LoadedInvariant, <1>1, PTL

(* For every document load() accepts, a perfect match with no runner-up is *)
(* named: no threshold is NaN or out of range (system_config.cpp 29-35,    *)
(* 103-106).                                                               *)
THEOREM ThresholdsAreUsable == Spec => []ThresholdsUsable
  <1>1. LoadedInv => ThresholdsUsable
    BY DEF LoadedInv, Loads, validate, validRecognition, require_in_range, AtLeast,
           ThresholdsUsable
  <1>2. QED
    BY LoadedInvariant, <1>1, PTL

-----------------------------------------------------------------------------
(* main()'s own variables have their types whatever the pipeline does.     *)
OwnTypes ==
    /\ main \in {"load", "construct", "install", "start", "poll", "stop", "wait", "leave"}
    /\ handled \subseteq Signals
    /\ g_shutdown \in BOOLEAN
    /\ failed \in BOOLEAN
    /\ exit \in {"running", "success", "failure", "killed"}

(* Every variable of the server keeps its type (main.cpp lines 57-88).     *)
THEOREM ServerTyped == Spec => []TypeOK
  <1>1. Init => OwnTypes
    BY DEF Init, OwnTypes
  <1>2. ASSUME OwnTypes, [Next]_vars PROVE OwnTypes'
    <2> USE <1>2 DEF OwnTypes
    <2>1. CASE MainStep
      BY <2>1 DEF MainStep, Load, Construct, ConstructFails, AfterConstruct, Install, Start,
                  Poll, Stop, Wait, Leave, Signals
    <2>2. CASE ThreadStep \/ \E sig \in Signals : signal_handler(sig) \/ DefaultAction(sig)
      BY <2>2 DEF ThreadStep, serverVars, signal_handler, DefaultAction
    <2>3. CASE UNCHANGED vars
      BY <2>3 DEF vars, serverVars
    <2>4. QED
      BY <2>1, <2>2, <2>3 DEF Next
  <1>3. ServerInv /\ OwnTypes => TypeOK
    BY DEF ServerInv, LifeInv, OwnTypes, TypeOK
  <1>4. QED
    BY ServerInvariant, <1>1, <1>2, <1>3, PTL DEF Spec

(* main() is past the constructors only with few enough streams.           *)
LimitInv ==
    main \notin {"load", "construct"} => config.pipeline.max_streams <= kMaxSourcesHardLimit

LEMMA LimitInvariant == Spec => []LimitInv
  <1>1. Init => LimitInv
    BY DEF Init, LimitInv
  <1>2. ASSUME LimitInv, [Next]_vars PROVE LimitInv'
    <2>1. CASE Load
      BY <2>1 DEF Load, LimitInv
    <2>2. CASE Construct
      BY <2>2 DEF Construct, LimitInv
    <2>3. CASE UNCHANGED <<config, main>>
      BY <1>2, <2>3 DEF LimitInv
    <2>4. CASE main \notin {"load", "construct"} /\ UNCHANGED config
      BY <1>2, <2>4 DEF LimitInv
    <2>5. QED
      BY <1>2, <2>1, <2>2, <2>3, <2>4
         DEF Next, MainStep, ConstructFails, Install, Start, Poll, Stop, Wait, Leave,
             ThreadStep, signal_handler, DefaultAction, vars, serverVars
  <1>3. QED
    BY <1>1, <1>2, PTL DEF Spec

LEMMA DocChosen == Spec => [](doc \in Documents)
  <1>1. doc \in Documents /\ [Next]_vars => (doc \in Documents)'
    BY DEF Next, MainStep, Load, Construct, ConstructFails, Install, Start, Poll, Stop, Wait,
           Leave, ThreadStep, signal_handler, DefaultAction, vars, serverVars
  <1>2. Init => doc \in Documents
    BY DEF Init
  <1>3. QED
    BY <1>1, <1>2, PTL DEF Spec

(* A setting that is in use was read: it has the type of its field.        *)
LEMMA SettingTyped ==
    ASSUME doc \in Documents, LoadedInv, ConfigAsWritten, main # "load",
           NEW s \in Sections, NEW k \in DOMAIN Defaults[s]
    PROVE  /\ k \in Counts /\ Defaults[s][k] \in Nat => config[s][k] \in Nat
           /\ k \in Floats /\ Defaults[s][k] \in Int => config[s][k] \in Int \cup {NaN}
  <1>1. Loads(doc) /\ config = Merged(doc)
    BY DEF LoadedInv
  <1>2. config[s][k] # Unreadable
    BY <1>1 DEF Loads, Readable
  <1>3. Typed(doc)
    BY <1>1, DocumentsAssumption DEF Loads
  <1>4. CASE Written(s, k)
    <2>1. k \in Counts \cup Floats => config[s][k] = doc[s][k]
      BY <1>4 DEF ConfigAsWritten, Meaning, Counts, Floats
    <2>2. QED
      BY <1>2, <1>3, <1>4, <2>1 DEF Typed, Written
  <1>5. CASE ~Written(s, k)
    BY <1>5 DEF ConfigAsWritten
  <1>6. QED
    BY <1>4, <1>5

LEMMA DivisorDivides ==
    ASSUME NEW m \in Nat \ {0}, NEW d \in Nat \ {0}, d % m = 0
    PROVE  \E sub \in 1..d : m * sub = d
  <1>1. d = m * (d \div m) + (d % m) /\ d \div m \in Nat
    OBVIOUS
  <1>2. m * (d \div m) = d
    BY <1>1
  <1>3. d \div m >= 1
    BY <1>1, <1>2
  <1>4. d \div m <= d
    BY <1>1, <1>2, <1>3
  <1>5. QED
    BY <1>1, <1>2, <1>3, <1>4

(* For every document, what main() constructs its components from is what  *)
(* they work with (system_config.cpp lines 68-108, deepstream_pipeline.cpp *)
(* 37): the assumptions the other modules make of their constants.         *)
THEOREM SettingsFit == Spec => []ConfigFits
  <1>1. ASSUME doc \in Documents, LoadedInv, LimitInv, ConfigAsWritten PROVE ConfigFits
    <2> SUFFICES ASSUME main \notin {"load", "construct"}
                 PROVE  ConfigFits
      BY DEF ConfigFits
    <2>1. validate(config)
      BY <1>1 DEF LoadedInv, Loads
    <2>2. /\ config.pipeline.max_streams \in Nat /\ config.pipeline.batch_size \in Nat
      <3>1. /\ "pipeline" \in Sections
            /\ {"max_streams", "batch_size"} \subseteq DOMAIN Defaults["pipeline"]
            /\ Defaults["pipeline"]["max_streams"] \in Nat
            /\ Defaults["pipeline"]["batch_size"] \in Nat
        BY DEF Sections, Defaults, PipelineConfig
      <3>2. QED
        BY <1>1, <3>1, SettingTyped DEF Counts
    <2>3. /\ config.detection.input_width \in Nat /\ config.detection.input_height \in Nat
          /\ config.detection.nms_iou_threshold \in Int \cup {NaN}
      <3>1. /\ "detection" \in Sections
            /\ {"input_width", "input_height", "nms_iou_threshold"}
                  \subseteq DOMAIN Defaults["detection"]
            /\ Defaults["detection"]["input_width"] \in Nat
            /\ Defaults["detection"]["input_height"] \in Nat
            /\ Defaults["detection"]["nms_iou_threshold"] \in Int
        <4>1. "detection" \in Sections /\ Defaults["detection"] = DetectionConfig
          BY DEF Sections, Defaults
        <4>2. {"input_width", "input_height", "nms_iou_threshold"} \subseteq DOMAIN DetectionConfig
          BY DEF DetectionConfig
        <4>3. DetectionConfig["input_width"] \in Nat /\ DetectionConfig["input_height"] \in Nat
          BY DEF DetectionConfig
        <4>4. DetectionConfig["nms_iou_threshold"] \in Int
          BY DEF DetectionConfig
        <4>5. QED
          BY <4>1, <4>2, <4>3, <4>4
      <3>2. QED
        BY <1>1, <3>1, SettingTyped DEF Counts, Floats
    <2>4. config.encoding.batch_size \in Nat /\ config.encoding.embedding_dim \in Nat
      <3>1. /\ "encoding" \in Sections
            /\ {"batch_size", "embedding_dim"} \subseteq DOMAIN Defaults["encoding"]
            /\ Defaults["encoding"]["batch_size"] \in Nat
            /\ Defaults["encoding"]["embedding_dim"] \in Nat
        <4>1. "encoding" \in Sections /\ Defaults["encoding"] = EncodingConfig
          BY DEF Sections, Defaults
        <4>2. {"batch_size", "embedding_dim"} \subseteq DOMAIN EncodingConfig
          BY DEF EncodingConfig
        <4>3. EncodingConfig["batch_size"] \in Nat /\ EncodingConfig["embedding_dim"] \in Nat
          BY DEF EncodingConfig
        <4>4. QED
          BY <4>1, <4>2, <4>3
      <3>2. QED
        BY <1>1, <3>1, SettingTyped DEF Counts
    <2>5. config.faiss.pq_m \in Nat /\ config.recognition.top_k \in Nat
      <3>1. /\ "faiss" \in Sections /\ "recognition" \in Sections
            /\ "pq_m" \in DOMAIN Defaults["faiss"] /\ Defaults["faiss"]["pq_m"] \in Nat
            /\ "top_k" \in DOMAIN Defaults["recognition"]
            /\ Defaults["recognition"]["top_k"] \in Nat
        BY DEF Sections, Defaults, FaissConfig, RecognitionConfig
      <3>2. QED
        BY <1>1, <3>1, SettingTyped DEF Counts
    <2>6. /\ config.pipeline.max_streams \in 1..kMaxSourcesHardLimit
          /\ config.pipeline.batch_size >= 1
      BY <1>1, <2>1, <2>2 DEF validate, validPipeline, require_positive, LimitInv,
                              kMaxSourcesHardLimit
    <2>7. /\ \A k \in {"input_width", "input_height"} :
                config.detection[k] > 0 /\ config.detection[k] % 32 = 0
          /\ config.detection.nms_iou_threshold \in 0..100
      <3> DEFINE d == config.detection
      <3>1. d.input_width > 0 /\ d.input_height > 0
            /\ d.input_width % 32 = 0 /\ d.input_height % 32 = 0
        BY <2>1 DEF validate, validDetection, require_positive, MultipleOfStride,
                    KInputSizeMultiple
      <3>2. d.nms_iou_threshold # NaN /\ d.nms_iou_threshold >= 0 /\ 100 >= d.nms_iou_threshold
        BY <2>1 DEF validate, validDetection, require_in_range, AtLeast
      <3>3. QED
        BY <2>3, <3>1, <3>2
    <2>8. config.encoding.batch_size >= 1 /\ config.encoding.embedding_dim >= 1
          /\ config.recognition.top_k >= 1
      <3>1. validEncoding(config.encoding) /\ validRecognition(config.recognition)
        BY <2>1 DEF validate
      <3>2. config.encoding.batch_size > 0 /\ config.encoding.embedding_dim > 0
        BY <3>1 DEF validEncoding, require_positive
      <3>3. config.recognition.top_k > 0
        BY <3>1 DEF validRecognition, require_positive
      <3>4. QED
        BY <2>4, <2>5, <3>2, <3>3
    <2>9. ASSUME config.faiss.index_type = "ivf_pq"
          PROVE  \E sub \in 1..config.encoding.embedding_dim :
                     config.faiss.pq_m * sub = config.encoding.embedding_dim
      <3>1. config.faiss.pq_m > 0 /\ config.encoding.embedding_dim % config.faiss.pq_m = 0
        BY <2>1, <2>9 DEF validate, validFaiss, require_positive
      <3>2. config.faiss.pq_m \in Nat \ {0} /\ config.encoding.embedding_dim \in Nat \ {0}
        BY <2>4, <2>5, <2>8, <3>1
      <3>3. QED
        BY <3>1, <3>2, DivisorDivides, Zenon
    <2>10. QED
      BY <2>6, <2>7, <2>8, <2>9 DEF ConfigFits
  <1>2. Spec => []ConfigAsWritten
    BY SettingsAsWritten
  <1>3. QED
    BY DocChosen, LoadedInvariant, LimitInvariant, <1>1, <1>2, PTL
=============================================================================
