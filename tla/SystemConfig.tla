---------------------------- MODULE SystemConfig ----------------------------
(***************************************************************************)
(* SystemConfig::load and validate, as functions of the YAML document.  A  *)
(* document gives some sections, each with some keys; floating-point       *)
(* settings are percentages.  load() throws or returns what it merged from *)
(* the document and the defaults, whichever of its checks comes first.     *)
(***************************************************************************)
EXTENDS Integers

CONSTANTS
    NoDocument,   \* no such file, or not YAML
    Unreadable,   \* a text its type's conversion refuses
    NaN           \* ".nan", a float like any other to yaml-cpp

(* The structs' own defaults, which stand where a section is missing.      *)
PipelineConfig == [max_streams |-> 8, batch_size |-> 8, batched_push_timeout_us |-> 40000,
                   muxer_width |-> 1280, muxer_height |-> 720]
DetectionConfig == [engine_path |-> "", input_width |-> 640, input_height |-> 640,
                    confidence_threshold |-> 50, nms_iou_threshold |-> 40]
EncodingConfig == [engine_path |-> "", input_size |-> 112, embedding_dim |-> 512,
                   batch_size |-> 32]
FaissConfig == [index_type |-> "ivf_flat", ivf_pq_min_size |-> 100000, nlist |-> 0,
                nprobe |-> 32, pq_m |-> 64, metric |-> "ip", gpu_id |-> 0]
RecognitionConfig == [threshold |-> 45, margin_min |-> 4, top_k |-> 5]
LoggingConfig == [level |-> "info", json |-> TRUE]

Defaults ==
    [pipeline |-> PipelineConfig, detection |-> DetectionConfig, encoding |-> EncodingConfig,
     faiss |-> FaissConfig, recognition |-> RecognitionConfig, logging |-> LoggingConfig]

(* Those load() writes down again, for a key missing in a section that is  *)
(* there.  The two engine paths have none: they are required.              *)
PipelineFallback == [max_streams |-> 8, batch_size |-> 8, batched_push_timeout_us |-> 40000,
                     muxer_width |-> 1280, muxer_height |-> 720]
DetectionFallback == [engine_path |-> Unreadable, input_width |-> 640, input_height |-> 640,
                      confidence_threshold |-> 50, nms_iou_threshold |-> 40]
EncodingFallback == [engine_path |-> Unreadable, input_size |-> 112, embedding_dim |-> 512,
                     batch_size |-> 32]
FaissFallback == [index_type |-> "ivf_flat", ivf_pq_min_size |-> 100000, nlist |-> 0,
                  nprobe |-> 32, pq_m |-> 64, metric |-> "ip", gpu_id |-> 0]
FaultTopKOne == [threshold |-> 45, margin_min |-> 4, top_k |-> 1]
RecognitionFallback == [threshold |-> 45, margin_min |-> 4, top_k |-> 5]
LoggingFallback == [level |-> "info", json |-> TRUE]

Fallbacks ==
    [pipeline |-> PipelineFallback, detection |-> DetectionFallback,
     encoding |-> EncodingFallback, faiss |-> FaissFallback,
     recognition |-> RecognitionFallback, logging |-> LoggingFallback]

Sections == DOMAIN Defaults
Mandatory == {"detection", "encoding"}

parse_metric(word) == IF word = "inner_product" THEN "ip" ELSE word
Meaning(key, text) == IF key = "metric" THEN parse_metric(text) ELSE text

(* optional() and require(), which agree but for what stands in for a key  *)
(* that is not there.                                                      *)
optional(given, key, fallback) ==
    IF key \in DOMAIN given THEN Meaning(key, given[key]) ELSE fallback

Merged(doc) ==
    [s \in Sections |->
        IF s \notin DOMAIN doc THEN Defaults[s]
        ELSE [k \in DOMAIN Defaults[s] |-> optional(doc[s], k, Fallbacks[s][k])]]

(* What a text may be once as<std::uint32_t> or as<float> has read it.      *)
Counts ==
    {"max_streams", "batch_size", "batched_push_timeout_us", "muxer_width", "muxer_height",
     "input_width", "input_height", "input_size", "embedding_dim", "ivf_pq_min_size",
     "nlist", "nprobe", "pq_m", "top_k"}
Floats == {"confidence_threshold", "nms_iou_threshold", "threshold", "margin_min"}

Typed(doc) ==
    \A s \in Sections \cap DOMAIN doc : \A k \in DOMAIN doc[s] :
        /\ k \in Counts => doc[s][k] \in Nat \cup {Unreadable}
        /\ k \in Floats => doc[s][k] \in Int \cup {NaN, Unreadable}

Readable(cfg) == \A s \in Sections : \A k \in DOMAIN Defaults[s] : cfg[s][k] # Unreadable

Known(cfg) ==
    cfg.faiss.index_type \in {"ivf_flat", "ivf_pq"} /\ cfg.faiss.metric \in {"ip", "l2"}

-----------------------------------------------------------------------------
(* Comparing floats: with a NaN every comparison is false.                 *)
AtLeast(a, b) == a # NaN /\ b # NaN /\ a >= b
Under(a, b) == a # NaN /\ b # NaN /\ a < b

require_positive(n) == n > 0
FaultNaNPasses(v, low, high) == ~Under(v, low) /\ ~Under(high, v)
require_in_range(v, low, high) == AtLeast(v, low) /\ AtLeast(high, v)

KInputSizeMultiple == 32
MultipleOfStride(n) == n % KInputSizeMultiple = 0

validPipeline(p) ==
    \A k \in {"max_streams", "batch_size", "muxer_width", "muxer_height"} : require_positive(p[k])

validDetection(d) ==
    /\ d.engine_path # ""
    /\ require_positive(d.input_width) /\ require_positive(d.input_height)
    /\ MultipleOfStride(d.input_width) /\ MultipleOfStride(d.input_height)
    /\ require_in_range(d.confidence_threshold, 0, 100)
    /\ require_in_range(d.nms_iou_threshold, 0, 100)

validEncoding(e) ==
    /\ e.engine_path # ""
    /\ \A k \in {"input_size", "embedding_dim", "batch_size"} : require_positive(e[k])

FaultPqUnchecked(f, dim) == require_positive(f.nprobe)
validFaiss(f, dim) ==
    /\ require_positive(f.nprobe)
    /\ f.index_type = "ivf_pq" => require_positive(f.pq_m) /\ dim % f.pq_m = 0

validRecognition(r) ==
    /\ require_in_range(r.threshold, -100, 100)
    /\ require_in_range(r.margin_min, 0, 200)
    /\ require_positive(r.top_k)

validate(cfg) ==
    /\ validPipeline(cfg.pipeline)
    /\ validDetection(cfg.detection)
    /\ validEncoding(cfg.encoding)
    /\ validFaiss(cfg.faiss, cfg.encoding.embedding_dim)
    /\ validRecognition(cfg.recognition)

(* Does load() return a configuration?  It is Merged(doc) then.            *)
Loads(doc) ==
    /\ doc # NoDocument
    /\ Mandatory \subseteq DOMAIN doc
    /\ Readable(Merged(doc))
    /\ Known(Merged(doc))
    /\ validate(Merged(doc))
=============================================================================
