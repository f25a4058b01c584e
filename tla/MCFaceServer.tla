---------------------------- MODULE MCFaceServer ----------------------------
(* FaceServer for TLC: a smallest document, and each with up to two of     *)
(* these settings written into it, values at the edge of what is accepted. *)
EXTENDS FaceServer

Smallest ==
    [detection |-> [engine_path |-> "scrfd"], encoding |-> [engine_path |-> "arcface"]]

Set(s, k, values) == {<<s, k, v>> : v \in values}

Settings == UNION {
    Set("pipeline", "max_streams", {0, 32, 33, Unreadable}),
    Set("pipeline", "batch_size", {0, 1}),
    Set("pipeline", "muxer_width", {0, 1920}),
    Set("detection", "engine_path", {"", Unreadable}),
    Set("detection", "input_width", {0, 32, 100}),
    Set("detection", "input_height", {0, 64, 33}),
    Set("detection", "confidence_threshold", {-1, 0, 101, NaN}),
    Set("detection", "nms_iou_threshold", {0, 100, 101, NaN}),
    Set("encoding", "embedding_dim", {0, 128, 100}),
    Set("encoding", "batch_size", {0, 1}),
    Set("faiss", "index_type", {"ivf_flat", "ivf_pq", "hnsw"}),
    Set("faiss", "pq_m", {0, 16, 65}),
    Set("faiss", "nprobe", {0, 1}),
    Set("faiss", "metric", {"inner_product", "l2", "cosine"}),
    Set("recognition", "threshold", {-101, -100, 100, 101, NaN}),
    Set("recognition", "margin_min", {-1, 0, 200, 201, NaN}),
    Set("recognition", "top_k", {0, 1}),
    Set("logging", "level", {"off", "loud"})}

Given(settings, s) == {t \in settings : t[1] = s}

Write(settings) ==
    [s \in Mandatory \cup {t[1] : t \in settings} |->
        [k \in (IF s \in Mandatory THEN {"engine_path"} ELSE {}) \cup
               {t[2] : t \in Given(settings, s)} |->
            IF \E t \in Given(settings, s) : t[2] = k
            THEN (CHOOSE t \in Given(settings, s) : t[2] = k)[3]
            ELSE Smallest[s][k]]]

SampleDocuments ==
    {NoDocument, [detection |-> Smallest.detection], [encoding |-> Smallest.encoding]} \cup
    {[Smallest EXCEPT !.encoding = [batch_size |-> 1]]} \cup
    {Smallest} \cup {Write({one, other}) : one \in Settings, other \in Settings}
=============================================================================
