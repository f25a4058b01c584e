--------------------------- MODULE ScrfdDetector ---------------------------
(***************************************************************************)
(* SCRFDDetector: the constructor pins the engine's input to the           *)
(* configured size and files the outputs under the stride it works out     *)
(* from the sizes they had before that; detect_batch fits each image       *)
(* to the network's input, runs the engine and decodes the outputs, stride *)
(* by stride, into detections placed in the image itself.  Nothing else    *)
(* tells it which output is which.  A scale is the exact quotient of two   *)
(* lengths, where the code has a float.                                    *)
(* The network's own picture of an anchor is its level, 8, 16 or 32, and   *)
(* its row in that level's outputs.                                        *)
(***************************************************************************)
EXTENDS Integers, Sequences, FiniteSets

CONSTANTS
    Width, Height,   \* detection.input_width, input_height
    Images,          \* what cv::imread and the frame source can return
    MaxImages        \* bound: images per call

ASSUME DetectorAssumption ==
    /\ Width \in Nat \ {0} /\ Width % 32 = 0
    /\ Height \in Nat \ {0} /\ Height % 32 = 0
    /\ Images \subseteq [cols : Nat, rows : Nat, type : {"bgr", "gray"}]
    /\ MaxImages \in Nat

VARIABLES
    dynamic,   \* was the engine built for a range of input sizes?
    unfiled,   \* the outputs resolve_bindings_ has not come to
    filed,     \* stride_bindings_
    pc,        \* where the constructor or detect_batch is
    images,    \* the images of the call
    image,     \* which of them it is at
    lb,        \* how that image was fitted to the input
    seen,      \* the confident anchors the network saw in each so far
    pending,   \* the strides not yet decoded for this image
    raw,       \* the detections decoded for this image
    results    \* the lists of detections to return

filing == <<dynamic, unfiled, filed>>
vars == <<filing, pc, images, image, lb, seen, pending, raw, results>>

Levels == {8, 16, 32}
Kinds == {"score", "bbox", "kps"}
Outputs == Levels \X Kinds
AnchorsPerLocation == 2
Strides == 1..(2 * Width)

(* The rows of an output once the input is pinned.  An engine built for a  *)
(* range of sizes shows -1 for them until then, and resolve_bindings_ sees *)
(* only what was there when the engine was opened.                         *)
Rows(level) == (Height \div level) * (Width \div level) * AnchorsPerLocation
Anchors == UNION {{level} \X (0..(Rows(level) - 1)) : level \in Levels}

Square(e) == e * e

FaultAllAnchors(s, n) ==
    /\ Square(2 * s - 1) * n <= 4 * Square(Width)
    /\ 4 * Square(Width) < Square(2 * s + 1) * n

(* s = lround(input_width / sqrt(n / anchors per location)).               *)
IsStride(s, n) ==
    /\ Square(2 * s - 1) * n <= 4 * AnchorsPerLocation * Square(Width)
    /\ 4 * AnchorsPerLocation * Square(Width) < Square(2 * s + 1) * n

StrideOf(n) == {s \in Strides : IsStride(s, n)}

Found(level) == IF dynamic THEN {} ELSE StrideOf(Rows(level))

Names(s) == {f \in filed : f.stride = s}
Complete == {s \in {f.stride : f \in filed} : {f.kind : f \in Names(s)} = Kinds}

RowsRead(s) == (Height \div s) * (Width \div s) * AnchorsPerLocation

FaultRowIsCell(s, r) ==
    <<(r % (Width \div s)) * s, (r \div (Width \div s)) * s>>

(* Where row r lies when it is taken for one of stride s.                  *)
Place(s, r) ==
    LET cell == r \div AnchorsPerLocation
        across == Width \div s IN
    <<(cell % across) * s, (cell \div across) * s>>

(* The ratio that fits the image inside the input, as a quotient.          *)
FaultFills(img) ==
    IF Width * img.rows >= Height * img.cols THEN <<Width, img.cols>>
                                             ELSE <<Height, img.rows>>

Ratio(img) ==
    IF Width * img.rows <= Height * img.cols THEN <<Width, img.cols>>
                                             ELSE <<Height, img.rows>>

(* std::round of a quotient of naturals.                                   *)
Rounded(a, b) == (2 * a + b) \div (2 * b)

letterbox(img) ==
    LET scale == Ratio(img)
        new_w == Rounded(img.cols * scale[1], scale[2])
        new_h == Rounded(img.rows * scale[1], scale[2]) IN
    [scale |-> scale, size |-> <<new_w, new_h>>,
     pad |-> <<(Width - new_w) \div 2, (Height - new_h) \div 2>>]

FaultPadKept(p, box) == <<p[1] * box.scale[2], p[2] * box.scale[2]>>

(* Where a point of the input is in the image, times scale[1].             *)
undo_letterbox(p, box) ==
    <<(p[1] - box.pad[1]) * box.scale[2], (p[2] - box.pad[2]) * box.scale[2]>>

Detection(s, r, box) ==
    [at |-> undo_letterbox(Place(s, r), box), per |-> box.scale[1],
     stride |-> s]

(* The rows of stride s with a score over the threshold: those the network *)
(* gave one, and beyond the end of its output whatever lies there.         *)
Confident(s) ==
    LET score == CHOOSE f \in Names(s) : f.kind = "score"
        there == {r \in 0..(RowsRead(s) - 1) :
                      <<score.level, r>> \in seen[image]} IN
    {there} \cup {there \cup {r} : r \in Rows(score.level)..(RowsRead(s) - 1)}

-----------------------------------------------------------------------------
Init ==
    /\ dynamic \in BOOLEAN
    /\ unfiled = Outputs
    /\ filed = {}
    /\ pc = "new"
    /\ images = <<>>
    /\ image = 1
    /\ lb = [scale |-> <<1, 1>>, size |-> <<0, 0>>, pad |-> <<0, 0>>]
    /\ seen = <<>>
    /\ pending = {}
    /\ raw = {}
    /\ results = <<>>

(* TensorRT refuses, and set_input_shape throws, when the engine was built *)
(* for another size; then there is no detector.                            *)
set_input_shape ==
    /\ pc = "new"
    /\ pc' = "resolve"
    /\ UNCHANGED <<filing, images, image, lb, seen, pending, raw, results>>

resolve_bindings_(level, kind) ==
    /\ pc = "resolve"
    /\ <<level, kind>> \in unfiled
    /\ unfiled' = unfiled \ {<<level, kind>>}
    /\ filed' = {f \in filed : ~(f.stride \in Found(level) /\ f.kind = kind)} \cup
                {[stride |-> s, kind |-> kind, level |-> level] : s \in Found(level)}
    /\ pc' = IF unfiled' = {} THEN "idle" ELSE "resolve"
    /\ UNCHANGED <<dynamic, images, image, lb, seen, pending, raw, results>>

detect_batch(imgs) ==
    /\ pc = "idle"
    /\ images' = imgs
    /\ image' = 1
    /\ seen' = <<>>
    /\ results' = <<>>
    /\ pc' = IF imgs = <<>> THEN "done" ELSE "prepare"
    /\ UNCHANGED <<filing, lb, pending, raw>>

(* letterbox throws on an empty image, cv::resize inside it on one so thin *)
(* that a side rounds to nothing, and the conversion on any but BGR.       *)
Usable(img) ==
    /\ img.cols > 0 /\ img.rows > 0
    /\ \A side \in {1, 2} : letterbox(img).size[side] > 0
    /\ img.type = "bgr"

Prepare ==
    /\ pc = "prepare"
    /\ Usable(images[image])
    /\ lb' = letterbox(images[image])
    /\ pc' = "infer"
    /\ UNCHANGED <<filing, images, image, seen, pending, raw, results>>

PrepareThrows ==
    /\ pc = "prepare"
    /\ ~Usable(images[image])
    /\ pc' = "idle"
    /\ UNCHANGED <<filing, images, image, lb, seen, pending, raw,
                   results>>

FaultRawKept == raw
EmptyRaw == {}

(* The outputs of an engine built for a range of sizes were never given    *)
(* memory, and enqueueV3 refuses to run without.                           *)
Infer(anchors) ==
    /\ pc = "infer"
    /\ ~dynamic
    /\ seen' = Append(seen, anchors)
    /\ raw' = EmptyRaw
    /\ pending' = Complete
    /\ pc' = "decode"
    /\ UNCHANGED <<filing, images, image, lb, results>>

decode_stride(s) ==
    /\ pc = "decode"
    /\ s \in pending
    /\ \A t \in pending : s <= t
    /\ \E rows \in Confident(s) :
        raw' = raw \cup {Detection(s, r, lb) : r \in rows}
    /\ pending' = pending \ {s}
    /\ UNCHANGED <<filing, pc, images, image, lb, seen, results>>

(* nms returns some of a list, and none only of an empty one.              *)
nms(dets) == {kept \in SUBSET dets : kept = {} <=> dets = {}}

Collect ==
    /\ pc = "decode"
    /\ pending = {}
    /\ \E kept \in nms(raw) : results' = Append(results, kept)
    /\ image' = image + 1
    /\ pc' = IF image < Len(images) THEN "prepare" ELSE "done"
    /\ UNCHANGED <<filing, images, lb, seen, pending, raw>>

(* The engine may refuse or fail in any call; the lists so far are lost.   *)
Throw ==
    /\ pc \in {"infer", "decode"}
    /\ pc' = "idle"
    /\ UNCHANGED <<filing, images, image, lb, seen, pending, raw,
                   results>>

Return ==
    /\ pc = "done"
    /\ pc' = "idle"
    /\ UNCHANGED <<filing, images, image, lb, seen, pending, raw,
                   results>>

Calls == UNION {[1..n -> Images] : n \in 0..MaxImages}
Views ==
    {{}, {<<8, 0>>, <<32, Rows(32) - 1>>}} \cup {{a} : a \in Anchors}

Next ==
    \/ set_input_shape
    \/ \E o \in Outputs : resolve_bindings_(o[1], o[2])
    \/ \E imgs \in Calls : detect_batch(imgs)
    \/ \E anchors \in Views : Infer(anchors)
    \/ \E s \in pending : decode_stride(s)
    \/ Prepare \/ PrepareThrows \/ Collect \/ Throw \/ Return

Spec == Init /\ [][Next]_vars

-----------------------------------------------------------------------------
(* Decoding reads no row an output does not have, though the number of     *)
(* rows it reads comes from the stride it worked out and not from the      *)
(* output (scrfd_postprocess.cpp 136-145, scrfd_detector.cpp 39-53).       *)
ReadsInside ==
    \A s \in Complete : \A f \in Names(s) : RowsRead(s) <= Rows(f.level)

(* resize and copyTo get a picture that lies on the canvas, reaches across *)
(* it one way, and keeps the image's shape to the rounding of a pixel      *)
(* (scrfd_postprocess.cpp 26-37).                                          *)
PictureOnCanvas ==
    pc = "infer" =>
        /\ lb.pad[1] >= 0 /\ lb.pad[1] + lb.size[1] <= Width
        /\ lb.pad[2] >= 0 /\ lb.pad[2] + lb.size[2] <= Height
        /\ lb.size[1] = Width \/ lb.size[2] = Height
        /\ LET img == images[image]
               skew == lb.size[1] * img.rows - lb.size[2] * img.cols
               slack == img.rows + img.cols IN
           -slack <= skew /\ skew <= slack

(* A call that returns has one list per image, in order, of faces the      *)
(* network saw in that image, each where the network's own level puts it;  *)
(* and no list is empty unless the network saw nothing, though an engine   *)
(* built for a range of sizes leaves nothing filed (lines 24-53, 66-106).  *)
FacesOfEachImage ==
    pc = "done" =>
        /\ Len(results) = Len(images)
        /\ \A i \in DOMAIN results :
            /\ results[i] \subseteq
                   {Detection(a[1], a[2], letterbox(images[i])) : a \in seen[i]}
            /\ results[i] = {} => seen[i] = {}

(* Twice the distance from the centre of the image to point c of a length, *)
(* brought to the input's scale, is twice the distance of the anchor from  *)
(* the centre of the input, to within a pixel.                             *)
Centred(x, across, c, length, scale) ==
    LET off == (2 * x - across) * scale[2] - (2 * c - scale[1] * length) IN
    -2 * scale[2] < off /\ off < 2 * scale[2]

(* The network's rows are the cells of a level from left to right, top to *)
(* bottom, with the anchors of a cell next to each other.                  *)
LiesAt(a, x, y) ==
    /\ x \in 0..(Width \div a[1] - 1)
    /\ \E k \in 0..(AnchorsPerLocation - 1) :
          a[2] = (y * (Width \div a[1]) + x) * AnchorsPerLocation + k

(* A face is as far from the centre of its own image as its anchor is from *)
(* the centre of the input, at the scale of that image: no pad, pad of     *)
(* another image or scale of another image shifts it, and no row is taken  *)
(* for another place than the network's                                    *)
(* (scrfd_postprocess.cpp 26-31, 77-98, 136-165; scrfd_postprocess.hpp     *)
(* 42-45).                                                                 *)
FacesWhereSeen ==
    pc = "done" =>
        \A i \in DOMAIN results : \A d \in results[i] : \E a \in seen[i] :
            LET img == images[i]
                scale == Ratio(img) IN
            /\ d.stride = a[1] /\ d.per = scale[1]
            /\ \E x \in 0..(Width \div a[1]), y \in 0..(Height \div a[1]) :
                  /\ LiesAt(a, x, y)
                  /\ Centred(x * a[1], Width, d.at[1], img.cols, scale)
                  /\ Centred(y * a[1], Height, d.at[2], img.rows, scale)
=============================================================================
