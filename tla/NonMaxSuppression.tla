------------------------- MODULE NonMaxSuppression -------------------------
(***************************************************************************)
(* One call of nms() with what the three SCRFD levels of an image decoded: *)
(* the detections are sorted by score, and each one still standing is kept *)
(* and strikes out the later ones it overlaps.  Nothing outlives the call. *)
(* Boxes have integer corners; a threshold is a percentage.                *)
(***************************************************************************)
EXTENDS Integers, Sequences, FiniteSets, Functions

CONSTANTS
    Boxes,        \* [x, y, width, height]; a regressed size may be negative
    Scores,       \* the confidences
    IouPercent,   \* detection.nms_iou_threshold
    MaxDets       \* bound: detections per image

ASSUME NmsAssumption ==
    /\ Boxes \subseteq [x : Int, y : Int, width : Int, height : Int]
    /\ Scores \subseteq Int
    /\ IouPercent \in 0..100
    /\ MaxDets \in Nat

VARIABLES
    given,        \* the detections nms was called with
    dets,         \* the same, sorted
    suppressed,   \* the places in dets struck out
    kept,         \* the places in dets kept, to be returned in this order
    next          \* the place the outer loop is at; 0 before the sort

vars == <<given, dets, suppressed, kept, next>>

Detections == [bbox : Boxes, score : Scores]
Images == UNION {[1..n -> Detections] : n \in 0..MaxDets}

Least(a, b) == IF a < b THEN a ELSE b
Most(a, b) == IF a > b THEN a ELSE b
FaultSigned(e) == e
Positive(e) == Most(0, e)

Area(a) == a.width * a.height

Intersection(a, b) ==
    Positive(Least(a.x + a.width, b.x + b.width) - Most(a.x, b.x)) *
    Positive(Least(a.y + a.height, b.y + b.height) - Most(a.y, b.y))

Overlap(a, b) ==
    LET union == Area(a) + Area(b) - Intersection(a, b) IN
    union > 0 /\ Intersection(a, b) * 100 > IouPercent * union

FaultAscending(s) ==
    {p \in Bijection(DOMAIN s, DOMAIN s) :
        \A j, k \in DOMAIN s : j < k => s[p[j]].score <= s[p[k]].score}

(* std::sort may leave equal scores in any order.                          *)
Sortings(s) ==
    {p \in Bijection(DOMAIN s, DOMAIN s) :
        \A j, k \in DOMAIN s : j < k => s[p[j]].score >= s[p[k]].score}

FaultSkipsOne(i) ==
    {j \in (i + 2)..Len(dets) : Overlap(dets[i].bbox, dets[j].bbox)}
Struck(i) ==
    {j \in (i + 1)..Len(dets) : Overlap(dets[i].bbox, dets[j].bbox)}

-----------------------------------------------------------------------------
Init ==
    /\ given \in Images
    /\ dets = <<>>
    /\ suppressed = {}
    /\ kept = {}
    /\ next = 0

Sort ==
    /\ next = 0
    /\ \E p \in Sortings(given) : dets' = [j \in DOMAIN given |-> given[p[j]]]
    /\ next' = 1
    /\ UNCHANGED <<given, suppressed, kept>>

Skip ==
    /\ next \in DOMAIN dets
    /\ next \in suppressed
    /\ next' = next + 1
    /\ UNCHANGED <<given, dets, suppressed, kept>>

Keep ==
    /\ next \in DOMAIN dets
    /\ next \notin suppressed
    /\ kept' = kept \cup {next}
    /\ suppressed' = suppressed \cup Struck(next)
    /\ next' = next + 1
    /\ UNCHANGED <<given, dets>>

Done == next > Len(given)

Next == Sort \/ Skip \/ Keep

Spec == Init /\ [][Next]_vars

-----------------------------------------------------------------------------
(* No two detections that are kept overlap by more than the threshold, in  *)
(* whatever order equal scores were sorted (scrfd_postprocess.cpp 113-129).*)
KeptApart ==
    \A j, k \in kept : j # k => ~Overlap(dets[j].bbox, dets[k].bbox)

(* No face is lost: each detection given is kept, or overlaps one that is  *)
(* kept and scores at least as high; one struck out strikes out nothing.   *)
DroppedCovered ==
    Done => \A k \in DOMAIN given : \E m \in kept :
        /\ dets[m].score >= given[k].score
        /\ dets[m] = given[k] \/ Overlap(dets[m].bbox, given[k].bbox)

(* What iou() computes from corners is the ratio of the area two boxes     *)
(* share to the area they cover, for boxes that are apart, that touch and  *)
(* that the regression turned inside out (lines 100-110).                  *)
Cells(a) ==
    (a.x..(a.x + a.width - 1)) \X (a.y..(a.y + a.height - 1))

OverlapByArea ==
    \A j, k \in DOMAIN dets :
        LET a == Cells(dets[j].bbox)
            b == Cells(dets[k].bbox) IN
        Overlap(dets[j].bbox, dets[k].bbox) <=>
            Cardinality(a \cap b) * 100 > IouPercent * Cardinality(a \cup b)
=============================================================================
