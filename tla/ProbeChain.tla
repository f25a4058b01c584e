----------------------------- MODULE ProbeChain -----------------------------
(***************************************************************************)
(* ProbeChain::process, frame after frame: align, encode in one batch,     *)
(* look every face up, decide, report.  The aligner, the encoder and the   *)
(* index may each fail; only the encoder's failures are caught.  An        *)
(* embedding is the number of the face it was computed from.  Similarities *)
(* are integers; how near an enrolled face is to the probe is what the     *)
(* index ranks by, and what it returns for it depends on the metric.  A    *)
(* callback is registered.                                                 *)
(***************************************************************************)
EXTENDS Integers, Sequences

CONSTANTS
    Ids,         \* enrolled identities
    Near,        \* how near an enrolled face may be, at most Far
    Far,
    Metric,      \* faiss.metric: "ip" or "l2"
    TopK,        \* recognition.top_k
    Threshold,   \* recognition.threshold
    MarginMin,   \* recognition.margin_min
    MaxFaces,    \* bound: faces per frame
    MaxRanked,   \* bound: enrolled faces near a probe
    MaxFrames    \* bound: frames

ASSUME ChainAssumption ==
    /\ Far \in Int /\ Near \subseteq {d \in Int : d <= Far}
    /\ Metric \in {"ip", "l2"}
    /\ TopK \in Nat \ {0}
    /\ Threshold \in Int /\ MarginMin \in Nat
    /\ MaxFaces \in Nat /\ MaxRanked \in Nat /\ MaxFrames \in Nat

VARIABLES
    step,       \* where process() is
    faces,      \* result.faces
    got,        \* embeddings.size()
    next,       \* the face about to be looked up
    ranked,     \* of each face looked up: the enrolled faces, nearest first
    begun, returned, escaped,   \* calls of process(), and how they ended
    reports     \* calls of the callback

vars == <<step, faces, got, next, ranked, begun, returned, escaped, reports>>
counts == <<begun, returned, escaped, reports>>

None == 0
Steps == {"idle", "align", "encode", "check", "lookup", "search", "report", "return"}

Matches == {<<>>} \cup {<<id>> : id \in Ids}
Faces == [emb : 0..MaxFaces, matched : Matches, top1 : Int, margin : Int]
Detected == [emb |-> None, matched |-> <<>>, top1 |-> 0, margin |-> 0]

TypeOK ==
    /\ step \in Steps
    /\ faces \in Seq(Faces)
    /\ Len(faces) <= MaxFaces
    /\ got \in 0..(MaxFaces + 1)
    /\ next \in 1..(MaxFaces + 1)
    /\ Len(ranked) < next
    /\ begun \in 0..MaxFrames
    /\ {returned, escaped, reports} \subseteq 0..begun

Init ==
    /\ step = "idle"
    /\ faces = <<>>
    /\ got = 0
    /\ next = 1
    /\ ranked = <<>>
    /\ begun = 0 /\ returned = 0 /\ escaped = 0 /\ reports = 0

-----------------------------------------------------------------------------
(* The decision.  An optional value is a sequence of at most one.          *)

FaultMarginOfNothing(top1, second) ==
    IF second = <<>> THEN MarginMin ELSE top1 - second[1]
compute_margin(top1, second) ==
    IF second = <<>> THEN top1 ELSE top1 - second[1]

FaultStrict(top1, second) ==
    top1 > Threshold /\ compute_margin(top1, second) >= MarginMin
match_decision(top1, second) ==
    top1 >= Threshold /\ compute_margin(top1, second) >= MarginMin

(* What the index returns: under "ip" nearer is larger, under "l2" the     *)
(* distance.                                                               *)
Similarity(near) == IF Metric = "ip" THEN near ELSE Far - near

EnrolledFaces == [id : Ids, near : Near]
Rankings ==
    {r \in UNION {[1..n -> EnrolledFaces] : n \in 0..MaxRanked} :
        \A i, j \in 1..Len(r) : i < j => r[i].near >= r[j].near}

Hits(ranking) ==
    [i \in 1..(IF Len(ranking) < TopK THEN Len(ranking) ELSE TopK) |->
        [id |-> ranking[i].id, similarity |-> Similarity(ranking[i].near)]]

(* What the loop over the faces makes of one face and its hits.            *)
Decided(face, hits) ==
    LET top1   == hits[1].similarity
        second == IF Len(hits) > 1 THEN <<hits[2].similarity>> ELSE <<>>
    IN  [emb |-> face.emb, top1 |-> top1, margin |-> compute_margin(top1, second),
         matched |-> IF match_decision(top1, second) THEN <<hits[1].id>> ELSE <<>>]
Resolved(face, hits) == IF hits = <<>> THEN face ELSE Decided(face, hits)

-----------------------------------------------------------------------------
FaultSilent == "return"
AfterFailure == "report"

FaultFallsThrough == "check"
AfterReport == "return"

Begin(n) ==
    /\ step = "idle"
    /\ begun < MaxFrames
    /\ begun' = begun + 1
    /\ faces' = [i \in 1..n |-> Detected]
    /\ step' = IF n = 0 THEN "report" ELSE "align"
    /\ got' = 0
    /\ next' = 1
    /\ ranked' = <<>>
    /\ UNCHANGED <<returned, escaped, reports>>

(* An exception of the aligner, of the index or of the callback leaves     *)
(* process() and the frame.                                                *)
Throw ==
    /\ step \in {"align", "search", "return"}
    /\ escaped' = escaped + 1
    /\ step' = "idle"
    /\ UNCHANGED <<faces, got, next, ranked, begun, returned, reports>>

Align ==
    /\ step = "align"
    /\ step' = "encode"
    /\ UNCHANGED <<faces, got, next, ranked, counts>>

Encode ==
    /\ step = "encode"
    /\ got' \in 0..(MaxFaces + 1)
    /\ step' = "check"
    /\ UNCHANGED <<faces, next, ranked, counts>>

EncodeThrows ==
    /\ step = "encode"
    /\ step' = AfterFailure
    /\ UNCHANGED <<faces, got, next, ranked, counts>>

FaultOnlyTooMany == got > Len(faces)
WrongCount == got # Len(faces)

Attach(i) == [faces[i] EXCEPT !.emb = IF i <= got THEN i ELSE None]

CheckFails ==
    /\ step = "check"
    /\ WrongCount
    /\ step' = AfterFailure
    /\ UNCHANGED <<faces, got, next, ranked, counts>>

CheckPasses ==
    /\ step = "check"
    /\ ~WrongCount
    /\ faces' = [i \in 1..Len(faces) |-> Attach(i)]
    /\ step' = "lookup"
    /\ UNCHANGED <<got, next, ranked, counts>>

(* searcher_.size() is zero, or it is not.                                 *)
Lookup ==
    /\ step = "lookup"
    /\ step' \in {"report", "search"}
    /\ UNCHANGED <<faces, got, next, ranked, counts>>

SearchNext(ranking) ==
    /\ step = "search"
    /\ next <= Len(faces)
    /\ ranked' = Append(ranked, ranking)
    /\ faces' = [faces EXCEPT ![next] = Resolved(@, Hits(ranking))]
    /\ next' = next + 1
    /\ step' = IF next = Len(faces) THEN "report" ELSE "search"
    /\ UNCHANGED <<got, counts>>

Report ==
    /\ step = "report"
    /\ reports' = reports + 1
    /\ step' = AfterReport
    /\ UNCHANGED <<faces, got, next, ranked, begun, returned, escaped>>

Return ==
    /\ step = "return"
    /\ returned' = returned + 1
    /\ step' = "idle"
    /\ UNCHANGED <<faces, got, next, ranked, begun, escaped, reports>>

Next ==
    \/ \E n \in 0..MaxFaces : Begin(n)
    \/ Throw
    \/ Align \/ Encode \/ EncodeThrows \/ CheckFails \/ CheckPasses
    \/ Lookup \/ \E ranking \in Rankings : SearchNext(ranking)
    \/ Report \/ Return

Spec == Init /\ [][Next]_vars

-----------------------------------------------------------------------------
(* Every frame whose call returned was reported, and none twice, on each   *)
(* of the five ways out; only an exception loses a frame, and at most one  *)
(* (lines 29-33, 54-57, 62-68, 76-81, 100-102).                            *)
FramesAccounted ==
    step = "idle" =>
        /\ begun = returned + escaped
        /\ returned <= reports /\ reports <= begun

(* A reported frame carries an embedding for each face, its own, or none   *)
(* for any of them and then no identities (lines 48-72).                   *)
AllOrNothing ==
    step = "report" =>
        \/ \A i \in 1..Len(faces) : faces[i].emb = i
        \/ \A i \in 1..Len(faces) : faces[i].emb = None /\ faces[i].matched = <<>>

Looked(i) == i <= Len(ranked) /\ ranked[i] # <<>>
Leads(r, others) == \A j \in others : r[1].near - r[j].near >= MarginMin
Strong(r) == r[1].near >= Threshold /\ (Len(r) = 1 => r[1].near >= MarginMin)

(* "An identity is reported only when the best similarity clears           *)
(* `threshold` AND it leads the runner-up by at least `margin_min`": the   *)
(* runner-up being the next enrolled face, whether asked for or not, and   *)
(* the identity that of the nearest (lines 84-97, match_decision 14-27).   *)
MatchJustified ==
    \A i \in 1..Len(faces) :
        faces[i].matched # <<>> =>
            /\ Looked(i)
            /\ faces[i].matched = <<ranked[i][1].id>>
            /\ Strong(ranked[i])
            /\ Leads(ranked[i], 2..Len(ranked[i]))

(* And the other way round: a face that was looked up and whose nearest    *)
(* enrolled face is over the threshold and ahead of every other by the     *)
(* margin is resolved; no later step of the frame takes the identity away  *)
(* (same lines, "A probe resolves to a known identity only when").         *)
MatchComplete ==
    \A i \in 1..Len(faces) :
        Looked(i) /\ Strong(ranked[i]) /\ Leads(ranked[i], 2..Len(ranked[i]))
            => faces[i].matched # <<>>
=============================================================================
