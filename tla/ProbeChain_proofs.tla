------------------------- MODULE ProbeChain_proofs -------------------------
(* What TLAPS proves of ProbeChain for every number of faces, frames,      *)
(* enrolled identities and similarities.                                   *)
EXTENDS ProbeChain, TLAPS

-----------------------------------------------------------------------------
(* Counting frames.                                                        *)

(* Where process() is tells how far its frame has been counted: reported   *)
(* before "return", not before.                                            *)
Open == IF step = "idle" THEN 0 ELSE 1
CountInv ==
    /\ begun \in Nat /\ returned \in Nat /\ escaped \in Nat /\ reports \in Nat
    /\ begun = returned + escaped + Open
    /\ returned <= reports /\ reports <= begun
    /\ step = "return" => returned < reports
    /\ step \notin {"idle", "return"} => reports < begun

LEMMA CountInvHoldsInitially == Init => CountInv
BY DEF Init, CountInv, Open

LEMMA CountInvIsKept == CountInv /\ [Next]_vars => CountInv'
<1> SUFFICES ASSUME CountInv, [Next]_vars PROVE CountInv'
    OBVIOUS
<1> USE DEF CountInv, Open, counts
<1>1. ASSUME NEW n \in 0..MaxFaces, Begin(n) PROVE CountInv'
    BY <1>1 DEF Begin
<1>2. CASE Throw
    BY <1>2 DEF Throw
<1>3. CASE Align \/ Encode \/ EncodeThrows
    BY <1>3 DEF Align, Encode, EncodeThrows, AfterFailure
<1>4. CASE CheckFails \/ CheckPasses \/ Lookup
    BY <1>4 DEF CheckFails, CheckPasses, Lookup, AfterFailure
<1>5. ASSUME NEW ranking, SearchNext(ranking) PROVE CountInv'
    BY <1>5 DEF SearchNext
<1>6. CASE Report
    BY <1>6 DEF Report, AfterReport
<1>7. CASE Return
    BY <1>7 DEF Return
<1>8. CASE UNCHANGED vars
    BY <1>8 DEF vars
<1> QED
    BY <1>1, <1>2, <1>3, <1>4, <1>5, <1>6, <1>7, <1>8 DEF Next

(* No frame is lost but by an exception, and none is reported twice        *)
(* (probe_chain.cpp lines 29-33, 54-57, 62-68, 76-81, 100-102).            *)
THEOREM EveryFrameIsAccounted == Spec => []FramesAccounted
<1>1. CountInv => FramesAccounted
    BY DEF CountInv, FramesAccounted, Open
<1> QED
    BY <1>1, CountInvHoldsInitially, CountInvIsKept, PTL DEF Spec

-----------------------------------------------------------------------------
(* Embeddings and identities.                                              *)

Bare(face) == face.emb = None /\ face.matched = <<>>

(* The faces that were not looked up have no identity; none has an         *)
(* embedding before the count was checked, each has its own after.         *)
FaceInv ==
    /\ step \in Steps
    /\ got \in Nat
    /\ faces \in Seq(Faces)
    /\ Len(faces) <= MaxFaces
    /\ ranked \in Seq(Rankings)
    /\ next = Len(ranked) + 1
    /\ \A i \in 1..Len(faces) : i >= next => faces[i].matched = <<>>
    /\ step \in {"align", "encode", "check"} => \A i \in 1..Len(faces) : Bare(faces[i])
    /\ step \in {"lookup", "search"} => \A i \in 1..Len(faces) : faces[i].emb = i
    /\ AllOrNothing

LEMMA RankingIsSequence ==
    ASSUME NEW r \in Rankings
    PROVE  /\ r \in Seq(EnrolledFaces)
           /\ \A i, j \in 1..Len(r) : i < j => r[i].near >= r[j].near
<1>1. PICK n \in 0..MaxRanked : r \in [1..n -> EnrolledFaces]
    BY DEF Rankings
<1> QED
    BY <1>1, ChainAssumption DEF Rankings, ChainAssumption

HitSet == [id : Ids, similarity : Int]

LEMMA HitsAreFirst ==
    ASSUME NEW r \in Seq(EnrolledFaces)
    PROVE  /\ Hits(r) \in Seq(HitSet)
           /\ Len(Hits(r)) = IF Len(r) < TopK THEN Len(r) ELSE TopK
           /\ \A i \in 1..Len(Hits(r)) :
                 Hits(r)[i] = [id |-> r[i].id, similarity |-> Similarity(r[i].near)]
<1> DEFINE n == IF Len(r) < TopK THEN Len(r) ELSE TopK
           H == [i \in 1..n |-> [id |-> r[i].id, similarity |-> Similarity(r[i].near)]]
<1>1. n \in Nat /\ n <= Len(r)
    BY ChainAssumption DEF ChainAssumption
<1>2. \A e \in EnrolledFaces : e.id \in Ids /\ Similarity(e.near) \in Int
    <2>1. ASSUME NEW d \in Near PROVE Similarity(d) \in Int
        BY <2>1, ChainAssumption DEF ChainAssumption, Similarity
    <2> QED
        BY <2>1 DEF EnrolledFaces
<1>3. \A i \in 1..n : r[i] \in EnrolledFaces
    BY <1>1
<1>4. H \in [1..n -> HitSet]
    BY <1>2, <1>3 DEF HitSet
<1> HIDE DEF n, H
<1>5. H \in Seq(HitSet) /\ Len(H) = n
    BY <1>1, <1>4
<1>6. Hits(r) = H
    BY DEF Hits, H, n
<1> QED
    BY <1>5, <1>6 DEF H, n

LEMMA ResolvedIsFace ==
    ASSUME NEW face \in Faces, NEW r \in Rankings
    PROVE  /\ Resolved(face, Hits(r)) \in Faces
           /\ Resolved(face, Hits(r)).emb = face.emb
<1> DEFINE h == Hits(r)
<1>1. h \in Seq(HitSet)
    BY RankingIsSequence, HitsAreFirst
<1>2. CASE h = <<>>
    BY <1>2 DEF Resolved
<1>3. CASE h # <<>>
    <2> HIDE DEF h
    <2>1. 1 \in 1..Len(h) /\ (Len(h) > 1 => 2 \in 1..Len(h))
        BY <1>1, <1>3
    <2>0. h[1] \in HitSet /\ (Len(h) > 1 => h[2] \in HitSet)
        BY <1>1, <2>1
    <2>2. h[1].similarity \in Int /\ h[1].id \in Ids
        BY <2>0 DEF HitSet
    <2>3. Len(h) > 1 => h[2].similarity \in Int
        BY <2>0 DEF HitSet
    <2> DEFINE second == IF Len(h) > 1 THEN <<h[2].similarity>> ELSE <<>>
    <2>4. compute_margin(h[1].similarity, second) \in Int
        BY <2>2, <2>3 DEF compute_margin
    <2>5. (IF match_decision(h[1].similarity, second) THEN <<h[1].id>> ELSE <<>>) \in Matches
        BY <2>2 DEF Matches
    <2> HIDE DEF second
    <2>6. Decided(face, h) = [emb |-> face.emb, top1 |-> h[1].similarity,
                              margin |-> compute_margin(h[1].similarity, second),
                              matched |-> IF match_decision(h[1].similarity, second)
                                            THEN <<h[1].id>> ELSE <<>>]
        BY DEF Decided, second
    <2>7. Decided(face, h) \in Faces /\ Decided(face, h).emb = face.emb
        BY <2>2, <2>4, <2>5, <2>6 DEF Faces
    <2> QED
        BY <2>7, <1>3 DEF Resolved, h
<1> QED
    BY <1>2, <1>3

LEMMA FaceInvHoldsInitially == Init => FaceInv
BY ChainAssumption DEF ChainAssumption, Init, FaceInv, Steps, AllOrNothing

LEMMA FacesAfterSearch ==
    ASSUME FaceInv, NEW ranking \in Rankings, SearchNext(ranking)
    PROVE  /\ faces' \in Seq(Faces)
           /\ Len(faces') = Len(faces)
           /\ next \in 1..Len(faces)
           /\ faces'[next] = Resolved(faces[next], Hits(ranking))
           /\ \A i \in 1..Len(faces) : i # next => faces'[i] = faces[i]
           /\ \A i \in 1..Len(faces) : faces'[i].emb = faces[i].emb
<1> USE DEF FaceInv
<1>1. next \in 1..Len(faces) /\ Len(faces) \in Nat
    BY DEF SearchNext
<1>2. faces[next] \in Faces
    BY <1>1
<1>3. Resolved(faces[next], Hits(ranking)) \in Faces
    BY <1>2, ResolvedIsFace
<1>4. faces' = [faces EXCEPT ![next] = Resolved(faces[next], Hits(ranking))]
    BY DEF SearchNext
<1>5. faces' \in Seq(Faces) /\ Len(faces') = Len(faces)
    BY <1>1, <1>3, <1>4
<1>6. \A i \in 1..Len(faces) :
          faces'[i] = IF i = next THEN Resolved(faces[next], Hits(ranking)) ELSE faces[i]
    BY <1>1, <1>4
<1>7. Resolved(faces[next], Hits(ranking)).emb = faces[next].emb
    BY <1>2, ResolvedIsFace
<1>8. \A i \in 1..Len(faces) : faces'[i].emb = faces[i].emb
    BY <1>6, <1>7
<1> QED
    BY <1>1, <1>5, <1>6, <1>8

LEMMA DetectedIsFace == Detected \in Faces /\ Bare(Detected)
BY ChainAssumption DEF ChainAssumption, Detected, Faces, Matches, Bare, None

LEMMA FaceInvIsKept == FaceInv /\ [Next]_vars => FaceInv'
<1> SUFFICES ASSUME FaceInv, [Next]_vars PROVE FaceInv'
    OBVIOUS
<1>0. MaxFaces \in Nat /\ Len(faces) \in Nat /\ Len(ranked) \in Nat
    BY ChainAssumption DEF ChainAssumption, FaceInv
<1>1. ASSUME NEW n \in 0..MaxFaces, Begin(n) PROVE FaceInv'
    <2>1. faces' = [i \in 1..n |-> Detected] /\ n \in Nat
        BY <1>0, <1>1 DEF Begin
    <2>2. faces' \in Seq(Faces) /\ Len(faces') = n
        BY <2>1, DetectedIsFace
    <2>3. \A i \in 1..n : Bare(faces'[i])
        BY <2>1, DetectedIsFace
    <2>4. ranked' = <<>> /\ ranked' \in Seq(Rankings) /\ Len(ranked') = 0 /\ next' = 1
        BY <1>1 DEF Begin
    <2>5. n = 0 => AllOrNothing'
        BY <2>2 DEF AllOrNothing
    <2> QED
        BY <1>1, <2>2, <2>3, <2>4, <2>5 DEF Begin, FaceInv, Steps, Bare, AllOrNothing
<1>2. CASE Throw
    BY <1>2 DEF Throw, FaceInv, Steps, AllOrNothing
<1>3. CASE Align \/ Encode
    BY <1>0, <1>3 DEF Align, Encode, FaceInv, Steps, AllOrNothing, counts
<1>4. CASE EncodeThrows \/ CheckFails
    BY <1>4 DEF EncodeThrows, CheckFails, AfterFailure, FaceInv, Steps, AllOrNothing, Bare, counts
<1>5. CASE CheckPasses
    <2>1. got = Len(faces) /\ step = "check" /\ step' = "lookup"
        BY <1>5 DEF CheckPasses, WrongCount
    <2>2. ASSUME NEW i \in 1..Len(faces)
          PROVE  Attach(i) \in Faces /\ Attach(i).emb = i
                 /\ Attach(i).matched = faces[i].matched
        <3>1. faces[i] \in Faces /\ i \in 0..MaxFaces
            BY <1>0, <2>2 DEF FaceInv
        <3>2. Attach(i) = [faces[i] EXCEPT !.emb = i]
            BY <2>1 DEF Attach
        <3> QED
            BY <3>1, <3>2 DEF Faces
    <2>3. faces' = [i \in 1..Len(faces) |-> Attach(i)]
        BY <1>5 DEF CheckPasses
    <2>4. faces' \in Seq(Faces) /\ Len(faces') = Len(faces)
        BY <1>0, <2>2, <2>3
    <2>5. \A i \in 1..Len(faces) : faces'[i].emb = i /\ faces'[i].matched = faces[i].matched
        BY <2>2, <2>3
    <2> QED
        BY <1>5, <2>1, <2>4, <2>5 DEF CheckPasses, FaceInv, Steps, AllOrNothing, counts
<1>6. CASE Lookup
    BY <1>6 DEF Lookup, FaceInv, Steps, AllOrNothing, counts
<1>7. ASSUME NEW ranking \in Rankings, SearchNext(ranking) PROVE FaceInv'
    <2>1. ranked' \in Seq(Rankings) /\ Len(ranked') = Len(ranked) + 1
        BY <1>7 DEF SearchNext, FaceInv
    <2>2. next' = next + 1 /\ step' \in {"search", "report"} /\ got' = got /\ step = "search"
        BY <1>7 DEF SearchNext
    <2>3. \A i \in 1..Len(faces') : i >= next' => faces'[i].matched = <<>>
        BY <1>0, <1>7, <2>2, FacesAfterSearch DEF FaceInv
    <2>4. \A i \in 1..Len(faces') : faces'[i].emb = i
        BY <1>0, <1>7, <2>2, FacesAfterSearch DEF FaceInv
    <2> QED
        BY <1>7, <2>1, <2>2, <2>3, <2>4, FacesAfterSearch DEF FaceInv, Steps, AllOrNothing
<1>8. CASE Report \/ Return \/ UNCHANGED vars
    BY <1>8 DEF Report, Return, AfterReport, vars, FaceInv, Steps, AllOrNothing
<1> QED
    BY <1>1, <1>2, <1>3, <1>4, <1>5, <1>6, <1>7, <1>8 DEF Next

(* A reported frame has all its embeddings, each at its own face, or none  *)
(* and no identity (probe_chain.cpp lines 48-72).                          *)
THEOREM EmbeddingsAllOrNothing == Spec => []AllOrNothing
<1>1. FaceInv => AllOrNothing
    BY DEF FaceInv
<1> QED
    BY <1>1, FaceInvHoldsInitially, FaceInvIsKept, PTL DEF Spec

-----------------------------------------------------------------------------
(* The margin rule.                                                        *)

(* Under inner product, with the runner-up asked for, a face that gets an  *)
(* identity satisfies the rule against everybody enrolled.                 *)
LEMMA DecisionIsJustified ==
    ASSUME Metric = "ip", TopK >= 2,
           NEW face \in Faces, face.matched = <<>>,
           NEW r \in Rankings,
           Resolved(face, Hits(r)).matched # <<>>
    PROVE  /\ r # <<>>
           /\ Resolved(face, Hits(r)).matched = <<r[1].id>>
           /\ Strong(r)
           /\ Leads(r, 2..Len(r))
<1> DEFINE h == Hits(r)
<1>1. /\ r \in Seq(EnrolledFaces)
      /\ \A i, j \in 1..Len(r) : i < j => r[i].near >= r[j].near
    BY RankingIsSequence
<1>2. /\ h \in Seq(HitSet)
      /\ Len(h) = IF Len(r) < TopK THEN Len(r) ELSE TopK
      /\ \A i \in 1..Len(h) : h[i] = [id |-> r[i].id, similarity |-> r[i].near]
    BY <1>1, HitsAreFirst DEF Similarity
<1>3. h # <<>>
    BY DEF Resolved
<1> HIDE DEF h
<1>4. TopK \in Nat /\ Len(r) \in Nat /\ Len(h) \in Nat
    BY <1>1, <1>2, ChainAssumption DEF ChainAssumption
<1>5. 1 \in 1..Len(h) /\ 1 \in 1..Len(r) /\ Len(h) <= Len(r)
    BY <1>2, <1>3, <1>4
<1>6. h[1].similarity = r[1].near /\ h[1].id = r[1].id
    <2>1. h[1] = [id |-> r[1].id, similarity |-> r[1].near]
        BY <1>2, <1>5
    <2> QED
        BY <2>1
<1>7. Len(r) > 1 <=> Len(h) > 1
    BY <1>2, <1>4
<1>8. ASSUME Len(h) > 1 PROVE h[2].similarity = r[2].near
    <2>1. 2 \in 1..Len(h)
        BY <1>4, <1>8
    <2>2. h[2] = [id |-> r[2].id, similarity |-> r[2].near]
        BY <1>2, <2>1
    <2> QED
        BY <2>2
<1> DEFINE second == IF Len(h) > 1 THEN <<h[2].similarity>> ELSE <<>>
<1>9. match_decision(r[1].near, second) /\ Decided(face, h).matched = <<r[1].id>>
    <2>1. Resolved(face, h) = Decided(face, h)
        BY <1>3 DEF Resolved
    <2>2. Decided(face, h).matched =
              IF match_decision(r[1].near, second) THEN <<r[1].id>> ELSE <<>>
        BY <1>6 DEF Decided
    <2> QED
        BY <2>1, <2>2 DEF h
<1>10. r[1].near \in Int /\ \A j \in 1..Len(r) : r[j].near \in Int
    <2>1. \A j \in 1..Len(r) : r[j] \in EnrolledFaces
        BY <1>1
    <2>2. \A e \in EnrolledFaces : e.near \in Near
        BY DEF EnrolledFaces
    <2>3. \A d \in Near : d \in Int
        BY ChainAssumption DEF ChainAssumption
    <2> QED
        BY <1>5, <2>1, <2>2, <2>3
<1>11. Strong(r)
    <2>1. r[1].near >= Threshold
        BY <1>9 DEF match_decision
    <2>2. ASSUME Len(r) = 1 PROVE r[1].near >= MarginMin
        <3>1. second = <<>>
            BY <1>4, <1>7, <2>2
        <3> QED
            BY <1>9, <3>1 DEF match_decision, compute_margin
    <2> QED
        BY <2>1, <2>2 DEF Strong
<1>12. ASSUME NEW j \in 2..Len(r) PROVE r[1].near - r[j].near >= MarginMin
    <2>1. second = <<r[2].near>>
        BY <1>4, <1>7, <1>8, <1>12
    <2>2. second # <<>> /\ second[1] = r[2].near
        BY <2>1
    <2> HIDE DEF second
    <2>3. r[1].near - r[2].near >= MarginMin
        BY <1>9, <2>2 DEF match_decision, compute_margin
    <2>4. r[2].near >= r[j].near
        BY <1>1, <1>4, <1>10, <1>12
    <2> QED
        BY <1>4, <1>10, <1>12, <2>3, <2>4, ChainAssumption DEF ChainAssumption
<1> QED
    BY <1>3, <1>5, <1>9, <1>11, <1>12 DEF Leads, Resolved, h

LEMMA MatchJustifiedIsKept ==
    ASSUME Metric = "ip", TopK >= 2, FaceInv, MatchJustified, [Next]_vars
    PROVE  MatchJustified'
<1>0. MaxFaces \in Nat /\ Len(faces) \in Nat /\ Len(ranked) \in Nat
    BY ChainAssumption DEF ChainAssumption, FaceInv
<1>1. ASSUME NEW n \in 0..MaxFaces, Begin(n) PROVE MatchJustified'
    <2>1. faces' = [i \in 1..n |-> Detected] /\ n \in Nat
        BY <1>0, <1>1 DEF Begin
    <2>2. Len(faces') = n /\ \A i \in 1..n : faces'[i].matched = <<>>
        BY <2>1, DetectedIsFace DEF Bare
    <2> QED
        BY <2>2 DEF MatchJustified
<1>2. CASE Throw \/ Align \/ Encode \/ EncodeThrows \/ CheckFails \/ Lookup
           \/ Report \/ Return \/ UNCHANGED vars
    BY <1>2 DEF Throw, Align, Encode, EncodeThrows, CheckFails, Lookup, Report, Return,
                vars, MatchJustified, Looked
<1>3. CASE CheckPasses
    <2>1. step = "check" /\ faces' = [i \in 1..Len(faces) |-> Attach(i)]
        BY <1>3 DEF CheckPasses
    <2>2. ASSUME NEW i \in 1..Len(faces) PROVE Attach(i).matched = <<>>
        <3>1. faces[i] \in Faces /\ faces[i].matched = <<>>
            BY <2>1, <2>2 DEF FaceInv, Bare
        <3> QED
            BY <3>1 DEF Attach, Faces
    <2>3. Len(faces') = Len(faces) /\ \A i \in 1..Len(faces) : faces'[i].matched = <<>>
        BY <1>0, <2>1, <2>2
    <2> QED
        BY <2>3 DEF MatchJustified
<1>4. ASSUME NEW ranking \in Rankings, SearchNext(ranking) PROVE MatchJustified'
    <2>1. /\ Len(ranked') = next
          /\ ranked'[next] = ranking
          /\ \A i \in 1..Len(ranked) : ranked'[i] = ranked[i]
        BY <1>0, <1>4 DEF SearchNext, FaceInv
    <2>2. faces[next] \in Faces /\ faces[next].matched = <<>>
        BY <1>0, <1>4, FacesAfterSearch DEF FaceInv
    <2>3. ASSUME NEW i \in 1..Len(faces'), faces'[i].matched # <<>>
          PROVE  /\ Looked(i)'
                 /\ faces'[i].matched = <<ranked'[i][1].id>>
                 /\ Strong(ranked'[i])
                 /\ Leads(ranked'[i], 2..Len(ranked'[i]))
        <3>1. CASE i = next
            <4>1. Resolved(faces[next], Hits(ranking)).matched # <<>>
                BY <1>4, <2>3, <3>1, FacesAfterSearch
            <4>2. /\ ranking # <<>>
                  /\ Resolved(faces[next], Hits(ranking)).matched = <<ranking[1].id>>
                  /\ Strong(ranking)
                  /\ Leads(ranking, 2..Len(ranking))
                BY <2>2, <4>1, DecisionIsJustified
            <4> QED
                BY <1>0, <1>4, <2>1, <3>1, <4>2, FacesAfterSearch DEF Looked, FaceInv
        <3>2. CASE i # next
            <4>1. i \in 1..Len(faces) /\ faces'[i] = faces[i]
                BY <1>4, <2>3, <3>2, FacesAfterSearch
            <4>2. /\ Looked(i)
                  /\ faces[i].matched = <<ranked[i][1].id>>
                  /\ Strong(ranked[i])
                  /\ Leads(ranked[i], 2..Len(ranked[i]))
                BY <2>3, <4>1 DEF MatchJustified
            <4>3. i \in 1..Len(ranked) /\ ranked'[i] = ranked[i] /\ i <= Len(ranked')
                BY <1>0, <2>1, <4>1, <4>2 DEF Looked, FaceInv
            <4> QED
                BY <4>1, <4>2, <4>3 DEF Looked
        <3> QED
            BY <3>1, <3>2
    <2> QED
        BY <2>3 DEF MatchJustified
<1> QED
    BY <1>1, <1>2, <1>3, <1>4 DEF Next

(* With the inner-product metric and top_k of at least 2, an identity is   *)
(* reported only for the nearest enrolled face, over the threshold and     *)
(* leading every other by margin_min, however many are enrolled            *)
(* (probe_chain.cpp lines 84-97, match_decision.hpp lines 14-27).          *)
THEOREM MatchesAreJustified ==
    ASSUME Metric = "ip", TopK >= 2
    PROVE  Spec => []MatchJustified
<1>1. Init => FaceInv /\ MatchJustified
    BY FaceInvHoldsInitially DEF Init, MatchJustified
<1>2. FaceInv /\ MatchJustified /\ [Next]_vars => FaceInv' /\ MatchJustified'
    BY FaceInvIsKept, MatchJustifiedIsKept
<1> QED
    BY <1>1, <1>2, PTL DEF Spec

(* Nobody who satisfies the rule against everybody enrolled is turned      *)
(* away.                                                                   *)
LEMMA JustifiedIsDecided ==
    ASSUME Metric = "ip", TopK >= 2,
           NEW face \in Faces, NEW r \in Rankings,
           r # <<>>, Strong(r), Leads(r, 2..Len(r))
    PROVE  Resolved(face, Hits(r)).matched # <<>>
<1> DEFINE h == Hits(r)
<1>1. r \in Seq(EnrolledFaces)
    BY RankingIsSequence
<1>2. /\ h \in Seq(HitSet)
      /\ Len(h) = IF Len(r) < TopK THEN Len(r) ELSE TopK
      /\ \A i \in 1..Len(h) : h[i] = [id |-> r[i].id, similarity |-> r[i].near]
    BY <1>1, HitsAreFirst DEF Similarity
<1> HIDE DEF h
<1>3. TopK \in Nat /\ Len(r) \in Nat /\ Len(r) > 0 /\ Len(h) \in Nat
    BY <1>1, <1>2, ChainAssumption DEF ChainAssumption
<1>4. h # <<>> /\ 1 \in 1..Len(h)
    BY <1>2, <1>3
<1>5. h[1].similarity = r[1].near
    <2>1. h[1] = [id |-> r[1].id, similarity |-> r[1].near]
        BY <1>2, <1>4
    <2> QED
        BY <2>1
<1>6. ASSUME Len(h) > 1 PROVE h[2].similarity = r[2].near /\ 2 \in 2..Len(r)
    <2>1. 2 \in 1..Len(h) /\ 2 \in 2..Len(r)
        BY <1>2, <1>3, <1>6
    <2>2. h[2] = [id |-> r[2].id, similarity |-> r[2].near]
        BY <1>2, <2>1
    <2> QED
        BY <2>1, <2>2
<1> DEFINE second == IF Len(h) > 1 THEN <<h[2].similarity>> ELSE <<>>
<1>7. match_decision(r[1].near, second)
    <2>1. r[1].near >= Threshold
        BY DEF Strong
    <2>2. CASE Len(h) > 1
        <3>1. second # <<>> /\ second[1] = r[2].near
            BY <1>6, <2>2
        <3>2. r[1].near - r[2].near >= MarginMin
            BY <1>6, <2>2 DEF Leads
        <3> HIDE DEF second
        <3> QED
            BY <2>1, <3>1, <3>2 DEF match_decision, compute_margin
    <2>3. CASE ~(Len(h) > 1)
        <3>1. second = <<>>
            BY <2>3
        <3>2. Len(r) = 1
            <4>1. Len(r) > 1 <=> Len(h) > 1
                BY <1>2, <1>3
            <4> QED
                BY <1>3, <2>3, <4>1
        <3>3. r[1].near >= MarginMin
            BY <3>2 DEF Strong
        <3> QED
            BY <2>1, <3>1, <3>3 DEF match_decision, compute_margin
    <2> QED
        BY <2>2, <2>3
<1>8. Resolved(face, h).matched = <<h[1].id>>
    <2>1. Resolved(face, h) = Decided(face, h)
        BY <1>4 DEF Resolved
    <2>2. Decided(face, h).matched =
              IF match_decision(r[1].near, second) THEN <<h[1].id>> ELSE <<>>
        BY <1>5 DEF Decided
    <2> QED
        BY <1>7, <2>1, <2>2
<1> QED
    BY <1>8 DEF h

LEMMA MatchCompleteIsKept ==
    ASSUME Metric = "ip", TopK >= 2, FaceInv, MatchComplete, [Next]_vars
    PROVE  MatchComplete'
<1>0. MaxFaces \in Nat /\ Len(faces) \in Nat /\ Len(ranked) \in Nat
    BY ChainAssumption DEF ChainAssumption, FaceInv
<1>1. ASSUME NEW n \in 0..MaxFaces, Begin(n) PROVE MatchComplete'
    <2>1. ranked' = <<>> /\ Len(ranked') = 0
        BY <1>1 DEF Begin
    <2>2. faces' = [i \in 1..n |-> Detected] /\ n \in Nat
        BY <1>0, <1>1 DEF Begin
    <2>3. Len(faces') = n
        BY <2>2, DetectedIsFace
    <2> QED
        BY <2>1, <2>2, <2>3 DEF MatchComplete, Looked
<1>2. CASE Throw \/ Align \/ Encode \/ EncodeThrows \/ CheckFails \/ Lookup
           \/ Report \/ Return \/ UNCHANGED vars
    BY <1>2 DEF Throw, Align, Encode, EncodeThrows, CheckFails, Lookup, Report, Return,
                vars, MatchComplete, Looked
<1>3. CASE CheckPasses
    <2>1. faces' = [i \in 1..Len(faces) |-> Attach(i)] /\ ranked' = ranked
        BY <1>3 DEF CheckPasses
    <2>2. ASSUME NEW i \in 1..Len(faces) PROVE Attach(i).matched = faces[i].matched
        <3>1. faces[i] \in Faces
            BY <2>2 DEF FaceInv
        <3> QED
            BY <3>1 DEF Attach, Faces
    <2>3. Len(faces') = Len(faces)
        BY <1>0, <2>1
    <2>4. \A i \in 1..Len(faces) : faces'[i].matched = faces[i].matched
        BY <2>1, <2>2
    <2> QED
        BY <2>1, <2>3, <2>4 DEF MatchComplete, Looked
<1>4. ASSUME NEW ranking \in Rankings, SearchNext(ranking) PROVE MatchComplete'
    <2>1. /\ Len(ranked') = next
          /\ ranked'[next] = ranking
          /\ \A i \in 1..Len(ranked) : ranked'[i] = ranked[i]
        BY <1>0, <1>4 DEF SearchNext, FaceInv
    <2>2. faces[next] \in Faces
        BY <1>0, <1>4, FacesAfterSearch DEF FaceInv
    <2>3. ASSUME NEW i \in 1..Len(faces'), Looked(i)', Strong(ranked'[i]),
                 Leads(ranked'[i], 2..Len(ranked'[i]))
          PROVE  faces'[i].matched # <<>>
        <3>1. CASE i = next
            <4>1. /\ ranking # <<>>
                  /\ Strong(ranking)
                  /\ Leads(ranking, 2..Len(ranking))
                BY <2>1, <2>3, <3>1 DEF Looked
            <4>2. Resolved(faces[next], Hits(ranking)).matched # <<>>
                BY <2>2, <4>1, JustifiedIsDecided
            <4> QED
                BY <1>4, <3>1, <4>2, FacesAfterSearch
        <3>2. CASE i # next
            <4>1. i \in 1..Len(faces) /\ faces'[i] = faces[i]
                BY <1>4, <2>3, <3>2, FacesAfterSearch
            <4>2. i \in 1..Len(ranked) /\ ranked'[i] = ranked[i]
                BY <1>0, <2>1, <2>3, <3>2, <4>1 DEF Looked, FaceInv
            <4>3. Looked(i) /\ Strong(ranked[i]) /\ Leads(ranked[i], 2..Len(ranked[i]))
                BY <2>3, <4>2 DEF Looked
            <4> QED
                BY <4>1, <4>3 DEF MatchComplete
        <3> QED
            BY <3>1, <3>2
    <2> QED
        BY <2>3 DEF MatchComplete
<1> QED
    BY <1>1, <1>2, <1>3, <1>4 DEF Next

(* Under the same conditions a face that was looked up and satisfies the   *)
(* rule against everybody enrolled has its identity, to the end of the     *)
(* frame (same lines).                                                     *)
THEOREM MatchesAreComplete ==
    ASSUME Metric = "ip", TopK >= 2
    PROVE  Spec => []MatchComplete
<1>1. Init => FaceInv /\ MatchComplete
    BY FaceInvHoldsInitially DEF Init, MatchComplete
<1>2. FaceInv /\ MatchComplete /\ [Next]_vars => FaceInv' /\ MatchComplete'
    BY FaceInvIsKept, MatchCompleteIsKept
<1> QED
    BY <1>1, <1>2, PTL DEF Spec

-----------------------------------------------------------------------------
(* What is left of the type invariant: how far the loop over the faces and *)
(* the count of the embeddings can get.                                    *)
Limits ==
    /\ got \in 0..(MaxFaces + 1)
    /\ next <= Len(faces) + 1
    /\ begun <= MaxFrames

LEMMA LimitsAreKept == FaceInv /\ CountInv /\ Limits /\ [Next]_vars => Limits'
<1> SUFFICES ASSUME FaceInv, CountInv, Limits, [Next]_vars PROVE Limits'
    OBVIOUS
<1> USE ChainAssumption DEF ChainAssumption, FaceInv, CountInv, Limits
<1>1. ASSUME NEW n \in 0..MaxFaces, Begin(n) PROVE Limits'
    <2>1. faces' = [i \in 1..n |-> Detected] /\ n \in Nat
        BY <1>1 DEF Begin
    <2>2. Len(faces') = n
        BY <2>1, DetectedIsFace
    <2> QED
        BY <1>1, <2>1, <2>2 DEF Begin
<1>2. CASE Throw \/ Align \/ EncodeThrows \/ CheckFails \/ Lookup \/ Report \/ Return
           \/ UNCHANGED vars
    BY <1>2 DEF Throw, Align, EncodeThrows, CheckFails, Lookup, Report, Return, vars, counts
<1>3. CASE Encode
    BY <1>3 DEF Encode, counts
<1>4. CASE CheckPasses
    <2>1. Len(faces') = Len(faces)
        BY <1>4 DEF CheckPasses
    <2> QED
        BY <1>4, <2>1 DEF CheckPasses, counts
<1>5. ASSUME NEW ranking \in Rankings, SearchNext(ranking) PROVE Limits'
    <2>1. Len(faces') = Len(faces) /\ next \in 1..Len(faces) /\ Len(faces) \in Nat
        BY <1>5, FacesAfterSearch
    <2>2. next' = next + 1 /\ UNCHANGED <<got, begun>>
        BY <1>5 DEF SearchNext, counts
    <2>3. next' <= Len(faces') + 1
        BY <2>1, <2>2
    <2> QED
        BY <2>2, <2>3
<1> QED
    BY <1>1, <1>2, <1>3, <1>4, <1>5 DEF Next

(* Every variable keeps its type: above all the loop over the faces never  *)
(* gets past the last, whatever number of embeddings the encoder returned  *)
(* (probe_chain.cpp lines 62-97).                                          *)
THEOREM ChainTyped == Spec => []TypeOK
<1>1. Init => Limits
    BY ChainAssumption DEF ChainAssumption, Init, Limits
<1>2. FaceInv /\ CountInv /\ Limits => TypeOK
    <2> SUFFICES ASSUME FaceInv, CountInv, Limits PROVE TypeOK
        OBVIOUS
    <2>1. Len(ranked) < next /\ next \in 1..(MaxFaces + 1)
        BY ChainAssumption DEF ChainAssumption, FaceInv, Limits
    <2>2. Open \in {0, 1}
        BY DEF Open
    <2>3. /\ begun \in 0..MaxFrames /\ returned \in 0..begun
          /\ escaped \in 0..begun /\ reports \in 0..begun
        BY ChainAssumption, <2>2 DEF ChainAssumption, CountInv, Limits
    <2> QED
        BY <2>1, <2>3 DEF FaceInv, Limits, TypeOK
<1> QED
    BY <1>1, <1>2, FaceInvHoldsInitially, FaceInvIsKept, CountInvHoldsInitially, CountInvIsKept,
       LimitsAreKept, PTL DEF Spec
=============================================================================
