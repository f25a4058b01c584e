---------------------- MODULE NonMaxSuppression_proofs ----------------------
(***************************************************************************)
(* nms() loses no face and keeps no pair, for every list of detections,    *)
(* every threshold and every order std::sort may choose.                   *)
(* The invariant: what has been visited is kept or struck out, and what is *)
(* struck out are exactly the later ones that overlap one kept.            *)
(***************************************************************************)
EXTENDS NonMaxSuppression, FiniteSetTheorems, TLAPS

(* Typing, written with the function sets that sort() builds.              *)
Shape ==
    /\ \E n \in 0..MaxDets : given \in [1..n -> Detections]
    /\ kept \subseteq DOMAIN dets
    /\ suppressed \subseteq DOMAIN dets
    /\ \/ next = 0 /\ dets = <<>>
       \/ next \in 1..(Len(given) + 1) /\ dets \in [DOMAIN given -> Detections]

Ordered ==
    \A j, k \in DOMAIN dets : j < k => dets[j].score >= dets[k].score

SameDetections ==
    next # 0 => \A k \in DOMAIN given : \E j \in DOMAIN dets : dets[j] = given[k]

Visited == \A k \in DOMAIN dets : k < next => k \in kept \/ k \in suppressed

KeptBefore == \A m \in kept : m < next /\ m \notin suppressed

StruckByKept ==
    /\ \A m \in kept : Struck(m) \subseteq suppressed
    /\ \A k \in suppressed : \E m \in kept : k \in Struck(m)

IInv ==
    Shape /\ Ordered /\ SameDetections /\ Visited /\ KeptBefore /\ StruckByKept

-----------------------------------------------------------------------------
LEMMA OverlapIsSymmetric ==
    ASSUME NEW a \in Boxes, NEW b \in Boxes
    PROVE  Overlap(a, b) <=> Overlap(b, a)
<1>1. a \in [x : Int, y : Int, width : Int, height : Int]
      /\ b \in [x : Int, y : Int, width : Int, height : Int]
  BY NmsAssumption DEF NmsAssumption
<1>2. \A u, v \in Int : Least(u, v) = Least(v, u) /\ Most(u, v) = Most(v, u)
  BY DEF Least, Most
<1>3. Intersection(a, b) = Intersection(b, a)
  BY <1>1, <1>2 DEF Intersection
<1>4. Area(a) \in Int /\ Area(b) \in Int /\ Intersection(a, b) \in Int
  <2>1. Area(a) \in Int /\ Area(b) \in Int
    BY <1>1 DEF Area
  <2>2. \A u, v \in Int : Least(u, v) \in Int /\ Most(u, v) \in Int
                         /\ Positive(u) \in Int
    BY DEF Least, Most, Positive
  <2>3. /\ a.x \in Int /\ a.width \in Int /\ b.x \in Int /\ b.width \in Int
        /\ a.y \in Int /\ a.height \in Int /\ b.y \in Int /\ b.height \in Int
    BY <1>1
  <2>4. \A u, v, w, z \in Int : Positive(Least(u, v) - Most(w, z)) \in Int
    BY <2>2
  <2>5. /\ Positive(Least(a.x + a.width, b.x + b.width) - Most(a.x, b.x)) \in Int
        /\ Positive(Least(a.y + a.height, b.y + b.height) - Most(a.y, b.y)) \in Int
    <3>1. /\ a.x + a.width \in Int /\ b.x + b.width \in Int
          /\ a.y + a.height \in Int /\ b.y + b.height \in Int
      BY <2>3
    <3> QED BY Zenon, <2>3, <2>4, <3>1
  <2>6. Intersection(a, b) \in Int
    BY <2>5 DEF Intersection
  <2> QED BY <2>1, <2>6
<1>5. Area(a) + Area(b) - Intersection(a, b) = Area(b) + Area(a) - Intersection(b, a)
  <2>1. \A u, v, w \in Int : u + v - w = v + u - w
    OBVIOUS
  <2>2. Area(a) + Area(b) - Intersection(a, b) = Area(b) + Area(a) - Intersection(a, b)
    BY <1>4, <2>1
  <2> QED BY <1>3, <2>2
<1>6. Overlap(a, b) <=>
        /\ Area(a) + Area(b) - Intersection(a, b) > 0
        /\ Intersection(a, b) * 100
               > IouPercent * (Area(a) + Area(b) - Intersection(a, b))
  BY Zenon DEF Overlap
<1>7. Overlap(b, a) <=>
        /\ Area(b) + Area(a) - Intersection(b, a) > 0
        /\ Intersection(b, a) * 100
               > IouPercent * (Area(b) + Area(a) - Intersection(b, a))
  BY Zenon DEF Overlap
<1> HIDE DEF Overlap, Area, Intersection
<1> QED BY Zenon, <1>3, <1>5, <1>6, <1>7

LEMMA ShapeFacts ==
    ASSUME Shape
    PROVE  /\ Len(given) \in Nat
           /\ DOMAIN given = 1..Len(given)
           /\ given \in Seq(Detections)
           /\ next # 0 => DOMAIN dets = 1..Len(given) /\ Len(dets) = Len(given)
           /\ next = 0 => DOMAIN dets = {}
           /\ dets \in Seq(Detections)
           /\ next \in Nat
<1>1. PICK n \in 0..MaxDets : given \in [1..n -> Detections]
  BY DEF Shape
<1>2. n \in Nat /\ Len(given) = n /\ DOMAIN given = 1..n /\ given \in Seq(Detections)
  BY <1>1, NmsAssumption DEF NmsAssumption
<1>3. CASE next = 0 /\ dets = <<>>
  BY <1>2, <1>3
<1>4. CASE next \in 1..(Len(given) + 1) /\ dets \in [DOMAIN given -> Detections]
  <2>1. dets \in [1..n -> Detections]
    BY <1>2, <1>4
  <2>2. DOMAIN dets = 1..n /\ Len(dets) = n /\ dets \in Seq(Detections)
    BY <2>1, <1>2
  <2> QED BY <2>2, <1>2, <1>4
<1> QED BY <1>3, <1>4 DEF Shape

-----------------------------------------------------------------------------
LEMMA InitInv == Init => IInv
<1> SUFFICES ASSUME Init PROVE IInv
  OBVIOUS
<1>1. Shape
  BY DEF Init, Images, Shape
<1> QED
  BY <1>1 DEF IInv, Init, Ordered, SameDetections, Visited, KeptBefore, StruckByKept

LEMMA SortInv == ASSUME IInv, Sort PROVE IInv'
<1>1. PICK p \in Sortings(given) : dets' = [j \in DOMAIN given |-> given[p[j]]]
  BY DEF Sort
<1>2. /\ p \in [DOMAIN given -> DOMAIN given]
      /\ \A k \in DOMAIN given : \E j \in DOMAIN given : p[j] = k
      /\ \A j, k \in DOMAIN given : j < k => given[p[j]].score >= given[p[k]].score
  BY DEF Sortings, Bijection, Surjection, Injection
<1>3. /\ next = 0 /\ next' = 1 /\ given' = given
      /\ kept' = kept /\ suppressed' = suppressed
      /\ kept = {} /\ suppressed = {}
  BY ShapeFacts DEF Sort, IInv, Shape
<1>4. Len(given) \in Nat /\ given \in [DOMAIN given -> Detections]
  BY ShapeFacts DEF IInv, Shape
<1>5. dets' \in [DOMAIN given -> Detections] /\ DOMAIN dets' = DOMAIN given
  BY <1>1, <1>2, <1>4
<1>6. Shape'
  BY <1>3, <1>4, <1>5 DEF Shape, IInv
<1>7. Ordered'
  BY <1>1, <1>2, <1>5 DEF Ordered
<1>8. SameDetections'
  BY <1>1, <1>2, <1>3, <1>5 DEF SameDetections
<1>9. Visited' /\ KeptBefore' /\ StruckByKept'
  <2>1. \A k \in DOMAIN dets' : ~(k < 1)
    BY <1>5, <1>3, ShapeFacts DEF IInv
  <2> QED BY <2>1, <1>3 DEF Visited, KeptBefore, StruckByKept
<1> QED BY <1>6, <1>7, <1>8, <1>9 DEF IInv

LEMMA SkipInv == ASSUME IInv, Skip PROVE IInv'
<1>1. /\ next \in DOMAIN dets /\ next \in suppressed /\ next' = next + 1
      /\ given' = given /\ dets' = dets
      /\ suppressed' = suppressed /\ kept' = kept
  BY DEF Skip
<1>2. next \in 1..Len(given) /\ Len(given) \in Nat /\ DOMAIN dets = 1..Len(given)
  BY <1>1, ShapeFacts DEF IInv
<1>3. Shape'
  BY <1>1, <1>2 DEF Shape, IInv
<1>4. Ordered' /\ SameDetections'
  BY <1>1, <1>2 DEF Ordered, SameDetections, IInv
<1>5. Visited'
  BY <1>1, <1>2 DEF Visited, IInv
<1>6. KeptBefore'
  BY <1>1, <1>2 DEF KeptBefore, IInv, Shape
<1>7. StruckByKept'
  BY <1>1 DEF StruckByKept, Struck, IInv
<1> QED BY <1>3, <1>4, <1>5, <1>6, <1>7 DEF IInv

LEMMA KeepInv == ASSUME IInv, Keep PROVE IInv'
<1>1. /\ next \in DOMAIN dets /\ next \notin suppressed /\ next' = next + 1
      /\ given' = given /\ dets' = dets
      /\ kept' = kept \cup {next}
      /\ suppressed' = suppressed \cup Struck(next)
  BY DEF Keep
<1>2. /\ next \in 1..Len(given) /\ Len(given) \in Nat
      /\ DOMAIN dets = 1..Len(given) /\ Len(dets) = Len(given)
  BY <1>1, ShapeFacts DEF IInv
<1>3. Struck(next) \subseteq DOMAIN dets /\ \A k \in Struck(next) : k > next
  BY <1>2 DEF Struck
<1>4. \A m : Struck(m)' = Struck(m)
  BY <1>1 DEF Struck
<1>5. Shape'
  BY <1>1, <1>2, <1>3 DEF Shape, IInv
<1>6. Ordered' /\ SameDetections'
  BY <1>1, <1>2 DEF Ordered, SameDetections, IInv
<1>7. Visited'
  BY <1>1, <1>2 DEF Visited, IInv
<1>8. KeptBefore'
  <2>1. kept \subseteq DOMAIN dets /\ \A m \in kept : m < next /\ m \notin suppressed
    BY DEF IInv, Shape, KeptBefore
  <2>2. ASSUME NEW m \in kept' PROVE m < next' /\ m \notin suppressed'
    BY <2>1, <1>1, <1>2, <1>3
  <2> QED BY <2>2 DEF KeptBefore
<1>9. StruckByKept'
  <2>1. \A m \in kept' : Struck(m) \subseteq suppressed'
    BY <1>1 DEF StruckByKept, IInv
  <2>2. \A k \in suppressed' : \E m \in kept' : k \in Struck(m)
    BY <1>1 DEF StruckByKept, IInv
  <2> QED BY <2>1, <2>2, <1>4 DEF StruckByKept
<1> QED BY <1>5, <1>6, <1>7, <1>8, <1>9 DEF IInv

(* Sorting loses nothing, and what nms() has visited is kept or struck out *)
(* by one that was kept (scrfd_postprocess.cpp lines 112-130).             *)
THEOREM Invariant == Spec => []IInv
<1>1. IInv /\ [Next]_vars => IInv'
  <2> SUFFICES ASSUME IInv, [Next]_vars PROVE IInv'
    OBVIOUS
  <2>1. CASE Sort BY <2>1, SortInv
  <2>2. CASE Skip BY <2>2, SkipInv
  <2>3. CASE Keep BY <2>3, KeepInv
  <2>4. CASE UNCHANGED vars
    BY <2>4 DEF vars, IInv, Shape, Ordered, SameDetections, Visited, KeptBefore,
                StruckByKept, Struck
  <2> QED BY <2>1, <2>2, <2>3, <2>4 DEF Next
<1> QED BY InitInv, <1>1, PTL DEF Spec

-----------------------------------------------------------------------------
(* Kept detections overlap by no more than the threshold, either way       *)
(* round: the later of two would have been struck out by the earlier.      *)
THEOREM KeptAreApart == Spec => []KeptApart
<1>1. IInv => KeptApart
  <2> SUFFICES ASSUME IInv, NEW j \in kept, NEW k \in kept, j # k
               PROVE  ~Overlap(dets[j].bbox, dets[k].bbox)
    BY DEF KeptApart
  <2>1. \A a, b \in kept : a < b => ~Overlap(dets[a].bbox, dets[b].bbox)
    <3> SUFFICES ASSUME NEW a \in kept, NEW b \in kept, a < b,
                        Overlap(dets[a].bbox, dets[b].bbox)
                 PROVE  FALSE
      OBVIOUS
    <3>1. next # 0 /\ a \in 1..Len(dets) /\ b \in 1..Len(dets) /\ Len(dets) \in Nat
      BY ShapeFacts DEF IInv, Shape
    <3>2. b \in Struck(a)
      BY <3>1 DEF Struck
    <3> QED BY <3>2 DEF IInv, StruckByKept, KeptBefore
  <2>2. next # 0 /\ j \in 1..Len(dets) /\ k \in 1..Len(dets) /\ Len(dets) \in Nat
        /\ dets \in Seq(Detections)
    BY ShapeFacts DEF IInv, Shape
  <2>3. dets[j] \in Detections /\ dets[k] \in Detections
    BY <2>2
  <2>4. dets[j].bbox \in Boxes /\ dets[k].bbox \in Boxes
    BY <2>3 DEF Detections
  <2>5. j < k \/ k < j
    BY <2>2
  <2> QED BY <2>1, <2>4, <2>5, OverlapIsSymmetric
<1> QED BY <1>1, Invariant, PTL

(* Every detection given to nms() is returned, or overlaps a returned one  *)
(* of no lower score.                                                      *)
THEOREM DroppedAreCovered == Spec => []DroppedCovered
<1>1. IInv => DroppedCovered
  <2> SUFFICES ASSUME IInv, Done, NEW k \in DOMAIN given
               PROVE  \E m \in kept : /\ dets[m].score >= given[k].score
                                      /\ \/ dets[m] = given[k]
                                         \/ Overlap(dets[m].bbox, given[k].bbox)
    BY DEF DroppedCovered
  <2>1. /\ Len(given) \in Nat /\ next \in Nat /\ next # 0
        /\ DOMAIN dets = 1..Len(given) /\ Len(dets) = Len(given)
        /\ dets \in Seq(Detections)
    BY ShapeFacts DEF IInv, Done
  <2>2. PICK j \in DOMAIN dets : dets[j] = given[k]
    BY <2>1 DEF IInv, SameDetections
  <2>3. j < next
    BY <2>1 DEF Done
  <2>4. dets[j] \in Detections
    BY <2>1
  <2>5. dets[j].score \in Int
    BY <2>4, NmsAssumption DEF Detections, NmsAssumption
  <2>6. CASE j \in kept
    BY <2>2, <2>5, <2>6
  <2>7. CASE j \in suppressed
    <3>1. PICK m \in kept : j \in Struck(m)
      BY <2>7 DEF IInv, StruckByKept
    <3>2. m \in DOMAIN dets
      BY DEF IInv, Shape
    <3>3. m < j /\ Overlap(dets[m].bbox, dets[j].bbox)
      BY <3>1, <3>2, <2>1 DEF Struck
    <3>4. dets[m].score >= dets[j].score
      BY <3>2, <3>3 DEF IInv, Ordered
    <3> QED BY <3>3, <3>4, <2>2
  <2> QED BY <2>3, <2>6, <2>7 DEF IInv, Visited
<1> QED BY <1>1, Invariant, PTL

-----------------------------------------------------------------------------
(* What is returned is settled by the sorted order alone: it is the one    *)
(* set whose members are those that no better member overlaps.             *)

Greedy(K) ==
    \A k \in DOMAIN dets :
        k \in K <=> \A m \in K : m < k => ~Overlap(dets[m].bbox, dets[k].bbox)

KeptIsTheGreedySet == Done => \A K \in SUBSET DOMAIN dets : Greedy(K) <=> K = kept

(* The least number that would refute a statement stands in for induction. *)
LEMMA LeastOf ==
    ASSUME NEW T \in SUBSET Nat, T # {}
    PROVE  \E n \in T : \A m \in T : n <= m
<1> DEFINE less == {p \in Nat \X Nat : p[1] < p[2]}
<1>1. OpToRel(<, Nat) = less
  BY DEF OpToRel
<1>2. IsWellFoundedOn(less, Nat)
  BY <1>1, NatLessThanWellFounded
<1>3. PICK n \in T : \A m \in T : <<m, n>> \notin less
  <2> HIDE DEF less
  <2> QED BY <1>2, WFMin
<1>4. ASSUME NEW m \in T PROVE n <= m
  <2>1. <<m, n>> \notin less /\ m \in Nat /\ n \in Nat
    BY <1>3
  <2> QED BY <2>1
<1> QED BY <1>4

LEMMA GreedySetsAgree ==
    ASSUME DOMAIN dets \subseteq Nat,
           NEW K \in SUBSET DOMAIN dets, Greedy(K),
           NEW L \in SUBSET DOMAIN dets, Greedy(L)
    PROVE  K = L
<1> DEFINE differ == {k \in DOMAIN dets : ~(k \in K <=> k \in L)}
<1>1. ASSUME differ # {} PROVE FALSE
  <2>1. differ \in SUBSET Nat
    OBVIOUS
  <2>2. PICK k \in differ : \A m \in differ : k <= m
    <3> HIDE DEF differ
    <3> QED BY <1>1, <2>1, LeastOf
  <2>3. k \in DOMAIN dets /\ ~(k \in K <=> k \in L)
    OBVIOUS
  <2>4. \A m \in DOMAIN dets : m < k => (m \in K <=> m \in L)
    <3> SUFFICES ASSUME NEW m \in DOMAIN dets, m < k, ~(m \in K <=> m \in L) PROVE FALSE
      OBVIOUS
    <3>1. m \in differ /\ m \in Nat /\ k \in Nat
      BY <2>3
    <3>2. k <= m
      BY <2>2, <3>1
    <3> QED BY <3>1, <3>2
  <2>5. (\A m \in K : m < k => ~Overlap(dets[m].bbox, dets[k].bbox))
        <=> (\A m \in L : m < k => ~Overlap(dets[m].bbox, dets[k].bbox))
    BY <2>4
  <2> QED BY <2>3, <2>5 DEF Greedy
<1> QED BY <1>1

(* When nms() is done, a detection is returned exactly if none returned    *)
(* before it overlaps it by more than the threshold; so the result depends *)
(* on std::sort's choice among equal scores and on nothing else (lines     *)
(* 113-129).                                                               *)
THEOREM SuppressionIsGreedy == Spec => []KeptIsTheGreedySet
<1>1. IInv => KeptIsTheGreedySet
  <2> SUFFICES ASSUME IInv, Done PROVE \A K \in SUBSET DOMAIN dets : Greedy(K) <=> K = kept
    BY DEF KeptIsTheGreedySet
  <2>1. /\ Len(given) \in Nat /\ next \in Nat /\ next # 0
        /\ DOMAIN dets = 1..Len(given) /\ Len(dets) = Len(given)
        /\ kept \in SUBSET DOMAIN dets
    BY ShapeFacts DEF IInv, Done, Shape
  <2>2. Greedy(kept)
    <3> SUFFICES ASSUME NEW k \in DOMAIN dets
                 PROVE  k \in kept <=>
                          \A m \in kept : m < k => ~Overlap(dets[m].bbox, dets[k].bbox)
      BY DEF Greedy
    <3>1. ASSUME k \in kept, NEW m \in kept, m < k, Overlap(dets[m].bbox, dets[k].bbox)
          PROVE  FALSE
      <4>1. k \in Struck(m)
        BY <2>1, <3>1 DEF Struck
      <4> QED BY <3>1, <4>1 DEF IInv, StruckByKept, KeptBefore
    <3>2. ASSUME k \notin kept
          PROVE  \E m \in kept : m < k /\ Overlap(dets[m].bbox, dets[k].bbox)
      <4>1. k < next
        BY <2>1 DEF Done
      <4>2. k \in suppressed
        BY <3>2, <4>1 DEF IInv, Visited
      <4>3. PICK m \in kept : k \in Struck(m)
        BY <4>2 DEF IInv, StruckByKept
      <4>4. m \in Nat
        BY <2>1
      <4> QED BY <2>1, <4>3, <4>4 DEF Struck
    <3> QED BY <3>1, <3>2
  <2> QED BY <2>1, <2>2, GreedySetsAgree
<1> QED BY <1>1, Invariant, PTL

-----------------------------------------------------------------------------
(* Overlap and area.  A box covers the product of two runs of integers, so *)
(* what two boxes share is a product again, of the runs they share.        *)

Run(u, size) == u..(u + size - 1)
Length(e) == IF e > 0 THEN e ELSE 0

LEMMA RunIsFinite ==
    ASSUME NEW u \in Int, NEW size \in Int
    PROVE  /\ IsFiniteSet(Run(u, size))
           /\ Cardinality(Run(u, size)) = Length(size)
<1>1. u + size - 1 \in Int
  OBVIOUS
<1>2. IsFiniteSet(u..(u + size - 1))
      /\ Cardinality(u..(u + size - 1)) = IF u > u + size - 1 THEN 0 ELSE u + size - 1 - u + 1
  BY <1>1, FS_Interval
<1> QED BY <1>2 DEF Run, Length

(* The length of what two runs have in common.                             *)
Meeting(u, m, v, n) ==
    /\ IsFiniteSet(Run(u, m) \cap Run(v, n))
    /\ Cardinality(Run(u, m) \cap Run(v, n)) = Positive(Least(u + m, v + n) - Most(u, v))

LEMMA RunsMeet ==
    ASSUME NEW u \in Int, NEW m \in Int, NEW v \in Int, NEW n \in Int
    PROVE  Meeting(u, m, v, n)
<1> DEFINE first == Most(u, v)
           size == Least(u + m, v + n) - Most(u, v)
<1>1. first \in Int /\ size \in Int
  BY DEF Least, Most
<1>2. Run(u, m) \cap Run(v, n) = Run(first, size)
  BY DEF Run, Least, Most
<1>3. Length(size) = Positive(size)
  BY <1>1 DEF Length, Positive, Most
<1> HIDE DEF first, size
<1>4. IsFiniteSet(Run(first, size)) /\ Cardinality(Run(first, size)) = Positive(size)
  BY <1>1, <1>3, RunIsFinite
<1> QED BY <1>2, <1>4 DEF size, Meeting

Box == [x : Int, y : Int, width : Int, height : Int]

LEMMA CellsAreProduct ==
    ASSUME NEW a
    PROVE  Cells(a) = Run(a.x, a.width) \X Run(a.y, a.height)
BY DEF Cells, Run

LEMMA CellsAreFinite ==
    ASSUME NEW a \in Box
    PROVE  /\ IsFiniteSet(Cells(a))
           /\ Cardinality(Cells(a)) = Length(a.width) * Length(a.height)
<1>1. a.x \in Int /\ a.y \in Int /\ a.width \in Int /\ a.height \in Int
  BY DEF Box
<1>2. /\ IsFiniteSet(Run(a.x, a.width)) /\ IsFiniteSet(Run(a.y, a.height))
      /\ Cardinality(Run(a.x, a.width)) = Length(a.width)
      /\ Cardinality(Run(a.y, a.height)) = Length(a.height)
  BY <1>1, RunIsFinite
<1>3. /\ IsFiniteSet(Run(a.x, a.width) \X Run(a.y, a.height))
      /\ Cardinality(Run(a.x, a.width) \X Run(a.y, a.height)) =
             Cardinality(Run(a.x, a.width)) * Cardinality(Run(a.y, a.height))
  BY <1>2, FS_Product
<1> QED BY <1>2, <1>3, CellsAreProduct

LEMMA SharedCells ==
    ASSUME NEW a \in Box, NEW b \in Box
    PROVE  /\ IsFiniteSet(Cells(a) \cap Cells(b))
           /\ Cardinality(Cells(a) \cap Cells(b)) = Intersection(a, b)
<1>1. a.x \in Int /\ a.y \in Int /\ a.width \in Int /\ a.height \in Int
  BY DEF Box
<1>2. b.x \in Int /\ b.y \in Int /\ b.width \in Int /\ b.height \in Int
  BY DEF Box
<1>3. Meeting(a.x, a.width, b.x, b.width) /\ Meeting(a.y, a.height, b.y, b.height)
  BY <1>1, <1>2, RunsMeet
<1> DEFINE columns == Run(a.x, a.width) \cap Run(b.x, b.width)
           rows == Run(a.y, a.height) \cap Run(b.y, b.height)
<1>4. Cells(a) \cap Cells(b) = columns \X rows
  BY CellsAreProduct
<1>5. IsFiniteSet(columns) /\ IsFiniteSet(rows)
  BY <1>3 DEF Meeting
<1>6. Cardinality(columns) * Cardinality(rows) = Intersection(a, b)
  BY Zenon, <1>3 DEF Meeting, Intersection
<1>7. IsFiniteSet(columns \X rows)
      /\ Cardinality(columns \X rows) = Cardinality(columns) * Cardinality(rows)
  <2> HIDE DEF columns, rows
  <2> QED BY <1>5, FS_Product
<1> QED BY Zenon, <1>4, <1>6, <1>7

(* Boxes that share anything have two positive sides each.                 *)
LEMMA MeetingBoxesHaveArea ==
    ASSUME NEW a \in Box, NEW b \in Box, Intersection(a, b) # 0
    PROVE  Cardinality(Cells(a)) = Area(a)
<1>1. a.x \in Int /\ a.y \in Int /\ a.width \in Int /\ a.height \in Int
  BY DEF Box
<1>2. b.x \in Int /\ b.y \in Int /\ b.width \in Int /\ b.height \in Int
  BY DEF Box
<1>3. \A u, m, v, n \in Int : m <= 0 => Positive(Least(u + m, v + n) - Most(u, v)) = 0
  BY DEF Positive, Least, Most
<1>4. \A u, m, v, n \in Int : Positive(Least(u + m, v + n) - Most(u, v)) \in Int
  BY DEF Positive, Least, Most
<1>5. \A e \in Int : 0 * e = 0 /\ e * 0 = 0
  OBVIOUS
<1>6. a.width > 0
  <2> SUFFICES ASSUME a.width <= 0 PROVE FALSE
    BY <1>1
  <2>1. Positive(Least(a.x + a.width, b.x + b.width) - Most(a.x, b.x)) = 0
    BY <1>1, <1>2, <1>3
  <2>2. Positive(Least(a.y + a.height, b.y + b.height) - Most(a.y, b.y)) \in Int
    BY <1>1, <1>2, <1>4
  <2> QED BY <1>5, <2>1, <2>2 DEF Intersection
<1>7. a.height > 0
  <2> SUFFICES ASSUME a.height <= 0 PROVE FALSE
    BY <1>1
  <2>1. Positive(Least(a.y + a.height, b.y + b.height) - Most(a.y, b.y)) = 0
    BY <1>1, <1>2, <1>3
  <2>2. Positive(Least(a.x + a.width, b.x + b.width) - Most(a.x, b.x)) \in Int
    BY <1>1, <1>2, <1>4
  <2> QED BY <1>5, <2>1, <2>2 DEF Intersection
<1>8. Length(a.width) = a.width /\ Length(a.height) = a.height
  BY <1>1, <1>6, <1>7 DEF Length
<1> QED BY <1>8, CellsAreFinite DEF Area

(* What iou() decides from corners is what the areas decide, for boxes     *)
(* that are apart, that touch, and that the regression turned inside out.  *)
LEMMA OverlapIsByArea ==
    ASSUME NEW a \in Box, NEW b \in Box
    PROVE  Overlap(a, b) <=>
               Cardinality(Cells(a) \cap Cells(b)) * 100
                   > IouPercent * Cardinality(Cells(a) \cup Cells(b))
<1> DEFINE shared == Cardinality(Cells(a) \cap Cells(b))
           covered == Cardinality(Cells(a) \cup Cells(b))
<1>1. IsFiniteSet(Cells(a)) /\ IsFiniteSet(Cells(b))
  BY CellsAreFinite
<1>2. /\ IsFiniteSet(Cells(a) \cup Cells(b))
      /\ covered = Cardinality(Cells(a)) + Cardinality(Cells(b)) - shared
  BY <1>1, FS_Union
<1>3. Cardinality(Cells(a)) \in Nat /\ Cardinality(Cells(b)) \in Nat
      /\ covered \in Nat /\ shared \in Nat
  BY <1>1, <1>2, SharedCells, FS_CardinalityType
<1>4. shared <= Cardinality(Cells(a))
  BY <1>1, FS_Intersection
<1>10. shared <= Cardinality(Cells(b))
  BY <1>1, FS_Intersection
<1>5. shared = Intersection(a, b)
  BY SharedCells
<1>6. IouPercent \in Nat
  BY NmsAssumption DEF NmsAssumption
<1>7. Intersection(b, a) = Intersection(a, b)
  <2>1. Cells(b) \cap Cells(a) = Cells(a) \cap Cells(b)
    OBVIOUS
  <2> QED BY <2>1, SharedCells
<1>8. CASE shared = 0
  <2>1. \A e \in Int : ~(e > 0 /\ 0 * 100 > IouPercent * e)
    BY <1>6
  <2>2. ~(shared * 100 > IouPercent * covered)
    <3>1. \A e \in Nat : ~(0 * 100 > IouPercent * e)
      BY <1>6
    <3> HIDE DEF shared, covered
    <3> QED BY <1>3, <1>8, <3>1
  <2>3. ~Overlap(a, b)
    <3>1. Area(a) \in Int /\ Area(b) \in Int
      BY DEF Area, Box
    <3>2. Area(a) + Area(b) - Intersection(a, b) \in Int
      BY <1>3, <1>5, <3>1
    <3>3. Intersection(a, b) = 0
      BY <1>5, <1>8
    <3>4. ~(/\ Area(a) + Area(b) - Intersection(a, b) > 0
            /\ 0 * 100 > IouPercent * (Area(a) + Area(b) - Intersection(a, b)))
      BY <2>1, <3>2
    <3>5. ~(/\ Area(a) + Area(b) - Intersection(a, b) > 0
            /\ Intersection(a, b) * 100
                   > IouPercent * (Area(a) + Area(b) - Intersection(a, b)))
      BY <3>3, <3>4
    <3> QED BY Zenon, <3>5 DEF Overlap
  <2> QED BY <2>2, <2>3
<1>9. CASE shared # 0
  <2>1. Cardinality(Cells(a)) = Area(a) /\ Cardinality(Cells(b)) = Area(b)
    BY <1>5, <1>7, <1>9, MeetingBoxesHaveArea
  <2>2. covered = Area(a) + Area(b) - Intersection(a, b)
    BY <1>2, <1>5, <2>1
  <2>3. covered > 0
    <3> HIDE DEF shared, covered
    <3>1. /\ Cardinality(Cells(b)) \in Nat
          /\ Cardinality(Cells(b)) >= shared
          /\ Cardinality(Cells(a)) >= shared
      BY <1>3, <1>10, <1>4
    <3> QED BY <1>2, <1>3, <1>9, <3>1
  <2> QED BY <1>5, <2>2, <2>3 DEF Overlap
<1> QED BY <1>8, <1>9

(* What iou() computes from corners is the ratio of the area two boxes     *)
(* share to the area they cover, for every pair of detections nms() ever   *)
(* compares (scrfd_postprocess.cpp lines 100-110).                         *)
THEOREM OverlapsAreByArea == Spec => []OverlapByArea
<1>1. IInv => OverlapByArea
  <2> SUFFICES ASSUME IInv, NEW j \in DOMAIN dets, NEW k \in DOMAIN dets
               PROVE  LET a == Cells(dets[j].bbox)
                          b == Cells(dets[k].bbox) IN
                      Overlap(dets[j].bbox, dets[k].bbox) <=>
                          Cardinality(a \cap b) * 100 > IouPercent * Cardinality(a \cup b)
    BY DEF OverlapByArea
  <2>1. dets \in Seq(Detections) /\ DOMAIN dets = 1..Len(dets)
    BY ShapeFacts DEF IInv
  <2>2. dets[j].bbox \in Boxes /\ dets[k].bbox \in Boxes
    <3>1. dets[j] \in Detections /\ dets[k] \in Detections
      BY <2>1
    <3> QED BY <3>1 DEF Detections
  <2>3. dets[j].bbox \in Box /\ dets[k].bbox \in Box
    BY <2>2, NmsAssumption DEF NmsAssumption, Box
  <2> QED BY <2>3, OverlapIsByArea
<1> QED BY <1>1, Invariant, PTL
=============================================================================
