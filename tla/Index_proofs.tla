---------------------------- MODULE Index_proofs ----------------------------
(***************************************************************************)
(* What TLAPS proves of the two programs around the index, the searcher    *)
(* that answers from it and the tool that builds it, for every             *)
(* configuration, number of people and photos, and length of history.      *)
(***************************************************************************)
EXTENDS FaissSearcher, FaceEnroll, FiniteSetTheorems, TLAPS

-----------------------------------------------------------------------------
(* What stands in for induction over numbers: the least of those that      *)
(* would refute a statement.                                               *)
LEMMA LeastOf ==
    ASSUME NEW T \in SUBSET Nat, T # {}
    PROVE  \E n \in T : \A m \in T : n <= m
<1> DEFINE less == {p \in Nat \X Nat : p[1] < p[2]}
<1>1. OpToRel(<, Nat) = less
    BY DEF OpToRel
<1>2. IsWellFoundedOn(less, Nat)
    BY <1>1, NatLessThanWellFounded
<1>3. PICK n \in T : \A m \in T : <<m, n>> \notin less
    <2> HIDE DEF less
    <2> QED
        BY <1>2, WFMin
<1>4. ASSUME NEW m \in T PROVE n <= m
    <2>1. <<m, n>> \notin less /\ m \in Nat /\ n \in Nat
        BY <1>3
    <2> QED
        BY <2>1
<1> QED
    BY <1>4

-----------------------------------------------------------------------------
(* Sequences with gaps closed.                                             *)

Rank(places, i) == Cardinality({j \in places : j <= i})

LEMMA RanksDiffer ==
    ASSUME NEW places \in SUBSET Nat, IsFiniteSet(places),
           NEW i \in places, NEW k \in places, Rank(places, i) = Rank(places, k)
    PROVE  i = k
<1> DEFINE upTo(e) == {j \in places : j <= e}
<1>1. ASSUME NEW a \in places, NEW b \in places, a < b
      PROVE  Rank(places, a) # Rank(places, b)
    <2>1. \A j, c, d \in Nat : (j <= c /\ c < d => j <= d) /\ (c < d => ~(d <= c)) /\ d <= d
        OBVIOUS
    <2>2. upTo(a) \in SUBSET upTo(b) /\ b \notin upTo(a) /\ b \in upTo(b)
        BY <1>1, <2>1
    <2>3. IsFiniteSet(upTo(b))
        BY FS_Subset
    <2>4. Cardinality(upTo(b)) = Cardinality(upTo(a)) => upTo(b) = upTo(a)
        BY <2>2, <2>3, FS_Subset
    <2> QED
        BY <2>2, <2>4 DEF Rank
<1>2. i = k \/ i < k \/ k < i
    OBVIOUS
<1> QED
    BY <1>1, <1>2

LEMMA RanksAreTaken ==
    ASSUME NEW places \in SUBSET Nat, IsFiniteSet(places)
    PROVE  /\ \A i \in places : Rank(places, i) \in 1..Cardinality(places)
           /\ \A n \in 1..Cardinality(places) : \E i \in places : Rank(places, i) = n
<1> DEFINE size == Cardinality(places)
           f == [i \in places |-> Rank(places, i)]
<1>1. size \in Nat
    BY FS_CardinalityType
<1>2. ASSUME NEW i \in places PROVE Rank(places, i) \in 1..size
    <2> DEFINE upTo == {j \in places : j <= i}
    <2>1. IsFiniteSet(upTo) /\ Cardinality(upTo) <= size
        BY FS_Subset
    <2>2. i \in upTo
        OBVIOUS
    <2>3. Cardinality(upTo) \in Nat /\ Cardinality(upTo) # 0
        BY <2>1, <2>2, FS_CardinalityType, FS_EmptySet
    <2> QED
        BY <1>1, <2>1, <2>3 DEF Rank
<1>3. f \in Injection(places, 1..size)
    <2>1. f \in [places -> 1..size]
        BY <1>2
    <2> QED
        BY <2>1, RanksDiffer DEF Injection, IsInjective
<1>4. IsFiniteSet(1..size) /\ Cardinality(1..size) = size
    BY <1>1, FS_Interval
<1>5. f \in Surjection(places, 1..size)
    BY <1>3, <1>4, FS_Injection
<1> QED
    BY <1>2, <1>5 DEF Surjection

(* Closing the gaps leaves the entries of the places that stay, and each   *)
(* comes to the rank of its place.                                         *)
LEMMA CompactedKeeps ==
    ASSUME NEW S, NEW s \in Seq(S), NEW places \in SUBSET (1..Len(s))
    PROVE  /\ IsFiniteSet(places)
           /\ Compacted(s, places) \in Seq(S)
           /\ Len(Compacted(s, places)) = Cardinality(places)
           /\ \A n \in 1..Cardinality(places) :
                 \E i \in places : Rank(places, i) = n /\ Compacted(s, places)[n] = s[i]
           /\ \A i \in places : Compacted(s, places)[Rank(places, i)] = s[i]
<1> DEFINE size == Cardinality(places)
           place(n) == CHOOSE i \in places : Rank(places, i) = n
<1>1. IsFiniteSet(places) /\ size \in Nat
    <2>1. IsFiniteSet(1..Len(s))
        BY FS_Interval
    <2> QED
        BY <2>1, FS_Subset, FS_CardinalityType
<1>2. places \in SUBSET Nat
    OBVIOUS
<1>3. \A n \in 1..size : place(n) \in places /\ Rank(places, place(n)) = n
    BY <1>1, <1>2, RanksAreTaken
<1>4. \A i \in places : Rank(places, i) \in 1..size
    BY <1>1, <1>2, RanksAreTaken
<1>5. Compacted(s, places) = [n \in 1..size |-> s[place(n)]]
    BY DEF Compacted, Rank
<1>6. \A i \in places : s[i] \in S
    OBVIOUS
<1> HIDE DEF place, size
<1>7. Compacted(s, places) \in [1..size -> S]
    BY <1>3, <1>5, <1>6
<1>8. Len(Compacted(s, places)) = size /\ Compacted(s, places) \in Seq(S)
    BY <1>1, <1>7
<1>9. \A i \in places : place(Rank(places, i)) = i
    <2> SUFFICES ASSUME NEW i \in places PROVE place(Rank(places, i)) = i
        OBVIOUS
    <2> DEFINE k == place(Rank(places, i))
    <2>1. k \in places /\ Rank(places, k) = Rank(places, i)
        BY <1>3, <1>4
    <2> HIDE DEF k
    <2>2. k = i
        BY <1>1, <1>2, <2>1, RanksDiffer
    <2> QED
        BY <2>2 DEF k
<1>10. \A i \in places : Compacted(s, places)[Rank(places, i)] = s[i]
    BY <1>4, <1>5, <1>9
<1>11. \A n \in 1..size :
          \E i \in places : Rank(places, i) = n /\ Compacted(s, places)[n] = s[i]
    BY <1>3, <1>5
<1> QED
    BY <1>1, <1>8, <1>10, <1>11 DEF size

(* Places without a gap before them keep their number.                     *)
LEMMA InitialSegment ==
    ASSUME NEW places \in SUBSET Nat, IsFiniteSet(places), 0 \notin places,
           \A i \in places : \A j \in 1..i : j \in places
    PROVE  /\ places = 1..Cardinality(places)
           /\ \A i \in places : Rank(places, i) = i
<1> DEFINE size == Cardinality(places)
<1>1. size \in Nat
    BY FS_CardinalityType
<1>2. ASSUME NEW i \in places PROVE Rank(places, i) = i
    <2>1. {j \in places : j <= i} = 1..i
        <3>1. \A j \in places : j \in Nat /\ j # 0
            OBVIOUS
        <3>2. \A j \in 1..i : j \in places /\ j <= i
            OBVIOUS
        <3>3. \A j \in places : j <= i => j \in 1..i
            BY <3>1
        <3> QED
            BY <3>2, <3>3
    <2>2. Cardinality(1..i) = i
        BY FS_Interval
    <2> QED
        BY <2>1, <2>2 DEF Rank
<1>3. places \in SUBSET (1..size)
    BY <1>2, RanksAreTaken
<1>4. IsFiniteSet(1..size) /\ Cardinality(1..size) = size
    BY <1>1, FS_Interval
<1>5. places = 1..size
    BY <1>3, <1>4, FS_Subset
<1> QED
    BY <1>2, <1>5

-----------------------------------------------------------------------------
(* The searcher.                                                           *)

Whole(ix) == ix.kind \in Kinds

(* Why searches are safe and current: a GPU copy exists only where the     *)
(* configuration asks for one and next to a CPU index, every index that is *)
(* set is a whole one, and a call that returned left both sides equal.     *)
IInv ==
    /\ cpu = NoIndex \/ Whole(cpu)
    /\ Free \/ Whole(cpu)
    /\ file \in {NoIndex, Torn} \/ Whole(file)
    /\ onGpu => UseGpu /\ Whole(cpu) /\ Whole(gpu)
    /\ ServedIsCurrent

LEMMA WholeIsSet ==
    ASSUME NEW ix, Whole(ix)
    PROVE  ix # NoIndex
BY DEF Whole, Kinds, NoIndex, Fresh

LEMMA BuiltIsWhole ==
    ASSUME NEW who, NEW d
    PROVE  Whole(Built(who, d))
BY SearcherAssumption
   DEF SearcherAssumption, Whole, Kinds, Built, add_with_ids, Holding, Fresh, ChosenType

LEMMA ChangedIsWhole ==
    ASSUME NEW ix, Whole(ix), NEW arg, NEW strays
    PROVE  Whole(add_with_ids(ix, arg)) /\ Whole(remove_ids(ix, arg, strays))
BY DEF Whole, add_with_ids, remove_ids, Holding

(* A fresh or loaded index is uploaded: whether that works or throws.      *)
LEMMA UploadKeeps ==
    ASSUME IInv, Whole(cpu'),
           \/ Upload(cpu') /\ synced' = TRUE
           \/ UseGpu /\ UploadThrows /\ synced' = FALSE
    PROVE  (onGpu' => UseGpu /\ Whole(cpu') /\ Whole(gpu')) /\ ServedIsCurrent'
BY SearcherAssumption
   DEF SearcherAssumption, IInv, Upload, UploadThrows, ServedIsCurrent, Served

(* A changed index is uploaded only where there is a copy already.         *)
LEMMA ReuploadKeeps ==
    ASSUME IInv, Whole(cpu'),
           \/ Reupload(cpu') /\ synced' = TRUE
           \/ onGpu /\ UploadThrows /\ synced' = FALSE
    PROVE  (onGpu' => UseGpu /\ Whole(cpu') /\ Whole(gpu')) /\ ServedIsCurrent'
BY DEF IInv, Reupload, UploadThrows, ServedIsCurrent, Served

LEMMA IInvHoldsInitially == Init => IInv
BY DEF Init, IInv, ServedIsCurrent, Free

(* What a program leaves in the file it closes has the kind of its index.  *)
LEMMA ClosedIsWhole ==
    ASSUME NEW program, NEW ix, Whole(ix), Close(program, ix)
    PROVE  file' = Torn \/ Whole(file')
BY DEF Close, Spliced, Holding, Whole

LEMMA IInvIsKept == IInv /\ [Next]_vars => IInv'
<1> SUFFICES ASSUME IInv, [Next]_vars PROVE IInv'
    OBVIOUS
<1> USE DEF disk, Free
<1>1. ASSUME NEW d \in Dims, BuildThrows(d) PROVE IInv'
    BY <1>1 DEF BuildThrows, IInv, ServedIsCurrent
<1>2. ASSUME NEW who \in Batches, NEW d \in Dims, Build(who, d) PROVE IInv'
    <2>1. Whole(cpu') BY <1>2, BuiltIsWhole DEF Build
    <2>2. QED BY <1>2, <2>1, UploadKeeps DEF Build, IInv, Whole
<1>3. ASSUME NEW who \in Batches, Add(who) PROVE IInv'
    <2>1. Whole(cpu') BY <1>3, ChangedIsWhole DEF Add, IInv
    <2>2. QED BY <1>3, <2>1, ReuploadKeeps DEF Add, IInv, Whole
<1>4. ASSUME NEW gone, NEW strays, Remove(gone, strays) PROVE IInv'
    <2>1. Whole(cpu') BY <1>4, ChangedIsWhole DEF Remove, IInv
    <2>2. QED BY <1>4, <2>1, ReuploadKeeps DEF Remove, IInv, Whole
<1>5. CASE Restart
    BY <1>5 DEF Restart, IInv, ServedIsCurrent
<1>6. CASE SaveBegin
    BY <1>6 DEF SaveBegin, Open, index, IInv, ServedIsCurrent, Served, Whole
<1>7. CASE SaveEnd
    <2>1. Whole(cpu)
        BY <1>7 DEF SaveEnd, Close, IInv, Free
    <2>2. file' = Torn \/ Whole(file')
        BY <1>7, <2>1, ClosedIsWhole DEF SaveEnd
    <2>3. QED BY <1>7, <2>1, <2>2 DEF SaveEnd, index, IInv, ServedIsCurrent, Served, Whole
<1>8. CASE Load
    <2>1. Whole(cpu') BY <1>8 DEF Load, IInv
    <2>2. QED BY <1>8, <2>1, UploadKeeps DEF Load, IInv, Whole
<1>9. CASE EnrollBegin
    BY <1>9 DEF EnrollBegin, Open, index, IInv, ServedIsCurrent, Served, Whole
<1>10. ASSUME NEW who \in Batches, NEW d \in Dims, EnrollEnd(who, d) PROVE IInv'
    <2>1. file' = Torn \/ Whole(file') BY <1>10, BuiltIsWhole, ClosedIsWhole DEF EnrollEnd
    <2>2. QED BY <1>10, <2>1 DEF EnrollEnd, Close, index, IInv, ServedIsCurrent, Served, Whole
<1>11. CASE UNCHANGED vars
    BY <1>11 DEF vars, index, IInv, ServedIsCurrent, Served, Whole
<1> QED
    BY <1>1, <1>2, <1>3, <1>4, <1>5, <1>6, <1>7, <1>8, <1>9, <1>10, <1>11 DEF Next, Mutation

(* Searches are answered from the index the last call that changed it and  *)
(* returned has left (faiss_searcher.cpp lines 90-94, 106-109, 118-121,    *)
(* 168-172).                                                               *)
THEOREM SearchesAreCurrent == Spec => []ServedIsCurrent
<1>1. IInv => ServedIsCurrent
    BY DEF IInv
<1> QED
    BY <1>1, IInvHoldsInitially, IInvIsKept, PTL DEF Spec

(* A search never dereferences a missing index (lines 133, 142-143).       *)
THEOREM SearchesAreSafe == Spec => []SearchIsSafe
<1>1. IInv => SearchIsSafe
    BY WholeIsSet DEF IInv, SearchIsSafe, Served
<1> QED
    BY <1>1, IInvHoldsInitially, IInvIsKept, PTL DEF Spec

-----------------------------------------------------------------------------
(* Labels.  As long as remove() takes only those filed last, number and    *)
(* position agree in every copy of the index, and in the file unless two   *)
(* programs write it at once; that is what carries LabelsRight through an  *)
(* upload that failed and a load of what face_enroll wrote.                *)

Entries == [num : Nat, who : People]

Aligned(ix) ==
    /\ ix.store \in Seq(Entries)
    /\ ix.labels \in Seq(People)
    /\ Len(ix.store) = Len(ix.labels)
    /\ \A i \in 1..Len(ix.labels) : ix.store[i] = [num |-> i, who |-> ix.labels[i]]

LabelInv ==
    orderly => /\ Aligned(cpu) /\ Aligned(gpu)
               /\ ~clash => Aligned(file)

LEMMA FreshIsAligned ==
    ASSUME NEW kind, NEW nlist, NEW dim
    PROVE  Aligned(Fresh(kind, nlist, dim))
BY DEF Aligned, Fresh

LEMMA AddKeepsAligned ==
    ASSUME NEW ix, Aligned(ix), NEW who \in Seq(People)
    PROVE  Aligned(add_with_ids(ix, who))
<1> DEFINE n == Len(ix.store)
           new == [i \in 1..Len(who) |-> [num |-> n + i, who |-> who[i]]]
           store == ix.store \o new
           labels == ix.labels \o who
<1>1. n \in Nat /\ Len(who) \in Nat /\ n = Len(ix.labels)
    BY DEF Aligned
<1>2. new \in Seq(Entries) /\ Len(new) = Len(who)
    <2>1. new \in [1..Len(who) -> Entries]
        BY <1>1 DEF Entries
    <2> QED
        BY <1>1, <2>1
<1>3. \A i \in 1..Len(who) : new[i] = [num |-> n + i, who |-> who[i]]
    OBVIOUS
<1>4. add_with_ids(ix, who).store = store /\ add_with_ids(ix, who).labels = labels
    BY DEF add_with_ids, Holding
<1> HIDE DEF new
<1>5. ix.store \in Seq(Entries) /\ ix.labels \in Seq(People)
    BY DEF Aligned
<1>6. store \in Seq(Entries) /\ labels \in Seq(People)
      /\ Len(store) = n + Len(who) /\ Len(labels) = n + Len(who)
    <2>1. store \in Seq(Entries) /\ Len(store) = Len(ix.store) + Len(new)
        BY <1>2, <1>5
    <2>2. labels \in Seq(People) /\ Len(labels) = Len(ix.labels) + Len(who)
        BY <1>5
    <2> QED
        BY <1>1, <1>2, <2>1, <2>2
<1>7. ASSUME NEW i \in 1..(n + Len(who)) PROVE store[i] = [num |-> i, who |-> labels[i]]
    <2>0. i <= n \/ i > n
        BY <1>1
    <2>1. CASE i <= n
        <3>1. store[i] = ix.store[i] /\ labels[i] = ix.labels[i]
            BY <1>1, <1>2, <1>5, <2>1
        <3> QED
            BY <1>1, <2>1, <3>1 DEF Aligned
    <2>2. CASE i > n
        <3>1. store[i] = new[i - n] /\ labels[i] = who[i - n]
            BY <1>1, <1>2, <1>5, <2>2
        <3>2. i - n \in 1..Len(who) /\ n + (i - n) = i
            BY <1>1, <2>2
        <3>3. new[i - n] = [num |-> n + (i - n), who |-> who[i - n]]
            BY <1>3, <3>2
        <3> QED
            BY <3>1, <3>2, <3>3
    <2> QED
        BY <2>0, <2>1, <2>2
<1> QED
    BY <1>4, <1>6, <1>7 DEF Aligned

(* A search of an index in order finds the label of each vector, which is  *)
(* the person it shows.                                                    *)
LEMMA AlignedIsRead ==
    ASSUME NEW ix, Aligned(ix), NEW i \in 1..Len(ix.store)
    PROVE  /\ InArray(ix, ix.store[i])
           /\ ix.store[i].num = i
           /\ Readings(ix, ix.store[i]) = {ix.labels[i]}
           /\ ix.store[i].who = ix.labels[i]
<1>1. i \in 1..Len(ix.labels) /\ ix.store[i] = [num |-> i, who |-> ix.labels[i]]
    BY DEF Aligned
<1>2. ix.store[i].num = i /\ ix.store[i].who = ix.labels[i]
    BY <1>1
<1> QED
    BY <1>1, <1>2 DEF InArray, Readings, ntotal

LEMMA AlignedAnswersRight ==
    ASSUME NEW ix, Aligned(ix), NEW a \in Answers(ix)
    PROVE  a[1] = a[2] /\ a[2] \in Labels(ix)
<1>1. PICK v \in Vectors(ix) : a \in {v.who} \X Readings(ix, v)
    BY DEF Answers
<1>2. PICK i \in 1..Len(ix.store) : v = ix.store[i]
    BY DEF Vectors
<1>3. v.who = ix.labels[i] /\ Readings(ix, v) = {ix.labels[i]} /\ i \in 1..Len(ix.labels)
    BY <1>2, AlignedIsRead DEF Aligned
<1>4. a[1] = ix.labels[i] /\ a[2] = ix.labels[i]
    BY <1>1, <1>3
<1> QED
    BY <1>3, <1>4 DEF Labels, ntotal

(* What remove() makes of an index that is in order.                       *)
LEMMA RemovedIndex ==
    ASSUME NEW ix, Aligned(ix), NEW selected, NEW strays
    PROVE  LET left == remove_ids(ix, selected, strays)
               places == Unselected(ix, selected) IN
           /\ places \in SUBSET (1..Len(ix.labels))
           /\ left.store = Compacted(ix.store, places)
           /\ left.labels = Compacted(ix.labels, places)
           /\ left.store \in Seq(Entries) /\ left.labels \in Seq(People)
           /\ Len(left.store) = Cardinality(places) /\ Len(left.labels) = Cardinality(places)
<1> DEFINE places == Unselected(ix, selected)
<1>1. /\ ix.store \in Seq(Entries) /\ ix.labels \in Seq(People)
      /\ Len(ix.store) = Len(ix.labels)
    BY DEF Aligned
<1>2. \A i \in 1..Len(ix.store) : InArray(ix, ix.store[i]) /\ ix.store[i].num = i
    BY AlignedIsRead
<1>3. Staying(ix, selected, strays) = places
    BY <1>1, <1>2 DEF Staying, Unselected, ntotal
<1>4. /\ remove_ids(ix, selected, strays).store = Compacted(ix.store, places)
      /\ remove_ids(ix, selected, strays).labels = Compacted(ix.labels, places)
    BY <1>3 DEF remove_ids, Holding
<1>5. places \in SUBSET (1..Len(ix.labels)) /\ places \in SUBSET (1..Len(ix.store))
    BY <1>1 DEF Unselected, ntotal
<1> HIDE DEF places
<1>6. Compacted(ix.store, places) \in Seq(Entries)
      /\ Len(Compacted(ix.store, places)) = Cardinality(places)
    BY <1>1, <1>5, CompactedKeeps
<1>7. Compacted(ix.labels, places) \in Seq(People)
      /\ Len(Compacted(ix.labels, places)) = Cardinality(places)
    BY <1>1, <1>5, CompactedKeeps
<1> QED
    BY <1>4, <1>5, <1>6, <1>7 DEF places

(* Those who stay after a removal of the last ones keep their places.      *)
LEMMA RemovalKeepsAligned ==
    ASSUME NEW ix, Aligned(ix), NEW selected, NEW strays, FiledLast(ix, selected)
    PROVE  Aligned(remove_ids(ix, selected, strays))
<1> DEFINE places == Unselected(ix, selected)
           left == remove_ids(ix, selected, strays)
           size == Cardinality(places)
<1>1. /\ places \in SUBSET (1..Len(ix.labels))
      /\ left.store = Compacted(ix.store, places)
      /\ left.labels = Compacted(ix.labels, places)
      /\ left.store \in Seq(Entries) /\ left.labels \in Seq(People)
      /\ Len(left.store) = size /\ Len(left.labels) = size
    BY RemovedIndex
<1>2. /\ ix.store \in Seq(Entries) /\ ix.labels \in Seq(People)
      /\ Len(ix.store) = Len(ix.labels)
      /\ \A i \in 1..Len(ix.labels) : ix.store[i] = [num |-> i, who |-> ix.labels[i]]
    BY DEF Aligned
<1>3. \A i \in places : \A j \in 1..i : j \in places
    BY <1>2 DEF FiledLast, Unselected, ntotal
<1>4. places \in SUBSET Nat /\ 0 \notin places /\ places \in SUBSET (1..Len(ix.store))
    BY <1>1, <1>2
<1> HIDE DEF places, left
<1>5. /\ IsFiniteSet(places)
      /\ \A i \in places : Compacted(ix.store, places)[Rank(places, i)] = ix.store[i]
      /\ \A i \in places : Compacted(ix.labels, places)[Rank(places, i)] = ix.labels[i]
    BY <1>1, <1>2, <1>4, CompactedKeeps
<1>6. places = 1..size /\ \A i \in places : Rank(places, i) = i
    BY <1>3, <1>4, <1>5, InitialSegment
<1>7. \A n \in 1..size : left.store[n] = [num |-> n, who |-> left.labels[n]]
    BY <1>1, <1>2, <1>5, <1>6
<1>8. Aligned(left)
    BY <1>1, <1>7 DEF Aligned
<1> QED
    BY <1>8 DEF left

LEMMA BatchIsSequence ==
    ASSUME NEW who \in Batches PROVE who \in Seq(People)
<1>1. PICK n \in 0..MaxBatch : who \in [1..n -> People]
    BY DEF Batches
<1> QED
    BY <1>1

LEMMA BuiltIsAligned ==
    ASSUME NEW who \in Batches, NEW d PROVE Aligned(Built(who, d))
BY BatchIsSequence, FreshIsAligned, AddKeepsAligned DEF Built

LEMMA LabelInvHoldsInitially == Init => LabelInv
BY FreshIsAligned DEF Init, LabelInv, NoIndex

LEMMA LabelInvIsKept == LabelInv /\ [Next]_vars => LabelInv'
<1> SUFFICES ASSUME LabelInv, [Next]_vars PROVE LabelInv'
    OBVIOUS
<1> USE DEF disk, past
<1>0. Aligned(NoIndex) /\ Aligned(Torn)
    BY FreshIsAligned DEF NoIndex, Torn
<1>1. ASSUME NEW d \in Dims, BuildThrows(d) PROVE LabelInv'
    BY <1>1 DEF BuildThrows, LabelInv
<1>2. ASSUME NEW who \in Batches, NEW d \in Dims, Build(who, d) PROVE LabelInv'
    <2>1. Aligned(cpu')
        BY <1>2, BuiltIsAligned DEF Build
    <2> QED
        BY <1>2, <2>1 DEF Build, Upload, UploadThrows, LabelInv
<1>3. ASSUME NEW who \in Batches, Add(who) PROVE LabelInv'
    <2>1. orderly => Aligned(cpu')
        BY <1>3, BatchIsSequence, AddKeepsAligned DEF Add, LabelInv
    <2> QED
        BY <1>3, <2>1 DEF Add, Reupload, UploadThrows, LabelInv
<1>4. ASSUME NEW gone, NEW strays, Remove(gone, strays) PROVE LabelInv'
    <2>1. orderly' => orderly /\ Aligned(cpu')
        BY <1>4, RemovalKeepsAligned DEF Remove, LabelInv
    <2> QED
        BY <1>4, <2>1 DEF Remove, Reupload, UploadThrows, LabelInv
<1>5. CASE Restart
    BY <1>0, <1>5 DEF Restart, LabelInv
<1>6. CASE SaveBegin \/ EnrollBegin
    BY <1>0, <1>6 DEF SaveBegin, EnrollBegin, Open, index, LabelInv
<1>7. CASE Load
    BY <1>7 DEF Load, Upload, UploadThrows, LabelInv
<1>8. ASSUME NEW who \in Batches, NEW d \in Dims, EnrollEnd(who, d) PROVE LabelInv'
    BY <1>0, <1>8, BuiltIsAligned DEF EnrollEnd, Close, index, LabelInv
<1>9. CASE SaveEnd
    <2>1. ~clash' /\ orderly' => orderly /\ Aligned(file')
        BY <1>0, <1>9 DEF SaveEnd, Close, LabelInv
    <2> QED
        BY <1>9, <2>1 DEF SaveEnd, Close, index, LabelInv
<1>10. CASE UNCHANGED vars
    BY <1>10 DEF vars, index, LabelInv
<1> QED
    BY <1>1, <1>2, <1>3, <1>4, <1>5, <1>6, <1>7, <1>8, <1>9, <1>10 DEF Next, Mutation

(* A search that finds somebody's vector names that person, through        *)
(* builds, adds, removals of those filed last, failed uploads, saves,      *)
(* restarts and loads of a file one program wrote (faiss_searcher.cpp      *)
(* lines 84-94, 105-109, 117, 162, 166-172).                               *)
THEOREM LabelsStay == Spec => []LabelsKept
<1>1. LabelInv => LabelsKept
    BY AlignedAnswersRight DEF LabelInv, LabelsKept, LabelsRight
<1> QED
    BY <1>1, LabelInvHoldsInitially, LabelInvIsKept, PTL DEF Spec

-----------------------------------------------------------------------------
(* Which removals keep the labels.                                         *)

(* remove() on an index in order leaves every vector its label exactly if  *)
(* the people it removes were filed last.  Otherwise the vector filed last *)
(* of those that stay keeps a number past the end of the label array, and  *)
(* its label is garbage (faiss_searcher.cpp line 117).                     *)
THEOREM OnlyTheLastMayGo ==
    ASSUME NEW ix, Aligned(ix), NEW selected, NEW strays
    PROVE  (\A a \in Answers(remove_ids(ix, selected, strays)) : a[1] = a[2])
               <=> FiledLast(ix, selected)
<1> DEFINE places == Unselected(ix, selected)
           left == remove_ids(ix, selected, strays)
           size == Cardinality(places)
<1>1. /\ places \in SUBSET (1..Len(ix.labels))
      /\ left.store = Compacted(ix.store, places)
      /\ Len(left.store) = size /\ Len(left.labels) = size
    BY RemovedIndex
<1>2. /\ ix.store \in Seq(Entries) /\ ix.labels \in Seq(People)
      /\ Len(ix.store) = Len(ix.labels)
      /\ \A i \in 1..Len(ix.labels) : ix.store[i] = [num |-> i, who |-> ix.labels[i]]
    BY DEF Aligned
<1>3. \A i \in places : ix.labels[i] \in People
    BY <1>1, <1>2
<1>4. FiledLast(ix, selected) <=> \A i \in places : \A j \in 1..i : j \in places
    BY <1>2 DEF FiledLast, Unselected, ntotal
<1>5. places \in SUBSET Nat /\ 0 \notin places /\ places \in SUBSET (1..Len(ix.store))
    BY <1>1, <1>2
<1> HIDE DEF places, left
<1>6. /\ IsFiniteSet(places)
      /\ \A i \in places : left.store[Rank(places, i)] = ix.store[i]
    <2>1. /\ IsFiniteSet(places)
          /\ \A i \in places : Compacted(ix.store, places)[Rank(places, i)] = ix.store[i]
        BY <1>2, <1>5, CompactedKeeps
    <2> QED
        BY <1>1, <2>1
<1>7. size \in Nat
    BY <1>6, FS_CardinalityType
<1>8. ASSUME FiledLast(ix, selected), NEW a \in Answers(left) PROVE a[1] = a[2]
    BY <1>8, RemovalKeepsAligned, AlignedAnswersRight DEF left
<1>9. ASSUME \A a \in Answers(left) : a[1] = a[2], ~FiledLast(ix, selected) PROVE FALSE
    <2>1. PICK i \in places : i > size
        <3> SUFFICES ASSUME \A i \in places : ~(i > size) PROVE FALSE
            OBVIOUS
        <3>1. places \in SUBSET (1..size)
            BY <1>5, <1>7
        <3>2. IsFiniteSet(1..size) /\ Cardinality(1..size) = size
            BY <1>7, FS_Interval
        <3>3. places = 1..size
            BY <3>1, <3>2, FS_Subset
        <3> QED
            BY <1>4, <1>7, <1>9, <3>3
    <2>2. Rank(places, i) \in 1..size
        BY <1>5, <1>6, RanksAreTaken
    <2>3. left.store[Rank(places, i)] = [num |-> i, who |-> ix.labels[i]]
        BY <1>1, <1>2, <1>6
    <2> DEFINE v == left.store[Rank(places, i)]
    <2>4. v \in Vectors(left) /\ v.num = i /\ v.who \in People
        BY <1>1, <1>3, <2>2, <2>3 DEF Vectors
    <2>5. Garbage \in Readings(left, v)
        BY <1>1, <1>7, <2>1, <2>4 DEF Readings, InArray, ntotal
    <2>6. <<v.who, Garbage>> \in Answers(left)
        BY <2>4, <2>5 DEF Answers
    <2> QED
        BY <1>9, <2>4, <2>6, SearcherAssumption DEF SearcherAssumption
<1> QED
    BY <1>8, <1>9 DEF left

-----------------------------------------------------------------------------
(* Types.  Every index that is set is a whole one of the configured kinds, *)
(* with as many vectors as labels, and each label is somebody's.           *)

Filed(ix) == ix \in {NoIndex, Torn} \/ (IsIndex(ix) /\ ix.store \in Seq(Entries))

TypeInv ==
    /\ Filed(cpu) /\ Filed(gpu) /\ Filed(file)
    /\ Torn \notin {cpu, gpu}
    /\ onGpu \in BOOLEAN
    /\ dimension \in Dims \cup {0}
    /\ writers \subseteq {"server", "tool"}
    /\ clash \in BOOLEAN
    /\ Free \/ cpu # NoIndex
    /\ synced \in BOOLEAN
    /\ withdrawn \subseteq People
    /\ removes \in 0..MaxRemoves
    /\ orderly \in BOOLEAN

LEMMA BuiltIsFiled ==
    ASSUME NEW who \in Batches, NEW d \in Dims
    PROVE  Filed(Built(who, d)) /\ Built(who, d) # Torn
<1>1. Aligned(Built(who, d)) /\ Whole(Built(who, d))
    BY BuiltIsAligned, BuiltIsWhole
<1>2. Built(who, d).dim = d
    BY DEF Built, add_with_ids, Holding, Fresh
<1>3. Torn.kind \notin Kinds
    BY DEF Torn, Fresh, Kinds
<1> QED
    BY <1>1, <1>2, <1>3 DEF Filed, IsIndex, Balanced, Aligned, Whole

LEMMA JoinedSequences ==
    ASSUME NEW S, NEW s \in Seq(S), NEW t \in Seq(S)
    PROVE  s \o t \in Seq(S) /\ Len(s \o t) = Len(s) + Len(t)
OBVIOUS

LEMMA AddKeepsFiled ==
    ASSUME NEW ix, Filed(ix), ix \notin {NoIndex, Torn}, NEW who \in Seq(People)
    PROVE  /\ Filed(add_with_ids(ix, who))
           /\ add_with_ids(ix, who) # Torn
<1> DEFINE new == [i \in 1..Len(who) |-> [num |-> Len(ix.store) + i, who |-> who[i]]]
<1>1. /\ ix.kind \in Kinds /\ ix.dim \in Dims /\ ix.labels \in Seq(People)
      /\ ix.store \in Seq(Entries) /\ Len(ix.store) = Len(ix.labels)
    BY DEF Filed, IsIndex, Balanced
<1>2. new \in Seq(Entries) /\ Len(new) = Len(who)
    <2>1. \A i \in 1..Len(who) : Len(ix.store) + i \in Nat /\ who[i] \in People
        BY <1>1
    <2>2. new \in [1..Len(who) -> Entries] /\ Len(who) \in Nat
        BY <2>1 DEF Entries
    <2> HIDE DEF new
    <2> QED
        BY <2>2
<1>3. /\ add_with_ids(ix, who).kind = ix.kind /\ add_with_ids(ix, who).dim = ix.dim
      /\ add_with_ids(ix, who).store = ix.store \o new
      /\ add_with_ids(ix, who).labels = ix.labels \o who
    BY DEF add_with_ids, Holding
<1> HIDE DEF new
<1>4. /\ ix.store \o new \in Seq(Entries)
      /\ Len(ix.store \o new) = Len(ix.store) + Len(who)
    <2>1. ix.store \in Seq(Entries) /\ new \in Seq(Entries)
        BY <1>1, <1>2
    <2>2. ix.store \o new \in Seq(Entries) /\ Len(ix.store \o new) = Len(ix.store) + Len(new)
        BY Zenon, <2>1, JoinedSequences
    <2> QED
        BY <1>2, <2>2
<1>6. ix.labels \o who \in Seq(People) /\ Len(ix.labels \o who) = Len(ix.labels) + Len(who)
    BY <1>1, JoinedSequences
<1>5. Torn.kind \notin Kinds
    BY DEF Torn, Fresh, Kinds
<1> QED
    BY <1>1, <1>3, <1>4, <1>5, <1>6 DEF Filed, IsIndex, Balanced

(* The selected labels are gone, and no label is new.                      *)
LEMMA RemovedLabels ==
    ASSUME NEW ix, ix.labels \in Seq(People), NEW selected, NEW strays
    PROVE  /\ remove_ids(ix, selected, strays).labels \in Seq(People)
           /\ Labels(remove_ids(ix, selected, strays)) \subseteq Labels(ix) \ selected
<1> DEFINE staying == Unselected(ix, selected)
           left == Compacted(ix.labels, staying)
<1>1. remove_ids(ix, selected, strays).labels = left
    BY DEF remove_ids, Holding
<1>2. staying \in SUBSET (1..Len(ix.labels))
    BY DEF Unselected, ntotal
<1>3. \A i \in staying : ix.labels[i] \in Labels(ix) \ selected
    BY DEF Labels, Unselected
<1> HIDE DEF staying
<1>4. /\ left \in Seq(People)
      /\ \A n \in 1..Len(left) : \E i \in staying : left[n] = ix.labels[i]
    BY <1>2, CompactedKeeps
<1> HIDE DEF left
<1>5. {left[n] : n \in 1..Len(left)} \subseteq Labels(ix) \ selected
    BY <1>3, <1>4
<1> QED
    BY <1>1, <1>4, <1>5 DEF Labels, ntotal

LEMMA RemoveKeepsFiled ==
    ASSUME NEW ix, Filed(ix), ix \notin {NoIndex, Torn}, NEW selected, NEW strays,
           Balanced(remove_ids(ix, selected, strays))
    PROVE  /\ Filed(remove_ids(ix, selected, strays))
           /\ remove_ids(ix, selected, strays) \notin {NoIndex, Torn}
<1> DEFINE left == remove_ids(ix, selected, strays)
<1>1. /\ ix.kind \in Kinds /\ ix.dim \in Dims /\ ix.labels \in Seq(People)
      /\ ix.store \in Seq(Entries)
    BY DEF Filed, IsIndex
<1>2. /\ left.kind = ix.kind /\ left.dim = ix.dim
      /\ left.store = Compacted(ix.store, Staying(ix, selected, strays))
    BY DEF remove_ids, Holding
<1>3. Staying(ix, selected, strays) \in SUBSET (1..Len(ix.store))
    BY DEF Staying
<1>4. Compacted(ix.store, Staying(ix, selected, strays)) \in Seq(Entries)
    BY <1>1, <1>3, CompactedKeeps
<1>5. Torn.kind \notin Kinds /\ NoIndex.kind \notin Kinds
    BY DEF Torn, NoIndex, Fresh, Kinds
<1>6. left.labels \in Seq(People)
    BY <1>1, RemovedLabels
<1> HIDE DEF left
<1>7. Balanced(left)
    BY DEF left
<1>8. Filed(left) /\ left \notin {NoIndex, Torn}
    BY <1>1, <1>2, <1>4, <1>5, <1>6, <1>7 DEF Filed, IsIndex
<1> QED
    BY <1>8 DEF left

(* Even a file two programs wrote at once, if it is an index, is whole.    *)
LEMMA ClosedIsFiled ==
    ASSUME NEW program, NEW ix, Filed(ix), ix \notin {NoIndex, Torn}, Close(program, ix)
    PROVE  Filed(file')
<1>1. CASE file' \in {ix, Torn}
    BY <1>1 DEF Filed
<1>2. CASE file' \in Spliced(ix)
    <2>1. PICK labels \in [1..ntotal(ix) -> People] : file' = Holding(ix, ix.store, labels)
        BY <1>2 DEF Spliced
    <2>2. /\ ix.kind \in Kinds /\ ix.dim \in Dims /\ ix.labels \in Seq(People)
          /\ ix.store \in Seq(Entries) /\ Len(ix.store) = Len(ix.labels)
        BY DEF Filed, IsIndex, Balanced
    <2>3. labels \in Seq(People) /\ Len(labels) = Len(ix.labels)
        BY <2>1, <2>2 DEF ntotal
    <2>4. /\ file'.kind = ix.kind /\ file'.dim = ix.dim
          /\ file'.store = ix.store /\ file'.labels = labels
        BY <2>1 DEF Holding
    <2> QED
        BY <2>2, <2>3, <2>4 DEF Filed, IsIndex, Balanced
<1> QED
    BY <1>1, <1>2 DEF Close

LEMMA TypeInvHoldsInitially == Init => TypeInv
<1>1. NoIndex # Torn /\ Filed(NoIndex)
    BY DEF NoIndex, Torn, Fresh, Filed
<1>2. 0 \in 0..MaxRemoves
    BY SearcherAssumption DEF SearcherAssumption
<1> QED
    BY <1>1, <1>2 DEF Init, TypeInv, Free

LEMMA TypeInvIsKept == TypeInv /\ [Next]_vars => TypeInv'
<1> SUFFICES ASSUME TypeInv, [Next]_vars PROVE TypeInv'
    OBVIOUS
<1> USE DEF TypeInv, disk, past, Free
<1>0. NoIndex # Torn /\ Filed(NoIndex) /\ Filed(Torn)
    BY DEF NoIndex, Torn, Fresh, Filed
<1>1. ASSUME NEW d \in Dims, BuildThrows(d) PROVE TypeInv'
    BY <1>1 DEF BuildThrows
<1>2. ASSUME NEW who \in Batches, NEW d \in Dims, Build(who, d) PROVE TypeInv'
    <2>1. Filed(cpu') /\ cpu' # Torn
        BY <1>2, BuiltIsFiled DEF Build
    <2> QED
        BY <1>2, <2>1 DEF Build, Upload, UploadThrows
<1>3. ASSUME NEW who \in Batches, Add(who) PROVE TypeInv'
    <2>1. Filed(cpu') /\ cpu' # Torn
        BY <1>3, BatchIsSequence, AddKeepsFiled DEF Add
    <2> QED
        BY <1>3, <2>1 DEF Add, Reupload, UploadThrows
<1>4. ASSUME NEW gone \in SUBSET People, NEW strays, Remove(gone, strays) PROVE TypeInv'
    <2>1. Filed(cpu') /\ cpu' # Torn
        BY <1>4, RemoveKeepsFiled DEF Remove
    <2>2. removes' \in 0..MaxRemoves /\ orderly' \in BOOLEAN
        BY <1>4, SearcherAssumption DEF Remove, SearcherAssumption
    <2> QED
        BY <1>4, <2>1, <2>2 DEF Remove, Reupload, UploadThrows
<1>5. CASE Restart
    BY <1>0, <1>5 DEF Restart
<1>6. CASE SaveBegin \/ EnrollBegin
    BY <1>0, <1>6 DEF SaveBegin, EnrollBegin, Open, index
<1>7. CASE SaveEnd
    <2>1. Filed(file')
        BY <1>7, ClosedIsFiled DEF SaveEnd, Close
    <2> QED
        BY <1>7, <2>1 DEF SaveEnd, Close, index
<1>8. CASE Load
    <2>1. file.dim \in Dims
        BY <1>8 DEF Load, Filed, IsIndex
    <2> QED
        BY <1>8, <2>1 DEF Load, Upload, UploadThrows
<1>9. ASSUME NEW who \in Batches, NEW d \in Dims, EnrollEnd(who, d) PROVE TypeInv'
    <2>1. Built(who, d) # NoIndex
        BY BuiltIsWhole, WholeIsSet
    <2>2. Filed(file')
        BY <1>9, <2>1, BuiltIsFiled, ClosedIsFiled DEF EnrollEnd
    <2> QED
        BY <1>9, <2>2 DEF EnrollEnd, Close, index
<1>10. CASE UNCHANGED vars
    BY <1>10 DEF vars, index
<1> QED
    BY <1>1, <1>2, <1>3, <1>4, <1>5, <1>6, <1>7, <1>8, <1>9, <1>10 DEF Next, Mutation

(* Every variable keeps its type; above all the index on both devices and  *)
(* in the file is whole or not there, through uploads and saves that fail  *)
(* half-way (faiss_searcher.cpp lines 84-172).                             *)
THEOREM SearcherTyped == Spec => []TypeOK
<1>1. TypeInv => TypeOK
    BY DEF TypeInv, TypeOK, Filed
<1> QED
    BY <1>1, TypeInvHoldsInitially, TypeInvIsKept, PTL DEF Spec

-----------------------------------------------------------------------------
(* Removal.  No label of somebody withdrawn is in the CPU index, nor in    *)
(* the copy on the GPU once there is one.                                  *)

Purged(ix) == Labels(ix) \cap withdrawn = {}

PurgeInv == Purged(cpu) /\ (onGpu => Purged(gpu))

LEMMA PurgeInvHoldsInitially == Init => PurgeInv
BY DEF Init, PurgeInv, Purged

LEMMA PurgeInvIsKept == TypeInv /\ PurgeInv /\ [Next]_vars => PurgeInv'
<1> SUFFICES ASSUME TypeInv, PurgeInv, [Next]_vars PROVE PurgeInv'
    OBVIOUS
<1> USE DEF PurgeInv, Purged, disk, past
<1>1. ASSUME NEW d \in Dims, BuildThrows(d) PROVE PurgeInv'
    BY <1>1 DEF BuildThrows
<1>2. ASSUME NEW who \in Batches, NEW d \in Dims, Build(who, d) PROVE PurgeInv'
    BY <1>2 DEF Build
<1>3. ASSUME NEW who \in Batches, Add(who) PROVE PurgeInv'
    <2>1. cpu.labels \in Seq(People) /\ who \in Seq(People)
        BY <1>3, BatchIsSequence DEF Add, TypeInv, Filed, IsIndex
    <2>2. Labels(cpu') \subseteq Labels(cpu) \cup InBatch(who)
        <3>1. cpu'.labels = cpu.labels \o who
            BY <1>3 DEF Add, add_with_ids, Holding
        <3>2. \A l : (\E i \in 1..Len(cpu.labels \o who) : l = (cpu.labels \o who)[i])
                    => \/ \E i \in 1..Len(cpu.labels) : l = cpu.labels[i]
                       \/ \E i \in 1..Len(who) : l = who[i]
            <4> SUFFICES ASSUME NEW i \in 1..Len(cpu.labels \o who)
                         PROVE  \/ \E k \in 1..Len(cpu.labels) :
                                       (cpu.labels \o who)[i] = cpu.labels[k]
                                \/ \E k \in 1..Len(who) : (cpu.labels \o who)[i] = who[k]
                OBVIOUS
            <4>1. CASE i <= Len(cpu.labels)
                BY <2>1, <4>1
            <4>2. CASE i > Len(cpu.labels)
                <5>1. i - Len(cpu.labels) \in 1..Len(who)
                      /\ (cpu.labels \o who)[i] = who[i - Len(cpu.labels)]
                    BY <2>1, <4>2
                <5> QED
                    BY <5>1
            <4> QED
                BY <2>1, <4>1, <4>2
        <3> QED
            BY <3>1, <3>2 DEF Labels, ntotal, InBatch
    <2> QED
        BY <1>3, <2>2 DEF Add, Reupload, UploadThrows
<1>4. ASSUME NEW gone \in SUBSET People, NEW strays, Remove(gone, strays) PROVE PurgeInv'
    <2>1. cpu.labels \in Seq(People)
        BY <1>4 DEF Remove, TypeInv, Filed, IsIndex
    <2>2. Labels(cpu') \subseteq Labels(cpu) \ gone
        BY <1>4, <2>1, RemovedLabels DEF Remove
    <2> QED
        BY <1>4, <2>2 DEF Remove, Reupload, UploadThrows
<1>5. CASE Restart
    BY <1>5 DEF Restart
<1>6. CASE SaveBegin \/ SaveEnd \/ EnrollBegin \/ UNCHANGED vars
    BY <1>6 DEF SaveBegin, SaveEnd, EnrollBegin, Open, Close, index, vars
<1>7. CASE Load
    BY <1>7 DEF Load
<1>8. ASSUME NEW who \in Batches, NEW d \in Dims, EnrollEnd(who, d) PROVE PurgeInv'
    BY <1>8 DEF EnrollEnd, Close, index
<1> QED
    BY <1>1, <1>2, <1>3, <1>4, <1>5, <1>6, <1>7, <1>8 DEF Next, Mutation

(* Nobody who was removed is left in the array of labels searches read,    *)
(* until enrolled, built or loaded again and whichever uploads fail; and a *)
(* search does not name them while every read is inside that array, which  *)
(* LabelInv gives as long as the labels are in place (lines 112-122, 142). *)
THEOREM RemovedStayUnnamed == Spec => []RemovedNotNamed
<1>1. LabelInv /\ PurgeInv => RemovedNotNamed
    <2> SUFFICES ASSUME LabelInv, PurgeInv PROVE RemovedNotNamed
        OBVIOUS
    <2>1. Labels(Served) \cap withdrawn = {}
        BY DEF PurgeInv, Purged, Served
    <2>2. ASSUME orderly, NEW a \in Answers(Served) PROVE a[2] \notin withdrawn
        <3>1. Aligned(Served)
            BY <2>2 DEF LabelInv, Served
        <3> QED
            BY <2>1, <2>2, <3>1, AlignedAnswersRight
    <2> QED
        BY <2>1, <2>2 DEF RemovedNotNamed
<1> QED
    BY <1>1, LabelInvHoldsInitially, LabelInvIsKept, TypeInvHoldsInitially, TypeInvIsKept,
       PurgeInvHoldsInitially, PurgeInvIsKept, PTL DEF Spec

-----------------------------------------------------------------------------
(* Training.  The number of cells build() chooses by itself.               *)

LEMMA RootIsBetween ==
    ASSUME NEW n \in Nat
    PROVE  /\ RootOf16(n) \in Nat
           /\ RootOf16(n) * RootOf16(n) <= 16 * n
           /\ (RootOf16(n) + 1) * (RootOf16(n) + 1) > 16 * n
<1> DEFINE above == {r \in Nat : (r + 1) * (r + 1) > 16 * n}
<1>1. 16 * n \in above
    <2>1. \A e \in Nat : (e + 1) * (e + 1) > e
        <3> SUFFICES ASSUME NEW e \in Nat PROVE (e + 1) * (e + 1) > e
            OBVIOUS
        <3>1. (e + 1) * (e + 1) = e * e + 2 * e + 1 /\ e * e \in Nat
            OBVIOUS
        <3> QED
            BY <3>1
    <2> QED
        BY <2>1
<1>2. PICK r \in above : \A m \in above : r <= m
    <2>1. above \in SUBSET Nat
        OBVIOUS
    <2> HIDE DEF above
    <2> QED
        BY <1>1, <2>1, LeastOf
<1>3. r \in Nat /\ r <= 16 * n /\ (r + 1) * (r + 1) > 16 * n
    BY <1>1, <1>2
<1>4. r * r <= 16 * n
    <2>1. CASE r = 0
        BY <2>1
    <2>2. CASE r # 0
        <3>1. r - 1 \in Nat /\ ~(r <= r - 1) /\ (r - 1) + 1 = r
            BY <1>3, <2>2
        <3>2. r - 1 \notin above
            <4> HIDE DEF above
            <4> QED
                BY <1>2, <3>1
        <3>3. ~(r * r > 16 * n)
            BY <3>1, <3>2
        <3> QED
            BY <1>3, <3>3
    <2> QED
        BY <2>1, <2>2
<1>5. r \in 0..16 * n
    BY <1>3
<1> DEFINE fits(q) == q * q <= 16 * n /\ (q + 1) * (q + 1) > 16 * n
<1>6. RootOf16(n) = CHOOSE q \in 0..16 * n : fits(q)
    BY DEF RootOf16
<1>7. fits(r)
    BY <1>3, <1>4
<1> HIDE DEF fits
<1>8. RootOf16(n) \in 0..16 * n /\ fits(RootOf16(n))
    BY <1>5, <1>6, <1>7
<1> QED
    BY <1>8 DEF fits

(* Left to itself, build() asks for no more cells than a thirty-ninth of   *)
(* the vectors, or for one, and never for more than four times their root. *)
LEMMA DefaultCellsAreFew ==
    ASSUME NEW n \in Nat \ {0}
    PROVE  /\ default_nlist(n) \in Nat \ {0}
           /\ default_nlist(n) = 1 \/ 39 * default_nlist(n) <= n
           /\ default_nlist(n) = 1 \/ default_nlist(n) * default_nlist(n) <= 16 * n
<1> DEFINE r == RootOf16(n)
           part == n \div 39
<1>1. r \in Nat /\ r * r <= 16 * n
    BY RootIsBetween
<1>2. part \in Nat /\ 39 * part <= n
    OBVIOUS
<1>3. default_nlist(n) = Larger(1, Smaller(r, part))
    BY DEF default_nlist
<1> HIDE DEF r, part
<1>4. Smaller(r, part) \in Nat /\ Smaller(r, part) <= r /\ Smaller(r, part) <= part
    BY <1>1, <1>2 DEF Smaller
<1>5. CASE Smaller(r, part) <= 1
    <2>1. default_nlist(n) = 1
        BY <1>3, <1>4, <1>5 DEF Larger
    <2> QED
        BY <2>1
<1>6. CASE Smaller(r, part) > 1
    <2> DEFINE cells == Smaller(r, part)
    <2>1. default_nlist(n) = cells
        BY <1>3, <1>4, <1>6 DEF Larger
    <2> HIDE DEF cells
    <2>2. cells \in Nat /\ cells <= r /\ cells <= part /\ cells > 1
        BY <1>4, <1>6 DEF cells
    <2>3. cells * cells <= r * r
        <3>1. \A a, b \in Nat : a <= b => a * a <= b * b
            <4> SUFFICES ASSUME NEW a \in Nat, NEW b \in Nat, a <= b PROVE a * a <= b * b
                OBVIOUS
            <4>1. a * a <= a * b /\ a * b <= b * b
                OBVIOUS
            <4> QED
                BY <4>1
        <3> QED
            BY <1>1, <2>2, <3>1
    <2>4. 39 * cells <= n
        BY <1>2, <2>2
    <2>5. cells * cells <= 16 * n
        BY <1>1, <2>2, <2>3
    <2> QED
        BY <2>1, <2>2, <2>4, <2>5
<1> QED
    BY <1>4, <1>5, <1>6

(* With nlist left at 0 and no IVF-PQ index asked of fewer vectors than a  *)
(* sub-quantizer has centroids, training never wants more vectors than     *)
(* build() was given, however few: its guard holds of every batch that is  *)
(* not empty (faiss_searcher.cpp lines 27-32, 66, 71).                     *)
THEOREM EveryBatchTrains ==
    ASSUME NList = 0, IndexType = "ivf_pq" => PQMinSize >= PQCodes, NEW n \in Nat \ {0}
    PROVE  Trainable(n)
<1>1. default_nlist(n) \in Nat \ {0} /\ (default_nlist(n) = 1 \/ 39 * default_nlist(n) <= n)
    BY DefaultCellsAreFew
<1>2. default_nlist(n) <= n
    BY <1>1
<1>3. CellCount(n) = default_nlist(n)
    BY DEF CellCount
<1>4. ChosenType(n) = "ivf_pq" => n >= PQCodes
    BY SearcherAssumption DEF SearcherAssumption, ChosenType, FallsBack
<1> QED
    BY <1>1, <1>2, <1>3, <1>4 DEF Trainable

-----------------------------------------------------------------------------
(* face_enroll.  First the face it chooses.                                *)

(* Every non-empty list of areas has a largest.                            *)
LEMMA LargestExists ==
    ASSUME NEW s \in Seq(Nat), s # <<>>
    PROVE  \E i \in 1..Len(s) : \A j \in 1..Len(s) : s[j] <= s[i]
<1> DEFINE HasLargest(n) == \E i \in 1..n : \A j \in 1..n : s[j] <= s[i]
           bad == {n \in 1..Len(s) : ~HasLargest(n)}
<1>1. Len(s) \in Nat /\ Len(s) # 0 /\ \A i \in 1..Len(s) : s[i] \in Nat
    OBVIOUS
<1>2. ASSUME bad # {} PROVE FALSE
    <2>1. bad \in SUBSET Nat
        BY <1>1
    <2> HIDE DEF bad
    <2>2. PICK n \in bad : \A m \in bad : n <= m
        BY <1>2, <2>1, LeastOf
    <2>3. n \in 1..Len(s) /\ ~HasLargest(n)
        BY <2>2 DEF bad
    <2>4. CASE n = 1
        <3>1. 1 \in 1..1 /\ \A j \in 1..1 : s[j] <= s[1]
            BY <1>1, <2>3, <2>4
        <3> QED
            BY <2>3, <2>4, <3>1
    <2>5. CASE n # 1
        <3>1. n - 1 \in 1..Len(s) /\ ~(n <= n - 1) /\ n \in 1..n
            BY <1>1, <2>3, <2>5
        <3>2. HasLargest(n - 1)
            BY <2>2, <3>1 DEF bad
        <3>3. PICK i \in 1..(n - 1) : \A j \in 1..(n - 1) : s[j] <= s[i]
            BY <3>2
        <3>4. \A j \in 1..n : j \in 1..(n - 1) \/ j = n
            BY <2>3
        <3>5. i \in 1..n /\ s[i] \in Nat /\ s[n] \in Nat
            BY <1>1, <2>3, <3>3
        <3>6. CASE s[n] <= s[i]
            <4>1. \A j \in 1..n : s[j] <= s[i]
                BY <3>3, <3>4, <3>6
            <4> QED
                BY <2>3, <3>5, <4>1
        <3>7. CASE s[i] <= s[n]
            <4>1. \A j \in 1..n : s[j] <= s[n]
                <5> SUFFICES ASSUME NEW j \in 1..n PROVE s[j] <= s[n]
                    OBVIOUS
                <5>1. s[j] \in Nat
                    BY <1>1, <2>3
                <5>2. CASE j = n
                    BY <3>5, <5>2
                <5>3. CASE j \in 1..(n - 1)
                    <6>1. s[j] <= s[i]
                        BY <3>3, <5>3
                    <6> QED
                        BY <3>5, <3>7, <5>1, <6>1
                <5> QED
                    BY <3>4, <5>2, <5>3
            <4> QED
                BY <2>3, <3>1, <4>1
        <3> QED
            BY <3>5, <3>6, <3>7
    <2> QED
        BY <2>4, <2>5
<1>3. HasLargest(Len(s))
    <2>1. Len(s) \in 1..Len(s)
        BY <1>1
    <2>2. Len(s) \notin bad
        <3> HIDE DEF bad
        <3> QED
            BY <1>2
    <2> HIDE DEF HasLargest
    <2> QED
        BY <2>1, <2>2
<1> QED
    BY <1>3

LEMMA BestIsLargest ==
    ASSUME NEW p \in Photos, Usable(p)
    PROVE  best(p) \in DOMAIN p.faces /\ Largest(p, best(p))
<1> DEFINE s == p.faces
           tops == {i \in 1..Len(s) : \A j \in 1..Len(s) : s[j] <= s[i]}
<1>1. s \in Seq(Nat) /\ s # <<>>
    BY EnrollAssumption DEF EnrollAssumption, Usable
<1> HIDE DEF s
<1>2. DOMAIN s = 1..Len(s) /\ Len(s) \in Nat /\ \A i \in 1..Len(s) : s[i] \in Nat
    BY <1>1
<1>3. tops \in SUBSET Nat /\ tops # {}
    BY <1>1, LargestExists
<1>4. PICK i \in tops : \A k \in tops : i <= k
    <2> HIDE DEF tops
    <2> QED
        BY <1>3, LeastOf
<1>5. \A j \in DOMAIN s : ~Bigger(s[i], s[j])
    BY <1>2, <1>4 DEF Bigger
<1>6. ASSUME NEW j \in 1..(i - 1), s[j] = s[i] PROVE FALSE
    <2>1. i \in 1..Len(s) /\ j \in 1..Len(s) /\ ~(i <= j)
        BY <1>2, <1>4
    <2>2. j \in tops
        BY <1>4, <1>6, <2>1
    <2> QED
        BY <1>4, <2>1, <2>2
<1>7. i \in DOMAIN s
    BY <1>2, <1>4
<1>8. /\ best(p) \in DOMAIN s
      /\ \A j \in DOMAIN s : ~Bigger(s[best(p)], s[j])
    BY <1>5, <1>6, <1>7 DEF best, s
<1>9. \A j \in DOMAIN s : s[j] <= s[best(p)]
    BY <1>2, <1>8 DEF Bigger
<1> QED
    BY <1>8, <1>9 DEF Largest, s

-----------------------------------------------------------------------------
(* The scan.  One id and one embedding per usable photo the iterator has   *)
(* passed, in whatever order: its own, and of its largest face.            *)

Stages == {"idle", "scan", "save", "map", "mapping"}
Passed == album \ todo

MadeOf(k) ==
    LET p == embeddings[k][1] IN
    /\ p \in Passed /\ Usable(p)
    /\ embeddings[k] = <<p, best(p)>>
    /\ ids[k] = Hash[p.name]

CollectInv ==
    /\ at \in Stages
    /\ album \subseteq Photos /\ todo \subseteq album
    /\ ids \in Seq(Ids) /\ embeddings \in Seq(Embeddings)
    /\ Len(ids) = Len(embeddings)
    /\ \A k \in 1..Len(embeddings) : MadeOf(k)
    /\ \A j, k \in 1..Len(embeddings) : embeddings[j][1] = embeddings[k][1] => j = k
    /\ \A p \in Passed : Usable(p) => \E k \in 1..Len(embeddings) : embeddings[k][1] = p

(* The map knows each id once, under the name of some photo that has it.   *)
NameInv ==
    /\ \A l \in idToName : \E k \in 1..Len(ids) : l = <<ids[k], embeddings[k][1].name>>
    /\ \A k \in 1..Len(ids) : \E l \in idToName : l[1] = ids[k]
    /\ \A l, m \in idToName : l[1] = m[1] => l = m

(* From the save on the scan is over; from the map on the index is whole,  *)
(* and it and, where it was asked for, the map stay what the run wrote.    *)
StageInv ==
    /\ at # "idle" => exit = "none"
    /\ at \in {"save", "map", "mapping"} => todo = {}
    /\ at \in {"map", "mapping"} \/ exit \in {"ok", "unwritten"} =>
          /\ todo = {} /\ whole
          /\ indexFile = [i \in DOMAIN ids |-> <<ids[i], embeddings[i]>>]
    /\ exit = "ok" /\ wantMap => mapFile = idToName

FileInv == CollectInv /\ NameInv /\ StageInv

LEMMA AppendedSequence ==
    ASSUME NEW S, NEW s \in Seq(S), NEW e \in S
    PROVE  /\ Append(s, e) \in Seq(S) /\ Len(Append(s, e)) = Len(s) + 1
           /\ Append(s, e)[Len(s) + 1] = e
           /\ \A k \in 1..Len(s) : Append(s, e)[k] = s[k]
OBVIOUS

LEMMA EnrollKeepsScan ==
    ASSUME CollectInv, NameInv, NEW p \in todo, Enroll(p)
    PROVE  CollectInv' /\ NameInv'
<1> DEFINE n == Len(embeddings)
<1>1. /\ p \in Photos /\ p \in album /\ Usable(p) /\ p \notin Passed
      /\ n \in Nat /\ n = Len(ids)
      /\ ids \in Seq(Ids) /\ embeddings \in Seq(Embeddings)
    BY DEF CollectInv, Enroll, Passed
<1>2. Hash[p.name] \in Ids
    BY <1>1, EnrollAssumption DEF EnrollAssumption, Ids, Names
<1>3. <<p, best(p)>> \in Embeddings
    <2>1. best(p) \in DOMAIN p.faces /\ p.faces \in Seq(Nat)
        BY <1>1, BestIsLargest, EnrollAssumption DEF EnrollAssumption
    <2> QED
        BY <1>1, <2>1 DEF Embeddings
<1>4. /\ ids' = Append(ids, Hash[p.name])
      /\ embeddings' = Append(embeddings, <<p, best(p)>>)
      /\ album' = album /\ at' = at /\ todo' = todo \ {p}
    BY DEF Enroll
<1>5. /\ ids' \in Seq(Ids) /\ Len(ids') = n + 1
      /\ ids'[n + 1] = Hash[p.name]
      /\ \A k \in 1..n : ids'[k] = ids[k]
    BY <1>1, <1>2, <1>4, AppendedSequence
<1>6. /\ embeddings' \in Seq(Embeddings) /\ Len(embeddings') = n + 1
      /\ embeddings'[n + 1] = <<p, best(p)>>
      /\ \A k \in 1..n : embeddings'[k] = embeddings[k]
    BY <1>1, <1>3, <1>4, AppendedSequence
<1>7. Passed' = Passed \cup {p}
    BY <1>1, <1>4 DEF Passed
<1>8. \A k \in 1..(n + 1) : k \in 1..n \/ k = n + 1
    BY <1>1
<1>9. \A k \in 1..(n + 1) : MadeOf(k)'
    <2>1. ASSUME NEW k \in 1..n PROVE MadeOf(k)'
        <3>1. MadeOf(k)
            BY DEF CollectInv
        <3>2. ids'[k] = ids[k] /\ embeddings'[k] = embeddings[k]
            BY <1>5, <1>6
        <3> QED
            BY <1>7, <3>1, <3>2 DEF MadeOf
    <2>2. ASSUME NEW k \in 1..(n + 1), k = n + 1 PROVE MadeOf(k)'
        <3>1. ids'[k] = Hash[p.name] /\ embeddings'[k] = <<p, best(p)>>
            BY <1>5, <1>6, <2>2
        <3> QED
            BY <1>1, <1>7, <3>1 DEF MadeOf
    <2> QED
        BY <1>8, <2>1, <2>2
<1>10. \A j, k \in 1..(n + 1) : embeddings'[j][1] = embeddings'[k][1] => j = k
    <2>1. \A k \in 1..n : embeddings'[k][1] \in Passed
        BY <1>6 DEF CollectInv, MadeOf
    <2>2. embeddings'[n + 1][1] = p
        BY <1>6
    <2>3. \A j, k \in 1..n : embeddings'[j][1] = embeddings'[k][1] => j = k
        BY <1>6 DEF CollectInv
    <2> QED
        BY <1>1, <1>8, <2>1, <2>2, <2>3
<1>11. \A q \in Passed' : Usable(q) => \E k \in 1..(n + 1) : embeddings'[k][1] = q
    <2> SUFFICES ASSUME NEW q \in Passed', Usable(q)
                 PROVE  \E k \in 1..(n + 1) : embeddings'[k][1] = q
        OBVIOUS
    <2>1. n + 1 \in 1..(n + 1) /\ \A k \in 1..n : k \in 1..(n + 1)
        BY <1>1
    <2>2. CASE q = p
        BY <1>6, <2>1, <2>2
    <2>3. CASE q \in Passed
        <3>1. PICK k \in 1..n : embeddings[k][1] = q
            BY <2>3 DEF CollectInv
        <3> QED
            BY <1>6, <2>1, <3>1
    <2> QED
        BY <1>7, <2>2, <2>3
<1>12. CollectInv'
    <2>1. at' \in Stages /\ album' \subseteq Photos /\ todo' \subseteq album'
        BY <1>4 DEF CollectInv
    <2> QED
        BY <1>5, <1>6, <1>9, <1>10, <1>11, <2>1 DEF CollectInv
<1>13. NameInv'
    <2>0. n + 1 \in 1..(n + 1) /\ \A k \in 1..n : k \in 1..(n + 1)
        BY <1>1
    <2>1. ASSUME NEW l \in idToName
          PROVE  \E k \in 1..(n + 1) : l = <<ids'[k], embeddings'[k][1].name>>
        <3>1. PICK k \in 1..n : l = <<ids[k], embeddings[k][1].name>>
            BY <1>1 DEF NameInv
        <3> QED
            BY <1>5, <1>6, <2>0, <3>1
    <2>2. CASE \E l \in idToName : l[1] = Hash[p.name]
        <3>1. idToName' = idToName
            BY <2>2 DEF Enroll, Emplaced, Known
        <3>2. \A k \in 1..(n + 1) : \E l \in idToName : l[1] = ids'[k]
            BY <1>1, <1>5, <1>8, <2>2 DEF NameInv
        <3> QED
            BY <1>5, <2>1, <3>1, <3>2 DEF NameInv
    <2>3. CASE \A l \in idToName : l[1] # Hash[p.name]
        <3> DEFINE line == <<Hash[p.name], p.name>>
        <3>1. idToName' = idToName \cup {line}
            BY <2>3 DEF Enroll, Emplaced, Known
        <3>2. line = <<ids'[n + 1], embeddings'[n + 1][1].name>> /\ line[1] = Hash[p.name]
            BY <1>5, <1>6
        <3> HIDE DEF line
        <3>3. \A l \in idToName' : \E k \in 1..(n + 1) : l = <<ids'[k], embeddings'[k][1].name>>
            BY <2>0, <2>1, <3>1, <3>2
        <3>4. \A k \in 1..(n + 1) : \E l \in idToName' : l[1] = ids'[k]
            <4>1. \A k \in 1..n : \E l \in idToName : l[1] = ids'[k]
                BY <1>1, <1>5 DEF NameInv
            <4> QED
                BY <1>5, <1>8, <3>1, <3>2, <4>1
        <3>5. \A l, m \in idToName' : l[1] = m[1] => l = m
            BY <2>3, <3>1, <3>2 DEF NameInv
        <3> QED
            BY <1>5, <3>3, <3>4, <3>5 DEF NameInv
    <2> QED
        BY <2>2, <2>3
<1> QED
    BY <1>12, <1>13

(* After the scan nothing touches what it collected.                       *)
AfterScan ==
    \/ ScanFails \/ BuildFails \/ BuildAndOpen \/ Saved \/ SaveFails
    \/ NoMap \/ OpenMap \/ WriteMap \/ MapFails \/ Killed

LEMMA AfterScanKeeps ==
    ASSUME AfterScan, at \in Stages
    PROVE  UNCHANGED <<album, todo, collected>> /\ at' \in Stages
BY DEF AfterScan, ScanFails, BuildFails, BuildAndOpen, Saved, SaveFails, NoMap, OpenMap,
       WriteMap, MapFails, Killed, Exit, Stages, collected

LEMMA FileInvHoldsInitially == EnrollInit => FileInv
<1> SUFFICES ASSUME EnrollInit PROVE FileInv
    OBVIOUS
<1>1. Len(ids) = 0 /\ Len(embeddings) = 0 /\ 1..0 = {}
    BY DEF EnrollInit
<1>2. CollectInv
    BY <1>1 DEF EnrollInit, CollectInv, Passed, Stages
<1>3. NameInv
    BY <1>1 DEF EnrollInit, NameInv
<1>4. StageInv
    BY DEF EnrollInit, StageInv
<1> QED
    BY <1>2, <1>3, <1>4 DEF FileInv

LEMMA CollectInvIsKept ==
    CollectInv /\ NameInv /\ [EnrollNext]_enrollVars => CollectInv' /\ NameInv'
<1> SUFFICES ASSUME CollectInv, NameInv, [EnrollNext]_enrollVars PROVE CollectInv' /\ NameInv'
    OBVIOUS
<1>1. ASSUME NEW photos \in SUBSET Photos, NEW map \in BOOLEAN, Run(photos, map)
      PROVE  CollectInv' /\ NameInv'
    <2>1. /\ ids' = <<>> /\ embeddings' = <<>> /\ idToName' = {}
          /\ album' = photos /\ todo' = photos /\ at' = "scan"
        BY <1>1 DEF Run
    <2>2. Len(ids') = 0 /\ Len(embeddings') = 0 /\ 1..0 = {} /\ Passed' = {}
        BY <2>1 DEF Passed
    <2>3. CollectInv'
        BY <2>1, <2>2 DEF CollectInv, Stages
    <2>4. NameInv'
        BY <2>1, <2>2 DEF NameInv
    <2> QED
        BY <2>3, <2>4
<1>2. ASSUME NEW p \in todo, Pass(p) PROVE CollectInv' /\ NameInv'
    <2>1. /\ UNCHANGED <<at, album, ids, embeddings, idToName>>
          /\ todo' = todo \ {p} /\ ~Usable(p)
        BY <1>2 DEF Pass, collected
    <2>2. Passed' = Passed \cup {p}
        BY <2>1 DEF Passed, CollectInv
    <2>3. \A k \in 1..Len(embeddings) : MadeOf(k)'
        BY <2>1, <2>2 DEF CollectInv, MadeOf
    <2>4. CollectInv'
        BY <2>1, <2>2, <2>3 DEF CollectInv
    <2>5. NameInv'
        BY <2>1 DEF NameInv
    <2> QED
        BY <2>4, <2>5
<1>3. ASSUME NEW p \in todo, Enroll(p) PROVE CollectInv' /\ NameInv'
    BY <1>3, EnrollKeepsScan
<1>4. CASE AfterScan \/ UNCHANGED enrollVars
    <2>1. UNCHANGED <<album, todo, ids, embeddings, idToName>> /\ at' \in Stages
        BY <1>4, AfterScanKeeps DEF CollectInv, enrollVars, collected
    <2>2. Passed' = Passed
        BY <2>1 DEF Passed
    <2>3. \A k \in 1..Len(embeddings) : MadeOf(k)'
        BY <2>1, <2>2 DEF CollectInv, MadeOf
    <2>4. CollectInv'
        BY <2>1, <2>2, <2>3 DEF CollectInv
    <2>5. NameInv'
        BY <2>1 DEF NameInv
    <2> QED
        BY <2>4, <2>5
<1> QED
    BY <1>1, <1>2, <1>3, <1>4 DEF EnrollNext, AfterScan

LEMMA StageInvIsKept == StageInv /\ [EnrollNext]_enrollVars => StageInv'
<1> SUFFICES ASSUME StageInv, [EnrollNext]_enrollVars PROVE StageInv'
    OBVIOUS
<1> USE DEF StageInv, collected, files
<1>1. ASSUME NEW photos \in SUBSET Photos, NEW map \in BOOLEAN, Run(photos, map)
      PROVE  StageInv'
    BY <1>1 DEF Run
<1>2. ASSUME NEW p \in todo, Pass(p) \/ Enroll(p) PROVE StageInv'
    BY <1>2 DEF Pass, Enroll
<1>3. CASE ScanFails \/ BuildFails \/ SaveFails \/ Killed
    BY <1>3 DEF ScanFails, BuildFails, SaveFails, Killed, Exit
<1>4. CASE BuildAndOpen
    BY <1>4 DEF BuildAndOpen
<1>5. CASE Saved
    BY <1>5 DEF Saved
<1>6. CASE NoMap
    BY <1>6 DEF NoMap, Exit
<1>7. CASE OpenMap
    BY <1>7 DEF OpenMap
<1>8. CASE WriteMap
    BY <1>8 DEF WriteMap, Exit
<1>9. CASE MapFails
    BY <1>9 DEF MapFails, Exit
<1>10. CASE UNCHANGED enrollVars
    BY <1>10 DEF enrollVars
<1> QED
    BY <1>1, <1>2, <1>3, <1>4, <1>5, <1>6, <1>7, <1>8, <1>9, <1>10 DEF EnrollNext

LEMMA FileInvariant == EnrollSpec => []FileInv
<1>1. FileInv /\ [EnrollNext]_enrollVars => FileInv'
    BY CollectInvIsKept, StageInvIsKept DEF FileInv
<1> QED
    BY <1>1, FileInvHoldsInitially, PTL DEF EnrollSpec

(* The index of a run that succeeded, in terms of what the scan collected. *)
LEMMA IndexOfRun ==
    ASSUME FileInv, exit \in {"ok", "unwritten"}
    PROVE  /\ whole /\ Passed = album
           /\ Len(indexFile) = Len(embeddings) /\ Len(embeddings) \in Nat
           /\ DOMAIN indexFile = 1..Len(embeddings)
           /\ \A k \in 1..Len(embeddings) :
                 indexFile[k] = <<ids[k], embeddings[k]>> /\ MadeOf(k)
<1>1. /\ todo = {} /\ whole
      /\ indexFile = [i \in DOMAIN ids |-> <<ids[i], embeddings[i]>>]
    BY DEF FileInv, StageInv
<1>2. /\ DOMAIN ids = 1..Len(embeddings) /\ Len(embeddings) \in Nat
      /\ \A k \in 1..Len(embeddings) : MadeOf(k)
    BY DEF FileInv, CollectInv
<1>3. indexFile = [i \in 1..Len(embeddings) |-> <<ids[i], embeddings[i]>>]
    BY <1>1, <1>2
<1>4. Len(indexFile) = Len(embeddings) /\ DOMAIN indexFile = 1..Len(embeddings)
    BY <1>2, <1>3
<1>5. Passed = album
    BY <1>1 DEF Passed
<1> QED
    BY <1>1, <1>2, <1>3, <1>4, <1>5

(* A run that succeeds leaves exactly one vector per usable photo of its   *)
(* directory, of its largest face and under its directory's id, whatever   *)
(* runs failed or died before (face_enroll.cpp lines 109-161).             *)
THEOREM EnrollsOnce == EnrollSpec => []EnrolledOnce
<1>1. FileInv => EnrolledOnce
    <2> SUFFICES ASSUME FileInv, exit \in {"ok", "unwritten"} PROVE EnrolledOnce
        BY DEF EnrolledOnce
    <2> DEFINE n == Len(embeddings)
               usable == {p \in album : Usable(p)}
               photoOf == [k \in 1..n |-> embeddings[k][1]]
    <2>1. /\ whole /\ Passed = album /\ Len(indexFile) = n /\ n \in Nat
          /\ DOMAIN indexFile = 1..n
          /\ \A k \in 1..n : indexFile[k] = <<ids[k], embeddings[k]>> /\ MadeOf(k)
        BY IndexOfRun
    <2>2. \A k \in 1..n :
             /\ indexFile[k][1] = ids[k] /\ indexFile[k][2] = embeddings[k]
             /\ embeddings[k][1] \in usable
             /\ embeddings[k][2] = best(embeddings[k][1])
             /\ ids[k] = Hash[embeddings[k][1].name]
        <3> SUFFICES ASSUME NEW k \in 1..n
                     PROVE  /\ indexFile[k][1] = ids[k] /\ indexFile[k][2] = embeddings[k]
                            /\ embeddings[k][1] \in usable
                            /\ embeddings[k][2] = best(embeddings[k][1])
                            /\ ids[k] = Hash[embeddings[k][1].name]
            OBVIOUS
        <3>1. indexFile[k] = <<ids[k], embeddings[k]>> /\ MadeOf(k)
            BY <2>1
        <3> QED
            BY <2>1, <3>1 DEF MadeOf
    <2>3. \A p \in usable : \E k \in 1..n : embeddings[k][1] = p
        BY <2>1 DEF FileInv, CollectInv
    <2>4. \A j, k \in 1..n : embeddings[j][1] = embeddings[k][1] => j = k
        BY DEF FileInv, CollectInv
    <2>5. photoOf \in Bijection(1..n, usable)
        <3>1. photoOf \in [1..n -> usable]
            BY <2>2
        <3>2. photoOf \in Injection(1..n, usable)
            BY <2>4, <3>1 DEF Injection, IsInjective
        <3>3. photoOf \in Surjection(1..n, usable)
            BY <2>3, <3>1 DEF Surjection
        <3> QED
            BY <3>2, <3>3 DEF Bijection
    <2>6. Cardinality(usable) = n
        BY <2>1, <2>5, FS_CountingElements DEF ExistsBijection
    <2>7. {indexFile[k][2][1] : k \in 1..n} = usable
        BY <2>2, <2>3
    <2>8. \A k \in 1..n : Largest(embeddings[k][1], embeddings[k][2])
        BY <2>2, BestIsLargest DEF FileInv, CollectInv
    <2> QED
        BY <2>1, <2>2, <2>6, <2>7, <2>8 DEF EnrolledOnce
<1> QED
    BY <1>1, FileInvariant, PTL

(* Every id in the index has exactly one line in the map a run was asked   *)
(* for and wrote, and every line is of a photo in the index, also when two *)
(* names have the same hash (lines 138-170).                               *)
OneLinePerId ==
    exit = "ok" /\ wantMap =>
        /\ \A k \in DOMAIN indexFile : \E l \in mapFile : l[1] = indexFile[k][1]
        /\ \A l, m \in mapFile : l[1] = m[1] => l = m
        /\ \A l \in mapFile : \E k \in DOMAIN indexFile :
              l = <<indexFile[k][1], indexFile[k][2][1].name>>

LEMMA MapOfRun ==
    ASSUME FileInv, exit = "ok", wantMap
    PROVE  OneLinePerId
<1>1. mapFile = idToName
    BY DEF FileInv, StageInv
<1>2. /\ DOMAIN indexFile = 1..Len(embeddings)
      /\ \A k \in 1..Len(embeddings) : indexFile[k] = <<ids[k], embeddings[k]>>
    BY IndexOfRun
<1>3. \A k \in 1..Len(embeddings) : indexFile[k][1] = ids[k] /\ indexFile[k][2] = embeddings[k]
    BY <1>2
<1>4. Len(ids) = Len(embeddings)
    BY DEF FileInv, CollectInv
<1>5. \A k \in DOMAIN indexFile : \E l \in mapFile : l[1] = indexFile[k][1]
    BY <1>1, <1>2, <1>3, <1>4 DEF FileInv, NameInv
<1>6. \A l, m \in mapFile : l[1] = m[1] => l = m
    BY <1>1 DEF FileInv, NameInv
<1>7. \A l \in mapFile : \E k \in DOMAIN indexFile :
         l = <<indexFile[k][1], indexFile[k][2][1].name>>
    <2> SUFFICES ASSUME NEW l \in idToName
                 PROVE  \E k \in 1..Len(embeddings) :
                           l = <<indexFile[k][1], indexFile[k][2][1].name>>
        BY <1>1, <1>2
    <2>1. PICK k \in 1..Len(embeddings) : l = <<ids[k], embeddings[k][1].name>>
        BY <1>4 DEF FileInv, NameInv
    <2> QED
        BY <1>3, <2>1
<1> QED
    BY <1>5, <1>6, <1>7 DEF OneLinePerId

(* Names of one hash share an id: the map then has one line for it, with   *)
(* the name of one of the photos filed under it (lines 141, 164-170).      *)
THEOREM MapHasOneLinePerId == EnrollSpec => []OneLinePerId
<1>1. FileInv => OneLinePerId
    BY MapOfRun DEF OneLinePerId
<1> QED
    BY <1>1, FileInvariant, PTL

(* As long as no two of the names have the same hash, the map gives every  *)
(* vector of the index the name of its photo's directory, and nobody else  *)
(* is in it (lines 138-170).                                               *)
THEOREM NamesAreKnown ==
    ASSUME \A m, n \in Names : Hash[m] = Hash[n] => m = n
    PROVE  EnrollSpec => []NamesKnown
<1>1. FileInv => NamesKnown
    <2> SUFFICES ASSUME FileInv, exit = "ok", wantMap
                 PROVE  mapFile = {<<indexFile[k][1], indexFile[k][2][1].name>> :
                                      k \in DOMAIN indexFile}
        BY DEF NamesKnown
    <2> DEFINE line(k) == <<indexFile[k][1], indexFile[k][2][1].name>>
    <2>1. /\ \A k \in DOMAIN indexFile : \E l \in mapFile : l[1] = indexFile[k][1]
          /\ \A l \in mapFile : \E k \in DOMAIN indexFile : l = line(k)
        BY MapOfRun DEF OneLinePerId
    <2>2. \A k \in DOMAIN indexFile :
             /\ indexFile[k][1] = Hash[indexFile[k][2][1].name]
             /\ indexFile[k][2][1].name \in Names
        <3> SUFFICES ASSUME NEW k \in DOMAIN indexFile
                     PROVE  /\ indexFile[k][1] = Hash[indexFile[k][2][1].name]
                            /\ indexFile[k][2][1].name \in Names
            OBVIOUS
        <3>1. indexFile[k] = <<ids[k], embeddings[k]>> /\ MadeOf(k) /\ Passed = album
            BY IndexOfRun
        <3>2. embeddings[k][1] \in Photos /\ ids[k] = Hash[embeddings[k][1].name]
            BY <3>1 DEF MadeOf, FileInv, CollectInv
        <3> QED
            BY <3>1, <3>2, EnrollAssumption DEF EnrollAssumption, Names
    <2>3. \A k \in DOMAIN indexFile : line(k) \in mapFile
        <3> SUFFICES ASSUME NEW k \in DOMAIN indexFile PROVE line(k) \in mapFile
            OBVIOUS
        <3>1. PICK l \in mapFile : l[1] = indexFile[k][1]
            BY <2>1
        <3>2. PICK j \in DOMAIN indexFile : l = line(j)
            BY <2>1
        <3>3. indexFile[j][2][1].name = indexFile[k][2][1].name
            BY <2>2, <3>1, <3>2
        <3> QED
            BY <3>1, <3>2, <3>3
    <2> QED
        BY <2>1, <2>3
<1> QED
    BY <1>1, FileInvariant, PTL
=============================================================================
