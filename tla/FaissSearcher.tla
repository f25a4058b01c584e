--------------------------- MODULE FaissSearcher ---------------------------
(***************************************************************************)
(* One FaissSearcher in a server process and the index file it shares with *)
(* face_enroll.  The CPU index is the master; searches go to the copy on   *)
(* the GPU when there is one.  Every call that changes the index uploads   *)
(* it again, and the upload may throw after the CPU index has changed.     *)
(* The object has no lock: one thread calls it, so a call is one step,     *)
(* except save(), during which the process may die.  Nor has the file: the *)
(* server and face_enroll may write it at the same time.                   *)
(***************************************************************************)
EXTENDS IdMapIndex

CONSTANTS
    UseGpu,      \* cfg_.gpu_id >= 0
    IndexType,   \* cfg_.index_type
    PQMinSize,   \* cfg_.ivf_pq_min_size
    NList,       \* cfg_.nlist
    PQCodes,     \* centroids per sub-quantizer of IVF-PQ, 2^8
    Dims,        \* dimensions embeddings may have
    MaxBatch,    \* bound: vectors per call
    MaxVectors,  \* bound: vectors in an index
    MaxRemoves   \* bound: calls of remove()

Kinds == {"ivf_flat", "ivf_pq"}

ASSUME SearcherAssumption ==
    /\ UseGpu \in BOOLEAN
    /\ IndexType \in Kinds
    /\ PQMinSize \in Nat /\ NList \in Nat /\ PQCodes \in Nat
    /\ MaxRemoves \in Nat
    /\ Garbage \notin People

VARIABLES
    cpu,         \* index_cpu
    gpu,         \* index_gpu
    onGpu,       \* on_gpu
    dimension,   \* dimension_
    file,        \* the index file: NoIndex, Torn or an index
    writers,     \* who is writing it
    clash,       \* did the last one to open it find it being written?
    synced,      \* did the last call that changes the index return?
    withdrawn,   \* people removed and not enrolled again since
    removes,     \* calls of remove() so far
    orderly      \* has remove() only ever taken those filed last, and load()
                 \* never a file two programs had written at once?

index == <<cpu, gpu, onGpu, dimension>>
disk == <<file, writers, clash>>
past == <<withdrawn, removes, orderly>>
vars == <<index, disk, synced, past>>

Batches == UNION {[1..n -> People] : n \in 0..MaxBatch}
InBatch(who) == {who[i] : i \in 1..Len(who)}

IsIndex(ix) ==
    /\ ix.kind \in Kinds
    /\ ix.dim \in Dims
    /\ ix.labels \in Seq(People)
    /\ Balanced(ix)

TypeOK ==
    /\ \A ix \in {cpu, gpu, file} : ix \in {NoIndex, Torn} \/ IsIndex(ix)
    /\ Torn \notin {cpu, gpu}
    /\ onGpu \in BOOLEAN
    /\ dimension \in Dims \cup {0}
    /\ writers \subseteq {"server", "tool"}
    /\ clash \in BOOLEAN
    /\ synced \in BOOLEAN
    /\ withdrawn \subseteq People
    /\ removes \in 0..MaxRemoves
    /\ orderly \in BOOLEAN

Init ==
    /\ cpu = NoIndex
    /\ gpu = NoIndex
    /\ onGpu = FALSE
    /\ dimension = 0
    /\ file = NoIndex
    /\ writers = {} /\ clash = FALSE
    /\ synced = TRUE
    /\ withdrawn = {} /\ removes = 0 /\ orderly = TRUE

-----------------------------------------------------------------------------
(* What build() makes of n vectors.                                        *)

FallsBack(n) == IndexType = "ivf_pq" /\ n < PQMinSize
ChosenType(n) == IF FallsBack(n) THEN "ivf_flat" ELSE IndexType

RootOf16(n) == CHOOSE r \in 0..16 * n : r * r <= 16 * n /\ (r + 1) * (r + 1) > 16 * n
Smaller(a, b) == IF a < b THEN a ELSE b
Larger(a, b) == IF a > b THEN a ELSE b
default_nlist(n) ==
    IF n = 0 THEN 1 ELSE Larger(1, Smaller(RootOf16(n), n \div 39))

CellCount(n) == IF NList > 0 THEN NList ELSE default_nlist(n)

(* FAISS trains nlist cells on no fewer vectors, nor the centroids of a    *)
(* sub-quantizer.                                                          *)
Trainable(n) ==
    /\ n >= CellCount(n)
    /\ ChosenType(n) = "ivf_pq" => n >= PQCodes

FaultShiftedIds(who, d) ==
    [add_with_ids(Fresh(ChosenType(Len(who)), CellCount(Len(who)), d), who)
        EXCEPT !.labels = [i \in 1..Len(who) |-> who[(i % Len(who)) + 1]]]
FaultOneIdShort(who, d) ==
    [add_with_ids(Fresh(ChosenType(Len(who)), CellCount(Len(who)), d), who)
        EXCEPT !.labels = SubSeq(who, 1, Len(who) - 1)]
Built(who, d) ==
    add_with_ids(Fresh(ChosenType(Len(who)), CellCount(Len(who)), d), who)

-----------------------------------------------------------------------------
(* The upload that ends every change of the index to ix: a fresh index or  *)
(* a loaded one goes to the GPU the configuration names, a changed one     *)
(* only if there is a copy there already.                                  *)

FaultNoReupload(ix) == UNCHANGED <<gpu, onGpu>>
FaultUploadOnce(ix) ==
    /\ gpu' = IF onGpu THEN gpu ELSE ix
    /\ onGpu' = UseGpu
Reupload(ix) ==
    /\ gpu' = IF onGpu THEN ix ELSE gpu
    /\ UNCHANGED onGpu

Upload(ix) ==
    /\ gpu' = IF UseGpu THEN ix ELSE gpu
    /\ onGpu' = (onGpu \/ UseGpu)

FaultFlagFirst == gpu' = gpu /\ onGpu' = TRUE
UploadThrows == UNCHANGED <<gpu, onGpu>>

Free == "server" \notin writers

BuildThrows(d) ==
    /\ Free
    /\ dimension' = d
    /\ synced' = FALSE
    /\ UNCHANGED <<cpu, gpu, onGpu, disk, past>>

Build(who, d) ==
    /\ Free
    /\ Trainable(Len(who))
    /\ cpu' = Built(who, d)
    /\ dimension' = d
    /\ \/ Upload(cpu') /\ synced' = TRUE
       \/ UseGpu /\ UploadThrows /\ synced' = FALSE
    /\ withdrawn' = {}
    /\ UNCHANGED <<disk, removes, orderly>>

Add(who) ==
    /\ Free
    /\ cpu # NoIndex
    /\ ntotal(cpu) + Len(who) <= MaxVectors
    /\ cpu' = add_with_ids(cpu, who)
    /\ \/ Reupload(cpu') /\ synced' = TRUE
       \/ onGpu /\ UploadThrows /\ synced' = FALSE
    /\ withdrawn' = withdrawn \ InBatch(who)
    /\ UNCHANGED <<dimension, disk, removes, orderly>>

(* FAISS asserts that both parts of the index dropped as many.             *)
Remove(gone, strays) ==
    /\ Free
    /\ cpu # NoIndex
    /\ removes < MaxRemoves
    /\ cpu' = remove_ids(cpu, gone, strays)
    /\ Balanced(cpu')
    /\ \/ Reupload(cpu') /\ synced' = TRUE /\ withdrawn' = withdrawn \cup gone
       \/ onGpu /\ UploadThrows /\ synced' = FALSE /\ UNCHANGED withdrawn
    /\ removes' = removes + 1
    /\ orderly' = (orderly /\ FiledLast(cpu, gone))
    /\ UNCHANGED <<dimension, disk>>

(* The server stops, dies, or is aborted by an assertion of FAISS.         *)
Restart ==
    /\ cpu' = NoIndex
    /\ gpu' = NoIndex
    /\ onGpu' = FALSE
    /\ dimension' = 0
    /\ writers' = writers \ {"server"}
    /\ synced' = TRUE
    /\ withdrawn' = {}
    /\ UNCHANGED <<file, clash, removes, orderly>>

-----------------------------------------------------------------------------
(* The file.  write_index truncates it and fills it up again; it may throw *)
(* or the program die half-way.  Two that write at once leave the bytes of *)
(* both: one program's vectors under labels of the other's, if it is an    *)
(* index at all.                                                           *)

Spliced(ix) == {Holding(ix, ix.store, labels) : labels \in [1..ntotal(ix) -> People]}

Open(program) ==
    /\ program \notin writers
    /\ file' = Torn
    /\ clash' = (writers # {})
    /\ writers' = writers \cup {program}

Close(program, ix) ==
    /\ program \in writers
    /\ file' \in {ix, Torn} \cup (IF clash THEN Spliced(ix) ELSE {})
    /\ writers' = writers \ {program}
    /\ UNCHANGED clash

SaveBegin ==
    /\ cpu # NoIndex
    /\ Open("server")
    /\ UNCHANGED <<index, synced, past>>

SaveEnd ==
    /\ Close("server", cpu)
    /\ UNCHANGED <<index, synced, past>>

(* read_index throws before anything changes if the file is not whole.     *)
Load ==
    /\ Free
    /\ file \notin {NoIndex, Torn}
    /\ cpu' = file
    /\ dimension' = file.dim
    /\ \/ Upload(cpu') /\ synced' = TRUE
       \/ UseGpu /\ UploadThrows /\ synced' = FALSE
    /\ withdrawn' = {}
    /\ orderly' = (orderly /\ ~clash)
    /\ UNCHANGED <<disk, removes>>

(* face_enroll, in a process of its own: build and save; it may die.       *)
EnrollBegin ==
    /\ Open("tool")
    /\ UNCHANGED <<index, synced, past>>

EnrollEnd(who, d) ==
    /\ who # <<>>
    /\ Trainable(Len(who))
    /\ Close("tool", Built(who, d))
    /\ UNCHANGED <<index, synced, past>>

Mutation ==
    \/ \E who \in Batches : Add(who)
    \/ \E gone \in SUBSET People, strays \in SUBSET StrayPlaces(cpu) : Remove(gone, strays)

Next ==
    \/ Mutation
    \/ \E d \in Dims :
          \/ BuildThrows(d)
          \/ \E who \in Batches : Build(who, d) \/ EnrollEnd(who, d)
    \/ SaveBegin \/ SaveEnd \/ Load \/ EnrollBegin
    \/ Restart

Spec == Init /\ [][Next]_vars

-----------------------------------------------------------------------------
Served == IF onGpu THEN gpu ELSE cpu

(* After a call that changed the index and returned, searches are answered *)
(* from that index, whichever earlier uploads failed and whether the GPU   *)
(* copy exists or not (lines 90-94, 106-109, 118-121, 142, 168-172).       *)
ServedIsCurrent == synced /\ cpu # NoIndex => Served = cpu

(* search_batch never dereferences a missing index: with a CPU index there *)
(* is something to search, and on_gpu is never set without a GPU index,    *)
(* through every upload that throws (lines 91-93, 133, 142-143).           *)
SearchIsSafe ==
    /\ cpu # NoIndex => Served # NoIndex
    /\ onGpu => cpu # NoIndex

(* Nobody who was removed is left in the array searches take their labels  *)
(* from until enrolled or loaded again, not even when later uploads fail;  *)
(* and no search names them as long as all labels are in place.  After     *)
(* that a read past the end of the array may name anybody (lines 112-122,  *)
(* 142).                                                                   *)
RemovedNotNamed ==
    Served # NoIndex =>
        /\ Labels(Served) \cap withdrawn = {}
        /\ orderly => \A a \in Answers(Served) : a[2] \notin withdrawn

(* A search that finds somebody's vector names that person, which the code *)
(* does not keep once remove() was called (lines 105, 117, 142).           *)
LabelsRight ==
    \A ix \in {cpu, gpu} : ix # NoIndex => \A a \in Answers(ix) : a[1] = a[2]

(* The labels do stay with their vectors through builds, adds, failed      *)
(* uploads, saves, crashes and loads, as long as remove() is given only    *)
(* those filed last, and load() no file that two programs wrote at once    *)
(* (lines 84-94, 105-109, 117, 162, 166-172).                              *)
LabelsKept == orderly => LabelsRight
=============================================================================
