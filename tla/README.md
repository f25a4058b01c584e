# A TLA+ development of multi-stream-face-recognition

The modules here model the control of the C++ program in `src/`: a DeepStream
pipeline whose cameras come and go, the recognition chain that turns detected
faces into identities, the FAISS index behind it, the two TensorRT networks, the
server that runs them from a configuration file and the tool that fills the
index. TLC checks them on small instances; TLAPS proves
the results listed below for all values of the constants. Paths are relative to
the repository root.

## The system

| Component | State it keeps | Operations | Talks to |
|---|---|---|---|
| `DeepStreamPipeline` | `running_`, `impl_->loop`, `loop_thread`, the GStreamer pipeline; `sources_`, `next_source_index`, `sources_mutex_` | `start`, `stop`, `wait`, destructor, `add_source`, `remove_source`, `source_count` | GLib main loop (own thread), GStreamer; holds a `ProbeChain` it never calls |
| `ProbeChain` | none between frames; the callback | `process(frame)` | `FaceAligner`, `IEncoder`, `ISearcher`, the metadata callback |
| `FaissSearcher` | CPU index, GPU copy, `on_gpu`, `dimension_`; the index file | `build`, `add`, `remove`, `search`, `search_batch`, `save`, `load` | FAISS; `face_enroll` by way of the file |
| `TrtEngine` | a device buffer per binding, shapes, what the execution context was told | constructor, destructor, `set_input_shape`, `copy_input`, `infer`, `copy_output` | TensorRT, CUDA |
| `ArcFaceEncoder` | two host buffers, an engine | `encode`, `encode_batch` | `TrtEngine` |
| `SCRFDDetector` | `stride_bindings_`, a host buffer, an engine | constructor, `detect`, `detect_batch` | `TrtEngine`, the postprocessing functions |
| SCRFD postprocessing | none | `letterbox`, `decode_stride`, `iou`, `nms` | – |
| `FaceAligner`, similarity transform | reference points | `align` | – |
| `SystemConfig` | none | `load`, `validate` | every constructor |
| `face_server` (`main.cpp`) | `g_shutdown` | signal handler, start, poll, stop, wait | all of the above |
| `face_enroll` | ids, embeddings and names of one run; index file, id map | scan, build, save, write the map | detector, aligner, encoder, searcher |
| logger, `face_detect`, `benchmark` | – | – | – |

What is hard about each, and what makes it correct:

- **Pipeline.** Three threads of control (the owner, whoever calls `stop()`,
  the loop thread) share an unprotected `GMainLoop*`; callers of `add_source`
  and `remove_source` hold a mutex the loop thread does not take, while it moves
  every bin between states. Correct means: the loop exists exactly while
  `running_` says so and is freed in the end; a stop ends the run; attached
  cameras have a bin, a pad and an index of their own, play while the pipeline
  does and are quiet when it is not; never more than `max_streams`. The code
  keeps this only as far as "Runs" tells.
- **Chain.** Aligner, encoder, index and callback may throw, the encoder may
  return the wrong number of rows. Correct means: each frame that is not lost to
  an exception is reported once; a face has its own embedding or none has; an
  identity is given only to the nearest enrolled face, above the threshold and
  ahead of the runner-up by the margin.
- **Searcher.** Two copies of the index and a file without a lock; an upload may
  fail after the master has changed; the file may be torn, or written by two
  programs at once. Correct means: searches are answered from the index the last
  successful call left, by labels that belong to the vectors, never by somebody
  who was removed.
- **Engines.** The constructor allocates binding by binding and may throw
  half-way; memory is freed before it is allocated again; buffers outlive calls
  that throw. Correct means: every allocation has an owner that frees it,
  inference runs on live memory large enough, and each crop gets the embedding
  computed from it in this call.
- **Detector.** Images of any shape are scaled, rounded and padded to the
  network's input and the coordinates taken back; outputs are told apart by
  the sizes they had when the engine was opened, and the number of rows that are
  read comes from that guess.
  Correct means: the picture fits the input, reads stay inside the outputs, each
  image gets its own faces where the network saw them, and suppression loses
  nobody.
- **`face_server`.** A signal may come at any statement, with or without a
  handler, and `start()` may throw half-way. Correct means: no signal kills a
  process with a live pipeline, `main` leaves nothing running however it ends,
  and a request to stop is served.
- **`SystemConfig`.** Defaults are written down twice, a section or a key may be
  missing, a float may be no number. Correct means: a setting is what the file
  says or the struct's default, and what is accepted is what the components work
  with.
- **`face_enroll`.** Directory order, unreadable photos, failures half-way and
  two files written one after the other. Correct means: a run that succeeds
  leaves one vector per usable photo under the right id and a map that names
  exactly those ids.

## Modules

| Module | Models | Extends or instantiates |
|---|---|---|
| `PipelineLifecycle` | `start` (which may throw), `stop` from any thread at any moment, `wait`, destructor, `loop_thread`, the parts of GLib's loop they touch | – |
| `SourceSet` | abstract: a set of cameras, each under an index never given out twice | – |
| `DeepStreamPipeline` | `add_source`, `remove_source` next to the lifecycle | `PipelineLifecycle`; implements `SourceSet` |
| `ProbeChain` | `process()` step by step, `compute_margin`, `match_decision` | – |
| `IdMapIndex` | external: an `IndexIDMap` over an IVF index | – |
| `FaissSearcher` | every call that changes the index, the upload, the file and its two writers | `IdMapIndex` |
| `SystemConfig` | `load` and `validate` as functions of the YAML document | – |
| `FaceServer` | `main()` as the owner of the pipeline, its signals, the configuration | `PipelineLifecycle`, `SystemConfig` |
| `TrtEngine` | allocations, buffers, addresses and shapes of an engine with one input and output | – |
| `ArcFaceEncoder` | constructor, destructor and `encode_batch`, chunk by chunk, any call failing | `TrtEngine` |
| `NonMaxSuppression` | `nms()` and `iou()` | – |
| `ScrfdDetector` | `resolve_bindings_`, `detect_batch`, `letterbox`, `decode_stride`, `undo_letterbox` | – |
| `FaceEnroll` | runs of the tool and the two files | – |
| `*_proofs` | theorems about the module of that name | that module, `TLAPS` |
| `Index_proofs` | theorems about the index and the tool that fills it | `FaissSearcher`, `FaceEnroll`, `TLAPS` |
| `MC*` | for TLC: symmetries, and constants too large for a `.cfg` file | that module |

Variables and actions carry the names of the code where TLA+ allows it;
`PROJECT.json` gives the lines behind every definition. An action is a stretch
of code between two accesses to something shared, or between two calls that may
throw. Calls that return without changing anything are stuttering steps. Where a
C++ object is used by one thread only (searcher, encoder, detector) the steps of
a call do not interleave with another call, but the call may end in an exception
at each of them. Operators whose names begin with `Fault` are not used by any
specification: each is a plausible mistake in the definition after it, kept to
show that the properties notice it.

Three variables are history: no guard reads them. `crossed` says that a `stop()`
has overlapped a `start()`, `overtaken` names the one bin whose state sync was
under way when the loop thread changed the state of the pipeline, `orderly` says
that `remove()` has only taken people filed last and `load()` no file two
programs had written at once. The properties say with them up to which event the
code keeps what it should.

What is abstracted: an image, a crop or an embedding is a number or a pair that
says where it came from; similarities are small integers; boxes have integer
corners and thresholds are percentages (`iou()` is then exact); the scale of a
letterbox is an exact quotient, which differs from the code's float at most where
a side falls half-way between two pixels; logging is left out, but for the levels
that end the server. At most one `stop()` is past the exchange of line 176 at a
time; a second one could be there only after a `start()` in between. `IdMapIndex`, the GLib and GStreamer steps and
TensorRT's `setInputShape` and `enqueueV3` are written from how the code uses
them: those libraries are not in the repository. Five of their assumptions matter
to the results: `g_main_loop_run` takes a reference, sets a flag and iterates
until the flag is cleared; `gst_element_set_state` on a pipeline sets every bin in
it; `gst_element_sync_state_with_parent` reads the parent's state first and sets
the element's afterwards; `IndexIDMap::remove_ids` compacts its labels whatever
the inner index does, and a search that finds a number past the end of its array
returns anything, an old label included; the sizes a TensorRT engine reports are
-1 where it was built for a range, until the execution context is told the input.

## Runs

| Run | What it shows | Bounds |
|---|---|---|
| `sources` | the cameras' calls implement `SourceSet`; `RegistryCoherent`, `FreshPad`, `SourcesPlayUnlessOvertaken`, `QuietUnlessOvertaken`, and of the lifecycle inside it `LoopIffRunning`, `NoLoopLeak`, `QuietWhenJoined`, `StopEndsRun`; `stop()` comes at any moment, a state sync is two steps | two cameras and two callers, so that both are after one camera or one index, and one camera is right while the other is overtaken; two indices, so that an index would be used again if it could be; room for both cameras, as the limit of streams is proved; two starts: the second meets what the first left. 1.66 million states |
| `searcher` | `ServedIsCurrent`, `SearchIsSafe`, `RemovedNotNamed`, `LabelsKept` through failed uploads, restarts, torn files and files that two programs wrote at once | two people and two vectors: one behind the one removed; two removals: the second meets the numbers the first left past the end; IVF-PQ that falls back below two vectors, with two centroids to train in the place of 256. 0.81 million states |
| `chain` | `FramesAccounted`, `AllOrNothing`, `MatchJustified`, `MatchComplete` | two frames of up to two faces: a failure and the frame after it; three ranked faces for `top_k` of two, one more than is fetched; similarities on both sides of threshold and margin |
| `server` | `ConfigAsWritten`, `ConfigFits`, `ThresholdsUsable`, `LivePipelineNotKilled`, `ExitIsClean`, `ShutdownServed` | every document with up to two of 54 settings on both sides of each limit, documents without a section; both signals, any number of times; one start |
| `encoder` | `NoDeviceLeak`, `OnePerCropInOrder`, `RunsOnLiveMemory` for an engine of fixed batch size | three calls, five crops in chunks of two: full, short and refused chunks |
| `nms` | `KeptApart`, `DroppedCovered`, `OverlapByArea` | three detections: one kept, one struck out, one only that one overlaps |
| `detector` | `ReadsInside`, `PictureOnCanvas`, `FacesOfEachImage`, `FacesWhereSeen` for a square input and both kinds of engine | 32x32 (grids of 4, 2 and 1), two of six images: wide, tall with odd rests, smaller than the input, too thin to resize, gray, empty |
| `enroll` | `EnrolledOnce`, `NamesKnown` | two runs over any directories of five photos |

Four runs check a statement that a comment or a document makes and the code does
not keep; `PROJECT.json` quotes it under "findings".

| Run | Statement | What happens |
|---|---|---|
| `wait_returns` | `wait()` returns after `stop()` | the quit comes before `g_main_loop_run` and is lost |
| `source_races` | `add_source` is safe to call from any thread: a camera that was added plays while the pipeline does | the sync of its bin reads NULL from the pipeline, the loop thread takes the pipeline to PLAYING, the sync sets the bin back to NULL, and nothing sets it again |
| `remove_mislabels` | `remove()` removes or throws | the labels of the others shift |
| `dynamic_engine` | a dynamic binding gets memory at the first call | only the input does, and the ArcFace engine `build_engines.sh` builds is dynamic |

Some properties of the passing runs are what is left of a stronger one. What the
condition leaves out, and what the code does there:

- `~crossed` (`LoopIffRunning`, `NoLoopLeak`): a `stop()` between lines 157 and
  160 of `start()` clears `running_`, finds no loop to quit, and the loop that
  `start()` then makes can never be stopped.
- `crossed /\ starts > 1` (`StopEndsRun`): a `stop()` that another thread began
  before a restart quits the restart's loop with the pointer it reads late, or
  leaves the first loop running behind it.
- `overtaken` (`SourcesPlayUnlessOvertaken`, `QuietUnlessOvertaken`): the race of
  `source_races`, either way round. It costs one bin at a time, because adding
  holds the mutex, and the properties say that every other bin is right; the next
  change of the pipeline's state sets that one right too.
- `orderly` (`LabelsKept`, second half of `RemovedNotNamed`): after a `remove()`
  of somebody who was not filed last, the number of a later vector is past the end
  of the label array. What a search reads there may be any label, also of the
  person just removed. That nobody withdrawn is left in the array itself holds
  without the condition. A file that the server and `face_enroll` wrote at once
  may hold the vectors of one under the labels of the other: neither locks it.

Where a passing run sets a constant to one side of a choice the code leaves
open, the property is about that side, and the other side breaks it. Each of
these shows up at once when the constant is changed in the `.cfg` file:

- `TopK = 1`: the runner-up is never fetched, and the margin rule is not applied
  (`MatchJustified`, `MatchComplete`). `Metric = "l2"`: distances are compared as similarities.
- `Height > Width`: strides come out too small and decoding reads past the
  outputs (`ReadsInside`); `Width > Height`: too large, and faces are reported
  where they are not (`FacesOfEachImage`). `validate()` accepts both.
- A signal that `ShutdownServed` leaves out, between `std::signal` and the loop
  thread's entry into `g_main_loop_run`, makes `main` call `stop()` too early and
  `wait()` for ever: the hang of `wait_returns`, reached from `main.cpp:69-81`.

Other points at which the code and its documentation part, visible in the
modules and not given a run: `start()` after `stop()` without `wait()` ends in
`std::terminate` (`StartTerminate`); an upload that throws leaves the CPU index
ahead of what searches use; `build()` never selects IVF-PQ when `index_type` is
`ivf_flat` (`FallsBack`), and nothing passes `nprobe` to the index; `validate()`
accepts an `ivf_pq_min_size` below the 256 vectors that IVF-PQ needs to train, so
a build between the two throws (`Trainable`); `resolve_bindings_` pins the
detector's input for engines built for a range of sizes, as its comment says, but
then takes the outputs' sizes from what the engine showed when it was opened:
nothing is filed (`Found`), and `detect_batch` throws for want of memory for the
outputs; the runner-up of the margin rule may be a second image of the same
person (`MatchComplete` ranks images, not people); `set_input_shape` reallocates for
static engines too, which `trt_engine.hpp` calls a no-op; `face_enroll` succeeds
when the id map was not written (`MapFails`); `main.cpp` loads no index and adds
no camera, though `docs/architecture.md:77` has `face_server` load the index that
`face_enroll` wrote, so every lookup of the server finds nothing.

**Deadlock** is not checked where a bound ends the behaviour (a number of
starts, indices, calls, frames or runs), where the object or the process has
ended (pipeline, encoder, server), and in `nms`, which is one call. It is checked
for the searcher and the detector, which can always be called again.

**Fairness** appears in `LifeSpec`, in `FairSpec` of `DeepStreamPipeline` and in
`FaceServer`: weak fairness of the owner's calls that have begun, of a `stop()`
that has begun and of the loop thread; in `FaceServer` of `main()` and of the
loop thread. All are threads of a preemptive scheduler in code that blocks on
nothing but the conditions in the guards (the mutex of `add_source` is not among
them: `stop` and the loop thread do not take it). No call has to be made, no
signal to be sent. `StopEndsRun`, `ShutdownServed` and the counterexample of
`wait_returns` rest on it; every other property is safety.

## Proofs

| Theorem | Statement | Assuming |
|---|---|---|
| `LifecycleTyped`, `LifecycleQuiet` | `LifeTypeOK`, `QuietWhenJoined` | – |
| `LoopMatchesFlag`, `LoopsFreed` | `LoopIffRunning`, `NoLoopLeak` | – |
| `PipelineTyped`, `RegistryIsCoherent`, `PadsAreFresh`, `CapacityHolds` | `TypeOK`, `RegistryCoherent`, `FreshPad`; never more than `max_streams` cameras | – |
| `CamerasKeepLifecycle`, `ServerDrivesPipeline` | the cameras' specification implies `LifeSpec` with its fairness; the server's takes only steps of the lifecycle | – |
| `SourcesPlayBut`, `PipelineQuietBut` | `SourcesPlayUnlessOvertaken`, `QuietUnlessOvertaken` | – |
| `PipelineImplementsSourceSet` | `Spec => Abstract!Spec` | – |
| `SearcherTyped`, `SearchesAreCurrent`, `SearchesAreSafe`, `LabelsStay`, `RemovedStayUnnamed` | `TypeOK`, `ServedIsCurrent`, `SearchIsSafe`, `LabelsKept`, `RemovedNotNamed` | – |
| `OnlyTheLastMayGo` | after `remove_ids` on an index in order every answer is right if and only if those selected were filed last | – |
| `EveryBatchTrains` | `build()` asks for no more cells, nor centroids of a sub-quantizer, than it has vectors | `NList = 0`; `ivf_pq_min_size` at least the number of centroids |
| `EnrollsOnce`, `MapHasOneLinePerId` | `EnrolledOnce`; one line of the map for each id in the index | – |
| `NamesAreKnown` | `NamesKnown` | no two names have one hash |
| `ChainTyped`, `EveryFrameIsAccounted`, `EmbeddingsAllOrNothing` | `TypeOK`, `FramesAccounted`, `AllOrNothing` | – |
| `MatchesAreJustified`, `MatchesAreComplete` | `MatchJustified`, `MatchComplete` | `Metric = "ip"`, `TopK >= 2` |
| `SettingsAsWritten`, `SettingsFit`, `ThresholdsAreUsable` | `ConfigAsWritten`, `ConfigFits`, `ThresholdsUsable` | – |
| `ServerTyped`, `SignalsSpareThePipeline`, `ServerExitsCleanly` | `TypeOK`, `LivePipelineNotKilled`, `ExitIsClean` | – |
| `CropsInOrder`, `EngineRunsOnLiveMemory`, `DeviceMemoryOwned` | `OnePerCropInOrder`, `RunsOnLiveMemory`, `NoDeviceLeak` | – |
| `KeptAreApart`, `DroppedAreCovered`, `OverlapsAreByArea` | `KeptApart`, `DroppedCovered`, `OverlapByArea` | – |
| `SuppressionIsGreedy` | when `nms()` is done, `kept` is the one set in which a detection is if and only if no earlier member overlaps it | – |
| `PictureFitsCanvas` | `PictureOnCanvas` | – |
| `DecodeReadsInside`, `FacesOfTheirImage`, `FacesPlacedByCentre` | `ReadsInside`, `FacesOfEachImage`, `FacesWhereSeen` | `Width = Height` |

Each assumption is needed: without it the property is false, in the way told
under "Runs". Two hold by other means. `EveryBatchTrains` is about what the code
works out itself; a configured `nlist` larger than the batch, or an
`ivf_pq_min_size` below the 256 centroids of a sub-quantizer, makes training throw
(`Trainable` is a guard of `Build`; `BuildThrows` is always possible).
`NamesAreKnown` needs different hashes, because `emplace` keeps the first name of
an id: with a collision two people share it, the map names one of them, and
`MapHasOneLinePerId` is what is left.

Besides these, only the named assumptions on the constants
are used. Those of `FaceServer` say that `main` is the
only caller of the pipeline and starts it once (`ServerAssumption`), and that a
document's numbers are what `as<std::uint32_t>()` and `as<float>()` return, or
unreadable (`DocumentsAssumption`); those about `Dynamic` and
`EngineBatch` allow either kind of engine. The arguments:

- *Lifecycle.* The invariant bounds the loops there can be (`OwnerInv`), says who
  holds a reference (`RefsInv`: `impl_->loop`, and a thread inside
  `g_main_loop_run`) and ties the pipeline's state to the thread (`PipeInv`).
  That holds however the calls overlap. Until a `stop()` crosses a `start()`, the
  pointer, the flag and the two calls also determine each other (`LifeOrder`), and
  the references are counted exactly (`RefsExact`): a fact about all threads at
  once, without which none of them could be shown to have returned its own.
- *Sources.* Who holds the mutex determines what every other caller may be at
  (`CallInv`); an index below `next_source_index` is used by one camera or one
  call (`SlotInv`); `ServeInv` follows a bin through the three moments at which
  it may be brought to PLAYING, `StillInv` through those at which it may be left
  there; both give up the one bin in `overtaken`. The refinement maps the indices
  handed out minus those in flight to the abstract used set.
- *Searcher.* `on_gpu` implies a GPU index, and after a call that returned the
  served copy is the CPU one; each upload establishes both or changes nothing.
  `LabelInv` says that as long as `orderly` a vector's number is its place
  among the labels, in both copies and, unless two programs wrote it, in the file:
  a load or a failed upload may bring any of them back. `PurgeInv` keeps
  the labels of whoever was removed, and not filed since, out of the label arrays of
  the CPU index and of the copy on the GPU once there is one; with the two
  together, no search reads past an array or names them. A build, a load or a
  restart replaces the index and starts over: an old file names whom it names.
- *Removal.* `remove_ids` compacts an array to the places that stay; the entry
  at a place goes to its rank among them, and ranks are a bijection onto
  `1..Cardinality(places)` (`CompactedKeeps`). Those selected were filed last
  exactly if the places that stay are an initial segment, where rank and place
  agree; otherwise the last that stays has a number past the end of the array.
- *Enrollment.* `CollectInv` makes ids and embeddings an enumeration without
  repetition of the usable photos visited, so that at the end their number is the
  number of those in the album; `StageInv` says which file holds what at each
  place of `main()`, also after a run that was killed; `NameInv` that the lines of
  `id_to_name` have one name per id, each of a photo enrolled. That `best` is
  the first of the largest exists by taking the least index.
- *Chain.* `CountInv` relates calls, reports and exceptions; `FaceInv` says what
  each stage has filled in; `MatchJustified` follows from `RankingIsSequence`
  and `HitsAreFirst` (what a search returns is the beginning of the ranking) and
  `DecisionIsJustified` (arithmetic of the margin).
- *Suppression.* What has been visited is kept or struck out, what is struck out
  are exactly the later ones that overlap one kept, and sorting loses nothing.
  That kept boxes are apart either way round also needs `OverlapIsSymmetric`.
  Two greedy sets cannot differ, as they would differ at a first detection, which
  is decided by those before it. Cells of a box are a product of two runs, so
  their number is a product too, and those of an overlap are the box of the
  inner corners when it is not empty.
- *Detector.* A square width that is a multiple of 32 is `q` cells of its level,
  the bounds of the rounded division cancel `q * q`, and squares are monotone: so
  `filed` holds every output under its own level (`FilingInv`), and what is
  decoded of an image so far is the faces of the levels no longer pending
  (`DecodeInv`). The letterbox is fitted by `RoundedBounds` (what `std::round`
  of a quotient is between); that `Place` undoes the numbering of the rows is
  `PlaceIsCell`, and that the pads and the rounding together shift nothing by a
  pixel is `UndoIsCentred`.
- *Encoder.* `MemoryInv`: the heap is exactly what the buffers own, and
  from a chunk's reshape to its end the context was told of the input's buffer (a
  failed reshape leaves a stale address behind, which the next one replaces);
  `ChunkInv`: the rows of the chunk hold this call's crops up to the buffer the
  step has reached, and `results` the crops before it.
- *Server.* `ServerDrivesPipeline` brings the lifecycle's invariant along; each
  place of `main()` then fixes
  where the owner is (`OrderInv`): before `Start` nothing of the pipeline exists,
  and both handlers are installed from then on. The settings are a property of
  `Merged`, section by section; one that is used has the type of its field
  (`SettingTyped`), and a remainder of zero names the quotient (`DivisorDivides`).

Every safety invariant and the refinement that a passing run checks is one of
these theorems; two properties are only model-checked, `StopEndsRun` and
`ShutdownServed`: they need fairness and `ENABLED`, which the prover does not
handle. Induction over numbers is done without the library's theorems on it
(they take an operator as parameter) by `LeastOf`: a set of numbers that is not
empty has a least, here the first counterexample. No module with a theorem has
a recursive definition.

## Not modelled

- Floating point: the aligner's transform, letterbox resampling, pixel
  normalisation, the regression of boxes and landmarks around an anchor. Rounding
  is modelled where it decides something: the stride, the sides and pads of a
  letterbox.
- Streams inside GStreamer: the repository attaches no probe to them (README,
  Limitations), so `ProbeChain` and `DeepStreamPipeline` share nothing today.
- `ProbeChain` over `FaissSearcher`: the searcher has no lock and nothing in the
  repository changes an index while frames are processed, so their composition
  has no interleaving the two modules do not have: `ProbeChain` already takes
  every ranking an index could give.
- A `TrtEngine` with the detector's nine outputs: `ScrfdDetector` knows of its
  engine only whether it was built for one size or for a range, and that it has no
  memory for its outputs in the second case.
- The logger (but for its levels), `face_detect`, `benchmark`: straight-line code
  over the components above, without state. Build files and scripts.

## Plan

1. `TrtEngine` with any set of bindings, under both networks.
2. `face_enroll` as the tool of `FaissSearcher`: that its runs, seen from the
   file, are the steps `EnrollBegin` and `EnrollEnd`.
3. Once cameras feed the chain: `ProbeChain` called from the loop thread, and
   what of the searcher has to be locked then.
