------------------------ MODULE DeepStreamPipeline -------------------------
(***************************************************************************)
(* add_source and remove_source of DeepStreamPipeline, called by any       *)
(* thread under sources_mutex_, next to the lifecycle of the object and    *)
(* the loop thread, which take no mutex.  Callers work on the GStreamer    *)
(* bin directly, so their steps interleave with the loop thread's          *)
(* transitions of the whole pipeline.                                      *)
(***************************************************************************)
EXTENDS PipelineLifecycle, Integers, FiniteSets

CONSTANTS
    Ids,           \* source_id strings
    Callers,       \* threads that call add_source and remove_source
    None,          \* no caller, no source
    MaxStreams,    \* cfg_.max_streams
    MaxAdds        \* bound: how many source indices are handed out

HardLimit == 32

ASSUME PipelineAssumption ==
    /\ None \notin Ids \cup Callers
    /\ IsFiniteSet(Ids)
    /\ MaxStreams \in 0..HardLimit
    /\ MaxAdds \in Nat

VARIABLES
    sources,     \* sources_: source_id -> index, NoSlot when absent
    nextIndex,   \* next_source_index
    mutex,       \* who holds sources_mutex_
    pc, arg, idx,\* of each caller: where it is, its source_id, its index
    bins,        \* src-bin-<index>: "absent" from the pipeline, in it and
                 \* "null" or "live"
    pads,        \* indices whose muxer pad sink_<index> is requested
    linked,      \* indices whose bin is linked to its muxer pad
    overtaken    \* history: indices whose bin was being synced with the
                 \* pipeline's state when the loop thread last changed it

calls == <<mutex, pc, arg, idx>>
gst == <<bins, pads, linked>>
srcVars == <<sources, nextIndex, calls, gst, overtaken>>
vars == <<lifeVars, srcVars>>

NoSlot == -1
Slots == 0..(MaxAdds - 1)
AddAt == {"bin", "linked", "sync", "goNull", "goLive", "commit"}

TypeOK ==
    /\ LifeTypeOK
    /\ sources \in [Ids -> Slots \cup {NoSlot}]
    /\ nextIndex \in 0..MaxAdds
    /\ mutex \in Callers \cup {None}
    /\ pc \in [Callers -> AddAt \cup {"idle", "drop"}]
    /\ arg \in [Callers -> Ids \cup {None}]
    /\ idx \in [Callers -> Slots \cup {NoSlot}]
    /\ bins \in [Slots -> {"absent", "null", "live"}]
    /\ pads \in SUBSET Slots
    /\ linked \in SUBSET Slots
    /\ overtaken \in SUBSET Slots

Init ==
    /\ LifeInit
    /\ sources = [id \in Ids |-> NoSlot]
    /\ nextIndex = 0
    /\ mutex = None
    /\ pc = [c \in Callers |-> "idle"]
    /\ arg = [c \in Callers |-> None]
    /\ idx = [c \in Callers |-> NoSlot]
    /\ bins = [s \in Slots |-> "absent"]
    /\ pads = {}
    /\ linked = {}
    /\ overtaken = {}

Registered == {id \in Ids : sources[id] # NoSlot}
InPipe == {s \in Slots : bins[s] \in {"null", "live"}}

-----------------------------------------------------------------------------
(* The callers' side.                                                      *)

Call(c) == Alive /\ owner # "djoin" /\ pc[c] = "idle" /\ mutex = None

At(c, step) == Alive /\ pc[c] = step

Goto(c, step) ==
    /\ pc' = [pc EXCEPT ![c] = step]
    /\ UNCHANGED <<mutex, arg, idx>>

Lock(c, step, id, slot) ==
    /\ mutex' = c
    /\ pc' = [pc EXCEPT ![c] = step]
    /\ arg' = [arg EXCEPT ![c] = id]
    /\ idx' = [idx EXCEPT ![c] = slot]

Return(c) ==
    /\ mutex' = None
    /\ pc' = [pc EXCEPT ![c] = "idle"]
    /\ arg' = [arg EXCEPT ![c] = None]
    /\ idx' = [idx EXCEPT ![c] = NoSlot]

(* A rejected call returns false and changes nothing: a stutter.           *)
FaultOneTooMany == Cardinality(Registered) <= MaxStreams
HasRoom == Cardinality(Registered) < MaxStreams
Accepted(id) == HasRoom /\ sources[id] = NoSlot /\ nextIndex < MaxAdds

FaultIndexIsCount == Cardinality(Registered)
FaultIndexFromOne == nextIndex + 1
NewIndex == nextIndex

(* The bin is created, takes the name of its index, and joins the pipeline. *)
AddBin(c, id) ==
    /\ Call(c)
    /\ Accepted(id)
    /\ NewIndex \notin InPipe
    /\ nextIndex' = nextIndex + 1
    /\ bins' = [bins EXCEPT ![NewIndex] = "null"]
    /\ Lock(c, "bin", id, NewIndex)
    /\ UNCHANGED <<sources, pads, linked>>

(* No bin, or the pipeline refuses it: false, and the index is spent.      *)
AddNoBin(c, id) ==
    /\ Call(c)
    /\ Accepted(id)
    /\ nextIndex' = nextIndex + 1
    /\ UNCHANGED <<sources, calls, gst>>

AddLink(c) ==
    /\ At(c, "bin")
    /\ idx[c] \notin pads
    /\ pads' = pads \cup {idx[c]}
    /\ linked' = linked \cup {idx[c]}
    /\ Goto(c, "linked")
    /\ UNCHANGED <<sources, nextIndex, bins>>

(* No muxer pad, no source pad, or they do not link: false, and the bin    *)
(* and any pad that was granted stay where they are.                       *)
AddLinkFails(c) ==
    /\ At(c, "bin")
    /\ pads' \in {pads, pads \cup {idx[c]}}
    /\ Return(c)
    /\ UNCHANGED <<sources, nextIndex, bins, linked>>

FaultNoSync == "commit"
StepAfterLink == IF running THEN "sync" ELSE "commit"

AddCheck(c) ==
    /\ At(c, "linked")
    /\ Goto(c, StepAfterLink)
    /\ UNCHANGED <<sources, nextIndex, gst>>

(* gst_element_sync_state_with_parent reads the parent's state, either if  *)
(* that is half-way between two, and then sets the bin's, and holds no     *)
(* lock on the parent meanwhile.                                           *)
ParentState == IF pipe = "failed" THEN {"null", "live"} ELSE {pipe}

FaultAlwaysPlay == {"live"}
StateForBin == ParentState

AddSyncRead(c) ==
    /\ At(c, "sync")
    /\ \/ "null" \in StateForBin /\ Goto(c, "goNull")
       \/ "live" \in StateForBin /\ Goto(c, "goLive")
    /\ UNCHANGED <<sources, nextIndex, gst>>

AddSyncApply(c) ==
    /\ \/ At(c, "goNull") /\ bins' = [bins EXCEPT ![idx[c]] = "null"]
       \/ At(c, "goLive") /\ bins' = [bins EXCEPT ![idx[c]] = "live"]
    /\ Goto(c, "commit")
    /\ UNCHANGED <<sources, nextIndex, pads, linked>>

AddCommit(c) ==
    /\ At(c, "commit")
    /\ sources' = [sources EXCEPT ![arg[c]] = idx[c]]
    /\ Return(c)
    /\ UNCHANGED <<nextIndex, gst>>

(* remove_source: the bin goes to NULL first, and leaves the pipeline in a *)
(* second call to GStreamer, which unlinks it but keeps the muxer's pad.   *)
RemoveNull(c, id) ==
    /\ Call(c)
    /\ sources[id] # NoSlot
    /\ bins' = [s \in Slots |-> IF s = sources[id] /\ s \in InPipe
                                  THEN "null" ELSE bins[s]]
    /\ Lock(c, "drop", id, sources[id])
    /\ UNCHANGED <<sources, nextIndex, pads, linked>>

FaultNoErase(c) == sources
Erased(c) == [sources EXCEPT ![arg[c]] = NoSlot]

RemoveDrop(c) ==
    /\ At(c, "drop")
    /\ bins' = [bins EXCEPT ![idx[c]] = "absent"]
    /\ linked' = linked \ {idx[c]}
    /\ sources' = Erased(c)
    /\ Return(c)
    /\ UNCHANGED <<nextIndex, pads>>

CallerStep ==
    \E c \in Callers :
        \/ \E id \in Ids : AddBin(c, id) \/ AddNoBin(c, id) \/ RemoveNull(c, id)
        \/ AddLink(c) \/ AddLinkFails(c)
        \/ AddCheck(c) \/ AddSyncRead(c) \/ AddSyncApply(c) \/ AddCommit(c)
        \/ RemoveDrop(c)

-----------------------------------------------------------------------------
(* The lifecycle's side: setting the pipeline's state sets that of every   *)
(* bin in it.  A change to PLAYING that fails leaves some of them behind.  *)
(* Either overtakes the bin whose sync has read the state it replaces.     *)

Syncing == {idx[c] : c \in {d \in Callers : pc[d] \in {"goNull", "goLive"}}}

PlayPipeline ==
    /\ ThreadPlay
    /\ \E reached \in SUBSET InPipe :
          /\ pipe' = "live" => reached = InPipe
          /\ bins' = [s \in Slots |-> IF s \in reached THEN "live" ELSE bins[s]]
    /\ overtaken' = Syncing
    /\ UNCHANGED <<sources, nextIndex, calls, pads, linked>>

NullPipeline ==
    /\ ThreadNull
    /\ bins' = [s \in Slots |-> IF s \in InPipe THEN "null" ELSE bins[s]]
    /\ overtaken' = Syncing
    /\ UNCHANGED <<sources, nextIndex, calls, pads, linked>>

(* Destroying an object somebody is still calling is the caller's error.   *)
DestroyBegin ==
    /\ DestroyEnter
    /\ mutex = None
    /\ UNCHANGED srcVars

DestroyEnd ==
    /\ DestroyJoin
    /\ sources' = [id \in Ids |-> NoSlot]
    /\ bins' = [s \in Slots |-> IF s \in InPipe THEN "absent" ELSE bins[s]]
    /\ pads' = {}
    /\ linked' = {}
    /\ overtaken' = {}
    /\ UNCHANGED <<nextIndex, calls>>

LifeStep == QuietStep /\ UNCHANGED srcVars

Next ==
    \/ CallerStep /\ UNCHANGED <<lifeVars, overtaken>>
    \/ LifeStep \/ PlayPipeline \/ NullPipeline \/ DestroyBegin \/ DestroyEnd

Spec == Init /\ [][Next]_vars

(* Whoever adds and removes cameras, the owner's calls and the loop thread *)
(* go on; callers owe nothing, and nobody else waits for them.             *)
FairSpec == Spec /\ LifeFairness

-----------------------------------------------------------------------------
(* A camera that is attached has a bin of its own in the pipeline, linked  *)
(* to a muxer pad of its own, through every failed or interrupted call     *)
(* (lines 101-133, 144-151).                                               *)
RegistryCoherent ==
    \A id \in Registered :
        /\ \A other \in Registered : sources[other] = sources[id] => other = id
        /\ sources[id] \in InPipe \cap pads \cap linked

(* A muxer pad is never requested while an earlier source, attached,       *)
(* removed or failed, still holds it: remove_source and the failing paths  *)
(* never release one (lines 116-125, 147-151), so only fresh indices work. *)
FreshPad == \A c \in Callers : pc[c] = "bin" => idx[c] \notin pads

(* At most max_streams cameras are attached, for all concurrent calls      *)
(* (line 92).                                                              *)
CapacityBound == Cardinality(Registered) <= MaxStreams

(* Cameras play while the pipeline does, whether they were added before    *)
(* start(), after it, or while the loop thread was on its way to PLAYING,  *)
(* but for one whose bin was being synced at the very moment the loop      *)
(* thread set the pipeline's state (lines 130-132, 162).  A stop() that is *)
(* under way makes no promise, nor does a second start() that is about to  *)
(* terminate the process or throws.                                        *)
Serving == running /\ pipe = "live" /\ owner \notin {"newloop", "spawn", "throwing", "terminated"}
SourcesPlayUnlessOvertaken ==
    Serving /\ mutex = None =>
        \A id \in Registered : bins[sources[id]] = "live" \/ sources[id] \in overtaken

(* No camera bin keeps streaming in a pipeline that was set to NULL, even  *)
(* one added while stop() was at work, but for the same one: at most one   *)
(* bin, since adding holds the mutex (lines 91, 130-131, 164).             *)
QuietUnlessOvertaken ==
    pipe = "null" =>
        /\ {s \in Slots : bins[s] = "live"} \subseteq overtaken
        /\ \A s, t \in overtaken : s = t

(* add_source and remove_source implement the abstract set of sources; the *)
(* index of a call still under way is not given out yet (lines 90-154).    *)
InFlight == {idx[c] : c \in {d \in Callers : pc[d] \in AddAt}}
Abstract == INSTANCE SourceSet WITH
    attached <- sources, used <- {s \in Slots : s < nextIndex} \ InFlight
ImplementsSourceSet == Abstract!Spec

-----------------------------------------------------------------------------
(* What docs/architecture.md says of the class; the code does not keep it. *)

(* "add_source / remove_source are safe to call from any thread": a camera *)
(* plays once its add_source has returned and the pipeline serves.         *)
SourcesPlay ==
    Serving /\ mutex = None => \A id \in Registered : bins[sources[id]] = "live"
=============================================================================
