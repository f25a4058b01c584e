----------------------------- MODULE SourceSet -----------------------------
(***************************************************************************)
(* What add_source and remove_source promise, whatever GStreamer answers   *)
(* and however the callers interleave: at most MaxStreams cameras are      *)
(* attached, each on a slot of the muxer that no other camera, and no      *)
(* earlier camera, has ever been given.  DeepStreamPipeline implements it. *)
(***************************************************************************)
EXTENDS Naturals, FiniteSets

CONSTANTS Ids, Slots, NoSlot, MaxStreams

VARIABLES
    attached,    \* camera -> its slot, or NoSlot
    used         \* every slot that was ever given out

Attached == {id \in Ids : attached[id] # NoSlot}

Init ==
    /\ attached = [id \in Ids |-> NoSlot]
    /\ used = {}

Attach(id, slot) ==
    /\ attached[id] = NoSlot
    /\ Cardinality(Attached) < MaxStreams
    /\ slot \notin used
    /\ attached' = [attached EXCEPT ![id] = slot]
    /\ used' = used \cup {slot}

(* A camera that could not be created costs its slot. *)
Waste(slot) ==
    /\ slot \notin used
    /\ used' = used \cup {slot}
    /\ UNCHANGED attached

Detach(id) ==
    /\ attached[id] # NoSlot
    /\ attached' = [attached EXCEPT ![id] = NoSlot]
    /\ UNCHANGED used

(* The pipeline is destroyed with the cameras still attached to it. *)
Close ==
    /\ attached' = [id \in Ids |-> NoSlot]
    /\ UNCHANGED used

Next ==
    \/ \E id \in Ids, slot \in Slots : Attach(id, slot)
    \/ \E slot \in Slots : Waste(slot)
    \/ \E id \in Ids : Detach(id)
    \/ Close

Spec == Init /\ [][Next]_<<attached, used>>
=============================================================================
