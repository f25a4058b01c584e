--------------------------- MODULE ArcFaceEncoder ---------------------------
(***************************************************************************)
(* ArcFaceEncoder::encode_batch over one TrtEngine: the crops go through   *)
(* the engine in chunks of batch_size, by way of two host buffers that     *)
(* live as long as the encoder.  Any CUDA or TensorRT call may throw,      *)
(* which ends the call; the encoder is used again for the next frame.      *)
(* A crop, and the embedding made of it, is the pair of call and place.    *)
(***************************************************************************)
EXTENDS TrtEngine, Sequences

CONSTANTS
    BatchSize,   \* encoding.batch_size
    MaxFaces,    \* bound: crops per call
    MaxCalls     \* bound: calls of encode_batch

ASSUME EncoderAssumption ==
    BatchSize \in Nat \ {0} /\ MaxFaces \in Nat /\ MaxCalls \in Nat

VARIABLES
    pc,         \* where encode_chunk_ is
    call,       \* calls so far
    faces,      \* aligned_faces.size()
    first,      \* i: crops before this chunk
    hostIn,     \* input_scratch_
    devIn,      \* the input buffer on the device
    devOut,     \* the output buffer on the device
    hostOut,    \* output_scratch_
    results     \* the embeddings collected

data == <<hostIn, devIn, devOut, hostOut>>
vars == <<engine, pc, call, faces, first, data, results>>

Rows == 1..BatchSize
Noise == <<0, 0>>
Crops == {Noise} \cup ((1..MaxCalls) \X (1..MaxFaces))

Init ==
    /\ EngineInit
    /\ pc = "construct"
    /\ call = 0
    /\ faces = 0
    /\ first = 0
    /\ hostIn = [r \in Rows |-> Noise]
    /\ devIn = [r \in Rows |-> Noise]
    /\ devOut = [r \in Rows |-> Noise]
    /\ hostOut = [r \in Rows |-> Noise]
    /\ results = <<>>

ChunkSize == IF faces - first < BatchSize THEN faces - first ELSE BatchSize
Chunk == 1..ChunkSize

Filled(old, new) == [r \in Rows |-> IF r \in Chunk THEN new[r] ELSE old[r]]

-----------------------------------------------------------------------------
Construct ==
    /\ pc = "construct"
    /\ \E b \in Bindings : ConstructBinding(b)
    /\ pc' = IF unbuilt' = {} THEN "idle" ELSE "construct"
    /\ UNCHANGED <<call, faces, first, data, results>>

(* Any call of CUDA or TensorRT in the constructor may throw; and whoever  *)
(* owns the encoder may destroy it between two calls.                      *)
Destruct ==
    /\ pc \in {"construct", "idle"}
    /\ EngineGone
    /\ pc' = "gone"
    /\ UNCHANGED <<call, faces, first, data, results>>

EncodeBatch(n) ==
    /\ pc = "idle"
    /\ call < MaxCalls
    /\ call' = call + 1
    /\ faces' = n
    /\ first' = 0
    /\ results' = <<>>
    /\ pc' = IF n = 0 THEN "done" ELSE "shape"
    /\ UNCHANGED <<engine, data>>

SetShape ==
    /\ pc = "shape"
    /\ set_input_shape(ChunkSize)
    /\ devIn' = [r \in Rows |-> Noise]
    /\ pc' = "input"
    /\ UNCHANGED <<call, faces, first, hostIn, devOut, hostOut, results>>

OutOfMemory ==
    /\ pc = "shape"
    /\ set_input_shape_fails(ChunkSize)
    /\ devIn' = [r \in Rows |-> Noise]
    /\ pc' = "idle"
    /\ UNCHANGED <<call, faces, first, hostIn, devOut, hostOut, results>>

CopyInput ==
    /\ pc = "input"
    /\ hostIn' = Filled(hostIn, [r \in Rows |-> <<call, first + r>>])
    /\ devIn' = Filled(devIn, hostIn')
    /\ pc' = "infer"
    /\ UNCHANGED <<engine, call, faces, first, devOut, hostOut, results>>

Infer ==
    /\ pc = "infer"
    /\ enqueueV3
    /\ devOut' = Filled(devOut, devIn)
    /\ pc' = "output"
    /\ UNCHANGED <<engine, call, faces, first, hostIn, devIn, hostOut, results>>

CopyOutput ==
    /\ pc = "output"
    /\ buffer["output"] # NoBuffer
    /\ hostOut' = Filled(hostOut, devOut)
    /\ pc' = "collect"
    /\ UNCHANGED <<engine, call, faces, first, hostIn, devIn, devOut, results>>

FaultFirstRow(r) == hostOut[1]
Row(r) == hostOut[r]

NextFirst == first + BatchSize

Collect ==
    /\ pc = "collect"
    /\ results' = results \o [r \in Chunk |-> Row(r)]
    /\ first' = NextFirst
    /\ pc' = IF NextFirst < faces THEN "shape" ELSE "done"
    /\ UNCHANGED <<engine, call, faces, data>>

(* setInputShape refuses the shape, a CUDA call fails, a binding has no    *)
(* buffer: the exception leaves encode_batch, the embeddings are dropped.  *)
Throw ==
    /\ pc \in {"shape", "input", "infer", "output", "collect"}
    /\ pc' = "idle"
    /\ UNCHANGED <<engine, call, faces, first, data, results>>

Return ==
    /\ pc = "done"
    /\ pc' = "idle"
    /\ UNCHANGED <<engine, call, faces, first, data, results>>

Next ==
    \/ \E n \in 0..MaxFaces : EncodeBatch(n)
    \/ Construct \/ Destruct
    \/ SetShape \/ OutOfMemory \/ CopyInput \/ Infer \/ CopyOutput \/ Collect
    \/ Throw \/ Return

Spec == Init /\ [][Next]_vars

-----------------------------------------------------------------------------
(* A batch that returns holds one embedding per crop, in order and of this *)
(* call, through every split into chunks and whatever an earlier call that *)
(* threw left in the host buffers (arcface_encoder.cpp lines 69-125).      *)
OnePerCropInOrder ==
    pc = "done" => results = [i \in 1..faces |-> <<call, i>>]

(* The engine only runs on memory that is there: when enqueueV3 has been   *)
(* called, each binding has an address that is still allocated and room    *)
(* for the batch, whatever allocations failed before (lines 103-116,       *)
(* trt_engine.cpp 171-177).                                                *)
RunsOnLiveMemory ==
    pc = "output" =>
        \A b \in Bindings : address[b] \in heap /\ address[b][2] >= batch

(* No device memory is lost: all that is allocated is owned by a buffer of *)
(* the engine, through a constructor that throws part-way, an allocation   *)
(* that fails in the middle of a reshape, and the destructor               *)
(* (trt_engine.cpp 84-88, 135-148, 175-177; cuda_helpers.hpp 108-146).     *)
NoDeviceLeak ==
    /\ heap = {buffer[b] : b \in Bindings} \ {NoBuffer}
    /\ pc = "gone" => heap = {}

-----------------------------------------------------------------------------
(* "Allocate GPU memory for known-shape bindings; dynamic-shape ones are   *)
(* allocated on first set_input_shape call."                               *)
AllocatedOnFirstCall ==
    pc = "input" => \A b \in Bindings : Holds(b, ChunkSize)
=============================================================================
