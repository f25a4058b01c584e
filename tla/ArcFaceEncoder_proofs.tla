----------------------- MODULE ArcFaceEncoder_proofs ------------------------
(***************************************************************************)
(* Proofs about ArcFaceEncoder, for any engine, batch size and number of   *)
(* crops: the device memory first, then what travels through it.           *)
(***************************************************************************)
EXTENDS ArcFaceEncoder, TLAPS

InChunk == {"shape", "input", "infer", "output", "collect"}

(* Each allocation has one owner.  What the context was told of the output *)
(* is the output's own buffer; of the input, once it has been reshaped.    *)
MemoryInv ==
    /\ EngineTypeOK
    /\ heap = {buffer[b] : b \in Bindings} \ {NoBuffer}
    /\ buffer["input"] = buffer["output"] => buffer["input"] = NoBuffer
    /\ pc \notin InChunk \cup {"construct", "idle", "done"} => heap = {}
    /\ pc # "gone" => address["output"] = buffer["output"]
    /\ buffer["output"] \in {NoBuffer} \cup (Nat \X {EngineBatch})
    /\ pc \in InChunk \ {"shape"} =>
          buffer["input"] # NoBuffer /\ address["input"] = buffer["input"]
                                     /\ buffer["input"][2] = batch
    /\ pc \in {"output", "collect"} => enqueueV3

(* What has been collected, and where the crops of this chunk are.         *)
CallInv ==
    /\ pc \in {"construct", "idle", "shape", "input", "infer", "output", "collect", "done", "gone"}
    /\ call \in Nat /\ faces \in Nat /\ first \in Nat
    /\ pc \in InChunk => first < faces /\ results = [i \in 1..first |-> <<call, i>>]
    /\ pc = "done" => results = [i \in 1..faces |-> <<call, i>>]

ChunkInv ==
    /\ pc = "infer" => \A r \in Chunk : devIn[r] = <<call, first + r>>
    /\ pc = "output" => \A r \in Chunk : devOut[r] = <<call, first + r>>
    /\ pc = "collect" => \A r \in Chunk : hostOut[r] = <<call, first + r>>

EncoderInv == MemoryInv /\ CallInv /\ ChunkInv

LEMMA ChunkSizeBounds ==
    ASSUME CallInv, pc \in InChunk
    PROVE  /\ ChunkSize \in 1..BatchSize /\ first + ChunkSize <= faces
           /\ NextFirst < faces => ChunkSize = BatchSize
           /\ ~(NextFirst < faces) => first + ChunkSize = faces
  BY EncoderAssumption DEF EncoderAssumption, CallInv, ChunkSize, NextFirst

LEMMA ResetInput ==
    ASSUME MemoryInv, NEW n \in 1..EngineBatch, Reset("input", n)
    PROVE  LET new == <<allocs + 1, n>> IN
           /\ new \notin heap /\ new # NoBuffer
           /\ buffer' = [buffer EXCEPT !["input"] = new]
           /\ allocs' = allocs + 1
           /\ heap' \subseteq (1..allocs') \X (1..EngineBatch)
           /\ heap' = {buffer'[b] : b \in Bindings} \ {NoBuffer}
           /\ buffer'["input"] # buffer'["output"]
  <1> USE EngineAssumption DEF MemoryInv, EngineTypeOK, Bindings, NoBuffer
  <1> DEFINE new == <<allocs + 1, n>>
  <1>1. new \notin heap /\ new # NoBuffer
    OBVIOUS
  <1>2. heap' = (heap \ {buffer["input"]}) \cup {new} /\ allocs' = allocs + 1
        /\ buffer' = [buffer EXCEPT !["input"] = new]
    BY DEF Reset, Released
  <1>3. buffer'["input"] = new /\ buffer'["output"] = buffer["output"]
    BY <1>2
  <1>4. heap' \subseteq (1..allocs') \X (1..EngineBatch)
    BY <1>2
  <1>5. heap = {buffer["input"], buffer["output"]} \ {NoBuffer}
    OBVIOUS
  <1>6. heap' = {buffer'["input"], buffer'["output"]} \ {NoBuffer}
    BY <1>1, <1>2, <1>3, <1>5
  <1>7. buffer["output"] # new
    BY <1>1, <1>5
  <1>8. QED
    BY <1>1, <1>2, <1>3, <1>4, <1>6, <1>7

(* Two stretches of the numbered crops of a call, one behind the other.    *)
LEMMA Joined ==
    ASSUME NEW m \in Nat, NEW k \in Nat, NEW c
    PROVE  [i \in 1..m |-> <<c, i>>] \o [r \in 1..k |-> <<c, m + r>>]
               = [i \in 1..(m + k) |-> <<c, i>>]
  <1> DEFINE s == [i \in 1..m |-> <<c, i>>]
             t == [r \in 1..k |-> <<c, m + r>>]
             u == [i \in 1..(m + k) |-> <<c, i>>]
  <1> DEFINE S == {<<c, i>> : i \in Nat}
  <1>1. s \in Seq(S) /\ t \in Seq(S) /\ Len(s) = m /\ Len(t) = k
    OBVIOUS
  <1>2. Len(s \o t) = m + k /\ s \o t \in Seq(S)
    BY <1>1
  <1>3. \A i \in 1..(m + k) : (s \o t)[i] = <<c, i>>
    <2> TAKE i \in 1..(m + k)
    <2>1. CASE i <= m
      BY <1>1, <2>1
    <2>2. CASE i > m
      <3>1. (s \o t)[i] = t[i - m]
        BY <1>1, <2>2
      <3>2. i - m \in 1..k /\ m + (i - m) = i
        BY <2>2
      <3>3. QED
        BY <3>1, <3>2
    <2>3. QED
      BY <2>1, <2>2
  <1>4. DOMAIN (s \o t) = 1..(m + k)
    BY <1>2
  <1>5. QED
    BY <1>2, <1>3, <1>4

LEMMA MemoryInvStep ==
    ASSUME MemoryInv, CallInv, [Next]_vars
    PROVE  MemoryInv'
  <1> USE EngineAssumption, EncoderAssumption
      DEF MemoryInv, EngineTypeOK, CallInv, InChunk, Bindings, engine
  <1>1. CASE Construct
    <2>1. PICK b \in Bindings : ConstructBinding(b)
      BY <1>1 DEF Construct
    <2>2. CASE Known > 0
      BY <1>1, <2>1, <2>2 DEF Construct, ConstructBinding, Reset, Released, NoBuffer, Known
    <2>3. CASE ~(Known > 0)
      BY <1>1, <2>1, <2>3 DEF Construct, ConstructBinding, Known
    <2>4. QED
      BY <2>2, <2>3
  <1>2. CASE Destruct
    BY <1>2 DEF Destruct, EngineGone, Unwound
  <1>3. CASE SetShape
    <2>1. ChunkSize \in 1..EngineBatch
      BY <1>3, ChunkSizeBounds DEF SetShape, set_input_shape, setInputShape
    <2>2. Reset("input", ChunkSize) /\ address' = [address EXCEPT !["input"] = buffer'["input"]]
          /\ batch' = ChunkSize /\ pc = "shape" /\ pc' = "input" /\ unbuilt' = unbuilt
          /\ volume' = [volume EXCEPT !["input"] = ChunkSize]
      BY <1>3 DEF SetShape, set_input_shape, NewAddress
    <2>3. /\ heap' \subseteq (1..allocs') \X (1..EngineBatch) /\ allocs' = allocs + 1
          /\ heap' = {buffer'[b] : b \in Bindings} \ {NoBuffer}
          /\ buffer' = [buffer EXCEPT !["input"] = <<allocs + 1, ChunkSize>>]
          /\ buffer'["input"] # NoBuffer /\ buffer'["input"] # buffer'["output"]
      BY <2>1, <2>2, ResetInput
    <2>4. /\ DOMAIN buffer' = Bindings /\ buffer'["input"] = <<allocs + 1, ChunkSize>>
          /\ buffer'["output"] = buffer["output"]
          /\ address'["input"] = buffer'["input"] /\ address'["output"] = address["output"]
      BY <2>2, <2>3
    <2>5. buffer' \in [Bindings -> heap' \cup {NoBuffer}]
      BY <2>3, <2>4
    <2>6. address' \in [Bindings -> ((1..allocs') \X (1..EngineBatch)) \cup {NoBuffer}]
      BY <2>1, <2>2, <2>3, <2>4
    <2>7. EngineTypeOK'
      BY <2>1, <2>2, <2>3, <2>5, <2>6
    <2>8. QED
      BY <2>2, <2>3, <2>4, <2>7
  <1>4. CASE OutOfMemory
    <2>1. ChunkSize \in 1..EngineBatch
      BY <1>4, ChunkSizeBounds DEF OutOfMemory, set_input_shape_fails, setInputShape
    <2>2. QED
      BY <1>4, <2>1 DEF OutOfMemory, set_input_shape_fails, ResetThrows, Released, NoBuffer
  <1>5. CASE (\E n \in 0..MaxFaces : EncodeBatch(n)) \/ Collect \/ Throw \/ Return \/ UNCHANGED vars
    <2>1. /\ UNCHANGED engine
          /\ pc' = pc \/ (pc \notin {"gone", "construct"} /\ pc' \in {"idle", "shape", "done"})
      BY <1>5 DEF EncodeBatch, Collect, Throw, Return, vars
    <2>2. EngineTypeOK' /\ heap' = {buffer'[b] : b \in Bindings} \ {NoBuffer}
      BY <2>1
    <2>3. CASE pc' = pc
      BY <2>1, <2>3 DEF enqueueV3
    <2>4. CASE pc \notin {"gone", "construct"} /\ pc' \in {"idle", "shape", "done"}
      BY <2>1, <2>2, <2>4
    <2>5. QED
      BY <2>1, <2>3, <2>4
  <1>6. CASE CopyInput
    BY <1>6 DEF CopyInput, enqueueV3
  <1>7. CASE Infer
    BY <1>7 DEF Infer, enqueueV3
  <1>8. CASE CopyOutput
    BY <1>8 DEF CopyOutput, enqueueV3
  <1>9. QED
    BY <1>1, <1>2, <1>3, <1>4, <1>5, <1>6, <1>7, <1>8 DEF Next

LEMMA CallInvStep ==
    ASSUME MemoryInv, CallInv, ChunkInv, [Next]_vars
    PROVE  CallInv'
  <1> USE EncoderAssumption DEF EncoderAssumption, CallInv, InChunk
  <1>1. CASE Construct \/ Destruct
    BY <1>1 DEF Construct, Destruct
  <1>2. CASE \E n \in 0..MaxFaces : EncodeBatch(n)
    BY <1>2 DEF EncodeBatch
  <1>3. CASE SetShape \/ OutOfMemory \/ CopyInput \/ Infer \/ CopyOutput \/ Throw \/ Return
    BY <1>3 DEF SetShape, OutOfMemory, CopyInput, Infer, CopyOutput, Throw, Return
  <1>4. CASE Collect
    <2>1. /\ ChunkSize \in 1..BatchSize /\ first + ChunkSize <= faces
          /\ NextFirst < faces => ChunkSize = BatchSize
          /\ ~(NextFirst < faces) => first + ChunkSize = faces
      BY <1>4, ChunkSizeBounds DEF Collect
    <2>2. results' = [i \in 1..(first + ChunkSize) |-> <<call, i>>]
      <3>1. results' = results \o [r \in 1..ChunkSize |-> <<call, first + r>>]
        <4>1. [r \in Chunk |-> Row(r)] = [r \in 1..ChunkSize |-> <<call, first + r>>]
          BY <1>4 DEF Collect, ChunkInv, Chunk, Row
        <4>2. QED
          BY <1>4, <4>1 DEF Collect
      <3>2. results = [i \in 1..first |-> <<call, i>>]
        BY <1>4 DEF Collect
      <3>3. QED
        BY <2>1, <3>1, <3>2, Joined DEF Collect
    <2>3. call' = call /\ faces' = faces /\ first' = first + BatchSize
      BY <1>4 DEF Collect, NextFirst
    <2>4. CASE NextFirst < faces
      <3>1. pc' = "shape"
        BY <1>4, <2>4 DEF Collect
      <3>2. first' = first + ChunkSize /\ first' < faces /\ first' \in Nat
        BY <2>1, <2>3, <2>4 DEF NextFirst
      <3>3. results' = [i \in 1..first' |-> <<call', i>>]
        BY <2>2, <2>3, <3>2
      <3>4. QED
        BY <2>3, <3>1, <3>2, <3>3
    <2>5. CASE ~(NextFirst < faces)
      <3>1. pc' = "done"
        BY <1>4, <2>5 DEF Collect
      <3>2. results' = [i \in 1..faces' |-> <<call', i>>]
        BY <2>1, <2>2, <2>3, <2>5
      <3>3. QED
        BY <2>3, <3>1, <3>2
    <2>6. QED
      BY <2>4, <2>5
  <1>5. CASE UNCHANGED vars
    BY <1>5 DEF vars
  <1>6. QED
    BY <1>1, <1>2, <1>3, <1>4, <1>5 DEF Next

LEMMA ChunkInvStep ==
    ASSUME CallInv, ChunkInv, [Next]_vars
    PROVE  ChunkInv'
  <1> USE DEF ChunkInv
  <1>1. CASE CopyInput
    <2>1. /\ pc' = "infer" /\ Chunk' = Chunk /\ call' = call /\ first' = first
          /\ devIn' = Filled(devIn, hostIn')
          /\ hostIn' = Filled(hostIn, [r \in Rows |-> <<call, first + r>>])
      BY <1>1 DEF CopyInput, Chunk, ChunkSize
    <2>2. Chunk \subseteq Rows
      BY <1>1, ChunkSizeBounds, EncoderAssumption DEF EncoderAssumption, CallInv, CopyInput, InChunk, Chunk, Rows
    <2>3. QED
      BY <2>1, <2>2 DEF Filled
  <1>2. CASE Infer
    <2>1. /\ pc = "infer" /\ pc' = "output" /\ Chunk' = Chunk /\ call' = call /\ first' = first
          /\ devOut' = Filled(devOut, devIn)
      BY <1>2 DEF Infer, Chunk, ChunkSize
    <2>2. Chunk \subseteq Rows
      BY <1>2, ChunkSizeBounds, EncoderAssumption DEF EncoderAssumption, CallInv, Infer, InChunk, Chunk, Rows
    <2>3. QED
      BY <2>1, <2>2 DEF Filled
  <1>3. CASE CopyOutput
    <2>1. /\ pc = "output" /\ pc' = "collect" /\ Chunk' = Chunk /\ call' = call
          /\ first' = first /\ hostOut' = Filled(hostOut, devOut)
      BY <1>3 DEF CopyOutput, Chunk, ChunkSize
    <2>2. Chunk \subseteq Rows
      BY <1>3, ChunkSizeBounds, EncoderAssumption DEF EncoderAssumption, CallInv, CopyOutput, InChunk, Chunk, Rows
    <2>3. QED
      BY <2>1, <2>2 DEF Filled
  <1>4. CASE UNCHANGED vars
    BY <1>4 DEF vars, data, Chunk, ChunkSize
  <1>5. CASE pc' \notin {"infer", "output", "collect"}
    BY <1>5
  <1>6. QED
    BY <1>1, <1>2, <1>3, <1>4, <1>5
       DEF Next, Construct, Destruct, EncodeBatch, SetShape, OutOfMemory, Collect, Throw, Return

(* Through any sequence of calls, failed or not, memory, chunk and results *)
(* stay as EncoderInv says (arcface_encoder.cpp lines 48-127).             *)
THEOREM EncoderInvariant == Spec => []EncoderInv
  <1>1. Init => EncoderInv
    <2> SUFFICES ASSUME Init PROVE EncoderInv
      OBVIOUS
    <2> USE EngineAssumption DEF Init
    <2>1. MemoryInv
      BY DEF EngineInit, MemoryInv, EngineTypeOK, Bindings, Known, InChunk
    <2>2. CallInv /\ ChunkInv
      BY DEF CallInv, ChunkInv, InChunk
    <2>3. QED
      BY <2>1, <2>2 DEF EncoderInv
  <1>2. EncoderInv /\ [Next]_vars => EncoderInv'
    BY MemoryInvStep, CallInvStep, ChunkInvStep DEF EncoderInv
  <1>3. QED
    BY <1>1, <1>2, PTL DEF Spec

(* A batch that returns has one embedding per crop, of that crop, for any  *)
(* number of crops and batch size (arcface_encoder.cpp 69-125).            *)
THEOREM CropsInOrder == Spec => []OnePerCropInOrder
  <1>1. EncoderInv => OnePerCropInOrder
    BY DEF EncoderInv, CallInv, OnePerCropInOrder
  <1>2. QED
    BY EncoderInvariant, <1>1, PTL

(* enqueueV3 never runs over memory that was freed or is too small         *)
(* (trt_engine.cpp 153-196).                                               *)
THEOREM EngineRunsOnLiveMemory == Spec => []RunsOnLiveMemory
  <1>1. ASSUME EncoderInv PROVE RunsOnLiveMemory
    <2> SUFFICES ASSUME pc = "output", NEW b \in Bindings
                 PROVE  address[b] \in heap /\ address[b][2] >= batch
      BY DEF RunsOnLiveMemory
    <2> USE <1>1, EngineAssumption DEF EncoderInv, MemoryInv, EngineTypeOK, InChunk, enqueueV3
    <2>1. CASE b = "input"
      BY <2>1 DEF Bindings
    <2>2. CASE b = "output"
      <3>1. address["output"] = buffer["output"] /\ buffer["output"] # NoBuffer
        BY DEF Bindings
      <3>2. buffer["output"] \in heap /\ buffer["output"] \in Nat \X {EngineBatch}
        BY <3>1 DEF Bindings
      <3>3. buffer["output"][2] = EngineBatch
        BY <3>2
      <3>4. QED
        BY <2>2, <3>1, <3>2, <3>3
    <2>3. QED
      BY <2>1, <2>2 DEF Bindings
  <1>2. QED
    BY EncoderInvariant, <1>1, PTL

(* Every allocation on the device is owned by a buffer of a living engine, *)
(* whatever call fails (trt_engine.cpp 84-88, cuda_helpers.hpp 101-155).   *)
THEOREM DeviceMemoryOwned == Spec => []NoDeviceLeak
  <1>1. EncoderInv => NoDeviceLeak
    BY DEF EncoderInv, MemoryInv, InChunk, NoDeviceLeak
  <1>2. QED
    BY EncoderInvariant, <1>1, PTL
=============================================================================
