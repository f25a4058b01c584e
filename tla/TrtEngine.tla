----------------------------- MODULE TrtEngine -----------------------------
(***************************************************************************)
(* The device memory behind one TensorRT engine with an input and an       *)
(* output: the allocations that exist, the one each DeviceBuffer owns, the *)
(* one the execution context was told of, and the shape the context runs   *)
(* with.  Shapes and sizes are counted in images; a dynamic dimension is 0.*)
(* An allocation is a pair of a number, never given twice, and a size.     *)
(***************************************************************************)
EXTENDS Integers

CONSTANTS
    Dynamic,      \* was the engine built with a range of batch sizes?
    EngineBatch   \* its batch size, or the largest of the range

ASSUME EngineAssumption == Dynamic \in BOOLEAN /\ EngineBatch \in Nat \ {0}

VARIABLES
    unbuilt,   \* the bindings the constructor has not come to
    heap,      \* what cudaMalloc gave out and cudaFree has not taken back
    allocs,    \* how often cudaMalloc succeeded
    volume,    \* bindings_: BindingInfo::volume
    buffer,    \* device_buffers: the allocation owned, or NoBuffer
    address,   \* the allocation the context was told of, or NoBuffer
    batch      \* the input shape of the context

engine == <<unbuilt, heap, allocs, volume, buffer, address, batch>>

Bindings == {"input", "output"}
NoBuffer == <<0, 0>>
Known == IF Dynamic THEN 0 ELSE EngineBatch

EngineTypeOK ==
    /\ unbuilt \subseteq Bindings
    /\ heap \subseteq (1..allocs) \X (1..EngineBatch)
    /\ allocs \in Nat
    /\ volume \in [Bindings -> 0..EngineBatch]
    /\ buffer \in [Bindings -> heap \cup {NoBuffer}]
    /\ address \in [Bindings -> ((1..allocs) \X (1..EngineBatch)) \cup {NoBuffer}]
    /\ batch \in 0..EngineBatch

EngineInit ==
    /\ unbuilt = Bindings
    /\ heap = {}
    /\ allocs = 0
    /\ volume = [b \in Bindings |-> 0]
    /\ buffer = [b \in Bindings |-> NoBuffer]
    /\ address = [b \in Bindings |-> NoBuffer]
    /\ batch = Known

Released(b) == heap \ {buffer[b]}

(* DeviceBuffer::reset frees first and allocates then.                     *)
Reset(b, n) ==
    LET new == <<allocs + 1, n>> IN
    /\ heap' = Released(b) \cup {new}
    /\ allocs' = allocs + 1
    /\ buffer' = [buffer EXCEPT ![b] = new]

(* With no memory left there is no buffer; cudaMalloc throws.              *)
ResetThrows(b) ==
    /\ heap' = Released(b)
    /\ buffer' = [buffer EXCEPT ![b] = NoBuffer]
    /\ UNCHANGED allocs

-----------------------------------------------------------------------------
(* One turn of the constructor's loop: what has a known shape gets memory. *)
ConstructBinding(b) ==
    /\ b \in unbuilt
    /\ unbuilt' = unbuilt \ {b}
    /\ volume' = [volume EXCEPT ![b] = Known]
    /\ IF Known > 0
       THEN Reset(b, Known) /\ address' = [address EXCEPT ![b] = buffer'[b]]
       ELSE UNCHANGED <<heap, allocs, buffer, address>>
    /\ UNCHANGED batch

(* The constructor throws part-way, or the engine is destroyed: its        *)
(* DeviceBuffers free what they own.                                       *)
FaultRawPointers == heap
Unwound == heap \ {buffer[b] : b \in Bindings}

EngineGone ==
    /\ heap' = Unwound
    /\ buffer' = [b \in Bindings |-> NoBuffer]
    /\ UNCHANGED <<unbuilt, allocs, volume, address, batch>>

setInputShape(n) == IF Dynamic THEN n <= EngineBatch ELSE n = EngineBatch

FaultAddressKept == address
NewAddress == [address EXCEPT !["input"] = buffer'["input"]]

set_input_shape(n) ==
    /\ setInputShape(n)
    /\ batch' = n
    /\ volume' = [volume EXCEPT !["input"] = n]
    /\ Reset("input", n)
    /\ address' = NewAddress
    /\ UNCHANGED unbuilt

(* Out of memory on the way: the context keeps the address of a buffer     *)
(* that was freed.                                                         *)
set_input_shape_fails(n) ==
    /\ setInputShape(n)
    /\ batch' = n
    /\ volume' = [volume EXCEPT !["input"] = n]
    /\ ResetThrows("input")
    /\ UNCHANGED <<unbuilt, address>>

(* enqueueV3 refuses to run without a shape or an address, not with a      *)
(* stale one.                                                              *)
enqueueV3 == batch > 0 /\ \A b \in Bindings : address[b] # NoBuffer

Holds(b, n) == buffer[b][2] >= n
=============================================================================
