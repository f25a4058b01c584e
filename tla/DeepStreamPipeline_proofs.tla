--------------------- MODULE DeepStreamPipeline_proofs ----------------------
(***************************************************************************)
(* Proofs about DeepStreamPipeline, for any sets of sources and callers.   *)
(* SrcInv is the inductive invariant: CallInv says what the holder of      *)
(* sources_mutex_ knows, SlotInv what is true of an index before, while    *)
(* and after it belongs to a source.                                       *)
(***************************************************************************)
EXTENDS DeepStreamPipeline, PipelineLifecycle_proofs, FiniteSetTheorems

CallInv ==
    /\ \A c \in Callers : pc[c] # "idle" <=> mutex = c
    /\ \A c \in Callers : pc[c] # "idle" => arg[c] \in Ids /\ idx[c] \in Slots
    /\ \A c \in Callers : pc[c] = "drop" => sources[arg[c]] = idx[c]
    /\ \A c \in Callers : pc[c] \in AddAt =>
          /\ sources[arg[c]] = NoSlot
          /\ HasRoom
          /\ idx[c] < nextIndex
          /\ \A id \in Ids : sources[id] # idx[c]
    /\ owner \in {"djoin", "gone"} => mutex = None

SlotInv ==
    /\ \A id \in Ids : sources[id] < nextIndex
    /\ \A s \in Slots : s >= nextIndex => s \notin InPipe \cup pads \cup linked
    /\ \A c \in Callers : pc[c] \in AddAt => idx[c] \in InPipe
    /\ \A c \in Callers : pc[c] \in AddAt \ {"bin"} => idx[c] \in pads \cap linked
    /\ FreshPad

SrcInv == TypeOK /\ CallInv /\ SlotInv /\ RegistryCoherent

LEMMA TypeInit == Init => TypeOK
  <1> SUFFICES ASSUME Init PROVE TypeOK
    OBVIOUS
  <1>1. LifeTypeOK
    BY LifeInvInit DEF Init, LifeInv
  <1>2. QED
    BY <1>1, PipelineAssumption DEF PipelineAssumption, Init, TypeOK, AddAt

LEMMA TypeStep == LifeInv /\ TypeOK /\ CallInv /\ [Next]_vars => TypeOK'
  <1> SUFFICES ASSUME LifeInv, TypeOK, CallInv, [Next]_vars PROVE TypeOK'
    OBVIOUS
  <1>0. [LifeNext]_lifeVars
    BY DEF Next, vars, lifeVars, LifeStep, LifeNext, PlayPipeline, NullPipeline,
           DestroyBegin, DestroyEnd
  <1>1. LifeTypeOK'
    BY <1>0, LifeInvStep DEF LifeInv
  <1> USE DEF TypeOK, AddAt, calls, gst
  <1>2. CASE CallerStep /\ overtaken' = overtaken
    <2>0. overtaken' = overtaken
      BY <1>2
    <2> USE <2>0, PipelineAssumption DEF PipelineAssumption, Slots, NoSlot
    <2>1. ASSUME NEW c \in Callers, NEW id \in Ids, AddBin(c, id) \/ AddNoBin(c, id)
          PROVE  TypeOK'
      <3>1. nextIndex \in Slots /\ nextIndex' = nextIndex + 1
        BY <2>1 DEF AddBin, AddNoBin, Accepted
      <3>2. CASE AddBin(c, id)
        BY <1>1, <3>1, <3>2 DEF AddBin, Lock, NewIndex
      <3>3. CASE AddNoBin(c, id)
        BY <1>1, <3>1, <3>3 DEF AddNoBin
      <3>4. QED
        BY <2>1, <3>2, <3>3
    <2>2. ASSUME NEW c \in Callers, NEW id \in Ids, RemoveNull(c, id)
          PROVE  TypeOK'
      <3>1. sources[id] \in Slots
        BY <2>2 DEF RemoveNull
      <3>2. bins' \in [Slots -> {"absent", "null", "live"}]
        BY <2>2 DEF RemoveNull
      <3>3. QED
        BY <1>1, <2>2, <3>1, <3>2 DEF RemoveNull, Lock
    <2>3. ASSUME NEW c \in Callers, AddLink(c) \/ AddLinkFails(c)
          PROVE  TypeOK'
      <3>1. idx[c] \in Slots
        BY <2>3 DEF AddLink, AddLinkFails, At, CallInv
      <3>2. QED
        BY <1>1, <2>3, <3>1 DEF AddLink, AddLinkFails, Goto, Return
    <2>4. ASSUME NEW c \in Callers, AddCheck(c)
          PROVE  TypeOK'
      BY <1>1, <2>4 DEF AddCheck, StepAfterLink, Goto
    <2>5. ASSUME NEW c \in Callers, AddSyncRead(c)
          PROVE  TypeOK'
      BY <1>1, <2>5 DEF AddSyncRead, Goto
    <2>6. ASSUME NEW c \in Callers, AddSyncApply(c)
          PROVE  TypeOK'
      BY <1>1, <2>6 DEF AddSyncApply, Goto
    <2>7. ASSUME NEW c \in Callers, AddCommit(c) \/ RemoveDrop(c)
          PROVE  TypeOK'
      BY <1>1, <2>7 DEF AddCommit, RemoveDrop, Erased, Return
    <2>8. QED
      BY <1>2, <2>1, <2>2, <2>3, <2>4, <2>5, <2>6, <2>7 DEF CallerStep
  <1>3. CASE PlayPipeline \/ NullPipeline
    <2>1. overtaken' \in SUBSET Slots
      BY <1>3 DEF PlayPipeline, NullPipeline, Syncing, CallInv
    <2>2. QED
      BY <1>1, <1>3, <2>1 DEF PlayPipeline, NullPipeline, InPipe
  <1>4. CASE DestroyEnd
    BY <1>1, <1>4 DEF DestroyEnd
  <1>5. CASE UNCHANGED srcVars
    BY <1>1, <1>5 DEF srcVars
  <1>6. QED
    BY <1>2, <1>3, <1>4, <1>5 DEF Next, LifeStep, DestroyBegin, vars

-----------------------------------------------------------------------------
LEMMA SrcInit == Init => CallInv /\ SlotInv /\ RegistryCoherent
  BY PipelineAssumption
     DEF PipelineAssumption, Init, LifeInit, CallInv, SlotInv, RegistryCoherent,
         FreshPad, Registered, InPipe, AddAt, NoSlot, Slots

(* Steps that move a bin between "null" and "live" leave it in the pipeline. *)
LEMMA InPipeKept ==
    ASSUME TypeOK, SlotInv,
           \/ \E c \in Callers : AddSyncApply(c)
           \/ \E c \in Callers, id \in Ids : RemoveNull(c, id)
           \/ PlayPipeline \/ NullPipeline
    PROVE  InPipe' = InPipe
  <1> USE DEF TypeOK, InPipe
  <1>1. ASSUME NEW c \in Callers, AddSyncApply(c) PROVE InPipe' = InPipe
    BY <1>1 DEF AddSyncApply, SlotInv, At, AddAt
  <1>2. ASSUME NEW c \in Callers, NEW id \in Ids, RemoveNull(c, id)
        PROVE  InPipe' = InPipe
    BY <1>2 DEF RemoveNull
  <1>3. CASE PlayPipeline
    BY <1>3 DEF PlayPipeline
  <1>4. CASE NullPipeline
    BY <1>4 DEF NullPipeline
  <1>5. QED
    BY <1>1, <1>2, <1>3, <1>4

(* What a lifecycle step leaves alone, and that no call is under way once  *)
(* the destructor has begun.                                               *)
LEMMA LifeStepKeeps ==
    ASSUME TypeOK, CallInv,
           LifeStep \/ PlayPipeline \/ NullPipeline \/ DestroyBegin
    PROVE  /\ UNCHANGED <<sources, nextIndex, calls, pads, linked>>
           /\ owner' \in {"djoin", "gone"} => mutex = None
  <1>1. CASE LifeStep
    BY <1>1 DEF LifeStep, QuietStep, OwnerStep, StopStep, LoopStep, srcVars, gst,
                StartEnter, StartNewLoop, StartSpawn, StartTerminate, StartThrows, StopEnter,
                StopQuit, StopUnref, WaitEnter, WaitJoin, ThreadLoad, ThreadEnter,
                ThreadArm, ThreadExit, CallInv
  <1>2. CASE PlayPipeline \/ NullPipeline
    BY <1>2 DEF PlayPipeline, NullPipeline, ThreadPlay, ThreadNull, CallInv
  <1>3. CASE DestroyBegin
    BY <1>3 DEF DestroyBegin, srcVars, gst
  <1>4. QED
    BY <1>1, <1>2, <1>3

LEMMA RoomKept == ASSUME sources' = sources PROVE HasRoom' = HasRoom
  BY DEF HasRoom, Registered

LEMMA CallStep == SrcInv /\ [Next]_vars => CallInv'
  <1> SUFFICES ASSUME SrcInv, [Next]_vars PROVE CallInv'
    OBVIOUS
  <1> USE PipelineAssumption, RoomKept
      DEF PipelineAssumption, SrcInv, TypeOK, CallInv, AddAt, Slots, NoSlot
  <1>1. ASSUME NEW c \in Callers, NEW id \in Ids, AddBin(c, id), UNCHANGED lifeVars
        PROVE  CallInv'
    <2>1. /\ sources' = sources /\ HasRoom /\ sources[id] = NoSlot
          /\ nextIndex \in Slots /\ nextIndex' = nextIndex + 1 /\ mutex' = c
          /\ \A d \in Callers : pc[d] = "idle"
          /\ pc' = [pc EXCEPT ![c] = "bin"]
          /\ arg' = [arg EXCEPT ![c] = id]
          /\ idx' = [idx EXCEPT ![c] = nextIndex]
          /\ owner' = owner /\ owner \notin {"djoin", "gone"}
      BY <1>1 DEF AddBin, Call, Lock, Accepted, NewIndex, lifeVars, Alive
    <2>2. \A i \in Ids : sources[i] # nextIndex
      BY DEF SlotInv
    <2>3. QED
      BY <2>1, <2>2
  <1>2. ASSUME NEW c \in Callers, NEW id \in Ids, AddNoBin(c, id), UNCHANGED lifeVars
        PROVE  CallInv'
    BY <1>2 DEF AddNoBin, Call, Accepted, calls, lifeVars
  <1>3. ASSUME NEW c \in Callers, NEW id \in Ids, RemoveNull(c, id), UNCHANGED lifeVars
        PROVE  CallInv'
    <2>1. /\ sources' = sources /\ sources[id] \in Slots /\ mutex' = c
          /\ \A d \in Callers : pc[d] = "idle"
          /\ pc' = [pc EXCEPT ![c] = "drop"]
          /\ arg' = [arg EXCEPT ![c] = id]
          /\ idx' = [idx EXCEPT ![c] = sources[id]]
          /\ owner' = owner /\ owner \notin {"djoin", "gone"}
      BY <1>3 DEF RemoveNull, Call, Lock, lifeVars, Alive
    <2>2. QED
      BY <2>1
  <1>4. ASSUME NEW c \in Callers, UNCHANGED lifeVars,
               AddLink(c) \/ AddCheck(c) \/ AddSyncRead(c) \/ AddSyncApply(c)
        PROVE  CallInv'
    <2>1. /\ sources' = sources /\ nextIndex' = nextIndex /\ mutex' = mutex
          /\ arg' = arg /\ idx' = idx /\ owner' = owner
          /\ pc[c] \in AddAt
          /\ \E step \in AddAt : pc' = [pc EXCEPT ![c] = step]
      BY <1>4 DEF AddLink, AddCheck, AddSyncRead, AddSyncApply,
                  StepAfterLink, At, Goto, lifeVars
    <2>2. QED
      BY <2>1
  <1>5. ASSUME NEW c \in Callers, UNCHANGED lifeVars,
               AddLinkFails(c) \/ AddCommit(c) \/ RemoveDrop(c)
        PROVE  CallInv'
    <2>1. /\ pc[c] # "idle" /\ mutex' = None /\ owner' = owner
          /\ pc' = [pc EXCEPT ![c] = "idle"]
      BY <1>5 DEF AddLinkFails, AddCommit, RemoveDrop, At, Return, lifeVars
    <2>2. \A d \in Callers : pc'[d] = "idle"
      BY <2>1
    <2>3. QED
      BY <2>1, <2>2
  <1>6. CASE LifeStep \/ PlayPipeline \/ NullPipeline \/ DestroyBegin
    <2>1. /\ sources' = sources /\ nextIndex' = nextIndex /\ mutex' = mutex
          /\ pc' = pc /\ arg' = arg /\ idx' = idx
          /\ owner' \in {"djoin", "gone"} => mutex = None
      BY <1>6, LifeStepKeeps DEF calls
    <2>2. QED
      BY <2>1
  <1>7. CASE DestroyEnd
    <2>1. mutex = None /\ mutex' = None /\ pc' = pc /\ \A d \in Callers : pc[d] = "idle"
      BY <1>7 DEF DestroyEnd, DestroyJoin, calls
    <2>2. QED
      BY <2>1
  <1>8. CASE UNCHANGED vars
    BY <1>8 DEF vars, lifeVars, srcVars, calls
  <1>9. QED
    BY <1>1, <1>2, <1>3, <1>4, <1>5, <1>6, <1>7, <1>8 DEF Next, CallerStep

LEMMA SlotStep == SrcInv /\ [Next]_vars => (SlotInv /\ RegistryCoherent)'
  <1> SUFFICES ASSUME SrcInv, [Next]_vars PROVE (SlotInv /\ RegistryCoherent)'
    OBVIOUS
  <1> USE PipelineAssumption
      DEF PipelineAssumption, SrcInv, TypeOK, AddAt, Slots, NoSlot
  <1>1. ASSUME NEW c \in Callers, NEW id \in Ids, AddBin(c, id)
        PROVE  (SlotInv /\ RegistryCoherent)'
    <2>1. /\ sources' = sources /\ pads' = pads /\ linked' = linked
          /\ nextIndex \in Slots /\ nextIndex' = nextIndex + 1
          /\ \A d \in Callers : pc[d] = "idle"
          /\ pc' = [pc EXCEPT ![c] = "bin"]
          /\ idx' = [idx EXCEPT ![c] = nextIndex]
      BY <1>1 DEF AddBin, Call, Lock, Accepted, NewIndex, CallInv
    <2>2. InPipe' = InPipe \cup {nextIndex}
      BY <1>1, <2>1 DEF AddBin, NewIndex, InPipe
    <2>3. nextIndex \notin pads
      BY <2>1 DEF SlotInv
    <2>4. QED
      BY <2>1, <2>2, <2>3 DEF SlotInv, RegistryCoherent, Registered, FreshPad
  <1>2. ASSUME NEW c \in Callers, NEW id \in Ids, AddNoBin(c, id)
        PROVE  (SlotInv /\ RegistryCoherent)'
    BY <1>2 DEF AddNoBin, calls, gst, SlotInv, RegistryCoherent, Registered, FreshPad, InPipe
  <1>3. ASSUME NEW c \in Callers, NEW id \in Ids, RemoveNull(c, id)
        PROVE  (SlotInv /\ RegistryCoherent)'
    <2>1. InPipe' = InPipe
      BY <1>3, InPipeKept
    <2>2. /\ sources' = sources /\ nextIndex' = nextIndex
          /\ pads' = pads /\ linked' = linked
          /\ \A d \in Callers : pc'[d] \notin AddAt
      BY <1>3 DEF RemoveNull, Call, Lock, CallInv
    <2>3. QED
      BY <2>1, <2>2 DEF SlotInv, RegistryCoherent, Registered, FreshPad
  <1>4. ASSUME NEW c \in Callers, AddLink(c)
        PROVE  (SlotInv /\ RegistryCoherent)'
    <2>1. /\ sources' = sources /\ nextIndex' = nextIndex /\ bins' = bins /\ idx' = idx
          /\ pads' = pads \cup {idx[c]} /\ linked' = linked \cup {idx[c]}
          /\ pc' = [pc EXCEPT ![c] = "linked"] /\ pc[c] = "bin"
      BY <1>4 DEF AddLink, At, Goto
    <2>2. idx[c] < nextIndex /\ \A d \in Callers : pc'[d] # "bin"
      BY <2>1 DEF CallInv
    <2>3. QED
      BY <2>1, <2>2 DEF SlotInv, RegistryCoherent, Registered, FreshPad, InPipe
  <1>5. ASSUME NEW c \in Callers, AddLinkFails(c)
        PROVE  (SlotInv /\ RegistryCoherent)'
    <2>1. /\ sources' = sources /\ nextIndex' = nextIndex /\ bins' = bins
          /\ linked' = linked /\ pads' \in {pads, pads \cup {idx[c]}} /\ pc[c] = "bin"
      BY <1>5 DEF AddLinkFails, At
    <2>2. idx[c] < nextIndex /\ \A d \in Callers : pc'[d] = "idle"
      BY <1>5, <2>1 DEF AddLinkFails, Return, CallInv
    <2>3. QED
      BY <2>1, <2>2 DEF SlotInv, RegistryCoherent, Registered, FreshPad, InPipe
  <1>6. ASSUME NEW c \in Callers, AddCheck(c) \/ AddSyncRead(c) \/ AddSyncApply(c)
        PROVE  (SlotInv /\ RegistryCoherent)'
    <2>1. /\ sources' = sources /\ nextIndex' = nextIndex /\ pads' = pads
          /\ linked' = linked /\ idx' = idx
          /\ pc[c] \in AddAt \ {"bin"}
          /\ \E step \in AddAt \ {"bin"} : pc' = [pc EXCEPT ![c] = step]
      BY <1>6 DEF AddCheck, AddSyncRead, AddSyncApply, StepAfterLink,
                  At, Goto, gst
    <2>2. InPipe' = InPipe
      <3>1. CASE AddCheck(c) \/ AddSyncRead(c)
        BY <3>1 DEF AddCheck, AddSyncRead, gst, InPipe
      <3>2. QED
        BY <1>6, <3>1, InPipeKept
    <2>3. QED
      BY <2>1, <2>2 DEF SlotInv, RegistryCoherent, Registered, FreshPad
  <1>7. ASSUME NEW c \in Callers, AddCommit(c)
        PROVE  (SlotInv /\ RegistryCoherent)'
    <2>1. /\ sources' = [sources EXCEPT ![arg[c]] = idx[c]]
          /\ nextIndex' = nextIndex /\ bins' = bins /\ pads' = pads /\ linked' = linked
          /\ arg[c] \in Ids /\ idx[c] \in Slots /\ idx[c] < nextIndex
          /\ idx[c] \in InPipe \cap pads \cap linked
          /\ \A id \in Ids : sources[id] # idx[c]
      BY <1>7 DEF AddCommit, At, CallInv, SlotInv, gst
    <2>2. \A d \in Callers : pc'[d] = "idle"
      BY <1>7 DEF AddCommit, At, Return, CallInv
    <2>3. QED
      BY <2>1, <2>2 DEF SlotInv, RegistryCoherent, Registered, FreshPad, InPipe
  <1>8. ASSUME NEW c \in Callers, RemoveDrop(c)
        PROVE  (SlotInv /\ RegistryCoherent)'
    <2>1. /\ sources' = [sources EXCEPT ![arg[c]] = NoSlot]
          /\ nextIndex' = nextIndex /\ pads' = pads /\ linked' = linked \ {idx[c]}
          /\ arg[c] \in Ids /\ sources[arg[c]] = idx[c] /\ idx[c] \in Slots
      BY <1>8 DEF RemoveDrop, At, CallInv, Erased
    <2>2. InPipe' = InPipe \ {idx[c]}
      BY <1>8, <2>1 DEF RemoveDrop, InPipe
    <2>3. \A d \in Callers : pc'[d] = "idle"
      BY <1>8 DEF RemoveDrop, At, Return, CallInv
    <2>4. QED
      BY <2>1, <2>2, <2>3 DEF SlotInv, RegistryCoherent, Registered, FreshPad
  <1>9. CASE LifeStep \/ PlayPipeline \/ NullPipeline \/ DestroyBegin
    <2>1. InPipe' = InPipe
      <3>1. CASE LifeStep \/ DestroyBegin
        BY <3>1 DEF LifeStep, DestroyBegin, srcVars, gst, InPipe
      <3>2. QED
        BY <1>9, <3>1, InPipeKept
    <2>2. QED
      BY <1>9, <2>1, LifeStepKeeps
         DEF SrcInv, calls, SlotInv, RegistryCoherent, Registered, FreshPad
  <1>10. CASE DestroyEnd
    <2>1. \A d \in Callers : pc'[d] = "idle"
      BY <1>10 DEF DestroyEnd, DestroyJoin, calls, CallInv
    <2>2. QED
      BY <1>10, <2>1
         DEF DestroyEnd, SlotInv, RegistryCoherent, Registered, FreshPad, InPipe
  <1>11. CASE UNCHANGED vars
    BY <1>11 DEF vars, srcVars, calls, gst, SlotInv, RegistryCoherent, Registered,
                 FreshPad, InPipe
  <1>12. QED
    BY <1>1, <1>2, <1>3, <1>4, <1>5, <1>6, <1>7, <1>8, <1>9, <1>10, <1>11
       DEF Next, CallerStep

LEMMA RegisteredChange ==
    ASSUME SrcInv, [Next]_vars, sources' # sources
    PROVE  \/ \E c \in Callers :
              /\ pc[c] \in AddAt /\ arg[c] \in Ids /\ idx[c] \in Slots
              /\ sources' = [sources EXCEPT ![arg[c]] = idx[c]]
           \/ Registered' \subseteq Registered
  <1> USE DEF SrcInv, TypeOK, NoSlot, Slots
  <1>1. ASSUME NEW c \in Callers, AddCommit(c)
        PROVE  /\ pc[c] \in AddAt /\ arg[c] \in Ids /\ idx[c] \in Slots
               /\ sources' = [sources EXCEPT ![arg[c]] = idx[c]]
    BY <1>1 DEF AddCommit, At, AddAt, CallInv
  <1>2. ASSUME NEW c \in Callers, RemoveDrop(c)
        PROVE  Registered' \subseteq Registered
    BY <1>2 DEF RemoveDrop, Erased, Registered
  <1>3. CASE DestroyEnd
    BY <1>3 DEF DestroyEnd, Registered
  <1>4. CASE LifeStep \/ PlayPipeline \/ NullPipeline \/ DestroyBegin
    BY <1>4, LifeStepKeeps
  <1>5. QED
    BY <1>1, <1>2, <1>3, <1>4
       DEF Next, CallerStep, AddBin, AddNoBin, RemoveNull, AddLink, AddLinkFails,
           AddCheck, AddSyncRead, AddSyncApply, vars, srcVars

LEMMA CapacityStep == SrcInv /\ CapacityBound /\ [Next]_vars => CapacityBound'
  <1> SUFFICES ASSUME SrcInv, CapacityBound, [Next]_vars PROVE CapacityBound'
    OBVIOUS
  <1>1. IsFiniteSet(Registered) /\ Cardinality(Registered) \in Nat
    BY PipelineAssumption, FS_Subset, FS_CardinalityType DEF PipelineAssumption, Registered
  <1>2. CASE sources' = sources
    BY <1>2 DEF CapacityBound, Registered
  <1>3. CASE Registered' \subseteq Registered
    BY <1>1, <1>3, FS_Subset, FS_CardinalityType, PipelineAssumption
       DEF PipelineAssumption, CapacityBound
  <1>4. ASSUME NEW c \in Callers, pc[c] \in AddAt, arg[c] \in Ids, idx[c] \in Slots,
               sources' = [sources EXCEPT ![arg[c]] = idx[c]]
        PROVE  CapacityBound'
    <2>1. Registered' = Registered \cup {arg[c]} /\ arg[c] \notin Registered
      BY <1>4 DEF Registered, SrcInv, TypeOK, CallInv, NoSlot, Slots
    <2>2. Cardinality(Registered') = Cardinality(Registered) + 1
      BY <1>1, <2>1, FS_AddElement
    <2>3. Cardinality(Registered) < MaxStreams
      BY <1>4 DEF SrcInv, CallInv, HasRoom
    <2>4. QED
      BY <1>1, <2>2, <2>3, PipelineAssumption DEF PipelineAssumption, CapacityBound
  <1>5. QED
    BY <1>2, <1>3, <1>4, RegisteredChange

-----------------------------------------------------------------------------
LEMMA PipelineTakesLifeSteps == [Next]_vars => [LifeNext]_lifeVars
  BY DEF Next, vars, lifeVars, LifeStep, LifeNext, PlayPipeline, NullPipeline,
         DestroyBegin, DestroyEnd

(* With cameras coming and going, the pipeline still behaves as its        *)
(* lifecycle alone may, fairness included: what holds of every start, stop *)
(* and wait there holds here (lines 24-32, 156-184).                       *)
THEOREM CamerasKeepLifecycle == FairSpec => LifeSpec
  <1>1. Init => LifeInit
    BY DEF Init
  <1>2. QED
    BY <1>1, PipelineTakesLifeSteps, PTL DEF FairSpec, Spec, LifeSpec

LEMMA SourcesInvariant == Spec => [](LifeInv /\ SrcInv /\ CapacityBound)
  <1>1. Init => LifeInv
    BY LifeInvInit DEF Init
  <1>2. Init => SrcInv
    BY TypeInit, SrcInit DEF SrcInv
  <1>3. Init => CapacityBound
    <2> SUFFICES ASSUME Init PROVE CapacityBound
      OBVIOUS
    <2>1. Registered = {}
      BY DEF Init, Registered
    <2>2. QED
      BY <2>1, FS_EmptySet, PipelineAssumption DEF PipelineAssumption, CapacityBound
  <1>4. LifeInv /\ SrcInv /\ CapacityBound /\ [Next]_vars
          => (LifeInv /\ SrcInv /\ CapacityBound)'
    BY PipelineTakesLifeSteps, LifeInvStep, TypeStep, CallStep, SlotStep, CapacityStep DEF SrcInv
  <1>6. QED
    BY <1>1, <1>2, <1>3, <1>4, PTL DEF Spec

(* Every variable keeps its type, for any number of sources, callers,      *)
(* indices and restarts (deepstream_pipeline.cpp lines 24-32, 90-184).     *)
THEOREM PipelineTyped == Spec => []TypeOK
  BY SourcesInvariant, PTL DEF SrcInv

(* Every attached camera has an index, a bin in the pipeline and a linked  *)
(* muxer pad of its own (lines 101-133).                                   *)
THEOREM RegistryIsCoherent == Spec => []RegistryCoherent
  BY SourcesInvariant, PTL DEF SrcInv

(* No muxer pad is requested a second time, though none is ever released:  *)
(* an index counts as used even when its call failed (lines 101, 116-125). *)
THEOREM PadsAreFresh == Spec => []FreshPad
  BY SourcesInvariant, PTL DEF SrcInv, SlotInv

(* No interleaving of add_source calls exceeds max_streams (line 92).      *)
THEOREM CapacityHolds == Spec => []CapacityBound
  BY SourcesInvariant, PTL

-----------------------------------------------------------------------------
(* The states of the bins.  ServeInv says which are live in a serving      *)
(* pipeline: those of the attached sources, unless a caller is dropping    *)
(* one, and the one about to be attached; StillInv which may be live in a  *)
(* pipeline that is in NULL.  Both except what the loop thread overtook.   *)

ServeInv ==
    Serving =>
        /\ \A id \in Registered :
              \/ bins[sources[id]] = "live"
              \/ sources[id] \in overtaken
              \/ \E c \in Callers : pc[c] = "drop" /\ arg[c] = id
        /\ \A c \in Callers : pc[c] = "commit" => bins[idx[c]] = "live" \/ idx[c] \in overtaken
        /\ \A c \in Callers : pc[c] = "goNull" => idx[c] \in overtaken

StillInv ==
    /\ pipe = "null" =>
          /\ \A s \in Slots : bins[s] = "live" => s \in overtaken
          /\ \A c \in Callers : pc[c] = "goLive" => idx[c] \in overtaken
    /\ \A s, t \in overtaken : s = t

PlayInv == StillInv /\ ServeInv

(* Only the loop thread makes a pipeline serve: a start() that gets as far *)
(* as a new thread finds the pipeline in NULL.                             *)
LEMMA ServingOnlyByPlay ==
    ASSUME LifeInv, LifeStep \/ DestroyBegin
    PROVE  pipe' = pipe /\ (Serving' => Serving)
  <1> USE DEF LifeInv, LifeTypeOK, Serving
  <1>1. CASE StartEnter \/ StopEnter \/ WaitEnter \/ DestroyBegin
    BY <1>1 DEF StartEnter, StopEnter, WaitEnter, DestroyBegin, DestroyEnter
  <1>2. CASE OwnerStep
    BY <1>2 DEF OwnerStep, StartNewLoop, StartSpawn, StartTerminate, StartThrows, WaitJoin, PipeInv
  <1>3. CASE StopStep \/ LoopStep
    BY <1>3 DEF StopStep, StopQuit, StopUnref, LoopStep, ThreadLoad, ThreadEnter,
                ThreadArm, ThreadExit
  <1>4. QED
    BY <1>1, <1>2, <1>3 DEF LifeStep, QuietStep

(* Only the holder of the mutex is ever syncing a bin. *)
LEMMA OneSyncing ==
    ASSUME SrcInv
    PROVE  /\ \A c \in Callers : pc[c] \in {"goNull", "goLive"} => idx[c] \in Syncing
           /\ \A s, t \in Syncing : s = t
  BY PipelineAssumption DEF PipelineAssumption, SrcInv, CallInv, Syncing

LEMMA PlayStep ==
    ASSUME LifeInv, SrcInv, PlayInv, [Next]_vars
    PROVE  PlayInv'
  <1> USE PipelineAssumption
      DEF PipelineAssumption, SrcInv, TypeOK, PlayInv, AddAt, Slots, NoSlot,
          StillInv, ServeInv, Registered
  <1>1. ASSUME NEW c \in Callers, NEW id \in Ids, AddBin(c, id), UNCHANGED <<lifeVars, overtaken>>
        PROVE  PlayInv'
    <2>1. /\ sources' = sources /\ pipe' = pipe /\ Serving' = Serving /\ overtaken' = overtaken
          /\ nextIndex \in Slots /\ bins' = [bins EXCEPT ![nextIndex] = "null"]
          /\ \A d \in Callers : pc[d] = "idle"
          /\ pc' = [pc EXCEPT ![c] = "bin"]
      BY <1>1 DEF AddBin, Call, Lock, Accepted, NewIndex, lifeVars, Serving, CallInv
    <2>2. \A i \in Ids : sources[i] # nextIndex
      BY <2>1 DEF SlotInv
    <2>3. QED
      BY <2>1, <2>2
  <1>2. ASSUME NEW c \in Callers, NEW id \in Ids, AddNoBin(c, id), UNCHANGED <<lifeVars, overtaken>>
        PROVE  PlayInv'
    BY <1>2 DEF AddNoBin, calls, gst, lifeVars, Serving
  <1>3. ASSUME NEW c \in Callers, NEW id \in Ids, RemoveNull(c, id), UNCHANGED <<lifeVars, overtaken>>
        PROVE  PlayInv'
    <2>1. /\ sources' = sources /\ pipe' = pipe /\ Serving' = Serving /\ overtaken' = overtaken
          /\ sources[id] \in Slots
          /\ pc' = [pc EXCEPT ![c] = "drop"] /\ arg' = [arg EXCEPT ![c] = id]
          /\ \A d \in Callers : pc[d] = "idle"
      BY <1>3 DEF RemoveNull, Call, Lock, lifeVars, Serving, CallInv
    <2>2. \A s \in Slots : bins'[s] = bins[s] \/ (s = sources[id] /\ bins'[s] = "null")
      BY <1>3 DEF RemoveNull
    <2>3. \A i \in Registered : i # id => sources[i] # sources[id]
      BY <2>1 DEF RegistryCoherent
    <2>4. QED
      BY <2>1, <2>2, <2>3
  <1>4. ASSUME NEW c \in Callers, AddLink(c) \/ AddCheck(c), UNCHANGED <<lifeVars, overtaken>>
        PROVE  PlayInv'
    <2>1. /\ sources' = sources /\ bins' = bins /\ idx' = idx /\ arg' = arg
          /\ pipe' = pipe /\ Serving' = Serving /\ overtaken' = overtaken /\ pc[c] \in {"bin", "linked"}
          /\ \/ pc' = [pc EXCEPT ![c] = "linked"]
             \/ pc' = [pc EXCEPT ![c] = "sync"]
             \/ ~running /\ pc' = [pc EXCEPT ![c] = "commit"]
      BY <1>4 DEF AddLink, AddCheck, StepAfterLink, At, Goto, gst, lifeVars, Serving
    <2>2. QED
      BY <2>1 DEF Serving
  <1>5. ASSUME NEW c \in Callers, AddSyncRead(c), UNCHANGED <<lifeVars, overtaken>>
        PROVE  PlayInv'
    <2>1. /\ sources' = sources /\ bins' = bins /\ idx' = idx /\ arg' = arg
          /\ pipe' = pipe /\ Serving' = Serving /\ overtaken' = overtaken /\ pc[c] = "sync"
          /\ \/ pipe # "live" /\ pc' = [pc EXCEPT ![c] = "goNull"]
             \/ pipe # "null" /\ pc' = [pc EXCEPT ![c] = "goLive"]
      BY <1>5 DEF AddSyncRead, StateForBin, ParentState, At, Goto, gst, lifeVars, Serving
    <2>2. QED
      BY <1>5, <2>1 DEF Serving
  <1>6. ASSUME NEW c \in Callers, AddSyncApply(c), UNCHANGED <<lifeVars, overtaken>>
        PROVE  PlayInv'
    <2>1. /\ sources' = sources /\ idx' = idx /\ arg' = arg
          /\ pipe' = pipe /\ Serving' = Serving /\ overtaken' = overtaken
          /\ pc' = [pc EXCEPT ![c] = "commit"] /\ idx[c] \in Slots
          /\ \/ pc[c] = "goNull" /\ bins' = [bins EXCEPT ![idx[c]] = "null"]
             \/ pc[c] = "goLive" /\ bins' = [bins EXCEPT ![idx[c]] = "live"]
          /\ \A id \in Ids : sources[id] # idx[c]
          /\ \A d \in Callers : d # c => pc[d] = "idle"
      BY <1>6 DEF AddSyncApply, At, Goto, lifeVars, Serving, CallInv
    <2>2. QED
      BY <1>6, <2>1
  <1>7. ASSUME NEW c \in Callers, AddLinkFails(c), UNCHANGED <<lifeVars, overtaken>>
        PROVE  PlayInv'
    <2>1. /\ sources' = sources /\ bins' = bins /\ pipe' = pipe /\ Serving' = Serving /\ overtaken' = overtaken
          /\ \A d \in Callers : pc[d] # "drop" /\ pc'[d] = "idle"
      BY <1>7 DEF AddLinkFails, At, Return, lifeVars, Serving, CallInv
    <2>2. QED
      BY <2>1
  <1>8. ASSUME NEW c \in Callers, AddCommit(c), UNCHANGED <<lifeVars, overtaken>>
        PROVE  PlayInv'
    <2>1. /\ sources' = [sources EXCEPT ![arg[c]] = idx[c]] /\ arg[c] \in Ids
          /\ bins' = bins /\ pipe' = pipe /\ Serving' = Serving /\ overtaken' = overtaken /\ pc[c] = "commit"
          /\ \A d \in Callers : pc[d] # "drop" /\ pc'[d] = "idle"
      BY <1>8 DEF AddCommit, At, Return, lifeVars, Serving, CallInv, gst
    <2>2. QED
      BY <2>1
  <1>9. ASSUME NEW c \in Callers, RemoveDrop(c), UNCHANGED <<lifeVars, overtaken>>
        PROVE  PlayInv'
    <2>1. /\ sources' = [sources EXCEPT ![arg[c]] = NoSlot] /\ arg[c] \in Ids
          /\ sources[arg[c]] = idx[c] /\ idx[c] \in Slots
          /\ pipe' = pipe /\ Serving' = Serving /\ overtaken' = overtaken /\ pc[c] = "drop"
          /\ \A d \in Callers : (d # c => pc[d] = "idle") /\ pc'[d] = "idle"
      BY <1>9 DEF RemoveDrop, At, Return, lifeVars, Serving, CallInv, Erased
    <2>2. \A s \in Slots : bins'[s] = bins[s] \/ (s = idx[c] /\ bins'[s] # "live")
      BY <1>9 DEF RemoveDrop
    <2>3. \A i \in Registered : i # arg[c] => sources[i] # idx[c]
      BY <2>1 DEF RegistryCoherent
    <2>4. StillInv'
      BY <2>1, <2>2
    <2>5. ASSUME NEW i \in Registered', Serving
          PROVE  bins'[sources'[i]] = "live" \/ sources'[i] \in overtaken
      <3>1. i \in Ids /\ i # arg[c] /\ i \in Registered /\ sources'[i] = sources[i]
        BY <2>1, <2>5
      <3>2. bins[sources[i]] = "live" \/ sources[i] \in overtaken
        BY <2>1, <2>5, <3>1
      <3>3. sources[i] \in Slots /\ sources[i] # idx[c]
        BY <2>3, <3>1
      <3>4. QED
        BY <2>2, <3>1, <3>2, <3>3
    <2>6. ServeInv'
      BY <2>1, <2>5
    <2>7. QED
      BY <2>4, <2>6
  <1>10. CASE LifeStep \/ DestroyBegin
    BY <1>10, ServingOnlyByPlay DEF LifeStep, DestroyBegin, srcVars, calls, gst
  <1>11. CASE PlayPipeline
    <2>1. /\ sources' = sources /\ pc' = pc /\ idx' = idx /\ arg' = arg /\ pipe' # "null"
          /\ overtaken' = Syncing
      BY <1>11 DEF PlayPipeline, ThreadPlay, calls
    <2>2. pipe' = "live" => \A s \in InPipe : bins'[s] = "live"
      BY <1>11 DEF PlayPipeline, InPipe
    <2>3. (\A id \in Registered : sources[id] \in InPipe)
          /\ (\A c \in Callers : pc[c] = "commit" => idx[c] \in InPipe)
      BY DEF RegistryCoherent, SlotInv
    <2>4. /\ \A c \in Callers : pc[c] \in {"goNull", "goLive"} => idx[c] \in Syncing
          /\ \A s, t \in Syncing : s = t
      BY OneSyncing
    <2>5. QED
      BY <2>1, <2>2, <2>3, <2>4 DEF Serving
  <1>12. CASE NullPipeline
    <2>1. /\ pipe' = "null" /\ pc' = pc /\ idx' = idx /\ overtaken' = Syncing
          /\ \A s \in Slots : bins'[s] # "live"
      BY <1>12 DEF NullPipeline, ThreadNull, InPipe, calls
    <2>2. /\ \A c \in Callers : pc[c] \in {"goNull", "goLive"} => idx[c] \in Syncing
          /\ \A s, t \in Syncing : s = t
      BY OneSyncing
    <2>3. QED
      BY <2>1, <2>2 DEF Serving
  <1>13. CASE DestroyEnd
    <2>1. /\ pipe' = "null" /\ overtaken' = {} /\ \A s \in Slots : bins'[s] # "live"
          /\ \A c \in Callers : pc'[c] = "idle"
      BY <1>13 DEF DestroyEnd, DestroyJoin, InPipe, calls, CallInv
    <2>2. QED
      BY <2>1 DEF Serving
  <1>14. CASE UNCHANGED vars
    <2>1. /\ sources' = sources /\ pc' = pc /\ idx' = idx /\ arg' = arg /\ bins' = bins
          /\ pipe' = pipe /\ Serving' = Serving /\ overtaken' = overtaken
      BY <1>14 DEF vars, lifeVars, srcVars, calls, gst, Serving
    <2>2. QED
      BY <2>1
  <1>15. QED
    BY <1>1, <1>2, <1>3, <1>4, <1>5, <1>6, <1>7, <1>8, <1>9, <1>10, <1>11, <1>12,
       <1>13, <1>14
       DEF Next, CallerStep

LEMMA PlayInvariant == Spec => []PlayInv
  <1>1. Init => PlayInv
    BY PipelineAssumption
       DEF PipelineAssumption, Init, LifeInit, PlayInv, StillInv, ServeInv, Serving, Slots
  <1>2. LifeInv /\ SrcInv /\ PlayInv /\ [Next]_vars => PlayInv'
    BY PlayStep
  <1>3. QED
    BY <1>1, <1>2, SourcesInvariant, PTL DEF Spec

(* Attached cameras play while the pipeline serves, whether add_source ran *)
(* before, during or after start(), but for one whose bin was being synced *)
(* when the loop thread set the pipeline's state (lines 130-132, 162).     *)
THEOREM SourcesPlayBut == Spec => []SourcesPlayUnlessOvertaken
  <1>1. SrcInv /\ PlayInv => SourcesPlayUnlessOvertaken
    <2> SUFFICES ASSUME SrcInv, PlayInv, Serving, mutex = None,
                        NEW id \in Registered
                 PROVE  bins[sources[id]] = "live" \/ sources[id] \in overtaken
      BY DEF SourcesPlayUnlessOvertaken
    <2>1. \A c \in Callers : pc[c] # "drop"
      BY PipelineAssumption DEF PipelineAssumption, SrcInv, CallInv
    <2>2. QED
      BY <2>1 DEF PlayInv, ServeInv
  <1>2. QED
    BY <1>1, SourcesInvariant, PlayInvariant, PTL

(* In a pipeline that is in NULL no bin streams but that same one, and     *)
(* there is at most one (lines 91, 130-131, 164).                          *)
THEOREM PipelineQuietBut == Spec => []QuietUnlessOvertaken
  <1>1. PlayInv => QuietUnlessOvertaken
    BY DEF PlayInv, StillInv, QuietUnlessOvertaken
  <1>2. QED
    BY <1>1, PlayInvariant, PTL

-----------------------------------------------------------------------------
(* The refinement: the abstract state is the map of sources and the        *)
(* indices that are given out for good.                                    *)

Used == {s \in Slots : s < nextIndex} \ InFlight

LEMMA InFlightIs ==
    ASSUME TypeOK, CallInv
    PROVE  /\ mutex = None => InFlight = {}
           /\ \A c \in Callers : pc[c] \in AddAt => InFlight = {idx[c]}
           /\ \A c \in Callers : pc[c] = "drop" => InFlight = {}
  BY PipelineAssumption DEF PipelineAssumption, CallInv, InFlight, AddAt

LEMMA AbstractStep ==
    /\ \A slot \in Slots : Abstract!Waste(slot) => Abstract!Next
    /\ \A id \in Ids, slot \in Slots : Abstract!Attach(id, slot) => Abstract!Next
    /\ \A id \in Ids : Abstract!Detach(id) => Abstract!Next
    /\ Abstract!Close => Abstract!Next
  BY DEF Abstract!Next

LEMMA WasteStep ==
    ASSUME NEW slot \in Slots, slot \notin Used, Used' = Used \cup {slot},
           sources' = sources
    PROVE  Abstract!Next
  <1>1. Abstract!Waste(slot)
    BY DEF Abstract!Waste, Used
  <1>2. QED
    BY <1>1, AbstractStep

LEMMA AttachStep ==
    ASSUME NEW id \in Ids, NEW slot \in Slots, slot \notin Used,
           Used' = Used \cup {slot}, sources[id] = NoSlot, HasRoom,
           sources' = [sources EXCEPT ![id] = slot]
    PROVE  Abstract!Next
  <1>1. Abstract!Attached = Registered
    BY DEF Registered, Abstract!Attached
  <1>2. Abstract!Cardinality(Abstract!Attached) < MaxStreams
    BY <1>1 DEF HasRoom, Cardinality, Abstract!Cardinality
  <1>3. Abstract!Attach(id, slot)
    <2>1. slot \notin {s \in Slots : s < nextIndex} \ InFlight
      BY DEF Used
    <2>2. ({s \in Slots : s < nextIndex} \ InFlight)'
             = ({s \in Slots : s < nextIndex} \ InFlight) \cup {slot}
      BY DEF Used
    <2>3. QED
      BY <1>2, <2>1, <2>2 DEF Abstract!Attach
  <1>4. QED
    BY <1>3, AbstractStep

LEMMA RefineStep ==
    ASSUME SrcInv, SrcInv', [Next]_vars
    PROVE  [Abstract!Next]_<<sources, Used>>
  <1> USE PipelineAssumption DEF PipelineAssumption, SrcInv
  <1>0. nextIndex \in Nat /\ (nextIndex < MaxAdds => nextIndex \in Slots)
    BY DEF TypeOK, Slots
  <1>1. ASSUME NEW c \in Callers, NEW id \in Ids, AddBin(c, id)
        PROVE  UNCHANGED <<sources, Used>>
    <2>1. /\ mutex = None /\ sources' = sources
          /\ nextIndex' = nextIndex + 1 /\ nextIndex \in Slots
      BY <1>0, <1>1 DEF AddBin, Call, Accepted
    <2>2. /\ \A d \in Callers : pc[d] = "idle"
          /\ pc' = [pc EXCEPT ![c] = "bin"] /\ idx' = [idx EXCEPT ![c] = nextIndex]
      BY <1>1 DEF AddBin, Call, Lock, NewIndex, CallInv,  TypeOK
    <2>3. InFlight = {} /\ InFlight' = {nextIndex}
      BY <2>2 DEF TypeOK, AddAt, InFlight
    <2>4. QED
      BY <1>0, <2>1, <2>3 DEF Used, Slots
  <1>2. ASSUME NEW c \in Callers, NEW id \in Ids, AddNoBin(c, id)
        PROVE  Abstract!Next
    <2>1. /\ sources' = sources /\ nextIndex' = nextIndex + 1 /\ nextIndex \in Slots
          /\ mutex = None /\ pc' = pc /\ idx' = idx
      BY <1>0, <1>2 DEF AddNoBin, Call, Accepted, calls
    <2>2. InFlight = {} /\ InFlight' = {}
      BY <2>1, InFlightIs DEF InFlight
    <2>3. Used' = Used \cup {nextIndex} /\ nextIndex \notin Used
      BY <1>0, <2>1, <2>2 DEF Used, Slots
    <2>4. QED
      BY <2>1, <2>3, WasteStep
  <1>3. ASSUME NEW c \in Callers, AddLinkFails(c)
        PROVE  Abstract!Next
    <2>1. /\ sources' = sources /\ nextIndex' = nextIndex /\ pc[c] \in AddAt
          /\ idx[c] \in Slots /\ idx[c] < nextIndex /\ mutex' = None
      BY <1>3 DEF AddLinkFails, At, Return, AddAt, CallInv
    <2>2. InFlight = {idx[c]} /\ InFlight' = {}
      <3>1. InFlight = {idx[c]}
        BY <2>1, InFlightIs
      <3>2. \A d \in Callers : pc'[d] = "idle"
        BY <2>1 DEF CallInv
      <3>3. QED
        BY <3>1, <3>2 DEF InFlight, AddAt
    <2>3. Used' = Used \cup {idx[c]} /\ idx[c] \notin Used
      BY <2>1, <2>2 DEF Used
    <2>4. QED
      BY <2>1, <2>3, WasteStep
  <1>4. ASSUME NEW c \in Callers, AddCommit(c)
        PROVE  Abstract!Next
    <2>1. /\ sources' = [sources EXCEPT ![arg[c]] = idx[c]]
          /\ nextIndex' = nextIndex /\ pc[c] \in AddAt /\ mutex' = None
          /\ arg[c] \in Ids /\ sources[arg[c]] = NoSlot /\ HasRoom
          /\ idx[c] \in Slots /\ idx[c] < nextIndex
      BY <1>4 DEF AddCommit, At, Return, AddAt, CallInv
    <2>2. InFlight = {idx[c]} /\ InFlight' = {}
      <3>1. InFlight = {idx[c]}
        BY <2>1, InFlightIs
      <3>2. \A d \in Callers : pc'[d] = "idle"
        BY <2>1 DEF CallInv
      <3>3. QED
        BY <3>1, <3>2 DEF InFlight, AddAt
    <2>3. Used' = Used \cup {idx[c]} /\ idx[c] \notin Used
      BY <2>1, <2>2 DEF Used
    <2>4. QED
      BY <2>1, <2>3, AttachStep
  <1>5. ASSUME NEW c \in Callers, RemoveDrop(c)
        PROVE  Abstract!Next
    <2>1. /\ sources' = [sources EXCEPT ![arg[c]] = NoSlot]
          /\ arg[c] \in Ids /\ sources[arg[c]] # NoSlot
          /\ nextIndex' = nextIndex /\ pc[c] = "drop" /\ mutex' = None
      BY <1>5 DEF RemoveDrop, Erased, At, Return, CallInv, NoSlot, Slots
    <2>2. InFlight = {} /\ InFlight' = {}
      <3>1. \A d \in Callers : pc'[d] = "idle"
        BY <2>1 DEF CallInv
      <3>2. QED
        BY <2>1, <3>1, InFlightIs DEF InFlight, AddAt
    <2>3. Abstract!Detach(arg[c])
      BY <2>1, <2>2 DEF Abstract!Detach
    <2>4. QED
      BY <2>1, <2>3, AbstractStep
  <1>6. ASSUME NEW c \in Callers, NEW id \in Ids, RemoveNull(c, id)
        PROVE  UNCHANGED <<sources, Used>>
    <2>1. /\ sources' = sources /\ nextIndex' = nextIndex /\ mutex = None
          /\ \A d \in Callers : pc'[d] \notin AddAt
      BY <1>6 DEF RemoveNull, Call, Lock, CallInv, AddAt
    <2>2. InFlight = {} /\ InFlight' = {}
      BY <2>1, InFlightIs DEF InFlight
    <2>3. QED
      BY <2>1, <2>2 DEF Used
  <1>7. ASSUME NEW c \in Callers,
               AddLink(c) \/ AddCheck(c) \/ AddSyncRead(c) \/ AddSyncApply(c)
        PROVE  UNCHANGED <<sources, Used>>
    <2>1. /\ sources' = sources /\ nextIndex' = nextIndex /\ idx' = idx
          /\ pc[c] \in AddAt /\ \E step \in AddAt : pc' = [pc EXCEPT ![c] = step]
      BY <1>7 DEF AddLink, AddCheck, AddSyncRead, AddSyncApply,
                  StepAfterLink, At, Goto, AddAt
    <2>2. InFlight' = InFlight
      BY <2>1 DEF InFlight, AddAt
    <2>3. QED
      BY <2>1, <2>2 DEF Used
  <1>8. CASE LifeStep \/ PlayPipeline \/ NullPipeline \/ DestroyBegin
    BY <1>8, LifeStepKeeps DEF calls, Used, InFlight
  <1>9. CASE DestroyEnd
    <2>1. /\ sources' = [id \in Ids |-> NoSlot] /\ nextIndex' = nextIndex
          /\ pc' = pc /\ idx' = idx
      BY <1>9 DEF DestroyEnd, calls
    <2>2. Used' = Used
      BY <2>1 DEF Used, InFlight
    <2>3. Abstract!Close
      BY <2>1, <2>2 DEF Abstract!Close, Used
    <2>4. QED
      BY <2>3, AbstractStep
  <1>10. CASE UNCHANGED vars
    BY <1>10 DEF vars, srcVars, calls, Used, InFlight
  <1>11. QED
    BY <1>1, <1>2, <1>3, <1>4, <1>5, <1>6, <1>7, <1>8, <1>9, <1>10 DEF Next, CallerStep

(* Whatever the interleaving and whatever fails, add_source and            *)
(* remove_source behave as operations on the abstract set of sources: no   *)
(* index is given out twice (lines 90-154, and the destructor).            *)
THEOREM PipelineImplementsSourceSet == Spec => ImplementsSourceSet
  <1>1. Init => Abstract!Init
    BY DEF Init, Abstract!Init, Slots, InFlight
  <1>2. SrcInv /\ SrcInv' /\ [Next]_vars
          => [Abstract!Next]_<<sources, {s \in Slots : s < nextIndex} \ InFlight>>
    BY RefineStep DEF Used
  <1>3. QED
    BY <1>1, <1>2, SourcesInvariant, PTL DEF Spec, ImplementsSourceSet, Abstract!Spec
=============================================================================
