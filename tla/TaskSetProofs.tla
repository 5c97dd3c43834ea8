---------------------------- MODULE TaskSetProofs ----------------------------
(***************************************************************************)
(* Proofs about task sets, for any capacity, sizes, messages and shapes of *)
(* sets, whichever allocations are refused.                                *)
(***************************************************************************)
EXTENDS TaskSet, StaticAllocatorProofs, SequenceTheorems

Making     == {"make_tasks", "make_queue", "make_slots"}
Enqueueing == {"enqueue_info", "enqueue_descriptor"}
Freeing    == {"free_info", "free_descriptor"}
Destroying == {"destroy_slots", "destroy_queue", "destroy_tasks", "destroy_set"}

\* The locals of the call in progress.
CallInv ==
  /\ pc \in {"idle", "destroy_slots", "destroy_tasks"} => call = NULL
  /\ pc \in Making =>
       call \in [len : 0 .. MaxLen] /\ [len |-> call.len, depth |-> set.depth] \in Shapes
  /\ pc = "enqueue_info" =>
       /\ call \in [id : 0 .. MaxLen, prio : Prios, data : 1 .. Cap]
       /\ call.id < Len(set.queues)
  /\ pc = "enqueue_descriptor" =>
       /\ call \in [id : 0 .. MaxLen, prio : Prios, data : 1 .. Cap, info : 1 .. Cap]
       /\ call.id < Len(set.queues)
  /\ pc = "free_info" => call \in [at : 1 .. Cap, info : 1 .. Cap]
  /\ pc \in {"free_descriptor", "destroy_set"} => call \in [at : 1 .. Cap]
  /\ pc = "destroy_queue" => call \in [queue : 1 .. Cap]

\* How far the set is made or destroyed.
SetInv ==
  /\ pc = "destroy_set" => set = NULL
  /\ set = NULL => pc \in {"idle", "destroy_set"}
  /\ set = NULL \/ pc \in Making \union Destroying => held = {}
  /\ set # NULL => (set.tasks = NULL <=> pc = "make_tasks")
  /\ pc = "make_tasks" => set.queues = <<>>
  /\ pc = "make_queue" => Len(set.queues) < call.len
  /\ pc = "make_slots" => Len(set.queues) \in 1 .. call.len
  /\ pc \in {"idle", "destroy_slots"} \union Enqueueing \union Freeing /\ set # NULL =>
       set.queues # <<>>
  /\ pc \in {"idle"} \union Enqueueing \union Freeing /\ set # NULL => set.depth > 0
  /\ pc = "destroy_tasks" => set.queues = <<>>
  /\ set # NULL => \A i \in 1 .. Len(set.queues) :
       /\ set.queues[i].slots = NULL <=> pc = "make_slots" /\ i = Len(set.queues)
       /\ pc \in Making => set.queues[i].waiting = <<>>

\* The types of what is not the allocator's.
Types ==
  /\ pc \in {"idle"} \union Making \union Enqueueing \union Freeing \union Destroying
  /\ set \in SetStates \union {NULL}
  /\ set # NULL =>
       /\ Len(set.queues) <= MaxLen
       /\ \A i \in 1 .. Len(set.queues) : Len(set.queues[i].waiting) <= set.depth
  /\ call \in Calls \union {NULL}
  /\ held \subseteq Callbacks
  /\ returned \in [code : 0 .. 6 \union {Junk}, prio : Prios \union {NULL}]
  /\ clean \in BOOLEAN

\* Everything about the variables but whose the blocks are.
ShapeInv == Types /\ CallInv /\ SetInv

-----------------------------------------------------------------------------
(* The constants, and what the allocator does for a step. *)

LEMMA SetConstants ==
  /\ MaxLen \in Nat /\ MaxDepth \in Nat
  /\ \A s \in SetStates : s # NULL
  /\ \A c \in Calls : c # NULL
  /\ \A b \in 1 .. Cap : b # NULL
  /\ \A shape \in Shapes : shape.len \in 0 .. MaxLen /\ shape.depth \in 0 .. MaxDepth
  /\ {SetBytes, QueueBytes, InfoBytes, DescriptorBytes} \subseteq Requests
  /\ \A shape \in Shapes :
       shape.len * TaskBytes \in Requests /\ shape.depth * PointerBytes \in Requests
  /\ TaskBytes \in Nat \ {0} /\ PointerBytes \in Nat \ {0}
  /\ \A m \in Messages : m.bytes \in Requests /\ m.prio \in Prios
<1>1. MaxLen \in Nat /\ MaxDepth \in Nat
  BY TaskSetAssumption
<1>2. (\A s \in SetStates : s # NULL) /\ (\A c \in Calls : c # NULL)
  BY TaskSetAssumption, Zenon
<1>3. \A b \in 1 .. Cap : b # NULL
  BY Constants
<1>4. \A shape \in Shapes : shape.len \in 0 .. MaxLen /\ shape.depth \in 0 .. MaxDepth
  <2>1. Shapes \subseteq [len : 0 .. MaxLen, depth : 0 .. MaxDepth]
    BY TaskSetAssumption
  <2> QED
    BY <2>1
<1>5. {SetBytes, QueueBytes, InfoBytes, DescriptorBytes} \union ArrayBytes \union DataSizes
        \subseteq Requests
  BY TaskSetAssumption
<1>6. \A shape \in Shapes :
        shape.len * TaskBytes \in ArrayBytes /\ shape.depth * PointerBytes \in ArrayBytes
  BY Zenon DEF ArrayBytes
<1>7. \A m \in Messages : m.bytes \in DataSizes /\ m.prio \in Prios
  BY DEF DataSizes, Prios
<1>8. TaskBytes \in Nat \ {0} /\ PointerBytes \in Nat \ {0}
  BY TaskSetAssumption
<1> QED
  BY <1>1, <1>2, <1>3, <1>4, <1>5, <1>6, <1>7, <1>8

\* The allocator takes a step, as it may with callers that free only what they hold.
MemoryStep == [Next]_vars /\ IInv'

LEMMA DeniedKeeps ==
  ASSUME IInv, NEW bytes \in Requests, Denied(bytes)
  PROVE  MemoryStep /\ live' = live
<1>1. Alloc(bytes) /\ live' = live
  BY DEF Denied, Alloc, AllocRefused, AllocFails
<1> QED
  BY <1>1, StepInv DEF Next, MemoryStep

LEMMA GrantedTakes ==
  ASSUME IInv, NEW bytes \in Requests, Granted(bytes)
  PROVE  /\ MemoryStep /\ bytes # 0
         /\ Got \in 1 .. Cap /\ Got \notin live /\ live' = live \union {Got}
<1>1. Alloc(bytes) /\ AllocTakes(bytes)
  BY DEF Granted, Alloc
<1>2. MemoryStep
  BY <1>1, StepInv DEF Next, MemoryStep
<1>3. PICK G \in SUBSET Units, got \in 1 .. Cap :
        HandsOut(G, got, NBlocks(bytes)) /\ Returns(bytes, got)
  BY <1>1, TakesGrants
<1>4. Got = got
  BY <1>3 DEF Got, Returns
<1>5. bytes # 0
  BY <1>1 DEF AllocTakes, Refused
<1> QED
  BY <1>2, <1>3, <1>4, <1>5 DEF HandsOut

LEMMA FreeGives ==
  ASSUME IInv, NEW b \in live, Free(b)
  PROVE  MemoryStep /\ live' = live \ {b}
<1>1. MemoryStep
  BY StepInv DEF Next, MemoryStep
<1> QED
  BY <1>1 DEF Free

LEMMA MemoryStays ==
  ASSUME IInv, UNCHANGED memory
  PROVE  MemoryStep /\ live' = live
BY StepInv DEF memory, vars, MemoryStep

-----------------------------------------------------------------------------
(* make_task_set. *)

LEMMA MakeSetShape ==
  ASSUME IInv, ShapeInv, NEW shape \in Shapes, MakeSet(shape)
  PROVE  ShapeInv'
<1> USE SetConstants DEF Making, Enqueueing, Freeing, Destroying
<1>1. Types /\ CallInv /\ SetInv /\ pc = "idle" /\ set = NULL /\ held' = held /\ held = {}
  BY DEF ShapeInv, MakeSet, Idle, SetInv
<1>2. CASE Denied(SetBytes) /\ MakeFails /\ UNCHANGED clean
  <2>1. /\ pc' = "idle" /\ set' = NULL /\ call' = NULL
        /\ returned' = [code |-> 1, prio |-> NULL] /\ clean' = clean
    BY <1>2 DEF MakeFails, CallEnds, SetReturns
  <2> QED
    BY <1>1, <2>1 DEF ShapeInv, Types, CallInv, SetInv
<1>3. CASE /\ Granted(SetBytes)
           /\ pc' = "make_tasks" /\ call' = [len |-> shape.len]
           /\ set' = [at |-> Got, tasks |-> NULL, depth |-> shape.depth, queues |-> <<>>]
           /\ UNCHANGED <<returned, clean>>
  <2>1. Got \in 1 .. Cap
    BY <1>3, GrantedTakes
  <2>2. shape.len \in 0 .. MaxLen /\ shape.depth \in 0 .. MaxDepth
    OBVIOUS
  <2>3. set' \in SetStates
    BY <1>3, <2>1, <2>2 DEF SetStates
  <2>4. call' \in [len : 0 .. MaxLen] /\ call' \in Calls
    BY <1>3, <2>2 DEF Calls
  <2>5. set' # NULL /\ set'.queues = <<>> /\ Len(set'.queues) = 0 /\ set'.tasks = NULL
    BY <1>3, <2>3
  <2>6. Types'
    BY <1>1, <1>3, <2>3, <2>4, <2>5 DEF Types
  <2>7. [len |-> call'.len, depth |-> set'.depth] \in Shapes
    <3>1. [len |-> shape.len, depth |-> shape.depth] = shape
      BY TaskSetAssumption
    <3> QED
      BY <1>3, <3>1
  <2>8. CallInv'
    BY <1>3, <2>4, <2>7 DEF CallInv
  <2>9. SetInv'
    BY <1>1, <1>3, <2>5 DEF SetInv
  <2> QED
    BY <2>6, <2>8, <2>9 DEF ShapeInv
<1> QED
  BY <1>2, <1>3 DEF MakeSet

\* A call that fails leaves no set.
LEMMA MakeFailsShape ==
  ASSUME ShapeInv, pc \in Making, MakeFails, clean' = FALSE, UNCHANGED held
  PROVE  ShapeInv'
<1> USE DEF Making, Enqueueing, Freeing, Destroying
<1>1. Types /\ SetInv /\ held' = {}
  BY DEF ShapeInv, SetInv
<1>2. /\ pc' = "idle" /\ set' = NULL /\ call' = NULL /\ clean' = FALSE
      /\ returned' = [code |-> 1, prio |-> NULL]
  BY DEF MakeFails, CallEnds, SetReturns
<1>3. returned' \in [code : 0 .. 6 \union {Junk}, prio : Prios \union {NULL}]
  BY <1>2
<1>4. Types'
  BY <1>1, <1>2, <1>3 DEF Types
<1>5. CallInv'
  BY <1>2 DEF CallInv
<1>6. SetInv'
  BY <1>1, <1>2 DEF SetInv
<1> QED
  BY <1>4, <1>5, <1>6 DEF ShapeInv

\* While a set is being made.
LEMMA InMaking ==
  ASSUME ShapeInv, pc \in Making
  PROVE  /\ set \in SetStates /\ set # NULL /\ set.queues \in Seq(QueueStates)
         /\ set.depth \in 0 .. MaxDepth /\ Len(set.queues) <= MaxLen /\ held = {}
         /\ call \in [len : 0 .. MaxLen] /\ call.len \in 0 .. MaxLen
         /\ [len |-> call.len, depth |-> set.depth] \in Shapes
         /\ call.len * TaskBytes \in Requests /\ set.depth * PointerBytes \in Requests
         /\ \A i \in 1 .. Len(set.queues) : set.queues[i].waiting = <<>>
<1> USE DEF Making, Enqueueing, Freeing, Destroying
<1>1. set # NULL /\ set \in SetStates /\ held = {} /\ Len(set.queues) <= MaxLen
  BY DEF ShapeInv, SetInv, Types
<1>2. set.queues \in Seq(QueueStates) /\ set.depth \in 0 .. MaxDepth
  BY <1>1 DEF SetStates
<1>3. /\ call \in [len : 0 .. MaxLen] /\ call.len \in 0 .. MaxLen
      /\ [len |-> call.len, depth |-> set.depth] \in Shapes
  BY DEF ShapeInv, CallInv
<1>4. call.len * TaskBytes \in Requests /\ set.depth * PointerBytes \in Requests
  <2> DEFINE shape == [len |-> call.len, depth |-> set.depth]
  <2>1. shape.len = call.len /\ shape.depth = set.depth /\ shape \in Shapes
    BY <1>3
  <2> HIDE DEF shape
  <2>2. shape.len * TaskBytes \in Requests /\ shape.depth * PointerBytes \in Requests
    BY <2>1, SetConstants
  <2> QED
    BY <2>1, <2>2
<1>5. \A i \in 1 .. Len(set.queues) : set.queues[i].waiting = <<>>
  BY <1>1 DEF ShapeInv, SetInv
<1> QED
  BY <1>1, <1>2, <1>3, <1>4, <1>5

LEMMA MakeTasksShape ==
  ASSUME IInv, ShapeInv, MakeTasks
  PROVE  ShapeInv'
<1> USE DEF Making, Enqueueing, Freeing, Destroying
<1>1. pc = "make_tasks" /\ held' = held /\ ShapeInv
  BY DEF MakeTasks
<1>2. CASE MakeFails /\ clean' = FALSE
  BY <1>1, <1>2, MakeFailsShape
<1>3. CASE /\ Granted(call.len * TaskBytes)
           /\ pc' = "make_queue"
           /\ set' = [set EXCEPT !.tasks = Got]
           /\ UNCHANGED <<call, returned, clean>>
  <2>1. /\ set \in SetStates /\ set # NULL /\ set.queues \in Seq(QueueStates)
        /\ set.depth \in 0 .. MaxDepth /\ held = {}
        /\ call \in [len : 0 .. MaxLen] /\ call.len \in 0 .. MaxLen
        /\ [len |-> call.len, depth |-> set.depth] \in Shapes
        /\ call.len * TaskBytes \in Requests
    BY <1>1, InMaking
  <2>2. Got \in 1 .. Cap /\ call.len * TaskBytes # 0
    BY <1>3, <2>1, GrantedTakes
  <2>3. call.len # 0
    BY <2>2, SetConstants
  <2>4. Types /\ CallInv /\ SetInv /\ set.queues = <<>>
    BY <1>1 DEF ShapeInv, SetInv
  <2>5. /\ set' \in SetStates /\ set'.tasks = Got /\ set'.queues = <<>>
        /\ set'.depth = set.depth
    BY <1>3, <2>1, <2>2, <2>4 DEF SetStates
  <2>6. set' # NULL /\ Got # NULL
    BY <2>2, <2>5, SetConstants
  <2>7. Types'
    BY <1>1, <1>3, <2>4, <2>5, <2>6, SetConstants DEF Types
  <2>8. CallInv'
    BY <1>3, <2>1, <2>5 DEF CallInv
  <2>9. SetInv'
    <3>1. Len(set'.queues) = 0 /\ held' = {} /\ Len(set'.queues) < call'.len
      BY <1>1, <1>3, <2>1, <2>3, <2>5
    <3> QED
      BY <1>3, <2>5, <2>6, <3>1 DEF SetInv
  <2> QED
    BY <2>7, <2>8, <2>9 DEF ShapeInv
<1> QED
  BY <1>2, <1>3 DEF MakeTasks

LEMMA MakeQueueShape ==
  ASSUME IInv, ShapeInv, MakeQueue
  PROVE  ShapeInv'
<1> USE DEF Making, Enqueueing, Freeing, Destroying
<1>1. pc = "make_queue" /\ held' = held /\ ShapeInv
  BY DEF MakeQueue
<1>2. CASE MakeFails /\ clean' = FALSE
  BY <1>1, <1>2, MakeFailsShape
<1> DEFINE q == [at |-> Got, slots |-> NULL, waiting |-> <<>>]
<1>3. CASE /\ Granted(QueueBytes)
           /\ pc' = "make_slots"
           /\ set' = [set EXCEPT !.queues = Append(@, q)]
           /\ UNCHANGED <<call, returned, clean>>
  <2>1. /\ set \in SetStates /\ set # NULL /\ set.queues \in Seq(QueueStates)
        /\ set.depth \in 0 .. MaxDepth /\ held = {}
        /\ call \in [len : 0 .. MaxLen] /\ call.len \in 0 .. MaxLen
        /\ [len |-> call.len, depth |-> set.depth] \in Shapes
        /\ \A i \in 1 .. Len(set.queues) : set.queues[i].waiting = <<>>
    BY <1>1, InMaking
  <2>2. Got \in 1 .. Cap
    BY <1>3, SetConstants, GrantedTakes
  <2>3. q \in QueueStates /\ q.slots = NULL /\ q.waiting = <<>>
    BY <2>2 DEF QueueStates
  <2> HIDE DEF q
  <2>4. /\ Types /\ CallInv /\ SetInv /\ Len(set.queues) < call.len
        /\ set.tasks # NULL
        /\ \A i \in 1 .. Len(set.queues) : set.queues[i].slots # NULL
    BY <1>1, <2>1 DEF ShapeInv, SetInv
  <2> DEFINE n == Len(set.queues)
             qs == Append(set.queues, q)
  <2>5. /\ qs \in Seq(QueueStates) /\ n \in Nat /\ Len(qs) = n + 1 /\ qs[n + 1] = q
        /\ \A i \in 1 .. n : qs[i] = set.queues[i]
        /\ \A i \in 1 .. n + 1 : i \in 1 .. n \/ i = n + 1
    BY <2>1, <2>3
  <2>6. /\ set' \in SetStates /\ set'.tasks = set.tasks /\ set'.queues = qs
        /\ set'.depth = set.depth
    <3> HIDE DEF qs
    <3> QED
      BY <1>3, <2>1, <2>5 DEF SetStates, qs
  <2> HIDE DEF n, qs
  <2>7. set' # NULL
    BY <2>6, SetConstants
  <2>8. \A i \in 1 .. n + 1 : qs[i].waiting = <<>> /\ Len(qs[i].waiting) = 0
    BY <2>1, <2>3, <2>5 DEF n
  <2>9. Types'
    <3>1. call.len <= MaxLen /\ 0 <= set.depth
      BY <2>1, SetConstants
    <3>2. Len(qs) <= MaxLen
      <4>1. n < call.len
        BY <2>4 DEF n
      <4>2. call.len \in Nat /\ MaxLen \in Nat
        BY <2>1, SetConstants
      <4> QED
        BY <3>1, <4>1, <4>2, <2>5
    <3>3. \A i \in 1 .. n + 1 : Len(qs[i].waiting) <= set.depth
      BY <2>8, <3>1
    <3> QED
      BY <1>1, <1>3, <2>4, <2>5, <2>6, <2>7, <3>2, <3>3 DEF Types
  <2>10. CallInv'
    BY <1>3, <2>1, <2>6 DEF CallInv
  <2>11. SetInv'
    <3>1. Len(qs) \in 1 .. call.len
      BY <2>1, <2>4, <2>5 DEF n
    <3>2. \A i \in 1 .. n + 1 : qs[i].slots = NULL <=> i = n + 1
      BY <2>3, <2>4, <2>5 DEF n
    <3> QED
      BY <1>1, <1>3, <2>1, <2>4, <2>5, <2>6, <2>7, <2>8, <3>1, <3>2 DEF SetInv
  <2> QED
    BY <2>9, <2>10, <2>11 DEF ShapeInv
<1> QED
  BY <1>2, <1>3 DEF MakeQueue

\* One queue of the set is another.
LEMMA OneQueueChanges ==
  ASSUME set \in SetStates, NEW i \in 1 .. Len(set.queues), NEW q \in QueueStates,
         set' = [set EXCEPT !.queues[i] = q]
  PROVE  /\ set' \in SetStates /\ set' # NULL
         /\ set'.at = set.at /\ set'.tasks = set.tasks /\ set'.depth = set.depth
         /\ Len(set'.queues) = Len(set.queues)
         /\ set'.queues[i] = q
         /\ \A j \in 1 .. Len(set.queues) : j # i => set'.queues[j] = set.queues[j]
<1> DEFINE qs == [set.queues EXCEPT ![i] = q]
<1>1. set.queues \in Seq(QueueStates)
  BY DEF SetStates
<1>2. /\ qs \in Seq(QueueStates) /\ Len(qs) = Len(set.queues) /\ qs[i] = q
      /\ \A j \in 1 .. Len(set.queues) : j # i => qs[j] = set.queues[j]
  BY <1>1
<1>3. set' = [set EXCEPT !.queues = qs]
  BY DEF SetStates
<1> HIDE DEF qs
<1>4. set' \in SetStates /\ set'.at = set.at /\ set'.tasks = set.tasks
      /\ set'.depth = set.depth /\ set'.queues = qs
  BY <1>2, <1>3 DEF SetStates
<1> QED
  BY <1>2, <1>4, SetConstants

LEMMA MakeSlotsShape ==
  ASSUME IInv, ShapeInv, MakeSlots
  PROVE  ShapeInv'
<1> USE DEF Making, Enqueueing, Freeing, Destroying
<1>1. pc = "make_slots" /\ held' = held /\ ShapeInv
  BY DEF MakeSlots
<1>2. CASE MakeFails /\ clean' = FALSE
  BY <1>1, <1>2, MakeFailsShape
<1> DEFINE n == Len(set.queues)
<1>3. CASE /\ Granted(set.depth * PointerBytes)
           /\ set' = [set EXCEPT !.queues[n].slots = Got]
           /\ UNCHANGED clean
           /\ IF n < call.len
              THEN pc' = "make_queue" /\ UNCHANGED <<call, returned>>
              ELSE pc' = "idle" /\ call' = NULL /\ SetReturns(0, NULL)
  <2>1. /\ set \in SetStates /\ set # NULL /\ set.queues \in Seq(QueueStates)
        /\ set.depth \in 0 .. MaxDepth /\ held = {}
        /\ call \in [len : 0 .. MaxLen] /\ call.len \in 0 .. MaxLen
        /\ [len |-> call.len, depth |-> set.depth] \in Shapes
        /\ set.depth * PointerBytes \in Requests
        /\ \A i \in 1 .. n : set.queues[i].waiting = <<>>
    BY <1>1, InMaking
  <2>2. Got \in 1 .. Cap /\ set.depth * PointerBytes # 0
    BY <1>3, <2>1, GrantedTakes
  <2>3. set.depth > 0 /\ Got # NULL
    BY <2>1, <2>2, SetConstants
  <2>4. /\ Types /\ n \in 1 .. call.len /\ set.tasks # NULL /\ n <= MaxLen
        /\ \A i \in 1 .. n : set.queues[i].slots = NULL <=> i = n
    BY <1>1, <2>1 DEF ShapeInv, SetInv, Types
  <2>5. n \in 1 .. n /\ n \in Nat
    BY <2>1, <2>4
  <2> DEFINE q == [set.queues[n] EXCEPT !.slots = Got]
  <2>6. q \in QueueStates /\ q.slots = Got /\ q.waiting = <<>>
    <3>1. set.queues[n] \in QueueStates /\ set.queues[n].waiting = <<>>
      BY <2>1, <2>5
    <3> QED
      BY <2>2, <3>1 DEF QueueStates
  <2>7. set' = [set EXCEPT !.queues[n] = q]
    BY <1>3
  <2> HIDE DEF n, q
  <2>8. /\ set' \in SetStates /\ set' # NULL
        /\ set'.tasks = set.tasks /\ set'.depth = set.depth
        /\ Len(set'.queues) = n
        /\ set'.queues[n] = q
        /\ \A j \in 1 .. n : j # n => set'.queues[j] = set.queues[j]
    <3>1. n \in 1 .. Len(set.queues)
      BY <2>5 DEF n
    <3> QED
      BY <2>1, <2>6, <2>7, <3>1, OneQueueChanges DEF n
  <2>9. \A i \in 1 .. n : set'.queues[i].waiting = <<>> /\ set'.queues[i].slots # NULL
    BY <2>1, <2>3, <2>4, <2>6, <2>8 DEF n
  <2>10. \A i \in 1 .. n : Len(set'.queues[i].waiting) <= set.depth
    <3>1. \A i \in 1 .. n : Len(set'.queues[i].waiting) = 0
      BY <2>9
    <3> QED
      BY <2>1, <3>1, SetConstants
  <2>11. set'.queues # <<>>
    BY <2>4, <2>5, <2>8
  <2>12. CASE /\ n < call.len /\ pc' = "make_queue" /\ UNCHANGED <<call, returned>>
    <3>1. Types'
      BY <1>1, <1>3, <2>4, <2>8, <2>10, <2>12 DEF Types
    <3>2. CallInv'
      BY <2>1, <2>8, <2>12 DEF CallInv
    <3>3. SetInv'
      BY <1>1, <2>1, <2>4, <2>8, <2>9, <2>11, <2>12 DEF SetInv
    <3> QED
      BY <3>1, <3>2, <3>3 DEF ShapeInv
  <2>13. CASE pc' = "idle" /\ call' = NULL /\ SetReturns(0, NULL)
    <3>1. returned' \in [code : 0 .. 6 \union {Junk}, prio : Prios \union {NULL}]
      BY <2>13 DEF SetReturns
    <3>2. Types'
      BY <1>1, <1>3, <2>4, <2>8, <2>10, <2>13, <3>1 DEF Types
    <3>3. CallInv'
      BY <2>13 DEF CallInv
    <3>4. SetInv'
      BY <1>1, <2>1, <2>3, <2>4, <2>8, <2>9, <2>11, <2>13 DEF SetInv
    <3> QED
      BY <3>2, <3>3, <3>4 DEF ShapeInv
  <2> QED
    BY <1>3, <2>12, <2>13 DEF n
<1> QED
  BY <1>2, <1>3 DEF MakeSlots

-----------------------------------------------------------------------------
(* enqueue_callback_for_task, dequeue_callback_for_task. *)

\* The set is unchanged, and its callers can still use it.
LEMMA SetUntouched ==
  ASSUME ShapeInv, set # NULL, UNCHANGED set,
         pc \in {"idle"} \union Enqueueing \union Freeing,
         pc' \in {"idle"} \union Enqueueing \union Freeing,
         call' \in Calls \union {NULL}, held' \subseteq Callbacks,
         returned' \in [code : 0 .. 6 \union {Junk}, prio : Prios \union {NULL}],
         clean' \in BOOLEAN, CallInv'
  PROVE  ShapeInv'
<1> USE DEF Making, Enqueueing, Freeing, Destroying
<1>1. Types /\ SetInv /\ set' = set
  BY DEF ShapeInv
<1>2. Types'
  BY <1>1 DEF Types
<1>3. SetInv'
  BY <1>1 DEF SetInv
<1> QED
  BY <1>2, <1>3 DEF ShapeInv

\* An enqueue ends, whatever its code.
LEMMA EnqueueEnds ==
  ASSUME ShapeInv, set # NULL, UNCHANGED <<set, held>>, clean' \in BOOLEAN,
         pc \in {"idle"} \union Enqueueing, NEW c \in 0 .. 6, CallEnds(c)
  PROVE  ShapeInv'
<1> USE DEF Making, Enqueueing, Freeing, Destroying
<1>1. pc' = "idle" /\ call' = NULL /\ returned' = [code |-> c, prio |-> NULL]
  BY DEF CallEnds, SetReturns
<1>2. returned' \in [code : 0 .. 6 \union {Junk}, prio : Prios \union {NULL}]
  BY <1>1
<1>3. CallInv'
  BY <1>1 DEF CallInv
<1>4. held' \subseteq Callbacks
  BY DEF ShapeInv, Types
<1> QED
  BY <1>1, <1>2, <1>3, <1>4, SetUntouched

LEMMA EnqueueRefusedShape ==
  ASSUME ShapeInv, NEW id, EnqueueRefused(id)
  PROVE  ShapeInv'
<1> USE DEF Making, Enqueueing, Freeing, Destroying
<1>1. /\ pc = "idle" /\ set # NULL /\ returned' = [code |-> 2, prio |-> NULL]
      /\ pc' = pc /\ set' = set /\ call' = call /\ held' = held /\ clean' = clean
  BY DEF EnqueueRefused, SetReturns, Idle
<1>2. returned' \in [code : 0 .. 6 \union {Junk}, prio : Prios \union {NULL}]
  BY <1>1
<1>3. CallInv' /\ call' \in Calls \union {NULL} /\ held' \subseteq Callbacks /\ clean' \in BOOLEAN
  BY <1>1 DEF CallInv, ShapeInv, Types
<1> QED
  BY <1>1, <1>2, <1>3, SetUntouched

LEMMA EnqueueDataShape ==
  ASSUME IInv, ShapeInv, NEW id \in TaskIds, NEW m \in Messages, EnqueueData(id, m)
  PROVE  ShapeInv'
<1> USE DEF Making, Enqueueing, Freeing, Destroying
<1>1. /\ pc = "idle" /\ set # NULL /\ set' = set /\ held' = held /\ clean' = clean
      /\ Types
  BY DEF EnqueueData, Idle, ShapeInv
<1>2. CASE CallEnds(3)
  BY <1>1, <1>2, EnqueueEnds DEF Types
<1>3. CASE /\ Granted(m.bytes)
           /\ pc' = "enqueue_info"
           /\ call' = [id |-> id, prio |-> m.prio, data |-> Got]
           /\ UNCHANGED returned
  <2>1. Got \in 1 .. Cap /\ m.prio \in Prios
    BY <1>3, SetConstants, GrantedTakes
  <2>2. id \in 0 .. MaxLen /\ id < Len(set.queues)
    <3>1. set.queues \in Seq(QueueStates) /\ Len(set.queues) <= MaxLen
      BY <1>1 DEF Types, SetStates
    <3>2. id \in 0 .. MaxLen + 1 /\ id # Len(set.queues) /\ ~(id > Len(set.queues))
      BY DEF EnqueueData, OutOfBounds, TaskIds, NTasks
    <3> QED
      BY <3>1, <3>2, SetConstants
  <2>3. call' \in [id : 0 .. MaxLen, prio : Prios, data : 1 .. Cap]
    BY <1>3, <2>1, <2>2
  <2>4. call' \in Calls
    BY <2>3 DEF Calls
  <2>5. CallInv'
    BY <1>1, <1>3, <2>2, <2>3 DEF CallInv
  <2> QED
    BY <1>1, <1>3, <2>4, <2>5, SetUntouched DEF Types
<1> QED
  BY <1>2, <1>3 DEF EnqueueData

LEMMA EnqueueInfoShape ==
  ASSUME IInv, ShapeInv, EnqueueInfo
  PROVE  ShapeInv'
<1> USE DEF Making, Enqueueing, Freeing, Destroying
<1>1. /\ pc = "enqueue_info" /\ set # NULL /\ set' = set /\ held' = held
      /\ Types /\ CallInv
  BY DEF EnqueueInfo, ShapeInv, SetInv
<1>2. CASE CallEnds(4) /\ clean' = FALSE
  <2>1. clean' \in BOOLEAN
    BY <1>2
  <2> QED
    BY <1>1, <1>2, <2>1, EnqueueEnds
<1>3. CASE /\ Granted(InfoBytes)
           /\ pc' = "enqueue_descriptor"
           /\ call' = [id |-> call.id, prio |-> call.prio, data |-> call.data, info |-> Got]
           /\ UNCHANGED <<returned, clean>>
  <2>1. Got \in 1 .. Cap
    BY <1>3, SetConstants, GrantedTakes
  <2>2. call \in [id : 0 .. MaxLen, prio : Prios, data : 1 .. Cap] /\ call.id < Len(set.queues)
    BY <1>1 DEF CallInv
  <2>3. call' \in [id : 0 .. MaxLen, prio : Prios, data : 1 .. Cap, info : 1 .. Cap]
    BY <1>3, <2>1, <2>2
  <2>4. call' \in Calls
    BY <2>3 DEF Calls
  <2>5. CallInv'
    BY <1>1, <1>3, <2>2, <2>3 DEF CallInv
  <2> QED
    BY <1>1, <1>3, <2>4, <2>5, SetUntouched DEF Types
<1> QED
  BY <1>2, <1>3 DEF EnqueueInfo

\* A queue of a set callers can use has other callbacks.
LEMMA WaitingChanges ==
  ASSUME ShapeInv, set # NULL, pc \in {"idle"} \union Enqueueing, NEW i \in 1 .. Len(set.queues),
         NEW waiting \in Seq(Callbacks), Len(waiting) <= set.depth,
         set' = [set EXCEPT !.queues[i].waiting = waiting],
         pc' = "idle", call' = NULL, held' \subseteq Callbacks,
         returned' \in [code : 0 .. 6 \union {Junk}, prio : Prios \union {NULL}],
         clean' \in BOOLEAN
  PROVE  /\ ShapeInv'
         /\ set' # NULL /\ set'.at = set.at /\ set'.tasks = set.tasks
         /\ Len(set'.queues) = Len(set.queues)
         /\ set'.queues[i].at = set.queues[i].at /\ set'.queues[i].slots = set.queues[i].slots
         /\ set'.queues[i].waiting = waiting
         /\ \A j \in 1 .. Len(set.queues) : j # i => set'.queues[j] = set.queues[j]
<1> USE DEF Making, Enqueueing, Freeing, Destroying
<1> DEFINE n == Len(set.queues)
           q == [set.queues[i] EXCEPT !.waiting = waiting]
<1>1. Types /\ set \in SetStates /\ set.queues \in Seq(QueueStates) /\ n \in Nat
  BY DEF ShapeInv, Types, SetStates
<1>2. /\ q \in QueueStates /\ q.waiting = waiting /\ q.slots = set.queues[i].slots
      /\ q.at = set.queues[i].at
  <2>1. set.queues[i] \in QueueStates
    BY <1>1
  <2> QED
    BY <2>1 DEF QueueStates
<1>3. set' = [set EXCEPT !.queues[i] = q]
  OBVIOUS
<1> HIDE DEF n, q
<1>4. /\ set' \in SetStates /\ set' # NULL
      /\ set'.at = set.at /\ set'.tasks = set.tasks /\ set'.depth = set.depth
      /\ Len(set'.queues) = n /\ set'.queues[i] = q
      /\ \A j \in 1 .. n : j # i => set'.queues[j] = set.queues[j]
  BY <1>1, <1>2, <1>3, OneQueueChanges DEF n
<1>5. \A j \in 1 .. n : /\ Len(set'.queues[j].waiting) <= set.depth
                         /\ set'.queues[j].slots = set.queues[j].slots
  BY <1>1, <1>2, <1>4 DEF Types, n
<1>6. Types'
  BY <1>1, <1>4, <1>5 DEF Types, n
<1>7. CallInv'
  BY DEF CallInv
<1>8. SetInv'
  <2>1. /\ set.tasks # NULL /\ set.queues # <<>> /\ set.depth > 0
        /\ \A j \in 1 .. n : set.queues[j].slots # NULL
    BY DEF ShapeInv, SetInv, n
  <2>2. set'.queues # <<>>
    BY <1>1, <1>4, <2>1 DEF n
  <2> QED
    BY <1>4, <1>5, <2>1, <2>2 DEF SetInv
<1> QED
  BY <1>2, <1>4, <1>6, <1>7, <1>8 DEF ShapeInv, n

\* What is appended to a queue with room.
LEMMA EnqueuedCallback ==
  ASSUME ShapeInv, pc = "enqueue_descriptor", NEW b \in 1 .. Cap,
         HasRoom(set.queues[call.id + 1])
  PROVE  LET i == call.id + 1
             w == Queued(set.queues[i].waiting, Callback(b))
         IN  /\ set # NULL /\ i \in 1 .. Len(set.queues)
             /\ set.queues[i].waiting \in Seq(Callbacks)
             /\ Callback(b) \in Callbacks /\ Callback(b).at = b
             /\ Callback(b).info = call.info /\ Callback(b).data = call.data
             /\ w \in Seq(Callbacks) /\ Len(w) <= set.depth
<1> USE DEF Making, Enqueueing, Freeing, Destroying
<1> DEFINE i == call.id + 1
           w == Queued(set.queues[i].waiting, Callback(b))
<1>1. /\ set # NULL /\ set \in SetStates
      /\ call \in [id : 0 .. MaxLen, prio : Prios, data : 1 .. Cap, info : 1 .. Cap]
      /\ call.id < Len(set.queues)
  BY DEF ShapeInv, Types, CallInv, SetInv
<1>2. i \in 1 .. Len(set.queues) /\ set.queues \in Seq(QueueStates) /\ set.depth \in Nat
  BY <1>1, SetConstants DEF SetStates
<1>3. set.queues[i].waiting \in Seq(Callbacks)
  <2>1. set.queues[i] \in QueueStates
    BY <1>2
  <2> QED
    BY <2>1 DEF QueueStates
<1>4. /\ Callback(b) \in Callbacks /\ Callback(b).at = b
      /\ Callback(b).info = call.info /\ Callback(b).data = call.data
  BY <1>1 DEF Callback, Callbacks
<1>5. w \in Seq(Callbacks) /\ Len(w) = Len(set.queues[i].waiting) + 1
  BY <1>3, <1>4 DEF Queued
<1>6. Len(w) <= set.depth
  <2>1. Len(set.queues[i].waiting) < set.depth /\ Len(set.queues[i].waiting) \in Nat
    BY <1>3 DEF HasRoom
  <2> QED
    BY <1>2, <1>5, <2>1
<1> QED
  BY <1>1, <1>2, <1>3, <1>4, <1>5, <1>6

LEMMA EnqueueDescriptorShape ==
  ASSUME IInv, ShapeInv, EnqueueDescriptor
  PROVE  ShapeInv'
<1> USE DEF Making, Enqueueing, Freeing, Destroying
<1>1. pc = "enqueue_descriptor" /\ set # NULL /\ held' = held /\ Types
  BY DEF EnqueueDescriptor, ShapeInv, SetInv
<1> DEFINE i == call.id + 1
<1>2. ASSUME NEW c \in {5, 6}, CallEnds(c), clean' = FALSE, UNCHANGED set
      PROVE  ShapeInv'
  <2>1. clean' \in BOOLEAN
    BY <1>2
  <2>2. c \in 0 .. 6
    OBVIOUS
  <2> QED
    BY <1>1, <1>2, <2>1, <2>2, EnqueueEnds
<1>3. CASE /\ Granted(DescriptorBytes) /\ HasRoom(set.queues[i])
           /\ set' = [set EXCEPT !.queues[i].waiting = Queued(@, Callback(Got))]
           /\ CallEnds(0)
           /\ UNCHANGED clean
  <2>1. Got \in 1 .. Cap
    BY <1>3, SetConstants, GrantedTakes
  <2> DEFINE w == Queued(set.queues[i].waiting, Callback(Got))
  <2>2. i \in 1 .. Len(set.queues) /\ w \in Seq(Callbacks) /\ Len(w) <= set.depth
    BY <1>1, <1>3, <2>1, EnqueuedCallback
  <2>3. pc' = "idle" /\ call' = NULL /\ returned' = [code |-> 0, prio |-> NULL]
    BY <1>3 DEF CallEnds, SetReturns
  <2>4. returned' \in [code : 0 .. 6 \union {Junk}, prio : Prios \union {NULL}]
    BY <2>3
  <2>5. clean' \in BOOLEAN /\ held' \subseteq Callbacks
    BY <1>1, <1>3 DEF Types
  <2>6. set' = [set EXCEPT !.queues[i].waiting = w]
    BY <1>3
  <2> HIDE DEF i, w
  <2> QED
    BY <1>1, <2>2, <2>3, <2>4, <2>5, <2>6, WaitingChanges
<1> QED
  BY <1>2, <1>3 DEF EnqueueDescriptor

LEMMA DequeueRefusedShape ==
  ASSUME ShapeInv, NEW id, DequeueRefused(id)
  PROVE  ShapeInv'
<1> USE DEF Making, Enqueueing, Freeing, Destroying
<1>1. /\ pc = "idle" /\ set # NULL
      /\ returned' = [code |-> 2, prio |-> NULL] \/ returned' = [code |-> 3, prio |-> NULL]
      /\ pc' = pc /\ set' = set /\ call' = call /\ held' = held /\ clean' = clean
  BY DEF DequeueRefused, SetReturns, Idle
<1>2. returned' \in [code : 0 .. 6 \union {Junk}, prio : Prios \union {NULL}]
  BY <1>1
<1>3. CallInv' /\ call' \in Calls \union {NULL} /\ held' \subseteq Callbacks /\ clean' \in BOOLEAN
  BY <1>1 DEF CallInv, ShapeInv, Types
<1> QED
  BY <1>1, <1>2, <1>3, SetUntouched

LEMMA DestroyRefusedShape ==
  ASSUME ShapeInv, DestroyRefused
  PROVE  ShapeInv'
<1> USE DEF Making, Enqueueing, Freeing, Destroying
<1>1. /\ pc = "idle" /\ set # NULL
      /\ returned' = [code |-> 2, prio |-> NULL]
      /\ pc' = pc /\ set' = set /\ call' = call /\ held' = held /\ clean' = clean
  BY DEF DestroyRefused, SetReturns, Idle
<1>2. returned' \in [code : 0 .. 6 \union {Junk}, prio : Prios \union {NULL}]
  BY <1>1
<1>3. CallInv' /\ call' \in Calls \union {NULL} /\ held' \subseteq Callbacks /\ clean' \in BOOLEAN
  BY <1>1 DEF CallInv, ShapeInv, Types
<1> QED
  BY <1>1, <1>2, <1>3, SetUntouched

\* What is taken from a queue that is not empty.
LEMMA DequeuedCallback ==
  ASSUME ShapeInv, NEW id \in TaskIds, Idle, set # NULL, ~OutOfBounds(id),
         set.queues[id + 1].waiting # <<>>
  PROVE  LET waiting == set.queues[id + 1].waiting
         IN  /\ id + 1 \in 1 .. Len(set.queues)
             /\ waiting \in Seq(Callbacks) /\ Head(waiting) \in Callbacks
             /\ Remaining(waiting) \in Seq(Callbacks)
             /\ Len(Remaining(waiting)) <= set.depth
<1> USE DEF Making, Enqueueing, Freeing, Destroying
<1> DEFINE waiting == set.queues[id + 1].waiting
<1>1. /\ set \in SetStates /\ Len(set.queues) <= MaxLen
      /\ \A i \in 1 .. Len(set.queues) : Len(set.queues[i].waiting) <= set.depth
  BY DEF ShapeInv, Types
<1>2. set.queues \in Seq(QueueStates) /\ set.depth \in Nat
  BY <1>1, SetConstants DEF SetStates
<1>3. id + 1 \in 1 .. Len(set.queues)
  <2>1. id \in 0 .. MaxLen + 1 /\ id # Len(set.queues) /\ ~(id > Len(set.queues))
    BY DEF OutOfBounds, TaskIds, NTasks
  <2> QED
    BY <1>1, <1>2, <2>1, SetConstants
<1>4. waiting \in Seq(Callbacks) /\ Len(waiting) <= set.depth
  <2>1. set.queues[id + 1] \in QueueStates
    BY <1>2, <1>3
  <2> QED
    BY <1>1, <1>3, <2>1 DEF QueueStates
<1> HIDE DEF waiting
<1>5. /\ Head(waiting) \in Callbacks /\ Tail(waiting) \in Seq(Callbacks)
      /\ Len(Tail(waiting)) = Len(waiting) - 1
  BY <1>4 DEF waiting
<1> QED
  BY <1>2, <1>3, <1>4, <1>5 DEF waiting, Remaining

LEMMA DequeueShape ==
  ASSUME ShapeInv, NEW id \in TaskIds, Dequeue(id)
  PROVE  ShapeInv'
<1> USE DEF Making, Enqueueing, Freeing, Destroying
<1> DEFINE waiting == set.queues[id + 1].waiting
<1>1. /\ Idle /\ pc = "idle" /\ set # NULL /\ ~OutOfBounds(id) /\ waiting # <<>>
      /\ set' = [set EXCEPT !.queues[id + 1].waiting = Remaining(waiting)]
      /\ held' = held \union {Head(waiting)}
      /\ returned' = [code |-> 0, prio |-> Head(waiting).prio]
      /\ pc' = pc /\ call' = call /\ clean' = clean
  BY DEF Dequeue, Idle, SetReturns
<1>2. /\ id + 1 \in 1 .. Len(set.queues) /\ Head(waiting) \in Callbacks
      /\ Remaining(waiting) \in Seq(Callbacks) /\ Len(Remaining(waiting)) <= set.depth
  BY <1>1, DequeuedCallback
<1>3. /\ pc' = "idle" /\ call' = NULL /\ held' \subseteq Callbacks /\ clean' \in BOOLEAN
  BY <1>1, <1>2 DEF ShapeInv, Types, CallInv
<1>4. returned' \in [code : 0 .. 6 \union {Junk}, prio : Prios \union {NULL}]
  BY <1>1, <1>2 DEF Callbacks
<1> DEFINE i == id + 1
           w == Remaining(waiting)
<1>5. /\ i \in 1 .. Len(set.queues) /\ w \in Seq(Callbacks) /\ Len(w) <= set.depth
      /\ set' = [set EXCEPT !.queues[i].waiting = w]
  BY <1>1, <1>2
<1> HIDE DEF waiting, i, w
<1> QED
  BY <1>1, <1>3, <1>4, <1>5, WaitingChanges

-----------------------------------------------------------------------------
(* free_task_callback, destroy_task_set, and calls without a set. *)

LEMMA FreeDataShape ==
  ASSUME ShapeInv, NEW cb \in held, FreeData(cb)
  PROVE  ShapeInv'
<1> USE DEF Making, Enqueueing, Freeing, Destroying
<1>1. /\ pc = "idle" /\ set # NULL /\ held' = held \ {cb}
      /\ pc' = "free_info" /\ call' = [at |-> cb.at, info |-> cb.info]
      /\ set' = set /\ returned' = returned /\ clean' = clean
  BY DEF FreeData, Idle
<1>2. cb \in Callbacks /\ held' \subseteq Callbacks /\ clean' \in BOOLEAN
  BY <1>1 DEF ShapeInv, Types
<1>3. call' \in [at : 1 .. Cap, info : 1 .. Cap] /\ call' \in Calls
  BY <1>1, <1>2 DEF Callbacks, Calls
<1>4. CallInv'
  BY <1>1, <1>3 DEF CallInv
<1>5. returned' \in [code : 0 .. 6 \union {Junk}, prio : Prios \union {NULL}]
  BY <1>1 DEF ShapeInv, Types
<1> QED
  BY <1>1, <1>2, <1>3, <1>4, <1>5, SetUntouched

LEMMA FreeInfoShape ==
  ASSUME ShapeInv, FreeInfo
  PROVE  ShapeInv'
<1> USE DEF Making, Enqueueing, Freeing, Destroying
<1>1. /\ pc = "free_info" /\ pc' = "free_descriptor" /\ call' = [at |-> call.at]
      /\ set' = set /\ held' = held /\ returned' = returned /\ clean' = clean
  BY DEF FreeInfo
<1>2. /\ set # NULL /\ held' \subseteq Callbacks /\ clean' \in BOOLEAN
      /\ call \in [at : 1 .. Cap, info : 1 .. Cap]
  BY <1>1 DEF ShapeInv, Types, SetInv, CallInv
<1>3. call' \in [at : 1 .. Cap] /\ call' \in Calls
  BY <1>1, <1>2 DEF Calls
<1>4. CallInv'
  BY <1>1, <1>3 DEF CallInv
<1>5. returned' \in [code : 0 .. 6 \union {Junk}, prio : Prios \union {NULL}]
  BY <1>1 DEF ShapeInv, Types
<1> QED
  BY <1>1, <1>2, <1>3, <1>4, <1>5, SetUntouched

LEMMA FreeDescriptorShape ==
  ASSUME ShapeInv, FreeDescriptor
  PROVE  ShapeInv'
<1> USE DEF Making, Enqueueing, Freeing, Destroying
<1>1. /\ pc = "free_descriptor" /\ pc' = "idle" /\ call' = NULL
      /\ returned' = [code |-> Junk, prio |-> NULL]
      /\ set' = set /\ held' = held /\ clean' = clean
  BY DEF FreeDescriptor, SetReturns
<1>2. set # NULL /\ held' \subseteq Callbacks /\ clean' \in BOOLEAN
  BY <1>1 DEF ShapeInv, Types, SetInv
<1>3. returned' \in [code : 0 .. 6 \union {Junk}, prio : Prios \union {NULL}]
  BY <1>1
<1>4. CallInv'
  BY <1>1 DEF CallInv
<1> QED
  BY <1>1, <1>2, <1>3, <1>4, SetUntouched

\* The queue that is destroyed next, and those after it.
LEMMA FirstQueue ==
  ASSUME ShapeInv, DestroySlots
  PROVE  /\ set # NULL /\ set \in SetStates /\ set.queues \in Seq(QueueStates)
         /\ 1 \in 1 .. Len(set.queues) /\ Head(set.queues) = set.queues[1]
         /\ set.queues[1] \in QueueStates /\ set.queues[1].waiting \in Seq(Callbacks)
         /\ set.queues[1].slots \in 1 .. Cap
         /\ set' \in SetStates /\ set' # NULL
         /\ set'.at = set.at /\ set'.tasks = set.tasks /\ set'.depth = set.depth
         /\ set'.queues = Tail(set.queues)
         /\ Len(set'.queues) = Len(set.queues) - 1
         /\ \A i \in 1 .. Len(set'.queues) :
              i + 1 \in 1 .. Len(set.queues) /\ set'.queues[i] = set.queues[i + 1]
<1> USE DEF Making, Enqueueing, Freeing, Destroying
<1> DEFINE s == set.queues
<1>1. set # NULL /\ set \in SetStates /\ s # <<>>
      /\ \A i \in 1 .. Len(s) : s[i].slots # NULL
  BY DEF ShapeInv, Types, SetInv, DestroySlots, Idle
<1>2. s \in Seq(QueueStates)
  BY <1>1 DEF SetStates
<1>3. set' = [set EXCEPT !.queues = Tail(s)]
  BY DEF DestroySlots
<1> HIDE DEF s
<1>4. /\ Tail(s) \in Seq(QueueStates) /\ Len(Tail(s)) = Len(s) - 1 /\ Head(s) = s[1]
      /\ 1 \in 1 .. Len(s) /\ s[1] \in QueueStates
      /\ \A i \in 1 .. Len(s) - 1 : i + 1 \in 1 .. Len(s) /\ Tail(s)[i] = s[i + 1]
  BY <1>1, <1>2
<1>5. s[1].waiting \in Seq(Callbacks) /\ s[1].slots \in 1 .. Cap \union {NULL}
  BY <1>4 DEF QueueStates
<1>6. s[1].slots \in 1 .. Cap
  BY <1>1, <1>4, <1>5 DEF s
<1> DEFINE t == Tail(s)
<1>7. t \in Seq(QueueStates) /\ set' = [set EXCEPT !.queues = t]
  BY <1>3, <1>4
<1> HIDE DEF t
<1>8. /\ set' \in SetStates /\ set'.at = set.at /\ set'.tasks = set.tasks
      /\ set'.depth = set.depth /\ set'.queues = t
  BY <1>1, <1>7 DEF SetStates
<1>9. set' # NULL
  BY <1>8, SetConstants
<1> QED
  BY <1>1, <1>2, <1>4, <1>5, <1>6, <1>8, <1>9 DEF s, t

LEMMA DestroySlotsShape ==
  ASSUME ShapeInv, DestroySlots
  PROVE  ShapeInv'
<1> USE DEF Making, Enqueueing, Freeing, Destroying
<1>1. /\ set # NULL /\ set \in SetStates /\ set.queues \in Seq(QueueStates)
      /\ Head(set.queues) = set.queues[1] /\ set.queues[1] \in QueueStates
      /\ set' \in SetStates /\ set' # NULL
      /\ set'.tasks = set.tasks /\ set'.depth = set.depth
      /\ Len(set'.queues) = Len(set.queues) - 1
      /\ \A i \in 1 .. Len(set'.queues) :
           i + 1 \in 1 .. Len(set.queues) /\ set'.queues[i] = set.queues[i + 1]
  BY FirstQueue
<1>2. /\ Types /\ SetInv /\ pc \in {"idle", "destroy_slots"} /\ held = {}
      /\ \A i \in 1 .. Len(set.queues) : set.queues[i].slots # NULL
      /\ set.tasks # NULL
  BY <1>1 DEF ShapeInv, Types, SetInv, DestroySlots, Idle
<1>3. /\ pc' = "destroy_queue" /\ call' = [queue |-> set.queues[1].at]
      /\ held' = held /\ returned' = returned
  BY <1>1 DEF DestroySlots
<1>4. clean' \in BOOLEAN
  <2>1. clean' = (clean /\ Head(set.queues).waiting = <<>>)
    BY DEF DestroySlots
  <2> QED
    BY <2>1, Zenon
<1>5. call' \in [queue : 1 .. Cap] /\ call' \in Calls
  BY <1>1, <1>3 DEF QueueStates, Calls
<1>6. /\ Len(set'.queues) <= MaxLen
      /\ \A i \in 1 .. Len(set'.queues) : Len(set'.queues[i].waiting) <= set'.depth
  <2>1. Len(set.queues) <= MaxLen /\ Len(set.queues) \in Nat
    BY <1>1, <1>2 DEF Types
  <2> QED
    BY <1>1, <1>2, <2>1, SetConstants DEF Types
<1>7. Types'
  BY <1>1, <1>2, <1>3, <1>4, <1>5, <1>6 DEF Types
<1>8. CallInv'
  BY <1>3, <1>5 DEF CallInv
<1>9. SetInv'
  BY <1>1, <1>2, <1>3 DEF SetInv
<1> QED
  BY <1>7, <1>8, <1>9 DEF ShapeInv

LEMMA DestroyQueueShape ==
  ASSUME ShapeInv, DestroyQueue
  PROVE  ShapeInv'
<1> USE DEF Making, Enqueueing, Freeing, Destroying
<1>1. /\ pc = "destroy_queue" /\ call' = NULL
      /\ set' = set /\ held' = held /\ returned' = returned /\ clean' = clean
  BY DEF DestroyQueue
<1>2. pc' = IF set.queues # <<>> THEN "destroy_slots" ELSE "destroy_tasks"
  BY DEF DestroyQueue
<1>3. Types /\ SetInv /\ set # NULL
  BY <1>1 DEF ShapeInv, SetInv
<1>4. CASE set.queues # <<>> /\ pc' = "destroy_slots"
  <2>1. Types'
    BY <1>1, <1>3, <1>4 DEF Types
  <2>2. CallInv'
    BY <1>1, <1>4 DEF CallInv
  <2>3. SetInv'
    BY <1>1, <1>3, <1>4 DEF SetInv
  <2> QED
    BY <2>1, <2>2, <2>3 DEF ShapeInv
<1>5. CASE set.queues = <<>> /\ pc' = "destroy_tasks"
  <2>1. Types'
    BY <1>1, <1>3, <1>5 DEF Types
  <2>2. CallInv'
    BY <1>1, <1>5 DEF CallInv
  <2>3. SetInv'
    BY <1>1, <1>3, <1>5 DEF SetInv
  <2> QED
    BY <2>1, <2>2, <2>3 DEF ShapeInv
<1> QED
  BY <1>2, <1>4, <1>5

LEMMA DestroyTasksShape ==
  ASSUME ShapeInv, DestroyTasks
  PROVE  ShapeInv'
<1> USE DEF Making, Enqueueing, Freeing, Destroying
<1>1. /\ pc = "destroy_tasks" /\ pc' = "destroy_set" /\ call' = [at |-> set.at]
      /\ set' = NULL /\ held' = held /\ returned' = returned /\ clean' = clean
  BY DEF DestroyTasks
<1>2. Types /\ SetInv /\ set # NULL /\ set \in SetStates /\ held = {}
  BY <1>1 DEF ShapeInv, SetInv, Types
<1>3. call' \in [at : 1 .. Cap] /\ call' \in Calls
  BY <1>1, <1>2 DEF SetStates, Calls
<1>4. Types'
  BY <1>1, <1>2, <1>3 DEF Types
<1>5. CallInv'
  BY <1>1, <1>3 DEF CallInv
<1>6. SetInv'
  BY <1>1, <1>2 DEF SetInv
<1> QED
  BY <1>4, <1>5, <1>6 DEF ShapeInv

LEMMA DestroySetShape ==
  ASSUME ShapeInv, DestroySet
  PROVE  ShapeInv'
<1> USE DEF Making, Enqueueing, Freeing, Destroying
<1>1. /\ pc = "destroy_set" /\ pc' = "idle" /\ call' = NULL
      /\ returned' = [code |-> 0, prio |-> NULL]
      /\ set' = set /\ held' = held /\ clean' = clean
  BY DEF DestroySet, SetReturns
<1>2. Types /\ SetInv /\ set = NULL /\ held = {}
  BY <1>1 DEF ShapeInv, SetInv
<1>3. returned' \in [code : 0 .. 6 \union {Junk}, prio : Prios \union {NULL}]
  BY <1>1
<1>4. Types'
  BY <1>1, <1>2, <1>3 DEF Types
<1>5. CallInv'
  BY <1>1 DEF CallInv
<1>6. SetInv'
  BY <1>1, <1>2 DEF SetInv
<1> QED
  BY <1>4, <1>5, <1>6 DEF ShapeInv

LEMMA NoSetShape ==
  ASSUME ShapeInv, NoSet
  PROVE  ShapeInv'
<1> USE DEF Making, Enqueueing, Freeing, Destroying
<1>1. /\ pc = "idle" /\ set = NULL /\ returned' = [code |-> 1, prio |-> NULL]
      /\ pc' = pc /\ set' = set /\ call' = call /\ held' = held /\ clean' = clean
  BY DEF NoSet, SetReturns, Idle
<1>2. Types /\ SetInv /\ CallInv
  BY DEF ShapeInv
<1>3. returned' \in [code : 0 .. 6 \union {Junk}, prio : Prios \union {NULL}]
  BY <1>1
<1>4. Types'
  BY <1>1, <1>2, <1>3 DEF Types
<1>5. CallInv'
  BY <1>1, <1>2 DEF CallInv
<1>6. SetInv'
  BY <1>1, <1>2 DEF SetInv
<1> QED
  BY <1>4, <1>5, <1>6 DEF ShapeInv

-----------------------------------------------------------------------------
(* Pointers, of any owners, to the blocks of L. *)

\* They reach blocks of L, each of them once, or every block of L.
Sole(O, L) ==
  /\ \A o \in O : o[4] \in L
  /\ \A o, p \in O : o[4] = p[4] => o = p

Covers(O, L) == \A b \in L : \E o \in O : o[4] = b

\* The blocks they reach.
Reached(O) == {o[4] : o \in O}

\* Those that are no null pointers.
Real(O) == {o \in O : o[4] # NULL}

LEMMA FewerPointers ==
  ASSUME NEW O, NEW L, Sole(O, L), NEW P, P \subseteq O
  PROVE  Sole(P, L)
BY DEF Sole

LEMMA PointersLess ==
  ASSUME NEW O, NEW L, Sole(O, L), NEW W, W \subseteq O
  PROVE  /\ Sole(O \ W, L) /\ Sole(W, L)
         /\ Reached(O \ W) = Reached(O) \ Reached(W)
         /\ Reached(W) \subseteq Reached(O)
BY DEF Sole, Reached

LEMMA OneMorePointer ==
  ASSUME NEW O, NEW L, Sole(O, L), NEW n, n[4] \notin L
  PROVE  /\ Sole(O \union {n}, L \union {n[4]})
         /\ Covers(O, L) => Covers(O \union {n}, L \union {n[4]})
         /\ Reached(O \union {n}) = Reached(O) \union {n[4]}
<1>1. Reached(O \union {n}) = Reached(O) \union {n[4]}
  BY DEF Reached
<1>2. /\ Sole(O \union {n}, L \union {n[4]})
      /\ Covers(O, L) => Covers(O \union {n}, L \union {n[4]})
  BY DEF Sole, Covers
<1> QED
  BY <1>1, <1>2

LEMMA OnePointerLess ==
  ASSUME NEW O, NEW L, Sole(O, L), NEW f \in O
  PROVE  /\ f[4] \in L
         /\ Sole(O \ {f}, L \ {f[4]})
         /\ Covers(O, L) => Covers(O \ {f}, L \ {f[4]})
         /\ Reached(O \ {f}) = Reached(O) \ {f[4]} /\ f[4] \in Reached(O)
<1>1. Reached(O \ {f}) = Reached(O) \ {f[4]} /\ f[4] \in Reached(O)
  BY DEF Reached, Sole
<1>2. /\ f[4] \in L
      /\ Sole(O \ {f}, L \ {f[4]})
      /\ Covers(O, L) => Covers(O \ {f}, L \ {f[4]})
  BY DEF Sole, Covers
<1> QED
  BY <1>1, <1>2

\* Each pointer of A becomes one of B, and B has no others.
Moves(A, B, mv) ==
  /\ \A a \in A : mv[a][4] = a[4] /\ mv[a] \in B
  /\ \A b \in B : \E a \in A : b = mv[a]

\* Some of the pointers, A, go to other owners.
LEMMA PointersMove ==
  ASSUME NEW R, NEW A, NEW L, Sole(Real(R \union A), L), R \intersect A = {},
         NEW B, NEW mv, Moves(A, B, mv)
  PROVE  /\ Sole(Real(R \union B), L)
         /\ Covers(Real(R \union A), L) => Covers(Real(R \union B), L)
         /\ Reached(Real(R \union B)) = Reached(Real(R \union A))
<1> USE DEF Moves
<1>1. \A o \in R \union A : o[4] # NULL => o[4] \in L
  BY DEF Sole, Real
<1>2. \A o, p \in R \union A : o[4] # NULL /\ o[4] = p[4] => o = p
  BY DEF Sole, Real
<1>3. \A o \in B : o[4] # NULL => o[4] \in L
  BY <1>1
<1>4. ASSUME NEW o \in R \union B, NEW p \in R \union B, o[4] # NULL, o[4] = p[4]
      PROVE  o = p
  <2>1. CASE o \in R /\ p \in R
    BY <1>2, <1>4, <2>1
  <2>2. CASE o \in R /\ p \in B
    <3>1. PICK a \in A : p = mv[a]
      BY <2>2
    <3>2. a[4] = o[4]
      BY <1>4, <3>1
    <3>3. a = o
      BY <1>2, <1>4, <2>2, <3>2
    <3> QED
      BY <2>2, <3>3
  <2>3. CASE o \in B /\ p \in R
    <3>1. PICK a \in A : o = mv[a]
      BY <2>3
    <3>2. a[4] = p[4]
      BY <1>4, <3>1
    <3>3. a = p
      BY <1>2, <1>4, <2>3, <3>2
    <3> QED
      BY <2>3, <3>3
  <2>4. CASE o \in B /\ p \in B
    <3>1. PICK a \in A : o = mv[a]
      BY <2>4
    <3>2. PICK c \in A : p = mv[c]
      BY <2>4
    <3>3. a[4] = c[4] /\ a[4] # NULL
      BY <1>4, <3>1, <3>2
    <3>4. a = c
      BY <1>2, <3>3
    <3> QED
      BY <3>1, <3>2, <3>4
  <2> QED
    BY <2>1, <2>2, <2>3, <2>4
<1>5. Sole(Real(R \union B), L)
  BY <1>1, <1>3, <1>4 DEF Sole, Real
<1>6. ASSUME Covers(Real(R \union A), L)
      PROVE  Covers(Real(R \union B), L)
  <2> SUFFICES ASSUME NEW l \in L
               PROVE  \E o \in Real(R \union B) : o[4] = l
    BY DEF Covers
  <2>1. PICK o \in Real(R \union A) : o[4] = l
    BY <1>6 DEF Covers
  <2>2. CASE o \in R
    BY <2>1, <2>2 DEF Real
  <2>3. CASE o \in A
    <3>1. mv[o] \in B /\ mv[o][4] = l /\ mv[o][4] # NULL
      BY <1>6, <2>1, <2>3 DEF Real
    <3> QED
      BY <3>1 DEF Real
  <2> QED
    BY <2>1, <2>2, <2>3 DEF Real
<1>7. Reached(Real(R \union B)) = Reached(Real(R \union A))
  <2>1. ASSUME NEW o \in Real(R \union B)
        PROVE  \E p \in Real(R \union A) : p[4] = o[4]
    BY DEF Real
  <2>2. ASSUME NEW o \in Real(R \union A)
        PROVE  \E p \in Real(R \union B) : p[4] = o[4]
    <3>1. CASE o \in R
      BY <3>1 DEF Real
    <3>2. CASE o \in A
      <4>1. mv[o] \in B /\ mv[o][4] = o[4]
        BY <3>2
      <4> QED
        BY <4>1 DEF Real
    <3> QED
      BY <3>1, <3>2 DEF Real
  <2> DEFINE X == Real(R \union B)
             Y == Real(R \union A)
  <2>3. (\A o \in X : \E p \in Y : p[4] = o[4]) /\ (\A o \in Y : \E p \in X : p[4] = o[4])
    BY <2>1, <2>2
  <2> HIDE DEF X, Y
  <2>4. Reached(X) = Reached(Y)
    BY <2>3 DEF Reached
  <2> QED
    BY <2>4 DEF X, Y
<1> QED
  BY <1>5, <1>6, <1>7

-----------------------------------------------------------------------------
(* The pointers of the callbacks, the queues, the set and the calls. *)

LEMMA CallbackPointers ==
  ASSUME NEW i, NEW k, NEW cb, NEW o \in CallbackOwns(i, k, cb)
  PROVE  /\ o[1] \in {"data", "info", "at"} /\ o[2] = i /\ o[3] = k
         /\ o = <<o[1], i, k, o[4]>>
BY DEF CallbackOwns

LEMMA WaitingPointers ==
  ASSUME NEW i, NEW waiting \in Seq(Callbacks)
  PROVE  \A o : o \in WaitingOwns(i, waiting) <=>
                  \E k \in 1 .. Len(waiting) : o \in CallbackOwns(i, k, waiting[k])
BY DEF WaitingOwns

LEMMA HeldPointers ==
  ASSUME NEW callbacks
  PROVE  \A o : o \in HeldOwns(callbacks) <=> \E cb \in callbacks : o \in CallbackOwns(0, cb, cb)
BY DEF HeldOwns

LEMMA SetPointers ==
  ASSUME NEW s \in SetStates
  PROVE  \A o : o \in SetOwns(s) <=>
                  \/ o \in {<<"set", 0, 0, s.at>>, <<"tasks", 0, 0, s.tasks>>}
                  \/ \E i \in 1 .. Len(s.queues) : o \in QueueOwns(i, s.queues[i])
<1>1. s # NULL /\ s.queues \in Seq(QueueStates)
  BY SetConstants DEF SetStates
<1>2. DOMAIN s.queues = 1 .. Len(s.queues)
  BY <1>1
<1> QED
  BY <1>1, <1>2 DEF SetOwns

LEMMA CallPointers ==
  /\ CallOwns(NULL) = {}
  /\ \A c \in [len : 0 .. MaxLen] : CallOwns(c) = {}
  /\ \A c \in [id : 0 .. MaxLen, prio : Prios, data : 1 .. Cap] :
       CallOwns(c) = {<<"data", -1, 0, c.data>>}
  /\ \A c \in [id : 0 .. MaxLen, prio : Prios, data : 1 .. Cap, info : 1 .. Cap] :
       CallOwns(c) = {<<"data", -1, 0, c.data>>, <<"info", -1, 0, c.info>>}
  /\ \A c \in [at : 1 .. Cap, info : 1 .. Cap] :
       CallOwns(c) = {<<"at", -1, 0, c.at>>, <<"info", -1, 0, c.info>>}
  /\ \A c \in [at : 1 .. Cap] : CallOwns(c) = {<<"at", -1, 0, c.at>>}
  /\ \A c \in [queue : 1 .. Cap] : CallOwns(c) = {<<"queue", -1, 0, c.queue>>}
<1>1. CallOwns(NULL) = {}
  BY DEF CallOwns
<1>2. ASSUME NEW c \in Calls
      PROVE  CallOwns(c) = {<<f, -1, 0, c[f]>> : f \in DOMAIN c \intersect {"at", "queue", "data", "info"}}
  BY <1>2, SetConstants DEF CallOwns
<1>3. ASSUME NEW c \in [len : 0 .. MaxLen]
      PROVE  CallOwns(c) = {}
  <2>1. c \in Calls /\ DOMAIN c = {"len"}
    BY <1>3 DEF Calls
  <2> QED
    BY <1>2, <2>1
<1>4. ASSUME NEW c \in [id : 0 .. MaxLen, prio : Prios, data : 1 .. Cap]
      PROVE  CallOwns(c) = {<<"data", -1, 0, c.data>>}
  <2>1. c \in Calls /\ DOMAIN c = {"id", "prio", "data"} /\ c["data"] = c.data
    BY <1>4 DEF Calls
  <2> QED
    BY <1>2, <2>1
<1>5. ASSUME NEW c \in [id : 0 .. MaxLen, prio : Prios, data : 1 .. Cap, info : 1 .. Cap]
      PROVE  CallOwns(c) = {<<"data", -1, 0, c.data>>, <<"info", -1, 0, c.info>>}
  <2>1. c \in Calls /\ DOMAIN c = {"id", "prio", "data", "info"}
    BY <1>5 DEF Calls
  <2> QED
    BY <1>2, <2>1
<1>6. ASSUME NEW c \in [at : 1 .. Cap, info : 1 .. Cap]
      PROVE  CallOwns(c) = {<<"at", -1, 0, c.at>>, <<"info", -1, 0, c.info>>}
  <2>1. c \in Calls /\ DOMAIN c = {"at", "info"}
    BY <1>6 DEF Calls
  <2> QED
    BY <1>2, <2>1
<1>7. ASSUME NEW c \in [at : 1 .. Cap]
      PROVE  CallOwns(c) = {<<"at", -1, 0, c.at>>}
  <2>1. c \in Calls /\ DOMAIN c = {"at"}
    BY <1>7 DEF Calls
  <2> QED
    BY <1>2, <2>1
<1>8. ASSUME NEW c \in [queue : 1 .. Cap]
      PROVE  CallOwns(c) = {<<"queue", -1, 0, c.queue>>}
  <2>1. c \in Calls /\ DOMAIN c = {"queue"}
    BY <1>8 DEF Calls
  <2> QED
    BY <1>2, <2>1
<1> QED
  BY <1>1, <1>3, <1>4, <1>5, <1>6, <1>7, <1>8

LEMMA QueuePointers ==
  ASSUME NEW i, NEW q \in QueueStates
  PROVE  /\ q.waiting \in Seq(Callbacks)
         /\ \A o : o \in QueueOwns(i, q) <=>
                     \/ o \in {<<"queue", i, 0, q.at>>, <<"slots", i, 0, q.slots>>}
                     \/ o \in WaitingOwns(i, q.waiting)
         /\ \A o \in QueueOwns(i, q) : o[2] = i
         /\ \A o \in WaitingOwns(i, q.waiting) : o[1] \in {"data", "info", "at"}
<1>1. q.waiting \in Seq(Callbacks)
  BY DEF QueueStates
<1>2. \A o : o \in QueueOwns(i, q) <=>
               \/ o \in {<<"queue", i, 0, q.at>>, <<"slots", i, 0, q.slots>>}
               \/ o \in WaitingOwns(i, q.waiting)
  BY DEF QueueOwns
<1>3. \A o \in WaitingOwns(i, q.waiting) : o[1] \in {"data", "info", "at"} /\ o[2] = i
  BY <1>1, WaitingPointers, CallbackPointers
<1> QED
  BY <1>1, <1>2, <1>3

\* The pointers in a set but those of its queue i.
OtherPointers(s, i) ==
  {<<"set", 0, 0, s.at>>, <<"tasks", 0, 0, s.tasks>>}
    \union UNION {QueueOwns(j, s.queues[j]) : j \in 1 .. Len(s.queues) \ {i}}

LEMMA OneQueuePointers ==
  ASSUME NEW s \in SetStates, NEW i \in 1 .. Len(s.queues)
  PROVE  /\ SetOwns(s) = OtherPointers(s, i) \union QueueOwns(i, s.queues[i])
         /\ \A o \in OtherPointers(s, i) : o[2] # i
<1>1. s.queues \in Seq(QueueStates)
  BY DEF SetStates
<1>2. \A o : o \in OtherPointers(s, i) <=>
               \/ o \in {<<"set", 0, 0, s.at>>, <<"tasks", 0, 0, s.tasks>>}
               \/ \E j \in 1 .. Len(s.queues) : j # i /\ o \in QueueOwns(j, s.queues[j])
  BY DEF OtherPointers
<1>3. ASSUME NEW o
      PROVE  o \in SetOwns(s) <=> o \in OtherPointers(s, i) \/ o \in QueueOwns(i, s.queues[i])
  BY <1>2, SetPointers
<1>4. ASSUME NEW o \in OtherPointers(s, i)
      PROVE  o[2] # i
  <2>1. CASE o \in {<<"set", 0, 0, s.at>>, <<"tasks", 0, 0, s.tasks>>}
    <3>1. o[2] = 0
      BY <2>1
    <3> QED
      BY <1>1, <3>1
  <2>2. CASE \E j \in 1 .. Len(s.queues) : j # i /\ o \in QueueOwns(j, s.queues[j])
    <3>1. PICK j \in 1 .. Len(s.queues) : j # i /\ o \in QueueOwns(j, s.queues[j])
      BY <2>2
    <3>2. s.queues[j] \in QueueStates
      BY <1>1
    <3>3. o[2] = j
      BY <3>1, <3>2, QueuePointers
    <3> QED
      BY <3>1, <3>3
  <2> QED
    BY <1>2, <2>1, <2>2
<1> QED
  BY <1>3, <1>4

\* Two sets that differ in queue i have the other pointers in common.
LEMMA OtherPointersStay ==
  ASSUME NEW s \in SetStates, NEW t \in SetStates, NEW i,
         t.at = s.at, t.tasks = s.tasks, Len(t.queues) = Len(s.queues),
         \A j \in 1 .. Len(s.queues) : j # i => t.queues[j] = s.queues[j]
  PROVE  OtherPointers(t, i) = OtherPointers(s, i)
<1> DEFINE D == 1 .. Len(s.queues) \ {i}
<1>1. \A j \in D : t.queues[j] = s.queues[j]
  OBVIOUS
<1>2. UNION {QueueOwns(j, t.queues[j]) : j \in D} = UNION {QueueOwns(j, s.queues[j]) : j \in D}
  BY <1>1
<1> QED
  BY <1>2 DEF OtherPointers

-----------------------------------------------------------------------------
(* Whose the blocks are.  While no call has failed half-way and no callback *)
(* was abandoned, somebody can reach each. *)

OwnInv ==
  /\ Sole(Owns, live)
  /\ clean => Covers(Owns, live)

Pointers == SetOwns(set) \union HeldOwns(held) \union CallOwns(call)

LEMMA OwnsAreReal ==
  Owns = Real(Pointers)
BY DEF Owns, Real, Pointers

\* A step that takes no block from its last owner loses nothing.
LEMMA OwnedAreReached ==
  Owned = Reached(Owns)
BY DEF Owned, Reached

LEMMA MovedNotLost ==
  ASSUME Reached(Owns)' = Reached(Owns), live' = live
  PROVE  LossStep
BY OwnedAreReached DEF LossStep, Lost, Owned, Reached

LEMMA TakenNotLost ==
  ASSUME NEW g, g \notin live, Reached(Owns)' = Reached(Owns) \union {g}, live' = live \union {g}
  PROVE  LossStep
<1>1. Owned' = Owned \union {g}
  BY DEF Owned, Reached
<1>2. Lost' = Lost
  BY <1>1 DEF Lost
<1> QED
  BY <1>2 DEF LossStep

LEMMA GivenNotLost ==
  ASSUME NEW b \in Reached(Owns), Reached(Owns)' = Reached(Owns) \ {b}, live' = live \ {b}
  PROVE  LossStep
<1>1. Owned' = Owned \ {b} /\ b \in Owned
  BY DEF Owned, Reached
<1>2. Lost' = Lost
  BY <1>1 DEF Lost
<1> QED
  BY <1>2 DEF LossStep

LEMMA OwnsStay ==
  ASSUME OwnInv, UNCHANGED <<set, held, call>>, live' = live, clean' = clean
  PROVE  OwnInv' /\ LossStep
<1>1. Owns' = Owns
  BY DEF Owns
<1>2. OwnInv'
  BY <1>1 DEF OwnInv
<1>3. Reached(Owns)' = Reached(Owns)
  BY <1>1 DEF Reached
<1> QED
  BY <1>2, <1>3, MovedNotLost

LEMMA OwnsFewer ==
  ASSUME OwnInv, Owns' \subseteq Owns, live \subseteq live', clean' = FALSE
  PROVE  OwnInv'
<1>1. Sole(Owns', live')
  BY DEF OwnInv, Sole
<1> QED
  BY <1>1 DEF OwnInv

\* What is lost when some pointers are forgotten.
LEMMA Forgotten ==
  ASSUME OwnInv, Owns' \subseteq Owns, live \subseteq live'
  PROVE  /\ Lost \subseteq Lost'
         /\ Lost' \ Lost = Reached(Owns \ Owns') \union (live' \ live)
         /\ Reached(Owns) \subseteq live
<1>1. Owned = Reached(Owns) /\ Owned' = Reached(Owns')
  BY DEF Owned, Reached
<1>2. Sole(Owns, live)
  BY DEF OwnInv
<1>3. Reached(Owns) \subseteq live /\ Reached(Owns') \subseteq Reached(Owns)
  BY <1>2 DEF Reached, Sole
<1>4. Reached(Owns) \ Reached(Owns') = Reached(Owns \ Owns')
  BY <1>2 DEF Reached, Sole
<1> QED
  BY <1>1, <1>3, <1>4 DEF Lost

LEMMA OwnsTake ==
  ASSUME OwnInv, NEW n, n[4] \notin live, Owns' = Owns \union {n},
         live' = live \union {n[4]}, clean' = clean
  PROVE  OwnInv' /\ LossStep
<1>1. /\ Sole(Owns', live') /\ (Covers(Owns, live) => Covers(Owns', live'))
      /\ Reached(Owns') = Reached(Owns) \union {n[4]}
  BY OneMorePointer DEF OwnInv
<1>2. OwnInv'
  BY <1>1 DEF OwnInv
<1>3. Reached(Owns)' = Reached(Owns) \union {n[4]}
  BY <1>1 DEF Reached
<1> QED
  BY <1>2, <1>3, TakenNotLost

LEMMA OwnsGive ==
  ASSUME OwnInv, NEW f \in Owns, Owns' = Owns \ {f},
         live' = live \ {f[4]}, clean' = clean
  PROVE  OwnInv' /\ LossStep
<1>1. /\ Sole(Owns', live') /\ (Covers(Owns, live) => Covers(Owns', live'))
      /\ Reached(Owns') = Reached(Owns) \ {f[4]} /\ f[4] \in Reached(Owns)
  BY OnePointerLess DEF OwnInv
<1>2. OwnInv'
  BY <1>1 DEF OwnInv
<1>3. Reached(Owns)' = Reached(Owns) \ {f[4]}
  BY <1>1 DEF Reached
<1> QED
  BY <1>1, <1>2, <1>3, GivenNotLost

-----------------------------------------------------------------------------
(* make_task_set. *)

\* Between two calls without a set nobody can reach anything.
LEMMA NothingOwned ==
  ASSUME ShapeInv, set = NULL, pc = "idle"
  PROVE  Owns = {}
<1>1. held = {} /\ call = NULL
  BY DEF ShapeInv, SetInv, CallInv
<1>2. SetOwns(set) = {} /\ HeldOwns(held) = {} /\ CallOwns(call) = {}
  BY <1>1 DEF SetOwns, HeldOwns, CallOwns
<1> QED
  BY <1>2 DEF Owns

\* While a set is made its own pointers are all there are.
LEMMA OnlySetOwns ==
  ASSUME ShapeInv, pc \in Making
  PROVE  Owns = Real(SetOwns(set))
<1>1. held = {} /\ CallOwns(call) = {}
  <2>1. call = NULL \/ call \in [len : 0 .. MaxLen]
    BY DEF ShapeInv, CallInv
  <2>2. held = {}
    BY DEF ShapeInv, SetInv, Making, Destroying
  <2> QED
    BY <2>1, <2>2, CallPointers
<1>2. HeldOwns(held) = {}
  BY <1>1 DEF HeldOwns
<1> QED
  BY <1>1, <1>2 DEF Owns, Real

LEMMA MakeSetOwns ==
  ASSUME IInv, ShapeInv, ShapeInv', OwnInv, NEW shape \in Shapes, MakeSet(shape)
  PROVE  MemoryStep /\ OwnInv' /\ LossStep
<1>1. pc = "idle" /\ set = NULL /\ held' = held /\ held = {}
  BY DEF ShapeInv, MakeSet, Idle, SetInv
<1>2. Owns = {} /\ call = NULL
  BY <1>1, NothingOwned DEF ShapeInv, CallInv
<1>3. CASE Denied(SetBytes) /\ MakeFails /\ UNCHANGED clean
  <2>1. MemoryStep /\ live' = live
    BY <1>3, SetConstants, DeniedKeeps
  <2>2. set' = set /\ call' = call
    BY <1>1, <1>2, <1>3 DEF MakeFails, CallEnds
  <2> QED
    BY <1>1, <1>3, <2>1, <2>2, OwnsStay
<1>4. CASE /\ Granted(SetBytes)
           /\ pc' = "make_tasks" /\ call' = [len |-> shape.len]
           /\ set' = [at |-> Got, tasks |-> NULL, depth |-> shape.depth, queues |-> <<>>]
           /\ UNCHANGED <<returned, clean>>
  <2>1. MemoryStep /\ Got \in 1 .. Cap /\ Got \notin live /\ live' = live \union {Got}
    BY <1>4, SetConstants, GrantedTakes
  <2>2. Got # NULL /\ set' # NULL /\ set' \in SetStates
    BY <1>4, <2>1, SetConstants DEF ShapeInv, Types, SetInv, Destroying
  <2>3. \A o : o \in SetOwns(set') <=>
                 o \in {<<"set", 0, 0, Got>>, <<"tasks", 0, 0, NULL>>}
    <3>1. set'.at = Got /\ set'.tasks = NULL /\ 1 .. Len(set'.queues) = {}
      BY <1>4
    <3> QED
      BY <2>2, <3>1, SetPointers
  <2>4. Owns' = Real(SetOwns(set'))
    <3>1. CallOwns(call') = {} /\ HeldOwns(held') = {}
      BY <1>1, <1>4, CallPointers DEF ShapeInv, CallInv, Making, HeldOwns
    <3> QED
      BY <3>1 DEF Owns, Real
  <2>5. Owns' = Owns \union {<<"set", 0, 0, Got>>}
    BY <1>2, <2>2, <2>3, <2>4 DEF Real
  <2> QED
    BY <1>4, <2>1, <2>5, OwnsTake
<1> QED
  BY <1>3, <1>4 DEF MakeSet

LEMMA MakeFailsOwns ==
  ASSUME ShapeInv', OwnInv, MakeFails, clean' = FALSE, live' = live, pc \in Making
  PROVE  OwnInv' /\ LossStep
<1>1. pc' = "idle" /\ set' = NULL /\ call' = NULL
  BY DEF MakeFails, CallEnds
<1>2. held' = {}
  BY <1>1 DEF ShapeInv, SetInv
<1>3. SetOwns(set') = {} /\ HeldOwns(held') = {} /\ CallOwns(call') = {}
  BY <1>1, <1>2 DEF SetOwns, HeldOwns, CallOwns
<1>4. Owns' = {}
  BY <1>3 DEF Owns
<1>5. OwnInv'
  BY <1>4, OwnsFewer
<1>6. Lost \subseteq Lost' /\ Lost' \ Lost = Reached(Owns) /\ Reached(Owns) = Owned
  BY <1>4, Forgotten, OwnedAreReached
<1> QED
  BY <1>1, <1>5, <1>6 DEF LossStep, Making

LEMMA MakeTasksOwns ==
  ASSUME IInv, ShapeInv, ShapeInv', OwnInv, MakeTasks
  PROVE  MemoryStep /\ OwnInv' /\ LossStep
<1>1. pc = "make_tasks" /\ pc \in Making /\ held' = held
  BY DEF MakeTasks, Making
<1>2. call.len * TaskBytes \in Requests /\ set \in SetStates /\ set # NULL /\ held = {}
  BY <1>1, InMaking
<1>3. CASE Denied(call.len * TaskBytes) /\ MakeFails /\ clean' = FALSE
  BY <1>1, <1>2, <1>3, DeniedKeeps, MakeFailsOwns
<1>4. CASE /\ Granted(call.len * TaskBytes)
           /\ pc' = "make_queue"
           /\ set' = [set EXCEPT !.tasks = Got]
           /\ UNCHANGED <<call, returned, clean>>
  <2>1. MemoryStep /\ Got \in 1 .. Cap /\ Got \notin live /\ live' = live \union {Got}
    BY <1>2, <1>4, GrantedTakes
  <2>2. Got # NULL /\ set' # NULL /\ set' \in SetStates
    BY <1>4, <2>1, SetConstants DEF ShapeInv, Types, SetInv, Destroying
  <2>3. set.tasks = NULL /\ set.queues = <<>> /\ set'.at = set.at /\ set'.tasks = Got
        /\ set'.queues = <<>>
    <3>1. set.tasks = NULL /\ set.queues = <<>>
      BY <1>1, <1>2 DEF ShapeInv, SetInv
    <3> QED
      BY <1>2, <1>4, <3>1 DEF SetStates
  <2>4. /\ \A o : o \in SetOwns(set) <=>
                    o \in {<<"set", 0, 0, set.at>>, <<"tasks", 0, 0, NULL>>}
        /\ \A o : o \in SetOwns(set') <=>
                    o \in {<<"set", 0, 0, set.at>>, <<"tasks", 0, 0, Got>>}
    <3>1. 1 .. Len(set.queues) = {} /\ 1 .. Len(set'.queues) = {}
      BY <2>3
    <3> QED
      BY <1>2, <2>2, <2>3, <3>1, SetPointers
  <2>5. Owns = Real(SetOwns(set)) /\ Owns' = Real(SetOwns(set'))
    <3>1. CallOwns(call') = {} /\ HeldOwns(held') = {}
      BY <1>1, <1>2, <1>4, CallPointers DEF ShapeInv, CallInv, Making, HeldOwns
    <3>3. Owns = Real(SetOwns(set))
      BY <1>1, OnlySetOwns
    <3>4. Owns' = Real(SetOwns(set'))
      BY <3>1 DEF Owns, Real
    <3> QED
      BY <3>3, <3>4
  <2>6. Owns' = Owns \union {<<"tasks", 0, 0, Got>>}
    BY <2>2, <2>4, <2>5 DEF Real
  <2> QED
    BY <1>4, <2>1, <2>6, OwnsTake
<1> QED
  BY <1>3, <1>4 DEF MakeTasks

LEMMA MakeQueueOwns ==
  ASSUME IInv, ShapeInv, ShapeInv', OwnInv, MakeQueue
  PROVE  MemoryStep /\ OwnInv' /\ LossStep
<1>1. pc = "make_queue" /\ pc \in Making /\ held' = held
  BY DEF MakeQueue, Making
<1>2. set \in SetStates /\ set # NULL /\ held = {} /\ set.queues \in Seq(QueueStates)
  BY <1>1, InMaking
<1> DEFINE q == [at |-> Got, slots |-> NULL, waiting |-> <<>>]
           n == Len(set.queues)
<1>3. CASE Denied(QueueBytes) /\ MakeFails /\ clean' = FALSE
  BY <1>1, <1>3, SetConstants, DeniedKeeps, MakeFailsOwns
<1>4. CASE /\ Granted(QueueBytes)
           /\ pc' = "make_slots"
           /\ set' = [set EXCEPT !.queues = Append(@, q)]
           /\ UNCHANGED <<call, returned, clean>>
  <2>1. MemoryStep /\ Got \in 1 .. Cap /\ Got \notin live /\ live' = live \union {Got}
    BY <1>4, SetConstants, GrantedTakes
  <2>2. Got # NULL /\ set' # NULL /\ set' \in SetStates
    BY <1>4, <2>1, SetConstants DEF ShapeInv, Types, SetInv, Destroying
  <2>3. q \in QueueStates /\ q.at = Got /\ q.slots = NULL /\ q.waiting = <<>>
    BY <2>1 DEF QueueStates
  <2> HIDE DEF q
  <2>4. set'.at = set.at /\ set'.tasks = set.tasks /\ set'.queues = Append(set.queues, q)
    BY <1>2, <1>4 DEF SetStates
  <2>5. /\ n \in Nat /\ Len(set'.queues) = n + 1 /\ set'.queues[n + 1] = q
        /\ \A i \in 1 .. n : set'.queues[i] = set.queues[i]
        /\ \A i : i \in 1 .. n + 1 <=> i \in 1 .. n \/ i = n + 1
    BY <1>2, <2>3, <2>4
  <2>6. \A o : o \in QueueOwns(n + 1, q) <=>
                 o \in {<<"queue", n + 1, 0, Got>>, <<"slots", n + 1, 0, NULL>>}
    <3>1. \A o : o \notin WaitingOwns(n + 1, <<>>)
      BY DEF WaitingOwns
    <3> QED
      BY <2>3, <3>1, QueuePointers
  <2> HIDE DEF n
  <2>7. \A o : o \in SetOwns(set') <=>
                 o \in SetOwns(set) \/ o \in QueueOwns(n + 1, q)
    <3>1. \A o : o \in SetOwns(set) <=>
                   \/ o \in {<<"set", 0, 0, set.at>>, <<"tasks", 0, 0, set.tasks>>}
                   \/ \E i \in 1 .. n : o \in QueueOwns(i, set.queues[i])
      BY <1>2, SetPointers DEF n
    <3>2. \A o : o \in SetOwns(set') <=>
                   \/ o \in {<<"set", 0, 0, set.at>>, <<"tasks", 0, 0, set.tasks>>}
                   \/ \E i \in 1 .. n + 1 : o \in QueueOwns(i, set'.queues[i])
      BY <2>2, <2>4, <2>5, SetPointers
    <3> QED
      BY <2>5, <3>1, <3>2
  <2>8. Owns = Real(SetOwns(set)) /\ Owns' = Real(SetOwns(set'))
    <3>1. CallOwns(call') = {} /\ HeldOwns(held') = {}
      BY <1>1, <1>2, <1>4, CallPointers DEF ShapeInv, CallInv, Making, HeldOwns
    <3>3. Owns = Real(SetOwns(set))
      BY <1>1, OnlySetOwns
    <3>4. Owns' = Real(SetOwns(set'))
      BY <3>1 DEF Owns, Real
    <3> QED
      BY <3>3, <3>4
  <2>9. Owns' = Owns \union {<<"queue", n + 1, 0, Got>>}
    BY <2>2, <2>6, <2>7, <2>8 DEF Real
  <2> QED
    BY <1>4, <2>1, <2>9, OwnsTake
<1> QED
  BY <1>3, <1>4 DEF MakeQueue

LEMMA MakeSlotsOwns ==
  ASSUME IInv, ShapeInv, ShapeInv', OwnInv, MakeSlots
  PROVE  MemoryStep /\ OwnInv' /\ LossStep
<1>1. pc = "make_slots" /\ pc \in Making /\ held' = held
  BY DEF MakeSlots, Making
<1>2. /\ set \in SetStates /\ set # NULL /\ held = {} /\ set.queues \in Seq(QueueStates)
      /\ set.depth * PointerBytes \in Requests
  BY <1>1, InMaking
<1> DEFINE n == Len(set.queues)
<1>3. CASE Denied(set.depth * PointerBytes) /\ MakeFails /\ clean' = FALSE
  BY <1>1, <1>2, <1>3, DeniedKeeps, MakeFailsOwns
<1>4. CASE /\ Granted(set.depth * PointerBytes)
           /\ set' = [set EXCEPT !.queues[n].slots = Got]
           /\ UNCHANGED clean
           /\ call' = call \/ call' = NULL
  <2>1. MemoryStep /\ Got \in 1 .. Cap /\ Got \notin live /\ live' = live \union {Got}
    BY <1>2, <1>4, GrantedTakes
  <2>2. Got # NULL
    BY <2>1, SetConstants
  <2>3. n \in 1 .. n /\ set.queues[n].slots = NULL /\ set.queues[n].waiting = <<>>
    <3>1. Len(set.queues) \in 1 .. call.len
      BY <1>1 DEF ShapeInv, SetInv
    <3>2. n \in 1 .. n
      BY <1>2, <3>1
    <3> QED
      BY <1>1, <1>2, <3>2 DEF ShapeInv, SetInv
  <2> DEFINE q == [set.queues[n] EXCEPT !.slots = Got]
  <2>4. /\ q \in QueueStates /\ q.slots = Got /\ q.waiting = <<>>
        /\ set.queues[n] \in QueueStates /\ q.at = set.queues[n].at
    <3>1. set.queues[n] \in QueueStates
      BY <1>2, <2>3
    <3> QED
      BY <2>1, <2>3, <3>1 DEF QueueStates
  <2>5. set' = [set EXCEPT !.queues[n] = q]
    BY <1>4
  <2> HIDE DEF n, q
  <2>6. /\ set' \in SetStates /\ set'.at = set.at /\ set'.tasks = set.tasks
        /\ Len(set'.queues) = n /\ set'.queues[n] = q
        /\ \A j \in 1 .. n : j # n => set'.queues[j] = set.queues[j]
    <3>1. n \in 1 .. Len(set.queues)
      BY <2>3 DEF n
    <3> QED
      BY <1>2, <2>4, <2>5, <3>1, OneQueueChanges DEF n
  <2>7. /\ SetOwns(set) = OtherPointers(set, n) \union QueueOwns(n, set.queues[n])
        /\ SetOwns(set') = OtherPointers(set, n) \union QueueOwns(n, q)
    BY <1>2, <2>3, <2>6, OneQueuePointers, OtherPointersStay DEF n
  <2>8. \A o : o \notin WaitingOwns(n, <<>>)
    BY DEF WaitingOwns
  <2>9. /\ \A o : o \in QueueOwns(n, set.queues[n]) <=>
                    o \in {<<"queue", n, 0, q.at>>, <<"slots", n, 0, NULL>>}
        /\ \A o : o \in QueueOwns(n, q) <=>
                    o \in {<<"queue", n, 0, q.at>>, <<"slots", n, 0, Got>>}
    BY <2>3, <2>4, <2>8, QueuePointers DEF n
  <2>10. Owns = Real(SetOwns(set)) /\ Owns' = Real(SetOwns(set'))
    <3>1. call \in [len : 0 .. MaxLen]
      BY <1>1 DEF ShapeInv, CallInv
    <3>2. CallOwns(call') = {} /\ HeldOwns(held') = {}
      BY <1>1, <1>2, <1>4, <3>1, CallPointers DEF HeldOwns
    <3>3. Owns = Real(SetOwns(set))
      BY <1>1, OnlySetOwns
    <3>4. Owns' = Real(SetOwns(set'))
      BY <3>2 DEF Owns, Real
    <3> QED
      BY <3>3, <3>4
  <2>11. Owns' = Owns \union {<<"slots", n, 0, Got>>}
    BY <2>2, <2>7, <2>9, <2>10 DEF Real
  <2> QED
    BY <1>4, <2>1, <2>11, OwnsTake
<1> QED
  BY <1>3, <1>4 DEF MakeSlots

-----------------------------------------------------------------------------
(* enqueue_callback_for_task. *)

\* The pointers in a set and in what callers hold are told from those of a call.
LEMMA TasksOfPointers ==
  /\ \A s \in SetStates : \A o \in SetOwns(s) : o[2] \in Nat
  /\ \A callbacks : \A o \in HeldOwns(callbacks) : o[2] = 0
<1>1. ASSUME NEW s \in SetStates, NEW o \in SetOwns(s)
      PROVE  o[2] \in Nat
  <2>1. s.queues \in Seq(QueueStates)
    BY DEF SetStates
  <2>2. CASE o \in {<<"set", 0, 0, s.at>>, <<"tasks", 0, 0, s.tasks>>}
    BY <2>2
  <2>3. CASE \E i \in 1 .. Len(s.queues) : o \in QueueOwns(i, s.queues[i])
    <3>1. PICK i \in 1 .. Len(s.queues) : o \in QueueOwns(i, s.queues[i])
      BY <2>3
    <3>2. s.queues[i] \in QueueStates
      BY <2>1
    <3>3. o[2] = i
      BY <3>1, <3>2, QueuePointers
    <3> QED
      BY <3>3
  <2> QED
    BY <2>2, <2>3, SetPointers
<1>2. ASSUME NEW callbacks, NEW o \in HeldOwns(callbacks)
      PROVE  o[2] = 0
  BY HeldPointers, CallbackPointers
<1> QED
  BY <1>1, <1>2

\* The pointers that no call holds.
AtRest == SetOwns(set) \union HeldOwns(held)

LEMMA AtRestPointers ==
  ASSUME ShapeInv
  PROVE  /\ \A o \in AtRest : o[2] # -1
         /\ Owns = Real(AtRest \union CallOwns(call))
         /\ \A b \in 1 .. Cap : b # NULL
<1>1. ASSUME NEW o \in SetOwns(set)
      PROVE  o[2] # -1
  <2>1. set # NULL
    BY DEF SetOwns
  <2>2. set \in SetStates
    BY <2>1 DEF ShapeInv, Types
  <2>3. o[2] \in Nat
    BY <2>2, TasksOfPointers
  <2> QED
    BY <2>3
<1>2. ASSUME NEW o \in HeldOwns(held)
      PROVE  o[2] # -1
  <2>1. o[2] = 0
    BY TasksOfPointers
  <2> QED
    BY <2>1
<1>3. Owns = Real(AtRest \union CallOwns(call))
  BY DEF Owns, Real, AtRest
<1> QED
  BY <1>1, <1>2, <1>3, SetConstants DEF AtRest

\* When only the locals of the call change.
LEMMA OnlyCallChanges ==
  ASSUME UNCHANGED <<set, held>>
  PROVE  Owns' = Real(AtRest \union CallOwns(call'))
BY DEF Owns, Real, AtRest

LEMMA EnqueueDataOwns ==
  ASSUME IInv, ShapeInv, ShapeInv', OwnInv, NEW id \in TaskIds, NEW m \in Messages,
         EnqueueData(id, m)
  PROVE  MemoryStep /\ OwnInv' /\ LossStep
<1>1. /\ pc = "idle" /\ set' = set /\ held' = held /\ clean' = clean /\ call = NULL
  BY DEF EnqueueData, Idle, ShapeInv, CallInv
<1>2. CASE Denied(m.bytes) /\ CallEnds(3)
  <2>1. MemoryStep /\ live' = live
    BY <1>2, SetConstants, DeniedKeeps
  <2>2. call' = call
    BY <1>1, <1>2 DEF CallEnds
  <2> QED
    BY <1>1, <2>1, <2>2, OwnsStay
<1>3. CASE /\ Granted(m.bytes)
           /\ pc' = "enqueue_info"
           /\ call' = [id |-> id, prio |-> m.prio, data |-> Got]
  <2>1. MemoryStep /\ Got \in 1 .. Cap /\ Got \notin live /\ live' = live \union {Got}
    BY <1>3, SetConstants, GrantedTakes
  <2>2. call' \in [id : 0 .. MaxLen, prio : Prios, data : 1 .. Cap] /\ call'.data = Got
    BY <1>3 DEF ShapeInv, CallInv
  <2>3. CallOwns(call) = {} /\ CallOwns(call') = {<<"data", -1, 0, Got>>}
    BY <1>1, <2>2, CallPointers
  <2>4. Owns = Real(AtRest \union CallOwns(call)) /\ Got # NULL
    BY <2>1, AtRestPointers
  <2>5. Owns' = Real(AtRest \union CallOwns(call'))
    BY <1>1, OnlyCallChanges
  <2>6. Owns' = Owns \union {<<"data", -1, 0, Got>>}
    BY <2>3, <2>4, <2>5 DEF Real
  <2> QED
    BY <1>1, <2>1, <2>6, OwnsTake
<1> QED
  BY <1>2, <1>3 DEF EnqueueData

LEMMA EnqueueInfoOwns ==
  ASSUME IInv, ShapeInv, ShapeInv', OwnInv, EnqueueInfo
  PROVE  MemoryStep /\ OwnInv' /\ LossStep
<1>1. /\ pc = "enqueue_info" /\ set' = set /\ held' = held
      /\ call \in [id : 0 .. MaxLen, prio : Prios, data : 1 .. Cap]
  BY DEF EnqueueInfo, ShapeInv, CallInv
<1>2. /\ Owns = Real(AtRest \union CallOwns(call))
      /\ Owns' = Real(AtRest \union CallOwns(call'))
      /\ CallOwns(call) = {<<"data", -1, 0, call.data>>}
  BY <1>1, AtRestPointers, OnlyCallChanges, CallPointers
<1>3. CASE Denied(InfoBytes) /\ CallEnds(4) /\ clean' = FALSE
  <2>1. MemoryStep /\ live' = live
    BY <1>3, SetConstants, DeniedKeeps
  <2>2. CallOwns(call') = {}
    BY <1>3, CallPointers DEF CallEnds
  <2> DEFINE f == <<"data", -1, 0, call.data>>
  <2>3. Owns' \subseteq Owns /\ Owns \ Owns' = {f}
    <3>1. f[2] = -1 /\ f[4] # NULL
      BY <1>1, AtRestPointers
    <3>2. Owns = Real(AtRest \union {f}) /\ Owns' = Real(AtRest)
      BY <1>2, <2>2
    <3> HIDE DEF f
    <3> QED
      BY <3>1, <3>2, AtRestPointers DEF Real
  <2>4. Lost \subseteq Lost' /\ Lost' \ Lost = {call.data}
    <3>1. Reached({f}) = {call.data}
      BY DEF Reached
    <3> HIDE DEF f
    <3> QED
      BY <2>1, <2>3, <3>1, Forgotten
  <2>5. Cardinality({call.data}) = 1
    BY FS_Singleton
  <2>6. LossStep
    <3>1. returned'.code = 4 /\ pc' = "idle"
      BY <1>3 DEF CallEnds, SetReturns
    <3> QED
      BY <1>1, <2>4, <2>5, <3>1 DEF LossStep
  <2>7. OwnInv'
    BY <1>3, <2>1, <2>3, OwnsFewer
  <2> QED
    BY <2>1, <2>6, <2>7
<1>4. CASE /\ Granted(InfoBytes)
           /\ pc' = "enqueue_descriptor"
           /\ call' = [id |-> call.id, prio |-> call.prio, data |-> call.data, info |-> Got]
           /\ UNCHANGED <<returned, clean>>
  <2>1. MemoryStep /\ Got \in 1 .. Cap /\ Got \notin live /\ live' = live \union {Got}
    BY <1>4, SetConstants, GrantedTakes
  <2>2. /\ call' \in [id : 0 .. MaxLen, prio : Prios, data : 1 .. Cap, info : 1 .. Cap]
        /\ call'.data = call.data /\ call'.info = Got
    BY <1>4 DEF ShapeInv, CallInv
  <2>3. CallOwns(call') = {<<"data", -1, 0, call.data>>, <<"info", -1, 0, Got>>}
    BY <2>2, CallPointers
  <2>4. Got # NULL
    BY <2>1, AtRestPointers
  <2>5. Owns' = Owns \union {<<"info", -1, 0, Got>>}
    BY <1>2, <2>3, <2>4 DEF Real
  <2> QED
    BY <1>4, <2>1, <2>5, OwnsTake
<1> QED
  BY <1>3, <1>4 DEF EnqueueInfo

\* One more callback waits with task i.
LEMMA EnqueuedPointers ==
  ASSUME NEW i, NEW waiting \in Seq(Callbacks), NEW cb \in Callbacks
  PROVE  WaitingOwns(i, Append(waiting, cb)) =
           WaitingOwns(i, waiting) \union CallbackOwns(i, Len(waiting) + 1, cb)
<1> DEFINE n == Len(waiting)
           w == Append(waiting, cb)
<1>1. /\ w \in Seq(Callbacks) /\ Len(w) = n + 1 /\ n \in Nat /\ w[n + 1] = cb
      /\ \A k \in 1 .. n : w[k] = waiting[k]
      /\ \A k : k \in 1 .. n + 1 <=> k \in 1 .. n \/ k = n + 1
  OBVIOUS
<1> HIDE DEF n, w
<1>2. \A o : o \in WaitingOwns(i, w) <=> \E k \in 1 .. n + 1 : o \in CallbackOwns(i, k, w[k])
  BY <1>1, WaitingPointers
<1>3. \A o : o \in WaitingOwns(i, waiting) <=>
               \E k \in 1 .. n : o \in CallbackOwns(i, k, waiting[k])
  BY WaitingPointers DEF n
<1>4. \A o : o \in WaitingOwns(i, w) <=>
               o \in WaitingOwns(i, waiting) \/ o \in CallbackOwns(i, n + 1, cb)
  BY <1>1, <1>2, <1>3
<1>5. WaitingOwns(i, w) = WaitingOwns(i, waiting) \union CallbackOwns(i, n + 1, cb)
  BY <1>4
<1> QED
  BY <1>5 DEF n, w

\* The pointers in a set but those of the callbacks that wait with task i.
AroundWaiting(s, i) ==
  OtherPointers(s, i)
    \union {<<"queue", i, 0, s.queues[i].at>>, <<"slots", i, 0, s.queues[i].slots>>}

LEMMA WaitingPart ==
  ASSUME NEW s \in SetStates, NEW i \in 1 .. Len(s.queues)
  PROVE  /\ SetOwns(s) = AroundWaiting(s, i) \union WaitingOwns(i, s.queues[i].waiting)
         /\ \A o \in AroundWaiting(s, i) : o[2] = i => o[1] \in {"queue", "slots"}
         /\ s.queues[i].waiting \in Seq(Callbacks)
<1>1. s.queues[i] \in QueueStates
  BY DEF SetStates
<1>2. /\ SetOwns(s) = OtherPointers(s, i) \union QueueOwns(i, s.queues[i])
      /\ \A o \in OtherPointers(s, i) : o[2] # i
  BY OneQueuePointers
<1>3. SetOwns(s) = AroundWaiting(s, i) \union WaitingOwns(i, s.queues[i].waiting)
  BY <1>2 DEF AroundWaiting, QueueOwns
<1>4. \A o \in AroundWaiting(s, i) : o[2] = i => o[1] \in {"queue", "slots"}
  BY <1>2 DEF AroundWaiting
<1> QED
  BY <1>1, <1>3, <1>4 DEF QueueStates

LEMMA AroundStays ==
  ASSUME NEW s \in SetStates, NEW t \in SetStates, NEW i \in 1 .. Len(s.queues),
         t.at = s.at, t.tasks = s.tasks, Len(t.queues) = Len(s.queues),
         t.queues[i].at = s.queues[i].at, t.queues[i].slots = s.queues[i].slots,
         \A j \in 1 .. Len(s.queues) : j # i => t.queues[j] = s.queues[j]
  PROVE  AroundWaiting(t, i) = AroundWaiting(s, i)
BY OtherPointersStay DEF AroundWaiting

LEMMA EnqueueDescriptorOwns ==
  ASSUME IInv, ShapeInv, ShapeInv', OwnInv, EnqueueDescriptor
  PROVE  MemoryStep /\ OwnInv' /\ LossStep
<1> DEFINE i == call.id + 1
<1>1. /\ pc = "enqueue_descriptor" /\ held' = held /\ call' = NULL
      /\ call \in [id : 0 .. MaxLen, prio : Prios, data : 1 .. Cap, info : 1 .. Cap]
  BY DEF EnqueueDescriptor, CallEnds, ShapeInv, CallInv
<1>2. /\ Owns = Real(AtRest \union CallOwns(call))
      /\ CallOwns(call) = {<<"data", -1, 0, call.data>>, <<"info", -1, 0, call.info>>}
      /\ CallOwns(call') = {}
  BY <1>1, AtRestPointers, CallPointers
<1> DEFINE F == {call.data, call.info}
<1>3. ASSUME UNCHANGED set, clean' = FALSE, live \subseteq live'
      PROVE  /\ OwnInv' /\ Lost \subseteq Lost' /\ Lost' \ Lost = F \union (live' \ live)
             /\ F \subseteq live
             /\ IsFiniteSet(F) /\ Cardinality(F) = 2
  <2> DEFINE C == CallOwns(call)
  <2>1. Owns' = Real(AtRest)
    BY <1>1, <1>2, <1>3, OnlyCallChanges
  <2>2. (\A o \in C : o[2] = -1 /\ o[4] # NULL) /\ Reached(C) = F
    BY <1>1, <1>2, AtRestPointers DEF Reached
  <2>3. <<"data", -1, 0, call.data>> \in C /\ <<"info", -1, 0, call.info>> \in C
    BY <1>2
  <2> HIDE DEF C, F
  <2>4. Owns = Real(AtRest \union C)
    BY <1>2 DEF C
  <2>5. Owns' \subseteq Owns /\ Owns \ Owns' = C /\ C \subseteq Owns
    BY <2>1, <2>2, <2>4, AtRestPointers DEF Real
  <2>6. /\ Lost \subseteq Lost' /\ Lost' \ Lost = F \union (live' \ live)
        /\ F \subseteq live
    <3>1. Reached(C) \subseteq Reached(Owns)
      BY <2>5 DEF Reached
    <3> QED
      BY <1>3, <2>2, <2>5, <3>1, Forgotten
  <2>7. call.data # call.info
    BY <2>3, <2>5 DEF OwnInv, Sole
  <2>8. IsFiniteSet(F) /\ Cardinality(F) = 2
    <3>1. F = {call.data} \union {call.info}
      BY DEF F
    <3>2. IsFiniteSet({call.data}) /\ Cardinality({call.data}) = 1
      BY FS_Singleton
    <3>3. call.info \notin {call.data}
      BY <2>7
    <3> QED
      BY <3>1, <3>2, <3>3, FS_AddElement
  <2> QED
    BY <1>3, <2>5, <2>6, <2>8, OwnsFewer
<1>4. CASE Denied(DescriptorBytes) /\ CallEnds(5) /\ clean' = FALSE /\ UNCHANGED set
  <2>1. MemoryStep /\ live' = live
    BY <1>4, SetConstants, DeniedKeeps
  <2>2. returned'.code = 5 /\ pc' = "idle"
    BY <1>4 DEF CallEnds, SetReturns
  <2>3. OwnInv' /\ Lost \subseteq Lost' /\ Lost' \ Lost = F /\ Cardinality(F) = 2
    <3> HIDE DEF F
    <3> QED
      BY <1>3, <1>4, <2>1
  <2> HIDE DEF F
  <2> QED
    BY <1>1, <2>1, <2>2, <2>3 DEF LossStep
<1>5. CASE Granted(DescriptorBytes) /\ CallEnds(6) /\ clean' = FALSE /\ UNCHANGED set
  <2>1. MemoryStep /\ Got \notin live /\ live' = live \union {Got}
    BY <1>5, SetConstants, GrantedTakes
  <2>2. returned'.code = 6 /\ pc' = "idle"
    BY <1>5 DEF CallEnds, SetReturns
  <2> HIDE DEF F
  <2>3. /\ OwnInv' /\ Lost \subseteq Lost' /\ Lost' \ Lost = F \union {Got}
        /\ F \subseteq live /\ IsFiniteSet(F) /\ Cardinality(F) = 2
    <3>1. live' \ live = {Got} /\ live \subseteq live'
      BY <2>1
    <3> QED
      BY <1>3, <1>5, <3>1
  <2>4. Cardinality(F \union {Got}) = 3
    <3>1. Got \notin F
      BY <2>1, <2>3
    <3> QED
      BY <2>3, <3>1, FS_AddElement
  <2> QED
    BY <1>1, <2>1, <2>2, <2>3, <2>4 DEF LossStep
<1>6. CASE /\ Granted(DescriptorBytes) /\ HasRoom(set.queues[i])
           /\ set' = [set EXCEPT !.queues[i].waiting = Queued(@, Callback(Got))]
           /\ CallEnds(0)
           /\ UNCHANGED clean
  <2>1. MemoryStep /\ Got \in 1 .. Cap /\ Got \notin live /\ live' = live \union {Got} /\ Got # NULL
    BY <1>6, SetConstants, GrantedTakes
  <2> DEFINE waiting == set.queues[i].waiting
             cb      == Callback(Got)
             w       == Queued(waiting, cb)
             k       == Len(waiting) + 1
  <2>2. /\ set # NULL /\ i \in 1 .. Len(set.queues)
        /\ waiting \in Seq(Callbacks) /\ cb \in Callbacks
        /\ cb.at = Got /\ cb.info = call.info /\ cb.data = call.data
        /\ w \in Seq(Callbacks) /\ Len(w) <= set.depth
    BY <1>1, <1>6, <2>1, EnqueuedCallback
  <2>3. pc' = "idle" /\ returned' = [code |-> 0, prio |-> NULL]
    BY <1>6 DEF CallEnds, SetReturns
  <2>4. /\ returned' \in [code : 0 .. 6 \union {Junk}, prio : Prios \union {NULL}]
        /\ clean' \in BOOLEAN /\ held' \subseteq Callbacks
        /\ set \in SetStates
    BY <2>2, <2>3 DEF ShapeInv, Types
  <2>5. set' = [set EXCEPT !.queues[i].waiting = w]
    BY <1>6
  <2>6. WaitingOwns(i, w) = WaitingOwns(i, waiting) \union CallbackOwns(i, k, cb)
    <3>1. w = Append(waiting, cb)
      BY DEF Queued
    <3> HIDE DEF i, waiting, cb, w
    <3> QED
      BY <2>2, <3>1, EnqueuedPointers
  <2> HIDE DEF i, waiting, cb, w, k
  <2>7. pc \in {"idle"} \union Enqueueing
    BY <1>1 DEF Enqueueing
  <2>8. /\ set' # NULL /\ set'.at = set.at /\ set'.tasks = set.tasks
        /\ Len(set'.queues) = Len(set.queues)
        /\ set'.queues[i].at = set.queues[i].at /\ set'.queues[i].slots = set.queues[i].slots
        /\ set'.queues[i].waiting = w
        /\ \A j \in 1 .. Len(set.queues) : j # i => set'.queues[j] = set.queues[j]
    BY <1>1, <2>2, <2>3, <2>4, <2>5, <2>7, WaitingChanges
  <2>9. set' \in SetStates
    BY <2>8 DEF ShapeInv, Types
  <2>10. /\ SetOwns(set) = AroundWaiting(set, i) \union WaitingOwns(i, waiting)
         /\ SetOwns(set') = AroundWaiting(set, i) \union WaitingOwns(i, w)
    <3>1. SetOwns(set) = AroundWaiting(set, i) \union WaitingOwns(i, waiting)
      BY <2>2, <2>4, WaitingPart DEF waiting
    <3>2. SetOwns(set') = AroundWaiting(set', i) \union WaitingOwns(i, w)
      BY <2>2, <2>8, <2>9, WaitingPart
    <3> QED
      BY <2>2, <2>4, <2>8, <2>9, <3>1, <3>2, AroundStays
  <2> DEFINE A  == CallOwns(call)
             B  == {<<"data", i, k, call.data>>, <<"info", i, k, call.info>>}
             n  == <<"at", i, k, Got>>
             mv == [a \in A |-> <<a[1], i, k, a[4]>>]
  <2>11. CallbackOwns(i, k, cb) = B \union {n}
    BY <2>2 DEF CallbackOwns
  <2>12. Owns' = Real(AtRest \union B) \union {n}
    <3>1. Owns' = Real(SetOwns(set') \union HeldOwns(held))
      BY <1>1, <1>2 DEF Owns, Real
    <3>2. SetOwns(set') \union HeldOwns(held) = AtRest \union B \union {n}
      BY <2>6, <2>10, <2>11 DEF AtRest
    <3>3. n[4] = Got
      OBVIOUS
    <3> HIDE DEF n, B
    <3> QED
      BY <2>1, <3>1, <3>2, <3>3 DEF Real
  <2>13. Moves(A, B, mv)
    BY <1>2 DEF Moves
  <2>14. AtRest \intersect A = {}
    <3>1. \A o \in A : o[2] = -1
      BY <1>2
    <3> QED
      BY <3>1, AtRestPointers
  <2>15. n[4] = Got
    OBVIOUS
  <2> HIDE DEF A, B, n, mv
  <2>16. /\ Sole(Real(AtRest \union B), live)
         /\ Covers(Owns, live) => Covers(Real(AtRest \union B), live)
         /\ Reached(Real(AtRest \union B)) = Reached(Owns)
    <3>1. Sole(Real(AtRest \union A), live)
      BY <1>2 DEF OwnInv, A
    <3> QED
      BY <1>2, <2>13, <2>14, <3>1, PointersMove DEF A
  <2>17. /\ Sole(Owns', live')
         /\ Covers(Owns, live) => Covers(Owns', live')
         /\ Reached(Owns') = Reached(Owns) \union {Got}
    BY <2>1, <2>12, <2>15, <2>16, OneMorePointer
  <2>18. OwnInv'
    BY <1>6, <2>1, <2>17 DEF OwnInv
  <2>19. LossStep
    <3>1. Reached(Owns)' = Reached(Owns) \union {Got}
      BY <2>17 DEF Reached
    <3> QED
      BY <2>1, <3>1, TakenNotLost
  <2> QED
    BY <2>1, <2>18, <2>19
<1> QED
  BY <1>4, <1>5, <1>6 DEF EnqueueDescriptor

-----------------------------------------------------------------------------
(* dequeue_callback_for_task, free_task_callback. *)

LEMMA CallbackMoves ==
  ASSUME NEW i, NEW k, NEW cb, NEW o \in CallbackOwns(i, k, cb), NEW j, NEW l
  PROVE  <<o[1], j, l, o[4]>> \in CallbackOwns(j, l, cb)
BY DEF CallbackOwns

\* The first callback of a queue goes to its caller, and the others move up.
Upwards(i, waiting) ==
  [a \in WaitingOwns(i, waiting) |-> IF a[3] = 1 THEN <<a[1], 0, Head(waiting), a[4]>>
                                     ELSE <<a[1], i, a[3] - 1, a[4]>>]

LEMMA DequeuedPointers ==
  ASSUME NEW i, NEW w \in Seq(Callbacks), w # <<>>
  PROVE  Moves(WaitingOwns(i, w), WaitingOwns(i, Tail(w)) \union CallbackOwns(0, Head(w), Head(w)),
               Upwards(i, w))
<1> DEFINE h  == Head(w)
           t  == Tail(w)
           n  == Len(w)
           A  == WaitingOwns(i, w)
           B  == WaitingOwns(i, t) \union CallbackOwns(0, h, h)
           mv == Upwards(i, w)
<1>1. /\ n \in Nat /\ 1 \in 1 .. n /\ w[1] = h
      /\ t \in Seq(Callbacks) /\ Len(t) = n - 1
      /\ \A k \in 1 .. n - 1 : k + 1 \in 1 .. n /\ k + 1 # 1 /\ t[k] = w[k + 1]
      /\ \A k \in 1 .. n : k # 1 => k - 1 \in 1 .. n - 1
  OBVIOUS
<1>2. /\ \A o : o \in A <=> \E k \in 1 .. n : o \in CallbackOwns(i, k, w[k])
      /\ \A o : o \in WaitingOwns(i, t) <=> \E k \in 1 .. n - 1 : o \in CallbackOwns(i, k, t[k])
  BY <1>1, WaitingPointers
<1>3. \A a \in A : mv[a] = IF a[3] = 1 THEN <<a[1], 0, h, a[4]>> ELSE <<a[1], i, a[3] - 1, a[4]>>
  BY DEF Upwards
<1> HIDE DEF h, t, n, A, mv
<1>4. ASSUME NEW a \in A
      PROVE  mv[a][4] = a[4] /\ mv[a] \in B
  <2>1. PICK k \in 1 .. n : a \in CallbackOwns(i, k, w[k])
    BY <1>2
  <2>2. a[3] = k
    BY <2>1, CallbackPointers
  <2>3. CASE k = 1
    <3>1. mv[a] = <<a[1], 0, h, a[4]>>
      BY <1>3, <2>2, <2>3
    <3>2. <<a[1], 0, h, a[4]>> \in CallbackOwns(0, h, h)
      BY <1>1, <2>1, <2>3, CallbackMoves
    <3> QED
      BY <3>1, <3>2
  <2>4. CASE k # 1
    <3>1. mv[a] = <<a[1], i, k - 1, a[4]>>
      BY <1>3, <2>2, <2>4
    <3>2. k - 1 \in 1 .. n - 1 /\ t[k - 1] = w[k]
      BY <1>1, <2>4
    <3>3. <<a[1], i, k - 1, a[4]>> \in CallbackOwns(i, k - 1, t[k - 1])
      BY <2>1, <3>2, CallbackMoves
    <3>4. mv[a] \in WaitingOwns(i, t)
      BY <1>2, <3>1, <3>2, <3>3
    <3> QED
      BY <3>1, <3>4
  <2> QED
    BY <2>3, <2>4
<1>5. ASSUME NEW b \in B
      PROVE  \E a \in A : b = mv[a]
  <2>1. CASE b \in CallbackOwns(0, h, h)
    <3> DEFINE a == <<b[1], i, 1, b[4]>>
    <3>1. b = <<b[1], 0, h, b[4]>>
      BY <2>1, CallbackPointers
    <3>2. a \in CallbackOwns(i, 1, w[1])
      BY <1>1, <2>1, CallbackMoves
    <3>3. a \in A
      BY <1>1, <1>2, <3>2
    <3>4. mv[a] = <<b[1], 0, h, b[4]>>
      BY <1>3, <3>3
    <3> QED
      BY <3>1, <3>3, <3>4
  <2>2. CASE b \in WaitingOwns(i, t)
    <3>1. PICK k \in 1 .. n - 1 : b \in CallbackOwns(i, k, t[k])
      BY <1>2, <2>2
    <3> DEFINE a == <<b[1], i, k + 1, b[4]>>
    <3>2. b = <<b[1], i, k, b[4]>>
      BY <3>1, CallbackPointers
    <3>3. k + 1 \in 1 .. n /\ k + 1 # 1 /\ t[k] = w[k + 1] /\ (k + 1) - 1 = k
      BY <1>1
    <3>4. a \in CallbackOwns(i, k + 1, w[k + 1])
      BY <3>1, <3>3, CallbackMoves
    <3>5. a \in A
      BY <1>2, <3>3, <3>4
    <3>6. mv[a] = <<b[1], i, k, b[4]>>
      BY <1>3, <3>3, <3>5
    <3> QED
      BY <3>2, <3>5, <3>6
  <2> QED
    BY <2>1, <2>2
<1> QED
  BY <1>4, <1>5 DEF Moves, h, t, A, mv

LEMMA DequeueOwns ==
  ASSUME IInv, ShapeInv, ShapeInv', OwnInv, NEW id \in TaskIds, Dequeue(id)
  PROVE  MemoryStep /\ OwnInv' /\ LossStep
<1> DEFINE i       == id + 1
           waiting == set.queues[i].waiting
           h       == Head(waiting)
           w       == Remaining(waiting)
<1>1. /\ Idle /\ pc = "idle" /\ set # NULL /\ ~OutOfBounds(id) /\ waiting # <<>>
      /\ set' = [set EXCEPT !.queues[i].waiting = w]
      /\ held' = held \union {h} /\ returned' = [code |-> 0, prio |-> h.prio]
      /\ pc' = pc /\ call' = call /\ clean' = clean /\ UNCHANGED memory
  BY DEF Dequeue, Idle, SetReturns
<1>2. /\ i \in 1 .. Len(set.queues) /\ waiting \in Seq(Callbacks) /\ h \in Callbacks
      /\ w \in Seq(Callbacks) /\ Len(w) <= set.depth /\ w = Tail(waiting)
  BY <1>1, DequeuedCallback DEF Remaining
<1>3. MemoryStep /\ live' = live
  BY <1>1, MemoryStays
<1>4. /\ call = NULL /\ set \in SetStates /\ held' \subseteq Callbacks /\ clean' \in BOOLEAN
      /\ returned' \in [code : 0 .. 6 \union {Junk}, prio : Prios \union {NULL}]
  BY <1>1 DEF ShapeInv, CallInv, Types
<1> HIDE DEF i, waiting, h, w
<1>5. pc \in {"idle"} \union Enqueueing
  BY <1>1 DEF Enqueueing
<1>6. /\ set' # NULL /\ set'.at = set.at /\ set'.tasks = set.tasks
      /\ Len(set'.queues) = Len(set.queues)
      /\ set'.queues[i].at = set.queues[i].at /\ set'.queues[i].slots = set.queues[i].slots
      /\ set'.queues[i].waiting = w
      /\ \A j \in 1 .. Len(set.queues) : j # i => set'.queues[j] = set.queues[j]
  BY <1>1, <1>2, <1>4, <1>5, WaitingChanges
<1>7. set' \in SetStates
  BY <1>6 DEF ShapeInv, Types
<1>8. /\ SetOwns(set) = AroundWaiting(set, i) \union WaitingOwns(i, waiting)
      /\ SetOwns(set') = AroundWaiting(set, i) \union WaitingOwns(i, w)
  <2>1. SetOwns(set) = AroundWaiting(set, i) \union WaitingOwns(i, waiting)
    BY <1>2, <1>4, WaitingPart DEF waiting
  <2>2. SetOwns(set') = AroundWaiting(set', i) \union WaitingOwns(i, w)
    BY <1>2, <1>6, <1>7, WaitingPart
  <2> QED
    BY <1>2, <1>4, <1>6, <1>7, <2>1, <2>2, AroundStays
<1>9. HeldOwns(held') = HeldOwns(held) \union CallbackOwns(0, h, h)
  BY <1>1 DEF HeldOwns
<1> DEFINE A  == WaitingOwns(i, waiting)
           B  == WaitingOwns(i, w) \union CallbackOwns(0, h, h)
           R  == AroundWaiting(set, i) \union HeldOwns(held)
           mv == Upwards(i, waiting)
<1>10. Moves(A, B, mv)
  <2>1. B = WaitingOwns(i, Tail(waiting)) \union CallbackOwns(0, Head(waiting), Head(waiting))
    BY <1>2 DEF h
  <2> HIDE DEF B
  <2> QED
    BY <1>1, <1>2, <2>1, DequeuedPointers
<1>11. R \intersect A = {}
  <2>1. \A o \in A : o[2] = i /\ o[1] \in {"data", "info", "at"}
    BY <1>2, WaitingPointers, CallbackPointers
  <2>2. \A o \in AroundWaiting(set, i) : o[2] = i => o[1] \in {"queue", "slots"}
    BY <1>2, <1>4, WaitingPart
  <2>3. \A o \in HeldOwns(held) : o[2] # i
    BY <1>2, TasksOfPointers
  <2> HIDE DEF A
  <2> QED
    BY <2>1, <2>2, <2>3
<1>12. Owns = Real(R \union A) /\ Owns' = Real(R \union B)
  <2>1. CallOwns(call) = {} /\ CallOwns(call') = {}
    BY <1>1, <1>4, CallPointers
  <2>2. Owns = Real(R \union A)
    BY <1>8, <2>1 DEF Owns, Real
  <2>3. Owns' = Real(R \union B)
    BY <1>8, <1>9, <2>1 DEF Owns, Real
  <2> QED
    BY <2>2, <2>3
<1> HIDE DEF A, B, R, mv
<1>13. /\ Sole(Owns', live) /\ (Covers(Owns, live) => Covers(Owns', live))
       /\ Reached(Owns') = Reached(Owns)
  <2>1. Sole(Real(R \union A), live)
    BY <1>12 DEF OwnInv
  <2>2. /\ Sole(Real(R \union B), live)
        /\ Covers(Real(R \union A), live) => Covers(Real(R \union B), live)
        /\ Reached(Real(R \union B)) = Reached(Real(R \union A))
    BY <1>10, <1>11, <2>1, PointersMove
  <2> QED
    BY <1>12, <2>2
<1>14. OwnInv'
  BY <1>1, <1>3, <1>13 DEF OwnInv
<1>15. LossStep
  <2>1. Reached(Owns)' = Reached(Owns)
    BY <1>13 DEF Reached
  <2> QED
    BY <1>3, <2>1, MovedNotLost
<1> QED
  BY <1>3, <1>14, <1>15

LEMMA FreeDataOwns ==
  ASSUME IInv, ShapeInv, ShapeInv', OwnInv, NEW cb \in held, FreeData(cb)
  PROVE  MemoryStep /\ OwnInv' /\ LossStep
<1>1. /\ pc = "idle" /\ set # NULL /\ held' = held \ {cb}
      /\ call' = [at |-> cb.at, info |-> cb.info]
      /\ set' = set /\ clean' = clean /\ call = NULL /\ Free(cb.data)
      /\ set \in SetStates /\ cb \in Callbacks
  BY DEF FreeData, Idle, ShapeInv, CallInv, Types
<1> DEFINE f  == <<"data", 0, cb, cb.data>>
           A  == {<<"info", 0, cb, cb.info>>, <<"at", 0, cb, cb.at>>}
           B  == {<<"at", -1, 0, cb.at>>, <<"info", -1, 0, cb.info>>}
           R  == SetOwns(set) \union HeldOwns(held \ {cb})
           mv == [a \in A |-> <<a[1], -1, 0, a[4]>>]
<1>2. CallOwns(call) = {} /\ CallOwns(call') = B
  <2>1. call' \in [at : 1 .. Cap, info : 1 .. Cap] /\ call'.at = cb.at /\ call'.info = cb.info
    BY <1>1 DEF Callbacks
  <2> QED
    BY <1>1, <2>1, CallPointers
<1>3. /\ cb.data # NULL /\ f[4] = cb.data
      /\ Moves(A, B, mv)
  BY <1>1, SetConstants DEF Callbacks, Moves
<1>4. /\ \A o \in A \union {f} : o[1] \in {"data", "info", "at"} /\ o[2] = 0 /\ o[3] = cb
      /\ f \notin A /\ CallbackOwns(0, cb, cb) = A \union {f}
  BY DEF CallbackOwns
<1> HIDE DEF f, A, B, mv
<1>5. HeldOwns(held) = HeldOwns(held \ {cb}) \union A \union {f}
  <2>1. \A o : o \in HeldOwns(held) <=> o \in HeldOwns(held \ {cb}) \/ o \in CallbackOwns(0, cb, cb)
    BY HeldPointers
  <2> QED
    BY <1>4, <2>1
<1>6. \A o \in R : o \notin A \union {f}
  <2>1. ASSUME NEW o \in SetOwns(set)
        PROVE  o \notin A \union {f}
    <3>1. CASE o \in {<<"set", 0, 0, set.at>>, <<"tasks", 0, 0, set.tasks>>}
      <4>1. o[1] \in {"set", "tasks"}
        BY <3>1
      <4> QED
        BY <1>4, <4>1
    <3>2. CASE \E i \in 1 .. Len(set.queues) : o \in QueueOwns(i, set.queues[i])
      <4>1. PICK i \in 1 .. Len(set.queues) : o \in QueueOwns(i, set.queues[i])
        BY <3>2
      <4>2. set.queues[i] \in QueueStates
        BY <1>1 DEF SetStates
      <4>3. o[2] = i /\ i # 0
        BY <4>1, <4>2, QueuePointers
      <4> QED
        BY <1>4, <4>3
    <3> QED
      BY <1>1, <3>1, <3>2, SetPointers
  <2>2. ASSUME NEW o \in HeldOwns(held \ {cb})
        PROVE  o \notin A \union {f}
    <3>1. PICK c \in held \ {cb} : o \in CallbackOwns(0, c, c)
      BY HeldPointers
    <3>2. o[3] = c
      BY <3>1, CallbackPointers
    <3> QED
      BY <1>4, <3>1, <3>2
  <2> QED
    BY <2>1, <2>2
<1>7. /\ f \in Owns /\ Owns \ {f} = Real(R \union A)
      /\ Owns' = Real(R \union B)
  <2>1. Owns = Real(R \union A \union {f})
    BY <1>2, <1>5 DEF Owns, Real
  <2>2. Owns' = Real(R \union B)
    BY <1>1, <1>2 DEF Owns, Real
  <2> HIDE DEF R
  <2> QED
    BY <1>3, <1>4, <1>6, <2>1, <2>2 DEF Real
<1>8. R \intersect A = {}
  BY <1>6
<1> HIDE DEF R
<1> DEFINE L == live \ {cb.data}
<1>9. /\ cb.data \in live
      /\ Sole(Real(R \union A), L)
      /\ Covers(Owns, live) => Covers(Real(R \union A), L)
      /\ cb.data \in Reached(Owns)
      /\ Reached(Real(R \union A)) = Reached(Owns) \ {cb.data}
  <2>1. /\ f[4] \in live /\ Sole(Owns \ {f}, live \ {f[4]})
        /\ Covers(Owns, live) => Covers(Owns \ {f}, live \ {f[4]})
        /\ f[4] \in Reached(Owns) /\ Reached(Owns \ {f}) = Reached(Owns) \ {f[4]}
    BY <1>7, OnePointerLess DEF OwnInv
  <2> QED
    BY <1>3, <1>7, <2>1
<1>10. MemoryStep /\ live' = L
  BY <1>1, <1>9, FreeGives
<1> HIDE DEF L
<1>11. /\ Sole(Owns', L) /\ (Covers(Owns, live) => Covers(Owns', L))
       /\ Reached(Owns') = Reached(Owns) \ {cb.data}
  <2>1. /\ Sole(Real(R \union B), L)
        /\ Covers(Real(R \union A), L) => Covers(Real(R \union B), L)
        /\ Reached(Real(R \union B)) = Reached(Real(R \union A))
    BY <1>3, <1>8, <1>9, PointersMove
  <2> QED
    BY <1>7, <1>9, <2>1
<1>12. OwnInv'
  BY <1>1, <1>10, <1>11 DEF OwnInv
<1>13. LossStep
  <2> DEFINE b == cb.data
  <2>1. Reached(Owns)' = Reached(Owns) \ {b} /\ live' = live \ {b}
    BY <1>10, <1>11 DEF Reached, L
  <2>2. b \in Reached(Owns)
    BY <1>9
  <2> HIDE DEF b
  <2> QED
    BY <2>1, <2>2, GivenNotLost
<1> QED
  BY <1>10, <1>12, <1>13

LEMMA FreeInfoOwns ==
  ASSUME IInv, ShapeInv, OwnInv, FreeInfo
  PROVE  MemoryStep /\ OwnInv' /\ LossStep
<1>1. /\ pc = "free_info" /\ call' = [at |-> call.at] /\ set' = set /\ held' = held
      /\ clean' = clean /\ Free(call.info) /\ call \in [at : 1 .. Cap, info : 1 .. Cap]
  BY DEF FreeInfo, ShapeInv, CallInv
<1> DEFINE f == <<"info", -1, 0, call.info>>
<1>2. call' \in [at : 1 .. Cap] /\ call'.at = call.at
  BY <1>1
<1>3. /\ CallOwns(call) = {<<"at", -1, 0, call.at>>, f}
      /\ CallOwns(call') = {<<"at", -1, 0, call.at>>}
  BY <1>1, <1>2, CallPointers
<1>4. /\ Owns = Real(AtRest \union CallOwns(call))
      /\ Owns' = Real(AtRest \union CallOwns(call'))
      /\ \A o \in AtRest : o[2] # -1
      /\ call.info # NULL
  BY <1>1, AtRestPointers, OnlyCallChanges
<1>5. f[4] = call.info /\ f[2] = -1 /\ f # <<"at", -1, 0, call.at>>
  OBVIOUS
<1> HIDE DEF f
<1>6. f \in Owns /\ Owns' = Owns \ {f}
  BY <1>3, <1>4, <1>5 DEF Real
<1>7. call.info \in live
  BY <1>5, <1>6 DEF OwnInv, Sole
<1>8. MemoryStep /\ live' = live \ {call.info}
  BY <1>1, <1>7, FreeGives
<1> QED
  BY <1>1, <1>5, <1>6, <1>8, OwnsGive

LEMMA FreeDescriptorOwns ==
  ASSUME IInv, ShapeInv, OwnInv, FreeDescriptor
  PROVE  MemoryStep /\ OwnInv' /\ LossStep
<1>1. /\ pc = "free_descriptor" /\ call' = NULL /\ set' = set /\ held' = held
      /\ clean' = clean /\ Free(call.at) /\ call \in [at : 1 .. Cap]
  BY DEF FreeDescriptor, ShapeInv, CallInv
<1> DEFINE f == <<"at", -1, 0, call.at>>
<1>2. CallOwns(call) = {f} /\ CallOwns(call') = {}
  BY <1>1, CallPointers
<1>3. /\ Owns = Real(AtRest \union CallOwns(call))
      /\ Owns' = Real(AtRest \union CallOwns(call'))
      /\ \A o \in AtRest : o[2] # -1
      /\ call.at # NULL
  BY <1>1, AtRestPointers, OnlyCallChanges
<1>4. f[4] = call.at /\ f[2] = -1
  OBVIOUS
<1> HIDE DEF f
<1>5. f \in Owns /\ Owns' = Owns \ {f}
  BY <1>2, <1>3, <1>4 DEF Real
<1>6. call.at \in live
  BY <1>4, <1>5 DEF OwnInv, Sole
<1>7. MemoryStep /\ live' = live \ {call.at}
  BY <1>1, <1>6, FreeGives
<1> QED
  BY <1>1, <1>4, <1>5, <1>7, OwnsGive

-----------------------------------------------------------------------------
(* destroy_task_set. *)

LEMMA QueueMoves ==
  ASSUME NEW i, NEW q \in QueueStates, NEW o \in QueueOwns(i, q), NEW j
  PROVE  /\ o = <<o[1], i, o[3], o[4]>>
         /\ <<o[1], j, o[3], o[4]>> \in QueueOwns(j, q)
<1>1. CASE o \in {<<"queue", i, 0, q.at>>, <<"slots", i, 0, q.slots>>}
  BY <1>1, QueuePointers
<1>2. CASE o \in WaitingOwns(i, q.waiting)
  <2>1. q.waiting \in Seq(Callbacks)
    BY QueuePointers
  <2>2. PICK k \in 1 .. Len(q.waiting) : o \in CallbackOwns(i, k, q.waiting[k])
    BY <1>2, <2>1, WaitingPointers
  <2>3. o = <<o[1], i, o[3], o[4]>> /\ o[3] = k
    BY <2>2, CallbackPointers
  <2>4. <<o[1], j, k, o[4]>> \in CallbackOwns(j, k, q.waiting[k])
    BY <2>2, CallbackMoves
  <2>5. <<o[1], j, k, o[4]>> \in WaitingOwns(j, q.waiting)
    BY <2>1, <2>4, WaitingPointers
  <2> QED
    BY <2>3, <2>5, QueuePointers
<1> QED
  BY <1>1, <1>2, QueuePointers

\* The pointers in the queues of a set, and those that stay in reach when the slots of
\* the first queue are freed: that queue goes to the call, its callbacks are forgotten,
\* and the other queues move up.
QueuesOwn(qs) == UNION {QueueOwns(i, qs[i]) : i \in 1 .. Len(qs)}

SlotsOfFirst(qs) == <<"slots", 1, 0, qs[1].slots>>

WithoutFirst(qs) ==
  [a \in QueuesOwn(qs) \ {SlotsOfFirst(qs)} |->
     IF a[2] = 1 THEN <<a[1], -1, 0, a[4]>> ELSE <<a[1], a[2] - 1, a[3], a[4]>>]

LEMMA FirstQueueGoes ==
  ASSUME NEW qs \in Seq(QueueStates), qs # <<>>
  PROVE  LET W  == WaitingOwns(1, qs[1].waiting)
             A  == (QueuesOwn(qs) \ {SlotsOfFirst(qs)}) \ W
             B  == QueuesOwn(Tail(qs)) \union {<<"queue", -1, 0, qs[1].at>>}
             mv == WithoutFirst(qs)
         IN  /\ SlotsOfFirst(qs) \in QueuesOwn(qs) /\ SlotsOfFirst(qs) \notin W
             /\ W \subseteq QueuesOwn(qs)
             /\ Moves(A, B, mv)
<1> DEFINE n  == Len(qs)
           t  == Tail(qs)
           f  == SlotsOfFirst(qs)
           W  == WaitingOwns(1, qs[1].waiting)
           A  == (QueuesOwn(qs) \ {f}) \ W
           B  == QueuesOwn(t) \union {<<"queue", -1, 0, qs[1].at>>}
           mv == WithoutFirst(qs)
<1>1. /\ n \in Nat /\ 1 \in 1 .. n /\ t \in Seq(QueueStates) /\ Len(t) = n - 1
      /\ \A i \in 1 .. n : qs[i] \in QueueStates
      /\ \A i \in 1 .. n - 1 : i + 1 \in 1 .. n /\ i + 1 # 1 /\ t[i] = qs[i + 1]
      /\ \A i \in 1 .. n : i # 1 => i - 1 \in 1 .. n - 1 /\ t[i - 1] = qs[i]
  OBVIOUS
<1>2. /\ \A o : o \in QueuesOwn(qs) <=> \E i \in 1 .. n : o \in QueueOwns(i, qs[i])
      /\ \A o : o \in QueuesOwn(t) <=> \E i \in 1 .. n - 1 : o \in QueueOwns(i, t[i])
  BY <1>1 DEF QueuesOwn
<1>3. \A a \in A : mv[a] = IF a[2] = 1 THEN <<a[1], -1, 0, a[4]>>
                           ELSE <<a[1], a[2] - 1, a[3], a[4]>>
  BY DEF WithoutFirst
<1>4. /\ <<"queue", 1, 0, qs[1].at>> \in QueueOwns(1, qs[1])
      /\ f \in QueueOwns(1, qs[1])
      /\ f = <<"slots", 1, 0, qs[1].slots>>
      /\ f # <<"queue", 1, 0, qs[1].at>> /\ f[2] = 1
      /\ W \subseteq QueueOwns(1, qs[1])
  BY DEF QueueOwns, SlotsOfFirst
<1>5. \A o \in W : o[1] \in {"data", "info", "at"} /\ o[2] = 1
  BY <1>1, QueuePointers
<1> HIDE DEF n, t, f, W, mv
<1>6. /\ f \in QueuesOwn(qs) /\ f \notin W /\ W \subseteq QueuesOwn(qs)
      /\ <<"queue", 1, 0, qs[1].at>> \in A
  <2>1. f \notin W /\ <<"queue", 1, 0, qs[1].at>> \notin W
    BY <1>4, <1>5
  <2> QED
    BY <1>1, <1>2, <1>4, <2>1
<1>7. ASSUME NEW a \in A
      PROVE  mv[a][4] = a[4]
  <2>1. CASE a[2] = 1
    <3>1. mv[a] = <<a[1], -1, 0, a[4]>>
      BY <1>3, <2>1
    <3> QED
      BY <3>1
  <2>2. CASE a[2] # 1
    <3>1. mv[a] = <<a[1], a[2] - 1, a[3], a[4]>>
      BY <1>3, <2>2
    <3> QED
      BY <3>1
  <2> QED
    BY <2>1, <2>2
<1>8. ASSUME NEW b \in B
      PROVE  \E a \in A : b = mv[a]
  <2>1. CASE b = <<"queue", -1, 0, qs[1].at>>
    <3> DEFINE a == <<"queue", 1, 0, qs[1].at>>
    <3>1. mv[a] = <<"queue", -1, 0, qs[1].at>>
      BY <1>3, <1>6
    <3> QED
      BY <1>6, <2>1, <3>1
  <2>2. CASE b \in QueuesOwn(t)
    <3>1. PICK i \in 1 .. n - 1 : b \in QueueOwns(i, t[i])
      BY <1>2, <2>2
    <3>2. i + 1 \in 1 .. n /\ i + 1 # 1 /\ t[i] = qs[i + 1] /\ t[i] \in QueueStates
          /\ (i + 1) - 1 = i
      BY <1>1
    <3> DEFINE a == <<b[1], i + 1, b[3], b[4]>>
    <3>3. b = <<b[1], i, b[3], b[4]>> /\ a \in QueueOwns(i + 1, qs[i + 1])
      BY <3>1, <3>2, QueueMoves
    <3>4. a # f /\ a[2] # 1
      BY <1>4, <3>2
    <3>5. a \in A
      <4>1. a \notin W
        BY <1>5, <3>4
      <4> HIDE DEF a
      <4> QED
        BY <1>2, <3>2, <3>3, <3>4, <4>1
    <3>6. mv[a] = <<b[1], i, b[3], b[4]>>
      BY <1>3, <3>2, <3>4, <3>5
    <3> QED
      BY <3>3, <3>5, <3>6
  <2> QED
    BY <2>1, <2>2
<1>9. ASSUME NEW a \in A
      PROVE  mv[a] \in B
  <2>1. PICK i \in 1 .. n : a \in QueueOwns(i, qs[i])
    BY <1>2
  <2>2. qs[i] \in QueueStates
    BY <1>1
  <2>3. a[2] = i
    BY <2>1, <2>2, QueuePointers
  <2>4. CASE i = 1
    <3>1. a \in {<<"queue", 1, 0, qs[1].at>>, f}
      BY <1>4, <2>1, <2>4 DEF QueueOwns, W
    <3>2. a = <<"queue", 1, 0, qs[1].at>>
      BY <3>1
    <3>3. mv[a] = <<"queue", -1, 0, qs[1].at>>
      BY <1>3, <3>2
    <3> QED
      BY <3>3
  <2>5. CASE i # 1
    <3>1. i - 1 \in 1 .. n - 1 /\ t[i - 1] = qs[i]
      BY <1>1, <2>5
    <3>2. mv[a] = <<a[1], i - 1, a[3], a[4]>>
      BY <1>3, <2>3, <2>5
    <3>3. mv[a] \in QueueOwns(i - 1, t[i - 1])
      BY <2>1, <2>2, <3>1, <3>2, QueueMoves
    <3> QED
      BY <1>2, <3>1, <3>3
  <2> QED
    BY <2>4, <2>5
<1> QED
  BY <1>6, <1>7, <1>8, <1>9 DEF Moves, n, t, f, W, mv

LEMMA WaitingAreReal ==
  ASSUME NEW i, NEW waiting \in Seq(Callbacks)
  PROVE  \A o \in WaitingOwns(i, waiting) : o[4] # NULL
<1> SUFFICES ASSUME NEW o \in WaitingOwns(i, waiting)
             PROVE  o[4] # NULL
  OBVIOUS
<1>1. PICK k \in 1 .. Len(waiting) : o \in CallbackOwns(i, k, waiting[k])
  BY WaitingPointers
<1>2. waiting[k] \in Callbacks
  OBVIOUS
<1>3. o[4] \in 1 .. Cap
  BY <1>1, <1>2 DEF CallbackOwns, Callbacks
<1> QED
  BY <1>3, SetConstants

\* Three blocks for each callback that waits.
LEMMA WaitingBlocks ==
  ASSUME NEW i, NEW waiting \in Seq(Callbacks), NEW L, Sole(WaitingOwns(i, waiting), L)
  PROVE  Cardinality(Reached(WaitingOwns(i, waiting))) = 3 * Len(waiting)
<1> DEFINE n == Len(waiting)
           K == {"data", "info", "at"}
           P == K \X (1 .. n)
           W == WaitingOwns(i, waiting)
           F == [p \in P |-> waiting[p[2]][p[1]]]
<1>1. n \in Nat /\ \A k \in 1 .. n : waiting[k] \in Callbacks
  OBVIOUS
<1>2. ASSUME NEW k \in 1 .. n, NEW x \in K
      PROVE  <<x, i, k, waiting[k][x]>> \in W
  <2>1. <<x, i, k, waiting[k][x]>> \in CallbackOwns(i, k, waiting[k])
    BY <1>1 DEF CallbackOwns, Callbacks
  <2> QED
    BY <2>1, WaitingPointers
<1>3. ASSUME NEW o \in W
      PROVE  \E k \in 1 .. n, x \in K : o[4] = waiting[k][x]
  <2>1. PICK k \in 1 .. n : o \in CallbackOwns(i, k, waiting[k])
    BY WaitingPointers
  <2> QED
    BY <1>1, <2>1 DEF CallbackOwns, Callbacks
<1>4. IsFiniteSet(P) /\ Cardinality(P) = 3 * n
  <2>1. IsFiniteSet(1 .. n) /\ Cardinality(1 .. n) = n
    <3>1. Cardinality(1 .. n) = IF 1 > n THEN 0 ELSE n - 1 + 1
      BY <1>1, FS_Interval
    <3> QED
      BY <1>1, <3>1, FS_Interval
  <2>2. IsFiniteSet(K) /\ Cardinality(K) = 3
    <3> DEFINE K1 == {"data"}
               K2 == K1 \union {"info"}
    <3>1. /\ "info" \notin K1 /\ "at" \notin K2 /\ K = K2 \union {"at"}
          /\ IsFiniteSet(K1) /\ Cardinality(K1) = 1
      BY FS_Singleton
    <3> HIDE DEF K1
    <3>2. IsFiniteSet(K2) /\ Cardinality(K2) = 2
      BY <3>1, FS_AddElement
    <3> HIDE DEF K2, K
    <3> QED
      BY <3>1, <3>2, FS_AddElement
  <2> HIDE DEF n, K
  <2> QED
    BY <2>1, <2>2, FS_Product
<1> HIDE DEF K, W, n
<1>5. F \in Bijection(P, Reached(W))
  <2>1. ASSUME NEW p \in P
        PROVE  p[1] \in K /\ p[2] \in 1 .. n /\ p = <<p[1], p[2]>> /\ F[p] = waiting[p[2]][p[1]]
    OBVIOUS
  <2>2. ASSUME NEW p \in P
        PROVE  F[p] \in Reached(W)
    <3>1. <<p[1], i, p[2], F[p]>> \in W
      BY <1>2, <2>1
    <3> QED
      BY <3>1 DEF Reached
  <2>3. ASSUME NEW p \in P, NEW q \in P, F[p] = F[q]
        PROVE  p = q
    <3>1. <<p[1], i, p[2], F[p]>> \in W /\ <<q[1], i, q[2], F[q]>> \in W
      BY <1>2, <2>1
    <3>2. <<p[1], i, p[2], F[p]>> = <<q[1], i, q[2], F[q]>>
      <4>1. \A o, r \in W : o[4] = r[4] => o = r
        BY DEF Sole, W
      <4> HIDE DEF F
      <4> QED
        BY <2>3, <3>1, <4>1
    <3> HIDE DEF F
    <3>3. p[1] = q[1] /\ p[2] = q[2]
      BY <3>2
    <3> QED
      BY <2>1, <3>3
  <2>4. ASSUME NEW b \in Reached(W)
        PROVE  \E p \in P : F[p] = b
    <3>1. PICK o \in W : b = o[4]
      BY DEF Reached
    <3>2. PICK k \in 1 .. n, x \in K : o[4] = waiting[k][x]
      BY <1>3
    <3>3. <<x, k>> \in P /\ F[<<x, k>>] = b
      BY <3>1, <3>2
    <3> QED
      BY <3>3
  <2>5. F \in [P -> Reached(W)]
    BY <2>2
  <2> HIDE DEF F, P
  <2> QED
    BY <2>3, <2>4, <2>5 DEF Bijection, Injection, Surjection, IsInjective
<1> HIDE DEF F, P
<1>6. ExistsBijection(P, Reached(W))
  BY <1>5 DEF ExistsBijection
<1>7. Cardinality(Reached(W)) = 3 * n
  BY <1>4, <1>6, FS_Bijection
<1> QED
  BY <1>7 DEF n, W

LEMMA DestroySlotsOwns ==
  ASSUME IInv, ShapeInv, ShapeInv', OwnInv, DestroySlots
  PROVE  MemoryStep /\ OwnInv' /\ LossStep
<1> DEFINE qs == set.queues
           f  == SlotsOfFirst(qs)
           T  == {<<"set", 0, 0, set.at>>, <<"tasks", 0, 0, set.tasks>>}
           W  == WaitingOwns(1, qs[1].waiting)
           A  == (QueuesOwn(qs) \ {f}) \ W
           B  == QueuesOwn(Tail(qs)) \union {<<"queue", -1, 0, qs[1].at>>}
           mv == WithoutFirst(qs)
<1>1. /\ set # NULL /\ set \in SetStates /\ qs \in Seq(QueueStates)
      /\ Head(qs) = qs[1] /\ qs[1] \in QueueStates /\ qs[1].slots \in 1 .. Cap /\ qs # <<>>
      /\ set' \in SetStates /\ set' # NULL /\ set'.at = set.at /\ set'.tasks = set.tasks
      /\ set'.queues = Tail(qs)
  BY FirstQueue
<1>2. /\ held = {} /\ held' = held /\ call = NULL /\ call' = [queue |-> qs[1].at]
      /\ clean' = (clean /\ qs[1].waiting = <<>>) /\ Free(qs[1].slots)
  BY <1>1 DEF DestroySlots, Idle, ShapeInv, SetInv, CallInv, Destroying
<1>3. /\ SetOwns(set) = T \union QueuesOwn(qs)
      /\ SetOwns(set') = T \union QueuesOwn(Tail(qs))
  <2>1. \A o : o \in SetOwns(set) <=> o \in T \/ o \in QueuesOwn(qs)
    BY <1>1, SetPointers DEF QueuesOwn
  <2>2. \A o : o \in SetOwns(set') <=> o \in T \/ o \in QueuesOwn(Tail(qs))
    BY <1>1, SetPointers DEF QueuesOwn
  <2> QED
    BY <2>1, <2>2
<1>4. HeldOwns(held) = {} /\ HeldOwns(held') = {}
  BY <1>2 DEF HeldOwns
<1>5. CallOwns(call) = {} /\ CallOwns(call') = {<<"queue", -1, 0, qs[1].at>>}
  <2>1. call' \in [queue : 1 .. Cap] /\ call'.queue = qs[1].at
    BY <1>1, <1>2 DEF QueueStates
  <2> QED
    BY <1>2, <2>1, CallPointers
<1>6. /\ f \in QueuesOwn(qs) /\ f \notin W /\ W \subseteq QueuesOwn(qs)
      /\ Moves(A, B, mv)
  <2> HIDE DEF qs
  <2> QED
    BY <1>1, FirstQueueGoes
<1>7. f[4] = qs[1].slots /\ qs[1].slots # NULL
  BY <1>1, SetConstants DEF SlotsOfFirst
<1>8. \A o \in QueuesOwn(qs) : o \notin T
  <2>1. ASSUME NEW o \in QueuesOwn(qs)
        PROVE  o[2] # 0
    <3>1. PICK i \in 1 .. Len(qs) : o \in QueueOwns(i, qs[i])
      BY DEF QueuesOwn
    <3>2. qs[i] \in QueueStates /\ i # 0
      BY <1>1
    <3>3. o[2] = i
      BY <3>1, <3>2, QueuePointers
    <3> QED
      BY <3>2, <3>3
  <2>2. \A o \in T : o[2] = 0
    OBVIOUS
  <2> QED
    BY <2>1, <2>2
<1>9. qs[1].waiting \in Seq(Callbacks) /\ (\A o \in W : o[4] # NULL)
  <2>1. qs[1].waiting \in Seq(Callbacks)
    BY <1>1 DEF QueueStates
  <2> QED
    BY <2>1, WaitingAreReal
<1> HIDE DEF qs, f, T, W, mv
<1>10. /\ f \in Owns /\ Owns' = Real(T \union B)
       /\ W \subseteq Owns \ {f} /\ (Owns \ {f}) \ W = Real(T \union A)
  <2>1. Owns = Real(T \union QueuesOwn(qs))
    BY <1>3, <1>4, <1>5 DEF Owns, Real
  <2>2. Owns' = Real(T \union B)
    BY <1>3, <1>4, <1>5 DEF Owns, Real
  <2> QED
    BY <1>6, <1>7, <1>8, <1>9, <2>1, <2>2 DEF Real
<1>11. T \intersect A = {}
  BY <1>8
<1> HIDE DEF A, B
<1> DEFINE b == qs[1].slots
           L == live \ {b}
<1>12. /\ b \in live /\ b \in Reached(Owns)
       /\ Sole(Owns \ {f}, L)
       /\ Covers(Owns, live) => Covers(Owns \ {f}, L)
       /\ Reached(Owns \ {f}) = Reached(Owns) \ {b}
  <2>1. /\ f[4] \in live /\ Sole(Owns \ {f}, live \ {f[4]})
        /\ Covers(Owns, live) => Covers(Owns \ {f}, live \ {f[4]})
        /\ f[4] \in Reached(Owns) /\ Reached(Owns \ {f}) = Reached(Owns) \ {f[4]}
    BY <1>10, OnePointerLess DEF OwnInv
  <2> QED
    BY <1>7, <2>1
<1>13. MemoryStep /\ live' = L
  BY <1>2, <1>12, FreeGives
<1> DEFINE O == Owns \ {f}
<1>14. /\ Sole(O \ W, L) /\ Sole(W, L)
       /\ Reached(O \ W) = Reached(O) \ Reached(W) /\ Reached(W) \subseteq Reached(O)
  <2> HIDE DEF O, L
  <2>1. Sole(O, L) /\ W \subseteq O
    BY <1>10, <1>12 DEF O
  <2> QED
    BY <2>1, PointersLess
<1> HIDE DEF L
<1>15. /\ Sole(Owns', L) /\ (Covers(O \ W, L) => Covers(Owns', L))
       /\ Reached(Owns') = Reached(O \ W)
  <2>1. O \ W = Real(T \union A)
    BY <1>10
  <2> HIDE DEF O
  <2>2. Sole(Real(T \union A), L)
    BY <1>14, <2>1
  <2>3. /\ Sole(Real(T \union B), L)
        /\ Covers(Real(T \union A), L) => Covers(Real(T \union B), L)
        /\ Reached(Real(T \union B)) = Reached(Real(T \union A))
    BY <1>6, <1>11, <2>2, PointersMove
  <2> QED
    BY <1>10, <2>1, <2>3
<1>16. OwnInv'
  <2>1. qs[1].waiting = <<>> => O \ W = O
    <3> SUFFICES ASSUME qs[1].waiting = <<>>
                 PROVE  W = {}
      OBVIOUS
    <3> QED
      BY DEF W, WaitingOwns
  <2>2. clean' => clean /\ qs[1].waiting = <<>>
    BY <1>2
  <2>3. clean => Covers(O, L)
    BY <1>12 DEF OwnInv
  <2> HIDE DEF O
  <2> QED
    BY <1>13, <1>15, <2>1, <2>2, <2>3 DEF OwnInv
<1>17. Lost \subseteq Lost' /\ Lost' \ Lost = Reached(W)
  <2>1. Owned' = (Owned \ {b}) \ Reached(W) /\ Reached(W) \subseteq Owned \ {b}
    <3>1. Owned' = Reached(Owns') /\ Owned = Reached(Owns)
      BY DEF Owned, Reached
    <3> QED
      BY <1>12, <1>14, <1>15, <3>1
  <2>2. Reached(W) \subseteq live \ {b} /\ live' = live \ {b}
    BY <1>13, <1>14 DEF L, Sole, Reached
  <2>3. b \in Owned
    BY <1>12, OwnedAreReached
  <2> HIDE DEF b, O
  <2> QED
    BY <2>1, <2>2, <2>3 DEF Lost
<1>18. Cardinality(Reached(W)) = 3 * Len(Head(set.queues).waiting)
  <2>1. Cardinality(Reached(W)) = 3 * Len(qs[1].waiting)
    BY <1>9, <1>14, WaitingBlocks DEF W
  <2> QED
    BY <1>1, <2>1 DEF qs
<1>19. LossStep
  <2>1. pc' = "destroy_queue"
    BY DEF DestroySlots
  <2> QED
    BY <1>17, <1>18, <2>1 DEF LossStep
<1> QED
  BY <1>13, <1>16, <1>19

LEMMA DestroyQueueOwns ==
  ASSUME IInv, ShapeInv, OwnInv, DestroyQueue
  PROVE  MemoryStep /\ OwnInv' /\ LossStep
<1>1. /\ pc = "destroy_queue" /\ call' = NULL /\ set' = set /\ held' = held
      /\ clean' = clean /\ Free(call.queue) /\ call \in [queue : 1 .. Cap]
  BY DEF DestroyQueue, ShapeInv, CallInv
<1> DEFINE f == <<"queue", -1, 0, call.queue>>
<1>2. CallOwns(call) = {f} /\ CallOwns(call') = {}
  BY <1>1, CallPointers
<1>3. /\ Owns = Real(AtRest \union CallOwns(call))
      /\ Owns' = Real(AtRest \union CallOwns(call'))
      /\ \A o \in AtRest : o[2] # -1
      /\ call.queue # NULL
  BY <1>1, AtRestPointers, OnlyCallChanges
<1>4. f[4] = call.queue /\ f[2] = -1
  OBVIOUS
<1> HIDE DEF f
<1>5. f \in Owns /\ Owns' = Owns \ {f}
  BY <1>2, <1>3, <1>4 DEF Real
<1>6. call.queue \in live
  BY <1>4, <1>5 DEF OwnInv, Sole
<1>7. MemoryStep /\ live' = live \ {call.queue}
  BY <1>1, <1>6, FreeGives
<1> QED
  BY <1>1, <1>4, <1>5, <1>7, OwnsGive

LEMMA DestroyTasksOwns ==
  ASSUME IInv, ShapeInv, OwnInv, DestroyTasks
  PROVE  MemoryStep /\ OwnInv' /\ LossStep
<1> DEFINE f  == <<"tasks", 0, 0, set.tasks>>
           A  == {<<"set", 0, 0, set.at>>}
           B  == {<<"at", -1, 0, set.at>>}
           R  == {}
           mv == [a \in A |-> <<"at", -1, 0, a[4]>>]
<1>1. /\ pc = "destroy_tasks" /\ call' = [at |-> set.at] /\ set' = NULL /\ held' = held
      /\ clean' = clean /\ Free(set.tasks)
  BY DEF DestroyTasks
<1>2. /\ set # NULL /\ set \in SetStates /\ held = {} /\ call = NULL /\ set.queues = <<>>
      /\ set.tasks # NULL
  BY <1>1 DEF ShapeInv, Types, SetInv, CallInv, Destroying
<1>3. HeldOwns(held) = {} /\ HeldOwns(held') = {}
  BY <1>1, <1>2 DEF HeldOwns
<1>4. CallOwns(call) = {} /\ CallOwns(call') = B
  <2>1. call' \in [at : 1 .. Cap] /\ call'.at = set.at
    BY <1>1, <1>2 DEF SetStates
  <2> QED
    BY <1>2, <2>1, CallPointers
<1>5. SetOwns(set') = {}
  BY <1>1 DEF SetOwns
<1>6. \A o : o \in SetOwns(set) <=> o \in A \union {f}
  <2>1. 1 .. Len(set.queues) = {}
    BY <1>2
  <2> QED
    BY <1>2, <2>1, SetPointers
<1>7. /\ f[4] = set.tasks /\ f \notin A
      /\ Moves(A, B, mv)
  BY DEF Moves
<1> HIDE DEF f, A, B, R, mv
<1>8. f \in Owns /\ Owns \ {f} = Real(R \union A) /\ Owns' = Real(R \union B)
  <2>1. Owns = Real(A \union {f})
    BY <1>3, <1>4, <1>6 DEF Owns, Real
  <2>2. Owns' = Real(R \union B)
    BY <1>3, <1>4, <1>5 DEF Owns, Real, R
  <2> QED
    BY <1>2, <1>7, <2>1, <2>2 DEF Real, R
<1> DEFINE L == live \ {set.tasks}
<1>9. /\ set.tasks \in live
      /\ Sole(Real(R \union A), L)
      /\ Covers(Owns, live) => Covers(Real(R \union A), L)
      /\ set.tasks \in Reached(Owns)
      /\ Reached(Real(R \union A)) = Reached(Owns) \ {set.tasks}
  <2>1. /\ f[4] \in live /\ Sole(Owns \ {f}, live \ {f[4]})
        /\ Covers(Owns, live) => Covers(Owns \ {f}, live \ {f[4]})
        /\ f[4] \in Reached(Owns) /\ Reached(Owns \ {f}) = Reached(Owns) \ {f[4]}
    BY <1>8, OnePointerLess DEF OwnInv
  <2> QED
    BY <1>7, <1>8, <2>1
<1>10. MemoryStep /\ live' = L
  BY <1>1, <1>9, FreeGives
<1> HIDE DEF L
<1>11. /\ Sole(Owns', L) /\ (Covers(Owns, live) => Covers(Owns', L))
       /\ Reached(Owns') = Reached(Owns) \ {set.tasks}
  <2>1. R \intersect A = {}
    BY DEF R
  <2>2. /\ Sole(Real(R \union B), L)
        /\ Covers(Real(R \union A), L) => Covers(Real(R \union B), L)
        /\ Reached(Real(R \union B)) = Reached(Real(R \union A))
    BY <1>7, <1>9, <2>1, PointersMove
  <2> QED
    BY <1>8, <1>9, <2>2
<1>12. OwnInv'
  BY <1>1, <1>10, <1>11 DEF OwnInv
<1>13. LossStep
  <2> DEFINE b == set.tasks
  <2>1. Reached(Owns)' = Reached(Owns) \ {b} /\ live' = live \ {b}
    BY <1>10, <1>11 DEF Reached, L
  <2>2. b \in Reached(Owns)
    BY <1>9
  <2> HIDE DEF b
  <2> QED
    BY <2>1, <2>2, GivenNotLost
<1> QED
  BY <1>10, <1>12, <1>13

LEMMA DestroySetOwns ==
  ASSUME IInv, ShapeInv, OwnInv, DestroySet
  PROVE  MemoryStep /\ OwnInv' /\ LossStep
<1>1. /\ pc = "destroy_set" /\ call' = NULL /\ set' = set /\ held' = held
      /\ clean' = clean /\ Free(call.at) /\ call \in [at : 1 .. Cap]
  BY DEF DestroySet, ShapeInv, CallInv
<1> DEFINE f == <<"at", -1, 0, call.at>>
<1>2. CallOwns(call) = {f} /\ CallOwns(call') = {}
  BY <1>1, CallPointers
<1>3. /\ Owns = Real(AtRest \union CallOwns(call))
      /\ Owns' = Real(AtRest \union CallOwns(call'))
      /\ \A o \in AtRest : o[2] # -1
      /\ call.at # NULL
  BY <1>1, AtRestPointers, OnlyCallChanges
<1>4. f[4] = call.at /\ f[2] = -1
  OBVIOUS
<1> HIDE DEF f
<1>5. f \in Owns /\ Owns' = Owns \ {f}
  BY <1>2, <1>3, <1>4 DEF Real
<1>6. call.at \in live
  BY <1>4, <1>5 DEF OwnInv, Sole
<1>7. MemoryStep /\ live' = live \ {call.at}
  BY <1>1, <1>6, FreeGives
<1> QED
  BY <1>1, <1>4, <1>5, <1>7, OwnsGive

-----------------------------------------------------------------------------
(* The invariant. *)

FullInv == IInv /\ ShapeInv /\ OwnInv

\* A step of the calls, seen from the memory too.
FullStep == [Next]_vars /\ FullInv' /\ LossStep

\* A call that is refused at once leaves everything to whom it was.
LEMMA RefusedOwns ==
  ASSUME IInv, OwnInv, UNCHANGED <<memory, set, call, held, clean>>
  PROVE  MemoryStep /\ OwnInv' /\ LossStep
<1>1. MemoryStep /\ live' = live
  BY MemoryStays
<1> QED
  BY <1>1, OwnsStay

LEMMA SetInitInv ==
  SetInit => FullInv
<1> SUFFICES ASSUME SetInit
             PROVE  FullInv
  OBVIOUS
<1>1. /\ Init /\ pc = "idle" /\ set = NULL /\ call = NULL /\ held = {} /\ live = {}
      /\ returned = [code |-> 0, prio |-> NULL] /\ clean = TRUE
  BY DEF SetInit, Init
<1>2. IInv
  BY <1>1, InitInv
<1>3. returned \in [code : 0 .. 6 \union {Junk}, prio : Prios \union {NULL}]
  BY <1>1
<1>4. Types
  BY <1>1, <1>3 DEF Types
<1>5. CallInv
  BY <1>1 DEF CallInv, Making
<1>6. SetInv
  BY <1>1 DEF SetInv, Making
<1>7. ShapeInv
  BY <1>4, <1>5, <1>6 DEF ShapeInv
<1>8. Owns = {}
  BY <1>1, <1>7, NothingOwned
<1>9. OwnInv
  BY <1>1, <1>8 DEF OwnInv, Sole, Covers
<1> QED
  BY <1>2, <1>7, <1>9 DEF FullInv, FullStep, MemoryStep

LEMMA MakeInv ==
  ASSUME FullInv, Make
  PROVE  FullStep
<1>1. IInv /\ ShapeInv /\ OwnInv
  BY DEF FullInv, FullStep, MemoryStep
<1>2. ASSUME NEW shape \in Shapes, MakeSet(shape)
      PROVE  FullStep
  <2>1. ShapeInv'
    BY <1>1, <1>2, MakeSetShape
  <2> QED
    BY <1>1, <1>2, <2>1, MakeSetOwns DEF FullInv, FullStep, MemoryStep
<1>3. CASE MakeTasks
  <2>1. ShapeInv'
    BY <1>1, <1>3, MakeTasksShape
  <2> QED
    BY <1>1, <1>3, <2>1, MakeTasksOwns DEF FullInv, FullStep, MemoryStep
<1>4. CASE MakeQueue
  <2>1. ShapeInv'
    BY <1>1, <1>4, MakeQueueShape
  <2> QED
    BY <1>1, <1>4, <2>1, MakeQueueOwns DEF FullInv, FullStep, MemoryStep
<1>5. CASE MakeSlots
  <2>1. ShapeInv'
    BY <1>1, <1>5, MakeSlotsShape
  <2> QED
    BY <1>1, <1>5, <2>1, MakeSlotsOwns DEF FullInv, FullStep, MemoryStep
<1> QED
  BY <1>2, <1>3, <1>4, <1>5 DEF Make

LEMMA EnqueueInv ==
  ASSUME FullInv, Enqueue
  PROVE  FullStep
<1>1. IInv /\ ShapeInv /\ OwnInv
  BY DEF FullInv, FullStep, MemoryStep
<1>2. ASSUME NEW id \in TaskIds, EnqueueRefused(id)
      PROVE  FullStep
  <2>1. ShapeInv'
    BY <1>1, <1>2, EnqueueRefusedShape
  <2>2. MemoryStep /\ OwnInv' /\ LossStep
    BY <1>1, <1>2, RefusedOwns DEF EnqueueRefused
  <2> QED
    BY <2>1, <2>2 DEF FullInv, FullStep, MemoryStep
<1>3. ASSUME NEW id \in TaskIds, NEW m \in Messages, EnqueueData(id, m)
      PROVE  FullStep
  <2>1. ShapeInv'
    BY <1>1, <1>3, EnqueueDataShape
  <2> QED
    BY <1>1, <1>3, <2>1, EnqueueDataOwns DEF FullInv, FullStep, MemoryStep
<1>4. CASE EnqueueInfo
  <2>1. ShapeInv'
    BY <1>1, <1>4, EnqueueInfoShape
  <2> QED
    BY <1>1, <1>4, <2>1, EnqueueInfoOwns DEF FullInv, FullStep, MemoryStep
<1>5. CASE EnqueueDescriptor
  <2>1. ShapeInv'
    BY <1>1, <1>5, EnqueueDescriptorShape
  <2> QED
    BY <1>1, <1>5, <2>1, EnqueueDescriptorOwns DEF FullInv, FullStep, MemoryStep
<1> QED
  BY <1>2, <1>3, <1>4, <1>5 DEF Enqueue

LEMMA DequeueInv ==
  ASSUME FullInv, NEW id \in TaskIds, DequeueRefused(id) \/ Dequeue(id)
  PROVE  FullStep
<1>1. IInv /\ ShapeInv /\ OwnInv
  BY DEF FullInv, FullStep, MemoryStep
<1>2. CASE DequeueRefused(id)
  <2>1. ShapeInv'
    BY <1>1, <1>2, DequeueRefusedShape
  <2>2. MemoryStep /\ OwnInv' /\ LossStep
    BY <1>1, <1>2, RefusedOwns DEF DequeueRefused
  <2> QED
    BY <2>1, <2>2 DEF FullInv, FullStep, MemoryStep
<1>3. CASE Dequeue(id)
  <2>1. ShapeInv'
    BY <1>1, <1>3, DequeueShape
  <2> QED
    BY <1>1, <1>3, <2>1, DequeueOwns DEF FullInv, FullStep, MemoryStep
<1> QED
  BY <1>2, <1>3

LEMMA FreeCallbackInv ==
  ASSUME FullInv, FreeCallback
  PROVE  FullStep
<1>1. IInv /\ ShapeInv /\ OwnInv
  BY DEF FullInv, FullStep, MemoryStep
<1>2. ASSUME NEW cb \in held, FreeData(cb)
      PROVE  FullStep
  <2>1. ShapeInv'
    BY <1>1, <1>2, FreeDataShape
  <2> QED
    BY <1>1, <1>2, <2>1, FreeDataOwns DEF FullInv, FullStep, MemoryStep
<1>3. CASE FreeInfo
  BY <1>1, <1>3, FreeInfoShape, FreeInfoOwns DEF FullInv, FullStep, MemoryStep
<1>4. CASE FreeDescriptor
  BY <1>1, <1>4, FreeDescriptorShape, FreeDescriptorOwns DEF FullInv, FullStep, MemoryStep
<1> QED
  BY <1>2, <1>3, <1>4 DEF FreeCallback

LEMMA DestroyInv ==
  ASSUME FullInv, Destroy
  PROVE  FullStep
<1>1. IInv /\ ShapeInv /\ OwnInv
  BY DEF FullInv, FullStep, MemoryStep
<1>2. CASE DestroySlots
  <2>1. ShapeInv'
    BY <1>1, <1>2, DestroySlotsShape
  <2> QED
    BY <1>1, <1>2, <2>1, DestroySlotsOwns DEF FullInv, FullStep, MemoryStep
<1>3. CASE DestroyQueue
  BY <1>1, <1>3, DestroyQueueShape, DestroyQueueOwns DEF FullInv, FullStep, MemoryStep
<1>4. CASE DestroyTasks
  BY <1>1, <1>4, DestroyTasksShape, DestroyTasksOwns DEF FullInv, FullStep, MemoryStep
<1>5. CASE DestroySet
  BY <1>1, <1>5, DestroySetShape, DestroySetOwns DEF FullInv, FullStep, MemoryStep
<1>6. CASE DestroyRefused
  <2>1. ShapeInv'
    BY <1>1, <1>6, DestroyRefusedShape
  <2>2. MemoryStep /\ OwnInv' /\ LossStep
    BY <1>1, <1>6, RefusedOwns DEF DestroyRefused
  <2> QED
    BY <2>1, <2>2 DEF FullInv, FullStep, MemoryStep
<1> QED
  BY <1>2, <1>3, <1>4, <1>5, <1>6 DEF Destroy

LEMMA SetStepInv ==
  FullInv /\ [SetNext]_setVars => FullStep
<1> SUFFICES ASSUME FullInv, [SetNext]_setVars
             PROVE  FullStep
  OBVIOUS
<1>1. CASE Make
  BY <1>1, MakeInv
<1>2. CASE Enqueue
  BY <1>2, EnqueueInv
<1>3. ASSUME NEW id \in TaskIds, DequeueRefused(id) \/ Dequeue(id)
      PROVE  FullStep
  BY <1>3, DequeueInv
<1>4. CASE FreeCallback
  BY <1>4, FreeCallbackInv
<1>5. CASE Destroy
  BY <1>5, DestroyInv
<1>6. CASE NoSet
  <2>1. IInv /\ ShapeInv /\ OwnInv
    BY DEF FullInv, FullStep, MemoryStep
  <2>2. ShapeInv'
    BY <1>6, <2>1, NoSetShape
  <2>3. MemoryStep /\ OwnInv' /\ LossStep
    BY <1>6, <2>1, RefusedOwns DEF NoSet
  <2> QED
    BY <2>2, <2>3 DEF FullInv, FullStep, MemoryStep
<1>7. CASE UNCHANGED setVars
  <2>1. IInv /\ ShapeInv /\ OwnInv
    BY DEF FullInv, FullStep, MemoryStep
  <2>2. /\ UNCHANGED memory /\ set' = set /\ call' = call /\ held' = held /\ clean' = clean
        /\ pc' = pc /\ returned' = returned
    BY <1>7 DEF setVars
  <2>3. MemoryStep /\ OwnInv' /\ LossStep
    BY <2>1, <2>2, RefusedOwns
  <2>4. Types' /\ CallInv' /\ SetInv'
    BY <2>1, <2>2 DEF ShapeInv, Types, CallInv, SetInv
  <2> QED
    BY <2>3, <2>4 DEF FullInv, FullStep, MemoryStep, ShapeInv
<1> QED
  BY <1>1, <1>2, <1>3, <1>4, <1>5, <1>6, <1>7 DEF SetNext

LEMMA SetSpecInv ==
  SetSpec => []FullInv
<1>1. FullInv /\ [SetNext]_setVars => FullInv'
  BY SetStepInv DEF FullStep
<1> QED
  BY <1>1, SetInitInv, PTL DEF SetSpec

\* The shapes of a task set's variables: what pc says of the locals and of the set is so,
\* and no queue is longer than its depth, whichever of the allocations of
\* make_task_set and enqueue_callback_for_task fail.
THEOREM SetTypeCorrect ==
  SetSpec => []SetTypeOK
<1>1. FullInv => SetTypeOK
  <2> SUFFICES ASSUME FullInv
               PROVE  SetTypeOK
    OBVIOUS
  <2>1. IInv /\ Types /\ CallInv
    BY DEF FullInv, ShapeInv
  <2>2. TypeOK
    BY <2>1 DEF IInv
  <2>3. set # NULL => DOMAIN set.queues = 1 .. Len(set.queues)
    <3> SUFFICES ASSUME set # NULL
                 PROVE  DOMAIN set.queues = 1 .. Len(set.queues)
      OBVIOUS
    <3>1. set.queues \in Seq(QueueStates)
      BY <2>1 DEF Types, SetStates
    <3> QED
      BY <3>1
  <2>4. Idle => call = NULL
    BY <2>1 DEF CallInv, Idle
  <2> QED
    BY <2>1, <2>2, <2>3, <2>4
    DEF SetTypeOK, Types, Making, Enqueueing, Freeing, Destroying
<1> QED
  BY <1>1, SetSpecInv, PTL

\* Every pointer that can be reached leads to a block that is allocated, and no block
\* is reached twice: free_task_callback, destroy_queue and destroy_task_set
\* (ros_task_set.c:243-249, 300-303, ros_queue.c:123-127) free each block once, after
\* any calls, whichever of them found no memory.
THEOREM BlocksAreOwnedOnce ==
  SetSpec => []OwnedOnce
<1>1. FullInv => OwnedOnce
  BY DEF FullInv, OwnInv, Sole, OwnedOnce, Owned
<1> QED
  BY <1>1, SetSpecInv, PTL

\* The pointers the task set passes to static_free are blocks it holds, whatever has
\* failed before: the allocator runs as its callers may make it run.
THEOREM AllocatorIsUsedRight ==
  SetSpec => UsesAllocator
<1>1. SetInit => Init
  BY DEF SetInit
<1>2. FullInv /\ [SetNext]_setVars => [Next]_vars
  BY SetStepInv DEF FullStep
<1> QED
  BY <1>1, <1>2, SetSpecInv, PTL DEF SetSpec, UsesAllocator, Spec

\* Blocks are lost only where a call gives up half-way, as many as the call had got
\* (ros_task_set.c:53, 62, 169, 183, 196), and where a queue is destroyed with callbacks
\* in it, three for each; no other step of any call loses one.
THEOREM LossesAreAccountedFor ==
  SetSpec => LossIsWhatTheCallGot
<1>1. FullInv /\ [SetNext]_setVars => [LossStep]_setVars
  BY SetStepInv DEF FullStep
<1> QED
  BY <1>1, SetSpecInv, PTL DEF SetSpec, LossIsWhatTheCallGot

\* A caller to whom no call failed half-way and who emptied the queues gets all the
\* memory back, in one block, from destroy_task_set (ros_task_set.c:291).
THEOREM NothingLeaks ==
  SetSpec => []MemoryComesBack
<1>1. FullInv => MemoryComesBack
  <2> SUFFICES ASSUME FullInv, clean, pc = "idle", set = NULL, freeList # NULL
               PROVE  free = Cap /\ IsUnified
    BY DEF MemoryComesBack, Idle
  <2>1. IInv /\ ShapeInv /\ Covers(Owns, live)
    BY DEF FullInv, OwnInv
  <2>2. Owns = {}
    BY <2>1, NothingOwned
  <2>3. live = {}
    BY <2>1, <2>2 DEF Covers
  <2>4. IsUnified
    BY <2>1, <2>3, InvUnified DEF UnifiedWhenAllFreed
  <2>5. FreeBlocks \union live = FreeBlocks
    BY <2>3
  <2>6. Cardinality(1 .. Cap) = free
    BY <2>1, <2>5, InvTiles DEF Tiles
  <2>7. Cardinality(1 .. Cap) = Cap
    <3>1. 1 \in Int /\ Cap \in Int /\ Cap \in Nat
      BY Constants
    <3>2. Cardinality(1 .. Cap) = IF 1 > Cap THEN 0 ELSE Cap - 1 + 1
      BY <3>1, FS_Interval
    <3> QED
      BY <3>1, <3>2
  <2> QED
    BY <2>4, <2>6, <2>7
<1> QED
  BY <1>1, SetSpecInv, PTL

-----------------------------------------------------------------------------
(* What callers see of the set is what TaskQueues promises. *)

LEMMA PrioritiesAre ==
  ASSUME NEW w \in Seq(Callbacks)
  PROVE  /\ PrioritiesOf(w) \in Seq(Prios) /\ Len(PrioritiesOf(w)) = Len(w)
         /\ \A k \in 1 .. Len(w) : PrioritiesOf(w)[k] = w[k].prio
<1>1. DOMAIN w = 1 .. Len(w) /\ Len(w) \in Nat /\ \A k \in 1 .. Len(w) : w[k].prio \in Prios
  <2>1. DOMAIN w = 1 .. Len(w) /\ Len(w) \in Nat /\ \A k \in 1 .. Len(w) : w[k] \in Callbacks
    OBVIOUS
  <2>2. \A cb \in Callbacks : cb.prio \in Prios
    BY DEF Callbacks
  <2> QED
    BY <2>1, <2>2
<1>2. PrioritiesOf(w) = [k \in 1 .. Len(w) |-> w[k].prio]
  BY <1>1 DEF PrioritiesOf
<1> QED
  BY <1>1, <1>2

LEMMA PrioritiesOfQueued ==
  ASSUME NEW w \in Seq(Callbacks), NEW cb \in Callbacks
  PROVE  PrioritiesOf(Append(w, cb)) = Append(PrioritiesOf(w), cb.prio)
<1> DEFINE v == Append(w, cb)
           p == PrioritiesOf(w)
<1>1. /\ v \in Seq(Callbacks) /\ Len(v) = Len(w) + 1 /\ Len(w) \in Nat
      /\ v[Len(w) + 1] = cb /\ \A k \in 1 .. Len(w) : v[k] = w[k]
      /\ \A k \in 1 .. Len(v) : k \in 1 .. Len(w) \/ k = Len(w) + 1
  OBVIOUS
<1>2. /\ p \in Seq(Prios) /\ Len(p) = Len(w) /\ \A k \in 1 .. Len(w) : p[k] = w[k].prio
  BY PrioritiesAre
<1>3. cb.prio \in Prios
  BY DEF Callbacks
<1> HIDE DEF v, p
<1>4. /\ PrioritiesOf(v) \in Seq(Prios) /\ Len(PrioritiesOf(v)) = Len(w) + 1
      /\ \A k \in 1 .. Len(v) : PrioritiesOf(v)[k] = v[k].prio
  BY <1>1, PrioritiesAre
<1> DEFINE t == Append(p, cb.prio)
<1>5. /\ t \in Seq(Prios) /\ Len(t) = Len(w) + 1 /\ t[Len(w) + 1] = cb.prio
      /\ \A k \in 1 .. Len(w) : t[k] = p[k]
  BY <1>1, <1>2, <1>3
<1> HIDE DEF t
<1>6. \A k \in 1 .. Len(v) : PrioritiesOf(v)[k] = t[k]
  BY <1>1, <1>2, <1>4, <1>5
<1>7. PrioritiesOf(v) = t
  BY <1>1, <1>4, <1>5, <1>6, SeqEqual
<1> QED
  BY <1>7 DEF t, v, p

LEMMA PrioritiesOfRemaining ==
  ASSUME NEW w \in Seq(Callbacks), w # <<>>
  PROVE  /\ PrioritiesOf(w) # <<>> /\ Head(PrioritiesOf(w)) = Head(w).prio
         /\ PrioritiesOf(Tail(w)) = Tail(PrioritiesOf(w))
<1> DEFINE v == Tail(w)
           p == PrioritiesOf(w)
<1>1. /\ v \in Seq(Callbacks) /\ Len(v) = Len(w) - 1 /\ Len(w) \in Nat
      /\ 1 \in 1 .. Len(w) /\ Head(w) = w[1]
      /\ \A k \in 1 .. Len(w) - 1 : v[k] = w[k + 1] /\ k + 1 \in 1 .. Len(w)
  OBVIOUS
<1>2. /\ p \in Seq(Prios) /\ Len(p) = Len(w) /\ \A k \in 1 .. Len(w) : p[k] = w[k].prio
  BY PrioritiesAre
<1> HIDE DEF v, p
<1>3. /\ PrioritiesOf(v) \in Seq(Prios) /\ Len(PrioritiesOf(v)) = Len(w) - 1
      /\ \A k \in 1 .. Len(v) : PrioritiesOf(v)[k] = v[k].prio
  BY <1>1, PrioritiesAre
<1>4. p # <<>> /\ Head(p) = p[1]
  BY <1>1, <1>2
<1> DEFINE t == Tail(p)
<1>5. /\ t \in Seq(Prios) /\ Len(t) = Len(w) - 1
      /\ \A k \in 1 .. Len(w) - 1 : t[k] = p[k + 1]
  BY <1>1, <1>2, <1>4
<1> HIDE DEF t
<1>6. \A k \in 1 .. Len(v) : PrioritiesOf(v)[k] = t[k]
  BY <1>1, <1>2, <1>3, <1>5
<1>7. PrioritiesOf(v) = t
  BY <1>1, <1>3, <1>5, <1>6, SeqEqual
<1> QED
  BY <1>1, <1>2, <1>4, <1>7 DEF t, v, p

\* What is seen of a set that is whole, and of one that is not.
SeenInv ==
  /\ set # NULL /\ set \in SetStates /\ set.queues \in Seq(QueueStates)
  /\ QueuesSeen \in Seq(Seq(Prios)) /\ QueuesSeen # NULL
  /\ DOMAIN QueuesSeen = 1 .. Len(set.queues)
  /\ Len(set.queues) \in 1 .. MaxLen
  /\ DepthSeen = set.depth /\ set.depth \in 1 .. MaxDepth
  /\ \A i \in 1 .. Len(set.queues) :
       /\ set.queues[i].waiting \in Seq(Callbacks)
       /\ QueuesSeen[i] \in Seq(Prios)
       /\ QueuesSeen[i] = PrioritiesOf(set.queues[i].waiting)
       /\ Len(QueuesSeen[i]) = Len(set.queues[i].waiting)
       /\ Len(QueuesSeen[i]) <= set.depth

LEMMA WhatIsSeen ==
  ShapeInv /\ Whole => SeenInv
<1> SUFFICES ASSUME ShapeInv, Whole
             PROVE  SeenInv
  OBVIOUS
<1> DEFINE n == Len(set.queues)
<1>1. set # NULL /\ set \in SetStates /\ n <= MaxLen
      /\ \A i \in 1 .. n : Len(set.queues[i].waiting) <= set.depth
  BY DEF Whole, ShapeInv, Types
<1>2. set.queues # <<>> /\ set.depth > 0
  BY DEF Whole, ShapeInv, SetInv, Enqueueing, Freeing
<1>3. set.queues \in Seq(QueueStates) /\ set.depth \in 0 .. MaxDepth
  BY <1>1 DEF SetStates
<1>4. n \in 1 .. MaxLen /\ n \in Nat /\ set.depth \in 1 .. MaxDepth /\ DOMAIN set.queues = 1 .. n
  BY <1>1, <1>2, <1>3, SetConstants
<1>5. \A i \in 1 .. n : set.queues[i].waiting \in Seq(Callbacks)
  <2> SUFFICES ASSUME NEW i \in 1 .. n
               PROVE  set.queues[i].waiting \in Seq(Callbacks)
    OBVIOUS
  <2>1. set.queues[i] \in QueueStates
    BY <1>3
  <2> QED
    BY <2>1 DEF QueueStates
<1>6. QueuesSeen = [i \in 1 .. n |-> PrioritiesOf(set.queues[i].waiting)] /\ DepthSeen = set.depth
  BY <1>4 DEF QueuesSeen, DepthSeen
<1> HIDE DEF n
<1>7. \A i \in 1 .. n : /\ QueuesSeen[i] = PrioritiesOf(set.queues[i].waiting)
                         /\ QueuesSeen[i] \in Seq(Prios)
                         /\ Len(QueuesSeen[i]) = Len(set.queues[i].waiting)
  BY <1>5, <1>6, PrioritiesAre
<1>8. QueuesSeen \in Seq(Seq(Prios)) /\ DOMAIN QueuesSeen = 1 .. n
  BY <1>4, <1>6, <1>7
<1>9. QueuesSeen # NULL
  BY <1>8, TaskSetAssumption, Zenon
<1> QED
  BY <1>1, <1>3, <1>4, <1>5, <1>6, <1>7, <1>8, <1>9 DEF n, SeenInv

LEMMA WhatIsSeenNext ==
  ShapeInv' /\ Whole' => SeenInv'
BY WhatIsSeen, PTL

LEMMA NothingIsSeen ==
  ASSUME ~Whole
  PROVE  QueuesSeen = NULL /\ DepthSeen = 0
BY DEF QueuesSeen, DepthSeen

Promised == [QueuesPromise!Next]_QueuesPromise!vars

\* Nothing is seen of a step that returns nothing and leaves the queues.
LEMMA UnseenStep ==
  ASSUME QueuesSeen' = QueuesSeen, DepthSeen' = DepthSeen, returned' = returned
  PROVE  Promised
BY DEF Promised, QueuesPromise!vars

LEMMA UnseenWhenNotWhole ==
  ASSUME ~Whole, ~Whole', returned' = returned
  PROVE  Promised
<1>1. QueuesSeen = NULL /\ DepthSeen = 0
  BY NothingIsSeen
<1>2. QueuesSeen' = NULL /\ DepthSeen' = 0
  BY DEF QueuesSeen, DepthSeen
<1> QED
  BY <1>1, <1>2, UnseenStep

LEMMA SeenStays ==
  ASSUME Whole, Whole', set' = set
  PROVE  QueuesSeen' = QueuesSeen /\ DepthSeen' = DepthSeen
BY DEF QueuesSeen, DepthSeen

\* A call without a set reports that there is none, or that none could be made.
LEMMA NoSetPromised ==
  ASSUME ~Whole, ~Whole', NEW c \in {0, 1}, returned' = [code |-> c, prio |-> NULL]
  PROVE  Promised
<1>1. QueuesSeen = NULL /\ DepthSeen = 0
  BY NothingIsSeen
<1>2. QueuesSeen' = NULL /\ DepthSeen' = 0
  BY DEF QueuesSeen, DepthSeen
<1>3. CASE c = 0
  <2>1. QueuesPromise!Destroyed
    BY <1>1, <1>2, <1>3 DEF QueuesPromise!Destroyed, QueuesPromise!Returns
  <2> QED
    BY <2>1 DEF Promised, QueuesPromise!Next
<1>4. CASE c = 1
  <2>1. QueuesPromise!NoSet
    BY <1>1, <1>2, <1>4 DEF QueuesPromise!NoSet, QueuesPromise!Returns
  <2> QED
    BY <2>1 DEF Promised, QueuesPromise!Next
<1> QED
  BY <1>3, <1>4

\* The set once its last slots are there.
LEMMA SetMade ==
  ASSUME IInv, ShapeInv, pc = "make_slots", Granted(set.depth * PointerBytes),
         set' = [set EXCEPT !.queues[Len(set.queues)].slots = Got]
  PROVE  /\ set' # NULL /\ set'.depth = set.depth
         /\ Len(set'.queues) = Len(set.queues)
         /\ \A i \in 1 .. Len(set'.queues) : set'.queues[i].waiting = <<>>
<1> DEFINE n == Len(set.queues)
           q == [set.queues[n] EXCEPT !.slots = Got]
<1>1. /\ set \in SetStates /\ set.queues \in Seq(QueueStates)
      /\ set.depth * PointerBytes \in Requests
      /\ \A i \in 1 .. n : set.queues[i].waiting = <<>>
  BY InMaking DEF Making
<1>2. n \in 1 .. n
  <2>1. n \in 1 .. call.len
    BY DEF ShapeInv, SetInv
  <2> QED
    BY <1>1, <2>1
<1>3. q \in QueueStates /\ q.waiting = <<>>
  <2>1. Got \in 1 .. Cap
    BY <1>1, GrantedTakes
  <2>2. set.queues[n] \in QueueStates /\ set.queues[n].waiting = <<>>
    BY <1>1, <1>2
  <2> QED
    BY <2>1, <2>2 DEF QueueStates
<1>4. n \in 1 .. Len(set.queues) /\ set' = [set EXCEPT !.queues[n] = q]
  BY <1>2
<1> HIDE DEF n, q
<1>5. /\ set' # NULL /\ set'.depth = set.depth /\ Len(set'.queues) = Len(set.queues)
      /\ set'.queues[n] = q
      /\ \A j \in 1 .. Len(set.queues) : j # n => set'.queues[j] = set.queues[j]
  BY <1>1, <1>3, <1>4, OneQueueChanges
<1> QED
  BY <1>1, <1>3, <1>5 DEF n

LEMMA MakePromised ==
  ASSUME IInv, ShapeInv, ShapeInv', Make
  PROVE  Promised
<1>1. ~Whole
  BY DEF Make, MakeSet, MakeTasks, MakeQueue, MakeSlots, Whole
<1>2. CASE MakeFails
  <2>1. returned' = [code |-> 1, prio |-> NULL] /\ ~Whole' /\ 1 \in {0, 1}
    BY <1>2 DEF MakeFails, CallEnds, SetReturns, Whole
  <2> QED
    BY <1>1, <2>1, NoSetPromised
<1>3. CASE pc' \in Making /\ UNCHANGED returned
  <2>1. ~Whole'
    BY <1>3 DEF Whole, Making
  <2> QED
    BY <1>1, <1>3, <2>1, UnseenWhenNotWhole
<1>4. CASE /\ pc = "make_slots" /\ Granted(set.depth * PointerBytes)
           /\ set' = [set EXCEPT !.queues[Len(set.queues)].slots = Got]
           /\ pc' = "idle" /\ SetReturns(0, NULL)
  <2>1. set' # NULL /\ \A i \in 1 .. Len(set'.queues) : set'.queues[i].waiting = <<>>
    BY <1>4, SetMade
  <2>2. Whole'
    BY <1>4, <2>1 DEF Whole
  <2>3. SeenInv'
    BY <2>2, WhatIsSeenNext
  <2> DEFINE n == Len(set'.queues)
  <2>4. /\ QueuesSeen' \in Seq(Seq(Prios)) /\ DOMAIN QueuesSeen' = 1 .. n
        /\ n \in 1 .. MaxLen /\ DepthSeen' \in 1 .. MaxDepth
        /\ \A i \in 1 .. n : /\ Len(QueuesSeen'[i]) = Len(set'.queues[i].waiting)
                             /\ QueuesSeen'[i] \in Seq(Prios)
    BY <2>3 DEF SeenInv
  <2>5. \A i \in 1 .. n : QueuesSeen'[i] = <<>>
    <3> SUFFICES ASSUME NEW i \in 1 .. n
                 PROVE  QueuesSeen'[i] = <<>>
      OBVIOUS
    <3>1. set'.queues[i].waiting = <<>>
      BY <2>1
    <3>2. /\ Len(QueuesSeen'[i]) = Len(set'.queues[i].waiting)
          /\ QueuesSeen'[i] \in Seq(Prios)
      BY <2>4
    <3> HIDE DEF n
    <3>3. Len(QueuesSeen'[i]) = 0
      BY <3>1, <3>2
    <3> QED
      BY <3>2, <3>3
  <2> HIDE DEF n
  <2>6. QueuesSeen' = [i \in 1 .. n |-> <<>>]
    BY <2>4, <2>5
  <2>7. QueuesSeen = NULL
    BY <1>1, NothingIsSeen
  <2>8. QueuesPromise!Make
    BY <1>4, <2>4, <2>6, <2>7 DEF QueuesPromise!Make, QueuesPromise!Returns, SetReturns
  <2> QED
    BY <2>8 DEF Promised, QueuesPromise!Next
<1> QED
  BY <1>2, <1>3, <1>4 DEF Make, MakeSet, MakeTasks, MakeQueue, MakeSlots, Making

LEMMA EnqueuePromised ==
  ASSUME IInv, ShapeInv, ShapeInv', Enqueue
  PROVE  Promised
<1>1. Whole
  BY DEF Enqueue, EnqueueRefused, EnqueueData, EnqueueInfo, EnqueueDescriptor, Whole, Idle,
         ShapeInv, SetInv
<1>2. SeenInv
  BY <1>1, WhatIsSeen
<1>3. QueuesSeen # NULL
  BY <1>2 DEF SeenInv
<1>4. ASSUME NEW c \in 2 .. 5, UNCHANGED set, pc' = "idle", returned' = [code |-> c, prio |-> NULL]
      PROVE  Promised
  <2>1. Whole'
    BY <1>1, <1>4 DEF Whole
  <2>2. QueuesSeen' = QueuesSeen /\ DepthSeen' = DepthSeen
    BY <1>1, <1>4, <2>1, SeenStays
  <2>3. QueuesPromise!Enqueue
    BY <1>3, <1>4, <2>2 DEF QueuesPromise!Enqueue, QueuesPromise!Returns
  <2> QED
    BY <2>3 DEF Promised, QueuesPromise!Next
<1>5. CASE UNCHANGED <<set, returned>> /\ pc' \in Enqueueing
  <2>1. Whole'
    BY <1>1, <1>5 DEF Whole, Enqueueing
  <2> QED
    BY <1>1, <1>5, <2>1, SeenStays, UnseenStep
<1>6. CASE \E id \in TaskIds : EnqueueRefused(id)
  BY <1>4, <1>6 DEF EnqueueRefused, Idle, SetReturns
<1>7. CASE \E id \in TaskIds, m \in Messages : EnqueueData(id, m)
  BY <1>4, <1>5, <1>7 DEF EnqueueData, CallEnds, SetReturns, Enqueueing
<1>8. CASE EnqueueInfo
  BY <1>4, <1>5, <1>8 DEF EnqueueInfo, CallEnds, SetReturns, Enqueueing
<1>9. CASE EnqueueDescriptor
  <2> DEFINE i == call.id + 1
  <2>1. pc = "enqueue_descriptor" /\ set # NULL /\ i \in 1 .. Len(set.queues)
    <3>1. pc = "enqueue_descriptor"
      BY <1>9 DEF EnqueueDescriptor
    <3>2. call.id \in 0 .. MaxLen /\ call.id < Len(set.queues) /\ set.queues \in Seq(QueueStates)
      BY <1>2, <3>1 DEF ShapeInv, CallInv, SeenInv
    <3> QED
      BY <1>2, <3>1, <3>2, SetConstants DEF SeenInv
  <2>2. CASE CallEnds(5) /\ UNCHANGED set
    BY <1>4, <2>2 DEF CallEnds, SetReturns
  <2>3. CASE CallEnds(6) /\ UNCHANGED set /\ ~HasRoom(set.queues[i])
    <3>1. Whole'
      BY <1>1, <2>3 DEF Whole, CallEnds
    <3>2. QueuesSeen' = QueuesSeen /\ DepthSeen' = DepthSeen
      BY <1>1, <2>3, <3>1, SeenStays
    <3>3. Len(QueuesSeen[i]) = DepthSeen /\ i \in DOMAIN QueuesSeen
      <4>1. /\ Len(QueuesSeen[i]) = Len(set.queues[i].waiting)
            /\ Len(QueuesSeen[i]) <= set.depth
            /\ DepthSeen = set.depth /\ set.depth \in Nat
            /\ QueuesSeen[i] \in Seq(Prios) /\ DOMAIN QueuesSeen = 1 .. Len(set.queues)
        BY <1>2, <2>1, SetConstants DEF SeenInv
      <4>2. ~(Len(set.queues[i].waiting) < set.depth)
        BY <2>3 DEF HasRoom
      <4> HIDE DEF i
      <4>3. Len(QueuesSeen[i]) \in Nat
        BY <4>1
      <4> QED
        BY <2>1, <4>1, <4>2, <4>3
    <3> HIDE DEF i
    <3>4. QueuesPromise!Enqueue
      BY <1>3, <2>3, <3>2, <3>3
      DEF QueuesPromise!Enqueue, QueuesPromise!Returns, QueuesPromise!Tasks, CallEnds, SetReturns
    <3> QED
      BY <3>4 DEF Promised, QueuesPromise!Next
  <2>4. CASE /\ Granted(DescriptorBytes) /\ HasRoom(set.queues[i])
             /\ set' = [set EXCEPT !.queues[i].waiting = Queued(@, Callback(Got))]
             /\ CallEnds(0)
    <3> DEFINE waiting == set.queues[i].waiting
               cb      == Callback(Got)
               w       == Queued(waiting, cb)
               n       == Len(set.queues)
    <3>1. Got \in 1 .. Cap
      BY <2>4, SetConstants, GrantedTakes
    <3>2. waiting \in Seq(Callbacks) /\ cb \in Callbacks /\ w \in Seq(Callbacks) /\ Len(w) <= set.depth
      BY <2>1, <2>4, <3>1, EnqueuedCallback
    <3>3. pc' = "idle" /\ returned' = [code |-> 0, prio |-> NULL] /\ call' = NULL
      BY <2>4 DEF CallEnds, SetReturns
    <3>4. set' = [set EXCEPT !.queues[i].waiting = w] /\ w = Append(waiting, cb)
      BY <2>4 DEF Queued
    <3>5. pc \in {"idle"} \union Enqueueing
      BY <2>1 DEF Enqueueing
    <3>6. /\ held' \subseteq Callbacks /\ clean' \in BOOLEAN
          /\ returned' \in [code : 0 .. 6 \union {Junk}, prio : Prios \union {NULL}]
      BY <3>3 DEF ShapeInv, Types
    <3> HIDE DEF i, w, cb, waiting
    <3>7. /\ set' # NULL /\ Len(set'.queues) = n /\ set'.queues[i].waiting = w
          /\ \A j \in 1 .. n : j # i => set'.queues[j] = set.queues[j]
      BY <2>1, <3>2, <3>3, <3>4, <3>5, <3>6, WaitingChanges
    <3>8. Whole'
      BY <3>3, <3>7 DEF Whole
    <3>9. SeenInv'
      BY <3>8, WhatIsSeenNext
    <3>10. set'.depth = set.depth
      BY <1>2, <3>4 DEF SeenInv, SetStates
    <3>11. /\ DOMAIN QueuesSeen = 1 .. n /\ DOMAIN QueuesSeen' = 1 .. n
           /\ QueuesSeen \in Seq(Seq(Prios)) /\ QueuesSeen' \in Seq(Seq(Prios))
           /\ DepthSeen = set.depth /\ DepthSeen' = set.depth
           /\ QueuesSeen[i] = PrioritiesOf(waiting) /\ QueuesSeen'[i] = PrioritiesOf(w)
           /\ \A j \in 1 .. n : j # i => QueuesSeen'[j] = QueuesSeen[j]
           /\ Len(QueuesSeen[i]) = Len(waiting)
      BY <1>2, <2>1, <3>7, <3>9, <3>10 DEF SeenInv, waiting
    <3>12. PrioritiesOf(w) = Append(QueuesSeen[i], cb.prio) /\ cb.prio \in Prios
      BY <3>2, <3>4, <3>11, PrioritiesOfQueued DEF Callbacks
    <3>13. Len(QueuesSeen[i]) < DepthSeen
      BY <2>4, <3>11 DEF HasRoom, waiting
    <3>14. QueuesSeen' = [QueuesSeen EXCEPT ![i] = Append(QueuesSeen[i], cb.prio)]
      BY <2>1, <3>11, <3>12
    <3>15. QueuesPromise!Enqueue
      <4>1. i \in DOMAIN QueuesSeen
        BY <2>1, <3>11
      <4>2. \E k \in QueuesPromise!Tasks, p \in Prios :
              /\ Len(QueuesSeen[k]) < DepthSeen
              /\ QueuesSeen' = [QueuesSeen EXCEPT ![k] = Append(@, p)]
              /\ QueuesPromise!Returns(0, NULL)
        BY <3>3, <3>12, <3>13, <3>14, <4>1 DEF QueuesPromise!Tasks, QueuesPromise!Returns
      <4>3. DepthSeen' = DepthSeen
        BY <3>11
      <4> QED
        BY <1>3, <4>2, <4>3 DEF QueuesPromise!Enqueue
    <3> QED
      BY <3>15 DEF Promised, QueuesPromise!Next
  <2> QED
    BY <1>9, <2>2, <2>3, <2>4 DEF EnqueueDescriptor
<1> QED
  BY <1>6, <1>7, <1>8, <1>9 DEF Enqueue

LEMMA DequeuePromised ==
  ASSUME ShapeInv, ShapeInv', NEW id \in TaskIds, DequeueRefused(id) \/ Dequeue(id)
  PROVE  Promised
<1> DEFINE i       == id + 1
           waiting == set.queues[i].waiting
           n       == Len(set.queues)
<1>1. Whole /\ set # NULL /\ Idle
  BY DEF DequeueRefused, Dequeue, Whole, Idle
<1>2. SeenInv
  BY <1>1, WhatIsSeen
<1>3. QueuesSeen # NULL /\ DOMAIN QueuesSeen = 1 .. n
  BY <1>2 DEF SeenInv
<1>4. ASSUME UNCHANGED <<set, pc>>
      PROVE  QueuesSeen' = QueuesSeen /\ DepthSeen' = DepthSeen
  <2>1. Whole'
    BY <1>1, <1>4 DEF Whole
  <2> QED
    BY <1>1, <1>4, <2>1, SeenStays
<1>5. CASE DequeueRefused(id) /\ OutOfBounds(id) /\ SetReturns(2, NULL)
  <2>1. QueuesSeen' = QueuesSeen /\ DepthSeen' = DepthSeen
    BY <1>4, <1>5 DEF DequeueRefused
  <2>2. QueuesPromise!Dequeue
    BY <1>3, <1>5, <2>1 DEF QueuesPromise!Dequeue, QueuesPromise!Returns, SetReturns
  <2> QED
    BY <2>2 DEF Promised, QueuesPromise!Next
<1>6. ASSUME ~OutOfBounds(id)
      PROVE  i \in 1 .. n
  <2>1. id \in 0 .. MaxLen + 1 /\ id # n /\ ~(id > n)
    BY <1>6 DEF OutOfBounds, TaskIds, NTasks
  <2>2. n \in 1 .. MaxLen
    BY <1>2 DEF SeenInv
  <2> HIDE DEF n
  <2> QED
    BY <2>1, <2>2, SetConstants
<1>7. CASE DequeueRefused(id) /\ ~OutOfBounds(id) /\ waiting = <<>> /\ SetReturns(3, NULL)
  <2>1. QueuesSeen' = QueuesSeen /\ DepthSeen' = DepthSeen
    BY <1>4, <1>7 DEF DequeueRefused
  <2>2. i \in 1 .. n
    BY <1>6, <1>7
  <2>3. QueuesSeen[i] = <<>>
    <3>1. QueuesSeen[i] \in Seq(Prios) /\ Len(QueuesSeen[i]) = Len(waiting)
      BY <1>2, <2>2 DEF SeenInv
    <3>2. Len(waiting) = 0
      BY <1>7
    <3> HIDE DEF waiting
    <3> QED
      BY <3>1, <3>2
  <2> HIDE DEF i, n
  <2>4. QueuesPromise!Dequeue
    BY <1>3, <1>7, <2>1, <2>2, <2>3
    DEF QueuesPromise!Dequeue, QueuesPromise!Returns, QueuesPromise!Tasks, SetReturns
  <2> QED
    BY <2>4 DEF Promised, QueuesPromise!Next
<1>8. CASE Dequeue(id)
  <2> DEFINE w == Remaining(waiting)
             h == Head(waiting)
  <2>1. /\ ~OutOfBounds(id) /\ waiting # <<>>
        /\ set' = [set EXCEPT !.queues[i].waiting = w]
        /\ held' = held \union {h} /\ pc' = pc /\ call' = call /\ clean' = clean
        /\ returned' = [code |-> 0, prio |-> h.prio]
    BY <1>8 DEF Dequeue, SetReturns
  <2>2. /\ i \in 1 .. n /\ waiting \in Seq(Callbacks) /\ h \in Callbacks
        /\ w \in Seq(Callbacks) /\ Len(w) <= set.depth /\ w = Tail(waiting)
    BY <1>1, <2>1, DequeuedCallback DEF Remaining
  <2>3. /\ pc' = "idle" /\ call' = NULL /\ pc \in {"idle"} \union Enqueueing
        /\ held' \subseteq Callbacks /\ clean' \in BOOLEAN
    BY <1>1, <2>1, <2>2 DEF Idle, Enqueueing, ShapeInv, CallInv, Types
  <2>4. returned' \in [code : 0 .. 6 \union {Junk}, prio : Prios \union {NULL}]
    BY <2>1, <2>2 DEF Callbacks
  <2> HIDE DEF i, waiting, w, h
  <2>5. /\ set' # NULL /\ Len(set'.queues) = n /\ set'.queues[i].waiting = w
        /\ \A j \in 1 .. n : j # i => set'.queues[j] = set.queues[j]
    BY <1>1, <2>1, <2>2, <2>3, <2>4, WaitingChanges
  <2>6. Whole'
    BY <2>3, <2>5 DEF Whole
  <2>7. SeenInv'
    BY <2>6, WhatIsSeenNext
  <2>8. set'.depth = set.depth
    BY <1>2, <2>1 DEF SeenInv, SetStates
  <2>9. /\ DOMAIN QueuesSeen' = 1 .. n
        /\ QueuesSeen \in Seq(Seq(Prios)) /\ QueuesSeen' \in Seq(Seq(Prios))
        /\ DepthSeen = set.depth /\ DepthSeen' = set.depth
        /\ QueuesSeen[i] = PrioritiesOf(waiting) /\ QueuesSeen'[i] = PrioritiesOf(w)
        /\ \A j \in 1 .. n : j # i => QueuesSeen'[j] = QueuesSeen[j]
    BY <1>2, <2>2, <2>5, <2>7, <2>8 DEF SeenInv, waiting
  <2>10. /\ QueuesSeen[i] # <<>> /\ Head(QueuesSeen[i]) = h.prio
         /\ QueuesSeen'[i] = Tail(QueuesSeen[i])
    BY <2>1, <2>2, <2>9, PrioritiesOfRemaining DEF h
  <2>11. QueuesSeen' = [QueuesSeen EXCEPT ![i] = Tail(QueuesSeen[i])]
    BY <1>3, <2>2, <2>9, <2>10
  <2>12. QueuesPromise!Dequeue
    <3>1. i \in DOMAIN QueuesSeen
      BY <1>3, <2>2
    <3>2. \E k \in QueuesPromise!Tasks :
            /\ QueuesSeen[k] # <<>>
            /\ QueuesSeen' = [QueuesSeen EXCEPT ![k] = Tail(@)]
            /\ QueuesPromise!Returns(0, Head(QueuesSeen[k]))
      BY <2>1, <2>10, <2>11, <3>1 DEF QueuesPromise!Tasks, QueuesPromise!Returns
    <3>3. DepthSeen' = DepthSeen
      BY <2>9
    <3> QED
      BY <1>3, <3>2, <3>3 DEF QueuesPromise!Dequeue
  <2> QED
    BY <2>12 DEF Promised, QueuesPromise!Next
<1> QED
  BY <1>5, <1>7, <1>8 DEF DequeueRefused

LEMMA FreeCallbackPromised ==
  ASSUME ShapeInv, FreeCallback
  PROVE  Promised
<1>1. Whole /\ Whole' /\ set' = set
  BY DEF FreeCallback, FreeData, FreeInfo, FreeDescriptor, Whole, Idle, ShapeInv, SetInv
<1>2. QueuesSeen' = QueuesSeen /\ DepthSeen' = DepthSeen
  BY <1>1, SeenStays
<1>3. CASE returned' = returned
  BY <1>2, <1>3, UnseenStep
<1>4. CASE returned' = [code |-> Junk, prio |-> NULL]
  <2>1. QueuesSeen # NULL
    BY <1>1, WhatIsSeen DEF SeenInv
  <2>2. QueuesPromise!Freed
    BY <1>2, <1>4, <2>1 DEF QueuesPromise!Freed, QueuesPromise!Returns
  <2> QED
    BY <2>2 DEF Promised, QueuesPromise!Next
<1> QED
  BY <1>3, <1>4 DEF FreeCallback, FreeData, FreeInfo, FreeDescriptor, SetReturns

LEMMA DestroyPromised ==
  ASSUME ShapeInv, Destroy
  PROVE  Promised
<1>1. CASE DestroySlots
  <2>1. ~Whole' /\ returned' = returned
    BY <1>1 DEF DestroySlots, Whole
  <2>2. QueuesSeen' = NULL /\ DepthSeen' = 0
    BY <2>1 DEF QueuesSeen, DepthSeen
  <2>3. CASE Whole
    <3>1. QueuesSeen # NULL
      BY <2>3, WhatIsSeen DEF SeenInv
    <3>2. QueuesPromise!Destroy
      BY <2>1, <2>2, <3>1 DEF QueuesPromise!Destroy
    <3> QED
      BY <3>2 DEF Promised, QueuesPromise!Next
  <2>4. CASE ~Whole
    BY <2>1, <2>4, UnseenWhenNotWhole
  <2> QED
    BY <2>3, <2>4
<1>2. CASE DestroyQueue \/ DestroyTasks
  <2>1. ~Whole /\ ~Whole' /\ returned' = returned
    BY <1>2 DEF DestroyQueue, DestroyTasks, Whole
  <2> QED
    BY <2>1, UnseenWhenNotWhole
<1>3. CASE DestroySet
  <2>1. ~Whole /\ ~Whole' /\ returned' = [code |-> 0, prio |-> NULL] /\ 0 \in {0, 1}
    BY <1>3 DEF DestroySet, Whole, SetReturns, ShapeInv, SetInv
  <2> QED
    BY <2>1, NoSetPromised
<1>4. CASE DestroyRefused
  <2>1. Whole /\ Whole' /\ set' = set /\ returned' = [code |-> 2, prio |-> NULL]
    BY <1>4 DEF DestroyRefused, Whole, Idle, SetReturns
  <2>2. QueuesSeen' = QueuesSeen /\ DepthSeen' = DepthSeen
    BY <2>1, SeenStays
  <2>3. QueuesSeen # NULL
    BY <2>1, WhatIsSeen DEF SeenInv
  <2>4. QueuesPromise!Destroy
    BY <2>1, <2>2, <2>3 DEF QueuesPromise!Destroy, QueuesPromise!Returns
  <2> QED
    BY <2>4 DEF Promised, QueuesPromise!Next
<1> QED
  BY <1>1, <1>2, <1>3, <1>4 DEF Destroy

\* A task set behaves as ros_task_set.h promises, at each of its allocations too: the
\* queues are FIFOs no longer than their depth, a call that fails changes none, and the
\* codes of make, enqueue, dequeue and destroy are those of the header.  What
\* free_task_callback returns is left open: 0 by the header, by the code anything.
THEOREM SetImplementsTaskQueues ==
  SetSpec => ImplementsTaskQueues
<1>1. SetInit => QueuesPromise!Init
  <2> SUFFICES ASSUME SetInit
               PROVE  QueuesPromise!Init
    OBVIOUS
  <2>1. ~Whole /\ returned = [code |-> 0, prio |-> NULL]
    BY DEF SetInit, Whole
  <2> QED
    BY <2>1, NothingIsSeen DEF QueuesPromise!Init
<1>2. FullInv /\ FullInv' /\ [SetNext]_setVars => Promised
  <2> SUFFICES ASSUME FullInv, FullInv', [SetNext]_setVars
               PROVE  Promised
    OBVIOUS
  <2>1. IInv /\ ShapeInv /\ ShapeInv'
    BY DEF FullInv
  <2>2. CASE Make
    BY <2>1, <2>2, MakePromised
  <2>3. CASE Enqueue
    BY <2>1, <2>3, EnqueuePromised
  <2>4. ASSUME NEW id \in TaskIds, DequeueRefused(id) \/ Dequeue(id)
        PROVE  Promised
    BY <2>1, <2>4, DequeuePromised
  <2>5. CASE FreeCallback
    BY <2>1, <2>5, FreeCallbackPromised
  <2>6. CASE Destroy
    BY <2>1, <2>6, DestroyPromised
  <2>7. CASE NoSet
    <3>1. ~Whole /\ ~Whole' /\ returned' = [code |-> 1, prio |-> NULL] /\ 1 \in {0, 1}
      BY <2>7 DEF NoSet, Whole, SetReturns
    <3> QED
      BY <3>1, NoSetPromised
  <2>8. CASE UNCHANGED setVars
    <3>1. set' = set /\ pc' = pc /\ returned' = returned
      BY <2>8 DEF setVars
    <3>2. QueuesSeen' = QueuesSeen /\ DepthSeen' = DepthSeen
      BY <3>1 DEF QueuesSeen, DepthSeen, Whole
    <3> QED
      BY <3>1, <3>2, UnseenStep
  <2> QED
    BY <2>2, <2>3, <2>4, <2>5, <2>6, <2>7, <2>8 DEF SetNext
<1> QED
  BY <1>1, <1>2, SetSpecInv, PTL DEF SetSpec, ImplementsTaskQueues, QueuesPromise!Spec, Promised
=============================================================================
