------------------------------ MODULE TaskSet -------------------------------
(***************************************************************************)
(* Task sets (ros_task_set.c) in the memory of the static allocator: a set *)
(* is made, filled, emptied and destroyed, each call taking or giving back *)
(* its blocks one after the other and giving up at the first it is refused.*)
(*                                                                         *)
(* One process calls; a step is one call of the allocator and the code up  *)
(* to the next one.  A queue is the FIFO that RosQueue implements.  The    *)
(* semaphore of the set is in Executor.                                    *)
(***************************************************************************)
EXTENDS StaticAllocator, Sequences

CONSTANTS SetBytes,         \* sizeof(task_set_t)
          TaskBytes,        \* sizeof(task_t)
          QueueBytes,       \* sizeof(queue_t)
          PointerBytes,     \* sizeof(void *)
          InfoBytes,        \* sizeof(task_callback_data_t)
          DescriptorBytes,  \* sizeof(task_callback_t)
          Messages,         \* what callers enqueue: a set of [prio, bytes]
          MaxLen, MaxDepth, \* bounds on the tasks and the depth callers ask for
          Shapes,           \* the sets callers make: a set of [len, depth]
          Junk              \* a value nobody set

VARIABLES pc,       \* "idle", or the next allocator call of the call in progress
          set,      \* the set, whole when pc is "idle", or NULL
          call,     \* the locals of the call in progress, or NULL
          held,     \* the callbacks the caller has dequeued and not yet freed
          returned, \* [code, prio]: what the call that ended last returned
          clean     \* history: no call has failed half-way, no callback was abandoned

memory  == vars
setVars == <<memory, pc, set, call, held, returned, clean>>

Prios     == {m.prio : m \in Messages}
DataSizes == {m.bytes : m \in Messages}

\* The sizes of the arrays of tasks and of slots.
ArrayBytes ==
  {shape.len * TaskBytes : shape \in Shapes} \union {shape.depth * PointerBytes : shape \in Shapes}

\* What the variables hold: callbacks, queues, sets, and the locals of each call.
Callbacks   == [at : 1 .. Cap, prio : Prios, info : 1 .. Cap, data : 1 .. Cap]
QueueStates == [at : 1 .. Cap, slots : 1 .. Cap \union {NULL}, waiting : Seq(Callbacks)]
SetStates   == [at : 1 .. Cap, tasks : 1 .. Cap \union {NULL}, depth : 0 .. MaxDepth,
                queues : Seq(QueueStates)]

Calls ==
  UNION {[len : 0 .. MaxLen],
         [id : 0 .. MaxLen, prio : Prios, data : 1 .. Cap],
         [id : 0 .. MaxLen, prio : Prios, data : 1 .. Cap, info : 1 .. Cap],
         [at : 1 .. Cap, info : 1 .. Cap], [at : 1 .. Cap], [queue : 1 .. Cap]}

ASSUME TaskSetAssumption ==
  /\ {SetBytes, TaskBytes, QueueBytes, PointerBytes, InfoBytes, DescriptorBytes}
       \subseteq Nat \ {0}
  /\ MaxLen \in Nat /\ MaxDepth \in Nat
  /\ Shapes \subseteq [len : 0 .. MaxLen, depth : 0 .. MaxDepth]
  /\ Messages \subseteq [prio : Nat, bytes : Nat]
  /\ {SetBytes, QueueBytes, InfoBytes, DescriptorBytes} \union ArrayBytes \union DataSizes
       \subseteq Requests
  /\ NULL \notin SetStates \union Calls \union Seq(Seq(Prios))

\* alloc(bytes) when it returns NULL, and when it returns a block.
Denied(bytes) == AllocRefused(bytes) \/ AllocFails(bytes)
Granted(bytes) == AllocTakes(bytes)

Got == result'.got   \* what alloc has just returned

Idle == pc = "idle"

SetReturns(code, prio) == returned' = [code |-> code, prio |-> prio]

-----------------------------------------------------------------------------
SetInit ==
  /\ Init
  /\ pc = "idle" /\ set = NULL /\ call = NULL /\ held = {}
  /\ returned = [code |-> 0, prio |-> NULL]
  /\ clean = TRUE

\* The call returns.  After an allocation it was refused that is at once, and what
\* it had got stays allocated.
CallEnds(code) ==
  /\ pc' = "idle" /\ call' = NULL
  /\ SetReturns(code, NULL)

MakeFails == CallEnds(1) /\ set' = NULL

\* make_task_set(len, depth): the set, the array of tasks, then for each task its
\* queue and the slots of the queue.
MakeSet(shape) ==
  /\ Idle /\ set = NULL
  /\ \/ /\ Denied(SetBytes)
        /\ MakeFails
        /\ UNCHANGED clean
     \/ /\ Granted(SetBytes)
        /\ pc' = "make_tasks" /\ call' = [len |-> shape.len]
        /\ set' = [at |-> Got, tasks |-> NULL, depth |-> shape.depth, queues |-> <<>>]
        /\ UNCHANGED <<returned, clean>>
  /\ UNCHANGED held

MakeTasks ==
  /\ pc = "make_tasks"
  /\ \/ Denied(call.len * TaskBytes) /\ MakeFails /\ clean' = FALSE
     \/ /\ Granted(call.len * TaskBytes)
        /\ pc' = "make_queue"
        /\ set' = [set EXCEPT !.tasks = Got]
        /\ UNCHANGED <<call, returned, clean>>
  /\ UNCHANGED held

MakeQueue ==
  /\ pc = "make_queue"
  /\ \/ Denied(QueueBytes) /\ MakeFails /\ clean' = FALSE
     \/ /\ Granted(QueueBytes)
        /\ pc' = "make_slots"
        /\ set' = [set EXCEPT !.queues =
                     Append(@, [at |-> Got, slots |-> NULL, waiting |-> <<>>])]
        /\ UNCHANGED <<call, returned, clean>>
  /\ UNCHANGED held

MakeSlots ==
  LET i == Len(set.queues)
  IN /\ pc = "make_slots"
     /\ \/ Denied(set.depth * PointerBytes) /\ MakeFails /\ clean' = FALSE
        \/ /\ Granted(set.depth * PointerBytes)
           /\ set' = [set EXCEPT !.queues[i].slots = Got]
           /\ UNCHANGED clean
           /\ IF i < call.len
              THEN pc' = "make_queue" /\ UNCHANGED <<call, returned>>
              ELSE pc' = "idle" /\ call' = NULL /\ SetReturns(0, NULL)
     /\ UNCHANGED held

-----------------------------------------------------------------------------
NTasks == Len(set.queues)

\* Task ids count from 0.  The check is task_id > len: an id equal to len passes it
\* and reads past the array, whatever is there; callers are assumed not to.
TaskIds == (0 .. MaxLen + 1) \ {NTasks}

OutOfBounds(id) == id > NTasks

\* Mutant: a queue holds one callback more than it has slots.
HasRoomForOneMore(q) == Len(q.waiting) <= set.depth

\* enqueue accepts a callback while the queue holds fewer than its slots.
HasRoom(q) == Len(q.waiting) < set.depth

\* enqueue_callback_for_task: the copy of the data, the description of the data,
\* the callback, and then the queue.
EnqueueRefused(id) ==
  /\ Idle /\ set # NULL /\ OutOfBounds(id)
  /\ SetReturns(2, NULL)
  /\ UNCHANGED <<memory, pc, set, call, held, clean>>

EnqueueData(id, m) ==
  /\ Idle /\ set # NULL /\ ~OutOfBounds(id)
  /\ \/ /\ Denied(m.bytes)
        /\ CallEnds(3)
     \/ /\ Granted(m.bytes)
        /\ pc' = "enqueue_info"
        /\ call' = [id |-> id, prio |-> m.prio, data |-> Got]
        /\ UNCHANGED returned
  /\ UNCHANGED <<set, held, clean>>

EnqueueInfo ==
  /\ pc = "enqueue_info"
  /\ \/ /\ Denied(InfoBytes)
        /\ CallEnds(4)
        /\ clean' = FALSE
     \/ /\ Granted(InfoBytes)
        /\ pc' = "enqueue_descriptor"
        /\ call' = [id |-> call.id, prio |-> call.prio, data |-> call.data, info |-> Got]
        /\ UNCHANGED <<returned, clean>>
  /\ UNCHANGED <<set, held>>

\* The callback that is put together, with its descriptor in block b.
Callback(b) == [at |-> b, prio |-> call.prio, info |-> call.info, data |-> call.data]

\* Mutant: the newest callback goes first.
QueuedInFront(waiting, cb) == <<cb>> \o waiting

\* The queue with one more callback.
Queued(waiting, cb) == Append(waiting, cb)

EnqueueDescriptor ==
  LET i == call.id + 1
  IN /\ pc = "enqueue_descriptor"
     /\ \/ Denied(DescriptorBytes) /\ CallEnds(5) /\ clean' = FALSE /\ UNCHANGED set
        \/ /\ Granted(DescriptorBytes) /\ ~HasRoom(set.queues[i])
           /\ CallEnds(6) /\ clean' = FALSE /\ UNCHANGED set
        \/ /\ Granted(DescriptorBytes) /\ HasRoom(set.queues[i])
           /\ set' = [set EXCEPT !.queues[i].waiting = Queued(@, Callback(Got))]
           /\ CallEnds(0)
           /\ UNCHANGED clean
     /\ UNCHANGED held

\* dequeue_callback_for_task: the oldest callback becomes the caller's.
DequeueRefused(id) ==
  /\ Idle /\ set # NULL
  /\ \/ OutOfBounds(id) /\ SetReturns(2, NULL)
     \/ /\ ~OutOfBounds(id) /\ set.queues[id + 1].waiting = <<>>
        /\ SetReturns(3, NULL)
  /\ UNCHANGED <<memory, pc, set, call, held, clean>>

\* Mutant: the queue keeps the callback it has handed out.
Kept(waiting) == waiting

\* What stays in the queue.
Remaining(waiting) == Tail(waiting)

Dequeue(id) ==
  LET waiting == set.queues[id + 1].waiting
  IN /\ Idle /\ set # NULL /\ ~OutOfBounds(id) /\ waiting # <<>>
     /\ set' = [set EXCEPT !.queues[id + 1].waiting = Remaining(waiting)]
     /\ held' = held \union {Head(waiting)}
     /\ SetReturns(0, Head(waiting).prio)
     /\ UNCHANGED <<memory, pc, call, clean>>

-----------------------------------------------------------------------------
\* free_task_callback: its data, the description, the callback, each freed while the
\* pointer to it is still readable.  There is no return statement at the end.
FreeData(cb) ==
  /\ Idle /\ set # NULL
  /\ Free(cb.data)
  /\ held' = held \ {cb}
  /\ pc' = "free_info" /\ call' = [at |-> cb.at, info |-> cb.info]
  /\ UNCHANGED <<set, returned, clean>>

\* Mutant: the description of the data is not freed.
FreeInfoForgotten ==
  /\ pc = "free_info"
  /\ pc' = "free_descriptor" /\ call' = [at |-> call.at]
  /\ UNCHANGED <<memory, set, held, returned, clean>>

FreeInfo ==
  /\ pc = "free_info"
  /\ Free(call.info)
  /\ pc' = "free_descriptor" /\ call' = [at |-> call.at]
  /\ UNCHANGED <<set, held, returned, clean>>

FreeDescriptor ==
  /\ pc = "free_descriptor"
  /\ Free(call.at)
  /\ pc' = "idle" /\ call' = NULL
  /\ SetReturns(Junk, NULL)
  /\ UNCHANGED <<set, held, clean>>

\* destroy_task_set: the semaphore, whose destruction may fail and then ends the call;
\* for each task the slots and the queue; then the array of tasks and the set.
\* Callbacks that still wait are abandoned with their slots; a caller that holds one
\* keeps the set until it has freed it.
DestroyRefused ==
  /\ Idle /\ set # NULL /\ held = {}
  /\ SetReturns(2, NULL)
  /\ UNCHANGED <<memory, pc, set, call, held, clean>>

DestroySlots ==
  /\ \/ Idle /\ set # NULL /\ held = {}
     \/ pc = "destroy_slots"
  /\ Free(Head(set.queues).slots)
  /\ pc' = "destroy_queue"
  /\ call' = [queue |-> Head(set.queues).at]
  /\ clean' = (clean /\ Head(set.queues).waiting = <<>>)
  /\ set' = [set EXCEPT !.queues = Tail(@)]
  /\ UNCHANGED <<held, returned>>

\* Mutant: destroy_queue releases the slots alone.
DestroyQueueForgotten ==
  /\ pc = "destroy_queue"
  /\ call' = NULL
  /\ pc' = IF set.queues # <<>> THEN "destroy_slots" ELSE "destroy_tasks"
  /\ UNCHANGED <<memory, set, held, returned, clean>>

\* destroy_queue releases the queue after its slots.
DestroyQueue ==
  /\ pc = "destroy_queue"
  /\ Free(call.queue)
  /\ call' = NULL
  /\ pc' = IF set.queues # <<>> THEN "destroy_slots" ELSE "destroy_tasks"
  /\ UNCHANGED <<set, held, returned, clean>>

DestroyTasks ==
  /\ pc = "destroy_tasks"
  /\ Free(set.tasks)
  /\ pc' = "destroy_set" /\ call' = [at |-> set.at]
  /\ set' = NULL
  /\ UNCHANGED <<held, returned, clean>>

DestroySet ==
  /\ pc = "destroy_set"
  /\ Free(call.at)
  /\ pc' = "idle" /\ call' = NULL
  /\ SetReturns(0, NULL)
  /\ UNCHANGED <<set, held, clean>>

\* Every call on a set that was not made returns 1.
NoSet ==
  /\ Idle /\ set = NULL
  /\ SetReturns(1, NULL)
  /\ UNCHANGED <<memory, pc, set, call, held, clean>>

Make == (\E shape \in Shapes : MakeSet(shape)) \/ MakeTasks \/ MakeQueue \/ MakeSlots

Enqueue ==
  \/ set # NULL /\ \E id \in TaskIds :
       \/ EnqueueRefused(id)
       \/ \E m \in Messages : EnqueueData(id, m)
  \/ EnqueueInfo \/ EnqueueDescriptor

FreeCallback == (\E cb \in held : FreeData(cb)) \/ FreeInfo \/ FreeDescriptor

Destroy == DestroyRefused \/ DestroySlots \/ DestroyQueue \/ DestroyTasks \/ DestroySet

SetNext ==
  \/ Make \/ Enqueue
  \/ set # NULL /\ \E id \in TaskIds : DequeueRefused(id) \/ Dequeue(id)
  \/ FreeCallback \/ Destroy \/ NoSet

SetSpec == SetInit /\ [][SetNext]_setVars

-----------------------------------------------------------------------------
\* Who can reach which block: pointers, as [kind, task, place, block].  A callback that
\* waits is at a place in the queue of a task; one that is held is at its own, with no
\* task (0); the pointers of the call in progress have neither (-1).
CallbackOwns(i, k, cb) ==
  {<<"data", i, k, cb.data>>, <<"info", i, k, cb.info>>, <<"at", i, k, cb.at>>}

WaitingOwns(i, waiting) == UNION {CallbackOwns(i, k, waiting[k]) : k \in DOMAIN waiting}

QueueOwns(i, q) ==
  {<<"queue", i, 0, q.at>>, <<"slots", i, 0, q.slots>>} \union WaitingOwns(i, q.waiting)

SetOwns(s) ==
  IF s = NULL THEN {}
  ELSE {<<"set", 0, 0, s.at>>, <<"tasks", 0, 0, s.tasks>>}
         \union UNION {QueueOwns(i, s.queues[i]) : i \in DOMAIN s.queues}

HeldOwns(callbacks) == UNION {CallbackOwns(0, cb, cb) : cb \in callbacks}

\* The fields of `call' that hold blocks.
CallOwns(c) ==
  IF c = NULL THEN {}
  ELSE {<<f, -1, 0, c[f]>> : f \in DOMAIN c \intersect {"at", "queue", "data", "info"}}

Owns == {o \in SetOwns(set) \union HeldOwns(held) \union CallOwns(call) : o[4] # NULL}

Owned == {o[4] : o \in Owns}

\* The blocks nobody will ever free.
Lost == live \ Owned

\* Shapes of the variables.
SetTypeOK ==
  /\ TypeOK
  /\ pc \in {"idle", "make_tasks", "make_queue", "make_slots", "enqueue_info",
             "enqueue_descriptor", "free_info", "free_descriptor", "destroy_slots",
             "destroy_queue", "destroy_tasks", "destroy_set"}
  /\ set \in SetStates \union {NULL}
  /\ set # NULL =>
       /\ Len(set.queues) <= MaxLen
       /\ \A i \in DOMAIN set.queues : Len(set.queues[i].waiting) <= set.depth
  /\ call \in Calls \union {NULL}
  /\ Idle => call = NULL
  /\ held \subseteq Callbacks
  /\ returned \in [code : 0 .. 6 \union {Junk}, prio : Prios \union {NULL}]
  /\ clean \in BOOLEAN

\* No block is reached after it was freed, and none by two owners, who would both
\* free it: the frees of ros_task_set.c:243-249, 300-303 and ros_queue.c:123-127 hit
\* each block once, also when a call gave up half-way before.
OwnedOnce ==
  /\ Owned \subseteq live
  /\ \A o, p \in Owns : o[4] = p[4] => o = p

\* What a step may lose.
LossStep ==
  \/ Lost' = Lost
  \/ /\ Lost \subseteq Lost' /\ pc' = "idle"
     /\ pc \in {"make_tasks", "make_queue", "make_slots"}
     /\ Lost' \ Lost = Owned
  \/ /\ Lost \subseteq Lost' /\ pc' = "idle"
     /\ pc \in {"enqueue_info", "enqueue_descriptor"}
     /\ returned'.code \in 4 .. 6
     /\ Cardinality(Lost' \ Lost) = returned'.code - 3
  \/ /\ Lost \subseteq Lost' /\ pc' = "destroy_queue"
     /\ Cardinality(Lost' \ Lost) = 3 * Len(Head(set.queues).waiting)

\* Blocks get lost in three ways, and for good: a make that fails loses all it had
\* got (ros_task_set.c:53, 62; ros_queue.c:22), an enqueue that returns code c > 3
\* loses c - 3 blocks (lines 169, 183, 196: the last on a full queue, with memory
\* left), and destroying a queue loses three for each callback that waits in it.
LossIsWhatTheCallGot == [][LossStep]_setVars

\* A caller to whom no call failed half-way, and who emptied the queues as line 291
\* asks, has all the memory back in one block after destroy_task_set.
MemoryComesBack ==
  clean /\ Idle /\ set = NULL /\ freeList # NULL => free = Cap /\ IsUnified

\* The calls use the allocator as StaticAllocator says its callers do: every static_free
\* they make, of a set that is whole or of what a failed call has left, is of a block
\* that was allocated and not freed since.
UsesAllocator == Spec

\* The set is there for callers from the end of its making to the start of its end.
Whole ==
  set # NULL /\ pc \in {"idle", "enqueue_info", "enqueue_descriptor", "free_info",
                        "free_descriptor"}

PrioritiesOf(waiting) == [k \in DOMAIN waiting |-> waiting[k].prio]

QueuesSeen ==
  IF Whole THEN [i \in DOMAIN set.queues |-> PrioritiesOf(set.queues[i].waiting)] ELSE NULL

DepthSeen == IF Whole THEN set.depth ELSE 0

QueuesPromise ==
  INSTANCE TaskQueues WITH queues <- QueuesSeen, depth <- DepthSeen, FreeCodes <- {0, Junk}

\* The set behaves as ros_task_set.h promises: a bounded FIFO per task, the codes of
\* make, enqueue, dequeue and destroy, and a call that fails at any allocation leaves the
\* queues as they were.  The code of free_task_callback is left open.
ImplementsTaskQueues == QueuesPromise!Spec

-----------------------------------------------------------------------------
(* What the header says, and the code does not do. *)

HeaderPromise ==
  INSTANCE TaskQueues WITH queues <- QueuesSeen, depth <- DepthSeen, FreeCodes <- {0}

\* The same with the code of free_task_callback as in its header: "Zero on success"
\* (ros_task_set.h:134).
ImplementsHeader == HeaderPromise!Spec
=============================================================================
