# A verification of ros_exec

The repository is a set of C programs on the way to an executor for callbacks: a
parent process accepts requests, each with a task and a priority, and preempts and
resumes one child process per task with SIGSTOP and SIGCONT. This directory holds
TLA+ modules translated from that code, TLC configurations that check them on small
instances, and proofs, checked by TLAPS, of what matters most for every instance.

## 1. The system and its parts

| part | files | state | operations |
|---|---|---|---|
| ring buffer queue | `ros_queue.c/.h` | `array`, `ptr`, `len`, `cap` | make, enqueue, peek, dequeue, destroy, show |
| static allocator | `ros_static_allocator.c/.h` | a circular free list threaded through the block headers, a roving start, the count of free bytes | install, alloc, free, is_unified, show |
| task set | `ros_task_set.c/.h` | semaphore, `current_running_task_id`, per task: pid, callback, queue | make, destroy, enqueue/dequeue a callback, free it, choose the highest priority task, show |
| executor | `ros_executor_prototype.c` | parent: selection, `running_task_id`, `task_to_run`, `task_stack`; child: `callback_p`; kernel: pids, stopped or not, pending SIGSTOP | the parent's loop, registration, `task_routine` |
| shared memory | `ros_exec_shm.c/.h`, the programs `ros_shm.c`, `ros_shm_2.c`, `shm_read.c` | the name and the objects of the kernel, a descriptor per program | map, unmap, read |
| executor simulator | `ros_executor_simulator.c`, `ros_simulator_settings.h` | poll table, per task message queue | accept, read a message, disconnect, schedule |
| request simulator | `ros_request_simulator.c` | one socket | connect, send ten messages, close |
| draft | `ros_exec.c` | as the simulator | does not compile |
| demo | `demo.c` | `g_pid`, a semaphore, a thread suspended or not | routine, pause, resume, join |
| tests, experiments | `*_test*.c`, `forker.c`, `thread_demo.c` | - | - |

How they interact. The executor maps shared memory, installs the allocator in it and
makes the task set with it; every queue lives in that memory. The processes share the
task set. One semaphore in it guards everything: the queue, the allocator and the
task set lock nothing themselves. Signals go from the parent to the children, outside
the semaphore. The simulator is a separate program with its own task table, driven by
the request simulator over TCP.

What is hard. A signal is not remembered: SIGCONT to a process that is not stopped is
lost. SIGSTOP lands anywhere, also inside a critical section. What the parent reads
under the semaphore is old by the time it signals. The index arithmetic of the ring
buffer mixes signed and unsigned numbers. The allocator merges neighbours in a
circular list that starts anywhere. Failures half-way leak memory. A thread may be
suspended with a lock the other needs. A program that is killed leaves its name behind.
`PROJECT.json` lists every such hazard at its line.

What makes each part correct:

- queue: it is a bounded FIFO, and never hands out a slot that was not written;
- allocator: blocks never overlap or get lost, neighbours are merged, a request is
  refused only when nothing fits;
- task set and executor: critical sections exclude each other; every accepted callback
  is run at most once, in order, with its memory intact, and its memory goes back
  afterwards; the parent's view of who runs is not invented; a user who waits gets
  every callback run;
- simulator: every entry of the poll table is an open connection and every open
  connection has one, every client is served to its end or dropped, the scheduler gets
  the messages that were sent and drops none while there is room;
- task set in its memory: every block has one owner, none is freed twice or reached
  after it was freed, and what a failing call loses is what that call had got;
- demo: the thread is never suspended with the semaphore, the menu always comes back;
- shared memory: a running owner keeps its memory and its name to itself, and the name
  goes when the last owner does.

## 2. Modules

| module | models | built from |
|---|---|---|
| `Fifo` | the promise of `ros_queue.h` | - |
| `RosQueue` | `ros_queue.c` | shown to implement `Fifo` |
| `RosQueueShow` | `show_queue` | extends `RosQueue` |
| `TaskQueues` | the promise of `ros_task_set.h` | - |
| `TaskSet` | `ros_task_set.c`, `make_queue` and `destroy_queue`, down to each allocator call | extends `StaticAllocator`, whose actions are part of its own; shown to implement `TaskQueues` and to use the allocator as `StaticAllocator` allows |
| `Heap` | the promise of `ros_static_allocator.h` | - |
| `StaticAllocator` | `ros_static_allocator.c` | shown to implement `Heap` |
| `Dispatch` | what an executor promises to callbacks | - |
| `Executor` | `ros_executor_prototype.c` with the operations of `ros_task_set.c` it calls | uses the queue as the sequence `RosQueue` implements, the memory as the blocks `StaticAllocator` gives; shown to implement `Dispatch` |
| `RequestSimulator` | `ros_request_simulator.c` and the TCP connection in between | - |
| `Simulator` | `ros_executor_simulator.c` | composed with `RequestSimulator` |
| `Demo` | `demo.c` | - |
| `SharedMemory` | `ros_exec_shm.c` and the programs that use it | - |
| `RosQueueProofs`, `StaticAllocatorProofs`, `TaskSetProofs`, `ExecutorProofs`, `SimulatorProofs`, `DemoProofs`, `SharedMemoryProofs` | theorems | extend their component, `TaskSetProofs` also `StaticAllocatorProofs` |
| `NaturalLemmas` | the least-number principle and the result of a loop of so many turns, for the proofs | - |
| `MCRosQueue`, `MCStaticAllocator`, `MCExecutor`, `MCSimulator`, `MCTaskSet`, `MCSharedMemory` | instances for TLC | extend their component |

**RosQueue.** The variables are the fields of `queue_t` that change. `OldestIndex` is
the double remainder of peek and dequeue, written with `CRem`, which truncates like C.
`AsInt` is the narrowing of the indices to `int` before the remainders. Up to a capacity of
2^30 it changes nothing and `+ cap` stays in the range of `int`; beyond that the code is
undefined, and `QueueAssumption` leaves it out (`2 * Cap - 1 <= IntMax`).
A slot never written holds `Junk`; nothing clears a slot. `result` is what the last
call returned, so that `Fifo` can say what callers see.

**RosQueueShow.** `show_queue` adds a signed head to an index and reduces the sum
modulo a `size_t`: `UnsignedRem` does what the conversion does, with 2^64 mod cap
computed step by step, because TLC's integers are narrower. While `ptr >= len` the walk
prints the contents (`ShowsContentsUnlessWrapped`). After that the head is negative, and
it prints other slots unless the capacity divides 2^64.

**StaticAllocator.** Memory is numbered in units of a block header. `next` and `size`
are the headers in memory, those of handed-out and merged blocks included, which keep
whatever was last written there. `Walk` follows the links; `SearchEnd` is where the
loop of `static_alloc` stops, `Place` where the one of `static_free` does. Each call is
one action, because the executor calls the allocator only inside its critical sections
(`CriticalSectionsExclude`). Callers free what they hold, once. Not modelled: what
callers store, sizes near 2^64, pointers that were never handed out.

**TaskSet.** One action per call of the allocator, with the code up to the next one, so
that every allocation of every operation can be the one that is refused; `pc` names the
next call and `call` the locals in between. The allocator is
`StaticAllocator`, not its promise: whether a request fits depends on where the free
stretches are, and `memory` is its state. The queue is the sequence `RosQueue`
implements. One process calls at a time (the callers hold the semaphore, `Executor`).
`held` are the callbacks a caller has dequeued and not yet freed. `Owns` are the pointers
through which somebody can still reach a block, each with the place it is at, `Owned` the
blocks they reach, `Lost` those nobody can: a make that fails loses all it
had got, an enqueue that returns 4, 5 or 6 loses one, two or three blocks (with 6, on
a full queue, there was memory enough; a user who goes on drains the memory), and
destroying a set loses three for each callback that waits. A semaphore that cannot be
destroyed ends `destroy_task_set` with 2 and nothing released (`DestroyRefused`); one that
cannot be made is only reported, and the set is used all the same (`Make`).
`free_task_callback` ends without a return, so its code is `Junk`. Its header promises zero:
`TaskQueues` takes the codes it may return as a constant, `ImplementsTaskQueues` leaves
them open, `ImplementsHeader` insists on zero and is violated. `QueuesSeen` and `DepthSeen` are what
`TaskQueues` sees: the queues of a set that is whole, and NULL while it is made or destroyed.
`UsesAllocator` is the specification of the allocator as a property of its caller: its
callers free what they hold, once. It is proved and in no run: the run checks `OwnedOnce`,
which says the same of every pointer a call could pass to `static_free`.

Excluded: null arguments, `task_id = len` (undefined behaviour), destruction while a
caller holds a callback (it could not free it any more).

**Executor.** One action per statement that another process can observe. `sem` is the
process between its `sem_wait` and its `sem_post`, or `Nobody` for the value 1; a post
by anybody frees it, as in C. `run[c]` is the kernel's view of a child:

- `SigStop`, sent by the parent, makes it "stopping"; `DeliverStop` makes it "stopped"
  some time later, wherever the child is by then;
- a child's SIGSTOP to itself takes effect before `kill` returns;
- `SigCont` makes it "running" and discards a pending stop; on a running child it does
  nothing. A stopped process that waits for the semaphore goes on waiting after it is
  continued (Linux since 2.6.22);
- a pid of -1 (a child that has not registered, or the last task, for which no process
  is forked) is a broadcast.

A child at "lock1" has executed its own SIGSTOP and, once continued, waits for the
semaphore: the stop and the wait are distinguished by `run`. Requests are numbered by
the prompt that made them; `accepted` and `taken` are history. The heap is a pool of
blocks `<<request, part>>`: the three allocations of a request take 4, 16 and 16 bytes,
and with a header unit of 32 bytes (the size of `max_align_t`) each is two units, so after
the task set is made all allocations are alike and fit wherever one fits. `HeapBlocks`
is small in the runs to let allocations fail at each of the three places. Errors of the
enqueue leave the blocks allocated so far to nobody, as the code does.

`scanf` takes any `int` for a priority. `StoredPrio` is the remainder of line 259, which in C
is negative for a negative sum, and the narrowing to `uint8_t` of the call, so all of 0 to
255 can be stored: 255 from -256, and 0, the lowest, from 255, which the prompt offers. Above `INT_MAX - 255` the sum overflows: `ExecutorAssumption`
leaves that out.

Excluded, as undefined behaviour: selecting task number `n_tasks` itself, which passes
the off-by-one check of `ros_task_set.c:149` and indexes past the array. Rejected
numbers (larger, or negative: the comparison is unsigned) are included, and the parent
then schedules all the same. `tasks[-1].pid`, read when no task is ready, is the second
word of the block header in front of the array; it is a small number and no child's
pid, so the signal reaches nobody.

**RequestSimulator, Simulator.** The client has one action per system call; `up` is its
end of the connection, `conn` the server's, `backlog` the queue of the listener, which
takes `Backlog` connections (ten in the code); the next `connect` waits. The
wire keeps order and nothing else: `arrived` counts bytes, and `Deliver` moves any
number of them, so a message may come in pieces. A client that writes to a connection
the server has closed may get away with it or be killed by SIGPIPE.

The server is one thread, so its actions are the iterations of its loops: `Poll`, one
entry of the walk (`Skip`, `TurnAway`, `Accept`, `AcceptFails`, `ReadMessage`,
`Disconnect`), `WalkEnds`. `fds` is the used part of the poll table with `POLLIN` as a
flag, moved along with its entry when `Removed` shifts the table; entry 1 is the
listener. `got` counts the bytes read; because the stream is in order, it says which
message a read of three bytes is, `sent[c][got[c] \div 3 + 1]`, and reads that start
elsewhere would show up in `Framed`. A task's queue keeps only priorities: nothing
looks at the data byte, and nothing ever removes a message.

Excluded, as undefined behaviour: a message for task `MAX_TASK_COUNT`, which passes the
off-by-one check at line 195. The client never sends one. Not modelled: poll or
accept failing otherwise than for want of descriptors, a read that fails (`ECONNRESET`),
a write of fewer than three bytes.

The scheduler takes the highest number for the highest priority (line 224), where the
comment of line 208 says the lowest, and the first message of a queue, where the comment
of line 223 says the latest. `ChoosesAsCommented` is what the comments say, and violated.
`ChoosesFirstHighest` is what the code does instead: it is proved and
checked by no run, because it is nothing the repository asks for.
`DroppedOnlyWhenFull` counts what was read for each task (`ReadFor`) against its queue.

**Demo.** Two threads and two locks: `g_mutex`, and the lock of stdout that printf takes.
A suspended thread takes no step, and `Printing` says that the routine is in one of the
two printfs outside its critical sections. What it prints inside of them, and what the
menu prints, is one step that needs stdout free: nobody is suspended there. A text
instead of a number stays in the input, so `scanf` returns at once from then on and the
menu repeats its last choice for good (`text`, and `n` unchanged). The first one may find
`n` unset: any number. The thread is suspended and continued by identifier, so
`SuspendedBetween` matters: after its end the identifier may be anybody's.

**SharedMemory.** The programs are owners, guests and readers of one name; one action per
system call. `fd` is what a program has open or mapped until it ends; an object lives
while it has its name or somebody has it open. Any call may fail (`CallFails`: the code
returns and undoes nothing), any program may be killed, and any may be started again.
`privileged` tells root, whom the mode 0 of line 8 does not stop. A program that touches
memory behind the end of a truncated object gets a SIGBUS, which is `Killed`. What is
written is who wrote it. That mode has consequences both ways: without root it protects an
owner from everybody (`OwnerUndisturbed`), guests and readers included, which can then
never open what they are for; and a name left behind cannot be opened nor removed by any
program here (`LeftBehindForGood`), so that an executor, which ends no other way than by a
kill, starts once and then fails at `shm_open` until somebody removes the name.

## 3. Runs

| run | instance | shows | states |
|---|---|---|---|
| `RosQueue` | 3 slots, 3 elements | types, `WindowWritten`, `ShowsContentsUnlessWrapped`, `ImplementsFifo` | 1 269 |
| `Allocator` | 7 units of 4 bytes, sizes 0 1 4 5 12 | types, `Tiles`, `Coalesced`, `UnifiedWhenAllFreed`, `ImplementsHeap` | 38 994 |
| `TaskSet` | 23 units of 32 bytes, five shapes of sets, three messages | types, `OwnedOnce`, `LossIsWhatTheCallGot`, `MemoryComesBack`, `ImplementsTaskQueues` | 92 930 |
| `TaskSetFree` | as `TaskSet` | violation: `ImplementsHeader` | - |
| `Executor` | 3 tasks, depth 2, 7 blocks, 3 requests | types, eight invariants, `ServesOrStuck`, `AcceptedCompletes` and `ImplementsDispatch` | 279 630 |
| `ExecutorWedge` | 2 tasks selected | violation: `SuspendsOutsideCriticalSection` | - |
| `ExecutorWakeup` | 1 task selected, 2 requests | violation: `SignalledTaskRuns` | - |
| `Simulator` | 2 clients, 2 messages each, 2 tasks, queues of 2, 1 waiting at the listener | types, `Framed`, `DroppedOnlyWhenFull` | 3.5 million |
| `SimulatorServes` | 2 clients, table of 3, up to two failed accepts | `TableIsOpenConnections`, `EveryClientServed` | 80 091 |
| `SimulatorChoice` | as `Simulator` | violation: `ChoosesAsCommented` | - |
| `Demo` | counts to 28, prints every 10 | types, `SuspendedBetween`, `CountsPrimes`, `MenuComesBack`, `JoinsWhatRuns` | 1 330 |
| `SharedMemory` | 2 owners, 1 guest, 1 reader, 5 objects | types, `OwnerUndisturbed`, `NameGoesWithOwners`, `LeftBehindForGood` | 170 898 |

Why the bounds are enough. Three slots let the ring wrap at every fill level, and three
distinct elements tell every order apart. Seven units hold three blocks of two units
and leave one over, so that a freed block can have a free neighbour on either side, on
both, or on none, at either end of the list, with the roving start anywhere; sizes 1
and 4 round to the same block, 5 to the next. Three tasks are two children, enough for
each to be the running, the resumed and the preempted one, and the task without a
process. A queue of two fills, orders and overflows; three requests preempt, overflow
and exhaust a heap of seven blocks (the runs that look for a violation go up to four, with ten). Two priorities order any pair of tasks: 255 and -256 are the
ends of what is stored, 0 and 255. `MaxRequests` bounds the
prompts a user answers; after them the system stops, hence no deadlock check in the
runs of the executor. A table of three is the listener's entry and two more; one failed
accept leaves one for two clients, so the table is full, a client is turned away, and a
removal shifts another entry under the walk; a second leaves none. Two messages of three bytes let every
split of one reach into the next; queues of two overflow with the third of the four
messages, and have a first and a latest one. `MaxMessages` stands for the ten of the code, `MaxFailures` bounds the accepts
that fail. `Backlog` is one where the second connection is to wait with the client, two where
both are to wait at the listener.
Clients are interchangeable (symmetry, in the run without liveness).

The sizes of `TaskSet` are those of a 64-bit build (header 32 bytes, set 80, task 24,
queue 48, pointer 8, descriptions 16). A set of one task takes eleven units and a callback
six, so 23 hold a set with two callbacks, one of two tasks (17) with one, and nothing
more after a few leaks: every allocation is refused somewhere. Messages of 0, 12 and 32
bytes are refused, fill part of a unit, and fill one. Sets with no tasks and queues with no
slots fail, because the allocator refuses 0 bytes. `Demo` counts past 9 and 25, the squares
that only the last divisor tried finds out; `Limit` and `Stride` stand for fifty and ten
million. `SharedMemory` has an object for each program and one for the name; two owners
overlap in every way; objects and owners are interchangeable (symmetry, no liveness).

Fairness. The kernel runs every process that can run and delivers every signal: weak
fairness of the parent's statements, of each child's, and of the delivery of a stop.
None of the prompt, which waits for a user. Weak fairness of a `sem_wait` is what Linux
gives a single waiter; no property relies on more, because the runs' liveness only
needs the semaphore once it stays free. The user may do anything; `patient` is history and
remembers whether every answer so far waited until all children had suspended themselves.

In the simulator the poll loop never sleeps for long, a connected client goes on with
its loop, and the network delivers what was written: weak fairness of each. None of
`Connect`: a client need not ever come.

In the demo the system runs every thread that is not suspended and finds its lock free:
weak fairness of the routine and of the menu's steps that wait for nobody's keyboard. The
user need not type. `TaskSet` and `SharedMemory` have no liveness: their callers may stop.

What the violations say; `PROJECT.json` quotes the lines they contradict.

- `ExecutorWedge`: a child woken with an empty queue keeps the semaphore.
- `ExecutorWakeup`: a SIGCONT sent before the child has stopped is lost, with its callback.
- `TaskSetFree`: the code of `free_task_callback` is indeterminate.
- `SimulatorChoice`: the scheduler chooses the higher number, and by the oldest message.

What some of the passing properties leave room for: the parent's view of who runs goes one
way (`CurrentIsBusy`). The other way it does not hold: a preempted child that finishes before its stop
arrives clears `current`, whoever it names, and a resumed one does not set it again. And it
is right when the parent reads it, not when the parent signals (lines 277, 292): the stop may
land on a child that has finished meanwhile and holds the semaphore. `MenuComesBack` says that the menu comes
back *unless* the routine was suspended in a printf, and TLC reaches that end: the menu's
own printf then waits for good. `JoinsWhatRuns` is about a routine that runs: with it
suspended, leaving the menu joins it for good. `StackBounded` says that requests are all
that bounds `task_stack`, which is never popped: its 255 entries can overflow from the
257th request on. `EveryClientServed` excepts a table whose entries failed accepts have all
taken: then nobody is served again, and TLC reaches that too.

## 4. Proofs

`RosQueueProofs`: for every capacity whose indices fit an `int` (`QueueAssumption`) and every
set of elements, `TypeCorrect`,
`NeverReadsUnwritten`, `RosQueueImplementsFifo` and `ShowRightUnwrapped`. The invariant is that the `len`
slots behind `ptr`, modulo the capacity, have been written; the narrowing is shown to change
no index (`NarrowingIsExact`), the double remainder is
shown to be `(ptr - len) % Cap` first, and each operation's effect on `Contents`
follows from how that window moves.

`ExecutorProofs`, for every number of tasks, depth and heap, and every user whose priorities
are at most `INT_MAX - 255`:

- `HighestPrioTaskIsFirstHighest`: the scheduler's choice exists and is the first of
  the best tasks (a least-number argument over priorities, then over tasks);
- `TypeCorrect`, from the invariant `TypeInv`: types, and a request has been made
  whenever the parent is past its prompt;
- `MutualExclusion`: `CriticalSectionsExclude` is inductive with the types. Each step
  moves one process; `MoveExcludes` says which moves keep the exclusion. The child that
  breaks the discipline leaves without posting, which only excludes more;
- `NoCallbackLost`: `NothingLostOrRepeated` is inductive with the types. `StepKinds`
  reduces the seventeen actions to bystanders and the three that touch the ledger.

On top of them:

- `RunningTaskIsBusy`: `CurrentIsBusy` is inductive with the types and the exclusion.
  `MoveKeepsBusy` covers the steps that leave `current` alone: a child inside a callback
  stays there until its own finish, and one that has kept the semaphore cannot lose it
  to a post, because nobody else is in a critical section;
- `StoppedTaskIsOnStack`: `PreemptedIsOnStack` needs two facts more. `Registered`: a task
  can be the running one only after its child has written its pid, so the parent stops
  one child and never all. `StopsRecorded`: the child is recorded as soon as the stop is
  pending, wherever it is, since it may walk on before the stop arrives.

`StackWithinRequests` needs that until the first request wakes a
child nothing runs (`Asleep`), and that a request on its way has not pushed yet (`Underway`).

`BlocksStayWithCallbacks`. The strengthening is that numbers of
requests are accepted once, in all queues together, and are below the next request's; so
the blocks a new request takes, or a finished one gives back, belong to no other.

On top of that `ExecutorImplementsDispatch`: every step maps to
accepting, beginning or completing a callback, or to a stutter. What is done is computed
from the history, so each action needs what its change of `taken` and `job` adds to it; that
it is new follows from the numbers accepted once.

`PatientUserPreemptsNobody` and `PatientUserNeverStuck` hold as long as the user is `patient`,
which includes never typing the number of the task without a process. That is needed: its
pid is -1, so its SIGCONT wakes every child, with its queue empty. The invariant `PatientInv` says that outside the prompt every child is
parked, so that nothing runs when the scheduler compares, that the stack stays empty, and
that a child which is awake at its semaphore or behind it has a callback waiting.

`StaticAllocatorProofs`, for every capacity, unit and sequence of calls: `TypeCorrect`,
`MemoryIsTiled`, `NoNeighbourIsMissed`, `FreedMemoryIsOneBlock` and `AllocatorImplementsHeap`.

- The invariant says that there is a set of free blocks of the right `Shape`: the links go
  from each to the next in order of address and from the last to the head (`Chain`), they
  and the held blocks follow one another over the whole memory (`Tiling`), no two touch
  (`Apart`), and the counter is the number of units in them (`Stretch`). Walks are not in
  the invariant. What is reached from the roving start follows from `Chain`: a walk stays on
  the list, gets to each block and returns (`WalkStays`, `WalkCovers`, `WalkReturns`). With
  that `SearchLooksEverywhere` (a search that fails has seen every block) and `PlaceIsBefore`
  (the place found for a block is the one before it in address, wherever the search began).
- `TakeWhole` and `TakeTail` are the two ends of `static_alloc`. `GiveBack` is `static_free`: `InsertBlock`
  puts the block in, which touches the two blocks around it at most; `MergeBlocks`, used
  once or twice, removes a touch and adds none.
- That a refusal is right: units nobody holds are free (`UnheldIsFree`), and a run of free
  units lies within one block, because no two touch (`RunInOneBlock`): without the merges
  `AllocatorImplementsHeap` would be false.

`TaskSetProofs`, for every capacity, sizes of the structures, messages and shapes of sets,
whichever allocations are refused: `SetTypeCorrect`, `BlocksAreOwnedOnce`,
`AllocatorIsUsedRight`, `LossesAreAccountedFor`, `NothingLeaks` and `SetImplementsTaskQueues`.
The invariant `FullInv` has three parts, and none is inductive alone:

- the allocator's own `IInv`. That it is preserved by a `Free` needs the block to be held,
  which is for the callers to see to, so `UsesAllocator` has to be proved along with it;
- `ShapeInv`: what `pc` says of the locals and of the set, half made (the last queue without
  slots), whole, or half destroyed. It gives each pointer the call frees next a value;
- `OwnInv`: the pointers lead to allocated blocks, each to its own (`Sole`), and to all of
  them while no call has failed half-way (`Covers`).

The steps are of few kinds as far as ownership goes: a pointer to a new block comes
(`OneMorePointer`), one goes with its block (`OnePointerLess`), pointers change hands
(`PointersMove`: a dequeue moves a callback to the caller and every other one up a place; a
destroy moves all queues up) and pointers are forgotten (`Forgotten`, the failures). For each
kind the blocks reached afterwards follow, hence what is lost; `WaitingBlocks` counts three
for each callback in a destroyed queue, which needs that no two of its pointers are equal.
`NothingLeaks` takes the rest from the allocator's theorems: with nothing held the tiles are
the free blocks, and those are one. For the refinement, with the code of `free_task_callback` left open, only the end of a make, an enqueue
that succeeds, a dequeue, the return codes and the start of a destroy are visible; the other
steps are shown to change nothing that is seen (`UnseenStep`).

`SimulatorProofs`, for any number of clients, one connection each, any backlog of the
listener, and every number of messages, tasks, slots and entries: `TypeCorrect`,
`TableIsRight`, `StreamIsFramed`, `DropsOnlyWhenFull` and `ChoiceIsFirstHighest`. The invariant has the
table (`TableInv`: the listener first, an entry for each open connection, a dead one for each
accept that failed), the listener's queue (`BacklogInv`: the connections that wait, each
once), the walk (`WalkInv`: it starts at the listener, and when poll found that readable a
connection still waits) and the stream (`StreamInv`: of a connection it has not closed the
server has read whole messages, and nothing that has not arrived). `DropsOnlyWhenFull` adds
`AccountInv`, the length of each queue against `ReadFor`: a step either reads nothing and
writes behind what was read (`NothingRead`), or adds one message to one task.

`DemoProofs`: exclusion by the semaphore (each thread is between its wait and post exactly
when it is the holder), with what `g_pid` says of where the routine is; then
`NeverSuspendedInside`, and `TypeCorrect` for every `Limit`. `SumIsNumberOfPrimes` needs that
`isPrime` is right (`IsPrimeIsRight`): the integer root exists (`RootExists`), and of the two
factors of an odd number that is not prime the smaller is odd and at most the root
(`OddDivisor`).

`SharedMemoryProofs`, for any number of programs and objects: `OwnersAreUndisturbed` from
the invariant that without root one program at most has anything open (`Alone`) and what an
owner has done by then (`Prepared`); `NamesGoWithOwners` from `Attended`, an owner is on its
way to the unlink while there is a name; `WhatIsLeftStays` with `Reclaimed`, what nobody can
reach has no contents. `EndsKeeps` covers the seven ways a program ends.

They rest on the assumptions named in the modules (`QueueAssumption`, `AllocatorAssumption`,
`TaskSetAssumption`, `ExecutorAssumption`, `ClientAssumption`, `SimulatorAssumption`, `DemoAssumption`,
`SharedMemoryAssumption`). `TaskSetAssumption` says that the structures have positive sizes, that what is
asked for is among the requests of the allocator, and that NULL is none of the values that
sets, calls and queues take.

Every safety property of the passing runs is proved. Model-checked only is liveness, which is
out of the prover's reach: `ServesOrStuck`, `AcceptedCompletes`, `EveryClientServed`,
`MenuComesBack` and `JoinsWhatRuns`; and so are the violations.

## 5. What is not modelled

- `task_id = len`, null arguments, sizes near 2^64 (where the rounding of
  `ros_static_allocator.c:61` wraps): undefined behaviour or no caller's.
- `static_show`, `show_task_set`: printing. The latter prints `queue_depth` of the set
  (`ros_task_set.c:264`), which nothing ever sets.
- A `fork` that fails (`ros_executor_prototype.c:224`): its -1 is not 0, so the parent goes
  on and the task stays as one without a process, like the last task of the model.
- `make_task_set` returning NULL in the executor, which does not look: the failure itself is
  in `TaskSet`, and the program then ends at its first access.
- `thread_demo.c`: the example of a manual page, without shared state.
- `ros_exec.c`: does not compile; what it shares with the simulator comes with it.
- Tests and experiments: read, not modelled.
- The code after the executor's endless loop is unreachable.

Differences from what texts of the repository say that are in the models, with no run of
their own:

- 255, which the prompt of `ros_executor_prototype.c:257` offers, is stored as 0 (`StoredPrio`);
- `[n-forks]` (line 191) forks one less, so the last task has no process (`Children`);
- "Signal task to run to run" (line 296) to a task without a pid wakes every child
  (`Signalled`);
- "Print queue contents" (`ros_queue.c:146`) prints other slots once the contents have
  wrapped (`Shown`).

## 6. Plan

1. `Fifo`, `RosQueue`, `RosQueueShow`, proofs of the first two: done.
2. `Dispatch`, `Executor`, its runs, the proofs of exclusion and of the ledger: done.
3. `Heap`, `StaticAllocator`, types, tiling, coalescing and the refinement proved: done.
4. `RequestSimulator`, `Simulator`, the safety properties proved: done.
5. `TaskQueues`, `TaskSet`, the safety properties and both refinements proved: done.
6. `Demo`, `SharedMemory`, the safety properties proved: done.
7. Proofs about the executor: the safety properties and the refinement are done.
