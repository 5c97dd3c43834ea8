------------------------------ MODULE Executor ------------------------------
(***************************************************************************)
(* ros_executor_prototype.c: a parent process that reads requests and      *)
(* schedules, and one child process per task that runs the callbacks.      *)
(*                                                                         *)
(* The processes share the task set (ros_task_set.c) and the memory its    *)
(* allocator manages; one semaphore guards both.  The parent preempts and  *)
(* resumes children with SIGSTOP and SIGCONT, outside the semaphore.       *)
(*                                                                         *)
(* A task's ring buffer is the sequence RosQueue is shown to implement.    *)
(* After make_task_set every allocation is two units of the static         *)
(* allocator (4, 16 and 16 bytes, rounded up to 32, plus a header), so the *)
(* memory is a pool of equal blocks, a block being <<request, part>>.      *)
(***************************************************************************)
EXTENDS Integers, Sequences, FiniteSets

CONSTANTS
  NTasks,       \* n_tasks, from argv[1]
  QueueDepth,   \* task_queue_size
  HeapBlocks,   \* two-unit blocks left once the task set is allocated
  MaxRequests,  \* bound: prompts the user answers
  Selections,   \* task numbers the user types
  PrioInputs,   \* priorities the user types
  IntMax        \* INT_MAX

ASSUME ExecutorAssumption ==
  /\ NTasks \in Nat \ {0}
  /\ QueueDepth \in Nat \ {0}
  /\ HeapBlocks \in Nat
  /\ MaxRequests \in Nat
  /\ Selections \subseteq Int
  /\ NTasks \notin Selections  \* passes the bound check, indexes past the array
  /\ IntMax \in Nat
  /\ PrioInputs \subseteq -IntMax - 1 .. IntMax - 255  \* prio_select + 0xFF fits an int

Tasks    == 0 .. NTasks - 1
Children == 0 .. NTasks - 2  \* the fork loop starts at 1: the last task has none
Main     == NTasks           \* the parent process
Procs    == Children \union {Main}
Nobody   == -1               \* semaphore value 1
NoTask   == -1
NoPid    == -1
Parts    == 1 .. 3           \* data copy, callback data, callback descriptor
Requests == 1 .. MaxRequests

VARIABLES
  sem,      \* g_task_set->sem: the process between its wait and its post
  current,  \* g_task_set->current_running_task_id
  pid,      \* tasks[t].pid: NoPid, or the number of the child
  queue,    \* tasks[t].queue: [id, prio] records, oldest first
  heap,     \* allocated blocks
  run,      \* the kernel's view of a child: running, stopping, stopped
  pc,       \* next statement of each process
  job,      \* a child's local callback_p: a request, or 0 for NULL
  req,      \* the parent's task_select and prio_select
  running,  \* the parent's running_task_id
  target,   \* the parent's task_to_run
  stack,    \* the parent's task_stack, up to task_stack_index
  nreq,     \* prompts answered: the number of the latest request
  accepted, \* history: requests enqueued for each task, in order
  taken,    \* history: how many of them the task has dequeued
  patient   \* history: each answer so far waited until every child was parked

shared == <<current, pid, queue, heap>>
locals == <<req, running, target, stack, nreq>>
hist   == <<accepted, taken, patient>>
vars   == <<sem, shared, run, pc, job, locals, hist>>

Goto(p, label) == pc' = [pc EXCEPT ![p] = label]

-----------------------------------------------------------------------------
(* The semaphore, the signals and the task set's operations. *)

\* Mutant: the semaphore is taken whatever its value.
WaitBarging(p) == sem' = p

Wait(p) == sem = Nobody /\ sem' = p
Post    == sem' = Nobody

\* kill(pid, SIGSTOP) to another process: the stop is pending until the kernel
\* delivers it.  kill(pid, SIGCONT): takes effect at once and discards a pending
\* stop; on a process that is not stopped it leaves no trace.  A pid of -1
\* signals every child.
Signalled(p) == IF p = NoPid THEN Children ELSE {p}

SigStop(p) ==
  run' = [c \in Children |-> IF c \in Signalled(p) /\ run[c] = "running"
                             THEN "stopping" ELSE run[c]]

SigCont(p) ==
  run' = [c \in Children |-> IF c \in Signalled(p) THEN "running" ELSE run[c]]

\* get_highest_prio_task_index: the first task with the highest head priority.
\* Mutant: the scan starts at the second task.
ReadySkipsFirst(q) == {t \in Tasks \ {0} : q[t] # <<>>}

Ready(q) == {t \in Tasks : q[t] # <<>>}

HighestPrioTask(q) ==
  IF Ready(q) = {} THEN NoTask
  ELSE CHOOSE t \in Ready(q) : \A u \in Ready(q) :
         \/ q[t][1].prio > q[u][1].prio
         \/ q[t][1].prio = q[u][1].prio /\ t <= u

Prios == 0 .. 255  \* uint8_t

\* C's remainder truncates towards zero: below zero it is negative.
CRem(a, b) == IF a >= 0 THEN a % b ELSE -((-a) % b)

\* prio_select = (prio_select + 0xFF) % 0xFF, for any int scanf has read, and its
\* narrowing to the uint8_t parameter prio of enqueue_callback_for_task.
\* Mutant: neither the remainder nor the narrowing.
StoredPrioUnreduced(p) == p + 255

StoredPrio(p) == CRem(p + 255, 255) % 256

\* enqueue_callback_for_task, every exit.  task_id is compared with the unsigned
\* length, so a negative one is out of bounds too.  An allocation that fails, or a
\* full queue, leaves the parts allocated so far to nobody.
OutOfBounds(t) == t < 0 \/ t > NTasks

EnqueueCallback(t, id, prio) ==
  LET got == {k \in Parts : k <= HeapBlocks - Cardinality(heap)}
  IN \/ /\ OutOfBounds(t)
        /\ UNCHANGED <<queue, heap, accepted>>
     \/ /\ ~OutOfBounds(t)
        /\ heap' = heap \union ({id} \X got)
        /\ \/ /\ got = Parts /\ Len(queue[t]) < QueueDepth
              /\ queue' = [queue EXCEPT ![t] = Append(@, [id |-> id, prio |-> prio])]
              /\ accepted' = [accepted EXCEPT ![t] = Append(@, id)]
           \/ /\ got # Parts \/ Len(queue[t]) >= QueueDepth
              /\ UNCHANGED <<queue, accepted>>

-----------------------------------------------------------------------------
Init ==
  /\ sem = Nobody
  /\ current = NoTask
  /\ pid = [t \in Tasks |-> NoPid]
  /\ queue = [t \in Tasks |-> <<>>]
  /\ heap = {}
  /\ run = [c \in Children |-> "running"]
  /\ pc = [p \in Procs |-> IF p = Main THEN "prompt" ELSE "start"]
  /\ job = [c \in Children |-> 0]
  /\ req = [task |-> NoTask, prio |-> 0]
  /\ running = NoTask
  /\ target = NoTask
  /\ stack = <<>>
  /\ nreq = 0
  /\ accepted = [t \in Tasks |-> <<>>]
  /\ taken = [t \in Tasks |-> 0]
  /\ patient = TRUE

(***************************************************************************)
(* The parent's loop.                                                      *)
(***************************************************************************)
Parked(c) == pc[c] = "lock1" /\ run[c] = "stopped"

\* The user types t and p.  Nothing reads prio_select between its remainder and its
\* narrowing, so req holds what gets stored.  A patient user waits until every child is
\* parked, and never types the number of the task that has none.
ParentAnswered(t, p) ==
  /\ pc[Main] = "prompt"
  /\ nreq < MaxRequests
  /\ req' = [task |-> t, prio |-> StoredPrio(p)]
  /\ nreq' = nreq + 1
  /\ patient' = (patient /\ t # NTasks - 1 /\ \A c \in Children : Parked(c))
  /\ Goto(Main, "lock")
  /\ UNCHANGED <<sem, shared, run, job, running, target, stack, accepted, taken>>

ParentPrompt == \E t \in Selections, p \in PrioInputs : ParentAnswered(t, p)

ParentLock ==
  /\ pc[Main] = "lock"
  /\ Wait(Main)
  /\ Goto(Main, "schedule")
  /\ UNCHANGED <<shared, run, job, locals, hist>>

\* An error of the enqueue is only printed: the parent schedules all the same.
ParentSchedule ==
  /\ pc[Main] = "schedule"
  /\ EnqueueCallback(req.task, nreq, req.prio)
  /\ target' = HighestPrioTask(queue')
  /\ running' = current
  /\ Goto(Main, "unlock")
  /\ UNCHANGED <<sem, current, pid, run, job, req, stack, nreq, taken, patient>>

\* Mutant: the parent forgets to post.
ParentUnlockNoPost ==
  /\ pc[Main] = "unlock"
  /\ Goto(Main, "suspend")
  /\ UNCHANGED <<sem, shared, run, job, locals, hist>>

ParentUnlock ==
  /\ pc[Main] = "unlock"
  /\ Post
  /\ Goto(Main, "suspend")
  /\ UNCHANGED <<shared, run, job, locals, hist>>

\* Mutant: the task that is to run is pushed instead of the preempted one.
ParentSuspendPushesTarget ==
  /\ pc[Main] = "suspend"
  /\ \/ /\ running # NoTask
        /\ SigStop(pid[running])
        /\ stack' = Append(stack, target)
     \/ /\ running = NoTask
        /\ UNCHANGED <<run, stack>>
  /\ Goto(Main, "resume")
  /\ UNCHANGED <<sem, shared, job, req, running, target, nreq, hist>>

\* Mutant: what was read is pushed, a task or none.
ParentSuspendPushesAlways ==
  /\ pc[Main] = "suspend"
  /\ IF running # NoTask THEN SigStop(pid[running]) ELSE UNCHANGED run
  /\ stack' = Append(stack, running)
  /\ Goto(Main, "resume")
  /\ UNCHANGED <<sem, shared, job, req, running, target, nreq, hist>>

ParentSuspend ==
  /\ pc[Main] = "suspend"
  /\ \/ /\ running # NoTask
        /\ SigStop(pid[running])
        /\ stack' = Append(stack, running)
     \/ /\ running = NoTask
        /\ UNCHANGED <<run, stack>>
  /\ Goto(Main, "resume")
  /\ UNCHANGED <<sem, shared, job, req, running, target, nreq, hist>>

\* tasks[-1].pid lies in the header of the array's own block, whose size field it
\* reads: a small number that is no child's pid.
ParentResume ==
  /\ pc[Main] = "resume"
  /\ \/ target # NoTask /\ SigCont(pid[target])
     \/ target = NoTask /\ UNCHANGED run
  /\ Goto(Main, "prompt")
  /\ UNCHANGED <<sem, shared, job, locals, hist>>

(***************************************************************************)
(* A child: registration in main, then task_routine.  Every statement      *)
(* needs the process not to be stopped.                                    *)
(***************************************************************************)
At(c, label) == pc[c] = label /\ run[c] # "stopped"

ChildRegister(c) ==
  /\ At(c, "start")
  /\ pid' = [pid EXCEPT ![c] = c]
  /\ Goto(c, "self_stop")
  /\ UNCHANGED <<sem, current, queue, heap, run, job, locals, hist>>

\* kill(g_pid, SIGSTOP): a signal to oneself is delivered before kill returns.
ChildSelfStop(c) ==
  /\ At(c, "self_stop")
  /\ run' = [run EXCEPT ![c] = "stopped"]
  /\ Goto(c, "lock1")
  /\ UNCHANGED <<sem, shared, job, locals, hist>>

ChildLock(c) ==
  /\ At(c, "lock1")
  /\ Wait(c)
  /\ Goto(c, "take")
  /\ UNCHANGED <<shared, run, job, locals, hist>>

\* Mutant: the element is read and not removed.
ChildTakePeeks(c) ==
  /\ At(c, "take")
  /\ queue[c] # <<>>
  /\ current' = c
  /\ job' = [job EXCEPT ![c] = Head(queue[c]).id]
  /\ taken' = [taken EXCEPT ![c] = @ + 1]
  /\ Goto(c, "unlock1")
  /\ UNCHANGED <<sem, pid, queue, heap, run, locals, accepted, patient>>

ChildTake(c) ==
  /\ At(c, "take")
  /\ queue[c] # <<>>
  /\ current' = c
  /\ job' = [job EXCEPT ![c] = Head(queue[c]).id]
  /\ queue' = [queue EXCEPT ![c] = Tail(@)]
  /\ taken' = [taken EXCEPT ![c] = @ + 1]
  /\ Goto(c, "unlock1")
  /\ UNCHANGED <<sem, pid, heap, run, locals, accepted, patient>>

\* Mutant: without the `continue', the child goes on with a callback_p that still
\* points to the last callback.
ChildTakeFailsRunsOn(c) ==
  /\ At(c, "take")
  /\ queue[c] = <<>>
  /\ current' = c
  /\ Goto(c, IF job[c] = 0 THEN "self_stop" ELSE "unlock1")
  /\ UNCHANGED <<sem, pid, queue, heap, run, job, locals, hist>>

\* The dequeue fails and `continue' goes back to the self-suspension: the
\* semaphore is not posted.
ChildTakeFails(c) ==
  /\ At(c, "take")
  /\ queue[c] = <<>>
  /\ current' = c
  /\ Goto(c, "self_stop")
  /\ UNCHANGED <<sem, pid, queue, heap, run, job, locals, hist>>

ChildUnlock(c) ==
  /\ At(c, "unlock1")
  /\ Post
  /\ Goto(c, "callback")
  /\ UNCHANGED <<shared, run, job, locals, hist>>

ChildCallback(c) ==
  /\ At(c, "callback")
  /\ Goto(c, "lock2")
  /\ UNCHANGED <<sem, shared, run, job, locals, hist>>

ChildRelock(c) ==
  /\ At(c, "lock2")
  /\ Wait(c)
  /\ Goto(c, "finish")
  /\ UNCHANGED <<shared, run, job, locals, hist>>

\* Mutants: the callback descriptor is not released; current_running_task_id is
\* not reset.
ChildFinishKeepsDescriptor(c) ==
  /\ At(c, "finish")
  /\ heap' = heap \ ({job[c]} \X {1, 2})
  /\ current' = NoTask
  /\ Goto(c, "unlock2")
  /\ UNCHANGED <<sem, pid, queue, run, job, locals, hist>>

ChildFinishStaysCurrent(c) ==
  /\ At(c, "finish")
  /\ heap' = heap \ ({job[c]} \X Parts)
  /\ Goto(c, "unlock2")
  /\ UNCHANGED <<sem, current, pid, queue, run, job, locals, hist>>

\* free_task_callback releases the three parts.
ChildFinish(c) ==
  /\ At(c, "finish")
  /\ heap' = heap \ ({job[c]} \X Parts)
  /\ current' = NoTask
  /\ Goto(c, "unlock2")
  /\ UNCHANGED <<sem, pid, queue, run, job, locals, hist>>

\* Mutant: the second critical section, too, is left without a post.
ChildReunlockNoPost(c) ==
  /\ At(c, "unlock2")
  /\ Goto(c, "self_stop")
  /\ UNCHANGED <<sem, shared, run, job, locals, hist>>

ChildReunlock(c) ==
  /\ At(c, "unlock2")
  /\ Post
  /\ Goto(c, "self_stop")
  /\ UNCHANGED <<shared, run, job, locals, hist>>

\* The kernel delivers a pending SIGSTOP.
DeliverStop(c) ==
  /\ run[c] = "stopping"
  /\ run' = [run EXCEPT ![c] = "stopped"]
  /\ UNCHANGED <<sem, shared, pc, job, locals, hist>>

-----------------------------------------------------------------------------
ParentStep ==
  ParentLock \/ ParentSchedule \/ ParentUnlock \/ ParentSuspend \/ ParentResume

ChildStep(c) ==
  \/ ChildRegister(c) \/ ChildSelfStop(c)
  \/ ChildLock(c) \/ ChildTake(c) \/ ChildTakeFails(c) \/ ChildUnlock(c)
  \/ ChildCallback(c)
  \/ ChildRelock(c) \/ ChildFinish(c) \/ ChildReunlock(c)

Next ==
  \/ ParentPrompt
  \/ ParentStep
  \/ \E c \in Children : ChildStep(c) \/ DeliverStop(c)

\* The kernel runs every process that can run and delivers every signal.  The
\* user may stop typing at any time.
Fairness ==
  /\ WF_vars(ParentStep)
  /\ \A c \in Children : WF_vars(ChildStep(c)) /\ WF_vars(DeliverStop(c))

Spec == Init /\ [][Next]_vars /\ Fairness

-----------------------------------------------------------------------------
(* Properties. *)

ParentLabels == {"prompt", "lock", "schedule", "unlock", "suspend", "resume"}
ChildLabels  == {"start", "self_stop", "lock1", "take", "unlock1", "callback",
                 "lock2", "finish", "unlock2"}

\* Values of the variables.
TypeOK ==
  /\ sem \in Procs \union {Nobody}
  /\ current \in Children \union {NoTask}
  /\ pid \in [Tasks -> Children \union {NoPid}]
  /\ queue \in [Tasks -> Seq([id : Requests, prio : Prios])]
  /\ heap \subseteq Requests \X Parts
  /\ run \in [Children -> {"running", "stopping", "stopped"}]
  /\ pc \in [Procs -> ParentLabels \union ChildLabels]
  /\ pc[Main] \in ParentLabels
  /\ \A c \in Children : pc[c] \in ChildLabels
  /\ job \in [Children -> 0 .. MaxRequests]
  /\ req \in [task : Selections \union {NoTask}, prio : Prios]
  /\ running \in Children \union {NoTask}
  /\ target \in Tasks \union {NoTask}
  /\ stack \in Seq(Children)
  /\ nreq \in 0 .. MaxRequests
  /\ accepted \in [Tasks -> Seq(Requests)]
  /\ taken \in [Tasks -> Nat]
  /\ patient \in BOOLEAN

\* A process between its sem_wait and its sem_post, and a child that has dequeued
\* a callback and not yet freed it.
InCritical(p) == pc[p] \in {"schedule", "unlock", "take", "unlock1", "finish", "unlock2"}
HasJob(c)     == pc[c] \in {"unlock1", "callback", "lock2", "finish"}

\* The sections the source marks "Critical Section" exclude each other (lines
\* 130-149, 156-166, 264-288) whatever the signals do, so the task set and the
\* allocator, neither of which locks anything, see one process at a time.
CriticalSectionsExclude == \A p \in Procs : InCritical(p) => sem = p

\* What a task has run, what it runs and what waits in its queue are, in this
\* order, exactly the requests accepted for it: no callback is lost, run twice or
\* overtaken, in any interleaving of the parent, the children and the signals.
NothingLostOrRepeated ==
  /\ \A t \in Tasks :
       /\ Len(accepted[t]) = taken[t] + Len(queue[t])
       /\ \A k \in 1 .. Len(queue[t]) : queue[t][k].id = accepted[t][taken[t] + k]
  /\ \A c \in Children :
       HasJob(c) => taken[c] > 0 /\ job[c] = accepted[c][taken[c]]

\* A callback's three blocks stay allocated from its request until its task has
\* finished with it, and go back to the allocator then: what a child reads is never
\* freed under it (line 153), and nothing that has run is still allocated.
BlocksFollowCallbacks ==
  \A t \in Tasks : \A k \in 1 .. Len(accepted[t]) :
    LET blocks == {accepted[t][k]} \X Parts
    IN IF \/ k > taken[t]
          \/ t \in Children /\ k = taken[t] /\ HasJob(t)
       THEN blocks \subseteq heap
       ELSE blocks \intersect heap = {}

\* A child that kept the semaphore over its self-suspension.
KeptSemaphore(c) == sem = c /\ pc[c] \in {"self_stop", "lock1"}

\* current_running_task_id names a task that is in the middle of a callback (or the
\* child that left the critical section without posting): the parent never reads a
\* task that has finished as the running one (line 277).
CurrentIsBusy == current # NoTask => HasJob(current) \/ KeptSemaphore(current)

\* A child stopped anywhere but in its own kill() was stopped by the parent, and is
\* on task_stack (line 293): what it would take to resume it is recorded.
PreemptedIsOnStack ==
  \A c \in Children : run[c] # "running" /\ pc[c] # "lock1" =>
    \E k \in 1 .. Len(stack) : stack[k] = c

\* Nothing bounds task_stack (lines 28, 293) but the requests: each pushes at most
\* one task, and the first one none, because nothing runs before it.  So the 255
\* entries cannot overflow before the 257th request.
StackBounded == stack # <<>> => Len(stack) < nreq

\* The holder of the semaphore cannot go on by itself: it is stopped, or waits for
\* the semaphore it holds.
HolderStuck == sem \in Children /\ (run[sem] = "stopped" \/ pc[sem] = "lock1")

\* The only way the executor stops taking requests is a child that keeps the
\* semaphore for good: otherwise the parent always gets back to its prompt.
ServesOrStuck == []<>(pc[Main] = "prompt") \/ <>[]HolderStuck

\* As long as the user has been patient:
\* ... the parent never finds a task running (line 290), so it preempts nobody,
NothingPreempted == patient => stack = <<>>

\* ... nobody keeps the semaphore while suspended (lines 134-149),
NeverStuck == patient => ~HolderStuck

\* ... and every accepted callback is run and freed (lines 130-170).
AcceptedCompletes ==
  \A c \in Children :
    queue[c] # <<>> ~> ((queue[c] = <<>> /\ ~HasJob(c)) \/ ~patient)

-----------------------------------------------------------------------------
(* The executor as a dispatcher of callbacks. *)

Waiting == [t \in Tasks |-> [k \in 1 .. Len(queue[t]) |-> queue[t][k].id]]

Active == [t \in Tasks |-> IF t \in Children /\ HasJob(t) THEN job[t] ELSE 0]

\* Requests a task has dequeued and is no longer running.
Done == (UNION {{accepted[t][k] : k \in 1 .. taken[t]} : t \in Tasks})
          \ {Active[t] : t \in Tasks}

Promise == INSTANCE Dispatch WITH waiting <- Waiting, active <- Active, done <- Done

\* Whatever the order of signals, the executor is a dispatcher: one callback of a
\* task at a time, in order of acceptance, each once.
ImplementsDispatch == Promise!Spec

-----------------------------------------------------------------------------
(* What the comments say, and the code does not do. *)

\* "END critical section" (line 149): a child that goes on to suspend itself has
\* left the critical section.
SuspendsOutsideCriticalSection ==
  \A c \in Children : pc[c] = "self_stop" => sem # c

\* "Signal task to run to run" (line 296): a task signalled with callbacks waiting
\* gets to take one, or the semaphore is stuck.
SignalledTaskRuns ==
  \A c \in Children :
    (pc[Main] = "resume" /\ target = c /\ queue[c] # <<>>)
      ~> (pc[c] = "unlock1" \/ HolderStuck)
=============================================================================
