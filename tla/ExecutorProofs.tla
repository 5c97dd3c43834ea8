--------------------------- MODULE ExecutorProofs ---------------------------
(***************************************************************************)
(* Proofs about the executor, for any number of tasks, queue depth, heap   *)
(* and number of requests, whatever the user types and whenever.           *)
(***************************************************************************)
EXTENDS Executor, NaturalLemmas, SequenceTheorems, TLAPS

\* What the proofs need to know of the process and task numbers.
LEMMA Numbers ==
  /\ Tasks \subseteq Nat /\ Children \subseteq Tasks /\ Procs \subseteq Nat
  /\ Children \subseteq Procs /\ Main \in Procs /\ Main \notin Children
  /\ \A p \in Procs : p # Main => p \in Children
  /\ Nobody \notin Procs /\ NoTask \notin Tasks /\ NoPid \notin Children
BY ExecutorAssumption
DEF Tasks, Children, Procs, Main, Nobody, NoTask, NoPid

-----------------------------------------------------------------------------
(* The scheduler's choice. *)

\* Among numbered things with bounded priorities there is a first one with the
\* highest priority.
LEMMA FirstHighest ==
  ASSUME NEW S, S \subseteq Nat, S # {}, NEW P \in [S -> 0 .. 255]
  PROVE  \E t \in S : \A u \in S : P[t] > P[u] \/ (P[t] = P[u] /\ t <= u)
<1> DEFINE slacks == {255 - P[t] : t \in S}
<1>1. slacks \subseteq Nat /\ slacks # {}
  <2>1. \A t \in S : P[t] \in 0 .. 255
    OBVIOUS
  <2>2. \A t \in S : 255 - P[t] \in Nat
    BY <2>1
  <2> QED
    BY <2>2
<1>2. PICK s \in slacks : \A y \in slacks : s <= y
  <2> HIDE DEF slacks
  <2> QED
    BY <1>1, LeastNat
<1> DEFINE firsts == {t \in S : 255 - P[t] = s}
<1>3. firsts \subseteq Nat /\ firsts # {}
  OBVIOUS
<1>4. PICK t \in firsts : \A u \in firsts : t <= u
  <2> HIDE DEF firsts
  <2> QED
    BY <1>3, LeastNat
<1>5. ASSUME NEW u \in S
      PROVE  P[t] > P[u] \/ (P[t] = P[u] /\ t <= u)
  <2>1. P[t] \in 0 .. 255 /\ P[u] \in 0 .. 255 /\ s = 255 - P[t] /\ t \in S
    OBVIOUS
  <2>2. s <= 255 - P[u]
    BY <1>2
  <2>3. P[t] = P[u] => t <= u
    BY <1>4, <2>1
  <2>4. P[t] = P[u] \/ P[t] > P[u]
    <3>1. \A a, b \in 0 .. 255 : 255 - a <= 255 - b => a = b \/ a > b
      OBVIOUS
    <3>2. 255 - P[t] <= 255 - P[u]
      BY <2>1, <2>2
    <3> QED
      BY <2>1, <3>1, <3>2, Zenon
  <2> QED
    BY <2>3, <2>4
<1> QED
  BY <1>5

\* Task queues with priorities that are bytes.
Queues == [Tasks -> Seq([id : Requests, prio : Prios])]

\* The first element of a sequence.
LEMMA FirstElement ==
  ASSUME NEW S, NEW s \in Seq(S), s # <<>>
  PROVE  s[1] = Head(s) /\ s[1] \in S /\ Len(s) \in Nat \ {0}
<1>1. Len(s) \in Nat \ {0}
  BY EmptySeq
<1> QED
  BY <1>1, ElementOfSeq

\* The priority of a task that has callbacks.
LEMMA HeadOfQueue ==
  ASSUME NEW q \in Queues, NEW t \in Tasks, q[t] # <<>>
  PROVE  /\ q[t][1] = Head(q[t])
         /\ q[t][1] \in [id : Requests, prio : Prios]
<1>1. q[t] \in Seq([id : Requests, prio : Prios])
  BY DEF Queues
<1> QED
  BY <1>1, FirstElement

\* get_highest_prio_task_index (ros_task_set.c:89-133) returns -1 when no task has
\* a callback, and otherwise the first of the tasks whose next callback has the
\* highest priority: the CHOOSE of the model always has something to choose.
THEOREM HighestPrioTaskIsFirstHighest ==
  ASSUME NEW q \in Queues
  PROVE  /\ Ready(q) = {} => HighestPrioTask(q) = NoTask
         /\ Ready(q) # {} =>
              /\ HighestPrioTask(q) \in Ready(q)
              /\ \A u \in Ready(q) :
                   \/ q[HighestPrioTask(q)][1].prio > q[u][1].prio
                   \/ /\ q[HighestPrioTask(q)][1].prio = q[u][1].prio
                      /\ HighestPrioTask(q) <= u
<1>1. CASE Ready(q) = {}
  BY <1>1 DEF HighestPrioTask
<1>2. CASE Ready(q) # {}
  <2> DEFINE P == [t \in Ready(q) |-> q[t][1].prio]
             Best(t) == \A u \in Ready(q) :
                          \/ q[t][1].prio > q[u][1].prio
                          \/ q[t][1].prio = q[u][1].prio /\ t <= u
  <2>1. Ready(q) \subseteq Nat
    BY Numbers DEF Ready
  <2>2. P \in [Ready(q) -> 0 .. 255]
    BY HeadOfQueue DEF Ready, Prios
  <2>3. \E t \in Ready(q) : \A u \in Ready(q) : P[t] > P[u] \/ (P[t] = P[u] /\ t <= u)
    <3> HIDE DEF P
    <3> QED
      BY <1>2, <2>1, <2>2, FirstHighest
  <2>4. \E t \in Ready(q) : Best(t)
    BY <2>3
  <2>5. HighestPrioTask(q) = CHOOSE t \in Ready(q) : Best(t)
    BY <1>2 DEF HighestPrioTask
  <2> HIDE DEF Best
  <2>6. HighestPrioTask(q) \in Ready(q) /\ Best(HighestPrioTask(q))
    BY <2>4, <2>5
  <2> QED
    BY <1>2, <2>6 DEF Best
<1> QED
  BY <1>1, <1>2

-----------------------------------------------------------------------------
(* Types. *)

\* TypeOK is not inductive alone: the number the parent puts in a queue must be a
\* request's, so a request must have been made before the parent leaves the prompt.
TypeInv ==
  /\ TypeOK
  /\ pc[Main] # "prompt" => nreq > 0

\* Whatever int is typed, what is stored is a byte.
LEMMA StoredPrioRange ==
  ASSUME NEW p \in Int
  PROVE  StoredPrio(p) \in Prios
<1>1. CRem(p + 255, 255) \in Int
  BY DEF CRem
<1> QED
  BY <1>1 DEF StoredPrio, Prios

\* enqueue_callback_for_task either accepts the request for one task, with its three
\* blocks, or leaves every queue as it is; in both cases it allocates nothing but
\* blocks of this request and frees nothing.
Accepts(t) ==
  /\ t \in Tasks
  /\ Len(queue[t]) < QueueDepth
  /\ queue' = [queue EXCEPT ![t] = Append(@, [id |-> nreq, prio |-> req.prio])]
  /\ accepted' = [accepted EXCEPT ![t] = Append(@, nreq)]
  /\ heap' = heap \union ({nreq} \X Parts)

Refuses ==
  /\ UNCHANGED <<queue, accepted>>
  /\ heap \subseteq heap'
  /\ heap' \subseteq heap \union ({nreq} \X Parts)

\* An enqueue is accepted by one task or refused by all, whichever exit it takes.
LEMMA ScheduleEffect ==
  ASSUME TypeOK, ParentSchedule
  PROVE  Refuses \/ \E t \in Tasks : Accepts(t)
<1> DEFINE t == req.task
           got == {k \in Parts : k <= HeapBlocks - Cardinality(heap)}
<1>1. t \in Selections \union {NoTask}
  BY DEF TypeOK
<1>2. ~OutOfBounds(t) => t \in Tasks /\ Len(queue[t]) \in Nat
  <2> HIDE DEF t
  <2>1. t \in Int /\ t # NTasks /\ NTasks \in Nat
    BY <1>1, ExecutorAssumption DEF NoTask
  <2>2. ~OutOfBounds(t) => t \in Tasks
    BY <2>1 DEF OutOfBounds, Tasks
  <2> QED
    BY <2>2 DEF TypeOK
<1>3. EnqueueCallback(t, nreq, req.prio)
  BY DEF ParentSchedule
<1> HIDE DEF t
<1>4. CASE OutOfBounds(t)
  BY <1>3, <1>4 DEF EnqueueCallback, Refuses
<1>5. CASE ~OutOfBounds(t) /\ got = Parts /\ Len(queue[t]) < QueueDepth
  <2>1. t \in Tasks /\ ~(Len(queue[t]) >= QueueDepth)
    BY <1>2, <1>5, ExecutorAssumption
  <2>2. /\ queue' = [queue EXCEPT ![t] = Append(@, [id |-> nreq, prio |-> req.prio])]
        /\ accepted' = [accepted EXCEPT ![t] = Append(@, nreq)]
        /\ heap' = heap \union ({nreq} \X Parts)
    BY <1>3, <1>5, <2>1 DEF EnqueueCallback
  <2>3. Accepts(t)
    BY <1>5, <2>1, <2>2 DEF Accepts
  <2> QED
    BY <2>1, <2>3
<1>6. CASE ~OutOfBounds(t) /\ (got # Parts \/ ~(Len(queue[t]) < QueueDepth))
  <2>1. UNCHANGED <<queue, accepted>> /\ heap' = heap \union ({nreq} \X got)
    BY <1>3, <1>6 DEF EnqueueCallback
  <2>2. got \subseteq Parts
    OBVIOUS
  <2> QED
    BY <2>1, <2>2 DEF Refuses
<1> QED
  BY <1>4, <1>5, <1>6

\* make_task_set and the start of main.
LEMMA InitTypes == Init => TypeInv
<1> SUFFICES ASSUME Init PROVE TypeInv
  OBVIOUS
<1>1. pc \in [Procs -> ParentLabels \union ChildLabels] /\ pc[Main] = "prompt"
  BY Numbers DEF Init, ParentLabels, ChildLabels
<1>2. \A c \in Children : pc[c] = "start"
  BY Numbers DEF Init
<1> QED
  BY <1>1, <1>2, Numbers, ExecutorAssumption
  DEF Init, TypeInv, TypeOK, Prios, ParentLabels, ChildLabels

\* The conjuncts of TypeOK about pc.
LabelsOK ==
  /\ pc \in [Procs -> ParentLabels \union ChildLabels]
  /\ pc[Main] \in ParentLabels
  /\ \A c \in Children : pc[c] \in ChildLabels

\* A move of one process to a label of its own kind.
LEMMA GotoTypes ==
  ASSUME TypeOK, NEW p \in Procs, NEW label, Goto(p, label),
         label \in IF p = Main THEN ParentLabels ELSE ChildLabels
  PROVE  /\ LabelsOK'
         /\ pc'[p] = label
         /\ \A q \in Procs \ {p} : pc'[q] = pc[q]
<1>1. /\ pc \in [Procs -> ParentLabels \union ChildLabels]
      /\ pc[Main] \in ParentLabels
      /\ \A c \in Children : pc[c] \in ChildLabels
      /\ pc' = [pc EXCEPT ![p] = label]
  BY DEF TypeOK, Goto
<1>2. pc'[p] = label /\ \A q \in Procs \ {p} : pc'[q] = pc[q]
  BY <1>1
<1>3. pc' \in [Procs -> ParentLabels \union ChildLabels]
  BY <1>1
<1>4. pc'[Main] \in ParentLabels
  BY <1>1, <1>2, Numbers
<1>5. \A c \in Children : pc'[c] \in ChildLabels
  BY <1>1, <1>2, Numbers
<1> QED
  BY <1>2, <1>3, <1>4, <1>5 DEF LabelsOK

\* The signals only put a child in one of the kernel's three states.
LEMMA SignalTypes ==
  ASSUME TypeOK, NEW p, SigStop(p) \/ SigCont(p)
  PROVE  run' \in [Children -> {"running", "stopping", "stopped"}]
BY DEF TypeOK, SigStop, SigCont

\* The parent's steps.
LEMMA ParentTypes ==
  ASSUME TypeInv, ParentPrompt \/ ParentStep
  PROVE  TypeInv'
<1> Main \in Procs /\ TypeOK
  BY Numbers DEF TypeInv
<1> USE DEF shared, locals, hist
<1>1. CASE ParentPrompt
  <2>1. LabelsOK'
    BY <1>1, GotoTypes DEF ParentPrompt, ParentAnswered, ParentLabels
  <2>2. req' \in [task : Selections \union {NoTask}, prio : Prios]
    <3>1. PICK t \in Selections, p \in PrioInputs :
            req' = [task |-> t, prio |-> StoredPrio(p)]
      BY <1>1 DEF ParentPrompt, ParentAnswered
    <3>2. p \in Int
      BY ExecutorAssumption
    <3>3. StoredPrio(p) \in Prios
      BY <3>2, StoredPrioRange
    <3> QED
      BY <3>1, <3>2, <3>3
  <2>3. nreq' \in 1 .. MaxRequests
    BY <1>1, ExecutorAssumption DEF ParentPrompt, ParentAnswered, TypeOK
  <2> QED
    <3>1. nreq' \in 0 .. MaxRequests /\ nreq' > 0
      BY <2>3
    <3>2. UNCHANGED <<sem, shared, run, job, running, target, stack, accepted, taken>>
      BY <1>1 DEF ParentPrompt, ParentAnswered
    <3>3. patient' \in BOOLEAN
      BY <1>1 DEF ParentPrompt, ParentAnswered
    <3>4. TypeOK'
      BY <2>1, <2>2, <3>1, <3>2, <3>3 DEF LabelsOK, TypeOK
    <3> QED
      BY <3>1, <3>4 DEF TypeInv
<1>2. CASE ParentLock
  <2>1. LabelsOK'
    BY <1>2, GotoTypes DEF ParentLock, ParentLabels
  <2> QED
    BY <1>2, <2>1 DEF ParentLock, Wait, LabelsOK, TypeInv, TypeOK
<1>3. CASE ParentSchedule
  <2>1. LabelsOK'
    BY <1>3, GotoTypes DEF ParentSchedule, ParentLabels
  <2>2. nreq \in Requests /\ req.prio \in Prios
    BY <1>3 DEF ParentSchedule, LabelsOK, TypeInv, TypeOK, Requests
  <2>3. /\ queue' \in [Tasks -> Seq([id : Requests, prio : Prios])]
        /\ accepted' \in [Tasks -> Seq(Requests)]
        /\ heap' \subseteq Requests \X Parts
    <3>1. CASE Refuses
      BY <2>2, <3>1 DEF Refuses, TypeOK
    <3>2. ASSUME NEW t \in Tasks, Accepts(t)
          PROVE  /\ queue' \in [Tasks -> Seq([id : Requests, prio : Prios])]
                 /\ accepted' \in [Tasks -> Seq(Requests)]
                 /\ heap' \subseteq Requests \X Parts
      <4>1. [id |-> nreq, prio |-> req.prio] \in [id : Requests, prio : Prios]
        BY <2>2
      <4>2. \A q \in Seq([id : Requests, prio : Prios]) :
              Append(q, [id |-> nreq, prio |-> req.prio])
                \in Seq([id : Requests, prio : Prios])
        BY <4>1, AppendProperties
      <4>3. \A s \in Seq(Requests) : Append(s, nreq) \in Seq(Requests)
        BY <2>2, AppendProperties
      <4>4. queue' \in [Tasks -> Seq([id : Requests, prio : Prios])]
        BY <3>2, <4>2 DEF Accepts, TypeOK
      <4>5. accepted' \in [Tasks -> Seq(Requests)]
        BY <3>2, <4>3 DEF Accepts, TypeOK
      <4>6. heap' \subseteq Requests \X Parts
        BY <2>2, <3>2 DEF Accepts, TypeOK
      <4> QED
        BY <4>4, <4>5, <4>6
    <3> QED
      BY <1>3, <3>1, <3>2, ScheduleEffect
  <2>4. target' \in Tasks \union {NoTask}
    <3>1. queue' \in Queues
      BY <2>3 DEF Queues
    <3>2. target' = HighestPrioTask(queue')
      BY <1>3 DEF ParentSchedule
    <3> QED
      BY <3>1, <3>2, HighestPrioTaskIsFirstHighest DEF Ready
  <2> QED
    BY <1>3, <2>1, <2>2, <2>3, <2>4 DEF ParentSchedule, LabelsOK, TypeInv, TypeOK, Requests
<1>4. CASE ParentUnlock
  <2>1. LabelsOK'
    BY <1>4, GotoTypes DEF ParentUnlock, ParentLabels
  <2> QED
    BY <1>4, <2>1 DEF ParentUnlock, Post, LabelsOK, TypeInv, TypeOK
<1>5. CASE ParentSuspend
  <2>1. LabelsOK'
    BY <1>5, GotoTypes DEF ParentSuspend, ParentLabels
  <2>2. run' \in [Children -> {"running", "stopping", "stopped"}]
    BY <1>5, SignalTypes DEF ParentSuspend, TypeOK
  <2>3. stack' \in Seq(Children)
    <3>1. stack \in Seq(Children) /\ (running # NoTask => running \in Children)
      BY DEF TypeOK
    <3>2. running # NoTask => Append(stack, running) \in Seq(Children)
      BY <3>1, AppendProperties
    <3>3. stack' = stack \/ (running # NoTask /\ stack' = Append(stack, running))
      BY <1>5 DEF ParentSuspend
    <3> QED
      BY <3>1, <3>2, <3>3
  <2> QED
    BY <1>5, <2>1, <2>2, <2>3 DEF ParentSuspend, LabelsOK, TypeInv, TypeOK
<1>6. CASE ParentResume
  <2>1. LabelsOK'
    BY <1>6, GotoTypes DEF ParentResume, ParentLabels
  <2>2. run' \in [Children -> {"running", "stopping", "stopped"}]
    BY <1>6, SignalTypes DEF ParentResume, TypeOK
  <2> QED
    BY <1>6, <2>1, <2>2 DEF ParentResume, LabelsOK, TypeInv, TypeOK
<1> QED
  BY <1>1, <1>2, <1>3, <1>4, <1>5, <1>6 DEF ParentStep

\* The children's steps.
LEMMA ChildTypes ==
  ASSUME TypeInv, NEW c \in Children, ChildStep(c)
  PROVE  TypeInv'
<1> /\ c \in Procs /\ c \in Tasks /\ Main \in Procs \ {c} /\ Main # c
    /\ TypeOK
  BY Numbers DEF TypeInv
<1> USE DEF shared, locals, hist, Wait, Post
<1>1. CASE ChildRegister(c)
  <2>1. LabelsOK' /\ pc'[Main] = pc[Main]
    BY <1>1, GotoTypes DEF ChildRegister, ChildLabels
  <2> QED
    BY <1>1, <2>1 DEF ChildRegister, LabelsOK, TypeInv, TypeOK
<1>2. CASE ChildSelfStop(c)
  <2>1. LabelsOK' /\ pc'[Main] = pc[Main]
    BY <1>2, GotoTypes DEF ChildSelfStop, ChildLabels
  <2> QED
    BY <1>2, <2>1 DEF ChildSelfStop, LabelsOK, TypeInv, TypeOK
<1>3. CASE ChildLock(c)
  <2>1. LabelsOK' /\ pc'[Main] = pc[Main]
    BY <1>3, GotoTypes DEF ChildLock, ChildLabels
  <2> QED
    BY <1>3, <2>1 DEF ChildLock, LabelsOK, TypeInv, TypeOK
<1>4. CASE ChildTake(c)
  <2>1. LabelsOK' /\ pc'[Main] = pc[Main]
    BY <1>4, GotoTypes DEF ChildTake, ChildLabels
  <2>2. /\ queue' \in [Tasks -> Seq([id : Requests, prio : Prios])]
        /\ job' \in [Children -> 0 .. MaxRequests]
        /\ taken' \in [Tasks -> Nat]
    <3>1. queue[c] \in Seq([id : Requests, prio : Prios]) /\ queue[c] # <<>>
      BY <1>4 DEF ChildTake, TypeOK
    <3>2. /\ Head(queue[c]) \in [id : Requests, prio : Prios]
          /\ Tail(queue[c]) \in Seq([id : Requests, prio : Prios])
      BY <3>1, HeadTailProperties
    <3>3. Head(queue[c]).id \in 0 .. MaxRequests
      BY <3>2 DEF Requests
    <3>4. queue' \in [Tasks -> Seq([id : Requests, prio : Prios])]
      BY <1>4, <3>2 DEF ChildTake, TypeOK
    <3>5. job' \in [Children -> 0 .. MaxRequests]
      BY <1>4, <3>3 DEF ChildTake, TypeOK
    <3>6. taken' \in [Tasks -> Nat]
      BY <1>4 DEF ChildTake, TypeOK
    <3> QED
      BY <3>4, <3>5, <3>6
  <2> QED
    BY <1>4, <2>1, <2>2 DEF ChildTake, LabelsOK, TypeInv, TypeOK
<1>5. CASE ChildTakeFails(c)
  <2>1. LabelsOK' /\ pc'[Main] = pc[Main]
    BY <1>5, GotoTypes DEF ChildTakeFails, ChildLabels
  <2> QED
    BY <1>5, <2>1 DEF ChildTakeFails, LabelsOK, TypeInv, TypeOK
<1>6. CASE ChildUnlock(c)
  <2>1. LabelsOK' /\ pc'[Main] = pc[Main]
    BY <1>6, GotoTypes DEF ChildUnlock, ChildLabels
  <2> QED
    BY <1>6, <2>1 DEF ChildUnlock, LabelsOK, TypeInv, TypeOK
<1>7. CASE ChildCallback(c)
  <2>1. LabelsOK' /\ pc'[Main] = pc[Main]
    BY <1>7, GotoTypes DEF ChildCallback, ChildLabels
  <2> QED
    BY <1>7, <2>1 DEF ChildCallback, LabelsOK, TypeInv, TypeOK
<1>8. CASE ChildRelock(c)
  <2>1. LabelsOK' /\ pc'[Main] = pc[Main]
    BY <1>8, GotoTypes DEF ChildRelock, ChildLabels
  <2> QED
    BY <1>8, <2>1 DEF ChildRelock, LabelsOK, TypeInv, TypeOK
<1>9. CASE ChildFinish(c)
  <2>1. LabelsOK' /\ pc'[Main] = pc[Main]
    BY <1>9, GotoTypes DEF ChildFinish, ChildLabels
  <2> QED
    BY <1>9, <2>1 DEF ChildFinish, LabelsOK, TypeInv, TypeOK
<1>10. CASE ChildReunlock(c)
  <2>1. LabelsOK' /\ pc'[Main] = pc[Main]
    BY <1>10, GotoTypes DEF ChildReunlock, ChildLabels
  <2> QED
    BY <1>10, <2>1 DEF ChildReunlock, LabelsOK, TypeInv, TypeOK
<1> QED
  BY <1>1, <1>2, <1>3, <1>4, <1>5, <1>6, <1>7, <1>8, <1>9, <1>10 DEF ChildStep

\* Types, with the request number, hold in every step.
LEMMA TypesPreserved ==
  ASSUME TypeInv, [Next]_vars
  PROVE  TypeInv'
<1>1. CASE ParentPrompt \/ ParentStep
  BY <1>1, ParentTypes
<1>2. ASSUME NEW c \in Children, ChildStep(c)
      PROVE  TypeInv'
  BY <1>2, ChildTypes
<1>3. ASSUME NEW c \in Children, DeliverStop(c)
      PROVE  TypeInv'
  BY <1>3 DEF DeliverStop, TypeInv, TypeOK, shared, locals, hist
<1>4. CASE UNCHANGED vars
  BY <1>4 DEF vars, TypeInv, TypeOK, shared, locals, hist
<1> QED
  BY <1>1, <1>2, <1>3, <1>4 DEF Next

\* The invariant of the types, for behaviours.
LEMMA SpecTypes == Spec => []TypeInv
<1>1. TypeInv /\ [Next]_vars => TypeInv'
  BY TypesPreserved
<1> QED
  BY InitTypes, <1>1, PTL DEF Spec

\* For every number of tasks, every queue depth, heap and every ints the user types (up
\* to INT_MAX - 255, where the sum of line 259 is defined): the variables keep their
\* types.  In particular the parent never signals a task number outside the array, but
\* for the -1 of no task.
THEOREM TypeCorrect == Spec => []TypeOK
<1>1. TypeInv => TypeOK
  BY DEF TypeInv
<1> QED
  BY SpecTypes, <1>1, PTL

-----------------------------------------------------------------------------
(* Mutual exclusion. *)

CriticalLabels == {"schedule", "unlock", "take", "unlock1", "finish", "unlock2"}

\* A move of one process keeps the exclusion when it takes a free semaphore, when it
\* posts on the way out of its own critical section, or when it leaves the semaphore
\* alone and does not enter one.
LEMMA MoveExcludes ==
  ASSUME TypeOK, CriticalSectionsExclude,
         NEW p \in Procs, NEW label, Goto(p, label),
         \/ sem = Nobody /\ sem' = p
         \/ InCritical(p) /\ sem' = Nobody /\ label \notin CriticalLabels
         \/ UNCHANGED sem /\ (label \in CriticalLabels => InCritical(p))
  PROVE  CriticalSectionsExclude'
<1>1. pc'[p] = label /\ \A q \in Procs \ {p} : pc'[q] = pc[q]
  BY DEF TypeOK, Goto
<1>2. ASSUME NEW q \in Procs, pc'[q] \in CriticalLabels
      PROVE  sem' = q
  <2>1. CASE q = p
    BY <1>1, <1>2, <2>1 DEF CriticalSectionsExclude, InCritical, CriticalLabels
  <2>2. CASE q # p
    <3>1. InCritical(q) /\ sem = q
      BY <1>1, <1>2, <2>2 DEF CriticalSectionsExclude, InCritical, CriticalLabels
    <3>2. sem # Nobody
      BY <3>1, Numbers
    <3> QED
      BY <2>2, <3>1, <3>2 DEF CriticalSectionsExclude
  <2> QED
    BY <2>1, <2>2
<1> QED
  BY <1>2 DEF CriticalSectionsExclude, InCritical, CriticalLabels

\* Every step keeps the exclusion.  The step that breaks out of the discipline,
\* ChildTakeFails, leaves a critical section without posting, which excludes more.
LEMMA ExclusionPreserved ==
  ASSUME TypeOK, CriticalSectionsExclude, [Next]_vars
  PROVE  CriticalSectionsExclude'
<1> USE DEF Wait, Post, InCritical, CriticalLabels
<1>1. CASE ParentPrompt \/ ParentStep
  <2> Main \in Procs
    BY Numbers
  <2>1. CASE ParentPrompt
    BY <2>1, MoveExcludes DEF ParentPrompt, ParentAnswered
  <2>2. CASE ParentLock
    BY <2>2, MoveExcludes DEF ParentLock
  <2>3. CASE ParentSchedule
    BY <2>3, MoveExcludes DEF ParentSchedule
  <2>4. CASE ParentUnlock
    BY <2>4, MoveExcludes DEF ParentUnlock
  <2>5. CASE ParentSuspend
    BY <2>5, MoveExcludes DEF ParentSuspend
  <2>6. CASE ParentResume
    BY <2>6, MoveExcludes DEF ParentResume
  <2> QED
    BY <1>1, <2>1, <2>2, <2>3, <2>4, <2>5, <2>6 DEF ParentStep
<1>2. ASSUME NEW c \in Children, ChildStep(c)
      PROVE  CriticalSectionsExclude'
  <2> c \in Procs
    BY Numbers
  <2> USE DEF At
  <2>1. CASE ChildRegister(c)
    BY <2>1, MoveExcludes DEF ChildRegister
  <2>2. CASE ChildSelfStop(c)
    BY <2>2, MoveExcludes DEF ChildSelfStop
  <2>3. CASE ChildLock(c)
    BY <2>3, MoveExcludes DEF ChildLock
  <2>4. CASE ChildTake(c)
    BY <2>4, MoveExcludes DEF ChildTake
  <2>5. CASE ChildTakeFails(c)
    BY <2>5, MoveExcludes DEF ChildTakeFails
  <2>6. CASE ChildUnlock(c)
    BY <2>6, MoveExcludes DEF ChildUnlock
  <2>7. CASE ChildCallback(c)
    BY <2>7, MoveExcludes DEF ChildCallback
  <2>8. CASE ChildRelock(c)
    BY <2>8, MoveExcludes DEF ChildRelock
  <2>9. CASE ChildFinish(c)
    BY <2>9, MoveExcludes DEF ChildFinish
  <2>10. CASE ChildReunlock(c)
    BY <2>10, MoveExcludes DEF ChildReunlock
  <2> QED
    BY <1>2, <2>1, <2>2, <2>3, <2>4, <2>5, <2>6, <2>7, <2>8, <2>9, <2>10 DEF ChildStep
<1>3. ASSUME NEW c \in Children, DeliverStop(c)
      PROVE  CriticalSectionsExclude'
  BY <1>3 DEF DeliverStop, CriticalSectionsExclude
<1>4. CASE UNCHANGED vars
  BY <1>4 DEF vars, CriticalSectionsExclude
<1> QED
  BY <1>1, <1>2, <1>3, <1>4 DEF Next

\* The exclusion with the types, for behaviours.
LEMMA SpecExclusion == Spec => [](TypeInv /\ CriticalSectionsExclude)
<1>1. Init => CriticalSectionsExclude
  BY Numbers DEF Init, CriticalSectionsExclude, InCritical
<1>2. TypeInv /\ CriticalSectionsExclude /\ [Next]_vars => CriticalSectionsExclude'
  BY ExclusionPreserved DEF TypeInv
<1> QED
  BY SpecTypes, <1>1, <1>2, PTL DEF Spec

\* For every number of tasks: the critical sections of task_routine and of main
\* exclude each other, whichever process SIGSTOP freezes and wherever.
THEOREM MutualExclusion == Spec => []CriticalSectionsExclude
BY SpecExclusion, PTL

-----------------------------------------------------------------------------
(* No callback is lost, repeated or overtaken. *)

\* A move of one process to a label that gives it no callback it did not have.
LEMMA MoveGivesNoJob ==
  ASSUME TypeOK, NEW p \in Procs, NEW label, Goto(p, label),
         \/ p = Main
         \/ label \notin {"unlock1", "callback", "lock2", "finish"}
         \/ HasJob(p)
  PROVE  \A c \in Children : HasJob(c)' => HasJob(c)
<1>1. pc'[p] = label /\ \A q \in Procs \ {p} : pc'[q] = pc[q]
  BY DEF TypeOK, Goto
<1> QED
  BY <1>1, Numbers DEF HasJob

\* Every step but the scheduling, the dequeue and the release of a callback leaves
\* queues, blocks and jobs alone, and gives no child a callback it did not have.
Bystander ==
  /\ UNCHANGED <<queue, accepted, taken, job, heap>>
  /\ \A c \in Children : HasJob(c)' => HasJob(c)

\* Every step is a bystander, a scheduling, a dequeue or a release.
LEMMA StepKinds ==
  ASSUME TypeOK, [Next]_vars
  PROVE  \/ Bystander
         \/ ParentSchedule
         \/ \E c \in Children : ChildTake(c) \/ ChildFinish(c)
<1> USE DEF shared, locals, hist, Bystander
<1>1. CASE ParentPrompt \/ ParentStep
  <2> Main \in Procs
    BY Numbers
  <2>1. CASE ParentPrompt
    BY <2>1, MoveGivesNoJob DEF ParentPrompt, ParentAnswered
  <2>2. CASE ParentLock
    BY <2>2, MoveGivesNoJob DEF ParentLock
  <2>3. CASE ParentUnlock
    BY <2>3, MoveGivesNoJob DEF ParentUnlock
  <2>4. CASE ParentSuspend
    BY <2>4, MoveGivesNoJob DEF ParentSuspend
  <2>5. CASE ParentResume
    BY <2>5, MoveGivesNoJob DEF ParentResume
  <2> QED
    BY <1>1, <2>1, <2>2, <2>3, <2>4, <2>5 DEF ParentStep
<1>2. ASSUME NEW c \in Children, ChildStep(c)
      PROVE  Bystander \/ ChildTake(c) \/ ChildFinish(c)
  <2> c \in Procs
    BY Numbers
  <2> USE DEF At
  <2>1. CASE ChildRegister(c)
    BY <2>1, MoveGivesNoJob DEF ChildRegister
  <2>2. CASE ChildSelfStop(c)
    BY <2>2, MoveGivesNoJob DEF ChildSelfStop
  <2>3. CASE ChildLock(c)
    BY <2>3, MoveGivesNoJob DEF ChildLock
  <2>4. CASE ChildTakeFails(c)
    BY <2>4, MoveGivesNoJob DEF ChildTakeFails
  <2>5. CASE ChildUnlock(c)
    BY <2>5, MoveGivesNoJob DEF ChildUnlock, HasJob
  <2>6. CASE ChildCallback(c)
    BY <2>6, MoveGivesNoJob DEF ChildCallback, HasJob
  <2>7. CASE ChildRelock(c)
    BY <2>7, MoveGivesNoJob DEF ChildRelock, HasJob
  <2>8. CASE ChildReunlock(c)
    BY <2>8, MoveGivesNoJob DEF ChildReunlock
  <2> QED
    BY <1>2, <2>1, <2>2, <2>3, <2>4, <2>5, <2>6, <2>7, <2>8 DEF ChildStep
<1>3. ASSUME NEW c \in Children, DeliverStop(c)
      PROVE  Bystander
  BY <1>3 DEF DeliverStop, HasJob
<1>4. CASE UNCHANGED vars
  BY <1>4 DEF vars, HasJob
<1> QED
  BY <1>1, <1>2, <1>3, <1>4 DEF Next

\* What a dequeue does to the queue of its task, and leaves to the others.
Taken(c) ==
  /\ Len(queue[c]) \in Nat \ {0}
  /\ Len(queue'[c]) = Len(queue[c]) - 1
  /\ \A k \in 1 .. Len(queue[c]) - 1 : queue'[c][k] = queue[c][k + 1]
  /\ job'[c] = queue[c][1].id
  /\ taken'[c] = taken[c] + 1
  /\ \A t \in Tasks \ {c} : queue'[t] = queue[t] /\ taken'[t] = taken[t]
  /\ \A d \in Children \ {c} : job'[d] = job[d]
  /\ ~HasJob(c) /\ HasJob(c)'
  /\ \A d \in Children \ {c} : HasJob(d)' = HasJob(d)
  /\ UNCHANGED <<heap, accepted>>

\* ChildTake does what Taken says.
LEMMA TakeEffect ==
  ASSUME TypeOK, NEW c \in Children, ChildTake(c)
  PROVE  Taken(c)
<1> c \in Tasks /\ c \in Procs
  BY Numbers
<1>1. queue[c] \in Seq([id : Requests, prio : Prios]) /\ queue[c] # <<>>
  BY DEF ChildTake, TypeOK
<1>2. /\ Len(queue[c]) \in Nat \ {0} /\ queue[c][1] = Head(queue[c])
      /\ Len(Tail(queue[c])) = Len(queue[c]) - 1
      /\ \A k \in 1 .. Len(queue[c]) - 1 : Tail(queue[c])[k] = queue[c][k + 1]
  BY <1>1, FirstElement, HeadTailProperties
<1>3. /\ queue'[c] = Tail(queue[c])
      /\ \A t \in Tasks \ {c} : queue'[t] = queue[t]
  BY DEF ChildTake, TypeOK
<1>4. /\ job'[c] = Head(queue[c]).id
      /\ \A d \in Children \ {c} : job'[d] = job[d]
  BY DEF ChildTake, TypeOK
<1>5. /\ taken'[c] = taken[c] + 1
      /\ \A t \in Tasks \ {c} : taken'[t] = taken[t]
  BY DEF ChildTake, TypeOK
<1>6. /\ ~HasJob(c) /\ HasJob(c)'
      /\ \A d \in Children \ {c} : HasJob(d)' = HasJob(d)
  BY Numbers DEF ChildTake, At, Goto, TypeOK, HasJob
<1>7. UNCHANGED <<heap, accepted>>
  BY DEF ChildTake
<1> QED
  BY <1>2, <1>3, <1>4, <1>5, <1>6, <1>7 DEF Taken

\* What accepting a callback does to the queue and the history of its task.
Accepted(t) ==
  /\ Len(queue[t]) \in Nat /\ Len(accepted[t]) \in Nat
  /\ Len(queue'[t]) = Len(queue[t]) + 1
  /\ Len(accepted'[t]) = Len(accepted[t]) + 1
  /\ \A k \in 1 .. Len(queue[t]) : queue'[t][k] = queue[t][k]
  /\ queue'[t][Len(queue[t]) + 1].id = nreq
  /\ \A k \in 1 .. Len(accepted[t]) : accepted'[t][k] = accepted[t][k]
  /\ accepted'[t][Len(accepted[t]) + 1] = nreq
  /\ \A u \in Tasks \ {t} : queue'[u] = queue[u] /\ accepted'[u] = accepted[u]

\* A scheduling that accepts a callback for a task does what Accepted says.
LEMMA AcceptEffect ==
  ASSUME TypeInv, ParentSchedule, NEW t \in Tasks, Accepts(t)
  PROVE  Accepted(t)
<1> DEFINE elem == [id |-> nreq, prio |-> req.prio]
<1>1. nreq \in Requests /\ req.prio \in Prios
  BY DEF TypeInv, TypeOK, ParentSchedule, Requests
<1>2. /\ queue[t] \in Seq([id : Requests, prio : Prios])
      /\ accepted[t] \in Seq(Requests)
  BY DEF TypeInv, TypeOK
<1>3. elem \in [id : Requests, prio : Prios] /\ elem.id = nreq
  BY <1>1
<1>4. queue'[t] = Append(queue[t], elem) /\ accepted'[t] = Append(accepted[t], nreq)
  BY DEF Accepts, TypeInv, TypeOK
<1>5. \A u \in Tasks \ {t} : queue'[u] = queue[u] /\ accepted'[u] = accepted[u]
  BY DEF Accepts, TypeInv, TypeOK
<1> HIDE DEF elem
<1>6. Len(queue[t]) \in Nat /\ Len(accepted[t]) \in Nat
  BY <1>2, LenProperties
<1>7. /\ Len(queue'[t]) = Len(queue[t]) + 1
      /\ \A k \in 1 .. Len(queue[t]) : queue'[t][k] = queue[t][k]
      /\ queue'[t][Len(queue[t]) + 1] = elem
  BY <1>2, <1>3, <1>4, AppendProperties
<1>8. /\ Len(accepted'[t]) = Len(accepted[t]) + 1
      /\ \A k \in 1 .. Len(accepted[t]) : accepted'[t][k] = accepted[t][k]
      /\ accepted'[t][Len(accepted[t]) + 1] = nreq
  BY <1>1, <1>2, <1>4, AppendProperties
<1> QED
  BY <1>3, <1>5, <1>6, <1>7, <1>8 DEF Accepted

\* A scheduling takes no callback from a child and gives it none.
LEMMA ScheduleKeepsJobs ==
  ASSUME TypeOK, ParentSchedule
  PROVE  /\ UNCHANGED <<taken, job>>
         /\ \A c \in Children : HasJob(c)' = HasJob(c)
BY Numbers DEF ParentSchedule, Goto, TypeOK, HasJob

\* A release frees the blocks of the child's callback and leaves the ledger alone.
LEMMA FinishEffect ==
  ASSUME TypeOK, NEW c \in Children, ChildFinish(c)
  PROVE  /\ UNCHANGED <<queue, accepted, taken, job>>
         /\ heap' = heap \ ({job[c]} \X Parts)
         /\ HasJob(c) /\ ~HasJob(c)'
         /\ \A d \in Children \ {c} : HasJob(d)' = HasJob(d)
BY Numbers DEF ChildFinish, At, Goto, TypeOK, HasJob, locals, hist

\* The lengths of the queues and of the histories are numbers.
LEMMA Lengths ==
  ASSUME TypeOK, NEW t \in Tasks
  PROVE  /\ Len(queue[t]) \in Nat /\ Len(accepted[t]) \in Nat /\ taken[t] \in Nat
         /\ \A k \in 1 .. Len(accepted[t]) : accepted[t][k] \in Requests
<1>1. /\ queue[t] \in Seq([id : Requests, prio : Prios])
      /\ accepted[t] \in Seq(Requests) /\ taken[t] \in Nat
  BY DEF TypeOK
<1> QED
  BY <1>1, LenProperties, ElementOfSeq

\* The two halves of the ledger, for one task each.
QueueBooked(t) ==
  /\ Len(accepted[t]) = taken[t] + Len(queue[t])
  /\ \A k \in 1 .. Len(queue[t]) : queue[t][k].id = accepted[t][taken[t] + k]

JobBooked(c) == HasJob(c) => taken[c] > 0 /\ job[c] = accepted[c][taken[c]]

\* Every step keeps the ledger: the cases of StepKinds.
LEMMA LedgerPreserved ==
  ASSUME TypeInv, NothingLostOrRepeated, [Next]_vars
  PROVE  NothingLostOrRepeated'
<1> TypeOK
  BY DEF TypeInv
<1>1. CASE Bystander
  BY <1>1 DEF Bystander, NothingLostOrRepeated
<1>2. CASE ParentSchedule
  <2>1. /\ UNCHANGED <<taken, job>>
        /\ \A c \in Children : HasJob(c)' = HasJob(c)
    BY <1>2, ScheduleKeepsJobs
  <2>2. CASE Refuses
    BY <2>1, <2>2 DEF Refuses, NothingLostOrRepeated
  <2>3. ASSUME NEW t \in Tasks, Accepts(t)
        PROVE  NothingLostOrRepeated'
    <3>1. Accepted(t)
      BY <1>2, <2>3, AcceptEffect
    <3>2. QueueBooked(t)'
      <4>1. QueueBooked(t) /\ taken[t] \in Nat
        BY Lengths DEF NothingLostOrRepeated, QueueBooked
      <4>2. ASSUME NEW k \in 1 .. Len(queue'[t])
            PROVE  queue'[t][k].id = accepted'[t][taken[t] + k]
        <5>1. CASE k \in 1 .. Len(queue[t])
          <6>1. taken[t] + k \in 1 .. Len(accepted[t])
            BY <3>1, <4>1, <5>1 DEF Accepted, QueueBooked
          <6> QED
            BY <3>1, <4>1, <5>1, <6>1 DEF Accepted, QueueBooked
        <5>2. CASE k = Len(queue[t]) + 1
          <6>1. taken[t] + k = Len(accepted[t]) + 1
            BY <3>1, <4>1, <5>2 DEF Accepted, QueueBooked
          <6> QED
            BY <3>1, <5>2, <6>1 DEF Accepted
        <5> QED
          BY <3>1, <5>1, <5>2 DEF Accepted
      <4>3. Len(accepted'[t]) = taken[t] + Len(queue'[t])
        BY <3>1, <4>1 DEF Accepted, QueueBooked
      <4> QED
        BY <2>1, <4>2, <4>3 DEF QueueBooked
    <3>3. \A u \in Tasks \ {t} : QueueBooked(u)'
      BY <2>1, <3>1 DEF Accepted, NothingLostOrRepeated, QueueBooked
    <3>4. ASSUME NEW c \in Children
          PROVE  JobBooked(c)'
      <4>1. c \in Tasks /\ QueueBooked(c) /\ JobBooked(c)
        BY Numbers DEF NothingLostOrRepeated, QueueBooked, JobBooked
      <4>2. HasJob(c) => taken[c] \in 1 .. Len(accepted[c])
        BY <4>1, Lengths DEF QueueBooked, JobBooked
      <4>3. HasJob(c) => accepted'[c][taken[c]] = accepted[c][taken[c]]
        BY <3>1, <4>1, <4>2 DEF Accepted
      <4> QED
        BY <2>1, <4>1, <4>3 DEF JobBooked
    <3> QED
      BY <3>2, <3>3, <3>4 DEF NothingLostOrRepeated, QueueBooked, JobBooked
  <2> QED
    BY <1>2, <2>2, <2>3, ScheduleEffect
<1>3. ASSUME NEW c \in Children, ChildTake(c)
      PROVE  NothingLostOrRepeated'
  <2>1. Taken(c)
    BY <1>3, TakeEffect
  <2>2. c \in Tasks /\ QueueBooked(c) /\ taken[c] \in Nat
    BY Numbers, Lengths DEF NothingLostOrRepeated, QueueBooked
  <2>3. QueueBooked(c)'
    <3>0. /\ Len(queue[c]) \in Nat \ {0} /\ taken[c] \in Nat
          /\ Len(accepted[c]) = taken[c] + Len(queue[c])
      BY <2>1, <2>2 DEF Taken, QueueBooked
    <3>1. ASSUME NEW k \in 1 .. Len(queue[c]) - 1
          PROVE  queue'[c][k].id = accepted[c][taken[c] + 1 + k]
      <4>1. k + 1 \in 1 .. Len(queue[c]) /\ taken[c] + (k + 1) = taken[c] + 1 + k
        BY <3>0
      <4> QED
        BY <2>1, <2>2, <4>1 DEF Taken, QueueBooked
    <3>2. Len(accepted[c]) = (taken[c] + 1) + (Len(queue[c]) - 1)
      BY <3>0
    <3> QED
      BY <2>1, <3>1, <3>2 DEF Taken, QueueBooked
  <2>4. ASSUME NEW t \in Tasks \ {c}
        PROVE  QueueBooked(t)'
    BY <2>1 DEF Taken, NothingLostOrRepeated, QueueBooked
  <2>5. JobBooked(c)'
    <3>1. 1 \in 1 .. Len(queue[c]) /\ taken[c] + 1 > 0
      BY <2>1, <2>2 DEF Taken
    <3>2. queue[c][1].id = accepted[c][taken[c] + 1]
      BY <2>2, <3>1 DEF QueueBooked
    <3>3. /\ job'[c] = queue[c][1].id /\ taken'[c] = taken[c] + 1
          /\ accepted' = accepted
      BY <2>1 DEF Taken
    <3> QED
      BY <3>1, <3>2, <3>3 DEF JobBooked
  <2>6. ASSUME NEW d \in Children \ {c}
        PROVE  JobBooked(d)'
    BY <2>1, Numbers DEF Taken, NothingLostOrRepeated, JobBooked
  <2> QED
    BY <2>3, <2>4, <2>5, <2>6 DEF NothingLostOrRepeated, QueueBooked, JobBooked
<1>4. ASSUME NEW c \in Children, ChildFinish(c)
      PROVE  NothingLostOrRepeated'
  <2>1. \A d \in Children : HasJob(d)' => HasJob(d)
    BY <1>4, FinishEffect
  <2>2. UNCHANGED <<queue, accepted, taken, job>>
    BY <1>4, FinishEffect
  <2> QED
    BY <2>1, <2>2 DEF NothingLostOrRepeated
<1> QED
  BY <1>1, <1>2, <1>3, <1>4, StepKinds

\* The ledger with the types, for behaviours.
LEMMA SpecLedger == Spec => [](TypeInv /\ NothingLostOrRepeated)
<1>1. Init => NothingLostOrRepeated
  BY Numbers DEF Init, NothingLostOrRepeated, HasJob
<1>2. TypeInv /\ NothingLostOrRepeated /\ [Next]_vars => NothingLostOrRepeated'
  BY LedgerPreserved
<1> QED
  BY SpecTypes, <1>1, <1>2, PTL DEF Spec

\* For every number of tasks, depth, heap and input, and in every interleaving of
\* the processes and of the delivery of signals: a task's callbacks are taken in the
\* order of acceptance, each once, and none disappears.
THEOREM NoCallbackLost == Spec => []NothingLostOrRepeated
BY SpecLedger, PTL

-----------------------------------------------------------------------------
(* What the parent reads and signals. *)

(* The task the parent takes for the running one is in a callback. *)

JobLabels  == {"unlock1", "callback", "lock2", "finish"}
ParkLabels == {"self_stop", "lock1"}

\* A move that leaves current alone keeps CurrentIsBusy when it ends nobody's
\* callback, and frees the semaphore only on the way out of a critical section.
LEMMA MoveKeepsBusy ==
  ASSUME TypeOK, CriticalSectionsExclude, CurrentIsBusy, UNCHANGED current,
         NEW p \in Procs, NEW label, Goto(p, label),
         HasJob(p) => label \in JobLabels,
         pc[p] \in ParkLabels => label \in ParkLabels \/ sem = Nobody,
         \/ UNCHANGED sem
         \/ sem = Nobody
         \/ InCritical(p)
  PROVE  CurrentIsBusy'
<1> SUFFICES ASSUME current # NoTask
             PROVE  HasJob(current)' \/ KeptSemaphore(current)'
  BY DEF CurrentIsBusy
<1>1. current \in Children /\ current \in Procs /\ current # Nobody
  BY Numbers DEF TypeOK
<1>2. pc'[p] = label /\ \A q \in Procs \ {p} : pc'[q] = pc[q]
  BY DEF TypeOK, Goto
<1>3. CASE HasJob(current)
  BY <1>1, <1>2, <1>3 DEF HasJob, JobLabels
<1>4. CASE KeptSemaphore(current)
  <2>1. sem = current /\ pc[current] \in ParkLabels
    BY <1>4 DEF KeptSemaphore, ParkLabels
  <2>2. ~InCritical(p)
    BY <2>1 DEF CriticalSectionsExclude, InCritical, ParkLabels
  <2>3. sem' = current
    BY <1>1, <2>1, <2>2
  <2>4. pc'[current] \in ParkLabels
    BY <1>1, <1>2, <2>1
  <2> QED
    BY <2>3, <2>4 DEF KeptSemaphore, ParkLabels
<1> QED
  BY <1>3, <1>4 DEF CurrentIsBusy

\* Every step keeps CurrentIsBusy.  A child that finishes clears current whoever it
\* names (line 163), which loses a running task but never leaves a finished one.
LEMMA BusyPreserved ==
  ASSUME TypeOK, CriticalSectionsExclude, CurrentIsBusy, [Next]_vars
  PROVE  CurrentIsBusy'
<1> USE DEF Wait, Post, InCritical, HasJob, JobLabels, ParkLabels, shared, locals, hist
<1>1. CASE ParentPrompt \/ ParentStep
  <2> Main \in Procs
    BY Numbers
  <2>1. CASE ParentPrompt
    BY <2>1, MoveKeepsBusy DEF ParentPrompt, ParentAnswered
  <2>2. CASE ParentLock
    BY <2>2, MoveKeepsBusy DEF ParentLock
  <2>3. CASE ParentSchedule
    BY <2>3, MoveKeepsBusy DEF ParentSchedule
  <2>4. CASE ParentUnlock
    BY <2>4, MoveKeepsBusy DEF ParentUnlock
  <2>5. CASE ParentSuspend
    BY <2>5, MoveKeepsBusy DEF ParentSuspend
  <2>6. CASE ParentResume
    BY <2>6, MoveKeepsBusy DEF ParentResume
  <2> QED
    BY <1>1, <2>1, <2>2, <2>3, <2>4, <2>5, <2>6 DEF ParentStep
<1>2. ASSUME NEW c \in Children, ChildStep(c)
      PROVE  CurrentIsBusy'
  <2> c \in Procs
    BY Numbers
  <2> USE DEF At
  <2>1. CASE ChildRegister(c)
    BY <2>1, MoveKeepsBusy DEF ChildRegister
  <2>2. CASE ChildSelfStop(c)
    BY <2>2, MoveKeepsBusy DEF ChildSelfStop
  <2>3. CASE ChildLock(c)
    BY <2>3, MoveKeepsBusy DEF ChildLock
  <2>4. CASE ChildTake(c)
    BY <2>4 DEF ChildTake, Goto, TypeOK, CurrentIsBusy
  <2>5. CASE ChildTakeFails(c)
    BY <2>5 DEF ChildTakeFails, Goto, TypeOK, CurrentIsBusy, CriticalSectionsExclude,
                KeptSemaphore
  <2>6. CASE ChildUnlock(c)
    BY <2>6, MoveKeepsBusy DEF ChildUnlock
  <2>7. CASE ChildCallback(c)
    BY <2>7, MoveKeepsBusy DEF ChildCallback
  <2>8. CASE ChildRelock(c)
    BY <2>8, MoveKeepsBusy DEF ChildRelock
  <2>9. CASE ChildFinish(c)
    BY <2>9 DEF ChildFinish, CurrentIsBusy
  <2>10. CASE ChildReunlock(c)
    BY <2>10, MoveKeepsBusy DEF ChildReunlock
  <2> QED
    BY <1>2, <2>1, <2>2, <2>3, <2>4, <2>5, <2>6, <2>7, <2>8, <2>9, <2>10 DEF ChildStep
<1>3. ASSUME NEW c \in Children, DeliverStop(c)
      PROVE  CurrentIsBusy'
  BY <1>3 DEF DeliverStop, CurrentIsBusy, KeptSemaphore
<1>4. CASE UNCHANGED vars
  BY <1>4 DEF vars, CurrentIsBusy, KeptSemaphore
<1> QED
  BY <1>1, <1>2, <1>3, <1>4 DEF Next

\* For every number of tasks: what the parent reads as the running task (line 277) is
\* a task in the middle of a callback, or one stuck with the semaphore.
THEOREM RunningTaskIsBusy == Spec => []CurrentIsBusy
<1>1. Init => CurrentIsBusy
  BY DEF Init, CurrentIsBusy
<1>2. TypeInv /\ CriticalSectionsExclude /\ CurrentIsBusy /\ [Next]_vars => CurrentIsBusy'
  BY BusyPreserved DEF TypeInv
<1> QED
  BY SpecExclusion, <1>1, <1>2, PTL DEF Spec

-----------------------------------------------------------------------------
(* The tasks the parent has stopped are on its stack. *)

\* A child has written its pid before it can become the running task, so the parent
\* never stops a pid of -1, which would stop every child (line 292).
Registered ==
  /\ \A c \in Children : pc[c] # "start" => pid[c] = c
  /\ current # NoTask => pc[current] # "start"
  /\ running # NoTask => pc[running] # "start"

OnStack(c) == \E k \in 1 .. Len(stack) : stack[k] = c

\* PreemptedIsOnStack alone is not inductive: a stop may be pending for a child that
\* waits at its own kill, or for the semaphore, and goes on from there.
StopsRecorded ==
  \A c \in Children :
    run[c] = "stopping" \/ (run[c] = "stopped" /\ pc[c] # "lock1") => OnStack(c)

\* A move past the registration that leaves the pids and the running task alone.
LEMMA MoveKeepsRegistered ==
  ASSUME TypeOK, Registered, UNCHANGED <<pid, current, running>>,
         NEW p \in Procs, NEW label, Goto(p, label),
         label # "start", p = Main \/ pc[p] # "start"
  PROVE  Registered'
<1>1. pc'[p] = label /\ \A q \in Procs \ {p} : pc'[q] = pc[q]
  BY DEF TypeOK, Goto
<1>2. Children \subseteq Procs /\ Main \notin Children
  BY Numbers
<1>3. (current # NoTask => current \in Children) /\ (running # NoTask => running \in Children)
  BY DEF TypeOK
<1> QED
  BY <1>1, <1>2, <1>3 DEF Registered

\* Every step keeps Registered.
LEMMA RegisteredPreserved ==
  ASSUME TypeOK, Registered, [Next]_vars
  PROVE  Registered'
<1> USE DEF shared, locals, hist
<1>1. CASE ParentPrompt \/ ParentStep
  <2> Main \in Procs
    BY Numbers
  <2>1. CASE ParentSchedule
    <3>1. Goto(Main, "unlock") /\ UNCHANGED <<pid, current>> /\ running' = current
      BY <2>1 DEF ParentSchedule
    <3>2. \A c \in Children : pc'[c] = pc[c]
      BY <3>1, Numbers DEF Goto, TypeOK
    <3> QED
      BY <3>1, <3>2 DEF Registered, TypeOK
  <2>2. CASE ~ParentSchedule
    BY <1>1, <2>2, MoveKeepsRegistered
    DEF ParentPrompt, ParentAnswered, ParentStep, ParentLock, ParentUnlock, ParentSuspend, ParentResume
  <2> QED
    BY <2>1, <2>2
<1>2. ASSUME NEW c \in Children, ChildStep(c)
      PROVE  Registered'
  <2> c \in Procs /\ c \in Tasks /\ c # NoTask
    BY Numbers
  <2> USE DEF At
  <2>1. CASE ChildRegister(c)
    BY <2>1 DEF ChildRegister, Goto, Registered, TypeOK
  <2>2. CASE ChildTake(c) \/ ChildTakeFails(c)
    <3>1. pc[c] = "take" /\ UNCHANGED <<pid, running>> /\ current' = c
      BY <2>2 DEF ChildTake, ChildTakeFails
    <3>2. pc'[c] # "start" /\ \A q \in Procs \ {c} : pc'[q] = pc[q]
      BY <2>2 DEF ChildTake, ChildTakeFails, Goto, TypeOK
    <3>3. Children \subseteq Procs /\ (running # NoTask => running \in Children)
      BY Numbers DEF TypeOK
    <3> QED
      BY <3>1, <3>2, <3>3 DEF Registered
  <2>3. CASE ChildFinish(c)
    BY <2>3 DEF ChildFinish, Goto, Registered, TypeOK
  <2>4. CASE ChildSelfStop(c) \/ ChildLock(c) \/ ChildUnlock(c) \/ ChildCallback(c)
             \/ ChildRelock(c) \/ ChildReunlock(c)
    BY <2>4, MoveKeepsRegistered
    DEF ChildSelfStop, ChildLock, ChildUnlock, ChildCallback, ChildRelock, ChildReunlock
  <2> QED
    BY <1>2, <2>1, <2>2, <2>3, <2>4 DEF ChildStep
<1>3. CASE UNCHANGED vars \/ \E c \in Children : DeliverStop(c)
  BY <1>3 DEF vars, DeliverStop, Registered
<1> QED
  BY <1>1, <1>2, <1>3 DEF Next

\* A step of a child keeps the record: the stack stays, and the child can move only
\* if it is not stopped.
LEMMA ChildKeepsStopsRecorded ==
  ASSUME TypeOK, StopsRecorded, NEW c \in Children, ChildStep(c)
  PROVE  StopsRecorded'
<1> USE DEF shared, locals, hist
<1>1. c \in Procs /\ Children \subseteq Procs
  BY Numbers
<1>2. run[c] # "stopped" /\ UNCHANGED stack
  BY DEF ChildStep, At, ChildRegister, ChildSelfStop, ChildLock, ChildTake, ChildTakeFails,
         ChildUnlock, ChildCallback, ChildRelock, ChildFinish, ChildReunlock
<1>3. \A d \in Children \ {c} : run'[d] = run[d] /\ pc'[d] = pc[d]
  BY <1>1 DEF ChildStep, ChildRegister, ChildSelfStop, ChildLock, ChildTake, ChildTakeFails,
              ChildUnlock, ChildCallback, ChildRelock, ChildFinish, ChildReunlock, Goto, TypeOK
<1>4. run'[c] = run[c] \/ (run'[c] = "stopped" /\ pc'[c] = "lock1")
  BY <1>1 DEF ChildStep, ChildRegister, ChildSelfStop, ChildLock, ChildTake, ChildTakeFails,
              ChildUnlock, ChildCallback, ChildRelock, ChildFinish, ChildReunlock, Goto, TypeOK
<1> QED
  BY <1>2, <1>3, <1>4 DEF StopsRecorded, OnStack

\* The parent pushes the task it stops; what is on the stack stays there.
LEMMA SuspendKeepsStopsRecorded ==
  ASSUME TypeOK, Registered, StopsRecorded, ParentSuspend
  PROVE  StopsRecorded'
<1> USE DEF shared, locals, hist
<1>1. \A c \in Children : pc'[c] = pc[c]
  BY Numbers DEF ParentSuspend, Goto, TypeOK
<1>2. CASE running = NoTask
  <2>1. UNCHANGED <<run, stack>>
    BY <1>2 DEF ParentSuspend
  <2> QED
    BY <1>1, <2>1 DEF StopsRecorded, OnStack
<1>3. CASE running # NoTask
  <2>1. running \in Children /\ pid[running] = running
    BY <1>3 DEF TypeOK, Registered
  <2>2. SigStop(running) /\ stack' = Append(stack, running) /\ running' = running
    BY <1>3, <2>1 DEF ParentSuspend
  <2>3. \A c \in Children : c # running => run'[c] = run[c]
    BY <2>1, <2>2, Numbers DEF SigStop, Signalled
  <2>4. stack \in Seq(Children)
    BY DEF TypeOK
  <2>5. /\ Len(stack') = Len(stack) + 1 /\ Len(stack) \in Nat
        /\ stack'[Len(stack) + 1] = running
        /\ \A k \in 1 .. Len(stack) : stack'[k] = stack[k]
    BY <2>1, <2>2, <2>4, AppendProperties, LenProperties
  <2>6. OnStack(running)'
    <3>1. Len(stack) + 1 \in 1 .. Len(stack')
      BY <2>5
    <3> QED
      BY <2>2, <2>5, <3>1 DEF OnStack
  <2>7. ASSUME NEW c \in Children, OnStack(c)
        PROVE  OnStack(c)'
    <3>1. PICK k \in 1 .. Len(stack) : stack[k] = c
      BY <2>7 DEF OnStack
    <3>2. k \in 1 .. Len(stack')
      BY <2>5
    <3> QED
      BY <2>5, <3>1, <3>2 DEF OnStack
  <2>8. ASSUME NEW c \in Children,
               run'[c] = "stopping" \/ (run'[c] = "stopped" /\ pc'[c] # "lock1")
        PROVE  OnStack(c)'
    <3>1. CASE c = running
      BY <2>2, <2>6, <3>1 DEF OnStack
    <3>2. CASE c # running
      BY <1>1, <2>3, <2>7, <2>8, <3>2 DEF StopsRecorded
    <3> QED
      BY <3>1, <3>2
  <2> QED
    BY <2>8 DEF StopsRecorded
<1> QED
  BY <1>2, <1>3

\* Every step keeps StopsRecorded.
LEMMA StopsRecordedPreserved ==
  ASSUME TypeOK, Registered, StopsRecorded, [Next]_vars
  PROVE  StopsRecorded'
<1> USE DEF shared, locals, hist
<1>1. CASE ParentPrompt \/ ParentLock \/ ParentSchedule \/ ParentUnlock
  <2>1. UNCHANGED <<run, stack>>
    BY <1>1 DEF ParentPrompt, ParentAnswered, ParentLock, ParentSchedule, ParentUnlock
  <2>2. \A c \in Children : pc'[c] = pc[c]
    BY <1>1, Numbers DEF ParentPrompt, ParentAnswered, ParentLock, ParentSchedule, ParentUnlock, Goto, TypeOK
  <2> QED
    BY <2>1, <2>2 DEF StopsRecorded, OnStack
<1>2. CASE ParentSuspend
  BY <1>2, SuspendKeepsStopsRecorded
<1>3. CASE ParentResume
  <2>1. UNCHANGED stack /\ \A c \in Children : pc'[c] = pc[c]
    BY <1>3, Numbers DEF ParentResume, Goto, TypeOK
  <2>2. \A c \in Children : run'[c] = run[c] \/ run'[c] = "running"
    BY <1>3 DEF ParentResume, SigCont
  <2> QED
    BY <2>1, <2>2 DEF StopsRecorded, OnStack
<1>4. CASE \E c \in Children : ChildStep(c)
  BY <1>4, ChildKeepsStopsRecorded
<1>5. CASE \E c \in Children : DeliverStop(c)
  BY <1>5 DEF DeliverStop, StopsRecorded, OnStack, TypeOK
<1>6. CASE UNCHANGED vars
  BY <1>6 DEF vars, StopsRecorded, OnStack
<1> QED
  BY <1>1, <1>2, <1>3, <1>4, <1>5, <1>6 DEF Next, ParentStep

\* For every number of tasks and requests: a child stopped anywhere but in its own
\* kill was stopped by the parent and is on task_stack (line 293).
THEOREM StoppedTaskIsOnStack == Spec => []PreemptedIsOnStack
<1>1. Init => Registered /\ StopsRecorded
  BY Numbers DEF Init, Registered, StopsRecorded
<1>2. TypeInv /\ Registered /\ StopsRecorded /\ [Next]_vars
        => (Registered /\ StopsRecorded)'
  BY RegisteredPreserved, StopsRecordedPreserved DEF TypeInv
<1>3. TypeInv /\ StopsRecorded => PreemptedIsOnStack
  BY DEF TypeInv, TypeOK, StopsRecorded, OnStack, PreemptedIsOnStack
<1> QED
  BY SpecTypes, <1>1, <1>2, <1>3, PTL DEF Spec

-----------------------------------------------------------------------------
(* task_stack, the array of the tasks the parent has stopped, which nothing ever
   pops: how far a number of requests can fill it. *)

\* Until the first request wakes a child ...
FirstUnderway == nreq = 0 \/ (nreq = 1 /\ pc[Main] # "prompt")

\* ... no child has got past its first self-suspension, so nothing is running.
Asleep ==
  /\ current = NoTask /\ running = NoTask
  /\ \A c \in Children :
       pc[c] \in {"start", "self_stop"} \/ (pc[c] = "lock1" /\ run[c] = "stopped")

\* A request that is underway has not pushed yet.
Underway == pc[Main] \in {"lock", "schedule", "unlock", "suspend"}

StackInv ==
  /\ FirstUnderway => Asleep
  /\ nreq = 0 => pc[Main] = "prompt"
  /\ stack # <<>> => Len(stack) < nreq
  /\ Underway /\ stack # <<>> => Len(stack) + 1 < nreq

-----------------------------------------------------------------------------
\* The executor starts at the first prompt with an empty stack.
LEMMA InitStack == Init => StackInv
<1> SUFFICES ASSUME Init PROVE StackInv
    OBVIOUS
<1>1. pc[Main] = "prompt" /\ \A c \in Children : pc[c] = "start"
      BY Numbers DEF Init
<1> QED BY <1>1 DEF Init, StackInv, Asleep, Underway

\* A request takes the parent through one push at most.
LEMMA ParentKeepsStack ==
  ASSUME TypeOK, StackInv, ParentPrompt \/ ParentStep
  PROVE  StackInv'
<1> USE DEF shared, locals, hist, StackInv, FirstUnderway, Underway
<1>1. /\ \A c \in Children : pc'[c] = pc[c]
      /\ Len(stack) \in Nat /\ nreq \in Nat
  BY Numbers DEF TypeOK, ParentPrompt, ParentAnswered, ParentStep, ParentLock, ParentSchedule, ParentUnlock,
                 ParentSuspend, ParentResume, Goto
<1>2. CASE ParentPrompt
  <2>1. pc[Main] = "prompt" /\ pc'[Main] = "lock" /\ nreq' = nreq + 1
    BY <1>2, Numbers DEF ParentPrompt, ParentAnswered, Goto, TypeOK
  <2> QED
    BY <1>1, <1>2, <2>1 DEF ParentPrompt, ParentAnswered, Asleep
<1>3. CASE ParentLock
  <2>1. pc[Main] = "lock" /\ pc'[Main] = "schedule"
    BY <1>3, Numbers DEF ParentLock, Goto, TypeOK
  <2> QED
    BY <1>1, <1>3, <2>1 DEF ParentLock, Asleep
<1>4. CASE ParentSchedule
  <2>1. pc[Main] = "schedule" /\ pc'[Main] = "unlock" /\ running' = current
    BY <1>4, Numbers DEF ParentSchedule, Goto, TypeOK
  <2> QED
    BY <1>1, <1>4, <2>1 DEF ParentSchedule, Asleep
<1>5. CASE ParentUnlock
  <2>1. pc[Main] = "unlock" /\ pc'[Main] = "suspend"
    BY <1>5, Numbers DEF ParentUnlock, Goto, TypeOK
  <2> QED
    BY <1>1, <1>5, <2>1 DEF ParentUnlock, Asleep
<1>6. CASE ParentSuspend
  <2>1. pc[Main] = "suspend" /\ pc'[Main] = "resume" /\ nreq' = nreq
    BY <1>6, Numbers DEF ParentSuspend, Goto, TypeOK
  <2>2. CASE running = NoTask
    BY <1>1, <1>6, <2>1, <2>2 DEF ParentSuspend, Asleep
  <2>3. CASE running # NoTask
    <3>1. nreq > 1
      BY <1>1, <2>1, <2>3 DEF Asleep
    <3>2. Len(stack') = Len(stack) + 1
      BY <1>6, <2>3 DEF ParentSuspend, TypeOK
    <3>3. stack = <<>> => Len(stack) = 0
      OBVIOUS
    <3> QED
      BY <1>1, <2>1, <3>1, <3>2, <3>3
  <2> QED
    BY <2>2, <2>3
<1>7. CASE ParentResume
  <2>1. pc[Main] = "resume" /\ pc'[Main] = "prompt" /\ UNCHANGED <<nreq, stack>>
    BY <1>7, Numbers DEF ParentResume, Goto, TypeOK
  <2> QED
    BY <1>1, <2>1
<1> QED
  BY <1>2, <1>3, <1>4, <1>5, <1>6, <1>7 DEF ParentStep

\* Before the first wake-up a child can only register and suspend itself.
LEMMA ChildKeepsStack ==
  ASSUME TypeOK, StackInv, NEW c \in Children, ChildStep(c) \/ DeliverStop(c)
  PROVE  StackInv'
<1> USE DEF shared, locals, hist
<1>1. /\ pc'[Main] = pc[Main]
      /\ UNCHANGED <<nreq, stack, running>>
      /\ \A d \in Children \ {c} : pc'[d] = pc[d] /\ run'[d] = run[d]
  BY Numbers DEF ChildStep, ChildRegister, ChildSelfStop, ChildLock, ChildTake, ChildTakeFails,
                 ChildUnlock, ChildCallback, ChildRelock, ChildFinish, ChildReunlock,
                 DeliverStop, Goto, TypeOK
<1>2. ASSUME Asleep PROVE Asleep'
  <2>1. pc[c] \in {"start", "self_stop"} \/ (pc[c] = "lock1" /\ run[c] = "stopped")
    BY <1>2 DEF Asleep
  <2>2. ChildRegister(c) \/ ChildSelfStop(c) \/ DeliverStop(c)
    BY <2>1 DEF ChildStep, At, ChildLock, ChildTake, ChildTakeFails, ChildUnlock,
                ChildCallback, ChildRelock, ChildFinish, ChildReunlock
  <2>3. /\ UNCHANGED current
        /\ pc'[c] \in {"start", "self_stop"} \/ (pc'[c] = "lock1" /\ run'[c] = "stopped")
    <3> c \in Procs
      BY Numbers
    <3>1. CASE ChildRegister(c)
      BY <3>1 DEF ChildRegister, Goto, TypeOK
    <3>2. CASE ChildSelfStop(c)
      BY <3>2 DEF ChildSelfStop, Goto, TypeOK
    <3>3. CASE DeliverStop(c)
      BY <2>1, <3>3 DEF DeliverStop, TypeOK
    <3> QED
      BY <2>2, <3>1, <3>2, <3>3
  <2> QED
    BY <1>1, <1>2, <2>3 DEF Asleep
<1> QED
  BY <1>1, <1>2 DEF StackInv, FirstUnderway, Underway

\* Every step keeps the bound.
LEMMA StackPreserved ==
  ASSUME TypeOK, StackInv, [Next]_vars
  PROVE  StackInv'
<1>1. CASE UNCHANGED vars
  BY <1>1 DEF vars, shared, locals, StackInv, FirstUnderway, Asleep, Underway
<1> QED
  BY <1>1, ParentKeepsStack, ChildKeepsStack DEF Next

\* For every number of tasks: n requests push at most n - 1 tasks on task_stack, so
\* its MAX_PREEMPTABLE_TASKS entries (lines 28, 293) suffice for 256 requests.
THEOREM StackWithinRequests == Spec => []StackBounded
<1>1. TypeInv /\ StackInv /\ [Next]_vars => StackInv'
  BY StackPreserved DEF TypeInv
<1>2. StackInv => StackBounded
  BY DEF StackInv, StackBounded
<1> QED
  BY InitStack, <1>1, <1>2, SpecTypes, PTL DEF Spec

-----------------------------------------------------------------------------
(* A user who waits until every child is parked, and never types the number of the
   task that has no child. *)

\* What a patient user sees.  A child only runs for a callback that waits for it and keeps
\* the semaphore across no suspension; while the parent handles a request they are all
\* parked; and the parent wakes none but a child with a callback.
PatientInv ==
  /\ stack = <<>> /\ running = NoTask
  /\ queue[NTasks - 1] = <<>> /\ req.task # NTasks - 1
  /\ \A c \in Children :
       /\ run[c] = "running" \/ Parked(c)
       /\ pc[c] \in {"start", "self_stop", "lock1"} => sem # c
       /\ pc[c] = "take" \/ (pc[c] = "lock1" /\ run[c] = "running") => queue[c] # <<>>
  /\ pc[Main] # "prompt" => current = NoTask /\ \A c \in Children : Parked(c)
  /\ pc[Main] \in {"unlock", "suspend", "resume"} =>
       target = NoTask \/ (target \in Children /\ queue[target] # <<>>)

\* The last task is the only one without a child.
LEMMA ChildlessTask == \A t \in Tasks : t \in Children \/ t = NTasks - 1
BY ExecutorAssumption DEF Tasks, Children

\* At the start nothing has been requested and nobody is stopped.
LEMMA InitPatient == Init => PatientInv
<1> SUFFICES ASSUME Init PROVE PatientInv
  OBVIOUS
<1>1. pc[Main] = "prompt" /\ \A c \in Children : pc[c] = "start" /\ run[c] = "running"
  BY Numbers DEF Init
<1>2. NTasks - 1 \in Tasks
  BY ExecutorAssumption DEF Tasks
<1>3. \A c \in Children : sem # c
  BY Numbers DEF Init
<1>4. req.task # NTasks - 1
  BY ExecutorAssumption DEF Init, NoTask
<1> QED
  BY <1>1, <1>2, <1>3, <1>4 DEF Init, PatientInv

\* The parent finds nobody running, so it stops nobody, and wakes a child that has a
\* callback or none at all.
LEMMA ParentKeepsPatient ==
  ASSUME TypeInv, CurrentIsBusy, Registered, PatientInv, patient',
         ParentPrompt \/ ParentStep
  PROVE  PatientInv'
<1> USE DEF shared, locals, hist
<1>1. /\ \A c \in Children : pc'[c] = pc[c]
      /\ UNCHANGED sem \/ sem' = Main \/ sem' = Nobody
      /\ \A c \in Children : c # Main /\ c # Nobody
  <2>1. \A c \in Children : c # Main /\ c # Nobody /\ c \in Procs
    BY Numbers
  <2>2. \A c \in Children : pc'[c] = pc[c]
    BY <2>1 DEF TypeInv, TypeOK, ParentPrompt, ParentAnswered, ParentStep, ParentLock, ParentSchedule,
                ParentUnlock, ParentSuspend, ParentResume, Goto
  <2>3. UNCHANGED sem \/ sem' = Main \/ sem' = Nobody
    BY DEF ParentPrompt, ParentAnswered, ParentStep, ParentLock, ParentSchedule, ParentUnlock, ParentSuspend,
           ParentResume, Wait, Post
  <2> QED
    BY <2>1, <2>2, <2>3
<1>2. CASE ParentPrompt
  <2>1. pc[Main] = "prompt" /\ pc'[Main] = "lock" /\ \A c \in Children : Parked(c)
    BY <1>2, Numbers DEF ParentPrompt, ParentAnswered, Goto, TypeInv, TypeOK
  <2>2. /\ UNCHANGED <<stack, running, queue, run, sem, current>>
        /\ req'.task # NTasks - 1
    <3>1. PICK t \in Selections, p \in PrioInputs : ParentAnswered(t, p)
      BY <1>2 DEF ParentPrompt
    <3>2. t # NTasks - 1
      BY <3>1, Zenon DEF ParentAnswered
    <3> QED
      BY <3>1, <3>2 DEF ParentAnswered
  <2>3. current = NoTask
    <3> SUFFICES ASSUME current # NoTask PROVE FALSE
      OBVIOUS
    <3>1. current \in Children
      BY DEF TypeInv, TypeOK
    <3>2. pc[current] = "lock1" /\ sem # current
      BY <2>1, <3>1 DEF Parked, PatientInv
    <3> QED
      BY <3>2 DEF CurrentIsBusy, HasJob, KeptSemaphore
  <2> QED
    BY <1>1, <2>1, <2>2, <2>3 DEF PatientInv, Parked
<1>3. CASE ParentSchedule
  <2>1. /\ pc[Main] = "schedule" /\ pc'[Main] = "unlock"
        /\ UNCHANGED <<sem, current, run, stack, req>> /\ running' = current
        /\ EnqueueCallback(req.task, nreq, req.prio) /\ target' = HighestPrioTask(queue')
    BY <1>3, Numbers DEF ParentSchedule, Goto, TypeInv, TypeOK
  <2>2. current = NoTask /\ \A c \in Children : Parked(c)
    BY <2>1 DEF PatientInv
  <2>3. queue' \in Queues
    BY <1>3, ParentTypes DEF TypeInv, TypeOK, Queues
  <2>4. queue'[NTasks - 1] = <<>>
    <3>1. queue[NTasks - 1] = <<>> /\ queue \in [Tasks -> Seq([id : Requests, prio : Prios])]
      BY DEF PatientInv, TypeInv, TypeOK
    <3>2. req.task # NTasks - 1
      BY DEF PatientInv
    <3>3. UNCHANGED queue \/ \E e : queue' = [queue EXCEPT ![req.task] = e]
      BY <2>1 DEF EnqueueCallback
    <3>4. NTasks - 1 \in Tasks
      BY ExecutorAssumption DEF Tasks
    <3> QED
      BY <3>1, <3>2, <3>3, <3>4
  <2>5. target' = NoTask \/ (target' \in Children /\ queue'[target'] # <<>>)
    <3>1. target' = NoTask \/ target' \in Ready(queue')
      BY <2>1, <2>3, HighestPrioTaskIsFirstHighest
    <3>2. ASSUME target' \in Ready(queue')
          PROVE  target' \in Children /\ queue'[target'] # <<>>
      <4>1. target' \in Tasks /\ queue'[target'] # <<>>
        BY <3>2 DEF Ready
      <4>2. target' # NTasks - 1
        BY <2>4, <4>1
      <4> QED
        BY <4>1, <4>2, ChildlessTask
    <3> QED
      BY <3>1, <3>2
  <2>6. \A c \in Children : Parked(c)'
    BY <1>1, <2>1, <2>2 DEF Parked
  <2> QED
    BY <2>1, <2>2, <2>4, <2>5, <2>6 DEF PatientInv, Parked
<1>4. CASE ParentResume
  <2>1. /\ pc[Main] = "resume" /\ pc'[Main] = "prompt"
        /\ UNCHANGED <<sem, queue, stack, running, req>>
    BY <1>4, Numbers DEF ParentResume, Goto, TypeInv, TypeOK
  <2>2. \A c \in Children : pc[c] = "lock1" /\ run[c] = "stopped"
    BY <2>1 DEF PatientInv, Parked
  <2>3. \A c \in Children : \/ UNCHANGED <<run[c]>>
                            \/ run'[c] = "running" /\ queue[c] # <<>>
    <3>1. CASE target = NoTask
      BY <1>4, <3>1 DEF ParentResume
    <3>2. CASE target # NoTask
      <4>1. target \in Children /\ queue[target] # <<>>
        BY <2>1, <3>2 DEF PatientInv
      <4>2. pid[target] = target
        BY <2>2, <4>1 DEF Registered
      <4>3. SigCont(target)
        BY <1>4, <3>2, <4>2 DEF ParentResume
      <4>4. Signalled(target) = {target}
        BY <4>1, Numbers DEF Signalled
      <4> QED
        BY <4>1, <4>3, <4>4 DEF SigCont
    <3> QED
      BY <3>1, <3>2
  <2> QED
    BY <1>1, <2>1, <2>2, <2>3 DEF PatientInv, Parked
<1>5. CASE ParentLock \/ ParentUnlock \/ ParentSuspend
  <2>1. /\ pc[Main] # "prompt" /\ pc'[Main] # "prompt"
        /\ UNCHANGED <<current, queue, target, running, req>>
    BY <1>5, Numbers DEF ParentLock, ParentUnlock, ParentSuspend, Goto, TypeInv, TypeOK
  <2>2. UNCHANGED <<run, stack>>
    BY <1>5 DEF ParentLock, ParentUnlock, ParentSuspend, PatientInv
  <2>3. pc'[Main] \in {"unlock", "suspend", "resume"} => pc[Main] \in {"unlock", "suspend"}
    BY <1>5, Numbers DEF ParentLock, ParentUnlock, ParentSuspend, Goto, TypeInv, TypeOK
  <2>4. \A c \in Children : Parked(c)'
    BY <1>1, <2>1, <2>2 DEF PatientInv, Parked
  <2>5. \A c \in Children : sem' # c
    BY <1>1, <1>5, <2>1 DEF PatientInv, Parked, ParentSuspend
  <2> QED
    BY <2>1, <2>2, <2>3, <2>4, <2>5 DEF PatientInv, Parked
<1> QED
  BY <1>2, <1>3, <1>4, <1>5 DEF ParentStep

\* A child finds the callback it was woken for, so it posts before it suspends itself.
LEMMA ChildKeepsPatient ==
  ASSUME TypeInv, CriticalSectionsExclude, PatientInv,
         NEW c \in Children, ChildStep(c) \/ DeliverStop(c)
  PROVE  PatientInv'
<1> USE DEF shared, locals, hist
<1>1. c \in Procs /\ c \in Tasks /\ Main \in Procs /\ c # NTasks - 1 /\ c # Main
  BY Numbers, ExecutorAssumption DEF Children
<1>2. run[c] = "running" /\ pc[Main] = "prompt" /\ ~DeliverStop(c)
  BY DEF PatientInv, Parked, ChildStep, At, DeliverStop, ChildRegister, ChildSelfStop, ChildLock,
         ChildTake, ChildTakeFails, ChildUnlock, ChildCallback, ChildRelock, ChildFinish,
         ChildReunlock
<1>3. /\ UNCHANGED <<stack, running, req>> /\ pc'[Main] = "prompt"
      /\ \A d \in Children \ {c} : pc'[d] = pc[d] /\ run'[d] = run[d] /\ queue'[d] = queue[d]
      /\ queue'[NTasks - 1] = queue[NTasks - 1]
  <2>1. UNCHANGED <<stack, running, req>>
    BY <1>2 DEF ChildStep, ChildRegister, ChildSelfStop, ChildLock, ChildTake, ChildTakeFails,
                ChildUnlock, ChildCallback, ChildRelock, ChildFinish, ChildReunlock
  <2>2. \A p \in Procs \ {c} : pc'[p] = pc[p]
    BY <1>2 DEF ChildStep, ChildRegister, ChildSelfStop, ChildLock, ChildTake, ChildTakeFails,
                ChildUnlock, ChildCallback, ChildRelock, ChildFinish, ChildReunlock, Goto,
                TypeInv, TypeOK
  <2>3. \A d \in Children \ {c} : run'[d] = run[d]
    BY <1>2 DEF ChildStep, ChildRegister, ChildSelfStop, ChildLock, ChildTake, ChildTakeFails,
                ChildUnlock, ChildCallback, ChildRelock, ChildFinish, ChildReunlock,
                TypeInv, TypeOK
  <2>4. \A t \in Tasks \ {c} : queue'[t] = queue[t]
    BY <1>2 DEF ChildStep, ChildRegister, ChildSelfStop, ChildLock, ChildTake, ChildTakeFails,
                ChildUnlock, ChildCallback, ChildRelock, ChildFinish, ChildReunlock,
                TypeInv, TypeOK
  <2>5. NTasks - 1 \in Tasks /\ Children \subseteq Tasks /\ Children \subseteq Procs
    BY Numbers, ExecutorAssumption DEF Tasks
  <2> QED
    BY <1>1, <1>2, <2>1, <2>2, <2>3, <2>4, <2>5
<1>4. \A d \in Children \ {c} : sem' # sem => sem' # d
  BY <1>2, Numbers
  DEF ChildStep, ChildRegister, ChildSelfStop, ChildLock, ChildTake, ChildTakeFails, ChildUnlock,
      ChildCallback, ChildRelock, ChildFinish, ChildReunlock, Wait, Post
<1>5. ASSUME NEW d \in Children, d # c
      PROVE  /\ run'[d] = "running" \/ Parked(d)'
             /\ pc'[d] \in {"start", "self_stop", "lock1"} => sem' # d
             /\ pc'[d] = "take" \/ (pc'[d] = "lock1" /\ run'[d] = "running") => queue'[d] # <<>>
  BY <1>3, <1>4, <1>5 DEF PatientInv, Parked
<1>6. /\ run'[c] = "running" \/ Parked(c)'
      /\ pc'[c] \in {"start", "self_stop", "lock1"} => sem' # c
      /\ pc'[c] = "take" \/ (pc'[c] = "lock1" /\ run'[c] = "running") => queue'[c] # <<>>
  <2>1. /\ pc[c] \in {"start", "self_stop", "lock1"} => sem # c
        /\ pc[c] \in {"take", "lock1"} => queue[c] # <<>>
        /\ pc \in [Procs -> ParentLabels \union ChildLabels]
        /\ run \in [Children -> {"running", "stopping", "stopped"}]
        /\ c # Nobody
    BY <1>2, Numbers DEF PatientInv, TypeInv, TypeOK
  <2>2. CASE ChildRegister(c)
    BY <1>1, <1>2, <2>1, <2>2 DEF ChildRegister, Goto, At
  <2>3. CASE ChildSelfStop(c)
    BY <1>1, <1>2, <2>1, <2>3 DEF ChildSelfStop, Goto, At, Parked
  <2>4. CASE ChildLock(c)
    BY <1>1, <1>2, <2>1, <2>4 DEF ChildLock, Goto, At
  <2>5. CASE ChildTake(c)
    BY <1>1, <1>2, <2>1, <2>5 DEF ChildTake, Goto, At
  <2>6. CASE ChildTakeFails(c)
    BY <2>1, <2>6 DEF ChildTakeFails, At
  <2>7. CASE ChildUnlock(c)
    BY <1>1, <1>2, <2>1, <2>7 DEF ChildUnlock, Goto, At
  <2>8. CASE ChildCallback(c) \/ ChildRelock(c) \/ ChildFinish(c)
    BY <1>1, <1>2, <2>1, <2>8 DEF ChildCallback, ChildRelock, ChildFinish, Goto, At
  <2>9. CASE ChildReunlock(c)
    BY <1>1, <1>2, <2>1, <2>9 DEF ChildReunlock, Goto, At, Post
  <2> QED
    BY <1>2, <2>2, <2>3, <2>4, <2>5, <2>6, <2>7, <2>8, <2>9 DEF ChildStep
<1> QED
  BY <1>3, <1>5, <1>6 DEF PatientInv

\* A user who has lost patience does not get it back.
LEMMA PatienceOnlyLost == TypeInv /\ [Next]_vars => (patient' => patient)
BY DEF Next, ParentPrompt, ParentAnswered, ParentStep, ParentLock, ParentSchedule, ParentUnlock,
       ParentSuspend, ParentResume, ChildStep, ChildRegister, ChildSelfStop, ChildLock, ChildTake,
       ChildTakeFails, ChildUnlock, ChildCallback, ChildRelock, ChildFinish, ChildReunlock,
       DeliverStop, vars, hist

\* Every step keeps it.
LEMMA PatientPreserved ==
  ASSUME TypeInv, CriticalSectionsExclude, CurrentIsBusy, Registered, patient => PatientInv,
         [Next]_vars, patient'
  PROVE  PatientInv'
<1>1. PatientInv
  BY PatienceOnlyLost
<1>2. CASE UNCHANGED vars
  BY <1>1, <1>2 DEF vars, shared, locals, PatientInv, Parked
<1> QED
  BY <1>1, <1>2, ParentKeepsPatient, ChildKeepsPatient DEF Next

\* The same for behaviours.
LEMMA SpecPatient == Spec => [](patient => PatientInv)
<1>1. Init => Registered /\ (patient => PatientInv)
  BY InitPatient, Numbers DEF Init, Registered
<1>2. TypeInv /\ Registered /\ [Next]_vars => Registered'
  BY RegisteredPreserved DEF TypeInv
<1>3. /\ TypeInv /\ CriticalSectionsExclude /\ CurrentIsBusy /\ Registered
      /\ (patient => PatientInv) /\ [Next]_vars
      => (patient => PatientInv)'
  BY PatientPreserved
<1> QED
  BY SpecExclusion, RunningTaskIsBusy, <1>1, <1>2, <1>3, PTL DEF Spec

\* As long as the user waits until every child is parked, and does not type the number of
\* the task without a child, the parent preempts nobody (lines 290-294): for every number
\* of tasks, queue depth and heap.
THEOREM PatientUserPreemptsNobody == Spec => []NothingPreempted
<1>1. (patient => PatientInv) => NothingPreempted
  BY DEF PatientInv, NothingPreempted
<1> QED
  BY SpecPatient, <1>1, PTL

\* As long as the user does, no child keeps the semaphore while it is suspended: the
\* dequeue whose failure leaves it locked (lines 134-143) cannot fail.
THEOREM PatientUserNeverStuck == Spec => []NeverStuck
<1>1. (patient => PatientInv) => NeverStuck
  BY DEF PatientInv, Parked, NeverStuck, HolderStuck
<1> QED
  BY SpecPatient, <1>1, PTL

-----------------------------------------------------------------------------
(* The callbacks' memory, and the promise.  The ledger says which callback a child runs and *)
(* the order of a task's callbacks.  What is added here is that a request is accepted once, *)
(* by one task: so freeing its blocks takes nothing from another callback, a callback that  *)
(* begins has not run, one that completes was active, and one that is accepted was not      *)
(* known.                                                                                   *)


\* The number of a request that has yet to be enqueued belongs to no callback.
FreshNumber == pc[Main] \in {"lock", "schedule"}

AcceptedOnce ==
  /\ \A t \in Tasks : \A k \in 1 .. Len(accepted[t]) :
       accepted[t][k] <= nreq /\ (FreshNumber => accepted[t][k] # nreq)
  /\ \A t, u \in Tasks : \A k \in 1 .. Len(accepted[t]), j \in 1 .. Len(accepted[u]) :
       accepted[t][k] = accepted[u][j] => t = u /\ k = j

-----------------------------------------------------------------------------
\* Requests are numbered at the prompt and accepted at the scheduling.
LEMMA NumbersIssued ==
  ASSUME TypeOK, [Next]_vars
  PROVE  \/ ParentSchedule
         \/ nreq' = nreq + 1 /\ UNCHANGED accepted
         \/ UNCHANGED <<nreq, accepted>> /\ (FreshNumber' => FreshNumber)
<1> USE DEF shared, locals, hist, FreshNumber
<1> Main \in Procs
  BY Numbers
<1>1. CASE ParentPrompt
  BY <1>1 DEF ParentPrompt, ParentAnswered
<1>2. CASE ParentLock \/ ParentUnlock \/ ParentSuspend \/ ParentResume
  BY <1>2 DEF ParentLock, ParentUnlock, ParentSuspend, ParentResume, Goto, TypeOK
<1>3. ASSUME NEW c \in Children, ChildStep(c) \/ DeliverStop(c)
      PROVE  UNCHANGED <<nreq, accepted>> /\ pc'[Main] = pc[Main]
  BY <1>3, Numbers
  DEF ChildStep, ChildRegister, ChildSelfStop, ChildLock, ChildTake, ChildTakeFails,
      ChildUnlock, ChildCallback, ChildRelock, ChildFinish, ChildReunlock, DeliverStop,
      Goto, TypeOK
<1>4. CASE UNCHANGED vars
  BY <1>4 DEF vars
<1> QED
  BY <1>1, <1>2, <1>3, <1>4 DEF Next, ParentStep

\* Every step keeps the numbers of the accepted requests distinct.
LEMMA AcceptedOncePreserved ==
  ASSUME TypeInv, AcceptedOnce, [Next]_vars
  PROVE  AcceptedOnce'
<1>0. TypeOK /\ nreq \in Nat
  <2>1. TypeOK
    BY DEF TypeInv
  <2>2. nreq \in 0 .. MaxRequests /\ MaxRequests \in Nat
    BY <2>1, ExecutorAssumption DEF TypeOK
  <2> QED
    BY <2>1, <2>2
<1>1. CASE ParentSchedule
  <2>1. UNCHANGED nreq /\ FreshNumber /\ ~FreshNumber'
    BY <1>0, <1>1, Numbers DEF ParentSchedule, FreshNumber, Goto, TypeOK
  <2>2. CASE Refuses
    BY <2>1, <2>2 DEF Refuses, AcceptedOnce
  <2>3. ASSUME NEW t \in Tasks, Accepts(t)
        PROVE  AcceptedOnce'
    <3>1. Accepted(t)
      BY <1>1, <2>3, AcceptEffect
    <3>2. ASSUME NEW u \in Tasks, NEW k \in 1 .. Len(accepted'[u])
          PROVE  \/ k \in 1 .. Len(accepted[u]) /\ accepted'[u][k] = accepted[u][k]
                 \/ u = t /\ k = Len(accepted[t]) + 1 /\ accepted'[u][k] = nreq
      BY <3>1 DEF Accepted
    <3>3. \A u \in Tasks : \A k \in 1 .. Len(accepted'[u]) : accepted'[u][k] <= nreq
      BY <1>0, <3>2 DEF AcceptedOnce
    <3>4. ASSUME NEW u \in Tasks, NEW v \in Tasks,
                 NEW k \in 1 .. Len(accepted'[u]), NEW j \in 1 .. Len(accepted'[v]),
                 accepted'[u][k] = accepted'[v][j]
          PROVE  u = v /\ k = j
      BY <2>1, <3>2, <3>4 DEF AcceptedOnce
    <3> QED
      BY <2>1, <3>3, <3>4 DEF AcceptedOnce
  <2> QED
    BY <1>0, <1>1, <2>2, <2>3, ScheduleEffect
<1>2. CASE nreq' = nreq + 1 /\ UNCHANGED accepted
  <2>1. ASSUME NEW t \in Tasks, NEW k \in 1 .. Len(accepted[t])
        PROVE  accepted[t][k] <= nreq' /\ accepted[t][k] # nreq'
    <3>1. accepted[t][k] \in Nat /\ accepted[t][k] <= nreq
      BY <1>0, Lengths DEF AcceptedOnce, Requests
    <3> QED
      BY <1>0, <1>2, <3>1
  <2> QED
    BY <1>2, <2>1 DEF AcceptedOnce
<1>3. CASE UNCHANGED <<nreq, accepted>> /\ (FreshNumber' => FreshNumber)
  BY <1>3 DEF AcceptedOnce
<1> QED
  BY <1>0, <1>1, <1>2, <1>3, NumbersIssued

\* Only the release of a callback takes it from its child.
LEMMA JobsKept ==
  ASSUME TypeOK, [Next]_vars, \A c \in Children : ~ChildFinish(c),
         NEW c \in Children, HasJob(c)
  PROVE  HasJob(c)'
<1> USE DEF HasJob
<1>1. CASE ParentPrompt \/ ParentStep
  BY <1>1, Numbers
  DEF ParentPrompt, ParentAnswered, ParentStep, ParentLock, ParentSchedule, ParentUnlock, ParentSuspend,
      ParentResume, Goto, TypeOK
<1>2. ASSUME NEW d \in Children, ChildStep(d) \/ DeliverStop(d)
      PROVE  HasJob(c)'
  BY <1>2, Numbers
  DEF ChildStep, ChildRegister, ChildSelfStop, ChildLock, ChildTake, ChildTakeFails,
      ChildUnlock, ChildCallback, ChildRelock, ChildReunlock, DeliverStop, At, Goto, TypeOK
<1>3. CASE UNCHANGED vars
  BY <1>3 DEF vars
<1> QED
  BY <1>1, <1>2, <1>3 DEF Next

-----------------------------------------------------------------------------
\* The callback t accepted as its k-th waits or runs, ...
InUse(t, k) == k > taken[t] \/ (t \in Children /\ k = taken[t] /\ HasJob(t))

BlocksOf(id) == {id} \X Parts

\* ... and then, and only then, its blocks are allocated.
BlocksRight(t, k) ==
  /\ InUse(t, k) => BlocksOf(accepted[t][k]) \subseteq heap
  /\ ~InUse(t, k) => BlocksOf(accepted[t][k]) \intersect heap = {}

\* BlocksFollowCallbacks by its parts.
LEMMA BlocksByCallback ==
  BlocksFollowCallbacks <=> \A t \in Tasks : \A k \in 1 .. Len(accepted[t]) : BlocksRight(t, k)
BY DEF BlocksFollowCallbacks, BlocksRight, InUse, BlocksOf

\* Blocks of two requests are two blocks.
LEMMA BlocksDistinct ==
  ASSUME NEW a, NEW b, a # b
  PROVE  BlocksOf(a) \intersect BlocksOf(b) = {}
BY DEF BlocksOf

\* Every step keeps the blocks with their callbacks.
LEMMA BlocksPreserved ==
  ASSUME TypeInv, NothingLostOrRepeated, AcceptedOnce, BlocksFollowCallbacks, [Next]_vars
  PROVE  BlocksFollowCallbacks'
<1>0. TypeOK
  BY DEF TypeInv
<1>1. \A t \in Tasks : \A k \in 1 .. Len(accepted[t]) : BlocksRight(t, k)
  BY BlocksByCallback
<1>2. SUFFICES ASSUME NEW t \in Tasks, NEW k \in 1 .. Len(accepted'[t])
               PROVE  BlocksRight(t, k)'
  BY DEF BlocksFollowCallbacks, BlocksRight, InUse, BlocksOf
<1>3. CASE Bystander /\ \A c \in Children : ~ChildFinish(c)
  <2>1. \A c \in Children : HasJob(c)' <=> HasJob(c)
    BY <1>0, <1>3, JobsKept DEF Bystander
  <2>2. BlocksRight(t, k)
    BY <1>1, <1>3 DEF Bystander
  <2> QED
    BY <1>3, <2>1, <2>2 DEF Bystander, BlocksRight, InUse
<1>4. CASE ParentSchedule
  <2>1. /\ UNCHANGED taken
        /\ \A c \in Children : HasJob(c)' = HasJob(c)
    BY <1>0, <1>4, ScheduleKeepsJobs
  <2>2. FreshNumber
    BY <1>4 DEF ParentSchedule, FreshNumber
  <2>3. heap \subseteq heap' /\ heap' \subseteq heap \union BlocksOf(nreq)
    BY <1>0, <1>4, ScheduleEffect DEF Refuses, Accepts, BlocksOf
  <2>4. CASE k \in 1 .. Len(accepted[t]) /\ accepted'[t][k] = accepted[t][k]
    <3>1. BlocksRight(t, k) /\ (InUse(t, k)' <=> InUse(t, k))
      BY <1>1, <2>1, <2>4 DEF InUse
    <3>2. BlocksOf(accepted[t][k]) \intersect BlocksOf(nreq) = {}
      BY <2>2, <2>4, BlocksDistinct DEF AcceptedOnce
    <3> QED
      BY <2>3, <2>4, <3>1, <3>2 DEF BlocksRight
  <2>5. CASE Accepts(t) /\ k = Len(accepted[t]) + 1 /\ accepted'[t][k] = nreq
    <3>1. BlocksOf(nreq) \subseteq heap'
      BY <2>5 DEF Accepts, BlocksOf
    <3>2. Len(accepted[t]) >= taken[t] /\ taken[t] \in Nat /\ Len(accepted[t]) \in Nat
      BY <1>0, Lengths DEF NothingLostOrRepeated
    <3>3. InUse(t, k)'
      BY <2>1, <2>5, <3>2 DEF InUse
    <3> QED
      BY <2>5, <3>1, <3>3 DEF BlocksRight
  <2>6. CASE Refuses
    BY <2>4, <2>6 DEF Refuses
  <2>7. ASSUME NEW u \in Tasks, Accepts(u)
        PROVE  BlocksRight(t, k)'
    <3>1. Accepted(u)
      BY <1>4, <2>7, AcceptEffect
    <3>2. CASE t = u
      BY <2>4, <2>5, <2>7, <3>1, <3>2 DEF Accepted
    <3>3. CASE t # u
      BY <2>4, <3>1, <3>3 DEF Accepted
    <3> QED
      BY <3>2, <3>3
  <2> QED
    BY <1>0, <1>4, <2>6, <2>7, ScheduleEffect
<1>5. ASSUME NEW c \in Children, ChildTake(c)
      PROVE  BlocksRight(t, k)'
  <2>1. Taken(c)
    BY <1>0, <1>5, TakeEffect
  <2>2. k \in 1 .. Len(accepted[t]) /\ BlocksRight(t, k) /\ taken[t] \in Nat
    BY <1>0, <1>1, <2>1, Lengths DEF Taken
  <2>3. InUse(t, k)' <=> InUse(t, k)
    <3>1. CASE t = c
      BY <2>1, <2>2, <3>1, Numbers DEF Taken, InUse
    <3>2. CASE t # c
      BY <2>1, <2>2, <3>2, Numbers DEF Taken, InUse
    <3> QED
      BY <3>1, <3>2
  <2> QED
    BY <2>1, <2>2, <2>3 DEF Taken, BlocksRight
<1>6. ASSUME NEW c \in Children, ChildFinish(c)
      PROVE  BlocksRight(t, k)'
  <2>1. /\ UNCHANGED <<accepted, taken>>
        /\ heap' = heap \ BlocksOf(job[c])
        /\ HasJob(c) /\ ~HasJob(c)'
        /\ \A d \in Children \ {c} : HasJob(d)' = HasJob(d)
    BY <1>0, <1>6, FinishEffect DEF BlocksOf
  <2>2. c \in Tasks /\ taken[c] \in 1 .. Len(accepted[c]) /\ job[c] = accepted[c][taken[c]]
    <3>1. c \in Tasks
      BY Numbers
    <3>2. /\ Len(queue[c]) \in Nat /\ taken[c] \in Nat /\ taken[c] > 0
          /\ Len(accepted[c]) = taken[c] + Len(queue[c])
          /\ job[c] = accepted[c][taken[c]]
      BY <1>0, <2>1, <3>1, Lengths DEF NothingLostOrRepeated
    <3> QED
      BY <3>1, <3>2
  <2>3. k \in 1 .. Len(accepted[t]) /\ BlocksRight(t, k)
    BY <1>1, <2>1
  <2>4. CASE t = c /\ k = taken[c]
    <3>1. ~InUse(t, k)' /\ accepted'[t][k] = job[c]
      BY <2>1, <2>2, <2>4 DEF InUse
    <3> QED
      BY <2>1, <3>1 DEF BlocksRight
  <2>5. CASE ~(t = c /\ k = taken[c])
    <3>1. InUse(t, k)' <=> InUse(t, k)
      BY <2>1, <2>5 DEF InUse
    <3>2. accepted[t][k] # job[c]
      BY <2>2, <2>3, <2>5 DEF AcceptedOnce
    <3>3. BlocksOf(accepted[t][k]) \intersect BlocksOf(job[c]) = {}
      BY <3>2, BlocksDistinct
    <3> QED
      BY <2>1, <2>3, <3>1, <3>3 DEF BlocksRight
  <2> QED
    BY <2>4, <2>5
<1> QED
  BY <1>0, <1>3, <1>4, <1>5, <1>6, StepKinds

\* For every number of tasks, heap and input: the three blocks of a callback stay
\* allocated until its task has finished with it (line 158) and are free afterwards,
\* however often the task is preempted in between.
THEOREM BlocksStayWithCallbacks == Spec => []BlocksFollowCallbacks
<1>1. Init => AcceptedOnce /\ BlocksFollowCallbacks
  BY DEF Init, AcceptedOnce, BlocksFollowCallbacks
<1>2. TypeInv /\ AcceptedOnce /\ [Next]_vars => AcceptedOnce'
  BY AcceptedOncePreserved
<1>3. /\ TypeInv /\ NothingLostOrRepeated /\ AcceptedOnce /\ BlocksFollowCallbacks
      /\ [Next]_vars
      => BlocksFollowCallbacks'
  BY BlocksPreserved
<1> QED
  BY <1>1, <1>2, <1>3, SpecLedger, PTL DEF Spec

-----------------------------------------------------------------------------
(* The refinement of Dispatch. *)

\* The identities of the callbacks in a queue.
Ids(q) == [k \in 1 .. Len(q) |-> q[k].id]

Callbacks == [id : Requests, prio : Prios]

\* They are as many, and in the same order.
LEMMA IdsOfQueue ==
  ASSUME NEW q \in Seq(Callbacks)
  PROVE  /\ Ids(q) \in Seq(Requests)
         /\ Len(Ids(q)) = Len(q)
         /\ \A k \in 1 .. Len(q) : Ids(q)[k] = q[k].id
<1>1. Len(q) \in Nat
  BY LenProperties
<1>2. \A k \in 1 .. Len(q) : q[k].id \in Requests
  <2>1. \A k \in 1 .. Len(q) : q[k] \in Callbacks
    BY ElementOfSeq
  <2> QED
    BY <2>1 DEF Callbacks
<1>3. Ids(q) \in [1 .. Len(q) -> Requests]
  BY <1>2 DEF Ids
<1>4. Ids(q) \in Seq(Requests)
  BY <1>1, <1>3, SeqDef
<1>5. Len(Ids(q)) \in Nat /\ DOMAIN Ids(q) = 1 .. Len(Ids(q)) /\ DOMAIN Ids(q) = 1 .. Len(q)
  BY <1>4, LenProperties DEF Ids
<1>6. Len(Ids(q)) = Len(q)
  BY <1>1, <1>5
<1> QED
  BY <1>4, <1>6 DEF Ids

\* A callback appended to a queue is appended to its identities.
LEMMA IdsAppend ==
  ASSUME NEW q \in Seq(Callbacks), NEW cb \in Callbacks
  PROVE  Ids(Append(q, cb)) = Append(Ids(q), cb.id)
<1> DEFINE longer == Append(q, cb)
           ids == Append(Ids(q), cb.id)
<1>1. /\ longer \in Seq(Callbacks) /\ Len(longer) = Len(q) + 1 /\ Len(q) \in Nat
      /\ \A k \in 1 .. Len(q) : longer[k] = q[k]
      /\ longer[Len(q) + 1] = cb
  BY AppendProperties, LenProperties
<1>2. cb.id \in Requests
  BY DEF Callbacks
<1>3. /\ ids \in Seq(Requests) /\ Len(ids) = Len(q) + 1
      /\ \A k \in 1 .. Len(q) : ids[k] = q[k].id
      /\ ids[Len(q) + 1] = cb.id
  BY <1>2, IdsOfQueue, AppendProperties
<1> HIDE DEF longer, ids
<1>4. /\ Ids(longer) \in Seq(Requests) /\ Len(Ids(longer)) = Len(q) + 1
      /\ \A k \in 1 .. Len(q) + 1 : Ids(longer)[k] = longer[k].id
  BY <1>1, IdsOfQueue
<1>5. \A k \in 1 .. Len(q) + 1 : Ids(longer)[k] = ids[k]
  BY <1>1, <1>3, <1>4
<1>6. Ids(longer) = ids
  BY <1>3, <1>4, <1>5, SeqEqual
<1> QED
  BY <1>6 DEF longer, ids

\* The head and the tail of a queue.
LEMMA IdsHeadTail ==
  ASSUME NEW q \in Seq(Callbacks), q # <<>>
  PROVE  /\ Ids(q) # <<>>
         /\ Head(Ids(q)) = Head(q).id
         /\ Ids(Tail(q)) = Tail(Ids(q))
<1>1. Len(q) \in Nat \ {0} /\ q[1] = Head(q)
  BY FirstElement
<1>2. /\ Ids(q) \in Seq(Requests) /\ Len(Ids(q)) = Len(q)
      /\ \A k \in 1 .. Len(q) : Ids(q)[k] = q[k].id
  BY IdsOfQueue
<1>3. Ids(q) # <<>>
  BY <1>1, <1>2, EmptySeq
<1>4. Head(Ids(q)) = Ids(q)[1]
  BY <1>2, <1>3, FirstElement
<1>5. /\ Tail(q) \in Seq(Callbacks) /\ Len(Tail(q)) = Len(q) - 1
      /\ \A k \in 1 .. Len(q) - 1 : Tail(q)[k] = q[k + 1]
  BY HeadTailProperties
<1>6. /\ Tail(Ids(q)) \in Seq(Requests) /\ Len(Tail(Ids(q))) = Len(q) - 1
      /\ \A k \in 1 .. Len(q) - 1 : Tail(Ids(q))[k] = Ids(q)[k + 1]
  BY <1>2, <1>3, HeadTailProperties
<1>7. /\ Ids(Tail(q)) \in Seq(Requests) /\ Len(Ids(Tail(q))) = Len(q) - 1
      /\ \A k \in 1 .. Len(q) - 1 : Ids(Tail(q))[k] = Tail(q)[k].id
  BY <1>5, IdsOfQueue
<1>8. \A k \in 1 .. Len(q) - 1 : Ids(Tail(q))[k] = Tail(Ids(q))[k]
  BY <1>1, <1>2, <1>5, <1>6, <1>7
<1>9. Ids(Tail(q)) = Tail(Ids(q))
  BY <1>6, <1>7, <1>8, SeqEqual
<1> QED
  BY <1>1, <1>2, <1>3, <1>4, <1>9

-----------------------------------------------------------------------------
\* What the refinement needs to know of a state.
Booked == TypeInv /\ NothingLostOrRepeated /\ AcceptedOnce

\* The requests a task has dequeued.
Begun == UNION {{accepted[t][k] : k \in 1 .. taken[t]} : t \in Tasks}

\* The callbacks that wait are the identities in the queues; those done are the ones
\* begun and not active.
LEMMA Mapping ==
  /\ Waiting = [t \in Tasks |-> Ids(queue[t])]
  /\ Done = Begun \ {Active[t] : t \in Tasks}
BY DEF Waiting, Ids, Done, Begun

\* What is taken was accepted; what is accepted is a request and never 0.
LEMMA Books ==
  ASSUME Booked, NEW t \in Tasks
  PROVE  /\ queue[t] \in Seq(Callbacks)
         /\ Len(queue[t]) \in Nat /\ taken[t] \in Nat
         /\ Len(accepted[t]) = taken[t] + Len(queue[t])
         /\ \A k \in 1 .. Len(accepted[t]) : accepted[t][k] \in Requests
         /\ \A k \in 1 .. Len(queue[t]) : queue[t][k].id = accepted[t][taken[t] + k]
<1>1. TypeOK
  BY DEF Booked, TypeInv
<1> QED
  BY <1>1, Lengths DEF Booked, NothingLostOrRepeated, TypeOK, Callbacks

\* The active callback of a child is the last it has dequeued.
LEMMA ActiveIsLastTaken ==
  ASSUME Booked, NEW t \in Tasks
  PROVE  \/ Active[t] = 0 /\ (t \in Children => ~HasJob(t))
         \/ /\ t \in Children /\ HasJob(t) /\ Active[t] = job[t]
            /\ taken[t] \in 1 .. Len(accepted[t])
            /\ job[t] = accepted[t][taken[t]] /\ job[t] \in Requests
<1>1. CASE t \in Children /\ HasJob(t)
  <2>1. Active[t] = job[t]
    BY <1>1 DEF Active
  <2>2. taken[t] > 0 /\ job[t] = accepted[t][taken[t]]
    BY <1>1 DEF Booked, NothingLostOrRepeated
  <2> QED
    BY <1>1, <2>1, <2>2, Books
<1>2. CASE ~(t \in Children /\ HasJob(t))
  BY <1>2 DEF Active
<1> QED
  BY <1>1, <1>2

\* No request is 0.
LEMMA RequestsPositive == 0 \notin Requests
BY ExecutorAssumption DEF Requests

\* A step that leaves the ledger and the callbacks with their children is no step.
LEMMA QuietStep ==
  ASSUME UNCHANGED <<queue, accepted, taken, job>>,
         \A c \in Children : HasJob(c)' <=> HasJob(c)
  PROVE  UNCHANGED <<Waiting, Active, Done>>
<1>1. UNCHANGED Waiting
  BY DEF Waiting
<1>2. UNCHANGED Active
  BY DEF Active
<1> QED
  BY <1>1, <1>2 DEF Done

\* An accepted enqueue is an Accept, with a request that was not known.
LEMMA AcceptRefines ==
  ASSUME Booked, ParentSchedule, NEW t \in Tasks, Accepts(t)
  PROVE  Promise!Accept(t, nreq)
<1> DEFINE cb == [id |-> nreq, prio |-> req.prio]
<1>1. TypeInv /\ TypeOK /\ FreshNumber
  BY DEF Booked, TypeInv, ParentSchedule, FreshNumber
<1>2. nreq \in Requests /\ cb \in Callbacks /\ cb.id = nreq
  <2>1. nreq \in Requests /\ req.prio \in Prios
    BY <1>1, ExecutorAssumption DEF TypeInv, TypeOK, ParentSchedule, Requests
  <2> QED
    BY <2>1 DEF Callbacks
<1>3. UNCHANGED <<taken, job>> /\ \A c \in Children : HasJob(c)' = HasJob(c)
  BY <1>1, ScheduleKeepsJobs
<1>4. /\ queue' = [queue EXCEPT ![t] = Append(@, cb)] /\ Len(queue[t]) < QueueDepth
      /\ queue \in [Tasks -> Seq(Callbacks)]
  BY <1>1 DEF Accepts, TypeOK, Callbacks
<1> HIDE DEF cb
<1>5. Waiting' = [Waiting EXCEPT ![t] = Append(@, nreq)]
  <2>1. Ids(queue'[t]) = Append(Ids(queue[t]), nreq)
    BY <1>2, <1>4, IdsAppend
  <2>2. \A u \in Tasks \ {t} : queue'[u] = queue[u]
    BY <1>4
  <2>3. Waiting' = [u \in Tasks |-> Ids(queue'[u])]
    BY DEF Waiting, Ids
  <2> QED
    BY <2>1, <2>2, <2>3, Mapping
<1>6. Active' = Active
  BY <1>3 DEF Active
<1>7. Begun' = Begun
  <2>1. Accepted(t)
    BY <1>1, AcceptEffect
  <2>2. \A u \in Tasks : \A k \in 1 .. taken[u] : k \in 1 .. Len(accepted[u])
    BY <1>1, Books
  <2>3. \A u \in Tasks : \A k \in 1 .. Len(accepted[u]) : accepted'[u][k] = accepted[u][k]
    BY <2>1 DEF Accepted
  <2>4. \A u \in Tasks : \A k \in 1 .. taken[u] : accepted'[u][k] = accepted[u][k]
    BY <2>2, <2>3
  <2> QED
    BY <1>3, <2>4 DEF Begun
<1>8. Done' = Done
  <2>1. Done' = Begun' \ {Active'[u] : u \in Tasks}
    BY DEF Done, Begun
  <2> QED
    BY <1>6, <1>7, <2>1, Mapping
<1>9. nreq \notin Promise!Known
  <2>1. \A u \in Tasks : \A k \in 1 .. Len(accepted[u]) : accepted[u][k] # nreq
    BY <1>1 DEF Booked, AcceptedOnce
  <2>2. nreq \notin Done
    <3>1. \A u \in Tasks : \A k \in 1 .. taken[u] : k \in 1 .. Len(accepted[u])
      BY Books
    <3> QED
      BY <2>1, <3>1 DEF Done
  <2>3. \A u \in Tasks : Active[u] # nreq
    BY <1>2, <2>1, ActiveIsLastTaken, RequestsPositive
  <2>4. ASSUME NEW u \in Tasks, NEW k \in 1 .. Len(Waiting[u])
        PROVE  Waiting[u][k] # nreq
    <3>1. Waiting[u] = Ids(queue[u]) /\ queue[u] \in Seq(Callbacks)
      BY Books, Mapping
    <3>2. k \in 1 .. Len(queue[u]) /\ Waiting[u][k] = queue[u][k].id
      BY <3>1, IdsOfQueue
    <3>3. /\ queue[u][k].id = accepted[u][taken[u] + k]
          /\ taken[u] + k \in 1 .. Len(accepted[u])
      BY <3>2, Books
    <3> QED
      BY <2>1, <3>2, <3>3
  <2> QED
    BY <2>2, <2>3, <2>4 DEF Promise!Known
<1>10. Len(Waiting[t]) < QueueDepth
  BY <1>4, IdsOfQueue, Mapping
<1> QED
  BY <1>5, <1>6, <1>8, <1>9, <1>10 DEF Promise!Accept

\* A dequeue is a Begin.
LEMMA TakeRefines ==
  ASSUME Booked, NEW c \in Children, ChildTake(c)
  PROVE  Promise!Begin(c)
<1> DEFINE r == accepted[c][taken[c] + 1]
<1>1. TypeOK /\ c \in Tasks
  BY Numbers DEF Booked, TypeInv
<1>2. /\ queue[c] \in Seq(Callbacks) /\ queue[c] # <<>>
      /\ queue' = [queue EXCEPT ![c] = Tail(@)]
      /\ queue \in [Tasks -> Seq(Callbacks)]
      /\ job' = [job EXCEPT ![c] = Head(queue[c]).id]
      /\ UNCHANGED accepted
  BY <1>1, Books DEF ChildTake, TypeOK, Callbacks
<1>3. Taken(c)
  BY <1>1, TakeEffect
<1>4. /\ Len(queue[c]) \in Nat \ {0} /\ Len(accepted[c]) = taken[c] + Len(queue[c])
      /\ taken[c] \in Nat /\ taken[c] + 1 \in 1 .. Len(accepted[c])
      /\ r \in Requests /\ queue[c][1].id = r /\ Head(queue[c]) = queue[c][1]
  BY <1>1, <1>2, <1>3, Books, FirstElement DEF Taken
<1>5. Active[c] = 0
  BY <1>1, <1>3 DEF Active, Taken
<1>6. Waiting[c] # <<>> /\ Head(Waiting[c]) = r
  BY <1>1, <1>2, <1>4, IdsHeadTail, Mapping
<1>7. Waiting' = [Waiting EXCEPT ![c] = Tail(@)]
  <2>1. Ids(queue'[c]) = Tail(Ids(queue[c]))
    BY <1>1, <1>2, IdsHeadTail
  <2>2. \A u \in Tasks \ {c} : queue'[u] = queue[u]
    BY <1>2
  <2>3. Waiting' = [u \in Tasks |-> Ids(queue'[u])]
    BY DEF Waiting, Ids
  <2> QED
    BY <2>1, <2>2, <2>3, Mapping
<1>8. Active' = [Active EXCEPT ![c] = r]
  <2>1. job'[c] = r /\ HasJob(c)'
    BY <1>3, <1>4 DEF Taken
  <2>2. \A d \in Children \ {c} : job'[d] = job[d] /\ HasJob(d)' = HasJob(d)
    BY <1>3 DEF Taken
  <2> QED
    BY <1>1, <2>1, <2>2 DEF Active
<1> HIDE DEF r
<1>9. Begun' = Begun \union {r}
  <2>1. /\ \A x : x \in Begun <=> \E t \in Tasks : \E k \in 1 .. taken[t] : x = accepted[t][k]
        /\ \A x : x \in Begun' <=> \E t \in Tasks : \E k \in 1 .. taken'[t] : x = accepted[t][k]
    BY <1>2 DEF Begun
  <2>2. taken'[c] = taken[c] + 1 /\ \A u \in Tasks \ {c} : taken'[u] = taken[u]
    BY <1>3 DEF Taken
  <2>3. ASSUME NEW t \in Tasks, NEW k \in 1 .. taken[t]
        PROVE  k \in 1 .. taken'[t]
    BY <1>4, <2>2
  <2>4. ASSUME NEW t \in Tasks, NEW k \in 1 .. taken'[t]
        PROVE  k \in 1 .. taken[t] \/ accepted[t][k] = r
    BY <1>4, <2>2 DEF r
  <2>5. taken[c] + 1 \in 1 .. taken'[c] /\ accepted[c][taken[c] + 1] = r
    BY <1>4, <2>2 DEF r
  <2> QED
    BY <1>1, <2>1, <2>3, <2>4, <2>5
<1>10. r \notin Begun /\ 0 \notin Begun
  <2>1. ASSUME NEW u \in Tasks, NEW k \in 1 .. taken[u]
        PROVE  accepted[u][k] # r /\ accepted[u][k] # 0
    <3>1. k \in 1 .. Len(accepted[u]) /\ accepted[u][k] \in Requests
      BY <2>1, Books
    <3>2. u # c \/ k # taken[c] + 1
      BY <1>4, <2>1
    <3> QED
      BY <1>1, <1>4, <3>1, <3>2, RequestsPositive DEF Booked, AcceptedOnce, r
  <2> QED
    BY <2>1 DEF Begun
<1>11. Done' = Done
  <2>1. {Active'[t] : t \in Tasks} = {Active[t] : t \in Tasks \ {c}} \union {r}
    BY <1>1, <1>8 DEF Active
  <2>2. {Active[t] : t \in Tasks} = {Active[t] : t \in Tasks \ {c}} \union {0}
    BY <1>1, <1>5
  <2>3. Done' = Begun' \ {Active'[t] : t \in Tasks}
    BY DEF Done, Begun
  <2> QED
    BY <1>9, <1>10, <2>1, <2>2, <2>3, Mapping
<1> QED
  BY <1>5, <1>6, <1>7, <1>8, <1>11 DEF Promise!Begin

\* A release is a Complete.
LEMMA FinishRefines ==
  ASSUME Booked, NEW c \in Children, ChildFinish(c)
  PROVE  Promise!Complete(c)
<1>1. TypeOK /\ c \in Tasks
  BY Numbers DEF Booked, TypeInv
<1>2. /\ UNCHANGED <<queue, accepted, taken, job>>
      /\ HasJob(c) /\ ~HasJob(c)'
      /\ \A d \in Children \ {c} : HasJob(d)' = HasJob(d)
  BY <1>1, FinishEffect
<1>3. /\ Active[c] = job[c] /\ job[c] \in Requests /\ job[c] = accepted[c][taken[c]]
      /\ taken[c] \in 1 .. Len(accepted[c]) /\ taken[c] \in Nat
  BY <1>1, <1>2, ActiveIsLastTaken, Books
<1>4. Active[c] # 0
  BY <1>3, RequestsPositive
<1>5. Active' = [Active EXCEPT ![c] = 0]
  BY <1>1, <1>2 DEF Active
<1>6. Waiting' = Waiting /\ Begun' = Begun
  BY <1>2 DEF Waiting, Begun
<1>7. job[c] \in Begun
  <2>1. job[c] \in {accepted[c][k] : k \in 1 .. taken[c]}
    BY <1>3
  <2> QED
    BY <1>1, <2>1 DEF Begun
<1>8. 0 \notin Begun
  BY Books, RequestsPositive DEF Begun
<1>9. \A t \in Tasks \ {c} : Active[t] # job[c]
  BY <1>1, <1>3, <1>4, ActiveIsLastTaken DEF Booked, AcceptedOnce
<1>10. Done' = Done \union {Active[c]}
  <2>1. {Active'[t] : t \in Tasks} = {Active[t] : t \in Tasks \ {c}} \union {0}
    BY <1>1, <1>5 DEF Active
  <2>2. {Active[t] : t \in Tasks} = {Active[t] : t \in Tasks \ {c}} \union {job[c]}
    BY <1>1, <1>3
  <2>3. Done' = Begun' \ {Active'[t] : t \in Tasks}
    BY DEF Done, Begun
  <2> QED
    BY <1>3, <1>6, <1>7, <1>8, <1>9, <2>1, <2>2, <2>3, Mapping
<1> QED
  BY <1>4, <1>5, <1>6, <1>10 DEF Promise!Complete

\* Every step of the executor is a step of the dispatcher or none.
LEMMA StepRefines ==
  ASSUME Booked, [Next]_vars
  PROVE  [Promise!Next]_Promise!vars
<1>1. TypeOK
  BY DEF Booked, TypeInv
<1>2. CASE \E c \in Children : ChildFinish(c)
  BY <1>2, FinishRefines, Numbers DEF Promise!Next
<1>3. CASE \E c \in Children : ChildTake(c)
  BY <1>3, TakeRefines, Numbers DEF Promise!Next
<1>4. CASE ParentSchedule
  <2>1. UNCHANGED <<taken, job>> /\ \A c \in Children : HasJob(c)' = HasJob(c)
    BY <1>1, <1>4, ScheduleKeepsJobs
  <2>2. CASE Refuses
    BY <2>1, <2>2, QuietStep DEF Refuses, Promise!vars
  <2>3. ASSUME NEW t \in Tasks, Accepts(t)
        PROVE  Promise!Next
    <3>1. nreq \in Requests
      BY <1>4, ExecutorAssumption DEF Booked, TypeInv, TypeOK, ParentSchedule, Requests
    <3> QED
      BY <1>4, <2>3, <3>1, AcceptRefines DEF Promise!Next
  <2> QED
    BY <1>1, <1>4, <2>2, <2>3, ScheduleEffect
<1>5. CASE Bystander /\ \A c \in Children : ~ChildFinish(c)
  <2>1. \A c \in Children : HasJob(c)' <=> HasJob(c)
    BY <1>1, <1>5, JobsKept DEF Bystander
  <2> QED
    BY <1>5, <2>1, QuietStep DEF Bystander, Promise!vars
<1> QED
  BY <1>1, <1>2, <1>3, <1>4, <1>5, StepKinds

\* At first nothing waits, is active or done.
LEMMA InitRefines == Init => Promise!Init
<1> SUFFICES ASSUME Init PROVE Promise!Init
  OBVIOUS
<1>1. Waiting = [t \in Tasks |-> <<>>]
  <2>1. \A t \in Tasks : Ids(queue[t]) = <<>>
    <3>1. Ids(<<>>) = <<>>
      BY IdsOfQueue, EmptySeq
    <3> QED
      BY <3>1 DEF Init
  <2> QED
    BY <2>1, Mapping
<1>2. Active = [t \in Tasks |-> 0]
  BY Numbers DEF Init, Active, HasJob
<1>3. Done = {}
  BY DEF Init, Done
<1> QED
  BY <1>1, <1>2, <1>3 DEF Promise!Init

\* For every number of tasks, queue depth, heap and user: the processes, their signals
\* and the shared memory implement the dispatcher.  A callback the parent has enqueued
\* (line 266) is run by its task, after those enqueued before it, once (lines 133-158).
THEOREM ExecutorImplementsDispatch == Spec => ImplementsDispatch
<1>1. Init => AcceptedOnce
  BY DEF Init, AcceptedOnce
<1>2. TypeInv /\ AcceptedOnce /\ [Next]_vars => AcceptedOnce'
  BY AcceptedOncePreserved
<1>3. TypeInv /\ NothingLostOrRepeated /\ AcceptedOnce /\ [Next]_vars
      => [Promise!Next]_Promise!vars
  BY StepRefines DEF Booked
<1> QED
  BY <1>1, <1>2, <1>3, InitRefines, SpecLedger, PTL
  DEF Spec, ImplementsDispatch, Promise!Spec
=============================================================================
