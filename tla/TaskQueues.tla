----------------------------- MODULE TaskQueues -----------------------------
(***************************************************************************)
(* What ros_task_set.h promises of a task set: a bounded FIFO of callbacks *)
(* for each task, and the codes its functions return.  Any call that       *)
(* allocates may find no memory, and then changes nothing a caller can see.*)
(* With FreeCodes = {0} this is the header to the letter (ros_task_set.h:  *)
(* 97-147); a larger set leaves open what free_task_callback returns.      *)
(***************************************************************************)
EXTENDS Integers, Sequences

CONSTANTS MaxLen,   \* most tasks of a set
          MaxDepth, \* greatest depth of a task's queue
          Prios,    \* the priorities of callbacks
          FreeCodes, \* what free_task_callback may return; {0} by its header
          NULL

VARIABLES queues,   \* for each task the callbacks that wait, oldest first; or NULL
          depth,    \* how many callbacks may wait with one task
          returned  \* [code, prio]: what the call that ended last returned

vars == <<queues, depth, returned>>

Returns(code, prio) == returned' = [code |-> code, prio |-> prio]

Tasks == DOMAIN queues

Init == queues = NULL /\ depth = 0 /\ returned = [code |-> 0, prio |-> NULL]

\* make_task_set: 0 stands for a pointer to the set, 1 for NULL.
Make ==
  /\ queues = NULL
  /\ \/ \E len \in 1 .. MaxLen :
          /\ depth' \in 1 .. MaxDepth
          /\ queues' = [i \in 1 .. len |-> <<>>]
          /\ Returns(0, NULL)
     \/ /\ Returns(1, NULL)
        /\ UNCHANGED <<queues, depth>>

\* Codes 3, 4 and 5 report that there is no memory, 6 that the queue is full.
Enqueue ==
  /\ queues # NULL
  /\ \/ \E i \in Tasks, p \in Prios :
          /\ Len(queues[i]) < depth
          /\ queues' = [queues EXCEPT ![i] = Append(@, p)]
          /\ Returns(0, NULL)
     \/ /\ \E i \in Tasks : Len(queues[i]) = depth
        /\ Returns(6, NULL)
        /\ UNCHANGED queues
     \/ /\ \E code \in 2 .. 5 : Returns(code, NULL)
        /\ UNCHANGED queues
  /\ UNCHANGED depth

Dequeue ==
  /\ queues # NULL
  /\ \/ \E i \in Tasks :
          /\ queues[i] # <<>>
          /\ queues' = [queues EXCEPT ![i] = Tail(@)]
          /\ Returns(0, Head(queues[i]))
     \/ /\ \E i \in Tasks : queues[i] = <<>>
        /\ Returns(3, NULL)
        /\ UNCHANGED queues
     \/ /\ Returns(2, NULL)
        /\ UNCHANGED queues
  /\ UNCHANGED depth

\* The set is gone as soon as its destruction begins, whatever still waited.  If the
\* semaphore cannot be destroyed, the call returns 2 and the set stays as it was.
Destroy ==
  /\ queues # NULL
  /\ \/ queues' = NULL /\ depth' = 0 /\ UNCHANGED returned
     \/ Returns(2, NULL) /\ UNCHANGED <<queues, depth>>

Destroyed ==
  /\ queues = NULL
  /\ Returns(0, NULL)
  /\ UNCHANGED <<queues, depth>>

\* A dequeued callback is given back.
Freed ==
  /\ queues # NULL
  /\ \E code \in FreeCodes : Returns(code, NULL)
  /\ UNCHANGED <<queues, depth>>

\* Without a set every call on it returns 1.
NoSet ==
  /\ queues = NULL
  /\ Returns(1, NULL)
  /\ UNCHANGED <<queues, depth>>

Next == Make \/ Enqueue \/ Dequeue \/ Freed \/ Destroy \/ Destroyed \/ NoSet

Spec == Init /\ [][Next]_vars
=============================================================================
