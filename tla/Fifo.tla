-------------------------------- MODULE Fifo --------------------------------
(***************************************************************************)
(* What the header of the queue promises (ros_queue.h): a bounded first-in *)
(* first-out queue of non-NULL pointers whose operations return a code,    *)
(* and, for peek and dequeue, the oldest element.                          *)
(*                                                                         *)
(* RosQueue, the ring buffer of ros_queue.c, is shown to implement this.   *)
(***************************************************************************)
EXTENDS Naturals, Sequences

CONSTANTS Cap,    \* capacity given to make_queue
          Elems,  \* the element pointers callers store
          NULL    \* the null pointer

VARIABLES fifo,   \* the stored elements, oldest first
          result  \* [code, elem]: what the last call returned to its caller

vars == <<fifo, result>>

Returns(code, elem) == result' = [code |-> code, elem |-> elem]

Init == fifo = <<>> /\ result = [code |-> 0, elem |-> NULL]

\* An element is appended, refused with 2 when Cap are stored, and NULL is
\* refused with 1 whatever is stored.
Put(e) ==
  \/ /\ e # NULL /\ Len(fifo) < Cap
     /\ fifo' = Append(fifo, e)
     /\ Returns(0, NULL)
  \/ /\ e # NULL /\ Len(fifo) = Cap
     /\ Returns(2, NULL)
     /\ UNCHANGED fifo
  \/ /\ e = NULL
     /\ Returns(1, NULL)
     /\ UNCHANGED fifo

\* The oldest element is copied out and stays stored.
Look ==
  /\ fifo # <<>>
  /\ Returns(0, Head(fifo))
  /\ UNCHANGED fifo

\* The oldest element is copied out and removed.
Take ==
  /\ fifo # <<>>
  /\ fifo' = Tail(fifo)
  /\ Returns(0, Head(fifo))

\* Nothing to copy out: code 2, and the caller's pointer is left alone.
NoData ==
  /\ fifo = <<>>
  /\ Returns(2, NULL)
  /\ UNCHANGED fifo

Next == (\E e \in Elems \union {NULL} : Put(e)) \/ Look \/ Take \/ NoData

Spec == Init /\ [][Next]_vars
=============================================================================
