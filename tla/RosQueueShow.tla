---------------------------- MODULE RosQueueShow ----------------------------
(***************************************************************************)
(* show_queue, the debug walk over the ring buffer (ros_queue.c:133-151).  *)
(* Unlike peek and dequeue it takes a single remainder, so the head can be *)
(* negative; the loop then reduces it modulo a size_t, which first turns   *)
(* it into an unsigned 64-bit number.                                      *)
(***************************************************************************)
EXTENDS RosQueue

\* 2^n % Cap: 2^64 does not fit TLC's integers, its remainder does.
PowerOfTwoModCap[n \in 0 .. 64] ==
  IF n = 0 THEN 1 % Cap ELSE (2 * PowerOfTwoModCap[n - 1]) % Cap

\* x % queue_p->cap with x an off_t and cap a size_t.
UnsignedRem(x) ==
  IF x >= 0 THEN x % Cap ELSE (PowerOfTwoModCap[64] + x) % Cap

\* Mutant: the walk starts at the newest end.
ShowHeadAtPtr == ptr

ShowHead == CRem(AsInt(ptr) - AsInt(len), AsInt(Cap))

\* The elements handed to the `show' callback, in the order of the calls.
Shown == [k \in 1 .. len |-> array[UnsignedRem(ShowHead + k - 1)]]

\* The walk of show_queue (ros_queue.c:142-150) visits exactly the stored elements,
\* oldest first, as long as they do not wrap around the end of the array.
\* Once they do, the negative head sends it to other slots unless Cap divides 2^64.
ShowsContentsUnlessWrapped == ptr >= len => Shown = Contents
=============================================================================
