------------------------------ MODULE RosQueue ------------------------------
(***************************************************************************)
(* The ring buffer of ros_queue.c.  `ptr' is the slot the next enqueue     *)
(* writes; the oldest element sits `len' slots behind it and is found with *)
(* a double remainder, because C's % keeps the sign of the dividend.       *)
(* Nothing clears a slot: array keeps the pointers that were dequeued.     *)
(*                                                                         *)
(* The indices are off_t and size_t, and are narrowed to int where the     *)
(* remainders are taken.  Up to a capacity of half of INT_MAX (2^30) this  *)
(* changes no value and the sum of line 102 does not overflow; beyond it   *)
(* the code is undefined, and QueueAssumption leaves it out.               *)
(***************************************************************************)
EXTENDS Integers, Sequences

CONSTANTS Cap,    \* queue_p->cap, fixed by make_queue
          Elems,  \* the element pointers callers store
          IntMax, \* INT_MAX
          NULL,   \* the null pointer
          Junk    \* content of a slot never written since it was allocated

ASSUME QueueAssumption ==
  /\ Cap \in Nat \ {0}
  /\ IntMax \in Nat
  /\ 2 * Cap - 1 <= IntMax  \* (ptr - len) % Cap + Cap fits an int
  /\ NULL \notin Elems
  /\ Junk \notin Elems

VARIABLES array,  \* queue_p->array
          ptr,    \* queue_p->ptr
          len,    \* queue_p->len
          result  \* [code, elem]: what the last call returned to its caller

vars == <<array, ptr, len, result>>

Slots == 0 .. Cap - 1

\* C's remainder truncates towards zero; TLA+'s % takes a positive divisor and
\* rounds down.
CRem(a, b) == IF a >= 0 THEN a % b ELSE -((-a) % b)

\* The conversion of an off_t or a size_t to int keeps the low bits.
AsInt(x) == ((x + IntMax + 1) % (2 * IntMax + 2)) - IntMax - 1

\* Mutant: the index of the element behind the oldest one.
OldestIndexOffByOne ==
  LET cap == AsInt(Cap)
  IN CRem(CRem(AsInt(ptr) - AsInt(len) - 1, cap) + cap, cap)

\* The dequeue index of peek and dequeue.
OldestIndex ==
  LET cap == AsInt(Cap)
  IN CRem(CRem(AsInt(ptr) - AsInt(len), cap) + cap, cap)

Returns(code, elem) == result' = [code |-> code, elem |-> elem]

-----------------------------------------------------------------------------
\* make_queue, both of its allocations having succeeded: cap is Cap > 0, since
\* the allocator refuses the zero bytes an empty array would need.
Init ==
  /\ array = [s \in Slots |-> Junk]
  /\ ptr = 0
  /\ len = 0
  /\ result = [code |-> 0, elem |-> NULL]

EnqueueNull(e) ==
  /\ e = NULL
  /\ Returns(1, NULL)
  /\ UNCHANGED <<array, ptr, len>>

EnqueueFull(e) ==
  /\ e # NULL /\ len >= Cap
  /\ Returns(2, NULL)
  /\ UNCHANGED <<array, ptr, len>>

\* Mutants: ptr is not wrapped; the capacity check lets one element too many in.
EnqueueStoreNoWrap(e) ==
  /\ e # NULL /\ len < Cap
  /\ array' = [array EXCEPT ![ptr] = e]
  /\ ptr' = ptr + 1
  /\ len' = len + 1
  /\ Returns(0, NULL)

EnqueueStoreOverfull(e) ==
  /\ e # NULL /\ len <= Cap
  /\ array' = [array EXCEPT ![ptr] = e]
  /\ ptr' = (ptr + 1) % Cap
  /\ len' = len + 1
  /\ Returns(0, NULL)

EnqueueStore(e) ==
  /\ e # NULL /\ len < Cap
  /\ array' = [array EXCEPT ![ptr] = e]
  /\ ptr' = (ptr + 1) % Cap
  /\ len' = len + 1
  /\ Returns(0, NULL)

Enqueue(e) == EnqueueNull(e) \/ EnqueueFull(e) \/ EnqueueStore(e)

PeekElem ==
  /\ len > 0
  /\ Returns(0, array[OldestIndex])
  /\ UNCHANGED <<array, ptr, len>>

\* peek and dequeue alike: the early return on an empty queue.
NoData ==
  /\ len <= 0
  /\ Returns(2, NULL)
  /\ UNCHANGED <<array, ptr, len>>

DequeueElem ==
  /\ len > 0
  /\ Returns(0, array[OldestIndex])
  /\ len' = len - 1
  /\ UNCHANGED <<array, ptr>>

Next ==
  \/ \E e \in Elems \union {NULL} : Enqueue(e)
  \/ PeekElem
  \/ DequeueElem
  \/ NoData

Spec == Init /\ [][Next]_vars

-----------------------------------------------------------------------------
\* The slot of the k-th oldest element, 1 <= k <= len.
SlotOf(k) == (OldestIndex + k - 1) % Cap

\* What is stored, oldest first.
Contents == [k \in 1 .. len |-> array[SlotOf(k)]]

Promise == INSTANCE Fifo WITH fifo <- Contents

\* Values of the struct's fields and of the results: ptr stays inside the array,
\* len within the capacity.
TypeOK ==
  /\ array \in [Slots -> Elems \union {Junk}]
  /\ ptr \in Slots
  /\ len \in 0 .. Cap
  /\ result \in [code : {0, 1, 2}, elem : Elems \union {NULL}]

\* No slot between the oldest element and ptr is one that was never written: peek
\* and dequeue (ros_queue.c:81, 105) never hand out uninitialised memory, however
\* often ptr has wrapped.
WindowWritten == \A k \in 1 .. len : array[SlotOf(k)] # Junk

\* The ring buffer behaves as the bounded FIFO of ros_queue.h: elements leave in
\* the order they were stored, none is lost, duplicated or overwritten, and the
\* return codes are those of the header.
ImplementsFifo == Promise!Spec
=============================================================================
