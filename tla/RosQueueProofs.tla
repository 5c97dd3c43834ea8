--------------------------- MODULE RosQueueProofs ---------------------------
(***************************************************************************)
(* Proofs about the ring buffer, for every set of elements and every       *)
(* capacity whose indices fit an int (QueueAssumption: 2 * Cap - 1 is at   *)
(* most INT_MAX): no conversion to int changes a value, the arithmetic     *)
(* never leaves the array, the window behind ptr has been written, and the *)
(* ring buffer implements Fifo.                                            *)
(*                                                                         *)
(* The arithmetic is settled once, in SlotOfValue: the k-th oldest element *)
(* lies ptr - len + k - 1 slots from the start, plus Cap when negative.    *)
(***************************************************************************)
EXTENDS RosQueueShow, SequenceTheorems, TLAPS

\* The slot `d' places from the start of the array, when -Cap <= d < Cap.
Wrapped(d) == IF d >= 0 THEN d ELSE d + Cap

-----------------------------------------------------------------------------
(* Arithmetic. *)

\* A remainder of a number below the modulus is the number.
LEMMA ModSmall ==
  ASSUME NEW n \in Nat \ {0}, NEW a \in 0 .. n - 1
  PROVE  a % n = a
OBVIOUS

\* A remainder of a number between the modulus and twice it.
LEMMA ModOnce ==
  ASSUME NEW n \in Nat \ {0}, NEW a \in n .. 2 * n - 1
  PROVE  a % n = a - n
OBVIOUS

\* The conversions to int (ros_queue.c:77, 101, 144) change no index, length or
\* capacity, because all of them fit.
LEMMA NarrowingIsExact ==
  ASSUME NEW x \in 0 .. Cap
  PROVE  AsInt(x) = x
<1> Cap \in Nat \ {0} /\ IntMax \in Nat /\ 2 * Cap - 1 <= IntMax
  BY QueueAssumption
<1> DEFINE n == 2 * IntMax + 2
<1>1. x + IntMax + 1 \in 0 .. n - 1 /\ n \in Nat \ {0}
  OBVIOUS
<1>2. (x + IntMax + 1) % n = x + IntMax + 1
  BY <1>1, ModSmall
<1> QED
  BY <1>2 DEF AsInt

\* What peek and dequeue compute from an index and a length (ros_queue.c:77-78,
\* 101-102), without the conversions.
LEMMA IndexNarrows ==
  ASSUME NEW p \in Slots, NEW l \in 0 .. Cap
  PROVE  CRem(CRem(AsInt(p) - AsInt(l), AsInt(Cap)) + AsInt(Cap), AsInt(Cap))
           = CRem(CRem(p - l, Cap) + Cap, Cap)
<1> Cap \in Nat \ {0} /\ p \in 0 .. Cap
  BY QueueAssumption DEF Slots
<1> AsInt(p) = p /\ AsInt(l) = l /\ AsInt(Cap) = Cap
  BY NarrowingIsExact
<1> QED
  OBVIOUS

\* The double remainder of peek and dequeue (ros_queue.c:78, 102) is the slot of
\* the oldest element, whatever the sign of ptr - len.
LEMMA DoubleRemainder ==
  ASSUME NEW p \in Slots, NEW l \in 0 .. Cap
  PROVE  CRem(CRem(p - l, Cap) + Cap, Cap) = Wrapped(p - l)
<1> Cap \in Nat \ {0}
  BY QueueAssumption
<1> p \in 0 .. Cap - 1
  BY DEF Slots
<1>1. CASE p - l >= 0
  <2>1. CRem(p - l, Cap) = p - l
    BY <1>1, ModSmall DEF CRem
  <2>2. (p - l + Cap) % Cap = p - l
    <3>1. p - l + Cap \in Cap .. 2 * Cap - 1
      BY <1>1
    <3> QED
      BY <3>1, ModOnce
  <2> QED
    BY <1>1, <2>1, <2>2 DEF CRem, Wrapped
<1>2. CASE p - l < 0 /\ l - p < Cap
  <2>1. CRem(p - l, Cap) = p - l
    <3>1. (l - p) % Cap = l - p
      BY <1>2, ModSmall
    <3> QED
      BY <1>2, <3>1 DEF CRem
  <2>2. (p - l + Cap) % Cap = p - l + Cap
    BY <1>2, ModSmall
  <2> QED
    BY <1>2, <2>1, <2>2 DEF CRem, Wrapped
<1>3. CASE p - l < 0 /\ l - p = Cap
  <2>1. Cap % Cap = 0
    BY ModOnce
  <2>2. CRem(p - l, Cap) = 0
    BY <1>3, <2>1 DEF CRem
  <2> QED
    BY <1>3, <2>1, <2>2 DEF CRem, Wrapped
<1> QED
  BY <1>1, <1>2, <1>3

\* Where the k-th oldest element lies.
LEMMA SlotValue ==
  ASSUME NEW p \in Slots, NEW l \in 0 .. Cap, NEW k \in 1 .. l
  PROVE  (CRem(CRem(AsInt(p) - AsInt(l), AsInt(Cap)) + AsInt(Cap), AsInt(Cap)) + k - 1) % Cap
           = Wrapped(p - l + k - 1)
<1> Cap \in Nat \ {0}
  BY QueueAssumption
<1> p \in 0 .. Cap - 1
  BY DEF Slots
<1> DEFINE first == CRem(CRem(AsInt(p) - AsInt(l), AsInt(Cap)) + AsInt(Cap), AsInt(Cap))
<1>1. first = Wrapped(p - l)
  BY DoubleRemainder, IndexNarrows
<1> HIDE DEF first
<1>2. CASE p - l >= 0
  <2>1. first + k - 1 \in 0 .. Cap - 1 /\ first + k - 1 = p - l + k - 1
    BY <1>1, <1>2 DEF Wrapped
  <2> QED
    BY <2>1, ModSmall DEF Wrapped, first
<1>3. CASE p - l < 0 /\ p - l + k - 1 < 0
  <2>1. first + k - 1 \in 0 .. Cap - 1 /\ first + k - 1 = p - l + k - 1 + Cap
    BY <1>1, <1>3 DEF Wrapped
  <2> QED
    BY <1>3, <2>1, ModSmall DEF Wrapped, first
<1>4. CASE p - l < 0 /\ p - l + k - 1 >= 0
  <2>1. first + k - 1 \in Cap .. 2 * Cap - 1 /\ first + k - 1 = p - l + k - 1 + Cap
    BY <1>1, <1>4 DEF Wrapped
  <2> QED
    BY <1>4, <2>1, ModOnce DEF Wrapped, first
<1> QED
  BY <1>2, <1>3, <1>4

\* ptr + 1 wraps to slot 0 at the end of the array.
LEMMA NextSlot ==
  ASSUME NEW p \in Slots
  PROVE  (p + 1) % Cap = IF p + 1 = Cap THEN 0 ELSE p + 1
<1> Cap \in Nat \ {0} /\ p \in 0 .. Cap - 1
  BY QueueAssumption DEF Slots
<1>1. CASE p + 1 = Cap
  BY <1>1, ModOnce
<1>2. CASE p + 1 < Cap
  BY <1>2, ModSmall
<1> QED
  BY <1>1, <1>2

-----------------------------------------------------------------------------
(* The state. *)

\* SlotOf and OldestIndex in a state of the right types.
LEMMA SlotOfValue ==
  ASSUME TypeOK
  PROVE  /\ \A k \in 1 .. len : SlotOf(k) = Wrapped(ptr - len + k - 1)
         /\ OldestIndex = Wrapped(ptr - len)
         /\ OldestIndex \in Slots
<1>1. OldestIndex = Wrapped(ptr - len)
  BY DoubleRemainder, IndexNarrows DEF TypeOK, OldestIndex
<1>2. OldestIndex \in Slots
  BY <1>1, QueueAssumption DEF TypeOK, Slots, Wrapped
<1>3. \A k \in 1 .. len : SlotOf(k) = Wrapped(ptr - len + k - 1)
  BY SlotValue DEF TypeOK, OldestIndex, SlotOf
<1> QED
  BY <1>1, <1>2, <1>3

\* What peek and dequeue hand out is the first of the contents.
LEMMA OldestIsFirst ==
  ASSUME TypeOK, len > 0
  PROVE  OldestIndex = SlotOf(1)
<1> Cap \in Nat \ {0} /\ ptr \in Int /\ len \in 1 .. Cap
  BY QueueAssumption DEF TypeOK, Slots
<1>1. SlotOf(1) = Wrapped(ptr - len + 1 - 1)
  BY SlotOfValue
<1>2. ptr - len + 1 - 1 = ptr - len
  OBVIOUS
<1> QED
  BY <1>1, <1>2, SlotOfValue

\* The inductive invariant: types, and nothing unwritten in the window.  The types
\* alone are not inductive: peek would hand out Junk, which is no element.
IInv == TypeOK /\ WindowWritten

\* Storing an element adds it behind the contents and disturbs none of them.
LEMMA StoreContents ==
  ASSUME TypeOK, NEW e, EnqueueStore(e), TypeOK'
  PROVE  /\ \A k \in 1 .. len : array'[SlotOf(k)'] = array[SlotOf(k)]
         /\ \A k \in 1 .. len' : k = len' => array'[SlotOf(k)'] = e
         /\ len' = len + 1
<1> Cap \in Nat \ {0} /\ ptr \in 0 .. Cap - 1 /\ len \in 0 .. Cap - 1
  BY QueueAssumption DEF TypeOK, Slots, EnqueueStore
<1>1. len' = len + 1 /\ array' = [array EXCEPT ![ptr] = e]
  BY DEF EnqueueStore
<1>2. ptr' = IF ptr + 1 = Cap THEN 0 ELSE ptr + 1
  BY NextSlot DEF EnqueueStore, Slots
<1>3. \A k \in 1 .. len + 1 : SlotOf(k)' = Wrapped(ptr' - len' + k - 1)
  <2>1. \A k \in 1 .. len' : SlotOf(k)' = Wrapped(ptr' - len' + k - 1)
    BY SlotValue DEF TypeOK, OldestIndex, SlotOf
  <2> QED
    BY <1>1, <2>1
<1>4. ASSUME NEW k \in 1 .. len
      PROVE  SlotOf(k)' = SlotOf(k) /\ SlotOf(k) \in Slots /\ SlotOf(k) # ptr
  <2>1. SlotOf(k) = Wrapped(ptr - len + k - 1)
    BY SlotOfValue
  <2>2. SlotOf(k)' = Wrapped(ptr' - len' + k - 1)
    BY <1>3
  <2> QED
    BY <1>1, <1>2, <2>1, <2>2 DEF Wrapped, Slots
<1>5. ASSUME NEW k \in 1 .. len', k = len'
      PROVE  SlotOf(k)' = ptr
  BY <1>1, <1>2, <1>3, <1>5 DEF Wrapped
<1> QED
  BY <1>1, <1>4, <1>5 DEF TypeOK

\* Removing the oldest element moves the window by one and leaves the array alone.
LEMMA RemoveContents ==
  ASSUME TypeOK, DequeueElem, TypeOK'
  PROVE  /\ array' = array
         /\ len' = len - 1
         /\ \A k \in 1 .. len' : SlotOf(k)' = SlotOf(k + 1)
<1> Cap \in Nat \ {0} /\ ptr \in 0 .. Cap - 1 /\ len \in 1 .. Cap
  BY QueueAssumption DEF TypeOK, Slots, DequeueElem
<1>1. len' = len - 1 /\ array' = array /\ ptr' = ptr
  BY DEF DequeueElem
<1>2. \A k \in 1 .. len' : SlotOf(k)' = Wrapped(ptr' - len' + k - 1)
  BY SlotValue DEF TypeOK, OldestIndex, SlotOf
<1>3. ASSUME NEW k \in 1 .. len'
      PROVE  SlotOf(k)' = SlotOf(k + 1)
  <2>1. k + 1 \in 1 .. len
    BY <1>1
  <2>2. SlotOf(k + 1) = Wrapped(ptr - len + (k + 1) - 1)
    BY <2>1, SlotOfValue
  <2>3. ptr' - len' + k - 1 = ptr - len + (k + 1) - 1
    BY <1>1
  <2> QED
    BY <1>2, <2>2, <2>3
<1> QED
  BY <1>1, <1>3

-----------------------------------------------------------------------------
(* Invariance. *)

\* make_queue establishes the invariant: the window is empty.
LEMMA InitIInv == Init => IInv
<1> SUFFICES ASSUME Init PROVE IInv
  OBVIOUS
<1>1. TypeOK
  BY QueueAssumption DEF Init, TypeOK, Slots
<1>2. WindowWritten
  BY DEF Init, WindowWritten
<1> QED
  BY <1>1, <1>2 DEF IInv

\* An element that peek or dequeue returns is one that was stored.
LEMMA OldestWritten ==
  ASSUME IInv, len > 0
  PROVE  array[OldestIndex] \in Elems
<1>1. 1 \in 1 .. len
  BY DEF IInv, TypeOK
<1>2. array[SlotOf(1)] # Junk
  BY <1>1 DEF IInv, WindowWritten
<1> QED
  BY <1>2, OldestIsFirst, SlotOfValue DEF IInv, TypeOK

\* Every operation keeps the fields in range.
LEMMA TypePreserved ==
  ASSUME IInv, [Next]_vars
  PROVE  TypeOK'
<1> Cap \in Nat \ {0} /\ TypeOK
  BY QueueAssumption DEF IInv
<1> USE DEF Returns
<1>1. ASSUME NEW e \in Elems \union {NULL}, Enqueue(e)
      PROVE  TypeOK'
  <2>1. CASE EnqueueNull(e)
    BY <2>1 DEF EnqueueNull, TypeOK
  <2>2. CASE EnqueueFull(e)
    BY <2>2 DEF EnqueueFull, TypeOK
  <2>3. CASE EnqueueStore(e)
    <3>1. ptr' \in Slots
      BY <2>3, NextSlot DEF EnqueueStore, TypeOK, Slots
    <3> QED
      BY <2>3, <3>1 DEF EnqueueStore, TypeOK
  <2> QED
    BY <1>1, <2>1, <2>2, <2>3 DEF Enqueue
<1>2. CASE PeekElem
  BY <1>2, OldestWritten DEF PeekElem, TypeOK
<1>3. CASE DequeueElem
  BY <1>3, OldestWritten DEF DequeueElem, TypeOK
<1>4. CASE NoData
  BY <1>4 DEF NoData, TypeOK
<1>5. CASE UNCHANGED vars
  BY <1>5 DEF vars, TypeOK
<1> QED
  BY <1>1, <1>2, <1>3, <1>4, <1>5 DEF Next

\* No operation brings an unwritten slot into the window.
LEMMA WindowPreserved ==
  ASSUME IInv, [Next]_vars
  PROVE  WindowWritten'
<1> TypeOK /\ WindowWritten /\ TypeOK'
  BY TypePreserved DEF IInv
<1>1. ASSUME UNCHANGED <<array, ptr, len>>
      PROVE  WindowWritten'
  BY <1>1 DEF WindowWritten, SlotOf, OldestIndex
<1>2. ASSUME NEW e \in Elems \union {NULL}, EnqueueStore(e)
      PROVE  WindowWritten'
  <2>1. len \in Nat /\ e # Junk
    BY <1>2, QueueAssumption DEF EnqueueStore, TypeOK
  <2>2. \A k \in 1 .. len' : k \in 1 .. len \/ k = len'
    BY <1>2, <2>1 DEF EnqueueStore
  <2>3. \A k \in 1 .. len' : array'[SlotOf(k)'] # Junk
    BY <1>2, <2>1, <2>2, StoreContents DEF WindowWritten
  <2> QED
    BY <2>3 DEF WindowWritten
<1>3. CASE DequeueElem
  <2>1. \A k \in 1 .. len' : k + 1 \in 1 .. len
    BY <1>3 DEF DequeueElem, TypeOK
  <2>2. \A k \in 1 .. len' : array'[SlotOf(k)'] # Junk
    BY <1>3, <2>1, RemoveContents DEF WindowWritten
  <2> QED
    BY <2>2 DEF WindowWritten
<1> QED
  BY <1>1, <1>2, <1>3
  DEF Next, Enqueue, EnqueueNull, EnqueueFull, PeekElem, NoData, vars

\* The fields stay in range and the window written.
LEMMA SpecIInv == Spec => []IInv
<1>1. IInv /\ [Next]_vars => IInv'
  BY TypePreserved, WindowPreserved DEF IInv
<1> QED
  BY InitIInv, <1>1, PTL DEF Spec

\* For every capacity whose indices fit an int, ptr stays inside the array, len
\* within the capacity and the results are codes of the header with an element that
\* was stored.
THEOREM TypeCorrect == Spec => []TypeOK
<1>1. IInv => TypeOK
  BY DEF IInv
<1> QED
  BY SpecIInv, <1>1, PTL

\* For every capacity whose indices fit an int, peek and dequeue never read a slot
\* that was not written.
THEOREM NeverReadsUnwritten == Spec => []WindowWritten
<1>1. IInv => WindowWritten
  BY DEF IInv
<1> QED
  BY SpecIInv, <1>1, PTL

-----------------------------------------------------------------------------
(* Refinement. *)

\* The contents are a sequence of len elements.
ContentsOK ==
  /\ Contents \in Seq(Elems)
  /\ Len(Contents) = len
  /\ \A k \in 1 .. len : Contents[k] = array[SlotOf(k)]

\* The window behind ptr is such a sequence, in every reachable state.
LEMMA ContentsIsSeq == IInv => ContentsOK
<1> SUFFICES ASSUME IInv PROVE ContentsOK
  OBVIOUS
<1> Cap \in Nat \ {0} /\ ptr \in 0 .. Cap - 1 /\ len \in 0 .. Cap
  BY QueueAssumption DEF IInv, TypeOK, Slots
<1>1. ASSUME NEW k \in 1 .. len
      PROVE  array[SlotOf(k)] \in Elems
  <2>1. SlotOf(k) \in Slots
    BY SlotOfValue DEF IInv, Wrapped, Slots
  <2> QED
    BY <2>1 DEF IInv, TypeOK, WindowWritten
<1>2. Contents \in [1 .. len -> Elems]
  BY <1>1 DEF Contents
<1> QED
  BY <1>2 DEF Contents, ContentsOK

\* An accepted enqueue is an Append.
LEMMA StoreIsAppend ==
  ASSUME IInv, NEW e \in Elems, EnqueueStore(e), IInv'
  PROVE  Contents' = Append(Contents, e)
<1>1. /\ Contents \in Seq(Elems) /\ Len(Contents) = len
      /\ \A k \in 1 .. len : Contents[k] = array[SlotOf(k)]
  BY ContentsIsSeq DEF ContentsOK
<1>2. /\ Contents' \in Seq(Elems) /\ Len(Contents') = len'
      /\ \A k \in 1 .. len' : Contents'[k] = array'[SlotOf(k)']
  <2>1. IInv' => ContentsOK'
    BY ContentsIsSeq, PTL
  <2> QED
    BY <2>1 DEF ContentsOK
<1>3. /\ \A k \in 1 .. len : array'[SlotOf(k)'] = array[SlotOf(k)]
      /\ \A k \in 1 .. len' : k = len' => array'[SlotOf(k)'] = e
      /\ len' = len + 1
  BY StoreContents DEF IInv
<1>4. len \in Nat
  BY DEF IInv, TypeOK
<1>5. Append(Contents, e) \in Seq(Elems) /\ Len(Append(Contents, e)) = len + 1
  BY <1>1
<1>6. \A k \in 1 .. len' : Contents'[k] = Append(Contents, e)[k]
  BY <1>1, <1>2, <1>3, <1>4
<1> QED
  BY <1>2, <1>3, <1>5, <1>6, SeqEqual

\* A dequeue leaves the Tail.
LEMMA RemoveIsTail ==
  ASSUME IInv, DequeueElem, IInv'
  PROVE  Contents' = Tail(Contents)
<1>1. /\ Contents \in Seq(Elems) /\ Len(Contents) = len
      /\ \A k \in 1 .. len : Contents[k] = array[SlotOf(k)]
  BY ContentsIsSeq DEF ContentsOK
<1>2. /\ Contents' \in Seq(Elems) /\ Len(Contents') = len'
      /\ \A k \in 1 .. len' : Contents'[k] = array'[SlotOf(k)']
  <2>1. IInv' => ContentsOK'
    BY ContentsIsSeq, PTL
  <2> QED
    BY <2>1 DEF ContentsOK
<1>3. /\ array' = array /\ len' = len - 1
      /\ \A k \in 1 .. len' : SlotOf(k)' = SlotOf(k + 1)
  BY RemoveContents DEF IInv
<1>4. len \in Nat \ {0}
  BY DEF IInv, TypeOK, DequeueElem
<1>5. /\ Tail(Contents) \in Seq(Elems) /\ Len(Tail(Contents)) = len - 1
      /\ \A k \in 1 .. len - 1 : Tail(Contents)[k] = Contents[k + 1]
  BY <1>1, <1>4, HeadTailProperties
<1>6. \A k \in 1 .. len' : k + 1 \in 1 .. len
  BY <1>3, <1>4
<1>7. \A k \in 1 .. len' : Contents'[k] = Tail(Contents)[k]
  BY <1>1, <1>2, <1>3, <1>5, <1>6
<1> QED
  BY <1>2, <1>3, <1>5, <1>7, SeqEqual

\* The oldest element is the Head.
LEMMA OldestIsHead ==
  ASSUME IInv, len > 0
  PROVE  Contents # <<>> /\ array[OldestIndex] = Head(Contents)
<1>1. /\ Contents \in Seq(Elems) /\ Len(Contents) = len
      /\ \A k \in 1 .. len : Contents[k] = array[SlotOf(k)]
  BY ContentsIsSeq DEF ContentsOK
<1>2. 1 \in 1 .. len
  BY DEF IInv, TypeOK
<1>3. Head(Contents) = Contents[1] /\ Contents # <<>>
  BY <1>1, <1>2
<1> QED
  BY <1>1, <1>2, <1>3, OldestIsFirst DEF IInv

\* Steps that leave the struct alone leave the contents alone.
LEMMA SameContents ==
  ASSUME UNCHANGED <<array, ptr, len>>
  PROVE  Contents' = Contents
BY DEF Contents, SlotOf, OldestIndex

\* Every step of the ring buffer is a step of the bounded FIFO or a stutter.
LEMMA StepRefines ==
  ASSUME IInv, IInv', [Next]_vars
  PROVE  [Promise!Next]_(Promise!vars)
<1>1. Contents \in Seq(Elems) /\ Len(Contents) = len /\ len \in 0 .. Cap /\ Cap \in Nat \ {0}
  BY ContentsIsSeq, QueueAssumption DEF ContentsOK, IInv, TypeOK
<1>2. ASSUME NEW e \in Elems \union {NULL}, Enqueue(e)
      PROVE  Promise!Put(e)
  <2>1. CASE EnqueueNull(e)
    BY <2>1, SameContents DEF EnqueueNull, Returns, Promise!Put, Promise!Returns
  <2>2. CASE EnqueueFull(e)
    BY <1>1, <2>2, SameContents DEF EnqueueFull, Returns, Promise!Put, Promise!Returns
  <2>3. CASE EnqueueStore(e)
    BY <1>1, <2>3, StoreIsAppend DEF EnqueueStore, Returns, Promise!Put, Promise!Returns
  <2> QED
    BY <1>2, <2>1, <2>2, <2>3 DEF Enqueue
<1>3. CASE PeekElem
  <2>1. Promise!Look
    BY <1>3, OldestIsHead, SameContents
    DEF PeekElem, Returns, Promise!Look, Promise!Returns
  <2> QED
    BY <2>1 DEF Promise!Next
<1>4. CASE DequeueElem
  <2>1. Promise!Take
    BY <1>4, OldestIsHead, RemoveIsTail
    DEF DequeueElem, Returns, Promise!Take, Promise!Returns
  <2> QED
    BY <2>1 DEF Promise!Next
<1>5. CASE NoData
  <2>1. Contents = <<>>
    BY <1>1, <1>5 DEF NoData
  <2>2. Promise!NoData
    BY <1>5, <2>1, SameContents DEF NoData, Returns, Promise!NoData, Promise!Returns
  <2> QED
    BY <2>2 DEF Promise!Next
<1>6. CASE UNCHANGED vars
  BY <1>6, SameContents DEF vars, Promise!vars
<1>7. CASE \E e \in Elems \union {NULL} : Enqueue(e)
  BY <1>2, <1>7 DEF Promise!Next
<1> QED
  BY <1>3, <1>4, <1>5, <1>6, <1>7 DEF Next

\* For every capacity whose indices fit an int, the ring buffer of ros_queue.c
\* implements the bounded FIFO of its header: order, no loss, no duplicate, the return
\* codes.
THEOREM RosQueueImplementsFifo == Spec => ImplementsFifo
<1>1. Init => Promise!Init
  BY DEF Init, Contents, Promise!Init
<1>2. IInv /\ IInv' /\ [Next]_vars => [Promise!Next]_(Promise!vars)
  BY StepRefines
<1> QED
  BY <1>1, <1>2, SpecIInv, PTL DEF Spec, ImplementsFifo, Promise!Spec

\* While the elements lie behind ptr without a wrap, the head show_queue computes is
\* that of peek and dequeue, and no remainder of the walk is taken of a negative.
LEMMA UnwrappedWalk ==
  ASSUME TypeOK, ptr >= len, NEW k \in 1 .. len
  PROVE  UnsignedRem(ShowHead + k - 1) = SlotOf(k)
<1>1. /\ Cap \in Nat \ {0} /\ ptr \in 0 .. Cap - 1 /\ len \in 0 .. Cap /\ ptr \in Slots
      /\ ptr - len \in 0 .. Cap - 1
  BY QueueAssumption DEF TypeOK, Slots
<1>2. ShowHead = ptr - len
  <2>1. AsInt(ptr) = ptr /\ AsInt(len) = len /\ AsInt(Cap) = Cap
    BY <1>1, NarrowingIsExact
  <2> QED
    BY <1>1, <2>1, ModSmall DEF ShowHead, CRem
<1>3. OldestIndex = ptr - len
  BY <1>1, SlotOfValue DEF Wrapped
<1>4. ShowHead + k - 1 >= 0
  BY <1>1, <1>2
<1> QED
  BY <1>2, <1>3, <1>4 DEF UnsignedRem, SlotOf

\* For every capacity whose indices fit an int, show_queue prints exactly the contents
\* as long as they do not wrap around the end of the array (ros_queue.c:142-150).
THEOREM ShowRightUnwrapped == Spec => []ShowsContentsUnlessWrapped
<1>1. TypeOK => ShowsContentsUnlessWrapped
  BY UnwrappedWalk DEF ShowsContentsUnlessWrapped, Shown, Contents
<1> QED
  BY <1>1, TypeCorrect, PTL
=============================================================================
