--------------------------- MODULE StaticAllocator ---------------------------
(***************************************************************************)
(* The allocator of ros_static_allocator.c: a circular free list, threaded *)
(* through the headers of the free blocks in order of address, with a      *)
(* roving start and coalescing of neighbours on every free.                *)
(*                                                                         *)
(* Memory is numbered in units of sizeof(block_h): unit 0 is the list head *)
(* of size 0, units 1 .. Cap hold blocks, and a block is its header unit   *)
(* and the units after it.  A caller's pointer is named by the header in   *)
(* front of it.  Nothing is modelled of what callers store.                *)
(***************************************************************************)
EXTENDS Integers, FiniteSets

CONSTANTS Cap,      \* capacity / unit_size, as install_static_allocator sets it
          Unit,     \* unit_size
          Requests, \* the sizes callers ask for, in bytes
          NULL

ASSUME AllocatorAssumption ==
  /\ Cap \in Nat \ {0}
  /\ Unit \in Nat \ {0}
  /\ Requests \subseteq Nat
  /\ NULL \notin (-1 .. Cap) \union Requests

VARIABLES
  next,     \* d.next of the header in each unit
  size,     \* d.size of the header in each unit
  freeList, \* static_allocator->free_list, NULL until the first allocation
  free,     \* static_allocator->free_memory_size, in units
  live,     \* history: the blocks callers hold
  result    \* history: the last call and its outcome, [asked, got]

vars == <<next, size, freeList, free, live, result>>

Units  == 0 .. Cap
Header == 0   \* the head of the free list

\* Number of block sized units to allocate: the bytes, rounded up, and a header.
NBlocks(bytes) == (bytes + Unit - 1) \div Unit + 1

\* A call for so many bytes, or to free (NULL), and what it returns: a block or NULL,
\* 0 or -1.
Returns(asked, got) == result' = [asked |-> asked, got |-> got]

-----------------------------------------------------------------------------
\* install_static_allocator.  The headers are whatever the memory held.
Init ==
  /\ next = [u \in Units |-> 0]
  /\ size = [u \in Units |-> 0]
  /\ freeList = NULL
  /\ free = Cap
  /\ live = {}
  /\ result = [asked |-> NULL, got |-> 0]

\* The list an allocation searches: the first one makes a list of the head and one
\* block with all the memory.
List ==
  IF freeList # NULL THEN [next |-> next, size |-> size, start |-> freeList]
  ELSE [next  |-> [next EXCEPT ![0] = 1, ![1] = 0],
        size  |-> [size EXCEPT ![0] = 0, ![1] = free],
        start |-> Header]

\* The k-th block after the start of a list.
Walk(list) ==
  LET w[k \in 0 .. Cap + 1] == IF k = 0 THEN list.start ELSE list.next[w[k - 1]]
  IN w

\* The first step of a walk, from step k0 on, where Stop holds.
First(k0, Stop(_)) ==
  CHOOSE k \in k0 .. Cap + 1 : Stop(k) /\ \A j \in k0 .. k - 1 : ~Stop(j)

\* Mutant: a request for all that is left is refused.
RefusedTooEarly(bytes) == NBlocks(bytes) >= free \/ bytes = 0

Refused(bytes) == NBlocks(bytes) > free \/ bytes = 0

AllocRefused(bytes) ==
  /\ Refused(bytes)
  /\ Returns(bytes, NULL)
  /\ UNCHANGED <<next, size, freeList, free, live>>

\* The search begins after the start of the list and ends at the first block that
\* is long enough, or at the start again.
SearchEnd(list, n) ==
  LET w == Walk(list)
      Stop(k) == list.size[w[k]] >= n \/ w[k] = list.start
  IN First(1, Stop)

AllocFails(bytes) ==
  LET list == List
      curr == Walk(list)[SearchEnd(list, NBlocks(bytes))]
  IN /\ ~Refused(bytes)
     /\ list.size[curr] < NBlocks(bytes)
     /\ next' = list.next /\ size' = list.size /\ freeList' = list.start
     /\ Returns(bytes, NULL)
     /\ UNCHANGED <<free, live>>

\* Mutant: a block that fits exactly stays on the list.
StillLinked(list, last, curr) == list.next

\* The list's links without curr, the block after last.
Unlinked(list, last, curr) == [list.next EXCEPT ![last] = list.next[curr]]

\* The block is unlinked when it fits exactly, and otherwise gives away its tail.
\* The list then starts at the block before.
AllocTakes(bytes) ==
  LET list == List
      n    == NBlocks(bytes)
      k    == SearchEnd(list, n)
      last == Walk(list)[k - 1]
      curr == Walk(list)[k]
      left == list.size[curr] - n
      got  == curr + left
  IN /\ ~Refused(bytes)
     /\ left >= 0
     /\ next' = IF left = 0 THEN Unlinked(list, last, curr) ELSE list.next
     /\ size' = IF left = 0 THEN list.size
                            ELSE [list.size EXCEPT ![curr] = left, ![got] = n]
     /\ freeList' = last
     /\ free' = free - n
     /\ live' = live \union {got}
     /\ Returns(bytes, got)

-----------------------------------------------------------------------------
\* Where a freed block goes: between p and its successor, or, when p is the last in
\* order of address, beyond it or before its successor.
Between(b, p, q) ==
  \/ b >= p /\ b < q
  \/ p >= q /\ (b > p \/ b < q)

Place(b) ==
  LET w == Walk(List)
      Stop(k) == Between(b, w[k], next[w[k]])
  IN w[First(0, Stop)]

\* Mutant: no merge at all.
NeverAdjoins(b, c) == FALSE

\* One block ends where another begins: the test of both merges.
Adjoins(b, c) == b + size[b] = c

\* Size and successor of the freed block once merged with the block behind it.
MergedSize(b, q) == IF Adjoins(b, q) THEN size[b] + size[q] ELSE size[b]
MergedNext(b, q) == IF Adjoins(b, q) THEN next[q] ELSE q

\* Mutant: the memory is counted after the merge.
CreditMerged(b) == MergedSize(b, next[Place(b)])

\* What the free memory grows by.
Credit(b) == size[b]

\* Merge with the block behind, then with the block in front.
Free(b) ==
  LET p == Place(b)
      q == next[p]
  IN /\ \/ /\ Adjoins(p, b)
           /\ size' = [size EXCEPT ![b] = MergedSize(b, q), ![p] = @ + MergedSize(b, q)]
           /\ next' = [next EXCEPT ![b] = MergedNext(b, q), ![p] = MergedNext(b, q)]
        \/ /\ ~Adjoins(p, b)
           /\ size' = [size EXCEPT ![b] = MergedSize(b, q)]
           /\ next' = [next EXCEPT ![b] = MergedNext(b, q), ![p] = b]
     /\ free' = free + Credit(b)
     /\ freeList' = p
     /\ live' = live \ {b}
     /\ Returns(NULL, 0)

\* A NULL pointer is refused; so are pointers outside the memory, which no caller
\* holds.
FreeNull ==
  /\ Returns(NULL, -1)
  /\ UNCHANGED <<next, size, freeList, free, live>>

Alloc(bytes) == AllocRefused(bytes) \/ AllocFails(bytes) \/ AllocTakes(bytes)

\* Callers free what they were given, once.
Next ==
  \/ \E bytes \in Requests : Alloc(bytes)
  \/ \E b \in live : Free(b)
  \/ FreeNull

Spec == Init /\ [][Next]_vars

-----------------------------------------------------------------------------
Extent(b) == b .. b + size[b] - 1

\* The blocks on the free list.
OnList == {Walk(List)[k] : k \in 0 .. Cap + 1}

FreeBlocks == OnList \ {Header}

TypeOK ==
  /\ next \in [Units -> Units]
  /\ size \in [Units -> 0 .. Cap]
  /\ freeList \in Units \union {NULL}
  /\ free \in 0 .. Cap
  /\ live \subseteq 1 .. Cap
  /\ result \in [asked : Requests \union {NULL}, got : Units \union {NULL, -1}]

\* Once the list exists, its blocks and those of the callers tile the memory: they
\* do not overlap, none is lost, and free_memory_size (line 65, 102, 144) counts
\* what is on the list.
Tiles ==
  freeList # NULL =>
    /\ Header \in OnList /\ size[Header] = 0
    /\ FreeBlocks \intersect live = {}
    /\ \A b, c \in FreeBlocks \union live : b # c => Extent(b) \intersect Extent(c) = {}
    /\ UNION {Extent(b) : b \in FreeBlocks \union live} = 1 .. Cap
    /\ Cardinality(UNION {Extent(b) : b \in FreeBlocks}) = free

\* The list is in order of address with one way back, and no two free blocks touch:
\* the merges of static_free (lines 162-176) miss no neighbour, wherever the roving
\* start is.
Coalesced ==
  freeList # NULL =>
    /\ Cardinality({p \in OnList : next[p] <= p}) = 1
    /\ \A p, q \in FreeBlocks : p + size[p] # q

\* static_is_unified, for a list that exists.
IsUnified == next[next[freeList]] = freeList

\* When everything has been freed the memory is one block again, as the allocator's
\* test program expects after freeing in any order.
UnifiedWhenAllFreed ==
  freeList # NULL /\ live = {} => IsUnified /\ size[next[Header]] = Cap

Promise == INSTANCE Heap
             WITH used <- {[first |-> b, len |-> size[b]] : b \in live}

\* What callers hold never overlaps, is as long as they asked for, and NULL means
\* that no free stretch was long enough.
ImplementsHeap == Promise!Spec
=============================================================================
