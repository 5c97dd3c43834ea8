------------------------ MODULE StaticAllocatorProofs ------------------------
(***************************************************************************)
(* Proofs about the static allocator, for every capacity, unit size and    *)
(* set of requests: what the free list and the blocks look like between    *)
(* calls, and by that that the allocator keeps the promise of Heap.        *)
(*                                                                         *)
(* The lemmas are about any links nx, sizes sz, set F of the blocks on the *)
(* list (the head included), set L of the blocks callers hold and number n *)
(* of free units.                                                          *)
(***************************************************************************)
EXTENDS StaticAllocator, NaturalLemmas, FiniteSetTheorems, TLAPS

\* The constants, as the proofs use them.
LEMMA Constants ==
  /\ Cap \in Nat \ {0} /\ Unit \in Nat \ {0} /\ Requests \subseteq Nat
  /\ NULL \notin Units /\ NULL # -1 /\ NULL \notin Requests
  /\ Units = 0 .. Cap /\ Header = 0 /\ Header \in Units
BY AllocatorAssumption DEF Units, Header

-----------------------------------------------------------------------------
(* The list. *)

\* The links lead through the blocks in order of address, and from the last one
\* back to the head.
Chain(nx, F) ==
  /\ nx \in [Units -> Units]
  /\ F \subseteq Units /\ Header \in F
  /\ \A p \in F :
       /\ nx[p] \in F
       /\ \/ nx[p] > p /\ \A q \in F : q <= p \/ nx[p] <= q
          \/ nx[p] = Header /\ \A q \in F : q <= p

\* Every list with at least one block has a last one.
LEMMA LastOne ==
  ASSUME NEW F, F \subseteq Units, F # {}
  PROVE  \E m \in F : \A q \in F : q <= m
<1> DEFINE slacks == {Cap - p : p \in F}
<1>1. slacks \subseteq Nat /\ slacks # {}
  <2>1. \A p \in Units : Cap - p \in Nat
    BY Constants
  <2> QED
    BY <2>1
<1>2. PICK s \in slacks : \A y \in slacks : s <= y
  <2> HIDE DEF slacks
  <2> QED
    BY <1>1, LeastNat
<1>3. PICK m \in F : s = Cap - m
  OBVIOUS
<1>4. ASSUME NEW q \in F PROVE q <= m
  <2>1. s <= Cap - q
    BY <1>2
  <2> QED
    BY <1>3, <2>1, Constants
<1> QED
  BY <1>4

\* The block before another one.
LEMMA OneBefore ==
  ASSUME NEW nx, NEW F, Chain(nx, F), NEW p \in F, NEW s \in F, s < p
  PROVE  \E q \in F : s <= q /\ q < p /\ nx[q] = p
<1> DEFINE below == {q \in F : q < p}
<1>1. F \subseteq Units /\ Units \subseteq Nat
  BY Constants DEF Chain
<1>2. below \subseteq Units /\ below # {}
  BY <1>1
<1>3. PICK q \in below : \A r \in below : r <= q
  <2> HIDE DEF below
  <2> QED
    BY <1>2, LastOne
<1>4. q \in F /\ q < p /\ s <= q
  BY <1>3
<1>5. nx[q] \in F
  BY <1>4 DEF Chain
<1>6. \/ nx[q] > q /\ (p <= q \/ nx[q] <= p)
      \/ nx[q] = Header /\ p <= q
  BY <1>4 DEF Chain
<1>7. nx[q] > q /\ nx[q] <= p
  BY <1>1, <1>4, <1>5, <1>6
<1>8. ~ (nx[q] < p)
  <2> SUFFICES ASSUME nx[q] < p PROVE FALSE
    OBVIOUS
  <2>1. nx[q] \in below
    BY <1>5
  <2>2. nx[q] <= q
    BY <1>3, <2>1
  <2>3. nx[q] \in Nat /\ q \in Nat
    BY <1>1, <1>4, <1>5
  <2> QED
    BY <1>7, <2>2, <2>3
<1>9. nx[q] = p
  <2>1. nx[q] \in Nat /\ p \in Nat
    BY <1>1, <1>5
  <2> QED
    BY <1>7, <1>8, <2>1
<1> QED
  BY <1>4, <1>9

\* A walk of so many steps along links.
Steps == 0 .. Cap + 1

IsWalk(w, nx, s) == w[0] = s /\ \A k \in 1 .. Cap + 1 : w[k] = nx[w[k - 1]]

\* A walk that starts on the list stays on it.
LEMMA WalkStays ==
  ASSUME NEW nx, NEW F, Chain(nx, F), NEW s \in F, NEW w, IsWalk(w, nx, s)
  PROVE  \A k \in Steps : w[k] \in F
<1> DEFINE bad == {k \in Steps : w[k] \notin F}
<1>1. bad = {}
  <2> SUFFICES ASSUME bad # {} PROVE FALSE
    OBVIOUS
  <2>1. bad \subseteq Nat
    BY DEF Steps
  <2>2. PICK k \in bad : \A j \in bad : k <= j
    <3> HIDE DEF bad
    <3> QED
      BY <2>1, LeastNat
  <2>3. k \in Steps /\ w[k] \notin F /\ k # 0
    BY DEF IsWalk
  <2>4. k \in 1 .. Cap + 1 /\ k - 1 \in Steps /\ k - 1 \in Nat
    BY <2>3, Constants DEF Steps
  <2>5. k - 1 \notin bad
    BY <2>2, <2>4
  <2>6. w[k - 1] \in F
    BY <2>4, <2>5
  <2>7. w[k] = nx[w[k - 1]]
    BY <2>4 DEF IsWalk
  <2> QED
    BY <2>3, <2>6, <2>7 DEF Chain
<1> QED
  BY <1>1

\* Walk is such a walk: the recursive function exists.
LEMMA WalkIsWalk ==
  ASSUME NEW list, NEW F, Chain(list.next, F), list.start \in F
  PROVE  IsWalk(Walk(list), list.next, list.start)
<1> DEFINE Loop(h) == h = [k \in 0 .. Cap + 1 |->
                             IF k = 0 THEN list.start ELSE list.next[h[k - 1]]]
           turn == [x \in F |-> list.next[x]]
           step == [k \in 1 .. Cap + 1 |-> turn]
<1>1. step \in Turns(Cap + 1, F)
  <2>1. turn \in [F -> F]
    BY DEF Chain
  <2> HIDE DEF turn
  <2> QED
    BY <2>1 DEF Turns
<1>2. PICK f \in [0 .. Cap + 1 -> F] :
        f[0] = list.start /\ \A k \in 1 .. Cap + 1 : f[k] = step[k][f[k - 1]]
  <2>1. Cap + 1 \in Nat
    BY Constants
  <2> HIDE DEF step, Loop
  <2> QED
    BY <1>1, <2>1, LoopResult
<1>3. ASSUME NEW k \in 1 .. Cap + 1 PROVE f[k] = list.next[f[k - 1]]
  <2>1. f[k - 1] \in F
    BY Constants
  <2>2. f[k] = step[k][f[k - 1]]
    BY <1>2
  <2> QED
    BY <2>1, <2>2
<1>4. Loop(f)
  BY <1>2, <1>3, Constants
<1> DEFINE g == CHOOSE h : Loop(h)
<1>5. Loop(g)
  <2> HIDE DEF Loop
  <2> QED
    BY <1>4, Zenon
<1>6. Walk(list) = g
  BY DEF Walk
<1>7. IsWalk(g, list.next, list.start)
  <2> HIDE DEF g
  <2>1. g = [k \in 0 .. Cap + 1 |-> IF k = 0 THEN list.start ELSE list.next[g[k - 1]]]
    BY <1>5
  <2> QED
    BY <2>1, Constants DEF IsWalk
<1> QED
  BY <1>6, <1>7

\* From a block the walk reaches every block of a higher address, in no more steps than
\* there are units between them.
LEMMA WalkReaches ==
  ASSUME NEW nx, NEW F, Chain(nx, F), NEW s \in F, NEW w, IsWalk(w, nx, s),
         NEW j \in Steps, NEW p \in F, w[j] <= p, j + (p - w[j]) <= Cap + 1
  PROVE  \E k \in Steps : j <= k /\ k <= j + (p - w[j]) /\ w[k] = p
<1> DEFINE q == w[j]
           Reached(r) == \E k \in Steps : j <= k /\ k <= j + (r - q) /\ w[k] = r
           bad == {r \in F : q <= r /\ r <= p /\ ~Reached(r)}
<1>0. /\ F \subseteq Nat /\ q \in F /\ j \in Nat /\ Cap \in Nat
      /\ j + (p - q) <= Cap + 1
  <2>1. w[j] \in F
    BY WalkStays
  <2> QED
    BY <2>1, Constants DEF Chain, Steps
<1>1. bad = {}
  <2> SUFFICES ASSUME bad # {} PROVE FALSE
    OBVIOUS
  <2>1. bad \subseteq Nat
    BY <1>0
  <2>2. PICK r \in bad : \A t \in bad : r <= t
    <3> HIDE DEF bad
    <3> QED
      BY <2>1, LeastNat
  <2>3. r \in F /\ q <= r /\ r <= p /\ ~Reached(r)
    BY <2>2
  <2>4. r # q
    <3> SUFFICES ASSUME r = q PROVE FALSE
      OBVIOUS
    <3>1. j <= j /\ j <= j + (r - q) /\ w[j] = r
      BY <1>0
    <3>2. Reached(r)
      BY <3>1, Zenon
    <3> QED
      BY <2>3, <3>2
  <2>5. PICK t \in F : q <= t /\ t < r /\ nx[t] = r
    <3>1. q \in Nat /\ r \in Nat /\ q \in F
      BY <1>0, <2>3
    <3>2. q < r
      BY <2>3, <2>4, <3>1
    <3> HIDE DEF q, Reached
    <3> QED
      BY <2>3, <3>1, <3>2, OneBefore
  <2>6. t \notin bad
    BY <1>0, <2>2, <2>5
  <2>7. Reached(t)
    BY <1>0, <2>3, <2>5, <2>6
  <2>8. PICK k \in Steps : j <= k /\ k <= j + (t - q) /\ w[k] = t
    BY <2>7
  <2>9. k + 1 \in 1 .. Cap + 1 /\ k + 1 <= j + (r - q) /\ k + 1 \in Steps /\ (k + 1) - 1 = k
    <3> HIDE DEF q
    <3> QED
      BY <1>0, <2>3, <2>5, <2>8 DEF Steps
  <2>10. w[k + 1] = r
    BY <2>5, <2>8, <2>9 DEF IsWalk
  <2> QED
    BY <1>0, <2>3, <2>8, <2>9, <2>10 DEF Steps
<1> QED
  BY <1>0, <1>1

\* From any block the walk is back where it started after at least one step, and has been
\* at every block.
LEMMA WalkReturns ==
  ASSUME NEW nx, NEW F, Chain(nx, F), NEW s \in F, NEW w, IsWalk(w, nx, s)
  PROVE  \E k \in 1 .. Cap + 1 : w[k] = s
<1>0. /\ F \subseteq 0 .. Cap /\ Header \in F /\ Header = 0 /\ Cap \in Nat /\ s \in 0 .. Cap
      /\ w[0] = s /\ w[1] = nx[s] /\ 1 \in Steps
  <2>1. 1 \in 1 .. Cap + 1 /\ 1 - 1 = 0 /\ 1 \in 0 .. Cap + 1
    BY Constants
  <2>2. w[0] = s /\ w[1] = nx[s]
    BY <2>1 DEF IsWalk
  <2> QED
    BY <2>1, <2>2, Constants DEF Chain, Steps
<1>1. PICK m \in F : \A q \in F : q <= m
  BY LastOne DEF Chain
<1>2. nx[m] = Header
  <2>1. nx[m] \in F /\ nx[m] <= m
    BY <1>1 DEF Chain
  <2>2. nx[m] > m \/ nx[m] = Header
    BY DEF Chain
  <2>3. \A x \in F : x \in Int
    BY Constants DEF Chain
  <2> QED
    BY <2>1, <2>2, <2>3
<1>3. PICK j \in 1 .. Cap + 1 - s : w[j] = Header
  <2>1. CASE nx[s] = Header
    BY <1>0, <2>1
  <2>2. CASE nx[s] # Header
    <3>1. nx[s] \in F /\ nx[s] > s
      BY <2>2 DEF Chain
    <3>2. w[1] \in F
      BY <1>0, <3>1
    <3>3. w[1] \in Nat /\ m \in Nat /\ w[1] <= m /\ w[1] > s /\ m <= Cap
      <4>1. w[1] \in 0 .. Cap /\ m \in 0 .. Cap
        BY <1>0, <3>2
      <4>2. w[1] <= m
        BY <1>1, <3>2
      <4>3. w[1] > s
        BY <1>0, <3>1
      <4> QED
        BY <1>0, <4>1, <4>2, <4>3
    <3>4. PICK k \in Steps : 1 <= k /\ k <= 1 + (m - w[1]) /\ w[k] = m
      <4>1. 1 + (m - w[1]) <= Cap + 1
        BY <1>0, <3>3
      <4> QED
        BY <1>0, <3>3, <4>1, WalkReaches
    <3>5. k + 1 \in 1 .. Cap + 1 - s /\ k + 1 \in 1 .. Cap + 1 /\ (k + 1) - 1 = k
      BY <1>0, <3>3, <3>4 DEF Steps
    <3>6. w[k + 1] = Header
      BY <1>2, <3>4, <3>5 DEF IsWalk
    <3> QED
      BY <3>5, <3>6
  <2> QED
    BY <2>1, <2>2
<1>4. PICK k \in Steps : j <= k /\ k <= j + (s - w[j]) /\ w[k] = s
  <2>1. j \in Steps /\ w[j] <= s /\ j + (s - w[j]) <= Cap + 1
    BY <1>0, <1>3 DEF Steps
  <2> QED
    BY <2>1, WalkReaches
<1>5. k \in 1 .. Cap + 1
  BY <1>0, <1>4 DEF Steps
<1> QED
  BY <1>4, <1>5

\* A walk from a block on the list passes every block.
LEMMA WalkCovers ==
  ASSUME NEW nx, NEW F, Chain(nx, F), NEW s \in F, NEW w, IsWalk(w, nx, s)
  PROVE  \A p \in F : \E k \in 0 .. Cap : w[k] = p
<1>0. /\ F \subseteq 0 .. Cap /\ Header \in F /\ Header = 0 /\ Cap \in Nat /\ s \in 0 .. Cap
      /\ w[0] = s /\ 0 \in Steps
  BY Constants DEF Chain, IsWalk, Steps
<1>1. ASSUME NEW p \in F, s <= p
      PROVE  \E k \in Steps : k <= p - s /\ w[k] = p
  <2>1. w[0] <= p /\ 0 + (p - w[0]) <= Cap + 1 /\ 0 + (p - w[0]) = p - s
    BY <1>0, <1>1
  <2> QED
    BY <1>0, <2>1, WalkReaches
<1>2. PICK m \in F : \A q \in F : q <= m
  BY LastOne DEF Chain
<1>3. nx[m] = Header
  <2>1. nx[m] \in F /\ nx[m] <= m
    BY <1>2 DEF Chain
  <2>2. nx[m] > m \/ nx[m] = Header
    BY DEF Chain
  <2>3. \A x \in F : x \in Int
    BY Constants DEF Chain
  <2> QED
    BY <2>1, <2>2, <2>3
<1>4. PICK e \in Steps : e <= m - s /\ w[e] = m
  BY <1>1, <1>2
<1>5. /\ e + 1 \in 1 .. Cap + 1 /\ (e + 1) - 1 = e /\ e + 1 \in Steps
      /\ e + 1 <= Cap + 1 - s
  BY <1>0, <1>2, <1>4 DEF Steps
<1>6. w[e + 1] = Header
  BY <1>3, <1>4, <1>5 DEF IsWalk
<1>7. ASSUME NEW p \in F
      PROVE  \E k \in 0 .. Cap : w[k] = p
  <2>1. CASE s <= p
    <3>1. PICK k \in Steps : k <= p - s /\ w[k] = p
      BY <1>1, <2>1
    <3>2. k \in 0 .. Cap
      BY <1>0, <3>1 DEF Steps
    <3> QED
      BY <3>1, <3>2
  <2>2. CASE p < s
    <3>1. w[e + 1] <= p /\ (e + 1) + (p - w[e + 1]) <= Cap
      BY <1>0, <1>5, <1>6, <2>2
    <3>2. PICK k \in Steps : k <= (e + 1) + (p - w[e + 1]) /\ w[k] = p
      <4>1. (e + 1) + (p - w[e + 1]) <= Cap + 1
        BY <1>0, <1>5, <1>6, <3>1 DEF Steps
      <4> QED
        BY <1>5, <3>1, <4>1, WalkReaches
    <3>3. k \in 0 .. Cap
      BY <1>0, <1>5, <1>6, <3>1, <3>2 DEF Steps
    <3> QED
      BY <3>2, <3>3
  <2> QED
    BY <1>0, <2>1, <2>2
<1> QED
  BY <1>7

-----------------------------------------------------------------------------
(* The blocks. *)

\* The free blocks of a list and the blocks callers hold.
Blocks(F, L) == (F \ {Header}) \union L

\* They tile the memory: they follow one another and leave nothing out.
Tiling(sz, F, L) ==
  /\ sz \in [Units -> 0 .. Cap] /\ sz[Header] = 0
  /\ L \subseteq Units \ F
  /\ \A b \in Blocks(F, L) : sz[b] >= 1 /\ b + sz[b] <= Cap + 1
  /\ \A b, c \in Blocks(F, L) : b < c => b + sz[b] <= c
  /\ \A u \in 1 .. Cap : \E b \in Blocks(F, L) : b <= u /\ u < b + sz[b]

\* No two free blocks touch.
Apart(sz, F) == \A p, q \in F \ {Header} : p + sz[p] # q

\* The free units.
Stretch(sz, F) == UNION {b .. b + sz[b] - 1 : b \in F \ {Header}}

\* The list and the blocks between two calls.
Shape(nx, sz, F, L, n) ==
  /\ Chain(nx, F)
  /\ Tiling(sz, F, L)
  /\ Apart(sz, F)
  /\ Cardinality(Stretch(sz, F)) = n

\* Units are numbers.
LEMMA Addresses ==
  ASSUME NEW nx, NEW F, Chain(nx, F)
  PROVE  /\ \A p \in F : p \in Nat /\ p <= Cap /\ p \in Units
         /\ Header \in F /\ Header = 0 /\ Cap \in Nat
         /\ \A p \in F : nx[p] \in F
BY Constants DEF Chain

LEMMA BlockAddresses ==
  ASSUME NEW sz, NEW F, NEW L, F \subseteq Units, Tiling(sz, F, L)
  PROVE  /\ \A b \in Blocks(F, L) : b \in 1 .. Cap /\ b \in Units /\ sz[b] \in 1 .. Cap
         /\ Header \notin L
BY Constants DEF Tiling, Blocks

\* Taking the block after another one off the list.
LEMMA UnlinkKeepsChain ==
  ASSUME NEW nx, NEW F, Chain(nx, F), NEW last \in F, nx[last] # Header
  PROVE  /\ last # nx[last]
         /\ Chain([nx EXCEPT ![last] = nx[nx[last]]], F \ {nx[last]})
<1> DEFINE curr == nx[last]
           ny == [nx EXCEPT ![last] = nx[curr]]
           G == F \ {curr}
<1>1. /\ \A p \in F : p \in Nat /\ p \in Units
      /\ Header \in F /\ curr \in F /\ nx[curr] \in F
  BY Addresses
<1>2. curr > last /\ \A q \in F : q <= last \/ curr <= q
  BY DEF Chain
<1>3. \/ nx[curr] > curr /\ \A q \in F : q <= curr \/ nx[curr] <= q
      \/ nx[curr] = Header /\ \A q \in F : q <= curr
  BY <1>1 DEF Chain
<1>4. last # curr /\ last \in G
  BY <1>1, <1>2
<1>5. ny \in [Units -> Units] /\ ny[last] = nx[curr] /\ \A p \in F \ {last} : ny[p] = nx[p]
  BY <1>1 DEF Chain
<1>6. /\ ny[last] \in G
      /\ \/ ny[last] > last /\ \A q \in G : q <= last \/ ny[last] <= q
         \/ ny[last] = Header /\ \A q \in G : q <= last
  <2> HIDE DEF curr, ny
  <2>1. \A q \in G : q \in F /\ q # curr /\ q \in Nat
    BY <1>1
  <2>2. CASE nx[curr] > curr /\ \A q \in F : q <= curr \/ nx[curr] <= q
    <3>1. nx[curr] > last /\ nx[curr] \in G
      BY <1>1, <1>2, <2>2
    <3>2. \A q \in G : q <= last \/ nx[curr] <= q
      BY <1>1, <1>2, <2>1, <2>2
    <3> QED
      BY <1>5, <3>1, <3>2
  <2>3. CASE nx[curr] = Header /\ \A q \in F : q <= curr
    <3>1. \A q \in G : q <= last
      BY <1>1, <1>2, <2>1, <2>3
    <3>2. Header \in G
      BY <1>1, <1>2, Constants
    <3> QED
      BY <1>5, <2>3, <3>1, <3>2
  <2> QED
    BY <1>3, <2>2, <2>3
<1>7. ASSUME NEW p \in G, p # last
      PROVE  /\ ny[p] \in G
             /\ \/ ny[p] > p /\ \A q \in G : q <= p \/ ny[p] <= q
                \/ ny[p] = Header /\ \A q \in G : q <= p
  <2> HIDE DEF curr, ny
  <2>1. p \in F /\ ny[p] = nx[p]
    BY <1>5, <1>7
  <2>2. /\ nx[p] \in F
        /\ \/ nx[p] > p /\ \A q \in F : q <= p \/ nx[p] <= q
           \/ nx[p] = Header /\ \A q \in F : q <= p
    BY <2>1 DEF Chain
  <2>3. nx[p] # curr
    <3> SUFFICES ASSUME nx[p] = curr PROVE FALSE
      OBVIOUS
    <3>1. curr # Header
      BY DEF curr
    <3>2. curr > p /\ last <= p
      BY <1>1, <1>2, <2>2, <3>1
    <3>3. p <= last
      BY <1>1, <1>2, <2>1, <3>2
    <3> QED
      BY <1>1, <1>7, <2>1, <3>2, <3>3
  <2> QED
    BY <2>1, <2>2, <2>3
<1>8. G \subseteq Units /\ Header \in G
  BY <1>1
<1>9. Chain(ny, G)
  <2> HIDE DEF ny, G, curr
  <2> QED
    BY <1>5, <1>6, <1>7, <1>8 DEF Chain
<1> QED
  BY <1>4, <1>9

\* Putting a block on the list between two others, or behind the last one.
LEMMA LinkKeepsChain ==
  ASSUME NEW nx, NEW F, Chain(nx, F), NEW b \in Units \ F, NEW p \in F,
         p < b, nx[p] = Header \/ b < nx[p]
  PROVE  Chain([nx EXCEPT ![b] = nx[p], ![p] = b], F \union {b})
<1> DEFINE q == nx[p]
           ny == [nx EXCEPT ![b] = q, ![p] = b]
           G == F \union {b}
<1>1. /\ \A r \in F : r \in Nat /\ r \in Units
      /\ Header \in F /\ Header = 0 /\ q \in F /\ p # b
      /\ p \in Nat /\ b \in Nat /\ q \in Nat
  <2>1. b \in Nat
    BY Constants
  <2>2. \A r \in F : r \in Nat /\ r \in Units
    BY Addresses
  <2>3. Header \in F /\ Header = 0 /\ q \in F
    BY Addresses
  <2> QED
    BY <2>1, <2>2, <2>3
<1>2. \/ q > p /\ \A r \in F : r <= p \/ q <= r
      \/ q = Header /\ \A r \in F : r <= p
  BY DEF Chain
<1>3. /\ ny \in [Units -> Units] /\ ny[b] = q /\ ny[p] = b
      /\ \A r \in F \ {p} : ny[r] = nx[r]
  BY <1>1 DEF Chain
<1> HIDE DEF q, ny
<1>4. q = Header \/ b < q
  BY DEF q
<1>5. /\ ny[b] \in G
      /\ \/ ny[b] > b /\ \A r \in G : r <= b \/ ny[b] <= r
         \/ ny[b] = Header /\ \A r \in G : r <= b
  <2>0. b <= b
    BY <1>1
  <2>1. CASE q > p /\ \A r \in F : r <= p \/ q <= r
    <3>1. q > b
      BY <1>1, <1>4, <2>1
    <3>2. \A r \in F : r <= b \/ q <= r
      BY <1>1, <2>1
    <3> QED
      BY <1>1, <1>3, <2>0, <3>1, <3>2
  <2>2. CASE q = Header /\ \A r \in F : r <= p
    <3>1. \A r \in F : r <= b
      BY <1>1, <2>2
    <3> QED
      BY <1>1, <1>3, <2>0, <2>2, <3>1
  <2> QED
    BY <1>2, <2>1, <2>2
<1>6. /\ ny[p] \in G
      /\ ny[p] > p /\ \A r \in G : r <= p \/ ny[p] <= r
  <2>1. \A r \in F : r <= p \/ b <= r
    BY <1>1, <1>2, <1>4
  <2>2. b > p /\ b <= b
    BY <1>1
  <2> QED
    BY <1>3, <2>1, <2>2
<1>7. ASSUME NEW r \in F, r # p
      PROVE  /\ ny[r] \in G
             /\ \/ ny[r] > r /\ \A t \in G : t <= r \/ ny[r] <= t
                \/ ny[r] = Header /\ \A t \in G : t <= r
  <2>1. /\ nx[r] \in F
        /\ \/ nx[r] > r /\ \A t \in F : t <= r \/ nx[r] <= t
           \/ nx[r] = Header /\ \A t \in F : t <= r
    BY DEF Chain
  <2>2. nx[r] \in Nat /\ r \in Nat /\ p \in Nat /\ q \in Nat /\ b \in Nat
    BY <1>1, <2>1
  <2>3. CASE nx[r] > r /\ \A t \in F : t <= r \/ nx[r] <= t
    <3>1. b <= r \/ nx[r] <= b
      BY <1>1, <1>2, <1>4, <1>7, <2>2, <2>3
    <3> QED
      BY <1>3, <1>7, <2>1, <2>3, <3>1
  <2>4. CASE nx[r] = Header /\ \A t \in F : t <= r
    <3>1. p < r /\ q # Header
      BY <1>1, <1>2, <1>7, <2>2, <2>4
    <3>2. b < r
      BY <1>1, <1>4, <2>2, <2>4, <3>1
    <3> QED
      BY <1>3, <1>7, <2>1, <2>2, <2>4, <3>2
  <2> QED
    BY <2>1, <2>3, <2>4
<1>8. G \subseteq Units /\ Header \in G
  BY <1>1
<1>9. Chain(ny, G)
  <2> HIDE DEF G
  <2>1. \A r \in G : r = b \/ r = p \/ r \in F
    BY DEF G
  <2> QED
    BY <1>3, <1>5, <1>6, <1>7, <1>8, <2>1 DEF Chain
<1> QED
  BY <1>9 DEF ny, q

\* What a tiling says of two blocks and of a unit, in numbers.
LEMMA TilingFacts ==
  ASSUME NEW sz, NEW F, NEW L, F \subseteq Units, Tiling(sz, F, L)
  PROVE  /\ \A b \in Blocks(F, L) :
              b \in Nat /\ b >= 1 /\ sz[b] \in Nat /\ sz[b] >= 1 /\ b + sz[b] <= Cap + 1
         /\ \A b, c \in Blocks(F, L) : b < c => b + sz[b] <= c
         /\ \A u \in 1 .. Cap : \E b \in Blocks(F, L) : b <= u /\ u < b + sz[b]
<1>1. \A b \in Blocks(F, L) : b \in 1 .. Cap /\ sz[b] \in 1 .. Cap
  BY BlockAddresses
<1>2. \A b \in Blocks(F, L) : b + sz[b] <= Cap + 1
  BY DEF Tiling
<1>3. \A x \in 1 .. Cap : x \in Nat /\ x >= 1
  BY Constants
<1>4. \A b \in Blocks(F, L) :
        b \in Nat /\ b >= 1 /\ sz[b] \in Nat /\ sz[b] >= 1 /\ b + sz[b] <= Cap + 1
  BY <1>1, <1>2, <1>3
<1> QED
  BY <1>4 DEF Tiling

\* A free block that is handed out as a whole, and a block that is handed back: the
\* blocks are the same.
LEMMA HandOutTiles ==
  ASSUME NEW sz, NEW F, NEW L, F \subseteq Units, Tiling(sz, F, L), NEW c \in F, c # Header
  PROVE  Tiling(sz, F \ {c}, L \union {c})
<1>1. Blocks(F \ {c}, L \union {c}) = Blocks(F, L)
  BY DEF Blocks
<1>2. L \union {c} \subseteq Units \ (F \ {c})
  BY DEF Tiling
<1> QED
  BY <1>1, <1>2 DEF Tiling

LEMMA HandBackTiles ==
  ASSUME NEW sz, NEW F, NEW L, F \subseteq Units, Tiling(sz, F, L), NEW b \in L
  PROVE  Tiling(sz, F \union {b}, L \ {b})
<1>1. b # Header
  BY BlockAddresses
<1>2. Blocks(F \union {b}, L \ {b}) = Blocks(F, L)
  BY <1>1 DEF Blocks
<1>3. L \ {b} \subseteq Units \ (F \union {b})
  BY DEF Tiling
<1> QED
  BY <1>2, <1>3 DEF Tiling

\* A free block that gives away its tail.
LEMMA SplitTiles ==
  ASSUME NEW sz, NEW F, NEW L, F \subseteq Units, Tiling(sz, F, L), NEW c \in F, c # Header,
         NEW n \in Nat \ {0}, n < sz[c]
  PROVE  LET got == c + (sz[c] - n)
             rz  == [sz EXCEPT ![c] = sz[c] - n, ![got] = n]
         IN /\ got \in 1 .. Cap /\ got \notin F /\ got \notin L /\ got > c
            /\ rz[got] = n /\ rz[c] = sz[c] - n
            /\ \A x \in Units : x # c /\ x # got => rz[x] = sz[x]
            /\ Tiling(rz, F, L \union {got})
<1> DEFINE B == Blocks(F, L)
           got == c + (sz[c] - n)
           rz == [sz EXCEPT ![c] = sz[c] - n, ![got] = n]
           D == Blocks(F, L \union {got})
<1>1. /\ \A b \in B : b \in Nat /\ b >= 1 /\ sz[b] \in Nat /\ sz[b] >= 1 /\ b + sz[b] <= Cap + 1
      /\ \A b, d \in B : b < d => b + sz[b] <= d
      /\ \A u \in 1 .. Cap : \E b \in B : b <= u /\ u < b + sz[b]
  BY TilingFacts
<1>2. c \in B /\ c \in Nat /\ sz[c] \in Nat /\ Cap \in Nat
  <2>1. c \in B
    BY DEF Blocks
  <2> QED
    BY <1>1, <2>1, Constants
<1>3. /\ got \in Nat /\ got > c /\ got + n = c + sz[c] /\ got <= Cap /\ got >= 1
      /\ got + n <= Cap + 1 /\ got \in Units
  <2>1. c + sz[c] <= Cap + 1 /\ c >= 1
    BY <1>1, <1>2
  <2>2. /\ got \in Nat /\ got > c /\ got + n = c + sz[c] /\ got <= Cap /\ got >= 1
        /\ got + n <= Cap + 1
    BY <1>2, <2>1
  <2> HIDE DEF got
  <2>3. got \in 0 .. Cap
    BY <1>2, <2>2
  <2> QED
    BY <2>2, <2>3, Constants
<1>4. got \notin B
  <2> SUFFICES ASSUME got \in B PROVE FALSE
    OBVIOUS
  <2> HIDE DEF B, got
  <2>1. c + sz[c] <= got
    BY <1>1, <1>2, <1>3
  <2> QED
    BY <1>2, <1>3, <2>1
<1>5. D = B \union {got} /\ got # Header /\ got \notin F /\ got \notin L
  <2>1. got # Header
    BY <1>3, Constants
  <2> HIDE DEF got
  <2> QED
    BY <1>4, <2>1 DEF Blocks
<1>6. /\ rz \in [Units -> 0 .. Cap] /\ rz[got] = n /\ rz[c] = sz[c] - n
      /\ \A x \in Units : x # c /\ x # got => rz[x] = sz[x]
  <2>1. sz \in [Units -> 0 .. Cap] /\ c \in Units /\ got \in Units /\ got # c
    <3> HIDE DEF got
    <3> QED
      BY <1>2, <1>3 DEF Tiling
  <2>2. n \in 0 .. Cap /\ sz[c] - n \in 0 .. Cap
    BY <1>1, <1>2, <1>3
  <2> HIDE DEF got
  <2> QED
    BY <2>1, <2>2
<1>7. rz[Header] = 0
  BY <1>5, <1>6, Constants DEF Tiling
<1>8. B \subseteq Units
  BY BlockAddresses
<1>9. \A b \in D : rz[b] >= 1 /\ b + rz[b] <= Cap + 1
  <2> SUFFICES ASSUME NEW b \in D PROVE rz[b] >= 1 /\ b + rz[b] <= Cap + 1
    OBVIOUS
  <2> HIDE DEF B, D, got, rz
  <2>1. CASE b = got
    BY <1>2, <1>3, <1>6, <2>1
  <2>2. CASE b = c
    BY <1>1, <1>2, <1>6, <2>2
  <2>3. CASE b # got /\ b # c
    <3>1. b \in B
      BY <1>5, <2>3
    <3> QED
      BY <1>1, <1>6, <1>8, <2>3, <3>1
  <2> QED
    BY <2>1, <2>2, <2>3
<1>10. \A b, d \in D : b < d => b + rz[b] <= d
  <2> SUFFICES ASSUME NEW b \in D, NEW d \in D, b < d PROVE b + rz[b] <= d
    OBVIOUS
  <2> HIDE DEF B, D, got, rz
  <2>0. b \in Nat /\ d \in Nat
    BY <1>1, <1>3, <1>5
  <2>1. CASE b = got
    <3>1. d \in B /\ c < d
      BY <1>2, <1>3, <1>5, <2>0, <2>1
    <3>2. c + sz[c] <= d
      BY <1>1, <1>2, <3>1
    <3> QED
      BY <1>3, <1>6, <2>1, <3>2
  <2>2. CASE b = c
    <3>1. CASE d = got
      BY <1>2, <1>3, <1>6, <2>2, <3>1
    <3>2. CASE d # got
      <4>1. c + sz[c] <= d
        BY <1>1, <1>2, <1>5, <2>2, <3>2
      <4> QED
        BY <1>2, <1>6, <2>0, <2>2, <4>1
    <3> QED
      BY <3>1, <3>2
  <2>3. CASE b # got /\ b # c
    <3>1. b \in B /\ rz[b] = sz[b]
      BY <1>5, <1>6, <1>8, <2>3
    <3>2. CASE d = got
      <4>1. b < c
        <5> SUFFICES ASSUME c < b PROVE FALSE
          BY <1>2, <2>0, <2>3
        <5>1. c + sz[c] <= b
          BY <1>1, <1>2, <3>1
        <5> QED
          BY <1>2, <1>3, <2>0, <3>2, <5>1
      <4>2. b + sz[b] <= c /\ sz[b] \in Nat
        BY <1>1, <1>2, <3>1, <4>1
      <4> QED
        BY <1>2, <1>3, <2>0, <3>1, <3>2, <4>2
    <3>3. CASE d # got
      BY <1>1, <1>5, <3>1, <3>3
    <3> QED
      BY <3>2, <3>3
  <2> QED
    BY <2>1, <2>2, <2>3
<1>11. \A u \in 1 .. Cap : \E b \in D : b <= u /\ u < b + rz[b]
  <2> SUFFICES ASSUME NEW u \in 1 .. Cap PROVE \E b \in D : b <= u /\ u < b + rz[b]
    OBVIOUS
  <2>1. PICK b \in B : b <= u /\ u < b + sz[b]
    BY <1>1
  <2> HIDE DEF B, D, got, rz
  <2>2. CASE b # c
    <3>1. b \in D /\ rz[b] = sz[b]
      BY <1>4, <1>5, <1>6, <1>8, <2>2
    <3> QED
      BY <2>1, <3>1
  <2>3. CASE b = c /\ u < got
    <3>1. c \in D /\ u < c + rz[c]
      BY <1>2, <1>3, <1>5, <1>6, <2>3
    <3> QED
      BY <2>1, <2>3, <3>1
  <2>4. CASE b = c /\ ~ (u < got)
    <3>1. got \in D /\ got <= u /\ u < got + rz[got]
      BY <1>2, <1>3, <1>5, <1>6, <2>1, <2>4
    <3> QED
      BY <3>1
  <2> QED
    BY <2>2, <2>3, <2>4
<1>12. L \union {got} \subseteq Units \ F
  <2> HIDE DEF got
  <2> QED
    BY <1>3, <1>5 DEF Tiling
<1>13. Tiling(rz, F, L \union {got})
  <2> HIDE DEF rz, got
  <2> QED
    BY <1>6, <1>7, <1>9, <1>10, <1>11, <1>12 DEF Tiling
<1>14. got \in 1 .. Cap
  BY <1>3, Constants
<1> QED
  BY <1>3, <1>5, <1>6, <1>13, <1>14

\* A free block that takes in the free block that begins where it ends.
LEMMA MergeTiles ==
  ASSUME NEW sz, NEW F, NEW L, F \subseteq Units, Tiling(sz, F, L),
         NEW x \in F, x # Header, NEW y \in F, y # Header, x + sz[x] = y
  PROVE  LET rz == [sz EXCEPT ![x] = sz[x] + sz[y]]
         IN /\ rz[x] = sz[x] + sz[y]
            /\ \A z \in Units : z # x => rz[z] = sz[z]
            /\ Tiling(rz, F \ {y}, L)
<1> DEFINE B == Blocks(F, L)
           rz == [sz EXCEPT ![x] = sz[x] + sz[y]]
           D == Blocks(F \ {y}, L)
<1>1. /\ \A b \in B : b \in Nat /\ b >= 1 /\ sz[b] \in Nat /\ sz[b] >= 1 /\ b + sz[b] <= Cap + 1
      /\ \A b, d \in B : b < d => b + sz[b] <= d
      /\ \A u \in 1 .. Cap : \E b \in B : b <= u /\ u < b + sz[b]
  BY TilingFacts
<1>2. x \in B /\ y \in B /\ B \subseteq Units /\ Cap \in Nat
  <2>1. x \in B /\ y \in B
    BY DEF Blocks
  <2> QED
    BY <2>1, BlockAddresses, Constants
<1>3. /\ x \in Nat /\ y \in Nat /\ sz[x] \in Nat /\ sz[y] \in Nat /\ sz[x] >= 1 /\ sz[y] >= 1
      /\ x >= 1 /\ y + sz[y] <= Cap + 1
  BY <1>1, <1>2
<1>4. D = B \ {y} /\ y \notin L /\ x # y
  <2>1. y \notin L
    BY DEF Tiling
  <2>2. x # y
    BY <1>3
  <2> QED
    BY <2>1, <2>2 DEF Blocks
<1>5. /\ rz \in [Units -> 0 .. Cap] /\ rz[x] = sz[x] + sz[y]
      /\ \A z \in Units : z # x => rz[z] = sz[z]
  <2>1. sz \in [Units -> 0 .. Cap] /\ x \in Units
    BY <1>2 DEF Tiling
  <2>2. sz[x] + sz[y] \in 0 .. Cap
    BY <1>2, <1>3
  <2> QED
    BY <2>1, <2>2
<1>6. rz[Header] = 0
  BY <1>5, Constants DEF Tiling
<1> HIDE DEF B, D, rz
<1>7. \A b \in D : rz[b] >= 1 /\ b + rz[b] <= Cap + 1
  <2> SUFFICES ASSUME NEW b \in D PROVE rz[b] >= 1 /\ b + rz[b] <= Cap + 1
    OBVIOUS
  <2>1. CASE b = x
    BY <1>2, <1>3, <1>5, <2>1
  <2>2. CASE b # x
    BY <1>1, <1>2, <1>4, <1>5, <2>2
  <2> QED
    BY <2>1, <2>2
<1>8. \A b, d \in D : b < d => b + rz[b] <= d
  <2> SUFFICES ASSUME NEW b \in D, NEW d \in D, b < d PROVE b + rz[b] <= d
    OBVIOUS
  <2>0. b \in B /\ d \in B /\ b \in Nat /\ d \in Nat /\ d # y
    BY <1>1, <1>4
  <2>1. CASE b = x
    <3>1. x + sz[x] <= d
      BY <1>1, <1>2, <2>0, <2>1
    <3>2. y < d
      BY <1>3, <2>0, <3>1
    <3>3. y + sz[y] <= d
      BY <1>1, <1>2, <2>0, <3>2
    <3> QED
      BY <1>3, <1>5, <2>0, <2>1, <3>3
  <2>2. CASE b # x
    BY <1>1, <1>2, <1>5, <2>0, <2>2
  <2> QED
    BY <2>1, <2>2
<1>9. \A u \in 1 .. Cap : \E b \in D : b <= u /\ u < b + rz[b]
  <2> SUFFICES ASSUME NEW u \in 1 .. Cap PROVE \E b \in D : b <= u /\ u < b + rz[b]
    OBVIOUS
  <2>1. PICK b \in B : b <= u /\ u < b + sz[b]
    BY <1>1
  <2>2. CASE b # x /\ b # y
    BY <1>2, <1>4, <1>5, <2>1, <2>2
  <2>3. CASE b = x \/ b = y
    <3>1. x \in D /\ x <= u /\ u < x + rz[x]
      BY <1>2, <1>3, <1>4, <1>5, <2>1, <2>3
    <3> QED
      BY <3>1
  <2> QED
    BY <2>2, <2>3
<1>10. L \subseteq Units \ (F \ {y})
  BY DEF Tiling
<1>11. Tiling(rz, F \ {y}, L)
  BY <1>5, <1>6, <1>7, <1>8, <1>9, <1>10 DEF Tiling, D
<1> QED
  BY <1>5, <1>11 DEF rz

-----------------------------------------------------------------------------
(* The number of free units. *)

\* A unit is free when a block on the list covers it.
LEMMA FreeUnits ==
  ASSUME NEW sz, NEW F, NEW L, F \subseteq Units, Tiling(sz, F, L)
  PROVE  /\ \A u : u \in Stretch(sz, F) <=>
                     u \in Int /\ \E b \in F \ {Header} : b <= u /\ u < b + sz[b]
         /\ Stretch(sz, F) \subseteq 1 .. Cap
         /\ IsFiniteSet(Stretch(sz, F))
<1>1. \A b \in F \ {Header} :
        b \in Nat /\ b >= 1 /\ sz[b] \in Nat /\ b + sz[b] <= Cap + 1
  BY TilingFacts DEF Blocks
<1>2. ASSUME NEW u, NEW b \in F \ {Header}
      PROVE  u \in b .. b + sz[b] - 1 <=> u \in Int /\ b <= u /\ u < b + sz[b]
  <2>1. b \in Int /\ sz[b] \in Int
    BY <1>1
  <2> QED
    BY <2>1
<1>3. \A u : u \in Stretch(sz, F) <=> \E b \in F \ {Header} : u \in b .. b + sz[b] - 1
  BY DEF Stretch
<1>4. \A u : u \in Stretch(sz, F) <=>
               u \in Int /\ \E b \in F \ {Header} : b <= u /\ u < b + sz[b]
  BY <1>2, <1>3
<1>5. Stretch(sz, F) \subseteq 1 .. Cap
  <2> SUFFICES ASSUME NEW u \in Stretch(sz, F) PROVE u \in 1 .. Cap
    OBVIOUS
  <2>1. PICK b \in F \ {Header} : u \in Int /\ b <= u /\ u < b + sz[b]
    BY <1>4
  <2> QED
    BY <1>1, <2>1, Constants
<1>6. IsFiniteSet(Stretch(sz, F))
  <2>1. IsFiniteSet(1 .. Cap)
    BY FS_Interval, Constants
  <2> QED
    BY <1>5, <2>1, FS_Subset
<1> QED
  BY <1>4, <1>5, <1>6

\* A run of units that is added to others.
LEMMA AddRun ==
  ASSUME NEW S, IsFiniteSet(S), NEW a \in Nat, NEW k \in Nat,
         S \intersect (a .. a + k - 1) = {}
  PROVE  Cardinality(S \union (a .. a + k - 1)) = Cardinality(S) + k
<1>1. IsFiniteSet(a .. a + k - 1) /\ Cardinality(a .. a + k - 1) = k
  <2>1. a \in Int /\ a + k - 1 \in Int
    OBVIOUS
  <2>2. /\ IsFiniteSet(a .. a + k - 1)
        /\ Cardinality(a .. a + k - 1) = IF a > a + k - 1 THEN 0 ELSE (a + k - 1) - a + 1
    BY <2>1, FS_Interval
  <2> QED
    BY <2>2
<1>2. Cardinality({}) = 0
  BY FS_EmptySet
<1>3. Cardinality(S) \in Nat
  BY FS_CardinalityType
<1> DEFINE T == a .. a + k - 1
<1> HIDE DEF T
<1>4. Cardinality(S \union T)
        = Cardinality(S) + Cardinality(T) - Cardinality(S \intersect T)
  <2>1. IsFiniteSet(T)
    BY <1>1 DEF T
  <2> QED
    BY <2>1, FS_Union
<1>5. Cardinality(S \intersect T) = 0 /\ Cardinality(T) = k
  BY <1>1, <1>2 DEF T
<1>6. Cardinality(S \union T) = Cardinality(S) + k
  BY <1>3, <1>4, <1>5
<1> QED
  BY <1>6 DEF T

\* A block that joins the list adds its units; so a block that leaves it takes them.
LEMMA StretchOfOneMore ==
  ASSUME NEW sz, NEW F, NEW L, F \subseteq Units, Tiling(sz, F, L),
         NEW c \in F, c # Header
  PROVE  Cardinality(Stretch(sz, F)) = Cardinality(Stretch(sz, F \ {c})) + sz[c]
<1> DEFINE G == F \ {c}
           M == L \union {c}
<1>1. Tiling(sz, G, M) /\ G \subseteq Units
  BY HandOutTiles
<1>2. /\ \A b \in F \ {Header} : b \in Nat /\ sz[b] \in Nat
      /\ \A b, d \in F \ {Header} : b < d => b + sz[b] <= d
  BY TilingFacts DEF Blocks
<1>3. /\ \A u : u \in Stretch(sz, F) <=>
                  u \in Int /\ \E b \in F \ {Header} : b <= u /\ u < b + sz[b]
      /\ \A u : u \in Stretch(sz, G) <=>
                  u \in Int /\ \E b \in G \ {Header} : b <= u /\ u < b + sz[b]
      /\ IsFiniteSet(Stretch(sz, G))
  <2> HIDE DEF G, M
  <2> QED
    BY <1>1, FreeUnits
<1>4. c \in Nat /\ sz[c] \in Nat
  BY <1>2
<1>5. \A u : u \in c .. c + sz[c] - 1 <=> u \in Int /\ c <= u /\ u < c + sz[c]
  BY <1>4
<1>6. Stretch(sz, F) = Stretch(sz, G) \union (c .. c + sz[c] - 1)
  <2>1. ASSUME NEW u \in Stretch(sz, F) PROVE u \in Stretch(sz, G) \union (c .. c + sz[c] - 1)
    <3>1. PICK b \in F \ {Header} : u \in Int /\ b <= u /\ u < b + sz[b]
      BY <1>3
    <3>2. CASE b = c
      BY <1>5, <3>1, <3>2
    <3>3. CASE b # c
      <4>1. b \in G \ {Header}
        BY <3>3
      <4> QED
        BY <1>3, <3>1, <4>1
    <3> QED
      BY <3>2, <3>3
  <2>2. ASSUME NEW u \in Stretch(sz, G) PROVE u \in Stretch(sz, F)
    BY <1>3
  <2>3. ASSUME NEW u \in c .. c + sz[c] - 1 PROVE u \in Stretch(sz, F)
    BY <1>3, <1>5
  <2> QED
    BY <2>1, <2>2, <2>3
<1>7. Stretch(sz, G) \intersect (c .. c + sz[c] - 1) = {}
  <2> SUFFICES ASSUME NEW u \in Stretch(sz, G), u \in c .. c + sz[c] - 1 PROVE FALSE
    OBVIOUS
  <2>1. PICK b \in G \ {Header} : u \in Int /\ b <= u /\ u < b + sz[b]
    BY <1>3
  <2>2. u \in Int /\ c <= u /\ u < c + sz[c]
    BY <1>5
  <2>3. b \in F \ {Header} /\ b # c /\ b \in Nat /\ sz[b] \in Nat
    BY <1>2
  <2>4. b < c \/ c < b
    BY <1>4, <2>3
  <2>5. b + sz[b] <= c \/ c + sz[c] <= b
    BY <1>2, <2>3, <2>4
  <2> QED
    BY <1>4, <2>1, <2>2, <2>3, <2>5
<1> QED
  BY <1>3, <1>4, <1>6, <1>7, AddRun

\* The free units depend on the sizes of the blocks on the list only.
LEMMA StretchOfSizes ==
  ASSUME NEW sz, NEW rz, NEW F, \A b \in F \ {Header} : rz[b] = sz[b]
  PROVE  Stretch(rz, F) = Stretch(sz, F)
<1>1. \A u : u \in Stretch(rz, F) <=> \E b \in F \ {Header} : u \in b .. b + rz[b] - 1
  BY DEF Stretch
<1>2. \A u : u \in Stretch(sz, F) <=> \E b \in F \ {Header} : u \in b .. b + sz[b] - 1
  BY DEF Stretch
<1> QED
  BY <1>1, <1>2

\* Two free blocks that become one cover the same units.
LEMMA StretchOfMerged ==
  ASSUME NEW sz, NEW F, NEW L, F \subseteq Units, Tiling(sz, F, L),
         NEW x \in F, x # Header, NEW y \in F, y # Header, x + sz[x] = y
  PROVE  Stretch([sz EXCEPT ![x] = sz[x] + sz[y]], F \ {y}) = Stretch(sz, F)
<1> DEFINE rz == [sz EXCEPT ![x] = sz[x] + sz[y]]
           G == F \ {y}
<1>1. /\ rz[x] = sz[x] + sz[y] /\ \A z \in Units : z # x => rz[z] = sz[z]
      /\ Tiling(rz, G, L) /\ G \subseteq Units
  BY MergeTiles
<1>2. /\ \A b \in F \ {Header} : b \in Nat /\ sz[b] \in Nat /\ sz[b] >= 1 /\ b \in Units
  BY TilingFacts DEF Blocks
<1> HIDE DEF rz
<1>3. /\ \A u : u \in Stretch(sz, F) <=>
                  u \in Int /\ \E b \in F \ {Header} : b <= u /\ u < b + sz[b]
      /\ \A u : u \in Stretch(rz, G) <=>
                  u \in Int /\ \E b \in G \ {Header} : b <= u /\ u < b + rz[b]
  <2> HIDE DEF G
  <2> QED
    BY <1>1, FreeUnits
<1>4. x \in Nat /\ y \in Nat /\ sz[x] \in Nat /\ sz[y] \in Nat /\ x # y /\ x \in G \ {Header}
  <2>1. x \in Nat /\ y \in Nat /\ sz[x] \in Nat /\ sz[y] \in Nat /\ sz[x] >= 1
    BY <1>2
  <2>2. x # y
    BY <2>1
  <2> QED
    BY <2>1, <2>2
<1>5. ASSUME NEW u \in Stretch(sz, F) PROVE u \in Stretch(rz, G)
  <2>1. PICK b \in F \ {Header} : u \in Int /\ b <= u /\ u < b + sz[b]
    BY <1>3
  <2>2. CASE b = x \/ b = y
    <3>1. x <= u /\ u < x + rz[x]
      BY <1>1, <1>4, <2>1, <2>2
    <3> QED
      BY <1>3, <1>4, <2>1, <3>1
  <2>3. CASE b # x /\ b # y
    <3>1. rz[b] = sz[b] /\ b \in G \ {Header}
      BY <1>1, <1>2, <2>3
    <3> QED
      BY <1>3, <2>1, <3>1
  <2> QED
    BY <2>2, <2>3
<1>6. ASSUME NEW u \in Stretch(rz, G) PROVE u \in Stretch(sz, F)
  <2>1. PICK b \in G \ {Header} : u \in Int /\ b <= u /\ u < b + rz[b]
    BY <1>3
  <2>2. CASE b = x /\ u < y
    BY <1>3, <1>4, <2>1, <2>2
  <2>3. CASE b = x /\ ~ (u < y)
    <3>1. y <= u /\ u < y + sz[y]
      BY <1>1, <1>4, <2>1, <2>3
    <3> QED
      BY <1>3, <2>1, <3>1
  <2>4. CASE b # x
    <3>1. rz[b] = sz[b] /\ b \in F \ {Header}
      BY <1>1, <1>2, <2>4
    <3> QED
      BY <1>3, <2>1, <3>1
  <2> QED
    BY <2>2, <2>3, <2>4
<1>7. Stretch(rz, G) = Stretch(sz, F)
  BY <1>5, <1>6
<1> QED
  BY <1>7 DEF rz

-----------------------------------------------------------------------------
(* What the calls do to the list and the blocks. *)

\* A block taken off the list and handed out.
LEMMA TakeWhole ==
  ASSUME NEW nx, NEW sz, NEW F, NEW L, NEW n, Shape(nx, sz, F, L, n),
         NEW last \in F, nx[last] # Header
  PROVE  LET c == nx[last]
         IN Shape([nx EXCEPT ![last] = nx[c]], sz, F \ {c}, L \union {c}, n - sz[c])
<1> DEFINE c == nx[last]
<1>1. Chain(nx, F) /\ Tiling(sz, F, L) /\ Apart(sz, F) /\ Cardinality(Stretch(sz, F)) = n
  BY DEF Shape
<1>2. F \subseteq Units /\ c \in F
  BY <1>1 DEF Chain
<1>3. Chain([nx EXCEPT ![last] = nx[c]], F \ {c})
  BY <1>1, UnlinkKeepsChain
<1>4. Tiling(sz, F \ {c}, L \union {c})
  BY <1>1, <1>2, HandOutTiles
<1>5. Apart(sz, F \ {c})
  BY <1>1 DEF Apart
<1>6. Cardinality(Stretch(sz, F \ {c})) = n - sz[c]
  <2>1. n = Cardinality(Stretch(sz, F \ {c})) + sz[c]
    BY <1>1, <1>2, StretchOfOneMore
  <2>2. Cardinality(Stretch(sz, F \ {c})) \in Nat
    <3>1. F \ {c} \subseteq Units
      BY <1>2
    <3>2. IsFiniteSet(Stretch(sz, F \ {c}))
      BY <1>4, <3>1, FreeUnits
    <3> QED
      BY <3>2, FS_CardinalityType
  <2>3. sz[c] \in Nat
    BY <1>1, <1>2, TilingFacts DEF Blocks
  <2> HIDE DEF c
  <2> QED
    BY <2>1, <2>2, <2>3
<1> QED
  BY <1>3, <1>4, <1>5, <1>6 DEF Shape

\* The tail of a block, handed out.
LEMMA TakeTail ==
  ASSUME NEW nx, NEW sz, NEW F, NEW L, NEW n, Shape(nx, sz, F, L, n),
         NEW c \in F, c # Header, NEW k \in Nat \ {0}, k < sz[c]
  PROVE  LET got == c + (sz[c] - k)
         IN Shape(nx, [sz EXCEPT ![c] = sz[c] - k, ![got] = k], F, L \union {got}, n - k)
<1> DEFINE got == c + (sz[c] - k)
           rz == [sz EXCEPT ![c] = sz[c] - k, ![got] = k]
           tz == [rz EXCEPT ![c] = rz[c] + rz[got]]
<1>1. Chain(nx, F) /\ Tiling(sz, F, L) /\ Apart(sz, F) /\ Cardinality(Stretch(sz, F)) = n
  BY DEF Shape
<1>2. F \subseteq Units /\ F \subseteq Nat
  BY <1>1, Addresses DEF Chain
<1>3. /\ got \in 1 .. Cap /\ got \notin F /\ got \notin L /\ got > c
      /\ rz[got] = k /\ rz[c] = sz[c] - k
      /\ \A x \in Units : x # c /\ x # got => rz[x] = sz[x]
      /\ Tiling(rz, F, L \union {got})
  BY <1>1, <1>2, SplitTiles
<1>4. c \in Nat /\ sz[c] \in Nat /\ got \in Units /\ got # Header /\ got # c
  <2>1. c \in Nat /\ sz[c] \in Nat
    BY <1>1, <1>2, TilingFacts DEF Blocks
  <2> HIDE DEF got
  <2> QED
    BY <1>2, <1>3, <2>1, Constants
<1>5. c + rz[c] = got
  BY <1>3, <1>4
<1> HIDE DEF got, rz
<1>6. Apart(rz, F)
  <2> SUFFICES ASSUME NEW p \in F \ {Header}, NEW q \in F \ {Header} PROVE p + rz[p] # q
    BY DEF Apart
  <2>1. CASE p = c
    BY <1>3, <1>5, <2>1
  <2>2. CASE p # c
    <3>1. rz[p] = sz[p]
      BY <1>2, <1>3, <2>2
    <3> QED
      BY <1>1, <3>1 DEF Apart
  <2> QED
    BY <2>1, <2>2
<1>7. Cardinality(Stretch(rz, F)) = n - k
  <2> DEFINE G == F \union {got}
             M == (L \union {got}) \ {got}
  <2>1. Tiling(rz, G, M) /\ G \subseteq Units
    <3> got \in L \union {got}
      OBVIOUS
    <3> QED
      BY <1>2, <1>3, <1>4, HandBackTiles
  <2>2. Stretch(tz, G \ {got}) = Stretch(rz, G)
    <3>1. c \in G /\ got \in G
      OBVIOUS
    <3>2. c # Header /\ got # Header /\ c + rz[c] = got
      BY <1>4, <1>5
    <3> HIDE DEF G, M
    <3>3. ASSUME NEW x \in G, x # Header, NEW y \in G, y # Header, x + rz[x] = y
          PROVE  Stretch([rz EXCEPT ![x] = rz[x] + rz[y]], G \ {y}) = Stretch(rz, G)
      BY <2>1, <3>3, StretchOfMerged
    <3> QED
      BY <3>1, <3>2, <3>3
  <2>3. G \ {got} = F
    BY <1>3
  <2>4. Stretch(tz, F) = Stretch(sz, F)
    <3>1. rz \in [Units -> 0 .. Cap]
      BY <1>3 DEF Tiling
    <3>2. tz[c] = sz[c]
      BY <1>2, <1>3, <1>4, <3>1
    <3>3. \A b \in F \ {Header} : b # c => tz[b] = sz[b]
      BY <1>2, <1>3, <3>1
    <3> HIDE DEF tz
    <3> QED
      BY <3>2, <3>3, StretchOfSizes
  <2>5. Cardinality(Stretch(rz, G)) = Cardinality(Stretch(rz, G \ {got})) + rz[got]
    <3>1. got \in G
      OBVIOUS
    <3> HIDE DEF G, M
    <3> QED
      BY <1>4, <2>1, <3>1, StretchOfOneMore
  <2>6. n = Cardinality(Stretch(rz, F)) + k
    <3> HIDE DEF G, M, tz
    <3> QED
      BY <1>1, <1>3, <2>2, <2>3, <2>4, <2>5
  <2>7. Cardinality(Stretch(rz, F)) \in Nat
    BY <1>2, <1>3, FreeUnits, FS_CardinalityType
  <2> QED
    BY <2>6, <2>7
<1>8. Shape(nx, rz, F, L \union {got}, n - k)
  BY <1>1, <1>3, <1>6, <1>7 DEF Shape
<1> QED
  BY <1>8 DEF rz, got

\* Two blocks of a list, one beginning where the other ends.
Touch(sz, F, r, s) == r \in F \ {Header} /\ s \in F \ {Header} /\ r + sz[r] = s

\* A block b put on the list behind p touches at most p and the one behind p.
Inserted(nx, sz, F, L, n, b, p) ==
  /\ Chain([nx EXCEPT ![b] = nx[p], ![p] = b], F \union {b})
  /\ Tiling(sz, F \union {b}, L \ {b})
  /\ Cardinality(Stretch(sz, F \union {b})) = n + sz[b]
  /\ \A r, s \in Units :
       Touch(sz, F \union {b}, r, s) => (r = p /\ s = b) \/ (r = b /\ s = nx[p])

LEMMA InsertBlock ==
  ASSUME NEW nx, NEW sz, NEW F, NEW L, NEW n \in Nat, Shape(nx, sz, F, L, n),
         NEW b \in L, NEW p \in F, p < b, nx[p] = Header \/ b < nx[p]
  PROVE  Inserted(nx, sz, F, L, n, b, p)
<1> DEFINE q == nx[p]
           G == F \union {b}
<1>1. Chain(nx, F) /\ Tiling(sz, F, L) /\ Apart(sz, F) /\ Cardinality(Stretch(sz, F)) = n
  BY DEF Shape
<1>2. F \subseteq Units /\ F \subseteq Nat /\ q \in F /\ Header = 0 /\ Header \in F
  BY <1>1, Addresses DEF Chain
<1>3. b \in Units \ F /\ b # Header
  BY <1>1, <1>2, BlockAddresses DEF Tiling
<1>4. Chain([nx EXCEPT ![b] = nx[p], ![p] = b], F \union {b})
  BY <1>1, <1>3, LinkKeepsChain
<1>5. Tiling(sz, G, L \ {b}) /\ G \subseteq Units
  BY <1>1, <1>2, <1>3, HandBackTiles
<1>6. Cardinality(Stretch(sz, G)) = n + sz[b]
  <2>1. G \ {b} = F /\ b \in G
    BY <1>3
  <2>2. Cardinality(Stretch(sz, G)) = Cardinality(Stretch(sz, G \ {b})) + sz[b]
    <3> HIDE DEF G
    <3> QED
      BY <1>3, <1>5, <2>1, StretchOfOneMore
  <2> QED
    BY <1>1, <2>1, <2>2
<1>7. /\ \A x \in G \ {Header} : x \in Nat /\ x >= 1 /\ sz[x] \in Nat /\ sz[x] >= 1
      /\ \A x, y \in G \ {Header} : x < y => x + sz[x] <= y
  <2> HIDE DEF G
  <2> QED
    BY <1>5, TilingFacts DEF Blocks
<1>8. \/ q > p /\ \A x \in F : x <= p \/ q <= x
      \/ q = Header /\ \A x \in F : x <= p
  BY <1>1 DEF Chain
<1>9. ASSUME NEW r \in G \ {Header}, NEW s \in G \ {Header}, r + sz[r] = s
      PROVE  (r = p /\ s = b) \/ (r = b /\ s = q)
  <2>1. r \in Nat /\ s \in Nat /\ sz[r] \in Nat /\ sz[r] >= 1 /\ b \in Nat /\ p \in Nat /\ q \in Nat
    BY <1>2, <1>3, <1>7
  <2>2. r < s
    BY <1>9, <2>1
  <2> HIDE DEF q
  <2>3. q = Header \/ b < q
    BY DEF q
  <2>4. CASE r \in F /\ s \in F
    <3>1. r \in F \ {Header} /\ s \in F \ {Header}
      BY <2>4
    <3> QED
      BY <1>1, <1>9, <3>1 DEF Apart
  <2>5. CASE s = b
    <3>1. r \in F
      BY <2>1, <2>2, <2>5
    <3>2. r <= p
      BY <1>2, <1>8, <2>1, <2>2, <2>3, <2>5, <3>1
    <3>3. ~ (r < p)
      <4> SUFFICES ASSUME r < p PROVE FALSE
        OBVIOUS
      <4>1. p \in G \ {Header}
        BY <1>2, <2>1
      <4>2. r + sz[r] <= p
        BY <1>7, <4>1
      <4> QED
        BY <1>9, <2>1, <2>5, <4>2
    <3> QED
      BY <2>1, <2>5, <3>2, <3>3
  <2>6. CASE r = b
    <3>1. s \in F
      BY <2>1, <2>2, <2>6
    <3>2. q # Header /\ q <= s
      BY <1>2, <1>8, <2>1, <2>2, <2>6, <3>1
    <3>3. q \in G \ {Header} /\ b < q
      BY <1>2, <2>3, <3>2
    <3>4. b + sz[b] <= q
      BY <1>3, <1>7, <3>3
    <3> QED
      BY <1>9, <2>1, <2>6, <3>2, <3>4
  <2> QED
    BY <2>4, <2>5, <2>6
<1>10. \A r, s \in Units : Touch(sz, G, r, s) => (r = p /\ s = b) \/ (r = b /\ s = q)
  BY <1>9 DEF Touch
<1> QED
  BY <1>4, <1>5, <1>6, <1>10 DEF Inserted

\* A block x merged with the next one touches what that one touched.
Merged(nx, sz, F, L, x, y, rz) ==
  /\ y \in F /\ x # y
  /\ rz[x] = sz[x] + sz[y]
  /\ \A z \in Units : z # x => rz[z] = sz[z]
  /\ Chain([nx EXCEPT ![x] = nx[y]], F \ {y})
  /\ Tiling(rz, F \ {y}, L)
  /\ Cardinality(Stretch(rz, F \ {y})) = Cardinality(Stretch(sz, F))
  /\ \A r, s \in Units :
       Touch(rz, F \ {y}, r, s) => (r # x /\ Touch(sz, F, r, s)) \/ (r = x /\ Touch(sz, F, y, s))

LEMMA MergeBlocks ==
  ASSUME NEW nx, NEW sz, NEW F, NEW L, Chain(nx, F), Tiling(sz, F, L),
         NEW x \in F, x # Header, NEW y, y = nx[x], y # Header, x + sz[x] = y
  PROVE  Merged(nx, sz, F, L, x, y, [sz EXCEPT ![x] = sz[x] + sz[y]])
<1> DEFINE rz == [sz EXCEPT ![x] = sz[x] + sz[y]]
<1>1. F \subseteq Units /\ y \in F /\ y # Header /\ x + sz[x] = y
  BY Addresses DEF Chain
<1>2. Chain([nx EXCEPT ![x] = nx[y]], F \ {y}) /\ x # y
  BY UnlinkKeepsChain
<1>3. /\ rz[x] = sz[x] + sz[y] /\ \A z \in Units : z # x => rz[z] = sz[z]
      /\ Tiling(rz, F \ {y}, L)
  BY <1>1, MergeTiles
<1>4. Stretch(rz, F \ {y}) = Stretch(sz, F)
  BY <1>1, StretchOfMerged
<1>5. x \in Nat /\ sz[x] \in Nat /\ y \in Nat /\ sz[y] \in Nat
  BY <1>1, TilingFacts DEF Blocks
<1> HIDE DEF rz
<1>6. \A r, s \in Units : Touch(rz, F \ {y}, r, s) =>
        (r # x /\ Touch(sz, F, r, s)) \/ (r = x /\ Touch(sz, F, y, s))
  <2> SUFFICES ASSUME NEW r \in Units, NEW s \in Units, Touch(rz, F \ {y}, r, s)
               PROVE  (r # x /\ Touch(sz, F, r, s)) \/ (r = x /\ Touch(sz, F, y, s))
    OBVIOUS
  <2>1. r \in F \ {Header} /\ s \in F \ {Header} /\ r + rz[r] = s
    BY DEF Touch
  <2>2. CASE r = x
    <3>1. y + sz[y] = s
      BY <1>1, <1>3, <1>5, <2>1, <2>2
    <3> QED
      BY <1>1, <2>1, <2>2, <3>1 DEF Touch
  <2>3. CASE r # x
    <3>1. rz[r] = sz[r]
      BY <1>1, <1>3, <2>1, <2>3
    <3> QED
      BY <2>1, <2>3, <3>1 DEF Touch
  <2> QED
    BY <2>2, <2>3
<1> QED
  BY <1>1, <1>2, <1>3, <1>4, <1>6 DEF Merged, rz

\* A block handed back, merged with the one behind it and the one before it where they
\* touch.
LEMMA GiveBack ==
  ASSUME NEW nx, NEW sz, NEW F, NEW L, NEW n \in Nat, Shape(nx, sz, F, L, n),
         NEW b \in L, NEW p \in F, p < b, nx[p] = Header \/ b < nx[p]
  PROVE  LET q  == nx[p]
             ms == IF b + sz[b] = q THEN sz[b] + sz[q] ELSE sz[b]
             mn == IF b + sz[b] = q THEN nx[q] ELSE q
         IN /\ p + sz[p] = b =>
                 \E G \in SUBSET Units :
                   /\ p \in G
                   /\ Shape([nx EXCEPT ![b] = mn, ![p] = mn],
                            [sz EXCEPT ![b] = ms, ![p] = sz[p] + ms], G, L \ {b}, n + sz[b])
            /\ p + sz[p] # b =>
                 \E G \in SUBSET Units :
                   /\ p \in G
                   /\ Shape([nx EXCEPT ![b] = mn, ![p] = b],
                            [sz EXCEPT ![b] = ms], G, L \ {b}, n + sz[b])
<1> DEFINE q  == nx[p]
           ms == IF b + sz[b] = q THEN sz[b] + sz[q] ELSE sz[b]
           mn == IF b + sz[b] = q THEN nx[q] ELSE q
           M == L \ {b}
           G1 == F \union {b}
           n1 == [nx EXCEPT ![b] = q, ![p] = b]
           n2 == [nx EXCEPT ![b] = mn, ![p] = b]
           s2 == [sz EXCEPT ![b] = ms]
           Joined(G) ==
             /\ p \in G /\ b \in G /\ G \subseteq Units
             /\ Chain(n2, G) /\ Tiling(s2, G, M) /\ Cardinality(Stretch(s2, G)) = n + sz[b]
             /\ \A r, s \in Units : Touch(s2, G, r, s) => r = p /\ s = b
<1>1. Chain(nx, F) /\ Tiling(sz, F, L) /\ F \subseteq Units /\ nx \in [Units -> Units]
  BY DEF Shape, Chain
<1>2. /\ Header = 0 /\ p \in Nat /\ b \in Nat /\ q \in Nat /\ b # Header /\ p # b
      /\ b \in Units /\ p \in Units /\ q \in Units /\ q \in F /\ b \notin F
      /\ sz \in [Units -> 0 .. Cap] /\ sz[b] \in Nat /\ sz[b] >= 1 /\ sz[Header] = 0
  <2>1. b # Header /\ b \in Units /\ b \notin F /\ sz \in [Units -> 0 .. Cap] /\ sz[Header] = 0
    BY <1>1, BlockAddresses DEF Tiling
  <2>2. Header = 0 /\ p \in Nat /\ q \in Nat /\ q \in F
    BY <1>1, Addresses
  <2>3. b \in Nat /\ sz[b] \in Nat /\ sz[b] >= 1
    BY <1>1, TilingFacts DEF Blocks
  <2>4. p # b
    BY <2>2, <2>3
  <2> QED
    BY <1>1, <2>1, <2>2, <2>3, <2>4
<1>3. /\ Chain(n1, G1) /\ Tiling(sz, G1, M) /\ Cardinality(Stretch(sz, G1)) = n + sz[b]
      /\ \A r, s \in Units : Touch(sz, G1, r, s) => (r = p /\ s = b) \/ (r = b /\ s = q)
  <2>1. Inserted(nx, sz, F, L, n, b, p)
    BY InsertBlock
  <2> QED
    BY <2>1 DEF Inserted
<1>4. n1[b] = q /\ n1[p] = b /\ \A u \in Units : u # b /\ u # p => n1[u] = nx[u]
  BY <1>1, <1>2
<1>5. p \in G1 /\ b \in G1 /\ G1 \subseteq Units
  BY <1>1, <1>2
<1>6. PICK G : Joined(G)
  <2>1. CASE b + sz[b] = q
    <3> DEFINE G == G1 \ {q}
               r2 == [sz EXCEPT ![b] = sz[b] + sz[q]]
    <3>1. q # Header /\ q # b /\ q # p
      <4>1. q # Header /\ q # b
        <5> HIDE DEF q
        <5> QED
          BY <1>2, <2>1
      <4>2. b < q
        BY <4>1
      <4> HIDE DEF q
      <4> QED
        BY <1>2, <4>1, <4>2
    <3>2. /\ Chain([n1 EXCEPT ![b] = n1[q]], G) /\ Tiling(r2, G, M)
          /\ Cardinality(Stretch(r2, G)) = Cardinality(Stretch(sz, G1))
          /\ \A r, s \in Units : Touch(r2, G, r, s) =>
               (r # b /\ Touch(sz, G1, r, s)) \/ (r = b /\ Touch(sz, G1, q, s))
      <4>1. n1[b] # Header /\ b + sz[b] = n1[b]
        BY <1>4, <2>1, <3>1
      <4> HIDE DEF G1, n1, M, q
      <4>2. Merged(n1, sz, G1, M, b, n1[b], [sz EXCEPT ![b] = sz[b] + sz[n1[b]]])
        BY <1>2, <1>3, <1>5, <4>1, MergeBlocks
      <4> QED
        BY <1>4, <4>2 DEF Merged
    <3>3. n2 = [n1 EXCEPT ![b] = n1[q]]
      <4>1. mn = nx[q] /\ n1[q] = nx[q]
        BY <1>2, <1>4, <2>1, <3>1
      <4> HIDE DEF mn, q
      <4> QED
        BY <1>1, <1>2, <4>1
    <3>4. s2 = r2
      BY <2>1
    <3>5. \A r, s \in Units : Touch(s2, G, r, s) => r = p /\ s = b
      <4> HIDE DEF G1, n1, r2, s2, M, q
      <4> QED
        BY <1>2, <1>3, <3>1, <3>2, <3>4
    <3>6. p \in G /\ b \in G /\ G \subseteq Units
      BY <1>5, <3>1
    <3>7. Joined(G)
      <4> HIDE DEF G1, G, n1, n2, r2, s2, M, q
      <4> QED
        BY <1>3, <3>2, <3>3, <3>4, <3>5, <3>6
    <3> QED
      BY <3>7
  <2>2. CASE b + sz[b] # q
    <3>1. mn = q /\ ms = sz[b]
      BY <2>2
    <3>2. n2 = n1 /\ s2 = sz
      <4> HIDE DEF mn, ms, q
      <4> QED
        BY <1>2, <3>1
    <3>3. \A r, s \in Units : Touch(sz, G1, r, s) => r = p /\ s = b
      <4>1. ~ Touch(sz, G1, b, q)
        BY <2>2 DEF Touch
      <4> HIDE DEF G1, q
      <4> QED
        BY <1>3, <4>1
    <3>4. Joined(G1)
      <4> HIDE DEF G1, n1, n2, s2, M, q
      <4> QED
        BY <1>3, <1>5, <3>2, <3>3
    <3> QED
      BY <3>4
  <2> QED
    BY <2>1, <2>2
<1>7. n2[p] = b /\ n2[b] = mn /\ s2[b] = ms /\ s2[p] = sz[p]
  <2> HIDE DEF mn, ms, q
  <2> QED
    BY <1>1, <1>2
<1>8. ASSUME p + sz[p] = b
      PROVE  \E H \in SUBSET Units :
               /\ p \in H
               /\ Shape([nx EXCEPT ![b] = mn, ![p] = mn],
                        [sz EXCEPT ![b] = ms, ![p] = sz[p] + ms], H, L \ {b}, n + sz[b])
  <2> DEFINE H == G \ {b}
             n3 == [nx EXCEPT ![b] = mn, ![p] = mn]
             s3 == [sz EXCEPT ![b] = ms, ![p] = sz[p] + ms]
             r3 == [s2 EXCEPT ![p] = s2[p] + s2[b]]
  <2>1. p # Header
    BY <1>2, <1>8
  <2>2. /\ Chain([n2 EXCEPT ![p] = n2[b]], H) /\ Tiling(r3, H, M)
        /\ Cardinality(Stretch(r3, H)) = Cardinality(Stretch(s2, G))
        /\ \A r, s \in Units : Touch(r3, H, r, s) =>
             (r # p /\ Touch(s2, G, r, s)) \/ (r = p /\ Touch(s2, G, b, s))
    <3>1. n2[p] # Header /\ p + s2[p] = n2[p]
      BY <1>2, <1>7, <1>8
    <3>2. p \in G /\ Chain(n2, G) /\ Tiling(s2, G, M)
      BY <1>6
    <3> HIDE DEF n2, s2, M, Joined
    <3>3. Merged(n2, s2, G, M, p, n2[p], [s2 EXCEPT ![p] = s2[p] + s2[n2[p]]])
      BY <2>1, <3>1, <3>2, MergeBlocks
    <3> QED
      BY <1>7, <3>3 DEF Merged
  <2>3. n3 = [n2 EXCEPT ![p] = n2[b]]
    <3>1. n2[b] = mn
      BY <1>7
    <3> HIDE DEF mn
    <3> QED
      BY <1>1, <1>2, <3>1
  <2>4. s3 = r3
    <3>1. s2[b] = ms /\ s2[p] = sz[p]
      BY <1>7
    <3> HIDE DEF ms
    <3> QED
      BY <1>1, <1>2, <3>1
  <2>5. Apart(r3, H)
    <3>1. \A r, s \in Units : Touch(s2, G, r, s) => r = p /\ s = b
      BY <1>6
    <3>2. \A r, s \in Units : ~ Touch(r3, H, r, s)
      <4> HIDE DEF r3, s2, H
      <4> QED
        BY <1>2, <2>2, <3>1
    <3>3. H \subseteq Units
      BY <1>6
    <3> HIDE DEF r3, s2, H
    <3> QED
      BY <3>2, <3>3 DEF Touch, Apart
  <2>6. p \in H /\ H \in SUBSET Units /\ Cardinality(Stretch(s2, G)) = n + sz[b]
    BY <1>2, <1>6
  <2>7. Shape(n3, s3, H, M, n + sz[b])
    <3> HIDE DEF n3, s3, r3, n2, s2, H, M, Joined
    <3> QED
      BY <2>2, <2>3, <2>4, <2>5, <2>6 DEF Shape
  <2> HIDE DEF n3, s3, H
  <2>8. p \in H /\ Shape(n3, s3, H, L \ {b}, n + sz[b])
    BY <2>6, <2>7
  <2> QED
    BY <2>6, <2>8 DEF n3, s3
<1>9. ASSUME p + sz[p] # b
      PROVE  \E H \in SUBSET Units :
               /\ p \in H
               /\ Shape([nx EXCEPT ![b] = mn, ![p] = b],
                        [sz EXCEPT ![b] = ms], H, L \ {b}, n + sz[b])
  <2>1. ~ Touch(s2, G, p, b)
    <3>1. p + s2[p] # b
      BY <1>7, <1>9
    <3> QED
      BY <3>1 DEF Touch
  <2>2. Apart(s2, G)
    <3>1. \A r, s \in Units : Touch(s2, G, r, s) => r = p /\ s = b
      BY <1>6
    <3>2. G \subseteq Units
      BY <1>6
    <3> HIDE DEF s2
    <3> QED
      BY <2>1, <3>1, <3>2 DEF Touch, Apart
  <2>3. Shape(n2, s2, G, M, n + sz[b]) /\ p \in G /\ G \in SUBSET Units
    <3>1. Joined(G)
      BY <1>6
    <3> HIDE DEF n2, s2, M
    <3> QED
      BY <2>2, <3>1 DEF Shape
  <2> QED
    BY <2>3
<1> HIDE DEF mn, ms
<1> QED
  BY <1>8, <1>9 DEF mn, ms

-----------------------------------------------------------------------------
(* The two loops. *)

\* A request occupies at least its header.
LEMMA NBlocksIsNat ==
  ASSUME NEW bytes \in Nat
  PROVE  NBlocks(bytes) \in Nat \ {0}
<1>1. Unit \in Nat \ {0} /\ bytes + Unit - 1 \in Nat
  BY Constants
<1>2. \A x \in Nat, u \in Nat \ {0} : x \div u \in Nat
  OBVIOUS
<1>3. (bytes + Unit - 1) \div Unit \in Nat
  BY <1>1, <1>2, Zenon
<1> QED
  BY <1>3 DEF NBlocks

\* What the search of static_alloc comes to: it leaves the list nowhere, and every block
\* before the one it ends at was too small and not the start.
LEMMA SearchEnds ==
  ASSUME NEW list, NEW F, Chain(list.next, F), list.start \in F, NEW n
  PROVE  /\ SearchEnd(list, n) \in 1 .. Cap + 1
         /\ \/ list.size[Walk(list)[SearchEnd(list, n)]] >= n
            \/ Walk(list)[SearchEnd(list, n)] = list.start
         /\ \A j \in 1 .. SearchEnd(list, n) - 1 :
              ~ (list.size[Walk(list)[j]] >= n \/ Walk(list)[j] = list.start)
<1> DEFINE w == Walk(list)
           Stop(k) == list.size[w[k]] >= n \/ w[k] = list.start
           stops == {k \in 1 .. Cap + 1 : Stop(k)}
           Goes(k) == Stop(k) /\ \A j \in 1 .. k - 1 : ~ Stop(j)
<1>1. PICK k \in 1 .. Cap + 1 : w[k] = list.start
  BY WalkIsWalk, WalkReturns
<1>2. k \in stops /\ stops \subseteq Nat
  BY <1>1
<1>3. PICK e \in stops : \A j \in stops : e <= j
  <2> HIDE DEF stops
  <2> QED
    BY <1>2, LeastNat
<1>4. e \in 1 .. Cap + 1 /\ Stop(e)
  BY <1>3
<1>5. ASSUME NEW j \in 1 .. e - 1 PROVE ~ Stop(j)
  <2>1. j \in 1 .. Cap + 1 /\ j < e
    BY <1>4, Constants
  <2>2. Stop(j) => j \in stops
    BY <2>1
  <2> HIDE DEF stops, Stop
  <2>3. Stop(j) => e <= j
    BY <1>3, <2>2
  <2> QED
    BY <1>4, <2>1, <2>3, Constants
<1>6. \E x \in 1 .. Cap + 1 : Goes(x)
  BY <1>4, <1>5
<1>7. SearchEnd(list, n) = CHOOSE x \in 1 .. Cap + 1 : Goes(x)
  BY DEF SearchEnd, First
<1>8. SearchEnd(list, n) \in 1 .. Cap + 1 /\ Goes(SearchEnd(list, n))
  <2> HIDE DEF Goes
  <2> QED
    BY <1>6, <1>7
<1> QED
  BY <1>8

\* The block the search ends at and the one before it.
LEMMA SearchBlocks ==
  ASSUME NEW list, NEW F, Chain(list.next, F), list.start \in F, NEW n
  PROVE  /\ Walk(list)[SearchEnd(list, n) - 1] \in F
         /\ Walk(list)[SearchEnd(list, n)] = list.next[Walk(list)[SearchEnd(list, n) - 1]]
         /\ Walk(list)[SearchEnd(list, n)] \in F
<1> DEFINE k == SearchEnd(list, n)
           w == Walk(list)
<1>1. k \in 1 .. Cap + 1
  BY SearchEnds
<1>2. IsWalk(w, list.next, list.start)
  BY WalkIsWalk
<1> HIDE DEF k, w
<1>3. \A j \in Steps : w[j] \in F
  BY <1>2, WalkStays
<1>4. k \in Steps /\ k - 1 \in Steps
  BY <1>1, Constants DEF Steps
<1>5. w[k] = list.next[w[k - 1]]
  BY <1>1, <1>2 DEF IsWalk
<1> QED
  BY <1>3, <1>4, <1>5 DEF k, w

\* A search that ends at a block that is too small has looked at every block.
LEMMA SearchLooksEverywhere ==
  ASSUME NEW list, NEW F, Chain(list.next, F), list.start \in F, NEW n,
         ~ (list.size[Walk(list)[SearchEnd(list, n)]] >= n)
  PROVE  \A p \in F : ~ (list.size[p] >= n)
<1> DEFINE e == SearchEnd(list, n)
           w == Walk(list)
<1>1. /\ e \in 1 .. Cap + 1 /\ w[e] = list.start
      /\ \A j \in 1 .. e - 1 : ~ (list.size[w[j]] >= n)
      /\ ~ (list.size[w[e]] >= n)
  BY SearchEnds
<1>2. IsWalk(w, list.next, list.start)
  BY WalkIsWalk
<1> HIDE DEF e, w
<1> DEFINE Seen(x) == \E j \in 1 .. e : w[j] = x
           unseen == {k \in 0 .. Cap : ~ Seen(w[k])}
<1>3. unseen = {}
  <2> SUFFICES ASSUME unseen # {} PROVE FALSE
    OBVIOUS
  <2>1. unseen \subseteq Nat
    OBVIOUS
  <2>2. PICK k \in unseen : \A j \in unseen : k <= j
    <3> HIDE DEF unseen
    <3> QED
      BY <2>1, LeastNat
  <2>3. k \in 0 .. Cap /\ ~ Seen(w[k])
    BY <2>2
  <2>4. k # 0
    <3>1. e \in 1 .. e /\ w[0] = w[e]
      BY <1>1, <1>2, Constants DEF IsWalk
    <3> QED
      BY <2>3, <3>1
  <2>5. k - 1 \in 0 .. Cap /\ k \in 1 .. Cap + 1 /\ ~ (k <= k - 1)
    BY <2>3, <2>4, Constants
  <2>6. Seen(w[k - 1])
    BY <2>2, <2>5
  <2>7. PICK j \in 1 .. e : w[j] = w[k - 1]
    BY <2>6
  <2>8. w[k] = list.next[w[j]]
    BY <1>2, <2>5, <2>7 DEF IsWalk
  <2>9. CASE j < e
    <3>1. j + 1 \in 1 .. e /\ j + 1 \in 1 .. Cap + 1 /\ (j + 1) - 1 = j
      BY <1>1, <2>9, Constants
    <3>2. w[j + 1] = w[k]
      BY <1>2, <2>8, <3>1 DEF IsWalk
    <3> QED
      BY <2>3, <3>1, <3>2
  <2>10. CASE ~ (j < e)
    <3>1. j = e
      BY <1>1, <2>10, Constants
    <3>2. 1 \in 1 .. e /\ 1 \in 1 .. Cap + 1 /\ 1 - 1 = 0
      BY <1>1, Constants
    <3>3. w[1] = w[k]
      BY <1>1, <1>2, <2>8, <3>1, <3>2 DEF IsWalk
    <3> QED
      BY <2>3, <3>2, <3>3
  <2> QED
    BY <2>9, <2>10
<1>4. ASSUME NEW p \in F PROVE ~ (list.size[p] >= n)
  <2>1. PICK k \in 0 .. Cap : w[k] = p
    BY <1>2, WalkCovers
  <2>2. PICK j \in 1 .. e : w[j] = p
    BY <1>3, <2>1
  <2>3. j \in 1 .. e - 1 \/ j = e
    BY <1>1, Constants
  <2> QED
    BY <1>1, <2>2, <2>3
<1> QED
  BY <1>4

\* static_free finds the place of a block: the block before it in order of address.
LEMMA PlaceIsBefore ==
  ASSUME NEW F, Chain(next, F), freeList # NULL, freeList \in F, NEW b \in Units \ F
  PROVE  /\ Place(b) \in F /\ Place(b) < b
         /\ next[Place(b)] = Header \/ b < next[Place(b)]
<1> DEFINE w == Walk(List)
           Stop(k) == Between(b, w[k], next[w[k]])
           stops == {k \in 0 .. Cap + 1 : Stop(k)}
           Goes(k) == Stop(k) /\ \A j \in 0 .. k - 1 : ~ Stop(j)
<1>1. List.next = next /\ List.start = freeList
  BY DEF List
<1>2. IsWalk(w, next, freeList)
  BY <1>1, WalkIsWalk
<1>3. /\ \A p \in F : p \in Nat /\ p \in Units /\ next[p] \in F
      /\ Header \in F /\ Header = 0 /\ b \in Nat /\ b # Header
  BY Addresses, Constants
<1>4. PICK p \in F : p < b /\ \A q \in F : q < b => q <= p
  <2> DEFINE below == {q \in F : q < b}
  <2>0. Header < b
    <3>1. b \in Nat /\ b # 0 /\ Header = 0
      BY <1>3
    <3> QED
      BY <3>1
  <2>1. below \subseteq Units /\ Header \in below
    BY <1>3, <2>0, Zenon
  <2>2. PICK p \in below : \A q \in below : q <= p
    <3> HIDE DEF below
    <3> QED
      BY <2>1, LastOne
  <2> QED
    BY <2>2
<1>5. Between(b, p, next[p])
  <2>1. \/ next[p] > p
        \/ next[p] = Header
    BY DEF Chain
  <2>2. next[p] # b /\ next[p] \in F
    BY <1>3
  <2>3. next[p] < b => next[p] <= p
    BY <1>4, <2>2
  <2>4. p \in Nat /\ next[p] \in Nat /\ b \in Nat /\ b # Header /\ Header = 0 /\ p < b
    BY <1>3, <1>4, <2>2
  <2> HIDE DEF w, Stop, stops, Goes
  <2> QED
    BY <2>1, <2>2, <2>3, <2>4 DEF Between
<1>6. PICK k \in 0 .. Cap : w[k] = p
  BY <1>2, WalkCovers
<1>7. k \in stops /\ stops \subseteq Nat
  <2>1. k \in 0 .. Cap + 1
    BY Constants
  <2> HIDE DEF w
  <2> QED
    BY <1>5, <1>6, <2>1
<1>8. PICK e \in stops : \A j \in stops : e <= j
  <2> HIDE DEF stops
  <2> QED
    BY <1>7, LeastNat
<1>9. e \in 0 .. Cap + 1 /\ Stop(e)
  BY <1>8
<1>10. ASSUME NEW j \in 0 .. e - 1 PROVE ~ Stop(j)
  <2>1. j \in 0 .. Cap + 1 /\ j < e
    BY <1>9, Constants
  <2>2. Stop(j) => j \in stops
    BY <2>1
  <2> HIDE DEF stops, Stop
  <2>3. Stop(j) => e <= j
    BY <1>8, <2>2
  <2> QED
    BY <1>9, <2>1, <2>3, Constants
<1>11. \E x \in 0 .. Cap + 1 : Goes(x)
  BY <1>9, <1>10
<1> DEFINE x == CHOOSE y \in 0 .. Cap + 1 : Goes(y)
<1>12. Place(b) = w[x]
  BY DEF Place, First
<1>13. x \in 0 .. Cap + 1 /\ Goes(x)
  <2> HIDE DEF Goes
  <2> QED
    BY <1>11
<1> HIDE DEF x
<1>14. Between(b, w[x], next[w[x]])
  BY <1>13
<1>15. w[x] \in F
  <2>1. x \in Steps
    BY <1>13 DEF Steps
  <2> HIDE DEF w
  <2> QED
    BY <1>2, <2>1, WalkStays
<1> DEFINE r == w[x]
<1> HIDE DEF r, w
<1>16. r \in F /\ Between(b, r, next[r])
  BY <1>14, <1>15 DEF r
<1>17. r \in Nat /\ next[r] \in Nat /\ r # b /\ (next[r] > r \/ next[r] = Header)
  BY <1>3, <1>16 DEF Chain
<1>18. r < b /\ (next[r] = Header \/ b < next[r])
  BY <1>3, <1>16, <1>17 DEF Between
<1> QED
  BY <1>12, <1>16, <1>18 DEF r

-----------------------------------------------------------------------------
(* The inductive invariant. *)

\* Before the first allocation nothing is held and everything is free; from then on
\* there is a list of the right shape, and free_list points into it.
ListInv ==
  /\ freeList = NULL => live = {} /\ free = Cap
  /\ freeList # NULL =>
       \E F \in SUBSET Units : freeList \in F /\ Shape(next, size, F, live, free)

IInv == TypeOK /\ ListInv

\* What a shape says of the types.
LEMMA ShapeTypes ==
  ASSUME NEW nx, NEW sz, NEW F, NEW L, NEW n, Shape(nx, sz, F, L, n)
  PROVE  /\ nx \in [Units -> Units] /\ sz \in [Units -> 0 .. Cap]
         /\ L \subseteq 1 .. Cap /\ F \subseteq Units /\ n \in 0 .. Cap
<1>1. /\ Chain(nx, F) /\ Tiling(sz, F, L) /\ n = Cardinality(Stretch(sz, F))
  BY DEF Shape
<1>2. nx \in [Units -> Units] /\ F \subseteq Units /\ sz \in [Units -> 0 .. Cap]
  BY <1>1 DEF Chain, Tiling
<1>3. L \subseteq 1 .. Cap
  <2>1. L \subseteq Units \ F /\ Header \in F
    BY <1>1 DEF Chain, Tiling
  <2> QED
    BY <2>1, Constants
<1>4. n \in 0 .. Cap
  <2>1. Stretch(sz, F) \subseteq 1 .. Cap
    BY <1>1, <1>2, FreeUnits
  <2>2. IsFiniteSet(1 .. Cap) /\ Cardinality(1 .. Cap) = Cap
    <3>1. 1 \in Int /\ Cap \in Nat \ {0}
      BY Constants
    <3> QED
      BY <3>1, FS_Interval
  <2>3. IsFiniteSet(Stretch(sz, F)) /\ n <= Cap /\ n \in Nat
    <3>1. IsFiniteSet(Stretch(sz, F)) /\ Cardinality(Stretch(sz, F)) <= Cardinality(1 .. Cap)
      BY <2>1, <2>2, FS_Subset
    <3> QED
      BY <1>1, <2>2, <3>1, FS_CardinalityType
  <2> QED
    BY <2>3, Constants
<1> QED
  BY <1>2, <1>3, <1>4

\* The list of one block with all the memory, which the first allocation makes.
LEMMA FirstList ==
  ASSUME NEW nx \in [Units -> Units], NEW sz \in [Units -> 0 .. Cap]
  PROVE  Shape([nx EXCEPT ![0] = 1, ![1] = 0], [sz EXCEPT ![0] = 0, ![1] = Cap],
               {0, 1}, {}, Cap)
<1> DEFINE ny == [nx EXCEPT ![0] = 1, ![1] = 0]
           sy == [sz EXCEPT ![0] = 0, ![1] = Cap]
           F == {0, 1}
<1>1. 0 \in Units /\ 1 \in Units /\ Cap \in Nat \ {0} /\ Header = 0 /\ Units = 0 .. Cap
  BY Constants
<1>2. ny \in [Units -> Units] /\ ny[0] = 1 /\ ny[1] = 0
  BY <1>1
<1>3. sy \in [Units -> 0 .. Cap] /\ sy[0] = 0 /\ sy[1] = Cap
  <2>1. 0 \in 0 .. Cap /\ Cap \in 0 .. Cap /\ 0 \in Units /\ 1 \in Units /\ 0 # 1
    BY <1>1
  <2> QED
    BY <2>1
<1> HIDE DEF ny, sy
<1>4. Chain(ny, F)
  <2>1. F \subseteq Units /\ Header \in F
    BY <1>1
  <2>2. ny[0] > 0 /\ (\A q \in F : q <= 0 \/ ny[0] <= q) /\ ny[0] \in F
    BY <1>2
  <2>3. ny[1] = Header /\ (\A q \in F : q <= 1) /\ ny[1] \in F
    BY <1>1, <1>2
  <2>4. \A p \in F : p = 0 \/ p = 1
    OBVIOUS
  <2> HIDE DEF F
  <2> QED
    BY <1>2, <2>1, <2>2, <2>3, <2>4 DEF Chain
<1>4a. F \ {Header} = {1}
  <2>1. Header = 0 /\ 0 # 1
    BY <1>1
  <2> QED
    BY <2>1, Zenon
<1>5. Blocks(F, {}) = {1}
  BY <1>4a DEF Blocks
<1>6. Tiling(sy, F, {})
  <2>1. \A b \in {1} : sy[b] >= 1 /\ b + sy[b] <= Cap + 1
    <3>1. sy[1] >= 1 /\ 1 + sy[1] <= Cap + 1
      BY <1>1, <1>3
    <3> QED
      BY <3>1
  <2>2. \A b, c \in {1} : b < c => b + sy[b] <= c
    OBVIOUS
  <2>3. \A u \in 1 .. Cap : \E b \in {1} : b <= u /\ u < b + sy[b]
    BY <1>1, <1>3
  <2> QED
    BY <1>1, <1>3, <1>5, <2>1, <2>2, <2>3 DEF Tiling
<1>7. Apart(sy, F)
  BY <1>1, <1>3 DEF Apart
<1>8. Cardinality(Stretch(sy, F)) = Cap
  <2>2. Stretch(sy, F) = {} \union (1 .. 1 + Cap - 1)
    BY <1>3, <1>4a DEF Stretch
  <2>3. IsFiniteSet({}) /\ Cardinality({}) = 0 /\ {} \intersect (1 .. 1 + Cap - 1) = {}
    BY FS_EmptySet
  <2>4. Cardinality({} \union (1 .. 1 + Cap - 1)) = Cardinality({}) + Cap
    <3>1. 1 \in Nat /\ Cap \in Nat
      BY <1>1
    <3> QED
      BY <2>3, <3>1, AddRun
  <2> QED
    BY <1>1, <2>2, <2>3, <2>4
<1> QED
  BY <1>4, <1>6, <1>7, <1>8 DEF Shape, ny, sy

\* The list an allocation searches has the right shape, the first one too.
LEMMA CurrentList ==
  ASSUME TypeOK, ListInv
  PROVE  \E F \in SUBSET Units :
           List.start \in F /\ Shape(List.next, List.size, F, live, free)
<1>1. CASE freeList # NULL
  <2>1. List.next = next /\ List.size = size /\ List.start = freeList
    BY <1>1 DEF List
  <2> QED
    BY <1>1, <2>1 DEF ListInv
<1>2. CASE freeList = NULL
  <2>1. live = {} /\ free = Cap
    BY <1>2 DEF ListInv
  <2>2. /\ List.next = [next EXCEPT ![0] = 1, ![1] = 0]
        /\ List.size = [size EXCEPT ![0] = 0, ![1] = Cap]
        /\ List.start = Header
    BY <1>2, <2>1 DEF List
  <2>3. next \in [Units -> Units] /\ size \in [Units -> 0 .. Cap]
    BY DEF TypeOK
  <2>6. Shape([next EXCEPT ![0] = 1, ![1] = 0], [size EXCEPT ![0] = 0, ![1] = Cap],
              {0, 1}, {}, Cap)
    BY <2>3, FirstList
  <2>4. Shape(List.next, List.size, {0, 1}, live, free)
    BY <2>1, <2>2, <2>6
  <2>5. {0, 1} \in SUBSET Units /\ List.start \in {0, 1}
    BY <2>2, Constants
  <2> QED
    BY <2>4, <2>5
<1> QED
  BY <1>1, <1>2

\* A list of the right shape that free_list points into is all the invariant asks.
LEMMA AfterCall ==
  ASSUME NEW F \in SUBSET Units, freeList' \in F, Shape(next', size', F, live', free'),
         result' \in [asked : Requests \union {NULL}, got : Units \union {NULL, -1}]
  PROVE  IInv'
<1>1. /\ next' \in [Units -> Units] /\ size' \in [Units -> 0 .. Cap]
      /\ live' \subseteq 1 .. Cap /\ F \subseteq Units /\ free' \in 0 .. Cap
  BY ShapeTypes
<1>2. freeList' \in Units /\ freeList' # NULL
  BY <1>1, Constants
<1>3. TypeOK'
  BY <1>1, <1>2 DEF TypeOK
<1>4. ListInv'
  BY <1>2 DEF ListInv
<1> QED
  BY <1>3, <1>4 DEF IInv

\* What static_alloc leaves when it takes memory: a list G of the right shape, the block
\* got of n units among the held ones, and these as long as before.
HandsOut(G, got, n) ==
  /\ freeList' \in G
  /\ Shape(next', size', G, live', free')
  /\ got \in 1 .. Cap /\ got \notin live /\ live' = live \union {got}
  /\ size'[got] = n
  /\ \A b \in live : size'[b] = size[b]

\* Callers hold nothing that the first list changes.
LEMMA HeldSizes ==
  ASSUME TypeOK, ListInv
  PROVE  \A b \in live : List.size[b] = size[b]
<1>1. CASE freeList # NULL
  BY <1>1 DEF List
<1>2. CASE freeList = NULL
  BY <1>2 DEF ListInv
<1> QED
  BY <1>1, <1>2

LEMMA TakesGrants ==
  ASSUME IInv, NEW bytes \in Requests, AllocTakes(bytes)
  PROVE  \E G \in SUBSET Units : \E got \in 1 .. Cap :
           HandsOut(G, got, NBlocks(bytes)) /\ Returns(bytes, got)
<1>1. TypeOK /\ ListInv
  BY DEF IInv
<1> DEFINE list == List
           n    == NBlocks(bytes)
           k    == SearchEnd(list, n)
           last == Walk(list)[k - 1]
           curr == Walk(list)[k]
           sz   == list.size
           left == sz[curr] - n
           got  == curr + left
<1>2. PICK F \in SUBSET Units : list.start \in F /\ Shape(list.next, sz, F, live, free)
  BY <1>1, CurrentList
<1>3. n \in Nat \ {0}
  BY NBlocksIsNat, Constants
<1>4. Chain(list.next, F) /\ Tiling(sz, F, live)
  BY <1>2 DEF Shape
<1>5. last \in F /\ curr = list.next[last] /\ curr \in F
  BY <1>2, <1>4, SearchBlocks
<1>6. \A b \in live : sz[b] = size[b]
  BY <1>1, HeldSizes
<1>7. /\ left >= 0
      /\ next' = IF left = 0 THEN [list.next EXCEPT ![last] = list.next[curr]] ELSE list.next
      /\ size' = IF left = 0 THEN sz ELSE [sz EXCEPT ![curr] = left, ![got] = n]
      /\ freeList' = last
      /\ free' = free - n
      /\ live' = live \union {got}
      /\ Returns(bytes, got)
  BY DEF AllocTakes, Unlinked
<1> HIDE DEF list, n, k, last, curr, sz
<1>8. sz[curr] \in Nat /\ sz[Header] = 0 /\ sz[curr] >= n
  <2>1. sz \in [Units -> 0 .. Cap] /\ sz[Header] = 0 /\ curr \in Units
    BY <1>4, <1>5 DEF Tiling
  <2>2. sz[curr] \in 0 .. Cap
    BY <2>1
  <2>3. sz[curr] \in Nat
    BY <2>2, Constants
  <2> QED
    BY <1>3, <1>7, <2>1, <2>3
<1>9. curr # Header
  BY <1>3, <1>8
<1>10. curr \in 1 .. Cap /\ curr \notin live
  <2>1. live \subseteq Units \ F
    BY <1>4 DEF Tiling
  <2> QED
    BY <1>5, <1>9, <2>1, Constants
<1>11. CASE left = 0
  <2>1. got = curr /\ sz[curr] = n
    BY <1>3, <1>8, <1>10, <1>11, Constants
  <2> HIDE DEF got, left
  <2>2. Shape([list.next EXCEPT ![last] = list.next[curr]], sz, F \ {curr},
              live \union {curr}, free - n)
    <3>1. list.next[last] = curr /\ list.next[last] # Header
      BY <1>5, <1>9
    <3>2. LET c == list.next[last]
          IN Shape([list.next EXCEPT ![last] = list.next[c]], sz, F \ {c},
                   live \union {c}, free - sz[c])
      BY <1>2, <1>5, <3>1, TakeWhole
    <3> QED
      BY <2>1, <3>1, <3>2
  <2>3. last # curr
    <3>1. last # list.next[last]
      BY <1>4, <1>5, <1>9, UnlinkKeepsChain
    <3> QED
      BY <1>5, <3>1
  <2>4. HandsOut(F \ {curr}, curr, n)
    BY <1>5, <1>6, <1>7, <1>10, <1>11, <2>1, <2>2, <2>3 DEF HandsOut
  <2>5. F \ {curr} \in SUBSET Units
    OBVIOUS
  <2> QED
    BY <1>7, <1>10, <2>1, <2>4, <2>5 DEF n
<1>12. CASE left # 0
  <2>1. n \in Nat \ {0} /\ n < sz[curr] /\ left = sz[curr] - n
    BY <1>3, <1>7, <1>8, <1>12
  <2>2. Shape(list.next, [sz EXCEPT ![curr] = sz[curr] - n, ![curr + (sz[curr] - n)] = n], F,
              live \union {curr + (sz[curr] - n)}, free - n)
    BY <1>2, <1>5, <1>9, <2>1, TakeTail
  <2>3. /\ got \in 1 .. Cap /\ got \notin F /\ got \notin live /\ got > curr
        /\ size'[got] = n
        /\ \A x \in Units : x # curr /\ x # got => size'[x] = sz[x]
    <3>1. got = curr + (sz[curr] - n) /\ got > curr /\ got < curr + sz[curr]
      BY <1>8, <1>10, <2>1, Constants
    <3> HIDE DEF got, left
    <3>2. live \union {got} \subseteq Units \ F
      BY <2>2, <3>1 DEF Shape, Tiling
    <3>3. got \in 1 .. Cap /\ got \notin F
      BY <1>10, <3>1, <3>2, Constants
    <3>4. got \notin live
      <4>1. curr \in Blocks(F, live) /\ (got \in live => got \in Blocks(F, live))
        BY <1>5, <1>9 DEF Blocks
      <4>2. got \in live => curr + sz[curr] <= got
        BY <1>4, <3>1, <4>1 DEF Tiling
      <4> QED
        BY <1>8, <1>10, <3>1, <3>3, <4>2
    <3>5. size' = [sz EXCEPT ![curr] = left, ![got] = n]
      BY <1>7, <1>12
    <3>6. sz \in [Units -> 0 .. Cap] /\ got \in Units
      BY <1>4, <3>2 DEF Tiling
    <3> QED
      BY <3>1, <3>3, <3>4, <3>5, <3>6
  <2>4. Shape(next', size', F, live', free')
    BY <1>7, <1>12, <2>2
  <2>5. \A b \in live : size'[b] = size[b]
    <3>1. live \subseteq Units
      BY <1>4 DEF Tiling
    <3> HIDE DEF got, left
    <3> QED
      BY <1>6, <1>10, <2>3, <3>1
  <2> HIDE DEF got, left
  <2>6. HandsOut(F, got, n)
    BY <1>5, <1>7, <2>3, <2>4, <2>5 DEF HandsOut
  <2> QED
    BY <1>7, <2>3, <2>6 DEF n
<1> QED
  BY <1>11, <1>12

\* static_alloc that finds nothing long enough leaves the list as it searched it.
LEMMA FailsKeeps ==
  ASSUME IInv, NEW bytes \in Requests, AllocFails(bytes)
  PROVE  IInv'
<1>1. PICK F \in SUBSET Units :
        List.start \in F /\ Shape(List.next, List.size, F, live, free)
  BY CurrentList DEF IInv
<1>2. /\ next' = List.next /\ size' = List.size /\ freeList' = List.start
      /\ live' = live /\ free' = free
      /\ result' = [asked |-> bytes, got |-> NULL]
  BY DEF AllocFails, Returns
<1>3. result' \in [asked : Requests \union {NULL}, got : Units \union {NULL, -1}]
  BY <1>2
<1> QED
  BY <1>1, <1>2, <1>3, AfterCall

\* What static_free leaves: a list G of the right shape, b no longer held, and the other
\* held blocks as long as before.
TakesBack(G, b) ==
  /\ freeList' \in G
  /\ Shape(next', size', G, live', free')
  /\ live' = live \ {b}
  /\ \A c \in live \ {b} : size'[c] = size[c]

LEMMA FreeReturns ==
  ASSUME IInv, NEW b \in live, Free(b)
  PROVE  \E G \in SUBSET Units : TakesBack(G, b)
<1>1. TypeOK /\ ListInv /\ freeList # NULL
  BY DEF IInv, ListInv
<1>2. PICK F \in SUBSET Units : freeList \in F /\ Shape(next, size, F, live, free)
  BY <1>1 DEF ListInv
<1>3. Chain(next, F) /\ Tiling(size, F, live)
  BY <1>2 DEF Shape
<1>4. live \subseteq Units \ F /\ b \in Units \ F
  BY <1>3 DEF Tiling
<1> DEFINE p  == Place(b)
           q  == next[p]
           ms == IF b + size[b] = q THEN size[b] + size[q] ELSE size[b]
           mn == IF b + size[b] = q THEN next[q] ELSE q
<1>5. p \in F /\ p < b /\ (next[p] = Header \/ b < next[p])
  BY <1>1, <1>2, <1>3, <1>4, PlaceIsBefore
<1>6. MergedSize(b, q) = ms /\ MergedNext(b, q) = mn
  BY DEF MergedSize, MergedNext, Adjoins
<1>7. free \in Nat
  <2>1. free \in 0 .. Cap
    BY <1>1 DEF TypeOK
  <2> QED
    BY <2>1, Constants
<1>8. next \in [Units -> Units] /\ size \in [Units -> 0 .. Cap] /\ p \in Units /\ b \in Units
  BY <1>1, <1>3, <1>4, <1>5 DEF TypeOK, Chain
<1>9. p # b
  BY <1>4, <1>5
<1>10. /\ p + size[p] = b =>
            \E G \in SUBSET Units :
              /\ p \in G
              /\ Shape([next EXCEPT ![b] = mn, ![p] = mn],
                       [size EXCEPT ![b] = ms, ![p] = size[p] + ms],
                       G, live \ {b}, free + size[b])
       /\ p + size[p] # b =>
            \E G \in SUBSET Units :
              /\ p \in G
              /\ Shape([next EXCEPT ![b] = mn, ![p] = b], [size EXCEPT ![b] = ms],
                       G, live \ {b}, free + size[b])
  BY <1>2, <1>5, <1>7, GiveBack
<1>11. /\ free' = free + size[b] /\ freeList' = p /\ live' = live \ {b}
       /\ \/ /\ Adjoins(p, b)
             /\ size' = [size EXCEPT ![b] = MergedSize(b, q), ![p] = @ + MergedSize(b, q)]
             /\ next' = [next EXCEPT ![b] = MergedNext(b, q), ![p] = MergedNext(b, q)]
          \/ /\ ~Adjoins(p, b)
             /\ size' = [size EXCEPT ![b] = MergedSize(b, q)]
             /\ next' = [next EXCEPT ![b] = MergedNext(b, q), ![p] = b]
  BY DEF Free, Credit
<1> HIDE DEF p, q, ms, mn
<1>12. CASE p + size[p] = b
  <2>1. size' = [size EXCEPT ![b] = ms, ![p] = size[p] + ms]
    BY <1>6, <1>8, <1>9, <1>11, <1>12 DEF Adjoins
  <2>2. next' = [next EXCEPT ![b] = mn, ![p] = mn]
    BY <1>6, <1>11, <1>12 DEF Adjoins
  <2>3. PICK G \in SUBSET Units : p \in G /\ Shape(next', size', G, live', free')
    BY <1>10, <1>11, <1>12, <2>1, <2>2
  <2>4. \A c \in live \ {b} : size'[c] = size[c]
    BY <1>4, <1>5, <1>8, <2>1
  <2>5. TakesBack(G, b)
    BY <1>11, <2>3, <2>4 DEF TakesBack
  <2> QED
    BY <2>3, <2>5
<1>13. CASE p + size[p] # b
  <2>1. size' = [size EXCEPT ![b] = ms]
    BY <1>6, <1>11, <1>13 DEF Adjoins
  <2>2. next' = [next EXCEPT ![b] = mn, ![p] = b]
    BY <1>6, <1>11, <1>13 DEF Adjoins
  <2>3. PICK G \in SUBSET Units : p \in G /\ Shape(next', size', G, live', free')
    BY <1>10, <1>11, <1>13, <2>1, <2>2
  <2>4. \A c \in live \ {b} : size'[c] = size[c]
    BY <1>4, <1>8, <2>1
  <2>5. TakesBack(G, b)
    BY <1>11, <2>3, <2>4 DEF TakesBack
  <2> QED
    BY <2>3, <2>5
<1> QED
  BY <1>12, <1>13

LEMMA InitInv == Init => IInv
<1> SUFFICES ASSUME Init PROVE IInv
  OBVIOUS
<1>1. 0 \in Units /\ 0 \in 0 .. Cap /\ Cap \in 0 .. Cap
  BY Constants
<1>2. TypeOK
  BY <1>1 DEF Init, TypeOK
<1>3. ListInv
  BY DEF Init, ListInv
<1> QED
  BY <1>2, <1>3 DEF IInv

LEMMA StepInv == IInv /\ [Next]_vars => IInv'
<1> SUFFICES ASSUME IInv, [Next]_vars PROVE IInv'
  OBVIOUS
<1>1. ASSUME UNCHANGED <<next, size, freeList, free, live>>,
             result' \in [asked : Requests \union {NULL}, got : Units \union {NULL, -1}]
      PROVE  IInv'
  BY <1>1 DEF IInv, TypeOK, ListInv
<1>2. ASSUME NEW bytes \in Requests, AllocRefused(bytes) PROVE IInv'
  BY <1>1, <1>2 DEF AllocRefused, Returns
<1>3. ASSUME NEW bytes \in Requests, AllocFails(bytes) PROVE IInv'
  BY <1>3, FailsKeeps
<1>4. ASSUME NEW bytes \in Requests, AllocTakes(bytes) PROVE IInv'
  <2>1. PICK G \in SUBSET Units, got \in 1 .. Cap :
          HandsOut(G, got, NBlocks(bytes)) /\ Returns(bytes, got)
    BY <1>4, TakesGrants
  <2>2. freeList' \in G /\ Shape(next', size', G, live', free')
    BY <2>1 DEF HandsOut
  <2>3. result' \in [asked : Requests \union {NULL}, got : Units \union {NULL, -1}]
    <3>1. got \in Units
      BY Constants
    <3> QED
      BY <2>1, <3>1 DEF Returns
  <2> QED
    BY <2>2, <2>3, AfterCall
<1>5. ASSUME NEW b \in live, Free(b) PROVE IInv'
  <2>1. PICK G \in SUBSET Units : TakesBack(G, b)
    BY <1>5, FreeReturns
  <2>2. freeList' \in G /\ Shape(next', size', G, live', free')
    BY <2>1 DEF TakesBack
  <2>3. result' \in [asked : Requests \union {NULL}, got : Units \union {NULL, -1}]
    <3>1. 0 \in Units
      BY Constants
    <3> QED
      BY <1>5, <3>1 DEF Free, Returns
  <2> QED
    BY <2>2, <2>3, AfterCall
<1>6. CASE FreeNull
  BY <1>1, <1>6 DEF FreeNull, Returns
<1>7. CASE UNCHANGED vars
  BY <1>1, <1>7 DEF vars, IInv, TypeOK
<1> QED
  BY <1>2, <1>3, <1>4, <1>5, <1>6, <1>7 DEF Next, Alloc

LEMMA SpecInv == Spec => []IInv
BY InitInv, StepInv, PTL DEF Spec

-----------------------------------------------------------------------------
(* What callers rely on. *)

\* For every capacity, unit and sequence of calls the links and sizes written by
\* static_alloc and static_free stay in the memory.
THEOREM TypeCorrect == Spec => []TypeOK
<1>1. IInv => TypeOK
  BY DEF IInv
<1> QED
  BY <1>1, SpecInv, PTL

\* The blocks a walk of the list meets are those of its shape.
LEMMA MeetsTheList ==
  ASSUME NEW F, Chain(next, F), freeList # NULL, freeList \in F
  PROVE  OnList = F
<1> DEFINE w == Walk(List)
<1>1. List.next = next /\ List.start = freeList
  BY DEF List
<1>2. IsWalk(w, next, freeList)
  BY <1>1, WalkIsWalk
<1>3. OnList = {w[k] : k \in Steps}
  BY DEF OnList, Steps
<1> HIDE DEF w
<1>4. \A k \in Steps : w[k] \in F
  BY <1>2, WalkStays
<1>5. \A p \in F : \E k \in Steps : w[k] = p
  <2>1. \A p \in F : \E k \in 0 .. Cap : w[k] = p
    BY <1>2, WalkCovers
  <2>2. 0 .. Cap \subseteq Steps
    BY Constants DEF Steps
  <2> QED
    BY <2>1, <2>2
<1> QED
  BY <1>3, <1>4, <1>5

\* The invariant says that the memory is tiled.
LEMMA InvTiles == IInv => Tiles
<1> SUFFICES ASSUME IInv, freeList # NULL
             PROVE  /\ Header \in OnList /\ size[Header] = 0
                    /\ FreeBlocks \intersect live = {}
                    /\ \A b, c \in FreeBlocks \union live :
                         b # c => Extent(b) \intersect Extent(c) = {}
                    /\ UNION {Extent(b) : b \in FreeBlocks \union live} = 1 .. Cap
                    /\ Cardinality(UNION {Extent(b) : b \in FreeBlocks}) = free
  BY DEF Tiles
<1>1. PICK F \in SUBSET Units : freeList \in F /\ Shape(next, size, F, live, free)
  BY DEF IInv, ListInv
<1>2. /\ Chain(next, F) /\ Tiling(size, F, live) /\ F \subseteq Units
      /\ Cardinality(Stretch(size, F)) = free
  BY <1>1 DEF Shape
<1>3. OnList = F /\ FreeBlocks = F \ {Header}
  BY <1>1, <1>2, MeetsTheList DEF FreeBlocks
<1>4. Header \in OnList /\ size[Header] = 0
  BY <1>2, <1>3 DEF Chain, Tiling
<1>5. FreeBlocks \intersect live = {}
  BY <1>2, <1>3 DEF Tiling
<1> DEFINE B == Blocks(F, live)
<1>6. FreeBlocks \union live = B
  BY <1>3 DEF Blocks
<1>7. /\ \A b \in B : b \in Nat /\ b >= 1 /\ size[b] \in Nat /\ size[b] >= 1
                      /\ b + size[b] <= Cap + 1
      /\ \A b, c \in B : b < c => b + size[b] <= c
      /\ \A u \in 1 .. Cap : \E b \in B : b <= u /\ u < b + size[b]
  BY <1>2, TilingFacts
<1> HIDE DEF B
<1>8. ASSUME NEW b \in B, NEW c \in B, b # c
      PROVE  Extent(b) \intersect Extent(c) = {}
  <2>1. b \in Nat /\ c \in Nat /\ size[b] \in Nat /\ size[c] \in Nat
    BY <1>7
  <2>2. b + size[b] <= c \/ c + size[c] <= b
    BY <1>7, <1>8, <2>1
  <2> QED
    BY <2>1, <2>2 DEF Extent
<1>9. UNION {Extent(b) : b \in B} = 1 .. Cap
  <2>1. ASSUME NEW b \in B PROVE Extent(b) \subseteq 1 .. Cap
    <3>1. b \in Nat /\ b >= 1 /\ size[b] \in Nat /\ b + size[b] <= Cap + 1 /\ Cap \in Nat
      BY <1>7, Constants
    <3> QED
      BY <3>1 DEF Extent
  <2>2. ASSUME NEW u \in 1 .. Cap PROVE \E b \in B : u \in Extent(b)
    <3>1. PICK b \in B : b <= u /\ u < b + size[b]
      BY <1>7
    <3>2. b \in Nat /\ size[b] \in Nat /\ u \in Int
      BY <1>7
    <3>3. u \in Extent(b)
      BY <3>1, <3>2 DEF Extent
    <3> QED
      BY <3>3
  <2> QED
    BY <2>1, <2>2
<1>10. Cardinality(UNION {Extent(b) : b \in FreeBlocks}) = free
  <2>1. UNION {Extent(b) : b \in FreeBlocks} = Stretch(size, F)
    BY <1>3 DEF Extent, Stretch
  <2> QED
    BY <1>2, <2>1
<1> QED
  BY <1>4, <1>5, <1>6, <1>8, <1>9, <1>10

\* For every capacity, unit and sequence of calls the free blocks and the callers' tile
\* the memory, and free_memory_size (lines 65, 102, 144) counts the free units.
THEOREM MemoryIsTiled == Spec => []Tiles
BY InvTiles, SpecInv, PTL

\* For every capacity, unit and sequence of calls the list has one way back, and the
\* merges of static_free (lines 162-176) leave no two free blocks that touch.
THEOREM NoNeighbourIsMissed == Spec => []Coalesced
<1>1. IInv => Coalesced
  <2> SUFFICES ASSUME IInv, freeList # NULL
               PROVE  /\ Cardinality({p \in OnList : next[p] <= p}) = 1
                      /\ \A p, q \in FreeBlocks : p + size[p] # q
    BY DEF Coalesced
  <2>1. PICK F \in SUBSET Units : freeList \in F /\ Shape(next, size, F, live, free)
    BY DEF IInv, ListInv
  <2>2. Chain(next, F) /\ Apart(size, F)
    BY <2>1 DEF Shape
  <2>3. OnList = F /\ FreeBlocks = F \ {Header}
    BY <2>1, <2>2, MeetsTheList DEF FreeBlocks
  <2>4. /\ \A p \in F : p \in Nat /\ next[p] \in F
        /\ Header \in F /\ Header = 0
    BY <2>2, Addresses
  <2>5. \A p \in F : \/ next[p] > p /\ \A q \in F : q <= p \/ next[p] <= q
                     \/ next[p] = Header /\ \A q \in F : q <= p
    BY <2>2 DEF Chain
  <2>6. PICK m \in F : \A q \in F : q <= m
    BY <2>1, LastOne
  <2>7. ASSUME NEW p \in F PROVE next[p] <= p <=> p = m
    <3>1. /\ p \in Nat /\ m \in Nat /\ next[p] \in Nat /\ p <= m /\ next[p] <= m
          /\ (next[p] > p \/ next[p] = Header)
          /\ (next[p] > p \/ m <= p)
      BY <2>4, <2>5, <2>6
    <3> QED
      BY <2>4, <3>1
  <2>8. {p \in OnList : next[p] <= p} = {m}
    BY <2>3, <2>7
  <2>9. Cardinality({p \in OnList : next[p] <= p}) = 1
    BY <2>8, FS_Singleton
  <2>10. \A p, q \in FreeBlocks : p + size[p] # q
    BY <2>2, <2>3 DEF Apart
  <2> QED
    BY <2>9, <2>10
<1> QED
  BY <1>1, SpecInv, PTL

\* The invariant says that memory nobody holds is one block.
LEMMA InvUnified == IInv => UnifiedWhenAllFreed
<1> SUFFICES ASSUME IInv, freeList # NULL, live = {}
             PROVE  next[next[freeList]] = freeList /\ size[next[Header]] = Cap
  BY DEF UnifiedWhenAllFreed, IsUnified
<1>1. PICK F \in SUBSET Units : freeList \in F /\ Shape(next, size, F, live, free)
  BY DEF IInv, ListInv
<1>2. Chain(next, F) /\ Tiling(size, F, live) /\ Apart(size, F) /\ F \subseteq Units
  BY <1>1 DEF Shape
<1> DEFINE B == F \ {Header}
<1>3. Blocks(F, live) = B
  BY DEF Blocks
<1>4. /\ \A b \in B : b \in Nat /\ b >= 1 /\ size[b] \in Nat /\ size[b] >= 1
                      /\ b + size[b] <= Cap + 1
      /\ \A b, c \in B : b < c => b + size[b] <= c
      /\ \A u \in 1 .. Cap : \E b \in B : b <= u /\ u < b + size[b]
  BY <1>2, <1>3, TilingFacts
<1>5. \A b, c \in B : b + size[b] # c
  BY <1>2 DEF Apart
<1>6. Cap \in Nat \ {0} /\ Header = 0 /\ Header \in F
  BY <1>2, Constants DEF Chain
<1> HIDE DEF B
<1>7. 1 \in B
  <2>1. 1 \in 1 .. Cap
    BY <1>6
  <2>2. PICK b \in B : b <= 1 /\ 1 < b + size[b]
    BY <1>4, <2>1
  <2>3. b = 1
    BY <1>4, <2>2
  <2> QED
    BY <2>3
<1>8. size[1] = Cap
  <2> SUFFICES ASSUME size[1] # Cap PROVE FALSE
    OBVIOUS
  <2> DEFINE u == 1 + size[1]
  <2>1. size[1] \in Nat /\ size[1] >= 1 /\ 1 + size[1] <= Cap + 1
    BY <1>4, <1>7
  <2>2. u \in 1 .. Cap
    BY <1>6, <2>1
  <2>3. PICK c \in B : c <= u /\ u < c + size[c]
    BY <1>4, <2>2
  <2>4. c \in Nat /\ c >= 1 /\ size[c] \in Nat /\ (1 < c => u <= c) /\ u # c
    BY <1>4, <1>5, <1>7
  <2>5. c = 1
    BY <2>1, <2>3, <2>4
  <2> QED
    BY <2>1, <2>3, <2>5
<1>9. ASSUME NEW p \in F PROVE p = 0 \/ p = 1
  <2> SUFFICES ASSUME p # 0, p # 1 PROVE FALSE
    OBVIOUS
  <2>1. p \in B
    BY <1>6 DEF B
  <2>2. p \in Nat /\ p >= 1 /\ size[p] \in Nat /\ size[p] >= 1 /\ p + size[p] <= Cap + 1
        /\ (1 < p => 1 + size[1] <= p)
    BY <1>4, <1>7, <2>1
  <2> QED
    BY <1>6, <1>8, <2>2
<1>10. 1 \in F
  BY <1>7 DEF B
<1>11. next[0] = 1 /\ next[1] = 0
  <2>1. /\ next[0] \in F /\ (next[0] > 0 \/ 1 <= 0)
        /\ next[1] \in F /\ (next[1] > 1 \/ next[1] = 0)
    BY <1>2, <1>6, <1>10 DEF Chain
  <2>2. (next[0] = 0 \/ next[0] = 1) /\ (next[1] = 0 \/ next[1] = 1)
    BY <1>9, <2>1
  <2> QED
    BY <2>1, <2>2
<1>12. freeList = 0 \/ freeList = 1
  BY <1>1, <1>9
<1> QED
  BY <1>6, <1>8, <1>11, <1>12

\* For every capacity, unit and sequence of calls: once everything is freed, in whatever
\* order, the memory is one block again.
THEOREM FreedMemoryIsOneBlock == Spec => []UnifiedWhenAllFreed
BY InvUnified, SpecInv, PTL

-----------------------------------------------------------------------------
(* The promise of the header. *)

\* The stretches callers hold, as the heap sees them.
Used == {[first |-> b, len |-> size[b]] : b \in live}

\* A run of units that no caller holds lies in free blocks.
LEMMA UnheldIsFree ==
  ASSUME IInv, NEW F \in SUBSET Units, Shape(List.next, List.size, F, live, free),
         NEW a, NEW n, Promise!Fits(a, n)
  PROVE  a .. a + n - 1 \subseteq Stretch(List.size, F)
<1> DEFINE sz == List.size
<1>1. Tiling(sz, F, live) /\ F \subseteq Units
  BY DEF Shape
<1>2. \A b \in live : sz[b] = size[b]
  BY HeldSizes DEF IInv
<1>3. a .. a + n - 1 \subseteq 1 .. Cap
  BY DEF Promise!Fits, Promise!Extent
<1>4. ASSUME NEW b \in live
      PROVE  (a .. a + n - 1) \intersect (b .. b + size[b] - 1) = {}
  <2>1. [first |-> b, len |-> size[b]] \in Used
    BY DEF Used
  <2>2. \A u \in Used : (a .. a + n - 1) \intersect (u.first .. u.first + u.len - 1) = {}
    BY DEF Promise!Fits, Promise!Extent, Used
  <2> QED
    BY <2>1, <2>2
<1> HIDE DEF sz
<1>5. ASSUME NEW u \in a .. a + n - 1 PROVE u \in Stretch(sz, F)
  <2>1. u \in 1 .. Cap /\ u \in Int
    BY <1>3
  <2>2. PICK b \in Blocks(F, live) : b <= u /\ u < b + sz[b]
    BY <1>1, <2>1, TilingFacts
  <2>3. b \in Nat /\ sz[b] \in Nat
    BY <1>1, TilingFacts
  <2>4. b \notin live
    <3> SUFFICES ASSUME b \in live PROVE FALSE
      OBVIOUS
    <3>1. u \in b .. b + size[b] - 1
      BY <1>2, <2>1, <2>2, <2>3
    <3> QED
      BY <1>4, <3>1
  <2>5. b \in F \ {Header}
    BY <2>4 DEF Blocks
  <2> QED
    BY <1>1, <2>1, <2>2, <2>5, FreeUnits
<1> QED
  BY <1>5 DEF sz

\* A run of units in free blocks that do not touch lies in one of them.
LEMMA RunInOneBlock ==
  ASSUME NEW sz, NEW F, NEW L, F \subseteq Units, Tiling(sz, F, L), Apart(sz, F),
         NEW a \in Int, NEW n \in Nat \ {0}, a .. a + n - 1 \subseteq Stretch(sz, F)
  PROVE  \E b \in F : sz[b] >= n
<1>1. \A u : u \in Stretch(sz, F) <=>
               u \in Int /\ \E b \in F \ {Header} : b <= u /\ u < b + sz[b]
  BY FreeUnits
<1>2. a \in a .. a + n - 1
  OBVIOUS
<1>3. PICK c \in F \ {Header} : c <= a /\ a < c + sz[c]
  BY <1>1, <1>2
<1>4. \A b \in F \ {Header} : b \in Nat /\ sz[b] \in Nat
  BY TilingFacts DEF Blocks
<1>5. \A b, d \in F \ {Header} : b < d => b + sz[b] <= d
  BY TilingFacts DEF Blocks
<1>6. sz[c] >= n
  <2> SUFFICES ASSUME ~ (sz[c] >= n) PROVE FALSE
    OBVIOUS
  <2> DEFINE u == c + sz[c]
  <2>1. c \in Nat /\ sz[c] \in Nat
    BY <1>4
  <2>2. u \in a .. a + n - 1
    BY <1>3, <2>1
  <2>3. PICK d \in F \ {Header} : d <= u /\ u < d + sz[d]
    BY <1>1, <2>2
  <2>4. d \in Nat /\ sz[d] \in Nat /\ (c < d => u <= d) /\ (d < c => d + sz[d] <= c) /\ u # d
    BY <1>4, <1>5 DEF Apart
  <2> QED
    BY <2>1, <2>3, <2>4
<1> QED
  BY <1>6

LEMMA InitRefines == Init => Promise!Init
BY DEF Init, Promise!Init

\* NULL for a request means that no run of units was long enough.
LEMMA RefusedRefines ==
  ASSUME IInv, NEW bytes \in Requests, AllocRefused(bytes)
  PROVE  Promise!Refuse(bytes)
<1>1. bytes = 0 \/ NBlocks(bytes) > free
  BY DEF AllocRefused, Refused
<1>2. Used' = Used /\ Promise!Returns(bytes, NULL)
  BY DEF AllocRefused, Used, Returns, Promise!Returns
<1>3. ASSUME NBlocks(bytes) > free, NEW a \in 1 .. Cap, Promise!Fits(a, NBlocks(bytes))
      PROVE  FALSE
  <2> DEFINE n == NBlocks(bytes)
             run == a .. a + n - 1
  <2>1. n \in Nat \ {0}
    BY NBlocksIsNat, Constants
  <2>2. PICK F \in SUBSET Units : Shape(List.next, List.size, F, live, free)
    BY CurrentList DEF IInv
  <2>3. run \subseteq Stretch(List.size, F)
    BY <1>3, <2>2, UnheldIsFree
  <2> HIDE DEF n
  <2>4. F \subseteq Units /\ Tiling(List.size, F, live) /\ free = Cardinality(Stretch(List.size, F))
    BY <2>2 DEF Shape
  <2>5. IsFiniteSet(Stretch(List.size, F))
    BY <2>4, FreeUnits
  <2>6. Cardinality(run) = n
    <3>1. a \in Nat /\ n \in Nat /\ IsFiniteSet({}) /\ Cardinality({}) = 0
          /\ {} \intersect run = {}
      BY <2>1, FS_EmptySet
    <3>2. Cardinality({} \union run) = Cardinality({}) + n
      BY <3>1, AddRun
    <3>3. {} \union run = run
      OBVIOUS
    <3> HIDE DEF run
    <3> QED
      BY <3>1, <3>2, <3>3
  <2>7. Cardinality(run) <= Cardinality(Stretch(List.size, F))
    BY <2>3, <2>5, FS_Subset
  <2>8. free \in Nat
    BY <2>4, <2>5, FS_CardinalityType
  <2> QED
    BY <1>3, <2>1, <2>4, <2>6, <2>7, <2>8 DEF n
<1> QED
  BY <1>1, <1>2, <1>3 DEF Promise!Refuse, Promise!Need, NBlocks, Used

LEMMA FailsRefines ==
  ASSUME IInv, NEW bytes \in Requests, AllocFails(bytes)
  PROVE  Promise!Refuse(bytes)
<1> DEFINE n == NBlocks(bytes)
<1>1. /\ ~ (List.size[Walk(List)[SearchEnd(List, n)]] >= n)
      /\ n \in Nat \ {0}
  <2>1. n \in Nat \ {0}
    BY NBlocksIsNat, Constants
  <2>2. List.size[Walk(List)[SearchEnd(List, n)]] < n
    BY DEF AllocFails
  <2>3. PICK F \in SUBSET Units :
          List.start \in F /\ Shape(List.next, List.size, F, live, free)
    BY CurrentList DEF IInv
  <2>4. Chain(List.next, F) /\ Tiling(List.size, F, live)
    BY <2>3 DEF Shape
  <2>5. Walk(List)[SearchEnd(List, n)] \in F
    BY <2>3, <2>4, SearchBlocks
  <2>6. List.size[Walk(List)[SearchEnd(List, n)]] \in 0 .. Cap
    BY <2>4, <2>5 DEF Tiling
  <2>7. Cap \in Nat
    BY Constants
  <2> DEFINE s == List.size[Walk(List)[SearchEnd(List, n)]]
  <2>8. s < n /\ s \in 0 .. Cap
    BY <2>2, <2>6
  <2> HIDE DEF s, n
  <2>9. ~ (s >= n)
    BY <2>1, <2>7, <2>8
  <2> QED
    BY <2>1, <2>9 DEF s
<1>2. ASSUME NEW a \in 1 .. Cap, Promise!Fits(a, n) PROVE FALSE
  <2>1. PICK F \in SUBSET Units :
          List.start \in F /\ Shape(List.next, List.size, F, live, free)
    BY CurrentList DEF IInv
  <2>2. Chain(List.next, F) /\ Tiling(List.size, F, live) /\ Apart(List.size, F)
        /\ F \subseteq Units
    BY <2>1 DEF Shape
  <2>3. \A p \in F : ~ (List.size[p] >= n)
    BY <1>1, <2>1, <2>2, SearchLooksEverywhere
  <2>4. a .. a + n - 1 \subseteq Stretch(List.size, F)
    BY <1>2, <2>1, UnheldIsFree
  <2>5. a \in Int
    OBVIOUS
  <2>6. \E b \in F : List.size[b] >= n
    BY <1>1, <2>2, <2>4, <2>5, RunInOneBlock
  <2> QED
    BY <2>3, <2>6
<1>3. Used' = Used
  <2>1. live' = live /\ size' = List.size
    BY DEF AllocFails
  <2>2. \A b \in live : size'[b] = size[b]
    BY <2>1, HeldSizes DEF IInv
  <2> QED
    BY <2>1, <2>2 DEF Used
<1>4. Promise!Returns(bytes, NULL)
  BY DEF AllocFails, Returns, Promise!Returns
<1> QED
  BY <1>2, <1>3, <1>4 DEF Promise!Refuse, Promise!Need, NBlocks, Used

LEMMA TakesRefines ==
  ASSUME IInv, NEW bytes \in Requests, AllocTakes(bytes)
  PROVE  Promise!Grant(bytes)
<1> DEFINE n == NBlocks(bytes)
<1>1. PICK G \in SUBSET Units, got \in 1 .. Cap : HandsOut(G, got, n) /\ Returns(bytes, got)
  BY TakesGrants
<1>2. bytes # 0
  BY DEF AllocTakes, Refused
<1>3. n \in Nat \ {0}
  BY NBlocksIsNat, Constants
<1> HIDE DEF n
<1>4. /\ Tiling(size', G, live') /\ G \subseteq Units
      /\ live' = live \union {got} /\ got \notin live /\ size'[got] = n
      /\ \A b \in live : size'[b] = size[b]
  BY <1>1 DEF HandsOut, Shape
<1>5. /\ \A b \in Blocks(G, live') :
           b \in Nat /\ b >= 1 /\ size'[b] \in Nat /\ size'[b] >= 1 /\ b + size'[b] <= Cap + 1
      /\ \A b, c \in Blocks(G, live') : b < c => b + size'[b] <= c
  BY <1>4, TilingFacts
<1>6. got \in Blocks(G, live') /\ \A b \in live : b \in Blocks(G, live') /\ b # got
  BY <1>4 DEF Blocks
<1>7. got .. got + n - 1 \subseteq 1 .. Cap
  <2>1. got \in Nat /\ got >= 1 /\ got + n <= Cap + 1 /\ Cap \in Nat
    BY <1>4, <1>5, <1>6, Constants
  <2> QED
    BY <1>3, <2>1
<1>8. ASSUME NEW b \in live
      PROVE  (got .. got + n - 1) \intersect (b .. b + size[b] - 1) = {}
  <2>1. /\ got \in Nat /\ b \in Nat /\ size[b] \in Nat /\ got # b
        /\ (got < b => got + n <= b) /\ (b < got => b + size[b] <= got)
    BY <1>4, <1>5, <1>6
  <2> QED
    BY <1>3, <2>1
<1>9. \A u \in Used : (got .. got + n - 1) \intersect (u.first .. u.first + u.len - 1) = {}
  BY <1>8 DEF Used
<1>10. Promise!Fits(got, n)
  BY <1>7, <1>9 DEF Promise!Fits, Promise!Extent, Used
<1>11. Used' = Used \union {[first |-> got, len |-> n]}
  <2>1. Used' = {[first |-> b, len |-> size'[b]] : b \in live \union {got}}
    BY <1>4 DEF Used
  <2> QED
    BY <1>4, <2>1 DEF Used
<1>12. Promise!Returns(bytes, got)
  BY <1>1 DEF Returns, Promise!Returns
<1>13. n = Promise!Need(bytes)
  BY DEF n, NBlocks, Promise!Need
<1> QED
  BY <1>2, <1>10, <1>11, <1>12, <1>13 DEF Promise!Grant, Used

LEMMA FreeRefines ==
  ASSUME IInv, NEW b \in live, Free(b)
  PROVE  Promise!Release
<1>1. PICK G \in SUBSET Units : TakesBack(G, b)
  BY FreeReturns
<1>2. live' = live \ {b} /\ \A c \in live \ {b} : size'[c] = size[c]
  BY <1>1 DEF TakesBack
<1> DEFINE u == [first |-> b, len |-> size[b]]
<1>3. u \in Used
  BY DEF Used
<1>4. Used' = Used \ {u}
  <2>1. ASSUME NEW x PROVE x \in Used' => x \in Used \ {u}
    <3> SUFFICES ASSUME x \in Used' PROVE x \in Used \ {u}
      OBVIOUS
    <3>1. PICK c \in live' : x = [first |-> c, len |-> size'[c]]
      BY DEF Used
    <3>2. c \in live /\ c # b /\ x = [first |-> c, len |-> size[c]]
      BY <1>2, <3>1
    <3>3. x.first = c /\ u.first = b
      BY <3>2
    <3> QED
      BY <3>2, <3>3 DEF Used
  <2>2. ASSUME NEW x PROVE x \in Used \ {u} => x \in Used'
    <3> SUFFICES ASSUME x \in Used \ {u} PROVE x \in Used'
      OBVIOUS
    <3>1. PICK c \in live : x = [first |-> c, len |-> size[c]]
      BY DEF Used
    <3>2. c # b
      BY <3>1
    <3>3. c \in live' /\ x = [first |-> c, len |-> size'[c]]
      BY <1>2, <3>1, <3>2
    <3> QED
      BY <3>3 DEF Used
  <2> QED
    BY <2>1, <2>2
<1>5. Promise!Returns(NULL, 0)
  BY DEF Free, Returns, Promise!Returns
<1> QED
  BY <1>3, <1>4, <1>5 DEF Promise!Release, Used

LEMMA StepRefines == IInv /\ [Next]_vars => [Promise!Next]_Promise!vars
<1> SUFFICES ASSUME IInv, [Next]_vars PROVE [Promise!Next]_Promise!vars
  OBVIOUS
<1>1. ASSUME NEW bytes \in Requests, Alloc(bytes)
      PROVE  Promise!Grant(bytes) \/ Promise!Refuse(bytes)
  BY <1>1, RefusedRefines, FailsRefines, TakesRefines DEF Alloc
<1>2. ASSUME NEW b \in live, Free(b) PROVE Promise!Release
  BY <1>2, FreeRefines
<1>3. FreeNull => Promise!ReleaseNull
  BY DEF FreeNull, Returns, Promise!ReleaseNull, Promise!Returns
<1>4. UNCHANGED vars => UNCHANGED Promise!vars
  BY DEF vars, Promise!vars
<1> QED
  BY <1>1, <1>2, <1>3, <1>4 DEF Next, Promise!Next

\* For every capacity, unit and sequence of calls the allocator implements the heap: what
\* callers hold never overlaps, is as long as they asked for, and NULL means that no free
\* stretch was long enough, however the list was cut and merged before (lines 83-180).
THEOREM AllocatorImplementsHeap == Spec => ImplementsHeap
BY InitRefines, StepRefines, SpecInv, PTL DEF Spec, ImplementsHeap, Promise!Spec
=============================================================================
