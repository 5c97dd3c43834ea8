----------------------------- MODULE DemoProofs -----------------------------
(***************************************************************************)
(* The demo's semaphore excludes, and the routine is never suspended while *)
(* it has it, however far it counts.                                       *)
(***************************************************************************)
EXTENDS Demo, NaturalLemmas, FiniteSetTheorems, TLAPS

Values ==
  /\ g_mutex \in {"routine", "menu", Nobody}
  /\ g_pid \in BOOLEAN
  /\ routine \in {"begin", "ended"} \union Between \union Inside
  /\ suspended \in BOOLEAN
  /\ menu \in {"prompt", "say", "pause", "resume", "join", "done"} \union AtMutex
  /\ n \in Numbers
  /\ text \in BOOLEAN

\* At most one prime is counted for each number.
Counting == i \in 0 .. Limit /\ sum \in 0 .. i

\* Who has taken the semaphore is between its wait and its post.
Exclusion ==
  /\ g_mutex = "routine" <=> routine \in Inside
  /\ g_mutex = "menu" <=> menu \in AtMutex

\* The routine is announced from its first to its second critical section.
Announced == g_pid => routine \in Between \union {"announced", "withdraw"}

IInv == Values /\ Counting /\ Exclusion /\ Announced /\ SuspendedBetween

-----------------------------------------------------------------------------
\* isPrime answers with 0 or 1.
LEMMA IsPrimeIsABit ==
  ASSUME NEW p
  PROVE  IsPrime(p) \in {0, 1}
BY DEF IsPrime

\* The program starts with nobody in a critical section and nobody suspended.
LEMMA InitInv == Init => IInv
<1> SUFFICES ASSUME Init PROVE IInv
    OBVIOUS
<1>1. Values
      BY DEF Init, Values
<1>2. Counting
      BY DemoAssumption DEF Init, Counting
<1>3. Exclusion
      BY DemoAssumption DEF Init, Exclusion, Inside, AtMutex
<1>4. Announced /\ SuspendedBetween
      BY DEF Init, Announced, SuspendedBetween
<1> QED BY <1>1, <1>2, <1>3, <1>4 DEF IInv

\* The routine enters and leaves its critical sections as the holder, unsuspended.
LEMMA RoutineInv == IInv /\ Routine => IInv'
<1> SUFFICES ASSUME IInv, Routine PROVE IInv'
    OBVIOUS
<1> USE DEF IInv, Values, Exclusion, Announced, SuspendedBetween, Inside, Between, AtMutex, Moves,
        menuVars
<1>1. CASE Announce /\ UNCHANGED <<i, sum, suspended, menuVars>>
  <2>1. Counting'
        BY <1>1 DEF Counting
  <2>2. Values'
        BY <1>1 DEF Announce, Wait, Post
  <2>3. Exclusion'
        BY <1>1, DemoAssumption DEF Announce, Wait, Post
  <2>4. Announced' /\ SuspendedBetween'
        BY <1>1, DemoAssumption DEF Announce, Wait, Post
  <2> QED BY <2>1, <2>2, <2>3, <2>4
<1>2. CASE Finish /\ UNCHANGED <<i, sum, suspended, menuVars>>
  <2>1. Counting'
        BY <1>2 DEF Counting
  <2>2. Values'
        BY <1>2 DEF Finish, Wait, Post
  <2>3. Exclusion'
        BY <1>2, DemoAssumption DEF Finish, Wait, Post
  <2>4. Announced' /\ SuspendedBetween'
        BY <1>2, DemoAssumption DEF Finish, Wait, Post
  <2> QED BY <2>1, <2>2, <2>3, <2>4
<1>3. CASE Count /\ UNCHANGED <<g_mutex, g_pid, suspended, menuVars>>
  <2>1. Counting'
        BY <1>3, IsPrimeIsABit, DemoAssumption DEF Counting, Count
  <2>2. Values' /\ Exclusion' /\ Announced' /\ SuspendedBetween'
        BY <1>3 DEF Count
  <2> QED BY <2>1, <2>2
<1>4. CASE Report /\ UNCHANGED <<i, sum, g_mutex, g_pid, suspended, menuVars>>
      BY <1>4 DEF Report, Counting
<1> QED BY <1>1, <1>2, <1>3, <1>4 DEF Routine

\* The menu suspends only as the holder, so the routine is outside, and only a
\* routine that is announced.
LEMMA MenuInv == IInv /\ Menu => IInv'
<1> SUFFICES ASSUME IInv, Menu PROVE IInv'
    OBVIOUS
<1>1. Counting'
      BY DEF IInv, Counting, Menu, Prompt, Obey, routineVars
<1> USE DEF IInv, Values, Exclusion, Announced, SuspendedBetween, Inside, Between, AtMutex,
        routineVars
<1>2. CASE Prompt /\ UNCHANGED routineVars
  <2>1. n' \in Numbers /\ text' \in BOOLEAN
        BY <1>2 DEF Prompt
  <2>2. menu' \in {"pause", "resume", "join"}
        BY <1>2 DEF Prompt, Chosen
  <2> QED BY <1>1, <1>2, <2>1, <2>2 DEF Prompt
<1>3. CASE Obey
  <2> USE <1>3 DEF Obey
  <2>1. CASE Lock("pause", "suspend") \/ Lock("resume", "continue")
        BY <1>1, <2>1, DemoAssumption DEF Lock, Wait
  <2>2. CASE Switch("suspend", "paused", TRUE)
        BY <1>1, <2>2 DEF Switch
  <2>3. CASE Switch("continue", "resumed", FALSE)
        BY <1>1, <2>3 DEF Switch
  <2>4. CASE Unlock("paused") \/ Unlock("resumed")
        BY <1>1, <2>4, DemoAssumption DEF Unlock, Post
  <2>5. CASE Join
        BY <1>1, <2>5 DEF Join
  <2>6. CASE Say
        BY <1>1, <2>6 DEF Say
  <2> QED BY <2>1, <2>2, <2>3, <2>4, <2>5, <2>6 DEF Pause, Resume
<1> QED BY <1>2, <1>3 DEF Menu

\* A step that changes nothing keeps the invariant.
LEMMA StutterInv == IInv /\ UNCHANGED vars => IInv'
BY DEF IInv, vars, menuVars, routineVars, Values, Counting, Exclusion, Announced,
  SuspendedBetween

\* The inductive invariant holds in every reachable state.
THEOREM InvariantHolds == Spec => []IInv
<1>1. IInv /\ [Next]_vars => IInv'
      BY RoutineInv, MenuInv, StutterInv DEF Next
<1> QED BY InitInv, <1>1, PTL DEF Spec

\* The variables keep their shapes, for every limit of the counting.
THEOREM TypeCorrect == Spec => []TypeOK
<1>1. IInv => TypeOK
      BY DemoAssumption DEF IInv, Values, Counting, TypeOK
<1> QED BY InvariantHolds, <1>1, PTL

\* The routine is never suspended inside a critical section, nor before it is
\* announced or after it has withdrawn (demo.c:66-74).
THEOREM NeverSuspendedInside == Spec => []SuspendedBetween
<1>1. IInv => SuspendedBetween
      BY DEF IInv
<1> QED BY InvariantHolds, <1>1, PTL

-----------------------------------------------------------------------------
(* The count. *)

\* Every natural number has an integer root.
LEMMA RootExists ==
  ASSUME NEW p \in Nat
  PROVE  RootOf(p) \in 0 .. p /\ RootOf(p) * RootOf(p) <= p
         /\ p < (RootOf(p) + 1) * (RootOf(p) + 1)
<1> DEFINE above == {r \in Nat : p < (r + 1) * (r + 1)}
           Fits(r) == r * r <= p /\ p < (r + 1) * (r + 1)
<1>1. above \subseteq Nat /\ p \in above
  <2>1. (p + 1) * (p + 1) = p * p + p + p + 1 /\ p * p \in Nat
    OBVIOUS
  <2> QED
    BY <2>1
<1>2. PICK r \in above : \A s \in above : r <= s
  <2> HIDE DEF above
  <2> QED
    BY <1>1, LeastNat
<1>3. r \in Nat /\ p < (r + 1) * (r + 1) /\ r <= p
  BY <1>1, <1>2
<1>4. r * r <= p
  <2>1. CASE r = 0
    BY <2>1
  <2>2. CASE r # 0
    <3>1. r - 1 \in Nat /\ (r - 1) + 1 = r /\ ~ (r <= r - 1)
      BY <1>3, <2>2
    <3>2. r - 1 \notin above
      BY <1>2, <3>1
    <3>3. ~ (p < r * r)
      BY <3>1, <3>2
    <3>4. r * r \in Nat
      BY <1>3
    <3> QED
      BY <3>3, <3>4
  <2> QED
    BY <2>1, <2>2
<1>5. \E s \in 0 .. p : Fits(s)
  BY <1>3, <1>4
<1>6. RootOf(p) = CHOOSE s \in 0 .. p : Fits(s)
  BY DEF RootOf
<1>7. RootOf(p) \in 0 .. p /\ Fits(RootOf(p))
  <2> HIDE DEF Fits
  <2> QED
    BY <1>5, <1>6
<1> QED
  BY <1>7

\* A number without remainder is a multiple.
LEMMA Divides ==
  ASSUME NEW p \in Nat, NEW d \in Nat \ {0}, p % d = 0
  PROVE  \E e \in Nat : p = d * e
<1>1. p \div d \in Nat /\ p = d * (p \div d) + (p % d)
  OBVIOUS
<1> QED
  BY <1>1

\* A multiple has no remainder.
LEMMA NoRemainder ==
  ASSUME NEW d \in Nat \ {0}, NEW e \in Nat
  PROVE  (d * e) % d = 0
<1> DEFINE q == (d * e) \div d
           r == (d * e) % d
<1>1. d * e \in Nat /\ q \in Nat /\ r \in 0 .. d - 1 /\ d * e = d * q + r
  OBVIOUS
<1> HIDE DEF q, r
<1>2. d * (e - q) = r
  BY <1>1
<1>3. e - q = 0
  <2> DEFINE x == e - q
  <2>1. x \in Int
    BY <1>1
  <2>2. CASE x >= 1
    <3>1. d * x >= d
      BY <2>1, <2>2
    <3> QED
      BY <1>1, <1>2, <3>1
  <2>3. CASE x <= -1
    <3>1. d * x < 0
      BY <2>1, <2>3
    <3> QED
      BY <1>1, <1>2, <3>1
  <2> QED
    BY <2>1, <2>2, <2>3
<1>4. r = 0
  BY <1>2, <1>3
<1> QED
  BY <1>4 DEF r

\* Greater factors, greater product.
LEMMA Products ==
  ASSUME NEW a \in Nat, NEW b \in Nat, NEW c \in Nat, a <= b
  PROVE  a * c <= b * c /\ c * a <= c * b
<1> DEFINE k == b - a
<1>1. k \in Nat /\ b = a + k
  OBVIOUS
<1> HIDE DEF k
<1>2. b * c = a * c + k * c /\ k * c \in Nat /\ a * c \in Nat
  BY <1>1
<1> QED
  BY <1>2

\* What the primes are, and those below a number.
Prime(p) == \A d \in 2 .. p - 1 : p % d # 0

PrimesBelow(m) == {p \in 2 .. m - 1 : Prime(p)}

\* A number that is not prime has an odd divisor up to its root, if it is odd: of two
\* factors the smaller one is.
LEMMA OddDivisor ==
  ASSUME NEW p \in Nat, p >= 3, p % 2 # 0, ~ Prime(p)
  PROVE  \E d \in 3 .. Root(p) - 1 : d % 2 = 1 /\ p % d = 0
<1>1. PICK d \in 2 .. p - 1 : p % d = 0
  BY DEF Prime
<1>2. PICK e \in Nat : p = d * e
  <2>1. d \in Nat \ {0}
    BY <1>1
  <2> QED
    BY <1>1, <2>1, Divides
<1> DEFINE r == RootOf(p)
<1>3. r \in Nat /\ p < (r + 1) * (r + 1) /\ Root(p) - 1 = r
  <2>1. r \in 0 .. p /\ p < (r + 1) * (r + 1) /\ Root(p) = 1 + r
    BY RootExists DEF Root
  <2> HIDE DEF r
  <2> QED
    BY <2>1
<1> HIDE DEF r
<1>4. ASSUME NEW x \in Nat, NEW y \in Nat, p = x * y, x >= 2, x <= y
      PROVE  x \in 3 .. r /\ x % 2 = 1 /\ p % x = 0
  <2>1. p % x = 0
    <3>1. x \in Nat \ {0}
      BY <1>4
    <3> QED
      BY <1>4, <3>1, NoRemainder
  <2>2. x <= r
    <3> SUFFICES ASSUME r + 1 <= x PROVE FALSE
      BY <1>3
    <3>1. (r + 1) * (r + 1) <= x * (r + 1)
      BY <1>3, Products
    <3>2. x * (r + 1) <= x * y
      <4>1. r + 1 <= y
        BY <1>3, <1>4
      <4> QED
        BY <1>3, <4>1, Products
    <3>3. (r + 1) * (r + 1) \in Nat /\ x * (r + 1) \in Nat /\ x * y \in Nat
      BY <1>3
    <3> QED
      BY <1>3, <1>4, <3>1, <3>2, <3>3
  <2>3. x % 2 # 0
    <3> SUFFICES ASSUME x % 2 = 0 PROVE FALSE
      OBVIOUS
    <3>1. PICK k \in Nat : x = 2 * k
      BY Divides
    <3>2. p = 2 * (k * y) /\ k * y \in Nat
      BY <1>4, <3>1
    <3>3. p % 2 = 0
      BY <3>2, NoRemainder
    <3> QED
      BY <3>3
  <2>4. x % 2 = 1
    BY <2>3
  <2>5. x # 2
    BY <2>3
  <2> QED
    BY <1>3, <1>4, <2>1, <2>2, <2>4, <2>5
<1>5. d \in Nat /\ d >= 2 /\ d < p /\ e >= 2
  <2>1. d \in Nat /\ d >= 2 /\ d < p
    BY <1>1
  <2>2. CASE e = 0
    BY <1>2, <2>1, <2>2
  <2>3. CASE e = 1
    BY <1>2, <2>1, <2>3
  <2> QED
    BY <2>1, <2>2, <2>3
<1>6. CASE d <= e
  BY <1>2, <1>3, <1>4, <1>5, <1>6
<1>7. CASE ~ (d <= e)
  <2>1. p = e * d /\ e <= d
    BY <1>2, <1>5, <1>7
  <2> QED
    BY <1>3, <1>4, <1>5, <2>1
<1> QED
  BY <1>6, <1>7

\* isPrime (lines 22-33) finds the primes: divisors up to the root are enough.
LEMMA IsPrimeIsRight ==
  ASSUME NEW p \in Nat
  PROVE  IsPrime(p) = IF p >= 2 /\ Prime(p) THEN 1 ELSE 0
<1>1. CASE p = 0 \/ p = 1 \/ p = 2
  <2>1. 0 % 2 = 0
    OBVIOUS
  <2>2. p = 2 => Prime(p)
    BY DEF Prime
  <2> QED
    BY <1>1, <2>1, <2>2 DEF IsPrime
<1>2. CASE p >= 3 /\ p % 2 = 0
  <2>1. ~ Prime(p)
    <3>1. 2 \in 2 .. p - 1
      BY <1>2
    <3> QED
      BY <1>2, <3>1 DEF Prime
  <2>2. p # 1 /\ p # 2
    BY <1>2
  <2> QED
    BY <1>2, <2>1, <2>2 DEF IsPrime
<1>3. CASE p >= 3 /\ p % 2 # 0
  <2> DEFINE Found == \E d \in 3 .. Root(p) - 1 : d % 2 = 1 /\ p % d = 0
  <2>1. ~ Prime(p) => Found
    BY <1>3, OddDivisor
  <2>2. Found => ~ Prime(p)
    <3> SUFFICES ASSUME NEW d \in 3 .. Root(p) - 1, p % d = 0 PROVE ~ Prime(p)
      OBVIOUS
    <3> DEFINE r == RootOf(p)
    <3>1. r \in 0 .. p /\ r * r <= p /\ Root(p) - 1 = r
      <4>1. r \in 0 .. p /\ r * r <= p /\ Root(p) = 1 + r
        BY RootExists DEF Root
      <4> HIDE DEF r
      <4> QED
        BY <4>1
    <3> HIDE DEF r
    <3>2. r # p
      <4> SUFFICES ASSUME r = p PROVE FALSE
        OBVIOUS
      <4>1. 2 * p <= p * p
        BY <1>3, Products
      <4> QED
        BY <1>3, <3>1, <4>1
    <3>3. d \in 2 .. p - 1
      BY <3>1, <3>2
    <3> QED
      BY <3>3 DEF Prime
  <2>3. IsPrime(p) = IF Found THEN 0 ELSE 1
    <3>1. p # 1 /\ p # 2
      BY <1>3
    <3> QED
      BY <1>3, <3>1 DEF IsPrime
  <2> HIDE DEF Found
  <2> QED
    BY <1>3, <2>1, <2>2, <2>3
<1> QED
  BY <1>1, <1>2, <1>3

\* The sum counts the primes that were tried.
Counted == IsFiniteSet(PrimesBelow(i)) /\ sum = Cardinality(PrimesBelow(i))

LEMMA InitCounted == Init => Counted
<1> SUFFICES ASSUME Init PROVE Counted
  OBVIOUS
<1>1. i = 0 /\ sum = 0
  BY DEF Init
<1>2. PrimesBelow(i) = {}
  BY <1>1 DEF PrimesBelow
<1> QED
  BY <1>1, <1>2, FS_EmptySet DEF Counted

\* A step of the loop counts the number it tries, if it is prime; no other step counts.
LEMMA CountedKept == IInv /\ Counted /\ [Next]_vars => Counted'
<1> SUFFICES ASSUME IInv, Counted, [Next]_vars PROVE Counted'
  OBVIOUS
<1>1. i \in Nat
  BY DemoAssumption DEF IInv, Counting
<1>2. CASE Count
  <2> DEFINE S == PrimesBelow(i)
  <2>1. i' = i + 1 /\ sum' = sum + IsPrime(i)
    BY <1>2 DEF Count
  <2>2. IsFiniteSet(S) /\ sum = Cardinality(S)
    BY DEF Counted
  <2>3. CASE i >= 2 /\ Prime(i)
    <3>1. PrimesBelow(i') = S \union {i} /\ i \notin S
      BY <1>1, <2>1, <2>3 DEF PrimesBelow
    <3>2. IsPrime(i) = 1
      BY <1>1, <2>3, IsPrimeIsRight
    <3> HIDE DEF S
    <3>3. IsFiniteSet(S \union {i}) /\ Cardinality(S \union {i}) = Cardinality(S) + 1
      BY <2>2, <3>1, FS_AddElement
    <3> QED
      BY <2>1, <2>2, <3>1, <3>2, <3>3 DEF Counted, PrimesBelow
  <2>4. CASE ~ (i >= 2 /\ Prime(i))
    <3>1. PrimesBelow(i') = S
      BY <1>1, <2>1, <2>4 DEF PrimesBelow
    <3>2. IsPrime(i) = 0
      BY <1>1, <2>4, IsPrimeIsRight
    <3> HIDE DEF S
    <3>3. Cardinality(S) \in Nat
      BY <2>2, FS_CardinalityType
    <3>4. IsFiniteSet(PrimesBelow(i')) /\ sum' = Cardinality(PrimesBelow(i'))
      <4>1. sum' = Cardinality(S)
        BY <2>1, <2>2, <3>2, <3>3
      <4> QED
        BY <2>2, <3>1, <4>1
    <3> QED
      BY <3>4 DEF Counted
  <2> QED
    BY <2>3, <2>4
<1>3. CASE UNCHANGED <<i, sum>>
  BY <1>3 DEF Counted, PrimesBelow
<1> QED
  BY <1>2, <1>3 DEF Next, Routine, Menu, Obey, vars, routineVars

\* However far the routine counts, and whenever it is suspended and continued, its sum is
\* the number of primes below i (lines 22-33, 45-50).
THEOREM SumIsNumberOfPrimes == Spec => []CountsPrimes
<1>1. Counted => CountsPrimes
  BY DEF Counted, PrimesBelow, Prime, CountsPrimes
<1> QED
  BY <1>1, InitCounted, CountedKept, InvariantHolds, PTL DEF Spec
=============================================================================
