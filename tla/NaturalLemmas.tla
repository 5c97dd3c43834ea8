---------------------------- MODULE NaturalLemmas ----------------------------
(***************************************************************************)
(* Lemmas about natural numbers that the proofs of several components      *)
(* need: the least-number principle, and by it that a loop of so many      *)
(* turns has a result.                                                     *)
(***************************************************************************)
EXTENDS Integers, WellFoundedInduction, TLAPS

\* The least-number principle, for sets.
LEMMA LeastNat ==
  ASSUME NEW T, T \subseteq Nat, T # {}
  PROVE  \E x \in T : \A y \in T : x <= y
<1> DEFINE R == OpToRel(<, Nat)
<1>1. IsWellFoundedOn(R, Nat)
  BY NatLessThanWellFounded
<1>2. \A x, y \in Nat : <<x, y>> \in R <=> x < y
  BY DEF OpToRel
<1> HIDE DEF R
<1>3. PICK x \in T : \A y \in T : ~ (<<y, x>> \in R)
  BY <1>1, WFMin, Zenon
<1>4. ASSUME NEW y \in T PROVE x <= y
  <2>1. ~ (<<y, x>> \in R) /\ x \in Nat /\ y \in Nat
    BY <1>3
  <2>2. ~ (y < x)
    BY <1>2, <2>1
  <2> QED
    BY <2>1, <2>2
<1> QED
  BY <1>4

\* The turns of a loop over values in S: the k-th makes of the value it finds another.
Turns(N, S) == [1 .. N -> [S -> S]]

\* What a loop computes, turn by turn.  Were there a least number of turns without such a function, the
\* function for one turn less would extend to it.
LEMMA LoopResult ==
  ASSUME NEW S, NEW base \in S, NEW N \in Nat, NEW step \in Turns(N, S)
  PROVE  \E f \in [0 .. N -> S] :
           f[0] = base /\ \A k \in 1 .. N : f[k] = step[k][f[k - 1]]
<1> USE DEF Turns
<1> DEFINE Good(n) == \E f \in [0 .. n -> S] :
             /\ f[0] = base
             /\ \A k \in 1 .. n : f[k] = step[k][f[k - 1]]
           bad == {n \in 0 .. N : ~Good(n)}
<1>1. bad = {}
  <2> SUFFICES ASSUME bad # {} PROVE FALSE
    OBVIOUS
  <2>1. PICK n \in bad : \A m \in bad : n <= m
    <3>1. bad \subseteq Nat
      OBVIOUS
    <3> HIDE DEF bad
    <3> QED
      BY <3>1, LeastNat
  <2>2. n # 0
    <3> DEFINE g == [k \in 0 .. 0 |-> base]
    <3>1. g \in [0 .. 0 -> S] /\ g[0] = base /\ 1 .. 0 = {}
      OBVIOUS
    <3>2. Good(0)
      <4> HIDE DEF g
      <4> QED
        BY <3>1
    <3> QED
      BY <3>2
  <2>3. n \in 1 .. N /\ n - 1 \in 0 .. N /\ n - 1 \notin bad
    <3>1. n \in 0 .. N
      OBVIOUS
    <3> HIDE DEF bad
    <3> QED
      BY <2>1, <2>2, <3>1
  <2>4. PICK f \in [0 .. n - 1 -> S] :
          f[0] = base /\ \A k \in 1 .. n - 1 : f[k] = step[k][f[k - 1]]
    BY <2>3
  <2> DEFINE g == [k \in 0 .. n |-> IF k = n THEN step[n][f[n - 1]] ELSE f[k]]
  <2>5. g \in [0 .. n -> S]
    <3>1. f[n - 1] \in S
      BY <2>3
    <3>2. step[n][f[n - 1]] \in S
      BY <2>3, <3>1
    <3>3. \A k \in 0 .. n : k # n => f[k] \in S
      BY <2>3
    <3> QED
      BY <3>2, <3>3
  <2>6. g[0] = base
    BY <2>3, <2>4
  <2>7. ASSUME NEW k \in 1 .. n PROVE g[k] = step[k][g[k - 1]]
    <3>1. g[k - 1] = f[k - 1]
      BY <2>3
    <3> QED
      BY <2>3, <2>4, <3>1
  <2>8. Good(n)
    <3> HIDE DEF g
    <3> QED
      BY <2>5, <2>6, <2>7
  <2> QED
    BY <2>8
<1> QED
  BY <1>1
=============================================================================
