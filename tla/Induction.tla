------------------------------ MODULE Induction ------------------------------
(***************************************************************************)
(* Sets of numbers up to n: the least and the largest member, and          *)
(* induction.  Induction is stated of a set, the set of the numbers a      *)
(* statement is true of, and not of an operator: what a function that is   *)
(* defined by recursion returns can be proved with it.                     *)
(***************************************************************************)
EXTENDS Integers, FiniteSetTheorems, TLAPS

\* A set of numbers up to n has a least and a largest member.
LEMMA LeastOf ==
    ASSUME NEW n \in Nat, NEW T \in SUBSET (0..n), T # {}
    PROVE  \E x \in T : \A y \in T : x <= y
  <1> DEFINE F == {0..x : x \in T}
  <1>1. IsWellFoundedOn(StrictSubsetOrdering(0..n), FiniteSubsetsOf(0..n))
    BY FS_StrictSubsetOrderingWellFounded
  <1>2. F \subseteq FiniteSubsetsOf(0..n)
    <2>1. \A x \in T : 0..x \subseteq 0..n
      OBVIOUS
    <2>2. \A x \in T : 0..x \in SUBSET (0..n) /\ IsFiniteSet(0..x)
      BY <2>1, FS_Interval
    <2> QED
      BY <2>2 DEF FiniteSubsetsOf
  <1>3. F # {}
    OBVIOUS
  <1> HIDE DEF F
  <1>4. \E m \in F : \A k \in F : ~(<<k, m>> \in StrictSubsetOrdering(0..n))
    BY <1>1, <1>2, <1>3, WFMin
  <1> USE DEF F
  <1>5. PICK x \in T : \A y \in T : ~(<<0..y, 0..x>> \in StrictSubsetOrdering(0..n))
    BY <1>4
  <1>6. \A y \in T : y < x =>
            /\ 0..y \subseteq 0..x /\ 0..y # 0..x
            /\ 0..y \in SUBSET (0..n) /\ 0..x \in SUBSET (0..n)
    BY SMT
  <1>7. \A y \in T : ~(y < x)
    BY <1>5, <1>6 DEF StrictSubsetOrdering
  <1> QED
    BY <1>7

\* ... and a largest one.
LEMMA LargestOf ==
    ASSUME NEW n \in Nat, NEW T \in SUBSET (0..n), T # {}
    PROVE  \E x \in T : \A y \in T : y <= x
  <1> DEFINE S == {s \in 0..n : n - s \in T}
  <1>1. S # {}
    <2>1. PICK x \in T : x \in 0..n
      OBVIOUS
    <2>2. n - x \in S
      BY <2>1
    <2> QED
      BY <2>2
  <1>2. PICK s \in S : \A r \in S : s <= r
    BY <1>1, LeastOf
  <1>3. \A y \in T : n - y \in S
    OBVIOUS
  <1>4. \A y \in T : s <= n - y
    BY <1>2, <1>3
  <1>5. \A y \in T : y <= n - s
    BY <1>4
  <1> QED
    BY <1>5
\* What holds of 0, and of every number up to n when it holds of the one before, holds
\* of all of them.
LEMMA UpTo ==
    ASSUME NEW n \in Nat, NEW T \in SUBSET (0..n),
           0 \in T, \A k \in 1..n : k - 1 \in T => k \in T
    PROVE  T = 0..n
  <1> SUFFICES ASSUME (0..n) \ T # {}
               PROVE  FALSE
    OBVIOUS
  <1>1. PICK k \in (0..n) \ T : \A j \in (0..n) \ T : k <= j
    BY LeastOf
  <1>2. k \in 1..n
    OBVIOUS
  <1>3. k - 1 \in T
    BY <1>1, <1>2
  <1> QED
    BY <1>2, <1>3
=============================================================================
