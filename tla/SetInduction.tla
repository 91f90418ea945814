---------------------------- MODULE SetInduction ----------------------------
(***************************************************************************)
(* Induction for the natural numbers with a set in the place of the        *)
(* predicate, so that a proof can name the set it inducts over.  It rests  *)
(* on the subsets of a set being well founded as long as they are finite.  *)
(***************************************************************************)
EXTENDS Integers, FiniteSets, FiniteSetTheorems, TLAPS

\* Among the intervals from 0 to the members of a set one contains no smaller one.
LEMMA LeastExists ==
    ASSUME NEW S \in SUBSET Nat, S # {}
    PROVE  \E x \in S : \A y \in S : x <= y
<1> DEFINE T == {0..n : n \in S}
           R == StrictSubsetOrdering(Nat)
<1>1. T \subseteq FiniteSubsetsOf(Nat)
  <2>1. ASSUME NEW n \in Nat PROVE 0..n \in FiniteSubsetsOf(Nat)
    <3>1. IsFiniteSet(0..n)
      BY FS_Interval
    <3>2. 0..n \in SUBSET Nat
      OBVIOUS
    <3> QED BY <3>1, <3>2 DEF FiniteSubsetsOf
  <2> QED BY <2>1
<1>2. IsWellFoundedOn(R, FiniteSubsetsOf(Nat))
    BY FS_StrictSubsetOrderingWellFounded
<1>3. T # {}
    OBVIOUS
<1> HIDE DEF R, T
<1>4. PICK t \in T : \A u \in T : ~(<<u, t>> \in R)
    BY <1>1, <1>2, <1>3, WFMin
<1>5. PICK x \in S : t = 0..x
    BY DEF T
<1>6. ASSUME NEW y \in S PROVE x <= y
  <2>1. ~(<<0..y, 0..x>> \in R)
    BY <1>4, <1>5 DEF T
  <2>2. CASE y < x
    <3>1. 0..y \subseteq 0..x /\ 0..y \in SUBSET Nat /\ 0..x \in SUBSET Nat
      BY <2>2
    <3>2. x \in 0..x /\ x \notin 0..y
      BY <2>2
    <3> QED BY <2>1, <3>1, <3>2 DEF R, StrictSubsetOrdering
  <2> QED BY <2>2
<1> QED BY <1>6

\* What holds of 0 and goes on to the next number holds of all.
LEMMA InductiveSet ==
    ASSUME NEW S, 0 \in S, \A n \in Nat : n \in S => n + 1 \in S
    PROVE  Nat \subseteq S
<1> SUFFICES ASSUME Nat \ S # {} PROVE FALSE
    OBVIOUS
<1>1. PICK n \in Nat \ S : \A m \in Nat \ S : n <= m
    BY LeastExists
<1>2. n # 0 /\ n - 1 \in Nat /\ n - 1 \in S
    BY <1>1
<1> QED BY <1>1, <1>2
=============================================================================
