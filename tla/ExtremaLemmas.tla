---------------------------- MODULE ExtremaLemmas ----------------------------
(* Greatest and least elements of sets of natural numbers, for the modules *)
(* that choose one: the last pair of a part, the last registration of a    *)
(* route, the first entry of a map that matches; and the induction along a *)
(* list that follows from a least counterexample.                          *)
EXTENDS Integers, FiniteSetsExt, WellFoundedInduction, TLAPS

\* Every set of natural numbers that is not empty has a least one.
LEMMA LeastExists ==
    ASSUME NEW S \in SUBSET Nat, S # {}
    PROVE  \E x \in S : \A y \in S : x <= y
<1>1. PICK x \in S : \A y \in S : ~ (<<y, x>> \in OpToRel(<, Nat))
  <2>1. IsWellFoundedOn(OpToRel(<, Nat), Nat)
    BY NatLessThanWellFounded
  <2> HIDE DEF OpToRel
  <2> QED
    BY <2>1, WFMin
<1>2. \A y \in S : ~ (y < x)
  BY <1>1 DEF OpToRel
<1> QED
  BY <1>2

\* And a greatest one when it is bounded.
LEMMA GreatestExists ==
    ASSUME NEW S \in SUBSET Nat, NEW m \in Nat, \A x \in S : x <= m, S # {}
    PROVE  \E x \in S : \A y \in S : x >= y
<1> DEFINE T == {m - x : x \in S}
<1>1. T \in SUBSET Nat /\ T # {}
  <2>1. \A x \in S : x \in Nat /\ x <= m
    OBVIOUS
  <2>2. \A x \in S : m - x \in Nat
    BY <2>1
  <2>3. PICK x \in S : TRUE
    OBVIOUS
  <2>4. m - x \in T
    BY <2>3
  <2> QED
    BY <2>2, <2>4
<1>2. PICK t \in T : \A u \in T : t <= u
  <2> HIDE DEF T
  <2> QED
    BY <1>1, LeastExists
<1>3. PICK x \in S : t = m - x
  BY <1>2
<1>4. \A y \in S : m - x <= m - y
  BY <1>2, <1>3
<1> QED
  BY <1>4

\* The same of Max, which chooses it, and of an element known to be it.
LEMMA MaxIsGreatest ==
    ASSUME NEW S \in SUBSET Nat, NEW m \in Nat, \A x \in S : x <= m, S # {}
    PROVE  Max(S) \in S /\ \A y \in S : Max(S) >= y
BY GreatestExists DEF Max

\* An element that no other exceeds is the one Max chooses.
LEMMA GreatestIsMax ==
    ASSUME NEW S \in SUBSET Int, NEW x \in S, \A y \in S : x >= y
    PROVE  Max(S) = x
<1>1. Max(S) \in S /\ Max(S) >= x
  BY DEF Max
<1>2. x \in Int /\ Max(S) \in Int /\ x >= Max(S)
  BY <1>1
<1> QED
  BY <1>1, <1>2

\* Induction up to a number: what holds of zero, and of every number after one
\* below the bound of which it holds, holds up to the bound.
LEMMA InductionUpTo ==
    ASSUME NEW n \in Nat, NEW S \in SUBSET (0..n), 0 \in S,
           \A i \in 1..n : i - 1 \in S => i \in S
    PROVE  S = 0..n
<1> SUFFICES ASSUME (0..n) \ S # {} PROVE FALSE
  OBVIOUS
<1>1. PICK i \in (0..n) \ S : \A j \in (0..n) \ S : i <= j
  <2>1. (0..n) \ S \in SUBSET Nat
    OBVIOUS
  <2> QED
    BY <2>1, LeastExists
<1>2. i \in 1..n /\ i - 1 \in 0..n /\ i - 1 \in S
  BY <1>1
<1> QED
  BY <1>1, <1>2
=============================================================================
