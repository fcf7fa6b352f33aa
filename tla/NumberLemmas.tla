------------------------------ MODULE NumberLemmas ------------------------------
(***************************************************************************)
(* Least elements and induction on sets of natural numbers, which the      *)
(* proofs about lines and bytes rest on.                                   *)
(***************************************************************************)
EXTENDS Integers, WellFoundedInduction, TLAPS

\* A set of natural numbers has a least element.
LEMMA LeastNatural ==
    ASSUME NEW T \in SUBSET Nat, T # {}
    PROVE  \E x \in T : \A y \in T : x <= y
<1>1. \E x \in T : \A y \in T : ~ (<<y, x>> \in OpToRel(<, Nat))
  <2>1. T \subseteq Nat
    OBVIOUS
  <2>2. \A R, S, U : IsWellFoundedOn(R, S) /\ U \subseteq S /\ U # {}
            => \E x \in U : \A y \in U : ~ (<<y, x>> \in R)
    BY WFMin
  <2> QED
    BY <2>1, <2>2, NatLessThanWellFounded
<1>2. ASSUME NEW x \in Nat, NEW y \in Nat, ~ (<<y, x>> \in OpToRel(<, Nat))
      PROVE  x <= y
  BY <1>2 DEF OpToRel
<1> QED
  BY <1>1, <1>2

\* A set that has 0, and with a number its successor, has all numbers.
LEMMA Induction ==
    ASSUME NEW T, 0 \in T, \A n \in Nat : n \in T => n + 1 \in T
    PROVE  Nat \subseteq T
<1> SUFFICES ASSUME Nat \ T # {} PROVE FALSE
  OBVIOUS
<1>1. PICK x \in Nat \ T : \A y \in Nat \ T : x <= y
  <2>1. Nat \ T \in SUBSET Nat
    OBVIOUS
  <2> QED
    BY <2>1, LeastNatural
<1>2. x \in Nat /\ x # 0
  BY <1>1
<1>3. x - 1 \in Nat /\ ~ (x <= x - 1)
  BY <1>2
<1>4. x - 1 \in T
  BY <1>1, <1>3
<1>5. (x - 1) + 1 = x
  BY <1>2
<1> QED
  BY <1>1, <1>3, <1>4, <1>5
=============================================================================
