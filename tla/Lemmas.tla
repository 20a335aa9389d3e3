------------------------------- MODULE Lemmas -------------------------------
(* Facts about the naturals that the proofs of several components cite.  The *)
(* induction theorems of the library take an operator as a parameter, which  *)
(* the provers cannot instantiate; the ones below take a set, and rest on    *)
(* the theorem that a well-founded relation has minimal elements.            *)
EXTENDS Integers, WellFoundedInduction, TLAPS

(* A loop that is left at the first element with some property is left at    *)
(* the least one: every set of naturals that is not empty has a least one.   *)
LEMMA LeastNatural ==
    ASSUME NEW S, S \subseteq Nat, S # {}
    PROVE  \E x \in S : \A y \in S : x <= y
  <1> DEFINE R == {p \in Nat \X Nat : p[1] < p[2]}
  <1>1. IsWellFoundedOn(R, Nat)
    BY NatLessThanWellFounded DEF OpToRel
  <1> HIDE DEF R
  <1>2. PICK x \in S : \A y \in S : ~ (<<y, x>> \in R)
    BY <1>1, WFMin
  <1>3. \A m, n \in Nat : <<n, m>> \in R <=> n < m
    BY DEF R
  <1>4. ASSUME NEW y \in S PROVE x <= y
    <2>1. ~ (<<y, x>> \in R)
      BY <1>2
    <2> QED BY <2>1, <1>3
  <1> QED BY <1>4

(* What holds of zero and of every successor holds of every natural: the     *)
(* loops over a queue or a list are counted by one.                          *)
LEMMA SetInduction ==
    ASSUME NEW S, 0 \in S, \A n \in Nat : n \in S => n + 1 \in S
    PROVE  \A n \in Nat : n \in S
  <1> DEFINE T == Nat \ S
  <1>1. SUFFICES ASSUME T # {} PROVE FALSE
    OBVIOUS
  <1>2. T \subseteq Nat
    OBVIOUS
  <1> HIDE DEF T
  <1>3. PICK x \in T : \A y \in T : x <= y
    BY <1>1, <1>2, LeastNatural
  <1> USE DEF T
  <1>4. x - 1 \in Nat
    BY <1>3
  <1>5. x - 1 \in S
    BY <1>3, <1>4
  <1> QED BY <1>4, <1>5

(* A set of naturals below a bound has a greatest element.                   *)
LEMMA GreatestBelow ==
    ASSUME NEW n \in Nat, NEW S, S \subseteq 0..n, S # {}
    PROVE  \E x \in S : \A y \in S : x >= y
  <1> DEFINE T == {m \in Nat : n - m \in S}
  <1>1. PICK x \in S : TRUE
    OBVIOUS
  <1>2. n - x \in T
    BY <1>1
  <1>3. PICK m \in T : \A k \in T : m <= k
    BY <1>2, LeastNatural
  <1>4. n - m \in S /\ m \in Nat
    BY <1>3
  <1>5. ASSUME NEW y \in S PROVE n - m >= y
    <2>1. n - y \in T
      OBVIOUS
    <2> QED BY <1>3, <1>4, <2>1
  <1> QED BY <1>4, <1>5
=============================================================================
