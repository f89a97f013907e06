---------------------------- MODULE SetInduction ----------------------------
(***************************************************************************)
(* Induction over the natural numbers for sets instead of predicates.  The *)
(* proofs about lines and headers (the first newline, the first header of  *)
(* a name) and about the bytes of a body need it; it follows from the      *)
(* well-foundedness of < on Nat.                                           *)
(***************************************************************************)
EXTENDS Integers, WellFoundedInduction, TLAPS

\* A set of natural numbers that is not empty has a least element.
LEMMA LeastElement ==
  ASSUME NEW T, T \subseteq Nat, T # {}
  PROVE  \E m \in T : \A k \in T : m <= k
<1>1. PICK R : IsWellFoundedOn(R, Nat) /\ \A j, k \in Nat : j < k => <<j, k>> \in R
  <2>1. \A j, k \in Nat : j < k => <<j, k>> \in OpToRel(<, Nat)
    BY DEF OpToRel
  <2> QED
    BY <2>1, NatLessThanWellFounded, Zenon
<1>2. PICK m \in T : \A k \in T : ~(<<k, m>> \in R)
  <2>1. IsWellFoundedOn(R, Nat)
    BY <1>1
  <2> QED
    BY <2>1, WFMin
<1>3. ASSUME NEW k \in T PROVE m <= k
  <2>1. m \in Nat /\ k \in Nat
    OBVIOUS
  <2>2. ~(k < m)
    BY <1>1, <1>2, <2>1, Zenon
  <2> QED
    BY <2>1, <2>2
<1> QED
  BY <1>3

\* A set that holds 0 and with every number its successor holds all of them.
LEMMA NatSetInduction ==
  ASSUME NEW T, 0 \in T, \A n \in Nat : n \in T => n + 1 \in T
  PROVE  \A n \in Nat : n \in T
<1> SUFFICES ASSUME Nat \ T # {} PROVE FALSE
  OBVIOUS
<1>1. PICK m \in Nat \ T : \A k \in Nat \ T : m <= k
  BY LeastElement
<1>2. m # 0 /\ m - 1 \in Nat
  BY <1>1
<1>3. m - 1 \in T
  BY <1>1, <1>2
<1>4. m - 1 + 1 \in T
  BY <1>2, <1>3
<1> QED
  BY <1>1, <1>2, <1>4

=============================================================================
