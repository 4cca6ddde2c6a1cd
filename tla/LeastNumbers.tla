----------------------------- MODULE LeastNumbers -----------------------------
(***************************************************************************)
(* A set of natural numbers has a least element: the first input of a      *)
(* queue and the oldest remark of a pass are chosen as one.                *)
(***************************************************************************)
EXTENDS Naturals, WellFoundedInduction, TLAPS

\* Less-than on the naturals, as a set of pairs, is well founded.
LEMMA LessWellFounded ==
    IsWellFoundedOn({p \in Nat \X Nat : p[1] < p[2]}, Nat)
BY NatLessThanWellFounded DEF OpToRel

\* A set of natural numbers that is not empty has a least element.
LEMMA LeastNatural ==
    ASSUME NEW T \in SUBSET Nat, T # {}
    PROVE  \E x \in T : \A y \in T : x <= y
<1>1. PICK x \in T :
          \A y \in T : ~(<<y, x>> \in {p \in Nat \X Nat : p[1] < p[2]})
  BY LessWellFounded, WFMin
<1>2. ASSUME NEW y \in T PROVE x <= y
  <2>1. <<y, x>> \in Nat \X Nat
    OBVIOUS
  <2> QED BY <1>1, <2>1
<1> QED BY <1>2
===============================================================================
