---------------------------- MODULE InductionLemmas ----------------------------
(***************************************************************************)
(* Induction on the natural numbers in a form the provers can use.  The    *)
(* library states it with an operator as parameter, which none of them can *)
(* instantiate; a set in its place is an ordinary parameter.  It rests on  *)
(* the library's theorem that < is well-founded on Nat.                    *)
(***************************************************************************)
EXTENDS Integers, WellFoundedInduction, TLAPS

Below == {ss \in Nat \X Nat : ss[1] < ss[2]}

LEMMA BelowWellFounded == IsWellFoundedOn(Below, Nat)
  BY NatLessThanWellFounded DEF OpToRel, Below

LEMMA LeastElement ==
    ASSUME NEW T, T \subseteq Nat, T # {}
    PROVE  \E x \in T : \A y \in T : x <= y
<1>1. PICK x \in T : \A y \in T : ~ (<<y, x>> \in Below)
  BY BelowWellFounded, WFMin
<1>2. ASSUME NEW y \in T PROVE x <= y
  <2>1. x \in Nat /\ y \in Nat /\ ~ (<<y, x>> \in Below)
    BY <1>1
  <2>2. y < x => <<y, x>> \in Below
    BY <2>1 DEF Below
  <2> QED
    BY <2>1, <2>2
<1> QED
  BY <1>2

(* A set that contains 0 and with every number its successor has them all. *)
LEMMA SetInduction ==
    ASSUME NEW T, 0 \in T, \A n \in Nat : n \in T => n + 1 \in T
    PROVE  Nat \subseteq T
<1> SUFFICES ASSUME NEW k \in Nat, k \notin T PROVE FALSE
  OBVIOUS
<1> DEFINE B == Nat \ T
<1>1. B \subseteq Nat /\ B # {}
  OBVIOUS
<1>2. PICK x \in B : \A y \in B : x <= y
  <2> HIDE DEF B
  <2> QED
    BY <1>1, LeastElement
<1>3. x - 1 \in Nat /\ x - 1 \notin B
  BY <1>2
<1> QED
  BY <1>2, <1>3

(* The same up to a bound, for what is only defined on 0..m. *)
LEMMA BoundedInduction ==
    ASSUME NEW m \in Nat, NEW T, 0 \in T, \A n \in 0..(m - 1) : n \in T => n + 1 \in T
    PROVE  0..m \subseteq T
<1> DEFINE U == {n \in Nat : n <= m => n \in T}
<1>1. 0 \in U
  OBVIOUS
<1>2. \A n \in Nat : n \in U => n + 1 \in U
  OBVIOUS
<1>3. Nat \subseteq U
  <2> HIDE DEF U
  <2> QED
    BY <1>1, <1>2, SetInduction
<1> QED
  BY <1>3
=============================================================================
