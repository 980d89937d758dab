------------------------------ MODULE NatSets ------------------------------
(***************************************************************************)
(* Induction over the natural numbers with a set in the place of the       *)
(* predicate, and least and greatest elements.  The other proof modules    *)
(* use them on what the models compute step by step along a sequence.      *)
(***************************************************************************)
EXTENDS Integers, WellFoundedInduction, TLAPS

LEMMA LeastElement ==
  ASSUME NEW T \in SUBSET Nat, T # {}
  PROVE  \E x \in T : \A y \in T : x <= y
<1> DEFINE R == OpToRel(<, Nat)
<1>1. IsWellFoundedOn(R, Nat)
  BY NatLessThanWellFounded
<1>2. R = {ss \in Nat \X Nat : ss[1] < ss[2]}
  BY DEF OpToRel
<1> HIDE DEF R
<1>3. PICK x \in T : \A y \in T : <<y, x>> \notin R
  BY <1>1, WFMin
<1>4. \A y \in T : ~(y < x)
  BY <1>2, <1>3
<1> QED
  BY <1>4

LEMMA SetInduction ==
  ASSUME NEW S, 0 \in S, \A n \in Nat : n \in S => n + 1 \in S
  PROVE  Nat \subseteq S
<1> DEFINE T == Nat \ S
<1> SUFFICES ASSUME T # {} PROVE FALSE
  OBVIOUS
<1>1. PICK x \in T : \A y \in T : x <= y
  BY LeastElement
<1>2. x # 0 /\ x - 1 \in Nat /\ x - 1 \notin S
  BY <1>1
<1> QED
  BY <1>1, <1>2

\* The same up to a bound.
LEMMA BoundedSetInduction ==
  ASSUME NEW m \in Nat, NEW S, 0 \in S,
         \A n \in 0..m : n \in S /\ n # m => n + 1 \in S
  PROVE  0..m \subseteq S
<1> DEFINE U == S \cup {n \in Nat : n > m}
<1>1. \A n \in Nat : n \in U => n + 1 \in U
  OBVIOUS
<1>2. Nat \subseteq U
  BY <1>1, SetInduction
<1> QED
  BY <1>2

LEMMA GreatestElement ==
  ASSUME NEW m \in Nat, NEW T \in SUBSET (0..m), T # {}
  PROVE  \E x \in T : \A y \in T : y <= x
<1> DEFINE U == {n \in Nat : m - n \in T}
<1>1. PICK t \in T : TRUE
  OBVIOUS
<1>2. m - t \in U
  OBVIOUS
<1>3. PICK u \in U : \A v \in U : u <= v
  BY <1>2, LeastElement
<1>4. ASSUME NEW y \in T PROVE y <= m - u
  <2>1. m - y \in U /\ u \in Nat
    OBVIOUS
  <2>2. u <= m - y
    BY <1>3, <2>1
  <2> QED
    BY <2>1, <2>2
<1>5. m - u \in T
  OBVIOUS
<1> QED
  BY <1>4, <1>5
=============================================================================
