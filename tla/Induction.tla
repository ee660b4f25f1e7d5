------------------------------ MODULE Induction ------------------------------
(***************************************************************************)
(* Induction over the naturals for a predicate that is given when the      *)
(* module is instantiated.                                                 *)
(***************************************************************************)
EXTENDS Integers, WellFoundedInduction, TLAPS

CONSTANT P(_)

\* A predicate that holds of 0 and of each successor holds of every natural
\* number: there is no least number of which it does not hold.
THEOREM Induction ==
  ASSUME P(0), \A n \in Nat : P(n) => P(n + 1)
  PROVE  \A n \in Nat : P(n)
  <1> DEFINE Bad == {n \in Nat : ~P(n)}
             R == OpToRel(<, Nat)
  <1>1. SUFFICES ASSUME Bad # {} PROVE FALSE
    OBVIOUS
  <1>2. \E x \in Bad : \A y \in Bad : ~(<<y, x>> \in R)
    <2> HIDE DEF Bad, R
    <2>1. Bad \subseteq Nat
      BY DEF Bad
    <2>2. IsWellFoundedOn(R, Nat)
      BY NatLessThanWellFounded DEF R
    <2> QED
      BY <2>1, <2>2, <1>1, WFMin
  <1>3. PICK x \in Bad : \A y \in Bad : ~(y < x)
    BY <1>2 DEF OpToRel
  <1>4. x # 0 /\ x - 1 \in Nat
    OBVIOUS
  <1> QED
    BY <1>3, <1>4
=============================================================================
