---------------------------- MODULE LeastElement ----------------------------
(***************************************************************************)
(* A fact about natural numbers that the proofs of several modules need.   *)
(***************************************************************************)
EXTENDS Naturals, TLAPS, WellFoundedInduction

\* A non-empty set of natural numbers has a least element.
LEMMA LeastElementExists ==
    ASSUME NEW T, T \subseteq Nat, T # {}
    PROVE  \E m \in T : \A n \in T : m <= n
<1> DEFINE Less == {ss \in Nat \X Nat : ss[1] < ss[2]}
<1>1. IsWellFoundedOn(Less, Nat)
  <2>1. Less = OpToRel(<, Nat)
    BY Zenon DEF OpToRel
  <2> QED
    BY <2>1, NatLessThanWellFounded, Zenon
<1> HIDE DEF Less
<1>2. \E x \in T : \A y \in T : <<y, x>> \notin Less
  BY <1>1, WFMin, Zenon
<1>3. \A x, y \in Nat : <<y, x>> \notin Less => x <= y
  BY DEF Less
<1> QED
  BY <1>2, <1>3

=============================================================================
