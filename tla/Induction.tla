------------------------------ MODULE Induction ------------------------------
(***************************************************************************)
(* Induction over an interval, stated about the set of the numbers for     *)
(* which a claim holds.                                                    *)
(***************************************************************************)
EXTENDS Integers, NaturalsInduction, WellFoundedInduction, TLAPS

LEMMA IntervalInduction ==
    ASSUME NEW n \in Nat, NEW B, 0 \in B, \A i \in 0 .. n - 1 : i \in B => i + 1 \in B
    PROVE  0 .. n \subseteq B
  <1> DEFINE R == (0 .. n) \ B
  <1> SUFFICES ASSUME R # {} PROVE FALSE
    OBVIOUS
  <1>1. PICK m \in R : \A k \in R : ~(<<k, m>> \in OpToRel(<, Nat))
    <2>1. R \subseteq Nat /\ R # {}
      OBVIOUS
    <2> QED
      BY <2>1, NatLessThanWellFounded, WFMin
  <1>2. m \in 0 .. n /\ m \notin B /\ m # 0
    OBVIOUS
  <1>3. m - 1 \in 0 .. n - 1 /\ m - 1 + 1 = m
    BY <1>2
  <1>4. m - 1 \in R
    BY <1>2, <1>3
  <1>5. <<m - 1, m>> \in OpToRel(<, Nat)
    <2>1. m - 1 \in Nat /\ m \in Nat /\ m - 1 < m
      BY <1>2, <1>3
    <2>2. <<m - 1, m>> \in Nat \X Nat /\ <<m - 1, m>>[1] = m - 1 /\ <<m - 1, m>>[2] = m
      BY <2>1
    <2> QED
      BY <2>1, <2>2 DEF OpToRel
  <1> QED
    BY <1>1, <1>4, <1>5
=============================================================================
