------------------------------ MODULE MCTimer ------------------------------
(* Instances of the timer list for TLC. *)
EXTENDS Timer, TLC

CONSTANTS p1, p2, a1

\* Perpetual timers differ in nothing but their name.
PerpetualSymmetry == Permutations(Perpetual)
=============================================================================
