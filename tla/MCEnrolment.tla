------------------------------ MODULE MCEnrolment ------------------------------
(***************************************************************************)
(* Enrolment for TLC: interchangeable runs.                                *)
(***************************************************************************)
EXTENDS Enrolment, TLC

Symmetry == Permutations(Boots) \cup Permutations(Renews)

================================================================================
