----------------------------- MODULE MCAdmission -----------------------------
(* Admission for TLC: interchangeable requests and calls.                  *)
EXTENDS Admission, TLC

Symmetry == Permutations(Requests) \cup Permutations(Calls)
=============================================================================
