------------------------------- MODULE MCLogin -------------------------------
(* Login for TLC: interchangeable browsers and requests.                   *)
EXTENDS Login, TLC

Symmetry == Permutations(Browsers) \cup Permutations(Requests)
=============================================================================
