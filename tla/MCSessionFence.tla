--------------------------- MODULE MCSessionFence ---------------------------
(* SessionFence for TLC: interchangeable requests.                         *)
EXTENDS SessionFence, TLC

Symmetry == Permutations(Requests)
=============================================================================
