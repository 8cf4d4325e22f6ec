-------------------------- MODULE MCKeyringManager --------------------------
(* KeyringManager on small instances: two keys, the first active at first. *)
EXTENDS KeyringManager, TLC

CONSTANTS c1, c2, c3, k1, k2

MCFirstDoc == [k \in {k1, k2} |-> IF k = k1 THEN "active" ELSE "absent"]
Symmetry == Permutations(Callers)
=============================================================================
