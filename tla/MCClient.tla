------------------------------ MODULE MCClient -----------------------------
(* Instances of Client. Requests are interchangeable.                      *)
EXTENDS Client

CONSTANTS r1, r2

Symmetry == Permutations(Requests)
=============================================================================
