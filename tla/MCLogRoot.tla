----------------------------- MODULE MCLogRoot -----------------------------
(* Sweeps are interchangeable: nothing orders them but their directories. *)
EXTENDS LogRoot, TLC
CONSTANTS s1, s2, p1
Symmetry == Permutations({s1, s2})
=============================================================================
