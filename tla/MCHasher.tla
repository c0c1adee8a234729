------------------------------ MODULE MCHasher ------------------------------
(* Hasher and its properties, with the symmetry of the names TLC is given. *)
EXTENDS HasherInvariant, TLC

Symmetry ==
    Permutations(Goroutines) \cup Permutations(Keys) \cup Permutations(Inputs)
=============================================================================
