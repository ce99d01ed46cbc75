------------------------------ MODULE MCAfXdp ------------------------------
(* Model-checking instances of AfXdp. *)
EXTENDS AfXdp

Symmetry == Permutations(Frame \ {Zero})
=============================================================================
