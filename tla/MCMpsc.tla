------------------------------- MODULE MCMpsc -------------------------------
(* Model-checking instances of Mpsc. *)
EXTENDS Mpsc, TLC

Symmetry == Permutations(Thread) \cup Permutations(Handle) \cup Permutations(Elem)
=============================================================================
