----------------------------- MODULE MCSockets -----------------------------
(* Model-checking instance of Sockets. *)
EXTENDS Sockets, TLC

Symmetry == Permutations(Sock) \cup Permutations(Clone) \cup Permutations(Name)
=============================================================================
