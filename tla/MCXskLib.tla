------------------------------ MODULE MCXskLib ------------------------------
(* XskLib for TLC: handles and queues are interchangeable. *)
EXTENDS XskLib, TLC

Symmetry == Permutations(Sock) \cup Permutations(Queue)
=============================================================================
