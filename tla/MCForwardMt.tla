---------------------------- MODULE MCForwardMt ----------------------------
(* Model-checking instances of ForwardMt. *)
EXTENDS ForwardMt
=============================================================================
