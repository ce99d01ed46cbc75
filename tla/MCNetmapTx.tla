----------------------------- MODULE MCNetmapTx -----------------------------
(* Model-checking instances of NetmapTx. *)
EXTENDS NetmapTx
=============================================================================
