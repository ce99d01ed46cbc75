----------------------------- MODULE MCNetmapRx -----------------------------
(* Model-checking instance of NetmapRx; its values are in the .cfg. *)
EXTENDS NetmapRx
=============================================================================
