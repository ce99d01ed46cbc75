------------------------------- MODULE MCDpdk -------------------------------
(* Dpdk for TLC: the constants are given by the configurations. *)
EXTENDS Dpdk
=============================================================================
