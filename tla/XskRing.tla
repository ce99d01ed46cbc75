------------------------------ MODULE XskRing ------------------------------
(***************************************************************************)
(* The producer side of a ring shared with the kernel (xsk.h): `prod` and  *)
(* `cons` are the shared indices, `cprod` and `ccons` the library's local  *)
(* copies, `ccons` running `size` ahead of the consumer index.  Indices    *)
(* are u32 counters that wrap; as differences never exceed the size they   *)
(* are kept modulo twice the size.                                         *)
(***************************************************************************)
EXTENDS Integers

(* A ring as xsk_create_umem_rings and xsk_socket__create_shared set it    *)
(* up.  Its memory is zeroed: every descriptor names the frame at offset 0 *)
(* of the UMEM.                                                            *)
NewRing(size, zero) ==
    [size |-> size, prod |-> 0, cons |-> 0, cprod |-> 0, ccons |-> size,
     slot |-> [i \in 0..(size - 1) |-> zero]]

Wrap(r, i) == i % (2 * r.size)
SlotOf(r, i) == i % r.size

FreeEntries(r) == Wrap(r, r.ccons - r.cprod)

(* xsk_prod_nb_free: rereads the shared consumer index only if needed. *)
NbFree(r, nb) ==
    IF FreeEntries(r) >= nb THEN r
    ELSE [r EXCEPT !.ccons = Wrap(r, r.cons + r.size)]

(* xsk_ring_prod__reserve: all of nb entries or none. *)
CanReserve(r, nb) == FreeEntries(NbFree(r, nb)) >= nb
Reserve(r, nb) ==
    IF CanReserve(r, nb)
    THEN [NbFree(r, nb) EXCEPT !.cprod = Wrap(r, @ + nb)]
    ELSE NbFree(r, nb)

(* xsk_ring_prod__submit: advances the shared index by nb entries. *)
Submit(r, nb) == [r EXCEPT !.prod = Wrap(r, @ + nb)]

(* What the kernel may read: from cons up to prod. *)
Pending(r) == Wrap(r, r.prod - r.cons)
Visible(r) == {SlotOf(r, r.cons + i) : i \in 0..(Pending(r) - 1)}
KernelSlot(r) == SlotOf(r, r.cons)
KernelTakes(r) == [r EXCEPT !.cons = Wrap(r, @ + 1)]
=============================================================================
