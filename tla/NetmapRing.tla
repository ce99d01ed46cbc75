----------------------------- MODULE NetmapRing -----------------------------
(***************************************************************************)
(* A netmap ring (netmap_rs): `slot` is its `size` slots, the user owns    *)
(* those from `head` up to but excluding `tail`.  The user advances        *)
(* `head`; the kernel looks at the ring and moves `tail` only in a sync.   *)
(* `cur` always equals `head` in this code and is left out.                *)
(***************************************************************************)
EXTENDS Integers

(* RingIterMut::next: none when head = tail, else the slot at head, and    *)
(* head moves on, back to 0 after the last slot.                           *)
IsEmpty(r) == r.head = r.tail

(* Mutant of NextIdx: the wrap comes one slot too early. *)
NextIdx_WrapsEarly(r) == IF r.head + 1 >= r.size - 1 THEN 0 ELSE r.head + 1

NextIdx(r) == IF r.head + 1 = r.size THEN 0 ELSE r.head + 1

Advanced(r) == [r EXCEPT !.head = NextIdx(r)]

(* The user's slots. *)
Available(r) == (r.tail - r.head) % r.size
UserOwned(r) == {i \in DOMAIN r.slot : (i - r.head) % r.size < Available(r)}

(* The kernel's part of a sync (external): tail moves forward by any       *)
(* number of slots the user does not own, one of which always stays with   *)
(* the kernel.                                                             *)
Synced(r) ==
    {[r EXCEPT !.tail = (@ + k) % r.size] : k \in 0..(r.size - 1 - Available(r))}
=============================================================================
