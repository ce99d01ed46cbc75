----------------------------- MODULE BufferPool -----------------------------
(***************************************************************************)
(* What a socket promises the client that receives from it, whatever the   *)
(* backend: a packet comes in a buffer that no token names and that was    *)
(* not lost before; a token gives its buffer back once; and a buffer can   *)
(* only be lost while no token names it, fewer than a batch at a time (the *)
(* incomplete batch a flush discards).  A backend may break: the AF_XDP    *)
(* one does when an allocation fails after descriptors were reserved, and  *)
(* promises nothing from then on.                                          *)
(***************************************************************************)
EXTENDS Naturals, FiniteSets

CONSTANTS Buf, Batch

VARIABLES
    held,       \* how many tokens name each buffer
    lost,       \* buffers that will never carry a packet again
    broken      \* the socket keeps no promise any more

poolVars == <<held, lost, broken>>

SmallLoss(S) == Cardinality(S) < Batch

Init ==
    /\ held = [b \in Buf |-> 0]
    /\ lost \in SUBSET Buf /\ SmallLoss(lost)
    /\ broken = FALSE

Receive(b) ==
    /\ ~broken
    /\ b \notin lost /\ held[b] = 0
    /\ held' = [held EXCEPT ![b] = 1]
    /\ UNCHANGED <<lost, broken>>

Release(b) ==
    /\ ~broken
    /\ held[b] = 1
    /\ held' = [held EXCEPT ![b] = 0]
    /\ UNCHANGED <<lost, broken>>

Lose(S) ==
    /\ ~broken
    /\ S \cap lost = {} /\ \A b \in S : held[b] = 0
    /\ SmallLoss(S)
    /\ lost' = lost \cup S
    /\ UNCHANGED <<held, broken>>

Break ==
    /\ broken' = TRUE
    /\ held' \in [Buf -> Nat]
    /\ lost' \in SUBSET Buf

Next ==
    \/ \E b \in Buf : Receive(b) \/ Release(b)
    \/ \E S \in SUBSET Buf : Lose(S)
    \/ Break

Spec == Init /\ [][Next]_poolVars
=============================================================================
