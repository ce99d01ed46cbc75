--------------------------- MODULE DescriptorPool ---------------------------
(***************************************************************************)
(* What the descriptor channel promises its clients: every descriptor is   *)
(* with a client, inside the channel, or lost for good; the channel hands  *)
(* out only what was put into it, once per time it was put, and loses only *)
(* what it holds.                                                          *)
(***************************************************************************)
CONSTANT Elem
VARIABLES held, chan, lost

poolVars == <<held, chan, lost>>

Init == held = Elem /\ chan = {} /\ lost = {}

Put(e) ==
    /\ e \in held
    /\ held' = held \ {e}
    /\ chan' = chan \cup {e}
    /\ UNCHANGED lost

Get(e) ==
    /\ e \in chan
    /\ chan' = chan \ {e}
    /\ held' = held \cup {e}
    /\ UNCHANGED lost

Lose(S) ==
    /\ chan' = chan \ S
    /\ lost' = lost \cup S
    /\ UNCHANGED held

Next ==
    \/ \E e \in Elem : Put(e) \/ Get(e)
    \/ \E S \in SUBSET chan : Lose(S)

Spec == Init /\ [][Next]_poolVars
=============================================================================
