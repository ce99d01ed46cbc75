------------------------------ MODULE NetmapRx ------------------------------
(***************************************************************************)
(* The receive side of a netmap socket (src/netmap, netmap_rs): a cursor   *)
(* over the RX rings the port is bound to, extra buffers kept in the       *)
(* descriptor channel, and the swap of a received buffer for a free one.   *)
(* Threads that drop payloads push to the channel through clones of Ctx;   *)
(* their interleaving inside the channel is module Mpsc.                   *)
(***************************************************************************)
EXTENDS Channel, NetmapRing, FiniteSets, FiniteSetsExt

CONSTANTS
    Buf,        \* buffers: those in the rings and the extra ones
    Slots,      \* num_slots of every ring
    FirstRx,    \* first_rx_ring of the port
    LastRx,     \* last_rx_ring of the port
    MaxTokens   \* bound on the packets the client keeps at once

Ring == FirstRx..LastRx

ASSUME NetmapRxAssumption ==
    /\ FirstRx \in Nat /\ LastRx \in Nat /\ FirstRx <= LastRx
    /\ Slots \in Nat \ {0, 1}
    /\ MaxTokens \in Nat
    /\ IsFiniteSet(Buf) /\ Cardinality(Buf) >= Slots * Cardinality(Ring)
    /\ Cardinality(Buf) - Slots * Cardinality(Ring) <= SpscLen  \* mpsc::channel(indexes.len())
    /\ Batch <= Cache                                           \* 16 and 1024

VARIABLES
    rings,      \* the RX rings
    ringIdx,    \* Receiver.ring_idx
    noRing,     \* Receiver.cur_ring is null
    chan,       \* Ctx.producer and Sock.consumer
    tokens,     \* how many tokens for each buffer the client holds
    pc          \* "again": inside recv_token, after the reset

vars == <<rings, ringIdx, noRing, chan, tokens, pc>>

NumTokens == FoldFunction(+, 0, tokens)
-----------------------------------------------------------------------------
(* Sock::create: the rings have a buffer in every slot; the extra ones are *)
(* pushed and flushed (which drops an incomplete batch), and a first sync  *)
(* publishes received packets.                                             *)
BufOrder == SetToSeq(Buf)
InRings == Slots * Cardinality(Ring)
NewRing(r) ==
    [slot |-> [i \in 0..(Slots - 1) |-> BufOrder[(r - FirstRx) * Slots + i + 1]],
     size |-> Slots, head |-> 0, tail |-> 0]
ExtraBufs == SubSeq(BufOrder, InRings + 1, Len(BufOrder))

Init ==
    /\ \E t \in [Ring -> 0..(Slots - 1)] :
          rings = [r \in Ring |-> [NewRing(r) EXCEPT !.tail = t[r]]]
    /\ ringIdx = FirstRx
    /\ noRing = FALSE
    /\ chan = Flush(PushAll(EmptyChannel, ExtraBufs))
    /\ tokens = [b \in Buf |-> 0]
    /\ pc = "idle"
-----------------------------------------------------------------------------
(* ReceiverIterMut::next: the first ring from the cursor on that has a     *)
(* slot for the user.                                                      *)
Found(r) ==
    /\ ~noRing
    /\ r \in ringIdx..LastRx
    /\ ~IsEmpty(rings[r])
    /\ \A q \in ringIdx..(r - 1) : IsEmpty(rings[q])
NothingFound == \A r \in Ring : ~Found(r)

(* Port::rx_sync: one ioctl syncs every bound ring. *)
SyncAll ==
    \E t \in [Ring -> 0..(Slots - 1)] :
        /\ rings' = [r \in Ring |-> [rings[r] EXCEPT !.tail = t[r]]]
        /\ \A r \in Ring : rings'[r] \in Synced(rings[r])

(* Mutant of TakeSlot: the slot keeps its buffer, no free one is put in. *)
TakeSlot_NoSwap(r) ==
    /\ rings' = [rings EXCEPT ![r] = Advanced(rings[r])]
    /\ IF HasNext(chan)
       THEN /\ chan' = Pop(chan)
            /\ tokens' = [tokens EXCEPT ![rings[r].slot[rings[r].head]] = @ + 1]
       ELSE chan' = Ready(chan) /\ UNCHANGED tokens

(* Mutant of TakeSlot: recv fails while the consumer's cache is empty,     *)
(* although the channel holds buffers.                                     *)
TakeSlot_NoSync(r) ==
    LET b == rings[r].slot[rings[r].head]
    IN  IF chan.cached # <<>>
        THEN /\ chan' = Pop(chan)
             /\ rings' = [rings EXCEPT ![r] =
                    [Advanced(@) EXCEPT !.slot[rings[r].head] = NextElem(chan)]]
             /\ tokens' = [tokens EXCEPT ![b] = @ + 1]
        ELSE /\ chan' = Sync(chan)
             /\ rings' = [rings EXCEPT ![r] = Advanced(@)]
             /\ UNCHANGED tokens

(* Mutant of TakeSlot: without a free buffer the packet is delivered all   *)
(* the same, in a buffer that stays in the slot.                           *)
TakeSlot_NoCheck(r) ==
    LET b == rings[r].slot[rings[r].head]
        e == IF HasNext(chan) THEN NextElem(chan) ELSE b
    IN  /\ chan' = IF HasNext(chan) THEN Pop(chan) ELSE Ready(chan)
        /\ rings' = [rings EXCEPT ![r] = [Advanced(@) EXCEPT !.slot[rings[r].head] = e]]
        /\ tokens' = [tokens EXCEPT ![b] = @ + 1]

(* The slot leaves the ring, then recv_inner swaps its buffer for a free   *)
(* one; without a free one the call fails with NoMemory and the packet is  *)
(* lost, its buffer left in the slot.                                      *)
TakeSlot(r) ==
    LET b == rings[r].slot[rings[r].head]
    IN  IF HasNext(chan)
        THEN /\ chan' = Pop(chan)
             /\ rings' = [rings EXCEPT ![r] =
                    [Advanced(@) EXCEPT !.slot[rings[r].head] = NextElem(chan)]]
             /\ tokens' = [tokens EXCEPT ![b] = @ + 1]
        ELSE /\ chan' = Ready(chan)
             /\ rings' = [rings EXCEPT ![r] = Advanced(@)]
             /\ UNCHANGED tokens

(* Sock::recv_token finds a packet, at the first look or after the reset. *)
Recv(r) ==
    /\ NumTokens < MaxTokens
    /\ Found(r)
    /\ TakeSlot(r)
    /\ ringIdx' = r
    /\ pc' = "idle"
    /\ UNCHANGED noRing

(* Mutant of RecvMiss: the reset comes as soon as the ring under the       *)
(* cursor is empty.                                                        *)
RecvMiss_Eager ==
    /\ pc = "idle"
    /\ NumTokens < MaxTokens
    /\ ~noRing => IsEmpty(rings[ringIdx])
    /\ SyncAll
    /\ ringIdx' = FirstRx
    /\ noRing' = FALSE
    /\ pc' = "again"
    /\ UNCHANGED <<chan, tokens>>

(* None: Receiver::reset rewinds the cursor and syncs. *)
RecvMiss ==
    /\ pc = "idle"
    /\ NumTokens < MaxTokens
    /\ NothingFound
    /\ SyncAll
    /\ ringIdx' = FirstRx
    /\ noRing' = FALSE
    /\ pc' = "again"
    /\ UNCHANGED <<chan, tokens>>

(* None again: NoPacket, with the cursor past the last ring. *)
RecvNone ==
    /\ pc = "again"
    /\ NothingFound
    /\ ringIdx' = LastRx + 1
    /\ noRing' = TRUE
    /\ pc' = "idle"
    /\ UNCHANGED <<rings, chan, tokens>>

(* Payload::drop, Ctx::release *)
Release(b) ==
    /\ tokens[b] > 0
    /\ tokens' = [tokens EXCEPT ![b] = @ - 1]
    /\ chan' = Push(chan, b)
    /\ UNCHANGED <<rings, ringIdx, noRing, pc>>

Next ==
    \/ \E r \in Ring : Recv(r)
    \/ RecvMiss \/ RecvNone
    \/ \E b \in Buf : Release(b)

Spec == Init /\ [][Next]_vars

(* A client that keeps calling recv and eventually drops what it received. *)
FairSpec ==
    /\ Spec
    /\ WF_vars(\E r \in Ring : Recv(r))
    /\ WF_vars(RecvMiss) /\ WF_vars(RecvNone)
    /\ WF_vars(\E b \in Buf : Release(b))
-----------------------------------------------------------------------------
Occurs(b, s) == Cardinality({i \in DOMAIN s : s[i] = b})
InSlots(b) == {p \in Ring \X (0..(Slots - 1)) : rings[p[1]].slot[p[2]] = b}
Copies(b) == Occurs(b, Contents(chan)) + Cardinality(InSlots(b)) + tokens[b]

(* Type correctness; the cursor is on a bound ring unless the last scan    *)
(* ran past them, and then recv has no ring to look at.                    *)
TypeOK ==
    /\ \A r \in Ring :
          /\ rings[r].slot \in [0..(Slots - 1) -> Buf]
          /\ {rings[r].head, rings[r].tail} \subseteq 0..(Slots - 1)
    /\ chan \in [batch : Seq(Buf), ring : Seq(Seq(Buf)), cached : Seq(Buf)]
    /\ tokens \in [Buf -> 0..MaxTokens]
    /\ pc \in {"idle", "again"}
    /\ IF noRing THEN ringIdx = LastRx + 1 ELSE ringIdx \in Ring

(* Every buffer is in one slot, or in the channel, or named by one token,  *)
(* except those the flush at creation discarded: the kernel never fills a  *)
(* buffer the client still reads, and no buffer leaves circulation later,  *)
(* also when recv_inner fails (recv_inner, release).                       *)
Discarded == Range(ExtraBufs) \ Range(Contents(Flush(PushAll(EmptyChannel, ExtraBufs))))
OneOwner == \A b \in Buf : Copies(b) = IF b \in Discarded THEN 0 ELSE 1

(* The client's view: the socket is a pool of buffers (BufferPool) that    *)
(* never breaks, and loses nothing after its creation.                     *)
Pool == INSTANCE BufferPool WITH held <- tokens, lost <- Discarded, broken <- FALSE
PoolSpec == Pool!Spec

(* recv_token drops a packet for want of a buffer only when every extra    *)
(* buffer is with the client or in the incomplete batch of a producer.     *)
DropOnlyWhenExhausted ==
    [][ \A r \in Ring :
          rings'[r].head # rings[r].head /\ tokens' = tokens =>
             chan.ring = <<>> /\ chan.cached = <<>> ]_vars

(* No ring starves: a published packet of any ring is taken (delivered or  *)
(* dropped) although recv stays on a ring as long as it has packets, since *)
(* rings are only synced when all of them have been drained.               *)
NoRingStarves ==
    \A r \in Ring, i \in 0..(Slots - 1) :
        i \in UserOwned(rings[r]) ~> i \notin UserOwned(rings[r])
=============================================================================
