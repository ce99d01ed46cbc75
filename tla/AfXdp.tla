------------------------------- MODULE AfXdp -------------------------------
(***************************************************************************)
(* An AF_XDP socket (src/af_xdp): UMEM frames circulate between the        *)
(* socket's descriptor channel, the fill ring, the kernel, the RX ring,    *)
(* the client's tokens, the TX ring and the completion ring.               *)
(*                                                                         *)
(* The client is one thread that calls recv, drops payloads, sends and     *)
(* flushes; the kernel runs concurrently.  A call is split where the       *)
(* kernel's progress between two accesses to shared indices matters.       *)
(* A frame stands for its offset in the UMEM; packet contents, lengths and *)
(* statistics are left out.                                                *)
(***************************************************************************)
EXTENDS Channel, XskRing, FiniteSets

CONSTANTS
    Frame,        \* frames of the UMEM
    Zero,         \* the frame at offset 0
    FillSize,     \* entries of the fill ring
    TxSize,       \* entries of the TX ring
    CompSize,     \* entries of the completion ring
    RxSize,       \* entries of the RX ring
    RxBatch,      \* RX_BATCH_SIZE
    TxBatch,      \* TX_BATCH_SIZE
    CompBatch,    \* completions handled per call (64)
    MaxTokens,    \* bound on the packets the client keeps at once
    Sending,      \* whether the client sends at all
    Persistent    \* whether the client goes on after a failed allocation

(* Ctx::new makes a channel with room for as many groups as there are      *)
(* frames.                                                                 *)
ASSUME FrameAssumption ==
    Zero \in Frame /\ IsFiniteSet(Frame) /\ Cardinality(Frame) <= SpscLen
ASSUME RingAssumption ==
    /\ {FillSize, TxSize, CompSize, RxSize, RxBatch, TxBatch, CompBatch} \subseteq Nat \ {0}
    /\ MaxTokens \in Nat

VARIABLES
    chan,         \* Ctx.producer and UmemManager.consumer
    fq,           \* fill ring
    rx,           \* RX ring, oldest first
    rxCached,     \* RxRing.cached
    tokens,       \* how many tokens for each frame the client holds
    tx,           \* TX ring
    txCached,     \* TxRing.cached: reserved slots, oldest first
    toFlush,      \* TxRing.to_flush
    cq,           \* completion ring, oldest first
    pc,           \* where the client is in a call
    starved       \* history: an allocation failed after descriptors were reserved

vars == <<chan, fq, rx, rxCached, tokens, tx, txCached, toFlush, cq, pc, starved>>
txVars == <<tx, txCached, toFlush, cq>>
rxVars == <<rx, rxCached>>

NumTokens == FoldFunction(+, 0, tokens)

(* The client is between two calls and has not given up. *)
Calling == pc = "idle" /\ (starved => Persistent)
-----------------------------------------------------------------------------
(* UmemManager::refill_fill_ring.  `available` is all the free space of    *)
(* the fill ring, which may exceed the `wanted` frames at hand; it is all  *)
(* reserved, then written with allocated frames and submitted.  When the   *)
(* frames run out the call fails and nothing is submitted.                 *)
WriteAddrs(q, s) ==
    [q EXCEPT !.slot = [i \in DOMAIN @ |->
        LET at == {k \in 1..Len(s) : SlotOf(q, q.cprod + k - 1) = i}
        IN  IF at = {} THEN @[i] ELSE s[CHOOSE k \in at : TRUE]]]

(* Mutant of RefillFillRing: submits `wanted` instead of `available`. *)
RefillFillRing_SubmitsWanted(c, q) ==
    LET wanted == Len(Ready(c).cached)
        free == NbFree(q, wanted)
        available == FreeEntries(free)
        taken == PopMany(Ready(c), available)
    IN  [chan |-> taken.chan, ok |-> TRUE,
         fq |-> Submit(Reserve(WriteAddrs(free, taken.got), available), wanted)]

(* Mutant of RefillFillRing: an empty cache is not synced. *)
RefillFillRing_NoSync(c, q) ==
    LET available == FreeEntries(NbFree(q, Len(c.cached)))
        taken == PopMany(c, available)
    IN  IF c.cached = <<>> \/ Len(taken.got) < available
        THEN [chan |-> c, fq |-> q, ok |-> TRUE]
        ELSE [chan |-> taken.chan, ok |-> TRUE,
              fq |-> Submit(Reserve(WriteAddrs(q, taken.got), available), available)]

RefillFillRing(c, q) ==
    LET wanted == Len(Ready(c).cached)
        free == NbFree(q, wanted)
        available == FreeEntries(free)
        taken == PopMany(Ready(c), available)
        reserved == Reserve(WriteAddrs(free, taken.got), available)
    IN  IF wanted = 0
        THEN [chan |-> Ready(c), fq |-> q, ok |-> TRUE]
        ELSE IF Len(taken.got) < available
             THEN [chan |-> taken.chan, fq |-> reserved, ok |-> FALSE]
             ELSE [chan |-> taken.chan, fq |-> Submit(reserved, available), ok |-> TRUE]

(* Sock::create: every frame is pushed and flushed, then the fill ring is  *)
(* filled for the first time; there is no socket if that fails.            *)
FrameOrder == <<Zero>> \o SetToSeq(Frame \ {Zero})
FirstChan == Flush(PushAll(EmptyChannel, FrameOrder))

Init ==
    /\ \E r \in {RefillFillRing(FirstChan, NewRing(FillSize, Zero))} :
          /\ r.ok
          /\ chan = r.chan
          /\ fq = r.fq
    /\ rx = <<>> /\ rxCached = <<>>
    /\ tokens = [f \in Frame |-> 0]
    /\ tx = NewRing(TxSize, Zero) /\ txCached = <<>> /\ toFlush = 0
    /\ cq = <<>>
    /\ pc = "idle"
    /\ starved = FALSE
-----------------------------------------------------------------------------
(* RxRing::advance: the next descriptor is the last of the local cache;    *)
(* an empty cache is refilled with up to RxBatch descriptors of the ring,  *)
(* newest first.  A peek may see fewer than are there, as it rereads the   *)
(* shared index only when it knows of none.                                *)
AdvanceCached(f) ==
    /\ rxCached # <<>>
    /\ f = Last(rxCached)
    /\ rxCached' = Front(rxCached)
    /\ UNCHANGED rx

(* Mutant of AdvancePeek: the batch is cached oldest first. *)
AdvancePeek_NotReversed(f) ==
    /\ rxCached = <<>>
    /\ \E n \in 1..RxBatch :
          /\ n <= Len(rx)
          /\ f = rx[n]
          /\ rxCached' = SubSeq(rx, 1, n - 1)
          /\ rx' = SubSeq(rx, n + 1, Len(rx))

(* Mutant of AdvancePeek: one descriptor too few is released to the ring. *)
AdvancePeek_ReleasesLess(f) ==
    /\ rxCached = <<>>
    /\ \E n \in 1..RxBatch :
          /\ n <= Len(rx)
          /\ f = Head(rx)
          /\ rxCached' = Reverse(SubSeq(rx, 2, n))
          /\ rx' = SubSeq(rx, n, Len(rx))

AdvancePeek(f) ==
    /\ rxCached = <<>>
    /\ \E n \in 1..RxBatch :
          /\ n <= Len(rx)
          /\ f = Head(rx)
          /\ rxCached' = Reverse(SubSeq(rx, 2, n))
          /\ rx' = SubSeq(rx, n + 1, Len(rx))

NoPacket == rxCached = <<>> /\ rx = <<>>

(* Sock::recv_token: a packet is at hand, at the first or the second look. *)
Recv(f) ==
    /\ Calling \/ pc = "again"
    /\ NumTokens < MaxTokens
    /\ AdvanceCached(f) \/ AdvancePeek(f)
    /\ tokens' = [tokens EXCEPT ![f] = @ + 1]
    /\ pc' = "idle"
    /\ UNCHANGED <<chan, fq, txVars, starved>>

(* Nothing at the first look: the fill ring will be refilled. *)
RecvMiss ==
    /\ Calling
    /\ NumTokens < MaxTokens
    /\ NoPacket
    /\ pc' = "refill"
    /\ UNCHANGED <<chan, fq, rxVars, tokens, txVars, starved>>

(* The refill; on failure recv_token returns its error at once. *)
Refill ==
    /\ pc = "refill"
    /\ \E r \in {RefillFillRing(chan, fq)} :
          /\ chan' = r.chan
          /\ fq' = r.fq
          /\ pc' = IF r.ok THEN "again" ELSE "idle"
          /\ starved' = (starved \/ ~r.ok)
    /\ UNCHANGED <<rxVars, tokens, txVars>>

(* "No packets" *)
RecvNone ==
    /\ pc = "again"
    /\ NoPacket
    /\ pc' = "idle"
    /\ UNCHANGED <<chan, fq, rxVars, tokens, txVars, starved>>

(* Mutant of Release: the frame is forgotten. *)
Release_Forgets(f) ==
    /\ Calling
    /\ tokens[f] > 0
    /\ tokens' = [tokens EXCEPT ![f] = @ - 1]
    /\ UNCHANGED <<chan, fq, rxVars, txVars, pc, starved>>

(* Payload::drop gives the frame back through Ctx::release. *)
Release(f) ==
    /\ Calling
    /\ tokens[f] > 0
    /\ tokens' = [tokens EXCEPT ![f] = @ - 1]
    /\ chan' = Push(chan, f)
    /\ UNCHANGED <<fq, rxVars, txVars, pc, starved>>
-----------------------------------------------------------------------------
(* TxRingIter::sync and the slots an advance has at hand: the cached ones, *)
(* or, after a sync, a fresh reservation of a whole batch.                 *)
Synced == Submit(tx, toFlush)

NewSlots(r) == [k \in 1..TxBatch |-> SlotOf(r, r.cprod + k - 1)]

(* Sock::send_inner on slot i of ring r: a frame is allocated after the    *)
(* slot was taken; without one the call fails and the slot keeps its old   *)
(* contents.                                                               *)
WriteSlot(r, i) ==
    IF HasNext(chan)
    THEN /\ tx' = [r EXCEPT !.slot[i] = NextElem(chan)]
         /\ chan' = Pop(chan)
         /\ UNCHANGED starved
    ELSE /\ tx' = r
         /\ chan' = Ready(chan)
         /\ starved' = TRUE

(* Mutant of SlotCached: the slot is not counted for the next submit. *)
SlotCached_NotCounted ==
    /\ txCached # <<>>
    /\ txCached' = Tail(txCached)
    /\ UNCHANGED toFlush
    /\ WriteSlot(tx, Head(txCached))

SlotCached ==
    /\ txCached # <<>>
    /\ txCached' = Tail(txCached)
    /\ toFlush' = toFlush + 1
    /\ WriteSlot(tx, Head(txCached))

SlotReserved ==
    /\ txCached = <<>>
    /\ CanReserve(Synced, TxBatch)
    /\ txCached' = Tail(NewSlots(Synced))
    /\ toFlush' = 1
    /\ WriteSlot(Reserve(Synced, TxBatch), Head(NewSlots(Synced)))

(* Sock::send, with a slot at the first or the second look. *)
Send ==
    /\ Sending
    /\ Calling \/ pc = "resend"
    /\ SlotCached \/ SlotReserved
    /\ pc' = "idle"
    /\ UNCHANGED <<fq, rxVars, tokens, cq>>

(* Mutant of CompleteTx: completions are recycled but stay in the ring. *)
CompleteTx_NoRelease(n) ==
    /\ chan' = IF n = 0 THEN chan ELSE Flush(PushAll(chan, SubSeq(cq, 1, n)))
    /\ UNCHANGED cq

(* complete_tx: recycle completed frames and flush the producer. *)
CompleteTx(n) ==
    /\ chan' = IF n = 0 THEN chan ELSE Flush(PushAll(chan, SubSeq(cq, 1, n)))
    /\ cq' = SubSeq(cq, n + 1, Len(cq))

Peeked(n) == IF cq = <<>> THEN n = 0 ELSE n \in 1..CompBatch /\ n <= Len(cq)

(* Sock::flush: submit, recycle completions, kick the kernel. *)
FlushBody ==
    /\ \E n \in 0..CompBatch : Peeked(n) /\ CompleteTx(n)
    /\ toFlush' = 0

FlushTx ==
    /\ Sending
    /\ Calling
    /\ FlushBody
    /\ tx' = Synced
    /\ UNCHANGED <<fq, rxVars, tokens, txCached, pc, starved>>

(* No slot at the first look: advance has synced, send calls flush. *)
SendMiss ==
    /\ Sending
    /\ Calling
    /\ txCached = <<>>
    /\ ~CanReserve(Synced, TxBatch)
    /\ FlushBody
    /\ tx' = Reserve(Synced, TxBatch)
    /\ pc' = "resend"
    /\ UNCHANGED <<fq, rxVars, tokens, txCached, starved>>

(* NoMemory *)
SendNone ==
    /\ pc = "resend"
    /\ ~CanReserve(tx, TxBatch)
    /\ tx' = Reserve(tx, TxBatch)
    /\ pc' = "idle"
    /\ UNCHANGED <<chan, fq, rxVars, tokens, txCached, toFlush, cq, starved>>
-----------------------------------------------------------------------------
(* The kernel: a received packet moves a frame from the fill ring to the   *)
(* RX ring; a transmitted one moves it from the TX to the completion ring. *)
KernelRx ==
    /\ Pending(fq) > 0
    /\ Len(rx) < RxSize
    /\ rx' = Append(rx, fq.slot[KernelSlot(fq)])
    /\ fq' = KernelTakes(fq)
    /\ UNCHANGED <<chan, rxCached, tokens, txVars, pc, starved>>

KernelTx ==
    /\ Pending(tx) > 0
    /\ Len(cq) < CompSize
    /\ cq' = Append(cq, tx.slot[KernelSlot(tx)])
    /\ tx' = KernelTakes(tx)
    /\ UNCHANGED <<chan, fq, rxVars, tokens, txCached, toFlush, pc, starved>>
-----------------------------------------------------------------------------
Next ==
    \/ \E f \in Frame : Recv(f) \/ Release(f)
    \/ RecvMiss \/ Refill \/ RecvNone
    \/ Send \/ FlushTx \/ SendMiss \/ SendNone
    \/ KernelRx \/ KernelTx

Spec == Init /\ [][Next]_vars

(* A client that keeps calling recv and drops what it receives, as the     *)
(* meter examples do; nothing is assumed of the kernel.  Only Refill       *)
(* leaves "refill", so fairness of Refill is stated on pc alone.           *)
FairSpec ==
    /\ Spec
    /\ WF_pc(pc = "refill" /\ pc' \in {"again", "idle"})
    /\ WF_vars(RecvMiss) /\ WF_vars(RecvNone)
    /\ WF_vars(\E f \in Frame : Recv(f))
    /\ WF_vars(\E f \in Frame : Release(f))
-----------------------------------------------------------------------------
(* How many times frame f occurs in a sequence, in the part of a ring the  *)
(* kernel may read, among the descriptors sent but not yet submitted, and  *)
(* altogether.                                                             *)
Occurs(f, s) == Cardinality({i \in DOMAIN s : s[i] = f})
OccursIn(f, r) == Cardinality({i \in Visible(r) : r.slot[i] = f})
Unsubmitted == {SlotOf(tx, tx.prod + i) : i \in 0..(toFlush - 1)}
Copies(f) ==
    Occurs(f, Contents(chan)) + OccursIn(f, fq) + Occurs(f, rx)
    + Occurs(f, rxCached) + tokens[f] + OccursIn(f, tx)
    + Cardinality({i \in Unsubmitted : tx.slot[i] = f}) + Occurs(f, cq)

(* Type correctness of the socket's state, with the shared and the local   *)
(* ring indices in range and to_flush no larger than the ring.             *)
TypeOK ==
    /\ chan \in [batch : Seq(Frame), ring : Seq(Seq(Frame)), cached : Seq(Frame)]
    /\ fq.slot \in [0..(FillSize - 1) -> Frame]
    /\ tx.slot \in [0..(TxSize - 1) -> Frame]
    /\ {fq.prod, fq.cons, fq.cprod, fq.ccons} \subseteq 0..(2 * FillSize - 1)
    /\ {tx.prod, tx.cons, tx.cprod, tx.ccons} \subseteq 0..(2 * TxSize - 1)
    /\ {rx, rxCached, cq} \subseteq Seq(Frame)
    /\ tokens \in [Frame -> 0..MaxTokens]
    /\ txCached \in Seq(0..(TxSize - 1)) /\ toFlush \in 0..TxSize
    /\ pc \in {"idle", "refill", "again", "resend"}
    /\ starved \in BOOLEAN

(* A frame of a socket that only receives has exactly one owner: the       *)
(* channel, an entry the kernel may read, the RX ring or its cache, or one *)
(* token of the client.  Two owners would write packets into the same      *)
(* memory; a frame without an owner is lost for good (recv_token, release, *)
(* refill_fill_ring, advance).                                             *)
OneOwner == \A f \in Frame : Copies(f) = 1

(* A socket that sends has no frame with two owners, until an allocation   *)
(* fails with a descriptor already taken from a ring (send_inner,          *)
(* refill_fill_ring): from then on a ring publishes descriptors nobody     *)
(* wrote.                                                                  *)
ExclusiveUntilStarved == starved \/ \A f \in Frame : Copies(f) <= 1

(* Only complete_tx loses frames, and fewer than a batch per call: its     *)
(* flush of the producer discards an incomplete batch, with the frames the *)
(* client released into it.  No other call loses any while frames last.    *)
Lost == {f \in Frame : Copies(f) = 0}
LossPerFlush ==
    [][ \/ Lost' = Lost
        \/ starved'
        \/ cq' # cq /\ Cardinality(Lost' \ Lost) < Batch ]_vars

(* The client's view: until an allocation fails with descriptors reserved, *)
(* the socket is a pool of frames (BufferPool): recv_token delivers a      *)
(* packet in a frame no token names, release gives it back, and no call    *)
(* loses a frame that a token names.                                       *)
Pool == INSTANCE BufferPool WITH Buf <- Frame, held <- tokens, lost <- Lost,
                                 broken <- starved
PoolSpec == Pool!Spec

(* refill_fill_ring submits every entry it reserves: the library's         *)
(* producer index equals the shared one whenever no call is inside it.     *)
(* Otherwise a later submit publishes entries that were never written.     *)
FillSubmitted == fq.cprod = fq.prod

(* Packets are delivered in the order of the RX ring although advance      *)
(* pops its cache from the end: the undelivered sequence only grows at its *)
(* end (kernel) and loses its head to a token (recv_token).                *)
RxPending == Reverse(rxCached) \o rx
RxFifo ==
    [][ \/ UNCHANGED RxPending
        \/ \E f \in Frame : RxPending' = Append(RxPending, f)
        \/ \E f \in Frame :
             /\ RxPending = <<f>> \o RxPending'
             /\ tokens' = [tokens EXCEPT ![f] = @ + 1] ]_vars

(* The kernel is never left without receive buffers for good: while the    *)
(* client keeps calling recv and drops its packets, the fill ring keeps    *)
(* getting submitted entries (recv_token refills only on a miss).          *)
KernelFed == []<>(Pending(fq) > 0)

(* TX index accounting across cached slots, to_flush and the shared        *)
(* indices: from the producer index on come first the slots already        *)
(* written (to_flush), then the cached ones in order, up to the library's  *)
(* index, and all of them with what the kernel has not taken fit the ring. *)
(* Otherwise a submit publishes slots not written, or skips written ones   *)
(* (TxRingIter::advance, sync).                                            *)
TxAccounting ==
    /\ Wrap(tx, tx.prod + toFlush + Len(txCached)) = tx.cprod
    /\ \A k \in 1..Len(txCached) : txCached[k] = SlotOf(tx, tx.prod + toFlush + k - 1)
    /\ Pending(tx) + toFlush + Len(txCached) <= TxSize
=============================================================================
