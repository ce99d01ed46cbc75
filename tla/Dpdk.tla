-------------------------------- MODULE Dpdk --------------------------------
(***************************************************************************)
(* A DPDK socket (src/dpdk): mbufs circulate between the mempool, the      *)
(* NIC's RX queue, the receive burst, the client's tokens, the descriptor  *)
(* channel, the transmitter's two arrays and the NIC's TX queue.           *)
(*                                                                         *)
(* The code moves mbufs and never looks at which one it moves, so each     *)
(* container is the number of mbufs in it; the transmitter's `bufs`, which *)
(* may hold null pointers, is a sequence.  The client is one thread; the   *)
(* NIC runs concurrently, and poll mode drivers (external) do their work   *)
(* inside rx_burst and tx_burst.                                           *)
(***************************************************************************)
EXTENDS Channel, FiniteSets, FiniteSetsExt

CONSTANTS
    NumMbufs,     \* flags.num_mbufs
    RxRing,       \* RX_RING_SIZE: mbufs the driver posts to the RX queue
    TxRing,       \* entries of the NIC's TX queue
    Burst,        \* BURST_SIZE
    MaxTokens     \* bound on the packets the client keeps at once

(* Sock::create makes the channel with num_mbufs as the capacity of its    *)
(* ring, which counts groups.                                              *)
ASSUME DpdkAssumption ==
    /\ {RxRing, TxRing, Burst, MaxTokens} \subseteq Nat \ {0}
    /\ NumMbufs \in Nat /\ NumMbufs >= RxRing + Burst
    /\ SpscLen >= NumMbufs

Mbuf == "mbuf"
Null == "null"

VARIABLES
    pool,         \* mbufs free in the mempool
    posted,       \* empty mbufs in the RX queue
    arrived,      \* mbufs of the RX queue that hold a packet
    rest,         \* Receiver: nb_rx - index
    tokens,       \* packets the client holds
    chan,         \* Ctx.producer and Sock.consumer
    bufs,         \* Transmitter.bufs
    ready,        \* Transmitter.ready_bufs
    sending,      \* mbufs in the TX queue
    pc,           \* "idle", or "again" between the two looks of recv_token
    status        \* "running", "panicked" or "undefined"

vars == <<pool, posted, arrived, rest, tokens, chan, bufs, ready, sending, pc, status>>
rxVars == <<posted, arrived, rest, tokens>>
txVars == <<bufs, ready, sending>>

Copies(x, n) == [k \in 1..n |-> x]
Running == status = "running"
-----------------------------------------------------------------------------
(* Context::create and Sock::create: the RX queue takes RxRing mbufs, the  *)
(* transmitter Burst, and all the others are pushed to the channel, the    *)
(* last ones staying in its local batch.                                   *)
Init ==
    /\ pool = 0
    /\ posted = RxRing /\ arrived = 0 /\ rest = 0 /\ tokens = 0
    /\ chan = PushAll(EmptyChannel, Copies(Mbuf, NumMbufs - RxRing - Burst))
    /\ bufs = Copies(Mbuf, Burst) /\ ready = 0 /\ sending = 0
    /\ pc = "idle"
    /\ status = "running"
-----------------------------------------------------------------------------
(* rte_eth_rx_burst (external): up to Burst packets, for each of which the *)
(* driver posts a new mbuf of the pool; it stops when the pool is empty.   *)
RxLimit == Min({Burst, arrived, pool})

(* Mutant of AdvanceBurst: the packet is given again by the next advance. *)
AdvanceBurst_KeepsIndex ==
    /\ rest > 0
    /\ UNCHANGED <<rest, posted, arrived, pool>>

(* ReceiverIterMut::advance: the next mbuf of the burst, or a new burst. *)
AdvanceBurst ==
    /\ rest > 0
    /\ rest' = rest - 1
    /\ UNCHANGED <<posted, arrived, pool>>

AdvanceNew ==
    /\ rest = 0
    /\ \E n \in 1..RxLimit :
          /\ rest' = n - 1
          /\ arrived' = arrived - n
          /\ posted' = posted + n
          /\ pool' = pool - n

NoPacket == rest = 0 /\ RxLimit = 0

(* Sock::recv_token, with a packet at the first or the second look. *)
Recv ==
    /\ Running
    /\ tokens < MaxTokens
    /\ AdvanceBurst \/ AdvanceNew
    /\ tokens' = tokens + 1
    /\ pc' = "idle"
    /\ UNCHANGED <<chan, txVars, status>>

(* Mutant of RecvMiss: only what a pop has cached is freed. *)
RecvMiss_NoSync ==
    /\ Running /\ pc = "idle"
    /\ tokens < MaxTokens
    /\ NoPacket
    /\ pool' = pool + Len(chan.cached)
    /\ chan' = [chan EXCEPT !.cached = <<>>]
    /\ pc' = "again"
    /\ UNCHANGED <<rxVars, txVars, status>>

(* Nothing: flush_to_memory_pool frees what the consumer can see. *)
RecvMiss ==
    /\ Running /\ pc = "idle"
    /\ tokens < MaxTokens
    /\ NoPacket
    /\ pool' = pool + Len(Sync(chan).cached)
    /\ chan' = [Sync(chan) EXCEPT !.cached = <<>>]
    /\ pc' = "again"
    /\ UNCHANGED <<rxVars, txVars, status>>

(* Nothing again: Error::NoPacket. *)
RecvNone ==
    /\ Running /\ pc = "again"
    /\ NoPacket
    /\ pc' = "idle"
    /\ UNCHANGED <<pool, rxVars, chan, txVars, status>>

(* Payload::drop and Ctx::release. *)
Release ==
    /\ Running /\ pc = "idle"
    /\ tokens > 0
    /\ tokens' = tokens - 1
    /\ chan' = Push(chan, Mbuf)
    /\ UNCHANGED <<pool, posted, arrived, rest, txVars, pc, status>>
-----------------------------------------------------------------------------
(* The transmitter as a record, so that the steps of a send can be chained. *)
Cur == [bufs |-> bufs, ready |-> ready, sending |-> sending, pool |-> pool, ok |-> TRUE]
Becomes(t) ==
    /\ bufs' = t.bufs
    /\ ready' = t.ready
    /\ sending' = t.sending
    /\ pool' = t.pool

(* Transmitter::flush: rte_eth_tx_burst accepts any number for which the   *)
(* TX queue has room; the others stay.                                     *)
Flushed(t) ==
    {[t EXCEPT !.ready = @ - k, !.sending = @ + k] : k \in 0..Min({t.ready, TxRing - t.sending})}

(* Mutant of Refilled: a whole burst is asked for. *)
Refilled_AsksAll(t) ==
    IF t.pool >= Burst
    THEN [t EXCEPT !.bufs = Copies(Mbuf, Burst), !.pool = @ - Burst]
    ELSE [t EXCEPT !.bufs = <<>>, !.ok = FALSE]

(* Mutant of Refilled: the mbufs are allocated to the start of bufs. *)
Refilled_AtStart(t) ==
    LET ask == Burst - t.ready
    IN  IF t.pool >= ask
        THEN [t EXCEPT !.bufs = Copies(Mbuf, ask) \o Copies(Null, Burst - ask), !.pool = @ - ask]
        ELSE [t EXCEPT !.bufs = Copies(Null, t.ready), !.ok = FALSE]

(* The replenishment in TransmitterIterMut::advance: bufs is padded with   *)
(* nulls, and the entries from the length of ready_bufs on are allocated   *)
(* in bulk, or popped when the pool has too few.                           *)
Refilled(t) ==
    LET ask == Burst - t.ready
        padded == t.bufs \o Copies(Null, Burst - Len(t.bufs))
    IN  IF t.pool >= ask
        THEN [t EXCEPT !.bufs = SubSeq(padded, 1, t.ready) \o Copies(Mbuf, ask),
                       !.pool = @ - ask]
        ELSE [t EXCEPT !.bufs = SubSeq(padded, 1, t.ready), !.ok = FALSE]

Advance == IF ready = Burst THEN {Refilled(t) : t \in Flushed(Cur)} ELSE {Cur}

(* bufs.pop() has an entry, of whatever kind. *)
Found(t) == t.ok /\ t.bufs # <<>>

SendCall == Running /\ pc = "idle"

(* Sock::send with an mbuf to write.  The iterator is dropped at the end   *)
(* of its statement and flushes the earlier packets; then the packet is    *)
(* copied and the mbuf pushed to ready_bufs, whether the packet fits or    *)
(* the call fails with TooBigPacket.                                       *)
Send ==
    /\ SendCall
    /\ \E t \in Advance :
          /\ Found(t) /\ Last(t.bufs) = Mbuf
          /\ \E u \in Flushed([t EXCEPT !.bufs = Front(@)]) :
                Becomes([u EXCEPT !.ready = @ + 1])
    /\ UNCHANGED <<rxVars, chan, pc, status>>

(* A length of 2^16 or more is cut to 16 bits; if the rest fits, the copy  *)
(* panics, and the unwinding pushes the mbuf all the same.                 *)
SendTooLong ==
    /\ SendCall
    /\ \E t \in Advance :
          /\ Found(t) /\ Last(t.bufs) = Mbuf
          /\ \E u \in Flushed([t EXCEPT !.bufs = Front(@)]) :
                Becomes([u EXCEPT !.ready = @ + 1])
    /\ status' = "panicked"
    /\ UNCHANGED <<rxVars, chan, pc>>

(* RteMBufRef::drop reaches the transmitter through a pointer to the       *)
(* iterator that was dropped before.  Send is the outcome in which its     *)
(* memory still holds the iterator; this one stands for any other.         *)
SendUndefined ==
    /\ SendCall
    /\ \E t \in Advance : Found(t) /\ Last(t.bufs) = Mbuf
    /\ status' = "undefined"
    /\ UNCHANGED <<pool, rxVars, chan, txVars, pc>>

(* A null pointer is popped, and the unwrap of NonNull::new panics. *)
SendNull ==
    /\ SendCall
    /\ \E t \in Advance :
          /\ Found(t) /\ Last(t.bufs) = Null
          /\ \E u \in Flushed([t EXCEPT !.bufs = Front(@)]) : Becomes(u)
    /\ status' = "panicked"
    /\ UNCHANGED <<rxVars, chan, pc>>

(* No mbuf: Error::NoPacket, and the iterator flushes. *)
SendNone ==
    /\ SendCall
    /\ \E t \in Advance : ~Found(t) /\ \E u \in Flushed(t) : Becomes(u)
    /\ UNCHANGED <<rxVars, chan, pc, status>>

(* Sock::flush *)
FlushTx ==
    /\ SendCall
    /\ \E u \in Flushed(Cur) : Becomes(u)
    /\ UNCHANGED <<rxVars, chan, pc, status>>
-----------------------------------------------------------------------------
(* The NIC (external): a packet arrives in a posted mbuf; a transmitted    *)
(* mbuf goes back to the pool.                                             *)
Arrive ==
    /\ Running
    /\ posted > 0
    /\ posted' = posted - 1
    /\ arrived' = arrived + 1
    /\ UNCHANGED <<pool, rest, tokens, chan, txVars, pc, status>>

Sent ==
    /\ Running
    /\ sending > 0
    /\ sending' = sending - 1
    /\ pool' = pool + 1
    /\ UNCHANGED <<rxVars, chan, bufs, ready, pc, status>>

Next ==
    \/ Recv \/ RecvMiss \/ RecvNone \/ Release
    \/ Send \/ SendTooLong \/ SendUndefined \/ SendNull \/ SendNone \/ FlushTx
    \/ Arrive \/ Sent

Spec == Init /\ [][Next]_vars

(* A client that calls recv again and again and drops what it gets,        *)
(* traffic that does not stop, and a NIC that transmits; the client sends  *)
(* when it likes.                                                          *)
FairSpec ==
    /\ Spec
    /\ WF_vars(Recv \/ RecvMiss \/ RecvNone)
    /\ SF_vars(Release)
    /\ WF_vars(Arrive) /\ WF_vars(Sent)
-----------------------------------------------------------------------------
Real == Cardinality({k \in DOMAIN bufs : bufs[k] = Mbuf})

(* The mbufs in all places add up to the ones there are, through bursts,   *)
(* partial bursts, bulk allocations that fail, refused packets and panics: *)
(* no step hands one out without taking it, or drops it on the way         *)
(* (recv_token, flush_to_memory_pool, send).  Mbufs are counted: that one  *)
(* is duplicated in the very step that loses another would not show.       *)
Conserved ==
    pool + posted + arrived + rest + tokens + Len(Contents(chan)) + Real + ready + sending
    = NumMbufs

(* bufs and ready_bufs together never hold more than a burst of mbufs.  So *)
(* the push in RteMBufRef::drop never finds ready_bufs full, and the bulk  *)
(* allocation in advance never overwrites an mbuf that is still there,     *)
(* although it runs while bufs may hold entries.                           *)
TxRoom == Real + ready <= Burst /\ Len(bufs) <= Burst

(* The null pointers that the padding leaves in bufs lie below all mbufs   *)
(* of a replenishment, and bufs is popped from the end: the unwrap in      *)
(* advance panics only in a send for which no mbuf is left, and every mbuf *)
(* allocated behind refused packets is used before that.                   *)
Stacked(s) == \A i, j \in 1..Len(s) : i < j /\ s[j] = Null => s[i] = Null
NullsLast == Stacked(bufs)

(* Receiving never stops for lack of mbufs while the client drops its      *)
(* packets: what it released reaches the pool again, however many mbufs    *)
(* wait in incomplete batches and in the transmitter                       *)
(* (flush_to_memory_pool runs only on a miss).                             *)
ReceivesGoOn == <>(~Running) \/ []<><<Recv>>_vars
=============================================================================
