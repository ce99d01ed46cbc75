------------------------------ MODULE NetmapTx ------------------------------
(***************************************************************************)
(* The transmit side of a netmap socket (src/netmap, netmap_rs): a cursor  *)
(* over TX rings, and slots the user fills and hands to the kernel with a  *)
(* sync.  A slot stands for what its buffer holds:                         *)
(*   "sent"   a packet the kernel is done with, or nothing yet             *)
(*   "new"    a packet send copied, not transmitted so far                 *)
(*   "again"  what it held before: the packet of this send was refused     *)
(* The `len` field of the slot, which the code never writes, is left out.  *)
(* The NIC may have rings beyond the ones the port is bound to; they are   *)
(* mapped too and belong to other sockets, which use them at any time; a   *)
(* stray send here and a step of the owner do not overlap in the model.    *)
(***************************************************************************)
EXTENDS NetmapRing, FiniteSets

CONSTANTS
    NTx,        \* ni_tx_rings: TX rings of the NIC
    FirstTx,    \* first_tx_ring of the port
    LastTx,     \* last_tx_ring of the port
    TxSlots,    \* num_slots of every ring
    BufSize,    \* nr_buf_size
    PacketLen   \* lengths of the packets the client sends

TxRing == 0..(NTx - 1)
Bound == FirstTx..LastTx

ASSUME NetmapTxAssumption ==
    /\ NTx \in Nat /\ FirstTx \in Nat /\ LastTx \in Nat
    /\ FirstTx <= LastTx /\ LastTx < NTx
    /\ TxSlots \in Nat \ {0, 1}
    /\ BufSize \in Nat /\ PacketLen \subseteq Nat

VARIABLES
    txRings,    \* the TX rings
    txIdx,      \* Transmitter.ring_idx
    synced,     \* Transmitter.synced
    txPc        \* inside send: "first" after the first sync, "again" after the reset

txVars == <<txRings, txIdx, synced, txPc>>
-----------------------------------------------------------------------------
NewTxRing ==
    [slot |-> [i \in 0..(TxSlots - 1) |-> "sent"],
     size |-> TxSlots, head |-> 0, tail |-> TxSlots - 1]

TxInit ==
    /\ txRings = [r \in TxRing |-> NewTxRing]
    /\ txIdx = FirstTx
    /\ synced = FALSE
    /\ txPc = "idle"

(* TransmitterIterMut::next on the rings rs: the ring under the cursor, if *)
(* there is one, then the following ones up to the last bound ring.        *)
Scanned == {txIdx} \cup (txIdx..LastTx)

TxFound(rs, r) ==
    /\ r \in TxRing \cap Scanned
    /\ ~IsEmpty(rs[r])
    /\ \A q \in txIdx..(r - 1) : IsEmpty(rs[q])
TxNothingFound(rs) == \A r \in TxRing : ~TxFound(rs, r)

(* The cursor after a scan that found nothing: it stays where no ring is,  *)
(* and is otherwise past the ring it looked at last.                       *)
Exhausted ==
    IF txIdx \notin TxRing THEN txIdx
    ELSE IF txIdx > LastTx THEN txIdx + 1 ELSE LastTx + 1

(* send_inner: the packet is copied if it fits and the call fails          *)
(* otherwise; the slot has left the ring either way.                       *)
Fill(rs, r, n) ==
    [rs EXCEPT ![r] = [Advanced(@) EXCEPT !.slot[rs[r].head] =
                          IF n > BufSize THEN "again" ELSE "new"]]

(* Port::tx_sync: the kernel has sent any number of the slots handed over; *)
(* those are the ones behind the tail's old position.                      *)
Passed(r, t) == {i \in DOMAIN r.slot : (i - r.tail - 1) % r.size < (t - r.tail) % r.size}
Transmitted(r, t) ==
    [r EXCEPT !.tail = t, !.slot = [i \in DOMAIN @ |-> IF i \in Passed(r, t) THEN "sent" ELSE @[i]]]
SyncTo(t) ==
    [r \in TxRing |-> IF r \in Bound THEN Transmitted(txRings[r], t[r]) ELSE txRings[r]]
Syncs == {t \in [Bound -> 0..(TxSlots - 1)] :
            \A r \in Bound : \E u \in Synced(txRings[r]) : u.tail = t[r]}

(* The first call of next() on a transmitter does a sync. *)
FirstSync ==
    /\ txPc = "idle"
    /\ ~synced
    /\ \E t \in Syncs : txRings' = SyncTo(t)
    /\ synced' = TRUE
    /\ txPc' = "first"
    /\ UNCHANGED txIdx

(* Sock::send finds a slot, at the first look or after the reset. *)
Send(r, n) ==
    /\ synced
    /\ TxFound(txRings, r)
    /\ txRings' = Fill(txRings, r, n)
    /\ txIdx' = r
    /\ txPc' = "idle"
    /\ UNCHANGED synced

(* Mutant of SendMiss: the reset does not rewind the cursor. *)
SendMiss_NoRewind ==
    /\ synced
    /\ txPc \in {"idle", "first"}
    /\ TxNothingFound(txRings)
    /\ \E t \in Syncs : txRings' = SyncTo(t)
    /\ txIdx' = Exhausted
    /\ txPc' = "again"
    /\ UNCHANGED synced

(* Mutant of SendMiss: the reset does not sync. *)
SendMiss_NoSync ==
    /\ synced
    /\ txPc \in {"idle", "first"}
    /\ TxNothingFound(txRings)
    /\ txIdx' = FirstTx
    /\ txPc' = "again"
    /\ UNCHANGED <<txRings, synced>>

(* None: Transmitter::reset rewinds the cursor and syncs. *)
SendMiss ==
    /\ synced
    /\ txPc \in {"idle", "first"}
    /\ TxNothingFound(txRings)
    /\ \E t \in Syncs : txRings' = SyncTo(t)
    /\ txIdx' = FirstTx
    /\ txPc' = "again"
    /\ UNCHANGED synced

(* None again: send fails with NoMemory; the cursor stays past the rings. *)
SendNone ==
    /\ txPc = "again"
    /\ TxNothingFound(txRings)
    /\ txIdx' = Exhausted
    /\ txPc' = "idle"
    /\ UNCHANGED <<txRings, synced>>

(* Sock::flush *)
FlushTx ==
    /\ txPc = "idle"
    /\ \E t \in Syncs : txRings' = SyncTo(t)
    /\ UNCHANGED <<txIdx, synced, txPc>>

(* The sockets that own the other rings (external) send packets on them    *)
(* and sync them, at any time.                                             *)
OwnerSends(r) ==
    /\ r \notin Bound
    /\ ~IsEmpty(txRings[r])
    /\ txRings' = [txRings EXCEPT ![r] = [Advanced(@) EXCEPT !.slot[txRings[r].head] = "new"]]
    /\ UNCHANGED <<txIdx, synced, txPc>>

OwnerSyncs(r) ==
    /\ r \notin Bound
    /\ \E u \in Synced(txRings[r]) :
          txRings' = [txRings EXCEPT ![r] = Transmitted(@, u.tail)]
    /\ UNCHANGED <<txIdx, synced, txPc>>

(* A call of send or a part of it. *)
Sending ==
    \/ FirstSync
    \/ \E r \in TxRing, n \in PacketLen : Send(r, n)
    \/ SendMiss \/ SendNone

TxNext ==
    \/ Sending \/ FlushTx
    \/ \E r \in TxRing : OwnerSends(r) \/ OwnerSyncs(r)

TxSpec == TxInit /\ [][TxNext]_txVars

(* A client that keeps sending, and a kernel that keeps transmitting: a    *)
(* sync that frees slots happens again and again if it can.  The other     *)
(* sockets do what they like.                                              *)
Frees == \E r \in Bound : txRings'[r].tail # txRings[r].tail
TxFairSpec ==
    /\ TxSpec
    /\ WF_txVars(Sending)
    /\ SF_txVars(SendMiss /\ Frees)
-----------------------------------------------------------------------------
(* On the port's rings a slot is reused only when the kernel is done with  *)
(* it, and every slot handed over carries a packet that send accepted, or  *)
(* is the slot of a packet it refused: those go out too, with what the     *)
(* slot held before (send_inner fails after next() has moved head).        *)
SlotsHandedOver ==
    \A r \in Bound, i \in 0..(TxSlots - 1) :
        txRings[r].slot[i] = "sent" <=> i \in UserOwned(txRings[r]) \cup {txRings[r].tail}

(* send takes a slot of a ring the port is not bound to only on the rings  *)
(* behind the last bound one, and only if an earlier send failed with      *)
(* NoMemory: that one left the cursor past the last ring and next() looks  *)
(* under the cursor before it compares.  A reset ends it.                  *)
StrayOnlyAfterNone ==
    [][\A r \in TxRing \ Bound, n \in PacketLen :
          Send(r, n) => r > LastTx /\ txIdx > LastTx /\ txPc = "idle"]_txVars

(* A client that retries gets a slot again and again: neither full rings   *)
(* nor failed sends wedge the cursor (send, next, reset).  The port's own  *)
(* rings are served again and again too, unless the owner of a ring behind *)
(* them keeps freeing slots there: a cursor that a failed send left on     *)
(* such a ring stays as long as next() finds a slot under it.              *)
SendsGoOn ==
    /\ []<><<\E r \in TxRing, n \in PacketLen : Send(r, n)>>_txVars
    /\ \/ []<><<\E r \in Bound, n \in PacketLen : Send(r, n)>>_txVars
       \/ []<><<\E r \in (LastTx + 1)..(NTx - 1) : OwnerSyncs(r)>>_txVars
=============================================================================
