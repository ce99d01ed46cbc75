---------------------------- MODULE NetmapProofs ----------------------------
(***************************************************************************)
(* Theorems about the two sides of a netmap socket, NetmapTx and NetmapRx, *)
(* for any number of rings, slots and buffers.  On the transmit side the   *)
(* arithmetic modulo the ring size is reduced to comparisons first; on the *)
(* receive side buffers are counted, with what ChannelProofs says of the   *)
(* channel.                                                                *)
(***************************************************************************)
EXTENDS NetmapRx, NetmapTx, ChannelProofs

TxRingType ==
    [slot : [0..(TxSlots - 1) -> {"sent", "new", "again"}], size : {TxSlots},
     head : 0..(TxSlots - 1), tail : 0..(TxSlots - 1)]

TxTypeOK ==
    /\ txRings \in [TxRing -> TxRingType]
    /\ txIdx \in Nat
    /\ synced \in BOOLEAN
    /\ txPc \in {"idle", "first", "again"}

(* The cursor is at or behind the first bound ring, and right on it inside *)
(* a send and before the first one.                                        *)
TxCursor ==
    /\ txIdx >= FirstTx
    /\ txPc # "idle" \/ ~synced => txIdx = FirstTx
    /\ txPc # "idle" => synced

TxInv == TxTypeOK /\ TxCursor /\ SlotsHandedOver
-----------------------------------------------------------------------------
(* Distance from slot a forward to slot b, and from the slot after a. *)
Dist(a, b) == IF b >= a THEN b - a ELSE b - a + TxSlots
DistAfter(a, b) == IF b > a THEN b - a - 1 ELSE b - a - 1 + TxSlots

LEMMA Distance ==
    ASSUME NEW a \in 0..(TxSlots - 1), NEW b \in 0..(TxSlots - 1)
    PROVE  (b - a) % TxSlots = Dist(a, b) /\ (b - a - 1) % TxSlots = DistAfter(a, b)
  BY NetmapTxAssumption, SMT DEF Dist, DistAfter

LEMMA Forward ==
    ASSUME NEW a \in 0..(TxSlots - 1), NEW k \in 0..(TxSlots - 1)
    PROVE  (a + k) % TxSlots = IF a + k < TxSlots THEN a + k ELSE a + k - TxSlots
  BY NetmapTxAssumption, SMT

(* SlotsHandedOver of one ring, in comparisons. *)
Handed(r) ==
    \A i \in 0..(TxSlots - 1) : r.slot[i] = "sent" <=> i \in UserOwned(r) \cup {r.tail}
Between(h, t, i) == IF h <= t THEN h <= i /\ i < t ELSE i >= h \/ i < t

LEMMA Owned ==
    ASSUME NEW r \in TxRingType, NEW i \in 0..(TxSlots - 1)
    PROVE  i \in UserOwned(r) <=> Between(r.head, r.tail, i)
  <1>1. r.head \in 0..(TxSlots - 1) /\ r.tail \in 0..(TxSlots - 1) /\ r.size = TxSlots
        /\ DOMAIN r.slot = 0..(TxSlots - 1)
    BY DEF TxRingType
  <1>2. (i - r.head) % TxSlots = Dist(r.head, i) /\ (r.tail - r.head) % TxSlots = Dist(r.head, r.tail)
    BY <1>1, Distance
  <1>3. i \in UserOwned(r) <=> (i - r.head) % TxSlots < (r.tail - r.head) % TxSlots
    BY <1>1 DEF UserOwned, Available
  <1> DEFINE h == r.head
             t == r.tail
  <1>4. h \in 0..(TxSlots - 1) /\ t \in 0..(TxSlots - 1)
    BY <1>1
  <1>5. Dist(h, i) < Dist(h, t) <=> Between(h, t, i)
    <2> HIDE DEF h, t
    <2> QED
      BY <1>4, NetmapTxAssumption DEF Between, Dist
  <1> QED
    BY <1>2, <1>3, <1>5

(* The user's slots when the head moves by one, and when the tail moves by *)
(* k of the kernel's slots.                                                *)
LEMMA HeadMoves ==
    ASSUME NEW h \in 0..(TxSlots - 1), NEW t \in 0..(TxSlots - 1), NEW i \in 0..(TxSlots - 1), h # t
    PROVE  Between(IF h + 1 = TxSlots THEN 0 ELSE h + 1, t, i) <=> i # h /\ Between(h, t, i)
  <1>1. CASE h + 1 = TxSlots
    BY <1>1, NetmapTxAssumption DEF Between
  <1>2. CASE h + 1 # TxSlots
    BY <1>2, NetmapTxAssumption DEF Between
  <1> QED
    BY <1>1, <1>2

LEMMA TailMoves ==
    ASSUME NEW h \in 0..(TxSlots - 1), NEW t \in 0..(TxSlots - 1), NEW i \in 0..(TxSlots - 1),
           NEW u \in 0..(TxSlots - 1), NEW k \in 0..(TxSlots - 1),
           k <= TxSlots - 1 - Dist(h, t),
           u = IF t + k < TxSlots THEN t + k ELSE t + k - TxSlots
    PROVE  Between(h, u, i) \/ i = u <=>
             \/ Between(h, t, i) \/ i = t
             \/ DistAfter(t, i) < Dist(t, u)
  <1>1. CASE t >= h /\ t + k < TxSlots
    BY <1>1, NetmapTxAssumption DEF Between, Dist, DistAfter
  <1>2. CASE t >= h /\ ~(t + k < TxSlots)
    BY <1>2, NetmapTxAssumption DEF Between, Dist, DistAfter
  <1>3. CASE ~(t >= h)
    BY <1>3, NetmapTxAssumption DEF Between, Dist, DistAfter
  <1> QED
    BY <1>1, <1>2, <1>3

(* A send takes the slot at the head. *)
LEMMA HandedSend ==
    ASSUME NEW r \in TxRingType, ~IsEmpty(r), Handed(r), NEW v \in {"new", "again"}
    PROVE  LET s == [Advanced(r) EXCEPT !.slot[r.head] = v]
           IN  s \in TxRingType /\ Handed(s)
  <1> DEFINE s == [Advanced(r) EXCEPT !.slot[r.head] = v]
  <1>1. r.head \in 0..(TxSlots - 1) /\ r.tail \in 0..(TxSlots - 1) /\ r.size = TxSlots
        /\ r.slot \in [0..(TxSlots - 1) -> {"sent", "new", "again"}] /\ r.head # r.tail
    BY DEF TxRingType, IsEmpty
  <1>2. NextIdx(r) \in 0..(TxSlots - 1)
        /\ NextIdx(r) = IF r.head + 1 = TxSlots THEN 0 ELSE r.head + 1
    BY <1>1, NetmapTxAssumption DEF NextIdx
  <1>3. /\ s.slot = [r.slot EXCEPT ![r.head] = v] /\ s.head = NextIdx(r)
        /\ s.tail = r.tail /\ s.size = r.size
    BY DEF Advanced, TxRingType
  <1>4. s \in TxRingType
    BY <1>1, <1>2 DEF TxRingType, Advanced
  <1>5. ASSUME NEW i \in 0..(TxSlots - 1)
        PROVE  s.slot[i] = "sent" <=> i \in UserOwned(s) \cup {s.tail}
    <2>1. i \in UserOwned(s) <=> Between(s.head, s.tail, i)
      BY <1>4, Owned
    <2>2. i \in UserOwned(r) <=> Between(r.head, r.tail, i)
      BY Owned
    <2>3. r.slot[i] = "sent" <=> Between(r.head, r.tail, i) \/ i = r.tail
      BY <2>2 DEF Handed
    <2>4. s.slot[i] = IF i = r.head THEN v ELSE r.slot[i]
      BY <1>1, <1>3
    <2>5. CASE i = r.head
      <3>1. ~Between(s.head, s.tail, i)
        BY <1>1, <1>2, <1>3, <2>5, HeadMoves
      <3> QED
        BY <1>1, <1>3, <2>1, <2>4, <2>5, <3>1
    <2>6. CASE i # r.head
      <3>1. Between(s.head, s.tail, i) <=> Between(r.head, r.tail, i)
        BY <1>1, <1>2, <1>3, <2>6, HeadMoves
      <3> QED
        BY <1>1, <1>3, <2>1, <2>3, <2>4, <2>6, <3>1
    <2> QED
      BY <2>5, <2>6
  <1> QED
    BY <1>4, <1>5 DEF Handed

(* A sync takes back the slots from the old tail to the new one. *)
LEMMA HandedSync ==
    ASSUME NEW r \in TxRingType, Handed(r), NEW t \in 0..(TxSlots - 1),
           \E u \in Synced(r) : u.tail = t
    PROVE  Transmitted(r, t) \in TxRingType /\ Handed(Transmitted(r, t))
  <1> DEFINE s == [r EXCEPT !.tail = t,
                      !.slot = [i \in DOMAIN @ |-> IF i \in Passed(r, t) THEN "sent" ELSE @[i]]]
  <1>1. r.head \in 0..(TxSlots - 1) /\ r.tail \in 0..(TxSlots - 1) /\ r.size = TxSlots
        /\ r.slot \in [0..(TxSlots - 1) -> {"sent", "new", "again"}]
    BY DEF TxRingType
  <1>2. PICK k \in 0..(TxSlots - 1 - Available(r)) : t = (r.tail + k) % TxSlots
    BY <1>1 DEF Synced, TxRingType
  <1>3. Available(r) = Dist(r.head, r.tail)
    BY <1>1, Distance DEF Available
  <1>4. /\ k \in 0..(TxSlots - 1)
        /\ k <= TxSlots - 1 - Dist(r.head, r.tail)
        /\ t = IF r.tail + k < TxSlots THEN r.tail + k ELSE r.tail + k - TxSlots
    <2>1. /\ k \in 0..(TxSlots - 1)
          /\ k <= TxSlots - 1 - Dist(r.head, r.tail)
      BY <1>1, <1>2, <1>3, NetmapTxAssumption DEF Dist
    <2>2. t = IF r.tail + k < TxSlots THEN r.tail + k ELSE r.tail + k - TxSlots
      BY <1>1, <1>2, <2>1, Forward
    <2> QED
      BY <2>1, <2>2
  <1>5. s \in TxRingType
    BY <1>1 DEF TxRingType
  <1>6. /\ s.head = r.head /\ s.tail = t
        /\ s.slot = [i \in 0..(TxSlots - 1) |-> IF i \in Passed(r, t) THEN "sent" ELSE r.slot[i]]
    BY <1>1 DEF TxRingType
  <1>7. ASSUME NEW i \in 0..(TxSlots - 1)
        PROVE  s.slot[i] = "sent" <=> i \in UserOwned(s) \cup {s.tail}
    <2>1. i \in UserOwned(s) <=> Between(r.head, t, i)
      BY <1>5, <1>6, Owned
    <2>2. r.slot[i] = "sent" <=> Between(r.head, r.tail, i) \/ i = r.tail
      BY Owned DEF Handed
    <2>3. i \in Passed(r, t) <=> DistAfter(r.tail, i) < Dist(r.tail, t)
      <3>1. i \in Passed(r, t) <=> (i - r.tail - 1) % TxSlots < (t - r.tail) % TxSlots
        BY <1>1 DEF Passed
      <3>2. (i - r.tail - 1) % TxSlots = DistAfter(r.tail, i) /\ (t - r.tail) % TxSlots = Dist(r.tail, t)
        BY <1>1, Distance
      <3> QED
        BY <3>1, <3>2
    <2>4. Between(r.head, t, i) \/ i = t <=>
             Between(r.head, r.tail, i) \/ i = r.tail \/ i \in Passed(r, t)
      <3> DEFINE h == r.head
                 v == r.tail
      <3>1. h \in 0..(TxSlots - 1) /\ v \in 0..(TxSlots - 1) /\ k \in 0..(TxSlots - 1)
            /\ k <= TxSlots - 1 - Dist(h, v)
            /\ t = IF v + k < TxSlots THEN v + k ELSE v + k - TxSlots
        BY <1>1, <1>4
      <3>2. Between(h, t, i) \/ i = t <=>
               \/ Between(h, v, i) \/ i = v
               \/ DistAfter(v, i) < Dist(v, t)
        <4> HIDE DEF h, v
        <4> QED
          BY <3>1, TailMoves
      <3> QED
        BY <2>3, <3>2
    <2> QED
      BY <1>6, <2>1, <2>2, <2>4
  <1> QED
    BY <1>5, <1>7 DEF Handed, Transmitted
-----------------------------------------------------------------------------
LEMMA TxInvInit == TxInit => TxInv
  <1> SUFFICES ASSUME TxInit
               PROVE  TxInv
    OBVIOUS
  <1>1. NewTxRing \in TxRingType /\ NewTxRing.head = 0 /\ NewTxRing.tail = TxSlots - 1
        /\ \A i \in 0..(TxSlots - 1) : NewTxRing.slot[i] = "sent"
    BY NetmapTxAssumption DEF NewTxRing, TxRingType
  <1>2. Handed(NewTxRing)
    <2> SUFFICES ASSUME NEW i \in 0..(TxSlots - 1)
                 PROVE  i \in UserOwned(NewTxRing) \/ i = NewTxRing.tail
      BY <1>1 DEF Handed
    <2> QED
      BY <1>1, Owned, NetmapTxAssumption DEF Between
  <1>3. TxTypeOK /\ TxCursor
    <2>1. txRings \in [TxRing -> TxRingType]
      BY <1>1, Zenon DEF TxInit
    <2>2. TxTypeOK
      BY <2>1, NetmapTxAssumption DEF TxInit, TxTypeOK
    <2>3. TxCursor
      BY NetmapTxAssumption DEF TxInit, TxCursor
    <2> QED
      BY <2>2, <2>3
  <1>4. SlotsHandedOver
    BY <1>2, NetmapTxAssumption DEF TxInit, SlotsHandedOver, Handed, TxRing, Bound
  <1> QED
    BY <1>3, <1>4 DEF TxInv

(* A sync of the bound rings keeps what is said of the rings. *)
LEMMA TxSyncKeeps ==
    ASSUME TxTypeOK, SlotsHandedOver, NEW t \in Syncs, txRings' = SyncTo(t)
    PROVE  /\ txRings' \in [TxRing -> TxRingType]
           /\ SlotsHandedOver'
           /\ \A r \in TxRing \ Bound : txRings'[r] = txRings[r]
  <1>1. \A r \in TxRing \ Bound : txRings'[r] = txRings[r]
    BY DEF SyncTo
  <1>2. ASSUME NEW r \in TxRing, r \in Bound
        PROVE  txRings'[r] \in TxRingType /\ Handed(txRings'[r])
    <2>1. txRings[r] \in TxRingType /\ Handed(txRings[r])
      BY <1>2 DEF TxTypeOK, SlotsHandedOver, Handed
    <2>2. t[r] \in 0..(TxSlots - 1) /\ \E u \in Synced(txRings[r]) : u.tail = t[r]
      BY <1>2 DEF Syncs
    <2>3. txRings'[r] = Transmitted(txRings[r], t[r])
      BY <1>2 DEF SyncTo
    <2> QED
      BY <2>1, <2>2, <2>3, HandedSync
  <1>3. txRings' \in [TxRing -> TxRingType]
    <2>1. \A r \in TxRing : txRings'[r] \in TxRingType
      BY <1>1, <1>2 DEF TxTypeOK
    <2>2. txRings' = [r \in TxRing |-> txRings'[r]]
      BY DEF SyncTo
    <2> QED
      BY <2>1, <2>2
  <1>4. SlotsHandedOver'
    <2>1. Bound \subseteq TxRing
      BY NetmapTxAssumption DEF Bound, TxRing
    <2> QED
      BY <1>2, <2>1 DEF SlotsHandedOver, Handed
  <1> QED
    BY <1>1, <1>3, <1>4

(* So does a send. *)
LEMMA SendKeeps ==
    ASSUME TxTypeOK, SlotsHandedOver, NEW r \in TxRing, NEW n \in PacketLen, Send(r, n)
    PROVE  /\ txRings' \in [TxRing -> TxRingType]
           /\ SlotsHandedOver'
           /\ \A q \in TxRing : q # r => txRings'[q] = txRings[q]
  <1> DEFINE v == IF n > BufSize THEN "again" ELSE "new"
             s == [Advanced(txRings[r]) EXCEPT !.slot[txRings[r].head] = v]
  <1>1. txRings' = [txRings EXCEPT ![r] = s] /\ ~IsEmpty(txRings[r])
    BY DEF Send, Fill, TxFound
  <1>2. v \in {"new", "again"} /\ txRings[r] \in TxRingType
    BY DEF TxTypeOK
  <1>3. txRings'[r] = s /\ \A q \in TxRing : q # r => txRings'[q] = txRings[q]
    BY <1>1 DEF TxTypeOK
  <1>4. s \in TxRingType
    <2> HIDE DEF v
    <2>1. txRings[r].head \in 0..(TxSlots - 1) /\ NextIdx(txRings[r]) \in 0..(TxSlots - 1)
      BY <1>2, NetmapTxAssumption DEF TxRingType, NextIdx
    <2> QED
      BY <1>2, <2>1 DEF TxRingType, Advanced
  <1>5. r \in Bound => Handed(s)
    <2>1. r \in Bound => Handed(txRings[r])
      BY DEF SlotsHandedOver, Handed
    <2> HIDE DEF v
    <2> QED
      BY <1>1, <1>2, <2>1, HandedSend
  <1> HIDE DEF s
  <1>6. txRings' \in [TxRing -> TxRingType]
    BY <1>1, <1>4 DEF TxTypeOK
  <1>7. SlotsHandedOver'
    <2> SUFFICES ASSUME NEW q \in Bound
                 PROVE  Handed(txRings'[q])
      BY DEF SlotsHandedOver, Handed
    <2>1. q \in TxRing
      BY NetmapTxAssumption DEF Bound, TxRing
    <2>2. CASE q = r
      BY <1>3, <1>5, <2>2
    <2>3. CASE q # r
      BY <1>3, <2>1, <2>3 DEF SlotsHandedOver, Handed
    <2> QED
      BY <2>2, <2>3
  <1> QED
    BY <1>3, <1>6, <1>7

(* The owners of the other rings leave the bound ones and the cursor alone. *)
LEMMA OwnerKeeps ==
    ASSUME TxInv, NEW r \in TxRing, OwnerSends(r) \/ OwnerSyncs(r)
    PROVE  TxInv'
  <1>1. txRings \in [TxRing -> TxRingType] /\ txRings[r] \in TxRingType /\ r \notin Bound
    BY DEF TxInv, TxTypeOK, OwnerSends, OwnerSyncs
  <1>2. PICK s \in TxRingType : txRings' = [txRings EXCEPT ![r] = s]
    <2>1. CASE OwnerSends(r)
      <3> DEFINE s == [Advanced(txRings[r]) EXCEPT !.slot[txRings[r].head] = "new"]
      <3>1. txRings[r].head \in 0..(TxSlots - 1) /\ NextIdx(txRings[r]) \in 0..(TxSlots - 1)
        BY <1>1, NetmapTxAssumption DEF TxRingType, NextIdx
      <3>2. s \in TxRingType
        BY <1>1, <3>1 DEF TxRingType, Advanced
      <3>3. txRings' = [txRings EXCEPT ![r] = s]
        BY <2>1 DEF OwnerSends
      <3> QED
        BY <3>2, <3>3, Zenon
    <2>2. CASE OwnerSyncs(r)
      <3>1. PICK u \in Synced(txRings[r]) : txRings' = [txRings EXCEPT ![r] = Transmitted(txRings[r], u.tail)]
        BY <2>2 DEF OwnerSyncs
      <3>2. PICK k \in 0..(txRings[r].size - 1 - Available(txRings[r])) :
               u = [txRings[r] EXCEPT !.tail = (@ + k) % txRings[r].size]
        BY <3>1 DEF Synced
      <3>3. u.tail = (txRings[r].tail + k) % TxSlots
        BY <1>1, <3>2 DEF TxRingType
      <3>4. PICK t \in 0..(TxSlots - 1) : t = u.tail
        <4>1. txRings[r].tail \in 0..(TxSlots - 1)
          BY <1>1 DEF TxRingType
        <4>2. k \in Nat
          OBVIOUS
        <4>3. (txRings[r].tail + k) % TxSlots \in 0..(TxSlots - 1)
          BY <4>1, <4>2, NetmapTxAssumption
        <4> QED
          BY <3>3, <4>3
      <3>5. Transmitted(txRings[r], t) \in TxRingType
        BY <1>1 DEF Transmitted, TxRingType
      <3> QED
        BY <3>1, <3>4, <3>5
    <2> QED
      BY <2>1, <2>2
  <1>3. txRings' \in [TxRing -> TxRingType] /\ \A q \in Bound : txRings'[q] = txRings[q]
    <2>1. Bound \subseteq TxRing
      BY NetmapTxAssumption DEF Bound, TxRing
    <2> QED
      BY <1>1, <1>2, <2>1
  <1>4. UNCHANGED <<txIdx, synced, txPc>>
    BY DEF OwnerSends, OwnerSyncs
  <1>5. TxTypeOK' /\ TxCursor'
    BY <1>3, <1>4 DEF TxInv, TxTypeOK, TxCursor
  <1>6. SlotsHandedOver'
    BY <1>3 DEF TxInv, SlotsHandedOver
  <1> QED
    BY <1>5, <1>6 DEF TxInv

LEMMA TxInvStep == TxInv /\ [TxNext]_txVars => TxInv'
  <1> SUFFICES ASSUME TxInv, [TxNext]_txVars
               PROVE  TxInv'
    OBVIOUS
  <1> USE NetmapTxAssumption DEF TxInv
  <1>0. FirstTx \in Nat /\ txIdx \in Nat /\ Exhausted \in Nat
        /\ (txIdx >= FirstTx => Exhausted >= FirstTx)
    BY DEF TxTypeOK, Exhausted
  <1>1. CASE FirstSync
    <2>1. txRings' \in [TxRing -> TxRingType] /\ SlotsHandedOver'
      BY <1>1, TxSyncKeeps DEF FirstSync
    <2> QED
      BY <1>1, <2>1 DEF FirstSync, TxTypeOK, TxCursor
  <1>2. ASSUME NEW r \in TxRing, NEW n \in PacketLen, Send(r, n)
        PROVE  TxInv'
    <2>1. txRings' \in [TxRing -> TxRingType] /\ SlotsHandedOver'
      BY <1>2, SendKeeps
    <2>2. r \in Nat /\ r >= txIdx
      BY <1>2 DEF Send, TxFound, Scanned, TxRing, TxTypeOK
    <2> QED
      BY <1>2, <2>1, <2>2 DEF Send, TxTypeOK, TxCursor
  <1>3. CASE SendMiss
    <2>1. txRings' \in [TxRing -> TxRingType] /\ SlotsHandedOver'
      BY <1>3, TxSyncKeeps DEF SendMiss
    <2> QED
      BY <1>3, <2>1 DEF SendMiss, TxTypeOK, TxCursor
  <1>4. CASE SendNone
    BY <1>0, <1>4 DEF SendNone, TxTypeOK, TxCursor, SlotsHandedOver
  <1>5. CASE FlushTx
    <2>1. txRings' \in [TxRing -> TxRingType] /\ SlotsHandedOver'
      BY <1>5, TxSyncKeeps DEF FlushTx
    <2> QED
      BY <1>5, <2>1 DEF FlushTx, TxTypeOK, TxCursor
  <1>6. CASE UNCHANGED txVars
    BY <1>6 DEF txVars, TxTypeOK, TxCursor, SlotsHandedOver
  <1>7. CASE \E r \in TxRing : OwnerSends(r) \/ OwnerSyncs(r)
    BY <1>7, OwnerKeeps
  <1> QED
    BY <1>1, <1>2, <1>3, <1>4, <1>5, <1>6, <1>7 DEF TxNext, Sending

LEMMA TxInvariance == TxSpec => []TxInv
  BY TxInvInit, TxInvStep, PTL DEF TxSpec
-----------------------------------------------------------------------------
(* For any number of rings and slots, send reuses a slot of the port only  *)
(* when the kernel is done with it, and hands over only slots it wrote or  *)
(* whose packet it refused (TransmitterIterMut::next, send_inner, reset).  *)
THEOREM SlotsAreHandedOver == TxSpec => []SlotsHandedOver
  <1>1. TxInv => SlotsHandedOver
    BY DEF TxInv
  <1> QED
    BY <1>1, TxInvariance, PTL

(* A send takes a slot of a ring the port is not bound to only if an       *)
(* earlier NoMemory left the cursor past the last bound ring, whatever the *)
(* NIC's rings are and their owners do (TransmitterIterMut::next compares  *)
(* after it looks).                                                        *)
THEOREM StraysOnlyAfterNone == TxSpec => StrayOnlyAfterNone
  <1>1. TxInv /\ [TxNext]_txVars =>
          [\A r \in TxRing \ Bound, n \in PacketLen :
              Send(r, n) => r > LastTx /\ txIdx > LastTx /\ txPc = "idle"]_txVars
    <2> SUFFICES ASSUME TxInv, NEW r \in TxRing \ Bound, NEW n \in PacketLen, Send(r, n)
                 PROVE  r > LastTx /\ txIdx > LastTx /\ txPc = "idle"
      OBVIOUS
    <2> USE DEF TxInv
    <2>1. r \in {txIdx} \cup (txIdx..LastTx) /\ r \notin FirstTx..LastTx
      BY DEF Send, TxFound, Scanned, Bound
    <2>2. txIdx \in Nat /\ txIdx >= FirstTx /\ r = txIdx /\ r > LastTx
      BY <2>1, NetmapTxAssumption DEF TxCursor, TxTypeOK
    <2>3. txPc = "idle"
      BY <2>2, NetmapTxAssumption DEF TxCursor
    <2> QED
      BY <2>2, <2>3
  <1> QED
    BY <1>1, TxInvariance, PTL DEF TxSpec, StrayOnlyAfterNone
-----------------------------------------------------------------------------
(* The receive side.  A ring and the state by their types. *)
RxRingType ==
    [slot : [0..(Slots - 1) -> Buf], size : {Slots},
     head : 0..(Slots - 1), tail : 0..(Slots - 1)]

RxTypes ==
    /\ rings \in [Ring -> RxRingType]
    /\ chan \in Chan(Buf) /\ Whole(chan)
    /\ tokens \in [Buf -> 0..MaxTokens]
    /\ pc \in {"idle", "again"} /\ noRing \in BOOLEAN
    /\ IF noRing THEN ringIdx = LastRx + 1 ELSE ringIdx \in Ring

(* The buffers in the channel and those with the client are extra ones, as *)
(* many as the channel was made for: its ring is never full.               *)
RxRoom == Len(Contents(chan)) + Cardinality(Positive(tokens, Buf)) <= Cardinality(Buf) - InRings

RxInv == RxTypes /\ OneOwner /\ RxRoom

(* The slots that hold x, in the rings rs. *)
At(rs, x) == {p \in Ring \X (0..(Slots - 1)) : rs[p[1]].slot[p[2]] = x}
One(x, y) == IF x = y THEN 1 ELSE 0

LEMMA RxConstants ==
    /\ Slots \in Nat /\ Slots >= 2 /\ FirstRx \in Nat /\ LastRx \in Nat /\ FirstRx <= LastRx
    /\ IsFiniteSet(Ring) /\ Cardinality(Ring) = LastRx - FirstRx + 1 /\ InRings \in Nat
    /\ InRings = Slots * (LastRx - FirstRx + 1)
    /\ IsFiniteSet(Buf) /\ Cardinality(Buf) \in Nat /\ InRings <= Cardinality(Buf)
    /\ SpscLen \in Nat /\ Cardinality(Buf) - InRings <= SpscLen
    /\ MaxTokens \in Nat /\ Batch \in Nat /\ Cache \in Nat /\ Batch <= Cache
  <1>1. /\ Slots \in Nat /\ Slots >= 2 /\ FirstRx \in Nat /\ LastRx \in Nat /\ FirstRx <= LastRx
        /\ MaxTokens \in Nat /\ Batch \in Nat /\ Cache \in Nat /\ Batch <= Cache /\ SpscLen \in Nat
    BY NetmapRxAssumption, ChannelAssumption
  <1>2. IsFiniteSet(Ring) /\ Cardinality(Ring) = LastRx - FirstRx + 1
    BY <1>1, FS_Interval DEF Ring
  <1>3. IsFiniteSet(Buf) /\ Cardinality(Buf) \in Nat
    BY NetmapRxAssumption, FS_CardinalityType
  <1>4. InRings = Slots * Cardinality(Ring) /\ InRings \in Nat
    <2>1. PICK n \in Nat : n = Cardinality(Ring)
      BY <1>1, <1>2
    <2>2. Slots * n \in Nat
      BY <1>1
    <2> QED
      BY <2>1, <2>2 DEF InRings
  <1>5. InRings <= Cardinality(Buf) /\ Cardinality(Buf) - InRings <= SpscLen
    BY <1>4, NetmapRxAssumption
  <1> QED
    BY <1>1, <1>2, <1>3, <1>4, <1>5

LEMMA RxNumbers == Slots \in Nat /\ Slots >= 2 /\ MaxTokens \in Nat
  BY RxConstants

LEMMA SlotsFinite ==
    ASSUME NEW rs, NEW x
    PROVE  IsFiniteSet(At(rs, x)) /\ Cardinality(At(rs, x)) \in Nat
  <1>1. IsFiniteSet(Ring) /\ IsFiniteSet(0..(Slots - 1))
    BY RxConstants, FS_Interval
  <1>2. IsFiniteSet(Ring \X (0..(Slots - 1)))
    BY <1>1, FS_Product
  <1>3. At(rs, x) \subseteq Ring \X (0..(Slots - 1))
    BY DEF At
  <1> QED
    BY <1>2, <1>3, FS_Subset, FS_CardinalityType

(* Putting buffer e into one slot changes how many slots hold a buffer:    *)
(* one less for the one that was there, one more for e.                    *)
Swapped(rs, us, r, h, b, e) ==
    /\ rs \in [Ring -> RxRingType] /\ r \in Ring /\ h \in 0..(Slots - 1)
    /\ b = rs[r].slot[h]
    /\ \E s \in RxRingType : s.slot = [rs[r].slot EXCEPT ![h] = e] /\ us = [rs EXCEPT ![r] = s]

LEMMA SwapSlot ==
    ASSUME NEW rs, NEW us, NEW r, NEW h, NEW b, NEW e, Swapped(rs, us, r, h, b, e), NEW x
    PROVE  Cardinality(At(us, x)) + One(x, b) = Cardinality(At(rs, x)) + One(x, e)
  <1>1. /\ rs \in [Ring -> RxRingType] /\ r \in Ring /\ h \in 0..(Slots - 1)
        /\ b = rs[r].slot[h]
    BY DEF Swapped
  <1>2. PICK s \in RxRingType : s.slot = [rs[r].slot EXCEPT ![h] = e] /\ us = [rs EXCEPT ![r] = s]
    BY DEF Swapped
  <1> DEFINE p == <<r, h>>
             P == Ring \X (0..(Slots - 1))
             K == At(rs, x) \ {p}
  <1>3. p \in P /\ p[1] = r /\ p[2] = h
    BY <1>1
  <1>4. ASSUME NEW y \in P, y # p PROVE us[y[1]].slot[y[2]] = rs[y[1]].slot[y[2]]
    <2>1. PICK q \in Ring, i \in 0..(Slots - 1) : y = <<q, i>> /\ y[1] = q /\ y[2] = i
      OBVIOUS
    <2>2. q # r \/ i # h
      BY <1>4, <2>1
    <2>3. CASE q # r
      BY <1>1, <1>2, <2>1, <2>3
    <2>4. CASE q = r /\ i # h
      <3>1. us[r] = s /\ rs[r].slot \in [0..(Slots - 1) -> Buf]
        BY <1>1, <1>2 DEF RxRingType
      <3>2. s.slot[i] = rs[r].slot[i]
        BY <1>1, <1>2, <2>1, <2>4, <3>1
      <3> QED
        BY <2>1, <2>4, <3>1, <3>2
    <2> QED
      BY <2>2, <2>3, <2>4
  <1>5. us[p[1]].slot[p[2]] = e
    <2>1. us[r] = s /\ rs[r].slot \in [0..(Slots - 1) -> Buf]
      BY <1>1, <1>2 DEF RxRingType
    <2>2. s.slot[h] = e
      BY <1>1, <1>2, <2>1
    <2> QED
      BY <1>3, <2>1, <2>2
  <1>6. At(us, x) = IF x = e THEN K \cup {p} ELSE K
    <2>1. ASSUME NEW y \in P PROVE y \in At(us, x) <=> IF y = p THEN x = e ELSE y \in At(rs, x)
      BY <1>4, <1>5, <2>1 DEF At
    <2>2. At(us, x) \subseteq P /\ At(rs, x) \subseteq P
      BY DEF At
    <2> HIDE DEF p, P
    <2> QED
      BY <1>3, <2>1, <2>2
  <1>7. At(rs, x) = IF x = b THEN K \cup {p} ELSE K
    <2>1. p \in At(rs, x) <=> x = b
      BY <1>1, <1>3 DEF At
    <2> HIDE DEF p
    <2> QED
      BY <2>1
  <1>8. IsFiniteSet(K) /\ p \notin K
    <2>1. IsFiniteSet(At(rs, x))
      BY SlotsFinite
    <2> QED
      BY <2>1, FS_Subset
  <1> HIDE DEF K, p
  <1>9. Cardinality(K) \in Nat /\ Cardinality(K \cup {p}) = Cardinality(K) + 1
    BY <1>8, FS_AddElement, FS_CardinalityType
  <1>10. Cardinality(At(us, x)) = Cardinality(K) + One(x, e)
    BY <1>6, <1>9 DEF One
  <1>11. Cardinality(At(rs, x)) = Cardinality(K) + One(x, b)
    BY <1>7, <1>9 DEF One
  <1>12. One(x, e) \in Nat /\ One(x, b) \in Nat
    BY DEF One
  <1> QED
    BY <1>9, <1>10, <1>11, <1>12

(* Occurs of NetmapRx is Count. *)
LEMMA CopiesIs ==
    ASSUME NEW x
    PROVE  Copies(x) = Count(x, Contents(chan)) + Cardinality(At(rings, x)) + tokens[x]
  BY DEF Copies, Occurs, Count, InSlots, At

LEMMA CountRange ==
    ASSUME NEW S, NEW s \in Seq(S), NEW x
    PROVE  Count(x, s) \in Nat /\ (Count(x, s) # 0 <=> x \in Range(s))
  <1>1. PICK I : I = {i \in DOMAIN s : s[i] = x}
    OBVIOUS
  <1>2. Count(x, s) \in Nat /\ IsFiniteSet(I) /\ Count(x, s) = Cardinality(I)
    BY <1>1, CountType DEF Count
  <1>3. Cardinality(I) = 0 <=> I = {}
    BY <1>2, FS_EmptySet
  <1>4. x \in Range(s) <=> I # {}
    BY <1>1 DEF Range
  <1> QED
    BY <1>2, <1>3, <1>4

(* The slots of the rings, in the order Sock::create fills them, are the   *)
(* numbers 1..InRings.                                                     *)
Place(m, k, i) == k * m + i + 1

LEMMA PlaceIn ==
    ASSUME NEW m \in Nat, NEW n \in Nat, NEW k \in Nat, k < n, NEW i \in 0..(m - 1)
    PROVE  Place(m, k, i) \in 1..(m * n)
  <1>1. k * m \in Nat /\ m * n \in Nat
    OBVIOUS
  <1>2. PICK d \in Nat : n = k + 1 + d
    <2>1. n - k - 1 \in Nat /\ n = k + 1 + (n - k - 1)
      OBVIOUS
    <2> QED
      BY <2>1
  <1>3. m * n = k * m + m + m * d
    BY <1>2
  <1>4. m * d \in Nat
    BY <1>2
  <1> QED
    BY <1>1, <1>3, <1>4 DEF Place

LEMMA PlaceOnce ==
    ASSUME NEW m \in Nat, NEW k \in Nat, NEW l \in Nat,
           NEW i \in 0..(m - 1), NEW j \in 0..(m - 1), Place(m, k, i) = Place(m, l, j)
    PROVE  k = l /\ i = j
  <1>1. ASSUME NEW a \in Nat, NEW b \in Nat, NEW u \in 0..(m - 1), NEW v \in 0..(m - 1),
               a < b, a * m + u = b * m + v
        PROVE  FALSE
    <2>1. PICK d \in Nat : b = a + 1 + d
      <3>1. b - a - 1 \in Nat /\ b = a + 1 + (b - a - 1)
        BY <1>1
      <3> QED
        BY <3>1
    <2>2. b * m = a * m + m + d * m /\ d * m \in Nat /\ a * m \in Nat
      BY <2>1
    <2> QED
      BY <1>1, <2>2
  <1>2. ~(k < l) /\ ~(l < k)
    <2>1. PICK a, c : a = k * m /\ c = l * m /\ a \in Nat /\ c \in Nat
      OBVIOUS
    <2>2. a + i = c + j
      BY <2>1 DEF Place
    <2> QED
      BY <1>1, <2>1, <2>2
  <1>3. k = l
    BY <1>2
  <1>4. PICK a \in Nat : a = k * m
    OBVIOUS
  <1>5. a + i + 1 = a + j + 1
    BY <1>3, <1>4 DEF Place
  <1> QED
    BY <1>3, <1>4, <1>5

LEMMA PlaceOf ==
    ASSUME NEW m \in Nat \ {0}, NEW n \in Nat, NEW p \in 1..(m * n)
    PROVE  \E k \in Nat, i \in 0..(m - 1) : k < n /\ p = Place(m, k, i)
  <1> DEFINE k == (p - 1) \div m
             i == (p - 1) % m
  <1>1. p - 1 \in Nat /\ m * n \in Nat
    OBVIOUS
  <1>2. k \in Nat /\ i \in 0..(m - 1) /\ p - 1 = m * k + i
    BY <1>1
  <1> HIDE DEF k, i
  <1>3. k < n
    <2> SUFFICES ASSUME ~(k < n) PROVE FALSE
      OBVIOUS
    <2>1. PICK d \in Nat : k = n + d
      <3>1. k - n \in Nat /\ k = n + (k - n)
        BY <1>2
      <3> QED
        BY <3>1
    <2>2. m * k = m * n + m * d /\ m * d \in Nat
      BY <2>1
    <2> QED
      BY <1>1, <1>2, <2>2
  <1>4. m * k = k * m
    BY <1>2
  <1>5. p = Place(m, k, i)
    BY <1>2, <1>4 DEF Place
  <1> QED
    BY <1>2, <1>3, <1>5, Zenon

(* Every buffer is in one slot of one ring, or one of the extra buffers. *)
LEMMA Dealt ==
    ASSUME NEW rs, \A r \in Ring : rs[r].slot = NewRing(r).slot, NEW b \in Buf
    PROVE  /\ ExtraBufs \in Seq(Buf) /\ Len(ExtraBufs) = Cardinality(Buf) - InRings
           /\ Count(b, ExtraBufs) \in Nat /\ Cardinality(At(rs, b)) \in Nat
           /\ Count(b, ExtraBufs) + Cardinality(At(rs, b)) = 1
  <1>1. PICK o, l, m, n, k :
          /\ o = BufOrder /\ l = Cardinality(Buf) /\ m = InRings /\ n = LastRx - FirstRx + 1
          /\ k = Slots /\ o \in Seq(Buf) /\ Len(o) = l /\ l \in Nat /\ IsInjective(o)
          /\ Count(b, o) = 1 /\ m \in Nat /\ m <= l /\ n \in Nat /\ k \in Nat \ {0}
    <2>1. /\ BufOrder \in Seq(Buf) /\ Len(BufOrder) = Cardinality(Buf) /\ IsInjective(BufOrder)
          /\ Count(b, BufOrder) = 1
      BY RxConstants, SetInOrder DEF BufOrder
    <2>2. LastRx - FirstRx + 1 \in Nat
      BY RxConstants
    <2> QED
      BY <2>1, <2>2, RxConstants
  <1>2. l \in Nat /\ m \in Nat /\ m <= l
    BY <1>1
  <1>3. o \in Seq(Buf) /\ Len(o) = l
    BY <1>1
  <1>4. /\ n \in Nat /\ FirstRx \in Nat /\ LastRx \in Nat /\ FirstRx <= LastRx
        /\ n = LastRx - FirstRx + 1
    BY <1>1, RxConstants
  <1>5. PICK p \in 1..l : o[p] = b
    <2>1. b \in Range(o)
      BY <1>1, CountRange
    <2> QED
      BY <1>1, <2>1 DEF Range
  <1>6. \A q \in 1..l : o[q] = b => q = p
    BY <1>1, <1>5 DEF IsInjective
  <1>7. PICK x : x = ExtraBufs /\ x = SubSeq(o, m + 1, l)
    BY <1>1 DEF ExtraBufs
  <1>8. x \in Seq(Buf) /\ Len(x) = l - m /\ \A i \in 1..(l - m) : x[i] = o[m + i]
    <2>1. m + 1 \in Int /\ l \in Int /\ \A i \in (m + 1)..l : o[i] \in Buf
      BY <1>2, <1>3
    <2>2. /\ x \in Seq(Buf) /\ Len(x) = IF m + 1 <= l THEN l - (m + 1) + 1 ELSE 0
          /\ \A i \in 1..(l - (m + 1) + 1) : x[i] = o[m + 1 + i - 1]
      BY <1>7, <2>1, SubSeqProperties
    <2>3. Len(x) = l - m
      BY <1>2, <2>2
    <2>4. ASSUME NEW i \in 1..(l - m) PROVE x[i] = o[m + i]
      <3>1. i \in 1..(l - (m + 1) + 1) /\ m + 1 + i - 1 = m + i
        BY <1>2
      <3> QED
        BY <2>2, <3>1
    <2> QED
      BY <2>2, <2>3, <2>4
  <1>9. Count(b, x) \in Nat
    BY <1>8, CountType
  <1>10. Cardinality(At(rs, b)) \in Nat
    BY SlotsFinite
  <1>11. ASSUME NEW y \in Ring \X (0..(Slots - 1))
        PROVE  /\ y = <<y[1], y[2]>> /\ y[1] \in Ring /\ y[2] \in 0..(k - 1)
               /\ y[1] - FirstRx \in Nat /\ y[1] - FirstRx < n
               /\ Place(k, y[1] - FirstRx, y[2]) \in 1..l
               /\ Place(k, y[1] - FirstRx, y[2]) <= m
               /\ rs[y[1]].slot[y[2]] = o[Place(k, y[1] - FirstRx, y[2])]
    <2>1. PICK r \in Ring, i \in 0..(Slots - 1) : y = <<r, i>> /\ y[1] = r /\ y[2] = i
      OBVIOUS
    <2>2. i \in 0..(k - 1) /\ r \in FirstRx..LastRx
      BY <1>1, <2>1 DEF Ring
    <2>3. r - FirstRx \in Nat /\ r - FirstRx < n
      BY <1>4, <2>2
    <2>4. Place(k, r - FirstRx, i) \in 1..m
      <3>1. m = k * n /\ k \in Nat /\ n \in Nat
        BY <1>1, RxConstants, Zenon
      <3>2. Place(k, r - FirstRx, i) \in 1..(k * n)
        BY ONLY <2>2, <2>3, <3>1, PlaceIn
      <3> QED
        BY <3>1, <3>2, Zenon
    <2>5. rs[r].slot[i] = o[Place(k, r - FirstRx, i)]
      <3>1. NewRing(r).slot = [j \in 0..(Slots - 1) |-> BufOrder[(r - FirstRx) * Slots + j + 1]]
        BY DEF NewRing
      <3>2. rs[r].slot = NewRing(r).slot
        OBVIOUS
      <3> QED
        BY <1>1, <2>1, <3>1, <3>2 DEF Place
    <2>6. Place(k, r - FirstRx, i) \in 1..l /\ Place(k, r - FirstRx, i) <= m
      BY <1>1, <2>4
    <2> QED
      BY <2>1, <2>2, <2>3, <2>5, <2>6
  <1>12. ASSUME p > m PROVE Count(b, x) + Cardinality(At(rs, b)) = 1
    <2>1. At(rs, b) = {}
      <3> SUFFICES ASSUME NEW y \in Ring \X (0..(Slots - 1)), rs[y[1]].slot[y[2]] = b
                   PROVE  FALSE
        BY DEF At
      <3>1. PICK q : q = Place(k, y[1] - FirstRx, y[2])
        OBVIOUS
      <3>2. q \in 1..l /\ q <= m /\ o[q] = b
        BY <1>11, <3>1
      <3> QED
        BY <1>2, <1>5, <1>6, <1>12, <3>2
    <2>2. {i \in DOMAIN x : x[i] = b} = {p - m}
      <3>1. DOMAIN x = 1..(l - m) /\ p - m \in 1..(l - m)
        BY <1>2, <1>5, <1>8, <1>12
      <3>2. x[p - m] = b
        <4>1. m + (p - m) = p
          BY <1>2, <1>5
        <4> QED
          BY <1>5, <1>8, <3>1, <4>1
      <3>3. ASSUME NEW i \in 1..(l - m), x[i] = b PROVE i = p - m
        <4>1. o[m + i] = b /\ m + i \in 1..l
          BY <1>2, <1>8, <3>3
        <4>2. m + i = p
          BY <1>6, <4>1
        <4> QED
          BY <1>2, <1>5, <4>2
      <3> QED
        BY <3>1, <3>2, <3>3
    <2>3. Count(b, x) = 1
      BY <2>2, FS_Singleton DEF Count
    <2>4. Cardinality(At(rs, b)) = 0
      BY <2>1, FS_EmptySet
    <2> QED
      BY <2>3, <2>4
  <1>13. ASSUME ~(p > m) PROVE Count(b, x) + Cardinality(At(rs, b)) = 1
    <2>1. PICK d \in Nat, i \in 0..(k - 1) : d < n /\ p = Place(k, d, i)
      <3>1. p \in 1..m /\ k \in Nat \ {0} /\ n \in Nat
        BY <1>1, <1>2, <1>5, <1>13
      <3>2. m = k * n
        BY <1>1, RxConstants, Zenon
      <3>3. p \in 1..(k * n)
        BY <3>1, <3>2, Zenon
      <3> QED
        BY ONLY <3>1, <3>3, PlaceOf
    <2>2. PICK w : w = <<d + FirstRx, i>> /\ w \in Ring \X (0..(Slots - 1)) /\ w[1] - FirstRx = d
                   /\ w[2] = i
      <3>1. d + FirstRx \in FirstRx..LastRx /\ (d + FirstRx) - FirstRx = d
        BY <1>4, <2>1
      <3>2. i \in 0..(Slots - 1)
        BY <1>1, <2>1
      <3>3. PICK u \in Ring : u = d + FirstRx /\ u - FirstRx = d
        BY <3>1 DEF Ring
      <3>4. <<u, i>> \in Ring \X (0..(Slots - 1)) /\ <<u, i>>[1] = u /\ <<u, i>>[2] = i
        BY <3>2
      <3> QED
        BY <3>3, <3>4, Zenon
    <2>3. At(rs, b) = {w}
      <3>1. w \in At(rs, b)
        BY <1>5, <1>11, <2>1, <2>2 DEF At
      <3>2. ASSUME NEW y \in Ring \X (0..(Slots - 1)), rs[y[1]].slot[y[2]] = b PROVE y = w
        <4>1. PICK a, j : a = y[1] - FirstRx /\ j = y[2] /\ a \in Nat /\ j \in 0..(k - 1)
          BY <1>11
        <4>2. Place(k, a, j) \in 1..l /\ o[Place(k, a, j)] = b
          BY <1>11, <3>2, <4>1
        <4>3. Place(k, a, j) = p
          BY <1>6, <4>2
        <4>4. a = d /\ j = i
          <5>1. k \in Nat /\ Place(k, a, j) = Place(k, d, i)
            BY <1>1, <2>1, <4>3
          <5> QED
            BY <2>1, <4>1, <5>1, PlaceOnce
        <4>5. PICK u, v : /\ u = y[1] /\ v = y[2] /\ y = <<u, v>> /\ u \in Ring /\ v = i
                          /\ u - FirstRx = d
          BY <1>11, <4>1, <4>4, Zenon
        <4>6. u = d + FirstRx
          BY <1>4, <2>1, <4>5 DEF Ring
        <4> QED
          BY <2>2, <4>5, <4>6, Zenon
      <3> QED
        BY <3>1, <3>2 DEF At
    <2>4. Cardinality(At(rs, b)) = 1
      BY <2>3, FS_Singleton
    <2>5. {j \in DOMAIN x : x[j] = b} = {}
      <3> SUFFICES ASSUME NEW j \in 1..(l - m), x[j] = b PROVE FALSE
        BY <1>2, <1>8
      <3>1. o[m + j] = b /\ m + j \in 1..l
        BY <1>2, <1>8
      <3>2. m + j = p
        BY <1>6, <3>1
      <3> QED
        BY <1>2, <1>5, <1>13, <3>2
    <2>6. Count(b, x) = 0
      BY <2>5, FS_EmptySet DEF Count
    <2> QED
      BY <2>4, <2>6
  <1>14. Count(b, x) + Cardinality(At(rs, b)) = 1
    BY <1>12, <1>13
  <1>15. ExtraBufs = x /\ Cardinality(Buf) - InRings = l - m
    BY <1>1, <1>7
  <1> QED
    BY <1>8, <1>9, <1>10, <1>14, <1>15, Zenon

(* The channel Sock::create leaves behind holds extra buffers, each once,  *)
(* and not more than there are; fewer than a batch are missing.            *)
LEMMA ExtrasPushed ==
    ASSUME NEW c, c = Flush(PushAll(EmptyChannel, ExtraBufs))
    PROVE  /\ c \in Chan(Buf) /\ Whole(c) /\ Len(Contents(c)) <= Cardinality(Buf) - InRings
           /\ \A b \in Buf : Count(b, Contents(c)) <= Count(b, ExtraBufs)
           /\ \A b \in Buf : Count(b, Contents(c)) \in Nat
           /\ ExtraBufs \in Seq(Buf)
           /\ \E u \in Seq(Buf) : /\ Len(u) < Batch
                                  /\ \A x : Count(x, Contents(c)) + Count(x, u)
                                               = Count(x, ExtraBufs)
  <1>1. ExtraBufs \in Seq(Buf) /\ Len(ExtraBufs) = Cardinality(Buf) - InRings
    <2>1. PICK o, l, m : /\ o = BufOrder /\ l = Cardinality(Buf) /\ m = InRings
                         /\ o \in Seq(Buf) /\ Len(o) = l /\ l \in Nat /\ m \in Nat /\ m <= l
      BY RxConstants, SetInOrder DEF BufOrder
    <2>2. ExtraBufs = SubSeq(o, m + 1, l)
      BY <2>1 DEF ExtraBufs
    <2>3. m + 1 \in Int /\ l \in Int /\ \A i \in (m + 1)..l : o[i] \in Buf
      BY <2>1
    <2>4. /\ ExtraBufs \in Seq(Buf)
          /\ Len(ExtraBufs) = IF m + 1 <= l THEN l - (m + 1) + 1 ELSE 0
      BY <2>2, <2>3, SubSeqProperties
    <2> QED
      BY <2>1, <2>4
  <1>2. /\ EmptyChannel \in Chan(Buf) /\ Whole(EmptyChannel) /\ Len(Contents(EmptyChannel)) = 0
        /\ \A x : Count(x, Contents(EmptyChannel)) = 0
    <2>1. PICK e : e = EmptyChannel /\ e.batch = <<>> /\ e.ring = <<>> /\ e.cached = <<>>
      BY DEF EmptyChannel
    <2>2. EmptyChannel \in Chan(Buf)
      BY DEF Chan, EmptyChannel
    <2>3. Whole(e)
      BY <2>1, RxConstants DEF Whole
    <2>4. Contents(e) = <<>>
      BY <2>1, FlattenEmpty DEF Contents
    <2> QED
      BY <2>1, <2>2, <2>3, <2>4, CountEmpty
  <1>3. PICK d : d = PushAll(EmptyChannel, ExtraBufs)
    OBVIOUS
  <1>4. PICK n \in Nat : n = Len(ExtraBufs) /\ n <= SpscLen
    BY <1>1, RxConstants
  <1>5. /\ d \in Chan(Buf) /\ Whole(d) /\ Len(Contents(d)) = n
        /\ \A x : Count(x, Contents(d)) = Count(x, ExtraBufs)
    <2>1. Len(Contents(EmptyChannel)) + Len(ExtraBufs) <= SpscLen
      BY <1>2, <1>4
    <2>2. /\ d \in Chan(Buf) /\ Whole(d)
          /\ Len(Contents(d)) = Len(Contents(EmptyChannel)) + Len(ExtraBufs)
          /\ \A x : Count(x, Contents(d)) = Count(x, Contents(EmptyChannel)) + Count(x, ExtraBufs)
      BY <1>1, <1>2, <1>3, <2>1, PushAllAdds
    <2>3. \A x : Count(x, ExtraBufs) \in Nat
      BY <1>1, CountType
    <2> QED
      BY <1>2, <1>4, <2>2, <2>3
  <1>6. c = Flush(d)
    BY <1>3
  <1>7. c \in Chan(Buf) /\ Whole(c)
    BY <1>5, <1>6, FlushType
  <1>8. PICK u \in Seq(Buf) : /\ Len(Contents(c)) <= Len(Contents(d)) /\ Len(u) < Batch
                              /\ \A x : Count(x, Contents(c)) + Count(x, u) = Count(x, Contents(d))
    BY <1>4, <1>5, <1>6, FlushLoses
  <1>9. Contents(c) \in Seq(Buf)
    BY <1>7, ContentsSums
  <1>10. ASSUME NEW b \in Buf
         PROVE  Count(b, Contents(c)) \in Nat /\ Count(b, Contents(c)) <= Count(b, ExtraBufs)
    <2>1. Count(b, Contents(c)) \in Nat /\ Count(b, u) \in Nat
      BY <1>8, <1>9, CountType
    <2>2. Count(b, Contents(c)) + Count(b, u) = Count(b, ExtraBufs)
      BY <1>5, <1>8
    <2> QED
      BY <2>1, <2>2
  <1>11. \A x : Count(x, Contents(c)) + Count(x, u) = Count(x, ExtraBufs)
    BY <1>5, <1>8
  <1> QED
    BY <1>1, <1>4, <1>5, <1>7, <1>8, <1>10, <1>11

LEMMA RxInvInit == Init => RxInv
  <1> SUFFICES ASSUME Init
               PROVE  RxInv
    OBVIOUS
  <1>1. /\ ringIdx = FirstRx /\ noRing = FALSE /\ pc = "idle"
        /\ chan = Flush(PushAll(EmptyChannel, ExtraBufs)) /\ tokens = [b \in Buf |-> 0]
    BY DEF Init
  <1>2. PICK t \in [Ring -> 0..(Slots - 1)] :
          rings = [r \in Ring |-> [NewRing(r) EXCEPT !.tail = t[r]]]
    BY DEF Init
  <1>3. ASSUME NEW r \in Ring
        PROVE  rings[r] \in RxRingType /\ rings[r].slot = NewRing(r).slot
    <2>1. rings[r] = [NewRing(r) EXCEPT !.tail = t[r]]
      BY <1>2
    <2>2. rings[r].slot = NewRing(r).slot /\ rings[r].head = 0 /\ rings[r].tail = t[r]
          /\ rings[r].size = Slots
          /\ rings[r] = [slot |-> NewRing(r).slot, size |-> Slots, head |-> 0, tail |-> t[r]]
      BY <2>1 DEF NewRing
    <2>3. NewRing(r).slot \in [0..(Slots - 1) -> Buf]
      <3>1. NewRing(r).slot = [i \in 0..(Slots - 1) |-> BufOrder[(r - FirstRx) * Slots + i + 1]]
        BY DEF NewRing
      <3>2. ASSUME NEW i \in 0..(Slots - 1)
            PROVE  BufOrder[(r - FirstRx) * Slots + i + 1] \in Buf
        <4>1. BufOrder \in Seq(Buf) /\ Len(BufOrder) = Cardinality(Buf)
          BY RxConstants, SetInOrder DEF BufOrder
        <4>2. PICK n \in Nat : n = LastRx - FirstRx + 1 /\ r - FirstRx \in Nat /\ r - FirstRx < n
          BY RxConstants DEF Ring
        <4>3. Place(Slots, r - FirstRx, i) \in 1..(Slots * n)
          BY <4>2, RxNumbers, PlaceIn
        <4>4. Slots * n <= Cardinality(Buf) /\ Slots * n \in Nat /\ Cardinality(Buf) \in Nat
          BY <4>2, RxConstants
        <4>5. Place(Slots, r - FirstRx, i) \in 1..Len(BufOrder)
          <5>1. PICK p, w, l : /\ p = Place(Slots, r - FirstRx, i) /\ w = Slots * n
                               /\ l = Len(BufOrder) /\ p \in 1..w /\ w <= l /\ w \in Nat /\ l \in Nat
            BY <4>1, <4>3, <4>4, Zenon
          <5> QED
            BY <5>1
        <4> QED
          BY <4>1, <4>5 DEF Place
      <3> QED
        BY <3>1, <3>2
    <2>4. 0 \in 0..(Slots - 1) /\ t[r] \in 0..(Slots - 1)
      BY RxConstants
    <2> QED
      BY <2>2, <2>3, <2>4 DEF RxRingType
  <1>4. rings \in [Ring -> RxRingType]
    <2>1. rings = [r \in Ring |-> rings[r]]
      BY <1>2
    <2> QED
      BY <1>3, <2>1
  <1>5. /\ chan \in Chan(Buf) /\ Whole(chan) /\ Len(Contents(chan)) <= Cardinality(Buf) - InRings
        /\ \A b \in Buf : Count(b, Contents(chan)) <= Count(b, ExtraBufs)
        /\ \A b \in Buf : Count(b, Contents(chan)) \in Nat
    BY <1>1, ExtrasPushed
  <1>6. RxTypes
    <2>1. tokens \in [Buf -> 0..MaxTokens] /\ FirstRx \in Ring
      BY <1>1, RxConstants DEF Ring
    <2> QED
      BY <1>1, <1>4, <1>5, <2>1 DEF RxTypes
  <1>7. OneOwner
    <2> SUFFICES ASSUME NEW b \in Buf
                 PROVE  Copies(b) = IF b \in Discarded THEN 0 ELSE 1
      BY DEF OneOwner
    <2>1. PICK n, k, m : /\ n = Count(b, ExtraBufs) /\ k = Cardinality(At(rings, b))
                         /\ m = Count(b, Contents(chan))
      OBVIOUS
    <2>2. n \in Nat /\ k \in Nat /\ m \in Nat /\ n + k = 1 /\ m <= n /\ ExtraBufs \in Seq(Buf)
      BY <1>3, <1>5, <2>1, Dealt
    <2>3. Copies(b) = m + k
      <3>1. tokens[b] = 0
        BY <1>1
      <3>2. Copies(b) = m + k + tokens[b]
        BY <2>1, CopiesIs
      <3> QED
        BY <2>2, <3>1, <3>2
    <2>4. b \in Range(ExtraBufs) <=> n # 0
      BY <2>1, <2>2, CountRange
    <2>5. b \in Range(Contents(chan)) <=> m # 0
      <3>1. Contents(chan) \in Seq(Buf)
        BY <1>5, ContentsSums
      <3> QED
        BY <2>1, <3>1, CountRange
    <2>6. b \in Discarded <=> n # 0 /\ m = 0
      BY <1>1, <2>4, <2>5 DEF Discarded
    <2> QED
      BY <2>2, <2>3, <2>6
  <1>8. RxRoom
    <2>1. Positive(tokens, Buf) = {}
      BY <1>1 DEF Positive
    <2>2. Cardinality(Positive(tokens, Buf)) = 0
      BY <2>1, FS_EmptySet
    <2>3. Len(Contents(chan)) \in Nat
      BY <1>5, RingLength
    <2> QED
      BY <1>5, <2>2, <2>3 DEF RxRoom
  <1> QED
    BY <1>6, <1>7, <1>8 DEF RxInv
-----------------------------------------------------------------------------
(* A step that keeps the number of copies of every buffer keeps OneOwner. *)
RxSame == \A b \in Buf : Copies(b)' = Copies(b)

LEMMA RxOwnerStep ==
    ASSUME OneOwner, RxSame
    PROVE  OneOwner'
  BY DEF OneOwner, RxSame, Discarded, ExtraBufs, BufOrder, InRings

(* The numbers behind Copies are natural numbers, and not more than one    *)
(* each.                                                                   *)
LEMMA RxParts ==
    ASSUME RxTypes, NEW b \in Buf
    PROVE  /\ Count(b, Contents(chan)) \in Nat /\ Cardinality(At(rings, b)) \in Nat
           /\ tokens[b] \in Nat
           /\ Copies(b) = Count(b, Contents(chan)) + Cardinality(At(rings, b)) + tokens[b]
           /\ OneOwner => Copies(b) <= 1
  <1>1. Contents(chan) \in Seq(Buf) /\ tokens[b] \in Nat
    <2>1. chan \in Chan(Buf) /\ tokens \in [Buf -> 0..MaxTokens]
      BY DEF RxTypes
    <2>2. Contents(chan) \in Seq(Buf)
      BY <2>1, ContentsSums
    <2>3. tokens[b] \in 0..MaxTokens
      BY <2>1
    <2> QED
      BY <2>2, <2>3
  <1>2. Count(b, Contents(chan)) \in Nat /\ Cardinality(At(rings, b)) \in Nat
    BY <1>1, CountType, SlotsFinite
  <1>3. OneOwner => Copies(b) <= 1
    BY DEF OneOwner
  <1> QED
    BY <1>1, <1>2, <1>3, CopiesIs

LEMMA RxTokensBound ==
    ASSUME RxTypes
    PROVE  /\ NumTokens \in Nat /\ \A b \in Buf : tokens[b] <= NumTokens
           /\ IsFiniteSet(Positive(tokens, Buf)) /\ Cardinality(Positive(tokens, Buf)) \in Nat
  <1>1. NumTokens = SumOf(tokens)
    BY Zenon DEF NumTokens, SumOf
  <1>2. tokens \in [Buf -> Nat] /\ IsFiniteSet(Buf)
    BY RxConstants DEF RxTypes
  <1>3. /\ SumOf(tokens) \in Nat /\ \A b \in Buf : tokens[b] <= SumOf(tokens)
        /\ IsFiniteSet(Positive(tokens, Buf)) /\ Cardinality(Positive(tokens, Buf)) \in Nat
    BY <1>2, SumOfBound
  <1> QED
    BY <1>1, <1>3, Zenon

(* Setting one entry of a function to zero, or from zero to one, changes   *)
(* the number of its positive entries by one.                              *)
LEMMA PositiveSet ==
    ASSUME NEW S, NEW tk \in [S -> Nat], IsFiniteSet(Positive(tk, S)), NEW b \in S
    PROVE  /\ tk[b] = 0 => Cardinality(Positive([tk EXCEPT ![b] = 1], S))
                             = Cardinality(Positive(tk, S)) + 1
           /\ tk[b] # 0 => Cardinality(Positive([tk EXCEPT ![b] = 0], S))
                             = Cardinality(Positive(tk, S)) - 1
  <1>1. PICK P : P = Positive(tk, S)
    OBVIOUS
  <1>2. CASE tk[b] = 0
    <2>1. Positive([tk EXCEPT ![b] = 1], S) = P \cup {b} /\ b \notin P
      BY <1>1, <1>2 DEF Positive
    <2> QED
      BY <1>1, <1>2, <2>1, FS_AddElement
  <1>3. CASE tk[b] # 0
    <2>1. Positive([tk EXCEPT ![b] = 0], S) = P \ {b} /\ b \in P
      BY <1>1, <1>3 DEF Positive
    <2> QED
      BY <1>1, <1>3, <2>1, FS_RemoveElement
  <1> QED
    BY <1>2, <1>3

(* Moving the head of a ring keeps it a ring. *)
LEMMA RxAdvanced ==
    ASSUME NEW q \in RxRingType
    PROVE  /\ Advanced(q) \in RxRingType /\ Advanced(q).slot = q.slot
           /\ q.head \in 0..(Slots - 1) /\ q.slot[q.head] \in Buf
           /\ \A e \in Buf : LET s == [Advanced(q) EXCEPT !.slot[q.head] = e]
                             IN  s \in RxRingType /\ s.slot = [q.slot EXCEPT ![q.head] = e]
  <1>1. /\ q.head \in 0..(Slots - 1) /\ q.tail \in 0..(Slots - 1) /\ q.size = Slots
        /\ q.slot \in [0..(Slots - 1) -> Buf]
    BY DEF RxRingType
  <1>2. NextIdx(q) \in 0..(Slots - 1)
    BY <1>1, RxNumbers DEF NextIdx
  <1>3. Advanced(q) \in RxRingType /\ Advanced(q).slot = q.slot
    BY <1>1, <1>2 DEF Advanced, RxRingType
  <1>4. ASSUME NEW e \in Buf
        PROVE  LET s == [Advanced(q) EXCEPT !.slot[q.head] = e]
               IN  s \in RxRingType /\ s.slot = [q.slot EXCEPT ![q.head] = e]
    BY <1>1, <1>3 DEF RxRingType
  <1> QED
    BY <1>1, <1>3, <1>4

(* recv_inner when there is a free buffer: the packet's buffer goes to the *)
(* client and the free one into its slot.                                  *)
LEMMA RecvSwaps ==
    ASSUME RxInv, NEW r \in Ring, Recv(r), HasNext(chan)
    PROVE  /\ rings' \in [Ring -> RxRingType] /\ chan' \in Chan(Buf) /\ Whole(chan')
           /\ tokens' \in [Buf -> 0..MaxTokens] /\ RxSame /\ RxRoom'
           /\ rings[r].slot[rings[r].head] \in Buf
           /\ tokens[rings[r].slot[rings[r].head]] = 0
           /\ tokens' = [tokens EXCEPT ![rings[r].slot[rings[r].head]] = 1]
           /\ \A q \in Ring : q # r => rings'[q] = rings[q]
  <1> DEFINE h == rings[r].head
             b == rings[r].slot[h]
             e == NextElem(chan)
             s == [Advanced(rings[r]) EXCEPT !.slot[h] = e]
  <1>1. /\ rings \in [Ring -> RxRingType] /\ chan \in Chan(Buf) /\ Whole(chan)
        /\ tokens \in [Buf -> 0..MaxTokens] /\ rings[r] \in RxRingType
    BY DEF RxInv, RxTypes
  <1>2. /\ chan' = Pop(chan) /\ rings' = [rings EXCEPT ![r] = s]
        /\ tokens' = [tokens EXCEPT ![b] = @ + 1] /\ NumTokens < MaxTokens
    BY DEF Recv, TakeSlot
  <1>3. /\ Pop(chan) \in Chan(Buf) /\ Whole(Pop(chan)) /\ e \in Buf
        /\ Len(Contents(chan)) = Len(Contents(Pop(chan))) + 1
        /\ \A x : Count(x, Contents(chan)) = Count(x, Contents(Pop(chan))) + One(e, x)
    BY <1>1, PopTakes DEF One
  <1>4. /\ h \in 0..(Slots - 1) /\ b \in Buf /\ s \in RxRingType
        /\ s.slot = [rings[r].slot EXCEPT ![h] = e]
    BY <1>1, <1>3, RxAdvanced
  <1>5. ASSUME NEW x \in Buf
        PROVE  Cardinality(At(rings', x)) + One(x, b) = Cardinality(At(rings, x)) + One(x, e)
    <2>1. Swapped(rings, rings', r, h, b, e)
      <3> HIDE DEF e, s, h
      <3> QED
        BY <1>1, <1>2, <1>4, Zenon DEF Swapped
    <2> HIDE DEF e, s, h, b
    <2> QED
      BY <2>1, SwapSlot
  <1>6. <<r, h>> \in At(rings, b)
    <2>1. <<r, h>> \in Ring \X (0..(Slots - 1)) /\ <<r, h>>[1] = r /\ <<r, h>>[2] = h
      BY <1>4
    <2> QED
      BY <2>1 DEF At
  <1> HIDE DEF h, b, e, s
  <1>7. tokens[b] = 0
    <2>1. Cardinality(At(rings, b)) # 0 /\ Cardinality(At(rings, b)) \in Nat
      BY <1>6, SlotsFinite, FS_EmptySet
    <2>2. /\ Count(b, Contents(chan)) \in Nat /\ tokens[b] \in Nat
          /\ Count(b, Contents(chan)) + Cardinality(At(rings, b)) + tokens[b] <= 1
      BY <1>4, RxParts DEF RxInv
    <2> QED
      BY <2>1, <2>2
  <1>8. tokens' = [tokens EXCEPT ![b] = 1]
    BY <1>2, <1>7
  <1>9. tokens' \in [Buf -> 0..MaxTokens]
    <2>1. 1 \in 0..MaxTokens
      <3>1. NumTokens \in Nat
        BY RxTokensBound DEF RxInv
      <3> QED
        BY <1>2, <3>1, RxNumbers
    <2> QED
      BY <1>1, <1>8, <2>1
  <1>10. RxSame
    <2> SUFFICES ASSUME NEW x \in Buf
                 PROVE  Copies(x)' = Copies(x)
      BY DEF RxSame
    <2>1. PICK c, d, k, l, m, n :
            /\ c = Count(x, Contents(chan)) /\ d = Count(x, Contents(chan'))
            /\ k = Cardinality(At(rings, x)) /\ l = Cardinality(At(rings', x))
            /\ m = tokens[x] /\ n = tokens'[x]
      OBVIOUS
    <2>2. c \in Nat /\ k \in Nat /\ m \in Nat /\ Copies(x) = c + k + m
      BY <2>1, RxParts DEF RxInv
    <2>3. Copies(x)' = d + l + n
      BY <2>1 DEF Copies, Occurs, Count, InSlots, At
    <2>4. d \in Nat /\ l \in Nat
      <3>1. Contents(chan') \in Seq(Buf)
        BY <1>2, <1>3, ContentsSums
      <3> QED
        BY <2>1, <3>1, CountType, SlotsFinite
    <2>5. c = d + One(e, x) /\ l + One(x, b) = k + One(x, e)
      BY <1>2, <1>3, <1>5, <2>1
    <2>6. n = m + One(x, b)
      BY <1>1, <1>2, <2>1, <2>2 DEF One
    <2>7. One(e, x) = One(x, e) /\ One(x, e) \in Nat /\ One(x, b) \in Nat
      BY DEF One
    <2> QED
      BY <2>2, <2>3, <2>4, <2>5, <2>6, <2>7
  <1>11. RxRoom'
    <2>1. PICK k, l : /\ k = Cardinality(Positive(tokens, Buf)) /\ k \in Nat
                      /\ l = Cardinality(Positive(tokens', Buf)) /\ IsFiniteSet(Positive(tokens, Buf))
      BY RxTokensBound DEF RxInv
    <2>2. l = k + 1
      <3>1. tokens \in [Buf -> Nat]
        BY <1>1, RxNumbers
      <3> QED
        BY <1>4, <1>7, <1>8, <2>1, <3>1, PositiveSet
    <2>3. Len(Contents(chan')) \in Nat /\ Len(Contents(chan)) = Len(Contents(chan')) + 1
      BY <1>2, <1>3, RingLength
    <2>4. Len(Contents(chan)) + k <= Cardinality(Buf) - InRings
      BY <2>1 DEF RxInv, RxRoom
    <2>5. Len(Contents(chan')) + l <= Cardinality(Buf) - InRings
      BY <2>1, <2>2, <2>3, <2>4, RxConstants
    <2> QED
      BY <2>1, <2>5 DEF RxRoom, InRings
  <1>12. rings' \in [Ring -> RxRingType] /\ \A q \in Ring : q # r => rings'[q] = rings[q]
    BY <1>1, <1>2, <1>4
  <1> QED
    BY <1>2, <1>3, <1>4, <1>7, <1>8, <1>9, <1>10, <1>11, <1>12 DEF b, h

(* When only the position of heads and tails changes, every slot keeps its *)
(* buffer.                                                                 *)
LEMMA SlotsStay ==
    ASSUME NEW rs, NEW us, \A r \in Ring : us[r].slot = rs[r].slot, NEW x
    PROVE  At(us, x) = At(rs, x)
  <1>1. ASSUME NEW p \in Ring \X (0..(Slots - 1))
        PROVE  us[p[1]].slot[p[2]] = rs[p[1]].slot[p[2]]
    <2>1. p[1] \in Ring
      OBVIOUS
    <2> QED
      BY <2>1
  <1> QED
    BY <1>1 DEF At

(* recv_inner when there is none: the packet is dropped and its buffer     *)
(* stays in the slot; the channel has nothing the consumer could take.     *)
LEMMA RecvDrops ==
    ASSUME RxInv, NEW r \in Ring, Recv(r), ~HasNext(chan)
    PROVE  /\ rings' \in [Ring -> RxRingType] /\ chan' \in Chan(Buf) /\ Whole(chan')
           /\ tokens' = tokens /\ RxSame /\ RxRoom'
           /\ chan.ring = <<>> /\ chan.cached = <<>>
           /\ \A q \in Ring : q # r => rings'[q] = rings[q]
  <1>1. /\ rings \in [Ring -> RxRingType] /\ chan \in Chan(Buf) /\ Whole(chan)
        /\ tokens \in [Buf -> 0..MaxTokens] /\ rings[r] \in RxRingType
    BY DEF RxInv, RxTypes
  <1>2. /\ chan' = Ready(chan) /\ rings' = [rings EXCEPT ![r] = Advanced(rings[r])]
        /\ tokens' = tokens
    BY DEF Recv, TakeSlot
  <1>3. /\ Ready(chan) \in Chan(Buf) /\ Whole(Ready(chan))
        /\ Len(Contents(Ready(chan))) = Len(Contents(chan))
        /\ \A x : Count(x, Contents(Ready(chan))) = Count(x, Contents(chan))
        /\ Batch <= Cache /\ Ready(chan).cached = <<>> => chan.ring = <<>> /\ chan.cached = <<>>
    BY <1>1, ReadyKeeps
  <1>4. Advanced(rings[r]) \in RxRingType /\ Advanced(rings[r]).slot = rings[r].slot
    BY <1>1, RxAdvanced
  <1>5. /\ rings' \in [Ring -> RxRingType] /\ \A q \in Ring : q # r => rings'[q] = rings[q]
        /\ \A q \in Ring : rings'[q].slot = rings[q].slot
    BY <1>1, <1>2, <1>4
  <1>6. RxSame
    <2> SUFFICES ASSUME NEW x \in Buf
                 PROVE  Copies(x)' = Copies(x)
      BY DEF RxSame
    <2>1. At(rings', x) = At(rings, x)
      BY <1>5, SlotsStay
    <2>2. Copies(x)' = Count(x, Contents(chan')) + Cardinality(At(rings', x)) + tokens'[x]
      BY DEF Copies, Occurs, Count, InSlots, At
    <2>3. Count(x, Contents(chan')) = Count(x, Contents(chan))
      BY <1>2, <1>3
    <2> QED
      BY <1>2, <2>1, <2>2, <2>3, CopiesIs
  <1>7. RxRoom'
    BY <1>2, <1>3 DEF RxInv, RxRoom, InRings
  <1>8. chan.ring = <<>> /\ chan.cached = <<>>
    <2>1. Batch <= Cache
      BY RxConstants
    <2> QED
      BY <1>3, <2>1 DEF HasNext
  <1> QED
    BY <1>2, <1>3, <1>5, <1>6, <1>7, <1>8

(* Ctx::release: the client's buffer goes into the channel. *)
LEMMA ReleaseReturns ==
    ASSUME RxInv, NEW b \in Buf, Release(b)
    PROVE  /\ chan' \in Chan(Buf) /\ Whole(chan') /\ tokens' \in [Buf -> 0..MaxTokens]
           /\ tokens[b] > 0 /\ tokens' = [tokens EXCEPT ![b] = 0] /\ RxSame /\ RxRoom'
  <1>1. /\ chan \in Chan(Buf) /\ Whole(chan) /\ tokens \in [Buf -> 0..MaxTokens]
        /\ tokens \in [Buf -> Nat]
    BY RxNumbers DEF RxInv, RxTypes
  <1>2. /\ tokens[b] > 0 /\ tokens' = [tokens EXCEPT ![b] = @ - 1] /\ chan' = Push(chan, b)
        /\ rings' = rings
    BY DEF Release
  <1>3. PICK k, l, n : /\ k = Cardinality(Positive(tokens, Buf)) /\ k \in Nat
                       /\ IsFiniteSet(Positive(tokens, Buf))
                       /\ n = Len(Contents(chan)) /\ n \in Nat /\ l = Cardinality(Buf) - InRings
                       /\ l \in Nat /\ n + k <= l /\ l <= SpscLen /\ SpscLen \in Nat
    <2>1. Cardinality(Positive(tokens, Buf)) \in Nat /\ IsFiniteSet(Positive(tokens, Buf))
      BY RxTokensBound DEF RxInv
    <2>2. Len(Contents(chan)) \in Nat
      BY <1>1, RingLength
    <2>3. Cardinality(Buf) - InRings \in Nat /\ Cardinality(Buf) - InRings <= SpscLen
          /\ SpscLen \in Nat
      BY RxConstants
    <2>4. Len(Contents(chan)) + Cardinality(Positive(tokens, Buf)) <= Cardinality(Buf) - InRings
      BY DEF RxInv, RxRoom
    <2> QED
      BY <2>1, <2>2, <2>3, <2>4, Zenon
  <1>4. /\ Push(chan, b) \in Chan(Buf) /\ Whole(Push(chan, b))
        /\ Len(Contents(Push(chan, b))) = Len(Contents(chan)) + 1
        /\ \A x : Count(x, Contents(Push(chan, b)))
                    = Count(x, Contents(chan)) + (IF b = x THEN 1 ELSE 0)
    <2>1. Len(Contents(chan)) <= SpscLen
      BY <1>3
    <2> QED
      BY <1>1, <2>1, PushAdds
  <1>5. tokens[b] = 1
    <2>1. /\ Count(b, Contents(chan)) \in Nat /\ Cardinality(At(rings, b)) \in Nat
          /\ tokens[b] \in Nat
          /\ Count(b, Contents(chan)) + Cardinality(At(rings, b)) + tokens[b] <= 1
      BY RxParts DEF RxInv
    <2> QED
      BY <1>2, <2>1
  <1>6. tokens' = [tokens EXCEPT ![b] = 0]
    BY <1>2, <1>5
  <1>7. tokens' \in [Buf -> 0..MaxTokens]
    BY <1>1, <1>6, RxNumbers
  <1>8. RxSame
    <2> SUFFICES ASSUME NEW x \in Buf
                 PROVE  Copies(x)' = Copies(x)
      BY DEF RxSame
    <2>1. PICK c, d, i, t, u :
            /\ c = Count(x, Contents(chan)) /\ d = Count(x, Contents(chan'))
            /\ i = Cardinality(At(rings, x)) /\ t = tokens[x] /\ u = tokens'[x]
      OBVIOUS
    <2>2. c \in Nat /\ i \in Nat /\ t \in Nat /\ Copies(x) = c + i + t
      BY <2>1, RxParts DEF RxInv
    <2>3. Copies(x)' = d + i + u
      BY <1>2, <2>1 DEF Copies, Occurs, Count, InSlots, At
    <2>4. d = c + (IF b = x THEN 1 ELSE 0)
      BY <1>2, <1>4, <2>1
    <2>5. t = u + (IF b = x THEN 1 ELSE 0) /\ u \in Nat
      BY <1>1, <1>5, <1>6, <2>1, <2>2
    <2> QED
      BY <2>2, <2>3, <2>4, <2>5
  <1>9. RxRoom'
    <2>1. Cardinality(Positive(tokens', Buf)) = k - 1
      <3>1. PICK tk \in [Buf -> Nat] : tk = tokens /\ tk[b] # 0 /\ IsFiniteSet(Positive(tk, Buf))
        BY <1>1, <1>3, <1>5
      <3>2. Cardinality(Positive([tk EXCEPT ![b] = 0], Buf)) = Cardinality(Positive(tk, Buf)) - 1
        BY <3>1, PositiveSet
      <3> QED
        BY <1>3, <1>6, <3>1, <3>2
    <2>2. Len(Contents(chan')) = n + 1
      BY <1>2, <1>3, <1>4
    <2>3. (n + 1) + (k - 1) <= l
      BY <1>3
    <2>4. Len(Contents(chan')) + Cardinality(Positive(tokens', Buf)) <= Cardinality(Buf) - InRings
      BY <1>3, <2>1, <2>2, <2>3
    <2> QED
      BY <2>4 DEF RxRoom, InRings
  <1> QED
    BY <1>2, <1>4, <1>6, <1>7, <1>8, <1>9

(* Port::rx_sync moves tails only. *)
LEMMA SyncAllKeeps ==
    ASSUME rings \in [Ring -> RxRingType], SyncAll
    PROVE  /\ rings' \in [Ring -> RxRingType]
           /\ \A r \in Ring : rings'[r].slot = rings[r].slot /\ rings'[r].head = rings[r].head
  <1>1. PICK t \in [Ring -> 0..(Slots - 1)] : rings' = [r \in Ring |-> [rings[r] EXCEPT !.tail = t[r]]]
    BY DEF SyncAll
  <1>2. ASSUME NEW r \in Ring
        PROVE  /\ rings'[r] \in RxRingType
               /\ rings'[r].slot = rings[r].slot /\ rings'[r].head = rings[r].head
    <2>1. PICK q, u : /\ q = rings[r] /\ u = t[r] /\ q \in RxRingType /\ u \in 0..(Slots - 1)
                      /\ rings'[r] = [q EXCEPT !.tail = u]
      BY <1>1
    <2>2. /\ [q EXCEPT !.tail = u] \in RxRingType
          /\ [q EXCEPT !.tail = u].slot = q.slot /\ [q EXCEPT !.tail = u].head = q.head
      BY <2>1 DEF RxRingType
    <2> QED
      BY <2>1, <2>2
  <1>3. rings' = [r \in Ring |-> rings'[r]]
    BY <1>1
  <1> QED
    BY <1>2, <1>3

(* Steps that leave the channel, the tokens and the buffers in the slots   *)
(* alone keep the counts.                                                  *)
LEMMA RxCountsStay ==
    ASSUME OneOwner, RxRoom, chan' = chan, tokens' = tokens,
           \A r \in Ring : rings'[r].slot = rings[r].slot
    PROVE  OneOwner' /\ RxRoom'
  <1>1. ASSUME NEW x \in Buf PROVE Copies(x)' = Copies(x)
    <2>1. At(rings', x) = At(rings, x)
      BY SlotsStay
    <2>2. Copies(x)' = Count(x, Contents(chan)) + Cardinality(At(rings', x)) + tokens[x]
      BY DEF Copies, Occurs, Count, InSlots, At
    <2> QED
      BY <2>1, <2>2, CopiesIs
  <1>2. OneOwner'
    BY <1>1, RxOwnerStep DEF RxSame
  <1>3. RxRoom'
    BY DEF RxRoom, InRings
  <1> QED
    BY <1>2, <1>3

LEMMA RxInvStep == RxInv /\ [Next]_vars => RxInv'
  <1> SUFFICES ASSUME RxInv, [Next]_vars
               PROVE  RxInv'
    OBVIOUS
  <1>0. RxTypes /\ OneOwner /\ RxRoom
    BY DEF RxInv
  <1>1. ASSUME NEW r \in Ring, Recv(r) PROVE RxInv'
    <2>1. /\ rings' \in [Ring -> RxRingType] /\ chan' \in Chan(Buf) /\ Whole(chan')
          /\ tokens' \in [Buf -> 0..MaxTokens] /\ RxSame /\ RxRoom'
      <3>1. CASE HasNext(chan)
        BY <1>1, <3>1, RecvSwaps
      <3>2. CASE ~HasNext(chan)
        BY <1>0, <1>1, <3>2, RecvDrops DEF RxTypes
      <3> QED
        BY <3>1, <3>2
    <2>2. OneOwner'
      BY <1>0, <2>1, RxOwnerStep
    <2>3. noRing' = FALSE /\ ringIdx' = r /\ pc' = "idle"
      BY <1>0, <1>1 DEF Recv, Found, RxTypes
    <2> QED
      BY <2>1, <2>2, <2>3 DEF RxInv, RxTypes
  <1>2. CASE RecvMiss
    <2>1. /\ rings' \in [Ring -> RxRingType] /\ chan' = chan /\ tokens' = tokens
          /\ \A r \in Ring : rings'[r].slot = rings[r].slot
      BY <1>0, <1>2, SyncAllKeeps DEF RecvMiss, RxTypes
    <2>2. OneOwner' /\ RxRoom'
      BY <1>0, <2>1, RxCountsStay
    <2>3. FirstRx \in Ring
      BY RxConstants DEF Ring
    <2> QED
      BY <1>0, <1>2, <2>1, <2>2, <2>3 DEF RxInv, RxTypes, RecvMiss
  <1>3. CASE RecvNone
    <2>1. rings' = rings /\ chan' = chan /\ tokens' = tokens
      BY <1>3 DEF RecvNone
    <2>2. OneOwner' /\ RxRoom'
      BY <1>0, <2>1, RxCountsStay
    <2> QED
      BY <1>0, <1>3, <2>2 DEF RxInv, RxTypes, RecvNone
  <1>4. ASSUME NEW b \in Buf, Release(b) PROVE RxInv'
    <2>1. /\ chan' \in Chan(Buf) /\ Whole(chan') /\ tokens' \in [Buf -> 0..MaxTokens]
          /\ RxSame /\ RxRoom'
      BY <1>4, ReleaseReturns
    <2>2. OneOwner'
      BY <1>0, <2>1, RxOwnerStep
    <2> QED
      BY <1>0, <1>4, <2>1, <2>2 DEF RxInv, RxTypes, Release
  <1>5. CASE UNCHANGED vars
    <2>1. rings' = rings /\ chan' = chan /\ tokens' = tokens
      BY <1>5 DEF vars
    <2>2. OneOwner' /\ RxRoom'
      BY <1>0, <2>1, RxCountsStay
    <2> QED
      BY <1>0, <1>5, <2>2 DEF RxInv, RxTypes, vars
  <1> QED
    BY <1>1, <1>2, <1>3, <1>4, <1>5 DEF Next

LEMMA RxInvariance == Spec => []RxInv
  BY RxInvInit, RxInvStep, PTL DEF Spec
-----------------------------------------------------------------------------
(* For any number of rings, slots and buffers the cursor of the receiver   *)
(* is on a bound ring or past all of them with no ring under it, and rings *)
(* and channel keep their types (Receiver::reset, ReceiverIterMut::next).  *)
THEOREM RxTyped == Spec => []TypeOK
  <1>1. RxInv => TypeOK
    BY DEF RxInv, RxTypes, RxRingType, TypeOK, Chan
  <1> QED
    BY <1>1, RxInvariance, PTL

(* For any number of rings, slots and buffers, any batch size and any      *)
(* client, no buffer is in two places at once and none disappears, except  *)
(* the extra buffers the flush at creation discards (recv_inner, release). *)
THEOREM RxOneOwner == Spec => []OneOwner
  <1>1. RxInv => OneOwner
    BY DEF RxInv
  <1> QED
    BY <1>1, RxInvariance, PTL

(* recv_token gives up on a packet only when the channel has no complete   *)
(* group left and the consumer's cache is empty (recv_inner, pop, sync).   *)
THEOREM DropsOnlyWhenExhausted == Spec => DropOnlyWhenExhausted
  <1>1. RxInv /\ [Next]_vars =>
          [\A r \in Ring : rings'[r].head # rings[r].head /\ tokens' = tokens =>
               chan.ring = <<>> /\ chan.cached = <<>>]_vars
    <2> SUFFICES ASSUME RxInv, Next, NEW r \in Ring, rings'[r].head # rings[r].head,
                        tokens' = tokens
                 PROVE  chan.ring = <<>> /\ chan.cached = <<>>
      BY DEF vars
    <2>1. PICK q \in Ring : Recv(q)
      <3>1. ~RecvMiss
        BY SyncAllKeeps DEF RecvMiss, RxInv, RxTypes
      <3>2. ~RecvNone /\ \A b \in Buf : ~Release(b)
        BY DEF RecvNone, Release
      <3> QED
        BY <3>1, <3>2 DEF Next
    <2>2. ~HasNext(chan)
      <3> SUFFICES ASSUME HasNext(chan) PROVE FALSE
        OBVIOUS
      <3>1. PICK b \in Buf : tokens[b] = 0 /\ tokens' = [tokens EXCEPT ![b] = 1]
        BY <2>1, RecvSwaps
      <3>2. tokens'[b] = 1
        BY <3>1 DEF RxInv, RxTypes
      <3> QED
        BY <3>1, <3>2
    <2> QED
      BY <2>1, <2>2, RecvDrops
  <1> QED
    BY <1>1, RxInvariance, PTL DEF Spec, DropOnlyWhenExhausted

(* The extra buffers the flush at creation discards are fewer than a       *)
(* batch.                                                                  *)
LEMMA FewDiscarded == Discarded \in SUBSET Buf /\ Cardinality(Discarded) < Batch
  <1>1. PICK c : c = Flush(PushAll(EmptyChannel, ExtraBufs))
    OBVIOUS
  <1>2. c \in Chan(Buf) /\ ExtraBufs \in Seq(Buf)
    BY <1>1, ExtrasPushed
  <1>3. PICK u \in Seq(Buf) : /\ Len(u) < Batch
                              /\ \A x : Count(x, Contents(c)) + Count(x, u) = Count(x, ExtraBufs)
    BY <1>1, ExtrasPushed
  <1>4. Contents(c) \in Seq(Buf)
    BY <1>2, ContentsSums
  <1>5. ASSUME NEW b \in Discarded PROVE b \in Buf /\ Count(b, u) # 0
    <2>1. b \in Range(ExtraBufs) /\ b \notin Range(Contents(c))
      BY <1>1 DEF Discarded
    <2>2. b \in Buf
      BY <1>2, <2>1 DEF Range
    <2>3. Count(b, ExtraBufs) # 0 /\ Count(b, Contents(c)) = 0
      BY <1>2, <1>4, <2>1, <2>2, CountRange
    <2>4. Count(b, u) \in Nat /\ 0 + Count(b, u) = Count(b, ExtraBufs)
      BY <1>3, <2>3, CountType
    <2> QED
      BY <2>2, <2>3, <2>4
  <1>6. Cardinality(Discarded) \in Nat /\ Cardinality(Discarded) <= Len(u)
    BY <1>5, NoMoreThan
  <1>7. Len(u) \in Nat /\ Batch \in Nat
    BY <1>3, RxConstants
  <1> QED
    BY <1>3, <1>5, <1>6, <1>7

(* To its client the socket is a pool of buffers that never breaks: a      *)
(* recv_token that finds a free buffer is Receive, release is Release, and *)
(* nothing else is seen; no buffer is lost after the socket's creation.    *)
(* (The instance has its own copy of Cardinality, hence the two            *)
(* definitions cited where losses are counted.)                            *)
THEOREM RxImplementsPool == Spec => PoolSpec
  <1>0. Discarded' = Discarded
    BY DEF Discarded, ExtraBufs, BufOrder, InRings
  <1>1. Init => Pool!Init
    <2> SUFFICES ASSUME Init PROVE Pool!Init
      OBVIOUS
    <2>1. tokens = [b \in Buf |-> 0]
      BY DEF Init
    <2> QED
      BY <2>1, FewDiscarded DEF Pool!Init, Pool!SmallLoss, Pool!Cardinality, Cardinality
  <1>2. ASSUME RxInv, [Next]_vars PROVE [Pool!Next]_(Pool!poolVars)
    <2>1. ASSUME NEW r \in Ring, Recv(r) PROVE [Pool!Next]_(Pool!poolVars)
      <3>1. CASE HasNext(chan)
        <4>1. PICK b \in Buf : /\ b = rings[r].slot[rings[r].head] /\ tokens[b] = 0
                               /\ tokens' = [tokens EXCEPT ![b] = 1]
          BY <1>2, <2>1, <3>1, RecvSwaps
        <4>2. b \notin Discarded
          <5>1. r \in Ring /\ rings[r].head \in 0..(Slots - 1)
            BY <1>2, <2>1 DEF RxInv, RxTypes, RxRingType
          <5>2. <<r, rings[r].head>> \in At(rings, b)
            BY <4>1, <5>1 DEF At
          <5>3. /\ Cardinality(At(rings, b)) \in Nat /\ Cardinality(At(rings, b)) # 0
            BY <5>2, SlotsFinite, FS_EmptySet
          <5>4. /\ Count(b, Contents(chan)) \in Nat /\ tokens[b] \in Nat
                /\ Copies(b) = Count(b, Contents(chan)) + Cardinality(At(rings, b)) + tokens[b]
            BY <1>2, RxParts DEF RxInv
          <5>5. PICK k, m, n : /\ k = Cardinality(At(rings, b)) /\ m = Count(b, Contents(chan))
                               /\ n = tokens[b] /\ Copies(b) = m + k + n
            BY <5>4
          <5>6. k \in Nat /\ k # 0 /\ m \in Nat /\ n \in Nat
            BY <5>3, <5>4, <5>5
          <5>7. m + k + n # 0
            BY ONLY <5>6
          <5> QED
            BY <1>2, <5>5, <5>7 DEF RxInv, OneOwner
        <4>3. Pool!Receive(b)
          BY <1>0, <4>1, <4>2 DEF Pool!Receive
        <4> QED
          BY <4>3 DEF Pool!Next
      <3>2. CASE ~HasNext(chan)
        <4>1. tokens' = tokens
          BY <1>2, <2>1, <3>2, RecvDrops
        <4> QED
          BY <1>0, <4>1 DEF Pool!poolVars
      <3> QED
        BY <3>1, <3>2
    <2>2. ASSUME NEW b \in Buf, Release(b) PROVE Pool!Next
      <3>1. tokens[b] > 0 /\ tokens' = [tokens EXCEPT ![b] = 0]
        BY <1>2, <2>2, ReleaseReturns
      <3>2. /\ Count(b, Contents(chan)) \in Nat /\ Cardinality(At(rings, b)) \in Nat
            /\ tokens[b] \in Nat /\ Copies(b) <= 1
            /\ Copies(b) = Count(b, Contents(chan)) + Cardinality(At(rings, b)) + tokens[b]
        BY <1>2, RxParts DEF RxInv
      <3>3. tokens[b] = 1
        BY <3>1, <3>2
      <3>4. Pool!Release(b)
        BY <1>0, <3>1, <3>3 DEF Pool!Release
      <3> QED
        BY <3>4 DEF Pool!Next
    <2>3. CASE RecvMiss \/ RecvNone \/ UNCHANGED vars
      <3>1. tokens' = tokens
        BY <2>3 DEF RecvMiss, RecvNone, vars
      <3> QED
        BY <1>0, <3>1 DEF Pool!poolVars
    <2> QED
      BY <1>2, <2>1, <2>2, <2>3 DEF Next
  <1>3. RxInv /\ [Next]_vars => [Pool!Next]_(Pool!poolVars)
    BY <1>2
  <1> QED
    BY <1>1, <1>3, RxInvariance, PTL DEF Spec, PoolSpec, Pool!Spec
=============================================================================
