----------------------------- MODULE DpdkProofs -----------------------------
(***************************************************************************)
(* Theorems about Dpdk, for every number of mbufs and every size of the    *)
(* queues, the burst, the batch and the cache.  One inductive invariant    *)
(* serves them all: types and capacities, the conservation of mbufs, the   *)
(* bound on the transmitter's arrays and the place of null pointers.       *)
(***************************************************************************)
EXTENDS Dpdk, ChannelProofs

Entry == {Mbuf, Null}

TypeInv ==
    /\ pool \in Nat /\ posted \in Nat /\ arrived \in Nat /\ rest \in Nat /\ tokens \in Nat
    /\ chan \in Chan({Mbuf}) /\ Whole(chan)
    /\ bufs \in Seq(Entry) /\ ready \in Nat /\ sending \in Nat

Inv == TypeInv /\ Conserved /\ TxRoom /\ NullsLast
-----------------------------------------------------------------------------
(* Facts about the operators of the model. *)

LEMMA MinOfTwo ==
    ASSUME NEW a \in Int, NEW b \in Int
    PROVE  Min({a, b}) \in Int /\ Min({a, b}) <= a /\ Min({a, b}) <= b
  <1>1. \E x \in {a, b} : \A y \in {a, b} : x <= y
    OBVIOUS
  <1>2. PICK m : m = Min({a, b})
    OBVIOUS
  <1>3. m \in {a, b} /\ \A y \in {a, b} : m <= y
    BY <1>1, <1>2 DEF Min
  <1> QED
    BY <1>2, <1>3

LEMMA MinOfThree ==
    ASSUME NEW a \in Int, NEW b \in Int, NEW c \in Int
    PROVE  /\ Min({a, b, c}) \in Int
           /\ Min({a, b, c}) <= a /\ Min({a, b, c}) <= b /\ Min({a, b, c}) <= c
  <1>1. \E x \in {a, b, c} : \A y \in {a, b, c} : x <= y
    OBVIOUS
  <1>2. PICK m : m = Min({a, b, c})
    OBVIOUS
  <1>3. m \in {a, b, c} /\ \A y \in {a, b, c} : m <= y
    BY <1>1, <1>2 DEF Min
  <1> QED
    BY <1>2, <1>3

LEMMA CopiesOf ==
    ASSUME NEW S, NEW x \in S, NEW n \in Nat
    PROVE  /\ Copies(x, n) \in Seq(S) /\ Len(Copies(x, n)) = n
           /\ \A k \in 1..n : Copies(x, n)[k] = x
           /\ Count(x, Copies(x, n)) = n
  <1> DEFINE c == Copies(x, n)
  <1>1. c \in Seq(S) /\ Len(c) = n /\ DOMAIN c = 1..n /\ \A k \in 1..n : c[k] = x
    BY DEF Copies
  <1> HIDE DEF c
  <1>2. {k \in DOMAIN c : c[k] = x} = 1..n
    BY <1>1
  <1>3. Cardinality(1..n) = n
    BY FS_Interval
  <1> QED
    BY <1>1, <1>2, <1>3 DEF Count, c

(* A sequence in which x does not occur. *)
LEMMA CountNone ==
    ASSUME NEW S, NEW s \in Seq(S), NEW x
    PROVE  Count(x, s) = 0 <=> \A i \in 1..Len(s) : s[i] # x
  <1> DEFINE A == {i \in DOMAIN s : s[i] = x}
  <1>1. IsFiniteSet(A)
    BY CountType
  <1>2. A = {} <=> \A i \in 1..Len(s) : s[i] # x
    OBVIOUS
  <1> HIDE DEF A
  <1>3. Cardinality(A) = 0 <=> A = {}
    BY <1>1, FS_EmptySet
  <1> QED
    BY <1>2, <1>3 DEF Count, A
-----------------------------------------------------------------------------
(* The transmitter as a record. *)
TxRec == [bufs : Seq(Entry), ready : Nat, sending : Nat, pool : Nat, ok : BOOLEAN]
Room(t) == Count(Mbuf, t.bufs) + t.ready <= Burst /\ Len(t.bufs) <= Burst
Total(t) == t.pool + Count(Mbuf, t.bufs) + t.ready + t.sending

IsTx(u, b, r, s, p, o) ==
    u \in TxRec /\ u.bufs = b /\ u.ready = r /\ u.sending = s /\ u.pool = p /\ u.ok = o

MoveReady(t, r, s) == [t EXCEPT !.ready = r, !.sending = s]
SetReady(t, r) == [t EXCEPT !.ready = r]
SetBufs(t, b) == [t EXCEPT !.bufs = b]
SetBufsPool(t, b, p) == [t EXCEPT !.bufs = b, !.pool = p]
SetBufsOk(t, b) == [t EXCEPT !.bufs = b, !.ok = FALSE]

LEMMA TxShapes ==
    ASSUME NEW t \in TxRec, NEW b \in Seq(Entry), NEW r \in Nat, NEW s \in Nat, NEW p \in Nat
    PROVE  /\ IsTx(MoveReady(t, r, s), t.bufs, r, s, t.pool, t.ok)
           /\ IsTx(SetReady(t, r), t.bufs, r, t.sending, t.pool, t.ok)
           /\ IsTx(SetBufs(t, b), b, t.ready, t.sending, t.pool, t.ok)
           /\ IsTx(SetBufsPool(t, b, p), b, t.ready, t.sending, p, t.ok)
           /\ IsTx(SetBufsOk(t, b), b, t.ready, t.sending, t.pool, FALSE)
  <1>1. IsTx(MoveReady(t, r, s), t.bufs, r, s, t.pool, t.ok)
    BY DEF IsTx, TxRec, MoveReady
  <1>2. IsTx(SetReady(t, r), t.bufs, r, t.sending, t.pool, t.ok)
    BY DEF IsTx, TxRec, SetReady
  <1>3. IsTx(SetBufs(t, b), b, t.ready, t.sending, t.pool, t.ok)
    BY DEF IsTx, TxRec, SetBufs
  <1>4. IsTx(SetBufsPool(t, b, p), b, t.ready, t.sending, p, t.ok)
    BY DEF IsTx, TxRec, SetBufsPool
  <1>5. IsTx(SetBufsOk(t, b), b, t.ready, t.sending, t.pool, FALSE)
    BY DEF IsTx, TxRec, SetBufsOk
  <1> QED
    BY <1>1, <1>2, <1>3, <1>4, <1>5

(* Transmitter::flush moves mbufs from ready_bufs to the TX queue. *)
LEMMA FlushMoves ==
    ASSUME NEW t \in TxRec, NEW u \in Flushed(t)
    PROVE  /\ u \in TxRec /\ u.bufs = t.bufs /\ u.pool = t.pool /\ u.ok = t.ok
           /\ u.ready <= t.ready
           /\ u.ready + u.sending = t.ready + t.sending
  <1>1. PICK r \in Nat, s \in Nat : r = t.ready /\ s = t.sending
    BY DEF TxRec
  <1>2. PICK k \in 0..Min({t.ready, TxRing - t.sending}) :
           u = [t EXCEPT !.ready = @ - k, !.sending = @ + k]
    BY DEF Flushed
  <1>3. k \in Nat /\ k <= r
    <2>1. TxRing - s \in Int
      BY DpdkAssumption
    <2>2. PICK m \in Int : m = TxRing - s
      BY <2>1
    <2>3. Min({r, m}) \in Int /\ Min({r, m}) <= r
      <3>1. r \in Int
        OBVIOUS
      <3> QED
        BY <3>1, MinOfTwo, Zenon
    <2>4. k \in 0..Min({r, m})
      BY <1>1, <1>2, <2>2
    <2> QED
      BY <2>3, <2>4
  <1>4. u = MoveReady(t, r - k, s + k)
    BY <1>1, <1>2 DEF MoveReady
  <1>5. r - k \in Nat /\ s + k \in Nat
    BY <1>3
  <1>6. IsTx(u, t.bufs, r - k, s + k, t.pool, t.ok)
    <2>1. PICK x \in Nat, y \in Nat : x = r - k /\ y = s + k
      BY <1>5
    <2>2. <<>> \in Seq(Entry)
      OBVIOUS
    <2>3. IsTx(MoveReady(t, x, y), t.bufs, x, y, t.pool, t.ok)
      BY <2>2, TxShapes
    <2> QED
      BY <1>4, <2>1, <2>3
  <1> QED
    BY <1>1, <1>3, <1>6 DEF IsTx

(* Null pointers followed by mbufs. *)
LEMMA NullsThenMbufs ==
    ASSUME NEW h \in Seq(Entry), NEW m \in Seq(Entry),
           \A i \in 1..Len(h) : h[i] = Null, \A i \in 1..Len(m) : m[i] = Mbuf
    PROVE  Stacked(h \o m)
  <1>1. PICK c \in Seq(Entry) : c = h \o m
    BY ConcatProperties
  <1>2. Len(c) = Len(h) + Len(m) /\ \A i \in 1..Len(c) : i <= Len(h) => c[i] = Null
    BY <1>1
  <1>3. \A i \in 1..Len(c) : i > Len(h) => c[i] = Mbuf
    BY <1>1
  <1>4. Stacked(c)
    BY <1>2, <1>3 DEF Stacked, Mbuf, Null
  <1> QED
    BY <1>1, <1>4

(* The replenishment finds no mbuf in bufs, and takes what it writes there *)
(* from the pool.                                                          *)
LEMMA RefillTakes ==
    ASSUME NEW t \in TxRec, Room(t), Count(Mbuf, t.bufs) = 0
    PROVE  /\ Refilled(t) \in TxRec /\ Room(Refilled(t))
           /\ Total(Refilled(t)) = Total(t) /\ Stacked(Refilled(t).bufs)
  <1>1. PICK b \in Seq(Entry), r \in Nat, p \in Nat : b = t.bufs /\ r = t.ready /\ p = t.pool
    BY DEF TxRec
  <1>2. r <= Burst /\ Len(b) <= Burst /\ Burst \in Nat /\ Len(b) \in Nat
    BY <1>1, DpdkAssumption DEF Room
  <1>3. PICK ask \in Nat, pad \in Nat : ask = Burst - r /\ pad = Burst - Len(b)
    <2>1. Burst - r \in Nat /\ Burst - Len(b) \in Nat
      BY <1>2
    <2> QED
      BY <2>1, Zenon
  <1>4. Mbuf \in Entry /\ Null \in Entry /\ Mbuf # Null
    BY DEF Entry, Mbuf, Null
  <1>5. PICK n \in Seq(Entry), m \in Seq(Entry) : n = Copies(Null, pad) /\ m = Copies(Mbuf, ask)
    BY <1>4, CopiesOf
  <1>6. Len(n) = pad /\ (\A k \in 1..pad : n[k] = Null) /\ Len(m) = ask /\ Count(Mbuf, m) = ask
    BY <1>4, <1>5, CopiesOf
  <1>7. PICK q \in Seq(Entry) : q = b \o n /\ Len(q) = Len(b) + Len(n)
    BY ConcatProperties
  <1>8. Len(q) = Burst
    BY <1>2, <1>3, <1>6, <1>7
  <1>9. Count(Mbuf, q) = 0
    <2>1. Count(Mbuf, n) = 0
      BY <1>4, <1>6, CountNone
    <2> QED
      BY <1>1, <1>7, <2>1, CountConcat
  <1>10. \A i \in 1..Burst : q[i] # Mbuf
    BY <1>8, <1>9, CountNone
  <1>11. PICK h \in Seq(Entry) : h = SubSeq(q, 1, r)
    <2>1. SubSeq(q, 1, r) \in Seq(Entry)
      BY <1>2, <1>8
    <2> QED
      BY <2>1
  <1>12. Len(h) = r /\ \A i \in 1..r : h[i] = q[i]
    BY <1>2, <1>8, <1>11
  <1>13. Count(Mbuf, h) = 0
    <2>1. \A i \in 1..Len(h) : h[i] # Mbuf
      BY <1>2, <1>10, <1>12, SMTT(40)
    <2> QED
      BY <2>1, CountNone
  <1>20. \A i \in 1..Len(h) : h[i] = Null
    BY <1>2, <1>10, <1>12, SMTT(40) DEF Entry
  <1>21. \A i \in 1..Len(m) : m[i] = Mbuf
    BY <1>4, <1>5, <1>6, CopiesOf
  <1>14. CASE p >= ask
    <2>1. PICK x \in Nat, c \in Seq(Entry) :
             x = p - ask /\ c = h \o m /\ Len(c) = Len(h) + Len(m)
      <3>1. p - ask \in Nat
        BY <1>14
      <3>2. h \o m \in Seq(Entry) /\ Len(h \o m) = Len(h) + Len(m)
        BY ConcatProperties
      <3> QED
        BY <3>1, <3>2
    <2>2. Refilled(t) = SetBufsPool(t, c, x)
      BY <1>1, <1>3, <1>5, <1>7, <1>11, <1>14, <2>1 DEF Refilled, SetBufsPool
    <2>3. IsTx(Refilled(t), c, t.ready, t.sending, x, t.ok)
      <3>1. IsTx(SetBufsPool(t, c, x), c, t.ready, t.sending, x, t.ok)
        BY TxShapes
      <3> QED
        BY <2>2, <3>1
    <2>4. Count(Mbuf, c) = ask
      BY <1>6, <1>13, <2>1, CountConcat
    <2>5. Len(c) = Burst
      BY <1>2, <1>3, <1>6, <1>12, <2>1
    <2>6. Room(Refilled(t))
      BY <1>1, <1>2, <1>3, <2>3, <2>4, <2>5 DEF IsTx, Room
    <2>7. Total(Refilled(t)) = x + ask + r + t.sending
      BY <1>1, <2>3, <2>4 DEF IsTx, Total
    <2>8. Total(t) = p + 0 + r + t.sending
      BY <1>1 DEF Total
    <2>9. t.sending \in Nat
      BY DEF TxRec
    <2>10. Stacked(c)
      BY <1>20, <1>21, <2>1, NullsThenMbufs
    <2>11. Stacked(Refilled(t).bufs)
      BY <2>3, <2>10 DEF IsTx
    <2> QED
      BY <2>1, <2>3, <2>6, <2>7, <2>8, <2>9, <2>11 DEF IsTx
  <1>15. CASE ~(p >= ask)
    <2>1. Refilled(t) = SetBufsOk(t, h)
      BY <1>1, <1>3, <1>5, <1>7, <1>11, <1>15 DEF Refilled, SetBufsOk
    <2>2. IsTx(Refilled(t), h, t.ready, t.sending, t.pool, FALSE)
      <3>1. IsTx(SetBufsOk(t, h), h, t.ready, t.sending, t.pool, FALSE)
        BY TxShapes
      <3> QED
        BY <2>1, <3>1
    <2>3. Room(Refilled(t))
      BY <1>1, <1>2, <1>12, <1>13, <2>2 DEF IsTx, Room
    <2>4. Total(Refilled(t)) = Total(t)
      BY <1>13, <2>2 DEF IsTx, Total
    <2>5. Stacked(Refilled(t).bufs)
      BY <1>20, <2>2 DEF IsTx, Stacked
    <2> QED
      BY <2>2, <2>3, <2>4, <2>5 DEF IsTx
  <1> QED
    BY <1>14, <1>15

(* The transmitter of a state that satisfies the invariant. *)
LEMMA CurIs ==
    ASSUME TypeInv, TxRoom
    PROVE  /\ Cur \in TxRec /\ Room(Cur)
           /\ Cur.bufs = bufs /\ Cur.ready = ready /\ Cur.sending = sending /\ Cur.pool = pool
           /\ Real = Count(Mbuf, bufs) /\ Real \in Nat
           /\ Total(Cur) = pool + Real + ready + sending
  <1>1. Cur \in TxRec
    BY DEF Cur, TxRec, TypeInv
  <1>2. Cur.bufs = bufs /\ Cur.ready = ready /\ Cur.sending = sending /\ Cur.pool = pool
    BY DEF Cur
  <1>3. Real = Count(Mbuf, bufs)
    BY DEF Real, Count
  <1>4. Real \in Nat
    BY <1>3, CountType DEF TypeInv
  <1>5. Room(Cur)
    BY <1>2, <1>3 DEF Room, TxRoom
  <1>6. Total(Cur) = pool + Real + ready + sending
    BY <1>2, <1>3 DEF Total
  <1> QED
    BY <1>1, <1>2, <1>3, <1>4, <1>5, <1>6

(* TransmitterIterMut::advance up to the pop. *)
LEMMA AdvanceKeeps ==
    ASSUME TypeInv, TxRoom, NullsLast, NEW t \in Advance
    PROVE  /\ t \in TxRec /\ Room(t) /\ Total(t) = Total(Cur)
           /\ Stacked(t.bufs)
  <1>1. CASE ready # Burst
    <2>1. t = Cur
      BY <1>1 DEF Advance
    <2> QED
      BY <2>1, <1>1, CurIs DEF NullsLast
  <1>2. CASE ready = Burst
    <2>1. PICK v \in Flushed(Cur) : t = Refilled(v)
      BY <1>2 DEF Advance
    <2>2. /\ v \in TxRec /\ v.bufs = bufs /\ v.pool = pool /\ v.ready <= ready
          /\ v.ready + v.sending = ready + sending
      BY CurIs, FlushMoves
    <2>3. Count(Mbuf, bufs) = 0
      BY <1>2, CurIs, DpdkAssumption DEF TxRoom
    <2>4. v.ready \in Nat /\ v.sending \in Nat /\ ready \in Nat /\ sending \in Nat /\ pool \in Nat
      BY <2>2 DEF TxRec, TypeInv
    <2>5. Room(v)
      <3>1. Len(bufs) <= Burst
        BY DEF TxRoom
      <3>2. 0 + v.ready <= Burst
        BY <1>2, <2>2, <2>4
      <3> QED
        BY <2>2, <2>3, <3>1, <3>2 DEF Room
    <2>6. Total(v) = Total(Cur)
      <3>1. Total(v) = pool + 0 + v.ready + v.sending
        BY <2>2, <2>3 DEF Total
      <3>2. Total(Cur) = pool + 0 + ready + sending
        BY <2>3, CurIs
      <3> QED
        BY <2>2, <2>4, <3>1, <3>2
    <2>7. /\ Refilled(v) \in TxRec /\ Room(Refilled(v)) /\ Total(Refilled(v)) = Total(v)
          /\ Stacked(Refilled(v).bufs)
      BY <2>2, <2>3, <2>5, RefillTakes
    <2> QED
      BY <1>2, <2>1, <2>6, <2>7
  <1> QED
    BY <1>1, <1>2

(* A flush in numbers: ur and us are left of tr and ts. *)
Moved(ur, us, tr, ts, tp, m, n) ==
    ur <= tr /\ ur + us = tr + ts /\ {ur, us, tr, ts, tp, m, n} \subseteq Nat

LEMMA SendSums ==
    ASSUME NEW ur, NEW us, NEW tr, NEW ts, NEW tp, NEW m, NEW n,
           Moved(ur, us, tr, ts, tp, m, n)
    PROVE  /\ m = n => tp + n + ur + us = tp + m + tr + ts
           /\ m = n + 1 => tp + n + (ur + 1) + us = tp + m + tr + ts
           /\ m = n + 1 /\ m + tr <= Burst => n + (ur + 1) <= Burst
  BY DpdkAssumption DEF Moved

(* The pop, and the flush when the iterator is dropped. *)
LEMMA PopKeeps ==
    ASSUME NEW t \in TxRec, Room(t), t.bufs # <<>>,
           NEW u \in Flushed([t EXCEPT !.bufs = Front(@)])
    PROVE  /\ u \in TxRec /\ u.bufs = Front(t.bufs)
           /\ Last(t.bufs) = Null => Room(u) /\ Total(u) = Total(t)
           /\ Last(t.bufs) = Mbuf => LET w == [u EXCEPT !.ready = @ + 1]
                                     IN  /\ w \in TxRec /\ w.bufs = u.bufs
                                         /\ Room(w) /\ Total(w) = Total(t)
  <1>1. PICK b \in Seq(Entry) : b = t.bufs
    BY DEF TxRec
  <1>2. /\ Front(b) \in Seq(Entry) /\ Len(Front(b)) = Len(b) - 1 /\ Len(b) \in Nat \ {0}
        /\ Count(Mbuf, b) = Count(Mbuf, Front(b)) + (IF Last(b) = Mbuf THEN 1 ELSE 0)
    BY <1>1, FrontAndLast
  <1>3. PICK f \in Seq(Entry) : f = Front(b)
    BY <1>2
  <1>4. PICK v : v = SetBufs(t, f)
    OBVIOUS
  <1>5. v = [t EXCEPT !.bufs = Front(@)]
    BY <1>1, <1>3, <1>4 DEF SetBufs
  <1>6. IsTx(v, f, t.ready, t.sending, t.pool, t.ok)
    BY <1>4, TxShapes
  <1>7. /\ u \in TxRec /\ u.bufs = f /\ u.pool = t.pool /\ u.ready <= t.ready
        /\ u.ready + u.sending = t.ready + t.sending
    <2>1. v \in TxRec /\ u \in Flushed(v)
      BY <1>5, <1>6 DEF IsTx
    <2> QED
      BY <1>6, <2>1, FlushMoves DEF IsTx
  <1>8. /\ u.ready \in Nat /\ u.sending \in Nat /\ t.ready \in Nat /\ t.sending \in Nat
        /\ t.pool \in Nat /\ u.pool \in Nat
    BY <1>7 DEF TxRec
  <1>9. PICK ur \in Nat, us \in Nat, tr \in Nat, ts \in Nat, tp \in Nat :
            ur = u.ready /\ us = u.sending /\ tr = t.ready /\ ts = t.sending /\ tp = t.pool
    BY <1>8, Zenon
  <1>10. ur <= tr /\ ur + us = tr + ts
    BY <1>7, <1>9, Zenon
  <1>11. u.pool = tp
    BY <1>7, <1>9, Zenon
  <1>12. PICK m \in Nat, n \in Nat : m = Count(Mbuf, b) /\ n = Count(Mbuf, f)
    BY CountType
  <1>13. Moved(ur, us, tr, ts, tp, m, n)
    BY <1>10 DEF Moved
  <1>14. m + t.ready <= Burst /\ Len(b) <= Burst
    BY <1>1, <1>12 DEF Room
  <1>15. Len(f) <= Burst
    BY <1>2, <1>3, <1>14, DpdkAssumption
  <1>16. Total(t) = t.pool + m + t.ready + t.sending
    BY <1>1, <1>12 DEF Total
  <1>17. CASE Last(b) = Null
    <2>1. m = n
      BY <1>2, <1>3, <1>12, <1>17 DEF Mbuf, Null
    <2>2. Room(u)
      <3>1. m + tr <= Burst
        BY <1>14, <1>9, Zenon
      <3>2. n + ur <= Burst
        BY <3>1, <1>10, <2>1, DpdkAssumption, SMTT(40)
      <3> QED
        BY <1>7, <1>12, <1>15, <1>9, <3>2 DEF Room
    <2>3. Total(u) = Total(t)
      <3>1. Total(u) = tp + n + ur + us /\ Total(t) = tp + m + tr + ts
        BY <1>7, <1>12, <1>16, <1>9, <1>11 DEF Total
      <3>2. tp + n + ur + us = tp + m + tr + ts
        BY <1>13, <2>1, SendSums
      <3> QED
        BY <3>1, <3>2, Zenon
    <2>4. Last(b) # Mbuf
      BY <1>17 DEF Mbuf, Null
    <2> QED
      BY <1>1, <1>3, <1>7, <2>2, <2>3, <2>4
  <1>18. CASE Last(b) = Mbuf
    <2>1. m = n + 1
      BY <1>2, <1>3, <1>12, <1>18
    <2>2. PICK r \in Nat : r = u.ready + 1
      BY <1>8
    <2> DEFINE w == [u EXCEPT !.ready = @ + 1]
    <2>3. w = SetReady(u, r)
      BY <2>2 DEF SetReady
    <2>4. IsTx(w, f, r, u.sending, u.pool, u.ok)
      <3>1. <<>> \in Seq(Entry)
        OBVIOUS
      <3>2. IsTx(SetReady(u, r), u.bufs, r, u.sending, u.pool, u.ok)
        BY <1>7, <3>1, TxShapes
      <3> QED
        BY <1>7, <2>3, <3>2
    <2> HIDE DEF w
    <2>5. w.bufs = f /\ w.ready = r /\ w.sending = u.sending /\ w.pool = u.pool /\ w \in TxRec
      BY <2>4 DEF IsTx
    <2>6. Room(w)
      <3>1. m + tr <= Burst /\ r = ur + 1
        BY <1>14, <1>9, <2>2, Zenon
      <3>2. n + r <= Burst
        BY <3>1, <1>13, <2>1, SendSums, Zenon
      <3>3. Count(Mbuf, w.bufs) = n
        BY <1>12, <2>5
      <3> QED
        BY <1>15, <2>5, <3>2, <3>3 DEF Room
    <2>7. Total(w) = Total(t)
      <3>1. r = ur + 1
        BY <1>9, <2>2
      <3>2. Count(Mbuf, w.bufs) = n /\ w.pool = tp /\ w.sending = us
        BY <1>12, <1>9, <1>11, <2>5
      <3>3. Total(w) = tp + n + r + us
        BY <2>5, <3>2 DEF Total
      <3>4. Total(t) = tp + m + tr + ts
        BY <1>16, <1>9, Zenon
      <3>5. tp + n + r + us = tp + m + tr + ts
        BY <1>13, <2>1, <3>1, SendSums
      <3> QED
        BY <3>3, <3>4, <3>5, Zenon
    <2>8. Last(b) # Null
      BY <1>18 DEF Mbuf, Null
    <2> QED
      BY <1>1, <1>3, <1>7, <2>5, <2>6, <2>7, <2>8 DEF w
  <1>19. Last(b) \in Entry
    BY <1>1, FrontAndLast
  <1> QED
    BY <1>17, <1>18, <1>19 DEF Entry
-----------------------------------------------------------------------------
(* The invariant. *)

(* What a step that changes only the transmitter has to show. *)
LEMMA BecomesKeeps ==
    ASSUME Inv, NEW x \in TxRec, Room(x), Total(x) = Total(Cur), Becomes(x),
           Stacked(x.bufs),
           UNCHANGED <<rxVars, chan>>
    PROVE  Inv'
  <1>1. bufs' = x.bufs /\ ready' = x.ready /\ sending' = x.sending /\ pool' = x.pool
    BY DEF Becomes
  <1>2. /\ x.bufs \in Seq(Entry) /\ x.ready \in Nat /\ x.sending \in Nat /\ x.pool \in Nat
    BY DEF TxRec
  <1>3. TypeInv'
    BY <1>1, <1>2 DEF Inv, TypeInv, rxVars
  <1>4. Real' = Count(Mbuf, x.bufs)
    BY <1>1 DEF Real, Count
  <1>5. TxRoom'
    BY <1>1, <1>4 DEF TxRoom, Room
  <1>6. NullsLast'
    <2>1. Stacked(bufs')
      BY <1>1
    <2> QED
      BY <2>1 DEF NullsLast, Stacked
  <1>7. Conserved'
    <2>1. PICK a \in Nat, b \in Nat, c \in Nat, d \in Nat :
             a = pool /\ b = Real /\ c = ready /\ d = sending
      BY CurIs DEF Inv, TypeInv
    <2>2. PICK e \in Nat, f \in Nat, g \in Nat, h \in Nat :
             e = x.pool /\ f = Count(Mbuf, x.bufs) /\ g = x.ready /\ h = x.sending
      BY <1>2, CountType
    <2>3. a + b + c + d = e + f + g + h
      <3>1. Total(Cur) = a + b + c + d
        BY <2>1, CurIs DEF Inv
      <3>2. Total(x) = e + f + g + h
        BY <2>2 DEF Total
      <3> QED
        BY <3>1, <3>2
    <2>4. PICK i \in Nat, j \in Nat, k \in Nat, l \in Nat, m \in Nat :
             i = posted /\ j = arrived /\ k = rest /\ l = tokens /\ m = Len(Contents(chan))
      BY RingLength DEF Inv, TypeInv
    <2>5. a + i + j + k + l + m + b + c + d = NumMbufs
      BY <2>1, <2>4 DEF Inv, Conserved
    <2>6. e + i + j + k + l + m + f + g + h = NumMbufs
      BY <2>3, <2>5
    <2>7. /\ pool' = e /\ Real' = f /\ ready' = g /\ sending' = h
          /\ posted' = i /\ arrived' = j /\ rest' = k /\ tokens' = l
          /\ Len(Contents(chan))' = m
      BY <1>1, <1>4, <2>2, <2>4 DEF rxVars
    <2> QED
      BY <2>6, <2>7 DEF Conserved
  <1> QED
    BY <1>3, <1>5, <1>6, <1>7 DEF Inv

LEMMA StackedFront ==
    ASSUME NEW s \in Seq(Entry), s # <<>>, Stacked(s)
    PROVE  Stacked(Front(s))
  <1>1. PICK f \in Seq(Entry) : f = Front(s) /\ Len(f) = Len(s) - 1 /\ Len(s) \in Nat \ {0}
                                /\ \A i \in 1..(Len(s) - 1) : f[i] = s[i]
    BY FrontAndLast
  <1>2. Stacked(f)
    BY <1>1 DEF Stacked
  <1> QED
    BY <1>1, <1>2

(* A send that pops an entry. *)
LEMMA SendKeeps ==
    ASSUME Inv, UNCHANGED <<rxVars, chan>>,
           NEW t \in Advance, Found(t),
           NEW u \in Flushed([t EXCEPT !.bufs = Front(@)]),
           \/ Last(t.bufs) = Mbuf /\ Becomes([u EXCEPT !.ready = @ + 1])
           \/ Last(t.bufs) = Null /\ Becomes(u)
    PROVE  Inv'
  <1>1. t \in TxRec /\ Room(t) /\ Total(t) = Total(Cur) /\ Stacked(t.bufs)
    BY AdvanceKeeps DEF Inv
  <1>2. t.bufs # <<>> /\ t.bufs \in Seq(Entry)
    BY <1>1 DEF Found, TxRec
  <1>4. Stacked(Front(t.bufs))
    BY <1>1, <1>2, StackedFront
  <1>5. CASE Last(t.bufs) = Mbuf /\ Becomes([u EXCEPT !.ready = @ + 1])
    <2>1. PICK w : w = [u EXCEPT !.ready = @ + 1]
      OBVIOUS
    <2>2. w \in TxRec /\ w.bufs = Front(t.bufs) /\ Room(w) /\ Total(w) = Total(Cur)
      BY <1>1, <1>2, <1>5, <2>1, PopKeeps
    <2>3. Becomes(w)
      BY <1>5, <2>1
    <2> QED
      BY <1>4, <2>2, <2>3, BecomesKeeps
  <1>6. CASE Last(t.bufs) = Null /\ Becomes(u)
    <2>1. u \in TxRec /\ u.bufs = Front(t.bufs) /\ Room(u) /\ Total(u) = Total(Cur)
      BY <1>1, <1>2, <1>6, PopKeeps
    <2> QED
      BY <1>4, <1>6, <2>1, BecomesKeeps
  <1> QED
    BY <1>5, <1>6

(* A flush of the transmitter t. *)
LEMMA FlushKeeps ==
    ASSUME Inv, UNCHANGED <<rxVars, chan>>,
           NEW t \in TxRec, Room(t), Total(t) = Total(Cur),
           Stacked(t.bufs),
           NEW u \in Flushed(t), Becomes(u)
    PROVE  Inv'
  <1>1. /\ u \in TxRec /\ u.bufs = t.bufs /\ u.pool = t.pool /\ u.ready <= t.ready
        /\ u.ready + u.sending = t.ready + t.sending
    BY FlushMoves
  <1>2. PICK ur \in Nat, us \in Nat, tr \in Nat, ts \in Nat, tp \in Nat, n \in Nat :
           /\ ur = u.ready /\ us = u.sending /\ tr = t.ready /\ ts = t.sending /\ tp = t.pool
           /\ n = Count(Mbuf, t.bufs)
    <2>1. t.bufs \in Seq(Entry) /\ t.ready \in Nat /\ t.sending \in Nat /\ t.pool \in Nat
      BY DEF TxRec
    <2>2. u.ready \in Nat /\ u.sending \in Nat
      BY <1>1 DEF TxRec
    <2>3. Count(Mbuf, t.bufs) \in Nat
      BY <2>1, CountType
    <2> QED
      BY <2>1, <2>2, <2>3, Zenon
  <1>3. ur <= tr /\ ur + us = tr + ts
    BY <1>1, <1>2, Zenon
  <1>4. Moved(ur, us, tr, ts, tp, n, n)
    BY <1>3 DEF Moved
  <1>5. n + ur <= Burst
    <2>1. n + tr <= Burst
      BY <1>2 DEF Room
    <2> QED
      BY <1>3, <2>1, DpdkAssumption
  <1>6. Room(u)
    <2>1. Len(t.bufs) <= Burst
      BY DEF Room
    <2> QED
      BY <1>1, <1>2, <1>5, <2>1 DEF Room
  <1>7. tp + n + ur + us = tp + n + tr + ts
    BY <1>4, SendSums
  <1>8. Total(u) = Total(t)
    BY <1>1, <1>2, <1>7 DEF Total
  <1> QED
    BY <1>1, <1>6, <1>8, BecomesKeeps

(* The mbufs outside the transmitter's arrays. *)
Outside == pool + posted + arrived + rest + tokens + Len(Contents(chan)) + sending

(* What a step that leaves the transmitter's arrays alone has to show. *)
LEMMA ArraysKept ==
    ASSUME Inv, TypeInv', UNCHANGED <<bufs, ready>>, Outside' = Outside
    PROVE  Inv'
  <1>1. Real' = Real
    BY DEF Real
  <1>2. TxRoom' /\ NullsLast'
    BY <1>1 DEF Inv, TxRoom, NullsLast, Stacked
  <1>3. PICK a \in Nat, b \in Nat, c \in Nat, d \in Nat, e \in Nat, f \in Nat, g \in Nat :
           /\ a = pool /\ b = posted /\ c = arrived /\ d = rest /\ e = tokens
           /\ f = Len(Contents(chan)) /\ g = sending
    BY RingLength DEF Inv, TypeInv
  <1>4. PICK h \in Nat, i \in Nat, j \in Nat, k \in Nat, l \in Nat, m \in Nat, n \in Nat :
           /\ h = pool' /\ i = posted' /\ j = arrived' /\ k = rest' /\ l = tokens'
           /\ m = Len(Contents(chan))' /\ n = sending'
    <2>1. Len(Contents(chan')) \in Nat
      BY RingLength DEF TypeInv
    <2> QED
      BY <2>1 DEF TypeInv
  <1>5. PICK r \in Nat, o \in Nat : r = Real /\ o = ready
    BY CurIs DEF Inv, TypeInv
  <1>6. a + b + c + d + e + f + g = h + i + j + k + l + m + n
    BY <1>3, <1>4 DEF Outside
  <1>7. a + b + c + d + e + f + r + o + g = NumMbufs
    BY <1>3, <1>5 DEF Inv, Conserved
  <1>8. h + i + j + k + l + m + r + o + n = NumMbufs
    BY <1>6, <1>7
  <1>9. Conserved'
    BY <1>1, <1>4, <1>5, <1>8 DEF Conserved
  <1> QED
    BY <1>2, <1>9 DEF Inv

LEMMA InitInv == Init => Inv
  <1> SUFFICES ASSUME Init PROVE Inv
    OBVIOUS
  <1> DEFINE n == NumMbufs - RxRing - Burst
  <1>1. n \in Nat /\ RxRing \in Nat /\ Burst \in Nat /\ n <= SpscLen
    BY DpdkAssumption, ChannelAssumption
  <1>2. n + RxRing + Burst = NumMbufs
    BY DpdkAssumption
  <1> HIDE DEF n
  <1>3. PICK e \in Chan({Mbuf}) : e = EmptyChannel /\ IsChan(e, {Mbuf}, <<>>, <<>>, <<>>)
    <2>1. EmptyChannel \in Chan({Mbuf})
      BY DEF EmptyChannel, Chan
    <2>2. EmptyChannel.batch = <<>> /\ EmptyChannel.ring = <<>> /\ EmptyChannel.cached = <<>>
      BY DEF EmptyChannel
    <2> QED
      BY <2>1, <2>2 DEF IsChan
  <1>4. Whole(e) /\ Len(Contents(e)) = 0
    <2>1. Whole(e)
      BY <1>3, ChannelAssumption DEF Whole, IsChan
    <2>2. Len(Contents(e)) = 0
      <3>1. e.batch = <<>> /\ e.cached = <<>> /\ FlattenSeq(e.ring) = <<>>
        BY <1>3, FlattenEmpty DEF IsChan
      <3>2. Len(Contents(e)) = Len(<<>>) + Len(<<>>) + Len(<<>>)
        BY <3>1, ContentsSums
      <3> QED
        BY <3>2
    <2> QED
      BY <2>1, <2>2
  <1>5. PICK s \in Seq({Mbuf}) : s = Copies(Mbuf, n) /\ Len(s) = n
    BY <1>1, CopiesOf
  <1>6. Len(Contents(e)) + Len(s) <= SpscLen
    BY <1>1, <1>4, <1>5
  <1>7. chan = PushAll(e, s)
    BY <1>3, <1>5 DEF Init, n
  <1>8. chan \in Chan({Mbuf}) /\ Whole(chan) /\ Len(Contents(chan)) = n
    <2>1. Len(Contents(PushAll(e, s))) = 0 + n
      BY <1>4, <1>5, <1>6, PushAllAdds
    <2> QED
      BY <1>1, <1>4, <1>6, <1>7, <2>1, PushAllAdds
  <1>9. /\ bufs \in Seq(Entry) /\ Len(bufs) = Burst /\ Real = Burst
        /\ \A k \in 1..Burst : bufs[k] = Mbuf
    <2>1. bufs = Copies(Mbuf, Burst) /\ Mbuf \in Entry
      BY DEF Init, Entry
    <2>2. Real = Count(Mbuf, bufs)
      BY DEF Real, Count
    <2> QED
      BY <1>1, <2>1, <2>2, CopiesOf
  <1>10. TypeInv
    BY <1>1, <1>8, <1>9 DEF Init, TypeInv
  <1>11. Conserved
    BY <1>1, <1>2, <1>8, <1>9 DEF Init, Conserved
  <1>12. TxRoom
    BY <1>1, <1>9 DEF Init, TxRoom
  <1>13. NullsLast
    BY <1>1, <1>9 DEF NullsLast, Stacked, Mbuf, Null
  <1> QED
    BY <1>10, <1>11, <1>12, <1>13 DEF Inv

LEMMA RecvKeeps ==
    ASSUME Inv, Recv
    PROVE  Inv'
  <1>1. UNCHANGED <<chan, bufs, ready, sending>> /\ tokens' = tokens + 1
    BY DEF Recv, txVars
  <1>2. pool \in Nat /\ posted \in Nat /\ arrived \in Nat /\ rest \in Nat /\ tokens \in Nat
    BY DEF Inv, TypeInv
  <1>3. /\ pool' \in Nat /\ posted' \in Nat /\ arrived' \in Nat /\ rest' \in Nat
        /\ pool' + posted' + arrived' + rest' + 1 = pool + posted + arrived + rest
    <2>1. CASE AdvanceBurst
      BY <1>2, <2>1 DEF AdvanceBurst
    <2>2. CASE AdvanceNew
      <3>1. PICK n \in 1..RxLimit :
               /\ rest' = n - 1 /\ arrived' = arrived - n /\ posted' = posted + n
               /\ pool' = pool - n
        BY <2>2 DEF AdvanceNew
      <3>2. RxLimit \in Int /\ RxLimit <= arrived /\ RxLimit <= pool
        <4>1. Burst \in Int
          BY DpdkAssumption
        <4>2. pool \in Int /\ arrived \in Int
          BY <1>2
        <4> QED
          BY <4>1, <4>2, MinOfThree DEF RxLimit
      <3>3. rest = 0
        BY <2>2 DEF AdvanceNew
      <3>4. n \in Nat /\ n >= 1 /\ n <= arrived /\ n <= pool
        BY <1>2, <3>1, <3>2
      <3> QED
        BY <1>2, <3>1, <3>3, <3>4
    <2> QED
      BY <2>1, <2>2 DEF Recv
  <1>4. TypeInv'
    BY <1>1, <1>2, <1>3 DEF Inv, TypeInv
  <1>5. Outside' = Outside
    <2>1. PICK l \in Nat, g \in Nat : l = Len(Contents(chan)) /\ g = sending
      BY RingLength DEF Inv, TypeInv
    <2>2. Len(Contents(chan))' = l /\ sending' = g
      BY <1>1, <2>1
    <2>3. Outside = pool + posted + arrived + rest + tokens + l + g
      BY <2>1, Zenon DEF Outside
    <2>4. Outside' = pool' + posted' + arrived' + rest' + (tokens + 1) + l + g
      BY <1>1, <2>2, Zenon DEF Outside
    <2>5. PICK h \in Nat, i \in Nat, j \in Nat, k \in Nat :
             h = pool' /\ i = posted' /\ j = arrived' /\ k = rest'
      BY <1>3
    <2>6. h + i + j + k + 1 = pool + posted + arrived + rest
      BY <1>3, <2>5, Zenon
    <2>7. h + i + j + k + (tokens + 1) + l + g
          = pool + posted + arrived + rest + tokens + l + g
      BY <1>2, <2>6
    <2> QED
      BY <2>3, <2>4, <2>5, <2>7, Zenon
  <1> QED
    BY <1>1, <1>4, <1>5, ArraysKept

LEMMA RecvMissKeeps ==
    ASSUME Inv, RecvMiss
    PROVE  Inv'
  <1>1. /\ UNCHANGED <<posted, arrived, rest, tokens, bufs, ready, sending>>
        /\ pool' = pool + Len(Sync(chan).cached)
        /\ chan' = [Sync(chan) EXCEPT !.cached = <<>>]
    BY DEF RecvMiss, rxVars, txVars
  <1>2. chan \in Chan({Mbuf}) /\ Whole(chan)
    BY DEF Inv, TypeInv
  <1>3. PICK c \in Chan({Mbuf}) :
           c = Sync(chan) /\ Whole(c) /\ Len(Contents(c)) = Len(Contents(chan))
    BY <1>2, SyncKeeps
  <1>4. IsChan(chan', {Mbuf}, c.batch, c.ring, <<>>)
    <2>1. chan' = WithCached(c, <<>>)
      BY <1>1, <1>3 DEF WithCached
    <2>2. <<>> \in Seq({Mbuf})
      OBVIOUS
    <2> QED
      BY <2>1, <2>2, ChanCached
  <1>5. PICK x \in Nat, y \in Nat, z \in Nat :
           x = Len(c.batch) /\ y = Len(FlattenSeq(c.ring)) /\ z = Len(c.cached)
    BY FlattenType DEF Chan
  <1>6. Len(Contents(c)) = x + y + z /\ Len(Contents(chan')) = x + y
    <2>1. Len(Contents(c)) = x + y + z
      BY <1>5, ContentsSums
    <2>2. PICK d \in Chan({Mbuf}) : d = chan'
      BY <1>4 DEF IsChan
    <2>3. Len(Contents(d)) = Len(d.batch) + Len(FlattenSeq(d.ring)) + Len(d.cached)
      BY ContentsSums
    <2>4. d.batch = c.batch /\ d.ring = c.ring /\ Len(d.cached) = 0
      BY <1>4, <2>2 DEF IsChan
    <2>5. Len(Contents(d)) = x + y + 0
      BY <1>5, <2>3, <2>4, Zenon
    <2> QED
      BY <2>1, <2>2, <2>5
  <1>7. chan' \in Chan({Mbuf}) /\ Whole(chan')
    BY <1>3, <1>4, ChannelAssumption DEF IsChan, Whole
  <1>8. pool' = pool + z
    BY <1>1, <1>3, <1>5
  <1>9. /\ pool \in Nat /\ posted \in Nat /\ arrived \in Nat /\ rest \in Nat /\ tokens \in Nat
        /\ sending \in Nat
    BY DEF Inv, TypeInv
  <1>10. TypeInv'
    BY <1>1, <1>7, <1>8, <1>9, SMTT(40) DEF Inv, TypeInv
  <1>11. Outside' = Outside
    <2>1. PICK l \in Nat, k \in Nat : l = Len(Contents(chan)) /\ k = Len(Contents(chan))'
      BY <1>2, <1>7, RingLength
    <2>2. l = k + z
      BY <1>3, <1>5, <1>6, <2>1
    <2>3. Outside = pool + posted + arrived + rest + tokens + l + sending
      BY <2>1, Zenon DEF Outside
    <2>4. Outside' = (pool + z) + posted + arrived + rest + tokens + k + sending
      BY <1>1, <1>8, <2>1, Zenon DEF Outside
    <2> QED
      BY <1>9, <2>2, <2>3, <2>4
  <1> QED
    BY <1>1, <1>10, <1>11, ArraysKept

LEMMA ReleaseKeeps ==
    ASSUME Inv, Release
    PROVE  Inv'
  <1>1. /\ UNCHANGED <<pool, posted, arrived, rest, bufs, ready, sending>>
        /\ tokens > 0 /\ tokens' = tokens - 1 /\ chan' = Push(chan, Mbuf)
    BY DEF Release, txVars
  <1>2. chan \in Chan({Mbuf}) /\ Whole(chan)
    BY DEF Inv, TypeInv
  <1>3. /\ pool \in Nat /\ posted \in Nat /\ arrived \in Nat /\ rest \in Nat /\ tokens \in Nat
        /\ ready \in Nat /\ sending \in Nat /\ Real \in Nat
        /\ Len(Contents(chan)) \in Nat
    BY <1>2, CurIs, RingLength DEF Inv, TypeInv
  <1>4. Len(Contents(chan)) <= SpscLen
    <2>1. Len(Contents(chan)) <= NumMbufs
      BY <1>3 DEF Inv, Conserved
    <2> QED
      BY <1>3, <2>1, DpdkAssumption, ChannelAssumption
  <1>5. /\ chan' \in Chan({Mbuf}) /\ Whole(chan')
        /\ Len(Contents(chan')) = Len(Contents(chan)) + 1
    BY <1>1, <1>2, <1>4, PushAdds
  <1>6. TypeInv'
    BY <1>1, <1>3, <1>5 DEF Inv, TypeInv
  <1>7. Outside' = Outside
    <2>1. PICK l \in Nat : l = Len(Contents(chan))
      BY <1>3
    <2>2. Len(Contents(chan))' = l + 1
      BY <1>5, <2>1
    <2> QED
      BY <1>1, <1>3, <2>1, <2>2 DEF Outside
  <1> QED
    BY <1>1, <1>6, <1>7, ArraysKept

LEMMA NextInv == Inv /\ [Next]_vars => Inv'
  <1> SUFFICES ASSUME Inv, [Next]_vars PROVE Inv'
    OBVIOUS
  <1>1. CASE Recv
    BY <1>1, RecvKeeps
  <1>2. CASE RecvMiss
    BY <1>2, RecvMissKeeps
  <1>3. CASE RecvNone \/ SendUndefined \/ UNCHANGED vars
    <2>1. UNCHANGED <<pool, rxVars, chan, txVars>>
      BY <1>3 DEF RecvNone, SendUndefined, vars, rxVars, txVars
    <2>2. TypeInv' /\ Outside' = Outside
      BY <2>1 DEF Inv, TypeInv, Outside, rxVars, txVars
    <2> QED
      BY <2>1, <2>2, ArraysKept DEF txVars
  <1>4. CASE Release
    BY <1>4, ReleaseKeeps
  <1>5. CASE Send \/ SendTooLong
    <2>1. /\ UNCHANGED <<rxVars, chan>>
          /\ \E t \in Advance :
                /\ Found(t) /\ Last(t.bufs) = Mbuf
                /\ \E u \in Flushed([t EXCEPT !.bufs = Front(@)]) :
                      Becomes([u EXCEPT !.ready = @ + 1])
      BY <1>5 DEF Send, SendTooLong
    <2> QED
      BY <2>1, SendKeeps
  <1>6. CASE SendNull
    <2>1. /\ UNCHANGED <<rxVars, chan>>
          /\ \E t \in Advance :
                /\ Found(t) /\ Last(t.bufs) = Null
                /\ \E u \in Flushed([t EXCEPT !.bufs = Front(@)]) : Becomes(u)
      BY <1>6 DEF SendNull
    <2> QED
      BY <2>1, SendKeeps
  <1>7. CASE SendNone
    <2>1. /\ UNCHANGED <<rxVars, chan>>
      BY <1>7 DEF SendNone
    <2>2. PICK t \in Advance : \E u \in Flushed(t) : Becomes(u)
      BY <1>7 DEF SendNone
    <2>3. t \in TxRec /\ Room(t) /\ Total(t) = Total(Cur) /\ Stacked(t.bufs)
      BY AdvanceKeeps DEF Inv
    <2> QED
      BY <2>1, <2>2, <2>3, FlushKeeps
  <1>8. CASE FlushTx
    <2>1. UNCHANGED <<rxVars, chan>> /\ \E u \in Flushed(Cur) : Becomes(u)
      BY <1>8 DEF FlushTx
    <2>2. Cur \in TxRec /\ Room(Cur) /\ Cur.bufs = bufs
      BY CurIs DEF Inv
    <2>3. Stacked(Cur.bufs)
      BY <2>2 DEF Inv, NullsLast
    <2> QED
      BY <2>1, <2>2, <2>3, FlushKeeps
  <1>9. CASE Arrive
    <2>1. TypeInv' /\ Outside' = Outside
      <3>1. {pool, posted, arrived, rest, tokens, sending, Len(Contents(chan))} \subseteq Nat
        BY RingLength DEF Inv, TypeInv
      <3> QED
        BY <1>9, <3>1 DEF Inv, Arrive, TypeInv, Outside, txVars
    <2> QED
      BY <1>9, <2>1, ArraysKept DEF Arrive, txVars
  <1>10. CASE Sent
    <2>1. TypeInv' /\ Outside' = Outside
      <3>1. {pool, posted, arrived, rest, tokens, sending, Len(Contents(chan))} \subseteq Nat
        BY RingLength DEF Inv, TypeInv
      <3> QED
        BY <1>10, <3>1 DEF Inv, Sent, TypeInv, Outside, rxVars
    <2> QED
      BY <1>10, <2>1, ArraysKept DEF Sent
  <1> QED
    BY <1>1, <1>2, <1>3, <1>4, <1>5, <1>6, <1>7, <1>8, <1>9, <1>10 DEF Next

LEMMA InvHolds == Spec => []Inv
  BY InitInv, NextInv, PTL DEF Spec
-----------------------------------------------------------------------------
(* For every number of mbufs and every size of the queues: the pool, the   *)
(* RX queue, the burst, the client's tokens, the channel, the transmitter  *)
(* and the TX queue together always hold exactly NumMbufs mbufs            *)
(* (recv_token, flush_to_memory_pool, release, send, flush).               *)
THEOREM MbufsConserved == Spec => []Conserved
  <1>1. Inv => Conserved
    BY DEF Inv
  <1> QED
    BY <1>1, InvHolds, PTL

(* The push in RteMBufRef::drop always finds room in ready_bufs, and bufs  *)
(* never outgrows a burst, whatever the NIC accepts of each burst          *)
(* (TransmitterIterMut::advance, Transmitter::flush).                      *)
THEOREM TransmitterHasRoom == Spec => []TxRoom
  <1>1. Inv => TxRoom
    BY DEF Inv
  <1> QED
    BY <1>1, InvHolds, PTL

(* In every state the null pointers in bufs lie below its mbufs, however   *)
(* often the NIC refused packets and allocations failed: advance unwraps   *)
(* a null only when the transmitter has no mbuf left.                      *)
THEOREM NullsPoppedLast == Spec => []NullsLast
  <1>1. Inv => NullsLast
    BY DEF Inv
  <1> QED
    BY <1>1, InvHolds, PTL
=============================================================================
