---------------------------- MODULE AfXdpProofs ----------------------------
(***************************************************************************)
(* Proofs about AfXdp, for every number of frames, every size of the rings *)
(* and every size of a batch.                                              *)
(*                                                                         *)
(* The inductive invariant describes the rings by distances instead of     *)
(* indices: Form(r, N, p, m, e) says that p entries of ring r are with the *)
(* kernel, m are reserved and not submitted and e are known to be free.    *)
(* The entries then are sequences (Line), the owners of a frame a sum of   *)
(* counts in sequences (CopiesNow), and a step moves a frame from one      *)
(* sequence to another.                                                    *)
(***************************************************************************)
EXTENDS AfXdp, ChannelProofs

(* Indices modulo twice the size, and slots modulo the size. *)
LEMMA WrapOnce ==
    ASSUME NEW D \in Nat \ {0}, NEW x \in 0..(2 * D - 1)
    PROVE  x % D = IF x < D THEN x ELSE x - D
  BY SMT

(* A difference modulo D of two indices. *)
LEMMA WrapBack ==
    ASSUME NEW D \in Nat \ {0}, NEW a \in 0..(D - 1), NEW b \in 0..(D - 1)
    PROVE  (a - b) % D = IF a >= b THEN a - b ELSE a - b + D
  BY SMT

(* A slot is in range. *)
LEMMA SlotRange ==
    ASSUME NEW N \in Nat \ {0}, NEW x \in Nat
    PROVE  x % N \in 0..(N - 1)
  BY SMT

(* Quotient and remainder. *)
LEMMA DivMod ==
    ASSUME NEW N \in Nat \ {0}, NEW x \in Nat
    PROVE  \E q \in Int, r \in 0..(N - 1) : x = N * q + r /\ x % N = r
  <1>1. x = N * (x \div N) + (x % N) /\ x % N \in 0..(N - 1) /\ x \div N \in Int
    OBVIOUS
  <1> QED
    BY <1>1

(* The only multiple of N smaller than N is 0. *)
LEMMA MultipleSmall ==
    ASSUME NEW N \in Nat \ {0}, NEW q \in Int, NEW d \in Int, -N < d, d < N, N * q = d
    PROVE  q = 0
  <1>1. CASE q >= 1
    <2>1. N * q >= N * 1
      BY <1>1, SMT
    <2> QED
      BY <2>1
  <1>2. CASE q <= -1
    <2>1. N * q <= N * (-1)
      BY <1>2, SMT
    <2> QED
      BY <2>1
  <1> QED
    BY <1>1, <1>2

(* Adding the size does not change the slot. *)
LEMMA ModAdd ==
    ASSUME NEW N \in Nat \ {0}, NEW x \in Nat
    PROVE  (x + N) % N = x % N
  <1>1. PICK q \in Int, r \in 0..(N - 1) : x = N * q + r /\ x % N = r
    BY DivMod
  <1>2. PICK p \in Int, s \in 0..(N - 1) : x + N = N * p + s /\ (x + N) % N = s
    BY DivMod
  <1>3. N * (p - q - 1) = r - s
    <2>1. N * (p - q - 1) = N * p - N * q - N
      OBVIOUS
    <2> QED
      BY <1>1, <1>2, <2>1
  <1>4. p - q - 1 = 0
    BY <1>3, MultipleSmall
  <1>5. r - s = 0
    BY <1>3, <1>4
  <1> QED
    BY <1>1, <1>2, <1>5

(* Wrapping an index does not change its slot. *)
LEMMA ModWrap ==
    ASSUME NEW N \in Nat \ {0}, NEW x \in 0..(4 * N - 1), NEW j \in Nat
    PROVE  ((x % (2 * N)) + j) % N = (x + j) % N
  <1>1. x % (2 * N) = IF x < 2 * N THEN x ELSE x - 2 * N
    <2>1. PICK D \in Nat \ {0} : D = 2 * N
      OBVIOUS
    <2>2. x \in 0..(2 * D - 1)
      BY <2>1
    <2> QED
      BY <2>1, <2>2, WrapOnce
  <1>2. CASE x < 2 * N
    BY <1>1, <1>2
  <1>3. CASE x >= 2 * N
    <2>1. PICK y \in Nat : y = x - 2 * N + j
      BY <1>3
    <2>2. (y + N) % N = y % N /\ (y + N + N) % N = (y + N) % N
      <3>1. y + N \in Nat
        OBVIOUS
      <3> QED
        BY <3>1, ModAdd
    <2>3. y + N + N = x + j /\ (x % (2 * N)) + j = y
      BY <1>1, <1>3, <2>1
    <2> QED
      BY <2>2, <2>3
  <1> QED
    BY <1>2, <1>3

(* Indices less than a ring apart have different slots. *)
LEMMA SlotsDiffer ==
    ASSUME NEW N \in Nat \ {0}, NEW x \in Nat, NEW y \in Nat, x < y, y < x + N
    PROVE  x % N # y % N
  <1> SUFFICES ASSUME x % N = y % N PROVE FALSE
    OBVIOUS
  <1>1. PICK q \in Int, r \in 0..(N - 1) : x = N * q + r /\ x % N = r
    BY DivMod
  <1>2. PICK p \in Int, s \in 0..(N - 1) : y = N * p + s /\ y % N = s
    BY DivMod
  <1>3. N * (p - q) = y - x
    <2>1. N * (p - q) = N * p - N * q
      OBVIOUS
    <2> QED
      BY <1>1, <1>2, <2>1
  <1>4. p - q = 0
    BY <1>3, MultipleSmall
  <1> QED
    BY <1>3, <1>4
-----------------------------------------------------------------------------
(* The index k entries after index c, in comparisons. *)
Up(N, c, k) == IF c + k < 2 * N THEN c + k ELSE c + k - 2 * N

(* Up is addition modulo twice the size. *)
LEMMA UpIs ==
    ASSUME NEW N \in Nat \ {0}, NEW c \in 0..(2 * N - 1), NEW k \in 0..(2 * N)
    PROVE  (c + k) % (2 * N) = Up(N, c, k) /\ Up(N, c, k) \in 0..(2 * N - 1)
  <1>1. PICK D \in Nat \ {0} : D = 2 * N
    OBVIOUS
  <1>2. PICK x \in 0..(2 * D - 1) : x = c + k
    BY <1>1
  <1>3. x % D = IF x < D THEN x ELSE x - D
    BY WrapOnce
  <1> QED
    BY <1>1, <1>2, <1>3 DEF Up

(* Steps up add. *)
LEMMA UpUp ==
    ASSUME NEW N \in Nat \ {0}, NEW c \in 0..(2 * N - 1),
           NEW a \in Nat, NEW b \in Nat, a + b <= 2 * N
    PROVE  Up(N, Up(N, c, a), b) = Up(N, c, a + b)
  BY DEF Up

(* The wrapped difference of two indices is their distance. *)
LEMMA UpMinus ==
    ASSUME NEW N \in Nat \ {0}, NEW c \in 0..(2 * N - 1),
           NEW a \in 0..N, NEW b \in 0..N, b <= a
    PROVE  (Up(N, c, a) - Up(N, c, b)) % (2 * N) = a - b
  <1>1. PICK D \in Nat \ {0} : D = 2 * N
    OBVIOUS
  <1>2. PICK x \in 0..(D - 1), y \in 0..(D - 1) : x = Up(N, c, a) /\ y = Up(N, c, b)
    <2>1. Up(N, c, a) \in 0..(2 * N - 1) /\ Up(N, c, b) \in 0..(2 * N - 1)
      BY DEF Up
    <2> QED
      BY <1>1, <2>1
  <1>3. (x - y) % D = IF x >= y THEN x - y ELSE x - y + D
    BY WrapBack
  <1>4. (IF x >= y THEN x - y ELSE x - y + D) = a - b
    BY <1>1, <1>2 DEF Up
  <1> QED
    BY <1>1, <1>2, <1>3, <1>4

(* The slot of an index that wrapped is the slot of the index. *)
LEMMA UpSlot ==
    ASSUME NEW N \in Nat \ {0}, NEW c \in 0..(2 * N - 1), NEW k \in 0..(2 * N), NEW j \in Nat
    PROVE  (Up(N, c, k) + j) % N = (c + k + j) % N
  <1>1. c + k \in 0..(4 * N - 1)
    OBVIOUS
  <1>2. (((c + k) % (2 * N)) + j) % N = (c + k + j) % N
    BY <1>1, ModWrap
  <1> QED
    BY <1>2, UpIs
-----------------------------------------------------------------------------
(* A ring of N entries, and its form: from `cons` on p entries are with    *)
(* the kernel, m are reserved and not submitted, e are known to be free.   *)
RingOf(N) ==
    [size : {N}, prod : 0..(2 * N - 1), cons : 0..(2 * N - 1),
     cprod : 0..(2 * N - 1), ccons : 0..(2 * N - 1), slot : [0..(N - 1) -> Frame]]

Form(r, N, p, m, e) ==
    /\ r \in RingOf(N)
    /\ p \in Nat /\ m \in Nat /\ e \in Nat /\ p + m + e <= N
    /\ r.prod = Up(N, r.cons, p)
    /\ r.cprod = Up(N, r.cons, p + m)
    /\ r.ccons = Up(N, r.cons, p + m + e)

SetCcons(r, i) == [r EXCEPT !.ccons = i]
SetCprod(r, i) == [r EXCEPT !.cprod = i]
SetProd(r, i) == [r EXCEPT !.prod = i]
SetCons(r, i) == [r EXCEPT !.cons = i]
SetSlot(r, s) == [r EXCEPT !.slot = s]

(* A ring by its fields. *)
IsRing(t, N, prod, cons, cprod, ccons, slot) ==
    /\ t \in RingOf(N)
    /\ t.prod = prod /\ t.cons = cons /\ t.cprod = cprod /\ t.ccons = ccons /\ t.slot = slot

(* The fields after an update of one index. *)
LEMMA RingShapes ==
    ASSUME NEW N, NEW r \in RingOf(N), NEW i \in 0..(2 * N - 1)
    PROVE  /\ IsRing(SetCcons(r, i), N, r.prod, r.cons, r.cprod, i, r.slot)
           /\ IsRing(SetCprod(r, i), N, r.prod, r.cons, i, r.ccons, r.slot)
           /\ IsRing(SetProd(r, i), N, i, r.cons, r.cprod, r.ccons, r.slot)
           /\ IsRing(SetCons(r, i), N, r.prod, i, r.cprod, r.ccons, r.slot)
  <1>1. IsRing(SetCcons(r, i), N, r.prod, r.cons, r.cprod, i, r.slot)
    BY DEF IsRing, RingOf, SetCcons
  <1>2. IsRing(SetCprod(r, i), N, r.prod, r.cons, i, r.ccons, r.slot)
    BY DEF IsRing, RingOf, SetCprod
  <1>3. IsRing(SetProd(r, i), N, i, r.cons, r.cprod, r.ccons, r.slot)
    BY DEF IsRing, RingOf, SetProd
  <1>4. IsRing(SetCons(r, i), N, r.prod, i, r.cprod, r.ccons, r.slot)
    BY DEF IsRing, RingOf, SetCons
  <1> QED
    BY <1>1, <1>2, <1>3, <1>4

(* The fields after an update of the slots. *)
LEMMA RingSlots ==
    ASSUME NEW N, NEW r \in RingOf(N), NEW s \in [0..(N - 1) -> Frame]
    PROVE  IsRing(SetSlot(r, s), N, r.prod, r.cons, r.cprod, r.ccons, s)
  BY DEF IsRing, RingOf, SetSlot

(* What the library reads off a ring. *)
LEMMA FormReads ==
    ASSUME NEW N \in Nat \ {0}, NEW r, NEW p, NEW m, NEW e, Form(r, N, p, m, e)
    PROVE  Pending(r) = p /\ FreeEntries(r) = e
  <1>1. r.size = N /\ r.cons \in 0..(2 * N - 1)
    BY DEF Form, RingOf
  <1>2. /\ p \in 0..N /\ 0 \in 0..N /\ p + m \in 0..N /\ p + m + e \in 0..N
        /\ 0 <= p /\ p + m <= p + m + e
    BY DEF Form
  <1>3. r.cons = Up(N, r.cons, 0)
    BY <1>1 DEF Up
  <1>4. Pending(r) = (Up(N, r.cons, p) - Up(N, r.cons, 0)) % (2 * N)
    BY <1>1, <1>3 DEF Pending, Wrap, Form
  <1>5. FreeEntries(r) = (Up(N, r.cons, p + m + e) - Up(N, r.cons, p + m)) % (2 * N)
    BY <1>1 DEF FreeEntries, Wrap, Form
  <1>6. PICK c \in 0..(2 * N - 1), x \in 0..N, y \in 0..N :
           c = r.cons /\ x = p + m /\ y = p + m + e /\ x <= y
    BY <1>1, <1>2
  <1>7. Pending(r) = p
    <2>1. (Up(N, c, p) - Up(N, c, 0)) % (2 * N) = p - 0
      BY <1>2, UpMinus
    <2>2. p - 0 = p
      BY <1>2
    <2> QED
      BY <1>4, <1>6, <2>1, <2>2, Zenon
  <1>8. FreeEntries(r) = y - x
    <2>1. (Up(N, c, y) - Up(N, c, x)) % (2 * N) = y - x
      BY <1>6, UpMinus
    <2> QED
      BY <1>5, <1>6, <2>1, Zenon
  <1>9. e = y - x
    BY <1>6 DEF Form
  <1> QED
    BY <1>7, <1>8, <1>9, Zenon

SameSlots(t, r) == t.slot = r.slot /\ t.cons = r.cons

(* xsk_prod_nb_free *)
LEMMA FormFree ==
    ASSUME NEW N \in Nat \ {0}, NEW r, NEW p, NEW m, NEW e, Form(r, N, p, m, e), NEW nb \in Nat
    PROVE  \E x \in Nat : Form(NbFree(r, nb), N, p, m, x) /\ SameSlots(NbFree(r, nb), r)
  <1>1. FreeEntries(r) = e
    BY FormReads
  <1>2. CASE e >= nb
    <2>1. NbFree(r, nb) = r
      BY <1>1, <1>2 DEF NbFree
    <2> QED
      BY <2>1 DEF Form, SameSlots
  <1>3. CASE ~(e >= nb)
    <2>1. r.size = N /\ r.cons \in 0..(2 * N - 1) /\ r \in RingOf(N)
      BY DEF Form, RingOf
    <2>2. PICK i \in 0..(2 * N - 1) : i = Up(N, r.cons, N) /\ (r.cons + N) % (2 * N) = i
      <3>1. N \in 0..(2 * N)
        OBVIOUS
      <3> QED
        BY <2>1, <3>1, UpIs
    <2>3. NbFree(r, nb) = SetCcons(r, i)
      BY <1>1, <1>3, <2>1, <2>2 DEF NbFree, Wrap, SetCcons
    <2>4. PICK t : t = SetCcons(r, i)
      OBVIOUS
    <2>5. t \in RingOf(N) /\ SameSlots(t, r) /\ t.prod = r.prod /\ t.cprod = r.cprod /\ t.ccons = i
      <3>1. IsRing(t, N, r.prod, r.cons, r.cprod, i, r.slot)
        BY <2>1, <2>4, RingShapes
      <3> QED
        BY <3>1 DEF IsRing, SameSlots
    <2>6. PICK x \in Nat : x = N - p - m
      BY DEF Form
    <2>7. p + m + x = N
      BY <2>6 DEF Form
    <2>8. Form(t, N, p, m, x)
      BY <2>2, <2>5, <2>7 DEF Form, SameSlots
    <2> QED
      BY <2>3, <2>4, <2>5, <2>8
  <1> QED
    BY <1>2, <1>3

(* xsk_ring_prod__reserve *)
LEMMA FormReserve ==
    ASSUME NEW N \in Nat \ {0}, NEW r, NEW p, NEW m, NEW e, Form(r, N, p, m, e), NEW nb \in Nat
    PROVE  /\ SameSlots(Reserve(r, nb), r)
           /\ CanReserve(r, nb) => \E x \in Nat : Form(Reserve(r, nb), N, p, m + nb, x)
           /\ ~CanReserve(r, nb) => \E x \in Nat : Form(Reserve(r, nb), N, p, m, x)
  <1>1. PICK t, x : t = NbFree(r, nb) /\ x \in Nat /\ Form(t, N, p, m, x) /\ SameSlots(t, r)
    BY FormFree
  <1>2. FreeEntries(t) = x
    BY <1>1, FormReads
  <1>3. CASE ~CanReserve(r, nb)
    <2>1. Reserve(r, nb) = t
      BY <1>1, <1>3 DEF Reserve
    <2> QED
      BY <1>1, <1>3, <2>1
  <1>4. CASE CanReserve(r, nb)
    <2>1. x >= nb
      BY <1>1, <1>2, <1>4 DEF CanReserve
    <2>2. /\ r.size = N /\ t \in RingOf(N) /\ t.cons \in 0..(2 * N - 1)
          /\ t.slot \in [0..(N - 1) -> Frame] /\ t.cprod \in 0..(2 * N - 1)
      BY <1>1 DEF Form, RingOf
    <2>3. /\ p + m \in Nat /\ p + m + nb <= 2 * N /\ p + m \in 0..(2 * N) /\ nb \in 0..(2 * N)
          /\ p \in Nat /\ m \in Nat /\ p + m + x <= N
      BY <1>1, <2>1 DEF Form
    <2>4. PICK i \in 0..(2 * N - 1) :
             i = (t.cprod + nb) % (2 * N) /\ i = Up(N, t.cons, p + m + nb)
      <3>1. t.cprod = Up(N, t.cons, p + m)
        BY <1>1 DEF Form
      <3>2. (t.cprod + nb) % (2 * N) = Up(N, t.cprod, nb) /\ Up(N, t.cprod, nb) \in 0..(2 * N - 1)
        BY <2>2, <2>3, UpIs
      <3>3. Up(N, Up(N, t.cons, p + m), nb) = Up(N, t.cons, p + m + nb)
        <4>1. PICK q \in Nat, c \in 0..(2 * N - 1) : q = p + m /\ c = t.cons
          BY <2>2, <2>3
        <4>2. q + nb <= 2 * N
          BY <2>3, <4>1
        <4>3. Up(N, Up(N, c, q), nb) = Up(N, c, q + nb)
          BY <4>2, UpUp
        <4> QED
          BY <4>1, <4>3
      <3> QED
        BY <3>1, <3>2, <3>3
    <2>5. Reserve(r, nb) = SetCprod(t, i)
      BY <1>1, <1>4, <2>2, <2>4 DEF Reserve, Wrap, SetCprod
    <2>6. PICK u : u = SetCprod(t, i)
      OBVIOUS
    <2>7. u \in RingOf(N) /\ SameSlots(u, t) /\ u.prod = t.prod /\ u.cprod = i /\ u.ccons = t.ccons
      <3>1. IsRing(u, N, t.prod, t.cons, i, t.ccons, t.slot)
        BY <2>2, <2>6, RingShapes
      <3> QED
        BY <3>1 DEF IsRing, SameSlots
    <2>8. PICK y \in Nat : y = x - nb
      BY <1>1, <2>1
    <2>9. p + (m + nb) + y = p + m + x /\ p + (m + nb) = p + m + nb /\ m + nb \in Nat
      BY <1>1, <2>3, <2>8
    <2>10. Form(u, N, p, m + nb, y)
      BY <1>1, <2>3, <2>4, <2>7, <2>9 DEF Form, SameSlots
    <2> QED
      BY <1>1, <1>4, <2>5, <2>6, <2>7, <2>10 DEF SameSlots
  <1> QED
    BY <1>3, <1>4

(* xsk_ring_prod__submit *)
LEMMA FormSubmit ==
    ASSUME NEW N \in Nat \ {0}, NEW r, NEW p, NEW m, NEW e, Form(r, N, p, m, e),
           NEW k \in Nat, k <= m
    PROVE  Form(Submit(r, k), N, p + k, m - k, e) /\ SameSlots(Submit(r, k), r)
  <1>1. /\ r.size = N /\ r \in RingOf(N) /\ r.cons \in 0..(2 * N - 1)
        /\ r.slot \in [0..(N - 1) -> Frame] /\ r.prod \in 0..(2 * N - 1)
    BY DEF Form, RingOf
  <1>2. /\ p \in Nat /\ m \in Nat /\ p + k <= 2 * N /\ k \in 0..(2 * N) /\ p + m + e <= N
    BY DEF Form
  <1>3. PICK i \in 0..(2 * N - 1) : i = (r.prod + k) % (2 * N) /\ i = Up(N, r.cons, p + k)
    <2>1. r.prod = Up(N, r.cons, p)
      BY DEF Form
    <2>2. (r.prod + k) % (2 * N) = Up(N, r.prod, k) /\ Up(N, r.prod, k) \in 0..(2 * N - 1)
      BY <1>1, <1>2, UpIs
    <2>3. Up(N, Up(N, r.cons, p), k) = Up(N, r.cons, p + k)
      <3>1. PICK c \in 0..(2 * N - 1) : c = r.cons
        BY <1>1
      <3>2. p + k <= 2 * N /\ p \in Nat
        BY <1>2
      <3>3. Up(N, Up(N, c, p), k) = Up(N, c, p + k)
        BY <3>2, UpUp
      <3> QED
        BY <3>1, <3>3
    <2> QED
      BY <2>1, <2>2, <2>3
  <1>4. Submit(r, k) = SetProd(r, i)
    BY <1>1, <1>3 DEF Submit, Wrap, SetProd
  <1>5. PICK u : u = SetProd(r, i)
    OBVIOUS
  <1>6. u \in RingOf(N) /\ SameSlots(u, r) /\ u.prod = i /\ u.cprod = r.cprod /\ u.ccons = r.ccons
    <2>1. IsRing(u, N, i, r.cons, r.cprod, r.ccons, r.slot)
      BY <1>1, <1>5, RingShapes
    <2> QED
      BY <2>1 DEF IsRing, SameSlots
  <1>7. p + k \in Nat /\ m - k \in Nat /\ (p + k) + (m - k) = p + m /\ (p + k) + (m - k) + e = p + m + e
    BY <1>2 DEF Form
  <1>8. Form(u, N, p + k, m - k, e)
    BY <1>3, <1>6, <1>7 DEF Form, SameSlots
  <1> QED
    BY <1>4, <1>5, <1>6, <1>8

(* The kernel takes the oldest entry. *)
LEMMA FormTakes ==
    ASSUME NEW N \in Nat \ {0}, NEW r, NEW p, NEW m, NEW e, Form(r, N, p, m, e), p > 0
    PROVE  /\ Form(KernelTakes(r), N, p - 1, m, e)
           /\ KernelTakes(r).slot = r.slot /\ KernelTakes(r).cons = Up(N, r.cons, 1)
  <1>1. /\ r.size = N /\ r \in RingOf(N) /\ r.cons \in 0..(2 * N - 1)
        /\ r.slot \in [0..(N - 1) -> Frame]
    BY DEF Form, RingOf
  <1>2. p \in Nat /\ m \in Nat /\ e \in Nat /\ p + m + e <= N /\ 1 \in 0..(2 * N)
    BY DEF Form
  <1>3. PICK i \in 0..(2 * N - 1) : i = (r.cons + 1) % (2 * N) /\ i = Up(N, r.cons, 1)
    BY <1>1, <1>2, UpIs
  <1>4. KernelTakes(r) = SetCons(r, i)
    BY <1>1, <1>3 DEF KernelTakes, Wrap, SetCons
  <1>5. PICK u : u = SetCons(r, i)
    OBVIOUS
  <1>6. /\ u \in RingOf(N) /\ u.slot = r.slot /\ u.cons = i
        /\ u.prod = r.prod /\ u.cprod = r.cprod /\ u.ccons = r.ccons
    <2>1. IsRing(u, N, r.prod, i, r.cprod, r.ccons, r.slot)
      BY <1>1, <1>5, RingShapes
    <2> QED
      BY <2>1 DEF IsRing
  <1>7. p - 1 \in Nat /\ (p - 1) + m + e <= N
    BY <1>2
  <1>8. ASSUME NEW a \in Nat, a >= 1, a <= N PROVE Up(N, r.cons, a) = Up(N, i, a - 1)
    <2>1. Up(N, Up(N, r.cons, 1), a - 1) = Up(N, r.cons, 1 + (a - 1))
      <3>1. PICK b \in Nat, c \in 0..(2 * N - 1) : b = a - 1 /\ c = r.cons
        <4>1. a - 1 \in Nat
          BY <1>8
        <4> QED
          BY <1>1, <4>1
      <3>2. 1 + b <= 2 * N
        BY <1>8, <3>1
      <3>3. Up(N, Up(N, c, 1), b) = Up(N, c, 1 + b)
        BY <3>2, UpUp
      <3> QED
        BY <3>1, <3>3
    <2>2. 1 + (a - 1) = a
      OBVIOUS
    <2> QED
      BY <1>3, <2>1, <2>2
  <1>9. /\ Up(N, r.cons, p) = Up(N, i, p - 1)
        /\ Up(N, r.cons, p + m) = Up(N, i, (p - 1) + m)
        /\ Up(N, r.cons, p + m + e) = Up(N, i, (p - 1) + m + e)
    <2>1. /\ p + m - 1 = (p - 1) + m /\ p + m + e - 1 = (p - 1) + m + e
          /\ p + m \in Nat /\ p + m + e \in Nat /\ p >= 1 /\ p + m >= 1 /\ p + m + e >= 1
          /\ p <= N /\ p + m <= N
      BY <1>2
    <2> QED
      BY <1>2, <1>8, <2>1
  <1>10. Form(u, N, p - 1, m, e)
    BY <1>2, <1>6, <1>7, <1>9 DEF Form
  <1> QED
    BY <1>3, <1>4, <1>5, <1>6, <1>10
-----------------------------------------------------------------------------
(* What n consecutive slots hold, from index b on, and which they are. *)
At(slot, N, x) == slot[x % N]
Held(slot, N, b, n) == [k \in 1..n |-> At(slot, N, b + k - 1)]
Places(N, b, n) == {(b + j) % N : j \in 0..(n - 1)}
Slots(N) == [0..(N - 1) -> Frame]

HoldsOf(s, slot, N, b, n) ==
    /\ s \in Seq(Frame) /\ Len(s) = n
    /\ \A k \in 1..n : s[k] = At(slot, N, b + k - 1)

(* What Held returns, entry by entry. *)
LEMMA HeldIs ==
    ASSUME NEW N \in Nat \ {0}, NEW slot \in Slots(N), NEW b \in Nat, NEW n \in Nat
    PROVE  HoldsOf(Held(slot, N, b, n), slot, N, b, n)
  <1>1. \A k \in 1..n : At(slot, N, b + k - 1) \in Frame
    <2> TAKE k \in 1..n
    <2>1. PICK x \in Nat : x = b + k - 1
      OBVIOUS
    <2>2. x % N \in 0..(N - 1)
      BY SlotRange
    <2> QED
      BY <2>1, <2>2 DEF At, Slots
  <1> DEFINE g == [k \in 1..n |-> At(slot, N, b + k - 1)]
  <1>2. DOMAIN g = 1..n /\ \A k \in 1..n : g[k] = At(slot, N, b + k - 1)
    OBVIOUS
  <1>3. g \in [1..n -> Frame]
    BY <1>1
  <1> HIDE DEF g
  <1>4. g \in Seq(Frame) /\ Len(g) = n
    BY <1>3
  <1> QED
    BY <1>2, <1>4 DEF Held, HoldsOf, g

(* A run of h entries from c on, split after a entries. *)
Splits(c, a, b, g, h) == c \in Nat /\ a \in Nat /\ b \in Nat /\ g = c + a /\ h = a + b

(* Entries split where an index lies between them. *)
LEMMA HeldSplit ==
    ASSUME NEW N \in Nat \ {0}, NEW slot \in Slots(N),
           NEW c, NEW a, NEW b, NEW g, NEW h, Splits(c, a, b, g, h)
    PROVE  Held(slot, N, c, h) = Held(slot, N, c, a) \o Held(slot, N, g, b)
  <1>1. c \in Nat /\ a \in Nat /\ b \in Nat /\ g \in Nat /\ h \in Nat /\ g = c + a /\ h = a + b
    BY DEF Splits
  <1>2. PICK u : u = Held(slot, N, c, a) /\ HoldsOf(u, slot, N, c, a)
    BY <1>1, HeldIs
  <1>3. PICK v : v = Held(slot, N, g, b) /\ HoldsOf(v, slot, N, g, b)
    BY <1>1, HeldIs
  <1>4. PICK w : w = Held(slot, N, c, h) /\ HoldsOf(w, slot, N, c, h)
    BY <1>1, HeldIs
  <1>a. u \in Seq(Frame) /\ Len(u) = a /\ \A k \in 1..a : u[k] = At(slot, N, c + k - 1)
    BY <1>2, Zenon DEF HoldsOf
  <1>b. v \in Seq(Frame) /\ Len(v) = b /\ \A k \in 1..b : v[k] = At(slot, N, g + k - 1)
    BY <1>3, Zenon DEF HoldsOf
  <1>c. w \in Seq(Frame) /\ Len(w) = h /\ \A k \in 1..h : w[k] = At(slot, N, c + k - 1)
    BY <1>4, Zenon DEF HoldsOf
  <1>5. PICK x \in Seq(Frame) :
           /\ x = u \o v /\ Len(x) = h
           /\ \A i \in 1..h : x[i] = IF i <= a THEN u[i] ELSE v[i - a]
    <2>1. u \o v \in Seq(Frame) /\ Len(u \o v) = h
      BY <1>1, <1>a, <1>b
    <2>2. \A i \in 1..h : (u \o v)[i] = IF i <= a THEN u[i] ELSE v[i - a]
      <3>1. Len(u) = a /\ Len(v) = b /\ u \in Seq(Frame) /\ v \in Seq(Frame) /\ h = a + b
        BY <1>1, <1>a, <1>b
      <3> QED
        BY ONLY <3>1
    <2> QED
      BY <2>1, <2>2
  <1>6. ASSUME NEW i \in 1..h PROVE w[i] = x[i]
    <2>1. CASE i <= a
      <3>1. i \in 1..a
        BY <2>1
      <3> QED
        BY <1>a, <1>c, <1>5, <2>1, <3>1
    <2>2. CASE i > a
      <3>1. PICK k \in 1..b : k = i - a
        BY <1>1, <2>2
      <3>2. g + k - 1 = c + i - 1
        BY <1>1, <3>1
      <3> QED
        <4>1. w[i] = At(slot, N, c + i - 1)
          BY <1>c, Zenon
        <4>2. x[i] = v[k]
          <5>1. x[i] = IF i <= a THEN u[i] ELSE v[i - a]
            BY <1>5, Zenon
          <5>2. ~(i <= a)
            BY <1>1, <2>2
          <5> QED
            BY <3>1, <5>1, <5>2, Zenon
        <4>3. v[k] = At(slot, N, g + k - 1)
          BY <1>b, Zenon
        <4> QED
          BY <3>2, <4>1, <4>2, <4>3, Zenon
    <2> QED
      BY <1>1, <2>1, <2>2
  <1>7. w = x
    BY <1>c, <1>5, <1>6, SeqEqual
  <1> QED
    BY <1>1, <1>2, <1>3, <1>4, <1>5, <1>7

(* Slots that a write does not touch. *)
SameAt(slot, other, N, b, n) ==
    \A j \in 0..(n - 1) : At(slot, N, b + j) = At(other, N, b + j)

(* Entries that were not written stay. *)
LEMMA HeldKept ==
    ASSUME NEW N, NEW slot, NEW other, NEW b \in Nat, NEW n \in Nat,
           SameAt(slot, other, N, b, n)
    PROVE  Held(slot, N, b, n) = Held(other, N, b, n)
  <1>1. ASSUME NEW k \in 1..n PROVE At(slot, N, b + k - 1) = At(other, N, b + k - 1)
    <2>1. PICK j \in 0..(n - 1) : j = k - 1
      OBVIOUS
    <2>2. b + k - 1 = b + j
      BY <2>1
    <2> QED
      BY <2>1, <2>2 DEF SameAt
  <1> QED
    BY <1>1 DEF Held

(* The same slots under an index that wrapped. *)
LEMMA HeldUp ==
    ASSUME NEW N \in Nat \ {0}, NEW slot, NEW c \in 0..(2 * N - 1), NEW m \in 0..(2 * N),
           NEW d \in Nat, NEW n \in Nat
    PROVE  /\ Held(slot, N, Up(N, c, m) + d, n) = Held(slot, N, c + m + d, n)
           /\ Places(N, Up(N, c, m) + d, n) = Places(N, c + m + d, n)
  <1>1. PICK x \in Nat : x = Up(N, c, m)
    BY UpIs
  <1>2. ASSUME NEW j \in Nat PROVE (x + d + j) % N = (c + m + d + j) % N
    <2>1. PICK l \in Nat : l = d + j
      OBVIOUS
    <2>2. (x + l) % N = (c + m + l) % N
      BY <1>1, UpSlot
    <2>3. x + d + j = x + l /\ c + m + d + j = c + m + l
      BY <2>1
    <2> QED
      BY <2>2, <2>3
  <1>3. ASSUME NEW k \in 1..n PROVE At(slot, N, x + d + k - 1) = At(slot, N, c + m + d + k - 1)
    <2>1. PICK j \in Nat : j = k - 1
      OBVIOUS
    <2>2. x + d + k - 1 = x + d + j /\ c + m + d + k - 1 = c + m + d + j
      BY <2>1
    <2> QED
      BY <1>2, <2>2 DEF At
  <1>4. Places(N, x + d, n) = Places(N, c + m + d, n)
    <2>1. ASSUME NEW j \in 0..(n - 1) PROVE (x + d + j) % N = (c + m + d + j) % N
      <3>1. j \in Nat
        OBVIOUS
      <3> QED
        BY <1>2, <3>1, Zenon
    <2> HIDE <1>2
    <2>2. PICK y, z : y = x + d /\ z = c + m + d
      OBVIOUS
    <2>3. \A j \in 0..(n - 1) : (y + j) % N = (z + j) % N
      BY <2>1, <2>2
    <2>4. Places(N, y, n) = Places(N, z, n)
      BY <2>3, Zenon DEF Places
    <2> QED
      BY <2>2, <2>4
  <1>5. Held(slot, N, x + d, n) = Held(slot, N, c + m + d, n)
    BY <1>3 DEF Held
  <1> QED
    BY <1>1, <1>4, <1>5

(* Counting in at most N consecutive slots. *)
LEMMA HeldCount ==
    ASSUME NEW N \in Nat \ {0}, NEW slot \in Slots(N), NEW b \in Nat,
           NEW n \in Nat, n <= N, NEW f
    PROVE  Cardinality({i \in Places(N, b, n) : slot[i] = f}) = Count(f, Held(slot, N, b, n))
  <1> DEFINE s == Held(slot, N, b, n)
             K == {k \in 1..n : s[k] = f}
             I == {i \in Places(N, b, n) : slot[i] = f}
             h == [k \in K |-> (b + k - 1) % N]
  <1>1. \A k \in 1..n : s[k] = slot[(b + k - 1) % N]
    BY DEF Held, At
  <1>2. DOMAIN s = 1..n
    BY DEF Held
  <1> HIDE DEF s
  <1>3. \A k \in K : h[k] = (b + k - 1) % N /\ k \in 1..n /\ slot[(b + k - 1) % N] = f
    BY <1>1
  <1>4. h \in [K -> I]
    <2> SUFFICES ASSUME NEW k \in K PROVE (b + k - 1) % N \in I
      OBVIOUS
    <2>1. PICK j \in 0..(n - 1) : j = k - 1
      BY <1>3
    <2>2. b + k - 1 = b + j
      BY <1>3, <2>1
    <2> QED
      BY <1>3, <2>1, <2>2 DEF Places
  <1>5. ASSUME NEW k \in K, NEW l \in K, h[k] = h[l] PROVE k = l
    <2>1. k \in 1..n /\ l \in 1..n /\ (b + k - 1) % N = (b + l - 1) % N
      BY <1>3, <1>5
    <2>2. PICK x \in Nat, y \in Nat : x = b + k - 1 /\ y = b + l - 1
      BY <2>1
    <2>3. x % N = y % N
      BY <2>1, <2>2
    <2>4. ~(x < y) /\ ~(y < x)
      <3>1. x < y + N /\ y < x + N
        BY <2>1, <2>2
      <3> QED
        BY <2>3, <3>1, SlotsDiffer
    <2> QED
      BY <2>1, <2>2, <2>4
  <1>6. ASSUME NEW i \in I PROVE \E k \in K : h[k] = i
    <2>1. PICK j \in 0..(n - 1) : i = (b + j) % N
      BY DEF Places
    <2>2. PICK k \in 1..n : k = j + 1
      OBVIOUS
    <2>3. b + k - 1 = b + j
      BY <2>2
    <2>4. s[k] = f
      BY <1>1, <2>1, <2>3
    <2> QED
      BY <1>3, <2>1, <2>3, <2>4
  <1>7. IsFiniteSet(K)
    <2>1. IsFiniteSet(1..n)
      BY FS_Interval
    <2> QED
      BY <2>1, FS_Subset
  <1> HIDE DEF h, K, I
  <1>8. h \in Bijection(K, I)
    BY <1>4, <1>5, <1>6 DEF Bijection, Injection, Surjection, IsInjective
  <1>9. Cardinality(K) = Cardinality(I)
    BY <1>7, <1>8, FS_Bijection DEF ExistsBijection
  <1> QED
    BY <1>2, <1>9 DEF Count, K, I, s

(* The entries the kernel may read, and those from `prod` on. *)
Shown(r, N, p) == Held(r.slot, N, r.cons, p)
Hidden(r, N, p, n) == Held(r.slot, N, r.cons + p, n)

(* The entries the kernel may read, as a sequence. *)
LEMMA OccursInIs ==
    ASSUME NEW N \in Nat \ {0}, NEW r, NEW p, NEW m, NEW e, Form(r, N, p, m, e), NEW f
    PROVE  OccursIn(f, r) = Count(f, Shown(r, N, p))
  <1>1. PICK c \in Nat, slot \in Slots(N) : c = r.cons /\ slot = r.slot
    BY DEF Form, RingOf, Slots
  <1>2. r.size = N /\ p \in Nat /\ p <= N
    BY DEF Form, RingOf
  <1>3. Visible(r) = Places(N, c, p)
    BY <1>1, <1>2, FormReads DEF Visible, SlotOf, Places
  <1>4. Cardinality({i \in Places(N, c, p) : slot[i] = f}) = Count(f, Held(slot, N, c, p))
    BY <1>2, HeldCount
  <1> QED
    BY <1>1, <1>3, <1>4 DEF OccursIn, Shown

(* The entries written and not submitted, as a sequence. *)
LEMMA UnsubmittedIs ==
    ASSUME NEW N \in Nat \ {0}, NEW r, NEW p, NEW m, NEW e, Form(r, N, p, m, e), NEW f,
           NEW n \in Nat, n <= m
    PROVE  Cardinality({i \in {SlotOf(r, r.prod + j) : j \in 0..(n - 1)} : r.slot[i] = f})
           = Count(f, Hidden(r, N, p, n))
  <1>1. PICK c \in 0..(2 * N - 1), slot \in Slots(N) : c = r.cons /\ slot = r.slot
    BY DEF Form, RingOf, Slots
  <1>2. r.size = N /\ p \in Nat /\ p <= N /\ n <= N /\ r.prod = Up(N, c, p)
    BY <1>1 DEF Form, RingOf
  <1>3. PICK x \in Nat : x = r.prod
    BY DEF Form, RingOf
  <1>4. {SlotOf(r, r.prod + j) : j \in 0..(n - 1)} = Places(N, x, n)
    BY <1>2, <1>3 DEF SlotOf, Places
  <1>5. PICK b \in Nat : b = c + p
    BY <1>2
  <1>6. Places(N, x, n) = Places(N, b, n)
    <2>1. p \in 0..(2 * N)
      BY <1>2
    <2>2. PICK q \in 0..(2 * N), z \in Nat : q = p /\ z = 0
      BY <2>1
    <2>3. /\ Held(slot, N, Up(N, c, q) + z, n) = Held(slot, N, c + q + z, n)
          /\ Places(N, Up(N, c, q) + z, n) = Places(N, c + q + z, n)
      BY HeldUp
    <2>4. Up(N, c, q) + z = x /\ c + q + z = b
      <3>1. Up(N, c, q) = x
        BY <1>2, <1>3, <2>2, Zenon
      <3>2. x + 0 = x /\ c + q + 0 = b
        BY <1>5, <2>2
      <3> QED
        BY <2>2, <3>1, <3>2, Zenon
    <2> QED
      BY <2>3, <2>4
  <1>7. Cardinality({i \in Places(N, b, n) : slot[i] = f}) = Count(f, Held(slot, N, b, n))
    BY <1>2, HeldCount
  <1> QED
    BY <1>1, <1>4, <1>5, <1>6, <1>7 DEF Hidden
-----------------------------------------------------------------------------
(* Sequences that are reversed. *)
LEMMA ReverseIs ==
    ASSUME NEW S, NEW s \in Seq(S)
    PROVE  /\ Reverse(s) \in Seq(S) /\ Len(Reverse(s)) = Len(s)
           /\ \A i \in 1..Len(s) : Reverse(s)[i] = s[Len(s) - i + 1]
  <1>1. PICK n \in Nat : n = Len(s)
    OBVIOUS
  <1>2. \A i \in 1..n : n - i + 1 \in 1..n
    OBVIOUS
  <1>3. \A i \in 1..n : s[i] \in S
    BY <1>1
  <1>4. \A i \in 1..n : s[n - i + 1] \in S
    BY <1>2, <1>3
  <1> DEFINE g == [i \in 1..n |-> s[n - i + 1]]
  <1>5. g \in [1..n -> S] /\ \A i \in 1..n : g[i] = s[n - i + 1]
    BY <1>4
  <1> HIDE DEF g
  <1>6. g \in Seq(S) /\ Len(g) = n
    BY <1>5
  <1>7. Reverse(s) = g
    BY <1>1 DEF Reverse, g
  <1> QED
    BY <1>1, <1>5, <1>6, <1>7

(* Reversing twice. *)
LEMMA ReverseTwice ==
    ASSUME NEW S, NEW s \in Seq(S)
    PROVE  Reverse(Reverse(s)) = s
  <1>1. PICK n \in Nat : n = Len(s)
    OBVIOUS
  <1>2. PICK t \in Seq(S) :
           t = Reverse(s) /\ Len(t) = n /\ \A i \in 1..n : t[i] = s[n - i + 1]
    BY <1>1, ReverseIs
  <1>3. PICK u \in Seq(S) :
           u = Reverse(t) /\ Len(u) = n /\ \A i \in 1..n : u[i] = t[n - i + 1]
    <2>1. /\ Reverse(t) \in Seq(S) /\ Len(Reverse(t)) = Len(t)
          /\ \A i \in 1..Len(t) : Reverse(t)[i] = t[Len(t) - i + 1]
      BY ReverseIs
    <2> QED
      BY <1>2, <2>1, Zenon
  <1>4. ASSUME NEW i \in 1..n PROVE u[i] = s[i]
    <2>1. PICK j \in 1..n : j = n - i + 1
      OBVIOUS
    <2>2. n - j + 1 = i
      BY <2>1
    <2> QED
      BY <1>2, <1>3, <2>1, <2>2
  <1>5. u = s
    BY <1>1, <1>3, <1>4, SeqEqual
  <1> QED
    BY <1>2, <1>3, <1>5

(* The last element comes first in the reverse. *)
LEMMA ReverseLast ==
    ASSUME NEW S, NEW s \in Seq(S), s # <<>>
    PROVE  Reverse(s) = <<Last(s)>> \o Reverse(Front(s))
  <1>1. PICK n \in Nat : n = Len(s) /\ n # 0
    OBVIOUS
  <1>2. PICK f \in Seq(S) : f = Front(s) /\ Len(f) = n - 1 /\ \A i \in 1..(n - 1) : f[i] = s[i]
    BY <1>1, FrontAndLast
  <1>3. PICK e \in S : e = Last(s) /\ e = s[n]
    BY <1>1, FrontAndLast DEF Last
  <1>4. PICK t \in Seq(S) :
           t = Reverse(s) /\ Len(t) = n /\ \A i \in 1..n : t[i] = s[n - i + 1]
    BY <1>1, ReverseIs
  <1>5. PICK g \in Seq(S) :
           g = Reverse(f) /\ Len(g) = n - 1 /\ \A i \in 1..(n - 1) : g[i] = f[(n - 1) - i + 1]
    BY <1>2, ReverseIs
  <1>6. PICK u \in Seq(S) :
           u = <<e>> \o g /\ Len(u) = n /\ \A i \in 1..n : u[i] = IF i = 1 THEN e ELSE g[i - 1]
    <2>1. <<e>> \o g \in Seq(S) /\ Len(<<e>> \o g) = n
      BY <1>1, <1>5
    <2>2. \A i \in 1..n : (<<e>> \o g)[i] = IF i = 1 THEN e ELSE g[i - 1]
      BY <1>1, <1>5
    <2> QED
      BY <2>1, <2>2
  <1>7. ASSUME NEW i \in 1..n PROVE t[i] = u[i]
    <2>1. CASE i = 1
      BY <1>3, <1>4, <1>6, <2>1
    <2>2. CASE i # 1
      <3>1. PICK j \in 1..(n - 1) : j = i - 1
        BY <2>2
      <3>2. PICK k \in 1..(n - 1) : k = (n - 1) - j + 1
        OBVIOUS
      <3>3. k = n - i + 1
        BY <3>1, <3>2
      <3>4. u[i] = g[j]
        BY <1>6, <2>2, <3>1
      <3>5. g[j] = f[k] /\ f[k] = s[k]
        BY <1>2, <1>5, <3>2
      <3>6. t[i] = s[k]
        BY <1>4, <3>3
      <3> QED
        BY <3>4, <3>5, <3>6
    <2> QED
      BY <2>1, <2>2
  <1>8. t = u
    BY <1>4, <1>6, <1>7, SeqEqual
  <1> QED
    BY <1>2, <1>3, <1>4, <1>5, <1>6, <1>8
-----------------------------------------------------------------------------
(* The n oldest entries of a ring. *)
Line(r, N, n) == Held(r.slot, N, r.cons, n)

(* The oldest entries are frames. *)
LEMMA LineType ==
    ASSUME NEW N \in Nat \ {0}, NEW r \in RingOf(N), NEW n \in Nat
    PROVE  Line(r, N, n) \in Seq(Frame) /\ Len(Line(r, N, n)) = n
  <1>1. r.slot \in Slots(N) /\ r.cons \in Nat
    BY DEF RingOf, Slots
  <1>2. HoldsOf(Held(r.slot, N, r.cons, n), r.slot, N, r.cons, n)
    BY <1>1, HeldIs
  <1> QED
    BY <1>2 DEF HoldsOf, Line

(* What the kernel takes is the head of the line. *)
LEMMA LineTakes ==
    ASSUME NEW N \in Nat \ {0}, NEW r, NEW p, NEW m, NEW e, Form(r, N, p, m, e), p > 0,
           NEW n \in Nat
    PROVE  /\ r.slot[KernelSlot(r)] \in Frame
           /\ Line(r, N, 1 + n) = <<r.slot[KernelSlot(r)]>> \o Line(KernelTakes(r), N, n)
  <1>1. PICK slot \in Slots(N), c \in 0..(2 * N - 1) : slot = r.slot /\ c = r.cons /\ r.size = N
    BY DEF Form, RingOf, Slots
  <1>2. KernelTakes(r).slot = slot /\ KernelTakes(r).cons = Up(N, c, 1)
    BY <1>1, FormTakes
  <1>3. KernelSlot(r) = c % N /\ c % N \in 0..(N - 1)
    <2>1. c \in Nat
      OBVIOUS
    <2>2. c % N \in 0..(N - 1)
      BY <2>1, SlotRange
    <2> QED
      BY <1>1, <2>2 DEF KernelSlot, SlotOf
  <1>4. slot[c % N] \in Frame
    BY <1>3 DEF Slots
  <1>5. PICK one \in Nat : one = 1
    OBVIOUS
  <1>6. PICK h, b : /\ h = one + n /\ b = c + one
                    /\ Held(slot, N, c, h) = Held(slot, N, c, one) \o Held(slot, N, b, n)
    <2>1. c \in Nat
      OBVIOUS
    <2>2. PICK h, b : h = one + n /\ b = c + one
      OBVIOUS
    <2>3. Held(slot, N, c, h) = Held(slot, N, c, one) \o Held(slot, N, b, n)
      <3>1. Splits(c, one, n, b, h)
        BY <2>1, <2>2 DEF Splits
      <3> QED
        BY <3>1, HeldSplit
    <2> QED
      BY <2>2, <2>3
  <1>7. Held(slot, N, c, one) = <<slot[c % N]>>
    <2>1. c \in Nat
      OBVIOUS
    <2>2. HoldsOf(Held(slot, N, c, one), slot, N, c, one)
      BY <2>1, HeldIs
    <2>3. PICK s \in Seq(Frame) : s = Held(slot, N, c, one) /\ Len(s) = 1 /\ s[1] = At(slot, N, c + 1 - 1)
      BY <1>5, <2>2 DEF HoldsOf
    <2>4. c + 1 - 1 = c
      OBVIOUS
    <2>5. s[1] = slot[c % N]
      BY <2>3, <2>4, Zenon DEF At
    <2>6. s = <<slot[c % N]>>
      BY <1>4, <2>3, <2>5
    <2> QED
      BY <2>3, <2>6
  <1>8. Held(slot, N, Up(N, c, 1), n) = Held(slot, N, c + one, n)
    <2>1. PICK k \in 0..(2 * N), d \in Nat : k = 1 /\ d = 0
      OBVIOUS
    <2>2. Held(slot, N, Up(N, c, k) + d, n) = Held(slot, N, c + k + d, n)
      BY HeldUp
    <2>3. Up(N, c, k) + d = Up(N, c, 1) /\ c + k + d = c + one
      <3>1. Up(N, c, 1) \in Nat
        BY DEF Up
      <3> QED
        BY <1>5, <2>1, <3>1
    <2> QED
      BY <2>2, <2>3
  <1> QED
    BY <1>1, <1>2, <1>3, <1>4, <1>5, <1>6, <1>7, <1>8 DEF Line

(* A slot written n entries after the oldest one adds to the line. *)
PutSlot(r, i, g) == [r EXCEPT !.slot[i] = g]

(* Writing the entry behind the oldest n appends it to them. *)
LEMMA LinePut ==
    ASSUME NEW N \in Nat \ {0}, NEW r \in RingOf(N), NEW n \in Nat, n < N, NEW g \in Frame,
           NEW i, i = (r.cons + n) % N
    PROVE  /\ PutSlot(r, i, g) \in RingOf(N)
           /\ PutSlot(r, i, g).slot \in Slots(N)
           /\ IsRing(PutSlot(r, i, g), N, r.prod, r.cons, r.cprod, r.ccons, PutSlot(r, i, g).slot)
           /\ Line(PutSlot(r, i, g), N, n + 1) = Append(Line(r, N, n), g)
  <1>1. PICK slot \in Slots(N), c \in Nat : slot = r.slot /\ c = r.cons
    BY DEF RingOf, Slots
  <1>2. i \in 0..(N - 1) /\ i = (c + n) % N
    <2>1. c + n \in Nat
      OBVIOUS
    <2> QED
      BY <1>1, <2>1, SlotRange
  <1>3. PICK other \in Slots(N) :
           other = [slot EXCEPT ![i] = g] /\ other[i] = g
           /\ \A j \in 0..(N - 1) : j # i => other[j] = slot[j]
    <2> DEFINE o == [slot EXCEPT ![i] = g]
    <2>1. o \in Slots(N)
      BY DEF Slots
    <2>2. o[i] = g /\ \A j \in 0..(N - 1) : j # i => o[j] = slot[j]
      BY <1>2 DEF Slots
    <2> QED
      BY <2>1, <2>2
  <1>4. PutSlot(r, i, g) = SetSlot(r, other)
    BY <1>1, <1>3 DEF PutSlot, SetSlot, RingOf
  <1>5. PICK t : t = SetSlot(r, other)
    OBVIOUS
  <1>6. IsRing(t, N, r.prod, r.cons, r.cprod, r.ccons, other)
    BY <1>3, <1>5, RingSlots DEF Slots
  <1>7. t \in RingOf(N) /\ t.slot = other /\ t.cons = c
    BY <1>1, <1>6 DEF IsRing
  <1>8. ASSUME NEW j \in 0..(n - 1) PROVE At(slot, N, c + j) = At(other, N, c + j)
    <2>1. PICK x \in Nat, y \in Nat : x = c + j /\ y = c + n
      OBVIOUS
    <2>2. x % N # y % N /\ x % N \in 0..(N - 1)
      <3>1. x < y /\ y < x + N
        BY <2>1
      <3> QED
        BY <3>1, SlotsDiffer, SlotRange
    <2>3. other[x % N] = slot[x % N]
      BY <1>2, <1>3, <2>1, <2>2
    <2> QED
      BY <2>1, <2>3 DEF At
  <1>9. Held(slot, N, c, n) = Held(other, N, c, n)
    <2>1. SameAt(slot, other, N, c, n)
      BY <1>8 DEF SameAt
    <2> QED
      BY <2>1, HeldKept
  <1>10. PICK one \in Nat : one = 1
    OBVIOUS
  <1>11. PICK h, z : /\ h = n + one /\ z = c + n
                     /\ Held(other, N, c, h) = Held(other, N, c, n) \o Held(other, N, z, one)
    <2>1. PICK h, z : h = n + one /\ z = c + n
      OBVIOUS
    <2>2. Held(other, N, c, h) = Held(other, N, c, n) \o Held(other, N, z, one)
      <3>1. Splits(c, n, one, z, h)
        BY <2>1 DEF Splits
      <3> QED
        BY <3>1, HeldSplit
    <2> QED
      BY <2>1, <2>2
  <1>12. Held(other, N, c + n, one) = <<g>>
    <2>1. PICK b \in Nat : b = c + n
      OBVIOUS
    <2>2. HoldsOf(Held(other, N, b, one), other, N, b, one)
      BY HeldIs
    <2>3. PICK s \in Seq(Frame) : s = Held(other, N, b, one) /\ Len(s) = 1 /\ s[1] = At(other, N, b + 1 - 1)
      BY <1>10, <2>2 DEF HoldsOf
    <2>4. b + 1 - 1 = b
      OBVIOUS
    <2>5. s[1] = other[b % N]
      BY <2>3, <2>4, Zenon DEF At
    <2>6. s[1] = g
      BY <1>2, <1>3, <2>1, <2>5
    <2>7. s = <<g>>
      BY <2>3, <2>6
    <2> QED
      BY <2>1, <2>3, <2>7
  <1>13. Held(other, N, c, n) \in Seq(Frame)
    BY HeldIs DEF HoldsOf
  <1>14. Held(other, N, c, n) \o <<g>> = Append(Held(other, N, c, n), g)
    BY <1>13
  <1>15. Held(other, N, c, n + 1) = Append(Held(slot, N, c, n), g)
    BY <1>9, <1>10, <1>11, <1>12, <1>14
  <1> QED
    BY <1>1, <1>3, <1>4, <1>5, <1>6, <1>7, <1>15 DEF Line
-----------------------------------------------------------------------------
(* The TX ring t with cached slots tc and tf entries to flush: p entries   *)
(* are with the kernel, e are known to be free.                            *)
CachedFrom(tc, b) == \A k \in 1..Len(tc) : tc[k] = (b + k - 1) % TxSize
TxOk(t, tc, tf, p, e) ==
    /\ tc \in Seq(0..(TxSize - 1)) /\ tf \in Nat
    /\ Form(t, TxSize, p, tf + Len(tc), e)
    /\ CachedFrom(tc, t.cons + p + tf)

(* The numbers in a TX ring, and that they fit. *)
LEMMA TxNumbers ==
    ASSUME NEW t, NEW tc, NEW tf, NEW p, NEW e, TxOk(t, tc, tf, p, e)
    PROVE  /\ t \in RingOf(TxSize) /\ tc \in Seq(0..(TxSize - 1)) /\ tf \in Nat /\ p \in Nat /\ e \in Nat
           /\ Len(tc) \in Nat /\ p + tf + Len(tc) + e <= TxSize /\ t.cons \in 0..(2 * TxSize - 1)
           /\ t.size = TxSize
  <1>1. /\ t \in RingOf(TxSize) /\ tc \in Seq(0..(TxSize - 1)) /\ tf \in Nat
        /\ p \in Nat /\ e \in Nat /\ p + (tf + Len(tc)) + e <= TxSize
    BY DEF TxOk, Form
  <1>2. t.cons \in 0..(2 * TxSize - 1) /\ t.size = TxSize
    BY <1>1 DEF RingOf
  <1>3. TxSize \in Nat /\ Len(tc) \in Nat
    BY <1>1, RingAssumption
  <1> QED
    BY <1>1, <1>2, <1>3

(* A cached slot is used, with or without a frame to write. *)
LEMMA TxSkip ==
    ASSUME NEW t, NEW tc, NEW tf, NEW p, NEW e, TxOk(t, tc, tf, p, e), tc # <<>>
    PROVE  /\ TxOk(t, Tail(tc), tf + 1, p, e)
           /\ Head(tc) = (t.cons + (p + tf)) % TxSize /\ p + tf < TxSize
  <1>1. /\ t \in RingOf(TxSize) /\ tc \in Seq(0..(TxSize - 1)) /\ tf \in Nat /\ p \in Nat /\ e \in Nat
        /\ Len(tc) \in Nat /\ p + tf + Len(tc) + e <= TxSize /\ t.cons \in Nat
    BY TxNumbers
  <1>2. PICK d \in Seq(0..(TxSize - 1)) :
           d = Tail(tc) /\ Len(d) = Len(tc) - 1 /\ \A k \in 1..Len(d) : d[k] = tc[k + 1]
    <2>1. PICK T : T = 0..(TxSize - 1)
      OBVIOUS
    <2>2. tc \in Seq(T)
      BY <1>1, <2>1
    <2>3. Tail(tc) \in Seq(T) /\ Len(Tail(tc)) = Len(tc) - 1
      BY <2>2
    <2>4. \A k \in 1..(Len(tc) - 1) : Tail(tc)[k] = tc[k + 1]
      BY <2>2
    <2> QED
      BY <2>1, <2>3, <2>4, Zenon
  <1>3. Len(tc) >= 1 /\ Head(tc) = tc[1] /\ TxSize \in Nat
    BY <1>1, RingAssumption
  <1>4. PICK b \in Nat : b = t.cons + p + tf /\ CachedFrom(tc, b)
    <2>1. t.cons + p + tf \in Nat
      BY <1>1
    <2> QED
      BY <2>1 DEF TxOk
  <1>5. (tf + 1) + Len(d) = tf + Len(tc) /\ tf + 1 \in Nat
    BY <1>1, <1>2
  <1>6. ASSUME NEW k \in 1..Len(d) PROVE d[k] = (b + 1 + k - 1) % TxSize
    <2>1. PICK j \in 1..Len(tc) : j = k + 1
      BY <1>1, <1>2
    <2>2. d[k] = tc[j]
      BY <1>2, <2>1
    <2>3. tc[j] = (b + j - 1) % TxSize
      BY <1>4 DEF CachedFrom
    <2>4. b + j - 1 = b + 1 + k - 1
      BY <1>1, <1>2, <2>1
    <2> QED
      BY <2>2, <2>3, <2>4
  <1>7. t.cons + p + (tf + 1) = b + 1
    <2>1. PICK c \in Nat : c = t.cons
      BY <1>1
    <2>2. c + p + (tf + 1) = (c + p + tf) + 1
      BY <1>1
    <2> QED
      BY <1>4, <2>1, <2>2, Zenon
  <1>8. CachedFrom(d, t.cons + p + (tf + 1))
    BY <1>6, <1>7 DEF CachedFrom
  <1>9. TxOk(t, d, tf + 1, p, e)
    BY <1>2, <1>5, <1>8 DEF TxOk
  <1>10. Head(tc) = (t.cons + (p + tf)) % TxSize
    <2>1. tc[1] = (b + 1 - 1) % TxSize
      BY <1>1, <1>3, <1>4 DEF CachedFrom
    <2>2. b + 1 - 1 = t.cons + (p + tf)
      BY <1>1, <1>4
    <2> QED
      BY <1>3, <2>1, <2>2
  <1>11. p + tf < TxSize
    BY <1>1, <1>3
  <1> QED
    BY <1>2, <1>9, <1>10, <1>11

(* With a frame: the sequence of entries grows at its end. *)
LEMMA TxWrite ==
    ASSUME NEW t, NEW tc, NEW tf, NEW p, NEW e, TxOk(t, tc, tf, p, e), tc # <<>>,
           NEW g \in Frame
    PROVE  /\ TxOk(PutSlot(t, Head(tc), g), Tail(tc), tf + 1, p, e)
           /\ Line(PutSlot(t, Head(tc), g), TxSize, p + (tf + 1))
              = Append(Line(t, TxSize, p + tf), g)
  <1>1. t \in RingOf(TxSize) /\ p \in Nat /\ tf \in Nat /\ TxSize \in Nat \ {0}
    BY TxNumbers, RingAssumption
  <1>2. TxOk(t, Tail(tc), tf + 1, p, e)
    BY TxSkip
  <1>3. PICK n, i : n \in Nat /\ n = p + tf /\ i = Head(tc) /\ i = (t.cons + n) % TxSize /\ n < TxSize
    <2>1. Head(tc) = (t.cons + (p + tf)) % TxSize /\ p + tf < TxSize
      BY TxSkip, Zenon
    <2>2. p + tf \in Nat
      BY <1>1
    <2> QED
      BY <2>1, <2>2, Zenon
  <1>4. PICK u : u = PutSlot(t, i, g)
    OBVIOUS
  <1>5. /\ u \in RingOf(TxSize) /\ IsRing(u, TxSize, t.prod, t.cons, t.cprod, t.ccons, u.slot)
        /\ Line(u, TxSize, n + 1) = Append(Line(t, TxSize, n), g)
    <2>1. n < TxSize /\ n \in Nat /\ i = (t.cons + n) % TxSize
      BY <1>3
    <2>2. PICK w : w = PutSlot(t, i, g)
      OBVIOUS
    <2> QED
      BY <1>1, <1>4, <2>1, LinePut, SMT
  <1>6. u.prod = t.prod /\ u.cons = t.cons /\ u.cprod = t.cprod /\ u.ccons = t.ccons
    BY <1>5 DEF IsRing
  <1>7. TxOk(u, Tail(tc), tf + 1, p, e)
    BY <1>2, <1>5, <1>6, Zenon DEF TxOk, Form
  <1>8. n + 1 = p + (tf + 1)
    BY <1>1, <1>3
  <1> QED
    BY <1>3, <1>4, <1>5, <1>7, <1>8, Zenon

(* xsk_ring_prod__submit of what was written *)
LEMMA TxSync ==
    ASSUME NEW t, NEW tc, NEW tf, NEW p, NEW e, TxOk(t, tc, tf, p, e)
    PROVE  TxOk(Submit(t, tf), tc, 0, p + tf, e) /\ SameSlots(Submit(t, tf), t)
  <1>1. /\ tc \in Seq(0..(TxSize - 1)) /\ tf \in Nat /\ Len(tc) \in Nat /\ p \in Nat
        /\ TxSize \in Nat \ {0} /\ t.cons \in Nat
    BY TxNumbers, RingAssumption
  <1>2. PICK m \in Nat : m = tf + Len(tc) /\ tf <= m /\ Form(t, TxSize, p, m, e)
    BY <1>1 DEF TxOk
  <1>3. Form(Submit(t, tf), TxSize, p + tf, m - tf, e) /\ SameSlots(Submit(t, tf), t)
    BY <1>1, <1>2, FormSubmit
  <1>4. m - tf = 0 + Len(tc) /\ t.cons + (p + tf) + 0 = t.cons + p + tf /\ 0 \in Nat
    BY <1>1, <1>2
  <1>5. CachedFrom(tc, t.cons + p + tf)
    BY DEF TxOk
  <1> QED
    BY <1>1, <1>3, <1>4, <1>5 DEF TxOk, SameSlots

(* xsk_ring_prod__reserve when it fails *)
LEMMA TxFail ==
    ASSUME NEW t, NEW tc, NEW tf, NEW p, NEW e, TxOk(t, tc, tf, p, e), ~CanReserve(t, TxBatch)
    PROVE  /\ \E x \in Nat : TxOk(Reserve(t, TxBatch), tc, tf, p, x)
           /\ SameSlots(Reserve(t, TxBatch), t)
  <1>1. TxBatch \in Nat /\ TxSize \in Nat \ {0}
    BY RingAssumption
  <1>2. PICK m : m = tf + Len(tc) /\ Form(t, TxSize, p, m, e)
    BY DEF TxOk
  <1>3. SameSlots(Reserve(t, TxBatch), t) /\ \E x \in Nat : Form(Reserve(t, TxBatch), TxSize, p, m, x)
    BY <1>1, <1>2, FormReserve
  <1> QED
    BY <1>2, <1>3 DEF TxOk, SameSlots

(* xsk_ring_prod__reserve of a batch *)
LEMMA TxReserve ==
    ASSUME NEW t, NEW tf, NEW p, NEW e, TxOk(t, <<>>, 0, p, e), CanReserve(t, TxBatch)
    PROVE  /\ \E x \in Nat : TxOk(Reserve(t, TxBatch), NewSlots(t), 0, p, x)
           /\ SameSlots(Reserve(t, TxBatch), t)
           /\ NewSlots(t) # <<>>
  <1>1. TxBatch \in Nat \ {0} /\ TxSize \in Nat \ {0} /\ 0 \in Nat
    BY RingAssumption
  <1>2. Form(t, TxSize, p, 0, e)
    <2>1. 0 + Len(<<>>) = 0
      OBVIOUS
    <2> QED
      BY <2>1 DEF TxOk
  <1>3. PICK x \in Nat, m \in Nat : m = 0 + TxBatch /\ Form(Reserve(t, TxBatch), TxSize, p, m, x)
    BY <1>1, <1>2, FormReserve
  <1>4. SameSlots(Reserve(t, TxBatch), t)
    BY <1>1, <1>2, FormReserve
  <1>5. PICK c \in 0..(2 * TxSize - 1), q \in 0..(2 * TxSize) :
           c = t.cons /\ q = p /\ t.size = TxSize /\ t.cprod = Up(TxSize, c, q)
    <2>1. p \in 0..(2 * TxSize) /\ t.cons \in 0..(2 * TxSize - 1) /\ t.size = TxSize
      BY <1>1, <1>2 DEF Form, RingOf
    <2>2. p + 0 = p
      BY <2>1
    <2>3. t.cprod = Up(TxSize, t.cons, p)
      BY <1>2, <2>2 DEF Form
    <2> QED
      BY <2>1, <2>3
  <1>6. ASSUME NEW k \in 1..TxBatch
        PROVE  /\ SlotOf(t, t.cprod + k - 1) = (c + q + k - 1) % TxSize
               /\ SlotOf(t, t.cprod + k - 1) \in 0..(TxSize - 1)
    <2>1. PICK j \in Nat, u \in Nat : j = k - 1 /\ u = t.cprod
      BY <1>2 DEF Form, RingOf
    <2>2. (Up(TxSize, c, q) + j) % TxSize = (c + q + j) % TxSize
      BY <1>1, UpSlot
    <2>3. c + q + j \in Nat /\ c + q + j = c + q + k - 1 /\ u + k - 1 = u + j
      BY <2>1
    <2>4. (c + q + j) % TxSize \in 0..(TxSize - 1)
      BY <1>1, <2>3, SlotRange
    <2> QED
      BY <1>5, <2>1, <2>2, <2>3, <2>4 DEF SlotOf
  <1> DEFINE s == NewSlots(t)
  <1>7. s \in [1..TxBatch -> 0..(TxSize - 1)] /\ \A k \in 1..TxBatch : s[k] = (c + q + k - 1) % TxSize
    BY <1>6 DEF NewSlots
  <1> HIDE DEF s
  <1>8. s \in Seq(0..(TxSize - 1)) /\ Len(s) = TxBatch /\ s # <<>>
    BY <1>1, <1>7
  <1>9. Reserve(t, TxBatch).cons + p + 0 = c + q
    BY <1>4, <1>5 DEF SameSlots
  <1>10. CachedFrom(s, Reserve(t, TxBatch).cons + p + 0)
    BY <1>7, <1>8, <1>9 DEF CachedFrom
  <1>11. m = 0 + Len(s)
    BY <1>3, <1>8
  <1>12. TxOk(Reserve(t, TxBatch), s, 0, p, x)
    BY <1>1, <1>3, <1>8, <1>10, <1>11 DEF TxOk
  <1> QED
    BY <1>4, <1>8, <1>12 DEF s

(* The kernel takes an entry. *)
LEMMA TxTakes ==
    ASSUME NEW t, NEW tc, NEW tf, NEW p, NEW e, TxOk(t, tc, tf, p, e), p > 0
    PROVE  TxOk(KernelTakes(t), tc, tf, p - 1, e)
  <1>1. /\ tf \in Nat /\ p \in Nat /\ t.cons \in 0..(2 * TxSize - 1) /\ TxSize \in Nat \ {0}
        /\ tc \in Seq(0..(TxSize - 1)) /\ Len(tc) \in Nat
    BY TxNumbers, RingAssumption
  <1>2. PICK m : m = tf + Len(tc) /\ Form(t, TxSize, p, m, e)
    BY DEF TxOk
  <1>3. Form(KernelTakes(t), TxSize, p - 1, m, e) /\ KernelTakes(t).cons = Up(TxSize, t.cons, 1)
    BY <1>1, <1>2, FormTakes
  <1>4. ASSUME NEW k \in 1..Len(tc)
        PROVE  tc[k] = (KernelTakes(t).cons + (p - 1) + tf + k - 1) % TxSize
    <2>1. PICK c \in 0..(2 * TxSize - 1), one \in 0..(2 * TxSize), j \in Nat :
             c = t.cons /\ one = 1 /\ j = (p - 1) + tf + k - 1
      BY <1>1
    <2>2. (Up(TxSize, c, one) + j) % TxSize = (c + one + j) % TxSize
      BY <1>1, UpSlot
    <2>3. PICK u \in Nat : u = Up(TxSize, c, one) /\ u = KernelTakes(t).cons
      BY <1>1, <1>3, <2>1 DEF Up
    <2>4. u + (p - 1) + tf + k - 1 = u + j /\ c + one + j = c + p + tf + k - 1
      BY <1>1, <2>1
    <2>5. tc[k] = (t.cons + p + tf + k - 1) % TxSize
      BY DEF TxOk, CachedFrom
    <2> QED
      BY <2>1, <2>2, <2>3, <2>4, <2>5
  <1> QED
    BY <1>1, <1>2, <1>3, <1>4 DEF TxOk, CachedFrom
-----------------------------------------------------------------------------
(* WriteAddrs leaves the indices alone and writes s from `cprod` on. *)
Addrs(q, s, N) ==
    [i \in 0..(N - 1) |->
        LET at == {k \in 1..Len(s) : SlotOf(q, q.cprod + k - 1) = i}
        IN  IF at = {} THEN q.slot[i] ELSE s[CHOOSE k \in at : TRUE]]

(* WriteAddrs changes the slots only. *)
LEMMA AddrsType ==
    ASSUME NEW N \in Nat \ {0}, NEW q \in RingOf(N), NEW s \in Seq(Frame)
    PROVE  Addrs(q, s, N) \in Slots(N) /\ WriteAddrs(q, s) = SetSlot(q, Addrs(q, s, N))
  <1>1. DOMAIN q.slot = 0..(N - 1) /\ q.slot \in Slots(N)
    BY DEF RingOf, Slots
  <1>2. WriteAddrs(q, s) = SetSlot(q, Addrs(q, s, N))
    BY <1>1 DEF WriteAddrs, SetSlot, Addrs, RingOf
  <1>3. ASSUME NEW i \in 0..(N - 1),
               NEW at, at = {k \in 1..Len(s) : SlotOf(q, q.cprod + k - 1) = i}
        PROVE  (IF at = {} THEN q.slot[i] ELSE s[CHOOSE k \in at : TRUE]) \in Frame
    <2>1. CASE at = {}
      BY <1>1, <2>1 DEF Slots
    <2>2. CASE at # {}
      <3>1. PICK j : j = CHOOSE k \in at : TRUE
        OBVIOUS
      <3>2. j \in at
        BY <2>2, <3>1
      <3>3. j \in 1..Len(s)
        BY <1>3, <3>2
      <3>4. s[j] \in Frame
        BY <3>3
      <3> QED
        BY <2>2, <3>1, <3>4
    <2> QED
      BY <2>1, <2>2
  <1>4. Addrs(q, s, N) \in Slots(N)
    BY <1>3 DEF Addrs, Slots
  <1> QED
    BY <1>2, <1>4

(* Slots `other` are `slot` with s written from index b on. *)
Written(other, slot, s, N, b) ==
    /\ \A k \in 1..Len(s) : other[(b + k - 1) % N] = s[k]
    /\ \A i \in 0..(N - 1) :
          (\A k \in 1..Len(s) : (b + k - 1) % N # i) => other[i] = slot[i]

(* Entry k of s ends up at the k-th index from `cprod` on. *)
LEMMA AddrsAt ==
    ASSUME NEW N \in Nat \ {0}, NEW q \in RingOf(N), NEW s \in Seq(Frame), Len(s) <= N,
           NEW c \in 0..(2 * N - 1), NEW p \in 0..(2 * N), q.cprod = Up(N, c, p)
    PROVE  Written(Addrs(q, s, N), q.slot, s, N, c + p)
  <1>1. ASSUME NEW k \in 1..Len(s)
        PROVE  /\ SlotOf(q, q.cprod + k - 1) = (c + p + k - 1) % N
               /\ (c + p + k - 1) % N \in 0..(N - 1)
    <2>0. Len(s) \in Nat /\ k \in Nat /\ k >= 1 /\ q.cprod \in Nat
      BY DEF RingOf
    <2>1. PICK j \in Nat, u \in Nat : j = k - 1 /\ u = q.cprod
      BY <2>0
    <2>2. (Up(N, c, p) + j) % N = (c + p + j) % N
      BY UpSlot
    <2>3. c + p + j \in Nat /\ c + p + j = c + p + k - 1 /\ u + k - 1 = u + j /\ q.size = N
      BY <2>1 DEF RingOf
    <2>4. (c + p + j) % N \in 0..(N - 1)
      BY <2>3, SlotRange
    <2> QED
      BY <2>1, <2>2, <2>3, <2>4 DEF SlotOf
  <1>2. ASSUME NEW k \in 1..Len(s), NEW l \in 1..Len(s), (c + p + k - 1) % N = (c + p + l - 1) % N
        PROVE  k = l
    <2>1. PICK x \in Nat, y \in Nat : x = c + p + k - 1 /\ y = c + p + l - 1
      OBVIOUS
    <2>2. x < y + N /\ y < x + N
      BY <2>1
    <2>3. ~(x < y) /\ ~(y < x)
      BY <1>2, <2>1, <2>2, SlotsDiffer
    <2> QED
      BY <2>1, <2>3
  <1>3. ASSUME NEW k \in 1..Len(s) PROVE Addrs(q, s, N)[(c + p + k - 1) % N] = s[k]
    <2>1. PICK i \in 0..(N - 1) : i = (c + p + k - 1) % N
      BY <1>1
    <2>2. PICK at : at = {l \in 1..Len(s) : SlotOf(q, q.cprod + l - 1) = i}
      OBVIOUS
    <2>3. at = {k}
      BY <1>1, <1>2, <2>1, <2>2
    <2>4. (CHOOSE l \in at : TRUE) = k
      BY <2>3
    <2>5. Addrs(q, s, N)[i] = IF at = {} THEN q.slot[i] ELSE s[CHOOSE l \in at : TRUE]
      BY <2>2 DEF Addrs
    <2> QED
      BY <2>1, <2>3, <2>4, <2>5
  <1>4. ASSUME NEW i \in 0..(N - 1), \A k \in 1..Len(s) : (c + p + k - 1) % N # i
        PROVE  Addrs(q, s, N)[i] = q.slot[i]
    <2>1. PICK at : at = {l \in 1..Len(s) : SlotOf(q, q.cprod + l - 1) = i}
      OBVIOUS
    <2>2. at = {}
      BY <1>1, <1>4, <2>1
    <2>3. Addrs(q, s, N)[i] = IF at = {} THEN q.slot[i] ELSE s[CHOOSE l \in at : TRUE]
      BY <2>1 DEF Addrs
    <2> QED
      BY <2>2, <2>3
  <1> QED
    BY <1>3, <1>4 DEF Written

(* The line of the fill ring grows by the frames written. *)
LEMMA WriteLine ==
    ASSUME NEW N \in Nat \ {0}, NEW q, NEW p, NEW e, Form(q, N, p, 0, e),
           NEW s \in Seq(Frame), NEW n \in Nat, n = Len(s), p + n <= N
    PROVE  Line(WriteAddrs(q, s), N, p + n) = Line(q, N, p) \o s
  <1>1. PICK slot \in Slots(N), c \in 0..(2 * N - 1) : slot = q.slot /\ c = q.cons /\ q \in RingOf(N)
    BY DEF Form, RingOf, Slots
  <1>2. p \in Nat /\ p \in 0..(2 * N) /\ p + 0 = p /\ c \in Nat
    BY DEF Form
  <1>3. q.cprod = Up(N, c, p)
    BY <1>1, <1>2 DEF Form
  <1>4. PICK other \in Slots(N) : other = Addrs(q, s, N) /\ WriteAddrs(q, s) = SetSlot(q, other)
    BY <1>1, AddrsType
  <1>5. SetSlot(q, other).slot = other /\ SetSlot(q, other).cons = c
    <2>1. IsRing(SetSlot(q, other), N, q.prod, q.cons, q.cprod, q.ccons, other)
      BY <1>1, RingSlots DEF Slots
    <2> QED
      BY <1>1, <2>1 DEF IsRing
  <1>6. /\ \A k \in 1..n : other[(c + p + k - 1) % N] = s[k]
        /\ \A i \in 0..(N - 1) :
              (\A k \in 1..n : (c + p + k - 1) % N # i) => other[i] = slot[i]
    <2>1. n <= N
      BY <1>2
    <2> QED
      <3>1. Written(Addrs(q, s, N), q.slot, s, N, c + p)
        BY <1>1, <1>2, <1>3, <2>1, AddrsAt
      <3> QED
        BY <1>1, <1>4, <3>1, Zenon DEF Written
  <1>7. ASSUME NEW j \in 0..(p - 1) PROVE At(slot, N, c + j) = At(other, N, c + j)
    <2>1. PICK x \in Nat : x = c + j
      OBVIOUS
    <2>2. x % N \in 0..(N - 1)
      BY SlotRange
    <2>3. ASSUME NEW k \in 1..n PROVE (c + p + k - 1) % N # x % N
      <3>1. PICK y \in Nat : y = c + p + k - 1
        BY <1>2
      <3>2. x < y /\ y < x + N
        BY <1>2, <2>1, <3>1
      <3> QED
        BY <3>1, <3>2, SlotsDiffer
    <2>4. other[x % N] = slot[x % N]
      BY <1>6, <2>2, <2>3
    <2> QED
      BY <2>1, <2>4 DEF At
  <1>8. Held(slot, N, c, p) = Held(other, N, c, p)
    <2>1. SameAt(slot, other, N, c, p)
      BY <1>7 DEF SameAt
    <2> QED
      BY <1>2, <2>1, HeldKept
  <1>9. PICK b \in Nat : b = c + p
    BY <1>2
  <1>10. Held(other, N, b, n) = s
    <2>1. PICK w : w = Held(other, N, b, n) /\ HoldsOf(w, other, N, b, n)
      BY HeldIs
    <2>2. w \in Seq(Frame) /\ Len(w) = n /\ \A k \in 1..n : w[k] = At(other, N, b + k - 1)
      BY <2>1, Zenon DEF HoldsOf
    <2>3. ASSUME NEW k \in 1..n PROVE w[k] = s[k]
      <3>1. b + k - 1 = c + p + k - 1
        BY <1>2, <1>9
      <3>2. w[k] = other[(b + k - 1) % N]
        BY <2>2, Zenon DEF At
      <3> QED
        BY <1>6, <3>1, <3>2
    <2>4. w = s
      BY <2>2, <2>3, SeqEqual
    <2> QED
      BY <2>1, <2>4
  <1>11. Held(other, N, c, p + n) = Held(other, N, c, p) \o Held(other, N, b, n)
    <2>1. PICK h : h = p + n /\ Splits(c, p, n, b, h)
      BY <1>2, <1>9 DEF Splits
    <2>2. Held(other, N, c, h) = Held(other, N, c, p) \o Held(other, N, b, n)
      <3>1. other \in Slots(N) /\ N \in Nat \ {0} /\ Splits(c, p, n, b, h)
        BY <2>1
      <3> QED
        BY ONLY <3>1, HeldSplit
    <2> QED
      BY <2>1, <2>2
  <1> QED
    BY <1>1, <1>4, <1>5, <1>8, <1>10, <1>11 DEF Line

(* The indices stay as they were. *)
LEMMA WriteForm ==
    ASSUME NEW N \in Nat \ {0}, NEW q, NEW p, NEW m, NEW e, Form(q, N, p, m, e),
           NEW s \in Seq(Frame)
    PROVE  Form(WriteAddrs(q, s), N, p, m, e) /\ WriteAddrs(q, s).cons = q.cons
  <1>1. q \in RingOf(N)
    BY DEF Form
  <1>2. PICK other, t : /\ other \in Slots(N) /\ t = SetSlot(q, other) /\ WriteAddrs(q, s) = t
    BY <1>1, AddrsType
  <1>3. IsRing(t, N, q.prod, q.cons, q.cprod, q.ccons, other)
    BY <1>1, <1>2, RingSlots DEF Slots
  <1>4. t \in RingOf(N) /\ t.prod = q.prod /\ t.cons = q.cons /\ t.cprod = q.cprod /\ t.ccons = q.ccons
    BY <1>3 DEF IsRing
  <1> QED
    BY <1>2, <1>4 DEF Form
-----------------------------------------------------------------------------
(* What the channel c and the n oldest entries of the fill ring q hold. *)
Stock(f, c, q, n) == Count(f, Contents(c)) + Count(f, Line(q, FillSize, n))

(* Outcome r of a refill of q from c, where p entries were submitted and m *)
(* were not: the same shape, and if nothing was left over and the refill   *)
(* does not fail, nothing is left over and nothing is lost.                *)
Refilled(r, c, q, p, m) ==
    /\ r.chan \in Chan(Frame) /\ Whole(r.chan) /\ r.ok \in BOOLEAN
    /\ \E p2, m2, e2 \in Nat :
          /\ Form(r.fq, FillSize, p2, m2, e2)
          /\ r.ok /\ m = 0 => m2 = 0 /\ \A f : Stock(f, r.chan, r.fq, p2) = Stock(f, c, q, p)

(* The frames popped and written, with `free` reread: all entries that are *)
(* free are reserved.                                                      *)
LEMMA RefillReserves ==
    ASSUME NEW q, NEW p, NEW m, NEW e, Form(q, FillSize, p, m, e), NEW s \in Seq(Frame)
    PROVE  Form(Reserve(WriteAddrs(q, s), FreeEntries(q)), FillSize, p, m + e, 0)
           /\ SameSlots(Reserve(WriteAddrs(q, s), FreeEntries(q)), WriteAddrs(q, s))
  <1>0. FillSize \in Nat \ {0}
    BY RingAssumption
  <1>1. FreeEntries(q) = e /\ e \in Nat /\ p \in Nat /\ m \in Nat
    BY <1>0, FormReads DEF Form
  <1>2. PICK t : t = WriteAddrs(q, s) /\ Form(t, FillSize, p, m, e)
    BY <1>0, WriteForm
  <1>3. FreeEntries(t) = e
    BY <1>0, <1>2, FormReads
  <1>4. NbFree(t, e) = t /\ CanReserve(t, e)
    BY <1>1, <1>3 DEF NbFree, CanReserve
  <1>5. /\ t.size = FillSize /\ t \in RingOf(FillSize) /\ t.cons \in 0..(2 * FillSize - 1)
        /\ t.cprod \in 0..(2 * FillSize - 1)
    BY <1>2 DEF Form, RingOf
  <1>6. p + m + e <= FillSize
    BY <1>2 DEF Form
  <1>7. PICK i \in 0..(2 * FillSize - 1) :
           i = (t.cprod + e) % (2 * FillSize) /\ i = Up(FillSize, t.cons, p + m + e)
    <2>1. t.cprod = Up(FillSize, t.cons, p + m)
      BY <1>2 DEF Form
    <2>2. PICK a \in Nat, c \in 0..(2 * FillSize - 1) : a = p + m /\ c = t.cons
      <3>1. p + m \in Nat
        BY <1>1
      <3> QED
        BY <1>5, <3>1
    <2>3. e \in 0..(2 * FillSize) /\ a + e <= 2 * FillSize
      BY <1>0, <1>1, <1>6, <2>2
    <2>4. /\ (t.cprod + e) % (2 * FillSize) = Up(FillSize, t.cprod, e)
          /\ Up(FillSize, t.cprod, e) \in 0..(2 * FillSize - 1)
      BY <1>0, <1>5, <2>3, UpIs
    <2>5. Up(FillSize, Up(FillSize, c, a), e) = Up(FillSize, c, a + e)
      BY <1>0, <1>1, <2>3, UpUp
    <2> QED
      BY <2>1, <2>2, <2>4, <2>5
  <1>8. Reserve(t, e) = SetCprod(t, i)
    BY <1>4, <1>5, <1>7 DEF Reserve, Wrap, SetCprod
  <1>9. PICK u : u = SetCprod(t, i)
    OBVIOUS
  <1>10. u \in RingOf(FillSize) /\ SameSlots(u, t) /\ u.prod = t.prod /\ u.cprod = i /\ u.ccons = t.ccons
    <2>1. IsRing(u, FillSize, t.prod, t.cons, i, t.ccons, t.slot)
      BY <1>5, <1>9, RingShapes
    <2> QED
      BY <2>1 DEF IsRing, SameSlots
  <1>11. p + (m + e) = p + m + e /\ p + (m + e) + 0 = p + m + e /\ m + e \in Nat /\ 0 \in Nat
    BY <1>1
  <1>12. Form(u, FillSize, p, m + e, 0)
    BY <1>2, <1>7, <1>10, <1>11 DEF Form, SameSlots
  <1> QED
    BY <1>1, <1>2, <1>8, <1>9, <1>10, <1>12

(* The frames popped and the frames written are the same. *)
LEMMA RefillWrites ==
    ASSUME NEW c \in Chan(Frame), NEW k \in Chan(Frame), NEW q, NEW p, NEW e, NEW n, NEW s \in Seq(Frame),
           Form(q, FillSize, p, 0, e), n = Len(s), n <= e,
           \A x : Count(x, Contents(c)) = Count(x, Contents(k)) + Count(x, s)
    PROVE  \A f : Count(f, Contents(k)) + Count(f, Line(WriteAddrs(q, s), FillSize, p + n))
                  = Stock(f, c, q, p)
  <1>0. FillSize \in Nat \ {0}
    BY RingAssumption
  <1>1. p \in Nat /\ n \in Nat /\ p + n <= FillSize /\ q \in RingOf(FillSize)
    <2>1. p \in Nat /\ e \in Nat /\ p + 0 + e <= FillSize /\ q \in RingOf(FillSize)
      BY DEF Form
    <2>2. n \in Nat
      OBVIOUS
    <2> QED
      BY <1>0, <2>1, <2>2
  <1>2. Line(WriteAddrs(q, s), FillSize, p + n) = Line(q, FillSize, p) \o s
    <2>1. n = Len(s) /\ s \in Seq(Frame) /\ Form(q, FillSize, p, 0, e) /\ n \in Nat /\ p + n <= FillSize
      BY <1>1
    <2> QED
      BY ONLY <1>0, <2>1, WriteLine
  <1>3. Line(q, FillSize, p) \in Seq(Frame)
    BY <1>0, <1>1, LineType
  <1> SUFFICES ASSUME NEW f
               PROVE  Count(f, Contents(k)) + Count(f, Line(WriteAddrs(q, s), FillSize, p + n))
                      = Stock(f, c, q, p)
    OBVIOUS
  <1>4. Count(f, Line(q, FillSize, p) \o s) = Count(f, Line(q, FillSize, p)) + Count(f, s)
    BY <1>3, CountConcat
  <1>5. /\ Count(f, Line(q, FillSize, p)) \in Nat /\ Count(f, s) \in Nat
        /\ Count(f, Contents(k)) \in Nat
    <2>1. Contents(k) \in Seq(Frame)
      BY ContentsSums
    <2> QED
      BY <1>3, <2>1, CountType
  <1>6. Count(f, Contents(c)) = Count(f, Contents(k)) + Count(f, s)
    OBVIOUS
  <1> QED
    <2>1. Count(f, Line(WriteAddrs(q, s), FillSize, p + n)) = Count(f, Line(q, FillSize, p)) + Count(f, s)
      BY <1>2, <1>4, Zenon
    <2>2. Stock(f, c, q, p) = Count(f, Contents(c)) + Count(f, Line(q, FillSize, p))
      BY DEF Stock
    <2> QED
      BY ONLY <1>5, <1>6, <2>1, <2>2

(* refill_fill_ring, whichever way it ends. *)
LEMMA RefillShape ==
    ASSUME NEW c \in Chan(Frame), Whole(c), NEW q, NEW p, NEW m, NEW e, Form(q, FillSize, p, m, e)
    PROVE  Refilled(RefillFillRing(c, q), c, q, p, m)
  <1>0. FillSize \in Nat \ {0} /\ p \in Nat /\ m \in Nat /\ e \in Nat
    BY RingAssumption DEF Form
  <1>1. PICK d : /\ d = Ready(c) /\ d \in Chan(Frame) /\ Whole(d)
                 /\ \A x : Count(x, Contents(d)) = Count(x, Contents(c))
    BY ReadyKeeps
  <1>2. PICK wanted \in Nat : wanted = Len(d.cached)
    BY <1>1 DEF Chan
  <1>3. PICK free, x : /\ free = NbFree(q, wanted) /\ x \in Nat
                       /\ Form(free, FillSize, p, m, x) /\ SameSlots(free, q)
    BY <1>0, FormFree
  <1>4. FreeEntries(free) = x
    BY <1>0, <1>3, FormReads
  <1>5. PICK taken, s, k : /\ taken = PopMany(d, x) /\ s = taken.got /\ k = taken.chan
                           /\ k \in Chan(Frame) /\ Whole(k) /\ s \in Seq(Frame) /\ Len(s) <= x
                           /\ \A y : Count(y, Contents(d)) = Count(y, Contents(k)) + Count(y, s)
    <2>1. Popped(PopMany(d, x), d, Frame) /\ Len(PopMany(d, x).got) <= x
      BY <1>1, <1>3, PopManyTakes
    <2> QED
      BY <2>1 DEF Popped
  <1>6. PICK w, reserved : w = WriteAddrs(free, s) /\ reserved = Reserve(w, x)
    OBVIOUS
  <1>7. Form(reserved, FillSize, p, m + x, 0) /\ SameSlots(reserved, w)
    <2>1. /\ Form(Reserve(WriteAddrs(free, s), FreeEntries(free)), FillSize, p, m + x, 0)
          /\ SameSlots(Reserve(WriteAddrs(free, s), FreeEntries(free)), WriteAddrs(free, s))
      BY <1>3, <1>5, RefillReserves
    <2> QED
      BY <1>4, <1>6, <2>1
  <1>8. RefillFillRing(c, q) =
           IF wanted = 0
           THEN [chan |-> d, fq |-> q, ok |-> TRUE]
           ELSE IF Len(s) < x
                THEN [chan |-> k, fq |-> reserved, ok |-> FALSE]
                ELSE [chan |-> k, fq |-> Submit(reserved, x), ok |-> TRUE]
    BY <1>1, <1>2, <1>3, <1>4, <1>5, <1>6, Zenon DEF RefillFillRing
  <1>9. CASE wanted = 0
    <2>1. PICK r : r = RefillFillRing(c, q) /\ r.chan = d /\ r.fq = q /\ r.ok = TRUE
      BY <1>8, <1>9
    <2>2. \A f : Stock(f, d, q, p) = Stock(f, c, q, p)
      BY <1>1 DEF Stock
    <2>3. Form(q, FillSize, p, m, e) /\ p \in Nat /\ m \in Nat /\ e \in Nat
      BY <1>0
    <2> QED
      BY <1>1, <2>1, <2>2, <2>3 DEF Refilled
  <1>10. CASE wanted # 0 /\ Len(s) < x
    <2>1. PICK r : r = RefillFillRing(c, q) /\ r.chan = k /\ r.fq = reserved /\ r.ok = FALSE
      BY <1>8, <1>10
    <2>2. Form(reserved, FillSize, p, m + x, 0) /\ p \in Nat /\ m + x \in Nat /\ 0 \in Nat
      BY <1>0, <1>3, <1>7
    <2> QED
      BY <1>5, <2>1, <2>2 DEF Refilled
  <1>11. CASE wanted # 0 /\ ~(Len(s) < x)
    <2>1. PICK t : t = Submit(reserved, x)
      OBVIOUS
    <2>2. PICK r : r = RefillFillRing(c, q) /\ r.chan = k /\ r.fq = t /\ r.ok = TRUE
      BY <1>8, <1>11, <2>1
    <2>3. PICK g \in Nat : g = m + x /\ x <= g /\ g - x = m
      BY <1>0, <1>3
    <2>4. Form(t, FillSize, p + x, m, 0) /\ SameSlots(t, reserved)
      <3>1. Form(reserved, FillSize, p, g, 0) /\ x \in Nat /\ x <= g
        BY <1>3, <1>7, <2>3
      <3>2. Form(Submit(reserved, x), FillSize, p + x, g - x, 0) /\ SameSlots(Submit(reserved, x), reserved)
        BY <1>0, <3>1, FormSubmit
      <3> QED
        BY <2>1, <2>3, <3>2
    <2>5. ASSUME m = 0, NEW f PROVE Stock(f, k, t, p + x) = Stock(f, c, q, p)
      <3>1. Len(s) = x /\ x = Len(s) /\ x <= x
        BY <1>3, <1>5, <1>11
      <3>2. Form(free, FillSize, p, 0, x)
        BY <1>3, <2>5
      <3>3. \A y : Count(y, Contents(k)) + Count(y, Line(WriteAddrs(free, s), FillSize, p + x))
                   = Stock(y, d, free, p)
        BY <1>1, <1>5, <3>1, <3>2, RefillWrites
      <3>4. Line(t, FillSize, p + x) = Line(w, FillSize, p + x)
        BY <1>7, <2>4 DEF SameSlots, Line
      <3>5. Stock(f, d, free, p) = Stock(f, c, q, p)
        BY <1>1, <1>3 DEF Stock, SameSlots, Line
      <3> QED
        BY <1>6, <3>3, <3>4, <3>5 DEF Stock
    <2>6. p + x \in Nat /\ 0 \in Nat
      BY <1>0, <1>3
    <2> QED
      BY <1>0, <1>5, <2>2, <2>4, <2>5, <2>6 DEF Refilled
  <1> QED
    BY <1>9, <1>10, <1>11
-----------------------------------------------------------------------------
(* The frames the client holds a token for. *)
Holders(t) == {f \in t : tokens[f] > 0}

(* No frame has more tokens than there are, nor have more frames a token. *)
LEMMA TokensBound ==
    ASSUME tokens \in [Frame -> Nat]
    PROVE  /\ NumTokens \in Nat /\ \A f \in Frame : tokens[f] <= NumTokens
           /\ IsFiniteSet(Holders(Frame)) /\ Cardinality(Holders(Frame)) \in Nat
           /\ Cardinality(Holders(Frame)) <= NumTokens
  <1>1. NumTokens = SumOf(tokens)
    BY Zenon DEF NumTokens, SumOf
  <1>2. Holders(Frame) = Positive(tokens, Frame)
    BY DEF Holders, Positive
  <1>3. IsFiniteSet(Frame)
    BY FrameAssumption
  <1>4. /\ SumOf(tokens) \in Nat /\ \A f \in Frame : tokens[f] <= SumOf(tokens)
        /\ IsFiniteSet(Positive(tokens, Frame)) /\ Cardinality(Positive(tokens, Frame)) \in Nat
        /\ Cardinality(Positive(tokens, Frame)) <= SumOf(tokens)
    BY <1>3, SumOfBound
  <1> QED
    BY <1>1, <1>2, <1>4, Zenon
-----------------------------------------------------------------------------
(* The shape of the state: types, a TX ring whose cached slots and        *)
(* to_flush account for its reserved entries, and a fill ring without      *)
(* reserved entries unless an allocation has failed.                       *)
Types ==
    /\ chan \in Chan(Frame) /\ Whole(chan)
    /\ rx \in Seq(Frame) /\ rxCached \in Seq(Frame) /\ cq \in Seq(Frame)
    /\ tokens \in [Frame -> 0..MaxTokens]
    /\ pc \in {"idle", "refill", "again", "resend"} /\ starved \in BOOLEAN
TxInv == \E p, e : TxOk(tx, txCached, toFlush, p, e)
FillInv == \E p, m, e : Form(fq, FillSize, p, m, e) /\ (starved \/ m = 0)
Shape == Types /\ TxInv /\ FillInv

(* The type invariant follows from the shape. *)
LEMMA ShapeTypes ==
    ASSUME Shape
    PROVE  TypeOK
  <1>1. /\ chan \in Chan(Frame) /\ rx \in Seq(Frame) /\ rxCached \in Seq(Frame) /\ cq \in Seq(Frame)
        /\ tokens \in [Frame -> 0..MaxTokens]
        /\ pc \in {"idle", "refill", "again", "resend"} /\ starved \in BOOLEAN
    BY DEF Shape, Types
  <1>2. /\ fq.slot \in [0..(FillSize - 1) -> Frame]
        /\ {fq.prod, fq.cons, fq.cprod, fq.ccons} \subseteq 0..(2 * FillSize - 1)
    <2>1. fq \in RingOf(FillSize)
      BY DEF Shape, FillInv, Form
    <2> QED
      BY <2>1 DEF RingOf
  <1>3. PICK p, e : TxOk(tx, txCached, toFlush, p, e)
    BY DEF Shape, TxInv
  <1>4. /\ tx \in RingOf(TxSize) /\ txCached \in Seq(0..(TxSize - 1)) /\ toFlush \in Nat
        /\ p \in Nat /\ e \in Nat /\ Len(txCached) \in Nat
        /\ p + toFlush + Len(txCached) + e <= TxSize /\ TxSize \in Nat
    BY <1>3, TxNumbers, RingAssumption
  <1>5. toFlush \in 0..TxSize
    BY <1>4
  <1>6. /\ tx.slot \in [0..(TxSize - 1) -> Frame]
        /\ {tx.prod, tx.cons, tx.cprod, tx.ccons} \subseteq 0..(2 * TxSize - 1)
    BY <1>4 DEF RingOf
  <1> QED
    BY <1>1, <1>2, <1>4, <1>5, <1>6, Zenon DEF TypeOK, Chan

(* The accounting of the TX ring follows from its form. *)
LEMMA ShapeAccounts ==
    ASSUME Shape
    PROVE  TxAccounting
  <1>1. PICK p, e : TxOk(tx, txCached, toFlush, p, e)
    BY DEF Shape, TxInv
  <1>2. /\ tx \in RingOf(TxSize) /\ toFlush \in Nat /\ p \in Nat /\ e \in Nat
        /\ Len(txCached) \in Nat /\ p + toFlush + Len(txCached) + e <= TxSize
        /\ TxSize \in Nat \ {0} /\ tx.cons \in 0..(2 * TxSize - 1) /\ tx.size = TxSize
    BY <1>1, TxNumbers, RingAssumption
  <1>3. PICK m \in Nat : m = toFlush + Len(txCached) /\ Form(tx, TxSize, p, m, e)
    BY <1>1, <1>2 DEF TxOk
  <1>4. PICK c \in 0..(2 * TxSize - 1), q \in 0..(2 * TxSize) :
           c = tx.cons /\ q = p /\ tx.prod = Up(TxSize, c, q)
    <2>1. p \in 0..(2 * TxSize)
      BY <1>2
    <2> QED
      BY <1>2, <1>3, <2>1 DEF Form
  <1>5. Wrap(tx, tx.prod + toFlush + Len(txCached)) = tx.cprod
    <2>1. PICK b \in 0..(2 * TxSize - 1) : b = tx.prod
      BY <1>2 DEF RingOf
    <2>2. m \in 0..(2 * TxSize) /\ q \in Nat /\ q + m <= 2 * TxSize
      BY <1>2, <1>3, <1>4
    <2>3. (b + m) % (2 * TxSize) = Up(TxSize, b, m)
      BY <1>2, <2>2, UpIs
    <2>4. Up(TxSize, Up(TxSize, c, q), m) = Up(TxSize, c, q + m)
      BY <1>2, <2>2, UpUp
    <2>5. tx.cprod = Up(TxSize, c, q + m)
      BY <1>3, <1>4 DEF Form
    <2>6. tx.prod + toFlush + Len(txCached) = b + m
      BY <1>2, <1>3, <2>1
    <2> QED
      BY <1>2, <1>4, <2>1, <2>3, <2>4, <2>5, <2>6 DEF Wrap
  <1>6. ASSUME NEW k \in 1..Len(txCached)
        PROVE  txCached[k] = SlotOf(tx, tx.prod + toFlush + k - 1)
    <2>1. PICK b \in Nat, j \in Nat : b = tx.prod /\ j = toFlush + k - 1
      <3>1. tx.prod \in Nat /\ toFlush + k - 1 \in Nat
        BY <1>2 DEF RingOf
      <3> QED
        BY <3>1
    <2>2. (Up(TxSize, c, q) + j) % TxSize = (c + q + j) % TxSize
      BY <1>2, UpSlot
    <2>3. txCached[k] = (tx.cons + p + toFlush + k - 1) % TxSize
      BY <1>1 DEF TxOk, CachedFrom
    <2>4. tx.cons + p + toFlush + k - 1 = c + q + j /\ tx.prod + toFlush + k - 1 = b + j
      <3>1. /\ tx.cons = c /\ p = q /\ tx.prod = b /\ c \in Nat /\ q \in Nat /\ b \in Nat
            /\ toFlush \in Nat /\ k \in Nat /\ k >= 1 /\ j = toFlush + k - 1
        BY <1>2, <1>4, <2>1
      <3> QED
        BY ONLY <3>1
    <2> QED
      BY <1>2, <1>4, <2>1, <2>2, <2>3, <2>4 DEF SlotOf
  <1>7. Pending(tx) + toFlush + Len(txCached) <= TxSize
    <2>1. Pending(tx) = p
      BY <1>2, <1>3, FormReads
    <2> QED
      BY <1>2, <2>1
  <1> QED
    BY <1>5, <1>6, <1>7 DEF TxAccounting

(* A new ring is empty and all of it is free. *)
LEMMA NewRingForm ==
    ASSUME NEW N \in Nat \ {0}
    PROVE  Form(NewRing(N, Zero), N, 0, 0, N) /\ NewRing(N, Zero).cons = 0
  <1>1. Zero \in Frame
    BY FrameAssumption
  <1> DEFINE s == [i \in 0..(N - 1) |-> Zero]
  <1>2. s \in [0..(N - 1) -> Frame]
    BY <1>1
  <1> HIDE DEF s
  <1>3. PICK r : r = NewRing(N, Zero) /\ r = [size |-> N, prod |-> 0, cons |-> 0, cprod |-> 0, ccons |-> N, slot |-> s]
    BY DEF NewRing, s
  <1>4. 0 \in 0..(2 * N - 1) /\ N \in 0..(2 * N - 1)
    OBVIOUS
  <1>5. r \in RingOf(N) /\ r.prod = 0 /\ r.cons = 0 /\ r.cprod = 0 /\ r.ccons = N
    BY <1>2, <1>3, <1>4 DEF RingOf
  <1>6. Up(N, 0, 0) = 0 /\ Up(N, 0, 0 + 0) = 0 /\ Up(N, 0, 0 + 0 + N) = N
    BY DEF Up
  <1>7. Form(r, N, 0, 0, N)
    BY <1>5, <1>6 DEF Form
  <1> QED
    BY <1>3, <1>5, <1>7

(* Sock::create pushes every frame once. *)
LEMMA OrderOfFrames ==
    /\ FrameOrder \in Seq(Frame) /\ Len(FrameOrder) = Cardinality(Frame)
    /\ Cardinality(Frame) \in Nat
    /\ \A f \in Frame : Count(f, FrameOrder) = 1
  <1>1. Zero \in Frame /\ IsFiniteSet(Frame)
    BY FrameAssumption
  <1>2. PICK T, s : T = Frame \ {Zero} /\ s = SetToSeq(T)
    OBVIOUS
  <1>3. IsFiniteSet(T) /\ Cardinality(Frame) = Cardinality(T) + 1 /\ Cardinality(Frame) \in Nat
    <2>1. IsFiniteSet(T) /\ Cardinality(T) = Cardinality(Frame) - 1
      BY <1>1, <1>2, FS_RemoveElement, FS_Subset
    <2>2. Cardinality(Frame) \in Nat /\ Cardinality(T) \in Nat
      BY <1>1, <2>1, FS_CardinalityType
    <2> QED
      BY <2>1, <2>2
  <1>4. /\ s \in Seq(T) /\ Len(s) = Cardinality(T) /\ Cardinality(T) \in Nat
        /\ \A x : Count(x, s) = IF x \in T THEN 1 ELSE 0
    BY <1>2, <1>3, SetInOrder
  <1>5. s \in Seq(Frame)
    <2>1. \A i \in 1..Len(s) : s[i] \in Frame
      BY <1>2, <1>4
    <2>2. s \in [1..Len(s) -> T] /\ Len(s) \in Nat
      BY <1>4
    <2>3. s \in [1..Len(s) -> Frame]
      BY <2>1, <2>2
    <2> QED
      BY ONLY <2>2, <2>3
  <1>6. FrameOrder = <<Zero>> \o s
    BY <1>2 DEF FrameOrder
  <1>7. <<Zero>> \in Seq(Frame) /\ Len(<<Zero>>) = 1
    BY <1>1
  <1>8. FrameOrder \in Seq(Frame) /\ Len(FrameOrder) = Cardinality(Frame)
    BY <1>3, <1>4, <1>5, <1>6, <1>7
  <1>9. ASSUME NEW f \in Frame PROVE Count(f, FrameOrder) = 1
    <2>1. Count(f, FrameOrder) = Count(f, <<Zero>>) + Count(f, s)
      BY <1>5, <1>6, <1>7, CountConcat
    <2>2. Count(f, <<Zero>>) = IF Zero = f THEN 1 ELSE 0
      <3>1. <<Zero>> = Append(<<>>, Zero) /\ <<>> \in Seq(Frame)
        OBVIOUS
      <3>2. Count(f, <<>>) = 0
        BY CountEmpty
      <3>3. Count(f, Append(<<>>, Zero)) = Count(f, <<>>) + (IF Zero = f THEN 1 ELSE 0)
        BY <1>1, <3>1, CountAppend
      <3> QED
        BY <3>1, <3>2, <3>3
    <2>3. Count(f, s) = IF Zero = f THEN 0 ELSE 1
      BY <1>2, <1>4
    <2> QED
      BY <2>1, <2>2, <2>3
  <1> QED
    BY <1>3, <1>8, <1>9
-----------------------------------------------------------------------------
(* Copies(f) of a state, as an operator of the parts of the state and as a *)
(* sum of counts in sequences.                                             *)
Waiting(f, t, tf) ==
    Cardinality({i \in {SlotOf(t, t.prod + j) : j \in 0..(tf - 1)} : t.slot[i] = f})
Tally(f, c, q, r, rc, n, t, tf, k) ==
    Occurs(f, Contents(c)) + OccursIn(f, q) + Occurs(f, r)
    + Occurs(f, rc) + n + OccursIn(f, t)
    + Waiting(f, t, tf)
    + Occurs(f, k)
Parts(f, a, b, c, d, n, g, h) ==
    Count(f, a) + Count(f, b) + Count(f, c) + Count(f, d) + n + Count(f, g) + Count(f, h)

(* Copies by the parts of the state before a step. *)
LEMMA CopiesTally ==
    ASSUME NEW f
    PROVE  Copies(f) = Tally(f, chan, fq, rx, rxCached, tokens[f], tx, toFlush, cq)
  BY DEF Copies, Tally, Unsubmitted, Waiting

(* Copies by the parts of the state after a step. *)
LEMMA CopiesTallyNext ==
    ASSUME NEW f
    PROVE  Copies(f)' = Tally(f, chan', fq', rx', rxCached', tokens'[f], tx', toFlush', cq')
  BY DEF Copies, Tally, Unsubmitted, Waiting, Occurs, OccursIn, Contents, Visible, Pending, SlotOf, Wrap

(* Visible and unsubmitted entries of the TX ring, together. *)
LEMMA TxLine ==
    ASSUME NEW t, NEW tc, NEW tf, NEW p, NEW e, TxOk(t, tc, tf, p, e), NEW f
    PROVE  /\ OccursIn(f, t) \in Nat
           /\ Waiting(f, t, tf) \in Nat
           /\ OccursIn(f, t)
              + Waiting(f, t, tf)
              = Count(f, Line(t, TxSize, p + tf))
  <1>1. /\ t \in RingOf(TxSize) /\ tf \in Nat /\ p \in Nat /\ Len(tc) \in Nat
        /\ t.cons \in Nat /\ TxSize \in Nat \ {0}
    BY TxNumbers, RingAssumption
  <1>2. PICK m \in Nat : tf <= m /\ Form(t, TxSize, p, m, e)
    BY <1>1 DEF TxOk
  <1>3. PICK x : x = Waiting(f, t, tf)
    OBVIOUS
  <1>4. PICK s, h : s = Shown(t, TxSize, p) /\ h = Hidden(t, TxSize, p, tf)
    OBVIOUS
  <1>5. OccursIn(f, t) = Count(f, s)
    BY <1>1, <1>2, <1>4, OccursInIs
  <1>6. x = Count(f, h)
    BY <1>1, <1>2, <1>3, <1>4, UnsubmittedIs DEF Waiting
  <1>7. PICK slot, c, b : slot = t.slot /\ c = t.cons /\ b = c + p /\ slot \in Slots(TxSize) /\ b \in Nat /\ c \in Nat
    BY <1>1 DEF RingOf, Slots
  <1>8. s \in Seq(Frame) /\ h \in Seq(Frame)
    <2>1. s = Held(slot, TxSize, c, p) /\ h = Held(slot, TxSize, b, tf)
      BY <1>4, <1>7 DEF Shown, Hidden
    <2>2. HoldsOf(Held(slot, TxSize, c, p), slot, TxSize, c, p)
      BY <1>1, <1>7, HeldIs
    <2>3. HoldsOf(Held(slot, TxSize, b, tf), slot, TxSize, b, tf)
      BY <1>1, <1>7, HeldIs
    <2> QED
      BY <2>1, <2>2, <2>3 DEF HoldsOf
  <1>9. PICK n : n = p + tf /\ Line(t, TxSize, n) = s \o h
    <2>1. PICK n : n = p + tf /\ Splits(c, p, tf, b, n)
      BY <1>1, <1>7 DEF Splits
    <2>2. Held(slot, TxSize, c, n) = Held(slot, TxSize, c, p) \o Held(slot, TxSize, b, tf)
      <3>1. slot \in Slots(TxSize) /\ TxSize \in Nat \ {0} /\ Splits(c, p, tf, b, n)
        BY <1>1, <1>7, <2>1
      <3> QED
        BY ONLY <3>1, HeldSplit
    <2> QED
      BY <1>4, <1>7, <2>1, <2>2 DEF Line, Shown, Hidden
  <1>10. Count(f, s \o h) = Count(f, s) + Count(f, h)
    BY <1>8, CountConcat
  <1>11. Count(f, s) \in Nat /\ Count(f, h) \in Nat
    BY <1>8, CountType
  <1> QED
    BY <1>3, <1>5, <1>6, <1>9, <1>10, <1>11

(* The owners of a frame as counts in sequences. *)
LEMMA TallyIs ==
    ASSUME NEW c \in Chan(Frame), NEW r \in Seq(Frame), NEW rc \in Seq(Frame), NEW k \in Seq(Frame),
           NEW n \in Nat, NEW q, NEW p, NEW m, NEW e, Form(q, FillSize, p, m, e),
           NEW t, NEW tc, NEW tf, NEW u, NEW v, TxOk(t, tc, tf, u, v), NEW f
    PROVE  Tally(f, c, q, r, rc, n, t, tf, k)
           = Parts(f, Contents(c), Line(q, FillSize, p), r, rc, n, Line(t, TxSize, u + tf), k)
  <1>1. OccursIn(f, q) = Count(f, Line(q, FillSize, p)) /\ Count(f, Line(q, FillSize, p)) \in Nat
    <2>1. FillSize \in Nat \ {0} /\ p \in Nat /\ q \in RingOf(FillSize)
      BY RingAssumption DEF Form
    <2>2. OccursIn(f, q) = Count(f, Shown(q, FillSize, p))
      BY <2>1, OccursInIs
    <2>3. Line(q, FillSize, p) \in Seq(Frame)
      BY <2>1, LineType
    <2>4. Count(f, Line(q, FillSize, p)) \in Nat
      BY <2>3, CountType
    <2> QED
      BY <2>2, <2>4 DEF Line, Shown
  <1>2. PICK x, y, z : /\ x = OccursIn(f, t) /\ x \in Nat /\ z = Count(f, Line(t, TxSize, u + tf))
                       /\ y = Waiting(f, t, tf)
                       /\ y \in Nat /\ x + y = z
    BY TxLine
  <1>3. /\ Count(f, Contents(c)) \in Nat /\ Count(f, r) \in Nat /\ Count(f, rc) \in Nat
        /\ Count(f, k) \in Nat
    <2>1. Contents(c) \in Seq(Frame)
      BY ContentsSums
    <2> QED
      BY <2>1, CountType
  <1>4. /\ Occurs(f, Contents(c)) = Count(f, Contents(c)) /\ Occurs(f, r) = Count(f, r)
        /\ Occurs(f, rc) = Count(f, rc) /\ Occurs(f, k) = Count(f, k)
    BY DEF Occurs, Count
  <1>5. Tally(f, c, q, r, rc, n, t, tf, k)
        = Count(f, Contents(c)) + Count(f, Line(q, FillSize, p)) + Count(f, r) + Count(f, rc) + n + x + y + Count(f, k)
    BY <1>1, <1>2, <1>4, Zenon DEF Tally
  <1>6. Parts(f, Contents(c), Line(q, FillSize, p), r, rc, n, Line(t, TxSize, u + tf), k)
        = Count(f, Contents(c)) + Count(f, Line(q, FillSize, p)) + Count(f, r) + Count(f, rc) + n + z + Count(f, k)
    BY <1>2, Zenon DEF Parts
  <1>7. PICK a1, a2, a3, a4, a5 \in Nat :
           /\ a1 = Count(f, Contents(c)) /\ a2 = Count(f, Line(q, FillSize, p)) /\ a3 = Count(f, r)
           /\ a4 = Count(f, rc) /\ a5 = Count(f, k)
    BY <1>1, <1>3
  <1>8. a1 + a2 + a3 + a4 + n + x + y + a5 = a1 + a2 + a3 + a4 + n + z + a5
    BY ONLY <1>2, a1 \in Nat, a2 \in Nat, a3 \in Nat, a4 \in Nat, a5 \in Nat, n \in Nat
  <1> QED
    BY <1>5, <1>6, <1>7, <1>8
-----------------------------------------------------------------------------
(* A new channel is empty. *)
LEMMA EmptyChan ==
    /\ EmptyChannel \in Chan(Frame) /\ Whole(EmptyChannel)
    /\ EmptyChannel.cached = <<>> /\ Len(Contents(EmptyChannel)) = 0
    /\ \A f : Count(f, Contents(EmptyChannel)) = 0
  <1>1. PICK c : c = EmptyChannel
    OBVIOUS
  <1>2. c \in Chan(Frame) /\ c.batch = <<>> /\ c.ring = <<>> /\ c.cached = <<>>
    BY <1>1 DEF EmptyChannel, Chan
  <1>3. Contents(c) = <<>>
    <2>1. FlattenSeq(c.ring) = <<>>
      BY <1>2, FlattenEmpty
    <2> QED
      BY <1>2, <2>1 DEF Contents
  <1>4. Whole(c)
    BY <1>2, ChannelAssumption DEF Whole
  <1> QED
    BY <1>1, <1>2, <1>3, <1>4, CountEmpty

(* What the first flush leaves over. *)
LEMMA BatchLeft ==
    ASSUME NEW c \in Chan(Frame), Whole(c), c.cached = <<>>,
           NEW n \in Nat, Len(Contents(c)) = n, n % Batch = 0
    PROVE  Len(c.batch) \in {0, Batch}
  <1>1. Batch \in Nat \ {0}
    BY ChannelAssumption
  <1>2. PICK q \in Int, r \in 0..(Batch - 1) : n = Batch * q + r /\ n % Batch = r
    BY <1>1, DivMod
  <1>3. PICK k \in Nat, l \in Nat : k = Len(c.ring) /\ l = Len(c.batch) /\ l <= Batch
    BY DEF Chan, Whole
  <1>4. n = l + Batch * k
    <2>1. Len(FlattenSeq(c.ring)) = Batch * Len(c.ring)
      <3>1. c.ring \in Seq(Seq(Frame)) /\ \A i \in 1..Len(c.ring) : Len(c.ring[i]) = Batch
        BY DEF Chan, Whole
      <3> QED
        BY <1>1, <3>1, FlattenLength
    <2>2. Len(Contents(c)) = Len(c.batch) + Len(FlattenSeq(c.ring)) + Len(c.cached) /\ Len(c.cached) = 0
      BY ContentsSums
    <2>3. Batch * k \in Nat
      BY <1>1
    <2> QED
      BY <1>3, <2>1, <2>2, <2>3
  <1>5. Batch * (q - k) = l
    <2>1. Batch * (q - k) = Batch * q - Batch * k
      BY <1>1
    <2> QED
      BY <1>1, <1>2, <1>4, <2>1
  <1>6. CASE l < Batch
    <2>1. q - k = 0
      <3>1. q - k \in Int /\ l \in Int /\ -Batch < l
        BY <1>1
      <3> QED
        BY <1>1, <1>5, <1>6, <3>1, MultipleSmall
    <2>2. Batch * 0 = 0
      BY <1>1
    <2>3. l = 0
      BY <1>5, <2>1, <2>2, Zenon
    <2> QED
      BY <1>3, <2>3, Zenon
  <1> QED
    BY <1>1, <1>3, <1>6

(* The first flush loses only an incomplete last batch. *)
LEMMA FirstChanHas ==
    /\ FirstChan \in Chan(Frame) /\ Whole(FirstChan)
    /\ \E b \in Seq(Frame) :
          /\ Len(b) < Batch
          /\ Cardinality(Frame) % Batch = 0 => b = <<>>
          /\ \A f \in Frame : Count(f, Contents(FirstChan)) + Count(f, b) = 1
  <1>1. /\ FrameOrder \in Seq(Frame) /\ Len(FrameOrder) = Cardinality(Frame)
        /\ Cardinality(Frame) \in Nat /\ Cardinality(Frame) <= SpscLen
        /\ \A f \in Frame : Count(f, FrameOrder) = 1
    BY OrderOfFrames, FrameAssumption
  <1>2. PICK d : /\ d = PushAll(EmptyChannel, FrameOrder) /\ d \in Chan(Frame) /\ Whole(d)
                 /\ d.cached = <<>> /\ Len(Contents(d)) = Cardinality(Frame)
                 /\ \A f : Count(f, Contents(d)) = Count(f, Contents(EmptyChannel)) + Count(f, FrameOrder)
    <2>1. Len(Contents(EmptyChannel)) + Len(FrameOrder) <= SpscLen
      BY <1>1, EmptyChan
    <2>2. /\ PushAll(EmptyChannel, FrameOrder) \in Chan(Frame) /\ Whole(PushAll(EmptyChannel, FrameOrder))
          /\ PushAll(EmptyChannel, FrameOrder).cached = <<>>
          /\ Len(Contents(PushAll(EmptyChannel, FrameOrder))) = 0 + Cardinality(Frame)
          /\ \A x : Count(x, Contents(PushAll(EmptyChannel, FrameOrder)))
                    = Count(x, Contents(EmptyChannel)) + Count(x, FrameOrder)
      BY <1>1, <2>1, EmptyChan, PushAllAdds
    <2> QED
      BY <1>1, <2>2
  <1>3. FirstChan = Flush(d)
    BY <1>2 DEF FirstChan
  <1>4. Flush(d) \in Chan(Frame) /\ Whole(Flush(d))
    BY <1>2, FlushType
  <1>5. PICK b \in Seq(Frame) :
           /\ Len(b) < Batch
           /\ Len(d.batch) \in {0, Batch} => b = <<>>
           /\ \A x : Count(x, Contents(Flush(d))) + Count(x, b) = Count(x, Contents(d))
    BY <1>1, <1>2, FlushLoses
  <1>6. Cardinality(Frame) % Batch = 0 => b = <<>>
    BY <1>1, <1>2, <1>5, BatchLeft
  <1>7. ASSUME NEW f \in Frame PROVE Count(f, Contents(Flush(d))) + Count(f, b) = 1
    BY <1>1, <1>2, <1>5, EmptyChan
  <1> QED
    BY <1>3, <1>4, <1>5, <1>6, <1>7

(* The socket right after Sock::create. *)
LEMMA Start ==
    ASSUME Init
    PROVE  /\ Shape
           /\ \E b \in Seq(Frame) :
                 /\ Len(b) < Batch
                 /\ Cardinality(Frame) % Batch = 0 => b = <<>>
                 /\ \A f \in Frame : Copies(f) + Count(f, b) = 1
  <1>0. FillSize \in Nat \ {0} /\ TxSize \in Nat \ {0} /\ MaxTokens \in Nat
    BY RingAssumption
  <1>1. PICK q : q = NewRing(FillSize, Zero) /\ Form(q, FillSize, 0, 0, FillSize)
    BY <1>0, NewRingForm
  <1>2. PICK r : /\ r = RefillFillRing(FirstChan, q) /\ r.ok /\ chan = r.chan /\ fq = r.fq
    BY <1>1 DEF Init
  <1>3. Refilled(r, FirstChan, q, 0, 0)
    BY <1>1, <1>2, FirstChanHas, RefillShape
  <1>4. PICK p, e : /\ Form(fq, FillSize, p, 0, e)
                    /\ \A f : Stock(f, chan, fq, p) = Stock(f, FirstChan, q, 0)
    BY <1>2, <1>3 DEF Refilled
  <1>5. chan \in Chan(Frame) /\ Whole(chan)
    BY <1>2, <1>3 DEF Refilled
  <1>6. /\ rx = <<>> /\ rxCached = <<>> /\ cq = <<>> /\ tokens = [f \in Frame |-> 0]
        /\ tx = NewRing(TxSize, Zero) /\ txCached = <<>> /\ toFlush = 0 /\ pc = "idle" /\ starved = FALSE
    BY DEF Init
  <1>7. TxOk(tx, txCached, toFlush, 0, TxSize)
    <2>1. Form(NewRing(TxSize, Zero), TxSize, 0, 0, TxSize)
      BY <1>0, NewRingForm
    <2>2. 0 + Len(<<>>) = 0 /\ <<>> \in Seq(0..(TxSize - 1))
      OBVIOUS
    <2>3. \A x : CachedFrom(<<>>, x)
      BY DEF CachedFrom
    <2> QED
      BY <1>6, <2>1, <2>2, <2>3 DEF TxOk
  <1>8. Shape
    <2>1. tokens \in [Frame -> 0..MaxTokens]
      BY <1>0, <1>6
    <2>2. Types
      <3>1. rx \in Seq(Frame) /\ rxCached \in Seq(Frame) /\ cq \in Seq(Frame)
        BY <1>6
      <3>2. pc \in {"idle", "refill", "again", "resend"} /\ starved \in BOOLEAN
        BY <1>6
      <3> QED
        BY <1>5, <2>1, <3>1, <3>2, Zenon DEF Types
    <2>3. TxInv
      BY <1>7 DEF TxInv
    <2>4. FillInv
      BY <1>4 DEF FillInv
    <2> QED
      BY <2>2, <2>3, <2>4 DEF Shape
  <1>9. ASSUME NEW f \in Frame PROVE Copies(f) = Count(f, Contents(FirstChan))
    <2>1. tokens[f] = 0
      BY <1>6
    <2>2. Copies(f) = Parts(f, Contents(chan), Line(fq, FillSize, p), rx, rxCached, 0, Line(tx, TxSize, 0 + toFlush), cq)
      <3>1. rx \in Seq(Frame) /\ rxCached \in Seq(Frame) /\ cq \in Seq(Frame) /\ 0 \in Nat
        BY <1>6
      <3>2. Tally(f, chan, fq, rx, rxCached, 0, tx, toFlush, cq)
            = Parts(f, Contents(chan), Line(fq, FillSize, p), rx, rxCached, 0, Line(tx, TxSize, 0 + toFlush), cq)
        BY <1>4, <1>5, <1>7, <3>1, TallyIs
      <3>3. Copies(f) = Tally(f, chan, fq, rx, rxCached, tokens[f], tx, toFlush, cq)
        BY CopiesTally
      <3> QED
        BY <2>1, <3>2, <3>3
    <2>3. /\ Count(f, rx) = 0 /\ Count(f, rxCached) = 0 /\ Count(f, cq) = 0
      BY <1>6, CountEmpty
    <2>4. Count(f, Line(tx, TxSize, 0 + toFlush)) = 0
      <3>1. tx \in RingOf(TxSize) /\ 0 + toFlush = 0
        BY <1>6, <1>7, TxNumbers
      <3>2. Line(tx, TxSize, 0) \in Seq(Frame) /\ Len(Line(tx, TxSize, 0)) = 0
        BY <1>0, <3>1, LineType
      <3>3. Line(tx, TxSize, 0) = <<>>
        BY <3>2
      <3> QED
        BY <3>1, <3>3, CountEmpty
    <2>5. Count(f, Line(q, FillSize, 0)) = 0
      <3>1. q \in RingOf(FillSize) /\ 0 \in Nat
        BY <1>1 DEF Form
      <3>2. Line(q, FillSize, 0) \in Seq(Frame) /\ Len(Line(q, FillSize, 0)) = 0
        BY <1>0, <3>1, LineType
      <3>3. Line(q, FillSize, 0) = <<>>
        BY <3>2
      <3> QED
        BY <3>3, CountEmpty
    <2>6. /\ Count(f, Contents(chan)) + Count(f, Line(fq, FillSize, p))
             = Count(f, Contents(FirstChan)) + Count(f, Line(q, FillSize, 0))
      BY <1>4 DEF Stock
    <2>7. Count(f, Contents(FirstChan)) \in Nat
      <3>1. Contents(FirstChan) \in Seq(Frame)
        BY FirstChanHas, ContentsSums
      <3> QED
        BY <3>1, CountType
    <2>8. Copies(f) = Count(f, Contents(chan)) + Count(f, Line(fq, FillSize, p)) + 0 + 0 + 0 + 0 + 0
      BY <2>2, <2>3, <2>4, Zenon DEF Parts
    <2> QED
      BY <2>5, <2>6, <2>7, <2>8
  <1> QED
    BY <1>8, <1>9, FirstChanHas
-----------------------------------------------------------------------------
(* Reversing does not change what occurs how often. *)
LEMMA CountReverse ==
    ASSUME NEW s \in Seq(Frame), NEW f
    PROVE  Count(f, Reverse(s)) = Count(f, s)
  <1>1. PICK t, n : /\ t = Reverse(s) /\ n = Len(s) /\ n \in Nat /\ t \in Seq(Frame) /\ Len(t) = n
                    /\ \A i \in 1..n : t[i] = s[n - i + 1]
    BY ReverseIs
  <1> DEFINE K == {i \in 1..n : s[i] = f}
             I == {i \in 1..n : t[i] = f}
             h == [i \in K |-> n - i + 1]
  <1>2. ASSUME NEW i \in 1..n
        PROVE  /\ n - i + 1 \in 1..n /\ n - (n - i + 1) + 1 = i
               /\ t[n - i + 1] = s[i]
    <2>1. PICK j \in 1..n : j = n - i + 1 /\ n - j + 1 = i
      BY <1>1
    <2> QED
      BY <1>1, <2>1
  <1>3. \A i \in K : h[i] = n - i + 1 /\ i \in 1..n
    OBVIOUS
  <1>4. h \in [K -> I]
    BY <1>2
  <1>5. ASSUME NEW i \in K, NEW j \in K, h[i] = h[j] PROVE i = j
    BY <1>1, <1>3, <1>5
  <1>6. ASSUME NEW i \in I PROVE \E k \in K : h[k] = i
    <2>1. PICK k \in 1..n : k = n - i + 1 /\ n - k + 1 = i
      BY <1>1
    <2>2. t[i] = s[k]
      BY <1>1, <2>1
    <2>3. k \in K
      BY <2>2
    <2> QED
      BY <1>3, <2>1, <2>3
  <1>7. IsFiniteSet(K)
    <2>1. IsFiniteSet(1..n)
      BY <1>1, FS_Interval
    <2> QED
      BY <2>1, FS_Subset
  <1> HIDE DEF h, K, I
  <1>8. h \in Bijection(K, I)
    BY <1>4, <1>5, <1>6 DEF Bijection, Injection, Surjection, IsInjective
  <1>9. Cardinality(K) = Cardinality(I)
    BY <1>7, <1>8, FS_Bijection DEF ExistsBijection
  <1>10. DOMAIN s = 1..n /\ DOMAIN t = 1..n
    BY <1>1
  <1> QED
    BY <1>1, <1>9, <1>10 DEF Count, K, I

(* The head of a sequence moves out of its first n elements. *)
LEMMA HeadOf ==
    ASSUME NEW s \in Seq(Frame), NEW n \in Nat \ {0}, n <= Len(s)
    PROVE  /\ SubSeq(s, 2, n) \in Seq(Frame) /\ SubSeq(s, n + 1, Len(s)) \in Seq(Frame)
           /\ Head(s) \in Frame
           /\ s = <<Head(s)>> \o (SubSeq(s, 2, n) \o SubSeq(s, n + 1, Len(s)))
  <1>1. PICK a, b, e : a = SubSeq(s, 2, n) /\ b = SubSeq(s, n + 1, Len(s)) /\ e = Head(s)
    OBVIOUS
  <1>2. s # <<>> /\ e \in Frame /\ e = s[1] /\ Len(s) \in Nat
    BY <1>1
  <1>3. a \in Seq(Frame) /\ Len(a) = n - 1 /\ \A i \in 1..(n - 1) : a[i] = s[i + 1]
    BY <1>1
  <1>4. b \in Seq(Frame) /\ Len(b) = Len(s) - n /\ \A i \in 1..(Len(s) - n) : b[i] = s[n + i]
    BY <1>1
  <1>5. PICK c : /\ c = a \o b /\ c \in Seq(Frame) /\ Len(c) = Len(s) - 1
                 /\ \A i \in 1..(Len(s) - 1) : c[i] = IF i <= n - 1 THEN a[i] ELSE b[i - (n - 1)]
    <2>1. a \o b \in Seq(Frame) /\ Len(a \o b) = Len(s) - 1
      <3>1. PICK l \in Nat : l = Len(s)
        BY <1>2
      <3>2. a \in Seq(Frame) /\ b \in Seq(Frame) /\ Len(a) = n - 1 /\ Len(b) = l - n
        BY <1>3, <1>4, <3>1
      <3>3. a \o b \in Seq(Frame) /\ Len(a \o b) = l - 1
        BY ONLY <3>2, l \in Nat, n \in Nat
      <3> QED
        BY <3>1, <3>3
    <2>2. \A i \in 1..(Len(s) - 1) : (a \o b)[i] = IF i <= n - 1 THEN a[i] ELSE b[i - (n - 1)]
      BY <1>2, <1>3, <1>4
    <2> QED
      BY <2>1, <2>2
  <1>6. ASSUME NEW i \in 1..(Len(s) - 1) PROVE c[i] = s[i + 1]
    <2>1. CASE i <= n - 1
      BY <1>3, <1>5, <2>1
    <2>2. CASE ~(i <= n - 1)
      <3>1. PICK j \in 1..(Len(s) - n) : j = i - (n - 1) /\ n + j = i + 1
        BY <1>2, <2>2
      <3> QED
        BY <1>4, <1>5, <2>2, <3>1
    <2> QED
      BY <2>1, <2>2
  <1>7. PICK d : /\ d = <<e>> \o c /\ d \in Seq(Frame) /\ Len(d) = Len(s)
                 /\ \A i \in 1..Len(s) : d[i] = IF i = 1 THEN e ELSE c[i - 1]
    <2>1. <<e>> \o c \in Seq(Frame) /\ Len(<<e>> \o c) = Len(s)
      BY <1>2, <1>5
    <2>2. \A i \in 1..Len(s) : (<<e>> \o c)[i] = IF i = 1 THEN e ELSE c[i - 1]
      BY <1>2, <1>5
    <2> QED
      BY <2>1, <2>2
  <1>8. ASSUME NEW i \in 1..Len(s) PROVE d[i] = s[i]
    <2>1. CASE i = 1
      BY <1>2, <1>7, <2>1
    <2>2. CASE i # 1
      <3>1. PICK j \in 1..(Len(s) - 1) : j = i - 1 /\ j + 1 = i
        BY <1>2, <2>2
      <3> QED
        BY <1>6, <1>7, <2>2, <3>1
    <2> QED
      BY <2>1, <2>2
  <1>9. d = s
    BY <1>2, <1>7, <1>8, SeqEqual
  <1> QED
    BY <1>1, <1>2, <1>3, <1>4, <1>5, <1>7, <1>9

(* A packet is taken from the head of what is pending. *)
LEMMA RecvTakesHead ==
    ASSUME Shape, NEW f, AdvanceCached(f) \/ AdvancePeek(f)
    PROVE  /\ f \in Frame /\ rx' \in Seq(Frame) /\ rxCached' \in Seq(Frame)
           /\ RxPending = <<f>> \o RxPending'
  <1>1. rx \in Seq(Frame) /\ rxCached \in Seq(Frame)
    BY DEF Shape, Types
  <1>2. CASE AdvanceCached(f)
    <2>1. rxCached # <<>> /\ f = Last(rxCached) /\ rxCached' = Front(rxCached) /\ rx' = rx
      BY <1>2 DEF AdvanceCached
    <2>2. f \in Frame /\ rxCached' \in Seq(Frame)
      BY <1>1, <2>1, FrontAndLast
    <2>3. PICK a, b : /\ a = Reverse(rxCached) /\ b = Reverse(rxCached')
                      /\ b \in Seq(Frame) /\ a = <<f>> \o b
      <3>1. Reverse(rxCached) = <<f>> \o Reverse(rxCached')
        BY <1>1, <2>1, ReverseLast
      <3>2. Reverse(rxCached') \in Seq(Frame)
        BY <2>2, ReverseIs
      <3> QED
        BY <3>1, <3>2
    <2>4. (<<f>> \o b) \o rx = <<f>> \o (b \o rx)
      <3>1. <<f>> \in Seq(Frame)
        BY <2>2
      <3> QED
        BY <1>1, <2>3, <3>1, ConcatThree
    <2> QED
      BY <1>1, <2>1, <2>2, <2>3, <2>4 DEF RxPending
  <1>3. CASE AdvancePeek(f)
    <2>1. PICK n \in 1..RxBatch :
             /\ rxCached = <<>> /\ n <= Len(rx) /\ f = Head(rx)
             /\ rxCached' = Reverse(SubSeq(rx, 2, n)) /\ rx' = SubSeq(rx, n + 1, Len(rx))
      BY <1>3 DEF AdvancePeek
    <2>2. n \in Nat \ {0}
      BY RingAssumption
    <2>3. /\ SubSeq(rx, 2, n) \in Seq(Frame) /\ SubSeq(rx, n + 1, Len(rx)) \in Seq(Frame)
          /\ Head(rx) \in Frame
          /\ rx = <<Head(rx)>> \o (SubSeq(rx, 2, n) \o SubSeq(rx, n + 1, Len(rx)))
      BY <1>1, <2>1, <2>2, HeadOf
    <2>4. rxCached' \in Seq(Frame) /\ Reverse(rxCached') = SubSeq(rx, 2, n)
      BY <2>1, <2>3, ReverseIs, ReverseTwice
    <2>5. Reverse(rxCached) = <<>>
      <3>1. Reverse(rxCached) \in Seq(Frame) /\ Len(Reverse(rxCached)) = 0
        BY <1>1, <2>1, ReverseIs
      <3> QED
        BY <3>1
    <2>6. RxPending' = SubSeq(rx, 2, n) \o SubSeq(rx, n + 1, Len(rx))
      BY <2>1, <2>4 DEF RxPending
    <2>7. RxPending = rx
      BY <1>1, <2>5 DEF RxPending
    <2> QED
      BY <2>1, <2>3, <2>4, <2>6, <2>7
  <1> QED
    BY <1>2, <1>3
-----------------------------------------------------------------------------
(* Copies before and after a step, by the parts of the state. *)
LEMMA CopiesNow ==
    ASSUME Types, NEW p, NEW m, NEW e, Form(fq, FillSize, p, m, e),
           NEW u, NEW v, TxOk(tx, txCached, toFlush, u, v), NEW f \in Frame
    PROVE  Copies(f) = Parts(f, Contents(chan), Line(fq, FillSize, p), rx, rxCached,
                             tokens[f], Line(tx, TxSize, u + toFlush), cq)
  <1>1. /\ chan \in Chan(Frame) /\ rx \in Seq(Frame) /\ rxCached \in Seq(Frame) /\ cq \in Seq(Frame)
        /\ tokens[f] \in Nat
    <2>1. tokens[f] \in 0..MaxTokens
      BY DEF Types
    <2> QED
      BY <2>1 DEF Types
  <1>2. Tally(f, chan, fq, rx, rxCached, tokens[f], tx, toFlush, cq)
        = Parts(f, Contents(chan), Line(fq, FillSize, p), rx, rxCached,
                tokens[f], Line(tx, TxSize, u + toFlush), cq)
    BY <1>1, TallyIs
  <1> QED
    BY <1>2, CopiesTally

(* The same after the step. *)
LEMMA CopiesNext ==
    ASSUME Types', NEW p, NEW m, NEW e, Form(fq', FillSize, p, m, e),
           NEW u, NEW v, TxOk(tx', txCached', toFlush', u, v), NEW f \in Frame
    PROVE  Copies(f)' = Parts(f, Contents(chan'), Line(fq', FillSize, p), rx', rxCached',
                              tokens'[f], Line(tx', TxSize, u + toFlush'), cq')
  <1>1. /\ chan' \in Chan(Frame) /\ rx' \in Seq(Frame) /\ rxCached' \in Seq(Frame) /\ cq' \in Seq(Frame)
        /\ tokens'[f] \in Nat
    <2>1. tokens'[f] \in 0..MaxTokens
      BY DEF Types
    <2> QED
      BY <2>1 DEF Types, Chan
  <1>2. Tally(f, chan', fq', rx', rxCached', tokens'[f], tx', toFlush', cq')
        = Parts(f, Contents(chan'), Line(fq', FillSize, p), rx', rxCached',
                tokens'[f], Line(tx', TxSize, u + toFlush'), cq')
    BY <1>1, TallyIs
  <1> QED
    BY <1>2, CopiesTallyNext

(* The counts are numbers. *)
LEMMA CountsNow ==
    ASSUME Types, NEW p, NEW m, NEW e, Form(fq, FillSize, p, m, e),
           NEW u, NEW v, TxOk(tx, txCached, toFlush, u, v), NEW f \in Frame
    PROVE  /\ Count(f, Contents(chan)) \in Nat /\ Count(f, Line(fq, FillSize, p)) \in Nat
           /\ Count(f, rx) \in Nat /\ Count(f, rxCached) \in Nat /\ tokens[f] \in Nat
           /\ Count(f, Line(tx, TxSize, u + toFlush)) \in Nat /\ Count(f, cq) \in Nat
  <1>1. /\ chan \in Chan(Frame) /\ rx \in Seq(Frame) /\ rxCached \in Seq(Frame) /\ cq \in Seq(Frame)
        /\ tokens[f] \in Nat
    <2>1. tokens[f] \in 0..MaxTokens
      BY DEF Types
    <2> QED
      BY <2>1 DEF Types
  <1>2. Contents(chan) \in Seq(Frame)
    BY <1>1, ContentsSums
  <1>3. Line(fq, FillSize, p) \in Seq(Frame)
    <2>1. FillSize \in Nat \ {0} /\ p \in Nat /\ fq \in RingOf(FillSize)
      BY RingAssumption DEF Form
    <2> QED
      BY <2>1, LineType
  <1>4. Line(tx, TxSize, u + toFlush) \in Seq(Frame)
    <2>1. TxSize \in Nat \ {0}
      BY RingAssumption
    <2>2. u \in Nat /\ toFlush \in Nat /\ tx \in RingOf(TxSize)
      BY TxNumbers, Zenon
    <2>3. u + toFlush \in Nat
      BY <2>2
    <2> QED
      BY <2>1, <2>2, <2>3, LineType
  <1> QED
    BY <1>1, <1>2, <1>3, <1>4, CountType

(* Every frame has as many owners after a step as before. *)
Same == \A f \in Frame : Copies(f)' = Copies(f)

(* One frame more at the end. *)
LEMMA CountLast ==
    ASSUME NEW g \in Frame, NEW s \in Seq(Frame), NEW f
    PROVE  Count(f, Append(s, g)) = Count(f, s) + (IF g = f THEN 1 ELSE 0) /\ Count(f, s) \in Nat
  BY CountAppend, CountType

(* One element more, at either end. *)
LEMMA CountOne ==
    ASSUME NEW g \in Frame, NEW s \in Seq(Frame), NEW f
    PROVE  /\ Count(f, <<g>> \o s) = (IF g = f THEN 1 ELSE 0) + Count(f, s)
           /\ Count(f, Append(s, g)) = Count(f, s) + (IF g = f THEN 1 ELSE 0)
           /\ Count(f, s) \in Nat
  <1>1. <<g>> \in Seq(Frame) /\ <<g>> = Append(<<>>, g) /\ <<>> \in Seq(Frame)
    OBVIOUS
  <1>2. Count(f, <<g>> \o s) = Count(f, <<g>>) + Count(f, s)
    BY <1>1, CountConcat
  <1>3. Count(f, Append(<<>>, g)) = Count(f, <<>>) + (IF g = f THEN 1 ELSE 0)
    BY <1>1, CountAppend
  <1>4. Count(f, <<g>>) = IF g = f THEN 1 ELSE 0
    BY <1>1, <1>3, CountEmpty
  <1>5. Count(f, Append(s, g)) = Count(f, s) + (IF g = f THEN 1 ELSE 0) /\ Count(f, s) \in Nat
    BY CountLast
  <1> QED
    BY <1>2, <1>4, <1>5

(* recv_token: the frame goes from the RX ring to a token. *)
LEMMA RecvStep ==
    ASSUME Shape, NEW g \in Frame, Recv(g)
    PROVE  Shape' /\ (~starved' => Same)
  <1>1. /\ NumTokens < MaxTokens /\ (AdvanceCached(g) \/ AdvancePeek(g))
        /\ tokens' = [tokens EXCEPT ![g] = @ + 1] /\ pc' = "idle"
        /\ chan' = chan /\ fq' = fq /\ tx' = tx /\ txCached' = txCached /\ toFlush' = toFlush
        /\ cq' = cq /\ starved' = starved
    BY DEF Recv, txVars
  <1>2. rx' \in Seq(Frame) /\ rxCached' \in Seq(Frame) /\ RxPending = <<g>> \o RxPending'
    BY <1>1, RecvTakesHead
  <1>3. /\ tokens \in [Frame -> 0..MaxTokens] /\ MaxTokens \in Nat
        /\ rx \in Seq(Frame) /\ rxCached \in Seq(Frame)
    BY RingAssumption DEF Shape, Types
  <1>4. tokens' \in [Frame -> 0..MaxTokens]
    <2>1. tokens \in [Frame -> Nat]
      BY <1>3
    <2>2. NumTokens \in Nat /\ tokens[g] <= NumTokens
      BY <2>1, TokensBound
    <2>3. tokens[g] + 1 \in 0..MaxTokens
      BY <1>1, <1>3, <2>1, <2>2
    <2> QED
      BY <1>1, <1>3, <2>3
  <1>5. Types'
    <2>1. Types
      BY DEF Shape
    <2> QED
      BY <1>1, <1>2, <1>4, <2>1 DEF Types
  <1>6. Shape'
    BY <1>1, <1>5 DEF Shape, TxInv, FillInv
  <1>7. ASSUME NEW f \in Frame PROVE Copies(f)' = Copies(f)
    <2>1. PICK p, m, e, u, v : Form(fq, FillSize, p, m, e) /\ TxOk(tx, txCached, toFlush, u, v)
      BY DEF Shape, TxInv, FillInv
    <2>2. Copies(f) = Parts(f, Contents(chan), Line(fq, FillSize, p), rx, rxCached,
                            tokens[f], Line(tx, TxSize, u + toFlush), cq)
      BY <2>1, CopiesNow DEF Shape
    <2>3. Form(fq', FillSize, p, m, e) /\ TxOk(tx', txCached', toFlush', u, v)
      BY <1>1, <2>1
    <2>4. Copies(f)' = Parts(f, Contents(chan'), Line(fq', FillSize, p), rx', rxCached',
                             tokens'[f], Line(tx', TxSize, u + toFlush'), cq')
      BY <1>5, <2>3, CopiesNext
    <2>5. Copies(f)' = Parts(f, Contents(chan), Line(fq, FillSize, p), rx', rxCached',
                             tokens'[f], Line(tx, TxSize, u + toFlush), cq)
      BY <1>1, <2>4, Zenon
    <2>6. /\ Count(f, Contents(chan)) \in Nat /\ Count(f, Line(fq, FillSize, p)) \in Nat
          /\ Count(f, rx) \in Nat /\ Count(f, rxCached) \in Nat /\ tokens[f] \in Nat
          /\ Count(f, Line(tx, TxSize, u + toFlush)) \in Nat /\ Count(f, cq) \in Nat
      BY <2>1, CountsNow DEF Shape
    <2>7. tokens'[f] = tokens[f] + IF g = f THEN 1 ELSE 0
      BY <1>1, <1>3, <2>6
    <2>8. Count(f, rx') \in Nat /\ Count(f, rxCached') \in Nat
      BY <1>2, CountType
    <2>9. Count(f, rxCached) + Count(f, rx)
          = (IF g = f THEN 1 ELSE 0) + (Count(f, rxCached') + Count(f, rx'))
      <3>1. PICK a, b, s, t : /\ a = Reverse(rxCached) /\ b = Reverse(rxCached')
                              /\ s = a \o rx /\ t = b \o rx'
                              /\ a \in Seq(Frame) /\ b \in Seq(Frame)
        BY <1>2, <1>3, ReverseIs
      <3>2. Count(f, a) = Count(f, rxCached) /\ Count(f, b) = Count(f, rxCached')
        BY <1>2, <1>3, <3>1, CountReverse
      <3>3. Count(f, s) = Count(f, a) + Count(f, rx) /\ Count(f, t) = Count(f, b) + Count(f, rx')
        BY <1>2, <1>3, <3>1, CountConcat
      <3>4. s = <<g>> \o t /\ t \in Seq(Frame)
        BY <1>2, <3>1 DEF RxPending
      <3>5. Count(f, <<g>> \o t) = (IF g = f THEN 1 ELSE 0) + Count(f, t)
        BY <3>4, CountOne
      <3> QED
        BY <3>2, <3>3, <3>4, <3>5
    <2>10. PICK a1, a2, a3, a4, b3, b4 : /\ a1 = Count(f, Contents(chan)) /\ a2 = Count(f, Line(fq, FillSize, p))
                     /\ a3 = Count(f, rx) /\ a4 = Count(f, rxCached) /\ b3 = Count(f, rx') /\ b4 = Count(f, rxCached')
      OBVIOUS
    <2>11. PICK a5, b5, a6, a7 : /\ a5 = tokens[f] /\ b5 = tokens'[f] /\ a6 = Count(f, Line(tx, TxSize, u + toFlush)) /\ a7 = Count(f, cq)
      OBVIOUS
    <2>12. /\ Copies(f) = a1 + a2 + a3 + a4 + a5 + a6 + a7
           /\ Copies(f)' = a1 + a2 + b3 + b4 + b5 + a6 + a7
      BY <2>2, <2>5, <2>10, <2>11, Zenon DEF Parts
    <2>13. /\ a1 \in Nat /\ a2 \in Nat /\ a3 \in Nat /\ a4 \in Nat /\ a5 \in Nat /\ a6 \in Nat /\ a7 \in Nat
           /\ b3 \in Nat /\ b4 \in Nat
      BY <2>6, <2>8, <2>10, <2>11
    <2>14. b5 = a5 + (IF g = f THEN 1 ELSE 0) /\ a4 + a3 = (IF g = f THEN 1 ELSE 0) + (b4 + b3)
      BY <2>7, <2>9, <2>10, <2>11
    <2>15. a1 + a2 + a3 + a4 + a5 + a6 + a7 = a1 + a2 + b3 + b4 + b5 + a6 + a7
      BY ONLY <2>13, <2>14
    <2> QED
      BY <2>12, <2>15
  <1> QED
    BY <1>6, <1>7 DEF Same
-----------------------------------------------------------------------------
(* Steps that leave the frames where they are. *)
LEMMA IdleStep ==
    ASSUME Shape, RecvMiss \/ RecvNone
    PROVE  Shape' /\ Same
  <1>1. /\ pc' \in {"refill", "idle"} /\ chan' = chan /\ fq' = fq /\ tx' = tx /\ txCached' = txCached
        /\ toFlush' = toFlush /\ cq' = cq /\ starved' = starved /\ rx' = rx /\ rxCached' = rxCached
        /\ tokens' = tokens
    BY DEF RecvMiss, RecvNone, txVars, rxVars
  <1>2. Shape'
    BY <1>1 DEF Shape, Types, TxInv, FillInv
  <1>3. ASSUME NEW f \in Frame PROVE Copies(f)' = Copies(f)
    <2>1. Copies(f) = Tally(f, chan, fq, rx, rxCached, tokens[f], tx, toFlush, cq)
      BY CopiesTally
    <2>2. Copies(f)' = Tally(f, chan', fq', rx', rxCached', tokens'[f], tx', toFlush', cq')
      BY CopiesTallyNext
    <2> QED
      BY <1>1, <2>1, <2>2, Zenon
  <1> QED
    BY <1>2, <1>3 DEF Same

(* Ctx::release: the frame goes from its token to the channel. *)
LEMMA ReleaseStep ==
    ASSUME Shape, NEW g \in Frame, Release(g)
    PROVE  Shape' /\ (Len(Contents(chan)) <= SpscLen => Same)
  <1>1. /\ tokens[g] > 0 /\ tokens' = [tokens EXCEPT ![g] = @ - 1] /\ chan' = Push(chan, g)
        /\ fq' = fq /\ tx' = tx /\ txCached' = txCached /\ toFlush' = toFlush /\ pc' = pc
        /\ cq' = cq /\ starved' = starved /\ rx' = rx /\ rxCached' = rxCached
    BY DEF Release, txVars, rxVars
  <1>2. /\ tokens \in [Frame -> 0..MaxTokens] /\ MaxTokens \in Nat /\ chan \in Chan(Frame) /\ Whole(chan)
        /\ Types
    BY RingAssumption DEF Shape, Types
  <1>3. tokens' \in [Frame -> 0..MaxTokens] /\ \A f \in Frame : tokens'[f] = tokens[f] - IF g = f THEN 1 ELSE 0
    <2>1. tokens[g] - 1 \in 0..MaxTokens
      BY <1>1, <1>2
    <2>2. \A f \in Frame : tokens[f] \in Nat
      BY <1>2
    <2> QED
      BY <1>1, <1>2, <2>1, <2>2
  <1>4. chan' \in Chan(Frame) /\ Whole(chan')
    BY <1>1, <1>2, PushType
  <1>5. Types'
    <2>1. Whole(chan)'
      BY <1>4 DEF Whole
    <2> QED
      BY <1>1, <1>2, <1>3, <1>4, <2>1 DEF Types, Chan
  <1>6. Shape'
    BY <1>1, <1>5 DEF Shape, TxInv, FillInv
  <1>7. ASSUME Len(Contents(chan)) <= SpscLen, NEW f \in Frame PROVE Copies(f)' = Copies(f)
    <2>1. PICK p, m, e, u, v : Form(fq, FillSize, p, m, e) /\ TxOk(tx, txCached, toFlush, u, v)
      BY DEF Shape, TxInv, FillInv
    <2>2. Copies(f) = Parts(f, Contents(chan), Line(fq, FillSize, p), rx, rxCached,
                            tokens[f], Line(tx, TxSize, u + toFlush), cq)
      BY <1>2, <2>1, CopiesNow
    <2>3. Form(fq', FillSize, p, m, e) /\ TxOk(tx', txCached', toFlush', u, v)
      BY <1>1, <2>1
    <2>4. Copies(f)' = Parts(f, Contents(chan'), Line(fq', FillSize, p), rx', rxCached',
                             tokens'[f], Line(tx', TxSize, u + toFlush'), cq')
      BY <1>5, <2>3, CopiesNext
    <2>5. Copies(f)' = Parts(f, Contents(chan'), Line(fq, FillSize, p), rx, rxCached,
                             tokens'[f], Line(tx, TxSize, u + toFlush), cq)
      BY <1>1, <2>4, Zenon
    <2>6. /\ Count(f, Contents(chan)) \in Nat /\ Count(f, Line(fq, FillSize, p)) \in Nat
          /\ Count(f, rx) \in Nat /\ Count(f, rxCached) \in Nat /\ tokens[f] \in Nat
          /\ Count(f, Line(tx, TxSize, u + toFlush)) \in Nat /\ Count(f, cq) \in Nat
      BY <1>2, <2>1, CountsNow
    <2>7. tokens'[f] = tokens[f] - IF g = f THEN 1 ELSE 0
      BY <1>3
    <2>8. Count(f, Contents(chan')) = Count(f, Contents(chan)) + (IF g = f THEN 1 ELSE 0)
      BY <1>1, <1>2, <1>7, PushAdds
    <2> QED
      BY ONLY <2>2, <2>5, <2>6, <2>7, <2>8 DEF Parts
  <1> QED
    BY <1>6, <1>7 DEF Same

(* The kernel receives: from the fill ring to the RX ring. *)
LEMMA KernelRxStep ==
    ASSUME Shape, KernelRx
    PROVE  Shape' /\ Same /\ \E g \in Frame : RxPending' = Append(RxPending, g)
  <1>1. /\ Pending(fq) > 0 /\ rx' = Append(rx, fq.slot[KernelSlot(fq)]) /\ fq' = KernelTakes(fq)
        /\ chan' = chan /\ tx' = tx /\ txCached' = txCached /\ toFlush' = toFlush /\ pc' = pc
        /\ cq' = cq /\ starved' = starved /\ rxCached' = rxCached /\ tokens' = tokens
    BY DEF KernelRx, txVars
  <1>2. PICK p, m, e : Form(fq, FillSize, p, m, e) /\ (starved \/ m = 0)
    BY DEF Shape, FillInv
  <1>3. PICK u, v : TxOk(tx, txCached, toFlush, u, v)
    BY DEF Shape, TxInv
  <1>4. /\ FillSize \in Nat \ {0} /\ p \in Nat /\ p > 0 /\ fq \in RingOf(FillSize)
    <2>1. FillSize \in Nat \ {0}
      BY RingAssumption
    <2>2. Pending(fq) = p
      BY <1>2, <2>1, FormReads
    <2> QED
      BY <1>1, <1>2, <2>1, <2>2 DEF Form
  <1>5. PICK n \in Nat : n = p - 1 /\ p = 1 + n
    BY <1>4
  <1>6. Form(fq', FillSize, n, m, e)
    BY <1>1, <1>2, <1>4, <1>5, FormTakes
  <1>7. PICK g \in Frame : /\ g = fq.slot[KernelSlot(fq)]
                           /\ Line(fq, FillSize, p) = <<g>> \o Line(fq', FillSize, n)
    <2>1. /\ fq.slot[KernelSlot(fq)] \in Frame
          /\ Line(fq, FillSize, 1 + n)
             = <<fq.slot[KernelSlot(fq)]>> \o Line(KernelTakes(fq), FillSize, n)
      BY <1>2, <1>4, <1>5, LineTakes
    <2> QED
      BY <1>1, <1>5, <2>1, Zenon
  <1>8. Types /\ rx \in Seq(Frame) /\ rxCached \in Seq(Frame)
    BY DEF Shape, Types
  <1>9. rx' = Append(rx, g) /\ rx' \in Seq(Frame)
    BY <1>1, <1>7, <1>8
  <1>10. Types'
    BY <1>1, <1>8, <1>9 DEF Types
  <1>11. Shape'
    BY <1>1, <1>2, <1>3, <1>6, <1>10 DEF Shape, TxInv, FillInv
  <1>12. ASSUME NEW f \in Frame PROVE Copies(f)' = Copies(f)
    <2>2. Copies(f) = Parts(f, Contents(chan), Line(fq, FillSize, p), rx, rxCached,
                            tokens[f], Line(tx, TxSize, u + toFlush), cq)
      BY <1>2, <1>3, <1>8, CopiesNow
    <2>3. TxOk(tx', txCached', toFlush', u, v)
      BY <1>1, <1>3
    <2>4. Copies(f)' = Parts(f, Contents(chan'), Line(fq', FillSize, n), rx', rxCached',
                             tokens'[f], Line(tx', TxSize, u + toFlush'), cq')
      BY <1>6, <1>10, <2>3, CopiesNext
    <2>5. Copies(f)' = Parts(f, Contents(chan), Line(fq', FillSize, n), rx', rxCached,
                             tokens[f], Line(tx, TxSize, u + toFlush), cq)
      BY <1>1, <2>4, Zenon
    <2>6. /\ Count(f, Contents(chan)) \in Nat /\ Count(f, Line(fq, FillSize, p)) \in Nat
          /\ Count(f, rx) \in Nat /\ Count(f, rxCached) \in Nat /\ tokens[f] \in Nat
          /\ Count(f, Line(tx, TxSize, u + toFlush)) \in Nat /\ Count(f, cq) \in Nat
      BY <1>2, <1>3, <1>8, CountsNow
    <2>7. Line(fq', FillSize, n) \in Seq(Frame)
      <3>1. fq' \in RingOf(FillSize)
        BY <1>6 DEF Form
      <3> QED
        BY <1>4, <3>1, LineType
    <2>8. /\ Count(f, Line(fq, FillSize, p)) = (IF g = f THEN 1 ELSE 0) + Count(f, Line(fq', FillSize, n))
          /\ Count(f, Line(fq', FillSize, n)) \in Nat
      BY <1>7, <2>7, CountOne
    <2>9. Count(f, rx') = Count(f, rx) + (IF g = f THEN 1 ELSE 0)
      <3>1. Count(f, Append(rx, g)) = Count(f, rx) + (IF g = f THEN 1 ELSE 0)
        BY <1>8, CountAppend
      <3> QED
        BY <1>9, <3>1
    <2> QED
      BY ONLY <2>2, <2>5, <2>6, <2>8, <2>9 DEF Parts
  <1>13. RxPending' = Append(RxPending, g)
    <2>1. PICK a \in Seq(Frame) : a = Reverse(rxCached) /\ a = Reverse(rxCached')
      BY <1>1, <1>8, ReverseIs
    <2>2. a \o Append(rx, g) = Append(a \o rx, g)
      BY <1>8
    <2> QED
      BY <1>9, <2>1, <2>2 DEF RxPending
  <1> QED
    BY <1>11, <1>12, <1>13 DEF Same

(* The kernel transmits: from the TX to the completion ring. *)
LEMMA KernelTxStep ==
    ASSUME Shape, KernelTx
    PROVE  Shape' /\ Same
  <1>1. /\ Pending(tx) > 0 /\ cq' = Append(cq, tx.slot[KernelSlot(tx)]) /\ tx' = KernelTakes(tx)
        /\ chan' = chan /\ fq' = fq /\ txCached' = txCached /\ toFlush' = toFlush /\ pc' = pc
        /\ rx' = rx /\ starved' = starved /\ rxCached' = rxCached /\ tokens' = tokens
    BY DEF KernelTx, rxVars
  <1>2. PICK p, m, e : Form(fq, FillSize, p, m, e)
    BY DEF Shape, FillInv
  <1>3. PICK u, v : TxOk(tx, txCached, toFlush, u, v)
    BY DEF Shape, TxInv
  <1>4. PICK k : Form(tx, TxSize, u, k, v)
    BY <1>3 DEF TxOk
  <1>5. TxSize \in Nat \ {0} /\ u \in Nat /\ u > 0 /\ toFlush \in Nat
    <2>1. TxSize \in Nat \ {0}
      BY RingAssumption
    <2>2. Pending(tx) = u
      BY <1>4, <2>1, FormReads
    <2> QED
      BY <1>1, <1>3, <2>1, <2>2, TxNumbers
  <1>6. PICK n \in Nat : n = u - 1 + toFlush /\ u + toFlush = 1 + n
    BY <1>5
  <1>7. TxOk(tx', txCached', toFlush', u - 1, v)
    BY <1>1, <1>3, <1>5, TxTakes
  <1>8. PICK g \in Frame : /\ g = tx.slot[KernelSlot(tx)]
                           /\ Line(tx, TxSize, 1 + n) = <<g>> \o Line(tx', TxSize, n)
    BY <1>1, <1>4, <1>5, LineTakes
  <1>9. Types /\ cq \in Seq(Frame)
    BY DEF Shape, Types
  <1>10. cq' = Append(cq, g) /\ cq' \in Seq(Frame)
    BY <1>1, <1>8, <1>9
  <1>11. Types'
    BY <1>1, <1>9, <1>10 DEF Types
  <1>12. Shape'
    BY <1>1, <1>7, <1>11 DEF Shape, TxInv, FillInv
  <1>13. ASSUME NEW f \in Frame PROVE Copies(f)' = Copies(f)
    <2>2. Copies(f) = Parts(f, Contents(chan), Line(fq, FillSize, p), rx, rxCached,
                            tokens[f], Line(tx, TxSize, u + toFlush), cq)
      BY <1>2, <1>3, <1>9, CopiesNow
    <2>3. Form(fq', FillSize, p, m, e)
      BY <1>1, <1>2
    <2>4. Copies(f)' = Parts(f, Contents(chan'), Line(fq', FillSize, p), rx', rxCached',
                             tokens'[f], Line(tx', TxSize, u - 1 + toFlush'), cq')
      BY <1>7, <1>11, <2>3, CopiesNext
    <2>5. Copies(f)' = Parts(f, Contents(chan), Line(fq, FillSize, p), rx, rxCached,
                             tokens[f], Line(tx', TxSize, n), cq')
      BY <1>1, <1>6, <2>4, Zenon
    <2>6. /\ Count(f, Contents(chan)) \in Nat /\ Count(f, Line(fq, FillSize, p)) \in Nat
          /\ Count(f, rx) \in Nat /\ Count(f, rxCached) \in Nat /\ tokens[f] \in Nat
          /\ Count(f, Line(tx, TxSize, u + toFlush)) \in Nat /\ Count(f, cq) \in Nat
      BY <1>2, <1>3, <1>9, CountsNow
    <2>7. Line(tx', TxSize, n) \in Seq(Frame)
      <3>1. tx' \in RingOf(TxSize)
        BY <1>7 DEF TxOk, Form
      <3> QED
        BY <1>5, <3>1, LineType
    <2>8. /\ Count(f, Line(tx, TxSize, u + toFlush)) = (IF g = f THEN 1 ELSE 0) + Count(f, Line(tx', TxSize, n))
          /\ Count(f, Line(tx', TxSize, n)) \in Nat
      <3>1. PICK s : s = Line(tx', TxSize, n) /\ s \in Seq(Frame)
        BY <2>7
      <3>2. Count(f, <<g>> \o s) = (IF g = f THEN 1 ELSE 0) + Count(f, s) /\ Count(f, s) \in Nat
        BY <3>1, CountOne
      <3>3. Line(tx, TxSize, u + toFlush) = <<g>> \o s
        BY <1>6, <1>8, <3>1
      <3> QED
        BY <3>1, <3>2, <3>3
    <2>9. Count(f, cq') = Count(f, cq) + (IF g = f THEN 1 ELSE 0)
      <3>1. Count(f, Append(cq, g)) = Count(f, cq) + (IF g = f THEN 1 ELSE 0)
        BY <1>9, CountAppend
      <3> QED
        BY <1>10, <3>1
    <2> QED
      BY ONLY <2>2, <2>5, <2>6, <2>8, <2>9, SMTT(40) DEF Parts
  <1> QED
    BY <1>12, <1>13 DEF Same

(* refill_fill_ring: from the channel to the fill ring. *)
LEMMA RefillStep ==
    ASSUME Shape, Refill
    PROVE  Shape' /\ (~starved' => Same)
  <1>1. PICK r : /\ r = RefillFillRing(chan, fq) /\ chan' = r.chan /\ fq' = r.fq
                 /\ pc' = (IF r.ok THEN "again" ELSE "idle") /\ starved' = (starved \/ ~r.ok)
    BY DEF Refill
  <1>2. /\ rx' = rx /\ rxCached' = rxCached /\ tokens' = tokens /\ tx' = tx
        /\ txCached' = txCached /\ toFlush' = toFlush /\ cq' = cq
    BY DEF Refill, rxVars, txVars
  <1>3. PICK p, m, e : Form(fq, FillSize, p, m, e) /\ (starved \/ m = 0)
    BY DEF Shape, FillInv
  <1>4. PICK u, v : TxOk(tx, txCached, toFlush, u, v)
    BY DEF Shape, TxInv
  <1>5. Types /\ chan \in Chan(Frame) /\ Whole(chan)
    BY DEF Shape, Types
  <1>6. Refilled(r, chan, fq, p, m)
    BY <1>1, <1>3, <1>5, RefillShape
  <1>7. chan' \in Chan(Frame) /\ Whole(chan') /\ r.ok \in BOOLEAN
    BY <1>1, <1>6 DEF Refilled
  <1>8. PICK p2, m2, e2 :
           /\ Form(fq', FillSize, p2, m2, e2)
           /\ r.ok /\ m = 0 => m2 = 0 /\ \A f : Stock(f, chan', fq', p2) = Stock(f, chan, fq, p)
    BY <1>1, <1>6 DEF Refilled
  <1>9. Types'
    <2>1. Whole(chan)'
      BY <1>7 DEF Whole
    <2>2. pc' \in {"idle", "refill", "again", "resend"} /\ starved' \in BOOLEAN
      BY <1>1, <1>5, <1>7 DEF Types
    <2> QED
      BY <1>2, <1>5, <1>7, <2>1, <2>2 DEF Types, Chan
  <1>10. Shape'
    <2>1. starved' \/ m2 = 0
      BY <1>1, <1>3, <1>8
    <2> QED
      BY <1>2, <1>4, <1>8, <1>9, <2>1 DEF Shape, TxInv, FillInv
  <1>11. ASSUME ~starved', NEW f \in Frame PROVE Copies(f)' = Copies(f)
    <2>1. r.ok /\ m = 0
      BY <1>1, <1>3, <1>11
    <2>2. Copies(f) = Parts(f, Contents(chan), Line(fq, FillSize, p), rx, rxCached,
                            tokens[f], Line(tx, TxSize, u + toFlush), cq)
      BY <1>3, <1>4, <1>5, CopiesNow
    <2>3. TxOk(tx', txCached', toFlush', u, v)
      BY <1>2, <1>4
    <2>4. Copies(f)' = Parts(f, Contents(chan'), Line(fq', FillSize, p2), rx', rxCached',
                             tokens'[f], Line(tx', TxSize, u + toFlush'), cq')
      BY <1>8, <1>9, <2>3, CopiesNext
    <2>5. Copies(f)' = Parts(f, Contents(chan'), Line(fq', FillSize, p2), rx, rxCached,
                             tokens[f], Line(tx, TxSize, u + toFlush), cq)
      BY <1>2, <2>4, Zenon
    <2>6. /\ Count(f, Contents(chan)) \in Nat /\ Count(f, Line(fq, FillSize, p)) \in Nat
          /\ Count(f, rx) \in Nat /\ Count(f, rxCached) \in Nat /\ tokens[f] \in Nat
          /\ Count(f, Line(tx, TxSize, u + toFlush)) \in Nat /\ Count(f, cq) \in Nat
      BY <1>3, <1>4, <1>5, CountsNow
    <2>7. /\ Count(f, Contents(chan')) + Count(f, Line(fq', FillSize, p2))
             = Count(f, Contents(chan)) + Count(f, Line(fq, FillSize, p))
      BY <1>8, <2>1 DEF Stock
    <2>8. Count(f, Contents(chan')) \in Nat /\ Count(f, Line(fq', FillSize, p2)) \in Nat
      <3>1. Contents(chan') \in Seq(Frame)
        BY <1>7, ContentsSums
      <3>2. Line(fq', FillSize, p2) \in Seq(Frame)
        <4>1. FillSize \in Nat \ {0} /\ p2 \in Nat /\ fq' \in RingOf(FillSize)
          BY <1>8, RingAssumption DEF Form
        <4> QED
          BY <4>1, LineType
      <3> QED
        BY <3>1, <3>2, CountType
    <2> QED
      BY ONLY <2>2, <2>5, <2>6, <2>7, <2>8 DEF Parts
  <1> QED
    BY <1>10, <1>11 DEF Same
-----------------------------------------------------------------------------
(* send_inner on the next slot of a ring. *)
WriteOk(t, tc, tf, tn, p, e) ==
    /\ chan' \in Chan(Frame) /\ Whole(chan') /\ starved' \in BOOLEAN
    /\ starved => starved'
    /\ TxOk(tx', tc, tn, p, e)
    /\ ~starved' => \A f : Count(f, Contents(chan')) + Count(f, Line(tx', TxSize, p + tn))
                           = Count(f, Contents(chan)) + Count(f, Line(t, TxSize, p + tf))

(* send_inner writes a frame or leaves the slot as it was. *)
LEMMA WriteStep ==
    ASSUME Shape, NEW t, NEW tc, NEW tf, NEW p, NEW e, TxOk(t, tc, tf, p, e), tc # <<>>,
           WriteSlot(t, Head(tc))
    PROVE  WriteOk(t, Tail(tc), tf, tf + 1, p, e)
  <1>1. chan \in Chan(Frame) /\ Whole(chan) /\ starved \in BOOLEAN
    BY DEF Shape, Types
  <1>2. CASE ~HasNext(chan)
    <2>1. tx' = t /\ chan' = Ready(chan) /\ starved' = TRUE
      BY <1>2 DEF WriteSlot
    <2>2. TxOk(t, Tail(tc), tf + 1, p, e)
      BY TxSkip
    <2>3. chan' \in Chan(Frame) /\ Whole(chan')
      BY <1>1, <2>1, ReadyKeeps
    <2> QED
      BY <2>1, <2>2, <2>3 DEF WriteOk
  <1>3. CASE HasNext(chan)
    <2>1. PICK g : g = NextElem(chan)
      OBVIOUS
    <2>2. tx' = PutSlot(t, Head(tc), g) /\ chan' = Pop(chan) /\ starved' = starved
      BY <1>3, <2>1 DEF WriteSlot, PutSlot
    <2>3. /\ Pop(chan) \in Chan(Frame) /\ Whole(Pop(chan)) /\ NextElem(chan) \in Frame
          /\ \A x : Count(x, Contents(chan))
                    = Count(x, Contents(Pop(chan))) + (IF NextElem(chan) = x THEN 1 ELSE 0)
      BY <1>1, <1>3, PopTakes
    <2>4. g \in Frame /\ chan' \in Chan(Frame) /\ Whole(chan')
      BY <2>1, <2>2, <2>3
    <2>5. /\ TxOk(tx', Tail(tc), tf + 1, p, e)
          /\ Line(tx', TxSize, p + (tf + 1)) = Append(Line(t, TxSize, p + tf), g)
      BY <2>2, <2>4, TxWrite
    <2>6. ASSUME NEW f
          PROVE  Count(f, Contents(chan')) + Count(f, Line(tx', TxSize, p + (tf + 1)))
                 = Count(f, Contents(chan)) + Count(f, Line(t, TxSize, p + tf))
      <3>1. Line(t, TxSize, p + tf) \in Seq(Frame)
        <4>1. t \in RingOf(TxSize) /\ p + tf \in Nat /\ TxSize \in Nat \ {0}
          <5>1. t \in RingOf(TxSize) /\ p \in Nat /\ tf \in Nat /\ TxSize \in Nat \ {0}
            BY TxNumbers, RingAssumption
          <5> QED
            BY <5>1
        <4> QED
          BY <4>1, LineType
      <3>2. PICK s : s = Line(t, TxSize, p + tf) /\ s \in Seq(Frame)
        BY <3>1
      <3>3. Count(f, Append(s, g)) = Count(f, s) + (IF g = f THEN 1 ELSE 0) /\ Count(f, s) \in Nat
        <4>1. g \in Frame /\ s \in Seq(Frame)
          BY <2>4, <3>2, Zenon
        <4> QED
          BY <4>1, CountLast
      <3>4. Count(f, Contents(chan)) = Count(f, Contents(chan')) + (IF g = f THEN 1 ELSE 0)
        BY <2>1, <2>2, <2>3
      <3>5. Count(f, Contents(chan')) \in Nat
        <4>1. Contents(chan') \in Seq(Frame)
          BY <2>4, ContentsSums
        <4> QED
          BY <4>1, CountType
      <3>6. Count(f, Line(tx', TxSize, p + (tf + 1))) = Count(f, s) + (IF g = f THEN 1 ELSE 0)
        BY <2>5, <3>2, <3>3, Zenon
      <3> QED
        BY ONLY <3>2, <3>3, <3>4, <3>5, <3>6
    <2> QED
      BY <1>1, <2>2, <2>4, <2>5, <2>6 DEF WriteOk
  <1> QED
    BY <1>2, <1>3

(* send: from the channel to the TX ring. *)
LEMMA SendStep ==
    ASSUME Shape, Send
    PROVE  Shape' /\ (~starved' => Same)
  <1>1. /\ SlotCached \/ SlotReserved
        /\ pc' = "idle" /\ fq' = fq /\ rx' = rx /\ rxCached' = rxCached /\ tokens' = tokens /\ cq' = cq
    BY DEF Send, rxVars
  <1>2. PICK u, v : TxOk(tx, txCached, toFlush, u, v)
    BY DEF Shape, TxInv
  <1>3. PICK t, tc, tf, w, y :
           /\ TxOk(t, tc, tf, w, y) /\ tc # <<>> /\ WriteSlot(t, Head(tc))
           /\ txCached' = Tail(tc) /\ toFlush' = tf + 1
           /\ Line(t, TxSize, w + tf) = Line(tx, TxSize, u + toFlush)
    <2>1. CASE SlotCached
      BY <1>2, <2>1 DEF SlotCached
    <2>2. CASE SlotReserved
      <3>1. /\ txCached = <<>> /\ CanReserve(Synced, TxBatch) /\ txCached' = Tail(NewSlots(Synced))
            /\ toFlush' = 1 /\ WriteSlot(Reserve(Synced, TxBatch), Head(NewSlots(Synced)))
        BY <2>2 DEF SlotReserved
      <3>2. PICK s, w : s = Synced /\ w = u + toFlush /\ TxOk(s, <<>>, 0, w, v) /\ SameSlots(s, tx)
        BY <1>2, <3>1, TxSync DEF Synced
      <3>3. PICK t, tc : t = Reserve(s, TxBatch) /\ tc = NewSlots(s)
        OBVIOUS
      <3>4. (\E x \in Nat : TxOk(t, tc, 0, w, x)) /\ SameSlots(t, s) /\ tc # <<>>
        BY <3>1, <3>2, <3>3, TxReserve
      <3>5. 0 + 1 = 1 /\ w + 0 = w
        <4>1. w \in Nat
          BY <3>2, TxNumbers
        <4> QED
          BY <4>1
      <3>6. Line(t, TxSize, w + 0) = Line(tx, TxSize, u + toFlush)
        BY <3>2, <3>4, <3>5 DEF SameSlots, Line
      <3> QED
        BY <3>1, <3>2, <3>3, <3>4, <3>5, <3>6, Zenon
    <2> QED
      BY <1>1, <2>1, <2>2
  <1>4. /\ chan' \in Chan(Frame) /\ Whole(chan') /\ starved' \in BOOLEAN
        /\ starved => starved'
        /\ TxOk(tx', txCached', toFlush', w, y)
        /\ ~starved' => \A f : Count(f, Contents(chan')) + Count(f, Line(tx', TxSize, w + toFlush'))
                               = Count(f, Contents(chan)) + Count(f, Line(tx, TxSize, u + toFlush))
    <2>1. WriteOk(t, Tail(tc), tf, tf + 1, w, y)
      BY <1>3, WriteStep
    <2>2. WriteOk(t, txCached', tf, toFlush', w, y)
      BY <1>3, <2>1, Zenon
    <2> QED
      BY <1>3, <2>2, Zenon DEF WriteOk
  <1>5. Types
    BY DEF Shape
  <1>6. Types'
    <2>1. Whole(chan)'
      BY <1>4 DEF Whole
    <2> QED
      BY <1>1, <1>4, <1>5, <2>1 DEF Types, Chan
  <1>7. PICK p, m, e : Form(fq, FillSize, p, m, e) /\ (starved \/ m = 0)
    BY DEF Shape, FillInv
  <1>8. Shape'
    <2>1. starved' \/ m = 0
      BY <1>4, <1>7
    <2> QED
      BY <1>1, <1>4, <1>6, <1>7, <2>1 DEF Shape, TxInv, FillInv
  <1>9. ASSUME ~starved', NEW f \in Frame PROVE Copies(f)' = Copies(f)
    <2>2. Copies(f) = Parts(f, Contents(chan), Line(fq, FillSize, p), rx, rxCached,
                            tokens[f], Line(tx, TxSize, u + toFlush), cq)
      BY <1>2, <1>5, <1>7, CopiesNow
    <2>3. Form(fq', FillSize, p, m, e)
      BY <1>1, <1>7
    <2>4. Copies(f)' = Parts(f, Contents(chan'), Line(fq', FillSize, p), rx', rxCached',
                             tokens'[f], Line(tx', TxSize, w + toFlush'), cq')
      BY <1>4, <1>6, <2>3, CopiesNext
    <2>5. Copies(f)' = Parts(f, Contents(chan'), Line(fq, FillSize, p), rx, rxCached,
                             tokens[f], Line(tx', TxSize, w + toFlush'), cq)
      BY <1>1, <2>4, Zenon
    <2>6. /\ Count(f, Contents(chan)) \in Nat /\ Count(f, Line(fq, FillSize, p)) \in Nat
          /\ Count(f, rx) \in Nat /\ Count(f, rxCached) \in Nat /\ tokens[f] \in Nat
          /\ Count(f, Line(tx, TxSize, u + toFlush)) \in Nat /\ Count(f, cq) \in Nat
      BY <1>2, <1>5, <1>7, CountsNow
    <2>7. Count(f, Contents(chan')) + Count(f, Line(tx', TxSize, w + toFlush'))
          = Count(f, Contents(chan)) + Count(f, Line(tx, TxSize, u + toFlush))
      BY <1>4, <1>9
    <2>8. Count(f, Contents(chan')) \in Nat /\ Count(f, Line(tx', TxSize, w + toFlush')) \in Nat
      <3>1. Contents(chan') \in Seq(Frame)
        BY <1>4, ContentsSums
      <3>2. Line(tx', TxSize, w + toFlush') \in Seq(Frame)
        <4>1. TxSize \in Nat \ {0} /\ w + toFlush' \in Nat /\ tx' \in RingOf(TxSize)
          <5>1. w \in Nat /\ toFlush' \in Nat /\ tx' \in RingOf(TxSize)
            <6>1. TxOk(tx', txCached', toFlush', w, y)
              BY <1>4, Zenon
            <6> QED
              BY <6>1, TxNumbers
          <5>2. TxSize \in Nat \ {0}
            BY RingAssumption
          <5>3. PICK i \in Nat : i = toFlush'
            BY <5>1, Zenon
          <5>4. w + i \in Nat
            BY <5>1
          <5> QED
            BY <5>1, <5>2, <5>3, <5>4, Zenon
        <4> QED
          BY <4>1, LineType
      <3> QED
        BY <3>1, <3>2, CountType
    <2> QED
      BY ONLY <2>2, <2>5, <2>6, <2>7, <2>8 DEF Parts
  <1> QED
    BY <1>8, <1>9 DEF Same

(* A send without a slot moves nothing. *)
LEMMA SendNoneStep ==
    ASSUME Shape, SendNone
    PROVE  Shape' /\ Same
  <1>1. /\ ~CanReserve(tx, TxBatch) /\ tx' = Reserve(tx, TxBatch) /\ pc' = "idle"
        /\ chan' = chan /\ fq' = fq /\ rx' = rx /\ rxCached' = rxCached /\ tokens' = tokens
        /\ txCached' = txCached /\ toFlush' = toFlush /\ cq' = cq /\ starved' = starved
    BY DEF SendNone, rxVars
  <1>2. PICK u, v : TxOk(tx, txCached, toFlush, u, v)
    BY DEF Shape, TxInv
  <1>3. PICK x : TxOk(tx', txCached', toFlush', u, x)
    BY <1>1, <1>2, TxFail
  <1>4. SameSlots(tx', tx)
    BY <1>1, <1>2, TxFail
  <1>5. Types /\ Types'
    BY <1>1 DEF Shape, Types
  <1>6. PICK p, m, e : Form(fq, FillSize, p, m, e)
    BY DEF Shape, FillInv
  <1>7. Shape'
    BY <1>1, <1>3, <1>5 DEF Shape, TxInv, FillInv
  <1>8. ASSUME NEW f \in Frame PROVE Copies(f)' = Copies(f)
    <2>1. Copies(f) = Parts(f, Contents(chan), Line(fq, FillSize, p), rx, rxCached,
                            tokens[f], Line(tx, TxSize, u + toFlush), cq)
      BY <1>2, <1>5, <1>6, CopiesNow
    <2>2. Form(fq', FillSize, p, m, e)
      BY <1>1, <1>6
    <2>3. Copies(f)' = Parts(f, Contents(chan'), Line(fq', FillSize, p), rx', rxCached',
                             tokens'[f], Line(tx', TxSize, u + toFlush'), cq')
      BY <1>3, <1>5, <2>2, CopiesNext
    <2>4. Line(tx', TxSize, u + toFlush') = Line(tx, TxSize, u + toFlush)
      BY <1>1, <1>4 DEF SameSlots, Line
    <2> QED
      BY <1>1, <2>1, <2>3, <2>4, Zenon
  <1> QED
    BY <1>7, <1>8 DEF Same
-----------------------------------------------------------------------------
(* The channel takes all that completes. *)
Room == Len(Contents(chan)) + Len(cq) <= SpscLen

(* complete_tx loses fewer frames than a batch. *)
FlushOk(b) ==
    /\ b \in Seq(Frame) /\ Len(b) < Batch
    /\ b = <<>> \/ cq' # cq
    /\ \A f : Count(f, Contents(chan')) + Count(f, cq') + Count(f, b)
              = Count(f, Contents(chan)) + Count(f, cq)

(* complete_tx: from the completion ring to the channel. *)
LEMMA FlushStep ==
    ASSUME Shape, FlushBody
    PROVE  /\ chan' \in Chan(Frame) /\ Whole(chan') /\ cq' \in Seq(Frame) /\ toFlush' = 0
           /\ Room => \E b : FlushOk(b)
  <1>1. chan \in Chan(Frame) /\ Whole(chan) /\ cq \in Seq(Frame) /\ Batch \in Nat \ {0}
    BY ChannelAssumption DEF Shape, Types
  <1>2. PICK n \in 0..CompBatch : Peeked(n) /\ CompleteTx(n)
    BY DEF FlushBody
  <1>3. n \in Nat /\ n <= Len(cq) /\ Len(cq) \in Nat
    BY <1>1, <1>2, RingAssumption DEF Peeked
  <1>4. toFlush' = 0
    BY DEF FlushBody
  <1>5. PICK s, r : /\ s = SubSeq(cq, 1, n) /\ r = SubSeq(cq, n + 1, Len(cq))
                    /\ s \in Seq(Frame) /\ r \in Seq(Frame) /\ Len(s) = n /\ Len(r) = Len(cq) - n
    <2>1. SubSeq(cq, 1, n) \in Seq(Frame) /\ Len(SubSeq(cq, 1, n)) = n
      BY <1>1, <1>3
    <2>2. SubSeq(cq, n + 1, Len(cq)) \in Seq(Frame) /\ Len(SubSeq(cq, n + 1, Len(cq))) = Len(cq) - n
      BY <1>1, <1>3
    <2> QED
      BY <2>1, <2>2
  <1>6. cq = s \o r /\ cq' = r
    BY <1>1, <1>2, <1>3, <1>5, SplitSeq DEF CompleteTx
  <1>7. ASSUME NEW f PROVE /\ Count(f, cq) = Count(f, s) + Count(f, r)
                           /\ Count(f, s) \in Nat /\ Count(f, r) \in Nat
    BY <1>5, <1>6, CountConcat, CountType
  <1>8. CASE n = 0
    <2>1. chan' = chan
      BY <1>2, <1>8 DEF CompleteTx
    <2>2. s = <<>>
      BY <1>5, <1>8
    <2>3. FlushOk(<<>>)
      <3>1. <<>> \in Seq(Frame) /\ Len(<<>>) < Batch
        BY <1>1
      <3>2. ASSUME NEW f
            PROVE Count(f, Contents(chan')) + Count(f, cq') + Count(f, <<>>)
                  = Count(f, Contents(chan)) + Count(f, cq)
        <4>1. Count(f, <<>>) = 0 /\ Count(f, s) = 0
          BY <2>2, CountEmpty
        <4>2. Contents(chan) \in Seq(Frame)
          BY <1>1, ContentsSums
        <4>3. Count(f, Contents(chan)) \in Nat
          BY <4>2, CountType
        <4> QED
          BY <1>6, <1>7, <2>1, <4>1, <4>3
      <3> QED
        BY <3>1, <3>2 DEF FlushOk
    <2> QED
      BY <1>1, <1>4, <1>5, <1>6, <2>1, <2>3
  <1>9. CASE n # 0
    <2>1. PICK d : d = PushAll(chan, s) /\ chan' = Flush(d)
      BY <1>2, <1>5, <1>9 DEF CompleteTx
    <2>2. d \in Chan(Frame) /\ Whole(d)
      BY <1>1, <1>5, <2>1, PushAllType
    <2>3. chan' \in Chan(Frame) /\ Whole(chan')
      BY <2>1, <2>2, FlushType
    <2>4. ASSUME Room PROVE \E b : FlushOk(b)
      <3>1. Len(Contents(chan)) \in Nat /\ Len(Contents(chan)) + n <= SpscLen
        <4>1. Len(Contents(chan)) \in Nat
          BY <1>1, RingLength
        <4> QED
          BY <1>3, <2>4, <4>1, ChannelAssumption DEF Room
      <3>2. /\ Len(Contents(d)) = Len(Contents(chan)) + n
            /\ \A x : Count(x, Contents(d)) = Count(x, Contents(chan)) + Count(x, s)
        BY <1>1, <1>5, <2>1, <3>1, PushAllAdds
      <3>3. Len(Contents(d)) <= SpscLen
        BY <3>1, <3>2
      <3>4. PICK b \in Seq(Frame) :
               /\ Len(b) < Batch
               /\ \A x : Count(x, Contents(Flush(d))) + Count(x, b) = Count(x, Contents(d))
        BY <2>2, <3>3, FlushLoses
      <3>5. cq' # cq
        <4>1. Len(r) # Len(cq)
          BY <1>3, <1>5, <1>9
        <4> QED
          BY <1>6, <4>1
      <3>6. ASSUME NEW f
            PROVE Count(f, Contents(chan')) + Count(f, cq') + Count(f, b)
                  = Count(f, Contents(chan)) + Count(f, cq)
        <4>1. /\ Count(f, Contents(chan')) + Count(f, b) = Count(f, Contents(d))
              /\ Count(f, Contents(d)) = Count(f, Contents(chan)) + Count(f, s)
          BY <2>1, <3>2, <3>4
        <4>2. Contents(chan) \in Seq(Frame) /\ Contents(chan') \in Seq(Frame)
          BY <1>1, <2>3, ContentsSums
        <4>3. Count(f, Contents(chan)) \in Nat /\ Count(f, Contents(chan')) \in Nat /\ Count(f, b) \in Nat
          BY <3>4, <4>2, CountType
        <4>4. PICK a1, a2, a3, a4, a5, a6 :
                 /\ a1 = Count(f, Contents(chan')) /\ a2 = Count(f, b) /\ a3 = Count(f, Contents(chan))
                 /\ a4 = Count(f, s) /\ a5 = Count(f, r) /\ a6 = Count(f, cq)
                 /\ a1 \in Nat /\ a2 \in Nat /\ a3 \in Nat /\ a4 \in Nat /\ a5 \in Nat
                 /\ a1 + a2 = a3 + a4 /\ a6 = a4 + a5
          BY <1>7, <4>1, <4>3
        <4>5. /\ a1 \in Nat /\ a2 \in Nat /\ a3 \in Nat /\ a4 \in Nat /\ a5 \in Nat
              /\ a1 + a2 = a3 + a4 /\ a6 = a4 + a5
          BY <4>4
        <4>6. a1 + a5 + a2 = a3 + a6
          BY ONLY <4>5
        <4> QED
          BY <1>6, <4>4, <4>6
      <3> QED
        BY <3>4, <3>5, <3>6 DEF FlushOk
    <2> QED
      BY <1>4, <1>5, <1>6, <2>3, <2>4
  <1> QED
    BY <1>8, <1>9

(* A step that loses the frames in b. *)
Loses(b) == \A f \in Frame : Copies(f)' + Count(f, b) = Copies(f)

(* FlushTx and SendMiss, by what they leave of the TX ring. *)
LEMMA FlushedStep ==
    ASSUME Shape, FlushBody, NEW u, NEW v, NEW w, NEW y,
           TxOk(tx, txCached, toFlush, u, v), TxOk(tx', txCached', toFlush', w, y),
           Line(tx', TxSize, w + toFlush') = Line(tx, TxSize, u + toFlush),
           fq' = fq, rx' = rx, rxCached' = rxCached, tokens' = tokens, starved' = starved,
           pc' \in {"idle", "refill", "again", "resend"}
    PROVE  Shape' /\ (Room => \E b : FlushOk(b) /\ Loses(b))
  <1>1. chan' \in Chan(Frame) /\ Whole(chan') /\ cq' \in Seq(Frame)
    BY FlushStep
  <1>2. Types
    BY DEF Shape
  <1>3. Types'
    <2>1. Whole(chan)'
      BY <1>1 DEF Whole
    <2> QED
      BY <1>1, <1>2, <2>1 DEF Types, Chan
  <1>4. Shape'
    BY <1>3 DEF Shape, TxInv, FillInv
  <1>5. ASSUME NEW b, FlushOk(b) PROVE Loses(b)
    <2> SUFFICES ASSUME NEW f \in Frame PROVE Copies(f)' + Count(f, b) = Copies(f)
      BY DEF Loses
    <2>1. PICK p, m, e : Form(fq, FillSize, p, m, e)
      BY DEF Shape, FillInv
    <2>2. Copies(f) = Parts(f, Contents(chan), Line(fq, FillSize, p), rx, rxCached,
                            tokens[f], Line(tx, TxSize, u + toFlush), cq)
      BY <1>2, <2>1, CopiesNow
    <2>3. Form(fq', FillSize, p, m, e)
      BY <2>1
    <2>4. Copies(f)' = Parts(f, Contents(chan'), Line(fq', FillSize, p), rx', rxCached',
                             tokens'[f], Line(tx', TxSize, w + toFlush'), cq')
      BY <1>3, <2>3, CopiesNext
    <2>5. Copies(f)' = Parts(f, Contents(chan'), Line(fq, FillSize, p), rx, rxCached,
                             tokens[f], Line(tx, TxSize, u + toFlush), cq')
      BY <2>4, Zenon
    <2>6. /\ Count(f, Contents(chan)) \in Nat /\ Count(f, Line(fq, FillSize, p)) \in Nat
          /\ Count(f, rx) \in Nat /\ Count(f, rxCached) \in Nat /\ tokens[f] \in Nat
          /\ Count(f, Line(tx, TxSize, u + toFlush)) \in Nat /\ Count(f, cq) \in Nat
      BY <1>2, <2>1, CountsNow
    <2>7. /\ Count(f, Contents(chan')) + Count(f, cq') + Count(f, b)
             = Count(f, Contents(chan)) + Count(f, cq)
      BY <1>5 DEF FlushOk
    <2>8. Count(f, Contents(chan')) \in Nat /\ Count(f, cq') \in Nat /\ Count(f, b) \in Nat
      <3>1. Contents(chan') \in Seq(Frame) /\ b \in Seq(Frame)
        BY <1>1, <1>5, ContentsSums DEF FlushOk
      <3> QED
        BY <1>1, <3>1, CountType
    <2>9. PICK a1, a2, a3, a4, a5, a6, a7, b1, b7, k :
             /\ a1 = Count(f, Contents(chan)) /\ a2 = Count(f, Line(fq, FillSize, p)) /\ a3 = Count(f, rx)
             /\ a4 = Count(f, rxCached) /\ a5 = tokens[f] /\ a6 = Count(f, Line(tx, TxSize, u + toFlush))
             /\ a7 = Count(f, cq) /\ b1 = Count(f, Contents(chan')) /\ b7 = Count(f, cq') /\ k = Count(f, b)
      BY Zenon
    <2>10. /\ Copies(f) = a1 + a2 + a3 + a4 + a5 + a6 + a7
           /\ Copies(f)' = b1 + a2 + a3 + a4 + a5 + a6 + b7
      BY <2>2, <2>5, <2>9, Zenon DEF Parts
    <2>11. /\ a1 \in Nat /\ a2 \in Nat /\ a3 \in Nat /\ a4 \in Nat /\ a5 \in Nat /\ a6 \in Nat /\ a7 \in Nat
           /\ b1 \in Nat /\ b7 \in Nat /\ k \in Nat /\ b1 + b7 + k = a1 + a7
      BY <2>6, <2>7, <2>8, <2>9
    <2>12. (b1 + a2 + a3 + a4 + a5 + a6 + b7) + k = a1 + a2 + a3 + a4 + a5 + a6 + a7
      BY ONLY <2>11
    <2> QED
      BY <2>9, <2>10, <2>12, Zenon
  <1> QED
    BY <1>4, <1>5, FlushStep

(* flush: the written entries are submitted. *)
LEMMA FlushTxStep ==
    ASSUME Shape, FlushTx
    PROVE  Shape' /\ (Room => \E b : FlushOk(b) /\ Loses(b))
  <1>1. /\ FlushBody /\ tx' = Synced /\ fq' = fq /\ rx' = rx /\ rxCached' = rxCached
        /\ tokens' = tokens /\ txCached' = txCached /\ pc' = pc /\ starved' = starved
    BY DEF FlushTx, rxVars
  <1>2. PICK u, v : TxOk(tx, txCached, toFlush, u, v)
    BY DEF Shape, TxInv
  <1>3. toFlush' = 0
    BY <1>1 DEF FlushBody
  <1>4. PICK w : w = u + toFlush /\ TxOk(tx', txCached', toFlush', w, v) /\ SameSlots(tx', tx)
    BY <1>1, <1>2, <1>3, TxSync DEF Synced
  <1>5. w + toFlush' = w
    <2>1. w \in Nat
      BY <1>4, TxNumbers
    <2> QED
      BY <1>3, <2>1
  <1>6. Line(tx', TxSize, w + toFlush') = Line(tx, TxSize, u + toFlush)
    BY <1>4, <1>5 DEF SameSlots, Line
  <1>7. pc' \in {"idle", "refill", "again", "resend"}
    BY <1>1 DEF Shape, Types
  <1> QED
    BY <1>1, <1>2, <1>4, <1>6, <1>7, FlushedStep

(* The first look of send, with its flush. *)
LEMMA SendMissStep ==
    ASSUME Shape, SendMiss
    PROVE  Shape' /\ (Room => \E b : FlushOk(b) /\ Loses(b))
  <1>1. /\ FlushBody /\ ~CanReserve(Synced, TxBatch) /\ tx' = Reserve(Synced, TxBatch)
        /\ fq' = fq /\ rx' = rx /\ rxCached' = rxCached
        /\ tokens' = tokens /\ txCached' = txCached /\ pc' = "resend" /\ starved' = starved
    BY DEF SendMiss, rxVars
  <1>2. PICK u, v : TxOk(tx, txCached, toFlush, u, v)
    BY DEF Shape, TxInv
  <1>3. toFlush' = 0
    BY <1>1 DEF FlushBody
  <1>4. PICK s, w : s = Synced /\ w = u + toFlush /\ TxOk(s, txCached, 0, w, v) /\ SameSlots(s, tx)
    BY <1>2, TxSync DEF Synced
  <1>5. PICK y : TxOk(tx', txCached, 0, w, y)
    BY <1>1, <1>4, TxFail
  <1>6. SameSlots(tx', s)
    BY <1>1, <1>4, TxFail
  <1>7. w + toFlush' = w
    <2>1. w \in Nat
      BY <1>4, TxNumbers
    <2> QED
      BY <1>3, <2>1
  <1>8. Line(tx', TxSize, w + toFlush') = Line(tx, TxSize, u + toFlush)
    BY <1>4, <1>6, <1>7 DEF SameSlots, Line
  <1>9. TxOk(tx', txCached', toFlush', w, y) /\ pc' \in {"idle", "refill", "again", "resend"}
    BY <1>1, <1>3, <1>5
  <1> QED
    BY <1>1, <1>2, <1>8, <1>9, FlushedStep
-----------------------------------------------------------------------------
(* A sequence in which no frame occurs twice is no longer than there are   *)
(* frames.                                                                 *)
LEMMA OnceEach ==
    ASSUME NEW s \in Seq(Frame), \A f \in Frame : Count(f, s) <= 1
    PROVE  Len(s) <= Cardinality(Frame)
  <1>1. PICK n \in Nat : n = Len(s) /\ DOMAIN s = 1..n /\ s \in [1..n -> Frame]
    OBVIOUS
  <1>2. ASSUME NEW i \in 1..n, NEW j \in 1..n, s[i] = s[j] PROVE i = j
    <2> SUFFICES ASSUME i # j PROVE FALSE
      OBVIOUS
    <2>2. PICK f \in Frame : f = s[i]
      BY <1>1
    <2>3. PICK K : K = {k \in DOMAIN s : s[k] = f}
      OBVIOUS
    <2>4. IsFiniteSet(K) /\ Cardinality(K) <= 1 /\ Cardinality(K) \in Nat
      BY <2>3, CountType DEF Count
    <2>5. {i} \cup {j} \in SUBSET K
      BY <1>1, <1>2, <2>2, <2>3
    <2>6. Cardinality({i} \cup {j}) <= Cardinality(K)
      BY <2>4, <2>5, FS_Subset
    <2>7. Cardinality({i} \cup {j}) = 2
      <3>1. IsFiniteSet({i}) /\ Cardinality({i}) = 1
        BY FS_Singleton
      <3>2. Cardinality({i} \cup {j}) = IF j \in {i} THEN Cardinality({i}) ELSE Cardinality({i}) + 1
        BY <3>1, FS_AddElement
      <3>3. ~(j \in {i})
        OBVIOUS
      <3>4. Cardinality({i} \cup {j}) = 1 + 1
        BY <3>1, <3>2, <3>3, Zenon
      <3>5. 1 + 1 = 2
        OBVIOUS
      <3> QED
        BY <3>4, <3>5, Zenon
    <2>8. PICK x, y : /\ x = Cardinality({i} \cup {j}) /\ y = Cardinality(K)
                      /\ x <= y /\ y <= 1 /\ x = 2
      BY <2>4, <2>6, <2>7, Zenon
    <2>9. x <= y /\ y <= 1 /\ x = 2 /\ y \in Nat
      BY <2>4, <2>8, Zenon
    <2> QED
      BY ONLY <2>9
  <1>3. s \in Injection(1..n, Frame)
    BY <1>1, <1>2 DEF Injection, IsInjective
  <1>4. Cardinality(1..n) <= Cardinality(Frame)
    BY <1>3, FrameAssumption, FS_Injection
  <1>5. Cardinality(1..n) = n
    BY FS_Interval
  <1> QED
    BY <1>1, <1>4, <1>5

(* No frame has two owners. *)
Exclusive == \A f \in Frame : Copies(f) <= 1

(* A channel of exclusive frames never fills its ring. *)
LEMMA RoomLeft ==
    ASSUME Shape, Exclusive
    PROVE  Room /\ Len(Contents(chan)) <= SpscLen
  <1>1. Types
    BY DEF Shape
  <1>2. PICK p, m, e : Form(fq, FillSize, p, m, e)
    BY DEF Shape, FillInv
  <1>3. PICK u, v : TxOk(tx, txCached, toFlush, u, v)
    BY DEF Shape, TxInv
  <1>4. PICK c, k, s : /\ c = Contents(chan) /\ k = cq /\ s = c \o k
                       /\ c \in Seq(Frame) /\ k \in Seq(Frame)
    BY <1>1, ContentsSums DEF Types
  <1>5. s \in Seq(Frame) /\ Len(s) = Len(c) + Len(k)
    BY <1>4
  <1>6. ASSUME NEW f \in Frame PROVE Count(f, s) <= 1
    <2>1. Count(f, s) = Count(f, c) + Count(f, k)
      BY <1>4, CountConcat
    <2>2. Copies(f) = Parts(f, Contents(chan), Line(fq, FillSize, p), rx, rxCached,
                            tokens[f], Line(tx, TxSize, u + toFlush), cq)
      BY <1>1, <1>2, <1>3, CopiesNow
    <2>3. /\ Count(f, Contents(chan)) \in Nat /\ Count(f, Line(fq, FillSize, p)) \in Nat
          /\ Count(f, rx) \in Nat /\ Count(f, rxCached) \in Nat /\ tokens[f] \in Nat
          /\ Count(f, Line(tx, TxSize, u + toFlush)) \in Nat /\ Count(f, cq) \in Nat
      BY <1>1, <1>2, <1>3, CountsNow
    <2>4. Copies(f) <= 1
      BY DEF Exclusive
    <2>5. Count(f, Contents(chan)) + Count(f, cq) <= 1
      BY ONLY <2>2, <2>3, <2>4 DEF Parts
    <2> QED
      BY <1>4, <2>1, <2>5
  <1>7. Len(s) <= Cardinality(Frame)
    BY <1>5, <1>6, OnceEach
  <1>8. Cardinality(Frame) <= SpscLen /\ Cardinality(Frame) \in Nat /\ SpscLen \in Nat
    BY FrameAssumption, FS_CardinalityType, ChannelAssumption
  <1>9. Len(c) \in Nat /\ Len(k) \in Nat
    BY <1>4
  <1>10. Len(c) + Len(k) <= SpscLen /\ Len(c) <= SpscLen
    BY <1>5, <1>7, <1>8, <1>9
  <1> QED
    BY <1>4, <1>10 DEF Room

(* The frames in b lose their owner, and fewer than a batch do; none       *)
(* unless complete_tx took completions.                                    *)
Loss(b) == b \in Seq(Frame) /\ Len(b) < Batch /\ Loses(b)
           /\ (b = <<>> \/ (Sending /\ cq' # cq))

(* A step that keeps all owners loses nothing. *)
LEMMA SameLoses ==
    ASSUME Shape, Shape', Same
    PROVE  Loss(<<>>)
  <1>1. ASSUME NEW f \in Frame PROVE Copies(f)' + Count(f, <<>>) = Copies(f)
    <2>1. PICK p, m, e : Form(fq, FillSize, p, m, e)
      BY DEF Shape, FillInv
    <2>2. PICK u, v : TxOk(tx, txCached, toFlush, u, v)
      BY DEF Shape, TxInv
    <2>3. Copies(f) = Parts(f, Contents(chan), Line(fq, FillSize, p), rx, rxCached,
                            tokens[f], Line(tx, TxSize, u + toFlush), cq)
      BY <2>1, <2>2, CopiesNow DEF Shape
    <2>4. /\ Count(f, Contents(chan)) \in Nat /\ Count(f, Line(fq, FillSize, p)) \in Nat
          /\ Count(f, rx) \in Nat /\ Count(f, rxCached) \in Nat /\ tokens[f] \in Nat
          /\ Count(f, Line(tx, TxSize, u + toFlush)) \in Nat /\ Count(f, cq) \in Nat
      BY <2>1, <2>2, CountsNow DEF Shape
    <2>5. Copies(f) \in Nat
      BY ONLY <2>3, <2>4 DEF Parts
    <2>6. Copies(f)' = Copies(f) /\ Count(f, <<>>) = 0
      BY CountEmpty DEF Same
    <2> QED
      BY <2>5, <2>6
  <1>2. <<>> \in Seq(Frame) /\ Len(<<>>) < Batch
    BY ChannelAssumption
  <1> QED
    BY <1>1, <1>2 DEF Loss, Loses

(* Nor does a step that changes nothing. *)
LEMMA Stutters ==
    ASSUME Shape, UNCHANGED vars
    PROVE  Shape' /\ Same
  <1>1. /\ pc' = pc /\ chan' = chan /\ fq' = fq /\ tx' = tx /\ txCached' = txCached
        /\ toFlush' = toFlush /\ cq' = cq /\ starved' = starved /\ rx' = rx /\ rxCached' = rxCached
        /\ tokens' = tokens
    BY DEF vars
  <1>2. Shape'
    BY <1>1 DEF Shape, Types, TxInv, FillInv
  <1>3. ASSUME NEW f \in Frame PROVE Copies(f)' = Copies(f)
    <2>1. Copies(f) = Tally(f, chan, fq, rx, rxCached, tokens[f], tx, toFlush, cq)
      BY CopiesTally
    <2>2. Copies(f)' = Tally(f, chan', fq', rx', rxCached', tokens'[f], tx', toFlush', cq')
      BY CopiesTallyNext
    <2> QED
      BY <1>1, <2>1, <2>2, Zenon
  <1> QED
    BY <1>2, <1>3 DEF Same

(* Every step keeps the shape of the state; while no allocation has failed *)
(* and no frame has two owners, it loses fewer frames than a batch, and    *)
(* none unless complete_tx took completions.                               *)
LEMMA StepShape ==
    ASSUME Shape, [Next]_vars
    PROVE  /\ Shape'
           /\ starved => starved'
           /\ ~starved' /\ Exclusive => \E b : Loss(b)
  <1>0. starved \in BOOLEAN
    BY DEF Shape, Types
  <1>1. CASE \E g \in Frame : Recv(g)
    <2>1. PICK g \in Frame : Recv(g)
      BY <1>1
    <2>2. Shape' /\ (~starved' => Same)
      BY <2>1, RecvStep
    <2>3. starved' = starved
      BY <2>1 DEF Recv
    <2> QED
      BY <2>2, <2>3, SameLoses
  <1>2. CASE \E g \in Frame : Release(g)
    <2>1. PICK g \in Frame : Release(g)
      BY <1>2
    <2>2. Shape' /\ (Len(Contents(chan)) <= SpscLen => Same)
      BY <2>1, ReleaseStep
    <2>3. starved' = starved
      BY <2>1 DEF Release
    <2> QED
      BY <2>2, <2>3, SameLoses, RoomLeft
  <1>3. CASE RecvMiss \/ RecvNone
    <2>1. starved' = starved
      BY <1>3 DEF RecvMiss, RecvNone
    <2> QED
      BY <1>3, <2>1, IdleStep, SameLoses
  <1>4. CASE Refill
    <2>1. starved => starved'
      BY <1>4 DEF Refill
    <2> QED
      BY <1>4, <2>1, RefillStep, SameLoses
  <1>5. CASE Send
    <2>1. starved => starved'
      BY <1>5 DEF Send, SlotCached, SlotReserved, WriteSlot
    <2> QED
      BY <1>5, <2>1, SendStep, SameLoses
  <1>6. CASE SendNone
    <2>1. starved' = starved
      BY <1>6 DEF SendNone
    <2> QED
      BY <1>6, <2>1, SendNoneStep, SameLoses
  <1>7. CASE FlushTx \/ SendMiss
    <2>1. Sending /\ starved' = starved
      BY <1>7 DEF FlushTx, SendMiss
    <2>2. Shape' /\ (Room => \E b : FlushOk(b) /\ Loses(b))
      BY <1>7, FlushTxStep, SendMissStep
    <2>3. ASSUME Exclusive PROVE \E b : Loss(b)
      <3>1. PICK b : FlushOk(b) /\ Loses(b)
        BY <2>2, <2>3, RoomLeft
      <3>2. Loss(b)
        BY <2>1, <3>1 DEF FlushOk, Loss
      <3> QED
        BY <3>2
    <2> QED
      BY <2>1, <2>2, <2>3
  <1>8. CASE KernelRx
    <2>1. starved' = starved
      BY <1>8 DEF KernelRx
    <2> QED
      BY <1>8, <2>1, KernelRxStep, SameLoses
  <1>9. CASE KernelTx
    <2>1. starved' = starved
      BY <1>9 DEF KernelTx
    <2> QED
      BY <1>9, <2>1, KernelTxStep, SameLoses
  <1>10. CASE UNCHANGED vars
    <2>1. starved' = starved
      BY <1>10 DEF vars
    <2> QED
      BY <1>10, <2>1, Stutters, SameLoses
  <1> QED
    BY <1>1, <1>2, <1>3, <1>4, <1>5, <1>6, <1>7, <1>8, <1>9, <1>10 DEF Next
-----------------------------------------------------------------------------
(* The inductive invariant.  Exclusive owners are needed for themselves:   *)
(* as frames are no more than the ring has groups, the ring of the channel *)
(* never is full, so that no push discards a group.                        *)
Inv == Shape /\ ExclusiveUntilStarved

(* Owners are counted by numbers. *)
LEMMA CopiesType ==
    ASSUME Shape, NEW f \in Frame
    PROVE  Copies(f) \in Nat
  <1>1. PICK p, m, e : Form(fq, FillSize, p, m, e)
    BY DEF Shape, FillInv
  <1>2. PICK u, v : TxOk(tx, txCached, toFlush, u, v)
    BY DEF Shape, TxInv
  <1>3. Copies(f) = Parts(f, Contents(chan), Line(fq, FillSize, p), rx, rxCached,
                          tokens[f], Line(tx, TxSize, u + toFlush), cq)
    BY <1>1, <1>2, CopiesNow DEF Shape
  <1>4. /\ Count(f, Contents(chan)) \in Nat /\ Count(f, Line(fq, FillSize, p)) \in Nat
        /\ Count(f, rx) \in Nat /\ Count(f, rxCached) \in Nat /\ tokens[f] \in Nat
        /\ Count(f, Line(tx, TxSize, u + toFlush)) \in Nat /\ Count(f, cq) \in Nat
    BY <1>1, <1>2, CountsNow DEF Shape
  <1> QED
    BY ONLY <1>3, <1>4 DEF Parts

(* The same as an implication. *)
LEMMA CopiesAreNumbers == Shape => \A f \in Frame : Copies(f) \in Nat
  BY CopiesType

(* And of the next state. *)
LEMMA CopiesNextAreNumbers == Shape' => (\A f \in Frame : Copies(f) \in Nat)'
  BY CopiesAreNumbers, PTL

(* And for one frame. *)
LEMMA CopiesTypeNext ==
    ASSUME Shape', NEW f \in Frame
    PROVE  Copies(f)' \in Nat
  BY CopiesNextAreNumbers

(* The invariant holds after Sock::create. *)
LEMMA InvStarts == Init => Inv
  <1> SUFFICES ASSUME Init PROVE Inv
    OBVIOUS
  <1>1. PICK b \in Seq(Frame) : \A f \in Frame : Copies(f) + Count(f, b) = 1
    BY Start
  <1>2. ASSUME NEW f \in Frame PROVE Copies(f) <= 1
    <2>1. Copies(f) \in Nat /\ Count(f, b) \in Nat /\ Copies(f) + Count(f, b) = 1
      BY <1>1, Start, CopiesType, CountType
    <2> QED
      BY <2>1
  <1> QED
    BY <1>2, Start DEF Inv, ExclusiveUntilStarved

(* Every step keeps the invariant. *)
LEMMA InvStep == Inv /\ [Next]_vars => Inv'
  <1> SUFFICES ASSUME Inv, [Next]_vars PROVE Inv'
    OBVIOUS
  <1>1. /\ Shape /\ Shape' /\ (starved => starved')
        /\ ~starved' /\ Exclusive => \E b : Loss(b)
    BY StepShape DEF Inv
  <1>2. ASSUME ~starved', NEW f \in Frame PROVE Copies(f)' <= 1
    <2>1. Exclusive
      BY <1>1, <1>2 DEF Inv, ExclusiveUntilStarved, Exclusive
    <2>2. PICK b : Loss(b)
      BY <1>1, <1>2, <2>1
    <2>3. Copies(f)' + Count(f, b) = Copies(f) /\ Count(f, b) \in Nat
      BY <2>2, CountType DEF Loss, Loses
    <2>4. Copies(f) \in Nat /\ Copies(f)' \in Nat /\ Copies(f) <= 1
      BY <1>1, <2>1, CopiesType, CopiesTypeNext DEF Exclusive
    <2> QED
      BY <2>3, <2>4
  <1>3. ExclusiveUntilStarved'
    BY <1>2 DEF ExclusiveUntilStarved
  <1> QED
    BY <1>1, <1>3 DEF Inv

(* The inductive invariant: the shape of channel and rings, and that no    *)
(* frame has two owners before an allocation has failed.                   *)
THEOREM InvHolds == Spec => []Inv
  BY InvStarts, InvStep, PTL DEF Spec

(* The state of the socket stays well typed, with ring indices in range    *)
(* and to_flush no larger than the ring (recv_token, release, send,        *)
(* flush).                                                                 *)
THEOREM Typed == Spec => []TypeOK
  <1>1. Inv => TypeOK
    BY ShapeTypes DEF Inv
  <1> QED
    BY <1>1, InvHolds, PTL

(* Cached slots, to_flush and the shared indices of the TX ring agree in   *)
(* every state, starved or not (TxRingIter::advance and sync).             *)
THEOREM TxAccounted == Spec => []TxAccounting
  <1>1. Inv => TxAccounting
    BY ShapeAccounts DEF Inv
  <1> QED
    BY <1>1, InvHolds, PTL

(* No frame has two owners until an allocation fails with a descriptor     *)
(* already taken (send_inner, refill_fill_ring).                           *)
THEOREM OwnersExclusive == Spec => []ExclusiveUntilStarved
  BY InvHolds, PTL DEF Inv

(* What a step loses. *)
LEMMA LostFrames ==
    ASSUME Shape, Shape', NEW b, Loss(b)
    PROVE  Lost' = Lost \/ (cq' # cq /\ Cardinality(Lost' \ Lost) < Batch)
  <1>1. ASSUME NEW f \in Frame
        PROVE  /\ Copies(f)' + Count(f, b) = Copies(f) /\ Count(f, b) \in Nat
               /\ Copies(f) \in Nat /\ Copies(f)' \in Nat
    BY CountType, CopiesType, CopiesTypeNext DEF Loss, Loses
  <1>2. Lost' = {f \in Frame : Copies(f)' = 0}
    BY DEF Lost
  <1>3. CASE b = <<>>
    <2>1. \A f \in Frame : Copies(f)' = Copies(f)
      <3> SUFFICES ASSUME NEW f \in Frame PROVE Copies(f)' = Copies(f)
        OBVIOUS
      <3>1. Count(f, b) = 0
        BY <1>3, CountEmpty
      <3> QED
        BY <1>1, <3>1
    <2>2. Lost' = Lost
      BY <1>2, <2>1 DEF Lost
    <2> QED
      BY <2>2
  <1>4. CASE b # <<>>
    <2>1. cq' # cq /\ b \in Seq(Frame) /\ Len(b) < Batch
      BY <1>4 DEF Loss
    <2>2. PICK D : D = Lost' \ Lost
      OBVIOUS
    <2>3. ASSUME NEW f \in D PROVE Count(f, b) # 0
      <3>1. f \in Frame /\ Copies(f)' = 0 /\ Copies(f) # 0
        BY <1>2, <2>2 DEF Lost
      <3> QED
        BY <1>1, <3>1
    <2>4. Cardinality(D) \in Nat /\ Cardinality(D) <= Len(b)
      BY <2>1, <2>3, NoMoreThan
    <2>5. Cardinality(D) < Batch
      <3>1. Len(b) \in Nat
        BY <2>1
      <3> QED
        BY <2>1, <2>4, <3>1, ChannelAssumption
    <2> QED
      BY <2>1, <2>2, <2>5
  <1> QED
    BY <1>3, <1>4

(* Only complete_tx loses frames, and fewer than a batch per call. *)
THEOREM LossesAreSmall == Spec => LossPerFlush
  <1>1. ASSUME Inv, [Next]_vars
        PROVE  \/ Lost' = Lost
               \/ starved'
               \/ cq' # cq /\ Cardinality(Lost' \ Lost) < Batch
    <2> SUFFICES ASSUME ~starved'
                 PROVE  Lost' = Lost \/ (cq' # cq /\ Cardinality(Lost' \ Lost) < Batch)
      OBVIOUS
    <2>1. Shape /\ Shape' /\ (starved => starved') /\ (Exclusive => \E b : Loss(b))
      BY <1>1, StepShape DEF Inv
    <2>2. Exclusive
      BY <1>1, <2>1 DEF Inv, ExclusiveUntilStarved, Exclusive
    <2>3. PICK b : Loss(b)
      BY <2>1, <2>2
    <2> QED
      BY <2>1, <2>3, LostFrames
  <1>2. Inv /\ [Next]_vars => [ \/ Lost' = Lost
                                \/ starved'
                                \/ cq' # cq /\ Cardinality(Lost' \ Lost) < Batch ]_vars
    BY <1>1
  <1> QED
    BY <1>2, InvHolds, PTL DEF Spec, LossPerFlush

(* A token is one of the owners of its frame. *)
LEMMA TokensAreOwners ==
    ASSUME Shape, NEW f \in Frame
    PROVE  tokens[f] \in Nat /\ Copies(f) \in Nat /\ tokens[f] <= Copies(f)
  <1>1. PICK p, m, e : Form(fq, FillSize, p, m, e)
    BY DEF Shape, FillInv
  <1>2. PICK u, v : TxOk(tx, txCached, toFlush, u, v)
    BY DEF Shape, TxInv
  <1>3. Copies(f) = Parts(f, Contents(chan), Line(fq, FillSize, p), rx, rxCached,
                          tokens[f], Line(tx, TxSize, u + toFlush), cq)
    BY <1>1, <1>2, CopiesNow DEF Shape
  <1>4. /\ Count(f, Contents(chan)) \in Nat /\ Count(f, Line(fq, FillSize, p)) \in Nat
        /\ Count(f, rx) \in Nat /\ Count(f, rxCached) \in Nat /\ tokens[f] \in Nat
        /\ Count(f, Line(tx, TxSize, u + toFlush)) \in Nat /\ Count(f, cq) \in Nat
    BY <1>1, <1>2, CountsNow DEF Shape
  <1> QED
    BY ONLY <1>3, <1>4 DEF Parts

Owned == \A f \in Frame : tokens[f] \in Nat /\ Copies(f) \in Nat /\ tokens[f] <= Copies(f)

(* The same before and after a step. *)
LEMMA OwnedNow == Shape => Owned
  BY TokensAreOwners DEF Owned

LEMMA OwnedNext == Shape' => Owned'
  BY OwnedNow, PTL

(* What a step that keeps all owners does to the lost frames. *)
LEMMA SameLost ==
    ASSUME Same
    PROVE  Lost' = Lost
  BY DEF Same, Lost

(* A received frame had no token and was not lost. *)
LEMMA PoolReceives ==
    ASSUME Shape, Exclusive, ~starved, NEW f \in Frame, Recv(f)
    PROVE  Pool!Receive(f)
  <1>1. tokens' = [tokens EXCEPT ![f] = @ + 1] /\ starved' = starved
    BY DEF Recv
  <1>2. Shape' /\ Same
    BY <1>1, RecvStep
  <1>3. tokens \in [Frame -> 0..MaxTokens]
    BY DEF Shape, Types
  <1>4. /\ tokens[f] \in Nat /\ Copies(f) \in Nat /\ Copies(f) <= 1
        /\ tokens'[f] = tokens[f] + 1
    BY <1>1, <1>3, OwnedNow DEF Owned, Exclusive
  <1>5. tokens'[f] <= Copies(f)' /\ Copies(f)' = Copies(f)
    BY <1>2, OwnedNext DEF Owned, Same
  <1>6. tokens[f] = 0 /\ Copies(f) # 0
    BY <1>4, <1>5
  <1>7. tokens' = [tokens EXCEPT ![f] = 1]
    BY <1>1, <1>6
  <1>8. f \notin Lost /\ Lost' = Lost
    BY <1>2, <1>6, SameLost DEF Lost
  <1> QED
    BY <1>1, <1>6, <1>7, <1>8 DEF Pool!Receive

(* A released frame had one token. *)
LEMMA PoolReleases ==
    ASSUME Shape, Exclusive, ~starved, NEW f \in Frame, Release(f)
    PROVE  Pool!Release(f)
  <1>1. tokens[f] > 0 /\ tokens' = [tokens EXCEPT ![f] = @ - 1] /\ starved' = starved
    BY DEF Release
  <1>2. Same
    BY ReleaseStep, RoomLeft
  <1>3. tokens[f] \in Nat /\ Copies(f) \in Nat /\ tokens[f] <= Copies(f) /\ Copies(f) <= 1
    BY OwnedNow DEF Owned, Exclusive
  <1>4. tokens[f] = 1
    BY <1>1, <1>3
  <1>5. tokens' = [tokens EXCEPT ![f] = 0]
    BY <1>1, <1>4
  <1>6. Lost' = Lost
    BY <1>2, SameLost
  <1> QED
    BY <1>1, <1>4, <1>5, <1>6 DEF Pool!Release

(* A step that leaves the tokens alone loses at most a few frames, none of *)
(* them with a token.                                                      *)
LEMMA PoolLoses ==
    ASSUME Shape, Shape', ~starved, ~starved', NEW b, Loss(b), tokens' = tokens
    PROVE  [Pool!Next]_(Pool!poolVars)
  <1>1. starved \in BOOLEAN /\ starved' \in BOOLEAN
    BY DEF Shape, Types
  <1>2. starved' = starved
    BY <1>1
  <1>3. CASE Lost' = Lost
    BY <1>2, <1>3 DEF Pool!poolVars
  <1>4. CASE Lost' # Lost
    <2>1. PICK D : D = Lost' \ Lost
      OBVIOUS
    <2>2. Cardinality(D) < Batch
      BY <1>4, <2>1, LostFrames
    <2>3. ASSUME NEW f \in Lost PROVE f \in Lost'
      <3>1. f \in Frame /\ Copies(f) = 0
        BY DEF Lost
      <3>2. Copies(f)' + Count(f, b) = 0 /\ Count(f, b) \in Nat /\ Copies(f)' \in Nat
        BY <3>1, CountType, OwnedNext DEF Loss, Loses, Owned
      <3>3. Copies(f)' = 0
        BY <3>2
      <3> QED
        BY <3>1, <3>3 DEF Lost
    <2>4. Lost' = Lost \cup D /\ D \cap Lost = {} /\ D \in SUBSET Frame
      <3>1. Lost' \subseteq Frame
        BY DEF Lost
      <3> QED
        BY <2>1, <2>3, <3>1
    <2>5. ASSUME NEW f \in D PROVE tokens[f] = 0
      <3>1. f \in Frame /\ Copies(f)' = 0
        BY <2>1 DEF Lost
      <3>2. tokens'[f] \in Nat /\ tokens'[f] <= Copies(f)'
        BY <3>1, OwnedNext DEF Owned
      <3> QED
        BY <3>1, <3>2
    <2>6. Pool!Lose(D)
      BY <1>2, <2>2, <2>4, <2>5 DEF Pool!Lose, Pool!SmallLoss, Pool!Cardinality, Cardinality
    <2> QED
      BY <2>4, <2>6 DEF Pool!Next
  <1> QED
    BY <1>3, <1>4

(* To its client the socket is a pool of frames until an allocation fails: *)
(* recv_token and release are Receive and Release, complete_tx may Lose,   *)
(* a starving refill_fill_ring or send_inner is Break, and everything else *)
(* is not seen.  (The instance has its own copy of Cardinality, hence the  *)
(* two definitions cited where a loss is counted.)                         *)
THEOREM ImplementsPool == Spec => PoolSpec
  <1>1. Init => Pool!Init
    <2> SUFFICES ASSUME Init PROVE Pool!Init
      OBVIOUS
    <2>1. PICK b \in Seq(Frame) : /\ Len(b) < Batch
                                  /\ \A f \in Frame : Copies(f) + Count(f, b) = 1
      BY Start
    <2>2. Lost \in SUBSET Frame /\ \A f \in Lost : Count(f, b) # 0
      <3> SUFFICES ASSUME NEW f \in Frame, Copies(f) = 0 PROVE Count(f, b) # 0
        BY DEF Lost
      <3>1. 0 + Count(f, b) = 1
        BY <2>1
      <3> QED
        BY <3>1
    <2>3. Cardinality(Lost) \in Nat /\ Cardinality(Lost) <= Len(b)
      BY <2>2, NoMoreThan
    <2>4. Cardinality(Lost) < Batch
      <3>1. Len(b) \in Nat /\ Batch \in Nat
        BY <2>1, ChannelAssumption
      <3> QED
        BY <2>1, <2>3, <3>1
    <2>5. tokens = [f \in Frame |-> 0] /\ starved = FALSE
      BY DEF Init
    <2> QED
      BY <2>2, <2>4, <2>5 DEF Pool!Init, Pool!SmallLoss, Pool!Cardinality, Cardinality
  <1>2. ASSUME Inv, [Next]_vars PROVE [Pool!Next]_(Pool!poolVars)
    <2>1. /\ Shape /\ Shape' /\ (starved => starved')
          /\ ~starved' /\ Exclusive => \E b : Loss(b)
      BY <1>2, StepShape DEF Inv
    <2>2. CASE starved'
      <3>1. starved' = TRUE /\ tokens' \in [Frame -> Nat]
        <4>1. starved' \in BOOLEAN /\ tokens' \in [Frame -> 0..MaxTokens]
          BY <2>1 DEF Shape, Types
        <4> QED
          BY <2>2, <4>1, RingAssumption
      <3>2. Lost' \in SUBSET Frame
        BY DEF Lost
      <3> QED
        BY <3>1, <3>2 DEF Pool!Next, Pool!Break
    <2>3. CASE ~starved'
      <3>1. ~starved /\ Exclusive
        BY <1>2, <2>1, <2>3 DEF Inv, ExclusiveUntilStarved, Exclusive
      <3>2. PICK b : Loss(b)
        BY <2>1, <2>3, <3>1
      <3>3. ASSUME NEW f \in Frame, Recv(f) PROVE Pool!Next
        BY <2>1, <3>1, <3>3, PoolReceives DEF Pool!Next
      <3>4. ASSUME NEW f \in Frame, Release(f) PROVE Pool!Next
        BY <2>1, <3>1, <3>4, PoolReleases DEF Pool!Next
      <3>5. CASE \/ RecvMiss \/ Refill \/ RecvNone \/ Send \/ FlushTx \/ SendMiss \/ SendNone
                 \/ KernelRx \/ KernelTx \/ UNCHANGED vars
        <4>1. tokens' = tokens
          BY <3>5 DEF RecvMiss, Refill, RecvNone, Send, FlushTx, SendMiss, SendNone, KernelRx,
                      KernelTx, vars
        <4> QED
          BY <2>1, <2>3, <3>1, <3>2, <4>1, PoolLoses
      <3> QED
        BY <1>2, <3>3, <3>4, <3>5 DEF Next
    <2> QED
      BY <2>2, <2>3
  <1>3. Inv /\ [Next]_vars => [Pool!Next]_(Pool!poolVars)
    BY <1>2
  <1> QED
    BY <1>1, <1>3, InvHolds, PTL DEF Spec, PoolSpec, Pool!Spec

(* Packets reach the client in the order of the RX ring (RxRing::advance). *)
THEOREM PacketsInOrder == Spec => RxFifo
  <1> DEFINE Step == \/ UNCHANGED RxPending
                     \/ \E f \in Frame : RxPending' = Append(RxPending, f)
                     \/ \E f \in Frame :
                          /\ RxPending = <<f>> \o RxPending'
                          /\ tokens' = [tokens EXCEPT ![f] = @ + 1]
  <1>1. ASSUME Inv, Next PROVE Step
    <2>1. Shape
      BY <1>1 DEF Inv
    <2>2. CASE \E f \in Frame : Recv(f)
      <3>1. PICK f \in Frame : Recv(f)
        BY <2>2
      <3>2. /\ AdvanceCached(f) \/ AdvancePeek(f)
            /\ tokens' = [tokens EXCEPT ![f] = @ + 1]
        BY <3>1 DEF Recv
      <3>3. RxPending = <<f>> \o RxPending'
        BY <2>1, <3>2, RecvTakesHead
      <3> QED
        BY <3>2, <3>3
    <2>3. CASE KernelRx
      BY <2>1, <2>3, KernelRxStep
    <2>4. CASE rx' = rx /\ rxCached' = rxCached
      BY <2>4 DEF RxPending
    <2>5. ASSUME NEW f \in Frame, Release(f) PROVE rx' = rx /\ rxCached' = rxCached
      BY <2>5 DEF Release, rxVars
    <2>6. ASSUME RecvMiss \/ Refill \/ RecvNone \/ Send \/ FlushTx \/ SendMiss \/ SendNone \/ KernelTx
          PROVE  rx' = rx /\ rxCached' = rxCached
      BY <2>6 DEF RecvMiss, Refill, RecvNone, Send, FlushTx, SendMiss, SendNone, KernelTx, rxVars
    <2> QED
      BY <1>1, <2>2, <2>3, <2>4, <2>5, <2>6 DEF Next
  <1>2. Inv /\ [Next]_vars => [Step]_vars
    <2> HIDE DEF Step
    <2> QED
      BY <1>1
  <1>3. Spec => [][Step]_vars
    <2> HIDE DEF Step
    <2> QED
      BY <1>2, InvHolds, PTL DEF Spec
  <1> QED
    BY <1>3 DEF RxFifo
-----------------------------------------------------------------------------
(* A refill fails only if the channel and the fill ring hold less than a   *)
(* ring and a batch.                                                       *)
LEMMA RefillFails ==
    ASSUME NEW c \in Chan(Frame), Whole(c), NEW q, NEW p, NEW m, NEW e, Form(q, FillSize, p, m, e),
           Batch <= Cache, ~RefillFillRing(c, q).ok
    PROVE  Len(Contents(c)) + p < FillSize + Batch
  <1>0. FillSize \in Nat \ {0} /\ p \in Nat /\ m \in Nat /\ e \in Nat /\ Batch \in Nat
    BY RingAssumption, ChannelAssumption DEF Form
  <1>1. PICK d : d = Ready(c) /\ d \in Chan(Frame) /\ Whole(d) /\ Len(Contents(d)) = Len(Contents(c))
    BY ReadyKeeps
  <1>2. PICK wanted \in Nat : wanted = Len(d.cached)
    BY <1>1 DEF Chan
  <1>3. PICK free, x : free = NbFree(q, wanted) /\ x \in Nat /\ Form(free, FillSize, p, m, x)
    BY <1>0, FormFree
  <1>4. FreeEntries(free) = x
    BY <1>0, <1>3, FormReads
  <1>5. PICK taken, s, k : /\ taken = PopMany(d, x) /\ s = taken.got /\ k = taken.chan
                           /\ k \in Chan(Frame) /\ Whole(k) /\ s \in Seq(Frame)
                           /\ Len(Contents(d)) = Len(Contents(k)) + Len(s)
                           /\ Len(s) = x \/ ~HasNext(k)
    <2>1. /\ Popped(PopMany(d, x), d, Frame)
          /\ Len(PopMany(d, x).got) = x \/ ~HasNext(PopMany(d, x).chan)
      BY <1>1, <1>3, PopManyTakes
    <2> QED
      BY <2>1 DEF Popped
  <1>6. PICK reserved : reserved = Reserve(WriteAddrs(free, s), x)
    OBVIOUS
  <1>7. RefillFillRing(c, q) =
           IF wanted = 0
           THEN [chan |-> d, fq |-> q, ok |-> TRUE]
           ELSE IF Len(s) < x
                THEN [chan |-> k, fq |-> reserved, ok |-> FALSE]
                ELSE [chan |-> k, fq |-> Submit(reserved, x), ok |-> TRUE]
    BY <1>1, <1>2, <1>3, <1>4, <1>5, <1>6, Zenon DEF RefillFillRing
  <1>8. Len(s) < x
    <2> SUFFICES ASSUME ~(Len(s) < x) PROVE FALSE
      OBVIOUS
    <2>1. CASE wanted = 0
      BY <1>7, <2>1
    <2>2. CASE wanted # 0
      <3>1. RefillFillRing(c, q) = [chan |-> k, fq |-> Submit(reserved, x), ok |-> TRUE]
        BY <1>7, <2>2, Zenon
      <3> QED
        BY <3>1
    <2> QED
      BY <2>1, <2>2
  <1>9. Len(Contents(k)) <= Batch /\ Len(Contents(k)) \in Nat
    <2>1. Len(s) # x
      <3>1. Len(s) \in Nat
        BY <1>5
      <3> QED
        BY <1>3, <1>8, <3>1
    <2>2. ~HasNext(k)
      BY <1>5, <2>1
    <2>3. k.ring = <<>> /\ k.cached = <<>>
      <3>1. Ready(k).cached = <<>>
        BY <2>2 DEF HasNext
      <3> QED
        BY <1>5, <3>1, ReadyKeeps
    <2>4. FlattenSeq(k.ring) = <<>>
      BY <2>3, FlattenEmpty
    <2>5. Len(Contents(k)) = Len(k.batch) + 0 + 0 /\ Len(k.batch) \in Nat /\ Len(k.batch) <= Batch
      <3>1. Len(Contents(k)) = Len(k.batch) + Len(FlattenSeq(k.ring)) + Len(k.cached)
        BY <1>5, ContentsSums
      <3>2. Len(k.batch) \in Nat /\ Len(k.batch) <= Batch
        BY <1>5 DEF Chan, Whole
      <3>3. Len(FlattenSeq(k.ring)) = 0 /\ Len(k.cached) = 0
        BY <2>3, <2>4
      <3> QED
        BY <3>1, <3>2, <3>3
    <2> QED
      BY <2>5
  <1>10. p + m + x <= FillSize
    BY <1>3 DEF Form
  <1>11. PICK i, j, l : /\ i = Len(Contents(c)) /\ j = Len(Contents(k)) /\ l = Len(s)
                        /\ i = j + l /\ j \in Nat /\ j <= Batch /\ l \in Nat /\ l < x
    <2>1. Len(s) \in Nat
      BY <1>5
    <2>2. Len(Contents(c)) = Len(Contents(k)) + Len(s)
      BY <1>1, <1>5
    <2> QED
      BY <1>8, <1>9, <2>1, <2>2, Zenon
  <1>12. i + p < FillSize + Batch
    BY <1>0, <1>3, <1>10, <1>11
  <1> QED
    BY <1>11, <1>12
-----------------------------------------------------------------------------
(* A socket that only receives, and frames for twice the fill ring, the    *)
(* tokens of the client and a batch that was not flushed.                  *)
Enough ==
    /\ ~Sending /\ Batch <= Cache /\ Cardinality(Frame) % Batch = 0
    /\ 2 * FillSize + MaxTokens + Batch <= Cardinality(Frame)

(* Its inductive invariant: nothing is sent, no allocation has failed, as  *)
(* many frames as tokens may exist have one, and while a refill is due     *)
(* the RX ring has only what left the fill ring since the first look.      *)
Quiet == toFlush = 0 /\ cq = <<>> /\ Pending(tx) = 0 /\ pc # "resend"
Awaiting == pc = "refill" => rxCached = <<>> /\ Pending(fq) + Len(rx) <= FillSize
RxInv ==
    /\ Shape /\ ~starved /\ OneOwner /\ Quiet
    /\ Cardinality(Holders(Frame)) <= MaxTokens
    /\ Awaiting

(* Then a refill has frames enough. *)
LEMMA RefillSucceeds ==
    ASSUME Enough, RxInv, pc = "refill"
    PROVE  RefillFillRing(chan, fq).ok
  <1> SUFFICES ASSUME ~RefillFillRing(chan, fq).ok PROVE FALSE
    OBVIOUS
  <1>1. Shape /\ Types /\ chan \in Chan(Frame) /\ Whole(chan) /\ rx \in Seq(Frame)
    BY DEF RxInv, Shape, Types
  <1>2. PICK p, m, e : Form(fq, FillSize, p, m, e)
    BY DEF RxInv, Shape, FillInv
  <1>3. FillSize \in Nat \ {0} /\ p \in Nat /\ fq \in RingOf(FillSize) /\ Pending(fq) = p
    <2>1. FillSize \in Nat \ {0}
      BY RingAssumption
    <2> QED
      BY <1>2, <2>1, FormReads DEF Form
  <1>4. PICK u, v : TxOk(tx, txCached, toFlush, u, v)
    BY DEF RxInv, Shape, TxInv
  <1>5. u + toFlush = 0 /\ TxSize \in Nat \ {0} /\ tx \in RingOf(TxSize)
    <2>1. TxSize \in Nat \ {0} /\ u \in Nat /\ tx \in RingOf(TxSize)
      BY <1>4, RingAssumption, TxNumbers
    <2>2. Pending(tx) = u
      BY <1>4, <2>1, FormReads DEF TxOk
    <2> QED
      BY <2>1, <2>2 DEF RxInv, Quiet
  <1>6. Len(Contents(chan)) + p < FillSize + Batch
    BY <1>1, <1>2, RefillFails DEF Enough
  <1>7. PICK c, l, s : /\ c = Contents(chan) /\ l = Line(fq, FillSize, p) /\ s = c \o (l \o rx)
                       /\ c \in Seq(Frame) /\ l \in Seq(Frame) /\ Len(l) = p
    <2>1. Contents(chan) \in Seq(Frame)
      BY <1>1, ContentsSums
    <2>2. Line(fq, FillSize, p) \in Seq(Frame) /\ Len(Line(fq, FillSize, p)) = p
      BY <1>3, LineType
    <2> QED
      BY <2>1, <2>2, Zenon
  <1>8. s \in Seq(Frame) /\ Len(s) = Len(c) + p + Len(rx) /\ Len(c) \in Nat /\ Len(rx) \in Nat
    <2>1. c \in Seq(Frame) /\ l \in Seq(Frame) /\ rx \in Seq(Frame) /\ s = c \o (l \o rx)
      BY <1>1, <1>7
    <2>2. Len(c) \in Nat /\ Len(l) \in Nat /\ Len(rx) \in Nat
      BY ONLY <2>1
    <2>3. l \o rx \in Seq(Frame) /\ Len(l \o rx) = Len(l) + Len(rx)
      BY ONLY <2>1
    <2>4. s \in Seq(Frame) /\ Len(s) = Len(c) + Len(l \o rx)
      BY ONLY <2>1, <2>3
    <2> QED
      BY <1>7, <2>2, <2>3, <2>4
  <1>9. ASSUME NEW f \in Frame \ Holders(Frame) PROVE Count(f, s) # 0
    <2>1. Copies(f) = Parts(f, Contents(chan), Line(fq, FillSize, p), rx, rxCached,
                            tokens[f], Line(tx, TxSize, u + toFlush), cq)
      BY <1>1, <1>2, <1>4, CopiesNow
    <2>2. Count(f, rxCached) = 0 /\ Count(f, cq) = 0
      BY CountEmpty DEF RxInv, Quiet, Awaiting
    <2>3. Count(f, Line(tx, TxSize, u + toFlush)) = 0
      <3>1. Line(tx, TxSize, 0) \in Seq(Frame) /\ Len(Line(tx, TxSize, 0)) = 0
        BY <1>5, LineType
      <3>2. Line(tx, TxSize, 0) = <<>>
        BY <3>1
      <3> QED
        BY <1>5, <3>2, CountEmpty
    <2>4. tokens[f] = 0
      <3>1. tokens[f] \in 0..MaxTokens
        BY <1>1 DEF Types
      <3> QED
        BY <3>1 DEF Holders
    <2>5. Copies(f) = 1
      BY DEF RxInv, OneOwner
    <2>6. Count(f, s) = Count(f, c) + (Count(f, l) + Count(f, rx))
      <3>1. l \o rx \in Seq(Frame)
        BY <1>1, <1>7
      <3>2. Count(f, c \o (l \o rx)) = Count(f, c) + Count(f, l \o rx)
        BY <1>7, <3>1, CountConcat
      <3>3. Count(f, l \o rx) = Count(f, l) + Count(f, rx)
        BY <1>1, <1>7, CountConcat
      <3> QED
        BY <1>7, <3>2, <3>3
    <2>7. Count(f, c) \in Nat /\ Count(f, l) \in Nat /\ Count(f, rx) \in Nat
      BY <1>1, <1>7, CountType
    <2>8. Copies(f) = Count(f, c) + Count(f, l) + Count(f, rx) + 0 + 0 + 0 + 0
      BY <1>7, <2>1, <2>2, <2>3, <2>4, Zenon DEF Parts
    <2> QED
      BY ONLY <2>5, <2>6, <2>7, <2>8
  <1>10. PICK H : /\ H = Holders(Frame) /\ H \subseteq Frame /\ IsFiniteSet(H)
                  /\ Cardinality(H) \in Nat /\ Cardinality(H) <= MaxTokens
    <2>1. tokens \in [Frame -> Nat]
      BY <1>1 DEF Types
    <2> QED
      BY <2>1, TokensBound DEF RxInv, Holders
  <1>11. Cardinality(Frame \ H) <= Len(s) /\ Cardinality(Frame \ H) \in Nat
    BY <1>8, <1>9, <1>10, NoMoreThan
  <1>12. Cardinality(Frame \ H) = Cardinality(Frame) - Cardinality(H) /\ Cardinality(Frame) \in Nat
    <2>1. Frame \cap H = H
      BY <1>10
    <2> QED
      BY <2>1, FrameAssumption, FS_Difference, FS_CardinalityType
  <1>13. PICK n, h, x, y, z : /\ n = Cardinality(Frame) /\ h = Cardinality(H) /\ x = Len(c) /\ y = Len(rx)
                              /\ z = Len(s)
    OBVIOUS
  <1>14. /\ n \in Nat /\ h \in Nat /\ x \in Nat /\ y \in Nat /\ p \in Nat
         /\ MaxTokens \in Nat /\ Batch \in Nat /\ FillSize \in Nat
         /\ h <= MaxTokens /\ n - h <= z /\ z = x + p + y /\ x + p < FillSize + Batch /\ p + y <= FillSize
         /\ 2 * FillSize + MaxTokens + Batch <= n
    BY <1>3, <1>6, <1>7, <1>8, <1>10, <1>11, <1>12, <1>13, RingAssumption, ChannelAssumption
       DEF RxInv, Awaiting, Enough
  <1> QED
    BY ONLY <1>14
-----------------------------------------------------------------------------
(* The invariant of a receiver holds after Sock::create. *)
LEMMA RxStarts ==
    ASSUME Enough, Init
    PROVE  RxInv
  <1>1. /\ cq = <<>> /\ tokens = [f \in Frame |-> 0] /\ tx = NewRing(TxSize, Zero)
        /\ toFlush = 0 /\ pc = "idle" /\ ~starved
    BY DEF Init
  <1>2. Shape
    BY Start
  <1>3. OneOwner
    <2>1. PICK b \in Seq(Frame) : b = <<>> /\ \A f \in Frame : Copies(f) + Count(f, b) = 1
      BY Start DEF Enough
    <2>2. ASSUME NEW f \in Frame PROVE Copies(f) = 1
      <3>1. Copies(f) + Count(f, b) = 1 /\ Count(f, b) = 0 /\ Copies(f) \in Nat
        BY <1>2, <2>1, CountEmpty, CopiesType
      <3> QED
        BY <3>1
    <2> QED
      BY <2>2 DEF OneOwner
  <1>4. Pending(tx) = 0
    <2>1. TxSize \in Nat \ {0}
      BY RingAssumption
    <2>2. Form(tx, TxSize, 0, 0, TxSize)
      BY <1>1, <2>1, NewRingForm
    <2> QED
      BY <2>1, <2>2, FormReads
  <1>5. Quiet
    BY <1>1, <1>4 DEF Quiet
  <1>6. Cardinality(Holders(Frame)) <= MaxTokens
    <2>1. Holders(Frame) = {}
      BY <1>1 DEF Holders
    <2>2. Cardinality({}) = 0 /\ MaxTokens \in Nat
      BY FS_EmptySet, RingAssumption
    <2> QED
      BY <2>1, <2>2
  <1>7. Awaiting
    BY <1>1 DEF Awaiting
  <1> QED
    BY <1>1, <1>2, <1>3, <1>5, <1>6, <1>7 DEF RxInv

(* No step of such a socket is one of send, flush or the kernel's TX. *)
LEMMA RxSteps ==
    ASSUME Enough, RxInv, [Next]_vars
    PROVE  /\ \/ \E f \in Frame : Recv(f) \/ Release(f)
              \/ RecvMiss \/ Refill \/ RecvNone \/ KernelRx \/ UNCHANGED vars
           /\ tx' = tx /\ txCached' = txCached /\ toFlush' = toFlush /\ cq' = cq /\ pc' # "resend"
  <1>1. ~Sending
    BY DEF Enough
  <1>2. ~Send /\ ~FlushTx /\ ~SendMiss
    BY <1>1 DEF Send, FlushTx, SendMiss
  <1>3. ~SendNone
    BY DEF RxInv, Quiet, SendNone
  <1>4. ~KernelTx
    BY DEF RxInv, Quiet, KernelTx
  <1>5. \/ \E f \in Frame : Recv(f) \/ Release(f)
        \/ RecvMiss \/ Refill \/ RecvNone \/ KernelRx \/ UNCHANGED vars
    BY <1>2, <1>3, <1>4 DEF Next
  <1>6. pc # "resend"
    BY DEF RxInv, Quiet
  <1>7. ASSUME NEW f \in Frame, Recv(f) \/ Release(f)
        PROVE  tx' = tx /\ txCached' = txCached /\ toFlush' = toFlush /\ cq' = cq /\ pc' # "resend"
    BY <1>6, <1>7 DEF Recv, Release, txVars
  <1>8. ASSUME RecvMiss \/ RecvNone \/ KernelRx \/ UNCHANGED vars
        PROVE  tx' = tx /\ txCached' = txCached /\ toFlush' = toFlush /\ cq' = cq /\ pc' # "resend"
    BY <1>6, <1>8 DEF RecvMiss, RecvNone, KernelRx, txVars, vars
  <1>9. ASSUME Refill
        PROVE  tx' = tx /\ txCached' = txCached /\ toFlush' = toFlush /\ cq' = cq /\ pc' # "resend"
    <2>1. pc' \in {"again", "idle"}
      BY <1>9 DEF Refill
    <2>2. tx' = tx /\ txCached' = txCached /\ toFlush' = toFlush /\ cq' = cq
      BY <1>9 DEF Refill, txVars
    <2> QED
      BY <2>1, <2>2
  <1> QED
    BY <1>5, <1>7, <1>8, <1>9

(* Frames with a token. *)
LEMMA HoldersStep ==
    ASSUME Enough, RxInv, [Next]_vars
    PROVE  (Cardinality(Holders(Frame)) <= MaxTokens)'
  <1>1. tokens \in [Frame -> 0..MaxTokens] /\ tokens \in [Frame -> Nat] /\ MaxTokens \in Nat
    BY RingAssumption DEF RxInv, Shape, Types
  <1>2. PICK H, K : H = Holders(Frame) /\ K = {f \in Frame : tokens'[f] > 0}
    OBVIOUS
  <1>3. /\ IsFiniteSet(H) /\ Cardinality(H) \in Nat /\ Cardinality(H) <= NumTokens /\ NumTokens \in Nat
        /\ Cardinality(H) <= MaxTokens
    BY <1>1, <1>2, TokensBound DEF RxInv
  <1>4. CASE \E g \in Frame : Recv(g)
    <2>1. PICK g \in Frame : Recv(g)
      BY <1>4
    <2>2. NumTokens < MaxTokens /\ tokens' = [tokens EXCEPT ![g] = @ + 1]
      BY <2>1 DEF Recv
    <2>3. K = H \cup {g}
      BY <1>1, <1>2, <2>2 DEF Holders
    <2>4. Cardinality(H \cup {g}) \in {Cardinality(H), Cardinality(H) + 1}
      BY <1>3, FS_AddElement
    <2>5. Cardinality(K) <= MaxTokens
      BY <1>1, <1>3, <2>2, <2>3, <2>4
    <2> QED
      BY <1>2, <2>5 DEF Holders
  <1>5. CASE \E g \in Frame : Release(g)
    <2>1. PICK g \in Frame : Release(g)
      BY <1>5
    <2>2. tokens[g] > 0 /\ tokens' = [tokens EXCEPT ![g] = @ - 1]
      BY <2>1 DEF Release
    <2>3. K \in SUBSET H
      BY <1>1, <1>2, <2>2 DEF Holders
    <2>4. Cardinality(K) <= Cardinality(H) /\ IsFiniteSet(K)
      BY <1>3, <2>3, FS_Subset
    <2>5. Cardinality(K) \in Nat
      BY <2>4, FS_CardinalityType
    <2>6. Cardinality(K) <= MaxTokens
      BY <1>1, <1>3, <2>4, <2>5
    <2> QED
      BY <1>2, <2>6 DEF Holders
  <1>6. CASE tokens' = tokens
    BY <1>2, <1>3, <1>6 DEF Holders
  <1>7. ASSUME RecvMiss \/ Refill \/ RecvNone \/ KernelRx \/ UNCHANGED vars PROVE tokens' = tokens
    BY <1>7 DEF RecvMiss, Refill, RecvNone, KernelRx, vars
  <1> QED
    BY <1>4, <1>5, <1>6, <1>7, RxSteps

(* Packets between the two looks of recv come out of the fill ring. *)
LEMMA AwaitingStep ==
    ASSUME Enough, RxInv, [Next]_vars
    PROVE  Awaiting'
  <1>1. rx \in Seq(Frame) /\ FillSize \in Nat \ {0}
    BY RingAssumption DEF RxInv, Shape, Types
  <1>2. PICK p, m, e : Form(fq, FillSize, p, m, e)
    BY DEF RxInv, Shape, FillInv
  <1>3. p \in Nat /\ p <= FillSize /\ Pending(fq) = p
    <2>1. Pending(fq) = p
      BY <1>1, <1>2, FormReads
    <2>2. p \in Nat /\ m \in Nat /\ e \in Nat /\ p + m + e <= FillSize
      BY <1>2 DEF Form
    <2> QED
      BY <1>1, <2>1, <2>2
  <1> SUFFICES ASSUME pc' = "refill"
               PROVE  rxCached' = <<>> /\ Pending(fq') + Len(rx') <= FillSize
    BY DEF Awaiting, Pending, Wrap
  <1>4. CASE RecvMiss
    <2>1. rxCached' = <<>> /\ rx' = <<>> /\ fq' = fq
      BY <1>4 DEF RecvMiss, NoPacket, rxVars
    <2> QED
      BY <1>3, <2>1
  <1>5. CASE KernelRx
    <2>1. /\ Pending(fq) > 0 /\ rx' = Append(rx, fq.slot[KernelSlot(fq)]) /\ fq' = KernelTakes(fq)
          /\ rxCached' = rxCached /\ pc' = pc
      BY <1>5 DEF KernelRx
    <2>2. p > 0 /\ Form(fq', FillSize, p - 1, m, e)
      BY <1>1, <1>2, <1>3, <2>1, FormTakes
    <2>3. Pending(fq') = p - 1
      BY <1>1, <2>2, FormReads
    <2>4. Len(rx') = Len(rx) + 1 /\ Len(rx) \in Nat
      BY <1>1, <2>1
    <2>5. rxCached = <<>> /\ p + Len(rx) <= FillSize
      BY <1>3, <2>1 DEF RxInv, Awaiting
    <2> QED
      BY <1>1, <1>3, <2>1, <2>2, <2>3, <2>4, <2>5
  <1>6. CASE UNCHANGED vars
    BY <1>6 DEF RxInv, Awaiting, vars
  <1>7. ASSUME NEW f \in Frame, Recv(f) \/ Release(f) PROVE FALSE
    BY <1>7 DEF Recv, Release, Calling
  <1>8. ASSUME Refill \/ RecvNone PROVE FALSE
    <2>1. CASE Refill
      <3>1. pc' \in {"again", "idle"}
        BY <2>1 DEF Refill
      <3> QED
        BY <3>1
    <2>2. CASE RecvNone
      BY <2>2 DEF RecvNone
    <2> QED
      BY <1>8, <2>1, <2>2
  <1> QED
    BY <1>4, <1>5, <1>6, <1>7, <1>8, RxSteps

(* Every step of a receiver keeps it. *)
LEMMA RxStep ==
    ASSUME Enough, RxInv, [Next]_vars
    PROVE  RxInv'
  <1>1. ~starved'
    <2>1. ~starved
      BY DEF RxInv
    <2>2. CASE Refill
      <3>1. RefillFillRing(chan, fq).ok
        BY <2>2, RefillSucceeds DEF Refill
      <3> QED
        BY <2>1, <2>2, <3>1 DEF Refill
    <2>3. ASSUME NEW f \in Frame, Recv(f) \/ Release(f) PROVE starved' = starved
      BY <2>3 DEF Recv, Release
    <2>4. ASSUME RecvMiss \/ RecvNone \/ KernelRx \/ UNCHANGED vars PROVE starved' = starved
      BY <2>4 DEF RecvMiss, RecvNone, KernelRx, vars
    <2> QED
      BY <2>1, <2>2, <2>3, <2>4, RxSteps
  <1>2. Shape
    BY DEF RxInv
  <1>3. Exclusive
    BY DEF RxInv, OneOwner, Exclusive
  <1>4. Shape' /\ \E b : Loss(b)
    BY <1>1, <1>2, <1>3, StepShape
  <1>5. OneOwner'
    <2>1. PICK b : Loss(b)
      BY <1>4
    <2>2. b = <<>> /\ Loses(b)
      BY <2>1 DEF Loss, Enough
    <2>3. ASSUME NEW f \in Frame PROVE Copies(f)' = 1
      <3>1. Copies(f)' + Count(f, b) = Copies(f) /\ Copies(f) = 1 /\ Count(f, b) = 0 /\ Copies(f)' \in Nat
        BY <1>4, <2>2, CountEmpty, CopiesTypeNext DEF Loses, RxInv, OneOwner
      <3> QED
        BY <3>1
    <2> QED
      BY <2>3 DEF OneOwner
  <1>6. Quiet'
    <2>1. tx' = tx /\ toFlush' = toFlush /\ cq' = cq /\ pc' # "resend"
      BY RxSteps
    <2> QED
      BY <2>1 DEF RxInv, Quiet, Pending, Wrap
  <1> QED
    BY <1>1, <1>4, <1>5, <1>6, HoldersStep, AwaitingStep DEF RxInv

(* An inductive invariant whose proof relies on the constants' relation. *)
LEMMA RxInvHolds ==
    ASSUME Enough
    PROVE  Spec => []RxInv
  <1>1. Init => RxInv
    BY RxStarts
  <1>2. RxInv /\ [Next]_vars => RxInv'
    BY RxStep
  <1> QED
    BY <1>1, <1>2, PTL DEF Spec

(* Before an allocation fails every reserved fill entry is submitted. *)
LEMMA Submitted ==
    ASSUME Shape, ~starved
    PROVE  FillSubmitted
  <1>1. PICK p, e : Form(fq, FillSize, p, 0, e)
    BY DEF Shape, FillInv
  <1>2. p + 0 = p
    BY <1>1 DEF Form
  <1> QED
    BY <1>1, <1>2 DEF Form, FillSubmitted

(* With frames for twice the fill ring, the tokens and a batch, a socket   *)
(* that only receives never fails to refill and every frame keeps exactly  *)
(* one owner (recv_token, refill_fill_ring, release).                      *)
THEOREM ReceiverOwnsItsFrames ==
    ASSUME Enough
    PROVE  Spec => []OneOwner
  <1>1. RxInv => OneOwner
    BY DEF RxInv
  <1> QED
    BY <1>1, RxInvHolds, PTL

(* Under the same condition refill_fill_ring submits every entry it        *)
(* reserves.                                                               *)
THEOREM ReceiverSubmitsAll ==
    ASSUME Enough
    PROVE  Spec => []FillSubmitted
  <1>1. RxInv => FillSubmitted
    BY Submitted DEF RxInv
  <1> QED
    BY <1>1, RxInvHolds, PTL

(* On any socket an entry stays reserved and unsubmitted only after a      *)
(* failed allocation (refill_fill_ring).                                   *)
THEOREM SubmittedUntilStarved == Spec => [](starved \/ FillSubmitted)
  <1>1. Inv => starved \/ FillSubmitted
    BY Submitted DEF Inv
  <1> QED
    BY <1>1, InvHolds, PTL
=============================================================================
