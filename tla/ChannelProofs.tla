--------------------------- MODULE ChannelProofs ---------------------------
(***************************************************************************)
(* What the channel operators do to the contents of a channel, for every   *)
(* Batch, Cache and SpscLen: the proofs about the backends rest on these.  *)
(*                                                                         *)
(* FlattenSeq and FoldLeft are recursive functions.  The induction they    *)
(* need is on sets (SetInduction), and existence of the function that a    *)
(* recursive definition chooses is proved together with what it computes.  *)
(***************************************************************************)
EXTENDS Channel, FiniteSetTheorems, SequenceTheorems, TLAPS

(* A set that contains 0 and the successor of each of its numbers contains *)
(* every natural number.                                                   *)
LEMMA SetInduction ==
    ASSUME NEW B, 0 \in B, \A n \in Nat : n \in B => n + 1 \in B
    PROVE  \A n \in Nat : n \in B
  <1> DEFINE T == Nat \ B
             R == OpToRel(<, Nat)
  <1> SUFFICES ASSUME T # {} PROVE FALSE
    OBVIOUS
  <1>1. \E x \in T : \A y \in T : ~(<<y, x>> \in R)
    <2>1. IsWellFoundedOn(R, Nat)
      BY NatLessThanWellFounded
    <2>2. T \subseteq Nat
      OBVIOUS
    <2> HIDE DEF T, R
    <2> QED
      BY <2>1, <2>2, WFMin
  <1>2. PICK x \in T : \A y \in T : ~(<<y, x>> \in R)
    BY <1>1
  <1>3. x \in Nat /\ x # 0 /\ x - 1 \in Nat
    OBVIOUS
  <1>4. <<x - 1, x>> \in R
    BY <1>3 DEF OpToRel
  <1>5. x - 1 \in B
    BY <1>2, <1>3, <1>4
  <1> QED
    BY <1>3, <1>5
-----------------------------------------------------------------------------
(* FlattenSeq *)

(* What FlattenSeq computes for the first i groups of s. *)
Flattens(f, s) ==
    f = [i \in 1..Len(s) |-> IF i = 1 THEN s[i] ELSE f[i - 1] \o s[i]]

(* The function that FlattenSeq chooses exists. *)
LEMMA FlattenExists ==
    ASSUME NEW S, NEW s \in Seq(Seq(S))
    PROVE  \E f \in [1..Len(s) -> Seq(S)] : Flattens(f, s)
  <1> DEFINE Def(n) == \E f \in [1..n -> Seq(S)] :
                 f = [i \in 1..n |-> IF i = 1 THEN s[i] ELSE f[i - 1] \o s[i]]
             B == {n \in Nat : n <= Len(s) => Def(n)}
  <1>0. Len(s) \in Nat /\ \A i \in 1..Len(s) : s[i] \in Seq(S)
    OBVIOUS
  <1>1. 0 \in B
    <2> DEFINE f == [i \in 1..0 |-> <<>>]
    <2>1. f \in [1..0 -> Seq(S)] /\ f = [i \in 1..0 |-> IF i = 1 THEN s[i] ELSE f[i - 1] \o s[i]]
      OBVIOUS
    <2> QED
      BY <2>1
  <1>2. ASSUME NEW n \in Nat, n \in B PROVE n + 1 \in B
    <2> SUFFICES ASSUME n + 1 <= Len(s) PROVE Def(n + 1)
      <3> HIDE DEF Def
      <3> QED OBVIOUS
    <2>0. Def(n)
      <3> HIDE DEF Def
      <3> QED BY <1>0, <1>2
    <2>1. PICK f \in [1..n -> Seq(S)] :
             f = [i \in 1..n |-> IF i = 1 THEN s[i] ELSE f[i - 1] \o s[i]]
      BY <2>0
    <2> DEFINE e == IF n = 0 THEN s[1] ELSE f[n] \o s[n + 1]
               g == [i \in 1..(n + 1) |-> IF i = n + 1 THEN e ELSE f[i]]
    <2>2. e \in Seq(S)
      <3>1. CASE n = 0
        BY <3>1, <1>0
      <3>2. CASE n # 0
        <4>1. f[n] \in Seq(S) /\ s[n + 1] \in Seq(S)
          BY <3>2, <1>0
        <4> QED
          BY <4>1, <3>2, ConcatProperties
      <3> QED
        BY <3>1, <3>2
    <2>3. g \in [1..(n + 1) -> Seq(S)]
      BY <2>2
    <2>4. \A i \in 1..(n + 1) : g[i] = IF i = 1 THEN s[i] ELSE g[i - 1] \o s[i]
      <3> TAKE i \in 1..(n + 1)
      <3>1. CASE i = n + 1
        BY <3>1
      <3>2. CASE i # n + 1
        <4>1. i \in 1..n /\ g[i] = f[i]
          BY <3>2
        <4>2. i # 1 => i - 1 \in 1..n /\ g[i - 1] = f[i - 1]
          BY <4>1
        <4>3. f[i] = IF i = 1 THEN s[i] ELSE f[i - 1] \o s[i]
          BY <2>1, <4>1
        <4> QED
          BY <4>1, <4>2, <4>3
      <3> QED
        BY <3>1, <3>2
    <2>5. g = [i \in 1..(n + 1) |-> IF i = 1 THEN s[i] ELSE g[i - 1] \o s[i]]
      <3> HIDE DEF g, e
      <3> QED
        BY <2>3, <2>4
    <2> HIDE DEF g
    <2> QED
      BY <2>3, <2>5
  <1>3. \A n \in Nat : n \in B
    <2> HIDE DEF B
    <2> QED
      BY <1>1, <1>2, SetInduction
  <1>4. Def(Len(s))
    <2> HIDE DEF Def
    <2> QED BY <1>0, <1>3
  <1> QED
    BY <1>4 DEF Flattens

(* Its value at i. *)
LEMMA FlattenAt ==
    ASSUME NEW f, NEW s, Flattens(f, s), NEW i \in 1..Len(s)
    PROVE  f[i] = IF i = 1 THEN s[i] ELSE f[i - 1] \o s[i]
  <1> DEFINE D == 1..Len(s)
             g == [j \in D |-> IF j = 1 THEN s[j] ELSE f[j - 1] \o s[j]]
  <1>1. f = g
    BY Zenon DEF Flattens
  <1>2. g[i] = IF i = 1 THEN s[i] ELSE f[i - 1] \o s[i]
    BY Zenon
  <1> HIDE DEF g
  <1> QED
    BY <1>1, <1>2, Zenon

(* It is determined, as far as the groups agree. *)
LEMMA FlattenUnique ==
    ASSUME NEW s, NEW t, NEW f, NEW g, NEW n \in Nat,
           Flattens(f, s), Flattens(g, t),
           Len(s) \in Nat, Len(t) \in Nat, n <= Len(s), n <= Len(t),
           \A i \in 1..n : s[i] = t[i]
    PROVE  \A i \in 1..n : f[i] = g[i]
  <1> DEFINE B == {k \in Nat : k \in 1..n => f[k] = g[k]}
  <1>1. \A i \in 1..n : /\ f[i] = IF i = 1 THEN s[i] ELSE f[i - 1] \o s[i]
                        /\ g[i] = IF i = 1 THEN t[i] ELSE g[i - 1] \o t[i]
    <2> TAKE i \in 1..n
    <2>1. i \in 1..Len(s) /\ i \in 1..Len(t)
      OBVIOUS
    <2> QED
      BY <2>1, FlattenAt
  <1>2. 0 \in B
    OBVIOUS
  <1>3. ASSUME NEW k \in Nat, k \in B PROVE k + 1 \in B
    <2> SUFFICES ASSUME k + 1 \in 1..n PROVE f[k + 1] = g[k + 1]
      OBVIOUS
    <2>1. CASE k = 0
      BY <2>1, <1>1
    <2>2. CASE k # 0
      <3>1. f[k] = g[k] /\ s[k + 1] = t[k + 1]
        BY <1>3, <2>2
      <3>2. k + 1 - 1 = k /\ k + 1 # 1
        BY <2>2
      <3>3. PICK j \in 1..n : j = k + 1
        OBVIOUS
      <3>4. j # 1 /\ j - 1 = k
        BY <3>2, <3>3
      <3>5. f[j] = f[k] \o s[j] /\ g[j] = g[k] \o t[j]
        BY <1>1, <3>4
      <3> QED
        BY <3>1, <3>3, <3>5
    <2> QED
      BY <2>1, <2>2
  <1>4. \A k \in Nat : k \in B
    <2> HIDE DEF B
    <2> QED
      BY <1>2, <1>3, SetInduction
  <1> QED
    BY <1>4

(* FlattenSeq by such a function. *)
LEMMA FlattenIs ==
    ASSUME NEW S, NEW s \in Seq(Seq(S))
    PROVE  \E f \in [1..Len(s) -> Seq(S)] :
              /\ Flattens(f, s)
              /\ Len(s) = 0 => FlattenSeq(s) = <<>>
              /\ Len(s) # 0 => FlattenSeq(s) = f[Len(s)]
  <1> DEFINE c == CHOOSE f : Flattens(f, s)
  <1>1. PICK f \in [1..Len(s) -> Seq(S)] : Flattens(f, s)
    BY FlattenExists
  <1>2. Flattens(c, s)
    BY <1>1
  <1>3. \A i \in 1..Len(s) : c[i] = f[i]
    <2> HIDE DEF c
    <2>1. PICK n \in Nat : n = Len(s)
      OBVIOUS
    <2>2. \A i \in 1..n : c[i] = f[i]
      BY <1>1, <1>2, <2>1, FlattenUnique
    <2> QED
      BY <2>1, <2>2
  <1>4. FlattenSeq(s) = IF Len(s) = 0 THEN s ELSE c[Len(s)]
    BY DEF FlattenSeq, Flattens
  <1>5. Len(s) = 0 => s = <<>>
    OBVIOUS
  <1> HIDE DEF c
  <1>6. Len(s) # 0 => c[Len(s)] = f[Len(s)]
    BY <1>3
  <1> QED
    BY <1>1, <1>4, <1>5, <1>6

LEMMA FlattenType ==
    ASSUME NEW S, NEW s \in Seq(Seq(S))
    PROVE  FlattenSeq(s) \in Seq(S)
  <1>1. PICK f \in [1..Len(s) -> Seq(S)] :
              /\ Flattens(f, s)
              /\ Len(s) = 0 => FlattenSeq(s) = <<>>
              /\ Len(s) # 0 => FlattenSeq(s) = f[Len(s)]
    BY FlattenIs
  <1>2. Len(s) # 0 => Len(s) \in 1..Len(s)
    OBVIOUS
  <1>3. Len(s) # 0 => FlattenSeq(s) \in Seq(S)
    BY <1>1, <1>2
  <1>4. <<>> \in Seq(S)
    OBVIOUS
  <1> QED
    BY <1>1, <1>3, <1>4, Zenon

LEMMA FlattenEmpty == FlattenSeq(<<>>) = <<>>
  BY DEF FlattenSeq

Agree(s, t, n) == \A i \in 1..n : s[i] = t[i]

LEMMA FlattenPrefix ==
    ASSUME NEW s, NEW t, NEW f, NEW g, Flattens(f, s), Flattens(g, t),
           Len(s) \in Nat, Len(t) = Len(s) + 1, Agree(s, t, Len(s))
    PROVE  Agree(f, g, Len(s))
  <1>1. PICK m \in Nat : m = Len(s)
    OBVIOUS
  <1>2. Len(t) \in Nat /\ m <= Len(s) /\ m <= Len(t) /\ \A i \in 1..m : s[i] = t[i]
    BY <1>1 DEF Agree
  <1>3. \A i \in 1..m : f[i] = g[i]
    BY <1>2, FlattenUnique
  <1> QED
    BY <1>1, <1>3 DEF Agree

LEMMA FlattenAppend ==
    ASSUME NEW S, NEW s \in Seq(Seq(S)), NEW e \in Seq(S)
    PROVE  FlattenSeq(Append(s, e)) = FlattenSeq(s) \o e
  <1> DEFINE n == Len(s)
  <1>0. PICK t : t = Append(s, e)
    OBVIOUS
  <1>1. /\ t \in Seq(Seq(S)) /\ Len(t) = n + 1 /\ t[n + 1] = e
        /\ n \in Nat /\ \A i \in 1..n : s[i] = t[i]
    BY <1>0
  <1>2. PICK f \in [1..n -> Seq(S)] :
              /\ Flattens(f, s)
              /\ n = 0 => FlattenSeq(s) = <<>>
              /\ n # 0 => FlattenSeq(s) = f[n]
    BY FlattenIs
  <1>3. PICK h \in [1..Len(t) -> Seq(S)] :
              /\ Flattens(h, t)
              /\ Len(t) = 0 => FlattenSeq(t) = <<>>
              /\ Len(t) # 0 => FlattenSeq(t) = h[Len(t)]
    BY <1>1, FlattenIs
  <1>4. FlattenSeq(t) = h[n + 1]
    BY <1>1, <1>3
  <1>5. h[n + 1] = IF n + 1 = 1 THEN t[n + 1] ELSE h[n + 1 - 1] \o t[n + 1]
    <2>1. PICK j \in 1..Len(t) : j = n + 1
      BY <1>1
    <2>2. h[j] = IF j = 1 THEN t[j] ELSE h[j - 1] \o t[j]
      BY <1>3, FlattenAt
    <2> QED
      BY <2>1, <2>2
  <1>6. CASE n = 0
    <2>1. FlattenSeq(t) = e /\ FlattenSeq(s) = <<>>
      BY <1>1, <1>2, <1>4, <1>5, <1>6
    <2> QED
      BY <2>1, <1>0, ConcatEmptySeq
  <1>7. CASE n # 0
    <2>1. FlattenSeq(t) = h[n] \o e
      BY <1>1, <1>4, <1>5, <1>7
    <2>2. \A i \in 1..n : f[i] = h[i]
      <3>0. Flattens(f, s) /\ Flattens(h, t)
        BY <1>2, <1>3
      <3>1. Len(s) \in Nat /\ Len(t) = Len(s) + 1
        BY <1>1
      <3>2. Agree(s, t, Len(s))
        BY <1>1 DEF Agree
      <3>3. Agree(f, h, Len(s))
        BY <3>0, <3>1, <3>2, FlattenPrefix
      <3> QED
        BY <3>3 DEF Agree
    <2>3. h[n] = f[n]
      BY <2>2, <1>7, <1>1
    <2> QED
      BY <2>1, <2>3, <1>0, <1>2, <1>7
  <1> QED
    BY <1>6, <1>7

LEMMA ConcatThree ==
    ASSUME NEW S, NEW a \in Seq(S), NEW b \in Seq(S), NEW c \in Seq(S)
    PROVE  (a \o b) \o c = a \o (b \o c)
  <1> DEFINE l == (a \o b) \o c
             r == a \o (b \o c)
  <1>1. l \in Seq(S) /\ r \in Seq(S) /\ Len(l) = Len(r)
    OBVIOUS
  <1>2. \A i \in 1..Len(l) : l[i] = r[i]
    OBVIOUS
  <1> HIDE DEF l, r
  <1>3. l = r
    BY <1>1, <1>2, SeqEqual
  <1> QED
    BY <1>3 DEF l, r

LEMMA FlattenConcatStep ==
    ASSUME NEW S, NEW s \in Seq(Seq(S)), NEW v \in Seq(Seq(S)), NEW e \in Seq(S),
           FlattenSeq(s \o v) = FlattenSeq(s) \o FlattenSeq(v)
    PROVE  FlattenSeq(s \o Append(v, e)) = FlattenSeq(s) \o FlattenSeq(Append(v, e))
  <1>1. s \o Append(v, e) = Append(s \o v, e) /\ s \o v \in Seq(Seq(S))
    OBVIOUS
  <1>2. FlattenSeq(Append(s \o v, e)) = FlattenSeq(s \o v) \o e
    BY <1>1, FlattenAppend
  <1>3. FlattenSeq(Append(v, e)) = FlattenSeq(v) \o e
    BY FlattenAppend
  <1>4. PICK a \in Seq(S), b \in Seq(S) : a = FlattenSeq(s) /\ b = FlattenSeq(v)
    BY FlattenType
  <1>5. (a \o b) \o e = a \o (b \o e)
    BY ConcatThree
  <1> QED
    BY <1>1, <1>2, <1>3, <1>4, <1>5

LEMMA FlattenConcat ==
    ASSUME NEW S, NEW s \in Seq(Seq(S)), NEW t \in Seq(Seq(S))
    PROVE  FlattenSeq(s \o t) = FlattenSeq(s) \o FlattenSeq(t)
  <1> DEFINE Same(u) == FlattenSeq(s \o u) = FlattenSeq(s) \o FlattenSeq(u)
             B == {n \in Nat : \A u \in Seq(Seq(S)) : Len(u) = n => Same(u)}
  <1>1. 0 \in B
    <2> SUFFICES ASSUME NEW u \in Seq(Seq(S)), Len(u) = 0 PROVE Same(u)
      <3> HIDE DEF Same
      <3> QED OBVIOUS
    <2>1. u = <<>> /\ s \o u = s /\ FlattenSeq(u) = <<>>
      BY ConcatEmptySeq, FlattenEmpty
    <2> QED
      BY <2>1, FlattenType, ConcatEmptySeq
  <1>2. ASSUME NEW n \in Nat, n \in B PROVE n + 1 \in B
    <2> SUFFICES ASSUME NEW u \in Seq(Seq(S)), Len(u) = n + 1 PROVE Same(u)
      <3> HIDE DEF Same
      <3> QED OBVIOUS
    <2>1. u # <<>>
      OBVIOUS
    <2>2. PICK v \in Seq(Seq(S)), e \in Seq(S) : u = Append(v, e)
      BY <2>1, SequenceEmptyOrAppend
    <2>3. Len(v) = n
      BY <2>2
    <2>4. Same(v)
      <3> HIDE DEF Same
      <3> QED BY <2>3, <1>2
    <2> QED
      BY <2>2, <2>4, FlattenConcatStep
  <1>3. \A n \in Nat : n \in B
    <2> HIDE DEF B
    <2> QED
      BY <1>1, <1>2, SetInduction
  <1>4. Len(t) \in B
    BY <1>3
  <1>5. Same(t)
    <2> HIDE DEF Same
    <2> QED BY <1>4
  <1> QED
    BY <1>5

(* Groups of k elements each. *)
LEMMA FlattenLength ==
    ASSUME NEW S, NEW s \in Seq(Seq(S)), NEW k \in Nat, \A i \in 1..Len(s) : Len(s[i]) = k
    PROVE  Len(FlattenSeq(s)) = k * Len(s)
  <1> DEFINE Long(u) == (\A i \in 1..Len(u) : Len(u[i]) = k) => Len(FlattenSeq(u)) = k * Len(u)
             B == {n \in Nat : \A u \in Seq(Seq(S)) : Len(u) = n => Long(u)}
  <1>1. 0 \in B
    <2> SUFFICES ASSUME NEW u \in Seq(Seq(S)), Len(u) = 0 PROVE Long(u)
      <3> HIDE DEF Long
      <3> QED OBVIOUS
    <2>1. u = <<>>
      OBVIOUS
    <2> QED
      BY <2>1, FlattenEmpty
  <1>2. ASSUME NEW n \in Nat, n \in B PROVE n + 1 \in B
    <2> SUFFICES ASSUME NEW u \in Seq(Seq(S)), Len(u) = n + 1 PROVE Long(u)
      <3> HIDE DEF Long
      <3> QED OBVIOUS
    <2> SUFFICES ASSUME \A i \in 1..Len(u) : Len(u[i]) = k
                 PROVE  Len(FlattenSeq(u)) = k * Len(u)
      OBVIOUS
    <2>1. u # <<>>
      OBVIOUS
    <2>2. PICK v \in Seq(Seq(S)), e \in Seq(S) : u = Append(v, e)
      BY <2>1, SequenceEmptyOrAppend
    <2>3. /\ Len(v) = n /\ \A i \in 1..Len(v) : u[i] = v[i]
          /\ u[n + 1] = e /\ Len(u) = n + 1
      BY <2>2
    <2>4. Long(v)
      <3> HIDE DEF Long
      <3> QED BY <2>3, <1>2
    <2>5. \A i \in 1..Len(v) : Len(v[i]) = k
      <3> TAKE i \in 1..Len(v)
      <3>1. i \in 1..Len(u) /\ u[i] = v[i]
        BY <2>3
      <3>2. Len(u[i]) = k
        BY <3>1
      <3> QED
        BY <3>1, <3>2, Zenon
    <2>6. Len(e) = k
      BY <2>3
    <2>7. PICK q \in Seq(S) : q = FlattenSeq(v)
      BY FlattenType
    <2>8. FlattenSeq(u) = q \o e
      BY <2>2, <2>7, FlattenAppend
    <2>9. Len(q) = k * n
      BY <2>3, <2>4, <2>5, <2>7
    <2>10. Len(q \o e) = k * n + k
      <3>1. Len(q \o e) = Len(q) + Len(e)
        OBVIOUS
      <3> QED
        BY <3>1, <2>6, <2>9, Zenon
    <2>11. k * n + k = k * (n + 1)
      OBVIOUS
    <2> QED
      BY <2>3, <2>8, <2>10, <2>11
  <1>3. \A n \in Nat : n \in B
    <2> HIDE DEF B
    <2> QED
      BY <1>1, <1>2, SetInduction
  <1>4. Long(s)
    <2> HIDE DEF Long
    <2>1. Len(s) \in B
      BY <1>3
    <2> QED BY <2>1
  <1> QED
    BY <1>4
-----------------------------------------------------------------------------
(* How often an element occurs in a sequence. *)
Count(e, s) == Cardinality({i \in DOMAIN s : s[i] = e})

LEMMA CountType ==
    ASSUME NEW S, NEW s \in Seq(S), NEW e
    PROVE  /\ Count(e, s) \in Nat
           /\ IsFiniteSet({i \in DOMAIN s : s[i] = e})
  <1>1. IsFiniteSet(1..Len(s))
    BY FS_Interval
  <1>2. {i \in DOMAIN s : s[i] = e} \in SUBSET (1..Len(s))
    OBVIOUS
  <1>3. IsFiniteSet({i \in DOMAIN s : s[i] = e})
    BY <1>1, <1>2, FS_Subset
  <1> QED
    BY <1>3, FS_CardinalityType DEF Count

LEMMA CountEmpty == ASSUME NEW e PROVE Count(e, <<>>) = 0
  <1>1. {i \in DOMAIN <<>> : <<>>[i] = e} = {}
    OBVIOUS
  <1> QED
    BY <1>1, FS_EmptySet DEF Count

LEMMA CountConcat ==
    ASSUME NEW S, NEW s \in Seq(S), NEW t \in Seq(S), NEW e
    PROVE  Count(e, s \o t) = Count(e, s) + Count(e, t)
  <1> DEFINE m == Len(s)
             A == {i \in DOMAIN s : s[i] = e}
             T == {i \in DOMAIN t : t[i] = e}
             U == {i \in (m + 1)..(m + Len(t)) : t[i - m] = e}
             C == {i \in DOMAIN (s \o t) : (s \o t)[i] = e}
             f == [i \in T |-> i + m]
  <1>1. IsFiniteSet(A) /\ IsFiniteSet(T)
    BY CountType
  <1>2. f \in Bijection(T, U)
    <2>1. f \in [T -> U]
      OBVIOUS
    <2>2. \A i, j \in T : f[i] = f[j] => i = j
      OBVIOUS
    <2>3. ASSUME NEW u \in U PROVE \E i \in T : f[i] = u
      <3>1. u - m \in T /\ f[u - m] = u
        OBVIOUS
      <3> QED
        BY <3>1
    <2> HIDE DEF f, T, U
    <2> QED
      BY <2>1, <2>2, <2>3 DEF Bijection, Injection, Surjection, IsInjective
  <1>3. IsFiniteSet(U) /\ Cardinality(U) = Cardinality(T)
    <2> HIDE DEF f, T, U
    <2>1. ExistsBijection(T, U)
      BY <1>2 DEF ExistsBijection
    <2> QED
      BY <1>1, <2>1, FS_Bijection
  <1>4. C = A \cup U
    OBVIOUS
  <1>5. A \cap U = {}
    OBVIOUS
  <1> HIDE DEF A, T, U, C
  <1>6. Cardinality(C) = Cardinality(A) + Cardinality(U) - Cardinality({})
    BY <1>1, <1>3, <1>4, <1>5, FS_Union
  <1>7. Cardinality(A) \in Nat /\ Cardinality(T) \in Nat
    BY <1>1, FS_CardinalityType
  <1>8. Cardinality(C) = Cardinality(A) + Cardinality(T)
    BY <1>3, <1>6, <1>7, FS_EmptySet
  <1> QED
    BY <1>8 DEF Count, A, T, C

LEMMA CountAppend ==
    ASSUME NEW S, NEW s \in Seq(S), NEW x \in S, NEW e
    PROVE  Count(e, Append(s, x)) = Count(e, s) + (IF x = e THEN 1 ELSE 0)
  <1>1. <<x>> \in Seq(S) /\ Append(s, x) = s \o <<x>>
    OBVIOUS
  <1>2. Count(e, Append(s, x)) = Count(e, s) + Count(e, <<x>>)
    BY <1>1, CountConcat
  <1>3. CASE x = e
    <2>1. {i \in DOMAIN <<x>> : <<x>>[i] = e} = {1}
      BY <1>3
    <2> QED
      BY <1>2, <1>3, <2>1, FS_Singleton DEF Count
  <1>4. CASE x # e
    <2>1. {i \in DOMAIN <<x>> : <<x>>[i] = e} = {}
      BY <1>4
    <2> QED
      BY <1>2, <1>4, <2>1, FS_EmptySet DEF Count
  <1> QED
    BY <1>3, <1>4

(* The last element and the others. *)
LEMMA FrontAndLast ==
    ASSUME NEW S, NEW s \in Seq(S), s # <<>>
    PROVE  /\ Front(s) \in Seq(S) /\ Last(s) \in S /\ Len(Front(s)) = Len(s) - 1
           /\ Len(s) \in Nat \ {0}
           /\ \A i \in 1..(Len(s) - 1) : Front(s)[i] = s[i]
           /\ \A x : Count(x, s) = Count(x, Front(s)) + (IF Last(s) = x THEN 1 ELSE 0)
  <1> DEFINE p == Len(s)
             q == SubSeq(s, 1, p - 1)
  <1>1. p \in Nat \ {0} /\ \A i \in 1..p : s[i] \in S
    BY EmptySeq, ElementOfSeq
  <1> HIDE DEF p
  <1>2. q \in Seq(S) /\ Len(q) = p - 1 /\ \A i \in 1..(p - 1) : q[i] = s[i]
    BY <1>1, SubSeqProperties
  <1>3. s[p] \in S
    BY <1>1
  <1>4. PICK f \in Seq(S), l \in S : f = q /\ l = s[p]
    BY <1>2, <1>3
  <1> HIDE DEF q
  <1>5. Len(f) = p - 1 /\ \A i \in 1..(p - 1) : f[i] = s[i]
    BY <1>2, <1>4
  <1>6. s = Append(f, l)
    <2>1. Append(f, l) \in Seq(S) /\ Len(Append(f, l)) = Len(s)
      BY <1>1, <1>5 DEF p
    <2>2. \A i \in 1..Len(s) : s[i] = Append(f, l)[i]
      <3> TAKE i \in 1..Len(s)
      <3>1. CASE i = p
        BY <1>1, <1>4, <1>5, <3>1
      <3>2. CASE i # p
        <4>1. i \in 1..(p - 1) /\ i \in 1..Len(f)
          BY <1>1, <1>5, <3>2 DEF p
        <4> QED
          BY <1>5, <4>1
      <3> QED
        BY <3>1, <3>2
    <2> QED
      BY <2>1, <2>2, SeqEqual
  <1>7. ASSUME NEW x PROVE Count(x, s) = Count(x, f) + (IF l = x THEN 1 ELSE 0)
    BY <1>6, CountAppend
  <1>8. f = Front(s) /\ l = Last(s)
    BY <1>4 DEF p, q, Front, Last
  <1> QED
    BY <1>1, <1>5, <1>7, <1>8 DEF p
-----------------------------------------------------------------------------
(* The state of a channel: no batch is longer than Batch, every group of   *)
(* the ring has Batch elements and the cache respects its capacity.        *)
Chan(S) == [batch : Seq(S), ring : Seq(Seq(S)), cached : Seq(S)]
Whole(c) ==
    /\ Len(c.batch) <= Batch
    /\ \A i \in 1..Len(c.ring) : Len(c.ring[i]) = Batch
    /\ Len(c.cached) <= Cache

(* A channel by its fields, and the updates the operators make. *)
IsChan(c, S, b, r, d) == c \in Chan(S) /\ c.batch = b /\ c.ring = r /\ c.cached = d

WithBatch(c, b) == [c EXCEPT !.batch = b]
WithBatchRing(c, b, r) == [c EXCEPT !.batch = b, !.ring = r]
WithCached(c, d) == [c EXCEPT !.cached = d]
WithCachedRing(c, d, r) == [c EXCEPT !.cached = d, !.ring = r]

LEMMA ChanBatch ==
    ASSUME NEW S, NEW c \in Chan(S), NEW b \in Seq(S)
    PROVE  IsChan(WithBatch(c, b), S, b, c.ring, c.cached)
  BY DEF WithBatch, IsChan, Chan

LEMMA ChanBatchRing ==
    ASSUME NEW S, NEW c \in Chan(S), NEW b \in Seq(S), NEW r \in Seq(Seq(S))
    PROVE  IsChan(WithBatchRing(c, b, r), S, b, r, c.cached)
  BY DEF WithBatchRing, IsChan, Chan

LEMMA ChanCached ==
    ASSUME NEW S, NEW c \in Chan(S), NEW d \in Seq(S)
    PROVE  IsChan(WithCached(c, d), S, c.batch, c.ring, d)
  BY DEF WithCached, IsChan, Chan

LEMMA ChanCachedRing ==
    ASSUME NEW S, NEW c \in Chan(S), NEW d \in Seq(S), NEW r \in Seq(Seq(S))
    PROVE  IsChan(WithCachedRing(c, d, r), S, c.batch, r, d)
  BY DEF WithCachedRing, IsChan, Chan

(* The number of elements, and of occurrences of x, in a channel, as sums  *)
(* over its parts.                                                         *)
LEMMA ContentsSums ==
    ASSUME NEW S, NEW c \in Chan(S)
    PROVE  /\ Contents(c) \in Seq(S)
           /\ Len(Contents(c)) = Len(c.batch) + Len(FlattenSeq(c.ring)) + Len(c.cached)
           /\ \A x : Count(x, Contents(c)) =
                 Count(x, c.batch) + Count(x, FlattenSeq(c.ring)) + Count(x, c.cached)
  <1>1. PICK b \in Seq(S), r \in Seq(S), d \in Seq(S) :
           b = c.batch /\ r = FlattenSeq(c.ring) /\ d = c.cached
    BY FlattenType DEF Chan
  <1>2. b \o r \in Seq(S)
    OBVIOUS
  <1>3. Contents(c) = (b \o r) \o d
    BY <1>1 DEF Contents
  <1>4. (b \o r) \o d \in Seq(S) /\ Len((b \o r) \o d) = Len(b) + Len(r) + Len(d)
    OBVIOUS
  <1>5. ASSUME NEW x
        PROVE  Count(x, (b \o r) \o d) = Count(x, b) + Count(x, r) + Count(x, d)
    <2>1. Count(x, (b \o r) \o d) = Count(x, b \o r) + Count(x, d)
      BY <1>2, CountConcat
    <2>2. Count(x, b \o r) = Count(x, b) + Count(x, r)
      BY CountConcat
    <2> QED
      BY <2>1, <2>2
  <1> QED
    BY <1>1, <1>3, <1>4, <1>5

(* A flush of a full batch into a ring with room keeps everything. *)
LEMMA FlushFull ==
    ASSUME NEW S, NEW c \in Chan(S), Whole(c),
           Len(c.batch) = Batch, Len(c.ring) < SpscLen
    PROVE  /\ Flush(c) \in Chan(S) /\ Whole(Flush(c))
           /\ Flush(c).batch = <<>> /\ Flush(c).cached = c.cached
           /\ Len(Contents(Flush(c))) = Len(Contents(c))
           /\ \A x : Count(x, Contents(Flush(c))) = Count(x, Contents(c))
  <1> DEFINE f == Flush(c)
  <1>1. PICK b \in Seq(S), r \in Seq(Seq(S)), d \in Seq(S) :
           b = c.batch /\ r = c.ring /\ d = c.cached
    BY DEF Chan
  <1>2. Append(r, b) \in Seq(Seq(S)) /\ <<>> \in Seq(S)
    OBVIOUS
  <1>3. IsChan(f, S, <<>>, Append(r, b), d)
    <2>1. f = WithBatchRing(c, <<>>, Append(r, b))
      BY <1>1 DEF Flush, WithBatchRing
    <2> HIDE DEF f
    <2> QED
      BY <1>1, <1>2, <2>1, ChanBatchRing
  <1>4. f.batch = <<>> /\ f.ring = Append(r, b) /\ f.cached = d
    BY <1>3 DEF IsChan
  <1>5. f \in Chan(S)
    BY <1>3 DEF IsChan
  <1>6. Whole(f)
    <2>1. \A i \in 1..Len(Append(r, b)) : Len(Append(r, b)[i]) = Batch
      <3> TAKE i \in 1..Len(Append(r, b))
      <3>1. CASE i = Len(r) + 1
        BY <3>1, <1>1
      <3>2. CASE i # Len(r) + 1
        <4>1. i \in 1..Len(r) /\ Append(r, b)[i] = r[i]
          BY <3>2
        <4>2. Len(r[i]) = Batch
          BY <4>1, <1>1 DEF Whole
        <4> QED
          BY <4>1, <4>2
      <3> QED
        BY <3>1, <3>2
    <2>2. Len(<<>>) <= Batch
      BY ChannelAssumption
    <2>3. Len(d) <= Cache
      BY <1>1 DEF Whole
    <2> QED
      BY <1>4, <2>1, <2>2, <2>3 DEF Whole
  <1>7. PICK q \in Seq(S) : q = FlattenSeq(r)
    BY FlattenType
  <1>8. FlattenSeq(f.ring) = q \o b
    BY <1>4, <1>7, FlattenAppend
  <1> HIDE DEF f
  <1>9. Len(Contents(f)) = Len(<<>>) + Len(q \o b) + Len(d)
    BY <1>4, <1>5, <1>8, ContentsSums
  <1>10. Len(Contents(c)) = Len(b) + Len(q) + Len(d)
    BY <1>1, <1>7, ContentsSums
  <1>11. Len(Contents(f)) = Len(Contents(c))
    BY <1>9, <1>10
  <1>12. ASSUME NEW x PROVE Count(x, Contents(f)) = Count(x, Contents(c))
    <2>1. Count(x, Contents(f)) = Count(x, <<>>) + Count(x, q \o b) + Count(x, d)
      BY <1>4, <1>5, <1>8, ContentsSums
    <2>2. Count(x, Contents(c)) = Count(x, b) + Count(x, q) + Count(x, d)
      BY <1>1, <1>7, ContentsSums
    <2>3. Count(x, <<>>) = 0 /\ Count(x, q \o b) = Count(x, q) + Count(x, b)
      BY CountEmpty, CountConcat
    <2>4. Count(x, b) \in Nat /\ Count(x, q) \in Nat /\ Count(x, d) \in Nat
      BY CountType
    <2> QED
      BY <2>1, <2>2, <2>3, <2>4
  <1> QED
    BY <1>1, <1>4, <1>5, <1>6, <1>11, <1>12 DEF f

(* The elements of a channel are at least as many as the groups of its     *)
(* ring and the elements outside it.                                       *)
LEMMA RingLength ==
    ASSUME NEW S, NEW c \in Chan(S), Whole(c)
    PROVE  /\ Len(c.ring) \in Nat
           /\ Len(Contents(c)) \in Nat
           /\ Len(c.ring) + Len(c.batch) + Len(c.cached) <= Len(Contents(c))
  <1>1. PICK b \in Seq(S), r \in Seq(Seq(S)), d \in Seq(S) :
           b = c.batch /\ r = c.ring /\ d = c.cached
    BY DEF Chan
  <1>2. \A i \in 1..Len(r) : Len(r[i]) = Batch
    BY <1>1 DEF Whole
  <1>3. Len(FlattenSeq(r)) >= Len(r)
    <2>1. Len(FlattenSeq(r)) = Batch * Len(r)
      BY <1>2, FlattenLength, ChannelAssumption
    <2>2. PICK l \in Nat : l = Len(r)
      OBVIOUS
    <2>3. Batch * l >= l
      BY ChannelAssumption
    <2> QED
      BY <2>1, <2>2, <2>3
  <1>4. PICK q \in Seq(S) : q = FlattenSeq(r)
    BY FlattenType
  <1>5. Len(Contents(c)) = Len(b) + Len(q) + Len(d)
    BY <1>1, <1>4, ContentsSums
  <1>6. Len(b) \in Nat /\ Len(q) \in Nat /\ Len(d) \in Nat /\ Len(r) \in Nat
    OBVIOUS
  <1>7. Len(q) >= Len(r)
    BY <1>3, <1>4
  <1>8. Len(c.ring) = Len(r) /\ Len(c.batch) = Len(b) /\ Len(c.cached) = Len(d)
    BY <1>1, Zenon
  <1> QED
    BY <1>5, <1>6, <1>7, <1>8

(* A push into a channel that holds fewer elements than the ring has room  *)
(* for groups loses nothing: it adds its element.                          *)
LEMMA PushAdds ==
    ASSUME NEW S, NEW c \in Chan(S), Whole(c), NEW e \in S,
           Len(Contents(c)) <= SpscLen
    PROVE  /\ Push(c, e) \in Chan(S) /\ Whole(Push(c, e))
           /\ Push(c, e).cached = c.cached
           /\ Len(Contents(Push(c, e))) = Len(Contents(c)) + 1
           /\ \A x : Count(x, Contents(Push(c, e))) =
                        Count(x, Contents(c)) + (IF e = x THEN 1 ELSE 0)
  <1>1. PICK d \in Chan(S) :
           /\ Whole(d) /\ Len(d.batch) < Batch /\ d.cached = c.cached
           /\ Len(Contents(d)) = Len(Contents(c))
           /\ \A x : Count(x, Contents(d)) = Count(x, Contents(c))
           /\ Push(c, e) = WithBatch(d, Append(d.batch, e))
    <2>1. CASE Len(c.batch) < Batch
      <3>1. Push(c, e) = WithBatch(c, Append(c.batch, e))
        BY <2>1 DEF Push, WithBatch
      <3> QED
        BY <2>1, <3>1, Zenon
    <2>2. CASE ~(Len(c.batch) < Batch)
      <3>1. Len(c.batch) = Batch
        BY <2>2, ChannelAssumption DEF Whole, Chan
      <3>2. Len(c.ring) < SpscLen
        <4>1. /\ Len(c.ring) \in Nat /\ Len(Contents(c)) \in Nat /\ Len(c.cached) \in Nat
              /\ Len(c.ring) + Len(c.batch) + Len(c.cached) <= Len(Contents(c))
          <5>1. Len(c.cached) \in Nat
            BY DEF Chan
          <5> QED
            BY <5>1, RingLength, Zenon
        <4>2. PICK i \in Nat, j \in Nat, k \in Nat :
                 i = Len(c.ring) /\ j = Len(c.cached) /\ k = Len(Contents(c))
          BY <4>1, Zenon
        <4>3. i + Batch + j <= k /\ k <= SpscLen
          BY <3>1, <4>1, <4>2, Zenon
        <4>4. i < SpscLen
          BY <4>3, ChannelAssumption
        <4> QED
          BY <4>2, <4>4, Zenon
      <3>3. /\ Flush(c) \in Chan(S) /\ Whole(Flush(c))
            /\ Flush(c).batch = <<>> /\ Flush(c).cached = c.cached
            /\ Len(Contents(Flush(c))) = Len(Contents(c))
            /\ \A x : Count(x, Contents(Flush(c))) = Count(x, Contents(c))
        BY <3>1, <3>2, FlushFull
      <3>4. Len(Flush(c).batch) < Batch
        BY <3>3, ChannelAssumption
      <3>5. Push(c, e) = WithBatch(Flush(c), Append(Flush(c).batch, e))
        BY <2>2 DEF Push, WithBatch
      <3> QED
        BY <3>3, <3>4, <3>5, Zenon
    <2> QED
      BY <2>1, <2>2
  <1> DEFINE p == Push(c, e)
  <1>2. PICK b \in Seq(S), r \in Seq(Seq(S)), h \in Seq(S) :
           b = d.batch /\ r = d.ring /\ h = d.cached
    BY DEF Chan
  <1>3. IsChan(p, S, Append(b, e), r, h)
    <2>1. Append(b, e) \in Seq(S) /\ p = WithBatch(d, Append(b, e))
      BY <1>1, <1>2
    <2> HIDE DEF p
    <2> QED
      BY <1>2, <2>1, ChanBatch
  <1>4. p.batch = Append(b, e) /\ p.ring = r /\ p.cached = h
    BY <1>3 DEF IsChan
  <1>5. p \in Chan(S)
    BY <1>3 DEF IsChan
  <1>6. Whole(p)
    <2>1. Len(Append(b, e)) <= Batch
      BY <1>1, <1>2, ChannelAssumption
    <2> QED
      BY <1>1, <1>2, <1>4, <2>1 DEF Whole
  <1> HIDE DEF p
  <1>7. PICK q \in Seq(S) : q = FlattenSeq(r)
    BY FlattenType
  <1>8. Len(Contents(p)) = Len(Append(b, e)) + Len(q) + Len(h)
    BY <1>4, <1>5, <1>7, ContentsSums
  <1>9. Len(Contents(d)) = Len(b) + Len(q) + Len(h)
    BY <1>2, <1>7, ContentsSums
  <1>10. Len(Contents(p)) = Len(Contents(c)) + 1
    BY <1>1, <1>8, <1>9
  <1>11. ASSUME NEW x
         PROVE  Count(x, Contents(p)) = Count(x, Contents(c)) + (IF e = x THEN 1 ELSE 0)
    <2>1. Count(x, Contents(p)) = Count(x, Append(b, e)) + Count(x, q) + Count(x, h)
      BY <1>4, <1>5, <1>7, ContentsSums
    <2>2. Count(x, Contents(d)) = Count(x, b) + Count(x, q) + Count(x, h)
      BY <1>2, <1>7, ContentsSums
    <2>3. Count(x, Append(b, e)) = Count(x, b) + (IF e = x THEN 1 ELSE 0)
      BY CountAppend
    <2>4. Count(x, b) \in Nat /\ Count(x, q) \in Nat /\ Count(x, h) \in Nat
      BY CountType
    <2>5. Count(x, Contents(d)) = Count(x, Contents(c))
      BY <1>1
    <2> QED
      BY <2>1, <2>2, <2>3, <2>4, <2>5
  <1> QED
    BY <1>1, <1>2, <1>4, <1>5, <1>6, <1>10, <1>11 DEF p

LEMMA DivFits ==
    ASSUME NEW k \in Nat, NEW d \in Nat \ {0}
    PROVE  /\ k \div d \in Nat
           /\ d * (k \div d) <= k
           /\ d <= k => k \div d # 0
  <1>1. PICK q \in Int : q = k \div d
    OBVIOUS
  <1>2. k = d * q + (k % d) /\ k % d \in 0..(d - 1)
    BY <1>1
  <1>3. PICK r \in 0..(d - 1) : r = k % d
    BY <1>2
  <1>4. k = d * q + r
    BY <1>2, <1>3
  <1>5. q >= 0
    <2> SUFFICES ASSUME q <= -1 PROVE FALSE
      BY <1>1
    <2>1. d * q <= -d
      OBVIOUS
    <2> QED
      BY <1>4, <2>1
  <1>6. d <= k => q # 0
    BY <1>4
  <1>7. d * q <= k
    BY <1>4
  <1> QED
    BY <1>1, <1>5, <1>6, <1>7

LEMMA SplitSeq ==
    ASSUME NEW S, NEW s \in Seq(S), NEW n \in Nat, n <= Len(s)
    PROVE  s = SubSeq(s, 1, n) \o SubSeq(s, n + 1, Len(s))
  <1>1. PICK k \in Nat : k = Len(s)
    OBVIOUS
  <1>2. 1 \in 1..(k + 1) /\ n \in (1 - 1)..k /\ k \in n..k
    BY <1>1
  <1>3. SubSeq(s, 1, n) \o SubSeq(s, n + 1, k) = SubSeq(s, 1, k)
    BY <1>1, <1>2, ConcatAdjacentSubSeq
  <1>4. SubSeq(s, 1, k) = s
    BY <1>1, SubSeqFull
  <1> QED
    BY <1>1, <1>3, <1>4

(* Consumer::sync moves elements from the ring to the cache. *)
LEMMA SyncKeeps ==
    ASSUME NEW S, NEW c \in Chan(S), Whole(c)
    PROVE  /\ Sync(c) \in Chan(S) /\ Whole(Sync(c))
           /\ Sync(c).batch = c.batch
           /\ Len(Contents(Sync(c))) = Len(Contents(c))
           /\ \A x : Count(x, Contents(Sync(c))) = Count(x, Contents(c))
           /\ Batch <= Cache /\ Sync(c).cached = <<>> => c.ring = <<>> /\ c.cached = <<>>
  <1>1. PICK b \in Seq(S), r \in Seq(Seq(S)), d \in Seq(S) :
           b = c.batch /\ r = c.ring /\ d = c.cached
    BY DEF Chan
  <1>2. Len(b) <= Batch /\ (\A i \in 1..Len(r) : Len(r[i]) = Batch) /\ Len(d) <= Cache
    BY <1>1 DEF Whole
  <1> DEFINE room == (Cache - Len(d)) \div Batch
             n == IF Len(r) < room THEN Len(r) ELSE room
             s == Sync(c)
             l == SubSeq(r, 1, n)
             m == SubSeq(r, n + 1, Len(r))
             q == FlattenSeq(l)
  <1>3. /\ n \in 0..Len(r) /\ Batch * n <= Cache - Len(d)
        /\ Batch <= Cache /\ Len(d) = 0 /\ Len(r) # 0 => n # 0
    <2>1. PICK k \in Nat, j \in Nat, u \in Nat : k = Cache - Len(d) /\ j = Len(r) /\ u = Len(d)
      <3>1. Len(d) \in Nat /\ Len(r) \in Nat
        OBVIOUS
      <3>2. Cache - Len(d) \in Nat
        BY <3>1, <1>2, ChannelAssumption
      <3> QED
        BY <3>1, <3>2, Zenon
    <2>2. k \div Batch \in Nat /\ Batch * (k \div Batch) <= k
      BY DivFits, ChannelAssumption
    <2>3. Batch <= k => k \div Batch # 0
      BY DivFits, ChannelAssumption
    <2>4. PICK w \in Nat : w = k \div Batch
      BY <2>2
    <2>5. room = w
      BY <2>1, <2>4
    <2>6. w > j => Batch * j <= Batch * w
      BY ChannelAssumption
    <2> HIDE DEF room
    <2>7. CASE j < w
      <3>1. n = j
        BY <2>1, <2>5, <2>7
      <3>2. Batch * j <= Batch * w /\ Batch * w <= k
        BY <2>2, <2>4, <2>6, <2>7
      <3>3. Batch * j <= k
        <4>1. PICK x \in Nat, y \in Nat : x = Batch * j /\ y = Batch * w
          BY ChannelAssumption
        <4> QED
          BY <3>2, <4>1
      <3> QED
        BY <3>1, <3>3, <2>1
    <2>8. CASE ~(j < w)
      <3>1. n = w
        BY <2>1, <2>5, <2>8
      <3>2. Batch * w <= k
        BY <2>2, <2>4
      <3>3. Batch <= Cache /\ u = 0 => w # 0
        BY <2>1, <2>3, <2>4, ChannelAssumption
      <3> QED
        BY <3>1, <3>2, <3>3, <2>1, <2>8
    <2> QED
      BY <2>7, <2>8
  <1> HIDE DEF n
  <1>4. /\ l \in Seq(Seq(S)) /\ m \in Seq(Seq(S)) /\ r = l \o m
        /\ Len(l) = n /\ Len(m) = Len(r) - n
        /\ \A i \in 1..n : l[i] = r[i]
        /\ \A i \in 1..(Len(r) - n) : m[i] = r[n + i]
    <2>1. n \in Nat /\ n <= Len(r)
      BY <1>3
    <2>2. /\ l \in Seq(Seq(S)) /\ m \in Seq(Seq(S))
          /\ Len(l) = n /\ Len(m) = Len(r) - n
          /\ \A i \in 1..n : l[i] = r[i]
          /\ \A i \in 1..(Len(r) - n) : m[i] = r[n + i]
      BY <2>1
    <2>3. r = l \o m
      BY <2>1, SplitSeq
    <2> QED
      BY <2>2, <2>3
  <1> HIDE DEF l, m
  <1>5. \A i \in 1..Len(l) : Len(l[i]) = Batch
    <2> TAKE i \in 1..Len(l)
    <2>1. i \in 1..n /\ i \in 1..Len(r)
      BY <1>3, <1>4
    <2> QED
      BY <2>1, <1>2, <1>4, Zenon
  <1>6. \A i \in 1..Len(m) : Len(m[i]) = Batch
    <2> TAKE i \in 1..Len(m)
    <2>1. i \in 1..(Len(r) - n) /\ n + i \in 1..Len(r)
      BY <1>3, <1>4
    <2> QED
      BY <2>1, <1>2, <1>4, Zenon
  <1>7. PICK v \in Seq(S), w \in Seq(S) : v = q /\ w = FlattenSeq(m)
    BY <1>4, FlattenType
  <1>8. FlattenSeq(r) = v \o w
    BY <1>4, <1>7, FlattenConcat
  <1>9. Len(v) = Batch * n
    BY <1>4, <1>5, <1>7, FlattenLength, ChannelAssumption
  <1>10. IsChan(s, S, b, m, d \o v)
    <2>1. d \o v \in Seq(S)
      OBVIOUS
    <2>2. s = WithCachedRing(c, d \o v, m)
      BY <1>1, <1>7 DEF Sync, WithCachedRing, n, l, m
    <2> HIDE DEF s
    <2> QED
      BY <1>1, <1>4, <2>1, <2>2, ChanCachedRing
  <1>11. s \in Chan(S) /\ s.batch = b /\ s.ring = m /\ s.cached = d \o v
    BY <1>10 DEF IsChan
  <1> HIDE DEF s, q
  <1>12. Len(d \o v) <= Cache
    <2>1. Len(d \o v) = Len(d) + Len(v)
      OBVIOUS
    <2>2. PICK k \in Nat, j \in Nat : k = Len(d) /\ j = Len(v)
      OBVIOUS
    <2>3. j <= Cache - k
      BY <1>3, <1>9, <2>2
    <2> QED
      BY <2>1, <2>2, <2>3, ChannelAssumption
  <1>13. Whole(s)
    BY <1>2, <1>6, <1>11, <1>12 DEF Whole
  <1>14. Len(Contents(s)) = Len(b) + Len(w) + Len(d \o v)
    BY <1>7, <1>11, ContentsSums
  <1>15. Len(Contents(c)) = Len(b) + Len(v \o w) + Len(d)
    BY <1>1, <1>8, ContentsSums
  <1>16. Len(Contents(s)) = Len(Contents(c))
    BY <1>14, <1>15
  <1>17. ASSUME NEW x PROVE Count(x, Contents(s)) = Count(x, Contents(c))
    <2>1. Count(x, Contents(s)) = Count(x, b) + Count(x, w) + Count(x, d \o v)
      BY <1>7, <1>11, ContentsSums
    <2>2. Count(x, Contents(c)) = Count(x, b) + Count(x, v \o w) + Count(x, d)
      BY <1>1, <1>8, ContentsSums
    <2>3. /\ Count(x, d \o v) = Count(x, d) + Count(x, v)
          /\ Count(x, v \o w) = Count(x, v) + Count(x, w)
      BY CountConcat
    <2>4. /\ Count(x, b) \in Nat /\ Count(x, w) \in Nat
          /\ Count(x, d) \in Nat /\ Count(x, v) \in Nat
      BY CountType
    <2> QED
      BY <2>1, <2>2, <2>3, <2>4
  <1>18. ASSUME Batch <= Cache, s.cached = <<>> PROVE c.ring = <<>> /\ c.cached = <<>>
    <2>1. Len(d \o v) = 0
      BY <1>11, <1>18
    <2>2. Len(d) = 0 /\ Len(v) = 0
      BY <2>1
    <2>3. n = 0
      <3>1. n \in Nat /\ Batch * n = 0
        BY <1>3, <1>9, <2>2, SMTT(40)
      <3> QED
        BY <3>1, ChannelAssumption
    <2>4. Len(r) = 0
      BY <1>3, <1>18, <2>2, <2>3
    <2> QED
      BY <1>1, <2>2, <2>4
  <1> QED
    BY <1>1, <1>11, <1>13, <1>16, <1>17, <1>18 DEF s
-----------------------------------------------------------------------------
(* PushAll: the function that FoldLeft(Push, c, s) chooses. *)
PushFold(f, c, s) ==
    f = [t \in SUBSET (DOMAIN s) |->
            IF t = {} THEN c ELSE Push(f[t \ {Max(t)}], s[Max(t)])]

LEMMA PushAllIs ==
    ASSUME NEW c, NEW s
    PROVE  PushAll(c, s) = (CHOOSE f : PushFold(f, c, s))[DOMAIN s]
  BY DEF PushAll, FoldLeft, MapThenFoldSet, PushFold

LEMMA MaxIsLast ==
    ASSUME NEW n \in Nat, NEW t \in SUBSET (1..(n + 1)), n + 1 \in t
    PROVE  Max(t) = n + 1
  <1>1. \A y \in t : n + 1 >= y
    OBVIOUS
  <1>2. \A x \in t : (\A y \in t : x >= y) => x = n + 1
    OBVIOUS
  <1> QED
    BY <1>1, <1>2 DEF Max

LEMMA MaxIn ==
    ASSUME NEW n \in Nat, NEW t \in SUBSET (1..n), t # {}
    PROVE  Max(t) \in t
  <1> DEFINE B == {k \in Nat : \A u \in SUBSET (1..k) : u # {} =>
                       \E x \in u : \A y \in u : x >= y}
  <1>1. 0 \in B
    <2>1. \A u \in SUBSET (1..0) : u = {}
      OBVIOUS
    <2> QED
      BY <2>1
  <1>2. ASSUME NEW k \in Nat, k \in B PROVE k + 1 \in B
    <2> SUFFICES ASSUME NEW u \in SUBSET (1..(k + 1)), u # {}
                 PROVE  \E x \in u : \A y \in u : x >= y
      OBVIOUS
    <2>1. CASE k + 1 \in u
      <3>1. \A y \in u : k + 1 >= y
        OBVIOUS
      <3> QED
        BY <2>1, <3>1
    <2>2. CASE k + 1 \notin u
      <3>1. u \in SUBSET (1..k)
        BY <2>2
      <3> QED
        BY <3>1, <1>2
    <2> QED
      BY <2>1, <2>2
  <1>3. \A k \in Nat : k \in B
    <2> HIDE DEF B
    <2> QED
      BY <1>1, <1>2, SetInduction
  <1>4. \E x \in t : \A y \in t : x >= y
    BY <1>3
  <1> QED
    BY <1>4 DEF Max

LEMMA PushFoldExists ==
    ASSUME NEW S, NEW s \in Seq(S), NEW c
    PROVE  \E f : PushFold(f, c, s)
  <1> DEFINE Val(f, t) == IF t = {} THEN c ELSE Push(f[t \ {Max(t)}], s[Max(t)])
             Def(n) == \E f : f = [t \in SUBSET (1..n) |-> Val(f, t)]
             B == {n \in Nat : Def(n)}
  <1>1. 0 \in B
    <2> DEFINE f == [t \in SUBSET (1..0) |-> c]
    <2>1. \A t \in SUBSET (1..0) : Val(f, t) = c
      OBVIOUS
    <2>2. f = [t \in SUBSET (1..0) |-> Val(f, t)]
      BY <2>1
    <2>3. Def(0)
      <3> HIDE DEF f, Val
      <3> QED
        BY <2>2
    <2> QED
      BY <2>3
  <1>2. ASSUME NEW n \in Nat, n \in B PROVE n + 1 \in B
    <2>1. PICK f : f = [t \in SUBSET (1..n) |-> Val(f, t)]
      BY <1>2
    <2> DEFINE D == SUBSET (1..(n + 1))
               g == [t \in D |-> IF n + 1 \in t THEN Push(f[t \ {n + 1}], s[n + 1]) ELSE f[t]]
    <2>2. ASSUME NEW t \in SUBSET (1..n) PROVE f[t] = Val(f, t)
      <3> HIDE DEF Val
      <3> QED
        BY <2>1
    <2>3. ASSUME NEW t \in D PROVE g[t] = Val(g, t)
      <3>1. CASE n + 1 \in t
        <4>1. Max(t) = n + 1
          BY <3>1, MaxIsLast
        <4>2. t \ {n + 1} \in D /\ n + 1 \notin t \ {n + 1}
          OBVIOUS
        <4>3. g[t \ {n + 1}] = f[t \ {n + 1}]
          BY <4>2
        <4>4. g[t] = Push(f[t \ {n + 1}], s[n + 1])
          BY <3>1
        <4> HIDE DEF g
        <4> QED
          BY <3>1, <4>1, <4>3, <4>4
      <3>2. CASE n + 1 \notin t /\ t = {}
        <4>1. g[t] = f[t] /\ t \in SUBSET (1..n)
          BY <3>2
        <4>2. f[t] = Val(f, t)
          BY <4>1, <2>2
        <4> HIDE DEF g
        <4> QED
          BY <3>2, <4>1, <4>2
      <3>3. CASE n + 1 \notin t /\ t # {}
        <4>1. g[t] = f[t] /\ t \in SUBSET (1..n)
          BY <3>3
        <4>2. f[t] = Val(f, t)
          BY <4>1, <2>2
        <4>3. t \ {Max(t)} \in D /\ n + 1 \notin t \ {Max(t)}
          BY <3>3
        <4>4. g[t \ {Max(t)}] = f[t \ {Max(t)}]
          BY <4>3
        <4> HIDE DEF g
        <4> QED
          BY <3>3, <4>1, <4>2, <4>4
      <3> QED
        BY <3>1, <3>2, <3>3
    <2>4. g = [t \in D |-> Val(g, t)]
      <3>1. DOMAIN g = D /\ g = [t \in D |-> g[t]]
        OBVIOUS
      <3> HIDE DEF g, D, Val
      <3> QED
        BY <2>3, <3>1
    <2>5. Def(n + 1)
      <3> HIDE DEF g, Val
      <3> QED
        BY <2>4
    <2> HIDE DEF Def
    <2> QED
      BY <2>5
  <1>3. \A n \in Nat : n \in B
    <2> HIDE DEF B
    <2> QED
      BY <1>1, <1>2, SetInduction
  <1>4. Len(s) \in Nat /\ DOMAIN s = 1..Len(s)
    OBVIOUS
  <1>5. Def(Len(s))
    <2> HIDE DEF Def
    <2> QED
      BY <1>3, <1>4
  <1> QED
    BY <1>4, <1>5, Zenon DEF PushFold

(* PushAll adds every element of s to a channel whose ring has room. *)
LEMMA PushAllAdds ==
    ASSUME NEW S, NEW s \in Seq(S), NEW c \in Chan(S), Whole(c),
           Len(Contents(c)) + Len(s) <= SpscLen
    PROVE  /\ PushAll(c, s) \in Chan(S) /\ Whole(PushAll(c, s))
           /\ PushAll(c, s).cached = c.cached
           /\ Len(Contents(PushAll(c, s))) = Len(Contents(c)) + Len(s)
           /\ \A x : Count(x, Contents(PushAll(c, s))) = Count(x, Contents(c)) + Count(x, s)
  <1> DEFINE f == CHOOSE g : PushFold(g, c, s)
             Added(d, k) ==
                /\ d \in Chan(S) /\ Whole(d) /\ d.cached = c.cached
                /\ Len(Contents(d)) = Len(Contents(c)) + k
                /\ \A x : Count(x, Contents(d)) = Count(x, Contents(c)) + Count(x, SubSeq(s, 1, k))
             B == {k \in Nat : k <= Len(s) => Added(f[1..k], k)}
  <1>1. PushFold(f, c, s)
    BY PushFoldExists
  <1>2. PushAll(c, s) = f[DOMAIN s]
    BY PushAllIs
  <1>3. \A t \in SUBSET (DOMAIN s) :
           f[t] = IF t = {} THEN c ELSE Push(f[t \ {Max(t)}], s[Max(t)])
    <2> DEFINE h == [t \in SUBSET (DOMAIN s) |->
                        IF t = {} THEN c ELSE Push(f[t \ {Max(t)}], s[Max(t)])]
    <2> HIDE DEF f
    <2>1. f = h
      BY <1>1, Zenon DEF PushFold
    <2>2. \A t \in SUBSET (DOMAIN s) :
             h[t] = IF t = {} THEN c ELSE Push(f[t \ {Max(t)}], s[Max(t)])
      BY Zenon
    <2> HIDE DEF h
    <2> QED
      BY <2>1, <2>2, Zenon
  <1> HIDE DEF f
  <1>4. Len(Contents(c)) \in Nat /\ Len(s) \in Nat /\ DOMAIN s = 1..Len(s)
    BY RingLength
  <1>5. 0 \in B
    <2>1. f[1..0] = c
      <3>1. 1..0 = {} /\ {} \in SUBSET (DOMAIN s)
        OBVIOUS
      <3> QED
        BY <1>3, <3>1
    <2>2. SubSeq(s, 1, 0) = <<>>
      OBVIOUS
    <2>3. ASSUME NEW x PROVE Count(x, Contents(c)) = Count(x, Contents(c)) + Count(x, <<>>)
      <3>1. Contents(c) \in Seq(S) /\ Count(x, <<>>) = 0
        BY CountEmpty, ContentsSums
      <3>2. Count(x, Contents(c)) \in Nat
        BY <3>1, CountType
      <3> QED
        BY <3>1, <3>2
    <2>4. Len(Contents(c)) = Len(Contents(c)) + 0
      BY <1>4
    <2>5. Added(c, 0)
      BY <2>2, <2>3, <2>4
    <2> HIDE DEF Added
    <2> QED
      BY <2>1, <2>5
  <1>6. ASSUME NEW k \in Nat, k \in B PROVE k + 1 \in B
    <2> SUFFICES ASSUME k + 1 <= Len(s) PROVE Added(f[1..(k + 1)], k + 1)
      <3> HIDE DEF Added
      <3> QED
        OBVIOUS
    <2>1. PICK d : d = f[1..k]
      OBVIOUS
    <2>2. Added(d, k)
      <3> HIDE DEF Added
      <3> QED
        BY <1>4, <1>6, <2>1
    <2>3. PICK e \in S : e = s[k + 1]
      BY <1>4
    <2>4. f[1..(k + 1)] = Push(d, e)
      <3>1. /\ 1..(k + 1) \in SUBSET (DOMAIN s) /\ k + 1 \in 1..(k + 1)
            /\ 1..(k + 1) # {} /\ (1..(k + 1)) \ {k + 1} = 1..k
        <4>1. PICK l \in Nat : l = Len(s)
          BY <1>4
        <4>2. 1..(k + 1) \in SUBSET (1..l)
          BY <4>1
        <4>3. k + 1 \in 1..(k + 1)
          OBVIOUS
        <4>4. (1..(k + 1)) \ {k + 1} = 1..k
          OBVIOUS
        <4> QED
          BY <1>4, <4>1, <4>2, <4>3, <4>4
      <3>2. PICK t \in SUBSET (DOMAIN s) : t = 1..(k + 1)
        BY <3>1
      <3>3. Max(t) = k + 1
        BY <3>1, <3>2, MaxIsLast
      <3>4. f[t] = Push(f[t \ {k + 1}], s[k + 1])
        BY <1>3, <3>1, <3>2, <3>3
      <3>5. f[t \ {k + 1}] = d
        BY <2>1, <3>1, <3>2
      <3> QED
        BY <2>3, <3>2, <3>4, <3>5
    <2>5. Len(Contents(d)) <= SpscLen
      BY <1>4, <2>2, ChannelAssumption
    <2>6. /\ Push(d, e) \in Chan(S) /\ Whole(Push(d, e))
          /\ Push(d, e).cached = d.cached
          /\ Len(Contents(Push(d, e))) = Len(Contents(d)) + 1
          /\ \A x : Count(x, Contents(Push(d, e))) =
                        Count(x, Contents(d)) + (IF e = x THEN 1 ELSE 0)
      BY <2>2, <2>5, PushAdds
    <2>7. PICK u \in Seq(S) : u = SubSeq(s, 1, k)
      <3>1. SubSeq(s, 1, k) \in Seq(S)
        BY <1>4
      <3> QED
        BY <3>1
    <2>8. SubSeq(s, 1, k + 1) = Append(u, e)
      BY <1>4, <2>3, <2>7
    <2>9. ASSUME NEW x
          PROVE  Count(x, Contents(Push(d, e)))
                   = Count(x, Contents(c)) + Count(x, SubSeq(s, 1, k + 1))
      <3>1. Count(x, Contents(Push(d, e))) = Count(x, Contents(d)) + (IF e = x THEN 1 ELSE 0)
        BY <2>6
      <3>2. Count(x, Contents(d)) = Count(x, Contents(c)) + Count(x, u)
        BY <2>2, <2>7
      <3>3. Count(x, Append(u, e)) = Count(x, u) + (IF e = x THEN 1 ELSE 0)
        BY CountAppend
      <3>4. Count(x, u) \in Nat /\ Count(x, Contents(c)) \in Nat
        <4>1. Contents(c) \in Seq(S)
          BY ContentsSums
        <4> QED
          BY <4>1, CountType
      <3>5. Count(x, Contents(Push(d, e))) = Count(x, Contents(c)) + Count(x, Append(u, e))
        BY <3>1, <3>2, <3>3, <3>4
      <3> QED
        BY <3>5, <2>8
    <2>10. Len(Contents(Push(d, e))) = Len(Contents(c)) + (k + 1)
      BY <1>4, <2>2, <2>6
    <2>11. Push(d, e).cached = c.cached
      BY <2>2, <2>6
    <2> QED
      BY <2>4, <2>6, <2>9, <2>10, <2>11
  <1>7. \A k \in Nat : k \in B
    <2> HIDE DEF B
    <2> QED
      BY <1>5, <1>6, SetInduction
  <1>8. Added(f[1..Len(s)], Len(s))
    <2> HIDE DEF Added
    <2> QED
      BY <1>4, <1>7
  <1>9. SubSeq(s, 1, Len(s)) = s
    BY SubSeqFull
  <1> QED
    BY <1>2, <1>4, <1>8, <1>9
-----------------------------------------------------------------------------
(* PushAll as the sequence of its steps. *)
LEMMA PushAllSteps ==
    ASSUME NEW S, NEW s \in Seq(S), NEW c
    PROVE  \E g : /\ g[0] = c /\ g[Len(s)] = PushAll(c, s)
                  /\ \A k \in 0..(Len(s) - 1) : g[k + 1] = Push(g[k], s[k + 1])
  <1> DEFINE f == CHOOSE h : PushFold(h, c, s)
             l == Len(s)
             g == [k \in 0..l |-> f[1..k]]
  <1>1. PushFold(f, c, s)
    BY PushFoldExists
  <1>2. PushAll(c, s) = f[DOMAIN s]
    BY PushAllIs
  <1>3. \A t \in SUBSET (DOMAIN s) :
           f[t] = IF t = {} THEN c ELSE Push(f[t \ {Max(t)}], s[Max(t)])
    <2> DEFINE h == [t \in SUBSET (DOMAIN s) |->
                        IF t = {} THEN c ELSE Push(f[t \ {Max(t)}], s[Max(t)])]
    <2> HIDE DEF f
    <2>1. f = h
      BY <1>1, Zenon DEF PushFold
    <2>2. \A t \in SUBSET (DOMAIN s) :
             h[t] = IF t = {} THEN c ELSE Push(f[t \ {Max(t)}], s[Max(t)])
      BY Zenon
    <2> HIDE DEF h
    <2> QED
      BY <2>1, <2>2, Zenon
  <1>4. l \in Nat /\ DOMAIN s = 1..l
    OBVIOUS
  <1> HIDE DEF f, l
  <1>5. \A k \in 0..l : g[k] = f[1..k]
    OBVIOUS
  <1> HIDE DEF g
  <1>6. g[0] = c
    <2>1. 1..0 = {} /\ {} \in SUBSET (DOMAIN s) /\ 0 \in 0..l
      BY <1>4
    <2> QED
      BY <1>3, <1>5, <2>1
  <1>7. ASSUME NEW k \in 0..(l - 1) PROVE g[k + 1] = Push(g[k], s[k + 1])
    <2>1. k \in Nat /\ k \in 0..l /\ k + 1 \in 0..l
      BY <1>4
    <2>2. 1..(k + 1) \in SUBSET (1..l)
      BY <1>4, <2>1
    <2>3. k + 1 \in 1..(k + 1) /\ (1..(k + 1)) \ {k + 1} = 1..k
      BY <2>1
    <2>4. PICK t \in SUBSET (DOMAIN s) : t = 1..(k + 1)
      BY <1>4, <2>2
    <2>5. Max(t) = k + 1
      BY <2>1, <2>3, <2>4, MaxIsLast
    <2>6. f[t] = Push(f[t \ {k + 1}], s[k + 1])
      BY <1>3, <2>3, <2>4, <2>5
    <2>7. f[t \ {k + 1}] = g[k] /\ f[t] = g[k + 1]
      BY <1>5, <2>1, <2>3, <2>4
    <2> QED
      BY <2>6, <2>7
  <1>8. g[l] = PushAll(c, s)
    BY <1>2, <1>4, <1>5
  <1> QED
    BY <1>6, <1>7, <1>8 DEF l

(* Producer::flush, whatever the ring and the batch hold. *)
LEMMA FlushType ==
    ASSUME NEW S, NEW c \in Chan(S), Whole(c)
    PROVE  Flush(c) \in Chan(S) /\ Whole(Flush(c)) /\ Flush(c).batch = <<>>
  <1>1. PICK b \in Seq(S), r \in Seq(Seq(S)), d \in Seq(S) :
           b = c.batch /\ r = c.ring /\ d = c.cached
    BY DEF Chan
  <1>2. <<>> \in Seq(S) /\ Append(r, b) \in Seq(Seq(S))
    OBVIOUS
  <1>3. CASE Len(b) = Batch /\ Len(r) < SpscLen
    BY <1>1, <1>3, FlushFull
  <1>4. CASE ~(Len(b) = Batch /\ Len(r) < SpscLen)
    <2>1. Flush(c) = WithBatchRing(c, <<>>, r)
      BY <1>1, <1>4 DEF Flush, WithBatchRing
    <2>2. IsChan(WithBatchRing(c, <<>>, r), S, <<>>, r, d)
      BY <1>1, <1>2, ChanBatchRing
    <2>3. /\ Flush(c) \in Chan(S) /\ Flush(c).batch = <<>>
          /\ Flush(c).ring = c.ring /\ Flush(c).cached = c.cached
      BY <1>1, <2>1, <2>2 DEF IsChan
    <2>4. Len(Flush(c).batch) <= Batch
      BY <2>3, ChannelAssumption
    <2> QED
      BY <2>3, <2>4 DEF Whole
  <1> QED
    BY <1>3, <1>4

(* A push leaves a channel with groups of the right size. *)
LEMMA PushType ==
    ASSUME NEW S, NEW c \in Chan(S), Whole(c), NEW e \in S
    PROVE  Push(c, e) \in Chan(S) /\ Whole(Push(c, e))
  <1>1. PICK d \in Chan(S) :
           Whole(d) /\ Len(d.batch) < Batch /\ Push(c, e) = WithBatch(d, Append(d.batch, e))
    <2>1. CASE Len(c.batch) < Batch
      <3>1. Push(c, e) = WithBatch(c, Append(c.batch, e))
        BY <2>1 DEF Push, WithBatch
      <3> QED
        BY <2>1, <3>1
    <2>2. CASE ~(Len(c.batch) < Batch)
      <3>1. Push(c, e) = WithBatch(Flush(c), Append(Flush(c).batch, e))
        BY <2>2 DEF Push, WithBatch
      <3>2. Flush(c) \in Chan(S) /\ Whole(Flush(c)) /\ Flush(c).batch = <<>>
        BY FlushType
      <3>3. Len(Flush(c).batch) < Batch
        BY <3>2, ChannelAssumption
      <3> QED
        BY <3>1, <3>2, <3>3
    <2> QED
      BY <2>1, <2>2
  <1>2. PICK b \in Seq(S) : b = d.batch
    BY DEF Chan
  <1>3. Append(b, e) \in Seq(S) /\ Len(Append(b, e)) = Len(b) + 1
    OBVIOUS
  <1>4. IsChan(Push(c, e), S, Append(b, e), d.ring, d.cached)
    BY <1>1, <1>2, <1>3, ChanBatch
  <1>5. Len(Append(b, e)) <= Batch
    BY <1>1, <1>2, <1>3, ChannelAssumption
  <1> QED
    BY <1>1, <1>4, <1>5 DEF IsChan, Whole

(* So does a sequence of pushes. *)
LEMMA PushAllType ==
    ASSUME NEW S, NEW s \in Seq(S), NEW c \in Chan(S), Whole(c)
    PROVE  PushAll(c, s) \in Chan(S) /\ Whole(PushAll(c, s))
  <1>1. PICK g : /\ g[0] = c /\ g[Len(s)] = PushAll(c, s)
                 /\ \A k \in 0..(Len(s) - 1) : g[k + 1] = Push(g[k], s[k + 1])
    BY PushAllSteps
  <1>2. PICK l \in Nat : l = Len(s)
    OBVIOUS
  <1> DEFINE Good(d) == d \in Chan(S) /\ Whole(d)
             B == {k \in Nat : k <= l => Good(g[k])}
  <1>3. 0 \in B
    BY <1>1
  <1>4. ASSUME NEW k \in Nat, k \in B PROVE k + 1 \in B
    <2> SUFFICES ASSUME k + 1 <= l PROVE Good(g[k + 1])
      <3> HIDE DEF Good
      <3> QED
        OBVIOUS
    <2>1. k <= l /\ k \in 0..(Len(s) - 1) /\ k + 1 \in 1..Len(s)
      BY <1>2
    <2>2. Good(g[k])
      <3> HIDE DEF Good
      <3> QED
        BY <1>4, <2>1
    <2>3. s[k + 1] \in S
      BY <2>1
    <2>4. g[k + 1] = Push(g[k], s[k + 1])
      BY <1>1, <2>1
    <2> QED
      BY <2>2, <2>3, <2>4, PushType
  <1>5. \A k \in Nat : k \in B
    <2> HIDE DEF B
    <2> QED
      BY <1>3, <1>4, SetInduction
  <1>6. Good(g[l])
    <2> HIDE DEF Good
    <2> QED
      BY <1>5
  <1> QED
    BY <1>1, <1>2, <1>6

(* What a flush discards: an incomplete batch, if the ring has room. *)
LEMMA FlushLoses ==
    ASSUME NEW S, NEW c \in Chan(S), Whole(c), Len(Contents(c)) <= SpscLen
    PROVE  \E b \in Seq(S) :
              /\ Len(b) < Batch
              /\ Len(c.batch) \in {0, Batch} => b = <<>>
              /\ Len(Contents(Flush(c))) <= Len(Contents(c))
              /\ Flush(c).cached = c.cached
              /\ \A x : Count(x, Contents(Flush(c))) + Count(x, b) = Count(x, Contents(c))
  <1>1. PICK b \in Seq(S), r \in Seq(Seq(S)), d \in Seq(S) :
           b = c.batch /\ r = c.ring /\ d = c.cached
    BY DEF Chan
  <1>2. <<>> \in Seq(S)
    OBVIOUS
  <1>3. Len(b) \in Nat /\ Len(b) <= Batch /\ Len(r) \in Nat
    BY <1>1 DEF Whole
  <1>4. CASE Len(b) = Batch
    <2>1. Len(r) < SpscLen
      <3>1. Len(r) + Len(b) + Len(d) <= Len(Contents(c)) /\ Len(Contents(c)) \in Nat
        BY <1>1, RingLength
      <3>2. PICK i \in Nat, j \in Nat, k \in Nat, l \in Nat :
               i = Len(r) /\ j = Len(b) /\ k = Len(d) /\ l = Len(Contents(c))
        BY <3>1
      <3> QED
        BY <1>4, <3>1, <3>2, ChannelAssumption
    <2>2. /\ Flush(c).cached = c.cached
          /\ Len(Contents(Flush(c))) = Len(Contents(c))
          /\ \A x : Count(x, Contents(Flush(c))) = Count(x, Contents(c))
      BY <1>1, <1>4, <2>1, FlushFull
    <2>3. Contents(c) \in Seq(S)
      BY ContentsSums
    <2>4. ASSUME NEW x
          PROVE  Count(x, Contents(Flush(c))) + Count(x, <<>>) = Count(x, Contents(c))
      <3>1. Count(x, Contents(c)) \in Nat /\ Count(x, <<>>) = 0
        BY <2>3, CountType, CountEmpty
      <3> QED
        BY <2>2, <3>1
    <2>5. Len(<<>>) < Batch
      BY ChannelAssumption
    <2>6. Len(Contents(c)) \in Nat
      BY <2>3
    <2> WITNESS <<>> \in Seq(S)
    <2> QED
      BY <2>2, <2>4, <2>5, <2>6
  <1>5. CASE Len(b) # Batch
    <2>1. Flush(c) = WithBatchRing(c, <<>>, r)
      BY <1>1, <1>5 DEF Flush, WithBatchRing
    <2>2. PICK v \in Chan(S) : v = Flush(c) /\ IsChan(v, S, <<>>, r, d)
      <3>1. IsChan(WithBatchRing(c, <<>>, r), S, <<>>, r, d)
        BY <1>1, <1>2, ChanBatchRing
      <3> QED
        BY <2>1, <3>1 DEF IsChan
    <2>3. v.batch = <<>> /\ v.ring = r /\ v.cached = d
      BY <2>2 DEF IsChan
    <2>4. PICK w \in Seq(S) : w = FlattenSeq(r)
      BY FlattenType
    <2>5. /\ Len(Contents(v)) = Len(<<>>) + Len(w) + Len(d)
          /\ Len(Contents(c)) = Len(b) + Len(w) + Len(d)
      BY <1>1, <2>3, <2>4, ContentsSums
    <2>6. Len(Contents(v)) <= Len(Contents(c))
      BY <2>5
    <2>7. ASSUME NEW x PROVE Count(x, Contents(v)) + Count(x, b) = Count(x, Contents(c))
      <3>1. /\ Count(x, Contents(v)) = Count(x, <<>>) + Count(x, w) + Count(x, d)
            /\ Count(x, Contents(c)) = Count(x, b) + Count(x, w) + Count(x, d)
        BY <1>1, <2>3, <2>4, ContentsSums
      <3>2. Count(x, b) \in Nat /\ Count(x, w) \in Nat /\ Count(x, d) \in Nat
        BY CountType
      <3>3. Count(x, <<>>) = 0
        BY CountEmpty
      <3> QED
        BY <3>1, <3>2, <3>3
    <2>8. Len(b) < Batch
      BY <1>3, <1>5, ChannelAssumption
    <2>9. Len(b) \in {0, Batch} => b = <<>>
      BY <1>5
    <2> WITNESS b \in Seq(S)
    <2> QED
      BY <1>1, <2>2, <2>3, <2>6, <2>7, <2>8, <2>9
  <1> QED
    BY <1>4, <1>5
-----------------------------------------------------------------------------
(* Consumer::pop. *)
LEMMA ReadyKeeps ==
    ASSUME NEW S, NEW c \in Chan(S), Whole(c)
    PROVE  /\ Ready(c) \in Chan(S) /\ Whole(Ready(c))
           /\ Len(Contents(Ready(c))) = Len(Contents(c))
           /\ \A x : Count(x, Contents(Ready(c))) = Count(x, Contents(c))
           /\ Batch <= Cache /\ Ready(c).cached = <<>> => c.ring = <<>> /\ c.cached = <<>>
  <1>1. CASE c.cached = <<>>
    <2>1. Ready(c) = Sync(c)
      BY <1>1 DEF Ready
    <2> QED
      BY <2>1, SyncKeeps
  <1>2. CASE c.cached # <<>>
    <2>1. Ready(c) = c
      BY <1>2 DEF Ready
    <2> QED
      BY <1>2, <2>1
  <1> QED
    BY <1>1, <1>2

(* A pop takes exactly one element, the last of the cache. *)
LEMMA PopTakes ==
    ASSUME NEW S, NEW c \in Chan(S), Whole(c), HasNext(c)
    PROVE  /\ Pop(c) \in Chan(S) /\ Whole(Pop(c)) /\ NextElem(c) \in S
           /\ Len(Contents(c)) = Len(Contents(Pop(c))) + 1
           /\ \A x : Count(x, Contents(c))
                       = Count(x, Contents(Pop(c))) + (IF NextElem(c) = x THEN 1 ELSE 0)
  <1>1. PICK r \in Chan(S) :
           /\ r = Ready(c) /\ Whole(r) /\ Len(Contents(r)) = Len(Contents(c))
           /\ \A x : Count(x, Contents(r)) = Count(x, Contents(c))
    BY ReadyKeeps
  <1>2. PICK b \in Seq(S), g \in Seq(Seq(S)), d \in Seq(S) :
           b = r.batch /\ g = r.ring /\ d = r.cached
    BY DEF Chan
  <1>3. d # <<>>
    BY <1>1, <1>2 DEF HasNext
  <1>4. /\ Front(d) \in Seq(S) /\ Last(d) \in S /\ Len(Front(d)) = Len(d) - 1
        /\ Len(d) \in Nat \ {0}
        /\ \A x : Count(x, d) = Count(x, Front(d)) + (IF Last(d) = x THEN 1 ELSE 0)
    BY <1>3, FrontAndLast
  <1>5. PICK f \in Seq(S) : f = Front(d)
    BY <1>4
  <1>6. NextElem(c) = Last(d)
    BY <1>1, <1>2 DEF NextElem
  <1>7. PICK v \in Chan(S) : v = Pop(c) /\ v.batch = b /\ v.ring = g /\ v.cached = f
    <2>1. Pop(c) = WithCached(r, f)
      BY <1>1, <1>2, <1>5 DEF Pop, WithCached
    <2>2. IsChan(WithCached(r, f), S, b, g, f)
      BY <1>2, ChanCached
    <2> QED
      BY <2>1, <2>2 DEF IsChan
  <1>8. Len(f) <= Cache /\ Len(f) <= Len(d)
    BY <1>1, <1>2, <1>4, <1>5, ChannelAssumption DEF Whole
  <1>9. Whole(v)
    BY <1>1, <1>2, <1>7, <1>8 DEF Whole
  <1>10. PICK w \in Seq(S) : w = FlattenSeq(g)
    BY FlattenType
  <1>11. Len(Contents(r)) = Len(Contents(v)) + 1
    <2>1. /\ Len(Contents(v)) = Len(b) + Len(w) + Len(f)
          /\ Len(Contents(r)) = Len(b) + Len(w) + Len(d)
      BY <1>2, <1>7, <1>10, ContentsSums
    <2>2. Len(b) \in Nat /\ Len(w) \in Nat /\ Len(f) \in Nat /\ Len(d) = Len(f) + 1
      BY <1>4, <1>5
    <2> QED
      BY <2>1, <2>2
  <1>12. ASSUME NEW x
         PROVE  Count(x, Contents(c))
                  = Count(x, Contents(v)) + (IF NextElem(c) = x THEN 1 ELSE 0)
    <2>1. /\ Count(x, Contents(v)) = Count(x, b) + Count(x, w) + Count(x, f)
          /\ Count(x, Contents(r)) = Count(x, b) + Count(x, w) + Count(x, d)
      BY <1>2, <1>7, <1>10, ContentsSums
    <2>2. Count(x, d) = Count(x, f) + (IF Last(d) = x THEN 1 ELSE 0)
      BY <1>4, <1>5
    <2>3. Count(x, b) \in Nat /\ Count(x, w) \in Nat /\ Count(x, f) \in Nat
      BY CountType
    <2>4. Count(x, Contents(r)) = Count(x, Contents(c))
      BY <1>1
    <2> QED
      BY <1>6, <2>1, <2>2, <2>3, <2>4
  <1> QED
    BY <1>1, <1>4, <1>6, <1>7, <1>9, <1>11, <1>12
-----------------------------------------------------------------------------
(* PopMany: the function that its fold chooses, and its steps. *)
PopFold(f, b, n) ==
    f = [t \in SUBSET (DOMAIN [k \in 1..n |-> k]) |->
            IF t = {} THEN b ELSE PopNext(f[t \ {Max(t)}])]

(* The definition of PopMany with its fold expanded. *)
LEMMA PopManyIs ==
    ASSUME NEW c, NEW n
    PROVE  PopMany(c, n) =
              (CHOOSE f : PopFold(f, [chan |-> c, got |-> <<>>], n))[DOMAIN [k \in 1..n |-> k]]
  BY DEF PopMany, FoldLeft, MapThenFoldSet, PopFold

(* There is a function as the fold of PopMany describes it. *)
LEMMA PopFoldExists ==
    ASSUME NEW b, NEW l \in Nat
    PROVE  \E f : PopFold(f, b, l)
  <1> DEFINE Val(f, t) == IF t = {} THEN b ELSE PopNext(f[t \ {Max(t)}])
             Def(n) == \E f : f = [t \in SUBSET (1..n) |-> Val(f, t)]
             B == {n \in Nat : Def(n)}
  <1>1. 0 \in B
    <2> DEFINE f == [t \in SUBSET (1..0) |-> b]
    <2>1. \A t \in SUBSET (1..0) : Val(f, t) = b
      OBVIOUS
    <2>2. f = [t \in SUBSET (1..0) |-> Val(f, t)]
      BY <2>1
    <2>3. Def(0)
      <3> HIDE DEF f, Val
      <3> QED
        BY <2>2
    <2> QED
      BY <2>3
  <1>2. ASSUME NEW n \in Nat, n \in B PROVE n + 1 \in B
    <2>1. PICK f : f = [t \in SUBSET (1..n) |-> Val(f, t)]
      BY <1>2
    <2> DEFINE D == SUBSET (1..(n + 1))
               g == [t \in D |-> IF n + 1 \in t THEN PopNext(f[t \ {n + 1}]) ELSE f[t]]
    <2>2. ASSUME NEW t \in SUBSET (1..n) PROVE f[t] = Val(f, t)
      <3> HIDE DEF Val
      <3> QED
        BY <2>1
    <2>3. ASSUME NEW t \in D PROVE g[t] = Val(g, t)
      <3>1. CASE n + 1 \in t
        <4>1. Max(t) = n + 1
          BY <3>1, MaxIsLast
        <4>2. t \ {n + 1} \in D /\ n + 1 \notin t \ {n + 1}
          OBVIOUS
        <4>3. g[t \ {n + 1}] = f[t \ {n + 1}]
          BY <4>2
        <4>4. g[t] = PopNext(f[t \ {n + 1}])
          BY <3>1
        <4> HIDE DEF g
        <4> QED
          BY <3>1, <4>1, <4>3, <4>4
      <3>2. CASE n + 1 \notin t /\ t = {}
        <4>1. g[t] = f[t] /\ t \in SUBSET (1..n)
          BY <3>2
        <4>2. f[t] = Val(f, t)
          BY <4>1, <2>2
        <4> HIDE DEF g
        <4> QED
          BY <3>2, <4>1, <4>2
      <3>3. CASE n + 1 \notin t /\ t # {}
        <4>1. g[t] = f[t] /\ t \in SUBSET (1..n)
          BY <3>3
        <4>2. f[t] = Val(f, t)
          BY <4>1, <2>2
        <4>3. t \ {Max(t)} \in D /\ n + 1 \notin t \ {Max(t)}
          BY <3>3
        <4>4. g[t \ {Max(t)}] = f[t \ {Max(t)}]
          BY <4>3
        <4> HIDE DEF g
        <4> QED
          BY <3>3, <4>1, <4>2, <4>4
      <3> QED
        BY <3>1, <3>2, <3>3
    <2>4. g = [t \in D |-> Val(g, t)]
      <3>1. DOMAIN g = D /\ g = [t \in D |-> g[t]]
        OBVIOUS
      <3> HIDE DEF g, D, Val
      <3> QED
        BY <2>3, <3>1
    <2>5. Def(n + 1)
      <3> HIDE DEF g, Val
      <3> QED
        BY <2>4
    <2> HIDE DEF Def
    <2> QED
      BY <2>5
  <1>3. \A n \in Nat : n \in B
    <2> HIDE DEF B
    <2> QED
      BY <1>1, <1>2, SetInduction
  <1>4. DOMAIN [k \in 1..l |-> k] = 1..l
    OBVIOUS
  <1>5. Def(l)
    <2> HIDE DEF Def
    <2> QED
      BY <1>3
  <1> QED
    BY <1>4, <1>5, Zenon DEF PopFold

(* PopMany as the sequence of its pops. *)
LEMMA PopManySteps ==
    ASSUME NEW c, NEW l \in Nat
    PROVE  \E g : /\ g[0] = [chan |-> c, got |-> <<>>] /\ g[l] = PopMany(c, l)
                  /\ \A k \in 0..(l - 1) : g[k + 1] = PopNext(g[k])
  <1> DEFINE b == [chan |-> c, got |-> <<>>]
             D == DOMAIN [k \in 1..l |-> k]
             f == CHOOSE h : PopFold(h, b, l)
             g == [k \in 0..l |-> f[1..k]]
  <1>1. PopFold(f, b, l)
    <2> HIDE DEF b
    <2> QED
      BY PopFoldExists
  <1>2. PopMany(c, l) = f[D]
    BY PopManyIs
  <1>3. \A t \in SUBSET D : f[t] = IF t = {} THEN b ELSE PopNext(f[t \ {Max(t)}])
    <2> DEFINE h == [t \in SUBSET D |-> IF t = {} THEN b ELSE PopNext(f[t \ {Max(t)}])]
    <2> HIDE DEF f, b
    <2>1. f = h
      BY <1>1, Zenon DEF PopFold
    <2>2. \A t \in SUBSET D : h[t] = IF t = {} THEN b ELSE PopNext(f[t \ {Max(t)}])
      BY Zenon
    <2> HIDE DEF h, D
    <2> QED
      BY <2>1, <2>2, Zenon
  <1>4. D = 1..l
    OBVIOUS
  <1> HIDE DEF f, b, D
  <1>5. \A k \in 0..l : g[k] = f[1..k]
    OBVIOUS
  <1> HIDE DEF g
  <1>6. g[0] = b
    <2>1. 1..0 = {} /\ {} \in SUBSET D /\ 0 \in 0..l
      OBVIOUS
    <2> QED
      BY <1>3, <1>5, <2>1
  <1>7. ASSUME NEW k \in 0..(l - 1) PROVE g[k + 1] = PopNext(g[k])
    <2>1. k \in Nat /\ k \in 0..l /\ k + 1 \in 0..l
      OBVIOUS
    <2>2. 1..(k + 1) \in SUBSET (1..l)
      BY <2>1
    <2>3. k + 1 \in 1..(k + 1) /\ (1..(k + 1)) \ {k + 1} = 1..k
      BY <2>1
    <2>4. PICK t \in SUBSET D : t = 1..(k + 1)
      BY <1>4, <2>2
    <2>5. Max(t) = k + 1
      BY <2>1, <2>3, <2>4, MaxIsLast
    <2>6. f[t] = PopNext(f[t \ {k + 1}])
      BY <1>3, <2>3, <2>4, <2>5
    <2>7. f[t \ {k + 1}] = g[k] /\ f[t] = g[k + 1]
      BY <1>5, <2>1, <2>3, <2>4
    <2> QED
      BY <2>6, <2>7
  <1>8. g[l] = PopMany(c, l)
    BY <1>2, <1>4, <1>5
  <1> QED
    BY <1>6, <1>7, <1>8 DEF b

(* The elements n pops return leave the channel. *)
Popped(p, c, S) ==
    /\ p.chan \in Chan(S) /\ Whole(p.chan) /\ p.got \in Seq(S)
    /\ Len(Contents(c)) = Len(Contents(p.chan)) + Len(p.got)
    /\ \A x : Count(x, Contents(c)) = Count(x, Contents(p.chan)) + Count(x, p.got)

(* One pop more. *)
LEMMA PopNextTakes ==
    ASSUME NEW S, NEW c \in Chan(S), NEW p, Popped(p, c, S)
    PROVE  /\ Popped(PopNext(p), c, S) /\ Len(PopNext(p).got) <= Len(p.got) + 1
           /\ \/ HasNext(p.chan) /\ Len(PopNext(p).got) = Len(p.got) + 1
              \/ ~HasNext(p.chan) /\ PopNext(p) = p
  <1>1. CASE ~HasNext(p.chan)
    <2>1. PopNext(p) = p
      BY <1>1 DEF PopNext
    <2>2. Len(p.got) <= Len(p.got) + 1
      BY DEF Popped
    <2> QED
      BY <1>1, <2>1, <2>2
  <1>2. CASE HasNext(p.chan)
    <2>1. PICK d \in Chan(S), s \in Seq(S) : d = p.chan /\ s = p.got
      BY DEF Popped
    <2>2. /\ Pop(d) \in Chan(S) /\ Whole(Pop(d)) /\ NextElem(d) \in S
          /\ Len(Contents(d)) = Len(Contents(Pop(d))) + 1
          /\ \A x : Count(x, Contents(d))
                      = Count(x, Contents(Pop(d))) + (IF NextElem(d) = x THEN 1 ELSE 0)
      BY <1>2, <2>1, PopTakes DEF Popped
    <2>3. PICK v \in Chan(S), e \in S : v = Pop(d) /\ e = NextElem(d)
      BY <2>2
    <2>4. PopNext(p).chan = v /\ PopNext(p).got = Append(s, e)
      BY <1>2, <2>1, <2>3 DEF PopNext
    <2>5. Append(s, e) \in Seq(S) /\ Len(Append(s, e)) = Len(s) + 1 /\ Len(s) \in Nat
      OBVIOUS
    <2>6. Len(Contents(c)) = Len(Contents(v)) + Len(Append(s, e))
      <3>1. PICK i \in Nat, j \in Nat, k \in Nat :
               i = Len(Contents(v)) /\ j = Len(Contents(d)) /\ k = Len(Contents(c))
        BY ContentsSums, LenProperties
      <3>2. j = i + 1 /\ k = j + Len(s)
        BY <2>1, <2>2, <2>3, <3>1 DEF Popped
      <3> QED
        BY <2>5, <3>1, <3>2
    <2>7. ASSUME NEW x
          PROVE  Count(x, Contents(c)) = Count(x, Contents(v)) + Count(x, Append(s, e))
      <3>1. Count(x, Contents(c)) = Count(x, Contents(d)) + Count(x, s)
        BY <2>1 DEF Popped
      <3>2. Count(x, Contents(d)) = Count(x, Contents(v)) + (IF e = x THEN 1 ELSE 0)
        BY <2>2, <2>3
      <3>3. Count(x, Append(s, e)) = Count(x, s) + (IF e = x THEN 1 ELSE 0)
        BY CountAppend
      <3>4. Count(x, s) \in Nat /\ Count(x, Contents(v)) \in Nat
        <4>1. Contents(v) \in Seq(S)
          BY ContentsSums
        <4> QED
          BY <4>1, CountType
      <3> QED
        BY <3>1, <3>2, <3>3, <3>4
    <2>8. Len(PopNext(p).got) = Len(p.got) + 1 /\ Len(PopNext(p).got) <= Len(p.got) + 1
      BY <2>1, <2>4, <2>5
    <2>9. Popped(PopNext(p), c, S)
      BY <2>2, <2>3, <2>4, <2>5, <2>6, <2>7 DEF Popped
    <2> QED
      BY <1>2, <2>8, <2>9
  <1> QED
    BY <1>1, <1>2

(* n pops return n elements, or all the consumer can reach. *)
LEMMA PopManyTakes ==
    ASSUME NEW S, NEW c \in Chan(S), Whole(c), NEW n \in Nat
    PROVE  /\ Popped(PopMany(c, n), c, S) /\ Len(PopMany(c, n).got) <= n
           /\ Len(PopMany(c, n).got) = n \/ ~HasNext(PopMany(c, n).chan)
  <1> DEFINE b == [chan |-> c, got |-> <<>>]
  <1>1. PICK g : /\ g[0] = b /\ g[n] = PopMany(c, n)
                 /\ \A k \in 0..(n - 1) : g[k + 1] = PopNext(g[k])
    BY PopManySteps
  <1> DEFINE Good(k) == /\ Popped(g[k], c, S) /\ Len(g[k].got) <= k
                        /\ Len(g[k].got) = k \/ ~HasNext(g[k].chan)
             B == {k \in Nat : k <= n => Good(k)}
  <1>2. 0 \in B
    <2>1. b.chan = c /\ b.got = <<>> /\ <<>> \in Seq(S) /\ Len(<<>>) = 0
      OBVIOUS
    <2>2. Contents(c) \in Seq(S)
      BY ContentsSums
    <2>3. Len(Contents(c)) = Len(Contents(c)) + Len(<<>>)
      BY <2>2
    <2>4. ASSUME NEW x PROVE Count(x, Contents(c)) = Count(x, Contents(c)) + Count(x, <<>>)
      <3>1. Count(x, Contents(c)) \in Nat /\ Count(x, <<>>) = 0
        BY <2>2, CountType, CountEmpty
      <3> QED
        BY <3>1
    <2> HIDE DEF b
    <2>5. Popped(b, c, S) /\ Len(b.got) <= 0 /\ Len(b.got) = 0
      BY <2>1, <2>3, <2>4 DEF Popped
    <2>6. Good(0)
      BY <1>1, <2>5
    <2> HIDE DEF Good
    <2> QED
      BY <2>6
  <1>3. ASSUME NEW k \in Nat, k \in B PROVE k + 1 \in B
    <2> SUFFICES ASSUME k + 1 <= n PROVE Good(k + 1)
      <3> HIDE DEF Good
      <3> QED
        OBVIOUS
    <2>1. k <= n /\ k \in 0..(n - 1)
      OBVIOUS
    <2>2. Good(k)
      <3> HIDE DEF Good
      <3> QED
        BY <1>3, <2>1
    <2>3. g[k + 1] = PopNext(g[k])
      BY <1>1, <2>1
    <2>4. PICK p : p = g[k]
      OBVIOUS
    <2>5. Popped(p, c, S) /\ Len(p.got) <= k /\ (Len(p.got) = k \/ ~HasNext(p.chan))
      BY <2>2, <2>4
    <2>6. /\ Popped(PopNext(p), c, S) /\ Len(PopNext(p).got) <= Len(p.got) + 1
          /\ \/ HasNext(p.chan) /\ Len(PopNext(p).got) = Len(p.got) + 1
             \/ ~HasNext(p.chan) /\ PopNext(p) = p
      BY <2>5, PopNextTakes
    <2>7. Len(PopNext(p).got) \in Nat /\ Len(p.got) \in Nat
      BY <2>5, <2>6 DEF Popped
    <2> QED
      BY <2>3, <2>4, <2>5, <2>6, <2>7
  <1>4. \A k \in Nat : k \in B
    <2> HIDE DEF B
    <2> QED
      BY <1>2, <1>3, SetInduction
  <1>5. Good(n)
    <2> HIDE DEF Good
    <2> QED
      BY <1>4
  <1> QED
    BY <1>1, <1>5
-----------------------------------------------------------------------------
(* The sum of a function's values, and the function behind its fold: sums  *)
(* of tk over sets.                                                        *)
SumOf(tk) == FoldFunction(+, 0, tk)
Some(t) == CHOOSE x \in t : TRUE
SumAt(g, tk, t) == IF t = {} THEN 0 ELSE tk[Some(t)] + g[t \ {Some(t)}]
SumFold(g, tk) == g = [t \in SUBSET (DOMAIN tk) |-> SumAt(g, tk, t)]

(* The definition of SumOf with its fold expanded. *)
LEMMA SumOfIs == ASSUME NEW tk PROVE SumOf(tk) = (CHOOSE g : SumFold(g, tk))[DOMAIN tk]
  BY DEF SumOf, FoldFunction, FoldFunctionOnSet, MapThenFoldSet, SumFold, SumAt, Some

(* The element a fold takes out of a set. *)
LEMMA SomeOf ==
    ASSUME NEW F, IsFiniteSet(F), NEW t \in SUBSET F, t # {}
    PROVE  /\ Some(t) \in t /\ Some(t) \in F /\ t \ {Some(t)} \in SUBSET F
           /\ Cardinality(t) \in Nat \ {0}
           /\ Cardinality(t \ {Some(t)}) = Cardinality(t) - 1
  <1>1. Some(t) \in t
    BY DEF Some
  <1>2. IsFiniteSet(t)
    BY FS_Subset
  <1>3. Cardinality(t) \in Nat /\ Cardinality(t) # 0
    BY <1>2, FS_CardinalityType, FS_EmptySet
  <1>4. Cardinality(t \ {Some(t)}) = Cardinality(t) - 1
    BY <1>1, <1>2, FS_RemoveElement
  <1> QED
    BY <1>1, <1>3, <1>4

SumUpTo(g, tk, F, n) ==
    g \in [SUBSET F -> Nat] /\ \A t \in SUBSET F : Cardinality(t) <= n => g[t] = SumAt(g, tk, t)

(* A sum over sets of n elements extends to n + 1. *)
LEMMA SumExtends ==
    ASSUME NEW F, IsFiniteSet(F), NEW tk \in [F -> Nat], NEW n \in Nat, NEW f, SumUpTo(f, tk, F, n)
    PROVE  \E g : SumUpTo(g, tk, F, n + 1)
  <1> DEFINE g == [t \in SUBSET F |-> IF Cardinality(t) <= n THEN f[t] ELSE SumAt(f, tk, t)]
  <1>1. f \in [SUBSET F -> Nat]
    BY DEF SumUpTo
  <1>2. ASSUME NEW t \in SUBSET F PROVE SumAt(f, tk, t) \in Nat
    <2>1. CASE t = {}
      BY <2>1 DEF SumAt
    <2>2. CASE t # {}
      <3>1. Some(t) \in F /\ t \ {Some(t)} \in SUBSET F
        BY <2>2, SomeOf
      <3>2. tk[Some(t)] \in Nat /\ f[t \ {Some(t)}] \in Nat
        BY <1>1, <3>1
      <3> QED
        BY <2>2, <3>2 DEF SumAt
    <2> QED
      BY <2>1, <2>2
  <1>3. g \in [SUBSET F -> Nat]
    BY <1>1, <1>2
  <1>4. ASSUME NEW t \in SUBSET F
        PROVE  g[t] = IF Cardinality(t) <= n THEN f[t] ELSE SumAt(f, tk, t)
    OBVIOUS
  <1> HIDE DEF g
  <1>5. ASSUME NEW t \in SUBSET F, Cardinality(t) <= n + 1 PROVE g[t] = SumAt(g, tk, t)
    <2>1. g[t] = SumAt(f, tk, t)
      <3>1. CASE Cardinality(t) <= n
        BY <1>4, <3>1 DEF SumUpTo
      <3>2. CASE ~(Cardinality(t) <= n)
        BY <1>4, <3>2
      <3> QED
        BY <3>1, <3>2
    <2>2. CASE t = {}
      BY <2>1, <2>2 DEF SumAt
    <2>3. CASE t # {}
      <3>1. PICK u \in SUBSET F : u = t \ {Some(t)} /\ Cardinality(u) <= n
        <4>1. t \ {Some(t)} \in SUBSET F /\ Cardinality(t \ {Some(t)}) = Cardinality(t) - 1
              /\ Cardinality(t) \in Nat
          BY <2>3, SomeOf
        <4> QED
          BY <1>5, <4>1
      <3>2. g[u] = f[u]
        BY <1>4, <3>1
      <3> QED
        BY <2>1, <2>3, <3>1, <3>2 DEF SumAt
    <2> QED
      BY <2>2, <2>3
  <1>6. SumUpTo(g, tk, F, n + 1)
    BY <1>3, <1>5 DEF SumUpTo
  <1> QED
    BY <1>6

(* There is a function as the fold of SumOf describes it. *)
LEMMA SumFoldExists ==
    ASSUME NEW F, IsFiniteSet(F), NEW tk \in [F -> Nat]
    PROVE  \E g \in [SUBSET F -> Nat] : SumFold(g, tk)
  <1> DEFINE B == {n \in Nat : \E g : SumUpTo(g, tk, F, n)}
  <1>1. 0 \in B
    <2> DEFINE g == [t \in SUBSET F |-> 0]
    <2>1. ASSUME NEW t \in SUBSET F, Cardinality(t) <= 0 PROVE t = {} /\ g[t] = 0
      <3>1. IsFiniteSet(t)
        BY FS_Subset
      <3>2. Cardinality(t) \in Nat /\ (Cardinality(t) = 0 <=> t = {})
        BY <3>1, FS_CardinalityType, FS_EmptySet
      <3> QED
        BY <2>1, <3>2
    <2>2. g \in [SUBSET F -> Nat]
      OBVIOUS
    <2> HIDE DEF g
    <2>3. SumUpTo(g, tk, F, 0)
      BY <2>1, <2>2 DEF SumUpTo, SumAt
    <2> QED
      BY <2>3
  <1>2. \A n \in Nat : n \in B => n + 1 \in B
    <2> SUFFICES ASSUME NEW n \in Nat, n \in B PROVE n + 1 \in B
      OBVIOUS
    <2>1. PICK f : SumUpTo(f, tk, F, n)
      OBVIOUS
    <2>2. \E g : SumUpTo(g, tk, F, n + 1)
      BY <2>1, SumExtends
    <2> QED
      BY <2>2
  <1>3. \A n \in Nat : n \in B
    <2> HIDE DEF B
    <2> QED
      BY <1>1, <1>2, SetInduction
  <1>4. Cardinality(F) \in Nat
    BY FS_CardinalityType
  <1>5. PICK g : SumUpTo(g, tk, F, Cardinality(F))
    BY <1>3, <1>4
  <1>6. ASSUME NEW t \in SUBSET F PROVE g[t] = SumAt(g, tk, t)
    <2>1. Cardinality(t) <= Cardinality(F)
      BY FS_Subset
    <2> QED
      BY <1>5, <2>1 DEF SumUpTo
  <1>7. g \in [SUBSET F -> Nat]
    BY <1>5 DEF SumUpTo
  <1>8. g = [t \in SUBSET F |-> SumAt(g, tk, t)]
    BY <1>6, <1>7
  <1>9. DOMAIN tk = F
    OBVIOUS
  <1>10. SumFold(g, tk)
    BY <1>8, <1>9, Zenon DEF SumFold
  <1> QED
    BY <1>7, <1>10

Positive(tk, t) == {f \in t : tk[f] > 0}

(* No value exceeds the sum, nor does the number of positive ones. *)
LEMMA SumOfBound ==
    ASSUME NEW F, IsFiniteSet(F), NEW tk \in [F -> Nat]
    PROVE  /\ SumOf(tk) \in Nat /\ \A f \in F : tk[f] <= SumOf(tk)
           /\ IsFiniteSet(Positive(tk, F)) /\ Cardinality(Positive(tk, F)) \in Nat
           /\ Cardinality(Positive(tk, F)) <= SumOf(tk)
  <1> DEFINE g == CHOOSE h : SumFold(h, tk)
             Bounds(t) == /\ g[t] \in Nat /\ \A f \in t : tk[f] <= g[t]
                          /\ IsFiniteSet(Positive(tk, t)) /\ Cardinality(Positive(tk, t)) \in Nat
                          /\ Cardinality(Positive(tk, t)) <= g[t]
             B == {n \in Nat : \A t \in SUBSET F : Cardinality(t) <= n => Bounds(t)}
  <1>0. IsFiniteSet(F) /\ DOMAIN tk = F
    OBVIOUS
  <1>1. SumFold(g, tk)
    BY <1>0, SumFoldExists
  <1>2. SumOf(tk) = g[F]
    BY <1>0, SumOfIs
  <1> HIDE DEF g
  <1>3. ASSUME NEW t \in SUBSET F PROVE g[t] = SumAt(g, tk, t)
    <2> DEFINE h == [u \in SUBSET F |-> SumAt(g, tk, u)]
    <2>1. g = h
      BY <1>0, <1>1, Zenon DEF SumFold
    <2>2. h[t] = SumAt(g, tk, t)
      BY Zenon
    <2> HIDE DEF h
    <2> QED
      BY <2>1, <2>2, Zenon
  <1>4. Bounds({})
    <2>1. g[{}] = 0
      BY <1>3 DEF SumAt
    <2>2. Positive(tk, {}) = {}
      BY DEF Positive
    <2>3. IsFiniteSet({}) /\ Cardinality({}) = 0
      BY FS_EmptySet
    <2> QED
      BY <2>1, <2>2, <2>3
  <1>5. 0 \in B
    <2> SUFFICES ASSUME NEW t \in SUBSET F, Cardinality(t) <= 0 PROVE Bounds(t)
      OBVIOUS
    <2>1. IsFiniteSet(t)
      BY <1>0, FS_Subset
    <2>2. t = {}
      BY <2>1, FS_CardinalityType, FS_EmptySet
    <2> QED
      BY <1>4, <2>2
  <1>6. \A n \in Nat : n \in B => n + 1 \in B
    <2> SUFFICES ASSUME NEW n \in Nat, n \in B,
                        NEW t \in SUBSET F, Cardinality(t) <= n + 1
                 PROVE  Bounds(t)
      OBVIOUS
    <2>1. CASE t = {}
      BY <1>4, <2>1
    <2>2. CASE t # {}
      <3>1. PICK x, u : /\ x = Some(t) /\ u = t \ {x} /\ x \in F /\ u \in SUBSET F
                        /\ Cardinality(u) = Cardinality(t) - 1 /\ Cardinality(t) \in Nat
        <4>1. /\ Some(t) \in F /\ t \ {Some(t)} \in SUBSET F
              /\ Cardinality(t \ {Some(t)}) = Cardinality(t) - 1 /\ Cardinality(t) \in Nat
          BY <1>0, <2>2, SomeOf
        <4> QED
          BY <4>1, Zenon
      <3>2. /\ g[u] \in Nat /\ \A f \in u : tk[f] <= g[u]
            /\ IsFiniteSet(Positive(tk, u)) /\ Cardinality(Positive(tk, u)) \in Nat
            /\ Cardinality(Positive(tk, u)) <= g[u]
        <4>1. Cardinality(u) <= n
          BY <3>1
        <4> QED
          BY <3>1, <4>1
      <3>3. g[t] = tk[x] + g[u]
        BY <1>3, <2>2, <3>1 DEF SumAt
      <3>4. tk[x] \in Nat
        BY <3>1
      <3>5. ASSUME NEW f \in t PROVE tk[f] <= g[t]
        <4>1. tk[f] \in Nat
          OBVIOUS
        <4>2. CASE f = x
          BY <3>2, <3>3, <3>4, <4>2
        <4>3. CASE f \in u
          BY <3>2, <3>3, <3>4, <4>1, <4>3
        <4> QED
          BY <3>1, <4>2, <4>3
      <3>6. IsFiniteSet(Positive(tk, t)) /\ Cardinality(Positive(tk, t)) \in Nat /\ Cardinality(Positive(tk, t)) <= g[t]
        <4>1. CASE tk[x] = 0
          <5>1. Positive(tk, t) = Positive(tk, u)
            BY <3>1, <4>1 DEF Positive
          <5> QED
            BY <3>2, <3>3, <4>1, <5>1
        <4>2. CASE tk[x] # 0
          <5>1. Positive(tk, t) = Positive(tk, u) \cup {x}
            <6>1. x \in t
              BY <2>2, <3>1 DEF Some
            <6> QED
              BY <3>1, <3>4, <4>2, <6>1 DEF Positive
          <5>2. PICK H : H = Positive(tk, u)
            OBVIOUS
          <5>3. IsFiniteSet(H \cup {x}) /\ Cardinality(H \cup {x}) \in {Cardinality(H), Cardinality(H) + 1}
            BY <3>2, <5>2, FS_AddElement
          <5>4. PICK i, j : i \in Nat /\ i = Cardinality(H) /\ j = Cardinality(H \cup {x}) /\ j \in {i, i + 1} /\ i <= g[u]
            BY <3>2, <5>2, <5>3
          <5>5. j \in Nat /\ j <= tk[x] + g[u]
            BY <3>2, <3>4, <4>2, <5>4
          <5> QED
            BY <3>3, <5>1, <5>2, <5>3, <5>4, <5>5
        <4> QED
          BY <4>1, <4>2
      <3> QED
        BY <3>2, <3>3, <3>4, <3>5, <3>6
    <2> QED
      BY <2>1, <2>2
  <1>7. \A n \in Nat : n \in B
    <2> HIDE DEF B
    <2> QED
      BY <1>6, <1>5, SetInduction
  <1>8. Bounds(F)
    BY <1>0, <1>7, FS_CardinalityType
  <1> QED
    BY <1>2, <1>8
-----------------------------------------------------------------------------
(* A set in some order has each of its elements once. *)
LEMMA SetInOrder ==
    ASSUME NEW T, IsFiniteSet(T)
    PROVE  /\ SetToSeq(T) \in Seq(T) /\ Len(SetToSeq(T)) = Cardinality(T)
           /\ Cardinality(T) \in Nat /\ IsInjective(SetToSeq(T))
           /\ \A x : Count(x, SetToSeq(T)) = IF x \in T THEN 1 ELSE 0
  <1>1. PICK n \in Nat : n = Cardinality(T)
    BY FS_CardinalityType
  <1>2. PICK h \in Bijection(1..n, T) : TRUE
    <2>1. PICK k \in Nat : ExistsBijection(1..k, T)
      BY FS_NatBijection
    <2>2. k = n
      BY <1>1, <2>1, FS_CountingElements
    <2> QED
      BY <2>1, <2>2 DEF ExistsBijection
  <1>3. h \in [1..n -> T] /\ IsInjective(h)
    BY <1>2 DEF Bijection, Injection
  <1>4. PICK s : s = SetToSeq(T) /\ s \in [1..n -> T] /\ IsInjective(s)
    BY <1>1, <1>3 DEF SetToSeq
  <1>5. s \in Seq(T) /\ Len(s) = n
    BY ONLY <1>1, <1>4
  <1>6. ASSUME NEW x PROVE Count(x, s) = IF x \in T THEN 1 ELSE 0
    <2>1. CASE x \notin T
      <3>1. {i \in DOMAIN s : s[i] = x} = {}
        BY <1>4, <2>1
      <3> QED
        BY <2>1, <3>1, FS_EmptySet DEF Count
    <2>2. CASE x \in T
      <3>1. IsFiniteSet(1..n) /\ Cardinality(1..n) = Cardinality(T)
        BY <1>1, FS_Interval
      <3>2. s \in Injection(1..n, T)
        BY <1>4 DEF Injection
      <3>3. s \in Surjection(1..n, T)
        BY <3>1, <3>2, FS_Injection DEF ExistsInjection
      <3>4. PICK j \in 1..n : s[j] = x
        BY <2>2, <3>3 DEF Surjection
      <3>5. {i \in DOMAIN s : s[i] = x} = {j}
        BY <1>4, <3>4 DEF IsInjective
      <3> QED
        BY <2>2, <3>5, FS_Singleton DEF Count
    <2> QED
      BY <2>1, <2>2
  <1> QED
    BY <1>1, <1>4, <1>5, <1>6

(* Elements that occur in a sequence are no more than it is long. *)
LEMMA NoMoreThan ==
    ASSUME NEW T, NEW b \in Seq(T), NEW D, \A f \in D : Count(f, b) # 0
    PROVE  IsFiniteSet(D) /\ Cardinality(D) \in Nat /\ Cardinality(D) <= Len(b)
  <1>1. PICK n \in Nat : n = Len(b) /\ DOMAIN b = 1..n
    OBVIOUS
  <1>2. ASSUME NEW f \in D PROVE \E i \in 1..n : b[i] = f
    <2>1. {i \in DOMAIN b : b[i] = f} # {}
      BY FS_EmptySet DEF Count
    <2> QED
      BY <1>1, <2>1
  <1>3. PICK g : g = [f \in D |-> CHOOSE i \in 1..n : b[i] = f]
    OBVIOUS
  <1>4. ASSUME NEW f \in D PROVE g[f] \in 1..n /\ b[g[f]] = f
    BY <1>2, <1>3
  <1>5. g \in Injection(D, 1..n)
    <2>1. g \in [D -> 1..n]
      BY <1>3, <1>4
    <2>2. \A x, y \in D : g[x] = g[y] => x = y
      BY <1>4
    <2> QED
      BY <2>1, <2>2 DEF Injection, IsInjective
  <1>6. IsFiniteSet(1..n) /\ Cardinality(1..n) = n
    BY FS_Interval
  <1> QED
    BY <1>1, <1>5, <1>6, FS_Injection, FS_CardinalityType
=============================================================================
