----------------------------- MODULE MpscProofs -----------------------------
(***************************************************************************)
(* Theorems about Mpsc, for every number of threads, handles and           *)
(* descriptors and every capacity.  The inductive invariant is built in    *)
(* three layers: types, capacities and call control; the registry and the  *)
(* exclusion of threads; exclusive ownership of descriptors.               *)
(***************************************************************************)
EXTENDS Mpsc, SequenceTheorems, TLAPS

(* Layer 1.  What is true of a handle at each point of a call on it: only  *)
(* a push that had to flush holds a descriptor, and the batch is empty     *)
(* from the end of the flush on.                                           *)
CallControl ==
    \A h \in Handle :
       /\ Len(batch[h]) <= Batch
       /\ owner[h] = NoThread => pc[h] = "idle" /\ batch[h] = <<>>
       /\ pc[h] \in {"retry", "release", "teardown"} => batch[h] = <<>>
       /\ (pc[h] = "retry" \/ (pc[h] = "flush" /\ after[h] = "retry"))
             <=> arg[h] # NoElem

Inv1 == TypeOK /\ CallControl /\ CacheBound

(* Layer 2.  OneCallPerThread is what the guards of the calls say (a       *)
(* thread is inside one call at a time), as an invariant for the proof.    *)
OneCallPerThread ==
    \A g, h \in Handle :
       pc[g] # "idle" /\ pc[h] # "idle" /\ owner[g] = owner[h] => g = h

Inv2 ==
    /\ RegistryMatches
    /\ OneCallPerThread
    /\ TeardownAlone
    /\ AbortOnlyWhenFull
    /\ Len(registry) <= MaxRings
-----------------------------------------------------------------------------
(* Facts about the operators of the model. *)

(* A group is a sequence of Batch descriptors. *)
LEMMA GroupIsSeq ==
    ASSUME NEW g \in Group
    PROVE  g \in Seq(Elem) /\ Len(g) = Batch
  BY BatchAssumption, SMT DEF Group

(* A full batch is a group. *)
LEMMA FullBatchIsGroup ==
    ASSUME NEW b \in Seq(Elem), Len(b) = Batch
    PROVE  b \in Group
  BY BatchAssumption, SMT DEF Group

(* Remaining(v) whole groups fit behind v. *)
LEMMA RemainingFits ==
    ASSUME NEW v \in Seq(Elem), Len(v) <= Cache
    PROVE  /\ Remaining(v) \in Nat
           /\ Len(v) + Remaining(v) * Batch <= Cache
  BY BatchAssumption, CacheAssumption, SMT DEF Remaining

(* Removing the last element of a sequence that is not empty. *)
LEMMA FrontLast ==
    ASSUME NEW S, NEW v \in Seq(S), v # <<>>
    PROVE  /\ Last(v) \in S
           /\ Last(v) = v[Len(v)]
           /\ Len(v) \in Nat \ {0}
           /\ Front(v) \in Seq(S)
           /\ Len(Front(v)) = Len(v) - 1
           /\ \A i \in 1..(Len(v) - 1) : Front(v)[i] = v[i]
  <1> DEFINE p == Len(v)
             f == SubSeq(v, 1, p - 1)
  <1>1. p \in Nat \ {0} /\ \A i \in 1..p : v[i] \in S
    BY EmptySeq, ElementOfSeq
  <1> HIDE DEF p
  <1>2. f \in Seq(S) /\ Len(f) = p - 1 /\ \A i \in 1..(p - 1) : f[i] = v[i]
    BY <1>1, SubSeqProperties
  <1>3. v[Len(v)] \in S
    BY <1>1 DEF p
  <1> QED
    BY <1>1, <1>2, <1>3 DEF Front, Last, p

(* Removing one position of a sequence. *)
LEMMA RemoveAtProperties ==
    ASSUME NEW S, NEW v \in Seq(S), NEW p \in 1..Len(v)
    PROVE  /\ RemoveAt(v, p) \in Seq(S)
           /\ Len(RemoveAt(v, p)) = Len(v) - 1
           /\ \A i \in 1..(Len(v) - 1) :
                 RemoveAt(v, p)[i] = IF i < p THEN v[i] ELSE v[i + 1]
  <1> DEFINE a == SubSeq(v, 1, p - 1)
             b == SubSeq(v, p + 1, Len(v))
  <1>1. Len(v) \in Nat /\ \A i \in 1..Len(v) : v[i] \in S
    BY LenProperties, ElementOfSeq
  <1>2. a \in Seq(S) /\ Len(a) = p - 1 /\ \A i \in 1..(p - 1) : a[i] = v[i]
    BY <1>1, SubSeqProperties
  <1>3. /\ b \in Seq(S) /\ Len(b) = Len(v) - p
        /\ \A i \in 1..(Len(v) - p) : b[i] = v[p + i]
    BY <1>1, SubSeqProperties
  <1> HIDE DEF a, b
  <1>4. /\ a \o b \in Seq(S) /\ Len(a \o b) = Len(v) - 1
        /\ \A i \in 1..(Len(v) - 1) :
              (a \o b)[i] = IF i <= p - 1 THEN a[i] ELSE b[i - (p - 1)]
    BY <1>1, <1>2, <1>3, ConcatProperties
  <1>5. RemoveAt(v, p) = a \o b
    BY DEF RemoveAt, a, b
  <1>6. ASSUME NEW i \in 1..(Len(v) - 1)
        PROVE  (a \o b)[i] = IF i < p THEN v[i] ELSE v[i + 1]
    <2>1. CASE i < p
      BY <1>1, <1>2, <1>4, <2>1
    <2>2. CASE ~(i < p)
      <3>1. i - (p - 1) \in 1..(Len(v) - p) /\ p + (i - (p - 1)) = i + 1
        BY <1>1, <2>2
      <3>2. b[i - (p - 1)] = v[i + 1]
        BY <1>3, <3>1
      <3> QED
        BY <1>1, <1>4, <2>2, <3>2
    <2> QED
      BY <2>1, <2>2
  <1> QED
    BY <1>4, <1>5, <1>6
-----------------------------------------------------------------------------
(* Appending a group to the cache. *)
LEMMA ConcatGroup ==
    ASSUME NEW v \in Seq(Elem), NEW g \in Group
    PROVE  /\ v \o g \in Seq(Elem)
           /\ Len(v \o g) = Len(v) + Batch
           /\ \A i \in 1..(Len(v) + Batch) :
                 (v \o g)[i] = IF i <= Len(v) THEN v[i] ELSE g[i - Len(v)]
  BY GroupIsSeq, ConcatProperties

(* Arithmetic of groups: taking one group off a positive count. *)
LEMMA GroupCount ==
    ASSUME NEW n \in Nat \ {0}, NEW len \in Nat, len + n * Batch <= Cache
    PROVE  (len + Batch) + (n - 1) * Batch <= Cache
  BY BatchAssumption, CacheAssumption, SMT

(* The cache is never over its capacity, scanning or not. *)
LEMMA CacheSize ==
    ASSUME TypeOK, CacheBound
    PROVE  Len(cached) <= Cache
  <1>1. left * Batch \in Nat
    BY BatchAssumption DEF TypeOK
  <1> QED
    BY <1>1, CacheAssumption DEF TypeOK, CacheBound

(* Types, capacities and call control hold initially: channel() starts     *)
(* with empty containers and no call in progress.                          *)
LEMMA Inv1Init == Init => Inv1
  <1> SUFFICES ASSUME Init
               PROVE  Inv1
    OBVIOUS
  <1> USE CacheAssumption, BatchAssumption, NoThreadAssumption, NoElemAssumption
      DEF Init, Locked
  <1>1. TypeOK
    <2>1. PICK t \in Thread, h \in Handle :
                  owner = [g \in Handle |-> IF g = h THEN t ELSE NoThread]
      OBVIOUS
    <2>2. owner \in [Handle -> Thread \cup {NoThread}]
      BY <2>1
    <2>3. /\ batch \in [Handle -> Seq(Elem)]
          /\ ring \in [Thread -> Seq(Group)]
          /\ registry \in Seq(Thread)
          /\ cached \in Seq(Elem)
      OBVIOUS
    <2>4. want \in BOOLEAN /\ aborted \in BOOLEAN
      OBVIOUS
    <2>5. /\ pc \in [Handle -> {"idle", "flush", "retry", "release", "teardown"}]
          /\ after \in [Handle -> {"idle", "retry", "release"}]
          /\ arg \in [Handle -> Elem \cup {NoElem}]
      OBVIOUS
    <2>6. /\ cpc \in {"idle", "scan"} /\ cursor \in Nat \ {0} /\ left \in Nat
          /\ inner \in SUBSET Thread /\ held \in SUBSET Elem
      OBVIOUS
    <2> QED
      BY <2>2, <2>3, <2>4, <2>5, <2>6, Zenon DEF TypeOK
  <1>2. CallControl
    BY DEF CallControl
  <1>3. CacheBound
    BY DEF CacheBound
  <1> QED
    BY <1>1, <1>2, <1>3 DEF Inv1

(* Every step preserves types, capacities and call control. *)
LEMMA Inv1Step == Inv1 /\ [Next]_vars => Inv1'
  <1> SUFFICES ASSUME Inv1, [Next]_vars
               PROVE  Inv1'
    OBVIOUS
  <1> USE BatchAssumption, CacheAssumption, NoThreadAssumption, NoElemAssumption
      DEF Inv1, TypeOK, CallControl, CacheBound, Locked
  <1>1. ASSUME NEW h \in Handle, NEW e \in Elem, PushFast(h, e)
        PROVE  Inv1'
    BY <1>1 DEF PushFast, Idle, vars, consumerVars
  <1>2. ASSUME NEW h \in Handle, NEW e \in Elem, PushSlow(h, e)
        PROVE  Inv1'
    BY <1>2 DEF PushSlow, Idle, vars, consumerVars
  <1>3. ASSUME NEW h \in Handle, FlushCall(h)
        PROVE  Inv1'
    BY <1>3 DEF FlushCall, Idle, vars, consumerVars
  <1>4. ASSUME NEW h \in Handle, DropCall(h)
        PROVE  Inv1'
    BY <1>4 DEF DropCall, Idle, vars, consumerVars
  <1>5. ASSUME NEW h \in Handle, NEW g \in Handle, Clone(h, g)
        PROVE  Inv1'
    BY <1>5 DEF Clone, Idle, vars, consumerVars
  <1>6. ASSUME NEW h \in Handle, NEW t \in Thread, Move(h, t)
        PROVE  Inv1'
    BY <1>6 DEF Move, Idle, vars, consumerVars
  <1>7. ASSUME NEW h \in Handle, Register(h)
        PROVE  Inv1'
    <2>1. owner[h] \in Thread
      BY <1>7 DEF Register
    <2>2. CASE Len(registry) < MaxRings
      <3>1. /\ registry' = Append(registry, owner[h])
            /\ inner' = inner \cup {owner[h]}
            /\ aborted' = aborted
        BY <1>7, <2>2 DEF Register
      <3>2. registry' \in Seq(Thread)
        BY <2>1, <3>1, AppendProperties
      <3> QED
        BY <1>7, <2>1, <3>1, <3>2 DEF Register, consumerVars
    <2>3. CASE ~(Len(registry) < MaxRings)
      BY <1>7, <2>3 DEF Register, consumerVars
    <2> QED
      BY <2>2, <2>3
  <1>8. ASSUME NEW h \in Handle, Enqueue(h)
        PROVE  Inv1'
    <2>1. Len(batch[h]) = Batch => batch[h] \in Group
      BY FullBatchIsGroup DEF TypeOK
    <2>2. TypeOK'
      BY <1>8, <2>1 DEF Enqueue, consumerVars
    <2>3. CallControl' /\ CacheBound'
      BY <1>8 DEF Enqueue, consumerVars
    <2> QED
      BY <2>2, <2>3
  <1>9. ASSUME NEW h \in Handle, PushRetry(h)
        PROVE  Inv1'
    BY <1>9 DEF PushRetry, Idle, vars, consumerVars
  <1>10. ASSUME NEW h \in Handle, ReleaseHandle(h)
        PROVE  Inv1'
    BY <1>10, ZenonT(60) DEF ReleaseHandle, Idle, vars, consumerVars
  <1>11. ASSUME NEW h \in Handle, NEW t \in Thread, RemoveRing(h, t)
        PROVE  Inv1'
    <2>1. registry' \in Seq(Thread)
      <3> DEFINE found == Positions(t)
                 once == \E i \in found : found = {i}
      <3>1. CASE once
        <4>1. (CHOOSE i \in found : TRUE) \in 1..Len(registry)
          BY <3>1 DEF Positions
        <4> QED
          BY <1>11, <3>1, <4>1, RemoveAtProperties DEF RemoveRing
      <3> QED
        BY <1>11, <3>1 DEF RemoveRing
    <2>2. TypeOK'
      BY <1>11, <2>1 DEF RemoveRing, consumerVars
    <2> QED
      BY <1>11, <2>2 DEF RemoveRing, consumerVars
  <1>12. ASSUME NEW h \in Handle, EndTeardown(h)
        PROVE  Inv1'
    BY <1>12 DEF EndTeardown, Idle, vars, consumerVars
  <1>13. ASSUME Pop
        PROVE  Inv1'
    <2>1. cached # <<>> => /\ Last(cached) \in Elem
                           /\ Front(cached) \in Seq(Elem)
                           /\ Len(Front(cached)) = Len(cached) - 1
      BY FrontLast
    <2>2. Len(cached) <= Cache
      BY CacheSize
    <2> QED
      BY <1>13, <2>1, <2>2 DEF Pop
  <1>14. ASSUME NEW b \in BOOLEAN, StartScan(b)
        PROVE  Inv1'
    <2>1. cached \in Seq(Elem) /\ Len(cached) <= Cache
      BY CacheSize
    <2>2. /\ Remaining(cached) \in Nat
          /\ Len(cached) + Remaining(cached) * Batch <= Cache
      BY <2>1, RemainingFits
    <2> QED
      BY <1>14, <2>2 DEF StartScan
  <1>15. ASSUME ScanTake
        PROVE  Inv1'
    <2> DEFINE r == ring[registry[cursor]]
    <2>1. registry[cursor] \in Thread /\ r \in Seq(Group) /\ r # <<>>
      BY <1>15 DEF ScanTake
    <2>2. Head(r) \in Group /\ Tail(r) \in Seq(Group)
      BY <2>1, HeadTailProperties
    <2>3. /\ cached \o Head(r) \in Seq(Elem)
          /\ Len(cached \o Head(r)) = Len(cached) + Batch
      BY <2>2, ConcatGroup
    <2>4. CacheBound'
      <3>1. Len(cached) + left * Batch <= Cache
        BY <1>15 DEF ScanTake
      <3>2. (Len(cached) + Batch) + (left - 1) * Batch <= Cache
        BY <1>15, <3>1, GroupCount DEF ScanTake
      <3> QED
        BY <1>15, <2>3, <3>2 DEF ScanTake
    <2>5. TypeOK'
      BY <1>15, <2>1, <2>2, <2>3 DEF ScanTake
    <2> QED
      BY <1>15, <2>4, <2>5 DEF ScanTake
  <1>16. ASSUME ScanNext
        PROVE  Inv1'
    <2>1. cached \in Seq(Elem) /\ Len(cached) <= Cache
      BY CacheSize
    <2>2. /\ Remaining(cached) \in Nat
          /\ Len(cached) + Remaining(cached) * Batch <= Cache
      BY <2>1, RemainingFits
    <2> QED
      BY <1>16, <2>2 DEF ScanNext
  <1>17. ASSUME EndScan
        PROVE  Inv1'
    <2>1. cached # <<>> => /\ Last(cached) \in Elem
                           /\ Front(cached) \in Seq(Elem)
                           /\ Len(Front(cached)) = Len(cached) - 1
      BY FrontLast
    <2>2. Len(cached) <= Cache
      BY CacheSize
    <2> QED
      BY <1>17, <2>1, <2>2 DEF EndScan
  <1>18. CASE UNCHANGED vars
    BY <1>18 DEF vars, consumerVars
  <1> QED
    BY <1>1, <1>2, <1>3, <1>4, <1>5, <1>6, <1>7, <1>8, <1>9, <1>10,
       <1>11, <1>12, <1>13, <1>14, <1>15, <1>16, <1>17, <1>18
       DEF Next, Consumer, Scan, Running, Call, Aborted
-----------------------------------------------------------------------------
(* Appending a new member. *)
LEMMA AppendDistinct ==
    ASSUME NEW S, NEW v \in Seq(S), NEW x \in S, IsInjective(v), x \notin Range(v)
    PROVE  /\ IsInjective(Append(v, x))
           /\ Range(Append(v, x)) = Range(v) \cup {x}
           /\ Len(Append(v, x)) = Len(v) + 1
  <1> DEFINE w == Append(v, x)
  <1>1. /\ Len(v) \in Nat /\ Len(w) = Len(v) + 1
        /\ \A i \in 1..Len(v) : w[i] = v[i]
        /\ w[Len(v) + 1] = x
    BY AppendProperties, LenProperties
  <1> HIDE DEF w
  <1>2. IsInjective(w)
    BY <1>1 DEF IsInjective, Range
  <1>3. Range(w) = Range(v) \cup {x}
    BY <1>1 DEF Range
  <1> QED
    BY <1>1, <1>2, <1>3 DEF w

(* Removing the one position of a member. *)
LEMMA RemoveAtDistinct ==
    ASSUME NEW S, NEW v \in Seq(S), NEW p \in 1..Len(v), IsInjective(v)
    PROVE  /\ IsInjective(RemoveAt(v, p))
           /\ Range(RemoveAt(v, p)) = Range(v) \ {v[p]}
           /\ Len(RemoveAt(v, p)) = Len(v) - 1
  <1> DEFINE w == RemoveAt(v, p)
             n == Len(v)
  <1>1. /\ n \in Nat /\ Len(w) = n - 1 /\ DOMAIN w = 1..(n - 1)
        /\ \A i \in 1..(n - 1) : w[i] = IF i < p THEN v[i] ELSE v[i + 1]
    BY RemoveAtProperties, LenProperties
  <1>2. p \in 1..n /\ \A i, j \in 1..n : v[i] = v[j] => i = j
    BY DEF IsInjective
  <1> HIDE DEF w, n
  <1>3. IsInjective(w)
    <2> SUFFICES ASSUME NEW i \in 1..(n - 1), NEW j \in 1..(n - 1), w[i] = w[j]
                 PROVE  i = j
      BY <1>1 DEF IsInjective
    <2> DEFINE a == IF i < p THEN i ELSE i + 1
               b == IF j < p THEN j ELSE j + 1
    <2>1. a \in 1..n /\ b \in 1..n /\ w[i] = v[a] /\ w[j] = v[b]
      BY <1>1, <1>2
    <2>2. a = b
      BY <1>2, <2>1
    <2> QED
      BY <1>1, <1>2, <2>2
  <1>4. ASSUME NEW y \in Range(w)
        PROVE  y \in Range(v) \ {v[p]}
    <2>1. PICK i \in 1..(n - 1) : y = w[i]
      BY <1>1 DEF Range
    <2> DEFINE a == IF i < p THEN i ELSE i + 1
    <2>2. a \in 1..n /\ a # p /\ y = v[a]
      BY <1>1, <1>2, <2>1
    <2> HIDE DEF a
    <2> QED
      BY <1>2, <2>2 DEF Range, n
  <1>5. ASSUME NEW y \in Range(v), y # v[p]
        PROVE  y \in Range(w)
    <2>1. PICK a \in 1..n : y = v[a]
      BY DEF Range, n
    <2>2. a # p
      BY <1>5, <2>1
    <2> DEFINE i == IF a < p THEN a ELSE a - 1
    <2>3. i \in 1..(n - 1) /\ y = w[i]
      BY <1>1, <1>2, <2>1, <2>2
    <2> HIDE DEF i
    <2> QED
      BY <1>1, <2>3 DEF Range
  <1> QED
    BY <1>1, <1>3, <1>4, <1>5 DEF w, n

(* The registry and the exclusion of threads hold initially. *)
LEMMA Inv2Init == Init => Inv2
  <1> SUFFICES ASSUME Init
               PROVE  Inv2
    OBVIOUS
  <1>1. RegistryMatches
    <2>1. registry = <<>> /\ inner = {} /\ \A t \in Thread : ring[t] = <<>>
      BY DEF Init
    <2> QED
      BY <2>1 DEF RegistryMatches, IsInjective, Range
  <1>2. OneCallPerThread /\ TeardownAlone
    BY DEF Init, OneCallPerThread, TeardownAlone
  <1>3. AbortOnlyWhenFull /\ Len(registry) <= MaxRings
    BY MaxRingsAssumption DEF Init, AbortOnlyWhenFull
  <1> QED
    BY <1>1, <1>2, <1>3 DEF Inv2

(* Every step preserves them.  Registering and removing a ring keep the    *)
(* registry a duplicate-free list of the live rings; a call starts only on *)
(* a thread that is in no other call; and once a handle tears the          *)
(* ThreadLocal down there is no live handle to clone, move or call.        *)
LEMMA Inv2Step == Inv1 /\ Inv2 /\ [Next]_vars => Inv2'
  <1> SUFFICES ASSUME Inv1, Inv2, [Next]_vars
               PROVE  Inv2'
    OBVIOUS
  <1> USE NoThreadAssumption, MaxRingsAssumption
      DEF Inv1, TypeOK, CallControl, Inv2, RegistryMatches, OneCallPerThread,
          TeardownAlone, AbortOnlyWhenFull
  <1>1. ASSUME NEW h \in Handle, NEW e \in Elem, PushFast(h, e)
        PROVE  Inv2'
    BY <1>1 DEF PushFast, Idle, consumerVars
  <1>2. ASSUME NEW h \in Handle, NEW e \in Elem, PushSlow(h, e)
        PROVE  Inv2'
    BY <1>2 DEF PushSlow, Idle, consumerVars
  <1>3. ASSUME NEW h \in Handle, FlushCall(h)
        PROVE  Inv2'
    BY <1>3 DEF FlushCall, Idle, consumerVars
  <1>4. ASSUME NEW h \in Handle, DropCall(h)
        PROVE  Inv2'
    BY <1>4 DEF DropCall, Idle, consumerVars
  <1>5. ASSUME NEW h \in Handle, NEW g \in Handle, Clone(h, g)
        PROVE  Inv2'
    BY <1>5 DEF Clone, Idle, consumerVars
  <1>6. ASSUME NEW h \in Handle, NEW t \in Thread, Move(h, t)
        PROVE  Inv2'
    BY <1>6 DEF Move, Idle, consumerVars
  <1>7. ASSUME NEW h \in Handle, Register(h)
        PROVE  Inv2'
    <2>1. owner[h] \in Thread
      BY <1>7 DEF Register
    <2>2. CASE Len(registry) < MaxRings
      <3>1. /\ registry' = Append(registry, owner[h])
            /\ inner' = inner \cup {owner[h]}
            /\ aborted' = aborted /\ ring' = ring
        BY <1>7, <2>2 DEF Register
      <3>2. IsInjective(registry) /\ Range(registry) = inner
        OBVIOUS
      <3>3. owner[h] \notin Range(registry)
        BY <1>7, <3>2 DEF Register
      <3>4. /\ IsInjective(registry') /\ Range(registry') = inner'
            /\ Len(registry') = Len(registry) + 1
        BY <2>1, <3>1, <3>2, <3>3, AppendDistinct
      <3>5. RegistryMatches'
        <4>1. \A u \in Thread \ inner' : ring'[u] = <<>>
          BY <3>1
        <4> QED
          BY <3>4, <4>1
      <3>6. OneCallPerThread' /\ TeardownAlone'
        BY <1>7 DEF Register
      <3>7. AbortOnlyWhenFull' /\ (Len(registry) <= MaxRings)'
        BY <1>7, <2>2, <3>1, <3>4
      <3> QED
        BY <3>5, <3>6, <3>7
    <2>3. CASE ~(Len(registry) < MaxRings)
      BY <1>7, <2>3 DEF Register, consumerVars
    <2> QED
      BY <2>2, <2>3
  <1>8. ASSUME NEW h \in Handle, Enqueue(h)
        PROVE  Inv2'
    BY <1>8 DEF Enqueue, Idle, consumerVars
  <1>9. ASSUME NEW h \in Handle, PushRetry(h)
        PROVE  Inv2'
    BY <1>9 DEF PushRetry, Idle, consumerVars
  <1>10. ASSUME NEW h \in Handle, ReleaseHandle(h)
        PROVE  Inv2'
    <2> DEFINE others == \E g \in Handle \ {h} : owner[g] # NoThread
    <2>1. RegistryMatches' /\ AbortOnlyWhenFull' /\ (Len(registry) <= MaxRings)'
      BY <1>10 DEF ReleaseHandle
    <2>2. CASE others
      <3>1. /\ owner' = [owner EXCEPT ![h] = NoThread]
            /\ pc' = [pc EXCEPT ![h] = "idle"]
        BY <1>10, <2>2 DEF ReleaseHandle
      <3> QED
        BY <2>1, <3>1
    <2>3. CASE ~others
      <3>1. owner' = owner /\ pc' = [pc EXCEPT ![h] = "teardown"]
        BY <1>10, <2>3 DEF ReleaseHandle
      <3>2. OneCallPerThread'
        BY <1>10, <3>1 DEF ReleaseHandle
      <3>3. TeardownAlone'
        BY <1>10, <2>3, <3>1 DEF ReleaseHandle
      <3> QED
        BY <2>1, <3>2, <3>3
    <2> QED
      BY <2>2, <2>3
  <1>11. ASSUME NEW h \in Handle, NEW t \in Thread, RemoveRing(h, t)
        PROVE  Inv2'
    <2>1. IsInjective(registry) /\ Range(registry) = inner
      OBVIOUS
    <2>2. t \in inner
      BY <1>11 DEF RemoveRing
    <2>3. PICK p \in 1..Len(registry) : registry[p] = t
      BY <2>1, <2>2 DEF Range
    <2>4. Positions(t) = {p}
      BY <2>1, <2>3 DEF Positions, IsInjective
    <2>5. (CHOOSE i \in Positions(t) : TRUE) = p
      BY <2>4
    <2>6. aborted' = FALSE /\ registry' = RemoveAt(registry, p)
      BY <1>11, <2>4, <2>5 DEF RemoveRing
    <2>7. /\ IsInjective(registry') /\ Range(registry') = inner \ {t}
          /\ Len(registry') = Len(registry) - 1
      BY <2>1, <2>3, <2>6, RemoveAtDistinct
    <2>8. inner' = inner \ {t} /\ ring' = [ring EXCEPT ![t] = <<>>]
      BY <1>11 DEF RemoveRing
    <2>9. RegistryMatches'
      <3>1. \A u \in Thread \ inner' : ring'[u] = <<>>
        BY <2>8
      <3> QED
        BY <2>7, <2>8, <3>1
    <2>10. OneCallPerThread' /\ TeardownAlone'
      BY <1>11 DEF RemoveRing
    <2>11. AbortOnlyWhenFull' /\ (Len(registry) <= MaxRings)'
      BY <2>6, <2>7
    <2> QED
      BY <2>9, <2>10, <2>11
  <1>12. ASSUME NEW h \in Handle, EndTeardown(h)
        PROVE  Inv2'
    BY <1>12 DEF EndTeardown, Idle, consumerVars
  <1>13. ASSUME Pop
        PROVE  Inv2'
    BY <1>13 DEF Pop, Idle, consumerVars
  <1>14. ASSUME NEW b \in BOOLEAN, StartScan(b)
        PROVE  Inv2'
    BY <1>14 DEF StartScan, Idle, consumerVars
  <1>15. ASSUME ScanTake
        PROVE  Inv2'
    <2>1. registry[cursor] \in inner
      BY <1>15 DEF ScanTake
    <2> QED
      BY <1>15, <2>1 DEF ScanTake
  <1>16. ASSUME ScanNext
        PROVE  Inv2'
    BY <1>16 DEF ScanNext, Idle, consumerVars
  <1>17. ASSUME EndScan
        PROVE  Inv2'
    BY <1>17 DEF EndScan, Idle, consumerVars
  <1>18. CASE UNCHANGED vars
    BY <1>18 DEF vars, consumerVars
  <1> QED
    BY <1>1, <1>2, <1>3, <1>4, <1>5, <1>6, <1>7, <1>8, <1>9, <1>10,
       <1>11, <1>12, <1>13, <1>14, <1>15, <1>16, <1>17, <1>18
       DEF Next, Consumer, Scan, Running, Call, Aborted
-----------------------------------------------------------------------------
(* Sequences and rings without repetition, for exclusive ownership. *)

(* Popping the last element. *)
LEMMA FrontDistinct ==
    ASSUME NEW S, NEW v \in Seq(S), v # <<>>, IsInjective(v)
    PROVE  /\ IsInjective(Front(v))
           /\ Range(Front(v)) = Range(v) \ {Last(v)}
           /\ Last(v) \in Range(v)
  <1> DEFINE w == Front(v)
             n == Len(v)
  <1>1. /\ n \in Nat \ {0} /\ Last(v) = v[n]
        /\ DOMAIN v = 1..n /\ DOMAIN w = 1..(n - 1)
        /\ \A i \in 1..(n - 1) : w[i] = v[i]
    BY FrontLast, LenProperties
  <1>2. \A i, j \in 1..n : v[i] = v[j] => i = j
    BY <1>1 DEF IsInjective
  <1> HIDE DEF w, n
  <1>3. IsInjective(w)
    BY <1>1, <1>2 DEF IsInjective
  <1>4. Range(w) = Range(v) \ {v[n]}
    BY <1>1, <1>2 DEF Range
  <1>5. v[n] \in Range(v)
    BY <1>1 DEF Range
  <1> QED
    BY <1>1, <1>3, <1>4, <1>5 DEF w

(* Appending a group whose descriptors are new to the cache. *)
LEMMA ConcatDistinct ==
    ASSUME NEW v \in Seq(Elem), NEW x \in Group, IsInjective(v), IsInjective(x),
           Range(v) \cap Range(x) = {}
    PROVE  /\ IsInjective(v \o x)
           /\ Range(v \o x) = Range(v) \cup Range(x)
  <1> DEFINE w == v \o x
             n == Len(v)
  <1>1. /\ n \in Nat /\ DOMAIN v = 1..n /\ DOMAIN x = 1..Batch
        /\ DOMAIN w = 1..(n + Batch)
        /\ \A i \in 1..(n + Batch) : w[i] = IF i <= n THEN v[i] ELSE x[i - n]
    BY ConcatGroup, LenProperties, BatchAssumption DEF Group
  <1> HIDE DEF w, n
  <1>2. /\ \A i \in 1..n : i \in 1..(n + Batch) /\ w[i] = v[i]
        /\ \A k \in 1..Batch : n + k \in 1..(n + Batch) /\ w[n + k] = x[k]
    BY <1>1, BatchAssumption
  <1>3. \A i \in 1..(n + Batch) : i \in 1..n \/ \E k \in 1..Batch : i = n + k
    <2> SUFFICES ASSUME NEW i \in 1..(n + Batch), i \notin 1..n
                 PROVE  \E k \in 1..Batch : i = n + k
      OBVIOUS
    <2>1. i - n \in 1..Batch /\ i = n + (i - n)
      BY <1>1, BatchAssumption
    <2> QED
      BY <2>1
  <1>4. /\ \A i \in 1..n : w[i] \in Range(v)
        /\ \A i \in 1..(n + Batch) : i \notin 1..n => w[i] \in Range(x)
    BY <1>1, <1>2, <1>3 DEF Range
  <1>5. IsInjective(w)
    <2> SUFFICES ASSUME NEW i \in 1..(n + Batch), NEW j \in 1..(n + Batch), w[i] = w[j]
                 PROVE  i = j
      BY <1>1 DEF IsInjective
    <2>1. CASE i \in 1..n /\ j \in 1..n
      BY <1>1, <1>2, <2>1 DEF IsInjective
    <2>2. CASE i \in 1..n /\ j \notin 1..n
      BY <1>4, <2>2
    <2>3. CASE i \notin 1..n /\ j \in 1..n
      BY <1>4, <2>3
    <2>4. CASE i \notin 1..n /\ j \notin 1..n
      BY <1>1, <1>2, <1>3, <2>4 DEF IsInjective
    <2> QED
      BY <2>1, <2>2, <2>3, <2>4
  <1>6. Range(w) = Range(v) \cup Range(x)
    BY <1>1, <1>2, <1>3 DEF Range
  <1> QED
    BY <1>5, <1>6 DEF w

(* Enqueueing a group whose descriptors are new to the ring. *)
LEMMA EnqueueDistinct ==
    ASSUME NEW r \in Seq(Group), NEW x \in Group, FlatInjective(r), IsInjective(x),
           Flat(r) \cap Range(x) = {}
    PROVE  /\ FlatInjective(Append(r, x))
           /\ Flat(Append(r, x)) = Flat(r) \cup Range(x)
  <1> DEFINE w == Append(r, x)
             n == Len(r)
  <1>1. /\ n \in Nat /\ Len(w) = n + 1 /\ DOMAIN x = 1..Batch
        /\ \A i \in 1..n : w[i] = r[i]
        /\ w[n + 1] = x
    BY AppendProperties, LenProperties DEF Group
  <1> HIDE DEF w
  <1>2. Flat(w) = Flat(r) \cup Range(x)
    <2>1. ASSUME NEW y \in Flat(w)
          PROVE  y \in Flat(r) \cup Range(x)
      <3>1. PICK i \in 1..(n + 1), k \in 1..Batch : y = w[i][k]
        BY <1>1 DEF Flat
      <3>2. CASE i \in 1..n
        BY <1>1, <3>1, <3>2 DEF Flat
      <3>3. CASE i = n + 1
        BY <1>1, <3>1, <3>3 DEF Range
      <3> QED
        BY <1>1, <3>2, <3>3
    <2>2. ASSUME NEW y \in Flat(r)
          PROVE  y \in Flat(w)
      <3>1. PICK i \in 1..n, k \in 1..Batch : y = r[i][k]
        BY DEF Flat
      <3>2. i \in 1..Len(w) /\ y = w[i][k]
        BY <1>1, <3>1
      <3> QED
        BY <3>2 DEF Flat
    <2>3. ASSUME NEW y \in Range(x)
          PROVE  y \in Flat(w)
      <3>1. PICK k \in 1..Batch : y = x[k]
        BY <1>1 DEF Range
      <3>2. n + 1 \in 1..Len(w) /\ y = w[n + 1][k]
        BY <1>1, <3>1
      <3> QED
        BY <3>2 DEF Flat
    <2> QED
      BY <2>1, <2>2, <2>3
  <1>3. /\ \A i \in 1..n, k \in 1..Batch : w[i][k] \in Flat(r)
        /\ \A k \in 1..Batch : w[n + 1][k] \in Range(x)
    BY <1>1 DEF Flat, Range
  <1>4. FlatInjective(w)
    <2> SUFFICES ASSUME NEW i \in 1..(n + 1), NEW j \in 1..(n + 1),
                        NEW k \in 1..Batch, NEW l \in 1..Batch,
                        w[i][k] = w[j][l]
                 PROVE  i = j /\ k = l
      BY <1>1 DEF FlatInjective
    <2>1. CASE i \in 1..n /\ j \in 1..n
      BY <1>1, <2>1 DEF FlatInjective
    <2>2. CASE i \in 1..n /\ j = n + 1
      BY <1>3, <2>2
    <2>3. CASE i = n + 1 /\ j \in 1..n
      BY <1>3, <2>3
    <2>4. CASE i = n + 1 /\ j = n + 1
      BY <1>1, <2>4 DEF IsInjective
    <2> QED
      BY <1>1, <2>1, <2>2, <2>3, <2>4
  <1> QED
    BY <1>2, <1>4 DEF w

(* Taking the oldest group out of a ring. *)
LEMMA DequeueDistinct ==
    ASSUME NEW r \in Seq(Group), r # <<>>, FlatInjective(r)
    PROVE  /\ FlatInjective(Tail(r))
           /\ Flat(Tail(r)) = Flat(r) \ Range(Head(r))
           /\ IsInjective(Head(r))
           /\ Range(Head(r)) \subseteq Flat(r)
  <1> DEFINE w == Tail(r)
             n == Len(r)
             x == Head(r)
  <1>1. /\ n \in Nat \ {0} /\ Len(w) = n - 1 /\ x \in Group /\ x = r[1]
        /\ \A i \in 1..(n - 1) : w[i] = r[i + 1]
    BY HeadTailProperties, EmptySeq
  <1>2. DOMAIN x = 1..Batch
    BY <1>1 DEF Group
  <1>3. \A i, j \in 1..n, k, l \in 1..Batch : r[i][k] = r[j][l] => i = j /\ k = l
    BY DEF FlatInjective
  <1> HIDE DEF w, x
  <1>4. FlatInjective(w)
    <2> SUFFICES ASSUME NEW i \in 1..(n - 1), NEW j \in 1..(n - 1),
                        NEW k \in 1..Batch, NEW l \in 1..Batch,
                        w[i][k] = w[j][l]
                 PROVE  i = j /\ k = l
      BY <1>1 DEF FlatInjective
    <2>1. i + 1 \in 1..n /\ j + 1 \in 1..n /\ r[i + 1][k] = r[j + 1][l]
      BY <1>1
    <2>2. i + 1 = j + 1 /\ k = l
      BY <1>3, <2>1
    <2> QED
      BY <2>2
  <1>5. IsInjective(x) /\ Range(x) \subseteq Flat(r)
    BY <1>1, <1>2, <1>3 DEF IsInjective, Range, Flat
  <1>6. Flat(w) = Flat(r) \ Range(x)
    <2>1. ASSUME NEW y \in Flat(w)
          PROVE  y \in Flat(r) /\ y \notin Range(x)
      <3>1. PICK i \in 1..(n - 1), k \in 1..Batch : y = w[i][k]
        BY <1>1 DEF Flat
      <3>2. i + 1 \in 1..n /\ i + 1 # 1 /\ 1 \in 1..n /\ y = r[i + 1][k]
        BY <1>1, <3>1
      <3>3. y \in Flat(r)
        BY <3>2 DEF Flat
      <3>4. \A l \in 1..Batch : r[1][l] # y
        BY <1>3, <3>2
      <3> QED
        BY <1>1, <1>2, <3>3, <3>4 DEF Range
    <2>2. ASSUME NEW y \in Flat(r), y \notin Range(x)
          PROVE  y \in Flat(w)
      <3>1. PICK i \in 1..n, k \in 1..Batch : y = r[i][k]
        BY DEF Flat
      <3>2. i # 1
        BY <1>1, <1>2, <2>2, <3>1 DEF Range
      <3>3. i - 1 \in 1..(n - 1) /\ (i - 1) + 1 = i
        BY <1>1, <3>2
      <3>4. i - 1 \in 1..Len(w) /\ y = w[i - 1][k]
        BY <1>1, <3>1, <3>3
      <3> QED
        BY <3>4 DEF Flat
    <2> QED
      BY <2>1, <2>2
  <1> QED
    BY <1>4, <1>5, <1>6 DEF w, x
-----------------------------------------------------------------------------
(* Layer 3: exclusive ownership, container by container and descriptor by  *)
(* descriptor, which is the form the provers can work with.                *)
OncePerContainer ==
    /\ \A h \in Handle : IsInjective(batch[h])
    /\ \A t \in Thread : FlatInjective(ring[t])
    /\ IsInjective(cached)

Apart ==
    /\ \A h \in Handle : \A e \in Range(batch[h]) :
          /\ e \notin held /\ e \notin Range(cached)
          /\ \A g \in Handle : arg[g] # e /\ (g # h => e \notin Range(batch[g]))
          /\ \A t \in Thread : e \notin Flat(ring[t])
    /\ \A h \in Handle : arg[h] # NoElem =>
          /\ arg[h] \notin held /\ arg[h] \notin Range(cached)
          /\ \A g \in Handle : g # h => arg[g] # arg[h]
          /\ \A t \in Thread : arg[h] \notin Flat(ring[t])
    /\ \A t \in Thread : \A e \in Flat(ring[t]) :
          /\ e \notin held /\ e \notin Range(cached)
          /\ \A u \in Thread : u # t => e \notin Flat(ring[u])
    /\ \A e \in Range(cached) : e \notin held

Inv3 == OncePerContainer /\ Apart

(* The pointwise form gives the property. *)
LEMMA ApartIsExclusive ==
    ASSUME Inv3
    PROVE  Exclusive
  <1> USE DEF Inv3, OncePerContainer, Apart
  <1>1. held \cap InChannel = {}
    BY DEF InChannel, InBatch, InOp, InRing, InCache
  <1>2. InBatch \cap (InOp \cup InRing \cup InCache) = {}
    BY DEF InBatch, InOp, InRing, InCache
  <1>3. InOp \cap (InRing \cup InCache) = {}
    BY DEF InOp, InRing, InCache
  <1>4. InRing \cap InCache = {}
    BY DEF InRing, InCache
  <1> QED
    BY <1>1, <1>2, <1>3, <1>4 DEF Exclusive

LEMMA EmptyDistinct ==
    /\ IsInjective(<<>>) /\ Range(<<>>) = {}
    /\ FlatInjective(<<>>) /\ Flat(<<>>) = {}
  BY DEF IsInjective, Range, FlatInjective, Flat

(* Initially the clients hold everything. *)
LEMMA Inv3Init == Init => Inv3
  <1> SUFFICES ASSUME Init
               PROVE  Inv3
    OBVIOUS
  <1>1. /\ \A h \in Handle : batch[h] = <<>> /\ arg[h] = NoElem
        /\ \A t \in Thread : ring[t] = <<>>
        /\ cached = <<>>
    BY DEF Init
  <1> QED
    BY <1>1, EmptyDistinct DEF Inv3, OncePerContainer, Apart

(* Every step preserves exclusive ownership: it moves descriptors from one *)
(* place to one other place, or out of the channel.                        *)
LEMMA Inv3Step == Inv1 /\ Inv2 /\ Inv3 /\ [Next]_vars => Inv3'
  <1> SUFFICES ASSUME Inv1, Inv2, Inv3, [Next]_vars
               PROVE  Inv3'
    OBVIOUS
  <1> USE NoElemAssumption, NoThreadAssumption
      DEF Inv1, TypeOK, CallControl, Inv3, OncePerContainer, Apart
  <1>1. ASSUME NEW h \in Handle, NEW e \in Elem, PushFast(h, e)
        PROVE  Inv3'
    <2>1. e \in held /\ e \notin Range(batch[h])
      BY <1>1 DEF PushFast
    <2>2. /\ IsInjective(Append(batch[h], e))
          /\ Range(Append(batch[h], e)) = Range(batch[h]) \cup {e}
      BY <2>1, AppendDistinct
    <2>3. /\ batch' = [batch EXCEPT ![h] = Append(batch[h], e)]
          /\ held' = held \ {e}
          /\ UNCHANGED <<arg, ring, cached>>
      BY <1>1 DEF PushFast, consumerVars
    <2>4. OncePerContainer'
      BY <2>2, <2>3
    <2>5. Apart'
      BY <2>1, <2>2, <2>3
    <2> QED
      BY <2>4, <2>5
  <1>2. ASSUME NEW h \in Handle, NEW e \in Elem, PushSlow(h, e)
        PROVE  Inv3'
    <2>1. /\ e \in held /\ held' = held \ {e}
          /\ arg' = [arg EXCEPT ![h] = e]
          /\ UNCHANGED <<batch, ring, cached>>
      BY <1>2 DEF PushSlow, consumerVars
    <2> QED
      BY <2>1
  <1>3. ASSUME NEW h \in Handle, FlushCall(h)
        PROVE  Inv3'
    BY <1>3 DEF FlushCall, Idle, consumerVars
  <1>4. ASSUME NEW h \in Handle, DropCall(h)
        PROVE  Inv3'
    BY <1>4 DEF DropCall, Idle, consumerVars
  <1>5. ASSUME NEW h \in Handle, NEW g \in Handle, Clone(h, g)
        PROVE  Inv3'
    BY <1>5 DEF Clone, Idle, consumerVars
  <1>6. ASSUME NEW h \in Handle, NEW t \in Thread, Move(h, t)
        PROVE  Inv3'
    BY <1>6 DEF Move, Idle, consumerVars
  <1>7. ASSUME NEW h \in Handle, Register(h)
        PROVE  Inv3'
    BY <1>7 DEF Register, Idle, consumerVars
  <1>8. ASSUME NEW h \in Handle, Enqueue(h)
        PROVE  Inv3'
    <2> DEFINE o == owner[h]
               sent == Len(batch[h]) = Batch /\ Len(ring[o]) < SpscLen
    <2>1. o \in Thread
      BY <1>8 DEF Enqueue
    <2>2. /\ batch' = [batch EXCEPT ![h] = <<>>]
          /\ UNCHANGED <<arg, held, cached>>
      BY <1>8 DEF Enqueue, consumerVars
    <2>3. IsInjective(<<>>) /\ Range(<<>>) = {}
      BY EmptyDistinct
    <2>4. CASE sent
      <3>1. ring' = [ring EXCEPT ![o] = Append(ring[o], batch[h])]
        BY <1>8, <2>4 DEF Enqueue
      <3>2. batch[h] \in Group
        BY <2>4, FullBatchIsGroup
      <3>3. Flat(ring[o]) \cap Range(batch[h]) = {}
        BY <2>1
      <3>4. /\ FlatInjective(Append(ring[o], batch[h]))
            /\ Flat(Append(ring[o], batch[h])) = Flat(ring[o]) \cup Range(batch[h])
        BY <2>1, <3>2, <3>3, EnqueueDistinct
      <3>5. OncePerContainer'
        BY <2>1, <2>2, <2>3, <3>1, <3>4
      <3>6. Apart'
        BY <2>1, <2>2, <2>3, <3>1, <3>4
      <3> QED
        BY <3>5, <3>6
    <2>5. CASE ~sent
      <3>1. ring' = ring
        BY <1>8, <2>5 DEF Enqueue
      <3> QED
        BY <2>2, <2>3, <3>1
    <2> QED
      BY <2>4, <2>5
  <1>9. ASSUME NEW h \in Handle, PushRetry(h)
        PROVE  Inv3'
    <2> DEFINE e == arg[h]
    <2>1. e \in Elem /\ e # NoElem /\ e \notin Range(batch[h])
      BY <1>9 DEF PushRetry
    <2>2. /\ IsInjective(Append(batch[h], e))
          /\ Range(Append(batch[h], e)) = Range(batch[h]) \cup {e}
      BY <2>1, AppendDistinct
    <2>3. /\ batch' = [batch EXCEPT ![h] = Append(batch[h], e)]
          /\ arg' = [arg EXCEPT ![h] = NoElem]
          /\ UNCHANGED <<held, ring, cached>>
      BY <1>9 DEF PushRetry, consumerVars
    <2>4. \A g \in Handle : NoElem \notin Range(batch[g])
      BY LenProperties DEF Range
    <2>5. OncePerContainer'
      BY <2>2, <2>3
    <2>6. Apart'
      BY <2>1, <2>2, <2>3, <2>4
    <2> QED
      BY <2>5, <2>6
  <1>10. ASSUME NEW h \in Handle, ReleaseHandle(h)
        PROVE  Inv3'
    BY <1>10 DEF ReleaseHandle, Idle, consumerVars
  <1>11. ASSUME NEW h \in Handle, NEW t \in Thread, RemoveRing(h, t)
        PROVE  Inv3'
    <2>1. /\ ring' = [ring EXCEPT ![t] = <<>>]
          /\ UNCHANGED <<batch, arg, held, cached>>
      BY <1>11 DEF RemoveRing, consumerVars
    <2>2. FlatInjective(<<>>) /\ Flat(<<>>) = {}
      BY EmptyDistinct
    <2> QED
      BY <2>1, <2>2
  <1>12. ASSUME NEW h \in Handle, EndTeardown(h)
        PROVE  Inv3'
    BY <1>12 DEF EndTeardown, Idle, consumerVars
  <1>13. ASSUME Pop
        PROVE  Inv3'
    <2>1. cached # <<>> => /\ IsInjective(Front(cached))
                           /\ Range(Front(cached)) = Range(cached) \ {Last(cached)}
                           /\ Last(cached) \in Range(cached)
      BY FrontDistinct
    <2>2. /\ cached # <<>> /\ cached' = Front(cached)
          /\ held' = held \cup {Last(cached)}
          /\ UNCHANGED <<batch, arg, ring>>
      BY <1>13 DEF Pop
    <2> QED
      BY <2>1, <2>2
  <1>14. ASSUME NEW b \in BOOLEAN, StartScan(b)
        PROVE  Inv3'
    BY <1>14 DEF StartScan, Idle, consumerVars
  <1>15. ASSUME ScanTake
        PROVE  Inv3'
    <2> DEFINE o == registry[cursor]
               x == Head(ring[o])
    <2>1. o \in Thread /\ ring[o] # <<>> /\ ring[o] \in Seq(Group)
      BY <1>15 DEF ScanTake
    <2>2. /\ ring' = [ring EXCEPT ![o] = Tail(ring[o])]
          /\ cached' = cached \o x
          /\ UNCHANGED <<batch, arg, held>>
      BY <1>15 DEF ScanTake
    <2>3. x \in Group
      BY <2>1, HeadTailProperties
    <2>4. /\ FlatInjective(Tail(ring[o])) /\ IsInjective(x)
          /\ Flat(Tail(ring[o])) = Flat(ring[o]) \ Range(x)
          /\ Range(x) \subseteq Flat(ring[o])
      BY <2>1, DequeueDistinct
    <2>5. Range(cached) \cap Range(x) = {}
      BY <2>1, <2>4
    <2>6. /\ IsInjective(cached \o x)
          /\ Range(cached \o x) = Range(cached) \cup Range(x)
      BY <2>3, <2>4, <2>5, ConcatDistinct
    <2> HIDE DEF x, o
    <2>7. OncePerContainer'
      BY <2>1, <2>2, <2>4, <2>6
    <2>8. Apart'
      BY <2>1, <2>2, <2>4, <2>6
    <2> QED
      BY <2>7, <2>8
  <1>16. ASSUME ScanNext
        PROVE  Inv3'
    BY <1>16 DEF ScanNext, Idle, consumerVars
  <1>17. ASSUME EndScan
        PROVE  Inv3'
    <2>1. cached # <<>> => /\ IsInjective(Front(cached))
                           /\ Range(Front(cached)) = Range(cached) \ {Last(cached)}
                           /\ Last(cached) \in Range(cached)
      BY FrontDistinct
    <2>2. UNCHANGED <<batch, arg, ring>>
      BY <1>17 DEF EndScan
    <2>3. CASE want /\ cached # <<>>
      <3>1. cached' = Front(cached) /\ held' = held \cup {Last(cached)}
        BY <1>17, <2>3 DEF EndScan
      <3> QED
        BY <2>1, <2>2, <2>3, <3>1
    <2>4. CASE ~(want /\ cached # <<>>)
      <3>1. cached' = cached /\ held' = held
        BY <1>17, <2>4 DEF EndScan
      <3> QED
        BY <2>2, <3>1
    <2> QED
      BY <2>3, <2>4
  <1>18. CASE UNCHANGED vars
    BY <1>18 DEF vars, consumerVars
  <1> QED
    BY <1>1, <1>2, <1>3, <1>4, <1>5, <1>6, <1>7, <1>8, <1>9, <1>10,
       <1>11, <1>12, <1>13, <1>14, <1>15, <1>16, <1>17, <1>18
       DEF Next, Consumer, Scan, Running, Call, Aborted
-----------------------------------------------------------------------------
(* What a step does to the contents of the channel. *)

(* Why the descriptors of S may leave the channel without being popped. *)
DroppedFrom(S) ==
    \/ \E h \in Handle :
          /\ S = Range(batch[h])
          /\ Len(batch[h]) < Batch \/ Len(ring[owner[h]]) >= SpscLen
    \/ \E h \in Handle : pc[h] = "teardown"

ChannelStep ==
    \/ held' = held /\ InChannel' = InChannel
    \/ \E e \in Elem : /\ e \in held
                       /\ held' = held \ {e} /\ InChannel' = InChannel \cup {e}
    \/ \E e \in Elem : /\ e \in InChannel
                       /\ held' = held \cup {e} /\ InChannel' = InChannel \ {e}
    \/ \E S \in SUBSET InChannel :
          /\ DroppedFrom(S)
          /\ held' = held /\ InChannel' = InChannel \ S

(* Every step of the channel leaves its contents alone, takes in one       *)
(* descriptor of a client, hands one out, or drops some for a known reason. *)
LEMMA StepIsChannelStep == Inv1 /\ Inv2 /\ Inv3 /\ [Next]_vars => ChannelStep
  <1> SUFFICES ASSUME Inv1, Inv2, Inv3, [Next]_vars
               PROVE  ChannelStep
    OBVIOUS
  <1> USE NoElemAssumption, NoThreadAssumption
      DEF Inv1, TypeOK, CallControl, Inv3, OncePerContainer, Apart, ChannelStep
  <1>1. ASSUME NEW h \in Handle, NEW e \in Elem, PushFast(h, e)
        PROVE  ChannelStep
    <2>1. e \in held /\ e \notin Range(batch[h])
      BY <1>1 DEF PushFast
    <2>2. Range(Append(batch[h], e)) = Range(batch[h]) \cup {e}
      BY <2>1, AppendDistinct
    <2>3. /\ batch' = [batch EXCEPT ![h] = Append(batch[h], e)]
          /\ held' = held \ {e}
          /\ UNCHANGED <<arg, ring, cached>>
      BY <1>1 DEF PushFast, consumerVars
    <2>4. InBatch' = InBatch \cup {e}
      <3>1. Range(batch'[h]) = Range(batch[h]) \cup {e}
        BY <2>2, <2>3
      <3>2. \A g \in Handle \ {h} : Range(batch'[g]) = Range(batch[g])
        BY <2>3
      <3> QED
        BY ONLY <3>1, <3>2, h \in Handle DEF InBatch
    <2>5. InOp' = InOp /\ InRing' = InRing /\ InCache' = InCache
      BY <2>3 DEF InOp, InRing, InCache
    <2>6. InChannel' = InChannel \cup {e}
      BY <2>4, <2>5 DEF InChannel
    <2> QED
      BY <2>1, <2>3, <2>6
  <1>2. ASSUME NEW h \in Handle, NEW e \in Elem, PushSlow(h, e)
        PROVE  ChannelStep
    <2>1. /\ e \in held /\ held' = held \ {e}
          /\ arg[h] = NoElem /\ arg' = [arg EXCEPT ![h] = e]
          /\ UNCHANGED <<batch, ring, cached>>
      BY <1>2 DEF PushSlow, Idle, consumerVars
    <2>2. InOp' = InOp \cup {e}
      BY <2>1 DEF InOp
    <2>3. InBatch' = InBatch /\ InRing' = InRing /\ InCache' = InCache
      BY <2>1 DEF InBatch, InRing, InCache
    <2>4. InChannel' = InChannel \cup {e}
      BY <2>2, <2>3 DEF InChannel
    <2> QED
      BY <2>1, <2>4
  <1>3. ASSUME NEW h \in Handle, FlushCall(h)
        PROVE  ChannelStep
    <2>1. UNCHANGED <<batch, arg, ring, cached, held>>
      BY <1>3 DEF FlushCall, consumerVars
    <2> QED
      BY <2>1 DEF InChannel, InBatch, InOp, InRing, InCache
  <1>4. ASSUME NEW h \in Handle, DropCall(h)
        PROVE  ChannelStep
    <2>1. UNCHANGED <<batch, arg, ring, cached, held>>
      BY <1>4 DEF DropCall, consumerVars
    <2> QED
      BY <2>1 DEF InChannel, InBatch, InOp, InRing, InCache
  <1>5. ASSUME NEW h \in Handle, NEW g \in Handle, Clone(h, g)
        PROVE  ChannelStep
    <2>1. UNCHANGED <<batch, arg, ring, cached, held>>
      BY <1>5 DEF Clone, consumerVars
    <2> QED
      BY <2>1 DEF InChannel, InBatch, InOp, InRing, InCache
  <1>6. ASSUME NEW h \in Handle, NEW t \in Thread, Move(h, t)
        PROVE  ChannelStep
    <2>1. UNCHANGED <<batch, arg, ring, cached, held>>
      BY <1>6 DEF Move, consumerVars
    <2> QED
      BY <2>1 DEF InChannel, InBatch, InOp, InRing, InCache
  <1>7. ASSUME NEW h \in Handle, Register(h)
        PROVE  ChannelStep
    <2>1. UNCHANGED <<batch, arg, ring, cached, held>>
      BY <1>7 DEF Register, consumerVars
    <2> QED
      BY <2>1 DEF InChannel, InBatch, InOp, InRing, InCache
  <1>8. ASSUME NEW h \in Handle, Enqueue(h)
        PROVE  ChannelStep
    <2> DEFINE o == owner[h]
               B == Range(batch[h])
               sent == Len(batch[h]) = Batch /\ Len(ring[o]) < SpscLen
    <2>1. o \in Thread
      BY <1>8 DEF Enqueue
    <2>2. /\ batch' = [batch EXCEPT ![h] = <<>>]
          /\ UNCHANGED <<arg, held, cached>>
      BY <1>8 DEF Enqueue, consumerVars
    <2>3. InBatch' = InBatch \ B /\ B \subseteq InBatch
      BY <2>2, EmptyDistinct, SMTT(40) DEF InBatch
    <2>4. InOp' = InOp /\ InCache' = InCache
      BY <2>2 DEF InOp, InCache
    <2>5. CASE sent
      <3>1. ring' = [ring EXCEPT ![o] = Append(ring[o], batch[h])]
        BY <1>8, <2>5 DEF Enqueue
      <3>2. batch[h] \in Group
        BY <2>5, FullBatchIsGroup
      <3>3. Flat(ring[o]) \cap B = {}
        BY <2>1
      <3>4. Flat(Append(ring[o], batch[h])) = Flat(ring[o]) \cup B
        BY <2>1, <3>2, <3>3, EnqueueDistinct
      <3>5. InRing' = InRing \cup B
        <4>1. Flat(ring'[o]) = Flat(ring[o]) \cup B
          BY <2>1, <3>1, <3>4
        <4>2. \A u \in Thread \ {o} : Flat(ring'[u]) = Flat(ring[u])
          BY <3>1
        <4> HIDE DEF B, o
        <4> QED
          BY ONLY <4>1, <4>2, <2>1 DEF InRing
      <3>6. InChannel' = InChannel
        BY <2>3, <2>4, <3>5 DEF InChannel
      <3> QED
        BY <2>2, <3>6
    <2>6. CASE ~sent
      <3>1. ring' = ring
        BY <1>8, <2>6 DEF Enqueue
      <3>2. InRing' = InRing
        BY <3>1 DEF InRing
      <3>3. B \cap (InOp \cup InRing \cup InCache) = {}
        BY <2>1 DEF InOp, InRing, InCache
      <3>4. B \subseteq InChannel /\ InChannel' = InChannel \ B
        BY <2>3, <2>4, <3>2, <3>3 DEF InChannel
      <3>5. Len(batch[h]) < Batch \/ Len(ring[owner[h]]) >= SpscLen
        BY <2>1, <2>6, BatchAssumption, SpscLenAssumption
      <3>6. DroppedFrom(B)
        BY <3>5 DEF DroppedFrom
      <3> QED
        BY <2>2, <3>4, <3>6
    <2> QED
      BY <2>5, <2>6
  <1>9. ASSUME NEW h \in Handle, PushRetry(h)
        PROVE  ChannelStep
    <2> DEFINE e == arg[h]
    <2>1. e \in Elem /\ e # NoElem /\ e \notin Range(batch[h])
      BY <1>9 DEF PushRetry
    <2>2. Range(Append(batch[h], e)) = Range(batch[h]) \cup {e}
      BY <2>1, AppendDistinct
    <2>3. /\ batch' = [batch EXCEPT ![h] = Append(batch[h], e)]
          /\ arg' = [arg EXCEPT ![h] = NoElem]
          /\ UNCHANGED <<held, ring, cached>>
      BY <1>9 DEF PushRetry, consumerVars
    <2>4. InBatch' = InBatch \cup {e}
      <3>1. Range(batch'[h]) = Range(batch[h]) \cup {e}
        BY <2>2, <2>3
      <3>2. \A g \in Handle \ {h} : Range(batch'[g]) = Range(batch[g])
        BY <2>3
      <3> QED
        BY ONLY <3>1, <3>2, h \in Handle DEF InBatch
    <2>5. InOp' = InOp \ {e} /\ e \in InOp
      BY <2>1, <2>3 DEF InOp
    <2>6. InRing' = InRing /\ InCache' = InCache
      BY <2>3 DEF InRing, InCache
    <2>7. InChannel' = InChannel
      BY <2>4, <2>5, <2>6 DEF InChannel
    <2> QED
      BY <2>3, <2>7
  <1>10. ASSUME NEW h \in Handle, ReleaseHandle(h)
        PROVE  ChannelStep
    <2>1. UNCHANGED <<batch, arg, ring, cached, held>>
      BY <1>10 DEF ReleaseHandle, consumerVars
    <2> QED
      BY <2>1 DEF InChannel, InBatch, InOp, InRing, InCache
  <1>11. ASSUME NEW h \in Handle, NEW t \in Thread, RemoveRing(h, t)
        PROVE  ChannelStep
    <2> DEFINE R == Flat(ring[t])
    <2>1. /\ ring' = [ring EXCEPT ![t] = <<>>]
          /\ UNCHANGED <<batch, arg, held, cached>>
      BY <1>11 DEF RemoveRing, consumerVars
    <2>2. InRing' = InRing \ R /\ R \subseteq InRing
      <3>1. Flat(ring'[t]) = {}
        BY <2>1, EmptyDistinct
      <3>2. \A u \in Thread \ {t} : Flat(ring'[u]) = Flat(ring[u]) /\ Flat(ring[u]) \cap R = {}
        BY <2>1
      <3> QED
        BY ONLY <3>1, <3>2, t \in Thread DEF InRing
    <2>3. InBatch' = InBatch /\ InOp' = InOp /\ InCache' = InCache
      BY <2>1 DEF InBatch, InOp, InCache
    <2>4. R \cap (InBatch \cup InOp \cup InCache) = {}
      BY DEF InBatch, InOp, InCache
    <2>5. R \subseteq InChannel /\ InChannel' = InChannel \ R
      BY <2>2, <2>3, <2>4 DEF InChannel
    <2>6. DroppedFrom(R)
      BY <1>11 DEF RemoveRing, DroppedFrom
    <2> QED
      BY <2>1, <2>5, <2>6
  <1>12. ASSUME NEW h \in Handle, EndTeardown(h)
        PROVE  ChannelStep
    <2>1. UNCHANGED <<batch, arg, ring, cached, held>>
      BY <1>12 DEF EndTeardown, consumerVars
    <2> QED
      BY <2>1 DEF InChannel, InBatch, InOp, InRing, InCache
  <1>13. ASSUME Pop
        PROVE  ChannelStep
    <2>1. cached # <<>> => /\ Range(Front(cached)) = Range(cached) \ {Last(cached)}
                           /\ Last(cached) \in Range(cached)
      BY FrontDistinct
    <2>2. InBatch' = InBatch /\ InOp' = InOp /\ InRing' = InRing
      BY <1>13 DEF Pop, InBatch, InOp, InRing
    <2>3. InCache \cap (InBatch \cup InOp \cup InRing) = {}
      BY DEF InBatch, InOp, InRing, InCache
    <2>4. CASE TRUE
      <3>1. /\ cached # <<>> /\ cached' = Front(cached)
            /\ held' = held \cup {Last(cached)}
        BY <1>13 DEF Pop
      <3>2. InCache' = InCache \ {Last(cached)} /\ Last(cached) \in InCache
        BY <2>1, <3>1 DEF InCache
      <3>3. InChannel' = InChannel \ {Last(cached)} /\ Last(cached) \in InChannel
        BY <2>2, <2>3, <3>2 DEF InChannel
      <3>4. Last(cached) \in Elem
        BY <3>1, FrontLast
      <3> QED
        BY <3>1, <3>3, <3>4
    <2> QED
      BY <2>4
  <1>14. ASSUME NEW b \in BOOLEAN, StartScan(b)
        PROVE  ChannelStep
    <2>1. UNCHANGED <<batch, arg, ring, cached, held>>
      BY <1>14 DEF StartScan, consumerVars
    <2> QED
      BY <2>1 DEF InChannel, InBatch, InOp, InRing, InCache
  <1>15. ASSUME ScanTake
        PROVE  ChannelStep
    <2> DEFINE o == registry[cursor]
               x == Head(ring[o])
    <2>1. o \in Thread /\ ring[o] # <<>> /\ ring[o] \in Seq(Group)
      BY <1>15 DEF ScanTake
    <2>2. /\ ring' = [ring EXCEPT ![o] = Tail(ring[o])]
          /\ cached' = cached \o x
          /\ UNCHANGED <<batch, arg, held>>
      BY <1>15 DEF ScanTake
    <2>3. x \in Group
      BY <2>1, HeadTailProperties
    <2>4. /\ IsInjective(x)
          /\ Flat(Tail(ring[o])) = Flat(ring[o]) \ Range(x)
          /\ Range(x) \subseteq Flat(ring[o])
      BY <2>1, DequeueDistinct
    <2>5. Range(cached) \cap Range(x) = {}
      BY <2>1, <2>4
    <2>6. Range(cached \o x) = Range(cached) \cup Range(x)
      BY <2>3, <2>4, <2>5, ConcatDistinct
    <2> HIDE DEF x, o
    <2>7. InCache' = InCache \cup Range(x)
      BY <2>2, <2>6 DEF InCache
    <2>8. InRing' = InRing \ Range(x) /\ Range(x) \subseteq InRing
      <3>1. Flat(ring'[o]) = Flat(ring[o]) \ Range(x)
        BY <2>1, <2>2, <2>4
      <3>2. \A u \in Thread \ {o} : /\ Flat(ring'[u]) = Flat(ring[u])
                                    /\ Flat(ring[u]) \cap Range(x) = {}
        BY <2>1, <2>2, <2>4
      <3> QED
        BY ONLY <3>1, <3>2, <2>1, <2>4 DEF InRing
    <2>9. InBatch' = InBatch /\ InOp' = InOp
      BY <2>2 DEF InBatch, InOp
    <2>10. InChannel' = InChannel
      BY <2>7, <2>8, <2>9 DEF InChannel
    <2> QED
      BY <2>2, <2>10
  <1>16. ASSUME ScanNext
        PROVE  ChannelStep
    <2>1. UNCHANGED <<batch, arg, ring, cached, held>>
      BY <1>16 DEF ScanNext, consumerVars
    <2> QED
      BY <2>1 DEF InChannel, InBatch, InOp, InRing, InCache
  <1>17. ASSUME EndScan
        PROVE  ChannelStep
    <2>1. cached # <<>> => /\ Range(Front(cached)) = Range(cached) \ {Last(cached)}
                           /\ Last(cached) \in Range(cached)
      BY FrontDistinct
    <2>2. InBatch' = InBatch /\ InOp' = InOp /\ InRing' = InRing
      BY <1>17 DEF EndScan, InBatch, InOp, InRing
    <2>3. InCache \cap (InBatch \cup InOp \cup InRing) = {}
      BY DEF InBatch, InOp, InRing, InCache
    <2>4. CASE want /\ cached # <<>>
      <3>1. /\ cached # <<>> /\ cached' = Front(cached)
            /\ held' = held \cup {Last(cached)}
        BY <1>17, <2>4 DEF EndScan
      <3>2. InCache' = InCache \ {Last(cached)} /\ Last(cached) \in InCache
        BY <2>1, <3>1 DEF InCache
      <3>3. InChannel' = InChannel \ {Last(cached)} /\ Last(cached) \in InChannel
        BY <2>2, <2>3, <3>2 DEF InChannel
      <3>4. Last(cached) \in Elem
        BY <3>1, FrontLast
      <3> QED
        BY <3>1, <3>3, <3>4
    <2>5. CASE ~(want /\ cached # <<>>)
      <3>1. cached' = cached /\ held' = held
        BY <1>17, <2>5 DEF EndScan
      <3> QED
        BY <2>2, <3>1 DEF InChannel, InCache
    <2> QED
      BY <2>4, <2>5
  <1>18. CASE UNCHANGED vars
    <2>1. UNCHANGED <<batch, arg, ring, cached, held>>
      BY <1>18 DEF vars, consumerVars
    <2> QED
      BY <2>1 DEF InChannel, InBatch, InOp, InRing, InCache
  <1> QED
    BY <1>1, <1>2, <1>3, <1>4, <1>5, <1>6, <1>7, <1>8, <1>9, <1>10,
       <1>11, <1>12, <1>13, <1>14, <1>15, <1>16, <1>17, <1>18
       DEF Next, Consumer, Scan, Running, Call, Aborted
-----------------------------------------------------------------------------
(* The theorems.                                                           *)

(* The inductive invariant holds in every state of every behaviour. *)
THEOREM Invariance == Spec => [](Inv1 /\ Inv2 /\ Inv3)
  <1>1. Init => Inv1 /\ Inv2 /\ Inv3
    BY Inv1Init, Inv2Init, Inv3Init
  <1>2. (Inv1 /\ Inv2 /\ Inv3) /\ [Next]_vars => (Inv1 /\ Inv2 /\ Inv3)'
    BY Inv1Step, Inv2Step, Inv3Step
  <1> QED
    BY <1>1, <1>2, PTL DEF Spec

(* Every variable keeps its type, for any threads, handles and capacities. *)
THEOREM TypeCorrect == Spec => []TypeOK
  <1>1. Inv1 => TypeOK
    BY DEF Inv1
  <1> QED
    BY <1>1, Invariance, PTL

(* The unchecked group writes of pop_all stay inside the cache. *)
THEOREM CacheNeverOverflows == Spec => []CacheBound
  <1>1. Inv1 => CacheBound
    BY DEF Inv1
  <1> QED
    BY <1>1, Invariance, PTL

(* The registry lists exactly the live rings, each once, whatever threads  *)
(* register, clones are dropped and scans run meanwhile (add, remove).     *)
THEOREM RegistrySafe == Spec => []RegistryMatches
  <1>1. Inv2 => RegistryMatches
    BY DEF Inv2
  <1> QED
    BY <1>1, Invariance, PTL

(* The assertion of remove() holds: the process aborts only when the       *)
(* registry is full (ArrayVec::push).                                      *)
THEOREM AbortExplained == Spec => []AbortOnlyWhenFull
  <1>1. Inv2 => AbortOnlyWhenFull
    BY DEF Inv2
  <1> QED
    BY <1>1, Invariance, PTL

(* While the last handle destroys the ThreadLocal and removes its rings,   *)
(* every other handle is gone (Drop for the shared producer).              *)
THEOREM TeardownExclusive == Spec => []TeardownAlone
  <1>1. Inv2 => TeardownAlone
    BY DEF Inv2
  <1> QED
    BY <1>1, Invariance, PTL

(* No descriptor is ever in two places: the channel never duplicates one   *)
(* and never delivers one that a client still holds.                       *)
THEOREM ExclusiveOwnership == Spec => []Exclusive
  <1>1. Inv3 => Exclusive
    BY ApartIsExclusive
  <1> QED
    BY <1>1, Invariance, PTL

(* A descriptor disappears only in a flush that drains an incomplete batch *)
(* or finds the ring full, or in the teardown after the last drop.         *)
THEOREM LossesExplained == Spec => LossOnlyWhenDrained
  <1>1. ChannelStep => LossStep
    <2> SUFFICES ASSUME ChannelStep, NEW e \in Lost', e \notin Lost
                 PROVE  \/ \E h \in Handle :
                             /\ e \in Range(batch[h])
                             /\ Len(batch[h]) < Batch \/ Len(ring[owner[h]]) >= SpscLen
                        \/ \E h \in Handle : pc[h] = "teardown"
      BY DEF LossStep
    <2>1. /\ e \in held \cup InChannel
          /\ e \notin held' \cup InChannel'
      BY DEF Lost
    <2>2. PICK S \in SUBSET InChannel :
             DroppedFrom(S) /\ held' = held /\ InChannel' = InChannel \ S
      BY <2>1 DEF ChannelStep
    <2>3. e \in S
      BY <2>1, <2>2
    <2> QED
      BY <2>2, <2>3 DEF DroppedFrom
  <1>2. Inv1 /\ Inv2 /\ Inv3 /\ [Next]_vars => [LossStep]_vars
    BY <1>1, StepIsChannelStep
  <1> QED
    BY <1>2, Invariance, PTL DEF Spec, LossOnlyWhenDrained

(* The channel implements its abstract specification DescriptorPool. *)
THEOREM ImplementsPool == Spec => PoolSpec
  <1>1. Init => Pool!Init
    <2> SUFFICES ASSUME Init
                 PROVE  Pool!Init
      OBVIOUS
    <2>1. InBatch = {} /\ InOp = {} /\ InRing = {} /\ InCache = {}
      BY EmptyDistinct DEF Init, InBatch, InOp, InRing, InCache
    <2> QED
      BY <2>1 DEF Init, Pool!Init, InChannel, Lost
  <1>2. Inv1 /\ Inv3 /\ ChannelStep => [Pool!Next]_(Pool!poolVars)
    <2> SUFFICES ASSUME Inv1, Inv3, ChannelStep
                 PROVE  [Pool!Next]_(Pool!poolVars)
      OBVIOUS
    <2>1. held \subseteq Elem /\ held \cap InChannel = {}
      BY ApartIsExclusive DEF Inv1, TypeOK, Exclusive
    <2>2. InChannel \subseteq Elem
      <3>1. \A h \in Handle : Range(batch[h]) \subseteq Elem
        BY LenProperties DEF Inv1, TypeOK, Range
      <3>2. InOp \subseteq Elem
        BY DEF Inv1, TypeOK, InOp
      <3>3. \A t \in Thread : Flat(ring[t]) \subseteq Elem
        <4> SUFFICES ASSUME NEW t \in Thread, NEW i \in 1..Len(ring[t]),
                            NEW k \in 1..Batch
                     PROVE  ring[t][i][k] \in Elem
          BY DEF Flat
        <4>1. ring[t] \in Seq(Group)
          BY DEF Inv1, TypeOK
        <4>2. ring[t][i] \in Group
          BY <4>1, ElementOfSeq
        <4> QED
          BY <4>2 DEF Group
      <3>4. InCache \subseteq Elem
        BY LenProperties DEF Inv1, TypeOK, Range, InCache
      <3> QED
        BY <3>1, <3>2, <3>3, <3>4 DEF InChannel, InBatch, InRing
    <2>3. CASE held' = held /\ InChannel' = InChannel
      BY <2>3 DEF Pool!poolVars, Lost
    <2>4. ASSUME NEW e \in Elem, e \in held, held' = held \ {e},
                 InChannel' = InChannel \cup {e}
          PROVE  Pool!Next
      <3>1. Lost' = Lost
        BY <2>1, <2>4 DEF Lost
      <3> QED
        BY <2>4, <3>1 DEF Pool!Next, Pool!Put
    <2>5. ASSUME NEW e \in Elem, e \in InChannel, held' = held \cup {e},
                 InChannel' = InChannel \ {e}
          PROVE  Pool!Next
      <3>1. Lost' = Lost
        BY <2>1, <2>5 DEF Lost
      <3> QED
        BY <2>5, <3>1 DEF Pool!Next, Pool!Get
    <2>6. ASSUME NEW S \in SUBSET InChannel, held' = held,
                 InChannel' = InChannel \ S
          PROVE  Pool!Next
      <3>1. Lost' = Lost \cup S
        BY <2>1, <2>2, <2>6 DEF Lost
      <3> QED
        BY <2>6, <3>1 DEF Pool!Next, Pool!Lose
    <2> QED
      BY <2>3, <2>4, <2>5, <2>6 DEF ChannelStep
  <1>3. Inv1 /\ Inv2 /\ Inv3 /\ [Next]_vars => [Pool!Next]_(Pool!poolVars)
    BY <1>2, StepIsChannelStep
  <1> QED
    BY <1>1, <1>3, Invariance, PTL DEF Spec, PoolSpec, Pool!Spec
=============================================================================
