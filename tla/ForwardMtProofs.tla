-------------------------- MODULE ForwardMtProofs --------------------------
(***************************************************************************)
(* Theorems about ForwardMt, for any number of buffers and any capacity of *)
(* the token ring.  The inductive invariant ties the token and the payload *)
(* to where the threads are; seen through the sequence of the buffers in   *)
(* flight, every step of the two threads is then a step of a queue.        *)
(***************************************************************************)
EXTENDS ForwardMt, FiniteSetTheorems, SequenceTheorems, TLAPS

TypeOK ==
    /\ term \in BOOLEAN
    /\ free \subseteq Buf
    /\ ring \in Seq(Buf)
    /\ main \in {"loop", "recv", "push", "join", "done"}
    /\ worker \in {"loop", "pop", "send", "done"}
    /\ tok \in Seq(Buf) /\ payload \in Seq(Buf)
    /\ IF main = "push" THEN \E b \in Buf : tok = <<b>> ELSE tok = <<>>
    /\ IF worker = "send" THEN \E b \in Buf : payload = <<b>> ELSE payload = <<>>

(* No buffer is in flight twice, and the others are free. *)
Distinct == \A i, j \in DOMAIN InFlight : InFlight[i] = InFlight[j] => i = j

Inv == TypeOK /\ Distinct /\ free = Buf \ Held
-----------------------------------------------------------------------------
LEMMA TypeInit == Init => TypeOK
  <1> SUFFICES ASSUME Init
               PROVE  TypeOK
    OBVIOUS
  <1>1. <<>> \in Seq(Buf)
    OBVIOUS
  <1> QED
    BY <1>1 DEF Init, TypeOK

LEMMA TypeStep == TypeOK /\ [Next]_vars => TypeOK'
  <1> SUFFICES ASSUME TypeOK, [Next]_vars
               PROVE  TypeOK'
    OBVIOUS
  <1> USE DEF TypeOK
  <1>1. CASE SetTerm
    BY <1>1 DEF SetTerm
  <1>2. CASE MainEnter
    BY <1>2 DEF MainEnter
  <1>3. ASSUME NEW b \in Buf, RecvToken(b)
        PROVE  TypeOK'
    BY <1>3 DEF RecvToken
  <1>4. CASE RecvError
    BY <1>4 DEF RecvError
  <1>5. CASE TryPush
    BY <1>5 DEF TryPush
  <1>6. CASE Join
    BY <1>6 DEF Join
  <1>7. CASE WorkerEnter
    BY <1>7 DEF WorkerEnter
  <1>8. CASE TryPop
    <2>1. Head(ring) \in Buf /\ Tail(ring) \in Seq(Buf)
      BY <1>8, HeadTailProperties DEF TryPop
    <2> QED
      BY <1>8, <2>1 DEF TryPop
  <1>9. CASE PopNone
    BY <1>9 DEF PopNone
  <1>10. CASE SendPayload
    BY <1>10 DEF SendPayload
  <1>11. CASE UNCHANGED vars
    BY <1>11 DEF vars
  <1> QED
    BY <1>1, <1>2, <1>3, <1>4, <1>5, <1>6, <1>7, <1>8, <1>9, <1>10, <1>11
       DEF Next, Spin, Finished

(* Seen from outside, the program is a queue: a step enters a free buffer  *)
(* at its end, frees the one at its head, or leaves the queue alone.       *)
QueueStep ==
    \/ InFlight' = InFlight /\ free' = free
    \/ \E b \in free : InFlight' = Append(InFlight, b) /\ free' = free \ {b}
    \/ /\ InFlight # <<>> /\ InFlight' = Tail(InFlight)
       /\ free' = free \cup {InFlight[1]}

LEMMA StepsOfAQueue == TypeOK /\ [Next]_vars => QueueStep
  <1> SUFFICES ASSUME TypeOK, [Next]_vars
               PROVE  QueueStep
    OBVIOUS
  <1>1. InFlight \in Seq(Buf)
    BY DEF TypeOK, InFlight
  <1>2. CASE UNCHANGED <<free, payload, ring, tok>>
    BY <1>2 DEF QueueStep, InFlight
  <1>3. ASSUME NEW b \in Buf, RecvToken(b)
        PROVE  QueueStep
    <2>1. tok = <<>> /\ tok' = <<b>> /\ payload' = payload /\ ring' = ring
          /\ b \in free /\ free' = free \ {b}
      BY <1>3 DEF RecvToken, TypeOK
    <2>2. InFlight' = Append(InFlight, b)
      BY <2>1, SMT DEF InFlight, TypeOK
    <2> QED
      BY <2>1, <2>2 DEF QueueStep
  <1>4. CASE TryPush
    <2>1. tok' = <<>> /\ payload' = payload /\ ring' = ring \o tok /\ free' = free
      BY <1>4 DEF TryPush
    <2>2. InFlight' = (payload \o (ring \o tok)) \o <<>>
      BY <2>1 DEF InFlight
    <2>3. InFlight' = InFlight
      BY <2>2, ConcatAssociative, ConcatEmptySeq, ConcatProperties, SMTT(40) DEF InFlight, TypeOK
    <2> QED
      BY <2>1, <2>3 DEF QueueStep
  <1>5. CASE TryPop
    <2>1. /\ payload = <<>> /\ payload' = <<Head(ring)>>
          /\ ring # <<>> /\ ring' = Tail(ring) /\ tok' = tok /\ free' = free
      BY <1>5 DEF TryPop, TypeOK
    <2>2. <<Head(ring)>> \o Tail(ring) = ring /\ <<>> \o ring = ring
      BY <2>1 DEF TypeOK
    <2> QED
      BY <2>1, <2>2 DEF QueueStep, InFlight
  <1>6. CASE SendPayload
    <2>1. PICK b \in Buf : payload = <<b>>
      BY <1>6 DEF SendPayload, TypeOK
    <2>2. payload' = <<>> /\ ring' = ring /\ tok' = tok /\ free' = free \cup {b}
      BY <1>6, <2>1 DEF SendPayload
    <2>3. InFlight = (<<b>> \o ring) \o tok /\ InFlight' = (<<>> \o ring) \o tok
      BY <2>1, <2>2 DEF InFlight
    <2>4. InFlight # <<>> /\ InFlight[1] = b /\ InFlight' = Tail(InFlight)
      BY <2>3, SMTT(40) DEF TypeOK
    <2> QED
      BY <2>2, <2>4 DEF QueueStep
  <1> QED
    BY <1>2, <1>3, <1>4, <1>5, <1>6
       DEF Next, SetTerm, MainEnter, RecvError, Spin, Join, WorkerEnter, PopNone, Finished, vars

LEMMA InvInit == Init => Inv
  <1> SUFFICES ASSUME Init
               PROVE  Inv
    OBVIOUS
  <1>1. InFlight = <<>>
    BY DEF Init, InFlight
  <1> QED
    BY <1>1, TypeInit DEF Init, Inv, Distinct, Held

LEMMA InvStep == Inv /\ [Next]_vars => Inv'
  <1> SUFFICES ASSUME Inv, [Next]_vars
               PROVE  Inv'
    OBVIOUS
  <1>1. TypeOK /\ TypeOK'
    BY TypeStep DEF Inv
  <1>2. InFlight \in Seq(Buf) /\ InFlight' \in Seq(Buf)
    BY <1>1 DEF TypeOK, InFlight
  <1>3. Distinct /\ free = Buf \ Held
    BY DEF Inv
  <1>4. CASE InFlight' = InFlight /\ free' = free
    BY <1>1, <1>3, <1>4 DEF Inv, Distinct, Held
  <1>5. ASSUME NEW b \in free, InFlight' = Append(InFlight, b), free' = free \ {b}
        PROVE  Inv'
    <2> DEFINE n == Len(InFlight)
    <2>1. /\ n \in Nat /\ DOMAIN InFlight = 1..n /\ DOMAIN InFlight' = 1..(n + 1)
          /\ InFlight'[n + 1] = b /\ \A i \in 1..n : InFlight'[i] = InFlight[i]
      BY <1>2, <1>5
    <2>2. Held' = Held \cup {b}
      BY <2>1, SMT DEF Held
    <2>3. b \notin Held
      BY <1>3, <1>5
    <2>4. \A i \in 1..n : InFlight[i] # b
      BY <2>1, <2>3 DEF Held
    <2>5. Distinct'
      BY <1>3, <2>1, <2>4 DEF Distinct
    <2> QED
      BY <1>1, <1>3, <1>5, <2>2, <2>5 DEF Inv
  <1>6. CASE InFlight # <<>> /\ InFlight' = Tail(InFlight) /\ free' = free \cup {InFlight[1]}
    <2> DEFINE n == Len(InFlight)
    <2>1. /\ n \in Nat /\ n > 0 /\ DOMAIN InFlight = 1..n /\ DOMAIN InFlight' = 1..(n - 1)
          /\ \A i \in 1..(n - 1) : InFlight'[i] = InFlight[i + 1]
      BY <1>2, <1>6
    <2>2. Distinct'
      BY <1>3, <2>1 DEF Distinct
    <2>3. \A i \in 2..n : InFlight[i] # InFlight[1]
      BY <1>3, <2>1 DEF Distinct
    <2>4. Held' = Held \ {InFlight[1]}
      <3>1. \A x : x \in Held' <=> \E i \in 1..(n - 1) : x = InFlight[i + 1]
        BY <2>1 DEF Held
      <3>2. \A x : (\E i \in 1..(n - 1) : x = InFlight[i + 1]) <=> (\E i \in 2..n : x = InFlight[i])
        <4>1. ASSUME NEW i \in 2..n PROVE i - 1 \in 1..(n - 1) /\ (i - 1) + 1 = i
          BY <2>1
        <4>2. ASSUME NEW i \in 1..(n - 1) PROVE i + 1 \in 2..n
          BY <2>1
        <4> QED
          BY <4>1, <4>2
      <3>3. \A x : x \in Held <=> x = InFlight[1] \/ \E i \in 2..n : x = InFlight[i]
        <4>1. \A i : i \in 1..n <=> i = 1 \/ i \in 2..n
          BY <2>1
        <4> QED
          BY <2>1, <4>1 DEF Held
      <3> QED
        BY <2>3, <3>1, <3>2, <3>3
    <2>5. InFlight[1] \in Buf
      BY <1>2, <2>1
    <2> QED
      BY <1>1, <1>3, <1>6, <2>2, <2>4, <2>5 DEF Inv
  <1> QED
    BY <1>1, <1>4, <1>5, <1>6, StepsOfAQueue DEF QueueStep

LEMMA Invariance == Spec => []Inv
  BY InvInit, InvStep, PTL DEF Spec
-----------------------------------------------------------------------------
(* Every buffer is free or in flight in one place only, whatever the       *)
(* capacity of the ring and the schedule of the two threads (recv_token,   *)
(* try_push, try_pop, drop of the payload): the example neither leaks a    *)
(* buffer nor hands one out twice.                                         *)
THEOREM BuffersPartitioned == Spec => []Partitioned
  <1>1. Inv => Partitioned
    <2> SUFFICES ASSUME Inv
                 PROVE  Cardinality(Held) = Len(InFlight)
      BY DEF Partitioned, Inv
    <2> DEFINE n == Len(InFlight)
    <2>1. InFlight \in Seq(Buf)
      BY DEF Inv, TypeOK, InFlight
    <2>2. n \in Nat /\ DOMAIN InFlight = 1..n /\ InFlight \in [1..n -> Held]
      <3>1. n \in Nat /\ InFlight \in [1..n -> Buf] /\ DOMAIN InFlight = 1..n
        BY <2>1, LenProperties
      <3> QED
        BY <3>1 DEF Held
    <2>3. InFlight \in Bijection(1..n, Held)
      BY <2>2 DEF Bijection, Injection, Surjection, IsInjective, Inv, Distinct, Held
    <2>4. ExistsBijection(1..n, Held)
      BY <2>3 DEF ExistsBijection
    <2> QED
      BY <2>2, <2>4, FS_CountingElements
  <1> QED
    BY <1>1, Invariance, PTL

(* Packets are forwarded in the order they were received: every step of    *)
(* the two threads enters a buffer at the end of what is in flight, takes  *)
(* the one at its head, or leaves the order alone (try_push, try_pop).     *)
THEOREM ForwardedInOrder == Spec => InOrder
  <1>1. Inv /\ [Next]_vars =>
            [ \/ UNCHANGED InFlight
              \/ \E b \in Buf : InFlight' = Append(InFlight, b)
              \/ InFlight # <<>> /\ InFlight' = Tail(InFlight) ]_vars
    BY StepsOfAQueue DEF QueueStep, Inv, TypeOK
  <1> QED
    BY <1>1, Invariance, PTL DEF Spec, InOrder
=============================================================================
