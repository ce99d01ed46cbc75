------------------------------ MODULE Channel ------------------------------
(***************************************************************************)
(* The descriptor channel of crate `mpsc` as one socket sees it when each  *)
(* call runs alone: the socket's own producer handle (Ctx.producer), the   *)
(* ring of its thread and its consumer.  The concurrent channel is module  *)
(* Mpsc; the backends use these operators for the calls they make.         *)
(***************************************************************************)
EXTENDS Integers, Sequences, SequencesExt

CONSTANTS
    Batch,      \* capacity of local_batch and size of a group (16)
    Cache,      \* capacity of Consumer.cached (1024)
    SpscLen     \* capacity of the ring, in groups

ASSUME ChannelAssumption ==
    Batch \in Nat \ {0} /\ Cache \in Nat \ {0} /\ SpscLen \in Nat \ {0}

EmptyChannel == [batch |-> <<>>, ring |-> <<>>, cached |-> <<>>]

(* Producer::flush: only a complete batch is sent, and only if it fits. *)
Flush(c) ==
    [c EXCEPT !.batch = <<>>,
              !.ring = IF Len(c.batch) = Batch /\ Len(@) < SpscLen
                       THEN Append(@, c.batch) ELSE @]

(* Producer::push *)
Push(c, e) ==
    LET d == IF Len(c.batch) < Batch THEN c ELSE Flush(c)
    IN  [d EXCEPT !.batch = Append(@, e)]

PushAll(c, s) == FoldLeft(Push, c, s)

(* Consumer::sync: as many groups as there is room for. *)
Sync(c) ==
    LET room == (Cache - Len(c.cached)) \div Batch
        n == IF Len(c.ring) < room THEN Len(c.ring) ELSE room
    IN  [c EXCEPT !.cached = @ \o FlattenSeq(SubSeq(c.ring, 1, n)),
                  !.ring = SubSeq(@, n + 1, Len(@))]

(* Consumer::pop: the state in which it looks for an element, whether      *)
(* there is one, the element and the state afterwards.                     *)
Ready(c) == IF c.cached = <<>> THEN Sync(c) ELSE c
HasNext(c) == Ready(c).cached # <<>>
NextElem(c) == Last(Ready(c).cached)
Pop(c) == [Ready(c) EXCEPT !.cached = Front(@)]

(* n calls of pop, up to the first that returns None. *)
PopNext(p) ==
    IF HasNext(p.chan)
    THEN [chan |-> Pop(p.chan), got |-> Append(p.got, NextElem(p.chan))]
    ELSE p
PopMany(c, n) ==
    FoldLeft(LAMBDA p, k : PopNext(p), [chan |-> c, got |-> <<>>], [k \in 1..n |-> k])

(* Everything inside the channel, in some order. *)
Contents(c) == c.batch \o FlattenSeq(c.ring) \o c.cached
=============================================================================
