----------------------------- MODULE ForwardMt -----------------------------
(***************************************************************************)
(* examples/forward_mt.rs: the main thread receives tokens and pushes them *)
(* to a bounded ring; a second thread pops them, sends the packets and     *)
(* drops the payloads, which returns the buffers to the socket's pool.     *)
(* Both run until Ctrl-C sets `term`.  The pool is the set of its free     *)
(* buffers, as in DescriptorPool.                                          *)
(***************************************************************************)
EXTENDS Naturals, Sequences, FiniteSets

CONSTANTS
    Buf,        \* buffers of the input socket
    RingSize    \* capacity of the token ring

ASSUME ForwardMtAssumption == IsFiniteSet(Buf) /\ RingSize \in Nat \ {0}

VARIABLES
    term,       \* the termination flag
    free,       \* buffers recv_token can still hand out
    ring,       \* tokens in the ring
    main,       \* where the main thread is
    tok,        \* the token it is pushing, if any
    worker,     \* where the consumer thread is
    payload     \* the payload it is sending, if any

vars == <<term, free, ring, main, tok, worker, payload>>

Init ==
    /\ term = FALSE
    /\ free = Buf
    /\ ring = <<>>
    /\ main = "loop" /\ tok = <<>>
    /\ worker = "loop" /\ payload = <<>>

(* The Ctrl-C handler. *)
SetTerm ==
    /\ ~term
    /\ term' = TRUE
    /\ UNCHANGED <<free, ring, main, tok, worker, payload>>
-----------------------------------------------------------------------------
(* The main thread: while !term, receive and push, spinning while the ring *)
(* is full; then join the consumer.                                        *)
MainEnter ==
    /\ main = "loop"
    /\ main' = IF term THEN "join" ELSE "recv"
    /\ UNCHANGED <<term, free, ring, tok, worker, payload>>

RecvToken(b) ==
    /\ main = "recv"
    /\ b \in free
    /\ free' = free \ {b}
    /\ tok' = <<b>>
    /\ main' = "push"
    /\ UNCHANGED <<term, ring, worker, payload>>

(* recv_token fails: no packet, or no buffer. *)
RecvError ==
    /\ main = "recv"
    /\ main' = "loop"
    /\ UNCHANGED <<term, free, ring, tok, worker, payload>>

(* try_push, with room in the ring. *)
TryPush ==
    /\ main = "push"
    /\ Len(ring) < RingSize
    /\ ring' = ring \o tok
    /\ tok' = <<>>
    /\ main' = "loop"
    /\ UNCHANGED <<term, free, worker, payload>>

(* The ring is full: try_push returns the token, the thread yields and     *)
(* tries again; `term` is not looked at.                                   *)
Spin ==
    /\ main = "push"
    /\ Len(ring) = RingSize
    /\ UNCHANGED vars

Join ==
    /\ main = "join"
    /\ worker = "done"
    /\ main' = "done"
    /\ UNCHANGED <<term, free, ring, tok, worker, payload>>
-----------------------------------------------------------------------------
(* Mutant of WorkerEnter: the consumer ends when it finds no token. *)
WorkerEnter_EndsWhenEmpty ==
    /\ worker = "loop"
    /\ worker' = IF term \/ ring = <<>> THEN "done" ELSE "pop"
    /\ UNCHANGED <<term, free, ring, main, tok, payload>>

(* The consumer thread: while !term, pop a token or yield. *)
WorkerEnter ==
    /\ worker = "loop"
    /\ worker' = IF term THEN "done" ELSE "pop"
    /\ UNCHANGED <<term, free, ring, main, tok, payload>>

(* Mutant of TryPop: the newest token is taken. *)
TryPop_Newest ==
    /\ worker = "pop"
    /\ ring # <<>>
    /\ payload' = <<ring[Len(ring)]>>
    /\ ring' = SubSeq(ring, 1, Len(ring) - 1)
    /\ worker' = "send"
    /\ UNCHANGED <<term, free, main, tok>>

TryPop ==
    /\ worker = "pop"
    /\ ring # <<>>
    /\ payload' = <<Head(ring)>>
    /\ ring' = Tail(ring)
    /\ worker' = "send"
    /\ UNCHANGED <<term, free, main, tok>>

PopNone ==
    /\ worker = "pop"
    /\ ring = <<>>
    /\ worker' = "loop"
    /\ UNCHANGED <<term, free, ring, main, tok, payload>>

(* Mutant of SendPayload: a payload whose send failed is not dropped. *)
SendPayload_LeaksOnError ==
    /\ worker = "send"
    /\ \E sent \in BOOLEAN : free' = IF sent THEN free \cup {payload[1]} ELSE free
    /\ payload' = <<>>
    /\ worker' = "loop"
    /\ UNCHANGED <<term, ring, main, tok>>

(* Send and flush, or `continue` on an error: the payload is dropped at    *)
(* the end of its scope either way.                                        *)
SendPayload ==
    /\ worker = "send"
    /\ free' = free \cup {payload[1]}
    /\ payload' = <<>>
    /\ worker' = "loop"
    /\ UNCHANGED <<term, ring, main, tok>>
-----------------------------------------------------------------------------
Finished == main = "done" /\ worker = "done" /\ UNCHANGED vars

MainStep == MainEnter \/ (\E b \in Buf : RecvToken(b)) \/ RecvError \/ TryPush \/ Spin \/ Join
WorkerStep == WorkerEnter \/ TryPop \/ PopNone \/ SendPayload

Next ==
    \/ SetTerm
    \/ MainEnter \/ (\E b \in Buf : RecvToken(b)) \/ RecvError \/ TryPush \/ Spin \/ Join
    \/ WorkerEnter \/ TryPop \/ PopNone \/ SendPayload
    \/ Finished

Spec == Init /\ [][Next]_vars

(* Both threads are scheduled; Ctrl-C need not come. *)
FairSpec == Spec /\ WF_vars(MainStep) /\ WF_vars(WorkerStep)
-----------------------------------------------------------------------------
(* The order in which buffers are handed from thread to thread. *)
InFlight == payload \o ring \o tok
Held == {InFlight[i] : i \in DOMAIN InFlight}

(* Every buffer is free or in flight, in one place only, across the two    *)
(* threads (recv_token, try_push, try_pop, drop of the payload).           *)
Partitioned ==
    /\ free = Buf \ Held
    /\ Cardinality(Held) = Len(InFlight)

(* Packets are forwarded in the order they were received: what is in       *)
(* flight is entered at its end and left at its head (try_push, try_pop).  *)
InOrder ==
    [][ \/ UNCHANGED InFlight
        \/ \E b \in Buf : InFlight' = Append(InFlight, b)
        \/ InFlight # <<>> /\ InFlight' = Tail(InFlight) ]_vars

(* While the program runs, every received packet is forwarded and its      *)
(* buffer returned: the two loops never wait for each other for good       *)
(* (try_push on a full ring, try_pop on an empty one).                     *)
Forwarded == \A b \in Buf : b \in Held ~> (b \in free \/ term)

(* After Ctrl-C the main thread waits for the consumer and ends (the while *)
(* loops, join).                                                           *)
Terminates == term ~> (main = "done")
=============================================================================
