------------------------------ MODULE Sockets ------------------------------
(***************************************************************************)
(* The sockets of one process and what clients do with their buffers       *)
(* (src/api, and the create, Ctx and drop code of the four backends):      *)
(* sockets are created and dropped, contexts cloned, and a received buffer *)
(* goes from a Token to a Payload and back.  Several threads do so at      *)
(* once; opening a netmap port is two steps, as the registry of names is   *)
(* locked for the first one only.                                          *)
(*                                                                         *)
(* A socket stands for its buffer pool and its context, and a pool is told *)
(* from another by the socket, whereas the code compares pool_id.  What    *)
(* Rust's ownership enforces is in the guards: a token or a payload is     *)
(* moved, and a context is not dropped while a payload borrows it.         *)
(***************************************************************************)
EXTENDS Integers, FiniteSets

CONSTANTS
    Sock,       \* calls of Socket::create, each made once
    Clone,      \* variables that hold a clone of a context
    Name,       \* netmap port specifications
    Buf,        \* buffers of a pool; for pcap, addresses of boxes
    None

Backend == {"af_xdp", "netmap", "dpdk", "pcap"}

ASSUME SocketsAssumption ==
    /\ IsFiniteSet(Sock) /\ IsFiniteSet(Clone)
    /\ None \notin Sock \cup Name \cup Backend
    /\ Sock \cap Clone = {}

VARIABLES
    allocated,  \* ALLOCATED_PORTS
    counter,    \* COUNTER of each backend, NEXT_POOL_ID
    eal,        \* whether rte_eal_init was called
    sock,       \* every socket: its backend, its name, its pool_id and its life
    leaked,     \* netmap ports left open by a create that failed
    clones,     \* the context each variable holds a clone of, or None
    free,       \* the buffers each pool can hand out
    tokens,     \* tokens of the clients
    payloads,   \* their payloads, with the context each one borrows
    gone,       \* buffers whose token was dropped
    mixed       \* history: a context took a buffer of another pool

vars == <<allocated, counter, eal, sock, leaked, clones, free, tokens, payloads, gone, mixed>>
bufVars == <<free, tokens, payloads, gone, mixed>>

(* A buffer read or released through a context of another pool is outside  *)
(* its memory: nothing is said of what follows.                            *)
Defined == ~mixed

NoSock == [b |-> None, name |-> None, id |-> 0, life |-> "none"]

Init ==
    /\ allocated = {}
    /\ counter = [b \in Backend |-> IF b = "pcap" THEN 1 ELSE 0]
    /\ eal = FALSE
    /\ sock = [s \in Sock |-> NoSock]
    /\ leaked = {}
    /\ clones = [c \in Clone |-> None]
    /\ free = [s \in Sock |-> Buf]
    /\ tokens = {} /\ payloads = {} /\ gone = {}
    /\ mixed = FALSE
-----------------------------------------------------------------------------
(* Mutant of NewId: the number of sockets of the backend that are open. *)
NewId_Reuses(b) == Cardinality({s \in Sock : sock[s].b = b /\ sock[s].life = "open"})

(* Ctx::new, PcapContext::new: fetch_add on the backend's own counter. *)
NewId(b) == counter[b]

Becomes(s, b, n, life) ==
    /\ sock' = [sock EXCEPT ![s] = [b |-> b, name |-> n, id |-> NewId(b), life |-> life]]
    /\ counter' = [counter EXCEPT ![b] = @ + 1]

(* create of the af_xdp and the pcap backend: the context, with its        *)
(* number, comes first; then anything may fail.                            *)
Create(s, b) ==
    /\ Defined
    /\ b \in {"af_xdp", "pcap"}
    /\ sock[s] = NoSock
    /\ \E life \in {"open", "failed"} : Becomes(s, b, None, life)
    /\ UNCHANGED <<allocated, eal, leaked, clones, bufVars>>

(* create of the dpdk backend: rte_eal_init succeeds once in a process     *)
(* (external), and the context comes last.                                 *)
CreateDpdk(s) ==
    /\ Defined
    /\ sock[s] = NoSock
    /\ \/ ~eal /\ eal' = TRUE /\ Becomes(s, "dpdk", None, "open")
       \/ /\ eal' \in {eal, TRUE}
          /\ sock' = [sock EXCEPT ![s].life = "failed"]
          /\ UNCHANGED counter
    /\ UNCHANGED <<allocated, leaked, clones, bufVars>>

(* allocate_port: under the mutex, the name is looked up and entered. *)
AllocatePort(n) == n \notin allocated /\ allocated' = allocated \cup {n}

(* Port::open up to there; a name that was entered is refused. *)
OpenPort(s, n) ==
    /\ Defined
    /\ sock[s] = NoSock
    /\ AllocatePort(n)
    /\ sock' = [sock EXCEPT ![s].name = n, ![s].life = "opening"]
    /\ UNCHANGED <<counter, eal, leaked, clones, bufVars>>

OpenRefused(s, n) ==
    /\ Defined
    /\ sock[s] = NoSock
    /\ n \in allocated
    /\ sock' = [sock EXCEPT ![s].life = "failed"]
    /\ UNCHANGED <<allocated, counter, eal, leaked, clones, bufVars>>

(* The rest of Port::open, and of create, in which the context comes last. *)
(* The name stays entered whatever happens, and a port that got too few    *)
(* extra buffers stays open.                                               *)
OpenDone(s) ==
    /\ Defined
    /\ sock[s].life = "opening"
    /\ Becomes(s, "netmap", sock[s].name, "open")
    /\ UNCHANGED <<allocated, eal, leaked, clones, bufVars>>

OpenFails(s) ==
    /\ Defined
    /\ sock[s].life = "opening"
    /\ sock' = [sock EXCEPT ![s].life = "failed"]
    /\ leaked' \in {leaked, leaked \cup {s}}
    /\ UNCHANGED <<allocated, counter, eal, clones, bufVars>>

(* Contexts: the one of an open socket, and the clones. *)
Contexts == {s \in Sock : sock[s].life = "open"} \cup {c \in Clone : clones[c] # None}
PoolOf(c) == IF c \in Sock THEN c ELSE clones[c]
Borrowed(c) == \E p \in payloads : p.ctx = c

(* Mutant of DropSock: the name of the port is given back. *)
DropSock_FreesName(s) ==
    /\ Defined
    /\ sock[s].life = "open"
    /\ ~Borrowed(s)
    /\ sock' = [sock EXCEPT ![s].life = "dropped"]
    /\ allocated' = allocated \ {sock[s].name}
    /\ UNCHANGED <<counter, eal, leaked, clones, bufVars>>

(* Drop of a socket, with its own context. *)
DropSock(s) ==
    /\ Defined
    /\ sock[s].life = "open"
    /\ ~Borrowed(s)
    /\ sock' = [sock EXCEPT ![s].life = "dropped"]
    /\ UNCHANGED <<allocated, counter, eal, leaked, clones, bufVars>>

(* Clone and drop of a context, on any thread. *)
CloneCtx(c, d) ==
    /\ Defined
    /\ clones[c] = None
    /\ d \in Contexts
    /\ clones' = [clones EXCEPT ![c] = PoolOf(d)]
    /\ UNCHANGED <<allocated, counter, eal, sock, leaked, bufVars>>

DropClone(c) ==
    /\ Defined
    /\ clones[c] # None
    /\ ~Borrowed(c)
    /\ clones' = [clones EXCEPT ![c] = None]
    /\ UNCHANGED <<allocated, counter, eal, sock, leaked, bufVars>>

(* Mutant of PortOpen: the context does not keep the port. *)
PortOpen_SockOnly(s) == sock[s].b = "netmap" /\ sock[s].life = "open"

(* A port is closed with the last part that shares it: the transmitter and *)
(* the receiver of the socket, and the buffer pool of every context.       *)
PortOpen(s) ==
    sock[s].b = "netmap" /\ (sock[s].life = "open" \/ \E c \in Clone : clones[c] = s)

(* Memory a payload of pool s gives access to: a UMEM is never unmapped,   *)
(* netmap memory goes with the port, the mempool with the socket's         *)
(* transmitter and receiver, and a box with its release.                   *)
Alive(s, x) ==
    CASE sock[s].b = "af_xdp" -> TRUE
      [] sock[s].b = "netmap" -> PortOpen(s)
      [] sock[s].b = "dpdk" -> sock[s].life = "open"
      [] sock[s].b = "pcap" -> x \notin free[s]
-----------------------------------------------------------------------------
apiVars == <<allocated, counter, eal, sock, leaked, clones>>

(* recv_token; what a backend does to find a packet is its own module. *)
Recv(s, x) ==
    /\ Defined
    /\ sock[s].life = "open"
    /\ x \in free[s]
    /\ free' = [free EXCEPT ![s] = @ \ {x}]
    /\ tokens' = tokens \cup {[pool |-> s, buf |-> x, id |-> sock[s].id]}
    /\ UNCHANGED <<apiVars, payloads, gone, mixed>>

(* Context::check_token *)
CheckToken(c, t) == t.id = sock[PoolOf(c)].id

(* Payload::new *)
Lend(t, c) ==
    /\ t \in tokens /\ c \in Contexts
    /\ tokens' = tokens \ {t}
    /\ payloads' = payloads \cup {[tok |-> t, ctx |-> c]}
    /\ UNCHANGED <<apiVars, free, gone>>

(* Token::consume, Context::packet *)
Consume(t, c) ==
    /\ Defined
    /\ CheckToken(c, t)
    /\ Lend(t, c)
    /\ mixed' = (sock[PoolOf(c)].b # sock[t.pool].b)

(* Payload::new is public as well: a client may leave out the check. *)
LendUnchecked(t, c) ==
    /\ Defined
    /\ Lend(t, c)
    /\ mixed' = (PoolOf(c) # t.pool)

(* packet() panics, or the client drops the token: neither releases the    *)
(* buffer.                                                                 *)
ConsumePanics(t, c) ==
    /\ Defined
    /\ t \in tokens /\ c \in Contexts
    /\ ~CheckToken(c, t)
    /\ tokens' = tokens \ {t}
    /\ gone' = gone \cup {<<t.pool, t.buf>>}
    /\ UNCHANGED <<apiVars, free, payloads, mixed>>

DropToken(t) ==
    /\ Defined
    /\ t \in tokens
    /\ tokens' = tokens \ {t}
    /\ gone' = gone \cup {<<t.pool, t.buf>>}
    /\ UNCHANGED <<apiVars, free, payloads, mixed>>

(* A token that is not consumed is "released back to the pool": the client *)
(* calls Context::release, which checks nothing, on its buffer_desc and    *)
(* drops the token.                                                        *)
ReleaseToken(t, c) ==
    /\ Defined
    /\ t \in tokens /\ c \in Contexts
    /\ tokens' = tokens \ {t}
    /\ free' = [free EXCEPT ![PoolOf(c)] = @ \cup {t.buf}]
    /\ mixed' = (PoolOf(c) # t.pool)
    /\ UNCHANGED <<apiVars, payloads, gone>>

(* Mutant of IntoToken: the payload's Drop runs as well. *)
IntoToken_Releases(p) ==
    /\ Defined
    /\ p \in payloads
    /\ payloads' = payloads \ {p}
    /\ tokens' = tokens \cup {p.tok}
    /\ free' = [free EXCEPT ![PoolOf(p.ctx)] = @ \cup {p.tok.buf}]
    /\ UNCHANGED <<apiVars, gone, mixed>>

(* Payload::into_token *)
IntoToken(p) ==
    /\ Defined
    /\ p \in payloads
    /\ payloads' = payloads \ {p}
    /\ tokens' = tokens \cup {p.tok}
    /\ UNCHANGED <<apiVars, free, gone, mixed>>

(* Drop for Payload: Context::release, to the channel or, for pcap, to the *)
(* allocator.                                                              *)
DropPayload(p) ==
    /\ Defined
    /\ p \in payloads
    /\ payloads' = payloads \ {p}
    /\ free' = [free EXCEPT ![PoolOf(p.ctx)] = @ \cup {p.tok.buf}]
    /\ UNCHANGED <<apiVars, tokens, gone, mixed>>
-----------------------------------------------------------------------------
Next ==
    \/ \E s \in Sock :
          \/ \E b \in Backend : Create(s, b)
          \/ CreateDpdk(s)
          \/ \E n \in Name : OpenPort(s, n) \/ OpenRefused(s, n)
          \/ OpenDone(s) \/ OpenFails(s) \/ DropSock(s)
          \/ \E x \in Buf : Recv(s, x)
    \/ \E c \in Clone : DropClone(c) \/ \E d \in Sock \cup Clone : CloneCtx(c, d)
    \/ \E t \in tokens : DropToken(t)
    \/ \E t \in tokens, c \in Contexts : Consume(t, c)
    \/ \E t \in tokens, c \in Contexts : LendUnchecked(t, c)
    \/ \E t \in tokens, c \in Contexts : ConsumePanics(t, c)
    \/ \E t \in tokens, c \in Contexts : ReleaseToken(t, c)
    \/ \E p \in payloads : IntoToken(p)
    \/ \E p \in payloads : DropPayload(p)

Spec == Init /\ [][Next]_vars
-----------------------------------------------------------------------------
(* Every buffer is in its pool, named by one token, lent to one payload,   *)
(* or was dropped with its token: no path through consume and into_token   *)
(* releases a buffer twice or loses one (Payload::drop, into_token).       *)
OneOwner ==
    mixed \/
    \A s \in Sock, x \in Buf :
        Cardinality({t \in tokens : t.pool = s /\ t.buf = x})
        + Cardinality({p \in payloads : p.tok.pool = s /\ p.tok.buf = x})
        + (IF x \in free[s] THEN 1 ELSE 0)
        + (IF <<s, x>> \in gone THEN 1 ELSE 0) = 1

(* A context that checks takes only tokens of its own pool, if they come   *)
(* from its own backend: identifiers are not used again, also not when a   *)
(* create fails or a socket is dropped while its tokens are still around.  *)
(* Between backends identifiers do coincide, and check_token does not      *)
(* notice (check_token, packet, COUNTER).                                  *)
TokenOfPool ==
    \A p \in payloads : PoolOf(p.ctx) = p.tok.pool \/ mixed

(* Two open ports never have the same name, although a port outlives its   *)
(* socket, and one that a failed create left open is never closed          *)
(* (allocate_port, Port::open, Drop for Port).                             *)
PortExclusive ==
    \A s, t \in {u \in Sock : PortOpen(u) \/ u \in leaked} :
        s # t => sock[s].name # sock[t].name

(* A payload's memory is there as long as the payload is, whatever is      *)
(* dropped in which order; only the dpdk context does not keep its memory, *)
(* and only a clone of it can outlive the socket (Ctx, Drop for Context).  *)
PayloadAlive ==
    \A p \in payloads :
        \/ mixed
        \/ Alive(p.tok.pool, p.tok.buf)
        \/ sock[p.tok.pool].b = "dpdk" /\ p.ctx \in Clone
=============================================================================
