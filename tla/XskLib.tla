------------------------------- MODULE XskLib -------------------------------
(***************************************************************************)
(* Life cycle of a UMEM and of its sockets: xsk_umem__create,              *)
(* xsk_socket__create(_shared), xsk_socket__delete and xsk_umem__delete of *)
(* libxdp's xsk.c, and their callers Umem and XskSocket of                 *)
(* src/af_xdp/wrapper.rs.  The library is called by one thread at a time;  *)
(* any system call of it may fail, and each error path undoes what the     *)
(* call did so far.                                                        *)
(*                                                                         *)
(* A file descriptor is named by who opened it: the UMEM or a socket.  A   *)
(* mapping is a pair of a ring and the descriptor it was mapped from; it   *)
(* can outlive that descriptor, in a context other sockets share, so a     *)
(* descriptor that was bound is not named again after it is closed: a      *)
(* client that goes on creating sockets takes new members of Sock.  The    *)
(* calls always pass INHIBIT_PROG_LOAD, as wrapper.rs does, so the XDP     *)
(* program and its reference count play no part.                           *)
(***************************************************************************)
EXTENDS Integers, FiniteSets

CONSTANTS
    Sock,       \* sockets the client creates; each handle serves for one that succeeds
    Queue,      \* queues of one interface
    UmemFd,     \* the descriptor of the UMEM
    None,       \* a null pointer
    MaxLost,    \* bound on the calls that fail in socket()
    MaxSkips    \* bound on the error paths that leave mappings behind

Fd == {UmemFd} \cup Sock
Dirs == {{"rx"}, {"tx"}, {"rx", "tx"}}

ASSUME XskLibAssumption ==
    /\ UmemFd \notin Sock
    /\ None \notin Sock \cup Queue \cup [q : Queue, fd : Fd, dirs : Dirs]
    /\ IsFiniteSet(Sock)
    /\ MaxLost \in Nat /\ MaxSkips \in Nat

Rings(fd) == {"fill", "comp"} \X {fd}

VARIABLES
    umem,       \* "none", "live", "deleted", or "stuck": delete said EBUSY in Drop
    lib,        \* struct xsk_umem with its contexts, and the process's resources
    sock,       \* struct xsk_socket of each handle, or None
    orphans,    \* sockets whose handle is gone although they were never deleted
    lostRefs,   \* history: references of calls that failed in socket()
    skips,      \* history: the sets of mappings that error paths left behind
    torn        \* history: the UMEM's rings were unmapped by a failed create

vars == <<umem, lib, sock, orphans, lostRefs, skips, torn>>

Skipped == UNION skips
-----------------------------------------------------------------------------
NoCtx == [rc |-> 0, map |-> None]

Init ==
    /\ umem = "none"
    /\ lib = [refcount |-> 0, saved |-> FALSE, bound |-> {},
              ctx |-> [q \in Queue |-> NoCtx], fds |-> {}, maps |-> {}]
    /\ sock = [s \in Sock |-> None]
    /\ orphans = {}
    /\ lostRefs = 0
    /\ skips = {}
    /\ torn = FALSE

(* Mappings m stay behind, within the bound. *)
Skip(m) ==
    IF m = {} THEN UNCHANGED skips
    ELSE Cardinality(skips) < MaxSkips /\ skips' = skips \cup {m}

(* xsk_umem__create: the fill and completion rings are mapped from the     *)
(* UMEM's descriptor and remembered in fill_save and comp_save.            *)
UmemCreate ==
    /\ umem = "none"
    /\ umem' = "live"
    /\ lib' = [lib EXCEPT !.fds = {UmemFd}, !.maps = Rings(UmemFd), !.saved = TRUE]
    /\ UNCHANGED <<sock, orphans, lostRefs, skips, torn>>

(* The second mmap of xsk_create_umem_rings fails: the error path unmaps   *)
(* MAP_FAILED, not the fill ring, then the descriptor is closed.  Earlier  *)
(* failures leave nothing behind.                                          *)
UmemCreateFails ==
    /\ umem = "none"
    /\ umem' = "deleted"
    /\ \E m \in {{}, {<<"fill", UmemFd>>}} : Skip(m) /\ lib' = [lib EXCEPT !.maps = m]
    /\ UNCHANGED <<sock, orphans, lostRefs, torn>>
-----------------------------------------------------------------------------
(* The descriptor of a new socket: the UMEM's own for the first reference, *)
(* a fresh one otherwise.                                                  *)
FdOf(s) == IF lib.refcount > 0 THEN s ELSE UmemFd
Opened(s) == [lib EXCEPT !.refcount = @ + 1, !.fds = @ \cup {FdOf(s)}]

(* xsk_get_ctx, or xsk_create_ctx with the saved rings or new ones.  The   *)
(* kernel refuses new rings for a socket that is bound (external).         *)
NeedsCtx(q) == lib.ctx[q] = NoCtx
CtxPossible(q, fd, own) ==
    NeedsCtx(q) => (own \/ lib.saved) /\ (lib.saved \/ fd \notin lib.bound)

GetCtx(l, q, fd) ==
    IF l.ctx[q] # NoCtx THEN [l EXCEPT !.ctx[q].rc = @ + 1]
    ELSE IF l.saved THEN [l EXCEPT !.ctx[q] = [rc |-> 1, map |-> UmemFd]]
    ELSE [l EXCEPT !.ctx[q] = [rc |-> 1, map |-> fd], !.maps = @ \cup Rings(fd)]

(* Mutant of PutCtx: the context goes with the first socket that uses it. *)
PutCtx_NoCount(l, q, unmap) ==
    [l EXCEPT !.ctx[q] = NoCtx,
              !.maps = IF unmap THEN @ \ Rings(l.ctx[q].map) ELSE @]

(* xsk_put_ctx *)
PutCtx(l, q, unmap) ==
    IF l.ctx[q].rc > 1 THEN [l EXCEPT !.ctx[q].rc = @ - 1]
    ELSE [l EXCEPT !.ctx[q] = NoCtx,
                   !.maps = IF unmap THEN @ \ Rings(l.ctx[q].map) ELSE @]

(* Mutant of OutSocket: the descriptor is always closed. *)
OutSocket_AlwaysCloses(l, fd) ==
    [l EXCEPT !.refcount = @ - 1, !.fds = @ \ {fd}]

(* out_socket: the UMEM's descriptor is not closed. *)
OutSocket(l, fd) ==
    [l EXCEPT !.refcount = @ - 1,
              !.fds = IF l.refcount - 1 # 0 THEN @ \ {fd} ELSE @]

(* A handle whose mappings stayed behind is not used again: descriptors    *)
(* are named by handles.                                                   *)
CreateCall(s) ==
    umem = "live" /\ sock[s] = None /\ \A m \in Skipped : m[2] # s

(* Mutant of Create: fill_save and comp_save are not cleared. *)
Create_KeepsSaved(s, q, own, dirs) ==
    LET fd == FdOf(s)
        l == GetCtx(Opened(s), q, fd)
    IN  /\ CreateCall(s)
        /\ CtxPossible(q, fd, own)
        /\ fd \notin lib.bound
        /\ lib' = [l EXCEPT !.maps = @ \cup dirs \X {fd}, !.bound = @ \cup {fd}]
        /\ sock' = [sock EXCEPT ![s] = [q |-> q, fd |-> fd, dirs |-> dirs]]
        /\ UNCHANGED <<umem, orphans, lostRefs, skips, torn>>

(* xsk_socket__create (own = FALSE: the rings of the UMEM) and             *)
(* xsk_socket__create_shared (own = TRUE) succeed; binding the descriptor  *)
(* works once.                                                             *)
Create(s, q, own, dirs) ==
    LET fd == FdOf(s)
        l == GetCtx(Opened(s), q, fd)
    IN  /\ CreateCall(s)
        /\ CtxPossible(q, fd, own)
        /\ fd \notin lib.bound
        /\ lib' = [l EXCEPT !.maps = @ \cup dirs \X {fd},
                            !.bound = @ \cup {fd}, !.saved = FALSE]
        /\ sock' = [sock EXCEPT ![s] = [q |-> q, fd |-> fd, dirs |-> dirs]]
        /\ UNCHANGED <<umem, orphans, lostRefs, skips, torn>>

(* socket() fails: the reference just counted is not given back. *)
CreateNoSocket(s) ==
    /\ CreateCall(s)
    /\ lib.refcount > 0 /\ lostRefs < MaxLost
    /\ lib' = [lib EXCEPT !.refcount = @ + 1]
    /\ lostRefs' = lostRefs + 1
    /\ UNCHANGED <<umem, sock, orphans, skips, torn>>

(* A failure before there is a context: no rings, no memory, or a system   *)
(* call of xsk_create_umem_rings, which may leave the fill ring mapped.    *)
CreateNoCtx(s, q, own) ==
    LET fd == FdOf(s)
        left == IF NeedsCtx(q) /\ own /\ ~lib.saved /\ fd \notin lib.bound
                THEN {{}, {<<"fill", fd>>}} ELSE {{}}
    IN  /\ CreateCall(s)
        /\ \E m \in left :
              /\ lib' = OutSocket([Opened(s) EXCEPT !.maps = @ \cup m], fd)
              /\ Skip(m)
        /\ UNCHANGED <<umem, sock, orphans, lostRefs, torn>>

(* A failure after that, up to bind.  The RX and TX mappings made so far   *)
(* are unmapped; the context's rings are unmapped too unless they are the  *)
(* UMEM's saved structures, or the offsets cannot be read.  The ring       *)
(* set-up calls made on the UMEM's descriptor (rx_ring_setup_done,         *)
(* tx_ring_setup_done) need no undoing: the next create skips them.        *)
CreateUndone(s, q, own) ==
    LET fd == FdOf(s)
        l == GetCtx(Opened(s), q, fd)
        put == PutCtx(l, q, own)
    IN  /\ CreateCall(s)
        /\ CtxPossible(q, fd, own)
        /\ \E left \in {{}, l.maps \ put.maps} :
              /\ lib' = OutSocket([put EXCEPT !.maps = @ \cup left], fd)
              /\ Skip(left)
              /\ torn' = (torn \/ (NeedsCtx(q) /\ own /\ lib.saved /\ left = {}))
        /\ UNCHANGED <<umem, sock, orphans, lostRefs>>

(* XskSocket::create of wrapper.rs: the map update after a successful      *)
(* create fails, and the socket is forgotten without a delete.             *)
Orphan(s) ==
    /\ sock[s] # None
    /\ s \notin orphans
    /\ orphans' = orphans \cup {s}
    /\ UNCHANGED <<umem, lib, sock, lostRefs, skips, torn>>
-----------------------------------------------------------------------------
(* xsk_socket__delete, from Drop for XskSocket.  When the ring offsets     *)
(* cannot be read from a descriptor its mappings stay: `left`, of the      *)
(* socket's own rings or of the context's.                                 *)
Delete(s) ==
    LET x == sock[s]
        unmapped == [lib EXCEPT !.maps = @ \ (x.dirs \X {x.fd})]
        l == PutCtx(unmapped, x.q, TRUE)
    IN  /\ x # None /\ s \notin orphans
        /\ \E own \in {{}, x.dirs \X {x.fd}}, rings \in {{}, unmapped.maps \ l.maps} :
              /\ lib' = [l EXCEPT !.maps = @ \cup own \cup rings, !.refcount = @ - 1,
                                  !.fds = IF x.fd # UmemFd THEN @ \ {x.fd} ELSE @]
              /\ Skip(own \cup rings)
        /\ sock' = [sock EXCEPT ![s] = None]
        /\ UNCHANGED <<umem, orphans, lostRefs, torn>>

(* xsk_umem__delete, from Drop for Umem, after the sockets were dropped:   *)
(* refused while there are references; the answer is ignored.              *)
UmemDelete ==
    /\ umem = "live"
    /\ \A s \in Sock : sock[s] # None => s \in orphans
    /\ IF lib.refcount # 0
       THEN umem' = "stuck" /\ UNCHANGED <<lib, skips>>
       ELSE /\ umem' = "deleted"
            /\ \E left \in {{}, IF lib.saved THEN Rings(UmemFd) ELSE {}} :
                  /\ lib' = [lib EXCEPT !.maps = IF lib.saved
                                                 THEN (@ \ Rings(UmemFd)) \cup left ELSE @,
                                        !.fds = @ \ {UmemFd}, !.saved = FALSE]
                  /\ Skip(left)
    /\ UNCHANGED <<sock, orphans, lostRefs, torn>>

Next ==
    \/ UmemCreate \/ UmemCreateFails \/ UmemDelete
    \/ \E s \in Sock :
          \/ CreateNoSocket(s) \/ Orphan(s) \/ Delete(s)
          \/ \E q \in Queue, own \in BOOLEAN :
                \/ CreateNoCtx(s, q, own)
                \/ CreateUndone(s, q, own)
                \/ \E dirs \in Dirs : Create(s, q, own, dirs)

Spec == Init /\ [][Next]_vars
-----------------------------------------------------------------------------
Live == {s \in Sock : sock[s] # None}

(* Reference counts are exact through every error path: a context counts   *)
(* its sockets, and the UMEM counts its sockets and the calls that failed  *)
(* in socket(), the only path that forgets one.  So xsk_umem__delete frees *)
(* the UMEM only when nobody uses it, and is refused only for a socket     *)
(* that was orphaned or a reference lost that way.                         *)
RefsExact ==
    /\ lib.refcount = Cardinality(Live) + lostRefs
    /\ \A q \in Queue : lib.ctx[q].rc = Cardinality({s \in Live : sock[s].q = q})
    /\ umem = "stuck" => orphans # {} \/ lostRefs > 0

(* The process holds exactly the descriptors of the live UMEM and of the   *)
(* live sockets: no error path leaks one, and none closes the UMEM's       *)
(* descriptor, which the first socket borrows (out_socket, delete).        *)
FdsExact ==
    lib.fds = (IF umem \in {"live", "stuck"} THEN {UmemFd} ELSE {}) \cup {sock[s].fd : s \in Live}

(* What is mapped is what somebody points to, plus what an error path left *)
(* behind on purpose or by unmapping MAP_FAILED: nobody keeps a ring that  *)
(* was unmapped under him and nothing else leaks.  It holds until a first  *)
(* create_shared with rings of its own fails: that unmaps the rings        *)
(* fill_save still points to (out_put_ctx).                                *)
Owned ==
    (IF lib.saved THEN Rings(UmemFd) ELSE {})
    \cup (UNION {Rings(lib.ctx[q].map) : q \in {p \in Queue : lib.ctx[p] # NoCtx}})
    \cup (UNION {sock[s].dirs \X {sock[s].fd} : s \in Live})
MapsExact == torn \/ (Owned \subseteq lib.maps /\ lib.maps \subseteq Owned \cup Skipped)
=============================================================================
