---------------------------- MODULE XskLibProofs ----------------------------
(***************************************************************************)
(* Theorems about XskLib, for any number of sockets and queues.  Counting  *)
(* needs only the sets of sockets that use the UMEM and each context; the  *)
(* mappings also need that no two owners name the same descriptor, which   *)
(* rests on `bound`: a descriptor is bound once.                           *)
(***************************************************************************)
EXTENDS XskLib, FiniteSetTheorems, TLAPS

CtxType == [rc : Nat, map : Fd \cup {None}]
Mapping == {"fill", "comp", "rx", "tx"} \X Fd
LibType ==
    [refcount : Int, saved : BOOLEAN, bound : SUBSET Fd,
     ctx : [Queue -> CtxType], fds : SUBSET Fd, maps : SUBSET Mapping]
SockType == [q : Queue, fd : Fd, dirs : Dirs]

TypeOK ==
    /\ umem \in {"none", "live", "deleted", "stuck"}
    /\ lib \in LibType
    /\ sock \in [Sock -> SockType \cup {None}]
    /\ orphans \subseteq Sock
    /\ lostRefs \in Nat
    /\ torn \in BOOLEAN

(* A context in use names a bound descriptor, and a socket its own or the  *)
(* UMEM's; no descriptor serves two contexts, or two sockets.              *)
InUse(q) == lib.ctx[q] # NoCtx
CtxsApart ==
    \A p, q \in Queue :
        /\ InUse(p) => lib.ctx[p].rc > 0 /\ lib.ctx[p].map \in lib.bound
        /\ InUse(p) /\ InUse(q) /\ lib.ctx[p].map = lib.ctx[q].map => p = q
SocksApart ==
    \A s, t \in Live :
        /\ sock[s].fd \in lib.bound /\ sock[s].fd \in {s, UmemFd}
        /\ sock[s].fd = sock[t].fd => s = t

(* The UMEM's rings are saved until the first socket, which binds the      *)
(* UMEM's descriptor.                                                      *)
Phases ==
    /\ umem = "none" => lib.bound = {}
    /\ umem \in {"none", "deleted"} => lib.refcount - lostRefs = 0 /\ ~lib.saved
    /\ umem \in {"none", "live"} /\ lib.bound = {} => lib.refcount = 0
    /\ lib.saved => lib.bound = {} /\ umem = "live"
    /\ umem = "live" /\ ~lib.saved => UmemFd \in lib.bound

Inv == TypeOK /\ RefsExact /\ CtxsApart /\ SocksApart /\ Phases /\ FdsExact /\ MapsExact
-----------------------------------------------------------------------------
(* A library state by its fields, and the updates the helpers make. *)
Is(g, ref, saved, bound, ctx, fds, maps) ==
    /\ g \in LibType
    /\ g.refcount = ref /\ g.saved = saved /\ g.bound = bound
    /\ g.ctx = ctx /\ g.fds = fds /\ g.maps = maps

LEMMA LibRef ==
    ASSUME NEW l \in LibType, NEW r \in Int
    PROVE  Is([l EXCEPT !.refcount = r],
              r, l.saved, l.bound, l.ctx, l.fds, l.maps)
  BY DEF Is, LibType

LEMMA LibRefFds ==
    ASSUME NEW l \in LibType, NEW r \in Int, NEW f \in SUBSET Fd
    PROVE  Is([l EXCEPT !.refcount = r, !.fds = f],
              r, l.saved, l.bound, l.ctx, f, l.maps)
  BY DEF Is, LibType

LEMMA LibCtx ==
    ASSUME NEW l \in LibType, NEW c \in [Queue -> CtxType]
    PROVE  Is([l EXCEPT !.ctx = c],
              l.refcount, l.saved, l.bound, c, l.fds, l.maps)
  BY DEF Is, LibType

LEMMA LibCtxMaps ==
    ASSUME NEW l \in LibType, NEW c \in [Queue -> CtxType], NEW m \in SUBSET Mapping
    PROVE  Is([l EXCEPT !.ctx = c, !.maps = m],
              l.refcount, l.saved, l.bound, c, l.fds, m)
  BY DEF Is, LibType

LEMMA LibMaps ==
    ASSUME NEW l \in LibType, NEW m \in SUBSET Mapping
    PROVE  Is([l EXCEPT !.maps = m],
              l.refcount, l.saved, l.bound, l.ctx, l.fds, m)
  BY DEF Is, LibType

LEMMA LibMapsBoundSaved ==
    ASSUME NEW l \in LibType, NEW m \in SUBSET Mapping, NEW b \in SUBSET Fd, NEW v \in BOOLEAN
    PROVE  Is([l EXCEPT !.maps = m, !.bound = b, !.saved = v],
              l.refcount, v, b, l.ctx, l.fds, m)
  BY DEF Is, LibType

LEMMA LibMapsRefFds ==
    ASSUME NEW l \in LibType, NEW m \in SUBSET Mapping, NEW r \in Int, NEW f \in SUBSET Fd
    PROVE  Is([l EXCEPT !.maps = m, !.refcount = r, !.fds = f],
              r, l.saved, l.bound, l.ctx, f, m)
  BY DEF Is, LibType

LEMMA LibMapsFdsSaved ==
    ASSUME NEW l \in LibType, NEW m \in SUBSET Mapping, NEW f \in SUBSET Fd, NEW v \in BOOLEAN
    PROVE  Is([l EXCEPT !.maps = m, !.fds = f, !.saved = v],
              l.refcount, v, l.bound, l.ctx, f, m)
  BY DEF Is, LibType

(* What the helpers change. *)
LEMMA OpenedIs ==
    ASSUME TypeOK, NEW s \in Sock
    PROVE  /\ FdOf(s) \in Fd
           /\ Is(Opened(s), lib.refcount + 1, lib.saved, lib.bound, lib.ctx,
                 lib.fds \cup {FdOf(s)}, lib.maps)
  <1>1. FdOf(s) \in Fd
    BY DEF FdOf, Fd
  <1>2. lib.refcount + 1 \in Int /\ lib.fds \cup {FdOf(s)} \in SUBSET Fd /\ lib \in LibType
    BY <1>1 DEF LibType, TypeOK
  <1> QED
    BY <1>1, <1>2, LibRefFds DEF Opened

(* xsk_get_ctx, xsk_create_ctx: one more reference, or a new context. *)
LEMMA GetCtxIs ==
    ASSUME NEW l \in LibType, NEW q \in Queue, NEW fd \in Fd
    PROVE  LET g == GetCtx(l, q, fd)
           IN  /\ Is(g, l.refcount, l.saved, l.bound, g.ctx, l.fds, g.maps)
               /\ \A p \in Queue : p # q => g.ctx[p] = l.ctx[p]
               /\ l.ctx[q] # NoCtx => /\ g.ctx[q] = [rc |-> l.ctx[q].rc + 1, map |-> l.ctx[q].map]
                                      /\ g.maps = l.maps
               /\ l.ctx[q] = NoCtx /\ l.saved => /\ g.ctx[q] = [rc |-> 1, map |-> UmemFd]
                                                 /\ g.maps = l.maps
               /\ l.ctx[q] = NoCtx /\ ~l.saved => /\ g.ctx[q] = [rc |-> 1, map |-> fd]
                                                  /\ g.maps = l.maps \cup Rings(fd)
  <1> DEFINE g == GetCtx(l, q, fd)
             k == IF l.ctx[q] # NoCtx THEN [rc |-> l.ctx[q].rc + 1, map |-> l.ctx[q].map]
                  ELSE IF l.saved THEN [rc |-> 1, map |-> UmemFd]
                  ELSE [rc |-> 1, map |-> fd]
             c == [l.ctx EXCEPT ![q] = k]
             m == IF l.ctx[q] = NoCtx /\ ~l.saved THEN l.maps \cup Rings(fd) ELSE l.maps
  <1>0. l.ctx \in [Queue -> CtxType] /\ l.ctx[q] \in CtxType /\ UmemFd \in Fd /\ l.maps \in SUBSET Mapping
    BY DEF LibType, Fd
  <1>1. k \in CtxType
    BY <1>0 DEF CtxType
  <1>2. m \in SUBSET Mapping
    BY <1>0 DEF Rings, Mapping
  <1>3. c \in [Queue -> CtxType] /\ c[q] = k /\ \A p \in Queue : p # q => c[p] = l.ctx[p]
    <2> HIDE DEF k
    <2> QED
      BY <1>0, <1>1
  <1>4. g = [l EXCEPT !.ctx = c, !.maps = m] \/ (m = l.maps /\ g = [l EXCEPT !.ctx = c])
    <2>1. CASE l.ctx[q] # NoCtx
      <3>1. g = [l EXCEPT !.ctx = [l.ctx EXCEPT ![q] = [l.ctx[q] EXCEPT !.rc = @ + 1]]]
        BY <2>1 DEF GetCtx, LibType
      <3>2. [l.ctx[q] EXCEPT !.rc = @ + 1] = k
        BY <1>0, <2>1 DEF CtxType
      <3> QED
        BY <2>1, <3>1, <3>2
    <2>2. CASE l.ctx[q] = NoCtx /\ l.saved
      BY <2>2 DEF GetCtx, LibType
    <2>3. CASE l.ctx[q] = NoCtx /\ ~l.saved
      BY <2>3 DEF GetCtx, LibType
    <2> QED
      BY <2>1, <2>2, <2>3
  <1>5. Is(g, l.refcount, l.saved, l.bound, c, l.fds, m)
    <2> HIDE DEF c, m, g
    <2> QED
      BY <1>2, <1>3, <1>4, LibCtx, LibCtxMaps
  <1>6. g.ctx = c /\ g.maps = m
    BY <1>5 DEF Is
  <1> HIDE DEF g, c
  <1> QED
    BY <1>3, <1>5, <1>6 DEF g

(* xsk_put_ctx: one reference less, or none and the mappings `kept` stay. *)
IsPut(g, l, q, kept) ==
    \/ g = PutCtx(l, q, TRUE) /\ kept = l.maps \ Rings(l.ctx[q].map)
    \/ g = PutCtx(l, q, FALSE) /\ kept = l.maps

LEMMA PutCtxIs ==
    ASSUME NEW l \in LibType, NEW q \in Queue, NEW g, NEW kept, IsPut(g, l, q, kept)
    PROVE  /\ Is(g, l.refcount, l.saved, l.bound, g.ctx, l.fds, g.maps)
           /\ \A p \in Queue : p # q => g.ctx[p] = l.ctx[p]
           /\ l.ctx[q].rc > 1 => /\ g.ctx[q] = [rc |-> l.ctx[q].rc - 1, map |-> l.ctx[q].map]
                                 /\ g.maps = l.maps
           /\ ~(l.ctx[q].rc > 1) => g.ctx[q] = NoCtx /\ g.maps = kept
  <1> DEFINE k == IF l.ctx[q].rc > 1 THEN [rc |-> l.ctx[q].rc - 1, map |-> l.ctx[q].map] ELSE NoCtx
             c == [l.ctx EXCEPT ![q] = k]
             m == IF l.ctx[q].rc > 1 THEN l.maps ELSE kept
  <1>0. l.ctx \in [Queue -> CtxType] /\ l.ctx[q] \in CtxType /\ NoCtx \in CtxType /\ l.maps \in SUBSET Mapping
    BY DEF LibType, NoCtx, CtxType
  <1>1. k \in CtxType
    BY <1>0 DEF CtxType
  <1>2. m \in SUBSET Mapping
    BY <1>0 DEF IsPut
  <1>3. c \in [Queue -> CtxType] /\ c[q] = k /\ \A p \in Queue : p # q => c[p] = l.ctx[p]
    <2> HIDE DEF k
    <2> QED
      BY <1>0, <1>1
  <1>4. g = [l EXCEPT !.ctx = c, !.maps = m] \/ (m = l.maps /\ g = [l EXCEPT !.ctx = c])
    <2>1. CASE l.ctx[q].rc > 1
      <3>1. g = [l EXCEPT !.ctx = [l.ctx EXCEPT ![q] = [l.ctx[q] EXCEPT !.rc = @ - 1]]]
        BY <2>1 DEF PutCtx, LibType, IsPut
      <3>2. [l.ctx[q] EXCEPT !.rc = @ - 1] = k
        BY <1>0, <2>1 DEF CtxType
      <3> QED
        BY <2>1, <3>1, <3>2
    <2>2. CASE ~(l.ctx[q].rc > 1) /\ g = PutCtx(l, q, TRUE) /\ kept = l.maps \ Rings(l.ctx[q].map)
      BY <2>2 DEF PutCtx, LibType
    <2>3. CASE ~(l.ctx[q].rc > 1) /\ g = PutCtx(l, q, FALSE) /\ kept = l.maps
      BY <2>3 DEF PutCtx, LibType
    <2> QED
      BY <2>1, <2>2, <2>3 DEF IsPut
  <1>5. Is(g, l.refcount, l.saved, l.bound, c, l.fds, m)
    <2> HIDE DEF c, m
    <2> QED
      BY <1>2, <1>3, <1>4, LibCtx, LibCtxMaps
  <1>6. g.ctx = c /\ g.maps = m
    BY <1>5 DEF Is
  <1> HIDE DEF c
  <1> QED
    BY <1>3, <1>5, <1>6

LEMMA OutSocketIs ==
    ASSUME NEW l \in LibType, NEW fd \in Fd
    PROVE  Is(OutSocket(l, fd), l.refcount - 1, l.saved, l.bound, l.ctx,
              IF l.refcount # 1 THEN l.fds \ {fd} ELSE l.fds, l.maps)
  <1> DEFINE f == IF l.refcount # 1 THEN l.fds \ {fd} ELSE l.fds
             h == IF l.refcount - 1 # 0 THEN l.fds \ {fd} ELSE l.fds
  <1>1. l.refcount \in Int /\ l.fds \in SUBSET Fd
    BY DEF LibType
  <1>2. l.refcount - 1 \in Int /\ f \in SUBSET Fd
    BY <1>1
  <1>3. h = f
    BY <1>1
  <1>4. OutSocket(l, fd) = [l EXCEPT !.refcount = l.refcount - 1, !.fds = h]
    BY DEF OutSocket, LibType
  <1> HIDE DEF f, h
  <1>5. OutSocket(l, fd) = [l EXCEPT !.refcount = l.refcount - 1, !.fds = f]
    BY <1>3, <1>4
  <1>6. Is(OutSocket(l, fd), l.refcount - 1, l.saved, l.bound, l.ctx, f, l.maps)
    BY <1>2, <1>5, LibRefFds
  <1> QED
    BY <1>6 DEF f
-----------------------------------------------------------------------------
(* What is owned, mapping by mapping. *)
Uses(m) ==
    \/ lib.saved /\ m \in Rings(UmemFd)
    \/ \E q \in Queue : InUse(q) /\ m \in Rings(lib.ctx[q].map)
    \/ \E s \in Live : m \in sock[s].dirs \X {sock[s].fd}

LEMMA OwnedIff == (\A m : m \in Owned <=> Uses(m)) /\ (\A m : m \in Owned' <=> Uses(m)')
  <1>1. ASSUME NEW m
        PROVE  m \in Owned <=> Uses(m)
    <2> DEFINE A == IF lib.saved THEN Rings(UmemFd) ELSE {}
               B == UNION {Rings(lib.ctx[q].map) : q \in {p \in Queue : lib.ctx[p] # NoCtx}}
               C == UNION {sock[s].dirs \X {sock[s].fd} : s \in Live}
    <2>1. m \in A <=> lib.saved /\ m \in Rings(UmemFd)
      OBVIOUS
    <2>2. m \in B <=> \E q \in Queue : lib.ctx[q] # NoCtx /\ m \in Rings(lib.ctx[q].map)
      BY Zenon
    <2>3. m \in C <=> \E s \in Live : m \in sock[s].dirs \X {sock[s].fd}
      BY Zenon
    <2>4. Owned = A \cup B \cup C
      BY DEF Owned
    <2> HIDE DEF A, B, C
    <2>5. m \in Owned <=> m \in A \/ m \in B \/ m \in C
      BY <2>4
    <2> QED
      BY <2>1, <2>2, <2>3, <2>5 DEF Uses, InUse
  <1>2. ASSUME NEW m
        PROVE  m \in Owned' <=> Uses(m)'
    <2> DEFINE A == IF lib'.saved THEN Rings(UmemFd) ELSE {}
               B == UNION {Rings(lib'.ctx[q].map) : q \in {p \in Queue : lib'.ctx[p] # NoCtx}}
               C == UNION {sock'[s].dirs \X {sock'[s].fd} : s \in Live'}
    <2>1. m \in A <=> lib'.saved /\ m \in Rings(UmemFd)
      OBVIOUS
    <2>2. m \in B <=> \E q \in Queue : lib'.ctx[q] # NoCtx /\ m \in Rings(lib'.ctx[q].map)
      BY Zenon
    <2>3. m \in C <=> \E s \in Live' : m \in sock'[s].dirs \X {sock'[s].fd}
      BY Zenon
    <2>4. Owned' = A \cup B \cup C
      BY DEF Owned
    <2> HIDE DEF A, B, C
    <2>5. m \in Owned' <=> m \in A \/ m \in B \/ m \in C
      BY <2>4
    <2> QED
      BY <2>1, <2>2, <2>3, <2>5 DEF Uses, InUse
  <1> QED
    BY <1>1, <1>2

LEMMA SkipIs == ASSUME NEW m, Skip(m) PROVE Skipped' = Skipped \cup m
  <1>1. CASE m = {}
    BY <1>1 DEF Skip, Skipped
  <1>2. CASE m # {}
    <2>1. skips' = skips \cup {m}
      BY <1>2 DEF Skip
    <2>2. UNION (skips \cup {m}) = (UNION skips) \cup m
      OBVIOUS
    <2> QED
      BY <2>1, <2>2 DEF Skipped
  <1> QED
    BY <1>1, <1>2

(* Counting sockets. *)
Users(q) == {s \in Live : sock[s].q = q}

LEMMA Counts ==
    ASSUME TypeOK, RefsExact
    PROVE  /\ IsFiniteSet(Live) /\ Cardinality(Live) \in Nat
           /\ \A q \in Queue : IsFiniteSet(Users(q)) /\ lib.ctx[q].rc = Cardinality(Users(q))
           /\ lib.refcount \in Nat /\ lib.refcount = Cardinality(Live) + lostRefs
           /\ lib.refcount = lostRefs <=> Live = {}
  <1>1. IsFiniteSet(Live) /\ Cardinality(Live) \in Nat
    BY XskLibAssumption, FS_Subset, FS_CardinalityType DEF Live
  <1>2. \A q \in Queue : IsFiniteSet(Users(q)) /\ lib.ctx[q].rc = Cardinality(Users(q))
    BY <1>1, FS_Subset DEF Users, RefsExact
  <1>3. Cardinality(Live) = 0 <=> Live = {}
    BY <1>1, FS_EmptySet
  <1> QED
    BY <1>1, <1>2, <1>3 DEF RefsExact, TypeOK

LEMMA NoneIsNoSock == None \notin SockType
  BY XskLibAssumption DEF SockType

LEMMA InvInit == Init => Inv
  <1> SUFFICES ASSUME Init
               PROVE  Inv
    OBVIOUS
  <1>1. NoCtx \in CtxType
    BY DEF NoCtx, CtxType
  <1>2. [q \in Queue |-> NoCtx] \in [Queue -> CtxType]
    BY <1>1
  <1>3. lib \in LibType
    BY <1>2 DEF Init, LibType, Mapping
  <1>4. Live = {}
    BY DEF Init, Live
  <1>5. \A q \in Queue : lib.ctx[q] = NoCtx
    BY DEF Init
  <1>6. TypeOK
    BY <1>3 DEF Init, TypeOK
  <1>7. RefsExact
    <2>1. \A q \in Queue : {s \in Live : sock[s].q = q} = {}
      BY <1>4
    <2> QED
      BY <1>4, <1>5, <2>1, FS_EmptySet DEF Init, RefsExact, NoCtx
  <1>8. CtxsApart /\ SocksApart /\ Phases
    BY <1>4, <1>5 DEF Init, CtxsApart, SocksApart, Phases, InUse
  <1>9. FdsExact
    BY <1>4 DEF Init, FdsExact
  <1>10. MapsExact
    <2>1. \A m : ~Uses(m)
      BY <1>4, <1>5 DEF Init, Uses, InUse
    <2> QED
      BY <2>1, OwnedIff DEF Init, MapsExact
  <1> QED
    BY <1>6, <1>7, <1>8, <1>9, <1>10 DEF Inv

(* A step that changes nothing of the library but the mappings. *)
LEMMA SameButMaps ==
    ASSUME Inv, Is(lib', lib.refcount, lib.saved, lib.bound, lib.ctx, lib.fds, lib'.maps),
           UNCHANGED <<umem, sock, orphans, lostRefs>>, torn' \in BOOLEAN
    PROVE  /\ TypeOK' /\ RefsExact' /\ CtxsApart' /\ SocksApart' /\ Phases' /\ FdsExact'
           /\ \A m : Uses(m)' <=> Uses(m)
  <1> USE DEF Inv
  <1>0. /\ lib' \in LibType /\ lib'.refcount = lib.refcount /\ lib'.saved = lib.saved
        /\ lib'.bound = lib.bound /\ lib'.ctx = lib.ctx /\ lib'.fds = lib.fds
    BY DEF Is
  <1>1. Live' = Live
    BY DEF Live
  <1>2. TypeOK'
    BY <1>0 DEF TypeOK
  <1>3. RefsExact'
    BY <1>0, <1>1 DEF RefsExact
  <1>4. CtxsApart' /\ SocksApart' /\ Phases'
    BY <1>0, <1>1 DEF CtxsApart, SocksApart, Phases, InUse
  <1>5. FdsExact'
    BY <1>0, <1>1 DEF FdsExact
  <1>6. \A m : Uses(m)' <=> Uses(m)
    BY <1>0, <1>1 DEF Uses, InUse
  <1> QED
    BY <1>2, <1>3, <1>4, <1>5, <1>6

(* A create that fails closes the descriptor it opened, and only that. *)
LEMMA FdsBack ==
    ASSUME Inv, NEW s \in Sock, CreateCall(s)
    PROVE  (IF lib.refcount + 1 # 1 THEN (lib.fds \cup {FdOf(s)}) \ {FdOf(s)}
            ELSE lib.fds \cup {FdOf(s)}) = lib.fds
  <1>1. lib.refcount \in Nat
    BY Counts DEF Inv
  <1>2. s \notin Live /\ s # UmemFd /\ umem = "live"
    BY XskLibAssumption DEF CreateCall, Live
  <1>3. s \notin lib.fds /\ UmemFd \in lib.fds
    BY <1>2 DEF Inv, FdsExact, SocksApart
  <1>4. CASE lib.refcount > 0
    <2>1. FdOf(s) = s /\ lib.refcount + 1 # 1
      BY <1>1, <1>4 DEF FdOf
    <2> QED
      BY <1>3, <2>1
  <1>5. CASE lib.refcount = 0
    <2>1. FdOf(s) = UmemFd /\ lib.refcount + 1 = 1
      BY <1>5 DEF FdOf
    <2> QED
      BY <1>3, <2>1
  <1> QED
    BY <1>1, <1>4, <1>5
-----------------------------------------------------------------------------
(* One lemma for each operation of the library. *)
LEMMA StepUmemCreate == Inv /\ UmemCreate => Inv'
  <1> SUFFICES ASSUME Inv, UmemCreate
               PROVE  Inv'
    OBVIOUS
  <1> USE DEF Inv
  <1>1. Rings(UmemFd) \in SUBSET Mapping /\ {UmemFd} \in SUBSET Fd /\ lib \in LibType
    BY DEF Rings, Mapping, Fd, TypeOK
  <1>2. Is(lib', lib.refcount, TRUE, lib.bound, lib.ctx, {UmemFd}, Rings(UmemFd))
    <2>1. lib' = [lib EXCEPT !.maps = Rings(UmemFd), !.fds = {UmemFd}, !.saved = TRUE]
      BY <1>1 DEF UmemCreate, LibType
    <2> QED
      BY <1>1, <2>1, LibMapsFdsSaved
  <1>3. /\ lib' \in LibType /\ lib'.refcount = lib.refcount /\ lib'.saved = TRUE
        /\ lib'.bound = lib.bound /\ lib'.ctx = lib.ctx /\ lib'.fds = {UmemFd}
        /\ lib'.maps = Rings(UmemFd)
    BY <1>2 DEF Is
  <1>4. /\ umem = "none" /\ umem' = "live" /\ sock' = sock /\ orphans' = orphans
        /\ lostRefs' = lostRefs /\ skips' = skips /\ torn' = torn /\ Live' = Live
    BY DEF UmemCreate, Live
  <1>5. Live = {} /\ lib.bound = {} /\ lib.refcount = 0
    <2>1. lib.bound = {} /\ lib.refcount - lostRefs = 0 /\ lib.refcount = 0
      BY <1>4 DEF Phases
    <2>2. lib.refcount = lostRefs
      BY <2>1 DEF TypeOK
    <2> QED
      BY <2>1, <2>2, Counts
  <1>6. \A q \in Queue : lib.ctx[q] = NoCtx
    BY <1>5 DEF CtxsApart, InUse
  <1>7. TypeOK' /\ RefsExact'
    BY <1>3, <1>4 DEF TypeOK, RefsExact
  <1>8. CtxsApart' /\ SocksApart' /\ Phases' /\ FdsExact'
    BY <1>3, <1>4, <1>5, <1>6 DEF CtxsApart, SocksApart, Phases, FdsExact, InUse
  <1>9. MapsExact'
    <2>1. \A m : Uses(m)' <=> m \in Rings(UmemFd)
      BY <1>3, <1>4, <1>5, <1>6 DEF Uses, InUse
    <2> QED
      BY <1>3, <2>1, OwnedIff DEF MapsExact
  <1> QED
    BY <1>7, <1>8, <1>9

LEMMA StepUmemCreateFails == Inv /\ UmemCreateFails => Inv'
  <1> SUFFICES ASSUME Inv, UmemCreateFails
               PROVE  Inv'
    OBVIOUS
  <1> USE DEF Inv
  <1>1. PICK m \in {{}, {<<"fill", UmemFd>>}} : Skip(m) /\ lib' = [lib EXCEPT !.maps = m]
    BY DEF UmemCreateFails
  <1>2. m \in SUBSET Mapping /\ lib \in LibType
    BY DEF Mapping, Fd, TypeOK
  <1>3. /\ lib' \in LibType /\ lib'.refcount = lib.refcount /\ lib'.saved = lib.saved
        /\ lib'.bound = lib.bound /\ lib'.ctx = lib.ctx /\ lib'.fds = lib.fds /\ lib'.maps = m
    BY <1>1, <1>2, LibMaps DEF Is
  <1>4. /\ umem = "none" /\ umem' = "deleted" /\ sock' = sock /\ orphans' = orphans
        /\ lostRefs' = lostRefs /\ torn' = torn /\ Live' = Live
    BY DEF UmemCreateFails, Live
  <1>5. Live = {} /\ lib.bound = {} /\ lib.refcount - lostRefs = 0 /\ ~lib.saved
    <2>1. lib.bound = {} /\ lib.refcount - lostRefs = 0 /\ lib.refcount = 0 /\ ~lib.saved
      BY <1>4 DEF Phases
    <2>2. lib.refcount = lostRefs
      BY <2>1 DEF TypeOK
    <2> QED
      BY <2>1, <2>2, Counts
  <1>6. \A q \in Queue : lib.ctx[q] = NoCtx
    BY <1>5 DEF CtxsApart, InUse
  <1>7. TypeOK' /\ RefsExact'
    BY <1>3, <1>4 DEF TypeOK, RefsExact
  <1>8. CtxsApart' /\ SocksApart' /\ Phases' /\ FdsExact'
    BY <1>3, <1>4, <1>5, <1>6 DEF CtxsApart, SocksApart, Phases, FdsExact, InUse
  <1>9. MapsExact'
    <2>1. \A k : ~Uses(k)'
      BY <1>3, <1>4, <1>5, <1>6 DEF Uses, InUse
    <2> QED
      BY <1>1, <1>3, <2>1, OwnedIff, SkipIs DEF MapsExact
  <1> QED
    BY <1>7, <1>8, <1>9

LEMMA StepUmemDelete == Inv /\ UmemDelete => Inv'
  <1> SUFFICES ASSUME Inv, UmemDelete
               PROVE  Inv'
    OBVIOUS
  <1> USE DEF Inv
  <1>0. /\ umem = "live" /\ \A s \in Live : s \in orphans
        /\ sock' = sock /\ orphans' = orphans /\ lostRefs' = lostRefs /\ torn' = torn /\ Live' = Live
    BY DEF UmemDelete, Live
  <1>1. CASE lib.refcount # 0
    <2>1. umem' = "stuck" /\ lib' = lib /\ skips' = skips
      BY <1>1 DEF UmemDelete
    <2>2. orphans # {} \/ lostRefs > 0
      BY <1>0, <1>1, Counts DEF TypeOK
    <2>3. TypeOK' /\ RefsExact'
      BY <1>0, <2>1, <2>2 DEF TypeOK, RefsExact
    <2>4. CtxsApart' /\ SocksApart' /\ Phases' /\ FdsExact'
      <3>1. ~lib.saved
        BY <1>0, <1>1 DEF Phases
      <3> QED
        BY <1>0, <2>1, <3>1 DEF CtxsApart, SocksApart, Phases, FdsExact, InUse
    <2>5. MapsExact'
      <3>1. \A m : Uses(m)' <=> Uses(m)
        BY <1>0, <2>1 DEF Uses, InUse
      <3> QED
        BY <1>0, <2>1, <3>1, OwnedIff DEF MapsExact, Skipped
    <2> QED
      BY <2>3, <2>4, <2>5
  <1>2. CASE lib.refcount = 0
    <2>1. PICK left \in {{}, IF lib.saved THEN Rings(UmemFd) ELSE {}} :
             /\ lib' = [lib EXCEPT !.maps = IF lib.saved
                                            THEN (@ \ Rings(UmemFd)) \cup left ELSE @,
                                   !.fds = @ \ {UmemFd}, !.saved = FALSE]
             /\ Skip(left)
      BY <1>2 DEF UmemDelete
    <2> DEFINE m == IF lib.saved THEN (lib.maps \ Rings(UmemFd)) \cup left ELSE lib.maps
               f == lib.fds \ {UmemFd}
    <2>2. umem' = "deleted"
      BY <1>2 DEF UmemDelete
    <2>3. m \in SUBSET Mapping /\ f \in SUBSET Fd /\ lib \in LibType
      BY DEF TypeOK, LibType, Rings, Mapping, Fd
    <2>4. lib' = [lib EXCEPT !.maps = m, !.fds = f, !.saved = FALSE]
      BY <2>1, <2>3 DEF LibType
    <2>5. Is(lib', lib.refcount, FALSE, lib.bound, lib.ctx, f, m)
      <3> HIDE DEF m, f
      <3> QED
        BY <2>3, <2>4, LibMapsFdsSaved
    <2>6. /\ lib' \in LibType /\ lib'.refcount = lib.refcount /\ lib'.saved = FALSE
          /\ lib'.bound = lib.bound /\ lib'.ctx = lib.ctx /\ lib'.fds = f /\ lib'.maps = m
      BY <2>5 DEF Is
    <2>7. Live = {} /\ lostRefs = 0
      BY <1>2, Counts, FS_EmptySet DEF TypeOK
    <2>8. \A q \in Queue : lib.ctx[q] = NoCtx
      <3>1. \A q \in Queue : Users(q) = {}
        BY <2>7 DEF Users
      <3>2. \A q \in Queue : lib.ctx[q].rc = 0
        BY <3>1, Counts, FS_EmptySet
      <3> QED
        BY <3>2 DEF CtxsApart, InUse
    <2>9. TypeOK' /\ RefsExact'
      BY <1>0, <2>2, <2>6 DEF TypeOK, RefsExact
    <2>10. CtxsApart' /\ SocksApart'
      BY <1>0, <2>6, <2>7, <2>8 DEF CtxsApart, SocksApart, InUse
    <2>11. Phases'
      BY <1>0, <1>2, <2>2, <2>6, <2>7 DEF Phases
    <2>12. FdsExact'
      BY <1>0, <2>2, <2>6, <2>7 DEF FdsExact
    <2>13. MapsExact'
      <3>1. \A k : ~Uses(k)'
        BY <1>0, <2>6, <2>7, <2>8 DEF Uses, InUse
      <3>2. \A k : Uses(k) <=> lib.saved /\ k \in Rings(UmemFd)
        BY <2>7, <2>8 DEF Uses, InUse
      <3> QED
        BY <1>0, <2>1, <2>6, <3>1, <3>2, OwnedIff, SkipIs DEF MapsExact
    <2> QED
      BY <2>9, <2>10, <2>11, <2>12, <2>13
  <1> QED
    BY <1>1, <1>2

LEMMA StepOrphan == ASSUME Inv, NEW s \in Sock, Orphan(s) PROVE Inv'
  <1> USE DEF Inv
  <1>1. /\ umem' = umem /\ lib' = lib /\ sock' = sock /\ lostRefs' = lostRefs /\ skips' = skips
        /\ torn' = torn /\ orphans' = orphans \cup {s} /\ Live' = Live
    BY DEF Orphan, Live
  <1>2. TypeOK' /\ RefsExact'
    BY <1>1 DEF TypeOK, RefsExact
  <1>3. CtxsApart' /\ SocksApart' /\ Phases' /\ FdsExact'
    BY <1>1 DEF CtxsApart, SocksApart, Phases, FdsExact, InUse
  <1>4. MapsExact'
    <2>1. \A m : Uses(m)' <=> Uses(m)
      BY <1>1 DEF Uses, InUse
    <2> QED
      BY <1>1, <2>1, OwnedIff DEF MapsExact, Skipped
  <1> QED
    BY <1>2, <1>3, <1>4

LEMMA StepCreateNoSocket == ASSUME Inv, NEW s \in Sock, CreateNoSocket(s) PROVE Inv'
  <1> USE DEF Inv
  <1>1. /\ umem' = umem /\ umem = "live" /\ lib.refcount > 0 /\ lostRefs' = lostRefs + 1
        /\ sock' = sock /\ orphans' = orphans /\ skips' = skips /\ torn' = torn /\ Live' = Live
    BY DEF CreateNoSocket, CreateCall, Live
  <1>2. lib \in LibType /\ lib.refcount + 1 \in Int /\ lib.refcount \in Nat /\ lostRefs \in Nat
    BY Counts DEF TypeOK
  <1>3. /\ lib' \in LibType /\ lib'.refcount = lib.refcount + 1 /\ lib'.saved = lib.saved
        /\ lib'.bound = lib.bound /\ lib'.ctx = lib.ctx /\ lib'.fds = lib.fds /\ lib'.maps = lib.maps
    BY <1>2, LibRef DEF Is, CreateNoSocket
  <1>4. TypeOK'
    BY <1>1, <1>2, <1>3 DEF TypeOK
  <1>5. RefsExact'
    BY <1>1, <1>2, <1>3, Counts DEF RefsExact
  <1>6. CtxsApart' /\ SocksApart' /\ Phases' /\ FdsExact'
    BY <1>1, <1>2, <1>3 DEF CtxsApart, SocksApart, Phases, FdsExact, InUse
  <1>7. MapsExact'
    <2>1. \A m : Uses(m)' <=> Uses(m)
      BY <1>1, <1>3 DEF Uses, InUse
    <2> QED
      BY <1>1, <1>3, <2>1, OwnedIff DEF MapsExact, Skipped
  <1> QED
    BY <1>4, <1>5, <1>6, <1>7

LEMMA StepCreateNoCtx ==
    ASSUME Inv, NEW s \in Sock, NEW q \in Queue, NEW own \in BOOLEAN, CreateNoCtx(s, q, own)
    PROVE  Inv'
  <1> USE DEF Inv
  <1> DEFINE fd == FdOf(s)
  <1>1. PICK m \in {{}, {<<"fill", fd>>}} :
           /\ lib' = OutSocket([Opened(s) EXCEPT !.maps = @ \cup m], fd)
           /\ Skip(m)
    BY DEF CreateNoCtx
  <1>2. /\ umem' = umem /\ sock' = sock /\ orphans' = orphans /\ lostRefs' = lostRefs
        /\ torn' = torn /\ CreateCall(s)
    BY DEF CreateNoCtx
  <1>3. fd \in Fd /\ Is(Opened(s), lib.refcount + 1, lib.saved, lib.bound, lib.ctx,
                         lib.fds \cup {fd}, lib.maps)
    BY OpenedIs
  <1> HIDE DEF fd
  <1> DEFINE o == Opened(s)
             g == [o EXCEPT !.maps = o.maps \cup m]
  <1>4. o \in LibType /\ o.maps \cup m \in SUBSET Mapping
    BY <1>3 DEF Is, LibType, Mapping
  <1>5. lib' = OutSocket(g, fd)
    BY <1>1, <1>4 DEF LibType
  <1>6. Is(g, lib.refcount + 1, lib.saved, lib.bound, lib.ctx, lib.fds \cup {fd}, lib.maps \cup m)
    <2> HIDE DEF o
    <2>1. Is(g, o.refcount, o.saved, o.bound, o.ctx, o.fds, o.maps \cup m)
      BY <1>4, LibMaps
    <2> QED
      BY <1>3, <2>1 DEF Is, o
  <1> HIDE DEF g
  <1>7. Is(lib', lib.refcount, lib.saved, lib.bound, lib.ctx, lib.fds, lib.maps \cup m)
    <2>1. Is(lib', g.refcount - 1, g.saved, g.bound, g.ctx,
             IF g.refcount # 1 THEN g.fds \ {fd} ELSE g.fds, g.maps)
      BY <1>3, <1>5, <1>6, OutSocketIs DEF Is
    <2>2. (IF g.refcount # 1 THEN g.fds \ {fd} ELSE g.fds) = lib.fds
      BY <1>2, <1>6, FdsBack DEF Is, fd
    <2>3. g.refcount - 1 = lib.refcount
      BY <1>6 DEF Is, TypeOK, LibType
    <2> QED
      BY <1>6, <2>1, <2>2, <2>3 DEF Is
  <1>8. lib'.maps = lib.maps \cup m
    BY <1>7 DEF Is
  <1>9. /\ TypeOK' /\ RefsExact' /\ CtxsApart' /\ SocksApart' /\ Phases' /\ FdsExact'
        /\ \A k : Uses(k)' <=> Uses(k)
    BY <1>2, <1>7, <1>8, SameButMaps DEF TypeOK
  <1>10. MapsExact'
    BY <1>1, <1>2, <1>8, <1>9, SkipIs, OwnedIff DEF MapsExact
  <1> QED
    BY <1>9, <1>10

(* A failure behind the context puts the context back as it was. *)
LEMMA StepCreateUndone ==
    ASSUME Inv, NEW s \in Sock, NEW q \in Queue, NEW own \in BOOLEAN,
           CreateUndone(s, q, own)
    PROVE  Inv'
  <1> USE DEF Inv
  <1> DEFINE fd == FdOf(s)
             o == Opened(s)
             l == GetCtx(o, q, fd)
             put == PutCtx(l, q, own)
  <1>1. PICK left \in {{}, l.maps \ put.maps} :
           /\ lib' = OutSocket([put EXCEPT !.maps = @ \cup left], fd)
           /\ Skip(left)
           /\ torn' = (torn \/ (NeedsCtx(q) /\ own /\ lib.saved /\ left = {}))
    BY DEF CreateUndone
  <1>2. /\ umem' = umem /\ sock' = sock /\ orphans' = orphans /\ lostRefs' = lostRefs
        /\ CreateCall(s) /\ CtxPossible(q, fd, own)
    BY DEF CreateUndone
  <1>3. fd \in Fd /\ Is(o, lib.refcount + 1, lib.saved, lib.bound, lib.ctx, lib.fds \cup {fd}, lib.maps)
    BY OpenedIs
  <1> HIDE DEF fd, o
  <1>4. /\ Is(l, o.refcount, o.saved, o.bound, l.ctx, o.fds, l.maps)
        /\ \A p \in Queue : p # q => l.ctx[p] = o.ctx[p]
        /\ o.ctx[q] # NoCtx => /\ l.ctx[q] = [rc |-> o.ctx[q].rc + 1, map |-> o.ctx[q].map]
                               /\ l.maps = o.maps
        /\ o.ctx[q] = NoCtx /\ o.saved => /\ l.ctx[q] = [rc |-> 1, map |-> UmemFd]
                                          /\ l.maps = o.maps
        /\ o.ctx[q] = NoCtx /\ ~o.saved => /\ l.ctx[q] = [rc |-> 1, map |-> fd]
                                           /\ l.maps = o.maps \cup Rings(fd)
    BY <1>3, GetCtxIs DEF Is
  <1> HIDE DEF l
  <1>6. /\ Is(put, l.refcount, l.saved, l.bound, put.ctx, l.fds, put.maps)
        /\ \A p \in Queue : p # q => put.ctx[p] = l.ctx[p]
        /\ l.ctx[q].rc > 1 => /\ put.ctx[q] = [rc |-> l.ctx[q].rc - 1, map |-> l.ctx[q].map]
                              /\ put.maps = l.maps
        /\ ~(l.ctx[q].rc > 1) =>
              /\ put.ctx[q] = NoCtx
              /\ put.maps = IF own THEN l.maps \ Rings(l.ctx[q].map) ELSE l.maps
    <2>1. l \in LibType
      BY <1>4 DEF Is
    <2>2. put = PutCtx(l, q, own)
      OBVIOUS
    <2> HIDE DEF put
    <2> DEFINE kept == IF own THEN l.maps \ Rings(l.ctx[q].map) ELSE l.maps
    <2>3. IsPut(put, l, q, kept)
      BY <2>2, Zenon DEF IsPut
    <2> HIDE DEF kept
    <2>4. /\ Is(put, l.refcount, l.saved, l.bound, put.ctx, l.fds, put.maps)
          /\ \A p \in Queue : p # q => put.ctx[p] = l.ctx[p]
          /\ l.ctx[q].rc > 1 => /\ put.ctx[q] = [rc |-> l.ctx[q].rc - 1, map |-> l.ctx[q].map]
                                /\ put.maps = l.maps
          /\ ~(l.ctx[q].rc > 1) => put.ctx[q] = NoCtx /\ put.maps = kept
      BY <2>1, <2>3, PutCtxIs
    <2> QED
      BY <2>4 DEF kept
  <1> HIDE DEF put
  <1>7. lib \in LibType /\ lib.ctx \in [Queue -> CtxType] /\ lib.ctx[q] \in CtxType
    BY DEF TypeOK, LibType
  <1>8. put.ctx = lib.ctx
    <2>1. put.ctx[q] = lib.ctx[q]
      <3>1. CASE lib.ctx[q] # NoCtx
        <4>1. l.ctx[q] = [rc |-> lib.ctx[q].rc + 1, map |-> lib.ctx[q].map]
              /\ lib.ctx[q].rc > 0
          BY <1>3, <1>4, <3>1 DEF Is, CtxsApart, InUse
        <4>2. put.ctx[q] = [rc |-> lib.ctx[q].rc, map |-> lib.ctx[q].map]
          BY <1>6, <1>7, <4>1 DEF CtxType
        <4> QED
          BY <1>7, <4>2 DEF CtxType
      <3>2. CASE lib.ctx[q] = NoCtx
        <4>1. l.ctx[q].rc = 1
          BY <1>3, <1>4, <3>2 DEF Is
        <4> QED
          BY <1>6, <3>2, <4>1
      <3> QED
        BY <3>1, <3>2
    <2>2. \A p \in Queue : put.ctx[p] = lib.ctx[p]
      BY <1>3, <1>4, <1>6, <2>1 DEF Is
    <2>3. put.ctx \in [Queue -> CtxType]
      BY <1>6 DEF Is, LibType
    <2> QED
      BY <1>7, <2>2, <2>3
  <1> DEFINE h == [put EXCEPT !.maps = put.maps \cup left]
  <1>9. put \in LibType /\ put.maps \cup left \in SUBSET Mapping
    BY <1>4, <1>6 DEF Is, LibType
  <1>10. lib' = OutSocket(h, fd)
    BY <1>1, <1>9 DEF LibType
  <1>11. Is(h, lib.refcount + 1, lib.saved, lib.bound, lib.ctx, lib.fds \cup {fd}, put.maps \cup left)
    <2>1. Is(h, put.refcount, put.saved, put.bound, put.ctx, put.fds, put.maps \cup left)
      BY <1>9, LibMaps
    <2> QED
      BY <1>3, <1>4, <1>6, <1>8, <2>1 DEF Is
  <1> HIDE DEF h
  <1>12. Is(lib', lib.refcount, lib.saved, lib.bound, lib.ctx, lib.fds, put.maps \cup left)
    <2>1. Is(lib', h.refcount - 1, h.saved, h.bound, h.ctx,
             IF h.refcount # 1 THEN h.fds \ {fd} ELSE h.fds, h.maps)
      BY <1>3, <1>10, <1>11, OutSocketIs DEF Is
    <2>2. (IF h.refcount # 1 THEN h.fds \ {fd} ELSE h.fds) = lib.fds
      BY <1>2, <1>11, FdsBack DEF Is, fd
    <2>3. h.refcount - 1 = lib.refcount
      BY <1>11 DEF Is, TypeOK, LibType
    <2> QED
      BY <1>11, <2>1, <2>2, <2>3 DEF Is
  <1>13. lib'.maps = put.maps \cup left
    BY <1>12 DEF Is
  <1>14. torn' \in BOOLEAN
    BY <1>1 DEF TypeOK
  <1>15. /\ TypeOK' /\ RefsExact' /\ CtxsApart' /\ SocksApart' /\ Phases' /\ FdsExact'
         /\ \A k : Uses(k)' <=> Uses(k)
    BY <1>2, <1>12, <1>13, <1>14, SameButMaps
  <1>16. MapsExact'
    <2> SUFFICES ASSUME ~torn'
                 PROVE  Owned' \subseteq lib'.maps /\ lib'.maps \subseteq Owned' \cup Skipped'
      BY DEF MapsExact
    <2>1. /\ ~torn /\ ~(NeedsCtx(q) /\ own /\ lib.saved /\ left = {})
          /\ Skipped' = Skipped \cup left
          /\ \A k : Uses(k) => k \in lib.maps
          /\ \A k : k \in lib.maps => Uses(k) \/ k \in Skipped
      BY <1>1, SkipIs, OwnedIff DEF MapsExact, TypeOK
    <2>2. CASE lib.ctx[q] # NoCtx
      <3>1. l.maps = lib.maps /\ l.ctx[q].rc > 1
        BY <1>3, <1>4, <1>7, <2>2 DEF Is, CtxsApart, InUse, CtxType
      <3>2. lib'.maps = lib.maps /\ left = {}
        BY <1>6, <1>13, <3>1
      <3> QED
        BY <1>15, <2>1, <3>2, OwnedIff
    <2>3. CASE lib.ctx[q] = NoCtx /\ lib.saved
      <3>1. l.maps = lib.maps /\ l.ctx[q] = [rc |-> 1, map |-> UmemFd]
        BY <1>3, <1>4, <2>3 DEF Is
      <3>2. put.maps = IF own THEN lib.maps \ Rings(UmemFd) ELSE lib.maps
        BY <1>6, <3>1
      <3>3. lib'.maps = lib.maps
        BY <1>1, <1>13, <2>1, <2>3, <3>1, <3>2 DEF NeedsCtx
      <3> QED
        BY <1>15, <2>1, <3>3, OwnedIff
    <2>4. CASE lib.ctx[q] = NoCtx /\ ~lib.saved
      <3>1. l.maps = lib.maps \cup Rings(fd) /\ l.ctx[q] = [rc |-> 1, map |-> fd]
        BY <1>3, <1>4, <2>4 DEF Is
      <3>2. own /\ fd \notin lib.bound
        BY <1>2, <2>4 DEF CtxPossible, NeedsCtx
      <3>3. put.maps = (lib.maps \cup Rings(fd)) \ Rings(fd)
        BY <1>6, <3>1, <3>2
      <3>4. \A k \in Rings(fd) : ~Uses(k)
        <4> SUFFICES ASSUME NEW k \in Rings(fd)
                     PROVE  ~Uses(k)
          OBVIOUS
        <4>1. k[1] \in {"fill", "comp"} /\ k[2] = fd
          BY DEF Rings
        <4>2. \A p \in Queue : InUse(p) => k \notin Rings(lib.ctx[p].map)
          BY <3>2, <4>1 DEF CtxsApart, Rings
        <4>3. \A t \in Live : k \notin sock[t].dirs \X {sock[t].fd}
          BY <3>2, <4>1 DEF SocksApart
        <4> QED
          BY <2>4, <4>2, <4>3 DEF Uses
      <3>5. \A k : k \in lib'.maps <=> k \in left \/ (k \in lib.maps /\ k \notin Rings(fd))
        BY <1>13, <3>3
      <3> QED
        BY <1>15, <2>1, <3>4, <3>5, OwnedIff
    <2> QED
      BY <2>2, <2>3, <2>4
  <1> QED
    BY <1>15, <1>16

(* A create that succeeds: the new socket's descriptor was not bound       *)
(* before, so that no other owner names it.                                *)
LEMMA StepCreate ==
    ASSUME Inv, NEW s \in Sock, NEW q \in Queue, NEW own \in BOOLEAN, NEW dirs \in Dirs,
           Create(s, q, own, dirs)
    PROVE  Inv'
  <1> USE DEF Inv
  <1> DEFINE fd == FdOf(s)
             o == Opened(s)
             l == GetCtx(o, q, fd)
             x == [q |-> q, fd |-> fd, dirs |-> dirs]
  <1>1. /\ lib' = [l EXCEPT !.maps = @ \cup dirs \X {fd}, !.bound = @ \cup {fd}, !.saved = FALSE]
        /\ sock' = [sock EXCEPT ![s] = x]
        /\ umem' = umem /\ orphans' = orphans /\ lostRefs' = lostRefs /\ skips' = skips /\ torn' = torn
        /\ CreateCall(s) /\ CtxPossible(q, fd, own) /\ fd \notin lib.bound
    BY DEF Create
  <1>2. fd \in Fd /\ Is(o, lib.refcount + 1, lib.saved, lib.bound, lib.ctx, lib.fds \cup {fd}, lib.maps)
    BY OpenedIs
  <1>3. umem = "live" /\ s \notin Live /\ s # UmemFd
    BY <1>1, XskLibAssumption DEF CreateCall, Live
  <1>4. lib.saved => fd = UmemFd /\ lib.bound = {}
    BY <1>3 DEF Phases, FdOf
  <1>5. fd \in {s, UmemFd}
    BY DEF FdOf
  <1> HIDE DEF fd, o
  <1>6. /\ Is(l, o.refcount, o.saved, o.bound, l.ctx, o.fds, l.maps)
        /\ \A p \in Queue : p # q => l.ctx[p] = o.ctx[p]
        /\ o.ctx[q] # NoCtx => /\ l.ctx[q] = [rc |-> o.ctx[q].rc + 1, map |-> o.ctx[q].map]
                               /\ l.maps = o.maps
        /\ o.ctx[q] = NoCtx /\ o.saved => /\ l.ctx[q] = [rc |-> 1, map |-> UmemFd]
                                          /\ l.maps = o.maps
        /\ o.ctx[q] = NoCtx /\ ~o.saved => /\ l.ctx[q] = [rc |-> 1, map |-> fd]
                                           /\ l.maps = o.maps \cup Rings(fd)
    BY <1>2, GetCtxIs DEF Is
  <1> HIDE DEF l
  <1>8. Is(lib', lib.refcount + 1, FALSE, lib.bound \cup {fd}, l.ctx, lib.fds \cup {fd},
           l.maps \cup dirs \X {fd})
    <2> DEFINE m == l.maps \cup dirs \X {fd}
               b == l.bound \cup {fd}
    <2>1. l \in LibType
      BY <1>6 DEF Is
    <2>2. m \in SUBSET Mapping /\ b \in SUBSET Fd
      BY <1>2, <2>1 DEF LibType, Mapping, Dirs
    <2>3. lib' = [l EXCEPT !.maps = m, !.bound = b, !.saved = FALSE]
      BY <1>1, <2>1 DEF LibType
    <2>4. Is(lib', l.refcount, FALSE, b, l.ctx, l.fds, m)
      <3> HIDE DEF m, b
      <3> QED
        BY <2>1, <2>2, <2>3, LibMapsBoundSaved
    <2> QED
      BY <1>2, <1>6, <2>4 DEF Is
  <1>9. /\ lib' \in LibType /\ lib'.refcount = lib.refcount + 1 /\ lib'.saved = FALSE
        /\ lib'.bound = lib.bound \cup {fd} /\ lib'.ctx = l.ctx
        /\ lib'.fds = lib.fds \cup {fd} /\ lib'.maps = l.maps \cup dirs \X {fd}
    BY <1>8 DEF Is
  (* the context of q *)
  <1>10. /\ \A p \in Queue : p # q => lib'.ctx[p] = lib.ctx[p]
         /\ lib.ctx[q] # NoCtx =>
               /\ lib'.ctx[q] = [rc |-> lib.ctx[q].rc + 1, map |-> lib.ctx[q].map]
               /\ l.maps = lib.maps
         /\ lib.ctx[q] = NoCtx =>
               /\ lib'.ctx[q] = [rc |-> 1, map |-> fd]
               /\ l.maps = IF lib.saved THEN lib.maps ELSE lib.maps \cup Rings(fd)
    BY <1>2, <1>4, <1>6, <1>9 DEF Is
  <1>11. lib'.ctx[q].rc = lib.ctx[q].rc + 1 /\ lib.ctx[q].rc \in Nat
         /\ (\A p \in Queue : p # q => lib'.ctx[p].rc = lib.ctx[p].rc)
         /\ lib'.ctx[q] # NoCtx
    <2>1. lib.ctx[q] \in CtxType
      BY DEF TypeOK, LibType
    <2>2. CASE lib.ctx[q] # NoCtx
      BY <1>10, <2>1, <2>2 DEF CtxType, NoCtx
    <2>3. CASE lib.ctx[q] = NoCtx
      BY <1>10, <2>1, <2>3 DEF CtxType, NoCtx
    <2> QED
      BY <1>10, <2>2, <2>3
  (* the socket *)
  <1>12. x \in SockType /\ x # None
    BY <1>2, NoneIsNoSock DEF SockType
  <1>13. /\ sock'[s] = x /\ (\A t \in Sock : t # s => sock'[t] = sock[t])
         /\ sock' \in [Sock -> SockType \cup {None}]
    <2> HIDE DEF x
    <2> QED
      BY <1>1, <1>12 DEF TypeOK
  <1>14. sock'[s].q = q /\ sock'[s].fd = fd /\ sock'[s].dirs = dirs
    BY <1>13
  <1>15. Live' = Live \cup {s} /\ Live \subseteq Sock
    BY <1>12, <1>13 DEF Live
  <1>16. \A t \in Live : t # s /\ sock'[t] = sock[t]
    BY <1>3, <1>13, <1>15
  <1>17. TypeOK'
    BY <1>1, <1>9, <1>13 DEF TypeOK
  <1>18. RefsExact'
    <2>1. Cardinality(Live') = Cardinality(Live) + 1
      BY <1>3, <1>15, Counts, FS_AddElement
    <2>2. Users(q)' = Users(q) \cup {s} /\ s \notin Users(q)
      BY <1>3, <1>14, <1>15, <1>16 DEF Users
    <2>3. Cardinality(Users(q)') = Cardinality(Users(q)) + 1
      BY <2>2, Counts, FS_AddElement
    <2>4. \A p \in Queue : p # q => Users(p)' = Users(p)
      BY <1>14, <1>15, <1>16 DEF Users
    <2>5. \A p \in Queue : lib'.ctx[p].rc = Cardinality(Users(p)')
      BY <1>11, <2>3, <2>4, Counts
    <2>6. lib'.refcount = Cardinality(Live') + lostRefs'
      BY <1>1, <1>9, <2>1, Counts DEF TypeOK
    <2> QED
      BY <1>1, <1>3, <2>5, <2>6 DEF RefsExact, Users
  <1>19. CtxsApart'
    <2>1. \A p \in Queue : p # q => (InUse(p)' <=> InUse(p)) /\ lib'.ctx[p] = lib.ctx[p]
      BY <1>10 DEF InUse
    <2>2. \A p \in Queue : InUse(p) => lib.ctx[p].rc > 0 /\ lib.ctx[p].map \in lib.bound
      BY DEF CtxsApart
    <2>3. \A p, r \in Queue : InUse(p) /\ InUse(r) /\ lib.ctx[p].map = lib.ctx[r].map => p = r
      BY DEF CtxsApart
    <2>4. lib'.ctx[q].rc > 0
      BY <1>11
    <2>5. lib'.ctx[q].map = IF InUse(q) THEN lib.ctx[q].map ELSE fd
      BY <1>10 DEF InUse
    <2>6. \A p \in Queue : p # q /\ InUse(p) => lib.ctx[p].map # lib'.ctx[q].map
      BY <1>1, <2>2, <2>3, <2>5
    <2>7. \A p \in Queue : InUse(p)' => lib'.ctx[p].rc > 0 /\ lib'.ctx[p].map \in lib'.bound
      BY <1>9, <2>1, <2>2, <2>4, <2>5
    <2>8. \A p, r \in Queue : InUse(p)' /\ InUse(r)' /\ lib'.ctx[p].map = lib'.ctx[r].map => p = r
      BY <2>1, <2>3, <2>6
    <2> QED
      BY <2>7, <2>8 DEF CtxsApart
  <1>20. SocksApart'
    <2>1. \A t \in Live : sock'[t].fd \in lib.bound /\ sock'[t].fd \in {t, UmemFd}
      BY <1>16 DEF SocksApart
    <2>2. \A t, u \in Live : sock'[t].fd = sock'[u].fd => t = u
      BY <1>16 DEF SocksApart
    <2> QED
      BY <1>1, <1>5, <1>9, <1>14, <1>15, <2>1, <2>2 DEF SocksApart
  <1>21. Phases'
    BY <1>1, <1>3, <1>4, <1>9 DEF Phases
  <1>22. FdsExact'
    <2>1. {sock'[t].fd : t \in Live'} = {sock[t].fd : t \in Live} \cup {fd}
      BY <1>14, <1>15, <1>16
    <2> QED
      BY <1>1, <1>3, <1>9, <2>1 DEF FdsExact
  <1>23. MapsExact'
    <2>1. \A k : Uses(k)' <=> (Uses(k) \/ k \in dirs \X {fd}
                             \/ (lib.ctx[q] = NoCtx /\ k \in Rings(fd)))
      <3> SUFFICES ASSUME NEW k
                   PROVE  Uses(k)' <=> (Uses(k) \/ k \in dirs \X {fd}
                                         \/ (lib.ctx[q] = NoCtx /\ k \in Rings(fd)))
        OBVIOUS
      <3>1. (\E t \in Live' : k \in sock'[t].dirs \X {sock'[t].fd}) <=>
               k \in dirs \X {fd} \/ \E t \in Live : k \in sock[t].dirs \X {sock[t].fd}
        BY <1>14, <1>15, <1>16
      <3>2. (\E p \in Queue : lib'.ctx[p] # NoCtx /\ k \in Rings(lib'.ctx[p].map)) <=>
               \/ \E p \in Queue : lib.ctx[p] # NoCtx /\ k \in Rings(lib.ctx[p].map)
               \/ lib.ctx[q] = NoCtx /\ k \in Rings(fd)
        <4>1. lib.ctx[q] # NoCtx => lib'.ctx[q].map = lib.ctx[q].map
          BY <1>10
        <4>2. lib.ctx[q] = NoCtx => lib'.ctx[q].map = fd
          BY <1>10
        <4> QED
          BY <1>10, <1>11, <4>1, <4>2
      <3>3. lib.saved => lib.ctx[q] = NoCtx /\ fd = UmemFd
        BY <1>4 DEF CtxsApart, InUse
      <3> QED
        BY <1>9, <3>1, <3>2, <3>3 DEF Uses, InUse
    <2>2. lib.saved => Rings(fd) = Rings(UmemFd)
      BY <1>4
    <2>3. \A k : lib.saved /\ k \in Rings(UmemFd) => Uses(k)
      BY DEF Uses
    <2>4. \A k : k \in lib'.maps <=>
             \/ k \in lib.maps \/ k \in dirs \X {fd}
             \/ lib.ctx[q] = NoCtx /\ ~lib.saved /\ k \in Rings(fd)
      BY <1>9, <1>10
    <2>5. Skipped' = Skipped
      BY <1>1 DEF Skipped
    <2> QED
      BY <1>1, <2>1, <2>2, <2>3, <2>4, <2>5, OwnedIff DEF MapsExact
  <1> QED
    BY <1>17, <1>18, <1>19, <1>20, <1>21, <1>22, <1>23

(* xsk_socket__delete: only the socket's own mappings go, and those of a   *)
(* context nobody else uses.                                               *)
LEMMA StepDelete == ASSUME Inv, NEW s \in Sock, Delete(s) PROVE Inv'
  <1> USE DEF Inv
  <1> DEFINE x == sock[s]
             mine == x.dirs \X {x.fd}
             un == [lib EXCEPT !.maps = @ \ mine]
             l == PutCtx(un, x.q, TRUE)
  <1>1. PICK own \in {{}, mine}, rings \in {{}, un.maps \ l.maps} :
           /\ lib' = [l EXCEPT !.maps = @ \cup own \cup rings, !.refcount = @ - 1,
                               !.fds = IF x.fd # UmemFd THEN @ \ {x.fd} ELSE @]
           /\ Skip(own \cup rings)
    BY DEF Delete
  <1>2. /\ x # None /\ sock' = [sock EXCEPT ![s] = None]
        /\ umem' = umem /\ orphans' = orphans /\ lostRefs' = lostRefs /\ torn' = torn
    BY DEF Delete
  <1>3. x \in SockType /\ lib \in LibType /\ s \in Live
    BY <1>2 DEF TypeOK, Live
  <1>4. x.q \in Queue /\ x.fd \in Fd /\ mine \in SUBSET Mapping
    BY <1>3 DEF SockType, Mapping, Dirs
  <1>5. Is(un, lib.refcount, lib.saved, lib.bound, lib.ctx, lib.fds, lib.maps \ mine)
    <2>1. un = [lib EXCEPT !.maps = lib.maps \ mine] /\ lib.maps \ mine \in SUBSET Mapping
      BY <1>3 DEF LibType
    <2> HIDE DEF un, mine
    <2> QED
      BY <1>3, <2>1, LibMaps
  <1>q. PICK q \in Queue : q = x.q
    BY <1>4
  <1> DEFINE c == lib.ctx[q]
  <1>6. c \in CtxType /\ c.rc > 0 /\ c # NoCtx /\ c.rc = Cardinality(Users(q)) /\ s \in Users(q)
        /\ IsFiniteSet(Users(q))
    <2>1. c \in CtxType /\ s \in Users(q)
      BY <1>3, <1>q DEF LibType, Users
    <2>2. c.rc = Cardinality(Users(q)) /\ IsFiniteSet(Users(q))
      BY <1>4, Counts
    <2>3. c.rc # 0
      BY <2>1, <2>2, FS_EmptySet
    <2> QED
      BY <2>1, <2>2, <2>3 DEF CtxType, NoCtx
  <1> HIDE DEF un
  <1>7. /\ Is(l, un.refcount, un.saved, un.bound, l.ctx, un.fds, l.maps)
        /\ \A p \in Queue : p # q => l.ctx[p] = un.ctx[p]
        /\ un.ctx[q].rc > 1 => /\ l.ctx[q] = [rc |-> un.ctx[q].rc - 1, map |-> un.ctx[q].map]
                               /\ l.maps = un.maps
        /\ ~(un.ctx[q].rc > 1) => l.ctx[q] = NoCtx /\ l.maps = un.maps \ Rings(un.ctx[q].map)
    <2>1. IsPut(l, un, q, un.maps \ Rings(un.ctx[q].map))
      BY <1>q DEF IsPut
    <2>2. un \in LibType
      BY <1>5 DEF Is
    <2> HIDE DEF l
    <2> QED
      BY <2>1, <2>2, PutCtxIs
  <1> HIDE DEF l
  <1> DEFINE f == IF x.fd # UmemFd THEN lib.fds \ {x.fd} ELSE lib.fds
             m == l.maps \cup own \cup rings
  <1>8. Is(lib', lib.refcount - 1, lib.saved, lib.bound, l.ctx, f, m)
    <2>1. l \in LibType /\ l.fds = lib.fds /\ l.refcount = lib.refcount
          /\ un.maps \in SUBSET Mapping /\ l.maps \in SUBSET Mapping
      BY <1>5, <1>7 DEF Is, LibType
    <2>2. lib.refcount - 1 \in Int /\ f \in SUBSET Fd
      BY <1>3 DEF LibType
    <2>3. m \in SUBSET Mapping
      <3> HIDE DEF mine
      <3> QED
        BY <1>1, <1>4, <2>1
    <2>4. lib' = [l EXCEPT !.maps = m, !.refcount = lib.refcount - 1, !.fds = f]
      BY <1>1, <2>1 DEF LibType
    <2>5. Is(lib', lib.refcount - 1, l.saved, l.bound, l.ctx, f, m)
      <3> HIDE DEF m, f
      <3> QED
        BY <2>1, <2>2, <2>3, <2>4, LibMapsRefFds
    <2> QED
      BY <1>5, <1>7, <2>5 DEF Is
  <1>9. /\ lib' \in LibType /\ lib'.refcount = lib.refcount - 1 /\ lib'.saved = lib.saved
        /\ lib'.bound = lib.bound /\ lib'.ctx = l.ctx /\ lib'.fds = f /\ lib'.maps = m
    BY <1>8 DEF Is
  (* the context *)
  <1>10. /\ \A p \in Queue : p # q => lib'.ctx[p] = lib.ctx[p]
         /\ c.rc > 1 => /\ lib'.ctx[q] = [rc |-> c.rc - 1, map |-> c.map]
                        /\ l.maps = lib.maps \ mine
         /\ c.rc = 1 => lib'.ctx[q] = NoCtx /\ l.maps = (lib.maps \ mine) \ Rings(c.map)
    <2> HIDE DEF mine
    <2>1. un.ctx = lib.ctx /\ un.maps = lib.maps \ mine
      BY <1>5 DEF Is
    <2>2. c.rc = 1 => ~(un.ctx[q].rc > 1)
      BY <1>6, <2>1 DEF CtxType
    <2> QED
      BY <1>4, <1>7, <1>9, <2>1, <2>2
  <1>11. lib'.ctx[q].rc = c.rc - 1 /\ (c.rc > 1 <=> lib'.ctx[q] # NoCtx)
    <2>1. CASE c.rc > 1
      BY <1>6, <1>10, <2>1 DEF CtxType, NoCtx
    <2>2. CASE c.rc = 1
      BY <1>10, <2>2 DEF NoCtx
    <2> QED
      BY <1>6, <2>1, <2>2 DEF CtxType
  (* the socket *)
  <1>12. sock'[s] = None /\ (\A t \in Sock : t # s => sock'[t] = sock[t])
         /\ sock' \in [Sock -> SockType \cup {None}]
    BY <1>2 DEF TypeOK
  <1>13. Live' = Live \ {s}
    BY <1>12 DEF Live
  <1>14. \A t \in Live' : t \in Live /\ t # s /\ sock'[t] = sock[t]
    BY <1>12, <1>13 DEF Live
  <1>15. TypeOK'
    BY <1>2, <1>9, <1>12 DEF TypeOK
  <1>16. RefsExact'
    <2>1. Cardinality(Live') = Cardinality(Live) - 1
      BY <1>3, <1>13, Counts, FS_RemoveElement
    <2>2. Users(q)' = Users(q) \ {s}
      BY <1>13, <1>14 DEF Users
    <2>3. Cardinality(Users(q)') = Cardinality(Users(q)) - 1
      BY <1>6, <2>2, FS_RemoveElement
    <2>4. \A p \in Queue : p # q => Users(p)' = Users(p)
      BY <1>q, <1>13, <1>14 DEF Users
    <2>5. \A p \in Queue : lib'.ctx[p].rc = Cardinality(Users(p)')
      BY <1>6, <1>10, <1>11, <2>3, <2>4, Counts
    <2>6. lib'.refcount = Cardinality(Live') + lostRefs'
      BY <1>2, <1>9, <2>1, Counts DEF TypeOK
    <2>7. umem' = "stuck" => orphans' # {} \/ lostRefs' > 0
      BY <1>2 DEF RefsExact
    <2> QED
      BY <2>5, <2>6, <2>7 DEF RefsExact, Users
  <1>17. CtxsApart'
    <2>1. \A p \in Queue : p # q => (InUse(p)' <=> InUse(p)) /\ lib'.ctx[p] = lib.ctx[p]
      BY <1>10 DEF InUse
    <2>2. InUse(q)' => InUse(q) /\ lib'.ctx[q].map = lib.ctx[q].map /\ lib'.ctx[q].rc > 0
      BY <1>6, <1>10, <1>11 DEF InUse, CtxType
    <2> QED
      BY <1>9, <2>1, <2>2 DEF CtxsApart
  <1>18. SocksApart'
    BY <1>9, <1>14 DEF SocksApart
  <1>19. umem \in {"live", "stuck"} /\ lib.bound # {} /\ ~lib.saved
    <2>1. umem \notin {"none", "deleted"}
      <3> SUFFICES ASSUME umem \in {"none", "deleted"}
                   PROVE  FALSE
        OBVIOUS
      <3>1. lib.refcount - lostRefs = 0
        BY DEF Phases
      <3>2. lib.refcount = lostRefs
        BY <3>1, Counts DEF TypeOK
      <3> QED
        BY <1>3, <3>2, Counts
    <2> QED
      BY <1>3, <2>1 DEF TypeOK, SocksApart, Phases
  <1>20. Phases'
    BY <1>2, <1>9, <1>19 DEF Phases
  <1>21. FdsExact'
    <2>1. x.fd \in {s, UmemFd} /\ \A t \in Live' : sock[t].fd # x.fd
      BY <1>3, <1>14 DEF SocksApart
    <2>2. lib.fds = {UmemFd} \cup {sock[t].fd : t \in Live}
      BY <1>19 DEF FdsExact
    <2>3. {sock[t].fd : t \in Live} = {sock'[t].fd : t \in Live'} \cup {x.fd}
      BY <1>3, <1>13, <1>14
    <2>4. x.fd \notin {sock'[t].fd : t \in Live'}
      BY <1>14, <2>1
    <2>5. f = {UmemFd} \cup {sock'[t].fd : t \in Live'}
      BY <2>1, <2>2, <2>3, <2>4
    <2> QED
      BY <1>2, <1>9, <1>19, <2>5 DEF FdsExact
  <1>22. MapsExact'
    <2> SUFFICES ASSUME ~torn'
                 PROVE  Owned' \subseteq lib'.maps /\ lib'.maps \subseteq Owned' \cup Skipped'
      BY DEF MapsExact
    <2>1. /\ Skipped' = Skipped \cup own \cup rings
          /\ \A k : Uses(k) => k \in lib.maps
          /\ \A k : k \in lib.maps => Uses(k) \/ k \in Skipped
      BY <1>1, <1>2, SkipIs, OwnedIff DEF MapsExact, TypeOK
    <2> HIDE DEF mine
    (* nobody else names what is unmapped *)
    <2>2. \A k : Uses(k) <=> (Uses(k)' \/ k \in mine \/ (c.rc = 1 /\ k \in Rings(c.map)))
      <3> SUFFICES ASSUME NEW k
                   PROVE  Uses(k) <=> (Uses(k)' \/ k \in mine \/ (c.rc = 1 /\ k \in Rings(c.map)))
        OBVIOUS
      <3>1. (\E t \in Live : k \in sock[t].dirs \X {sock[t].fd}) <=>
               k \in mine \/ \E t \in Live' : k \in sock'[t].dirs \X {sock'[t].fd}
        BY <1>3, <1>13, <1>14 DEF mine
      <3>2. (\E p \in Queue : lib.ctx[p] # NoCtx /\ k \in Rings(lib.ctx[p].map)) <=>
               \/ \E p \in Queue : lib'.ctx[p] # NoCtx /\ k \in Rings(lib'.ctx[p].map)
               \/ c.rc = 1 /\ k \in Rings(c.map)
        <4>1. c.rc > 1 => lib'.ctx[q].map = c.map
          BY <1>10
        <4>2. c.rc > 1 \/ c.rc = 1
          BY <1>6 DEF CtxType
        <4> QED
          BY <1>4, <1>6, <1>10, <1>11, <4>1, <4>2
      <3> QED
        BY <1>9, <1>19, <3>1, <3>2 DEF Uses, InUse
    <2>3. \A k : Uses(k)' => k \notin mine
      <3> SUFFICES ASSUME NEW k \in mine, Uses(k)'
                   PROVE  FALSE
        OBVIOUS
      <3>1. k[1] \in {"rx", "tx"} /\ k[2] = x.fd
        BY <1>3 DEF mine, SockType, Dirs
      <3>2. \A p : k \notin Rings(p)
        BY <3>1 DEF Rings
      <3>3. \A t \in Live' : k \notin sock'[t].dirs \X {sock'[t].fd}
        BY <1>3, <1>14, <3>1 DEF SocksApart
      <3> QED
        BY <3>2, <3>3 DEF Uses
    <2>4. \A k : Uses(k)' /\ c.rc = 1 => k \notin Rings(c.map)
      <3> SUFFICES ASSUME c.rc = 1, NEW k \in Rings(c.map), Uses(k)'
                   PROVE  FALSE
        OBVIOUS
      <3>1. k[1] \in {"fill", "comp"} /\ k[2] = c.map
        BY DEF Rings
      <3>2. \A p \in Queue : lib'.ctx[p] # NoCtx => k \notin Rings(lib'.ctx[p].map)
        <4> SUFFICES ASSUME NEW p \in Queue, lib'.ctx[p] # NoCtx, k \in Rings(lib'.ctx[p].map)
                     PROVE  FALSE
          OBVIOUS
        <4>1. p # q /\ lib.ctx[p] # NoCtx /\ k \in Rings(lib.ctx[p].map)
          BY <1>10
        <4>2. lib.ctx[p].map = c.map
          BY <3>1, <4>1 DEF Rings
        <4> QED
          BY <1>4, <1>6, <4>1, <4>2 DEF CtxsApart, InUse
      <3>3. \A t \in Live' : k \notin sock'[t].dirs \X {sock'[t].fd}
        <4> SUFFICES ASSUME NEW t \in Live', k \in sock'[t].dirs \X {sock'[t].fd}
                     PROVE  FALSE
          OBVIOUS
        <4>1. sock'[t] \in SockType
          BY <1>12, <1>14 DEF Live, TypeOK
        <4> QED
          BY <3>1, <4>1 DEF SockType, Dirs
      <3> QED
        BY <1>9, <1>19, <3>2, <3>3 DEF Uses, InUse
    <2>5. un.maps = lib.maps \ mine
      BY <1>5 DEF Is
    <2>6. /\ c.rc > 1 => l.maps = lib.maps \ mine
          /\ c.rc = 1 => l.maps = (lib.maps \ mine) \ Rings(c.map)
          /\ c.rc > 1 \/ c.rc = 1
      BY <1>6, <1>10 DEF CtxType
    <2>7. \A k : k \in lib'.maps <=> k \in l.maps \/ k \in own \/ k \in rings
      BY <1>9
    <2>8. Owned' \subseteq lib'.maps
      <3> SUFFICES ASSUME NEW k, Uses(k)'
                   PROVE  k \in l.maps
        BY <2>7, OwnedIff
      <3> QED
        BY <2>1, <2>2, <2>3, <2>4, <2>6
    <2>9. lib'.maps \subseteq Owned' \cup Skipped'
      <3> SUFFICES ASSUME NEW k \in l.maps
                   PROVE  Uses(k)' \/ k \in Skipped
        BY <2>1, <2>7, OwnedIff
      <3> QED
        BY <2>1, <2>2, <2>6
    <2> QED
      BY <2>8, <2>9
  <1> QED
    BY <1>15, <1>16, <1>17, <1>18, <1>20, <1>21, <1>22
-----------------------------------------------------------------------------
LEMMA InvStep == Inv /\ [Next]_vars => Inv'
  <1> SUFFICES ASSUME Inv, [Next]_vars
               PROVE  Inv'
    OBVIOUS
  <1>1. CASE UNCHANGED vars
    <2>1. umem' = umem /\ lib' = lib /\ sock' = sock /\ orphans' = orphans /\ lostRefs' = lostRefs
          /\ skips' = skips /\ torn' = torn /\ Live' = Live
      BY <1>1 DEF vars, Live
    <2>2. Owned' = Owned
      <3>1. \A m : Uses(m)' <=> Uses(m)
        BY <2>1 DEF Uses, InUse
      <3> QED
        BY <3>1, OwnedIff
    <2> QED
      BY <2>1, <2>2 DEF Inv, TypeOK, RefsExact, CtxsApart, SocksApart, Phases, FdsExact, MapsExact,
                        InUse, Skipped
  <1>2. CASE Next
    BY <1>2, StepUmemCreate, StepUmemCreateFails, StepUmemDelete, StepOrphan, StepCreateNoSocket,
       StepCreateNoCtx, StepCreateUndone, StepCreate, StepDelete DEF Next
  <1> QED
    BY <1>1, <1>2

LEMMA Invariance == Spec => []Inv
  BY InvInit, InvStep, PTL DEF Spec

(* For any number of sockets and queues, through every error path of       *)
(* xsk.c: the UMEM and every context count exactly their users, and the    *)
(* UMEM also the references that a failed socket() forgets.                *)
THEOREM ReferencesExact == Spec => []RefsExact
  <1>1. Inv => RefsExact
    BY DEF Inv
  <1> QED
    BY <1>1, Invariance, PTL

(* For any number of sockets, the process holds exactly the descriptors of *)
(* the live UMEM and the live sockets (out_socket, xsk_socket__delete,     *)
(* xsk_umem__delete).                                                      *)
THEOREM DescriptorsExact == Spec => []FdsExact
  <1>1. Inv => FdsExact
    BY DEF Inv
  <1> QED
    BY <1>1, Invariance, PTL

(* For any number of sockets and queues, no ring is unmapped under an      *)
(* owner and nothing leaks but what an error path leaves behind, as long   *)
(* as no first create_shared with rings of its own failed (xsk_put_ctx,    *)
(* out_put_ctx, xsk_delete_ctx).                                           *)
THEOREM MappingsExact == Spec => []MapsExact
  <1>1. Inv => MapsExact
    BY DEF Inv
  <1> QED
    BY <1>1, Invariance, PTL
=============================================================================
