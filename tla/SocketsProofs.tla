--------------------------- MODULE SocketsProofs ---------------------------
(***************************************************************************)
(* Theorems about Sockets, for any number of sockets, clones, names and    *)
(* buffers.  The inductive invariant has a part for the sockets (types,    *)
(* identifiers, names), one for the references to them (clones, tokens,    *)
(* payloads) and one for the owners of a buffer.                           *)
(***************************************************************************)
EXTENDS Sockets, FiniteSetTheorems, TLAPS

Token == [pool : Sock, buf : Buf, id : Nat]

TypeOK ==
    /\ allocated \subseteq Name
    /\ counter \in [Backend -> Nat]
    /\ eal \in BOOLEAN
    /\ sock \in [Sock -> [b : Backend \cup {None}, name : Name \cup {None}, id : Nat,
                          life : {"none", "opening", "open", "failed", "dropped"}]]
    /\ leaked \subseteq Sock
    /\ clones \in [Clone -> Sock \cup {None}]
    /\ free \in [Sock -> SUBSET Buf]
    /\ tokens \subseteq Token
    /\ payloads \subseteq [tok : Token, ctx : Sock \cup Clone]
    /\ gone \subseteq Sock \X Buf
    /\ mixed \in BOOLEAN

(* A socket that was ever open has a backend, and only netmap ones have a  *)
(* name; identifiers are below the counter of their backend and different; *)
(* so are the names, which are all entered in ALLOCATED_PORTS.             *)
SocketsNumbered ==
    \A s \in Sock :
        /\ sock[s].life \in {"open", "dropped"} => sock[s].b # None
        /\ sock[s].life = "none" => sock[s] = NoSock
        /\ sock[s].life = "opening" => sock[s].b = None
        /\ sock[s].b # None => sock[s].id < counter[sock[s].b]
        /\ \A t \in Sock :
              s # t /\ sock[s].b = sock[t].b /\ sock[s].b # None => sock[s].id # sock[t].id

PortsNamed ==
    \A s \in Sock :
        /\ sock[s].life = "opening" \/ sock[s].b = "netmap" \/ s \in leaked
              => sock[s].name # None
        /\ sock[s].name # None => sock[s].name \in allocated
        /\ \A t \in Sock : s # t /\ sock[s].name = sock[t].name => sock[s].name = None

(* Clones, tokens and payloads come from sockets that have a number, and a *)
(* payload's context is still there.                                       *)
TokenValid(t) == sock[t.pool].b # None /\ t.id = sock[t.pool].id
RefsValid ==
    /\ \A c \in Clone : clones[c] # None => sock[clones[c]].b # None
    /\ \A t \in tokens : TokenValid(t)
    /\ \A p \in payloads : TokenValid(p.tok) /\ p.ctx \in Contexts

Inv1 == TypeOK /\ SocketsNumbered /\ PortsNamed /\ RefsValid

(* The four places of a buffer exclude each other and one of them has it. *)
HasToken(s, x) == \E t \in tokens : t.pool = s /\ t.buf = x
HasPayload(s, x) == \E p \in payloads : p.tok.pool = s /\ p.tok.buf = x
PlacedAt(s, x) ==
    /\ x \in free[s] => ~HasToken(s, x) /\ ~HasPayload(s, x) /\ <<s, x>> \notin gone
    /\ HasToken(s, x) => ~HasPayload(s, x) /\ <<s, x>> \notin gone
    /\ HasPayload(s, x) => <<s, x>> \notin gone
    /\ x \in free[s] \/ HasToken(s, x) \/ HasPayload(s, x) \/ <<s, x>> \in gone
Placed == \A s \in Sock, x \in Buf : PlacedAt(s, x)
LentOnce == \A p, q \in payloads : p.tok.pool = q.tok.pool /\ p.tok.buf = q.tok.buf => p = q

Inv2 == TokenOfPool /\ (mixed \/ (Placed /\ LentOnce))
-----------------------------------------------------------------------------
LEMMA Inv1Init == Init => Inv1
  <1> USE SocketsAssumption DEF Backend
  <1>1. Init => TypeOK
    <2> SUFFICES ASSUME Init PROVE TypeOK
      OBVIOUS
    <2>1. NoSock \in [b : Backend \cup {None}, name : Name \cup {None}, id : Nat,
                      life : {"none", "opening", "open", "failed", "dropped"}]
      BY DEF NoSock
    <2>2. counter \in [Backend -> Nat]
      BY SMT DEF Init
    <2> QED
      BY <2>1, <2>2 DEF Init, TypeOK
  <1>2. Init => SocketsNumbered /\ PortsNamed /\ RefsValid
    BY DEF Init, SocketsNumbered, PortsNamed, RefsValid, NoSock
  <1> QED
    BY <1>1, <1>2 DEF Inv1

(* A new number: the socket gets the counter of its backend, which no      *)
(* other socket of the backend has reached.                                *)
LEMMA BecomesNumbered ==
    ASSUME TypeOK, SocketsNumbered, RefsValid,
           NEW s \in Sock, NEW b \in Backend, NEW n \in Name \cup {None},
           NEW life \in {"open", "failed"},
           sock[s].b = None,
           Becomes(s, b, n, life), UNCHANGED <<leaked, clones, tokens, payloads>>
    PROVE  /\ SocketsNumbered'
           /\ RefsValid'
           /\ sock' \in [Sock -> [b : Backend \cup {None}, name : Name \cup {None}, id : Nat,
                          life : {"none", "opening", "open", "failed", "dropped"}]]
           /\ counter' \in [Backend -> Nat]
  <1> USE SocketsAssumption
  <1>1. /\ sock' = [sock EXCEPT ![s] = [b |-> b, name |-> n, id |-> counter[b], life |-> life]]
        /\ counter' = [counter EXCEPT ![b] = @ + 1]
    BY DEF Becomes, NewId
  <1>2. /\ sock' \in [Sock -> [b : Backend \cup {None}, name : Name \cup {None}, id : Nat,
                          life : {"none", "opening", "open", "failed", "dropped"}]]
        /\ counter' \in [Backend -> Nat]
    BY <1>1 DEF TypeOK
  <1>3. SocketsNumbered'
    <2> SUFFICES ASSUME NEW t \in Sock
                 PROVE  (/\ sock[t].life \in {"open", "dropped"} => sock[t].b # None
                         /\ sock[t].life = "none" => sock[t] = NoSock
                         /\ sock[t].life = "opening" => sock[t].b = None
                         /\ sock[t].b # None => sock[t].id < counter[sock[t].b]
                         /\ \A u \in Sock : t # u /\ sock[t].b = sock[u].b /\ sock[t].b # None
                                              => sock[t].id # sock[u].id)'
      BY DEF SocketsNumbered
    <2>1. \A u \in Sock : u # s => sock'[u] = sock[u]
      BY <1>1 DEF TypeOK
    <2>2. sock'[s] = [b |-> b, name |-> n, id |-> counter[b], life |-> life]
      BY <1>1 DEF TypeOK
    <2>3. \A u \in Sock : sock'[u].b # None => sock'[u].id < counter'[sock'[u].b]
      BY <1>1, <2>1, <2>2, SMT DEF TypeOK, SocketsNumbered
    <2>4. \A u \in Sock : u # t /\ sock'[u].b = sock'[t].b /\ sock'[u].b # None
                             => sock'[t].id # sock'[u].id
      <3> SUFFICES ASSUME NEW u \in Sock, u # t, sock'[u].b = sock'[t].b, sock'[u].b # None
                   PROVE  sock'[t].id # sock'[u].id
        OBVIOUS
      <3>1. CASE t = s
        BY <3>1, <2>1, <2>2, SMT DEF TypeOK, SocketsNumbered
      <3>2. CASE u = s
        BY <3>2, <2>1, <2>2, SMT DEF TypeOK, SocketsNumbered
      <3>3. CASE t # s /\ u # s
        BY <3>3, <2>1 DEF SocketsNumbered
      <3> QED
        BY <3>1, <3>2, <3>3
    <2> QED
      BY <2>1, <2>2, <2>3, <2>4 DEF SocketsNumbered, TypeOK
  <1>4. RefsValid'
    <2>1. \A t \in Sock : sock[t].b # None => sock'[t] = sock[t]
      BY <1>1 DEF TypeOK
    <2>2. \A t \in Token : TokenValid(t) => TokenValid(t)'
      BY <2>1 DEF TokenValid, Token
    <2>3. Contexts \subseteq Contexts'
      BY <2>1 DEF Contexts, SocketsNumbered, TypeOK
    <2> QED
      BY <2>1, <2>2, <2>3 DEF RefsValid, TypeOK
  <1> QED
    BY <1>2, <1>3, <1>4

(* The life of a socket changes, its number and its backend do not, and a  *)
(* socket that a payload borrows stays open.                               *)
LEMMA LifeNumbered ==
    ASSUME TypeOK, SocketsNumbered, RefsValid, NEW s \in Sock,
           NEW life \in {"failed", "dropped", "opening"},
           \A t \in Sock : t # s => sock'[t] = sock[t],
           sock'[s].b = sock[s].b, sock'[s].id = sock[s].id, sock'[s].life = life,
           life = "dropped" => sock[s].b # None,
           life = "opening" => sock[s].b = None,
           ~Borrowed(s) \/ sock[s].life # "open",
           UNCHANGED <<counter, clones, tokens, payloads>>
    PROVE  SocketsNumbered' /\ RefsValid'
  <1> USE SocketsAssumption
  <1>0. \A t \in Sock : sock'[t].b = sock[t].b /\ sock'[t].id = sock[t].id
    OBVIOUS
  <1>1. SocketsNumbered'
    BY <1>0 DEF SocketsNumbered, TypeOK
  <1>2. RefsValid'
    <2>1. \A t \in Token : TokenValid(t) => TokenValid(t)'
      BY <1>0 DEF TokenValid, Token
    <2>2. \A p \in payloads : p.ctx \in Contexts'
      BY DEF RefsValid, Contexts, Borrowed, TypeOK
    <2> QED
      BY <1>0, <2>1, <2>2 DEF RefsValid, TypeOK
  <1> QED
    BY <1>1, <1>2

LEMMA Inv1Step == Inv1 /\ [Next]_vars => Inv1'
  <1> USE SocketsAssumption
  <1> SUFFICES ASSUME Inv1, [Next]_vars
               PROVE  Inv1'
    OBVIOUS
  <1> USE DEF Inv1
  <1> DEFINE SockType == [b : Backend \cup {None}, name : Name \cup {None}, id : Nat,
                          life : {"none", "opening", "open", "failed", "dropped"}]
  <1>1. ASSUME NEW s \in Sock, NEW b \in Backend, Create(s, b)
        PROVE  Inv1'
    <2>1. PICK life \in {"open", "failed"} : Becomes(s, b, None, life)
      BY <1>1 DEF Create
    <2>2. sock[s].b = None
      BY <1>1 DEF Create, NoSock
    <2>3. SocketsNumbered' /\ RefsValid' /\ sock' \in [Sock -> SockType] /\ counter' \in [Backend -> Nat]
      BY <1>1, <2>1, <2>2, BecomesNumbered DEF Create, bufVars
    <2>4. TypeOK'
      BY <1>1, <2>3 DEF TypeOK, Create, bufVars
    <2>5. PortsNamed'
      BY <1>1, <2>1 DEF TypeOK, PortsNamed, Create, Becomes, NoSock, bufVars
    <2> QED
      BY <2>3, <2>4, <2>5
  <1>2. ASSUME NEW s \in Sock, CreateDpdk(s)
        PROVE  Inv1'
    <2>1. CASE Becomes(s, "dpdk", None, "open")
      <3>1. SocketsNumbered' /\ RefsValid' /\ sock' \in [Sock -> SockType] /\ counter' \in [Backend -> Nat]
        BY <1>2, <2>1, BecomesNumbered DEF CreateDpdk, bufVars, NoSock, Backend
      <3>2. TypeOK'
        BY <1>2, <3>1 DEF TypeOK, CreateDpdk, bufVars
      <3>3. PortsNamed'
        BY <1>2, <2>1 DEF TypeOK, PortsNamed, CreateDpdk, Becomes, NoSock, bufVars
      <3> QED
        BY <3>1, <3>2, <3>3
    <2>2. CASE sock' = [sock EXCEPT ![s].life = "failed"] /\ UNCHANGED counter
      <3>0. /\ \A t \in Sock : t # s => sock'[t] = sock[t]
            /\ sock'[s].b = sock[s].b /\ sock'[s].id = sock[s].id /\ sock'[s].life = "failed"
            /\ sock[s].life = "none"
            /\ sock' \in [Sock -> SockType]
        BY <1>2, <2>2 DEF CreateDpdk, NoSock, TypeOK
      <3>1. SocketsNumbered' /\ RefsValid' /\ sock' \in [Sock -> SockType]
        BY <1>2, <2>2, <3>0, LifeNumbered DEF CreateDpdk, bufVars
      <3>2. TypeOK'
        BY <1>2, <2>2, <3>1 DEF TypeOK, CreateDpdk, bufVars
      <3>3. PortsNamed'
        BY <1>2, <2>2 DEF TypeOK, PortsNamed, CreateDpdk, NoSock, bufVars
      <3> QED
        BY <3>1, <3>2, <3>3
    <2> QED
      BY <1>2, <2>1, <2>2 DEF CreateDpdk
  <1>3. ASSUME NEW s \in Sock, NEW n \in Name, OpenPort(s, n)
        PROVE  Inv1'
    <2>0. /\ \A t \in Sock : t # s => sock'[t] = sock[t]
          /\ sock'[s].b = sock[s].b /\ sock'[s].id = sock[s].id /\ sock'[s].life = "opening"
          /\ sock[s].life = "none" /\ sock[s].b = None
          /\ sock' \in [Sock -> SockType]
      BY <1>3 DEF OpenPort, NoSock, SocketsNumbered, TypeOK
    <2>1. SocketsNumbered' /\ RefsValid' /\ sock' \in [Sock -> SockType]
      BY <1>3, <2>0, LifeNumbered DEF OpenPort, bufVars
    <2>2. TypeOK'
      BY <1>3, <2>1 DEF TypeOK, OpenPort, AllocatePort, bufVars
    <2>3. PortsNamed'
      BY <1>3 DEF TypeOK, PortsNamed, OpenPort, AllocatePort, NoSock, bufVars
    <2> QED
      BY <2>1, <2>2, <2>3
  <1>4. ASSUME NEW s \in Sock, NEW n \in Name, OpenRefused(s, n)
        PROVE  Inv1'
    <2>0. /\ \A t \in Sock : t # s => sock'[t] = sock[t]
          /\ sock'[s].b = sock[s].b /\ sock'[s].id = sock[s].id /\ sock'[s].life = "failed"
          /\ sock[s].life = "none"
          /\ sock' \in [Sock -> SockType]
      BY <1>4 DEF OpenRefused, NoSock, SocketsNumbered, TypeOK
    <2>1. SocketsNumbered' /\ RefsValid' /\ sock' \in [Sock -> SockType]
      BY <1>4, <2>0, LifeNumbered DEF OpenRefused, bufVars
    <2>2. TypeOK'
      BY <1>4, <2>1 DEF TypeOK, OpenRefused, bufVars
    <2>3. PortsNamed'
      BY <1>4 DEF TypeOK, PortsNamed, OpenRefused, NoSock, bufVars
    <2> QED
      BY <2>1, <2>2, <2>3
  <1>5. ASSUME NEW s \in Sock, OpenDone(s)
        PROVE  Inv1'
    <2>1. SocketsNumbered' /\ RefsValid' /\ sock' \in [Sock -> SockType] /\ counter' \in [Backend -> Nat]
      <3>1. sock[s].b = None /\ sock[s].name \in Name \cup {None} /\ "netmap" \in Backend
        BY <1>5 DEF OpenDone, SocketsNumbered, TypeOK, Backend
      <3> QED
        BY <1>5, <3>1, BecomesNumbered DEF OpenDone, bufVars
    <2>2. TypeOK'
      BY <1>5, <2>1 DEF TypeOK, OpenDone, bufVars
    <2>3. PortsNamed'
      BY <1>5 DEF TypeOK, PortsNamed, OpenDone, Becomes, bufVars
    <2> QED
      BY <2>1, <2>2, <2>3
  <1>6. ASSUME NEW s \in Sock, OpenFails(s)
        PROVE  Inv1'
    <2>0. /\ \A t \in Sock : t # s => sock'[t] = sock[t]
          /\ sock'[s].b = sock[s].b /\ sock'[s].id = sock[s].id /\ sock'[s].life = "failed"
          /\ sock[s].life = "opening"
          /\ sock' \in [Sock -> SockType]
      BY <1>6 DEF OpenFails, NoSock, SocketsNumbered, TypeOK
    <2>1. SocketsNumbered' /\ RefsValid' /\ sock' \in [Sock -> SockType]
      BY <1>6, <2>0, LifeNumbered DEF OpenFails, bufVars
    <2>2. TypeOK'
      BY <1>6, <2>1 DEF TypeOK, OpenFails, bufVars
    <2>3. PortsNamed'
      BY <1>6 DEF TypeOK, PortsNamed, OpenFails, bufVars
    <2> QED
      BY <2>1, <2>2, <2>3
  <1>7. ASSUME NEW s \in Sock, DropSock(s)
        PROVE  Inv1'
    <2>0. /\ \A t \in Sock : t # s => sock'[t] = sock[t]
          /\ sock'[s].b = sock[s].b /\ sock'[s].id = sock[s].id /\ sock'[s].life = "dropped"
          /\ sock[s].b # None
          /\ sock' \in [Sock -> SockType]
      BY <1>7 DEF DropSock, NoSock, SocketsNumbered, TypeOK
    <2>1. SocketsNumbered' /\ RefsValid' /\ sock' \in [Sock -> SockType]
      BY <1>7, <2>0, LifeNumbered DEF DropSock, bufVars
    <2>2. TypeOK'
      BY <1>7, <2>1 DEF TypeOK, DropSock, bufVars
    <2>3. PortsNamed'
      BY <1>7 DEF TypeOK, PortsNamed, DropSock, bufVars
    <2> QED
      BY <2>1, <2>2, <2>3
  <1>8. ASSUME NEW c \in Clone, NEW d \in Sock \cup Clone, CloneCtx(c, d)
        PROVE  Inv1'
    <2>1. PoolOf(d) \in Sock /\ sock[PoolOf(d)].b # None
      BY <1>8 DEF CloneCtx, Contexts, PoolOf, TypeOK, SocketsNumbered, RefsValid
    <2>2. TypeOK'
      BY <1>8, <2>1 DEF TypeOK, CloneCtx, bufVars
    <2>3. SocketsNumbered' /\ PortsNamed'
      BY <1>8 DEF SocketsNumbered, PortsNamed, CloneCtx, bufVars
    <2>4. RefsValid'
      <3>1. Contexts \subseteq Contexts'
        BY <1>8 DEF Contexts, CloneCtx, TypeOK
      <3> QED
        BY <1>8, <2>1, <3>1 DEF RefsValid, CloneCtx, TypeOK, TokenValid, bufVars
    <2> QED
      BY <2>2, <2>3, <2>4
  <1>9. ASSUME NEW c \in Clone, DropClone(c)
        PROVE  Inv1'
    <2>1. TypeOK'
      BY <1>9 DEF TypeOK, DropClone, bufVars
    <2>2. SocketsNumbered' /\ PortsNamed'
      BY <1>9 DEF SocketsNumbered, PortsNamed, DropClone, bufVars
    <2>3. RefsValid'
      <3>1. \A p \in payloads : p.ctx \in Contexts'
        BY <1>9 DEF RefsValid, Contexts, Borrowed, DropClone, TypeOK
      <3> QED
        BY <1>9, <3>1 DEF RefsValid, DropClone, TypeOK, TokenValid, bufVars
    <2> QED
      BY <2>1, <2>2, <2>3
  <1>10. ASSUME NEW s \in Sock, NEW x \in Buf, Recv(s, x)
         PROVE  Inv1'
    <2>1. TypeOK'
      BY <1>10 DEF TypeOK, Recv, apiVars, Token
    <2>2. SocketsNumbered' /\ PortsNamed'
      BY <1>10 DEF SocketsNumbered, PortsNamed, Recv, apiVars
    <2>3. RefsValid'
      BY <1>10 DEF RefsValid, Recv, apiVars, TokenValid, Contexts, SocketsNumbered
    <2> QED
      BY <2>1, <2>2, <2>3
  <1>11. ASSUME NEW t \in tokens, NEW c \in Contexts, Consume(t, c) \/ LendUnchecked(t, c)
         PROVE  Inv1'
    <2>0. Lend(t, c) /\ mixed' \in BOOLEAN
      BY <1>11 DEF Consume, LendUnchecked
    <2>1. TypeOK'
      BY <2>0 DEF TypeOK, Lend, apiVars, Contexts
    <2>2. SocketsNumbered' /\ PortsNamed'
      BY <2>0 DEF SocketsNumbered, PortsNamed, Lend, apiVars
    <2>3. RefsValid'
      BY <2>0 DEF RefsValid, Lend, apiVars, TokenValid, Contexts
    <2> QED
      BY <2>1, <2>2, <2>3
  <1>12. ASSUME NEW t \in tokens, NEW c \in Contexts, ConsumePanics(t, c)
         PROVE  Inv1'
    <2>1. TypeOK'
      BY <1>12 DEF TypeOK, ConsumePanics, apiVars, Token
    <2>2. SocketsNumbered' /\ PortsNamed'
      BY <1>12 DEF SocketsNumbered, PortsNamed, ConsumePanics, apiVars
    <2>3. RefsValid'
      BY <1>12 DEF RefsValid, ConsumePanics, apiVars, TokenValid, Contexts
    <2> QED
      BY <2>1, <2>2, <2>3
  <1>13. ASSUME NEW t \in tokens, DropToken(t)
         PROVE  Inv1'
    <2>1. TypeOK'
      BY <1>13 DEF TypeOK, DropToken, apiVars, Token
    <2>2. SocketsNumbered' /\ PortsNamed'
      BY <1>13 DEF SocketsNumbered, PortsNamed, DropToken, apiVars
    <2>3. RefsValid'
      BY <1>13 DEF RefsValid, DropToken, apiVars, TokenValid, Contexts
    <2> QED
      BY <2>1, <2>2, <2>3
  <1>14. ASSUME NEW p \in payloads, IntoToken(p)
         PROVE  Inv1'
    <2>1. TypeOK'
      BY <1>14 DEF TypeOK, IntoToken, apiVars
    <2>2. SocketsNumbered' /\ PortsNamed'
      BY <1>14 DEF SocketsNumbered, PortsNamed, IntoToken, apiVars
    <2>3. RefsValid'
      BY <1>14 DEF RefsValid, IntoToken, apiVars, TokenValid, Contexts
    <2> QED
      BY <2>1, <2>2, <2>3
  <1>15. ASSUME NEW p \in payloads, DropPayload(p)
         PROVE  Inv1'
    <2>1. TypeOK'
      <3>1. p.tok.buf \in Buf /\ PoolOf(p.ctx) \in Sock
        BY <1>15 DEF TypeOK, RefsValid, Contexts, PoolOf, Token
      <3> QED
        BY <1>15, <3>1 DEF TypeOK, DropPayload, apiVars
    <2>2. SocketsNumbered' /\ PortsNamed'
      BY <1>15 DEF SocketsNumbered, PortsNamed, DropPayload, apiVars
    <2>3. RefsValid'
      BY <1>15 DEF RefsValid, DropPayload, apiVars, TokenValid, Contexts
    <2> QED
      BY <2>1, <2>2, <2>3
  <1>16. ASSUME NEW t \in tokens, NEW c \in Contexts, ReleaseToken(t, c)
         PROVE  Inv1'
    <2>1. TypeOK'
      <3>1. t.buf \in Buf /\ PoolOf(c) \in Sock
        BY DEF TypeOK, RefsValid, Contexts, PoolOf, Token
      <3> QED
        BY <1>16, <3>1 DEF TypeOK, ReleaseToken, apiVars
    <2>2. SocketsNumbered' /\ PortsNamed'
      BY <1>16 DEF SocketsNumbered, PortsNamed, ReleaseToken, apiVars
    <2>3. RefsValid'
      BY <1>16 DEF RefsValid, ReleaseToken, apiVars, TokenValid, Contexts
    <2> QED
      BY <2>1, <2>2, <2>3
  <1>17. CASE UNCHANGED vars
    BY <1>17 DEF vars, TypeOK, SocketsNumbered, PortsNamed, RefsValid, TokenValid, Contexts
  <1> QED
    BY <1>1, <1>2, <1>3, <1>4, <1>5, <1>6, <1>7, <1>8, <1>9, <1>10, <1>11, <1>12, <1>13,
       <1>14, <1>15, <1>16, <1>17 DEF Next
-----------------------------------------------------------------------------
(* A context whose identifier a token carries is a context of the token's  *)
(* pool, if the backend is the same.                                       *)
LEMMA SamePool ==
    ASSUME Inv1, NEW t \in tokens, NEW c \in Contexts, CheckToken(c, t),
           sock[PoolOf(c)].b = sock[t.pool].b
    PROVE  PoolOf(c) = t.pool
  <1>1. PoolOf(c) \in Sock /\ t.pool \in Sock /\ sock[t.pool].b # None /\ t.id = sock[t.pool].id
    BY SocketsAssumption DEF Inv1, TypeOK, RefsValid, TokenValid, Contexts, PoolOf, Token
  <1> QED
    BY <1>1 DEF CheckToken, Inv1, SocketsNumbered

(* Tokens of one buffer are equal. *)
LEMMA TokenDetermined ==
    ASSUME Inv1, NEW t \in Token, NEW u \in Token, TokenValid(t), TokenValid(u),
           t.pool = u.pool, t.buf = u.buf
    PROVE  t = u
  BY DEF TokenValid, Token

LEMMA Inv2Init == Init => Inv2
  BY DEF Init, Inv2, TokenOfPool, Placed, PlacedAt, LentOnce, HasToken, HasPayload

LEMMA Inv2Step == Inv1 /\ Inv2 /\ [Next]_vars => Inv2'
  <1> USE SocketsAssumption
  <1> SUFFICES ASSUME Inv1, Inv2, [Next]_vars
               PROVE  Inv2'
    OBVIOUS
  <1>0. /\ tokens \subseteq Token
        /\ \A p \in payloads : p.tok \in Token /\ TokenValid(p.tok) /\ p.ctx \in Contexts
        /\ \A t \in tokens : TokenValid(t)
        /\ free \in [Sock -> SUBSET Buf]
        /\ clones \in [Clone -> Sock \cup {None}]
    BY DEF Inv1, TypeOK, RefsValid
  (* Steps that leave the buffers alone. *)
  <1>1. ASSUME UNCHANGED bufVars, \A p \in payloads : p.ctx \in Clone => clones'[p.ctx] = clones[p.ctx]
        PROVE  Inv2'
    <2>1. \A p \in payloads : PoolOf(p.ctx)' = PoolOf(p.ctx)
      BY <1>0, <1>1 DEF PoolOf, Contexts
    <2> QED
      BY <1>1, <2>1 DEF Inv2, TokenOfPool, Placed, PlacedAt, LentOnce, HasToken, HasPayload, bufVars
  <1>2. ASSUME NEW s \in Sock, NEW b \in Backend, Create(s, b)
        PROVE  Inv2'
    BY <1>1, <1>2 DEF Create
  <1>3. ASSUME NEW s \in Sock, CreateDpdk(s)
        PROVE  Inv2'
    BY <1>1, <1>3 DEF CreateDpdk
  <1>4. ASSUME NEW s \in Sock, NEW n \in Name, OpenPort(s, n) \/ OpenRefused(s, n)
        PROVE  Inv2'
    BY <1>1, <1>4 DEF OpenPort, OpenRefused
  <1>5. ASSUME NEW s \in Sock, OpenDone(s) \/ OpenFails(s) \/ DropSock(s)
        PROVE  Inv2'
    BY <1>1, <1>5 DEF OpenDone, OpenFails, DropSock
  <1>6. ASSUME NEW c \in Clone, NEW d \in Sock \cup Clone, CloneCtx(c, d)
        PROVE  Inv2'
    BY <1>0, <1>1, <1>6 DEF CloneCtx, Contexts
  <1>7. ASSUME NEW c \in Clone, DropClone(c)
        PROVE  Inv2'
    BY <1>0, <1>1, <1>7 DEF DropClone, Borrowed
  (* Steps that move a buffer. *)
  <1>8. ASSUME NEW s \in Sock, NEW x \in Buf, Recv(s, x)
        PROVE  Inv2'
    <2> DEFINE t == [pool |-> s, buf |-> x, id |-> sock[s].id]
    <2>1. /\ ~mixed /\ ~mixed' /\ payloads' = payloads /\ gone' = gone /\ clones' = clones
          /\ tokens' = tokens \cup {t}
          /\ free' = [free EXCEPT ![s] = @ \ {x}] /\ x \in free[s]
      BY <1>8 DEF Recv, apiVars, Defined
    <2>2. TokenOfPool'
      BY <2>1 DEF Inv2, TokenOfPool, PoolOf
    <2>3. LentOnce'
      BY <2>1 DEF Inv2, LentOnce
    <2>4. Placed'
      <3> SUFFICES ASSUME NEW r \in Sock, NEW y \in Buf
                   PROVE  PlacedAt(r, y)'
        BY DEF Placed
      <3>1. PlacedAt(r, y) /\ (HasPayload(r, y)' <=> HasPayload(r, y))
        BY <2>1 DEF Inv2, Placed, HasPayload
      <3>2. t.pool = s /\ t.buf = x
        OBVIOUS
      <3> HIDE DEF t
      <3>3. CASE r = s /\ y = x
        <4>1. HasToken(r, y)' /\ y \notin free'[r]
          BY <1>0, <2>1, <3>2, <3>3 DEF HasToken
        <4> QED
          BY <2>1, <3>1, <3>3, <4>1 DEF PlacedAt
      <3>4. CASE ~(r = s /\ y = x)
        <4>1. (HasToken(r, y)' <=> HasToken(r, y)) /\ (y \in free'[r] <=> y \in free[r])
          BY <1>0, <2>1, <3>2, <3>4 DEF HasToken
        <4> QED
          BY <2>1, <3>1, <4>1 DEF PlacedAt
      <3> QED
        BY <3>3, <3>4
    <2> QED
      BY <2>2, <2>3, <2>4 DEF Inv2
  <1>9. ASSUME NEW t \in tokens, NEW c \in Contexts, Consume(t, c) \/ LendUnchecked(t, c)
        PROVE  Inv2'
    <2> DEFINE p == [tok |-> t, ctx |-> c]
    <2>1. /\ ~mixed /\ free' = free /\ gone' = gone /\ clones' = clones /\ sock' = sock
          /\ tokens' = tokens \ {t}
          /\ payloads' = payloads \cup {p}
      BY <1>9 DEF Consume, LendUnchecked, Lend, apiVars, Defined
    <2>2. TokenOfPool'
      <3>1. mixed' \/ PoolOf(c) = t.pool
        BY <1>9, SamePool DEF Consume, LendUnchecked
      <3>2. \A q \in payloads' : q \in payloads \/ (q.ctx = c /\ q.tok = t)
        BY <2>1
      <3> QED
        BY <2>1, <3>1, <3>2 DEF Inv2, TokenOfPool, PoolOf
    <2>3. t \in Token /\ ~\E q \in payloads : q.tok.pool = t.pool /\ q.tok.buf = t.buf
      BY <1>0, <2>1 DEF Inv2, Placed, PlacedAt, HasToken, HasPayload, Token
    <2>4. LentOnce'
      BY <2>1, <2>3 DEF Inv2, LentOnce
    <2>5. Placed'
      <3> SUFFICES ASSUME NEW s \in Sock, NEW x \in Buf
                   PROVE  PlacedAt(s, x)'
        BY DEF Placed
      <3>1. CASE s = t.pool /\ x = t.buf
        <4>1. HasToken(s, x) /\ HasPayload(s, x)'
          <5>1. p \in payloads' /\ p.tok = t
            BY <2>1
          <5> HIDE DEF p
          <5> QED
            BY <3>1, <5>1 DEF HasToken, HasPayload
        <4>2. ~HasToken(s, x)'
          BY <1>0, <2>1, <2>3, <3>1, TokenDetermined DEF HasToken
        <4> QED
          BY <2>1, <4>1, <4>2 DEF Inv2, Placed, PlacedAt
      <3>2. CASE ~(s = t.pool /\ x = t.buf)
        <4>1. (HasToken(s, x)' <=> HasToken(s, x)) /\ (HasPayload(s, x)' <=> HasPayload(s, x))
          BY <2>1, <3>2 DEF HasToken, HasPayload
        <4> QED
          BY <2>1, <4>1 DEF Inv2, Placed, PlacedAt
      <3> QED
        BY <3>1, <3>2
    <2> QED
      BY <2>2, <2>4, <2>5 DEF Inv2
  <1>10. ASSUME NEW t \in tokens, gone' = gone \cup {<<t.pool, t.buf>>}, tokens' = tokens \ {t},
                Defined, UNCHANGED <<apiVars, free, payloads, mixed>>
         PROVE  Inv2'
    <2>1. ~mixed /\ clones' = clones /\ t \in Token
      BY <1>0, <1>10 DEF Defined, apiVars
    <2>2. TokenOfPool'
      BY <1>10, <2>1 DEF Inv2, TokenOfPool, PoolOf
    <2>3. LentOnce'
      BY <1>10, <2>1 DEF Inv2, LentOnce
    <2>4. Placed'
      <3> SUFFICES ASSUME NEW s \in Sock, NEW x \in Buf
                   PROVE  PlacedAt(s, x)'
        BY DEF Placed
      <3>1. HasPayload(s, x)' <=> HasPayload(s, x)
        BY <1>10 DEF HasPayload
      <3>2. PlacedAt(s, x)
        BY <2>1 DEF Inv2, Placed
      <3>3. CASE s = t.pool /\ x = t.buf
        <4>1. HasToken(s, x)
          BY <3>3 DEF HasToken
        <4>2. ~HasToken(s, x)'
          BY <1>0, <1>10, <2>1, <3>3, TokenDetermined DEF HasToken
        <4> QED
          BY <1>10, <3>1, <3>2, <3>3, <4>1, <4>2 DEF PlacedAt
      <3>4. CASE ~(s = t.pool /\ x = t.buf)
        <4>1. HasToken(s, x)' <=> HasToken(s, x)
          BY <1>10, <3>4 DEF HasToken
        <4> QED
          BY <1>10, <3>1, <3>2, <3>4, <4>1 DEF PlacedAt
      <3> QED
        BY <3>3, <3>4
    <2> QED
      BY <2>2, <2>3, <2>4 DEF Inv2
  <1>11. ASSUME NEW t \in tokens, NEW c \in Contexts, ConsumePanics(t, c)
         PROVE  Inv2'
    BY <1>10, <1>11 DEF ConsumePanics
  <1>12. ASSUME NEW t \in tokens, DropToken(t)
         PROVE  Inv2'
    BY <1>10, <1>12 DEF DropToken
  <1>13. ASSUME NEW p \in payloads, IntoToken(p)
         PROVE  Inv2'
    <2>1. /\ ~mixed /\ ~mixed' /\ free' = free /\ gone' = gone /\ clones' = clones
          /\ payloads' = payloads \ {p} /\ tokens' = tokens \cup {p.tok}
      BY <1>13 DEF IntoToken, apiVars, Defined
    <2>2. TokenOfPool'
      BY <2>1 DEF Inv2, TokenOfPool, PoolOf
    <2>3. LentOnce'
      BY <2>1 DEF Inv2, LentOnce
    <2>4. Placed'
      <3> SUFFICES ASSUME NEW s \in Sock, NEW x \in Buf
                   PROVE  PlacedAt(s, x)'
        BY DEF Placed
      <3>1. PlacedAt(s, x)
        BY <2>1 DEF Inv2, Placed
      <3>2. CASE s = p.tok.pool /\ x = p.tok.buf
        <4>1. HasPayload(s, x) /\ HasToken(s, x)'
          BY <2>1, <3>2 DEF HasPayload, HasToken
        <4>2. ~HasPayload(s, x)'
          BY <2>1, <3>2 DEF HasPayload, Inv2, LentOnce
        <4> QED
          BY <2>1, <3>1, <4>1, <4>2 DEF PlacedAt
      <3>3. CASE ~(s = p.tok.pool /\ x = p.tok.buf)
        <4>1. (HasToken(s, x)' <=> HasToken(s, x)) /\ (HasPayload(s, x)' <=> HasPayload(s, x))
          BY <2>1, <3>3 DEF HasToken, HasPayload
        <4> QED
          BY <2>1, <3>1, <4>1 DEF PlacedAt
      <3> QED
        BY <3>2, <3>3
    <2> QED
      BY <2>2, <2>3, <2>4 DEF Inv2
  <1>14. ASSUME NEW p \in payloads, DropPayload(p)
         PROVE  Inv2'
    <2>1. /\ ~mixed /\ ~mixed' /\ tokens' = tokens /\ gone' = gone /\ clones' = clones
          /\ payloads' = payloads \ {p}
          /\ free' = [free EXCEPT ![PoolOf(p.ctx)] = @ \cup {p.tok.buf}]
      BY <1>14 DEF DropPayload, apiVars, Defined
    <2>2. TokenOfPool'
      BY <2>1 DEF Inv2, TokenOfPool, PoolOf
    <2>3. LentOnce'
      BY <2>1 DEF Inv2, LentOnce
    <2>4. PoolOf(p.ctx) = p.tok.pool /\ p.tok.pool \in Sock
      BY <1>0, <2>1 DEF Inv2, TokenOfPool, Token
    <2>5. Placed'
      <3> SUFFICES ASSUME NEW s \in Sock, NEW x \in Buf
                   PROVE  PlacedAt(s, x)'
        BY DEF Placed
      <3>1. PlacedAt(s, x)
        BY <2>1 DEF Inv2, Placed
      <3>2. HasToken(s, x)' <=> HasToken(s, x)
        BY <2>1 DEF HasToken
      <3>3. CASE s = p.tok.pool /\ x = p.tok.buf
        <4>1. HasPayload(s, x) /\ x \in free'[s]
          BY <1>0, <2>1, <2>4, <3>3 DEF HasPayload
        <4>2. ~HasPayload(s, x)'
          BY <2>1, <3>3 DEF HasPayload, Inv2, LentOnce
        <4> QED
          BY <2>1, <3>1, <3>2, <4>1, <4>2 DEF PlacedAt
      <3>4. CASE ~(s = p.tok.pool /\ x = p.tok.buf)
        <4>1. (x \in free'[s] <=> x \in free[s]) /\ (HasPayload(s, x)' <=> HasPayload(s, x))
          BY <1>0, <2>1, <2>4, <3>4 DEF HasPayload
        <4> QED
          BY <2>1, <3>1, <3>2, <4>1 DEF PlacedAt
      <3> QED
        BY <3>3, <3>4
    <2> QED
      BY <2>2, <2>3, <2>5 DEF Inv2
  <1>15. ASSUME NEW t \in tokens, NEW c \in Contexts, ReleaseToken(t, c)
         PROVE  Inv2'
    <2>1. /\ ~mixed /\ payloads' = payloads /\ gone' = gone /\ clones' = clones
          /\ tokens' = tokens \ {t} /\ t \in Token
          /\ free' = [free EXCEPT ![PoolOf(c)] = @ \cup {t.buf}]
          /\ mixed' = (PoolOf(c) # t.pool)
      BY <1>0, <1>15 DEF ReleaseToken, apiVars, Defined
    <2>2. TokenOfPool'
      BY <2>1 DEF Inv2, TokenOfPool, PoolOf
    <2>3. LentOnce'
      BY <2>1 DEF Inv2, LentOnce
    <2>4. CASE PoolOf(c) = t.pool
      <3> SUFFICES ASSUME NEW s \in Sock, NEW x \in Buf
                   PROVE  PlacedAt(s, x)'
        BY <2>2, <2>3 DEF Inv2, Placed
      <3>1. PlacedAt(s, x)
        BY <2>1 DEF Inv2, Placed
      <3>2. HasPayload(s, x)' <=> HasPayload(s, x)
        BY <2>1 DEF HasPayload
      <3>3. CASE s = t.pool /\ x = t.buf
        <4>1. HasToken(s, x) /\ x \in free'[s]
          BY <1>0, <2>1, <2>4, <3>3 DEF HasToken
        <4>2. ~HasToken(s, x)'
          BY <1>0, <2>1, <3>3, TokenDetermined DEF HasToken
        <4> QED
          BY <2>1, <3>1, <3>2, <4>1, <4>2 DEF PlacedAt
      <3>4. CASE ~(s = t.pool /\ x = t.buf)
        <4>1. (x \in free'[s] <=> x \in free[s]) /\ (HasToken(s, x)' <=> HasToken(s, x))
          BY <1>0, <2>1, <2>4, <3>4 DEF HasToken, Token
        <4> QED
          BY <2>1, <3>1, <3>2, <4>1 DEF PlacedAt
      <3> QED
        BY <3>3, <3>4
    <2>5. CASE PoolOf(c) # t.pool
      BY <2>1, <2>2, <2>5 DEF Inv2
    <2> QED
      BY <2>4, <2>5
  <1>16. CASE UNCHANGED vars
    BY <1>16 DEF vars, Inv2, TokenOfPool, PoolOf, Placed, PlacedAt, LentOnce, HasToken, HasPayload
  <1> QED
    BY <1>2, <1>3, <1>4, <1>5, <1>6, <1>7, <1>8, <1>9, <1>11, <1>12, <1>13, <1>14, <1>15,
       <1>16 DEF Next

LEMMA Invariance == Spec => [](Inv1 /\ Inv2)
  <1>1. Inv1 /\ Inv2 /\ [Next]_vars => (Inv1 /\ Inv2)'
    BY Inv1Step, Inv2Step
  <1> QED
    BY <1>1, Inv1Init, Inv2Init, PTL DEF Spec
-----------------------------------------------------------------------------
(* Every buffer has exactly one owner, whatever the clients of the sockets *)
(* do with tokens, payloads and contexts (Payload::drop, into_token), as   *)
(* long as no context takes a buffer of another pool.                      *)
THEOREM BufferHasOneOwner == Spec => []OneOwner
  <1>1. Inv1 /\ Inv2 => OneOwner
    <2> SUFFICES ASSUME Inv1, Inv2, ~mixed, NEW s \in Sock, NEW x \in Buf
                 PROVE  Cardinality({t \in tokens : t.pool = s /\ t.buf = x})
                        + Cardinality({p \in payloads : p.tok.pool = s /\ p.tok.buf = x})
                        + (IF x \in free[s] THEN 1 ELSE 0)
                        + (IF <<s, x>> \in gone THEN 1 ELSE 0) = 1
      BY DEF OneOwner
    <2> DEFINE T == {t \in tokens : t.pool = s /\ t.buf = x}
               P == {p \in payloads : p.tok.pool = s /\ p.tok.buf = x}
    <2>1. Cardinality(T) = IF HasToken(s, x) THEN 1 ELSE 0
      <3>1. CASE HasToken(s, x)
        <4>1. PICK t \in tokens : t.pool = s /\ t.buf = x
          BY <3>1 DEF HasToken
        <4>2. T = {t}
          BY <4>1, TokenDetermined DEF Inv1, TypeOK, RefsValid
        <4> QED
          BY <3>1, <4>2, FS_Singleton, Zenon
      <3>2. CASE ~HasToken(s, x)
        <4>1. T = {}
          BY <3>2 DEF HasToken
        <4> QED
          BY <3>2, <4>1, FS_EmptySet, Zenon
      <3> QED
        BY <3>1, <3>2
    <2>2. Cardinality(P) = IF HasPayload(s, x) THEN 1 ELSE 0
      <3>1. CASE HasPayload(s, x)
        <4>1. PICK p \in payloads : p.tok.pool = s /\ p.tok.buf = x
          BY <3>1 DEF HasPayload
        <4>2. P = {p}
          BY <4>1 DEF Inv2, LentOnce
        <4> QED
          BY <3>1, <4>2, FS_Singleton, Zenon
      <3>2. CASE ~HasPayload(s, x)
        <4>1. P = {}
          BY <3>2 DEF HasPayload
        <4> QED
          BY <3>2, <4>1, FS_EmptySet, Zenon
      <3> QED
        BY <3>1, <3>2
    <2>3. PlacedAt(s, x)
      BY DEF Inv2, Placed
    <2> QED
      BY <2>1, <2>2, <2>3 DEF PlacedAt
  <1> QED
    BY <1>1, Invariance, PTL

(* check_token lets a context take only the tokens of its own pool, among  *)
(* those of its backend: the counters behind Ctx::new give every pool an   *)
(* identifier of its own, also after failed creates and drops.             *)
THEOREM ContextTakesItsTokens == Spec => []TokenOfPool
  <1>1. Inv1 /\ Inv2 => TokenOfPool
    BY DEF Inv2
  <1> QED
    BY <1>1, Invariance, PTL

(* allocate_port never lets two open netmap ports have one name, for any   *)
(* number of sockets that are opened, fail, are dropped or are kept by the *)
(* clones of their contexts.                                               *)
THEOREM PortsExclusive == Spec => []PortExclusive
  <1>1. Inv1 => PortExclusive
    BY DEF Inv1, PortExclusive, PortOpen, PortsNamed
  <1> QED
    BY <1>1, Invariance, PTL

(* The memory a payload lends outlives the payload: Drop for Payload and   *)
(* the contexts keep the pool, except for a dpdk mempool that only a clone *)
(* of the context refers to.                                               *)
THEOREM PayloadsAlive == Spec => []PayloadAlive
  <1>1. Inv1 /\ Inv2 => PayloadAlive
    <2> SUFFICES ASSUME Inv1, Inv2, NEW p \in payloads, ~mixed,
                        ~(sock[p.tok.pool].b = "dpdk" /\ p.ctx \in Clone)
                 PROVE  Alive(p.tok.pool, p.tok.buf)
      BY DEF PayloadAlive
    <2> DEFINE s == p.tok.pool
    <2>1. s \in Sock /\ p.tok.buf \in Buf /\ sock[s].b \in Backend /\ p.ctx \in Contexts
      BY SocketsAssumption DEF Inv1, TypeOK, RefsValid, TokenValid, Token
    <2>2. PoolOf(p.ctx) = s
      BY DEF Inv2, TokenOfPool
    <2>3. sock[s].life = "open" \/ (p.ctx \in Clone /\ clones[p.ctx] = s)
      BY <2>1, <2>2, SocketsAssumption DEF Contexts, PoolOf
    <2>4. p.tok.buf \notin free[s]
      BY <2>1 DEF Inv2, Placed, PlacedAt, HasPayload
    <2>5. CASE sock[s].b = "af_xdp"
      BY <2>5 DEF Alive
    <2>6. CASE sock[s].b = "netmap"
      BY <2>3, <2>6 DEF Alive, PortOpen
    <2>7. CASE sock[s].b = "dpdk"
      BY <2>3, <2>7 DEF Alive
    <2>8. CASE sock[s].b = "pcap"
      BY <2>4, <2>8 DEF Alive
    <2> QED
      BY <2>1, <2>5, <2>6, <2>7, <2>8 DEF Backend
  <1> QED
    BY <1>1, Invariance, PTL
=============================================================================
