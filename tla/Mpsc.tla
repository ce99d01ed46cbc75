-------------------------------- MODULE Mpsc --------------------------------
(***************************************************************************)
(* The descriptor channel of crate `mpsc` (mpsc/src): a multi-producer,    *)
(* single-consumer queue through which released packet buffers travel back *)
(* to the context that owns the buffer pool.                               *)
(*                                                                         *)
(* Producer handles accumulate descriptors in a private batch; a flush     *)
(* moves a complete batch, as one group, into the single-producer ring of  *)
(* the calling thread, which is created and registered on first use.  The  *)
(* consumer scans all registered rings, holding the registry mutex, into a *)
(* private cache and pops from the end of that cache.                      *)
(*                                                                         *)
(* A "thread" is a slot of the shared ThreadLocal: thread identifiers are  *)
(* recycled, so a slot outlives the operating system thread that used it.  *)
(* Clients own a descriptor until they push it and again after it has been *)
(* popped: `held` is what the move semantics of Token and Payload give.    *)
(***************************************************************************)
EXTENDS Integers, Sequences, SequencesExt

CONSTANTS
    Thread,      \* slots of the ThreadLocal
    Handle,      \* identities of Producer handles (bounds the live clones)
    Elem,        \* descriptors
    Batch,       \* capacity of local_batch and size of a group (16)
    Cache,       \* capacity of Consumer.cached (1024)
    SpscLen,     \* capacity of one ring, in groups
    MaxRings,    \* capacity of the registry (4096)
    NoThread, NoElem

ASSUME BatchAssumption == Batch \in Nat \ {0}
ASSUME CacheAssumption == Cache \in Nat
ASSUME SpscLenAssumption == SpscLen \in Nat \ {0}
ASSUME MaxRingsAssumption == MaxRings \in Nat \ {0}
ASSUME NoThreadAssumption == NoThread \notin Thread
ASSUME NoElemAssumption == NoElem \notin Elem

VARIABLES
    owner,       \* thread that owns each handle, NoThread when dropped
    batch,       \* local_batch of each handle
    pc,          \* where the owner is in a call on the handle
    after,       \* where the flush() in progress returns to
    arg,         \* the descriptor that a push() in progress still holds
    inner,       \* threads whose PerThreadInner exists
    ring,        \* the SPSC ring of each thread, a sequence of groups
    registry,    \* ConsumerRegistry.list: the threads, in registration order
    cpc,         \* "idle", or "scan" while pop_all holds the mutex
    want,        \* the scan was started by pop(), not by sync()
    cursor,      \* position of the scan in the registry
    left,        \* groups the scan may still take from the current ring
    cached,      \* Consumer.cached
    held,        \* descriptors owned by clients
    aborted      \* a panic ended the process (panic = "abort")

consumerVars == <<cpc, want, cursor, left, cached>>
vars == <<owner, batch, pc, after, arg, inner, ring, registry,
          consumerVars, held, aborted>>

Group == [1..Batch -> Elem]

(* The mutex is held for the whole scan; every other holder is one step. *)
Locked == cpc = "scan"

(* Producer calls take &mut self and run on the handle's thread. *)
Idle(h) ==
    /\ owner[h] # NoThread
    /\ \A g \in Handle : owner[g] = owner[h] => pc[g] = "idle"

(* Mutant of Remaining: rounds up, so the last group may not fit. *)
Remaining_RoundUp(v) == (Cache - Len(v) + Batch - 1) \div Batch

(* (v.capacity() - v.len()) / 16 *)
Remaining(v) == (Cache - Len(v)) \div Batch

(* Where a ring occurs in the registry. *)
Positions(t) == {i \in 1..Len(registry) : registry[i] = t}
-----------------------------------------------------------------------------
(* channel(): one handle, no ring yet, an empty cache. *)
Init ==
    /\ \E t \in Thread, h \in Handle :
          owner = [g \in Handle |-> IF g = h THEN t ELSE NoThread]
    /\ batch = [h \in Handle |-> <<>>]
    /\ pc = [h \in Handle |-> "idle"]
    /\ after = [h \in Handle |-> "idle"]
    /\ arg = [h \in Handle |-> NoElem]
    /\ inner = {}
    /\ ring = [t \in Thread |-> <<>>]
    /\ registry = <<>>
    /\ cpc = "idle" /\ want = FALSE /\ cursor = 1 /\ left = 0
    /\ cached = <<>>
    /\ held = Elem
    /\ aborted = FALSE
-----------------------------------------------------------------------------
(* Producer::push, fast path: there is room in the local batch. *)
PushFast(h, e) ==
    /\ ~aborted
    /\ Idle(h)
    /\ e \in held
    /\ Len(batch[h]) < Batch
    /\ batch' = [batch EXCEPT ![h] = Append(@, e)]
    /\ held' = held \ {e}
    /\ UNCHANGED <<owner, pc, after, arg, inner, ring, registry,
                   consumerVars, aborted>>

(* Producer::push, slow path: the batch is full, flush and try again. *)
PushSlow(h, e) ==
    /\ ~aborted
    /\ Idle(h)
    /\ e \in held
    /\ Len(batch[h]) = Batch
    /\ arg' = [arg EXCEPT ![h] = e]
    /\ held' = held \ {e}
    /\ pc' = [pc EXCEPT ![h] = "flush"]
    /\ after' = [after EXCEPT ![h] = "retry"]
    /\ UNCHANGED <<owner, batch, inner, ring, registry, consumerVars, aborted>>

(* Producer::flush called by the client; an empty batch returns at once. *)
FlushCall(h) ==
    /\ ~aborted
    /\ Idle(h)
    /\ batch[h] # <<>>
    /\ pc' = [pc EXCEPT ![h] = "flush"]
    /\ after' = [after EXCEPT ![h] = "idle"]
    /\ UNCHANGED <<owner, batch, arg, inner, ring, registry, consumerVars,
                   held, aborted>>

(* Producer::drop calls flush first. *)
DropCall(h) ==
    /\ ~aborted
    /\ Idle(h)
    /\ pc' = [pc EXCEPT ![h] = IF batch[h] = <<>> THEN "release" ELSE "flush"]
    /\ after' = [after EXCEPT ![h] = "release"]
    /\ UNCHANGED <<owner, batch, arg, inner, ring, registry, consumerVars,
                   held, aborted>>

(* The first flush on a thread creates its ring and registers it; the      *)
(* registry is a fixed-capacity vector whose push panics when it is full.  *)
Register(h) ==
    /\ ~aborted
    /\ pc[h] = "flush"
    /\ owner[h] \notin inner
    /\ ~Locked
    /\ IF Len(registry) < MaxRings
       THEN /\ registry' = Append(registry, owner[h])
            /\ inner' = inner \cup {owner[h]}
            /\ UNCHANGED aborted
       ELSE /\ aborted' = TRUE
            /\ UNCHANGED <<registry, inner>>
    /\ UNCHANGED <<owner, batch, pc, after, arg, ring, consumerVars, held>>

(* Mutant of Enqueue: iterates over local_batch without draining it. *)
Enqueue_NoDrain(h) ==
    /\ ~aborted
    /\ pc[h] = "flush"
    /\ owner[h] \in inner
    /\ ring' = [ring EXCEPT ![owner[h]] =
                  IF Len(batch[h]) = Batch /\ Len(@) < SpscLen
                  THEN Append(@, batch[h]) ELSE @]
    /\ pc' = [pc EXCEPT ![h] = after[h]]
    /\ UNCHANGED <<owner, batch, after, arg, inner, registry, consumerVars,
                   held, aborted>>

(* Drain the batch: to_simd yields a group only when it is complete, and   *)
(* push_iter drops the group when the ring is full; its result is ignored. *)
Enqueue(h) ==
    /\ ~aborted
    /\ pc[h] = "flush"
    /\ owner[h] \in inner
    /\ ring' = [ring EXCEPT ![owner[h]] =
                  IF Len(batch[h]) = Batch /\ Len(@) < SpscLen
                  THEN Append(@, batch[h]) ELSE @]
    /\ batch' = [batch EXCEPT ![h] = <<>>]
    /\ pc' = [pc EXCEPT ![h] = after[h]]
    /\ UNCHANGED <<owner, after, arg, inner, registry, consumerVars, held,
                   aborted>>

(* Mutant of PushRetry: the element that did not fit is not recovered. *)
PushRetry_Forgets(h) ==
    /\ ~aborted
    /\ pc[h] = "retry"
    /\ arg' = [arg EXCEPT ![h] = NoElem]
    /\ pc' = [pc EXCEPT ![h] = "idle"]
    /\ UNCHANGED <<owner, batch, after, inner, ring, registry, consumerVars,
                   held, aborted>>

(* The push() whose batch was full finds room after its flush. *)
PushRetry(h) ==
    /\ ~aborted
    /\ pc[h] = "retry"
    /\ Len(batch[h]) < Batch
    /\ batch' = [batch EXCEPT ![h] = Append(@, arg[h])]
    /\ arg' = [arg EXCEPT ![h] = NoElem]
    /\ pc' = [pc EXCEPT ![h] = "idle"]
    /\ UNCHANGED <<owner, after, inner, ring, registry, consumerVars, held,
                   aborted>>

(* Mutant of ReleaseHandle: every drop destroys the shared ThreadLocal. *)
ReleaseHandle_NoCount(h) ==
    /\ ~aborted
    /\ pc[h] = "release"
    /\ pc' = [pc EXCEPT ![h] = "teardown"]
    /\ UNCHANGED <<owner, batch, after, arg, inner, ring, registry,
                   consumerVars, held, aborted>>

(* End of drop: release the Arc.  The last handle destroys the ThreadLocal. *)
ReleaseHandle(h) ==
    /\ ~aborted
    /\ pc[h] = "release"
    /\ IF \E g \in Handle \ {h} : owner[g] # NoThread
       THEN /\ owner' = [owner EXCEPT ![h] = NoThread]
            /\ pc' = [pc EXCEPT ![h] = "idle"]
       ELSE /\ pc' = [pc EXCEPT ![h] = "teardown"]
            /\ UNCHANGED owner
    /\ UNCHANGED <<batch, after, arg, inner, ring, registry, consumerVars,
                   held, aborted>>

(* Mutants of RemoveRing: the ring stays registered; it is dropped twice. *)
RemoveRing_StaysListed(h, t) ==
    /\ ~aborted
    /\ pc[h] = "teardown"
    /\ t \in inner
    /\ ~Locked
    /\ inner' = inner \ {t}
    /\ ring' = [ring EXCEPT ![t] = <<>>]
    /\ UNCHANGED <<owner, batch, pc, after, arg, registry, consumerVars, held,
                   aborted>>
RemoveRing_DropsTwice(h, t) ==
    /\ ~aborted
    /\ pc[h] = "teardown"
    /\ t \in inner
    /\ ~Locked
    /\ LET found == Positions(t)
           once == \E i \in found : found = {i}
       IN  /\ aborted' = ~once
           /\ registry' = IF once THEN RemoveAt(registry, CHOOSE i \in found : TRUE)
                                  ELSE registry
    /\ ring' = [ring EXCEPT ![t] = <<>>]
    /\ UNCHANGED <<owner, batch, pc, after, arg, inner, consumerVars, held>>

(* PerThreadInner::drop: ConsumerRegistry::remove drops the entries of the *)
(* ring and asserts that this was exactly one (a failed assertion aborts,  *)
(* and the list is not used again); the ring is freed with its contents.   *)
RemoveRing(h, t) ==
    /\ ~aborted
    /\ pc[h] = "teardown"
    /\ t \in inner
    /\ ~Locked
    /\ LET found == Positions(t)
           once == \E i \in found : found = {i}
       IN  /\ aborted' = ~once
           /\ registry' = IF once THEN RemoveAt(registry, CHOOSE i \in found : TRUE)
                                  ELSE registry
    /\ inner' = inner \ {t}
    /\ ring' = [ring EXCEPT ![t] = <<>>]
    /\ UNCHANGED <<owner, batch, pc, after, arg, consumerVars, held>>

EndTeardown(h) ==
    /\ ~aborted
    /\ pc[h] = "teardown"
    /\ inner = {}
    /\ owner' = [owner EXCEPT ![h] = NoThread]
    /\ pc' = [pc EXCEPT ![h] = "idle"]
    /\ UNCHANGED <<batch, after, arg, inner, ring, registry, consumerVars,
                   held, aborted>>

(* Producer::clone: a new handle with an empty batch of its own. *)
Clone(h, g) ==
    /\ ~aborted
    /\ Idle(h)
    /\ owner[g] = NoThread
    /\ owner' = [owner EXCEPT ![g] = owner[h]]
    /\ UNCHANGED <<batch, pc, after, arg, inner, ring, registry,
                   consumerVars, held, aborted>>

(* A handle is Send: its owner may move it, batch included, to a thread. *)
Move(h, t) ==
    /\ ~aborted
    /\ Idle(h)
    /\ owner' = [owner EXCEPT ![h] = t]
    /\ UNCHANGED <<batch, pc, after, arg, inner, ring, registry,
                   consumerVars, held, aborted>>
-----------------------------------------------------------------------------
(* Mutant of Pop: reads the last element without removing it. *)
Pop_Peeks ==
    /\ ~aborted
    /\ cpc = "idle"
    /\ cached # <<>>
    /\ held' = held \cup {Last(cached)}
    /\ UNCHANGED <<owner, batch, pc, after, arg, inner, ring, registry,
                   consumerVars, aborted>>

(* Consumer::pop on a cache that is not empty. *)
Pop ==
    /\ ~aborted
    /\ cpc = "idle"
    /\ cached # <<>>
    /\ held' = held \cup {Last(cached)}
    /\ cached' = Front(cached)
    /\ UNCHANGED <<owner, batch, pc, after, arg, inner, ring, registry,
                   cpc, want, cursor, left, aborted>>

(* Mutant of StartScan: skips the ring that was registered first. *)
StartScan_SkipsFirst(fromPop) ==
    /\ ~aborted
    /\ cpc = "idle"
    /\ fromPop => cached = <<>>
    /\ cpc' = "scan"
    /\ want' = fromPop
    /\ cursor' = 2
    /\ left' = Remaining(cached)
    /\ UNCHANGED <<owner, batch, pc, after, arg, inner, ring, registry,
                   cached, held, aborted>>

(* pop_all: lock the registry and start at its first ring, either from    *)
(* pop() on an empty cache or from sync() at any time.                     *)
StartScan(fromPop) ==
    /\ ~aborted
    /\ cpc = "idle"
    /\ fromPop => cached = <<>>
    /\ cpc' = "scan"
    /\ want' = fromPop
    /\ cursor' = 1
    /\ left' = Remaining(cached)
    /\ UNCHANGED <<owner, batch, pc, after, arg, inner, ring, registry,
                   cached, held, aborted>>

(* Mutant of ScanTake: takes a group although no room is left for it. *)
ScanTake_NoLimit ==
    /\ ~aborted
    /\ Locked
    /\ cursor <= Len(registry)
    /\ ring[registry[cursor]] # <<>>
    /\ cached' = cached \o Head(ring[registry[cursor]])
    /\ ring' = [ring EXCEPT ![registry[cursor]] = Tail(@)]
    /\ left' = left - 1
    /\ UNCHANGED <<owner, batch, pc, after, arg, inner, registry,
                   cpc, want, cursor, held, aborted>>

(* Copy one group into the cache. *)
ScanTake ==
    /\ ~aborted
    /\ Locked
    /\ cursor <= Len(registry)
    /\ left > 0
    /\ ring[registry[cursor]] # <<>>
    /\ cached' = cached \o Head(ring[registry[cursor]])
    /\ ring' = [ring EXCEPT ![registry[cursor]] = Tail(@)]
    /\ left' = left - 1
    /\ UNCHANGED <<owner, batch, pc, after, arg, inner, registry,
                   cpc, want, cursor, held, aborted>>

(* Mutant of ScanNext: stays on a ring until it is empty. *)
ScanNext_Spins ==
    /\ ~aborted
    /\ Locked
    /\ cursor <= Len(registry)
    /\ left = 0 \/ ring[registry[cursor]] = <<>>
    /\ cursor' = IF ring[registry[cursor]] = <<>> THEN cursor + 1 ELSE cursor
    /\ left' = Remaining(cached)
    /\ UNCHANGED <<owner, batch, pc, after, arg, inner, ring, registry,
                   cpc, want, cached, held, aborted>>

(* The ring is empty or the cache has no room for a group: next ring. *)
ScanNext ==
    /\ ~aborted
    /\ Locked
    /\ cursor <= Len(registry)
    /\ left = 0 \/ ring[registry[cursor]] = <<>>
    /\ cursor' = cursor + 1
    /\ left' = Remaining(cached)
    /\ UNCHANGED <<owner, batch, pc, after, arg, inner, ring, registry,
                   cpc, want, cached, held, aborted>>

(* Unlock; a scan started by pop() then pops what it found, if anything. *)
EndScan ==
    /\ ~aborted
    /\ Locked
    /\ cursor > Len(registry)
    /\ cpc' = "idle"
    /\ IF want /\ cached # <<>>
       THEN /\ held' = held \cup {Last(cached)}
            /\ cached' = Front(cached)
       ELSE UNCHANGED <<held, cached>>
    /\ UNCHANGED <<owner, batch, pc, after, arg, inner, ring, registry,
                   want, cursor, left, aborted>>
-----------------------------------------------------------------------------
Scan == ScanTake \/ ScanNext \/ EndScan
Consumer == Pop \/ (\E b \in BOOLEAN : StartScan(b)) \/ Scan

(* The steps inside a producer call. *)
Running(h) ==
    \/ Register(h) \/ Enqueue(h) \/ PushRetry(h) \/ ReleaseHandle(h)
    \/ (\E t \in Thread : RemoveRing(h, t)) \/ EndTeardown(h)

(* The calls a client may make on a handle. *)
Call(h) ==
    \/ \E e \in Elem : PushFast(h, e) \/ PushSlow(h, e)
    \/ FlushCall(h) \/ DropCall(h)
    \/ \E g \in Handle : Clone(h, g)
    \/ \E t \in Thread : Move(h, t)

(* After a panic nothing runs any more. *)
Aborted == aborted /\ UNCHANGED vars

Next ==
    \/ Consumer
    \/ \E h \in Handle : Running(h) \/ Call(h)
    \/ Aborted

Spec == Init /\ [][Next]_vars
-----------------------------------------------------------------------------
(* The descriptors in a sequence of groups, and that none occurs twice. *)
Flat(r) == {r[i][k] : i \in 1..Len(r), k \in 1..Batch}
FlatInjective(r) ==
    \A i, j \in 1..Len(r), k, l \in 1..Batch : r[i][k] = r[j][l] => i = j /\ k = l

(* Contents of the containers, as sets. *)
InBatch == UNION {Range(batch[h]) : h \in Handle}
InOp == {arg[h] : h \in Handle} \ {NoElem}
InRing == UNION {Flat(ring[t]) : t \in Thread}
InCache == Range(cached)
InChannel == InBatch \cup InOp \cup InRing \cup InCache
Lost == Elem \ (held \cup InChannel)

(* Type correctness of the channel: rings hold whole groups only, and the  *)
(* cache, the batches and the calls in progress hold descriptors.          *)
TypeOK ==
    /\ owner \in [Handle -> Thread \cup {NoThread}]
    /\ batch \in [Handle -> Seq(Elem)]
    /\ pc \in [Handle -> {"idle", "flush", "retry", "release", "teardown"}]
    /\ after \in [Handle -> {"idle", "retry", "release"}]
    /\ arg \in [Handle -> Elem \cup {NoElem}]
    /\ inner \in SUBSET Thread
    /\ ring \in [Thread -> Seq(Group)]
    /\ registry \in Seq(Thread)
    /\ cpc \in {"idle", "scan"}
    /\ want \in BOOLEAN
    /\ cursor \in Nat \ {0}
    /\ left \in Nat
    /\ cached \in Seq(Elem)
    /\ held \in SUBSET Elem
    /\ aborted \in BOOLEAN

(* Memory safety of pop_all (consumer_registry.rs:70-77): the unchecked    *)
(* writes of `left` further groups all fit in the cache, so set_len never  *)
(* exceeds the capacity, whatever mix of pops, syncs and rings led here.   *)
CacheBound == Len(cached) + (IF Locked THEN left * Batch ELSE 0) <= Cache

(* The registry lists every live PerThreadInner exactly once: no ring is   *)
(* scanned twice or forgotten, and a ring that is not registered is empty  *)
(* (lib.rs:117-125 against consumer_registry.rs:36-50).                    *)
RegistryMatches ==
    /\ IsInjective(registry)
    /\ Range(registry) = inner
    /\ \A t \in Thread \ inner : ring[t] = <<>>

(* The process aborts only because more than MaxRings threads flushed: the *)
(* assertion in ConsumerRegistry::remove (consumer_registry.rs:49) holds   *)
(* in every teardown.                                                      *)
AbortOnlyWhenFull == aborted => Len(registry) = MaxRings

(* Exclusive ownership: a descriptor sits in at most one place: with a     *)
(* client, in one position of one batch, in a push in progress, in one     *)
(* position of one group of one ring, or in one position of the cache.     *)
Exclusive ==
    /\ \A h \in Handle : IsInjective(batch[h])
    /\ \A g, h \in Handle :
          g # h => /\ Range(batch[g]) \cap Range(batch[h]) = {}
                   /\ arg[g] = arg[h] => arg[g] = NoElem
    /\ \A t \in Thread : FlatInjective(ring[t])
    /\ \A t, u \in Thread : t # u => Flat(ring[t]) \cap Flat(ring[u]) = {}
    /\ IsInjective(cached)
    /\ held \cap InChannel = {}
    /\ InBatch \cap (InOp \cup InRing \cup InCache) = {}
    /\ InOp \cap (InRing \cup InCache) = {}
    /\ InRing \cap InCache = {}

(* While the ThreadLocal is being destroyed nobody else can reach it. *)
TeardownAlone ==
    \A h \in Handle : pc[h] = "teardown" =>
       \A g \in Handle \ {h} : owner[g] = NoThread

(* Where descriptors disappear: a step loses a descriptor only by draining *)
(* an incomplete batch, by draining a batch into a full ring, or when the  *)
(* last handle has been dropped.  push(), pop(), sync(), clone() and the   *)
(* hand-over from ring to cache lose nothing.                              *)
LossStep ==
    \A e \in Lost' \ Lost :
       \/ \E h \in Handle :
             /\ e \in Range(batch[h])
             /\ Len(batch[h]) < Batch \/ Len(ring[owner[h]]) >= SpscLen
       \/ \E h \in Handle : pc[h] = "teardown"
LossOnlyWhenDrained == [][LossStep]_vars

(* The channel as its clients may think of it: see DescriptorPool. *)
Pool == INSTANCE DescriptorPool WITH chan <- InChannel, lost <- Lost
PoolSpec == Pool!Spec
-----------------------------------------------------------------------------
(* Fairness.  A thread inside a call keeps running (WF); a thread blocked  *)
(* on the registry mutex gets it eventually, since parking_lot locks are   *)
(* eventually fair (SF); the consumer's owner keeps calling pop(), however *)
(* often it calls sync() in between (SF).                                  *)
Fairness ==
    /\ WF_vars(Scan)
    /\ SF_vars(Pop \/ StartScan(TRUE))
    /\ \A h \in Handle :
          /\ WF_vars(Enqueue(h) \/ PushRetry(h) \/ ReleaseHandle(h) \/ EndTeardown(h))
          /\ SF_vars(Register(h) \/ \E t \in Thread : RemoveRing(h, t))

FairSpec == Spec /\ Fairness

(* A call on a producer handle returns: a first flush or a teardown that   *)
(* waits for the mutex is not starved by a consumer that polls in a loop.  *)
CallReturns == \A h \in Handle : pc[h] # "idle" ~> (pc[h] = "idle" \/ aborted)

(* A ring registered before t's has a group for the consumer. *)
Overtaken(t) ==
    \E i, j \in 1..Len(registry) :
       i < j /\ registry[j] = t /\ ring[registry[i]] # <<>>

(* Starvation of a ring (consumer_registry.rs:67-77 with the pops between  *)
(* the scans), with more descriptors in circulation than the cache holds:  *)
(* a group that stays in a ring for ever is passed over only because rings *)
(* registered earlier have groups again and again.  So the ring registered *)
(* first is always served, and any ring once the earlier ones are quiet,   *)
(* whatever the later rings, syncs and a full cache do.                    *)
GroupLeavesRing ==
    \A t \in Thread, e \in Elem :
       e \in Flat(ring[t]) ~> (e \notin Flat(ring[t]) \/ Overtaken(t) \/ aborted)
=============================================================================
