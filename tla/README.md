# Verification of nethuns-rs: packet buffers, rings and the threads that share them

nethuns-rs is a packet I/O library in Rust: one API (`Context`, `Socket`,
`Token`, `Payload`) over four backends (AF_XDP, netmap, DPDK, libpcap). All of
them live from the same idea: a fixed set of packet buffers travels between the
kernel or the NIC, the library and the client, and no buffer may ever have two
owners or none. This directory holds TLA+ models of the code that moves the
buffers, the TLC runs that check them, and proofs (TLAPS), for every size of the
system, of every safety property the runs check. Paths below are relative to the
repository root. The repository has no documentation of its own; intent is taken
from its comments, assertions and examples.

## 1. The system

| component | code | state it keeps | operations |
|---|---|---|---|
| descriptor channel | `mpsc/src/lib.rs`, `consumer_registry.rs`, `spsc.rs` | a batch of 16 per producer handle, one SPSC ring of groups per thread, a registry of rings under a mutex, a cache of 1024 in the consumer | `push`, `flush`, `clone`, `drop` of a producer; `pop`, `sync` of the consumer |
| af_xdp backend | `src/af_xdp/mod.rs`, `wrapper.rs`, `xdp/xsk.h` | fill, RX, TX and completion rings shared with the kernel, cached RX descriptors, cached TX slots, `to_flush` | `recv_token`, `release`, `send`, `flush`, `refill_fill_ring`, `complete_tx`, `create` |
| netmap backend | `src/netmap/mod.rs`, `netmap_rs/src/context.rs` | rings with `head`/`tail`, the cursors `ring_idx`, `cur_ring`, `synced`, extra buffers | `recv_token`, `release`, `send`, `flush`, `reset`, `Port::open` |
| dpdk backend | `src/dpdk/mod.rs`, `wrapper.rs` | RX burst and cursor, TX `bufs` and `ready_bufs` | `recv_token`, `release`, `send`, `flush` |
| pcap backend | `src/pcap.rs` | a box per packet | `recv_token`, `release`, `send` |
| api | `src/api/*.rs` | pool identifiers; a token owns one buffer | `consume`, `into_token`, `check_token`, `Payload::drop` |
| libxdp | `libxdp-sys/xdp-tools/lib/libxdp/xsk.c` | a UMEM's reference count, contexts per queue, descriptors, mappings | create and delete of UMEMs and sockets |
| `unsafe_refcell` | `src/unsafe_refcell.rs` | a borrow counter in debug builds | `borrow`, `borrow_mut` |
| examples | `examples/*.rs` | `forward_mt`: a ring of tokens between two threads and a termination flag | receive, forward, stop |

How they interact: a socket owns a consumer and a context; the context holds a
producer handle. Dropping a `Payload`, on any thread, pushes its buffer into
that thread's producer; the socket pops buffers from the consumer when it
refills a ring, sends, or replaces a received buffer. The kernel runs
concurrently on the AF_XDP rings, and only inside a sync on netmap rings; a DPDK
NIC receives and transmits concurrently, its driver works inside the bursts.
Sockets are created, contexts cloned and all of them dropped in any order, while
tokens and payloads of theirs are still around.

What is hard here:

* *concurrency*: producers on many threads against a scanning consumer, threads
  that come, go and hand their producers on; the kernel against every AF_XDP call;
* *unchecked memory*: `pop_all` writes groups past the length of an array and
  relies on arithmetic done once per ring; SPSC rings rely on one producer each;
* *capacity*: batches of 16 (an incomplete one is dropped by a flush), full
  rings (the result of the enqueue is ignored), a full cache, a full registry;
* *partial failure*: a descriptor is reserved before the frame is allocated; a
  slot leaves a ring before the packet is known to fit;
* *cursors kept across calls*: netmap's ring index after a failed call, dpdk's
  two arrays of TX buffers after a burst that was accepted in part;
* *lifetimes*: buffers outlive sockets, ports outlive sockets, error paths of
  libxdp undo half a creation;
* *termination*: two threads that see a flag at different points.

The list with lines is `hazards` in `PROJECT.json`.

## 2. Modules

| module | models | extends / composes |
|---|---|---|
| `Mpsc` | the concurrent descriptor channel | |
| `DescriptorPool` | what the channel promises: put, get, lose | refined by `Mpsc` |
| `BufferPool` | what a socket promises its client: receive, release, lose, break | refined by `AfXdp`, `NetmapRx` |
| `Channel` | the same channel as one socket calls it, as operators on a record | used by `AfXdp`, `NetmapRx`, `Dpdk` |
| `XskRing` | AF_XDP ring indices: reserve, submit, peek | used by `AfXdp` |
| `AfXdp` | the af_xdp socket and the kernel | `Channel`, `XskRing` |
| `NetmapRing` | one netmap ring | used by `NetmapRx`, `NetmapTx` |
| `NetmapRx`, `NetmapTx` | the two sides of a netmap socket | `Channel`, `NetmapRing` |
| `Dpdk` | the dpdk socket and the NIC | `Channel` |
| `Sockets` | the sockets of a process: creation and drop in all backends, the registry of netmap ports, tokens, payloads, contexts | |
| `XskLib` | a UMEM and its sockets in libxdp, with every error path | |
| `ForwardMt` | the two threads of `examples/forward_mt.rs` | |
| `MC*` | instances for TLC | |
| `MpscProofs`, `SocketsProofs`, `ForwardMtProofs`, `XskLibProofs` | theorems about the module of that name | that module |
| `ChannelProofs` | lemmas: what the channel operators do to the contents of a channel; sums and orders of sets | `Channel` |
| `DpdkProofs`, `AfXdpProofs` | theorems about the module of that name | that module, `ChannelProofs` |
| `NetmapProofs` | theorems about the two sides of a netmap socket | `NetmapRx`, `NetmapTx`, `ChannelProofs` |

`map` in `PROJECT.json` names the lines behind each definition. Operators named
`Operation_Fault` right before an operation are seeded faults; each property of
a passing run is violated when one of them takes the operation's place.

**Mpsc.** A handle has an owner thread, a batch and a program counter
(`flush`, `retry`, `release`, `teardown`); the consumer is idle or scanning.
`push` is one step while the batch has room, and otherwise flush, then retry.
A flush is `Register` (only the first time on a thread; it needs the mutex) and
`Enqueue`. A scan holds the mutex from `StartScan` to `EndScan` and takes one
group per step, so producers interleave with every group. `drop` flushes and
releases the shared `ThreadLocal`; the last one tears it down ring by ring. A
handle may `Move` to any thread between calls. A panic ends the process
(`panic = "abort"`). The ring buffer is a FIFO of groups. What the borrow
checker guarantees is a guard: calls take `&mut self`, and a thread is inside at
most one call.

**Channel.** When a socket's own thread pushes and pops, each call runs alone;
the backends then need only its effect. `Flush`, `Push`, `Sync` and `Pop` follow
the same lines as `Mpsc`, without interleaving.

**AfXdp.** A frame is a model value. `recv_token` is split into its first look,
the refill and the second look, `send` into its first look (with the flush that
follows a miss) and its second, because the kernel may move any index in
between. `refill_fill_ring` is modelled with its order: everything free in the
ring is reserved, frames are then popped one by one, and when they run out the
call fails without a submit. Ring entries that nobody wrote hold what they held
before. `Sending` and `Persistent` choose clients: one that only receives, one
that stops at the first failed allocation (a ring publishes unwritten entries
from then on), or one that goes on. `starved` is a history variable. The kernel
moves a frame from the fill ring to RX in one step: a driver that holds frames in
between is not modelled, and would need more frames than `Enough` says. A miss of
`send` (failed reserve, submit, peek at the completions) is one step; a completion
in between would be seen one call later.

**NetmapRx, NetmapTx.** Rings belong to the user between `head` and `tail`; only
a sync moves `tail`. The iterators' rules are kept exactly: the receiver scans
from its cursor and forgets the ring after a miss; the transmitter looks at the
ring under its cursor before it compares with the last bound ring. Initial
states are those after `nmport_open_desc` and, for reception, a first sync. A TX
slot is `sent` (the kernel is done with it), `new` (it holds a packet that `send`
accepted) or `again` (it was taken for a packet that did not fit and goes out
with what it held). The TX rings outside the bound range belong to other sockets,
of which nothing is known but that they send on them and sync them (`OwnerSends`,
`OwnerSyncs`, external), at any time and as often as they like. A stray send on such
a ring and a step of its owner are two steps: that both could write `head` at
once is not modelled.

Definitions of the transmit side that have a counterpart on the receive side start
with `Tx`, so that one module can reason about both.

**BufferPool.** `held` says how many tokens name each buffer, `lost` which buffers will
never carry a packet again. Receiving needs a buffer that is neither; releasing needs
one token; losing needs buffers without a token, fewer than a batch at a time. `Break`
allows anything and ends the promises: an AF_XDP socket breaks when `starved` is set,
a netmap socket never. Free buffers are not told apart, so rings, the channel and the
kernel are hidden. `Dpdk` counts mbufs and does not name them, so it has no such view.

**Dpdk.** The code never looks at which mbuf it moves, so containers are
numbers, except `bufs`, where null pointers and mbufs mix. `recv_token` is its
first look, `flush_to_memory_pool` and the second look. A send is one step over
a record of the transmitter: replenish (only if `ready_bufs` is full), pop, flush
by the iterator's drop, push to `ready_bufs`. `rte_eth_tx_burst` accepts any
number for which the TX queue has room. Two outcomes end the process: a popped
null pointer, and a copy of a packet of 64 KiB or more. A third is undefined:
`RteMBufRef::drop` uses a pointer to an iterator that is already gone; `Send` is
the outcome in which its memory is still intact. As mbufs are counted, `Conserved`
is a sum: it cannot see one mbuf in two places while another is lost in the same
step.

**Sockets.** Each socket is created once, by any backend; the steps keep the
order of the code: af_xdp and pcap number the pool first, netmap and dpdk last;
a port's name is entered under the mutex and the rest of `open` follows as
another step, so two opens interleave. A token carries its pool's identifier and
the model remembers which pool it really came from. A client makes a payload of it
with the check (`Consume`) or without, through the public `Payload::new`
(`LendUnchecked`), or gives it back with `Context::release` and drops it
(`ReleaseToken`). `mixed` is set when a context gets a buffer of another pool: one
of another backend, which `check_token` cannot notice, or any when nothing is
checked; nothing is said after that. A client that makes up a token (`Token::new`) or
keeps one whose buffer it released breaks the rule of `Token` itself and is left
out. A panic of `packet` is followed by other steps, although the release profile
aborts: more behaviours, none fewer. Ownership rules of Rust are guards. What keeps the memory of a
payload alive in each backend is `Alive`.

**XskLib.** `lib` holds what `struct xsk_umem` and its contexts record, and what
the process really has: descriptors and mappings. A create is one step that
succeeds, or fails after any of its system calls with all that its error path
does. The descriptor of the first socket is the UMEM's own. A member of `Sock`
stands for one successful create, so that it can name the descriptor: mappings of
a shared context outlive the descriptor they were made from. History variables
name the error paths that leave something behind: a reference (`lostRefs`),
mappings (`skips`), and the rings that `fill_save` still points to (`torn`).

**ForwardMt.** One step per loop test, receive, push attempt, pop, and send with
the drop of the payload. The pool is the set of free buffers, as in
`DescriptorPool`: a buffer that was sent can be received into at once. In the code it
waits in a batch of 16 of the worker's context first, and an incomplete batch is
discarded when the worker ends; that is in `Mpsc`.

## 3. Runs

| run | what it shows |
|---|---|
| `mpsc_safety` | memory safety of `pop_all`, the registry, one owner per descriptor, exclusive teardown, the only causes of loss, and refinement of `DescriptorPool` |
| `mpsc_liveness` | producer calls return against a polling consumer, groups leave rings unless rings registered earlier are refilled again and again |
| `afxdp_rx` | a receiving socket: exactly one owner per frame, every reserved fill entry submitted, FIFO order, the kernel fed for ever |
| `afxdp_forward` | receiving and sending: cached TX slots, `to_flush` and the shared indices agree, one owner until an allocation fails, the bound on what a flush loses, and refinement of `BufferPool` |
| `afxdp_few_frames` | finding: refill reserves more than it can fill |
| `netmap_rx` | the buffer swap keeps exactly one owner, refinement of `BufferPool`, drops only when buffers are exhausted, no ring starves |
| `netmap_tx` | slots reused only after the kernel sent them, other sockets' rings touched only after a send that failed, retried sends succeed, and on the port's own rings unless the owner of a ring behind them keeps freeing slots |
| `dpdk` | the mbufs in all places add up, the TX arrays never overflow, null pointers come off `bufs` last, receiving goes on |
| `sockets` | buffers released once and to their own pool, through every path of the API, no port open twice, memory outlives payloads |
| `xsk_lib` | reference counts, descriptors and mappings exact through every error path but the named ones |
| `forward_mt` | buffers partitioned between threads, order kept, everything forwarded |
| `forward_mt_stop` | finding: Ctrl-C with a full ring hangs the main thread |

Bounds. Every capacity is small enough to be hit and large enough to differ from
its neighbours.

* `mpsc_safety`: 3 threads, 2 handles, 4 descriptors, groups of 2, a cache of 3
  (not a multiple of the group), rings of 1 group and a registry of 2, so that
  every container fills, a handle changes threads, and a third thread overflows
  the registry. `mpsc_liveness` has no symmetry, 2 threads, groups of 1, and a cache
  of 1 for 2 descriptors, like the code's 1024 for 4096 and more: the ring
  registered first can fill the cache at every scan while the other one waits. TLC
  finds that behaviour as soon as `GroupLeavesRing` no longer allows for it
  (`Overtaken`).
* `afxdp_rx`: 6 frames, a fill ring of 2, one token, groups of 1. The number of
  frames is the least that is safe, 2 * FillSize + MaxTokens + Batch: while
  recv is between its miss and its refill the kernel can drain the fill ring
  into RX, and the refill then wants as many again. `afxdp_few_frames` has fewer.
* `afxdp_forward`: 5 frames, groups of 2, TX reservations of 2 in a ring of 2, an
  RX ring of 2 and one token, so that a reservation follows a submit of part of
  the previous one, and releases and completions share a batch, which is often
  incomplete. A TX ring of 4 does not finish in minutes.
* `netmap_rx`: 2 rings of 2 slots and 2 extra buffers, groups of 1, 2 tokens: a
  released buffer waits in the batch while a packet is dropped for want of one.
  `Batch <= Cache` (16 and 1024 in the code) and room in the channel for the extra
  buffers are assumptions of the module; the proofs use both.
  `netmap_tx`: 3 rings of 3 slots, the first two bound and one behind them that
  another socket uses; packets that fit and one that does not. A fourth ring,
  before the bound ones, does not finish in minutes; the theorems about the
  transmit side hold for any position of the bound rings.
* `dpdk`: 10 mbufs, bursts of 3, queues of 2, groups of 2. The number is the
  least for which `ReceivesGoOn` holds: the RX queue, a burst in the transmitter,
  the TX queue and an incomplete or unread batch take `RxRing + Burst + TxRing +
  Batch`, and one more must move; with 9 TLC finds reception stopped.
* In all backends the ring of the channel has room for as many groups as there
  are buffers: `Ctx::new` calls `mpsc::channel(nbufs)` (`src/af_xdp/mod.rs:33`,
  `src/dpdk/mod.rs:39`, `src/netmap/mod.rs:22`).
* `sockets`: 3 sockets, 2 clones, 2 names, one buffer per pool: two pools of one
  backend and one of another, a name reused by a second and a third open, and a
  clone that outlives its socket.
* `xsk_lib`: 4 sockets on 2 queues, so that two share a context, one has its own,
  one fails beside them, and one is created after others are deleted; one lost reference and one error path that leaves
  mappings.
* `forward_mt`: 4 buffers, a ring of 2 tokens. The runs of findings are minimal.

Symmetry is used in safety runs only. `Next` and the properties treat
descriptors, frames, threads and handles alike; only `Init` of `AfXdp` fixes an
order, which choosing a representative of each orbit does not affect.

`CHECK_DEADLOCK FALSE` is given where the system may stop: `afxdp_forward`, whose
client stops at the first failed allocation, `dpdk`, which may panic, `sockets`
and `xsk_lib`, where every handle is used up in the end.

Fairness.

* `Mpsc`: a thread inside a call keeps running (weak). A thread waiting for the
  registry mutex gets it (strong): `parking_lot` mutexes are eventually fair.
  The consumer's owner keeps calling `pop` (strong: however often it syncs in
  between), as every receive loop does; a client that only syncs would fill the
  cache once and stop. Nothing makes clients push.
* `AfXdp`, `NetmapRx`: the client keeps calling recv and drops what it received,
  like the `meter` examples. The kernel is not assumed to do anything.
* `NetmapTx`: the client keeps sending (weak, on the whole call), and a sync that
  may free slots infinitely often sometimes does (the NIC transmits). The owners of
  the other rings need not do anything, and may do anything.
* `Dpdk`: the client keeps calling recv and drops its packets (strong, as the
  drop waits for the call to return), packets keep arriving and the NIC keeps
  transmitting; the client sends whenever it likes, or never.
* `ForwardMt`: both threads are scheduled; Ctrl-C need not come.
* `Sockets`, `XskLib`: none; nobody has to do anything.

## 4. Proofs

Theorems hold for every value of the constants that satisfies the assumptions of
the modules; TLC evaluates the same assumptions on every run, and checks the
proved properties on its instances.

**MpscProofs** proves, for any sets of threads, handles and descriptors and any
capacities (`Batch`, `SpscLen`, `MaxRings` positive, `Cache` natural):

* `TypeCorrect`, `CacheNeverOverflows`: the unchecked writes of `pop_all` fit;
* `RegistrySafe`: the registry lists each live ring once; `AbortExplained`: the
  assertion in `remove` never fails; `TeardownExclusive`: rings go when every other
  handle is gone;
* `ExclusiveOwnership`: a descriptor is in one place;
* `LossesExplained`: descriptors disappear only in a drain of an incomplete
  batch or into a full ring, and in the last teardown;
* `ImplementsPool`: `Spec` implements `DescriptorPool!Spec`.

The inductive invariant has three layers, each inductive given the ones before.
`Inv1` is `TypeOK`, `CacheBound` and `CallControl`: what is known of a handle at
each point of a call (a batch is empty from the end of a flush on, `arg` is set
exactly inside a push that flushes). Without it `retry` could find a full batch
and a dropped handle could leave descriptors behind. `CacheBound` counts the
groups the scan may still take, which makes it inductive. `Inv2` has the
registry and, from the guard that a thread is inside one call, that no ring is
used by two calls (`OneCallPerThread`): that the list is injective and equal to the set
of live rings is what makes the assertion in `remove` hold, and `TeardownAlone`
keeps everybody else out while rings go. `Inv3` says that containers have no
duplicates and are pairwise disjoint (`OncePerContainer`, `Apart`); it is a form
of `Exclusive` with indices instead of unions, so that a step that moves a
group is first-order. `ChannelStep` then summarises every step as a put, a get,
a loss or a move inside the channel; the action property and the refinement
follow from it. Facts about sequences (removing an element, appending a group,
flattening groups) are lemmas at the top of each layer.

**ChannelProofs** holds no result of its own: it says what `Flush`, `Push`, `Sync`,
`Pop`, `PushAll` and `PopMany` do to the contents of a channel, as counts of each
element and as lengths, for every `Batch`, `Cache` and `SpscLen`. `FlattenSeq` and
the folds are recursive functions. The library's induction theorems cannot be
used, but induction over sets can be: `SetInduction` takes the set of the numbers for
which a fact holds, and rests on the well-foundedness of `<`. In the same way it shows
what both backends need of the sum of a function (`NumTokens` bounds the tokens of each
buffer and the number of buffers with a token) and of a set put in order (each
element occurs once).

**AfXdpProofs** proves, for any finite set of frames, any sizes of rings, batches
and reservations, and clients of all three kinds:

* `Typed`, `TxAccounted`: indices stay in range; cached slots, `to_flush` and the
  shared TX indices agree in every state, also after failed allocations;
* `OwnersExclusive`: no frame has two owners until an allocation fails with a
  descriptor already taken, and `SubmittedUntilStarved`: until then everything
  reserved in the fill ring is submitted;
* `LossesAreSmall`: only `complete_tx` loses frames, fewer than a batch a call;
* `ImplementsPool`: `Spec` implements `BufferPool!Spec`. `starved` is `broken`, so that a
  refill or a send that starves is `Break`; otherwise `recv_token` is `Receive`, since the
  frame at the head of RX has its one owner there and so no token, `release` is
  `Release`, `complete_tx` is `Lose`, and every other step is hidden;
* `PacketsInOrder`: the client sees the order of the RX ring;
* `ReceiverOwnsItsFrames`, `ReceiverSubmitsAll`: a socket that only receives never
  fails to refill and keeps exactly one owner per frame, under `Enough`: at least
  `2 * FillSize + MaxTokens + Batch` frames, a multiple of the batch (the last flush
  of `create` drops the rest), and a cache of at least one batch. `afxdp_rx`
  meets the bound exactly. The 32768 frames of the first configuration of the
  tests (`src/af_xdp/mod.rs:409`) meet it with libxdp's fill ring of 2048; the
  4096 of the examples do not, which is the first finding.

Assumed beside positive sizes: `Cardinality(Frame) <= SpscLen`, what `Ctx::new` asks
for. The property itself does not carry over a step: indices wrap, and a ring's
entries are known by position only. The invariant `Shape` therefore describes
a ring by distances (`Form`: so many entries with the kernel, so many reserved, so many
known to be free), its entries in order become a sequence (`Line`), and the owners
of a frame a sum of counts in sequences, so that every step moves a frame from one
sequence to another. That no frame has two owners bounds the groups in the channel
by the number of frames, hence its ring is never full, hence no push discards a group:
without this the bound on losses would not be inductive. `RxInv`, for the receiver,
adds that at most `MaxTokens` frames are with the client and that, while a refill is
due, what the kernel has moved to the RX ring and what is left in the fill ring are
together no more than the fill ring; so the channel must hold enough for the refill.

**DpdkProofs** proves `MbufsConserved` (the mbufs in all places add up to all of them,
also when the process ends), `TransmitterHasRoom` (`bufs` and `ready_bufs` never
overflow) and `NullsPoppedLast` (a replenishment leaves its null pointers below its mbufs,
so that a send unwraps one only when no mbuf is left), for any number of mbufs and any
sizes. It assumes `NumMbufs >= RxRing + Burst`, without which creation fails, and
`SpscLen >= NumMbufs`, as above. The invariant adds the types and that the channel
holds whole groups; `bufs` keeps its form because pops take from the end and a replenishment
writes from the length of `ready_bufs` to the end.

**NetmapProofs** has two parts. For the transmit side it proves `SlotsAreHandedOver` (only
slots that the kernel has sent are written) and `StraysOnlyAfterNone` (a ring the socket
is not bound to is touched only behind the last one and after a send that found
nothing), for any number of rings and slots and whatever their owners do. The invariant `TxInv` adds where the
cursor can be; arithmetic modulo the ring size is first reduced to comparisons of
distances. For the receive side, with any number of rings, slots and buffers, any batch
not larger than the cache and any number of tokens:

* `RxTyped`: rings and channel keep their types, and the cursor is on a bound ring or,
  with no ring under it, past the last;
* `RxOneOwner`: every buffer is in one slot, or in the channel, or with one token,
  except those the flush at creation discards;
* `DropsOnlyWhenExhausted`: a packet is dropped only if ring and cache of the channel
  are empty;
* `RxImplementsPool`: `Spec` implements `BufferPool!Spec` with `broken` always false and
  `lost` the discarded buffers, fewer than a batch; nothing is lost later.

`OneOwner` alone is not inductive. A release into a full channel would discard a group,
and that the channel is never full does not follow from one owner per buffer, because
`Buf` also counts the buffers in the rings. The invariant `RxInv` adds `RxRoom`: buffers in
the channel and buffers with a token are together no more than the extra ones, which
each swap keeps, as it takes one buffer from the channel for the one it hands out.
That every buffer has an owner at the start (`Dealt`) needs that dealing the
buffers in order to rings and slots uses each of the first `Slots * rings` once: a
division with remainder, proved for any sizes (`PlaceIn`, `PlaceOnce`, `PlaceOf`).

**SocketsProofs** proves `BufferHasOneOwner`, `ContextTakesItsTokens`, `PortsExclusive`
and `PayloadsAlive`, for any number of sockets, clones, names and buffers. Assumed:
`None` is not a socket, a name or a backend, and a socket is not a clone. The
invariant needs that identifiers are below the counter of their backend and
different, that every open port's name is entered in `ALLOCATED_PORTS`, and that a
token or payload refers to a socket that was opened.

**XskLibProofs** proves `ReferencesExact`, `DescriptorsExact` and `MappingsExact`, for any
number of sockets and queues. Counting needs only who uses the UMEM and each
context; mappings also need that no descriptor serves two contexts, which rests
on `bound`: a descriptor is bound once.

**ForwardMtProofs** proves `BuffersPartitioned` and `ForwardedInOrder`, for any number of
buffers and any ring: seen through the sequence of the buffers in flight, each
step of the two threads is a step of a queue.

Only model-checked: liveness (`CallReturns`, `GroupLeavesRing`, `KernelFed`,
`NoRingStarves`, `SendsGoOn`, `ReceivesGoOn`, `Forwarded`), as it needs fairness and
`ENABLED`. The other way round, `TypeOK` of `AfXdp` and of `NetmapRx` is proved (`Typed`,
`RxTyped`) and no run repeats it.

## 5. Findings

1. **Refill reserves more than it has** (`src/af_xdp/mod.rs:149`). With frames
   for twice the fill ring, as in the examples (4096 frames, libxdp's default
   fill ring of 2048), reserved entries stay unsubmitted after the error and
   later submits publish the wrong ones.
2. **forward_mt can hang on Ctrl-C** (`examples/forward_mt.rs:162`).

Behaviour the passing properties describe exactly, and a reader should know of:

* `complete_tx` of af_xdp flushes an incomplete batch of 16, which discards it
  (`src/af_xdp/mod.rs:185`): `LossPerFlush` bounds the loss.
* `send` of af_xdp counts a TX slot in `to_flush` before it allocates a frame
  (`src/af_xdp/mod.rs:226`); after a failed allocation the next submit publishes a
  slot nobody wrote, and `ExclusiveUntilStarved` stops there.
* After a netmap send that failed twice the next one looks at the ring behind the
  last bound one, if the NIC has it (`netmap_rs/src/context.rs:650`):
  `StrayOnlyAfterNone` says this is the only case. `next` looks under the cursor
  first, so the cursor stays there as long as that ring has slots. If its owner
  keeps freeing them, every packet goes out on the ring of another socket and the
  port's own rings are not served; `SendsGoOn` says that nothing else stops them.
* `send_inner` of netmap refuses a packet after its slot left the ring; the slot
  goes out with old contents. It never sets the slot's `len` either.
* A dpdk socket sends its first burst of 32 packets and then nothing
  (`src/dpdk/wrapper.rs:374`): replenishment waits for a full `ready_bufs`, and
  every send flushes. If the NIC refuses so much that `ready_bufs` fills, the
  replenishment pads `bufs` with nulls and a later send panics (`:393`); `NullsLast`
  says that every mbuf is used before.
* `rte_eal_init` succeeds once in a process (external), so `Sockets` opens one dpdk
  socket at most; the test at `src/dpdk/mod.rs:201` creates two and unwraps both.
  Where the EAL accepts a second call, identifiers and lifetimes are those of two
  sockets of any other backend.
* A scan of the channel that fills the cache at the rings registered first never
  reaches a later ring (`mpsc/src/consumer_registry.rs:67`): its buffers wait as long
  as the earlier ones have groups again at every scan (`GroupLeavesRing`).
* A clone of a dpdk context does not keep the mempool: a payload taken through it
  may outlive its memory. Netmap's contexts keep the port.
* Pool identifiers coincide between backends; `check_token` tells pools of one
  backend apart, and no others. `Payload::new` and `Context::release` are public and
  check nothing.
* A dropped `Token` loses its buffer silently: the comment at `src/api/token.rs:12`
  announces a panic in debug builds, and there is no such `Drop`.
* A netmap name stays in `ALLOCATED_PORTS` for ever, also after a failure, and a
  port that got too few extra buffers stays open. Giving names back when a socket
  is dropped would be wrong: the port may still be open through a clone.
* libxdp: a failing `socket()` loses a reference and the UMEM can never be deleted
  (`xsk.c:1053`); a failing second `mmap` leaves the fill ring mapped (`:305`); a
  first `create_shared` with rings of its own that fails unmaps the rings that
  `fill_save` still points to (`:1202`). In `wrapper.rs`, `Umem::new` moves the ring
  structures libxdp has pointers to (`:101`, not modelled: the model assumes that
  they stay), and a failed map update forgets the socket (`:211`).
* pcap's `recv_token` hands out a zeroed box: the packet's bytes are not copied.
* Tokens left in forward_mt's ring are never released; with at most 16 extra
  netmap buffers all of them may sit in an incomplete batch for good, and the
  flush at creation drops `extra % 16` of them (`Discarded`).

Some properties stop at the hazard they are about, since the code does have it:
`ExclusiveUntilStarved` and `PoolSpec` of af_xdp at `starved`, `OneOwner`, `TokenOfPool` and
`PayloadAlive` at `mixed`, `PayloadAlive` at a clone of a dpdk context, `MapsExact` at
`torn` and up to `skips`, `RefsExact` up to `lostRefs` and `orphans`,
`DropOnlyWhenExhausted` up to buffers in incomplete batches, and `SlotsHandedOver` up to
`again`. They show that nothing else goes wrong, and exactly when this does; they do
not show that it cannot. The `note` of the hazard says so.

## 6. Not modelled, and the plan

Outside the models: packet contents, lengths, statistics, metadata, memory
mapping, the reading and writing of packets through libpcap, the borrow counter
of `unsafe_refcell`, the loading of XDP programs, and third-party code beyond
what the backends call (DPDK, libpcap, arrayvec, ringbuf). The examples other
than `forward_mt` are sequential loops; they are the clients the fairness
conditions describe. Numbers are unbounded except ring indices, which wrap.

Most of the repository's C is not its own: libbpf with the kernel's headers, a
dump of the kernel's types (`vmlinux.h`, 100,000 lines) and generated DPDK
declarations (`miao.c`). The program is the few thousand lines of Rust in `src/`,
`mpsc/`, `netmap_rs/` and `examples/`, and the parts of libxdp they call: those
are modelled; the rest has no behaviour of this system in it.

The plan is done as far as this code allows: the parts above are modelled, every safety
property of a run is a theorem, and the two abstract specifications are refined by what
implements them. What could follow:

1. An abstract sender beside `BufferPool`. What `send` promises differs between the
   backends today (netmap transmits a slot it refused a packet for, a dpdk socket
   stops after its first burst), so it would describe a repaired library.
2. `Dpdk` with named mbufs, to relate it to `BufferPool`.
3. Liveness stays with TLC.
