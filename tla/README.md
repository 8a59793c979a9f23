# Verification of the low-latency event engine

TLA+ models of the engine's shared-memory segments and ring, codec, UDP
transport, sender, receiver and their pipeline, model-checked with TLC on small
instances. Every safety property is also proved with TLAPS, for every value of
the constants.

## 1. The system

An external producer writes events into an **ingress ring** in POSIX shared
memory. A **sender** takes them out, encodes each as one LLEP DATA packet and
sends it over UDP to a list of destinations. At each destination a **receiver**
decodes the datagrams, drops repeats, late ones and those of another session,
and publishes the events to an **egress ring**, which an external consumer reads.
Delivery is best effort.

| Component | State | Operations | Interacts through |
|---|---|---|---|
| SPSC ring (`include/shm/spsc_ring.hpp`, `src/shm/spsc_ring.cpp`) | preamble state, two cursors, slots; per handle: cached cursors, acquired position, initialiser flag | `initialize`, `attach`, `try_publish`, `try_acquire`, `release`, `close_publication` | atomics and slots in shared memory, between two processes |
| Segment (`src/shm/segment.cpp`) | descriptor, mapping, owner and linked flags; the POSIX name space | `create_shm`, `attach_shm`, `close_shm`, `unlink`, moves | names |
| Sender (`src/sender/sender.cpp`) | session, packet sequence, stop flag, packet buffer, counters | `initialize`, `run`, `request_stop` | ingress ring (consumer side), UDP |
| Receiver (`src/receiver/receiver.cpp`) | gap detector, stop flag, packet buffer, counters | `initialize`, `run`, `request_stop`, destructor | UDP, egress ring (producer side, owner) |
| Gap detector (`src/reliability/gap_detector.cpp`) | active session, last sequence | `check` | called by the receiver |
| Codec (`src/protocol`) | none | `encode_data`, `decode_data` | bytes of a datagram |
| UDP transport (`src/transport`) | a socket | `open`, `send_to`, `bind`, `receive` | system calls |

`reorder_buffer.cpp`, `retransmit_window.cpp`, `affinity.cpp` and `clock.cpp` are
empty; the applications are scaffolds.

What is hard here:

* **Concurrency without locks.** The ring's two sides run in different processes
  and synchronise through release stores and acquire loads only. Both cache the
  other's cursor and may read old values of it. Correctness depends on the
  memory orders and on the order of loads (state before write cursor).
* **Restarts.** Either side's process may die between any two steps, with a slot
  acquired or half written, and a new handle attaches to the cursors.
* **Unreliable delivery.** UDP loses, repeats and reorders; a restarted sender's
  packets and those of its predecessor are in the network together.
* **Stopping.** `request_stop()` races with an acquired event or a received
  datagram; closure must be seen only after the last event.
* **Startup and moves.** `attach` races `initialize`; each step of an engine's
  `initialize` may fail with a socket or a name in hand; engines and handles are
  moved, and destructors of the emptied sources run later.
* **Boundaries.** 64-bit cursors and packet sequences at their last value, full
  rings, unsigned gaps, ring sizes that overflow, datagrams at the edge of a frame
  or of the buffer.

`PROJECT.json` lists each of these as a hazard at its line, with the properties
that cover it.

## 2. Modules

| Module | What it is |
|---|---|
| `EventQueue` | Abstract specification of a ring: a bounded FIFO queue with one event on loan at a time, which reports `Closed` only when closed and drained. `Empty` may be stale. |
| `SpscRing` | The ring, one action per atomic access or slot access. Implements `EventQueue`. |
| `SpscRingProofs` | The inductive invariant of `SpscRing` and TLAPS proofs about it. |
| `Alignment`, `RingLayout` | `align_up`, and the size of a ring with its overflow checks (`required_bytes`), as operators. |
| `RingSetup` | `initialize` against a concurrent `attach`, and the handles they return through moves. |
| `RingSetupProofs` | Lemmas about the layout arithmetic, the inductive invariant of `RingSetup`, proofs. |
| `Codec` | `encode_data` into a reused buffer and `decode_data` of what arrives, byte by byte. |
| `UdpReceiver` | `UdpReceiver::receive` over the socket's queue, split at its system calls. |
| `DatagramProofs` | Lemmas about the codec's fields, the inductive invariants of `Codec` and `UdpReceiver`, proofs. |
| `GapDetector` | `GapDetector::check` as operators. |
| `Sender` | `Sender::run` over an `EventQueue` as ingress, with stop requests and restarts. |
| `SenderProofs` | The inductive invariant of `Sender`, proofs. |
| `Receiver` | `Receiver::run` over an `EventQueue` as egress, with any datagram as input. |
| `ReceiverProofs` | The inductive invariant of `Receiver` and TLAPS proofs about it. |
| `Segment` | `SharedMemorySegment` in several processes over one POSIX name space, split at system calls, with failing calls and dying processes. |
| `SegmentProofs` | The inductive invariant of `Segment`, proofs. |
| `Lifecycle` | Startup, moves, `run`, destruction and death of several `Sender` and `Receiver` objects over one host's sockets and names. |
| `LifecycleProofs` | The inductive invariant of `Lifecycle`, proofs. |
| `LossyStream` | Abstract specification of the pipeline: events come out unchanged, in order, at most once, and some never. |
| `Engine` | `Sender` and `Receiver` composed through a network that loses, repeats and reorders. Implements `LossyStream`. |
| `EngineProofs` | The pipeline's invariant, from those of `SenderProofs` and `ReceiverProofs`, proofs. |
| `MC...` | Instances for TLC. |

Definitions that begin with a comment "Fault:" are variants of the definition
they precede, with a plausible mistake in it. No specification uses them; they
show that each property notices a mistake of its kind.

### SpscRing: state and memory model

`state`, `writePos`, `readPos` and `slots` are the shared memory. `pPc`, `event`,
`cachedRead`, `initializer`, `pResult` are the producer's call and handle;
`cPc`, `sawClosed`, `cachedWrite`, `acquired`, `acquiredPos`, `view`, `cResult` the
consumer's. `published` and `delivered` are history. A slot keeps header and
payload apart, because the code writes them in two steps; each stands for the
event it was copied from.

Each atomic has one writer, so its modification order is 0, 1, 2, ... for a
cursor and Ready, Closed for the state. A load by the other side returns **any**
value not older than what the loading thread already knows. `wSync[p]` and
`rSync[p]` say how many slot accesses the store of position `p` carries (none if
the store were relaxed); `pKnows` and `cKnows` say how many accesses of the other
side happen before a thread's next step, and grow when an acquire load reads a
release store. The memory orders of the code are operators of their own, so a
weaker order is a one-word change: with a relaxed publication store
`NoDataRace` fails, with a relaxed state load `ClosedMeansDrained` fails.

`try_publish` is `RefuseEvent` (closed, too large, last position) or
`BeginPublish`, then possibly `LoadReadPosition` (which may end in `Full`),
`FillHeader`, `CopyPayload`, `StoreWritePosition`. `try_acquire` is `AcquireAgain`,
or `BeginAcquire`, then possibly `LoadState` and `LoadWritePosition` (which may end
in `Empty` or `Closed`), then `ReadSlot`. `ReattachProducer` and
`ReattachConsumer` may happen between any two steps. A new process is assumed to
start after the death of the one it replaces, so it knows what that one knew.
Only the initialising handle closes, and the code's comment that "the caller has
stopped the producer" is the guard `pPc = "idle"`.

### Sender, Receiver, Engine

The program counter `pc` (or `rPc`) is the position in `run()`. Steps that touch
only thread-local state are joined to the next shared step; the stop flag, the
rings and the network are shared. `Sender` splits the loop into stop check,
acquire, encode, release, one send per destination, and accounting, because it
may die between any of these. `Restart` is death plus a new `initialize()`: new
session (random 32-bit numbers, taken to be different), packet sequence 1, same
ingress ring. `CallRun` calls `run()` again after it returned, which is why the last
packet sequence must also set the stop flag. `wire[d]` is the set of datagrams ever sent to `d`; a receiver may be
given any member at any time, which covers loss, repetition and reordering.
Packets carry the ghost field `pos`, the event's place in the ingress stream.

In `Receiver` a datagram is one that does not decode or any packet; a publication
is refused for the reasons, and in the order, of `try_publish`; `Full` is possible
whenever the ring has ever been filled, because the read cursor the code sees may
be stale. `rPc` is "idle" before the first `run()` and "returned" after one, which
may be called again; the destructor may run without `run()`.

### Segment

`names` is the POSIX name space, `fds` and `maps` the descriptors and mappings of
each process, `handles` its `SharedMemorySegment` objects. `create_shm` is
`CreateOpen`, `Resize`, `Map`, with `FailCreation` as the clean-up of a failure of
either later call; `attach_shm` is `AttachOpen`, `Stat`, `Map`, with
`FailAttachment`. A process does one call at a time; `Die` may come between any
two system calls. Closing a descriptor closes whatever object is there, so a
handle that is moved from and kept its descriptor would close another handle's.
`close_shm` may fail to unmap, as the code provides for, and the clean-up of a
failed creation may fail to remove the name, whose result it ignores
(`segment.cpp:21`). An `unlink` refused by the system changes nothing. Handles carry the ghost
field `obj`, the object they were made for. Neither the destructor nor move
assignment unlinks, by the code's own contract ("its owner must unlink the
name", `receiver.cpp:58`), so `orphans` records the names that were left in this
way, by a failed clean-up or by a death, and only those does an operator remove. The code cannot
protect an owner from somebody who removes its name while it lives.

### RingSetup and RingLayout

`preamble.state` is the one atomic of the header that `attach` synchronises with.
`stores` is its modification order; a store carries how many of the three steps of
the construction (header; preamble; cursors and slots) happen before it, and
an acquire load makes the attacher know them (`aKnows`). `attach` may load any
store not older than one it read before. The plain fields of the preamble are a
record; `known` stands for magic, version, header size, instance id and reserved
bytes, all of which the code only compares with fixed values. The constructor of
the handle reads the geometry a second time (`ConstructHandle`), as in the code.

The documented contract of `attach` is that its caller waits for the creator:
"open an existing ring after the creator signals initialization is complete"
(`spsc_ring.hpp:54`), "the creator must have constructed the header before
attachment is attempted" (`spsc_ring.cpp:135`), "Reading `state` is not a substitute
for this coordination" (`docs/memory-model.md:124`, also `docs/testing.md:58`).
`Signal` is that coordination, done by the caller's means, and `told` says that it
took place. The model also has callers that were not told: the code answers
them `NotReady`, and nothing in the repository keeps them away. Of these only
safety is claimed: they never see a half-made ring, nor take it for a corrupt one.
That polling `attach` is enough to get in is *not* claimed; nothing under `src/`
polls. Before `construct_at` (`ConstructHeader`) such a caller loads from storage in
which the atomic does not exist yet, which C++ leaves undefined; the model
assumes what builds do with the zeroed bytes of a fresh segment, that they read as
`Uninitialized`. A caller that was told, on the other hand, is never refused
(`GoodRingAccepted`), after closure and after the creator's death either.

`FilledPreamble` keeps the stride in 32 bits, as `fill_preamble` does; that this
loses nothing is due to the stride check of `required_bytes` (`spsc_ring.cpp:77`).
Its product check (`spsc_ring.cpp:81`) cannot fire where `size_t` has 64 bits; it
fires in the run because `MaxSize` is small.

A segment starts out zeroed, or with a header of unknown origin in any state and
no creator. 32-bit and `size_t` values keep a width (`MaxU32`, `MaxSize`).
`handle` holds the `SpscRing` objects of both sides; `Release` and
`ClosePublication` are guarded by their own flag only, as in the code, so a moved-from
handle that kept a flag would act. A call on the hot path is one step here;
`SpscRing` has its interleavings. The hot path starts from what `RingSetup`
establishes: a finished construction known to both sides, and equal geometry.

### Codec

Packets are sequences of bytes, with the code's offsets and field widths. A byte
has `Nibble`^2 values, because TLC's integers are shorter than 64 bits;
nothing in the codec depends on the value 256. Fields are written and read by
`write_u16` to `read_u64`, each from two of the next narrower one, as in
`byte_io.hpp`; `U16` and `U32` are the numbers of values of the two widths. The checks of `encode_data` and `decode_data` are in the
code's order, so the error is the code's. `output` is the sender's buffer, whose
old contents stay behind a shorter packet. `Altered` overwrites one byte of a
datagram and changes its length.

### UdpReceiver

`Receive` starts a call with or without a timeout; `PollReady`, `PollTimeout`,
`PollOtherEvent` (an event without data), `SystemCallFails` (any `errno`, `EINTR`
included) and `RecvMsg` are the ways on. The kernel's queue is bounded and drops
what does not fit; `RecvMsg` needs a datagram, since the socket blocks.

### Lifecycle

A slot of `engine` holds one object, from the call of `initialize` to its
destructor. Each step of `initialize` is an action with the resource it takes;
`FailInitialize` is its failure at any step, with the destruction of the locals,
and the explicit `unlink` after a failed ring initialisation. That `unlink` and the
destructor's may be refused by the system, and the code ignores it
(`receiver.cpp:59` and `98`): `left` records the objects whose name stayed. A move leaves a
source behind that can still be run, stopped or destroyed. The process of an
engine may die at any time; the names that are left are removed by an operator,
as in `Segment`. `create_shm` is one step here; its own clean-up is in `Segment`. Other programs create, fill and close the ingress rings.

## 3. Runs

| Run | Shows | Bounds |
|---|---|---|
| `ring_safety` | `NoDataRace`, `HeldViewIntact`, `ExactlyOnceInOrder`, `ClosedMeansDrained`, `NoFalseCorruption`, `WithinCapacity`, and refinement of `EventQueue` | 2 slots, last position 6, two events and one too large |
| `ring_liveness` | `DrainedAfterClose`, `FullIsTransient` | 2 slots, last position 4 |
| `sender_safety` | `Accounting`, `OneSequencePerEvent`, `ReturnsClean` | 3 ingress events in 2 slots, 2 destinations, 2 sessions, last packet sequence 2 |
| `sender_liveness` | `RunReturns` | as above with fewer events |
| `receiver_safety` | `EverySequenceAccounted`, `EveryDatagramAccounted`, `DeliveredInOrder`, `ReturnLeavesClosed` | 5 datagrams or errors, 2 sessions, packet sequences to 6, 2 slots, 3 egress positions |
| `receiver_liveness` | `StopReturns`, `ConsumerReleased` | datagrams without end, packet sequences to 3, counters that start over after 3 |
| `segment_ownership` | `RemovesOnlyItsOwn`, `EveryNameHasAnOwner`, `ResourcesHeldOnce` | 2 processes, 1 name, 2 handles, descriptors and mappings each, 2 objects |
| `ring_setup` | `AttachAfterSetup`, `SlotsInsideMapping`, `GoodRingAccepted`, `RightsMovedNotCopied`, `HeaderStable` | slot counts to 16, capacities at the edges of a stride, 6 mapping sizes, 2 handles a side, 3 events |
| `codec` | `RoundTrip`, `AcceptedIsCanonical` | 11 messages, payloads to 7 bytes (6 allowed), one altered byte, 11 lengths |
| `udp_receive` | `WholeAndInOrder`, `TimedCallReturns` | 4 datagrams, queue of 2, buffer of 2 bytes |
| `lifecycle` | `SocketsHeldOnce`, `NamesHaveTheirOwner`, `RingFollowsReceiver`, `StopSurvivesMove` | 3 objects, 1 name, 1 port, 2 sockets, 2 segments |
| `pipeline` | `EndToEndInOrder`, `MissedWereSent`, and refinement of `LossyStream` | 3 events, 2 sessions, 3 deliveries |

Why these bounds: two slots and six positions are three laps, so every slot is
reused after having been on loan, and the last position is reached; stale values
of each cursor up to a lap old exist. Three events and packet sequence 2 let the
sender reach its last sequence and still find an event waiting; two sessions are
what a restart needs, and the third event makes old and new sessions overlap out
of order in the network. `MaxDatagrams` bounds what the socket returns (in
`receiver_liveness` only until the counters start over, see below), `MaxInvalid` the corrupt slots a
sender meets; two processes and two objects are what a name needs to be unlinked,
created anew by another process and attached to by the first; two handles are
what a move needs, and with two descriptors the table of a process fills up.
`MaxPosition` and `MaxSequence` stand for 2^64 - 1.
In `ring_setup` a 32-bit value ends at 191 and a size at 1023, so that the stride
check and the product check of `required_bytes` both refuse some configurations
and pass others (a mapping of 704 bytes is one that two slots with too large a
stride would fit); two handles a side are what a move needs, and three events
in a two-slot ring reuse a slot. The messages of `codec` have each field zero, one
and with only its highest bytes set, and payloads with 0 to 3 bytes of padding,
longer ones before shorter ones in the same buffer; the lengths lie around each
bound the decoder checks. Three objects, one name and one port make two engines
compete for everything while a third slot takes a move.
The safety properties of every run hold for all bounds by the theorems below; the
bounds matter for the liveness properties only.

Deadlock checking is off where a behaviour really may end: sender, receiver and
pipeline, whose `run()` returns.

Fairness. Ring: a consumer that polls (`WF` on its steps), and `SF` on loads that
return the newest value: C++ asks that stores become visible to other threads in
finite time, and only a thread that keeps loading profits. No fairness is
assumed of the producer, of closing, or of restarts: the liveness properties say
"if restarts end". Sender: the thread in `run()` keeps running, and a ring that
stays nonempty or closed is not reported empty for ever, which is what
`ring_liveness` shows. Receiver: the thread in `run()` keeps
running, and the consumer keeps consuming. `InRun` is every step of the thread,
with or without a datagram, so a timeout is not counted on: every call of `receive`
may return a datagram, for ever. For this `FairSpec` adds `CountersStartOver` to the
steps: at the bound on the datagrams the counters, which `run()` never
reads, return to zero and the traffic goes on. Without it the network would
fall silent and a receiver that looks at its flag only after a timeout would
pass. No fairness is assumed of the network. `ConsumerReleased` starts from the stop
request or the error, not from the closure, so it covers the whole way from there
through `close_publication` to the consumer. RingSetup has no liveness property.
UdpReceiver: the kernel finishes a system call that can finish, and a poll with a
timeout always can; failures are not counted on. This is what lets `Receiver` assume that `receive` comes back.

## 4. Proofs

Each proof module defines an inductive invariant, proves it (`...Invariance`), and
derives from it one theorem per safety property of the component's run.
None of the properties is inductive alone; what the invariants add is below. Each
invariant was first checked with TLC on the bounds of the run.

Four modules also prove an action property, what no step may do, that no run
lists; TLC checked each beforehand on the bounds of the component's run:
`ClosedIsFinal`, `SessionsAreFresh`, `OnlyForward`, `RemovedForGood`.

**`SpscRingProofs`** (any power-of-two slot count, last position, set of events).
`Spec` also implements `EventQueue!Spec`. `RingInv` adds:

* `CursorInv`: what a side caches is at most what it knows, which is at most the
  other side's cursor, and the write cursor is at most a lap ahead of what the
  producer *knows* of the read cursor. The last part makes stale loads harmless.
* `ProducerInv`: while a slot is written the write cursor is less than a lap
  ahead of the cached read cursor, and the slot holds what was copied so far.
* `ConsumerInv`, `ClosureInv`: an acquired or about-to-be-read slot lies below the
  cached write cursor; a consumer that saw `Closed` knows every publication.
* `ContentInv`: the slots between the cursors hold the unreleased events.

The one non-routine lemma is `SlotsDistinct`: positions less than a lap apart
have different slots, from the division theorem; it keeps `FillHeader` and
`CopyPayload` away from every slot the consumer may look at.

`ClosureIsFinal` (a closed ring stays closed and gets no further event) is read
off the refinement: `EventQueue` has no such step.

**`RingSetupProofs`** (any integer widths, sizes, configurations, any header found).
The lemmas say what the overflow checks are for: a division check bounds the
product (`DivideBound`), so an accepted configuration has a size that did not wrap,
a stride that fits 32 bits and slots that hold metadata and payload
(`RequiredBytesExact`). The cast in `fill_preamble` is therefore exact, and a preamble
without error describes slots inside the mapping (`GoodGeometry`). `SetupInv` adds:

* `BuildInv`: the store of `Ready` carries the whole construction; until then
  (`Unfinished`) a fresh segment has no store `attach` would accept.
* `GeometryInv`: the preamble is free of errors since the creator filled it, or
  since `attach` validated it, and every handle copied it. The second reading in
  `ConstructHandle` is safe because nothing writes the preamble in between.
* `AttachInv`: past the state check, `attach` knows the whole construction, which by
  `BuildInv` any store that it accepts carries.
* `ToldInv`: who was told has read the last store made before the signal, and every
  store from there on is one that `attach` accepts.
* `RightsInv`: each side has one handle with a header at most, and each right lies on
  its own side.

`HeaderNeverChangesInUse`: no step writes the preamble while `attach` is between
its checks and its second reading, or while a handle exists. The two steps
that write it, `ConstructHeader` and `FillPreamble`, are taken while the ring is
`Unfinished`, when `BuildInv` and `AttachInv` exclude both.

**`DatagramProofs`** (any width of a byte, maximal payload, message, buffer).
The codec first. A number below w * w and its two halves below w determine each
other (`SplitHalves`, `JoinHalves`). Applied once per width, as `byte_io.hpp` is
built, this gives the lemmas on each writer with its reader, in both directions,
without an induction. `EncodedBytes` says at which offset each field of a packet
lies. Two theorems without state follow:

* `EncodeThenDecode`: what `encode_data` writes for any message it accepts is
  accepted and gives back that message, whatever the buffer held before.
* `DecodeThenEncode`: any byte sequence at all that `decode_data` accepts is the
  packet of the view it returns. The run alters one byte and the length; this
  covers everything the network may do.

`CodecInv` adds to the two properties that the front of the buffer is the packet
sent last, so that the old bytes behind it never matter.

Then `receive` (any queue length, buffer, datagram sizes). `KeptInOrder` is about
the datagrams taken *and* those still queued: order of arrival is an invariant of
the two together. `ResultWhole` ties the outcome to the last one taken.
The module extends both specifications, which share no variable; hence
the names `UdpInit`, `UdpNext` and `UdpSpec`.

**`SenderProofs`** (any list of destinations, sessions, last packet sequence).
`SenderInv` adds `LoopInv` (what is on loan and in the buffer at each point of the
loop) and `WireInv`: every datagram on the wire comes from an event already
released, and those of the current session have sequences below the next one,
except the packet now going out and the last one of a session that is used up. This is why a restart in the middle of a fan-out
cannot give an event a second sequence: it was released before its first send.
The sender's type invariant is part of `SenderInv` and is proved with it
(`SenderTypes`) rather than run. `SendersNeverConfused`: what was sent stays sent, a
restart takes a session under which nothing is on the wire, and within a session
the packet sequence moves by one.

**`ReceiverProofs`** (any sessions and any sequence of datagrams). `ReceiverInv` adds
`DetectorInv`: an accepted packet is the detector's last until it is published.
`AcceptedIsAhead` shows that the unsigned gap never wraps. The receiver's type
invariant is part of `ReceiverInv` and is proved with it rather than run.
`ReceiverOnlyForward`: the detector keeps its session and never goes back, deliveries
are only appended, no counter shrinks.

**`EngineProofs`**. The invariants of the two sides are taken over: `SP` and `RP` are
instances of the two proof modules on the pipeline's variables, and the lemmas
`Same...` show that the actions of the pipeline's two sides are the actions those
modules reason about. The only new part is `Provenance`: a packet that the receiver
holds or has delivered, and the detector's last sequence, belong to datagrams
sent to it. `OneSequencePerEvent` then turns the receiver's order of sequences
into ingress order.

`PipelineImplementsStream` is the refinement of `LossyStream`: `input` is what was
published to ingress, `taken` what the sender released, `output` what was published
to egress, and `last` (`Furthest`) the ingress place of the last one delivered.
`SenderSideStream`, `ReceiverSideStream` and `DeliverStream` map every step to `Put`,
`Take`, `Emit` or a stutter; that `Emit` moves forward, to an event already taken, is
`EndToEndInOrder` after the step.

**`SegmentProofs`** (any number of processes, names, handles, descriptors). The
invariant has two halves.

* `Names` works with *claims*: a handle that owns a linked name, and a creation
  not yet finished, each claim one object under one name. A claimed object is the
  one its name stands for, has no other claimant and is no orphan, and a name
  without claimant is an orphan's. `RemovesOnlyItsOwn` and `EveryNameHasAnOwner` are
  the two directions of this; neither survives a step without the other, because
  a name is free for a new object only when nobody claims it.
* `Resources` is one statement per process about descriptors and one about
  mappings. `OnlyTouches` confines an action to its process; `OtherResources`,
  `OtherClaims` and `OtherOwners` then carry everything else over.

`UnlinkedForGood`: a name is bound only to a new object, and when a name is removed
its object has no other name and no claimant, so no later `unlink` is aimed at it.

**`LifecycleProofs`** (any number of engines, names, ports, sockets). `Shapes` says what
an engine holds at each point of `initialize` and after; `OwnedSegments` that an
owner's segment exists, is its own and has a blank ring until it made one;
`NamesOnce` that an object has one name at most. The properties are rewritten
without set comprehensions (`Forms`) before the case analysis.

Assumptions, all evaluated by TLC in the runs: that sets and bounds are what the
code's types make them (`SlotCountAssumption`, `MaxPositionAssumption`,
`MaxSequenceAssumption`, `EventAssumption`, `DestinationsAssumption`,
`UdpAssumption`, `CodecAssumption`, `MaxObjectsAssumption`, `LayoutAssumption`, `SetupAssumption`);
that the null values are not real ones (`SessionAssumption`, `NoneAssumption`,
`NoneRecordAssumption`, `LifecycleAssumption`); and that what `Engine` passes on meets
these (`HereAssumption`, `SenderAssumption`, `ReceiverAssumption`). The power of two
is what `SpscRing::initialize` checks, a nonempty destination list what
`Sender::initialize` checks.

Only model-checked is liveness, which is out of the prover's reach:
`DrainedAfterClose`, `FullIsTransient`, `RunReturns`, `StopReturns`,
`ConsumerReleased`, `TimedCallReturns`.

## 5. Plan

Every component with state is modelled, and every safety property and both
refinements are proved. What could still be added:

1. A pipeline over two `SpscRing`s in place of two `EventQueue`s. The composition
   follows from `RingImplementsQueue`, but its state space is beyond TLC, and it
   would be by proof alone.
2. When retransmission, the reorder buffer or NACK packets get code: a module each,
   and a stronger abstract specification than `LossyStream`.

## 6. Not modelled

* The applications (`apps/`): command-line scaffolds and a smoke-test tool.
* Parsing of addresses and segment names: conversions without state; a call they
  refuse takes no resource.
* Configuration records and error enumerations: plain data.
* `reorder_buffer.cpp`, `retransmit_window.cpp`, `affinity.cpp`, `clock.cpp`: empty.
  NACK packets and reliable delivery are constants without code.
* Null or misaligned ring memory: a mapping is page-aligned.

One hazard in `PROJECT.json` has no property: a name removed by an outsider while
its owner lives, which the documented ownership excludes and the code cannot
detect.
