# Verification of cantare-rs

TLA+ models, model-checking runs and machine-checked proofs for cantare-rs:
the in-memory stream buffers of `buffex` in all their compositions, the
demands, segments and joins of `abs_buff` they are built from, the spinning
locks of `atomic_sync`, the cancellation tokens of `cancel_src`, the handshake
of `smux_v1` and the multipart coding of `abs_buff_utils`. Everything is
translated from the source; `PROJECT.json` maps every definition to its lines.

## 1. Inventory of the system

The repository is a Rust workspace of small crates. Those with logic of their
own:

| component | state | operations | meets |
|---|---|---|---|
| `buffex::circular_buff` core | one atomic word (read and write position, REVERSION bit, TX/RX closed, TX/RX standby), a demand pointer and a wake slot per end, the element buffer | try and async read and write, segments that commit on drop, `close_*`, `fire_*`, drop of a half | tasks of an executor, cancellation tokens, demands |
| `circular_buff` pipeline | the same core with a device at each end | build (initialise both devices), the piping loop, park, drop | devices, cancellation tokens |
| `circular_buff` mixed | one device, one half | the half's calls, which drive the device by a poll or by an await; the drain of a close | devices, the half |
| `buffex::ring_buffer` | one atomic word (two indices, closed and in-flight flags), four wake slots, the cells | user reads, writes and peeks; kernel handoff: wait, take iovecs, put back; close, drop | tasks, runtime drivers |
| `abs_buff` demands | a value: lower and upper bound of an amount | constructors, conversion from ranges, `compromise` | every read and write |
| `abs_buff` segments | a window of cells and an offset, per segment and child | lend, cut children, move, clone, pass to a device, drop | buffers, devices |
| `abs_buff` pipelining | a count and an open segment | join of a readable and a writable buffer | buffers, cancellation tokens |
| `atomic_sync` preemptive rwlock | one atomic word (writer active, writer queued, upgrade active, reader count) | try and waiting acquisition, upgrade, downgrade, guard drops | threads, cancellation tokens |
| `atomic_sync` mutex | one signal in an atomic cell shared with others | acquire, release | threads, cancellation tokens |
| `cancel_src` | cancelled flag, callbacks, waiting senders, under a spin lock | cancel, register, unregister, futures, child tokens | every waiting future |
| `smux_v1` handshake | the frame being read; negotiation state of two peers | build, parse and read frames; initiate, accept, refuse | byte streams |
| `abs_buff_utils` multipart | prefix and payload of the part in progress | encode, decode | buffers |
| `mem_vfs`, `abs_vfs` | a tree of nodes | create, open, remove | callers (out of the workspace) |
| adapters (`iroh`, `tokio`, `std`), trait crates, macros | none of their own | | |

What is hard here, and what makes each part correct:

* **Lock-free words.** A segment is lent on one load of the word and used
  after the peer has moved on; full and empty look alike but for one bit (or
  one cell kept free). Correct: the sizes computed from the word are the true
  ones, lent regions never share a cell, items leave in order.
* **Parking.** A task tests, registers, tests again and sleeps, while its peer
  commits, tests a flag, reads a demand, swaps a slot and wakes. Correct: no
  wake-up is lost, no two tasks sleep on each other, no waiter outlives its
  future.
* **Cancellation and drop** at every await. Correct: a withdrawn wait leaves
  neither demand, flag nor slot behind, and a segment that is dropped half
  used commits what was moved and no more.
* **Devices driven by somebody else's call.** They move less than offered,
  stay pending or refuse. Correct: nothing is lost or repeated, a call ends, a
  drain does not give up too early, a closed end pulls nothing.
* **Kernel handoff.** A region is reserved in one call and returned in
  another. Correct: the flag says exactly who holds the region.
* **Guards that nest.** An upgradable reader may be borrowed as a writer and
  that one downgraded again; one count and one bit stand for all of them.
  Correct: a writer is alone, the count never falls short.
* **Segments that nest.** Each child's drop adds its offset to its parent's.
  Correct: every item is moved once and in order.
* **Callbacks under way while a source is cancelled**, and callbacks that call
  back. Correct: each runs or is withdrawn, once; nobody waits on a lock for
  ever.
* **Two peers that may each refuse or leave.** Correct: what one of them
  reports is what the other agreed to, and neither waits for ever.
* **Bounds of demands** given in several forms and by several layers.
  Correct: the agreement accepts exactly what each layer accepts.

`PROJECT.json` lists the hazards line by line.

## 2. Modules

| module | models |
|---|---|
| `IoPos` | the packed position of `circular_buff/core_.rs`: sizes, advancing, the REVERSION bit, cells of a region |
| `CircCore` | the core between a Producer half and a Consumer half |
| `BoundedFifo` | abstract specification: a bounded queue with batched put and get; `CircCore` and `RingBuffer` are shown to implement it |
| `CircPipeline` | the core between two devices, driven by one task |
| `CircMixed` | the core between a half and a device |
| `PipeJoin` | the join of two buffers |
| `RingBuffer` | the single-gap ring with up to four actors |
| `DemandRange`, `Demand` | the algebra of demands, ranges and `compromise`; a chain of layers that narrow one |
| `Segments` | segments and their children over rings, slices and arrays |
| `SpinRwLock`, `SpinMutex` | the preemptive read-write lock, the mutex |
| `CancelSource` | sources, tokens, registrations, futures, children |
| `HandshakeFrames` | option values, frame sizes, what an invitation is completed to |
| `FrameCodec` | a frame as bytes and the reader that completes it field by field |
| `Handshake` | initiator and responder |
| `Multipart` | encoder and decoder over one stream |
| `MCCircCore`, `MCRingBuffer` | sets of demands and of actors for TLC |
| `MCCircActive` | `CircPipeline`, `CircMixed`, `PipeJoin` for TLC |
| `MCSync`, `MCAbsBuff`, `MCWire` | the two locks and cancellation; segments and demands; frames, handshake and multipart for TLC |
| `IoPosProofs`, `CircCoreProofs`, `CircActiveProofs`, `RingBufferProofs` | theorems about the buffers |
| `AbsBuffProofs`, `LocksProofs`, `CancelSourceProofs` | theorems about demands and segments, both locks, cancellation |
| `WireProofs` | theorems about the handshake, its frames and the multipart transfer |

In the MC modules that hold several components a behaviour belongs to one of
them (`suite`), and the variables of the others do not change.

### CircCore

`pos`, `closed` and `stndby` are the fields of `atm_stat_`, one atomic word: an
action reads or updates all of it at once. `demand` is the pointer each end
publishes, `slot` its `WakeSlot`. A half is borrowed mutably by every
operation, so it has one program counter `pc[s]`. The two ends are mirror
images in the code, so actions take the side as a parameter.

Each action is one access to shared memory. An async read or write is
`StartAsync`, `TryAgain`, `SetDemand`, `Arm`, `Poll`, `Register`, `Recheck`,
then `parked`; its `WaitGuard` undoes this in three steps (`Deregister`,
`Unarm`, `ResetDemand`). A dropped segment is `Commit` (advance the word by
what was moved), then the six steps of `fire_*`: `BuildEvent`, `Gate`,
`Check`, `Deref`, `Signal`, `Wake`. Two reads may hit memory its owner has
taken back: `Deref` through a withdrawn demand may read any demand, and `Wake`
through a waiter that is being dropped or rewritten may or may not wake.

### CircPipeline

One task, so the interleaving is with the devices and the caller. A device
answers at any time or never, moving any part of what it was offered;
`blocking`, chosen at the start, says whether a device may answer with
nothing. `InitInput` and `InitOutput` are the initialisation in
`build_async`, `Loop` .. `Round` one round of `pipeline_piping_async_`,
`DropPipe` the drop of the future. The tests of the closed bits are left out:
in this composition nobody holds a half that could set them.

### CircMixed

No task belongs to the active end: the device is driven by the caller of the
half, by one poll (`Pump`, from a failed try, a dropped segment or a close) or
by an await (from an async call or the drain). `DeviceMoves`, `DeviceRefuses`
and `DevicePends` are the device; `DropSegment` commits what it moved, also
when its future is dropped while pending. `flaky`, chosen at the start, says
whether the device may refuse. Both compositions are one model, in terms of
the device's end and the half's end.

### PipeJoin

One action per stretch of `pipe_async_` between two awaits. The buffers are
any that keep the contract of `TrBuffRead` and `TrBuffWrite`: they answer with
a segment, an error, or both. The join may be dropped at either await and begun
again on the same buffers, and `SizeMax` stands for `usize::MAX`.

### RingBuffer

Actors: the two user halves `txUser` and `rxUser`, and the drivers `txRt`
(`take_send_iovecs`, `put_back_send`) and `rxRt` (`take_recv_iovecs`,
`put_back_recv`); `Crews` says which are present. `Check`, `Register` and
`Recheck` are `Park::poll`. Every change of the word is followed by
`signal_all`, one `Signal` (and `Wake`) per slot. `EndFree` is an obligation
on callers outside the repository: the driver of an end does not take its
region while the user half of the same end has borrowed it, for nothing in
`take_*_iovecs` looks for that.

### DemandRange, Demand

The five forms of a demand, each with the set of amounts it accepts.
`Narrow` and `NarrowByRange` combine demands as the layers of the system do;
`NoDemand` stands for a failed conversion or an empty agreement and `Panic`
for the failed assertion.

### Segments

The borrow checker lets only the innermost child be used, so the open segments
of a buffer are a chain; `Popped` is the drop of the innermost. A root segment
of a ring lies in one or two pieces, of a slice in one; the drop of an array's
advances nothing. Items are moved between chains, to and from plain buffers,
and to and from devices in several steps, of which any may be the last. A
panic in `compromise` drops the whole chain. A child that is dropped adds to its
parent's offset what was moved out of it; the traits document that it adds its
whole length (`segments_taken`).

### SpinRwLock

`word` is the atomic word, `guards[h]` the stack of live guards of a handle:
`Upgrade::try_upgrade` leaves the upgradable guard below the writer's, while
the by-value `try_upgrade` drops it once the writer guard exists (`Settle`). A
compare-exchange loop is one step. `try_write` is two: the exchange that fails
and the one that queues. A waiting call tries again until its token fires.

### SpinMutex

Loads and weak exchanges are separate steps, and a weak exchange may fail for
no reason. The cell's other bits belong to somebody who changes them at any
time (`SetBits`). The guarded value is read and written in two steps, so that
two threads inside would lose an update.

### CancelSource

A node is one shared `Inner`. Each call takes the spin lock, runs its critical
section and releases it; callbacks run outside it and may call again, so a
thread has a stack of frames, the innermost last. A child is a node cancelled
by a callback its parent holds through a weak reference. `Without` removes one
entry where `unregister` retains those with another id; `ListInv` of
`CancelSourceProofs` shows that no id is used twice, so these are the same.

### HandshakeFrames, FrameCodec, Handshake

`FrameCodec` has the bytes: fields of any order and width, a checksum, a
reader that parses what it has, asks for what is missing and parses again.
The loops of `build_frame_` and `parse_frame_` are functions of the number of
turns (`Laid`, `Turns`), so that what they do can be proved by induction.
`Lent` is what a buffer lends for `Demand::exactly(n)`. `Ideal` says which kind
of buffer it is: one that lends at most `n` bytes and takes them out when the
segment is dropped, or one as this repository has them, which lends one byte
more if it is there and takes out nothing that was not moved
(`wire_repo_buffers`). `kept` counts the bytes such a buffer has lent before
and has again; `cut` says that the peer has closed inside the frame, when a
field may be filled up with zeros. `ParsesAsBuilt` and `MatchesProtocol` are
about `parse_frame_` alone, whatever buffer feeds it; the latter ties the bytes
to `HandshakeFrames`, on which `Handshake` is built: there a stream is a queue
of whole frames, each peer one program counter, and a peer that fails drops
both its halves.

### Multipart

The encoder between two awaits, the decoder's `read_async`, and the caller that
uses any part of what it is lent. `EncFails` ends the encoder with the errors of
`EncodeError`: those of the target, those of the source, and `Invalid` for a
source that says in the middle of a chunk that it is at its end. Prefixes are
`PrefixLen` bytes of base `Base`; the target may be as short as a prefix.

## 3. Runs

| run | bounds | states | shows |
|---|---|---|---|
| `circ_core` | capacity 3, 4 items, two demands | 767,000 | regions and parking of the passive core, the inductive invariant, refinement of `BoundedFifo`, parked tasks are served |
| `circ_active` | capacity 3, item numbers modulo 4; join: 3 items, counts up to 2 | 296,000 | order through pipeline, mixed composition and join, whatever is dropped, refused or cancelled; slots; patience of the drain; nothing is pulled after a close; data flows and calls end |
| `ring_users` | 3 cells, 3 items, two demands | 415,000 | the ring between its user halves: waiters, refinement of `BoundedFifo` with one place less, parked tasks are served |
| `ring_runtime` | 3 cells, 3 items, both drivers and either half | 2.2 million | regions and flags with kernel handoff |
| `sync` | locks: 3 handles, 8 readers; 2 threads, 3 calls, 1 change of the other bits; cancellation: 2 threads, root and two children, two callbacks, one future, 3 calls outside callbacks | 305,000 | exclusion, counting, no lost update, a waiting writer is let in, a waiting thread gets the mutex; children follow, callbacks run or are withdrawn once, futures agree with the flag, calls return |
| `wire` | lists of up to 2 fields with 3 keys, 3 widths and 3 values; all invitations of up to 2 entries; a stream of 4 bits with 2-bit prefixes | 376,000 | frames are read as written and as the protocol assumes; agreement; nobody waits for ever; the payload arrives whole and bare |
| `abs_buff` | 3 cells, 4 open segments, two demands; amounts up to 12 | 1.33 million | every item is moved once and in order; the agreement is the intersection |

A capacity of 3 is the least at which a region can lie across the physical end
and leave room for the other half. Four items in `circ_core` fill the buffer,
wrap the write position and move an item into a region that lies across the
end; three items in the ring runs wrap its indices and fill all the cells a
wrong free size would give away; pipeline and mixed composition have no bound
on their items. The joins go on past the largest count, so that a retry follows
a full count. What lies beyond these bounds is, for the safety of every
component, the matter of the proofs. The demands include one that asks for
more than one unit (so a waiter may have to sleep on a commit that is not
enough) and one that accepts less than there is. Three handles give a contender
beside every upgrade; guards nest two deep at most, because a second borrowed
upgrade needs a count of one. Four open segments are two chains of two, or a
child of a child of a child. Three calls of two threads on a tree of sources
put a cancel beside a registration and an unregistration, and callbacks add
calls of their own. The four bits fed to the multipart encoder hold the zeros a
misaligned decoder would take for an end.

Deadlock is not checked where both owners may drop their halves or where a
future may be left parked, and where the work is finite: the system really
stops there.

Runs that are expected to be violated, each against a line of the repository:

| run | claim | what the code does |
|---|---|---|
| `circ_core_eof` | "EOF always wakes" (`abs_comp_.rs:142`) | a close event returns from `check` without signalling: a reader already parked sleeps on |
| `ring_eof` | a reader on an empty ring must return when the write end closes (`ring_buffer/futures_.rs:368`) | the test repeated after registering leaves TX_CLOSED out |
| `rw_count` | the count is the number of readers that hold the lock (`rwlock_.rs:99`) | downgrading a borrowed writer counts a reader that is never given back |
| `wire_repo_buffers` | a frame is completed field by field from the stream (`smux_v1/src/handshake/agent.rs:170`, `:203`) | the repository's buffers lend `n + 1` bytes for `exactly(n)` if they are there, for which `out` is too short (a panic); and the segment is copied and dropped unmoved, so the next read returns the same bytes |
| `segments_taken` | a taken child shrinks its parent by its whole length, moved or not (`abs_buff/src/buffer/segm_.rs:73`, `:155`) | its drop reclaims what was moved out of it; a test of the same file (`:940`) expects that |

Further disagreements are stated in the modules and are violated when given to
TLC as the only property of their component:

* `CircPipeline`, `ReadDataReachesOutput` (under `OutputFair`): data that was
  read flows to the output even if the input device blocks (`core_.rs:1064`);
  the loop awaits the input device before it offers the rest.
* `CircPipeline`, `DisconnectDrains`: on disconnect the rest is drained
  (`spsc_.rs:491`); a cancelled loop returns at once.
* `Demand`, `NeverPanics`: `a <= b` is enough for a closed interval
  (`demand_.rs:200`); `between(a, a)` asserts `a < b`.
* `CancelSource`, `PropagationIsTransitive`: a grandchild follows its
  grandparent; the parent's callback holds the child weakly, so a node in
  between that is dropped cuts the branch off.
* `Segments`, `LentIsAccepted`: a segment is of a length its demand accepts;
  the code takes `max()`, the excluded end of the range, for the length.

Seen in the code and not stated: `free_size` of `TrBufferState` for `Pipeline`
(`spsc_.rs:580`) returns the data size.

### Fairness

`CircCore` and `RingBuffer` assume weak fairness of each task's own steps
only: straight-line code runs on, and an executor polls a woken task. Nothing
is assumed of callers: they may keep a segment for ever or never start an
operation. For `DataFlows` and `MixCallEnds` devices answer in the end, and for
`JoinEnds` the two buffers do; these are assumptions on the environment.
`SpinRwLock` assumes that a spinning call is scheduled (weak) and that guards
are dropped in the end (strong, since an owner may start and abandon an upgrade
any number of times in between). `SpinMutex` assumes the same, and strongly
that a weak exchange which keeps finding the value it compares with succeeds in
the end. In `CancelSource` a thread in a call is scheduled, and callbacks
return. In `Handshake` both tasks are polled when what they await is there; in
`Multipart` both tasks are, and the decoder's caller reads on (strong, as it
may give up a wait or take nothing of a segment now and then).

## 4. Proofs

Each theorem of the form `Spec => []P` rests on an inductive invariant: it
holds initially, every action keeps it, and it implies `P`. A theorem speaks of
every value of the constants that the modules' `ASSUME`s allow.

`IoPosProofs` proves, for every capacity, what the positions compute: sizes
stay within the capacity, advancing adds or removes exactly what it says, and
the readable and the writable region are disjoint (`RegionsDisjoint`). Its
lemmas on which cells a commit adds to or removes from a region carry the three
proofs about rings that follow.

`CircCoreProofs` proves, for every capacity, every set of demands and any
number of items, the invariance of `IInv` and from it type correctness,
`PositionsCount`, `SegmentsDisjoint`, `FifoOrder`, `DemandFree`,
`NoLostWakeup` and `NoMutualPark`, and the refinement of `BoundedFifo`
(`ImplementsFifo`). The assumptions are those of the modules: a positive
capacity, demands with natural minimum and positive maximum. None of these
properties is inductive as it stands. `IInv` adds

* `SegmentsFit`: a live segment still starts at its half's position and fits
  the room there is now. The half's own position moves by its own commits
  only, and the peer's commits can only make room, so a segment built on a
  stale load stays good;
* `CellsInOrder`: from the read position on, the cells hold the next items,
  including those moved in and not committed. Without the latter a commit
  would expose cells nothing is known of;
* `ArmedProtocol`: demand, flag and slot are functions of the waiter's step,
  up to a signal on its way;
* `WakeupInv`: for a parked half with room, the exact stage its peer is at on
  the way to waking it, with the event and the demand it carries.

Each step of the proof is one action, and under it one conjunct of `IInv`.

`CircActiveProofs` treats the compositions with devices.

* Pipeline: `PipeInv` gives `DeliveredInOrder` (`PipelineInOrder`) and
  `SlotOnlyWhileParked` (`NoSlotLeft`). Order of delivery speaks only of the
  last item that left; what is inductive is `PipeRing`: the cells with data
  hold the items between the last one delivered and the last one read, and
  `PipeStart`: the ring is untouched until the input device has answered once.
* Mixed composition: `MixInv` gives `MixInOrder` (`MixAlwaysInOrder`),
  `DrainIsPatient` (`DrainAlwaysPatient`) and the action property
  `NoPullAfterClose` (`NothingPulledAfterClose`). `MixRing` describes the ring
  together with the device's open segment, whose items are in their cells, or
  out of them, before they are committed. `ClosedInv` says which calls can be
  under way once the read end is closed, and `DrainInv` carries from turn to
  turn of the drain what it has seen: a turn that begins after progress begins
  after a refusal too, and it ends with the ring empty or a refusal more.
* Join: `JoinInv` gives `JoinKeepsItems` (`JoinsKeepItems`): what was written
  is the source's items one after the other, and the count in progress is what
  this join has added to them, for any sizes and any largest count.

`RingBufferProofs` proves, for every capacity, every set of demands and every
choice of actors, the invariance of `RingInv` and from it `PositionsCount`,
`FifoOrder`, `FlightMatches`, `NoDanglingWaiter`, `NoOverlap` and
`NoLostWakeup`, and the refinement of `BoundedFifo` with one place less than
there are cells (`RingImplementsFifo`). The obligation on callers, `EndFree`,
is a guard of the model; without it `NoOverlap` is false. A ring that keeps one
cell free is a ring of `IoPos` that is never full (`Gap`), which is how the
lemmas about regions apply. `RingInv` adds

* `Control`: what an actor's step says of its own variables;
* `SegmentsFit`: a region starts at the index of its end and fits the room
  there is now, as in `CircCore`;
* `OneHolder`: of the two actors of an end one at most holds a region; only
  then do the regions of the writing and the reading end cover all cases;
* `CellsInOrder` up to `Written`, what a writer has put in and not committed;
* `WakeTaken` and `WakeDue`: a waiter missing from its slot is about to be
  woken by whoever took it, and one in its slot whose check holds is still to
  be visited by somebody who is signalling. `signal_all` goes through the four
  slots one by one, so `WakeDue` compares how far it is with the slot's place.

`AbsBuffProofs` proves that narrowing accepts exactly the amounts that every
layer accepts, for every largest amount (`NarrowingIsMeet`).

For segments it proves, for every capacity, every set of demands, any number of
open segments and each kind of buffer, `SegmInv` and from it `MovedOnce`
(`SegmentsMoveOnce`) and `WrittenInOrder` (`SegmentsWriteInOrder`). Both speak
of the offsets of a whole chain at once, while an action changes the innermost
segment only, and its drop adds what it moved to its parent. `SegmInv` says

* `Reaches`: the chain begins at the buffer's position `p` and has got to a
  place `x`; between them each segment begins where its parent stands
  (`Chained`), and its cells are those of the buffer from there on (`Covers`),
  round the physical end too. A drop therefore changes the chain but not `x`;
* `ReadSide`, `WriteSide`: the items before `x` are the ones moved, and so for
  those written, in order. The root of an array commits nothing, so there they
  are the items before `p` (`Count`);
* `Loan`: the cells a device call has been given are those from `x` on, which is
  what makes it right to move a part of them and go on later;
* `Target`: a ring or a slice holds what was written and nothing else.

That the offsets of a chain add up to `x - p` is an induction over its length.
The prover cannot instantiate the library's induction theorems, so it is an
induction over the set of lengths for which the claim holds: `LeastNatural`
takes the least number outside that set, from the well-founded order of the
naturals, and `Induction` says that there is none.

`LocksProofs` proves, for every finite set of handles, the invariance of
`LockInv` and from it `WriterExcludesAll`, `NeverUndercounted` and
`WriterBitSet`. The one assumption is `2 * |Handles| + 1 < MaxReaders`: the
count of 61 bits never fills up. Nothing in the word says who holds what, so
exclusion is a matter of counting: a writer is let in when the count is zero,
or one with an upgradable guard in hand, and that excludes others only if the
count never falls short of the live guards. `LockInv` therefore adds

* `NeverUndercounted` as a premise of the others, and in both parts: the count
  against the guards it stands for, and the upgrade bit against the upgradable
  guards, which a downgrade on top of a borrowed upgrade brings out of step;
* `WriterSeesExact`: while a writer is in, both are exact, for a writer has
  seen the count at its least. Without it such downgrades could leak one guard
  after another, and the bound of one would not be preserved;
* `Stacks` and `CallsHold`: which guards nest, and what a call in progress
  holds.

The counting itself is in `Counts`, `Among` and `Own` (how the number of live
guards follows the nesting of one handle), `Balance` carries it over to the
word, and every action is one lemma on top of these.

For the mutex `LocksProofs` proves, for any set of threads and either signal,
`MxInv` and from it `NoLostUpdate` (`NeverLosesUpdates`). The cell is shared
with bits that others change, so exclusion needs `CellInv`: the cell is those
bits, with the signal set exactly while one guard lives. A weak exchange
compares with a value loaded earlier, hence `ReleaseInv`: a guard that is being
dropped has loaded a cell with the signal in it. `DataInv` says that what the
owner of the guard has read is current.

`CancelSourceProofs` proves, for every number of threads, nodes, callbacks and
futures, and callbacks that call back to any depth, `CancelInv` and from it
`CallbackAccounted` (`CallbacksAccounted`), `FutureMatches` (`FuturesMatch`)
and `ChildFollows` (`ChildrenFollow`). It assumes that root, children and
registered callbacks are distinct. `CancelInv` has a part for every kind of
object:

* `FramesGood`: what a call in progress, anywhere on any stack, is about: a
  registration is of a callback still being registered, on the node it names,
  and has nothing to run before its critical section;
* `ListInv`: ids in a list are below the next one and distinct, and an entry
  and its registration name each other, so that a withdrawal removes the right
  entry and no other;
* `CbInv`: a callback is run, owed by one call, or listed, one of these at most,
  at every stage of its registration, and in none before it is on the list or
  once it has been withdrawn. `CallbackAccounted` alone does not say where a
  callback is while it is being registered or while it is disposed of;
* `FutInv`: a future is made by one call, and its sender is in the list exactly
  while its node lives and is not cancelled;
* `ChildInv`: a child that nobody is on the way to cancel or to register is on
  the list of its live parent, which is not cancelled.

The calls of a kind are a set of frames (`Owing`, `Pending`, `Marking`,
`Asking`), of which the invariant says that there is `Some` or at most `One` in
progress. Every action changes the stacks in one of four ways (a call is
entered, its innermost frame changes, a callback is entered from it, it
returns), so what becomes of `Some` and `One` is proved once for each way and
the lemma of an action adds what it does to lists and registrations. The lock
itself plays no part: a critical section is one step of the model, and that
it is never stuck is `CallsReturn`, which TLC checks.

`WireProofs` proves, for every number of keys, every invitation, every
choice of local values and every frame size, `HsInv` and from it `Agreement`
(`AgreementAlways`) and `InitiatorIsLast` (`InitiatorAlwaysLast`). `HsInv` says,
state by state of the responder, what may be in the two streams and where the
initiator can be (`SilentInv`, `InvitedInv`, `OfferedInv`, `ConfirmedInv`,
`RefusedInv`). The last is what makes a success of the initiator two-sided: a
responder that has given up has sent no confirmation and never will. That an
accepted frame holds no zero (`NoZeroPasses`) needs that a frame within the
size limit is read to its end.

For the multipart transfer it proves, for every byte base, prefix length,
target size and stream of bytes (`MultipartAssumption`: a base of two at least,
prefixes not empty), `MpInv` and from it `Transparent`
(`MultipartIsTransparent`). `Transparent` speaks of what the caller has taken
out; a decoder that is off by one byte would be seen there only later, when it
takes payload for a prefix. `MpInv` therefore says that there is a sequence
`wire` of all that was ever written to the target, with the places `at` where
its chunks begin and the places `pay` where their payload begins in what was
fed, such that

* `Layout`, `Payload`: each chunk is a prefix that tells its length and then
  the next bytes that were fed;
* `Sent`: the encoder has written or holds all of the last chunk but what it
  owes (`Owed`), and that is still in the source;
* `Received`, `Between`: the decoder is between two chunks, or inside one with
  exactly `left` bytes to go;
* `Holds`, `Source`, `Taken`: target, source and what was taken are the end of
  `wire`, the end of what was fed and the beginning of it;
* `EncState`, `DecState`: what the step of either side says of its variables.

All this is given up (`torn`) once the encoder has been started again in the
middle of a chunk: it does not remember how much it owes, and `Transparent`
promises nothing from there on. That a prefix is read back as it was written
(`PrefixRoundTrip`) is an induction over its bytes, made like the one above;
`StepFunction` shows that the functions given by recursion there exist and
take the values they should.

For the frames it proves, for every list of fields (each of a key of half a
byte other than the checksum's and a number that fits its width), every
checksum header and every limit (`CodecAssumption`), `ParsesAsBuilt`
(`FramesParseAsBuilt`) and `MatchesProtocol` (`FramesMatchProtocol`), which
need nothing of the buffer. `FramesReadAsLent` is about the reader over either
kind of buffer. From an ideal one `ReadsWhatWasSent` follows as long as the
peer does not close inside the frame, by the invariant `FrInv`: what has been
read is a beginning of the frame written, the stream has exactly the rest of it
and the next frame, and a result has its reason: a field or trailer the
protocol does not know, a zero or repeated field within what was read, a
request beyond the limit, or a frame read to its end. From a buffer of this
repository no frame is ever returned (`NoFrameIsRead`), by `StuckInv`: the
magic is read if no more than its four bytes are there, and then they are still
there when one byte is asked for, so two are lent and `out` is too short; or
the magic was cut short and is refused. That nothing of this is lost by a step rests on
`ParseIs`: of any beginning of a frame, `parse_frame_` asks for bytes the frame
still has and never for one of the next frame. Its parts are

* `NumberRoundTrip`: a number is decoded as it was encoded, by induction over
  its bytes;
* `EntryLaid`, `LaidGrows`, `FrameIs`: where each field and the checksum lie in
  the bytes of the frame;
* `TurnField`, `TurnTrailer`: a turn that begins at a field goes past it, or
  returns what that field deserves, and a turn at the trailer returns;
* `LoopIs`: the loop is after `k` turns behind the first `k` fields, or has
  returned, by induction over the turns; it returns because every field takes
  two bytes at least.

`MatchesProtocol` needs besides that `SizeUpto`, the size as the protocol model
counts it, is the place of the field in the bytes (`SizesAre`, by induction over
the fields), so that the first thing wrong with a frame is the same for both.
Of the checksum the proofs use only its length and that it is a function of the
bytes before it: a frame as written passes, and nothing is claimed of one that
was damaged on the way.

Only model-checked: a frame that the peer cuts short, whose last field is filled
up with zeros (`ReadsWhatWasSent` with `cut`: nothing but the checksum refuses
it, of which the proofs know too little), and all liveness (`ParkedIsServed`, `DataFlows`, `MixCallEnds`,
`JoinEnds`, `SomeWriterGetsIn`, `LockEnds`, `CallsReturn`, `AllArrives`,
`BothEnd`), which is outside this prover's reach. Every other invariant and
action property that a passing run checks is stated by a theorem.

## 5. Not modelled

* The sequential read-write lock: commented out and unfinished.
* `mem_vfs` and `abs_vfs`: commented out of the workspace.
* Adapters to `iroh`, `tokio` and `std` streams: their state is in those
  libraries; `CircPipeline` and `CircMixed` meet them as devices.
* Trait crates and macros: no state.
* Conversions, formatting and error types of `abs_buff`: no state.
* Memory orderings: an access to an atomic is one step, in one total order.
  Reads of memory that its owner has taken back are modelled by their
  outcomes (section 2), not by their location. `LocksOrderings`
  (`atomex/src/atomic_cell_.rs`) releases with `Acquire`, which no such model
  can judge; the same goes for `new_embedded`, which clears a cell others may
  hold.
* A carry out of the reader count needs 2^61 live guards; `IncReader` models
  it, no run reaches it.
* A demand whose minimum exceeds the capacity, and a multipart target shorter
  than a prefix, wait for ever by construction; the models assume neither.
* What `cancel_src` does inside its spin lock besides changing its lists
  (dropping senders wakes tasks, dropping callbacks runs their destructors).

* What a synchronous close or a drop leaves in the buffer: `close_tx` pumps
  without waiting (`core_.rs:898`) and the drop of a half does not pump at all,
  so items may stay behind for good. No line of the code promises otherwise.

## 6. What is left

Liveness for every value of the constants, which needs a prover with `ENABLED`
and fairness. Over the buffers of this repository the frame reader is wrong as
it stands (`wire_repo_buffers`, `FramesReadAsLent`); once `read_exact_into_`
takes no more than `out` holds and moves what it copies, `Ideal` describes it.
