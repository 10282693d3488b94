# A TLA+ development for Slope

Slope is the user-space runtime library of the Arach system: a `no_std` Rust
crate that gives a process its heap, executor, fibers, message rings, mapped
pages and the clients of the kernel's services. Most of it is lock-free code on
memory shared with another thread, with the kernel or with a device, plus a few
sequential controllers whose whole point is an invariant (admission, leases,
device bring-up). This directory models the parts with state of their own,
checks them with TLC on small instances and proves the central invariants with
TLAPS for every instance. Paths below are relative to the crate (`src/*.rs`).

## 1. Inventory

| Component | State | Operations | Interacts with | What is hard |
|---|---|---|---|---|
| SPSC ring, `ipc.rs` | producer and consumer index, state and message of each slot | `send`, `recv`, `is_empty` | two threads of one address space | every operation is four separate atomic accesses; the index lags behind the slot state |
| Slab heap, `memory/mod.rs`, `sync/entanglement.rs` | lock word, bitmask pages per size class, arena cursor, counters | `init`, `alloc`, `dealloc`, `stats` | every thread of the process | bounded spinning: a call may give up; pages never change class |
| Executor, `executor.rs` | slot states, ready mask, task count | `spawn_raw`, `run_until_stall`, `run_forever`, wakers | tasks, which wake during and after their poll | the mask is swapped at the start of a pass; wakers point at a stack frame |
| Service calculus, `service_calculus.rs` | window clock, admissions, sequence, virtual backlog, residual ring | `admit`, `rollback`, `observe_completion` | callers that hold certificates | calls in any order and late; checked and saturating arithmetic; half-done failures |
| Hermes manifold, `hermes_manifold.rs` | generation, phase, evidence, certificate, fault counters | the gates `observe_probe` ... `ignite`, `detect_fault`, `restore`, `contain`, `release` | the GPU driver; its flags go into the Crest page | retries after a refused ignition; nothing may survive a generation |
| Argus endpoint, `hypermedia.rs` | sequence, in-flight and revoked flag per session | `prepare`, `commit`, `complete`, `revoke`, `permits`, `authorize_ipc` | a client that writes records into a shared mapping, a broker | an envelope is checked when prepared and used later; wrap of the sequence |
| Crest page, `quantum_crest.rs` | three mailboxes, two epoch words | publish, submit and take of each mailbox | kernel and desktop, through one mapped page | a side may stop anywhere; the epoch, any the caller names, is stored before the mailbox is tried |
| Bifrost ring, `bridge.rs` | descriptors with state, length and buffer, two indices | `try_receive`, drop of the packet, `transmit` | the network device (DMA), any number of threads | indices are loaded first and stored last |
| Fabric, `fabric.rs` | outcome and tid of each fiber, count | `next_slot`, `spawn`, `harvest_all`, `join_all` | kernel threads | a fiber may finish before `spawn` returns; a failed spawn |
| Kairos, `kairos.rs` | static reply buffer and its claim, static snapshot | `query`, `query_ref`, `partition_work`, `negotiate` | kernel | one buffer for all threads; a static snapshot replaced behind references to it; rounding |
| Resonance plane, `resonance_plane.rs` | pending sequence, next sequence, dropped replies | `from_addresses`, `submit`, `poll_reply` | kernel, through split pages of the `aether` crate | lost, late and malformed replies; a second client over the same pages |
| Thermogenesis, `thermogenesis.rs` | last epoch and zone seen | `ThermalPolicy::new`, `check_transition` | kernel, through the thermal page | epoch and zone are stored and loaded one after the other |
| Environment, `env.rs`, `capability.rs`, `runtime.rs` | snapshot of the environment, negotiated features | `collapse`, `get`, `get_phase`, `recv`, `initialize` | the entry stack, Kairos, the plane client | capped counts, duplicate and malformed entries, two names for a capability |
| Signals, storage, files | handler table, DMA leases, directory cursor | dispatch, submit, read and write loops | kernel | partial transfers |

The remaining files are wrappers of one system call (`process.rs`,
`scheduler.rs`, `aegis.rs`, `time.rs`, `io.rs`), decoding of external records
(`display.rs`, `input.rs`, `wayland.rs`), a stateless front of the Bifrost ring
(`net.rs`) or pure arithmetic (`certificate.rs`,
`policy.rs`, `tuning.rs`, `memory/relativistic.rs`). `PROJECT.json` lists every
component with its status, and the hazards: the places where this code could go
wrong in a way that a unit test would hardly reach.

## 2. Modules

Each module names, at its variables, the field it stands for; definitions carry
the name of the function they model, and `map` in `PROJECT.json` gives the lines.
Definitions marked `Mutant:` are not part of a specification: each is a
plausible bug, and replaces the definition it precedes to see that the property
it is listed with notices.

* `BoundedFifo` is what a channel promises: a queue of bounded length, `send`
  that refuses only when it is full, `recv` that takes the oldest message.
  `SpscRing` is the ring of `ipc.rs`, one action per atomic access and two for
  the copy of a message, so that a torn copy is a state. It implements
  `BoundedFifo` under the mapping in the module: `Queue` are the messages of
  the READY slots from the consumer's end, so that a message enters the queue
  when its slot becomes READY and leaves it when the consumer claims the slot;
  `Hand` is the message the consumer has claimed.
* `SlabHeap` is the allocator together with its lock. A call enters, tries the
  lock a bounded number of times, looks a slot up and marks it (two steps, so
  that exclusion is the lock's doing), and unlocks. `live` is what the program
  holds; `lost` are the blocks whose `dealloc` gave up on the lock. `alloc`
  before `init` or above the largest class answers null and has no action.
* `Executor` has the caller, the pass over the swapped mask, the poll of one
  task with the wakes that happen inside it, and the wakers a task keeps. Such a
  waker points at the `WakerData` of a finished loop iteration; using it is
  undefined behaviour, modelled as setting any bit that the frame may now name,
  or none.
* `ServiceController` has the three operations with every early return and
  error path; the width of words and counters are constants, so that
  saturation, overflow and exhaustion happen, also of the product that turns a
  late completion into backlog (`Pressure`). The keyed roots are abstracted: a
  certificate verifies exactly when this controller issued it.
* `HermesManifold` has one action per gate, with the partial write of `ignite`.
* `ArgusEndpoint` has several sessions, whose leases differ in mapping
  generation, and envelopes as values that may be committed late, twice or
  elsewhere. The clock (`Tick`), the loss of an envelope (`Discard`) and the
  transport (`Execute`) are external; `executed` records what the transport acted
  on, and whether the endpoint lease had expired by then.
* `CrestPage` has the three mailboxes of the page as one parameterised protocol
  (the code writes it out three times), records of two halves, and the epoch
  words. Kernel and desktop threads are constants. A caller names any epoch of
  `Epoch` with each record, ascending or not; `named` remembers which.
* `Bifrost` has the receive and transmit sides with any number of callers and
  the device, which is external: it fills and sends descriptors in ring order.
* `Fabric` has the owner, the fibers and the kernel's answer to a spawn.
* `Kairos` has the claim, the system call that fills the buffer (the kernel may
  write anything, and may fail after it did), validation and `partition_work`.
  `query_ref` copies the validated snapshot into the storage of the process in
  two steps, CPUs and domains, with the claim still held. A thread with the
  reference reads what is there (`Readable`): what the latest `query_ref` of any
  thread stored, and while another thread copies, any mixture of old and new.
  The code has a data race there; `partition_work` reads the snapshot in one
  pass and computes on locals from then on, so a mixture is all it can show.
* `Loops` has the loops that `Kairos` and `EntryStack` share, as recursive
  functions of the number of elements seen: a running total (`allocated`,
  `cursor`, `enabled_total`), and an array to which some elements are copied in
  order (the workers of `partition_work`, the entries of the snapshot).
* `EntryStack` has what a process reads off its entry stack, as operators: where
  the environment begins, the three ways to look a variable up, the snapshot and
  its limits, and the parsing of a capability handle, one round of the loop per
  character (`TakeDigit`). What the kernel meant is the reference they are
  compared with: `KernelValue` is the first entry of a key, `Meaning` the number
  a text stands for by the positions of its digits, without width or early exit,
  and the `grant` of a stack is `Granted`, the meaning of the entry for the right.
* `ResonancePlane` is the client of the split pages. Making a client, submitting
  and the two halves of `poll_reply` (the announced sequence, then the reply) are
  actions; the kernel's side is external and may be slow, lose a frame, garble
  a reply or deny a command.
* `Thermal` is the thermal page and its policy. Each store of the kernel and
  each load of the policy is a step.
* `Process` composes the last four: `ProcessRuntime::initialize` reads the stack,
  negotiates the ABI, runs `query_ref` of `Kairos` on the only thread there is
  and partitions the first work; a running process then queries the topology
  from several threads, or opens the plane with the capability `recv` found and
  sends commands, or watches the thermal page. These share no state, so that a
  process of the model does one of them.

`MC*` modules give constants their values; `*_proofs` modules hold theorems.
`Clients_proofs` holds those of three components, `ArgusEndpoint`,
`HermesManifold` and `Fabric`, each by itself; this is why the specifications of
the latter two are called `HermesSpec` and `FabricSpec`. The parts of `Process`
are proved about together in `Process_proofs`, against the composition.

## 3. What the runs check

| Run | Bounds | Shows |
|---|---|---|
| `spsc_ring` | 3 slots, 2 messages | ownership of slots, refinement of `BoundedFifo`, `is_empty` is reliable for the consumer, every message is taken |
| `slab_heap` | 2 threads, pages of 4 bytes, classes 2/4, 2 pages, 2 attempts, 4 allocations | blocks never share a byte, are aligned, bitmasks and counters agree with the program, calls return |
| `executor` | 2 slots | the count is the number of unfinished tasks, no ready bit is lost, a task that wakes itself is polled again |
| `executor_waker` | 2 slots | **violation**: a kept waker does not mark its slot |
| `service_controller` | windows of 2 ticks, 2 admissions each, 2 residuals, 3 sequence numbers, words up to 12, a unit of work of 5 | arrival envelope, also of spans across two windows, identity of reservations, backlog and guard |
| `hermes` | 2 domains, 3 generations, counters saturate at 2 | Online rests on evidence and on the certificate of its own generation |
| `argus` | 2 sessions, sequence wraps after 2, 2 envelopes, 3 epochs | nothing is replayed across sessions or within one before the wrap; one record acted on per sequence number, and at most one after the endpoint lease expired |
| `crest_page` | 1 kernel thread, 2 desktop threads, 2 records per mailbox, 2 epochs to choose from | exclusive access, whole records in order, epoch words that belong to their records, the kernel never waits |
| `bifrost` | 2 descriptors each way, 1 reader, 2 writers, 3 frames each way | ownership against device and threads, no duplicates, order, no frame left behind |
| `fabric` | 3 slots, results that include the pending mark | what is harvested is true, `join_all` waits for every fiber and then returns |
| `fabric_join` | 2 slots | **violation**: `join_all` does not return after a failed spawn |
| `process` | 2 threads, 11 replies of up to 4 CPUs and 3 domains, 0..5 units of work; 57 entry stacks with room for 2 arguments, 2 variables, values of 5 characters; 4 commands of 2 clients, sequence wraps after 3; 6 thermal epochs of a byte with 4 values | own reply, complete and proportional partition, storage that is never left with a mixture of two topologies; lookups and capabilities are what the kernel meant; replies belong to their commands and commands end; the thermal handler is current |

The bounds are the smallest at which the cases of interest occur: rings that
fill, wrap and are refilled behind a stale index (2 or 3 slots), a class that
runs out of its page while another grows (2 pages, 2 classes), a spin that is
retried and one that gives up (2 attempts), a sequence that wraps or is
exhausted, a window that is skipped, a slot that is recycled, three weights with
a remainder of two. Counters without a bound in the code are bounded in guards
by a named constant (`MaxAllocs`, `MaxPuts`, `MaxArrivals`, `MaxSends`,
`MaxHeld`, `MaxEpoch`, `MaxTotal`, `MaxCommands`, `MaxClients`, `MaxTicks`).
Deadlock is checked except in `crest_page` and `bifrost`, where the bounded
supply of records ends, and in `process`, where a process may also fail to
start. Values of a snapshot, handles and epochs are as narrow as the entry stacks
need: 5 for `u16::MAX`, 299 for `u64::MAX`, 4 for the 256 values of the epoch
byte.

Type invariants (`TypeOK`) are stated in every module; the runs spend their time
on the other properties.

### The two violations

* `WakeMarksTheSlot`: the header of `executor.rs` (line 8) says that a wake marks
  the slot READY, and line 65 that a waker points into a retained task slot. Its
  data is the local `WakerData` of one iteration of `run_until_stall` (lines
  163-167): a task that clones its waker and is woken later, the normal way for
  a future to wait, is not reliably polled again.
* `JoinReturns`: `join_all` (line 200 of `fabric.rs`) waits until all spawned
  fibers complete. `next_slot` counts the slot when it is borrowed, so after a
  `spawn` that fails (line 161) `join_all` waits for a fiber that does not exist.

### Fairness

* The producer's and the consumer's own steps are weakly fair in `SpscRing`:
  each thread keeps running. A consumer that keeps calling `recv` is assumed for
  `EveryMessageIsTaken`; the producer need not send.
* `SlabHeap` assumes fairness only of the threads in `FairThread`, so the other
  thread may stop for ever while it holds the lock.
* `Executor` assumes that its thread keeps running and that polls return, as
  cooperative scheduling requires; wakes are never assumed.
* `CrestPage` is fair to the kernel's threads only.
* `Bifrost` is fair to its threads and to a device that finishes what it began.
* `Fabric` assumes that fibers run to their end and that the kernel answers.
* `ResonancePlane` assumes that the kernel serves its pages, and that a process
  with a pending command polls, which is what the interface asks of it. Nothing
  is assumed about submitting, about the loss of frames or about which status
  a reply has.

## 4. What is proved

All theorems hold for every value of the constants that satisfies the named
assumptions of the modules. These are what the code fixes or its callers
guarantee: positive sizes, curves that `ServiceCurve::valid` accepts, leases that
differ between sessions, thread sets that are finite and disjoint
(`CrestAssumption`, `BifrostAssumption`), alignments that divide every class at
least as large (`LayoutAssumption`; both are powers of two), entry stacks whose
strings are not null pointers and whose `grant` is the handle written in them
(`StackAssumption`: it defines what the kernel granted), and replies that are
records of two lists of any length and content (`ReplyAssumption`). TLC evaluates
each of them on the run of its module.

Each module has one inductive invariant, a conjunction of named parts, a lemma
that it is inductive and one theorem per property that follows from it. What the
invariant adds to the properties, and why:

* `SpscRing_proofs`: types, `SlotOwnership`, `WholeMessages`, `PeekIsReliable`
  for every depth. `IInv` ties the program counter of each side to the state of
  the slot under its index; ownership alone does not say that the message of a
  READY slot was fully copied. `RingIsFifo` is the refinement, `Spec =>
  RefinesFifo`, for every depth. `QueueInv` adds that the READY slots are a run of
  consecutive slots from the consumer's end to the producer's (`Queued`), so that
  `Queue` is a sequence of exactly those, and that what was copied is the message
  of the claimed slot. Publishing a slot then appends to the queue, claiming one
  takes its head, a refused `send` sees all slots taken and an empty `recv` none;
  every other step is a stutter.
* `SlabHeap_proofs`: `MutualExclusion`, `BlocksDisjoint`, `BlocksFit` and
  `HeapAccounting` for any threads, classes and arena. `HeapInv` says that every
  page of every class is an arena page of its own (`PagesInv`), that blocks and
  taken slots correspond one to one (`PlacedInv`), that a block is in one place:
  held, lost, or in the hands of one `dealloc` (`HandsInv`), and that what a
  thread looked up still holds when it marks it (`FoundInv`); the last part is
  where mutual exclusion is used. Lemmas on addresses (`SlotsApart`,
  `AlignedSum`) carry it over to bytes.
* `Executor_proofs`: types, `CountIsAlive`, `NoBitIsLost` for any number of
  slots. `Turn` says that only the slot of the poll under way is RUNNING, and
  `OwedIsAlive` that only an unfinished task is owed a poll, because the bits of
  other slots are dropped. The undefined outcome of a kept waker is one of the
  steps covered: it may set bits and never loses one.
* `ServiceController_proofs`: types, `EnvelopeHolds`, `SequenceIsIdentity`,
  `ArrivalsFit`, `BacklogIsOutstanding`, `GuardCovers` for every curve, width,
  coverage and retention. `WindowInv` is the part that `EnvelopeHolds` needs: no
  reservation is ahead of the window, and the latest one is counted in
  `admitted_in_window` exactly while it stands, so that a rollback undoes one
  admission and only once. `GridInv` is the part for `ArrivalsFit`: every admission
  lies in its window, and two windows are the same or a window's length apart,
  however many were skipped; a span of that length therefore meets at most two
  (`SpanFits`), each of which holds its budget. `GuardCovers` rests on the arithmetic of the conformal
  rank (`IndexCovers`) and on the existence of a sorted order of any number of
  residuals (`AllSortable`, by least counterexample): `SortOrder` is then a
  bijection, and the guard's element has the required number below it.
* `CrestPage_proofs`: types, `ExclusiveAccess`, `DeliveredInOrder`,
  `EpochIsAnnounced`. `ExclusionKept` reduces each step to who is inside which
  mailbox; order and wholeness rest on both halves being the record that was
  claimed for. `EpochInv` follows the single sender from the store of its epoch
  to the end of its call, since the word is written before the mailbox is tried
  and the attempt may fail; the record of the last call then has its own epoch
  in the word, whatever epochs were named before.
* `Bifrost_proofs`: `Ownership`, `NoFrameTwice`, `SoleUserKeepsOrder` for rings
  of any size. A frame is in one place (with one thread, in one descriptor, or
  delivered), which is what makes stale indices harmless. For the order,
  `RxOrder` and `TxOrder` describe the full descriptors between the two indices
  as a queue of ascending frames, with positions counted around the ring by
  `Ahead`.
* `Clients_proofs`, Argus: types, `BoundToSession`, `RevocationIsTerminal`,
  `NoReplayBeforeWrap`, `OneRequestPerTurn`; the strengthening is
  `TaggedByLease`, that every envelope carries the lease of the session that made
  it, and `TurnInv`: no envelope and no record acted on is ahead of the sequence
  the session waits for; a record with that very sequence is the one in flight;
  and after a record was acted on late, it is still in flight or no envelope is
  left for the sequence that follows, because `prepare` makes no more.
  Hermes: types, `EvidenceLadder`, `OnlineIsEarned`, `FlagsTellPhase` and the
  action property `CertificateIsFinal`; the ladder makes `OnlineIsEarned`
  inductive, as the gates below `ignite` are not revisited within a generation.
  Fabric: `HarvestIsTruthful`, and `JoinWaits`, the action property that
  `join_all` does not return early; `OutcomesAreOwn` says that an outcome other
  than the pending mark is the result of a finished closure, and `JoinedIsDone`
  that the slots behind the cursor of `join_all` have finished.
* `Process_proofs`: `ReplyIsOwn`, `StorageIsWhole`, `HandlerIsCurrent`,
  `ReplyIsForCommand` and `GrantIsGenuine`, of the composed process and so for
  every interleaving of its parts, for any threads, replies, stacks and widths.
  `ComponentSteps` reduces a step of the process to one of a component that
  leaves the others alone. `KairosInv` says that at most one thread is between
  claim and release, and that the storage holds a validated topology except
  between the two halves of a copy, when it has the CPUs of the thread that
  copies (`StorageInv`); `ThermalInv` says that a policy that holds the latest epoch has
  also seen its zone; `PlaneInv` says that, counting back from
  the last command, sequence numbers and commands in the pages agree. `WorkInv` says that a
  partition that was handed out is `partition_work` of what the thread read, and
  that this passed validation unless another thread was storing, so that the theorems on partitions are facts about that operator.
* `Process_proofs`, the operators behind these properties:
  * `partition_work`: `WorkIsCovered` and `WorkIsProportional`. The rounded shares
    never exceed the work, and fall short of it by less than one unit for each
    domain (`ShareBounds`, `ShareSums`, summed along the loop), so the remainder
    fits in front of the array and goes out one unit per domain (`RestIsDealt`,
    `ChunksAre`). This holds of any two lists, a mixture included
    (`PartitionCovers`); the proportion needs a validated topology. That the weight of a domain is the number of its *distinct*
    enabled CPUs is where validation enters: `from_raw` rejects repeated members
    and CPUs (`WeightIsCpus`). A workerless topology gets one slice with all the
    work, where there is no proportion to state.
  * the environment: `LookupsAreFaithful`, all three lookups. `SelectedIs`
    describes what a copying loop keeps by an increasing list of positions;
    `SnapshotIsPairs` and `FirstOfPairs` make the first match in the copy the
    first match in the block.
  * capabilities: `HandlesAreRead` says that `parse_handle` accepts exactly the
    numerals that fit in a word, and returns their number. Along the loop either
    nothing has gone wrong and the accumulator is the number of the digits seen,
    or an error stands and the whole text has no fitting number, because numbers
    only grow with further digits. `GrantsAreGenuine` rests on it and has no
    hypothesis on the texts.

What a loop computes cannot be proved with the library's induction theorems here,
since they take an operator as a parameter. `UpTo` is induction for a *set* of
round numbers, from the least element of a set of numbers (`MinIsMember`, by
well-foundedness), and `Rounds` constructs the function that a recursive
definition denotes. `TotalsAre`, `SelectedIs`, `NumberRounds` and `ParseRounds`
are its uses; each predicate becomes a set by comprehension.

Only model-checked are the liveness properties: `EveryMessageIsTaken`,
`CallsReturn`, `SelfWokenIsPolledAgain`, `KernelIsNotHeld`, `ReadyIsReceived` and
`CommandEnds`, and `JoinCompletes`, that `join_all` does return. Fairness and
ENABLED are out of the prover's reach. The two violations are counterexamples and
need no proof. Every other property of a run is stated by a theorem.

## 5. What is not modelled

Memory orderings weaker than sequential consistency: every atomic access is one
indivisible step, and the Release/Acquire pairs of the code are taken to order
the accesses around them. Byte layouts, hashes and keyed roots (the hash of an
environment key is taken to identify the key), floating-point scoring, trust
anchors, and the internals of the `aether` crate and of the kernel. Of
`thermogenesis.rs` the budgets, `ThermalGuard` and the throttle fractions, which
are arithmetic on single loads; of `kairos.rs` the affinity hint, a pure function
of the snapshot, and the accessors of the Kairos page. `signal.rs`, `storage.rs`,
`fs.rs` and `nexus.rs` keep a table, a loop index or a counter, and no protocol
between actors.

Known behaviour that no property forbids, and that the models contain:

* a `dealloc` that gives up leaks its block;
* `observe_completion` accepts the certificate of a rolled-back admission;
* after the sequence of an Argus session wraps, old numbers are committed again;
* a second `query_ref` overwrites the static snapshot behind the references to
  it, and a thread that reads through one during the copy may see a mixture of
  two topologies; the comment at line 297 of `kairos.rs` takes `query_ref` to be
  called once, before there are other threads, and nothing enforces that;
* `commit` does not look at the clock, so one request of an Argus session may be
  acted on after its endpoint lease has expired;
* a `publish` or `submit` of the Crest page that answers Busy has stored its epoch
  already, so that the word may be that of a record nobody will see;
* with more than `MAX_ARGV` arguments the environment is looked for behind the
  cap, so that later arguments are read as variables and even as capabilities;
* `QuantumEnv::get` takes an empty value for a missing one, and `get_phase` stops at
  the first entry without `=`; the snapshot does neither;
* a value longer than `u16::MAX` is cut, and a capability handle with it;
* a handle that is malformed under its new name is not looked up under the old
  one;
* a client of the Resonance plane that is made over pages already in use, or
  that has used up its sequence numbers, may take a reply of an earlier command
  for its own; a garbled reply or a lost frame keeps it from submitting again;
* `ThermalPolicy::new` loads the zone before the epoch, so that it may miss a
  transition until the next epoch; transitions between two checks are seen as
  one or not at all, although the comment of `check_transition` speaks of exactly
  one call per transition.

## 6. Plan

1. Done: the modules above, in the order ring, heap, executor, service
   calculus, Hermes, Argus, Crest page, Bifrost, Fabric, Kairos, and then entry
   stack, Resonance plane, thermal page and the process that composes them.
2. Not pursued: the manifold publishing its flags through the snapshot mailbox.
   That snapshots show phases of the device in order follows from
   `DeliveredInOrder` and `CertificateIsFinal`, which are proved, and the product
   of the two modules adds states and no further case.
3. Done: every safety invariant and action property that a run checks has a
   theorem, and so has the refinement of `BoundedFifo`.
4. Open: the liveness properties, with a prover that reasons about ENABLED; and
   weak memory, for which each access of `SpscRing`, `CrestPage` and `Bifrost`
   would need its ordering as part of the step.
