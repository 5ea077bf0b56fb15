# A TLA+ model of harbor-kernel

harbor-kernel is a capability microkernel for AArch64 boards. It runs agents,
each in an address space of its own, on up to two CPUs, with channels as the
only way to talk. The pure parts (tables, queues, protocols) are in
`crates/kernel-core`; `src/` puts them behind locks, interrupts and assembly.
The tests of the repository exercise the pure parts one call at a time. This
project is about what those tests reach badly: steps of two CPUs, of a task and
an interrupt or of a driver and its device in any order, identifiers that are
reused, calls that take two locks one after the other, power cuts, operations
that fail half way, and things that must eventually happen.

`PROJECT.json` lists the parts of the system, the runs, the source lines of each
definition, one mutant of the code for every property, and the hazards the
properties are aimed at.

Contents: [the system](#the-system), [modules](#modules-and-the-code),
[runs](#what-the-runs-show), [bounds](#bounds),
[disagreements](#where-code-and-comments-disagree), [fairness](#fairness),
[proofs](#what-is-proved), [not modelled](#what-is-not-modelled).

## The system

| Part | Code | Model |
|---|---|---|
| Task table: slots, epochs, two run queues, steals | `tasks.rs`, `runqueue.rs` | `Tasks`, `TasksInv`, `SchedProof` |
| Context switch: decision, bookkeeping, stack swap, collection of exited stacks | `sched/mod.rs`, `arch/aarch64/switch.rs`, `mm/task_stack.rs` | `SwitchPath`, `SwitchProof`, `SchedProof` |
| Mailboxes, endpoints, capabilities of channels | `ipc.rs`, `ipc/mod.rs` | `Ipc`, `Channels`, `IpcChannels`, `AuthorityProof`, `ChannelsProof` |
| Waiting: blocking and timed receive, interrupts, wake, cancel, reap | `sched/mod.rs`, `ipc/mod.rs`, `irq/wait.rs`, `irqwait.rs`, `parktime.rs` | `WaitPath` |
| Authority: capability slots, transfer, task capabilities, names, grants, holder counts | `capslots.rs`, `cap.rs`, `taskcap.rs`, `naming.rs`, `sched/mod.rs` | `Authority`, `AuthorityProof`, `LedgerProof` |
| EL0 sessions: enter, exceptions, system calls, replies, force exit | `agent/mod.rs`, `el0.rs`, `vectors.s`, `syscall.rs`, `reply.rs` | `AgentSession`, `MachineProof` |
| Kernel memory: layout, page tables, heap, task stacks | `layout.rs`, `paging.rs`, `mmu.rs`, `heap.rs`, `mm/` | `Layout`, `Paging`, `KernelMap`, `Heap`, `TaskStacks` |
| Agents' memory: frames, ASIDs, address spaces | `frame.rs`, `asid.rs`, `aspace.rs` | `AddressSpaces`, `SpacesProof` |
| Boot, second core, interrupt controller and dispatch | `bootstrap/mod.rs`, `smp.rs`, `irq/mod.rs`, `irqtable.rs`, `gicv2.rs` | `Bringup`, `ServicesProof` |
| Time and the wake queue | `timer.rs`, `time.rs`, `wake.rs` | `Ticks`, `SpscRing`, `MachineProof` |
| Console: receive line, byte ring, transmit lock, panic | `rxline.rs`, `ring.rs`, `console.rs`, `pl011.rs`, `panic.rs` | `ConsoleLine` |
| Storage: durable region, media slots, SD card, boot witness, blob service | `durable*.rs`, `sdcard.rs`, `sdhci.rs`, `witness.rs`, `blob_server.rs` | `DurableMedia`, `ServicesProof` |
| Loader: vocabulary, store, manifest, plan, agent body | `held.rs`, `agentstore.rs`, `manifest.rs`, `loaderplan.rs`, `loader.rs`, `authority.rs` | `Loader`, `ServicesProof` |
| Hardware description | `fdt.rs`, `genet_fdt.rs`, `hwdesc.rs`, `discover.rs` | `DeviceTree` |
| Network: packet pool, lease, server | `net.rs`, `network_runtime.rs`, `network_server.rs` | `PacketPool`, `NetService` |
| Network: virtio | `virtio.rs`, `virtio_mmio.rs`, `bsp/qemu_virt/net.rs` | `VirtioTransport`, `VirtQueue`, `MachineProof` |
| Network: GENET | `genet.rs`, `drivers/genet.rs`, `bsp/rpi4/net.rs` | `GenetWords`, `GenetDriver`, `Genet`, `MachineProof` |
| Boards, display, lab, encoders | `bsp/`, `status.rs`, `lab/`, `prog.rs` | see [below](#what-is-not-modelled) |

How they interact: the session loop of an agent calls the mailbox, interrupt and
capability layers; those change the task table (block, wake) through the
scheduler; the scheduler picks a task and the switch path moves the CPU to its
stack and publishes its session. The loader builds an address space, takes a
stack and spawns the task that opens the session; the services (console, blobs,
network) are kernel tasks that talk to agents through channels and to devices
through drivers. The tables have a lock each. A lock is an interrupt-masked spin
mutex (`sync.rs`), so a call is a sequence of critical sections, and the models
make **one critical section one step**. Where the code works without a lock
(the wake queue, the byte ring, the console line, the boot hand-off, device
registers), **one load, store or register exchange is one step**.

Composition: `SwitchPath` and `WaitPath` extend the task table, `WaitPath` and
`Authority` the mailboxes; `TaskStacks` puts the heap, the kernel map and the
stacks of two cores together; `NetService` runs the server, the lease and the
packet pool over either transport and its device; `Loader` runs the loader
against the tasks it spawns. `MCTasks`, `MCSched`, `MCMachine` and `MCServices`
check several of these in one run: the initial state chooses a *scene*, the
modules of that scene move and the others stay as they start.

## Modules and the code

**Tasks.** `Tasks<N>` with its variables by name: `states`, `epochs`, `home`,
`stealeable`, `queues`, `current`, `idle`, `parked`. Actions are its methods:
`AdmitOn`, `Wake`, `SetStealeable`, `Collect`, `StartCpu1` and `SwitchOn(cpu,
kind)` for the four kinds of `Switch` (yield, block,
exit, preempt). A switch to a CPU without work first
walks the peer's queue for a stealeable task (`StolenAt`). Epochs wrap at
`EpochMod` (2^16 in the code). `overwrites` counts exits that find a task still
parked; the code only reports it, and `MaxOverwrites` bounds it.

**SwitchPath** extends `Tasks` with what `switch_with` does around a decision:
`Decide` (scheduler lock held), bookkeeping and `Relock` (published session,
address-space root, collection), `SaveContext` and `LoadContext` (the assembly).
The lock is dropped in between, so the other CPU may act. A context is the stack
its `sp` points into. Stacks go from the heap (`freeStacks`) to a slot, to the
collector's hand (`inHand`) and back, or are counted `abandoned`.

**Ipc** is `ipc.rs`: endpoints with generations, mailboxes with a ring buffer
(`head`, `tail`, `len`), one waiter and the count of SEND holders. Every method
is an action and the value it returns is in `ret`. Generations wrap past
`GenMax` and skip 0, as the code's do.

**Channels** is what a caller is promised: numbered channels that are FIFO
queues, open or closed, with a waiter; no slots, generations or rings.
**IpcChannels** adds history variables (which capability was minted for which
channel) and the mapping under which the table implements `Channels`.

**WaitPath** extends `Tasks` and `Ipc` with the park deadlines, the interrupt
wait table and the wake queue, and gives every task a program counter over the
critical sections of `recv`, `recv_timeout`, `wait_for_irq`, `send`,
`cancel_blocked`, `supervisor_reap_blocked`, `creator_revoke`, exit, `yield_now`
and the polls it makes. `Preempt` may happen between any two sections when
`Preemption` is set. The stack swap is one step with the decision here:
`SwitchPath` has its steps.

**Authority** extends `Ipc` with the capability slots of tasks, task
capabilities, names and the resolve grant. Spawn seeds slots in one section and
registers holds in the next; exit drains, releases and revokes in three;
transfer to a peer looks the task up in one and moves in another. `at` is what a
task has still to do. `given` is a ledger of what each tenancy of a slot was
given and is read by properties only. `mode`, chosen initially, says how many
calls may be under way at once and which operations the behaviour uses.

**AgentSession** has the sessions of a few agents and one kernel task on one CPU
(an agent never changes CPU): the published session, the translation root, the
saved registers and the steps of the session loop. An agent's registers are
abstracted to whose values they are. What the layers below answer is any answer
they can give. A failed check of the code sets `panicked`. `owed`, a ledger,
holds the registers the agent must find when it resumes.

**Layout, Paging, KernelMap, Heap, TaskStacks** are kernel memory. `Layout`
turns a board's boundaries into regions or refuses to boot; `Paging` has the
descriptors as records; `KernelMap` builds the identity map from the early map
to the live one, in a table arena that never frees. `cached` is every
translation a TLB may hold: both cores' walkers may fill it at any time from any
installed root, and only an invalidation empties it. `clone` is what a prepared
address space copied. `Heap` is the first-fit list with split, back word, merge
and refusal. `TaskStacks` acquires and releases stacks over both, with a lock
each: a block over a guard is broken, made a table and only then loses the page,
and the other core walks the tables between these steps.

**AddressSpaces** has three tasks that each create, prepare, load, enter and
destroy a space, interleaved at every pool lock. A space's construction is a
page to map next (`NextPage`) and the list of frames that page still asks for
(`Take`), so that each request can fail (`BuildFails`): no frame, full ledger,
refused page. `contents` says what each frame holds, `tlb` what
may be cached under which ASID, `lost` the frames a full ledger refused.

**Bringup** is core 0's boot phases and core 1's way from its parking loop to
its idle schedule, with the interrupt controller and the dispatch table they
share. Core 1 may be absent, or slower than each of the bounded waits for it. The
firmware may have left lines enabled and pending on either core, one of them a
line of its own that the kernel never registers: that one is claimed without a
handler, counted as unhandled and ended.
The idle loop looks for work and sleeps in two steps; a reschedule interrupt
stays pending in between.

**Ticks** has the per-core absolute deadlines, the level-triggered interrupt
served at any later time, the re-arm that skips missed periods, and the tick
count of core 0. **SpscRing** is the wake queue load by load.

**ConsoleLine**: each core's code is a list of named steps, one shared access
each; the interrupt handler, the echo loop, two callers that suspend and resume
the line, the transmit lock, and a panic at any point that takes over the console. A
byte is its arrival number, so order, loss and duplication show; `bytes.lost`
counts the byte that an echo had in hand when it gave up on the transmitter.

**DurableMedia**: the region in RAM, the two slots on the card as header and
payload sectors, the initialisation walk over both hosts, the witness's load,
count and flush, and the blob and calibration services. A reset may fall between
any two steps; a sector being written then holds the old bytes, the new ones or
neither. Two payloads have the same checksum only when they are the same.

**Loader**: the vocabulary of capabilities and windows, the store's parse, the
plan, the spawn under the `SIDE` lock, the task bodies on either core, and the
drain that ends a refused agent. A capability is the name of its endpoint.

**DeviceTree**: a writer emits any small tree, node by node, and both one-pass
readers take each token; `dtpath` and `dttrue` are what a reader with a stack
would know.

**PacketPool, NetService**: tokens with generations between agent, server and
transport; every runtime call holds the lease lock from end to end and is one
action, and one turn of the server loop is the sequence of its calls, with the
device, the link and, on the virtio board, the idle loop's own poll (`IdlePoll`)
in between; the agent's side is any message or none. **VirtQueue** and **Genet**
are the two transports with their devices: cursors and rings that wrap,
completions, resets, and the bounded waits that may give up. GENET has two kinds
of index: the driver's ring slots, which go back to 0 at the ring size, and the
controller's, which run on to `TX_INDEX_SPACE` and `RX_INDEX_SPACE` (2^16 in the
controller). Transmit refuses a frame for its length, a full ring, a link that
is down or an MDIO read that fails, before or after the ring took the descriptor
as the code has it. **VirtioTransport** is the handshake, one register exchange
per step, over all slots of the aperture. **GenetDriver** is the register-level
driver: a call is the list of register steps it has still to take, and engines,
PHY and link partner move between any two. Four of its calls,
`boot_after_program`, `start_network`, `recover` and `init_phy`, and the two
`configure` calls are public and have no caller in the repository; the model
lets a client make them in any order their documentation allows. **GenetWords**
has the arithmetic of apertures, descriptors, rings, filters and priorities.

## What the runs show

Six passing runs.

| Run | Scenes and instance | Shows |
|---|---|---|
| `tasks_table` | `table`: 4 slots (2 idle, 2 workers), 2 epochs, 2 CPUs; `sessions`: 2 agents, one with interrupts at EL0, one kernel task | Queues hold exactly the ready tasks, once, at home; running is current; idle tasks never leave their CPU; parked slots are not reused; a blocked task leaves by a wake only; an epoch moves only with its tenant's exit; every ready task runs. No check of the EL0 path fails; the root follows the exception level; an agent resumes with its own registers and the answer to its own call; a request to stop is obeyed |
| `sched` | `switch1`: one CPU, 4 slots, 3 stacks, exits; `switch2`: two CPUs, 5 slots, no exits and no steals; `wait1`: a receiver, an interrupt waiter and their creator, no preemption; `wait2`: two CPUs, preemption anywhere | Every task runs on its own stack with its own session published, a task off every CPU can be resumed, no two CPUs are on one stack, no stack is freed in use or lost, exits are collected. In `wait1` nobody is blocked without a waker, an interrupt reaches the task that waits for it, messages are taken and timed receives return. In `wait2` no receive starts with a cancel flag an earlier one left, whoever cancels on the strength of a state it read in an earlier section |
| `ipc_channels` | 2 mailboxes, 4 endpoints, depth 2, 2 channels, any capability | The table implements `Channels`; ends die in pairs; nobody waits beside mail or without senders; a waiter is never overwritten |
| `authority` | 3 tasks, 2 slots each, 1 name, 1 task capability; up to two calls interleaved | No capability or grant reaches a tenancy it was not given to; without interleaving, counts and task capabilities are exact; task capabilities are not delegated |
| `machine` | `memory`, `spaces`, `tree`, `genet`, `virtio`, `net`, `ticks`, `ring` | Safety below the scheduler, see the next table |
| `services` | `boot`, `console`, `media`, `loader`, `net` | Safety and liveness of what answers to somebody, see the next table |

| Scene | Instance | Properties |
|---|---|---|
| `memory` | five boards of 64 pages (two of them refused at boot), 2 stacks of three classes, one other allocation, two cores | `MapAgrees`: the live map gives each page what its region asks for and a live guard nothing, and no cached translation has other attributes. `HeapKept`: blocks tile the arena, the free list is exact, no free is refused, the table reserve covers every split |
| `spaces` | 3 builders, 10 frames, 3 ASIDs, a ledger of 6, five kinds of entry | `TlbHitsOwnPages`: a reused ASID is clean. `FramesKept`: an agent sees its image and zeroes; every frame is free, in one ledger, or refused by a full one |
| `tree` | trees of up to 6 nodes and depth 5 | `TreeRead`: memory and CPUs are the tree's; a GENET binding comes from one node |
| `genet` | up to 4 driver calls, any register state firmware may leave | `GenetSound`: enabled means every ring programmed, and reports hold, the last report of an enable that itself fails included. `ProgrammedQuiet`: no ring is programmed under a running engine |
| `virtio` | 3 slots, 2 restarts, any answer of the device | `OneSlotBound`: no slot but the claimed one holds the shared ring pages |
| `net` | 2 transmit and 2 receive slots, either NIC, one failure, one recovery, up to a lap of a GENET ring | `RxSlotOnePlace`, `TxPageStable`, `PagesFreedQuiet`: a buffer has one owner, a page the device has still to read is not overwritten, pages are freed with the device stopped |
| `ticks` | interval 3, 14 counts, two cores | `TicksMeasureTime`: the deadline is the tick count in periods |
| `ring` | 4 entries, 3 tokens | `QueueIsFifo` |
| `boot` | core 1 absent, late or prompt | `IrqFindsHandler`: no interrupt before the seal, and none without a handler but the firmware's own line; boot ends; a task queued for core 1 runs |
| `console` | ring of 3 entries (2 bytes), 3 bytes, 2 calls, a panic at any point | `LineKept`: never armed without a view, nor after a panic; bytes in order, once, and every byte is echoed, on its way, counted as dropped or gone with a handover, but for at most one byte of an echo that gave up on the transmitter. Bytes are taken; a panic is reported unless a core died in a console lock |
| `media` | 3 boots, 2 payload sectors, 2 blobs, both images | `CardSteps`: what a reset would find is the last complete flush or the new one, and the counter moves by one. `AckedKept`. No card keeps the machine from running |
| `loader` | four stores of one to three agents, 2 task slots, 2 cores | `AgentRunsItsEntry`: an agent runs the entry and window decided for it. A spawned task runs or drains and ends |

`BootAndPanicEnd` and `WorkIsServed` are the liveness properties of `services`,
one leads-to each over all scenes: the scene never changes, so each says that the
scene's own premise leads to the scene's own conclusion.

**Mutants.** For every property of a passing run `PROJECT.json` names a
definition and a mutated form of it that is a plausible slip in the code (a
steal that forgets a task, a view cleared before the mask, a flush into the slot
that holds the good state, an ASID freed without invalidation, a lookup outside
the lock); under it TLC finds the property violated.

## Bounds

Two worker slots and two CPUs are enough for each pair of actors to meet in
every order: steals need one thief and one victim, reuse needs one slot and two
tenancies (`EpochMod = 2`, `MaxSpawns = 3`). Depth 2 lets the ring wrap with a
message left in it. `GenMax` is at least the number of channels created, so that
no generation comes round: after 2^16 creations a capability kept since the
first names the new channel, which is inherent in the identifier's width.
`EpochMod = 1` in the switch scenes identifies the tenancies of a slot, which
only adds behaviours: the properties there are about stacks.

The boards keep the shape of the real ones at four entries per table: a page is
two grains, so that an unaligned address exists, and the heap spans several
blocks, so that guards split them. Ten frames and a ledger of six make both run
out, at every request of a construction. Three builders and three ASIDs (one is
the kernel's) make ASIDs come round. Three boots are the fewest in which both
card slots are written and one is overwritten. Ring indices of the NICs wrap
after 8 steps instead of 2^16, over rings of 4 descriptors and queues of 2. The
`net` scene has three events over GENET and two over virtio in `machine`
(safety) and one in `services` (liveness), which halves its graph for the
temporal check. In `machine` the server stops where a GENET ring has come round
(`PAST_LAP` is false): from there on the driver's slots and the controller's
indices no longer agree, which is the finding of `net_lap`. For the same reason
`RxSlotOnePlace` and `TxPageStable` speak of the device's own indices only while
the two are in step (`InStep`): before a lap on GENET, before a recycle on
virtio. What they say of the driver's books they say always.

Message contents, waiters and stacks are symmetric where a run says so. Views
leave out what no step and no property reads (`ret`, `call`), the parts that are
off the scene, and in `spaces` the names of free frames, which are alike.

Deadlock is checked except in `machine` and `services`, where the bounded scenes
(boots, calls, counts) come to an end.

## Where code and comments disagree

Six violation runs, each with a finding that quotes the comment:

- `switch_smp_exit`: there is one parked slot for two CPUs. The peer can collect
  the exiting task before its CPU has left the stack, and frees the stack that
  CPU still executes on.
- `wait_lost_wakeup`: `recv` claims the waiter slot in one section and blocks in
  another. A preemption in between lets a sender wake a task that is not blocked
  yet; it then blocks with its message queued.
- `wait_timeout_lost`: a deadline that expires while its task is Ready is taken
  out of the table and dropped; the task can block again without one.
- `holds_drift`: a child that exits between its admission and the registration
  of its holds leaves a hold counted that no slot has, so an ephemeral channel is
  never reaped.
- `net_recycle`: a restart of the virtio transport zeroes the driver's cursors
  but not the used index in the ring pages. After one received frame the first
  repost is refused as a full queue and the service never receives again.
- `net_lap`: the GENET transport writes its ring slot to the producer register
  and compares its slot with the consumer register, which is free-running. Once
  the receive ring has come round, the doorbell's value is behind the engine's,
  and the engine goes on over descriptors whose buffers were delivered
  long ago.

`wait_timeout_lost` needs two receivers on one channel; the first two and
`holds_drift` need preemption of kernel code or a second CPU. The scenes
`switch1` and `wait1` and the sequential mode of `authority` show that without
those the same code is right; over GENET, `RxSlotOnePlace` shows a recycle that
restores every buffer.

Seen while modelling and not kept as runs, for a reader who wants to try them:

- *Waits.* With two CPUs a late timeout can cancel the next receive without
  timeout, a late cancel ends whichever receive the task is blocked in by then,
  and a waiter slot can name a task that a cancel has already released
  (`TimeoutHitsTimed` and `WaiterIsWaiting` of `WaitPath` in the scene `wait2`).
  The mark of a cancelled wait for an interrupt stays for the next receive. A
  wake queue with fewer entries than there can be tokens loses the token of a
  blocked task. A request to stop that comes when the agent is about to wait is
  seen only when something else wakes it (`ForcedLeaves` with the label `serve`
  added to `Leaving`).
- *Task table.* A preempted idle task pulls a task from its peer before it
  decides to stay; idle tasks are queued by a yield although `tasks.rs:115` says
  never.
- *Memory.* The guard of a stack allocated after an address space was prepared is
  still mapped in that space's clone (`aspace.rs:573`), so `CachedAgrees` says
  nothing of live guards. Between break and make of a split the other core faults
  on any page of the block (`mmu.rs:620`). A frame taken when the ledger is full
  is neither tracked nor freed (`aspace.rs:466`); the model counts it `lost`.
- *Console.* A panic on a core that holds a console lock hangs in `steal`
  (`console.rs:149`). A byte popped for a wedged transmitter is lost uncounted;
  `LineKept` allows one such byte of a call.
- *Storage.* A calibration is acknowledged when it is in RAM; only the next
  boot's flush would carry it, and that boot starts from the card
  (`calibration.rs:11`).
- *Device tree.* With two `ethernet-phy` nodes, one without phandle, the address
  of one is paired with the handle of the other (`genet_fdt.rs:508`).
- *Network.* A refused start followed by an engine that does not stop frees pages
  under it: the result of the reset is discarded (`network_runtime.rs:172`). The
  transmit status word has its wrap bit set, which the comment at
  `drivers/genet.rs:1155` denies (theorem `TxWordWraps`).

## Fairness

- `tasks_table`, scene `table`: every started CPU yields again and again (weak
  fairness of `SwitchOn(cpu, "Yield")`). The idle loops call `yield_now` for
  ever and the timer's quantum forces a switch on a task that does not
  (ADR-0064, ADR-0068).
- `sched`: in `switch1` a CPU inside `switch_with` reaches its end. Interrupts
  are masked there and it waits only for the other CPU's short sections. In
  `wait1` the CPU keeps executing the task it is on and the timer keeps ticking.
  Nothing is assumed of senders or interrupts; two CPUs are checked for safety
  only.
- `tasks_table`, scene `sessions`: a runnable agent gets the CPU again and again
  and then takes its step (strong fairness, justified by `ReadyRuns`). That
  agents leave EL0 is not assumed; `ForcedLeaves` has it as a premise, because
  an agent with interrupts masked at EL0 may indeed keep the CPU.
- `services`, weak fairness throughout. `boot`: both cores execute, timers fire,
  a pending unmasked interrupt is taken. `console`: the device's receive timeout,
  the handler once the line is presented, and a core that executes its code.
  `media`: the boot goes on; nothing is assumed of the card, and a reset may come
  at any time. `loader`: the loader and its tasks get their CPU, and time
  passes; the console server need not run. `net`: the server task runs and a
  working device transmits what it was given.

## What is proved

With TLAPS, for every value of the constants. The assumptions are the named
`ASSUME`s of the modules the proofs extend, which TLC evaluates in the runs:

| Module | Assumes |
|---|---|
| `Tasks` | a table with at least the two idle slots, a positive epoch modulus |
| `Ipc` | positive sizes; the absent waiter is no task |
| `IpcChannels` | no more channels than generations, so that none repeats |
| `Authority` | positive sizes; holder counts as wide as all slots together, so that none saturates; fewer channels than generations |
| `AgentSession` | the kernel is no agent |
| `Ticks` | a positive interval and a count below its limit |
| `SpscRing`, `VirtioTransport` | at least two entries, at least one slot |
| `GenetWords` | a bound on addresses |
| `DurableMedia` | at least one payload sector; every key has a sector; values within the lengths their services accept |
| `Loader` | the absent task is no slot; windows and limits are numbers; stores are sequences of well-formed entries |
| `AddressSpaces` | every frame of the pool is page-aligned and fits a descriptor; a finite kernel map; manifests with page counts that are numbers |

The code meets the counts with its constants (57 tasks of a few slots each
against `u32` holder counts); generations are 16 bits wide, see
[bounds](#bounds). `StacksAreKept` has two hypotheses of its own, in its
statement.

**SchedProof.** `QueuesHold`, `CpusHold` and `TenancyHolds` are the three safety
properties of the scene `table`. They are not inductive one by one. That a queued
task is ready is kept by a wake only if the woken task was not queued, which
needs that queued tasks are ready and that the queue has no duplicates; that a
switch leaves the running task current needs that what it dequeues was not
current on the other CPU, which is that running tasks are not queued. The
inductive invariant `IInv` is therefore the conjunction of the type invariant,
the queue facts, `RunningIsCurrent`, `IdleCurrentOrQueued` and
`ParkedSlotUnused`. The argument:

1. `InitInv`: the initial table has it.
2. One lemma per operation: `StartInv`, `AdmitInv`, `WakeInv`, `MarkInv`,
   `CollectInv`. Admission and wakes rest on `AppendKeeps`, the effect of an
   enqueue on a queue without duplicates.
3. A switch is taken apart as the code does it: the pull of a stolen task, the
   state the leaving task is left in (`LeaveKeeps`), and the rotation of the
   queue (`RotateKeeps`, `RotateFacts`), with a pull covered by `PullKeeps`; put
   together in `RotateInv` and `SwitchInv`. `StayInv` is the refusal.
4. `StepInv` and `TasksInvariant`: `TasksSpec => []IInv`; the other theorems are
   its consequences. `BlockedSafety` and `EpochSafety`, and with them
   `TenancyHolds`, are action properties and use what a switch may touch
   (`SwitchTouches`) on top.

**SwitchProof, SchedProof.** `StacksAreKept` is `StacksKept` of `sched`, under
two hypotheses: the heap hands out no boot stack (`StacksApart`), and there is
one CPU, or two whose tasks neither exit nor mark themselves stealeable
(`CpusApart`). The second is the boundary the code really has. With two CPUs and
exits the property is false (`switch_smp_exit`). With two CPUs and stealeable
tasks, which only oracle builds have, an idle CPU can take a task from the queue
while the CPU it is leaving has not saved it, and both are then on one stack
(`OneCpuPerStack`). `PathInv` adds to the table's `IInv`: each stack has one
owner (`OneOwner`); a CPU in the middle of a switch is leaving a task that
nobody else deals with, and goes to one that is saved (`Decided`, `Saved`); its
stack pointer is on the stack of the task it is leaving, then on that of the one
it goes to (`OnStack`). That the table's steps keep `IInv` is `StepInv` of
`SchedProof`, for every path step is a step of the table or leaves it alone
(`PathIsTable`). `DecideKeeps` has the heart of it: a task that its CPU is still
leaving has that CPU as its home, and the one that decides takes from its own
queue only. The lemmas on the path's own steps are in `SwitchProof`;
`PathInvariant` and `StacksAreKept`, which need both halves, in `SchedProof`.

**AuthorityProof, the mailboxes.** `MailboxesHold` and `WaitersHandedOver`.
`IpcInv` has the tables' types, the pairing of ends and, for each mailbox by
itself, `BoxOK`: the head is where the ring ends, and a waiter is there only
while the channel is open, empty and has somebody to send. The lemmas of the
first part say what a push, a pop, a release and a revoke make of one mailbox;
those of the second that the rest of the table is left alone.

**ChannelsProof.** `TableImplementsChannels`: the refinement of `Channels`, step
by step. `HistInv` reads the history the refinement mapping uses: channel number
c was minted with generation c, and a live end or mailbox belongs to the channel
of its generation. With it a capability that passes `check_cap` names its own
channel (the `...Maps` lemmas have one call each), and the
ring between tail and head is the abstract queue, moved by a push as `Append`
and by a pop as `Tail`.

**AuthorityProof, LedgerProof.** `AuthorityIsPersonal` and `TaskCapsNotDelegated`
hold for any number of tasks inside a call at once; their invariant `AuthInv` adds
types and that only an exit is carried on after its task is gone (`ActorsLive`).
`LedgersAreExact` is about calls that do not interleave (`mode.inside = 1`; where
they do, `holds_drift` shows the counts wrong). It needs more: no capability in
use is one that a later channel will mint (`CapsKnown`), for otherwise a new
endpoint would find holders it was never given, and one task at most is inside
a call (`OneInside`). The count of a mailbox is compared with a set of slots, so
each call's lemma says by how many elements the set and by how much the count
moves, with what is registered or released on the way counted in.

**SpacesProof.** `TlbHitsHold` and `FramesHold`, for any number of tasks, frames
and tags. Neither is inductive: what a space reads at EL0 depends on who had its
frames and its tag before. `SpacesInv` says where things are between the steps.
A frame is in the pool once, in one ledger, or lost (`OnePlace`); a tag is free
or names one space, until after its invalidation (`TagsApart`); every cached
translation is a page of a space that was entered and not retired (`TlbOwned`),
so a hit under a tag is a hit of the one space that has it; and the pages taken
so far are as many as the mapping loop has passed, each zeroed and then written
by its owner alone (`WindowSoFar`, `WindowHolds`). There is one lemma per operation
of `aspace.rs`, most of them through `LiveStepKept`: a step on one space that
keeps its tag leaves the others alone. `TagReturned` covers the two ways a tag goes
back. `DecodeReadsLeaf` says that `decode_leaf` reads what `leaf` wrote, for
every address and all rights; `AsidAfterFree` that the scan for a tag ends on a
free one, by the least element of a set of distances (`LeastExists`).

**ServicesProof.** Three parts, one per component.

- `IrqAlwaysFindsHandler` from `BootInv`: lines are bound before the table is
  sealed, core 0 unmasks after the seal and only when they are bound, and core 1
  gets past its gate only when core 0 has let it, which is after the seal. An
  enabled line that is not in the table is therefore the firmware's own.
- `AckedStaysReadable` is about one boot: what the store has acknowledged stays
  in the RAM region with its value, whatever later puts are accepted or refused
  (`LedgerKept`). What survives a reset is `CardStepsHold`, from `CardKept`:
  either no flush has completed or one slot leads, its checksum holds and the
  other's header is older. The flush writes the slot that does not lead
  (`FlushKept`), so a sector torn anywhere leaves the leader alone, and the
  header that moves the lead is the last sector written. `CommitKept` carries
  the counter from the load to the flush.
- `AgentsRunTheirEntries` from `LoaderInv`: a plan is made from the vocabularies
  as they were assembled (`PlansKept`), a task has its plan's capabilities from
  the spawn on, and its row of the side tables as soon as `SIDE` is released
  (`TaskKept`, `HolderKept`), which is before it can look.

**MachineProof.** Five parts next to the hardware.

- `TicksExact` is `TicksMeasureTime` for every interval and every delay; its
  invariant `TicksInv` adds that the count stays below its limit and that the
  series starts armed at tick zero, and the arithmetic of the re-arm (a multiple
  of the interval, beyond now) is a lemma. `RearmAlwaysAhead` is the action
  property that an interrupt is never re-armed in the past.
- `RingIsFifo` from `RingHoldsQueue`: the slots from tail to head hold the
  published tokens in order, a producer past its check still has room, a consumer
  past its check still has a token. Both checks are of the other side's index and
  may be stale when used; the invariant says why that is harmless.
- `OneSlot` from `VtInv`: the step the driver is at determines what the slot at
  hand holds, and every other slot is in reset.
- Facts about the arithmetic of `genet.rs` for all inputs: a slot the apertures
  translate is accepted as a descriptor and slots stay disjoint on the bus,
  status words decode to what was encoded, the five transmit rings are disjoint
  and accepted, filters and priorities do not share fields.
- `SessionsSound` and `RegistersKept` from `SessionInv`: what the session record,
  the roots and the half-written reply hold is determined by the place of the
  session loop, one conjunct per place (`RootInv`, `ReplyInv`), and the CPU is at
  EL0 for exactly the agent that is inside `el0_run` (`CpuInv`). `ReplyIsAnswer` is
  the lemma that the two writes of `apply_reply` make the answer of the ABI table.

Only model-checked: liveness (TLAPS does not do fairness), and the properties of
the remaining modules. `VirtQueue`, `Genet` and `NetService` walk rings with
recursive operators, which the provers cannot use. What the first-fit list, the
table walk and the tree reader compute (`Heap`, `KernelMap`, `DeviceTree`) needs
induction over their data. Waits (`WaitPath`) are checked on two instances; two
of their properties fail on others (`wait_lost_wakeup`, `wait_timeout_lost`), so
a theorem would have to name the instance. `ConsoleLine` and `GenetDriver` have
no proofs yet.

## What is not modelled

- The lock outside the console, and the hardware's memory model: sections are
  atomic, and loads and stores of one queue take effect in program order.
- Counters and reports that nothing reads back; wording and formatting; quantum
  and budget arithmetic (a preemption may come at any point instead).
- Fault decoding: any fault ends the session. Lifecycle verdicts and interrupt
  capabilities are tables of one match each, used through their results.
- The instruction and program encoders (`a64.rs`, `prog.rs`), the partition
  table parser, header and cell decoding of the device tree, command words of
  the SD host: conversions whose outcomes the models choose.
- The storage table (`storage.rs`), the layout calculator of split queues and the
  early bump allocator have no caller on the product path or no state.
- Display, touch, status screen, random numbers, reset and telemetry: register
  sequences of one task. The demonstrations are callers; their orders are among
  those the models explore.
- Boards' constants and the x86_64 lab.

`PROJECT.json` has the reason for each part.
