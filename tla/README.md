# A TLA+ model of Cloud Hypervisor

Cloud Hypervisor is a virtual machine monitor in Rust. One VMM thread serves API
requests and guest events, each vCPU has a thread of its own, and each activated
virtio device has one or more worker threads. Most of what is hard to test in it
is in the protocols between these threads, in the state machines the guest drives
through registers, and in state that must agree in several places (a register, a
table of the VMM, the host kernel, a snapshot). The modules here model them from
the source, model-check them with TLC and prove the central invariants with TLAPS.

`PROJECT.json` lists every component of the repository, the source lines each
definition stands for, the runs, the hazards and the theorems.

## The parts and their modules

| Part | Module | State | Operations |
|---|---|---|---|
| VMM thread | `Vmm` | configuration, VM state, events, request channel | API requests; exit, reset, activation events |
| vCPU threads | `VcpuThreads` | pause and kill flags, park tokens, mutexes | start, pause, resume, eject, shutdown, KVM_RUN |
| CPU hotplug | `CpuHotplug` | vCPU objects, GED, the guest's scan | resize, scan, acknowledge, eject, restore |
| virtio workers | `VirtioThreads` | paused flag, events, barrier, park tokens | activate, pause, resume, reset, epoll loop |
| virtio PCI transport | `VirtioPci` | driver status, queues, activators, barriers | register writes, activation, reset, restore |
| MSI-X | `Msix` | table, pending bits, masks, routes, irqfds | control and table writes, trigger, restore |
| interrupt manager, IOAPIC | `InterruptController` | groups, routes, redirection table | register accesses, injection, end of interrupt |
| GIC | `InterruptController` | registers of each frame, ITS tables, KVM's copy | accesses, save, restore |
| live migration | `Migration`, `Handover` | both processes, socket, dirty pages | send, receive, dirty passes, failures |
| rate limiter | `RateLimiter` | buckets, timer, blocked flag | consume, refund, timer event |
| virtio-net, virtio-block | `NetQueue`, `BlockQueue` | rings, listeners, requests in flight, caches | queue, tap, completion and limiter events |
| qcow, vhdx | `DiskImage` | tables, reference counts, caches, file, disk | read, write, discard, flush, crash, open |
| serial, console | `Terminal` | buffers, registers, pty and its reader | output, input, hang-up, resize |
| vsock | `Vsock` | connections, credit, rx and kill queues | packets both ways, epoll events, timers |
| virtio-iommu | `Iommu` | endpoints, domains, external mappings | attach, detach, map, unmap, translate, restore |
| virtio-mem, balloon | `VirtioMem`, `Balloon` | blocks, sizes, pages | resize, plug, unplug; inflate, deflate, report |
| device hotplug | `DeviceManager` | slots, tree, PCIU and PCID bits, DMA | add, remove, scan, eject, reboot, restore |
| construction of a machine | `Machine` | resources, names, tree, terminals | build, reboot, hotplug, pause, snapshot, restore |
| memory manager | `MemoryManager` | zones, regions, slots, hotplug registers | resize, plug, reboot, snapshot, restore |
| PCI BARs, allocators, bus | `PciBars` | BAR registers, allocator, bus ranges | allocate, probe, move, remove |
| VFIO, vfio-user | `Vfio` | capability shadows, irqs, BARs, slots | configuration and table writes, reset |
| vhost-user | `VhostUser` | back-end, rings, in-flight, dirty log | activate, reconnect, pause, migrate, DAX |
| watchdog, pmem, rng | `VirtioSmall` | timers; mapping, host cache | pings, expiry; writes, flushes |
| KVM vCPUs and memory | `Kvm` | vCPU parts, slots, dirty bitmaps | exits, state, set_state; log, ranges |
| x86 emulator, MSHV exits | `Emulator` | registers, flags, segments, memory | each instruction, translation, port I/O |
| small devices of the board | `Legacy` | PL011, PL031, PL061, CMOS, i8042, ACPI | register accesses, input, clocks, restore |
| command line | `OptionParser` | text, options, values | split, parse, convert |
| configuration | `VmConfig` | VmConfig, running VM | validate, add, remove, resize, reboot |
| life of a VM | `VmLifecycle` | state, files, devices, clock | boot, pause, snapshot, restore, shutdown |
| API server and client | `Api` | connections, requests, socket, signals | serve, command, start, exit |
| gdb stub, core dump | `Debug` | breakpoints, stops; file layout | debugger commands; dump |

How they interact: the VMM thread calls `CpuManager` (`VcpuThreads`) and each
device (`VirtioThreads`) to pause, resume and stop; a vCPU thread that writes
`DRIVER_OK` (`VirtioPci`) waits at a barrier for the VMM thread; a device thread
raises its interrupt through `Msix`; the block and net workers ask the rate
limiter and a block worker the image format; `Migration` pauses and resumes the VM
of `Vmm` and sends what `Kvm` says is dirty. Compositions inside one module:
vCPUs with the VMM thread (`VirtioPci`, `VcpuThreads`), resize with the guest that
answers it (`CpuHotplug`, `VirtioMem`, `MemoryManager`, `DeviceManager`), BARs with
allocator and bus (`PciBars`), configuration with the machine built from it
(`VmConfig`, `Machine`), API server with client and VMM thread (`Api`), and the two
ends of a migration. Elsewhere the neighbour is an abstract step: `Vmm` has one vCPU
for all, `NetQueue` and `BlockQueue` a limiter that may refuse at any time.

## How a module is laid out

A component module declares its `CONSTANTS` (bounds named as such), its variables,
the operators of the code under their names in the source, one action per
operation, handler or step of a thread, `Next`, and the properties. Most use three
variables: `dev` is the state of the VMM's object, `guest` what the guest does and
remembers, `host` the rest of the world (the kernel, files, the operator). A step
ends where the code releases a lock, blocks or lets another thread see its effect.
`Terminal`, `DiskImage`, `InterruptController`, `VirtioSmall`, `Kvm` and `Debug` hold
two independent parts each, every part with its own initial states and steps
(`QcowNew`, `QcowNext`, ...).

Definitions whose names say what they get wrong (`BarrierSizeTooSmall`,
`ResetWithoutKill`, ...) and that carry the comment "Mutant" are faulty variants of
the definition after them. No specification uses them; each one violates a
property when put in its place.

`MCControl`, `MCGuestIo`, `MCDevices`, `MCPlatform` and `MCManagement` check several
components in one run: the initial state chooses one in the variable `part`, and a
behaviour is that of this component alone. Their properties are those of the
component modules, each guarded by its part. Constants that no second run varies
are given there, next to a comment on the values.

## Runs

| Run | Components | What it shows |
|---|---|---|
| `virtio_threads` | `VirtioThreads` | a paused device is quiet, no wake-up is lost, reset and pause return |
| `vcpu_threads` | `VcpuThreads` | a pause stops every vCPU, no unpark is lost, pause and shutdown return |
| `vcpu_pause_after_resume` | `VcpuThreads` | violated: a paused VM executes nothing |
| `control` | `Vmm` with and without failures, `VirtioPci`, `CpuHotplug`, `VirtioMem` | the loop waits for no request that is not there, reported and real state agree, every request, stop, exit, activation and resize comes to its end, one thread per vCPU |
| `vmm_lost_request` | `Vmm` | violated: every command is answered |
| `virtio_pci_busy` | `VirtioPci` | violated: the VMM thread does not panic |
| `msix` | `Msix` | interrupts are neither lost nor sent while masked, and are sent in the end |
| `migration` | `Migration` against `Handover` | memory is complete, the source is kept on failure, the guest runs in one place, both sides end |
| `guest_io` | `NetQueue`, `BlockQueue`, `RateLimiter`, `Iommu`, `Balloon` | frames and requests are neither lost nor stuck; a limiter keeps to its rate; accesses go where the driver mapped them; a page in use is kept |
| `devices` | `Vsock` (twice), `DeviceManager`, `PciBars`, `Vfio`, `VhostUser`, `Terminal` | what the guest programmed, what the VMM holds and what the host does agree at every quiet point |
| `platform` | `Kvm`, `Emulator`, `InterruptController`, `Legacy`, `VirtioSmall`, `DiskImage` | the hardware behaves as hardware, over pauses, snapshots and migrations; images keep their data over crashes |
| `management` | `OptionParser`, `VmConfig`, `VmLifecycle`, `Api`, `Debug`, `Machine`, `MemoryManager`, `VirtioMem` | a VM is what its configuration says, over requests, reboots, snapshots and debuggers |

Bounds. Two threads are the least that interleave with each other as well as with
their controller, and barrier, park and signal treat all threads alike. Three
vCPUs give a resize that leaves a gap. Two pages tell a page that was sent from one
dirtied later, and two passes (five in the code) a repeated pass from a last one.
Buffers, queues and caches have the capacity (one to three) at which they fill,
overflow and wrap within the operations allowed; counters that wrap have two to
four bits. Image files have two tables and caches of one entry, so that each
operation evicts. The GIC has 65 interrupts, one more than two registers hold.
`Emulator` keeps registers of eight bytes and takes two contents that give carries,
borrows and sign bits. Each `MaxOps` is at least the length of the shortest
behaviour that breaks a property once a definition is replaced by its faulty
variant; where a larger one was affordable it is used. The faulty virtual machine
of `control` has three requests and two clients, the progress part all eleven and
one client, since liveness over the larger graph takes hours. The theorems remove
the bounds for the ten components they are about.

## Fairness

Weak fairness of the steps of a thread that is running: the host scheduler runs
every runnable thread. This covers the VMM thread (`VmmThread` in `MCControl`), the
workers, the vCPU threads outside the guest, the kernel's injection, a client that
has sent a request and has yet to write `api_evt`, and both ends of a migration.
No fairness is assumed of what the guest chooses to do, of API clients starting
requests, or of failures; the guest's scan in `CpuHotplug` is fair, since
`ResizeReturns` is about a guest that runs its ACPI handler. `PushActivator` has
strong fairness: it needs a mutex that the VMM thread takes and releases again and
again, and the lock is assumed not to starve a waiter. Deadlock is not checked
where the system may stop: a VMM that has exited, a device nobody resets, a bound
that is reached.

## What the runs assume, and what happens without it

A passing run says only what it says under these restrictions. For each of the
following, TLC was also run with the restriction lifted and finds a behaviour that
violates the property, so the restriction is a condition the code relies on, not
one it ensures.

| Module: restriction | Without it |
|---|---|
| `VirtioThreads`: no worker has ended on a failed handler | a pause waits at the barrier for a thread that is gone |
| `VcpuThreads`: `clean`, no flag left from the previous pause | run `vcpu_pause_after_resume` |
| `VcpuThreads`: no vCPU at the hotplug registers, no flag of an earlier thread | pause or shutdown waits for ever, or takes an old flag for an answer |
| `CpuHotplug`: `EjectsFromTop` | two threads for one vCPU |
| `Vmm`: `Faults = FALSE` | a failed resume leaves `Paused` with a running vCPU, a failed shutdown an orphan vCPU; two failed boots leave two signal threads of which one is closed and both are joined |
| `Vmm`: `GuestActivates = FALSE` (for the answers only) | the vCPU waits at its activation barrier for the VMM thread, which waits for the vCPU |
| `Vmm`: one client | run `vmm_lost_request` |
| `VirtioPci`: `OthersKeepOff`, `QueuesInOrder` | run `virtio_pci_busy`; a queue is served by the event of another |
| `Migration`: `LateFailure = FALSE` | the destination has resumed when its answer fails, and the source resumes too |
| `RateLimiter`: no timer of zero length | a blocked limiter without a timer (`BlockedHasTimer`) |
| `NetQueue`: `Restores = 0` | frames the driver published before the snapshot wait for the next kick |
| `DiskImage`, qcow: `TablesTogether`; no discard before a crash; room in the count table; `Lazy = FALSE` | a cluster in use that counts as free; ENOSPC half-way through a write |
| `DiskImage`, vhdx: `InBlocks`, one buffer per request, `Durable`, the small shapes | sectors that do not read back, an image that does not open |
| `Terminal`, serial: `LateEnable = FALSE` | input is not announced to a driver that enables interrupts after it came |
| `Terminal`, console: `MaxRestores = 0` | queues published before the snapshot are not served |
| `Vsock`: few connections | the kill queue is said to be complete and is not (`KillQueueIsComplete`) |
| `Iommu`: `MapFails = FALSE` | a mapping that failed outside is kept and reported as done |
| `Iommu`: `Restores = 0` | a restored device whose external mappings are empty |
| `Iommu`: no mapping larger than `PageSizeMask + 1` | an address far into a mapping does not translate |
| `DeviceManager`: `Retries = FALSE`, no restore | a second removal ejects the device that took the slot |
| `DeviceManager`: `Faults`, `ByPciId = FALSE` | a failed add leaves a device without DMA; a removed device comes back at reboot |
| `PciBars`: `Polite` | a BAR whose new place is taken stays where it was, while its registers show the new one |
| `Vfio`: `MaxMme = 0`, `HandlerTraps`, nothing refused | vectors beyond the first, a level interrupt not armed again, a mode shown as enabled that is not |
| `VhostUser`: `Inflight`, `Calm`, `LateMove = FALSE`, whole words in the log | a lost request, a pause that fails, a stale cache window, pages beyond the last word |
| `VirtioMem`: counts below 2^width; the device neither reset nor paused | `UnplugAllUnplugs`, `ResizeAlwaysReturns` |
| `Kvm`: `MaxFragments = 1` | an access of two exits is done again after a snapshot |
| `Emulator`: segment type 3; no 64-bit move of an immediate | the checks of code, expand-down and read-only segments differ; the immediate is not sign-extended |
| `InterruptController`, IOAPIC: `EarlyInject = FALSE`, `Quiet` | an event between irqfd and route is lost; a pending event is not in the snapshot |
| `InterruptController`, GIC: `Late = FALSE`, `Optimised = FALSE` | an event after the flush is lost; a register read through a shared reference may be its initial value |
| `Legacy`: one press, not while the driver sets up; FIFO mode kept; only `uart` and `gpio` restored; `Delay = 1` | a second press of the power button is not seen; input waits; clocks are not restored; a torn time |
| `VirtioSmall`: `Steady`, `Rebinds = FALSE` | a pause waits for a timer that was disarmed; a reset of a guest that rebinds its driver |
| `VirtioSmall`: `Idle` | a request at hand when the VM is saved is forgotten |
| `OptionParser`: `PairedRates`; no `memory` section | a limiter given by half of its options is dropped in silence; the `file` option of the memory section is accepted and not used |
| `VmConfig`: `Careful` | a resized VM whose next reboot is refused |
| `VmLifecycle`: `Retries = FALSE`, `EarlyReads = FALSE`, no short file | a VM that failed to boot boots again; the clock goes back; memory is cut short |
| `Api`: `Idle`, the VM boots | a client reads zero bytes for ever; the socket is not removed |
| `Debug`: `Stepped = {0}`, `Prompt`, `Detaches`, no resume from the API | breakpoints only stop vCPU 0; a stop is taken for an answer |
| `Debug`: no shrinking, zones in address order | notes of vCPUs that are gone; regions at each other's place |
| `Machine`: `Detaches = FALSE`, `Faults = {}` | a new device in the slot of a removed one is attached to the IOMMU; a pause that fails leaves devices paused |

`InterruptNotLost` leaves out vectors whose eventfd another process holds.
`BothSidesEnd` counts a source that panicked as ended. No property speaks of a boot
after a failed restore, which starts the vCPUs without a kernel.

## Proofs

Seven modules hold theorems about ten components, for any values of the constants
that satisfy the `ASSUME`s of the component or the hypotheses of the theorem. Four
extend a component. The other three extend the module of a run that puts components
together, so that a theorem speaks of the very property the run checks: a lemma
`Parts` says that a step of the whole is a step of the chosen part, or leaves its
variables alone, and the rest is about the instance (`E!`, `C!`, `N!`, ...). Each
theorem comes from an inductive invariant, with one step per action, that implies
the property; TLC checked every inductive invariant first.

| Module | Theorem | States | Assumes |
|---|---|---|---|
| `VirtioThreadsProofs` | `TypeCorrect`, `PausedQuiet`, `NoWakeupLost` | `PausedIsQuiet`, `NoLostWakeup` | |
| `VcpuThreadsProofs` | `TypeCorrect`, `CleanPause`, `NoUnparkLost` | `CleanPauseStops`, `NoLostUnpark` | |
| `MsixProofs` | `NotLost`, `RoutedWhenOpen`, `SilentWhenMasked` | `InterruptNotLost`, `OpenIsRouted`, `MaskedIsSilent` | |
| `MigrationProofs` | `TypeCorrect`, `Outcome` | `OutcomeIsSound` | |
| | `HandsOver` | `ImplementsHandover` | `LateFailure = FALSE` |
| `ControlProofs` | `LoopSound` | `LoopIsSound`, with and without failures | finitely many clients |
| | `Announced` | `ChangeIsAnnounced` | any number of vCPUs |
| | `FollowResize` | `CpusFollowResize` | `EjectsFromTop = TRUE` |
| `GuestIoProofs` | `BuffersServed` | `RxNotForgotten`, `UsedIsSignalled` | any number of chains and restores |
| | `FramesServed` | `FramesAreServed` | `Restores = 0` |
| | `NothingLost` | `RequestNotLost` | any number of requests |
| | `RequestsKept` | `RequestsAreKept` | `FsyncFails = FALSE` |
| `GuestMemoryProofs` | `TranslationTrue` | `TranslationIsTrue` | `MapFails = FALSE`, no restore, `MaxSize <= PageSizeMask + 1`, addresses from 0 on |
| | `PageKept` | `UsedPageIsKept` (an action property) | |

The hypotheses about single constants are the restrictions of the table above:
without them TLC finds the property violated.

* `VirtioThreadsProofs`: `PausedIsQuiet` alone is not inductive, as nothing in it
  says why the barrier opened. `BarrierCoherent` ties the barrier's count to the
  threads waiting in it, and `OperationCoherent` ties the flag and events to the
  place the operation has reached. `NoLostWakeup` is inductive relative to them: the
  flag goes down before the tokens are handed out.
* `VcpuThreadsProofs`: `FlagUp` says when the pause flag must be set, `PauseInv` that
  each vCPU already signalled has acknowledged and cannot get back into the guest,
  `Coherent` which thread owns what. `NoUnparkLost` adds `UnparkInv`.
* `MsixProofs`: the properties hold when the lock is free; `LockInv`, `RouteInv`,
  `PendingInv` and `OwedInv` say what holds half-way through a write.
* `MigrationProofs`: `Dialogue` says that a command or its response is on the socket,
  never both, and what may be left when one side has failed; `Places` where the two
  VMs stand at each point; `Copying` that what the destination lacks is in the table
  being sent or in the dirty log, which is empty after the last pass. `HandsOver`
  adds `MovedForGood`, that a guest which has run at the destination is not started
  at the source, and maps every action to `Abstract!Next` or a stutter.
* `ControlProofs`, the VMM thread: `ApiInv` counts. The channel holds a request for
  every client between `send` and `write`, and one more while `api_evt` is readable;
  `ApiStep` is the little of a step that this depends on, so that one proof serves the
  instance with failures and the one without. `Life` ties the state of the VM to its
  vCPU and the stage of the operation that stops it.
* `ControlProofs`, CPU hotplug: `ChangeIsAnnounced` is inductive once a flag is held
  only during a scan. `OneThreadPerVcpu` needs `FirstOnes`, that the active vCPUs are
  the first n, since `activate_vcpus` counts them and starts the ids from that number.
* `GuestIoProofs`, virtio-net: `Indices` relates the five indices of a ring, in
  particular the index at which the device asks for a kick, which lags by one between
  taking a chain and saying so; `Signalled` the index last signalled to the one the
  driver asked for; `RxOnItsWay` and `TxOnItsWay` who will start the worker again.
* `GuestIoProofs`, virtio-blk: `Taken` bounds what the device holds by what it has taken
  from the ring, `Somewhere` says where each taken request is, `Executed` what the host
  had made durable when it completed a request, which order of execution and changes of
  the cache mode leave alone.
* `GuestMemoryProofs`, the IOMMU: `Follows` says that a domain maps what the driver relies
  on and, during an unmap, the mapping that is going, and that its mappings do not
  overlap; `Asked` what the driver knew when it sent the request at hand; `Reach` that
  external mappings follow at every step and not only between requests. That a
  translation is true is then a matter of the tables alone: one mapping covers an
  address (`WhereMapped`), and the first mapping that covers the physical page leads
  back to it (`WayBack`, which takes a least element from the well-foundedness of <).
* `GuestMemoryProofs`, the balloon: `BalloonInv` says that a published page is lent and
  in one chain only, and that the worker is at pages of the chain it took. Failure of
  a release leaves the chain unreturned, so nothing has to be assumed about it.

Only model-checked, because the prover cannot: every liveness property (fairness and
`ENABLED`), and what recursive definitions compute, which takes induction over data
(the images, the parsers, the emulator, the allocators, the order in which
`VirtioPci` pairs queues with events). Only model-checked so far: the invariants of
the modules not named above. `WithinRate` rests on integer division by a size that
is a constant, which the solvers do not decide.

## Where code and documentation differ

Runs that show it:

* `vcpu_pause_after_resume`: `docs/snapshot_restore.md` says a paused VM can be
  safely snapshot. A pause soon after a resume can return with a vCPU running.
* `vmm_lost_request`: `api/mod.rs` says each command receives a response. Two
  notifications may coalesce, and then one request is received.
* `virtio_pci_busy`: a comment says the device is activated when the driver status
  has changed. Any BAR write while an activation is pending makes another one.

Met while modelling, and in the models as the code has them:

* `vsock/csm/connection.rs`: the second of two half shutdowns does not arm the kill
  timer; `muxer_killq.rs` says a synced kill queue is complete.
* `mem.rs`: the range check refuses the last block; a DMA map that fails leaves the
  blocks marked as plugged. `balloon.rs`: a resize before activation blocks.
* `device_manager.rs`: ejection frees the slot before it looks for the device; a
  failed add leaves the device in the tree; the bits the guest has yet to read are
  not in the snapshot. The range of a removed pmem device is not freed.
* `config.rs`, `option_parser`: sizes overflow in silence, a number of a tuple is cut
  to eight bits, the first of several console modes is used, `pci_segment` of 1
  without a platform passes `validate`.
* `docs/io_throttling.md` requires both options of a token bucket; giving one is
  accepted and gives no limiter.
* `gpio_pl061.rs`: the comment of `trigger_key` speaks of a pulse; the bit is only set.
* `vhost_user`: after a failed migration the socket stays closed and the VM is not
  resumed; `migration_started` stays set; a restored device enables rings of a device
  that was reset.
* `emulator/mod.rs`: instructions are decoded in 64-bit mode whatever the CPU mode; a
  failed `rep movs` loses its progress; `OR` leaves the flags; an operand that crosses
  a page is translated by its first byte. On MSHV string port I/O panics.
* `gdb.rs`: `debug_pause` does not interrupt other vCPUs, stepping clears breakpoints.
* `ioapic.rs`: the remote IRR of an entry that is switched from level to edge and back
  stays set. CMOS takes an index it does not mask.

## Not modelled

Bytes, texts and encodings (HTTP bodies, snapshot data, ACPI and FDT tables, packet
headers) are abstracted to what the properties tell apart. Parts left out, with
reasons, are the components with status `not_modelled` in `PROJECT.json`: boot
tables and TDX (laid out once, no protocol), seccomp filters and bindings
(constants), taps and MAC addresses (calls of the host), the vfio-user encoding,
the vhost-user back-ends and vDPA (one sequence of calls each), the event monitor,
tests and benchmarks. Of parts marked `partly`, the note says what is missing.
