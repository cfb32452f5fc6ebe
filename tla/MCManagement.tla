----------------------------- MODULE MCManagement -----------------------------
(***************************************************************************)
(* How a VM is described, built, commanded, resized and looked into,       *)
(* checked in one run: a behaviour is that of one component, chosen by     *)
(* `part' in the initial state.                                            *)
(***************************************************************************)
EXTENDS Integers, Sequences, FiniteSets

VARIABLES part, dev, guest, host

vars == <<part, dev, guest, host>>

O == INSTANCE OptionParser WITH MaxText <- 6, MaxTuples <- 2, PairedRates <- TRUE,
        Sections <- {"cpus", "platform", "memory-zone", "disk", "net", "rng", "balloon", "fs",
                     "pmem", "console", "device", "user-device", "vdpa", "vsock", "sgx-epc",
                     "numa", "restore"}

\* A VM that can be resized in every way, one with memory zones, one with
\* virtio-mem and a topology, and one that is refused; devices with and
\* without names, some of which clash.
NoName == <<"none", 0>>
Device(kind, id, queues, seg, iommu) ==
    [kind |-> kind, id |-> id, queues |-> queues, seg |-> seg, iommu |-> iommu,
     vhost |-> kind = "fs"]
Plain ==
    [kernel |-> TRUE, two_ttys |-> FALSE, boot |-> 2, max |-> 3, topology |-> -1, size |-> 3,
     method |-> "acpi", hotplug |-> 2, hotplugged |-> -1, balloon |-> 1, zones |-> <<>>,
     shared |-> TRUE, segments |-> 2, iommu_segments |-> {1}, iommu |-> FALSE,
     devs |-> <<Device("disk", NoName, 2, 0, FALSE)>>]
Zoned ==
    [Plain EXCEPT !.size = 0, !.method = "virtio-mem", !.hotplug = -1, !.segments = -1,
        !.iommu_segments = {},
        !.zones = <<[id |-> <<"user", 2>>, size |-> 2, hotplug |-> 2, hotplugged |-> -1]>>,
        !.devs = <<Device("net", NoName, 4, 0, TRUE), Device("net", <<"net", 0>>, 2, 0, FALSE)>>]
WithVirtioMem ==
    [Plain EXCEPT !.method = "virtio-mem", !.balloon = -1, !.devs = <<>>, !.topology = 3]
F == INSTANCE VmConfig WITH MaxOps <- 5, Vcpus <- {1, 3, 4}, Sizes <- {0, 2, 4}, Careful <- TRUE,
        Faults <- {"device", "restore"},
        Configs <- {Plain, Zoned, WithVirtioMem, [Plain EXCEPT !.two_ttys = TRUE]},
        Devices <- {Device("disk", NoName, 1, 0, FALSE), Device("disk", <<"user", 2>>, 3, 1, TRUE),
                    Device("net", <<"disk", 1>>, 2, 0, TRUE), Device("vsock", NoName, 0, 0, FALSE),
                    Device("fs", NoName, 1, 0, FALSE), Device("user", <<"user", 1>>, 0, 0, FALSE)}

L == INSTANCE VmLifecycle WITH Kernels <- {"pvh", "nopvh", "firmware"},
        Initramfs <- {"none", "large"}, Faults <- {"devices", "restore", "disk"},
        Retries <- FALSE, EarlyReads <- FALSE, MaxOps <- 6, MaxClock <- 2
A == INSTANCE Api WITH Clients <- {"a", "b"}, Starts <- {"kernel", "restore", "bare"},
        Faults <- {"exit"}, Idle <- TRUE, MaxCommands <- 2, MaxStarts <- 1
G == INSTANCE Debug WITH Vcpus <- {0, 1}, Stepped <- {0}, Prompt <- TRUE, Detaches <- TRUE,
        ApiOps <- {"pause"}, MaxPc <- 2, MaxCommands <- 3, MaxApi <- 1,
        Layouts <- {<<[gpa |-> 0, size |-> 2]>>, <<[gpa |-> 0, size |-> 2], [gpa |-> 4, size |-> 1]>>},
        Resizes <- {"grow", "plug"}, ElfNote <- 2, VmmNote <- 3, Files <- {"a", "b"},
        Faults <- {"write"}, MaxVcpus <- 3, MaxOps <- 5

\* A PC with terminals of its own, and an Arm board with a virtual IOMMU.
M == INSTANCE Machine WITH Slots <- 1 .. 7, Cells <- 100 .. 108, Targets <- {108},
        Detaches <- FALSE, Faults <- {}, MaxOps <- 6,
        Configs <-
          {[arch |-> "x86_64", serial |-> "pty", console |-> "pty", fixed |-> {"rng", "watchdog"},
            list |-> <<"disk", "pmem">>, iommu |-> FALSE],
           [arch |-> "aarch64", serial |-> "null", console |-> "off",
            fixed |-> {"rng", "mem", "balloon"}, list |-> <<"vfio", "net">>, iommu |-> TRUE]}

\* Memory by ACPI; by virtio-mem without and with zones; zones that the 32-bit
\* hole cuts in two, with files, shared and private.
Zone(size, hotplug, hotplugged, file, shared) ==
    [size |-> size, hotplug |-> hotplug, hotplugged |-> hotplugged, file |-> file, shared |-> shared]
R == INSTANCE MemoryManager WITH HoleStart <- 2, HoleEnd <- 3, HotplugCount <- 2, MaxRam <- 4,
        MaxOps <- 2, MaxWrites <- 1, MaxSnapshots <- 2,
        Configs <-
          {[user |-> FALSE, method |-> "acpi", zones |-> <<Zone(2, 3, -1, FALSE, TRUE)>>],
           [user |-> FALSE, method |-> "virtio-mem", zones |-> <<Zone(1, 2, 1, FALSE, FALSE)>>],
           [user |-> TRUE, method |-> "virtio-mem",
            zones |-> <<Zone(1, -1, -1, TRUE, TRUE), Zone(3, 1, 0, TRUE, FALSE)>>],
           [user |-> TRUE, method |-> "virtio-mem",
            zones |-> <<Zone(1, 1, 0, TRUE, TRUE), Zone(1, -1, -1, FALSE, FALSE),
                        Zone(1, 1, 1, TRUE, TRUE)>>]}
V == INSTANCE VirtioMem WITH Region <- 3, CountWidth <- 2, Sources <- {"vfio"}, DmaFails <- FALSE,
        Pauses <- TRUE, Resets <- 1

Init ==
    \/ part = "options" /\ O!New
    \/ part = "config" /\ F!New
    \/ part = "lifecycle" /\ L!New
    \/ part = "api" /\ A!New
    \/ part = "gdb" /\ G!GdbNew
    \/ part = "coredump" /\ G!DumpNew
    \/ part = "machine" /\ M!New
    \/ part = "ram" /\ R!New
    \/ part = "virtio-mem" /\ V!New

Next ==
    \/ part = "options" /\ O!Next /\ UNCHANGED part
    \/ part = "config" /\ F!Next /\ UNCHANGED part
    \/ part = "lifecycle" /\ L!Next /\ UNCHANGED part
    \/ part = "api" /\ A!Next /\ UNCHANGED part
    \/ part = "gdb" /\ G!GdbNext /\ UNCHANGED part
    \/ part = "coredump" /\ G!DumpNext /\ UNCHANGED part
    \/ part = "machine" /\ M!Next /\ UNCHANGED part
    \/ part = "ram" /\ R!Next /\ UNCHANGED part
    \/ part = "virtio-mem" /\ V!Next /\ UNCHANGED part

Spec == Init /\ [][Next]_vars

\* What the command line says is what the VM is configured with, and the
\* configuration stays the running VM's, one that a reboot accepts (see
\* OptionParser and VmConfig).
ConfigIsKept ==
    /\ part = "options" => O!OptionsAreParsed
    /\ part = "config" => F!ConfigIsKept

\* A VM goes from boot to shutdown, over pauses and snapshots, with one guest
\* and one clock (see VmLifecycle).
LifeGoesOn == part = "lifecycle" => L!LifeGoesOn

\* A command of ch-remote is one the server knows and its answer is its own,
\* from the start of the process to its end (see Api).
CommandsAreServed == part = "api" => A!CommandsAreServed

\* A debugger sees the guest it steps and stops, and a core dump holds the
\* guest's memory and registers (see Debug).
DebuggingIsRight ==
    /\ part = "gdb" => G!DebuggerIsRight
    /\ part = "coredump" => G!DumpIsReadable

\* The machine that is built, rebooted or restored has its devices where they
\* were, and the RAM it had (see Machine and MemoryManager); devices that do DMA
\* reach what virtio-mem has plugged, and the size kept for a reboot is the size
\* asked of the driver (see VirtioMem).
MachineIsSound ==
    /\ part = "machine" => M!MachineIsSound
    /\ part = "ram" => R!ZonesAreMapped /\ R!RestoredIsSnapshot /\ R!DimmIsAnnounced
    /\ part = "virtio-mem" => V!DmaSeesPlugged /\ V!ZoneMatchesDevice
=============================================================================
