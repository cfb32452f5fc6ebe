------------------------------ MODULE MCPlatform ------------------------------
(***************************************************************************)
(* What the guest takes for its hardware, from the vCPUs and the memory    *)
(* that the hypervisor provides to the small devices of the board and the  *)
(* image files behind its disks, checked in one run: a behaviour is that   *)
(* of one component, chosen by `part' in the initial state.                *)
(***************************************************************************)
EXTENDS Integers, Sequences, FiniteSets

VARIABLES part, dev, guest, host

vars == <<part, dev, guest, host>>

K == INSTANCE Kvm WITH Arches <- {"x86_64", "aarch64"}, NumMsrs <- 3, MaxSteps <- 1,
        MaxExits <- 2, MaxPauses <- 2, MaxFragments <- 1, Boot <- <<3>>, HotplugSize <- 1, EpcSections <- <<1>>, PmemSize <- 1,
        Word <- 2, MaxSlots <- 5, MaxWrites <- 2, MaxRounds <- 1, MaxStarts <- 2
\* A register is eight bytes; the values make carries, borrows and sign bits.
E == INSTANCE Emulator WITH
        Values <- {<<2, 0, 0, 0, 0, 0, 0, 0>>, <<101, 102, 103, 104, 105, 106, 107, 232>>},
        Modes <- {"Protected", "Long"}, SegmentTypes <- {3}, MaxExits <- 2,
        Codes <- {"mov_rm_r", "mov_r_rm", "movzx", "mov_r_imm", "mov_rm_imm", "cmp_rm_r",
                  "cmp_rm_imm", "or", "movsd", "xchg"}
\* Entries of the IOAPIC: edge and level triggered, masked and not.  The GIC
\* has 65 interrupts, one more than two registers of 32 bits hold.
I == INSTANCE InterruptController WITH Pins <- {0, 1}, Lows <- {33, 32802, 98338},
        Highs <- {16777216}, Vectors <- {50, 51}, EarlyInject <- FALSE, Quiet <- TRUE,
        MaxWrites <- 3, MaxRaised <- 2, MaxRestores <- 1,
        Vcpus <- 2, NumIrqs <- 65, Spis <- {0, 32}, Events <- {1, 2}, PriorityBits <- {5, 6, 7},
        Late <- FALSE, Optimised <- FALSE, MaxOps <- 3, MaxGicRestores <- 2
L == INSTANCE Legacy WITH Kinds <- {"uart", "gpio", "rtc", "cmos", "timer", "power"},
        Restored <- {"uart", "gpio"}, Toggles <- FALSE, MaxPresses <- 1, EarlyPress <- FALSE,
        MaxTyped <- 3, MaxWritten <- 3, MaxTime <- 12, MaxOps <- 3, Delay <- 1, TimerWrap <- 5
S == INSTANCE VirtioSmall WITH Interval <- 2, Timeout <- 3, MaxTime <- 10, MaxPings <- 2,
        MaxOps <- 3, Rebinds <- FALSE, Steady <- TRUE, Kinds <- {"pmem", "rng"}, Files <- {"file", "directory",
        "discard"}, Pages <- {1, 2}, MaxWrites <- 3, MaxRequests <- 2, MaxFaults <- 2, Idle <- TRUE

\* Small tables, each of which a few operations fill.
D == INSTANCE DiskImage WITH L1Size <- 2, L2Entries <- 2, BlockEntries <- 16, RefTable <- 1,
        L2Cap <- 1, BlockCap <- 1, Uses <- {{"discard"}, {"crash"}},
        TablesTogether <- TRUE, Lazy <- FALSE, MaxOps <- 3,
        Blocks <- 2, BlockUnits <- 2, LogicalUnits <- 1, ChunkRatio <- 4,
        Presents <- {{}, {0}, {0, 1}}, InBlocks <- TRUE, Segments <- FALSE,
        Durable <- TRUE, FirstSeqs <- {1, 2}, MaxVhdxOps <- 2, MaxCrashes <- 2

Init ==
    \/ part = "vcpu" /\ K!VcpuNew
    \/ part = "memory" /\ K!MemoryNew
    \/ part = "emulator" /\ E!New
    \/ part = "interrupts" /\ I!IoapicNew
    \/ part = "gic" /\ I!GicNew
    \/ part = "legacy" /\ L!New
    \/ part = "watchdog" /\ S!WatchdogNew
    \/ part = "pmem" /\ S!PmemNew
    \/ part = "qcow" /\ D!QcowNew
    \/ part = "vhdx" /\ D!VhdxNew

Next ==
    \/ part = "vcpu" /\ K!VcpuNext /\ UNCHANGED part
    \/ part = "memory" /\ K!MemoryNext /\ UNCHANGED part
    \/ part = "emulator" /\ E!Next /\ UNCHANGED part
    \/ part = "interrupts" /\ I!IoapicNext /\ UNCHANGED part
    \/ part = "gic" /\ I!GicNext /\ UNCHANGED part
    \/ part = "legacy" /\ L!Next /\ UNCHANGED part
    \/ part = "watchdog" /\ S!WatchdogNext /\ UNCHANGED part
    \/ part = "pmem" /\ S!PmemNext /\ UNCHANGED part
    \/ part = "qcow" /\ D!QcowNext /\ UNCHANGED part
    \/ part = "vhdx" /\ D!VhdxNext /\ UNCHANGED part

Spec == Init /\ [][Next]_vars

\* A vCPU goes on after a pause, a snapshot or a migration where it was (see
\* Kvm).
VcpuIsKept == part = "vcpu" => K!VcpuIsKept

\* Every page the guest has written is sent, and memory slots are the memory
\* they stand for (see Kvm).
MemoryIsSent == part = "memory" => K!MemoryIsSent

\* An emulated instruction does what the processor would have done (see
\* Emulator).
EmulationIsExact == part = "emulator" => E!EmulationIsExact

\* An interrupt reaches the guest as its entries and messages say, with the
\* IOAPIC and the routes of KVM, and with the GIC over a snapshot and its
\* restoration (see InterruptController).
InterruptsAreRouted ==
    /\ part = "interrupts" => I!InterruptsAreRouted
    /\ part = "gic" => I!GicIsKept

\* The small devices do their work: serial port, power button, clocks and
\* shutdown registers (see Legacy), watchdog, persistent memory and entropy
\* (see VirtioSmall).
SmallDevicesWork ==
    /\ part = "legacy" => L!LegacyDevicesWork
    /\ part = "watchdog" => S!WatchdogWatches
    /\ part = "pmem" => S!PmemKeeps

\* An image file gives back what was written to it, and stays one its own
\* code opens, whatever the order of the operations and wherever the host
\* stops (see DiskImage).
ImagesKeepData ==
    /\ part = "qcow" =>
           D!ReadsWhatWasWritten /\ D!NoClusterUsedTwice /\ D!DiskIsConsistent
    /\ part = "vhdx" => D!SectorsReadBack /\ D!ImageOpens /\ D!BlocksAreApart
=============================================================================
