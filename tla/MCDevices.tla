------------------------------ MODULE MCDevices ------------------------------
(***************************************************************************)
(* PCI devices that come and go, their BARs, device models of their own,   *)
(* and the terminals, checked in one run: a behaviour is that of one       *)
(* component, chosen by `part' in the initial state.                       *)
(***************************************************************************)
EXTENDS Integers, Sequences, FiniteSets

CONSTANTS GuestKeys, HostKeys, KillQSize, MaxConns, MaxTime, MaxPackets,
          Segments, Slots, Names, Kinds, Regions, Areas, Faults, Retries, ByPciId,
          MaxRequests, Reboots, Restores,
          Devices, Wide, Big, Polite, MaxMoves

VARIABLES part, dev, guest, host

vars == <<part, dev, guest, host>>

\* Vsock twice: several connections and no data, and one connection with data
\* and credit counters of two bits.
Q == INSTANCE Vsock WITH TxBufSize <- 2, Threshold <- 1, GuestBuf <- 2, PktLen <- 0,
        RxQSize <- 1, Width <- 2, MaxTxQ <- 1, MaxBufs <- 1
D == INSTANCE Vsock WITH GuestKeys <- {"g1"}, HostKeys <- {}, TxBufSize <- 2, Threshold <- 1,
        GuestBuf <- 1, PktLen <- 2, RxQSize <- 1, KillQSize <- 1, MaxConns <- 2, Width <- 2,
        MaxTime <- 0, MaxPackets <- 3, MaxTxQ <- 1, MaxBufs <- 1
P == INSTANCE DeviceManager WITH MaxOps <- MaxRequests
A == INSTANCE PciBars WITH MaxOps <- MaxMoves
V == INSTANCE Vfio WITH Messages <- {"m1", "m2"}, MaxMme <- 0, Refused <- {},
        HandlerTraps <- TRUE, BarSize <- 6, Bases <- {0, 6}, MaxMoves <- 1, MaxRestores <- 1
B == INSTANCE VhostUser WITH MaxReq <- 2, Inflight <- TRUE, MemSlots <- TRUE, Regions <- 2,
        LogBytes <- 2, WordBytes <- 2, Calm <- TRUE, LateMove <- FALSE, MaxFails <- 2, MaxOps <- 5
T == INSTANCE Terminal WITH MAX_BUFFER_SIZE <- 3, Room <- 2, LOOP_SIZE <- 2,
        LateEnable <- FALSE, MaxOut <- 6, MaxIn <- 2, MaxModes <- 2,
        MaxKeys <- 2, MaxSent <- 2, MaxBuffers <- 2, MaxSizes <- 2,
        MaxResets <- 1, MaxRestores <- 0

Init ==
    \/ part = "vsock" /\ Q!Init
    \/ part = "vsock data" /\ D!Init
    \/ part = "hotplug" /\ P!New
    \/ part = "bars" /\ A!New
    \/ part = "vfio" /\ V!New
    \/ part = "vhost-user" /\ B!New
    \/ part = "serial" /\ T!SerialNew
    \/ part = "console" /\ T!ConsoleNew

Next ==
    \/ part = "vsock" /\ Q!Next /\ UNCHANGED part
    \/ part = "vsock data" /\ D!Next /\ UNCHANGED part
    \/ part = "hotplug" /\ P!Next /\ UNCHANGED part
    \/ part = "bars" /\ A!Next /\ UNCHANGED part
    \/ part = "vfio" /\ V!Next /\ UNCHANGED part
    \/ part = "vhost-user" /\ B!Next /\ UNCHANGED part
    \/ part = "serial" /\ T!SerialNext /\ UNCHANGED part
    \/ part = "console" /\ T!ConsoleNext /\ UNCHANGED part

Spec == Init /\ [][Next]_vars

\* A connection with something to send is in the muxer's queue, a guest that
\* waits for credit is told of it, and no more is sent than the guest has room
\* for (see Vsock).
VsockServes ==
    CASE part = "vsock" -> Q!PendingIsQueued /\ Q!WriterIsHeard /\ Q!CreditFits
      [] part = "vsock data" -> D!PendingIsQueued /\ D!WriterIsHeard /\ D!CreditFits
      [] OTHER -> TRUE

\* "when true, all connections that are awaiting termination are guaranteed to
\* be in this queue" (muxer_killq.rs, MuxerKillQ::synced).  It does not hold
\* when a connection ends while the queue is full and synchronized again later.
KillQueueIsComplete == part = "vsock" => Q!KillQueueIsComplete

\* Only a device that was to be removed is ejected, the guest hears of every
\* change, devices that do DMA reach the guest's RAM (see DeviceManager), and a
\* BAR is where its registers say, for everyone, and is refused only when there
\* is no room for it (see PciBars).
HotplugIsSound ==
    /\ part = "hotplug" => P!RemovalHitsItsTarget /\ P!HotplugIsAnnounced /\ P!DmaSeesMemory
    /\ part = "bars" => A!BarsAreRouted /\ A!AllocatesWhenFree

\* "Update VmConfig by removing the device. This is important to ensure the
\* device would not be created in case of a reboot." (vm.rs, remove_device)
RemovedStaysRemoved == part = "hotplug" => P!RemovedStaysRemoved

\* A passed-through device interrupts the guest the way the guest asked for,
\* reads back what it wrote, and has its BARs and trapped tables where the
\* guest put them (see Vfio).
VfioFollowsGuest ==
    part = "vfio" =>
        /\ V!InterruptsFollowGuest /\ V!EnableBitsReadBack /\ V!IntxIsRearmed
        /\ V!TableIsTrapped /\ V!BarsAreTheDevices

\* A vhost-user device keeps its promises to the guest over the failures of
\* its back-end, pauses and migrations (see VhostUser).
VhostUserServes == part = "vhost-user" => B!VhostUserServes

\* Output reaches the terminal in order and is never stuck, input and window
\* sizes reach the guest (see Terminal).
TerminalsServe ==
    /\ part = "serial" => T!SerialServes
    /\ part = "console" => T!ConsoleServes
=============================================================================
