------------------------------ MODULE MCControl ------------------------------
(***************************************************************************)
(* What the VMM thread waits for: API requests and events (Vmm), vCPUs     *)
(* that wait for it in turn (VirtioPci), and what a running guest makes of *)
(* a resize of its CPUs (CpuHotplug) and memory (VirtioMem), checked in    *)
(* one run.  A behaviour is that of one component, chosen by `part' in the *)
(* initial state.  `pending' and `vcpu', which Vmm and VirtioPci both      *)
(* name, are shared; the variables of the other components are Idle.       *)
(***************************************************************************)
EXTENDS Integers, Sequences, FiniteSets

CONSTANTS Clients, Requests, GuestActivates, FaultyClients, FaultyRequests,
          Vcpus, Devices, NumQueues, CanReset, OthersKeepOff, QueuesInOrder,
          MaxVcpus, BootVcpus, EjectsFromTop,
          MemBlocks, CountWidth, Sources, DmaFails, Pauses, Resets

VARIABLES part, vcpu, pending,
    config, vm, kernel, signals, evt, batch, job, stage, serving, loop, channel, client,
    status, ready, interrupt, activated, device, draining, made, vmm,
    vcpus, threads, active, inserting, removing, notify, ged, scan, ack, requested,
    dev, guest, host

both == <<vcpu, pending>>
vmmVars == <<config, vm, kernel, signals, evt, batch, job, stage, serving, loop, channel, client>>
pciVars == <<status, ready, interrupt, activated, device, draining, made, vmm>>
cpuVars == <<vcpus, threads, active, inserting, removing, notify, ged, scan, ack, requested>>
memVars == <<dev, guest, host>>
vars == <<part, both, vmmVars, pciVars, cpuVars, memVars>>

\* The VMM without failures, which makes progress; and with them.
E == INSTANCE Vmm WITH Faults <- FALSE
F == INSTANCE Vmm WITH Clients <- FaultyClients, Requests <- FaultyRequests,
        GuestActivates <- TRUE, Faults <- TRUE
P == INSTANCE VirtioPci
C == INSTANCE CpuHotplug
M == INSTANCE VirtioMem WITH Region <- MemBlocks

Idle == "idle"
BothIdle == vcpu = Idle /\ pending = Idle
VmmIdle ==
    /\ config = Idle /\ vm = Idle /\ kernel = Idle /\ signals = Idle /\ evt = Idle /\ batch = Idle
    /\ job = Idle /\ stage = Idle /\ serving = Idle /\ loop = Idle /\ channel = Idle /\ client = Idle
PciIdle ==
    /\ status = Idle /\ ready = Idle /\ interrupt = Idle /\ activated = Idle /\ device = Idle
    /\ draining = Idle /\ made = Idle /\ vmm = Idle
CpuIdle ==
    /\ vcpus = Idle /\ threads = Idle /\ active = Idle /\ inserting = Idle /\ removing = Idle
    /\ notify = Idle /\ ged = Idle /\ scan = Idle /\ ack = Idle /\ requested = Idle
MemIdle == dev = Idle /\ guest = Idle /\ host = Idle

Init ==
    \/ part = "vmm" /\ E!Init /\ PciIdle /\ CpuIdle /\ MemIdle
    \/ part = "vmm with faults" /\ F!Init /\ PciIdle /\ CpuIdle /\ MemIdle
    \/ part = "pci" /\ P!Init /\ VmmIdle /\ CpuIdle /\ MemIdle
    \/ part = "cpus" /\ C!Init /\ BothIdle /\ VmmIdle /\ PciIdle /\ MemIdle
    \/ part = "virtio-mem" /\ M!New /\ BothIdle /\ VmmIdle /\ PciIdle /\ CpuIdle

Vmm(Step) == part = "vmm" /\ Step /\ UNCHANGED <<part, pciVars, cpuVars, memVars>>
Faulty(Step) == part = "vmm with faults" /\ Step /\ UNCHANGED <<part, pciVars, cpuVars, memVars>>
Pci(Step) == part = "pci" /\ Step /\ UNCHANGED <<part, vmmVars, cpuVars, memVars>>
Cpus(Step) == part = "cpus" /\ Step /\ UNCHANGED <<part, both, vmmVars, pciVars, memVars>>
Memory(Step) == part = "virtio-mem" /\ Step /\ UNCHANGED <<part, both, vmmVars, pciVars, cpuVars>>

Next == Vmm(E!Next) \/ Faulty(F!Next) \/ Pci(P!Next) \/ Cpus(C!Next) \/ Memory(M!Next)

\* The VMM thread is scheduled: it serves its events, drains the pending
\* activations, and goes on with a resize.
VmmThread == Vmm(E!LoopStep) \/ Pci(P!VmmStep) \/ Cpus(C!NotifyHotplug) \/ Memory(M!ResizeAnswered)

\* So is who it waits for: the vCPU thread, the guest's handler of the hotplug
\* interrupt, and the worker of virtio-mem.
OtherThread == Vmm(E!VcpuStops) \/ Cpus(C!Scan) \/ Memory(M!ResizeEvent)

\* A client that has sent its request goes on to notify, and a vCPU gets the
\* lock of the pending activations.
Spec == /\ Init /\ [][Next]_vars
        /\ WF_vars(VmmThread) /\ WF_vars(OtherThread)
        /\ \A c \in Clients : WF_vars(Vmm(E!WriteApiEvent(c)))
        /\ \A v \in Vcpus : SF_vars(Pci(P!PushActivator(v)))

\* What the event loop keeps true between any two events (see Vmm); where
\* operations fail half-way, that it never waits for a request that is not
\* there.
LoopIsSound ==
    CASE part = "vmm" -> E!LoopIsSound
      [] part = "vmm with faults" -> F!ApiEventHasRequest
      [] OTHER -> TRUE

\* A request is answered or the VMM is gone, an operation that stops the vCPUs
\* comes back, and an exit event ends the VMM (see Vmm).
Ended == part = "vmm" /\ ~E!Alive
Waits(c) == part = "vmm" /\ E!Waiting(c)
Stopping == part = "vmm" /\ stage = "stopping"
Exiting == part = "vmm" /\ evt["exit"]
LoopAnswers ==
    /\ \A c \in Clients : Waits(c) ~> ~Waits(c) \/ Ended
    /\ Stopping ~> ~Stopping
    /\ Exiting ~> Ended

\* A device's interrupt is held once, each queue is served by its own event,
\* and a device that its driver has reset serves no queue (see VirtioPci).
ActivationIsSound ==
    part = "pci" => P!OneInterrupt /\ P!ServedByOwnEvent /\ P!ResetIsComplete

\* The vCPU that waits for an activation is released, unless it failed and
\* ended the event loop (see VirtioPci).
InActivation(v) == part = "pci" /\ vcpu[v] \in {"push", "barrier"}
Released(v) == part = "pci" /\ (vcpu[v] = "guest" \/ vmm = "failed")
ActivationReturns == \A v \in Vcpus : InActivation(v) ~> Released(v)

\* A vCPU has one thread at most, and the guest comes across every CPU that it
\* gains or is to give up (see CpuHotplug).
CpusFollowResize == part = "cpus" => C!CpusFollowResize

\* A vCPU that is hot added is eventually seen by the guest (see CpuHotplug),
\* and a memory resize comes back to the VMM thread when the device is not
\* reset and the VM not paused under it (see VirtioMem).
Inserting(i) == part = "cpus" /\ inserting[i]
Resizing == part = "virtio-mem" /\ host.vmm = "resize"
Undisturbed == part = "virtio-mem" /\ dev.worker = "run"
ResizeReturns ==
    /\ \A i \in 0 .. (MaxVcpus - 1) : Inserting(i) ~> ~Inserting(i)
    /\ (Resizing /\ []Undisturbed) ~> ~Resizing
=============================================================================
