----------------------------- MODULE VirtioPci -----------------------------
(***************************************************************************)
(* The PCI transport of virtio devices (virtio-devices/src/transport): the   *)
(* driver's writes to the common configuration, the activation of a device   *)
(* by the VMM thread, reset, snapshot and restore.                           *)
(*                                                                         *)
(* A vCPU whose write makes the driver ready leaves an activator for the     *)
(* VMM thread in a list that all devices share, and waits with the VMM       *)
(* thread at a barrier.  Transport, activator and device pass one interrupt  *)
(* object around.  Other vCPUs drive other devices meanwhile, or this one.   *)
(***************************************************************************)
EXTENDS Naturals, Sequences, FiniteSets

CONSTANTS
    Vcpus,         \* vCPUs that access the devices
    Devices,       \* virtio-pci devices
    NumQueues,     \* queues of each device
    CanReset,      \* devices that implement reset()
    OthersKeepOff, \* nobody accesses a device while its activation is pending
    QueuesInOrder  \* a driver enables a prefix of the queues

Queues == 0 .. NumQueues - 1
Statuses == {"init", "driver", "ok", "failed"}

VARIABLES
    status,      \* status[d]: common_config.driver_status
    ready,       \* ready[d][q]: queues[q].state.ready
    interrupt,   \* interrupt[d]: virtio_interrupt is Some
    activated,   \* activated[d]: device_activated
    device,      \* device[d]: the queues and events it was activated with
    pending,     \* pending_activations, in order
    draining,    \* activators that the VMM thread has taken out of the list
    vcpu,        \* vcpu[v]: "guest", "push", "barrier" or "panicked"
    made,        \* made[v]: the activator that vCPU v has prepared
    vmm          \* the VMM thread: "loop", "drain", "barrier", "panicked", "failed"

transport == <<status, ready, interrupt, activated, device>>
vars == <<transport, pending, draining, vcpu, made, vmm>>

Inactive == [active |-> FALSE, queues |-> <<>>, evts |-> <<>>]
Nothing == [dev |-> "none"]

Init ==
    /\ status = [d \in Devices |-> "init"]
    /\ ready = [d \in Devices |-> [q \in Queues |-> FALSE]]
    /\ interrupt = [d \in Devices |-> TRUE]
    /\ activated = [d \in Devices |-> FALSE]
    /\ device = [d \in Devices |-> Inactive]
    /\ pending = <<>> /\ draining = <<>>
    /\ vcpu = [v \in Vcpus |-> "guest"]
    /\ made = [v \in Vcpus |-> Nothing]
    /\ vmm = "loop"

\* The queues the activator takes, in their order ...
ReadyQueues(rdy) == SelectSeq([i \in 1 .. NumQueues |-> i - 1], LAMBDA q : rdy[q])

\* Mutant of QueueEvts: the events are shifted by one.
EvtsFromOne(rdy) == [i \in 1 .. Len(ReadyQueues(rdy)) |-> i % NumQueues]

\* ... and the events it pairs them with: the first ones, whichever queues
\* are enabled.
QueueEvts(rdy) == [i \in 1 .. Len(ReadyQueues(rdy)) |-> i - 1]

\* prepare_activator
Activator(v, d, rdy, intr) ==
    [dev |-> d, owner |-> v, interrupt |-> intr,
     queues |-> ReadyQueues(rdy), evts |-> QueueEvts(rdy)]

IsDriverReady(s) == s = "ok"
IsDriverInit(s) == s = "init"

-----------------------------------------------------------------------------
(* vCPUs.                                                                  *)

\* needs_activation: the vCPU takes the interrupt and makes an activator.
NeedsActivation(v, d, s, rdy) ==
    /\ ~activated[d] /\ IsDriverReady(s)
    /\ made' = [made EXCEPT ![v] = Activator(v, d, rdy, interrupt[d])]
    /\ interrupt' = [interrupt EXCEPT ![d] = FALSE]
    /\ vcpu' = [vcpu EXCEPT ![v] = "push"]
    /\ status' = [status EXCEPT ![d] = s] /\ ready' = [ready EXCEPT ![d] = rdy]
    /\ UNCHANGED <<activated, device>>

\* Mutant of DriverReset: the interrupt the device hands back is dropped.
ResetDropsInterrupt(v, d, s, rdy) ==
    /\ activated[d] /\ IsDriverInit(s) /\ d \in CanReset
    /\ activated' = [activated EXCEPT ![d] = FALSE]
    /\ device' = [device EXCEPT ![d] = Inactive]
    /\ ready' = [ready EXCEPT ![d] = [q \in Queues |-> FALSE]]
    /\ status' = [status EXCEPT ![d] = s]
    /\ UNCHANGED <<interrupt, vcpu, made>>

\* Mutant of DriverReset: the device goes on.
ResetKeepsDevice(v, d, s, rdy) ==
    /\ activated[d] /\ IsDriverInit(s)
    /\ activated' = [activated EXCEPT ![d] = FALSE]
    /\ status' = [status EXCEPT ![d] = s] /\ ready' = [ready EXCEPT ![d] = rdy]
    /\ UNCHANGED <<interrupt, device, vcpu, made>>

\* "Device has been reset by the driver".  VirtioCommon::reset unwraps the
\* interrupt that activate() left with the device.
DriverReset(v, d, s, rdy) ==
    /\ activated[d] /\ IsDriverInit(s)
    /\ IF d \in CanReset
       THEN IF device[d].active
            THEN /\ interrupt' = [interrupt EXCEPT ![d] = TRUE]
                 /\ activated' = [activated EXCEPT ![d] = FALSE]
                 /\ device' = [device EXCEPT ![d] = Inactive]
                 /\ ready' = [ready EXCEPT ![d] = [q \in Queues |-> FALSE]]
                 /\ status' = [status EXCEPT ![d] = s]
                 /\ UNCHANGED vcpu
            ELSE /\ vcpu' = [vcpu EXCEPT ![v] = "panicked"]
                 /\ status' = [status EXCEPT ![d] = s]
                 /\ UNCHANGED <<interrupt, activated, device, ready>>
       ELSE /\ status' = [status EXCEPT ![d] = "failed"]
            /\ ready' = [ready EXCEPT ![d] = rdy]
            /\ UNCHANGED <<interrupt, activated, device, vcpu>>
    /\ UNCHANGED made

\* Nothing to do but the write itself.
PlainWrite(v, d, s, rdy) ==
    /\ ~(~activated[d] /\ IsDriverReady(s)) /\ ~(activated[d] /\ IsDriverInit(s))
    /\ status' = [status EXCEPT ![d] = s] /\ ready' = [ready EXCEPT ![d] = rdy]
    /\ UNCHANGED <<interrupt, activated, device, vcpu, made>>

\* write_bar: a register write that leaves status s and queues rdy, and the
\* checks behind it.
WriteBar(v, d, s, rdy) ==
    /\ NeedsActivation(v, d, s, rdy) \/ DriverReset(v, d, s, rdy) \/ PlainWrite(v, d, s, rdy)
    /\ UNCHANGED <<pending, draining, vmm>>

\* The device's own mutex is held from the write until the activator is in
\* the list.
Locked(d) == \E v \in Vcpus : vcpu[v] = "push" /\ made[v].dev = d

Unserved(d) == \E i \in 1 .. Len(pending \o draining) : (pending \o draining)[i].dev = d

MayAccess(v, d) ==
    /\ vcpu[v] = "guest" /\ vmm \in {"loop", "drain", "barrier"}
    /\ \A u \in Vcpus : vcpu[u] # "panicked"
    /\ ~Locked(d)
    /\ OthersKeepOff => ~Unserved(d)

\* driver_status; a driver goes from one status to the next.
WriteStatus(v, d, s) ==
    /\ MayAccess(v, d)
    /\ \/ s = "init"
       \/ s = "driver" /\ status[d] = "init"
       \/ s = "ok" /\ status[d] = "driver"
       \/ s = "failed" /\ status[d] # "init"
    /\ WriteBar(v, d, s, ready[d])

\* queue_enable of the selected queue; a driver does it before DRIVER_OK.
WriteQueueEnable(v, d, q) ==
    /\ MayAccess(v, d) /\ status[d] = "driver"
    /\ QueuesInOrder => \A p \in Queues : p < q => ready[d][p]
    /\ WriteBar(v, d, status[d], [ready[d] EXCEPT ![q] = TRUE])

\* Any other register of the BAR: ISR, device configuration, MSI-X table.
WriteOther(v, d) ==
    /\ MayAccess(v, d)
    /\ WriteBar(v, d, status[d], ready[d])

\* pending_activations.lock().push(): the lock is free while nothing is drained.
PushActivator(v) ==
    /\ vcpu[v] = "push" /\ vmm = "loop"
    /\ pending' = Append(pending, made[v])
    /\ made' = [made EXCEPT ![v] = Nothing]
    /\ vcpu' = [vcpu EXCEPT ![v] = "barrier"]
    /\ UNCHANGED <<transport, draining, vmm>>

-----------------------------------------------------------------------------
(* The VMM thread.                                                         *)

\* activate_virtio_devices: drain the list with its lock held.
Drain ==
    /\ vmm = "loop" /\ pending # <<>>
    /\ draining' = pending /\ pending' = <<>>
    /\ vmm' = "drain"
    /\ UNCHANGED <<transport, vcpu, made>>

\* Mutant of Activate: the vCPU is not waited for.
ActivateWithoutBarrier ==
    /\ vmm = "drain" /\ draining # <<>>
    /\ LET a == Head(draining)
       IN  /\ device' = [device EXCEPT ![a.dev] = [active |-> TRUE, queues |-> a.queues, evts |-> a.evts]]
           /\ activated' = [activated EXCEPT ![a.dev] = TRUE]
    /\ draining' = Tail(draining)
    /\ UNCHANGED <<status, ready, interrupt, pending, vcpu, made, vmm>>

\* VirtioPciDeviceActivator::activate: the interrupt is unwrapped; too few
\* queues are an error, which drops the rest of the list.
Activate ==
    /\ vmm = "drain" /\ draining # <<>>
    /\ LET a == Head(draining)
       IN  IF ~a.interrupt
           THEN vmm' = "panicked" /\ UNCHANGED <<transport, draining>>
           ELSE IF a.queues = <<>>
           THEN vmm' = "failed" /\ draining' = <<>> /\ UNCHANGED transport
           ELSE /\ device' = [device EXCEPT ![a.dev] = [active |-> TRUE, queues |-> a.queues,
                                                       evts |-> a.evts]]
                /\ activated' = [activated EXCEPT ![a.dev] = TRUE]
                /\ vmm' = "barrier"
                /\ UNCHANGED <<status, ready, interrupt, draining>>
    /\ UNCHANGED <<pending, vcpu, made>>

\* Both sides of the barrier have arrived.
BarrierWait ==
    /\ vmm = "barrier" /\ vcpu[Head(draining).owner] = "barrier"
    /\ vcpu' = [vcpu EXCEPT ![Head(draining).owner] = "guest"]
    /\ draining' = Tail(draining)
    /\ vmm' = "drain"
    /\ UNCHANGED <<transport, pending, made>>

\* The list is empty: the lock is released.
Drained ==
    /\ vmm = "drain" /\ draining = <<>>
    /\ vmm' = "loop"
    /\ UNCHANGED <<transport, pending, draining, vcpu, made>>

\* Is device d activated while it is restored?
RestoreDevice(d) == activated[d] /\ IsDriverReady(status[d])

\* Snapshot the devices and restore them in a new VM; Vm::pause has emptied
\* pending_activations and stopped the vCPUs before.
Restore ==
    /\ vmm = "loop" /\ pending = <<>> /\ \A v \in Vcpus : vcpu[v] = "guest"
    /\ interrupt' = [d \in Devices |-> ~RestoreDevice(d)]
    /\ device' = [d \in Devices |->
                    IF RestoreDevice(d)
                    THEN [active |-> TRUE, queues |-> ReadyQueues(ready[d]),
                          evts |-> QueueEvts(ready[d])]
                    ELSE Inactive]
    /\ UNCHANGED <<status, ready, activated, pending, draining, vcpu, made, vmm>>

VmmStep == Drain \/ Activate \/ BarrierWait \/ Drained

Next ==
    \/ \E v \in Vcpus, d \in Devices :
          \/ \E s \in Statuses : WriteStatus(v, d, s)
          \/ \E q \in Queues : WriteQueueEnable(v, d, q)
          \/ WriteOther(v, d)
    \/ \E v \in Vcpus : PushActivator(v)
    \/ VmmStep \/ Restore

Spec == Init /\ [][Next]_vars

-----------------------------------------------------------------------------
Activators == [dev : Devices, owner : Vcpus, interrupt : BOOLEAN,
               queues : Seq(Queues), evts : Seq(Queues)]

TypeOK ==
    /\ status \in [Devices -> Statuses]
    /\ ready \in [Devices -> [Queues -> BOOLEAN]]
    /\ interrupt \in [Devices -> BOOLEAN] /\ activated \in [Devices -> BOOLEAN]
    /\ device \in [Devices -> [active : BOOLEAN, queues : Seq(Queues), evts : Seq(Queues)]]
    /\ pending \in Seq(Activators) /\ draining \in Seq(Activators)
    /\ vcpu \in [Vcpus -> {"guest", "push", "barrier", "panicked"}]
    /\ made \in [Vcpus -> Activators \cup {Nothing}]
    /\ vmm \in {"loop", "drain", "barrier", "panicked", "failed"}

\* Activators of d that still hold an interrupt.
Holding(d) ==
    LET list == pending \o (IF vmm = "barrier" THEN Tail(draining) ELSE draining)
    IN  Cardinality({i \in 1 .. Len(list) : list[i].dev = d /\ list[i].interrupt})
        + Cardinality({v \in Vcpus : made[v] # Nothing /\ made[v].dev = d /\ made[v].interrupt})

\* The interrupt object of a device is held by the transport, by one activator
\* or by the active device: never by two of them, never by none, so that an
\* activator finds it when it unwraps it.
OneInterrupt ==
    vmm \in {"loop", "drain", "barrier"} =>
       \A d \in Devices :
          (IF interrupt[d] THEN 1 ELSE 0) + (IF device[d].active THEN 1 ELSE 0) + Holding(d) = 1

\* "Each event must be triggered when the value being written equals the index
\* of the event in this list": queue q of an active device is served on the
\* event that the guest's notification of q signals.
ServedByOwnEvent == \A d \in Devices : device[d].queues = device[d].evts

\* A device is activated once, "if the driver status has changed": no access
\* to the BAR makes the VMM thread unwrap an interrupt that is not there.
NoPanic == vmm # "panicked"

\* A driver that has reset its device, and has no activation under way, finds
\* none of its queues served: what it does next with the rings is its own.
ResetIsComplete ==
    \A d \in Devices : status[d] = "init" /\ ~Unserved(d) /\ ~Locked(d) => ~device[d].active
=============================================================================
