----------------------------- MODULE CpuHotplug -----------------------------
(***************************************************************************)
(* Which vCPUs exist: CpuManager::resize, the CPU hotplug registers, the    *)
(* ACPI methods by which the guest scans them, and snapshot and restore     *)
(* (vmm/src/cpu.rs, devices/src/acpi.rs).                                   *)
(*                                                                         *)
(* The VMM thread resizes; the guest is told through the GED device, walks  *)
(* the vCPUs with the AML method CSCN, acknowledges the flags it finds and  *)
(* later ejects the vCPUs it was asked to give up.  What the threads of the *)
(* vCPUs do is the subject of VcpuThreads; here a thread only exists.       *)
(***************************************************************************)
EXTENDS Naturals, FiniteSets, Sequences, Functions

CONSTANTS
    MaxVcpus,       \* config.max_vcpus
    BootVcpus,      \* config.boot_vcpus
    EjectsFromTop   \* does the guest eject the highest vCPU first?

Ids == 0 .. MaxVcpus - 1
NoScan == MaxVcpus

VARIABLES
    vcpus,      \* self.vcpus: the id of the vCPU object at each index
    threads,    \* threads[i]: vCPU objects run by a thread started for state i
    active,     \* active[i]: vcpu_states[i].handle is Some
    inserting,  \* vcpu_states[i].inserting
    removing,   \* vcpu_states[i].removing
    notify,     \* resize() has changed the vCPUs and not yet told the GED
    ged,        \* notification_type of the GED device has its CPU bit set
    scan,       \* Local(0) of a running CSCN, or NoScan
    ack,        \* the flag CSCN has tested and not yet written back
    requested   \* vCPUs the guest OS has been asked to eject

states == <<active, inserting, removing>>
guest == <<scan, ack, requested>>
vars == <<vcpus, threads, states, notify, ged, guest>>

\* The vCPU objects are created in the order of their ids.
Created(n) == [i \in 1 .. n |-> i - 1]

Init ==
    /\ vcpus = Created(BootVcpus)
    /\ threads = [i \in Ids |-> IF i < BootVcpus THEN 1 ELSE 0]
    /\ active = [i \in Ids |-> i < BootVcpus]
    /\ inserting = [i \in Ids |-> FALSE]
    /\ removing = [i \in Ids |-> FALSE]
    /\ notify = FALSE /\ ged = FALSE
    /\ scan = NoScan /\ ack = "none" /\ requested = {}

-----------------------------------------------------------------------------
(* The VMM thread.                                                         *)

\* A count, not a set: present_vcpus() folds over the states.
PresentVcpus == Cardinality({i \in Ids : active[i]})

\* "Only create vCPUs in excess of all the allocated vCPUs."
CreateVcpus(desired) ==
    vcpus' = vcpus \o [i \in 1 .. desired - Len(vcpus) |-> Len(vcpus) + i - 1]

\* Mutant of ActivateVcpus: one vCPU too few is counted.
ActivateFromBelow(desired) ==
    LET started == PresentVcpus - 1 .. desired - 1
    IN  /\ threads' = [i \in Ids |-> IF i \in started THEN threads[i] + 1 ELSE threads[i]]
        /\ active' = [i \in Ids |-> active[i] \/ i \in started]
        /\ inserting' = [i \in Ids |-> inserting[i] \/ i \in started]

\* start_vcpu for every id from the number of present vCPUs on; the handle of
\* a thread that is already there is overwritten.
ActivateVcpus(desired) ==
    LET started == PresentVcpus .. desired - 1
    IN  /\ threads' = [i \in Ids |-> IF i \in started THEN threads[i] + 1 ELSE threads[i]]
        /\ active' = [i \in Ids |-> active[i] \/ i \in started]
        /\ inserting' = [i \in Ids |-> inserting[i] \/ i \in started]

\* resize() upwards.
ResizeUp(desired) ==
    /\ ~notify /\ desired > PresentVcpus
    /\ CreateVcpus(desired)
    /\ ActivateVcpus(desired)
    /\ notify' = TRUE
    /\ UNCHANGED <<removing, ged, guest>>

\* resize() downwards: mark_vcpus_for_removal.
ResizeDown(desired) ==
    /\ ~notify /\ desired < PresentVcpus
    /\ removing' = [i \in Ids |-> removing[i] \/ i \in desired .. PresentVcpus - 1]
    /\ notify' = TRUE
    /\ UNCHANGED <<vcpus, threads, active, inserting, ged, guest>>

\* Mutant of NotifyHotplug: the GED is not told while the guest is scanning.
NotifyWhenIdle ==
    /\ notify
    /\ ged' = (ged \/ scan = NoScan)
    /\ notify' = FALSE
    /\ UNCHANGED <<vcpus, threads, states, guest>>

\* Vm::resize then notifies the guest (AcpiGedDevice::notify).
NotifyHotplug ==
    /\ notify
    /\ ged' = TRUE
    /\ notify' = FALSE
    /\ UNCHANGED <<vcpus, threads, states, guest>>

\* The ids in the order of their decimal representation, which is the order
\* of the snapshot's BTreeMap<String, _>.
Before(i, j) ==
    LET tens(k) == IF k < 10 THEN k ELSE k \div 10
    IN  tens(i) < tens(j) \/ (tens(i) = tens(j) /\ i < j)

InStringOrder(S) ==
    [k \in 1 .. Cardinality(S) |->
        CHOOSE i \in S : Cardinality({j \in S : Before(j, i)}) = k - 1]

\* Snapshot the CpuManager, restore it in a new one, and start all its vCPUs.
Restore ==
    /\ ~notify
    /\ vcpus' = InStringOrder(Range(vcpus))
    /\ threads' = [i \in Ids |-> IF i < Len(vcpus) THEN 1 ELSE 0]
    /\ active' = [i \in Ids |-> i < Len(vcpus)]
    /\ inserting' = [i \in Ids |-> FALSE]
    /\ removing' = [i \in Ids |-> FALSE]
    /\ ged' = FALSE
    /\ UNCHANGED <<notify, guest>>

-----------------------------------------------------------------------------
(* The guest, by the AML the VMM gives it.                                 *)

\* _EVT reads the notification, which clears it, and calls CSCN.
GedRead ==
    /\ ged /\ scan = NoScan
    /\ ged' = FALSE
    /\ scan' = 0
    /\ UNCHANGED <<vcpus, threads, states, notify, ack, requested>>

\* CSCN tests CINS, notifies the OS ...
ScanInserting ==
    /\ scan # NoScan /\ ack = "none"
    /\ ack' = IF inserting[scan] THEN "inserting" ELSE "tested"
    /\ UNCHANGED <<vcpus, threads, states, notify, ged, scan, requested>>

\* ... and writes CINS back.
AckInserting ==
    /\ ack = "inserting"
    /\ inserting' = [inserting EXCEPT ![scan] = FALSE]
    /\ ack' = "tested"
    /\ UNCHANGED <<vcpus, threads, active, removing, notify, ged, scan, requested>>

\* CSCN tests CRMV, asks the OS to eject ...
ScanRemoving ==
    /\ ack = "tested" /\ removing[scan]
    /\ requested' = requested \cup {scan}
    /\ ack' = "removing"
    /\ UNCHANGED <<vcpus, threads, states, notify, ged, scan>>

\* ... and writes CRMV back.
AckRemoving ==
    /\ ack = "removing"
    /\ removing' = [removing EXCEPT ![scan] = FALSE]
    /\ scan' = scan + 1 /\ ack' = "none"
    /\ UNCHANGED <<vcpus, threads, active, inserting, notify, ged, requested>>

\* Mutant of ScanNext: the counter of the loop is not incremented.
ScanStuck ==
    /\ ack = "tested" /\ ~removing[scan]
    /\ ack' = "none"
    /\ UNCHANGED <<vcpus, threads, states, notify, ged, scan, requested>>

\* The counter is incremented, up to max_vcpus.
ScanNext ==
    /\ ack = "tested" /\ ~removing[scan]
    /\ scan' = scan + 1 /\ ack' = "none"
    /\ UNCHANGED <<vcpus, threads, states, notify, ged, requested>>

\* CEJ0: the register write makes remove_vcpu kill and join the thread whose
\* handle is stored.
Eject(i) ==
    /\ i \in requested /\ active[i]
    /\ EjectsFromTop => \A j \in Ids : active[j] => j <= i
    /\ active' = [active EXCEPT ![i] = FALSE]
    /\ threads' = [threads EXCEPT ![i] = threads[i] - 1]
    /\ requested' = requested \ {i}
    /\ UNCHANGED <<vcpus, inserting, removing, notify, ged, scan, ack>>

\* The guest OS may refuse to take the vCPU offline.
RefuseEject(i) ==
    /\ i \in requested
    /\ requested' = requested \ {i}
    /\ UNCHANGED <<vcpus, threads, states, notify, ged, scan, ack>>

Scan == GedRead \/ ScanInserting \/ AckInserting \/ ScanRemoving \/ AckRemoving \/ ScanNext

Next ==
    \/ \E d \in 0 .. MaxVcpus : ResizeUp(d) \/ ResizeDown(d)
    \/ NotifyHotplug \/ Restore \/ Scan
    \/ \E i \in Ids : Eject(i) \/ RefuseEject(i)

Spec == Init /\ [][Next]_vars

-----------------------------------------------------------------------------
TypeOK ==
    /\ vcpus \in Seq(Ids)
    /\ threads \in [Ids -> Nat]
    /\ active \in [Ids -> BOOLEAN]
    /\ inserting \in [Ids -> BOOLEAN] /\ removing \in [Ids -> BOOLEAN]
    /\ notify \in BOOLEAN /\ ged \in BOOLEAN
    /\ scan \in 0 .. NoScan
    /\ ack \in {"none", "inserting", "tested", "removing"}
    /\ requested \in SUBSET Ids

\* A vCPU is run by one thread at most: activate_vcpus "reuses any inactive
\* vCPUs as well as any that were newly created".
OneThreadPerVcpu == \A i \in Ids : threads[i] <= 1

\* What the guest has not acknowledged yet it will still come across: the
\* notification is due or pending, or the running scan has not passed the vCPU.
ChangeIsAnnounced ==
    \A i \in Ids :
       /\ inserting[i] => \/ notify \/ ged
                          \/ scan < i \/ (scan = i /\ ack \in {"none", "inserting"})
       /\ removing[i] => notify \/ ged \/ scan <= i

\* The vCPUs that run are those the VMM was asked for, and the guest hears of them.
CpusFollowResize == OneThreadPerVcpu /\ ChangeIsAnnounced
=============================================================================
