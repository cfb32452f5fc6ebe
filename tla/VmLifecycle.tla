----------------------------- MODULE VmLifecycle -----------------------------
(***************************************************************************)
(* A VM from its construction to its snapshot and back (vmm/src/vm.rs,     *)
(* x86_64 without TDX): the kernel is loaded by a thread of its own while  *)
(* the VMM thread creates devices and ACPI tables, the guest's clock is    *)
(* taken and put back around a pause, and a snapshot is three files of     *)
(* which a restore makes the parts of a VM one after the other.            *)
(*                                                                         *)
(* The VMM thread serves one request at a time; dev.at says where it is in *)
(* a request that the guest or the loader can overtake.                    *)
(***************************************************************************)
EXTENDS Integers, Sequences, FiniteSets

CONSTANTS
    Kernels,     \* the kernel files: "pvh", "nopvh", "firmware", "large", "bad"
    Initramfs,   \* "none", "fits", "large"
    Faults,      \* what the host may refuse: "devices", "restore", "disk", "short"
    Retries,     \* a VM that failed to boot or to be restored is used further
    EarlyReads,  \* the guest reads its clock while it is paused or resumed
    MaxOps,      \* bound: the requests
    MaxClock     \* bound: the host's clock

VARIABLES dev, guest, host

lifeVars == <<dev, guest, host>>

Parts == <<"memory", "device_manager", "cpus", "devices">>
Files == {"config", "state", "memory"}
NoClock == -1

NoVm == [state |-> "none", at |-> "idle", handle |-> FALSE, loader |-> "none", entry |-> FALSE,
         vcpus |-> "none", system |-> FALSE, parts |-> <<>>, signals |-> 0, saved |-> NoClock,
         failed |-> FALSE]

New ==
    /\ dev = NoVm
    /\ guest = [seen |-> 0, back |-> FALSE]
    /\ \E k \in Kernels, i \in Initramfs :
          host = [kernel |-> k, initramfs |-> i, clock |-> 0, ops |-> 0,
                  files |-> [f \in Files |-> "none"], taken |-> [seen |-> 0, clock |-> 0], told |-> FALSE]

Request == dev.at = "idle" /\ host.ops < MaxOps
Counted == host' = [host EXCEPT !.ops = @ + 1]
Usable == Retries \/ ~ dev.failed

-----------------------------------------------------------------------------
(* Construction and boot.                                                  *)

\* The loader runs beside the construction, unless a snapshot is restored.
load_kernel_async(vm, restoring) ==
    IF restoring THEN vm ELSE [vm EXCEPT !.handle = TRUE, !.loader = "running"]

\* A VM that is dropped leaves its loader running, with memory nobody uses.
new_from_memory_manager(restoring) ==
    [load_kernel_async(NoVm, restoring) EXCEPT !.state = "Created"]

\* Vm::new, after which vm_boot boots it: devices are created meanwhile.
Vm_new ==
    /\ Request /\ dev.state = "none"
    /\ \/ dev' = [new_from_memory_manager(FALSE) EXCEPT !.at = "boot"]
       \/ "devices" \in Faults /\ dev' = NoVm
    /\ host' = [host EXCEPT !.ops = @ + 1, !.clock = 0]
    /\ guest' = [seen |-> 0, back |-> FALSE]

\* In the loader thread: an ELF file with a PVH entry, or the raw firmware,
\* which gets memory of its own below 4 GiB if it is not too large for it.
load_kernel ==
    /\ dev.loader = "running"
    /\ dev' = [dev EXCEPT !.loader = CASE host.kernel = "pvh" -> "kernel"
                                       [] host.kernel = "firmware" -> "firmware"
                                       [] OTHER -> "error"]
    /\ UNCHANGED <<guest, host>>

\* A thread is started; the handle of an earlier one is lost.
setup_signal_handler(vm) == [vm EXCEPT !.signals = @ + 1]

\* Vm::boot, of a new VM or once more of one that failed.
BootBegin ==
    /\ \/ dev.at = "boot" /\ UNCHANGED host
       \/ Request /\ Usable /\ dev.state = "Created" /\ Counted
    /\ dev' = [setup_signal_handler(dev) EXCEPT !.at = "join"]
    /\ UNCHANGED guest

\* The result of the loader can be taken once.
entry_point ==
    /\ dev.at = "join"
    /\ dev.handle => dev.loader # "running"
    /\ dev' = IF dev.handle /\ dev.loader = "error"
              THEN [dev EXCEPT !.at = "idle", !.handle = FALSE, !.failed = TRUE]
              ELSE [dev EXCEPT !.at = "configure", !.handle = FALSE, !.entry = dev.handle]
    /\ UNCHANGED <<guest, host>>

load_initramfs == host.initramfs # "large"

\* The tables and the initramfs are written if there is an entry point.
configure_system(vm) ==
    IF ~ vm.entry THEN vm
    ELSE IF load_initramfs THEN [vm EXCEPT !.system = TRUE]
    ELSE [vm EXCEPT !.failed = TRUE]

\* The vCPUs are created, memory is filled in, the vCPUs are started.
BootEnd ==
    LET vm == configure_system(dev) IN
    /\ dev.at = "configure"
    /\ dev' = IF dev.entry /\ ~ vm.system THEN [vm EXCEPT !.at = "idle", !.vcpus = "created"]
              ELSE [vm EXCEPT !.at = "idle", !.vcpus = "running", !.state = "Running"]
    /\ UNCHANGED <<guest, host>>

-----------------------------------------------------------------------------
(* Pause and resume.                                                       *)

Started(v) == IF dev.vcpus = "none" THEN "none" ELSE v

\* The clock is read before the vCPUs are stopped.
PauseBegin ==
    /\ Request /\ Usable
    /\ dev.state \in {"Created", "Running"}
    /\ dev' = [dev EXCEPT !.at = "pausing", !.saved = host.clock]
    /\ Counted /\ UNCHANGED guest

PauseEnd ==
    /\ dev.at = "pausing"
    /\ dev' = [dev EXCEPT !.at = "idle", !.state = "Paused", !.vcpus = Started("paused")]
    /\ UNCHANGED <<guest, host>>

\* The vCPUs run before the clock is put back.  Booting a paused VM resumes it.
ResumeBegin ==
    /\ Request /\ Usable
    /\ dev.state \in {"Created", "Paused"}
    /\ dev' = [dev EXCEPT !.at = "resuming", !.vcpus = Started("running")]
    /\ Counted /\ UNCHANGED guest

\* Mutant: the saved clock is not put back.
ResumeEnd_keeps_clock ==
    /\ dev.at = "resuming"
    /\ dev' = [dev EXCEPT !.at = "idle", !.state = "Running"]
    /\ UNCHANGED <<guest, host>>

ResumeEnd ==
    /\ dev.at = "resuming"
    /\ host' = [host EXCEPT !.clock = IF dev.saved # NoClock THEN dev.saved ELSE @]
    /\ dev' = [dev EXCEPT !.at = "idle", !.state = "Running"]
    /\ UNCHANGED guest

\* A VM that is stopped is gone, whether or not the transition was a legal one.
Shutdown ==
    /\ Request /\ dev.state # "none"
    /\ dev' = NoVm
    /\ Counted /\ UNCHANGED guest

-----------------------------------------------------------------------------
(* Snapshot and restore.                                                   *)

\* Vm::snapshot: all the parts of a paused VM.
snapshot == [seen |-> guest.seen, clock |-> dev.saved]

\* Vm::send: the configuration, the state, the memory.  No file may exist yet;
\* what write() returns is not looked at, except for memory.
send(written, cut) ==
    LET free == \A f \in Files : host.files[f] = "none"
        done == IF free THEN {written[i] : i \in DOMAIN written} ELSE {}
    IN host' = [host EXCEPT !.ops = @ + 1, !.told = done = Files,
                            !.taken = IF done # {} THEN snapshot ELSE @,
                            !.files = [f \in Files |-> IF f \notin done THEN @[f]
                                                       ELSE IF f = cut THEN "part" ELSE "whole"]]

vm_snapshot ==
    /\ Request /\ Usable
    /\ dev.state = "Paused"
    /\ \E written \in {<<"config", "state", "memory">>}
           \cup (IF "disk" \in Faults THEN {<<>>, <<"config">>, <<"config", "state">>} ELSE {}) :
       \E cut \in (IF "short" \in Faults THEN {"config", "state"} ELSE {}) \cup {"none"} :
          send(written, cut)
    /\ UNCHANGED <<dev, guest>>

\* Someone clears the directory for the next snapshot.
Clear ==
    /\ host.files # [f \in Files |-> "none"] /\ dev.at = "idle"
    /\ host' = [host EXCEPT !.files = [f \in Files |-> "none"], !.told = FALSE]
    /\ UNCHANGED <<dev, guest>>

\* recv_vm_config and recv_vm_state read what was written, all of it.
recv_vm == host.files["config"] = "whole" /\ host.files["state"] = "whole"

\* MemoryManager::new_from_snapshot fills memory from its file.
memory_from_snapshot == host.files["memory"] = "whole"

\* Vm::new_from_snapshot: the parts are not there yet.
new_from_snapshot ==
    /\ Request /\ dev.state = "none"
    /\ dev' = IF recv_vm /\ memory_from_snapshot
              THEN [new_from_memory_manager(TRUE) EXCEPT !.at = "restoring"]
              ELSE NoVm
    /\ host' = [host EXCEPT !.ops = @ + 1, !.clock = 0]
    /\ UNCHANGED guest

\* Vm::restore, part by part; the first failure ends it and the VM stays.
restore ==
    /\ dev.at = "restoring" /\ Len(dev.parts) < Len(Parts)
    /\ \/ dev' = [dev EXCEPT !.parts = Append(@, Parts[Len(@) + 1])]
       \/ "restore" \in Faults /\ dev' = [dev EXCEPT !.at = "idle", !.failed = TRUE]
    /\ UNCHANGED <<guest, host>>

\* The vCPUs are started paused, with the state and the clock of the snapshot.
start_restored_vcpus ==
    /\ dev.at = "restoring" /\ dev.parts = Parts
    /\ dev' = [setup_signal_handler(dev) EXCEPT !.at = "idle", !.vcpus = "paused",
                                                !.state = "Paused", !.saved = host.taken.clock]
    /\ guest' = [seen |-> host.taken.seen, back |-> FALSE]
    /\ UNCHANGED host

-----------------------------------------------------------------------------
(* The guest and the host.                                                 *)

Tick ==
    /\ host.clock < MaxClock
    /\ host' = [host EXCEPT !.clock = @ + 1]
    /\ UNCHANGED <<dev, guest>>

\* The guest reads its clock.
GuestRuns ==
    /\ dev.vcpus = "running"
    /\ EarlyReads \/ dev.at = "idle"
    /\ guest' = [seen |-> host.clock,
                 back |-> guest.back \/ host.clock < guest.seen]
    /\ UNCHANGED <<dev, host>>

Next ==
    \/ Vm_new \/ load_kernel \/ BootBegin \/ entry_point \/ BootEnd
    \/ PauseBegin \/ PauseEnd \/ ResumeBegin \/ ResumeEnd \/ Shutdown
    \/ vm_snapshot \/ Clear \/ new_from_snapshot \/ restore \/ start_restored_vcpus
    \/ Tick \/ GuestRuns

Spec == New /\ [][Next]_lifeVars

-----------------------------------------------------------------------------
(* Properties.                                                             *)

\* A VM that runs has a guest: its vCPUs run a kernel that is in memory with
\* the tables it needs, or all that was in a snapshot, whichever of the VMM and
\* the loader was faster and whatever failed before.
RunningHasGuest ==
    dev.state = "Running" =>
        /\ dev.vcpus \in {"running", "paused"}
        /\ (dev.entry /\ dev.system /\ dev.loader \in {"kernel", "firmware"}) \/ dev.parts = Parts

\* A snapshot that was reported as taken can be restored.
TakenIsWhole == host.told => \A f \in Files : host.files[f] = "whole"

\* The guest never sees its clock go back, over pauses and restores.
ClockGoesOn == ~ guest.back

\* At most one signal handler thread per VM, so that shutdown can end it.
OneSignalHandler == dev.signals <= 1

\* What is started, paused, saved and restored is one guest.
LifeGoesOn == RunningHasGuest /\ TakenIsWhole /\ ClockGoesOn /\ OneSignalHandler
=============================================================================
