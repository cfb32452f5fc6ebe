--------------------------------- MODULE Kvm --------------------------------
(***************************************************************************)
(* What KVM provides, in two independent parts: a vCPU (VcpuNew,           *)
(* VcpuNext), and the memory slots with their dirty logs (MemoryNew,       *)
(* MemoryNext).                                                            *)
(***************************************************************************)
EXTENDS Integers, Sequences, FiniteSets, SequencesExt

CONSTANTS
    Arches,        \* subset of {"x86_64", "aarch64"}
    NumMsrs,       \* the first one is the TSC deadline
    MaxSteps, MaxExits, MaxPauses,
    MaxFragments,  \* exits one access of the guest takes
    Boot,          \* sizes of the regions of RAM the VM starts with
    HotplugSize, EpcSections, PmemSize,
    Word,          \* pages in a word of a bitmap (64)
    MaxSlots, MaxWrites, MaxRounds, MaxStarts

VARIABLES dev, guest, host

Now == [dev |-> dev, guest |-> guest, host |-> host]
Become(s) == dev' = s.dev /\ guest' = s.guest /\ host' = s.host

-----------------------------------------------------------------------------
(***************************************************************************)
(* A vCPU of KVM (hypervisor/src/kvm/mod.rs): its exits, which the VMM     *)
(* serves (vmm/src/vm.rs VmOps), and the saving and restoring of its       *)
(* state, part by part (vmm/src/cpu.rs Vcpu::snapshot, Vcpu::restore).     *)
(*                                                                         *)
(* dev is the vCPU inside KVM, guest what the program on it did, host the  *)
(* VMM: the thread of the vCPU, the bus and the saved state.  KVM is       *)
(* external: Get and Set are its ioctls with the effects the comments of   *)
(* state() and set_state() tell of.  A part has the value 0 in a new vCPU. *)
(***************************************************************************)

X86Parts == <<"cpuid", "mp_state", "regs", "sregs", "xsave", "xcrs", "lapic", "fpu", "msrs",
              "vcpu_events">>
ArmParts == <<"core_regs", "sys_regs", "mp_state">>
Parts == ToSet(X86Parts \o ArmParts)
Plain == Parts \ {"msrs"}
Msrs == 1 .. NumMsrs

\* A new vCPU: nothing is set, no access is unfinished.
create_vcpu == [part |-> [p \in Plain |-> 0], msrs |-> [m \in Msrs |-> 0],
                pc |-> 0, size |-> 0, left |-> 0, sipi |-> FALSE]

\* configure() has set the parts of the vCPU the guest starts with.
VcpuNew ==
    /\ dev = [create_vcpu EXCEPT !.part = [p \in Plain |-> IF p = "vcpu_events" THEN 0 ELSE 1],
                                 !.msrs = [m \in Msrs |-> 1]]
    /\ guest = [steps |-> 0, exits |-> 0]
    /\ \E a \in Arches, g \in SUBSET Msrs, s \in SUBSET Msrs :
          host = [arch |-> a, thread |-> "run", accesses |-> 0, pauses |-> 0,
                  badGet |-> g, badSet |-> s, saved |-> create_vcpu]

-----------------------------------------------------------------------------
(* Exits.  An access of the guest counts in the device it reaches; it is   *)
(* finished, and the program goes on, when the vCPU is run again; pc       *)
(* counts the fragments of finished accesses.                              *)

\* An access of a fragment reaches its device, or nothing listens there.
pio_read(s) == [s EXCEPT !.host.accesses = @ + 1]
pio_write(s) == [s EXCEPT !.host.accesses = @ + 1]
mmio_read(s) == [s EXCEPT !.host.accesses = @ + 1]
mmio_write(s) == [s EXCEPT !.host.accesses = @ + 1]

\* What the VMM does with an exit before the thread sees it.
Exit(s, kind) ==
    CASE kind = "IoIn" -> pio_read(s)
      [] kind = "IoOut" -> pio_write(s)
      [] kind = "MmioRead" -> mmio_read(s)
      [] kind = "MmioWrite" -> mmio_write(s)

Kinds == [x86_64 |-> {"IoIn", "IoOut", "MmioRead", "MmioWrite"},
          aarch64 |-> {"MmioRead", "MmioWrite"}]

\* KVM_RUN finishes the access of the last exit; that may take another exit.
Complete(s) ==
    IF s.dev.left > 1 THEN [mmio_read(s) EXCEPT !.dev.left = @ - 1]
    ELSE IF s.dev.left = 1 THEN [s EXCEPT !.dev.left = 0, !.dev.pc = @ + s.dev.size]
    ELSE s

\* The vCPU runs up to its next exit.
run ==
    /\ host.thread = "run"
    /\ LET s == Complete(Now)
       IN \/ dev.left > 0 /\ Become(s)
          \/ /\ dev.left = 0 /\ guest.exits < MaxExits
             /\ \E k \in Kinds[host.arch], n \in 1 .. MaxFragments :
                   Become([Exit(Now, k) EXCEPT !.dev.left = n, !.dev.size = n, !.guest.exits = @ + 1])

\* The program changes a part of its vCPU; an exception becomes pending.
Execute ==
    /\ host.thread = "run" /\ dev.left = 0 /\ guest.steps < MaxSteps
    /\ \/ \E p \in Plain \ {"cpuid"} :
             Become([Now EXCEPT !.dev.part[p] = 2, !.guest.steps = @ + 1])
       \/ \E m \in Msrs : Become([Now EXCEPT !.dev.msrs[m] = 2, !.guest.steps = @ + 1])

\* Another vCPU has sent a start-up interrupt, which KVM has not acted on yet.
Sipi ==
    /\ host.thread = "run" /\ ~dev.sipi /\ guest.steps < MaxSteps
    /\ Become([Now EXCEPT !.dev.sipi = TRUE, !.guest.steps = @ + 1])

\* Mutant: the thread parks as soon as it is told to.
ImmediateExit_parks ==
    /\ host.thread = "run" /\ host.pauses < MaxPauses
    /\ Become([Now EXCEPT !.host.thread = "parked", !.host.pauses = @ + 1])

\* A pause: the vCPU is run once more, with immediate_exit, to finish what the
\* last exit left.
ImmediateExit ==
    /\ host.thread = "run" /\ host.pauses < MaxPauses
    /\ Become([Complete(Now) EXCEPT !.host.thread = "parked", !.host.pauses = @ + 1])

Resume ==
    /\ host.thread \in {"parked", "restored"}
    /\ Become([Now EXCEPT !.host.thread = "run"])

-----------------------------------------------------------------------------
(* The ioctls of KVM.                                                      *)

\* Reading mp_state lets the vCPU act on a start-up interrupt, which gives its
\* registers and its interrupt controller new values.
Accept(v, p) ==
    IF p = "mp_state" /\ v.sipi
    THEN [v EXCEPT !.sipi = FALSE, !.part = [@ EXCEPT !["mp_state"] = 2, !["regs"] = 2,
                                                      !["sregs"] = 2, !["lapic"] = 2]]
    ELSE v

\* KVM_GET_MSRS stops at an MSR it cannot read and returns how many it read;
\* KVM_SET_MSRS likewise.
Until(ms, bad) ==
    LET b == {i \in DOMAIN ms : ms[i] \in bad}
    IN IF b = {} THEN Len(ms) ELSE (CHOOSE i \in b : \A j \in b : i <= j) - 1

\* A new state of p; the registers forget a pending exception, a new APIC base
\* resets the local APIC, extended state needs the CPUID that announces it.
SetPart(v, p, x) ==
    CASE p \in {"regs", "core_regs"} -> [v EXCEPT !.part = [@ EXCEPT ![p] = x, !["vcpu_events"] = 0]]
      [] p = "sregs" -> [v EXCEPT !.part = [@ EXCEPT !["sregs"] = x, !["lapic"] = 0]]
      [] p \in {"xsave", "xcrs"} -> [v EXCEPT !.part[p] = IF v.part["cpuid"] = 0 THEN 0 ELSE x]
      [] OTHER -> [v EXCEPT !.part[p] = x]

\* The TSC deadline is kept only by a configured local APIC.
SetMsr(v, m, x) ==
    [v EXCEPT !.msrs[m] = IF m = 1 /\ v.part["lapic"] = 0 THEN 0 ELSE x]

-----------------------------------------------------------------------------
(* Saving and restoring.                                                   *)

RECURSIVE GetFrom(_, _), SetFrom(_, _, _, _)

\* The MSRs that can be read: after a faulty one the rest is asked for anew.
GetFrom(ms, bad) ==
    LET n == Until(ms, bad)
    IN IF n = Len(ms) THEN ms
       ELSE SubSeq(ms, 1, n) \o GetFrom(SubSeq(ms, n + 2, Len(ms)), bad)

get_msrs(ms, bad) == GetFrom(ms, bad)

\* The MSRs that can be set: after a faulty one the rest is tried.
SetFrom(v, saved, ms, bad) ==
    LET n == Until(ms, bad)
        w == FoldLeft(LAMBDA x, m : SetMsr(x, m, saved.msrs[m]), v, SubSeq(ms, 1, n))
    IN IF n = Len(ms) THEN w
       ELSE SetFrom(w, saved, SubSeq(ms, n + 2, Len(ms)), bad)

set_msrs(v, saved, ms, bad) == SetFrom(v, saved, ms, bad)

AllMsrs == [m \in Msrs |-> m]

\* One part after the other is read from v into the saved state r.
GetPart(vr, p) ==
    LET v == Accept(vr.v, p)
    IN IF p = "msrs"
       THEN [v |-> v, r |-> [vr.r EXCEPT !.msrs = [m \in Msrs |->
                IF m \in ToSet(get_msrs(AllMsrs, host.badGet)) THEN v.msrs[m] ELSE 0]]]
       ELSE [v |-> v, r |-> [vr.r EXCEPT !.part[p] = v.part[p]]]

\* Mutant: mp_state is read at the end.
state_late(v) ==
    FoldLeft(GetPart, [v |-> v, r |-> create_vcpu],
             <<"cpuid", "regs", "sregs", "xsave", "xcrs", "lapic", "fpu", "msrs", "vcpu_events",
               "mp_state">>)

state(v) == FoldLeft(GetPart, [v |-> v, r |-> create_vcpu], X86Parts)

core_registers(vr) == GetPart(vr, "core_regs")
system_registers(vr) == GetPart(vr, "sys_regs")
arm_state(v) ==
    system_registers(core_registers(GetPart([v |-> v, r |-> create_vcpu], "mp_state")))

PutPart(v, saved, p) ==
    IF p = "msrs" THEN set_msrs(v, saved, SelectSeq(AllMsrs, LAMBDA m : saved.msrs[m] > 0), host.badSet)
    ELSE SetPart(v, p, saved.part[p])

\* The parts in the order that KVM asks for.
set_state(v, saved) == FoldLeft(LAMBDA w, p : PutPart(w, saved, p), v, X86Parts)

set_core_registers(v, saved) == PutPart(v, saved, "core_regs")
set_system_registers(v, saved) == PutPart(v, saved, "sys_regs")
arm_set_state(v, saved) ==
    PutPart(set_system_registers(set_core_registers(v, saved), saved), saved, "mp_state")

\* The program counter is one of the registers.
snapshot ==
    /\ host.thread = "parked"
    /\ LET g == IF host.arch = "x86_64" THEN state(dev) ELSE arm_state(dev)
       IN Become([Now EXCEPT !.dev = g.v, !.host.saved = [g.r EXCEPT !.pc = dev.pc],
                             !.host.thread = "saved"])

\* The new vCPU goes on where the saved one stopped.
restore ==
    /\ host.thread = "saved"
    /\ LET w == IF host.arch = "x86_64" THEN set_state(create_vcpu, host.saved)
                ELSE arm_set_state(create_vcpu, host.saved)
       IN Become([Now EXCEPT !.dev = [w EXCEPT !.pc = host.saved.pc], !.host.thread = "restored"])

VcpuNext == run \/ Execute \/ Sipi \/ ImmediateExit \/ Resume \/ snapshot \/ restore

VcpuSpec == VcpuNew /\ [][VcpuNext]_<<dev, guest, host>>

-----------------------------------------------------------------------------

\* An access of the guest reaches its device exactly as often as the program
\* makes it: none is repeated or lost when the vCPU is paused, saved and
\* restored (cpu.rs: "they are completed by returning to KVM_RUN").
AccessedOnce ==
    host.accesses = dev.pc + (IF dev.left > 0 THEN dev.size - dev.left + 1 ELSE 0)

\* What is saved is the vCPU as it is after the saving: reading one part does
\* not change another one that was read before.
SavedIsVcpu ==
    host.thread = "saved" =>
        LET names == IF host.arch = "x86_64" THEN ToSet(X86Parts) \ {"msrs"} ELSE ToSet(ArmParts)
        IN /\ \A p \in names : host.saved.part[p] = dev.part[p]
           /\ host.arch = "x86_64" =>
                \A m \in Msrs \ host.badGet : host.saved.msrs[m] = dev.msrs[m]

\* A restored vCPU has every part as it was saved, whatever the earlier ioctls
\* did to it, and every MSR that one host can read and the other set.
RestoredIsSaved ==
    host.thread = "restored" =>
        LET names == IF host.arch = "x86_64" THEN ToSet(X86Parts) \ {"msrs"} ELSE ToSet(ArmParts)
        IN /\ \A p \in names : dev.part[p] = host.saved.part[p]
           /\ \A m \in Msrs \ host.badSet : dev.msrs[m] = host.saved.msrs[m]

\* What the vCPU promises.
VcpuIsKept == AccessedOnce /\ SavedIsVcpu /\ RestoredIsSaved

-----------------------------------------------------------------------------
(***************************************************************************)
(* The memory slots of KVM and their dirty logs                            *)
(* (hypervisor/src/kvm/mod.rs), the mappings the memory manager keeps      *)
(* (vmm/src/memory_manager.rs), the tables of dirty ranges                 *)
(* (vm-migration/src/protocol.rs) and the transfer of the memory           *)
(* (vmm/src/vm.rs), while vCPUs and devices write.                         *)
(*                                                                         *)
(* dev is KVM and the memory manager, guest the memory of the VM with its  *)
(* writers, host the migration.  Addresses are pages.                      *)
(***************************************************************************)

Sum(s) == FoldLeft(LAMBDA a, n : a + n, 0, s)
RamEnd == Sum(Boot) + HotplugSize
Space == 0 .. RamEnd + Sum(EpcSections) + PmemSize - 1

Region(slot, gpa, size) == [slot |-> slot, gpa |-> gpa, size |-> size]
PagesOf(r) == r.gpa .. r.gpa + r.size - 1

-----------------------------------------------------------------------------
(* Slots.                                                                  *)

\* A slot that is to be logged is noted; logging itself starts later.
create_user_memory_region(d, r, log) ==
    [d EXCEPT !.slots = @ \cup {r}, !.dirty_log_slots = IF log THEN @ \cup {r} ELSE @]

remove_user_memory_region(d, r) ==
    [d EXCEPT !.slots = @ \ {r}, !.logged = @ \ {r.slot},
              !.dirty_log_slots = {x \in @ : x.slot # r.slot}]

allocate_memory_slot(d) == [d EXCEPT !.next_memory_slot = @ + 1]

create_userspace_mapping(d, gpa, size, log) ==
    create_user_memory_region(allocate_memory_slot(d), Region(d.next_memory_slot, gpa, size), log)

remove_userspace_mapping(d, r) == remove_user_memory_region(d, r)

\* A region of RAM: a slot, a mapping to look for dirty pages in, and an entry
\* among the regions of its zone.
Ram(d, gpa, size) ==
    [create_userspace_mapping(d, gpa, size, TRUE)
       EXCEPT !.guest_ram_mappings = Append(@, Region(d.next_memory_slot, gpa, size)),
              !.regions = Append(@, [gpa |-> gpa, length |-> size])]

\* The regions the VM starts with, one after the other.
allocate_address_space(d) ==
    FoldLeft(LAMBDA e, i : Ram(e, Sum(SubSeq(Boot, 1, i - 1)), Boot[i]), d,
             [i \in DOMAIN Boot |-> i])

\* The sections of the EPC follow the RAM and are not logged.
setup_sgx(d) ==
    FoldLeft(LAMBDA e, i : create_userspace_mapping(e, RamEnd + Sum(SubSeq(EpcSections, 1, i - 1)),
                                                    EpcSections[i], FALSE),
             d, [i \in DOMAIN EpcSections |-> i])

MemoryNew ==
    /\ dev = setup_sgx(allocate_address_space(
                [slots |-> {}, dirty_log_slots |-> {}, logged |-> {}, kvmDirty |-> {},
                 bitmap |-> {}, next_memory_slot |-> 0, guest_ram_mappings |-> <<>>,
                 regions |-> <<>>]))
    /\ guest = [mem |-> [p \in Space |-> 0], writes |-> 0, marking |-> {}, running |-> TRUE]
    /\ host = [at |-> "idle", table |-> <<>>, got |-> [p \in Space |-> -1], rounds |-> 0,
               starts |-> 0]

\* add_ram_region, for memory that is plugged.
add_ram_region ==
    /\ host.at = "idle" /\ dev.next_memory_slot < MaxSlots
    /\ \A r \in dev.slots : r.gpa # Sum(Boot)
    /\ Become([Now EXCEPT !.dev = Ram(@, Sum(Boot), HotplugSize)])

PmemAt == RamEnd + Sum(EpcSections)

\* A pmem device comes and goes.
MapPmem ==
    /\ host.at = "idle" /\ dev.next_memory_slot < MaxSlots
    /\ \A r \in dev.slots : r.gpa # PmemAt
    /\ Become([Now EXCEPT !.dev = create_userspace_mapping(@, PmemAt, PmemSize, FALSE)])

UnmapPmem ==
    /\ host.at = "idle"
    /\ \E r \in dev.slots :
          r.gpa = PmemAt /\ Become([Now EXCEPT !.dev = remove_userspace_mapping(@, r)])

-----------------------------------------------------------------------------
(* The dirty log.                                                          *)

\* Mutant: only the slots the VM started with.
kvm_start_dirty_log_boot(d) ==
    [d EXCEPT !.logged = {r.slot : r \in {x \in d.dirty_log_slots : x.gpa < Sum(Boot)}},
              !.kvmDirty = {}]

\* Every slot that is to be logged is set again, with the flag.
kvm_start_dirty_log(d) ==
    [d EXCEPT !.logged = {r.slot : r \in d.dirty_log_slots}, !.kvmDirty = {}]

kvm_stop_dirty_log(d) == [d EXCEPT !.logged = {}]

get_dirty_log(d, r) == d.kvmDirty \cap PagesOf(r)

RamPages == UNION {dev.regions[i].gpa .. dev.regions[i].gpa + dev.regions[i].length - 1 :
                      i \in DOMAIN dev.regions}

\* The bitmap of a region, in words, and the ranges of its set bits.
Words(pages, r) ==
    [i \in 1 .. (r.size + Word - 1) \div Word |->
        [j \in 1 .. Word |-> r.gpa + (i - 1) * Word + j - 1 \in pages]]

\* A dirty page starts a range or makes it longer, a clean one ends it.
from_bitmap(bitmap, start) ==
    LET Step(acc, k) ==
            LET i == (k - 1) \div Word  j == (k - 1) % Word
                dirty == bitmap[i + 1][j + 1]
                open == acc.open.length > 0
            IN IF dirty
               THEN [acc EXCEPT !.open = IF open THEN [@ EXCEPT !.length = @ + 1]
                                         ELSE [gpa |-> start + i * Word + j, length |-> 1]]
               ELSE IF open THEN [table |-> Append(acc.table, acc.open),
                                  open |-> [gpa |-> 0, length |-> 0]]
               ELSE acc
        end == FoldLeft(Step, [table |-> <<>>, open |-> [gpa |-> 0, length |-> 0]],
                        [k \in 1 .. Len(bitmap) * Word |-> k])
    IN IF end.open.length > 0 THEN Append(end.table, end.open) ELSE end.table

\* Mutant: the pages the devices wrote are not looked at.
dirty_log_of_kvm(d) ==
    LET Of(r) == from_bitmap(Words(get_dirty_log(d, r), r), r.gpa)
    IN [table |-> FoldLeft(LAMBDA t, r : t \o Of(r), <<>>, d.guest_ram_mappings),
        dev |-> [d EXCEPT !.kvmDirty = {}, !.bitmap = @ \ RamPages]]

\* For every mapping of RAM, the pages KVM has seen written and those the
\* devices have; both logs start anew.
dirty_log(d) ==
    LET Of(r) == from_bitmap(Words(get_dirty_log(d, r) \cup d.bitmap, r), r.gpa)
    IN [table |-> FoldLeft(LAMBDA t, r : t \o Of(r), <<>>, d.guest_ram_mappings),
        dev |-> [d EXCEPT !.kvmDirty = {}, !.bitmap = @ \ RamPages]]

-----------------------------------------------------------------------------
(* A migration.                                                            *)

start_dirty_log ==
    /\ host.at = "idle" /\ host.starts < MaxStarts
    /\ Become([Now EXCEPT !.dev = kvm_start_dirty_log(@), !.host.at = "reset",
                          !.host.starts = @ + 1, !.host.rounds = 0,
                          !.host.got = [p \in Space |-> -1]])

memory_range_table == dev.regions

ResetBitmaps ==
    /\ host.at = "reset"
    /\ Become([Now EXCEPT !.dev.bitmap = {}, !.host.at = "send", !.host.table = memory_range_table])

\* A part of a range, as much as the socket takes at once, is sent and received.
send_memory_regions ==
    /\ host.at \in {"send", "last"} /\ host.table # <<>>
    /\ LET r == Head(host.table)
       IN \E n \in 1 .. r.length :
             Become([Now EXCEPT
                !.host.got = [p \in Space |-> IF p \in r.gpa .. r.gpa + n - 1
                                              THEN guest.mem[p] ELSE @[p]],
                !.host.table = IF n = r.length THEN Tail(@)
                               ELSE <<[gpa |-> r.gpa + n, length |-> r.length - n]>> \o Tail(@)])

\* A round: the pages written since the last one.
Round ==
    /\ host.at = "send" /\ host.table = <<>> /\ host.rounds < MaxRounds /\ guest.running
    /\ LET l == dirty_log(dev)
       IN Become([Now EXCEPT !.dev = l.dev, !.host.table = l.table, !.host.rounds = @ + 1])

\* The VM is paused; its devices finish what they do.
PauseVm ==
    /\ host.at = "send" /\ host.table = <<>> /\ guest.running /\ guest.marking = {}
    /\ Become([Now EXCEPT !.guest.running = FALSE])

LastRound ==
    /\ host.at = "send" /\ host.table = <<>> /\ ~guest.running
    /\ LET l == dirty_log(dev)
       IN Become([Now EXCEPT !.dev = l.dev, !.host.table = l.table, !.host.at = "last"])

stop_dirty_log ==
    /\ host.at = "last" /\ host.table = <<>>
    /\ Become([Now EXCEPT !.dev = kvm_stop_dirty_log(@), !.host.at = "done"])

\* A migration that fails: the log is stopped and the VM runs on.
Fails ==
    /\ host.at \in {"send", "last", "done"}
    /\ Become([Now EXCEPT !.dev = kvm_stop_dirty_log(@), !.host.at = "idle",
                          !.host.table = <<>>, !.guest.running = TRUE])

-----------------------------------------------------------------------------
(* The writers.  A device writes first and marks the page then.            *)

VcpuWrites(p) ==
    /\ guest.running /\ guest.writes < MaxWrites
    /\ \E r \in dev.slots :
          /\ p \in PagesOf(r)
          /\ Become([Now EXCEPT !.guest.mem[p] = @ + 1, !.guest.writes = @ + 1,
                                !.dev.kvmDirty = IF r.slot \in dev.logged THEN @ \cup {p} ELSE @])

DeviceWrites(p) ==
    /\ guest.running /\ guest.writes < MaxWrites /\ p \in RamPages
    /\ Become([Now EXCEPT !.guest.mem[p] = @ + 1, !.guest.writes = @ + 1,
                          !.guest.marking = @ \cup {p}])

DeviceMarks ==
    \E p \in guest.marking :
        Become([Now EXCEPT !.guest.marking = @ \ {p}, !.dev.bitmap = @ \cup {p}])

MemoryNext ==
    \/ add_ram_region \/ MapPmem \/ UnmapPmem \/ start_dirty_log \/ ResetBitmaps
    \/ send_memory_regions \/ Round \/ PauseVm \/ LastRound \/ stop_dirty_log \/ Fails
    \/ (\E p \in Space : VcpuWrites(p) \/ DeviceWrites(p)) \/ DeviceMarks

MemorySpec == MemoryNew /\ [][MemoryNext]_<<dev, guest, host>>

-----------------------------------------------------------------------------

\* When the last round is sent, the other side has the RAM of the paused VM:
\* no write of a vCPU or a device in an earlier round is lost, also in a second
\* try after a migration that failed.
AllIsSent == host.at = "done" => \A p \in RamPages : host.got[p] = guest.mem[p]

\* The table of a round names every dirty page once, and no other page, in
\* ranges that do not touch (protocol.rs from_bitmap).
TableIsDirtyPages ==
    \A i \in DOMAIN dev.guest_ram_mappings :
        LET r == dev.guest_ram_mappings[i]
            dirty == (get_dirty_log(dev, r) \cup dev.bitmap) \cap PagesOf(r)
            t == from_bitmap(Words(dirty, r), r.gpa)
        IN /\ UNION {t[k].gpa .. t[k].gpa + t[k].length - 1 : k \in DOMAIN t} = dirty
           /\ \A k \in 1 .. Len(t) - 1 : t[k].gpa + t[k].length < t[k + 1].gpa

\* No two slots of KVM share a page or a number (kvm/mod.rs: "guest regions are
\* guaranteed not to overlap").
SlotsAreApart ==
    \A a, b \in dev.slots :
        a # b => a.slot # b.slot /\ PagesOf(a) \cap PagesOf(b) = {}

\* What the memory promises.
MemoryIsSent == AllIsSent /\ TableIsDirtyPages /\ SlotsAreApart

=============================================================================
