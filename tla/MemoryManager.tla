---------------------------- MODULE MemoryManager ----------------------------
(***************************************************************************)
(* The guest's RAM (vmm/src/memory_manager.rs): the regions made at boot   *)
(* from the memory zones, the DIMMs that a resize adds and the guest finds *)
(* through the hotplug slots, and the copy of the RAM that a snapshot      *)
(* takes and a restore brings back (vm.rs: resize, snapshot, restore).     *)
(*                                                                         *)
(* An address stands for 128 MiB.  RAM is a function from the addresses    *)
(* that a region backs to contents; the files behind shared zones are the  *)
(* host's.  The virtio-mem part of a zone is the VirtioMem module's; here  *)
(* the guest plugs a prefix of it.                                         *)
(***************************************************************************)
EXTENDS Integers, Sequences, FiniteSets, FiniteSetsExt, SequencesExt

CONSTANTS
    HoleStart, HoleEnd,      \* MEM_32BIT_RESERVED_START, RAM_64BIT_START
    Configs,                 \* the memory configurations tried
    HotplugCount,            \* HOTPLUG_COUNT
    MaxRam,                  \* bound: the largest size asked for
    MaxOps, MaxWrites, MaxSnapshots  \* bounds

VARIABLES dev, guest, host

memoryVars == <<dev, guest, host>>

None == [base |-> -1, len |-> 0]
Span(base, len) == base..(base + len - 1)
Backed(regions) == UNION {Span(r.base, r.len) : r \in regions}
SumSizes(zones) == FoldSeq(LAMBDA z, n : z.size + n, 0, zones)
ZoneIds(cfg) == DOMAIN cfg.zones

-----------------------------------------------------------------------------
(* Boot.                                                                   *)

\* A configuration is its zones (one, made from the global parameters, when
\* cfg.user is FALSE), each [size, hotplug, hotplugged, file, shared]; -1 is
\* a size that is not given.
validate_memory_config(cfg) ==
    /\ Len(cfg.zones) > 0
    /\ \A i \in ZoneIds(cfg) :
          LET z == cfg.zones[i] IN
          /\ z.hotplugged # -1 => z.hotplug # -1 /\ z.hotplugged <= z.hotplug /\ cfg.method # "acpi"
          /\ cfg.user => z.hotplug = -1 \/ cfg.method # "acpi"
          /\ z.hotplug # 0

\* arch_memory_regions: the RAM ranges around the 32-bit hole.
arch_memory_regions(size) ==
    IF size <= HoleStart THEN <<[base |-> 0, len |-> size]>>
    ELSE <<[base |-> 0, len |-> HoleStart], [base |-> HoleEnd, len |-> size - HoleStart]>>

Region(base, len, zone, off) ==
    [base |-> base, len |-> len, zone |-> zone, off |-> off]

\* The zones fill the RAM ranges in order.  One turn of the loop takes the
\* rest of the range or the rest of the zone, whichever ends first.
\* Mutant: a zone that goes on in the next range starts again from its file's
\* beginning.
ZoneStepRestarts(st, ram, zones) ==
    LET ranges == ram[st.r].len - st.ro
        zs == zones[st.z].size - st.zo
        len == Min({zs, ranges})
        new == Region(ram[st.r].base + st.ro, len, st.z, 0)
        pull == zs <= ranges
        consumed == ranges <= zs IN
    [out |-> st.out \cup {new},
     r |-> IF consumed THEN st.r + 1 ELSE st.r, ro |-> IF consumed THEN 0 ELSE st.ro + len,
     z |-> IF pull THEN st.z + 1 ELSE st.z, zo |-> IF pull THEN 0 ELSE st.zo + len]

ZoneStep(st, ram, zones) ==
    LET ranges == ram[st.r].len - st.ro
        zs == zones[st.z].size - st.zo
        len == Min({zs, ranges})
        new == Region(ram[st.r].base + st.ro, len, st.z, st.zo)
        pull == zs <= ranges
        consumed == ranges <= zs IN
    [out |-> st.out \cup {new},
     r |-> IF consumed THEN st.r + 1 ELSE st.r, ro |-> IF consumed THEN 0 ELSE st.ro + len,
     z |-> IF pull THEN st.z + 1 ELSE st.z, zo |-> IF pull THEN 0 ELSE st.zo + len]

create_memory_regions_from_zones(ram, zones) ==
    LET step(st, i) == IF st.r > Len(ram) \/ st.z > Len(zones) THEN st ELSE ZoneStep(st, ram, zones)
        start == [out |-> {}, r |-> 1, ro |-> 0, z |-> 1, zo |-> 0]
    IN FoldLeft(step, start, [i \in 1..(Len(ram) + Len(zones)) |-> i]).out

\* The area next to the RAM that ends at `last`.
start_addr(last) == IF last < HoleStart THEN HoleEnd ELSE last + 1

\* The virtio-mem part of each zone, one after the other above the RAM.
VirtioMemZones(cfg, start) ==
    [i \in ZoneIds(cfg) |->
        IF cfg.method = "acpi" \/ cfg.zones[i].hotplug = -1 THEN None
        ELSE [base |-> start + SumSizes([j \in 1..(i - 1) |->
                                 [size |-> Max({0, cfg.zones[j].hotplug})]]),
              len |-> cfg.zones[i].hotplug]]

\* MemoryManager::new, from the VmConfig.
Boot(cfg) ==
    LET ram == arch_memory_regions(SumSizes(cfg.zones))
        regions == create_memory_regions_from_zones(ram, cfg.zones)
        start == start_addr(Max(Backed(regions)))
        hotplug == SumSizes([i \in ZoneIds(cfg) |-> [size |-> Max({0, cfg.zones[i].hotplug})]])
    IN [regions |-> regions, vmem |-> VirtioMemZones(cfg, start), plugged |-> {},
        device_area |-> start + hotplug,
        boot_ram |-> SumSizes(cfg.zones), current_ram |-> SumSizes(cfg.zones),
        slots |-> [i \in 1..HotplugCount |-> [inserting |-> FALSE, base |-> -1]],
        next |-> 1]

\* What a mapping finds: the file's contents in a shared zone with a file,
\* fresh memory elsewhere.  A private mapping of a file starts from its
\* contents.
InFile(cfg, r) == cfg.zones[r.zone].file /\ r.off # -1
RegionOf(regions, a) == CHOOSE r \in regions : a \in Span(r.base, r.len)
Mapped(cfg, regions, file) ==
    [a \in Backed(regions) |->
        LET r == RegionOf(regions, a) IN
        IF InFile(cfg, r) THEN file[<<r.zone, r.off + a - r.base>>] ELSE 0]

NoSnapshot == [taken |-> FALSE, ram |-> <<>>, copy |-> <<>>, dev |-> <<>>, cfg |-> <<>>]

New ==
    \E cfg \in Configs :
        /\ validate_memory_config(cfg)
        /\ dev = Boot(cfg)
        /\ host = [cfg |-> cfg, ops |-> 0, snaps |-> 0, snap |-> NoSnapshot, running |-> TRUE,
                   file |-> [p \in ZoneIds(cfg) \X (0..MaxRam) |-> 0], ged |-> FALSE, fresh |-> FALSE]
        /\ guest = [ram |-> Mapped(cfg, dev.regions, [p \in ZoneIds(cfg) \X (0..MaxRam) |-> 0]),
                    seen |-> Backed(dev.regions), pc |-> "idle", slot |-> 1, writes |-> 0]

-----------------------------------------------------------------------------
(* Resize by ACPI.                                                         *)

\* hotplug_ram_region: a DIMM of the default zone above all RAM, whose file
\* is not the zone's (-1); the slot says where it is.
hotplug_ram_region(size) ==
    LET start == start_addr(Max(Backed(dev.regions)))
        r == Region(start, size, 1, -1) IN
    /\ dev.next <= HotplugCount
    /\ start + size < dev.device_area
    /\ dev' = [dev EXCEPT !.regions = @ \cup {r}, !.next = @ + 1, !.current_ram = @ + size,
                          !.slots[dev.next] = [inserting |-> TRUE, base |-> start]]
    /\ guest' = [guest EXCEPT !.ram = [a \in DOMAIN @ \cup Span(start, size) |->
                                          IF a \in DOMAIN @ THEN @[a] ELSE 0]]

\* Vm::resize with a memory size: the region, the notification, the VmConfig.
\* A size that is not larger than the RAM only changes the VmConfig.
ResizeAcpi(desired) ==
    /\ host.running /\ host.ops < MaxOps
    /\ ~ host.cfg.user /\ host.cfg.method = "acpi"
    /\ \/ /\ desired > dev.current_ram
          /\ hotplug_ram_region(desired - dev.current_ram)
          /\ host' = [host EXCEPT !.ops = @ + 1, !.ged = TRUE, !.cfg.zones[1].size = desired]
       \/ /\ desired <= dev.current_ram
          /\ host' = [host EXCEPT !.ops = @ + 1, !.cfg.zones[1].size = desired]
          /\ UNCHANGED <<dev, guest>>

\* Vm::resize, Vm::resize_zone with virtio-mem: the size the device is to
\* have, kept in the VmConfig; without zones, no size stands for none.
ResizeVirtioMem(i, size) ==
    /\ host.running /\ host.ops < MaxOps
    /\ dev.vmem[i] # None
    /\ size <= dev.vmem[i].len
    /\ host' = [host EXCEPT !.ops = @ + 1,
                  !.cfg.zones[i].hotplugged = IF size = 0 /\ ~ host.cfg.user THEN -1 ELSE size]
    /\ UNCHANGED <<dev, guest>>

\* The guest follows with a prefix of the zone's area (external: VirtioMem).
GuestPlugs(i) ==
    /\ host.running
    /\ dev.vmem[i] # None /\ host.cfg.zones[i].hotplugged > 0
    /\ LET new == Span(dev.vmem[i].base, host.cfg.zones[i].hotplugged) \ dev.plugged IN
       /\ new # {}
       /\ dev' = [dev EXCEPT !.plugged = @ \cup new]
       /\ guest' = [guest EXCEPT !.ram = [a \in DOMAIN @ \cup new |-> IF a \in DOMAIN @ THEN @[a] ELSE 0],
                                 !.seen = @ \cup new]
    /\ UNCHANGED host

\* MSCN: each slot whose MINS bit is set is notified, then acknowledged.
GuestReadsGed ==
    /\ host.running /\ host.ged /\ guest.pc = "idle"
    /\ host' = [host EXCEPT !.ged = FALSE]
    /\ guest' = [guest EXCEPT !.pc = "scan", !.slot = 1]
    /\ UNCHANGED dev

GuestScansSlot ==
    /\ host.running /\ guest.pc = "scan"
    /\ LET s == dev.slots[guest.slot]
           last == guest.slot = HotplugCount IN
       /\ dev' = [dev EXCEPT !.slots[guest.slot].inserting = FALSE]
       /\ guest' = [guest EXCEPT
              !.seen = IF s.inserting
                       THEN @ \cup UNION {Span(r.base, r.len) : r \in {q \in dev.regions : q.base = s.base}}
                       ELSE @,
              !.pc = IF last THEN "idle" ELSE "scan", !.slot = IF last THEN 1 ELSE @ + 1]
    /\ UNCHANGED host

\* The guest uses the RAM it knows; a shared mapping writes the file.
GuestWrites(a) ==
    /\ host.running /\ guest.writes < MaxWrites
    /\ guest.ram[a] = 0
    /\ guest' = [guest EXCEPT !.ram[a] = 1, !.writes = @ + 1]
    /\ LET rs == {r \in dev.regions : a \in Span(r.base, r.len)} IN
       host' = [host EXCEPT
           !.file = IF \E r \in rs : InFile(host.cfg, r) /\ host.cfg.zones[r.zone].shared
                    THEN LET r == CHOOSE q \in rs : TRUE IN [@ EXCEPT ![<<r.zone, r.off + a - r.base>>] = 1]
                    ELSE @,
           !.fresh = FALSE]
    /\ UNCHANGED dev

-----------------------------------------------------------------------------
(* Snapshot and restore.                                                   *)

\* The addresses that the snapshot copies: what virtio-mem has plugged, and
\* the regions, except those whose file the host can reach by name.
\* Mutant: memory that is shared is taken to be in such a file.
memory_range_table_shared(d, cfg) ==
    d.plugged \cup Backed({r \in d.regions : ~ cfg.zones[r.zone].shared})

memory_range_table(d, cfg) ==
    d.plugged \cup Backed({r \in d.regions : ~ (cfg.zones[r.zone].shared /\ InFile(cfg, r))})

\* Vm::snapshot and Vm::send, with the VM paused, which is then shut down.
Snapshot ==
    /\ host.running /\ host.snaps < MaxSnapshots
    /\ LET table == memory_range_table(dev, host.cfg) IN
       host' = [host EXCEPT !.running = FALSE, !.snaps = @ + 1, !.ged = FALSE,
                   !.snap = [taken |-> TRUE, ram |-> guest.ram, dev |-> dev, cfg |-> host.cfg,
                             copy |-> [a \in table |-> guest.ram[a]]]]
    /\ UNCHANGED <<dev, guest>>

\* MemoryManager::new_from_snapshot: the regions as they were mapped
\* (restore_memory_regions_and_zones), then the copies (fill_saved_regions).
restore_memory_regions_and_zones(snap) == snap.dev
Restore ==
    /\ ~ host.running /\ host.snap.taken
    /\ LET d == restore_memory_regions_and_zones(host.snap)
           mapped == Mapped(host.snap.cfg, d.regions, host.file) IN
       /\ dev' = d
       /\ guest' = [guest EXCEPT !.ram = [a \in Backed(d.regions) \cup d.plugged |->
                       IF a \in DOMAIN host.snap.copy THEN host.snap.copy[a]
                       ELSE IF a \in DOMAIN mapped THEN mapped[a] ELSE 0]]
    /\ host' = [host EXCEPT !.running = TRUE, !.cfg = host.snap.cfg, !.fresh = TRUE]

\* A reboot makes a new MemoryManager from the VmConfig.
Reboot ==
    /\ host.running /\ host.ops > 0
    /\ validate_memory_config(host.cfg) /\ SumSizes(host.cfg.zones) > 0
    /\ dev' = Boot(host.cfg)
    /\ guest' = [guest EXCEPT !.ram = Mapped(host.cfg, dev'.regions, host.file),
                              !.seen = Backed(dev'.regions), !.pc = "idle", !.slot = 1]
    /\ host' = [host EXCEPT !.ged = FALSE, !.fresh = FALSE]

Next ==
    \/ \E n \in 1..MaxRam : ResizeAcpi(n)
    \/ \E i \in DOMAIN dev.vmem, n \in 0..MaxRam : ResizeVirtioMem(i, n)
    \/ \E i \in DOMAIN dev.vmem : GuestPlugs(i)
    \/ GuestReadsGed \/ GuestScansSlot
    \/ \E a \in guest.seen : GuestWrites(a)
    \/ Snapshot \/ Restore \/ Reboot

Spec == New /\ [][Next]_memoryVars

-----------------------------------------------------------------------------
(* Properties.                                                             *)

\* Every zone is mapped whole and once: the regions made from it hold its
\* bytes 0 .. size-1, whatever RAM range they fall in, no two regions overlap
\* and none lies in the 32-bit hole (create_memory_regions_from_zones).
ZonesAreMapped ==
    LET boot == {r \in dev.regions : r.off # -1}
        Bytes(r) == {<<r.zone, r.off + k>> : k \in 0..(r.len - 1)} IN
    /\ \A r, q \in dev.regions : r # q => Span(r.base, r.len) \cap Span(q.base, q.len) = {}
    /\ \A r \in dev.regions : Span(r.base, r.len) \cap HoleStart..(HoleEnd - 1) = {}
    /\ Cardinality(UNION {Bytes(r) : r \in boot}) = dev.boot_ram
    /\ Cardinality(Backed(dev.regions)) = dev.current_ram

\* A VM that is restored has the RAM it had when the snapshot was taken, hot
\* added and virtio-mem memory included, whether it comes back from the copy
\* or from the file behind a shared zone.
RestoredIsSnapshot ==
    host.fresh => \A a \in DOMAIN host.snap.ram :
                      a \in DOMAIN guest.ram /\ guest.ram[a] = host.snap.ram[a]

\* A guest finds every DIMM: one that it has not seen has its bit set and a
\* notification or a scan on its way to the slot.
DimmIsAnnounced ==
    host.running /\ host.snaps = 0 =>
        \A i \in 1..HotplugCount : dev.slots[i].inserting =>
            host.ged \/ (guest.pc = "scan" /\ guest.slot <= i)
=============================================================================
