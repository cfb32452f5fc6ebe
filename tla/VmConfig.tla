------------------------------ MODULE VmConfig -------------------------------
(***************************************************************************)
(* The configuration of a VM (vmm/src/config.rs) and the requests that     *)
(* change it, before the VM is booted and while it runs (vmm/src/lib.rs,   *)
(* vmm/src/vm.rs).  The configuration and the running VM share one object, *)
(* and a reboot builds the next VM from it.                                *)
(*                                                                         *)
(* An identifier is <<owner, n>>: <<"user", n>> was chosen by the user,    *)
(* <<kind, n>> is the name the VMM generates for a device of that kind     *)
(* (the user may choose it too), <<"internal", n>> starts with "__", and   *)
(* NoId is absent.  Sizes are in units of memory.                          *)
(***************************************************************************)
EXTENDS Integers, Sequences, FiniteSets, SequencesExt, FiniteSetsExt

CONSTANTS
    Configs,     \* the configurations a VM is created with
    Devices,     \* the devices that are added
    MaxOps,      \* bound: the requests
    Vcpus,       \* the numbers of vCPUs a resize asks for
    Sizes,       \* the memory and balloon sizes a resize asks for
    Careful,     \* a resize asks for what the rest of the configuration allows
    Faults       \* a device or a restored VM may fail to be created

VARIABLES dev, guest, host

configVars == <<dev, guest, host>>

NoId == <<"none", 0>>
None == -1          \* an absent number
NoConfig == [none |-> TRUE]
Present(c) == "devs" \in DOMAIN c

-----------------------------------------------------------------------------
(* Validation.                                                             *)

Ram(c) == c.size + FoldLeft(LAMBDA sum, z : sum + z.size, 0, c.zones)

\* The segment of a device; without a platform section nothing is checked.
OnSegment(c, d) ==
    c.segments # None => d.seg < c.segments /\ (d.seg \in c.iommu_segments => d.iommu)

\* A device the IOMMU cannot stand before.
OnPlainSegment(c, d) ==
    c.segments # None => d.seg < c.segments /\ d.seg \notin c.iommu_segments

ValidDisk(c, d) ==
    /\ d.vhost => c.shared /\ ~ d.iommu
    /\ d.queues <= c.boot
    /\ OnSegment(c, d)

ValidNet(c, d) ==
    /\ d.vhost => c.shared /\ ~ d.iommu
    /\ d.queues >= 2 /\ d.queues \div 2 <= c.boot
    /\ OnSegment(c, d)

ValidFs(c, d) == c.shared /\ d.queues <= c.boot /\ OnPlainSegment(c, d)
ValidUserDevice(c, d) == c.shared /\ OnPlainSegment(c, d)

ValidDevice(c, d) ==
    CASE d.kind = "disk" -> ValidDisk(c, d)
      [] d.kind = "net" -> ValidNet(c, d)
      [] d.kind = "fs" -> ValidFs(c, d)
      [] d.kind = "user" -> ValidUserDevice(c, d)
      [] OTHER -> OnSegment(c, d)          \* pmem, vdpa, vfio, vsock

\* The identifiers of the devices and of the memory zones, in one namespace.
Ids(c) ==
    SelectSeq([i \in DOMAIN c.devs |-> c.devs[i].id] \o [i \in DOMAIN c.zones |-> c.zones[i].id],
              LAMBDA id : id # NoId)

validate_identifiers(c) ==
    /\ \A i \in DOMAIN Ids(c) : Ids(c)[i][1] # "internal"
    /\ IsInjective(Ids(c))

ValidPlatform(c) ==
    c.segments # None => c.segments > 0 /\ \A s \in c.iommu_segments : s < c.segments

ValidCpus(c) ==
    /\ c.boot <= c.max
    /\ c.topology # None => c.topology # 0 /\ c.topology % 256 = c.max

validate(c) ==
    /\ c.kernel /\ ~ c.two_ttys
    /\ ValidCpus(c)
    /\ \A i \in DOMAIN c.devs : ValidDevice(c, c.devs[i])
    /\ c.balloon # None => c.balloon < Ram(c)
    /\ validate_identifiers(c)
    /\ ValidPlatform(c)

\* Validation also turns the virtual IOMMU on, and never off.
NeedsIommu(c) ==
    c.iommu \/ (\E i \in DOMAIN c.devs : c.devs[i].iommu)
            \/ (c.segments # None /\ c.iommu_segments # {})

\* Memory is one size, or zones; what is plugged fits what may be plugged.
validate_memory_config(c) ==
    IF c.size # 0
    THEN /\ c.zones = <<>>
         /\ c.hotplugged # None =>
                c.hotplug # None /\ c.hotplugged <= c.hotplug /\ c.method # "acpi"
    ELSE /\ c.zones # <<>>
         /\ \A i \in DOMAIN c.zones :
               LET z == c.zones[i] IN
               /\ z.hotplug # None => c.method # "acpi"
               /\ z.hotplugged # None => z.hotplug # None /\ z.hotplugged <= z.hotplug

-----------------------------------------------------------------------------
(* The VM.                                                                 *)

Off == [on |-> FALSE]

New ==
    /\ dev = [config |-> NoConfig, vm |-> Off]
    /\ guest = 0                                    \* devices ejected
    /\ host = [ops |-> 0, failed |-> FALSE, saved |-> NoConfig]

\* next_device_name: the first free number from the counter on.
next_device_name(kind, cnt, used) ==
    LET n == Min({k \in cnt..(cnt + Cardinality(used)) : <<kind, k>> \notin used}) IN
    [id |-> <<kind, n>>, cnt |-> n + 1]

\* The devices of a configuration in turn; generated names are written back.
create_devices(c) ==
    LET boot == ToSet(Ids(c))
        Make(acc, d) ==
            IF d.id # NoId
            THEN [acc EXCEPT !.devs = Append(@, d), !.tree = @ \cup {d.id}]
            ELSE LET name == next_device_name(d.kind, acc.cnt, boot \cup acc.tree) IN
                 [devs |-> Append(acc.devs, [d EXCEPT !.id = name.id]),
                  tree |-> acc.tree \cup {name.id}, cnt |-> name.cnt]
    IN FoldLeft(Make, [devs |-> <<>>, tree |-> {}, cnt |-> 0], c.devs)

IsIommuSegment(c, seg) == c.segments # None /\ seg \in c.iommu_segments

\* Vm::new: the VM and the configuration as it leaves it, or no VM.
Vm_new(c) ==
    LET made == create_devices(c)
        checked == [c EXCEPT !.iommu = NeedsIommu(c)]
    IN IF ~ validate(c) \/ ~ validate_memory_config(c) THEN [ok |-> FALSE]
       ELSE [ok |-> TRUE, config |-> [checked EXCEPT !.devs = made.devs],
             vm |-> [on |-> TRUE, tree |-> made.tree, boot_ids |-> ToSet(Ids(c)),
                     cnt |-> made.cnt, pending |-> {}, vcpus |-> c.boot,
                     boot_ram |-> Ram(c), current_ram |-> Ram(c), balloon |-> c.balloon,
                     zoned |-> c.size = 0, iommu |-> checked.iommu]]

CanBoot(c) == validate(c) /\ validate_memory_config(c)

\* A request ends: what it leaves of the configuration and of the VM.
Ends(ok, config, vm) ==
    /\ host.ops < MaxOps
    /\ host' = [host EXCEPT !.ops = @ + 1, !.failed = ~ ok]
    /\ dev' = [dev EXCEPT !.config = config, !.vm = vm]
    /\ UNCHANGED guest
Fails == Ends(FALSE, dev.config, dev.vm)

\* The command line: the sections were parsed one by one into c, which is
\* validated before a VM is created with it.
VmConfig_parse(c) ==
    /\ host.ops = 0
    /\ validate(c)
    /\ Ends(TRUE, [c EXCEPT !.iommu = NeedsIommu(c)], Off)

\* A request is validated when the VM is booted, not before.
vm_create(c) ==
    IF Present(dev.config) THEN Fails ELSE Ends(TRUE, c, dev.vm)

vm_boot ==
    LET built == Vm_new(dev.config) IN
    IF ~ Present(dev.config) \/ dev.vm.on THEN Fails
    ELSE IF ~ built.ok THEN Ends(FALSE, dev.config, Off)
    ELSE Ends(TRUE, built.config, built.vm)

\* The old VM is stopped before the new one is built.
vm_reboot ==
    LET built == Vm_new(dev.config) IN
    IF ~ dev.vm.on THEN Fails
    ELSE IF ~ built.ok THEN Ends(FALSE, dev.config, Off)
    ELSE Ends(TRUE, built.config, built.vm)

vm_shutdown == IF dev.vm.on THEN Ends(TRUE, dev.config, Off) ELSE Fails
vm_delete == Ends(TRUE, NoConfig, Off)

\* A snapshot keeps the configuration; a VM restored from it has the devices,
\* the vCPUs and the names it had.  A restore that fails midway leaves the
\* configuration behind.
vm_snapshot ==
    /\ host.ops < MaxOps /\ dev.vm.on /\ dev.vm.pending = {}
    /\ host' = [host EXCEPT !.ops = @ + 1, !.saved = [config |-> dev.config, vm |-> dev.vm]]
    /\ UNCHANGED <<dev, guest>>

vm_restore ==
    LET s == host.saved.config IN
    /\ "config" \in DOMAIN host.saved
    /\ \/ Present(dev.config) /\ Fails
       \/ ~ Present(dev.config) /\ ~ CanBoot(s) /\ Ends(FALSE, s, Off)
       \/ /\ ~ Present(dev.config) /\ CanBoot(s)
          /\ \/ Ends(TRUE, [s EXCEPT !.iommu = NeedsIommu(s)],
                     [host.saved.vm EXCEPT !.iommu = NeedsIommu(s), !.boot_ids = ToSet(Ids(s))])
             \/ "restore" \in Faults /\ Ends(FALSE, s, Off)

-----------------------------------------------------------------------------
(* Devices.                                                                *)

With(c, d) == [c EXCEPT !.devs = Append(@, d)]

\* Mutant: the device that was asked for is kept, not the one that was made.
AddLive_unnamed(c, d) ==
    LET name == next_device_name(d.kind, dev.vm.cnt, dev.vm.boot_ids \cup dev.vm.tree) IN
    IF d.id \in dev.vm.tree \/ (d.iommu /\ ~ IsIommuSegment(c, d.seg)) THEN Fails
    ELSE Ends(TRUE, With(c, d),
              [dev.vm EXCEPT !.tree = @ \cup {IF d.id = NoId THEN name.id ELSE d.id}])

\* DeviceManager::add_* and Vm::add_*: the device gets a name, is made, and is
\* then kept in the configuration.  With iommu it has to be on a segment behind
\* the IOMMU.
AddLive(c, d) ==
    LET name == next_device_name(d.kind, dev.vm.cnt, dev.vm.boot_ids \cup dev.vm.tree)
        named == IF d.id = NoId THEN [d EXCEPT !.id = name.id] ELSE d
        vm == [dev.vm EXCEPT !.cnt = IF d.id = NoId THEN name.cnt ELSE @]
    IN IF d.id \in dev.vm.tree \/ (d.iommu /\ ~ IsIommuSegment(c, d.seg)) THEN Fails
       ELSE \/ Ends(TRUE, With(c, named), [vm EXCEPT !.tree = @ \cup {named.id}])
            \/ "device" \in Faults /\ Ends(FALSE, c, vm)

\* The change is validated in a copy of the configuration, then made.
Add(d) ==
    LET c == dev.config IN
    IF ~ Present(c) THEN Fails
    ELSE IF ~ validate(With(c, d)) THEN Fails
    ELSE IF dev.vm.on THEN AddLive(c, d)
    ELSE Ends(TRUE, With(c, d), dev.vm)

vm_add_device(d) == d.kind \in {"vfio", "user"} /\ Add(d)
vm_add_virtio(d) == d.kind \in {"disk", "fs", "pmem", "net", "vdpa"} /\ Add(d)

\* A VM has one vsock device.
vm_add_vsock(d) ==
    LET c == dev.config IN
    /\ d.kind = "vsock"
    /\ IF Present(c) /\ \E i \in DOMAIN c.devs : c.devs[i].kind = "vsock" THEN Fails ELSE Add(d)

\* The guest is asked to give the device up; the configuration drops it now.
vm_remove_device(id) ==
    IF ~ dev.vm.on THEN Fails
    ELSE IF id \notin dev.vm.tree THEN Fails
    ELSE Ends(TRUE, [dev.config EXCEPT !.devs = SelectSeq(@, LAMBDA d : d.id # id)],
              [dev.vm EXCEPT !.pending = @ \cup {id}])

Eject(id) ==
    /\ dev.vm.on
    /\ id \in dev.vm.pending
    /\ dev' = [dev EXCEPT !.vm.pending = @ \ {id}, !.vm.tree = @ \ {id}]
    /\ UNCHANGED <<guest, host>>

-----------------------------------------------------------------------------
(* Sizes.                                                                  *)

\* Nothing is checked when the VM does not run: the next boot does.
ResizeConfig(c, vcpus, ram, balloon) ==
    [c EXCEPT !.boot = IF vcpus = None THEN @ ELSE vcpus,
              !.size = IF ram = None THEN @ ELSE ram,
              !.balloon = IF balloon = None \/ @ = None THEN @ ELSE balloon]

\* MemoryManager::resize
CanResizeMemory(c, vm, ram) ==
    /\ ~ vm.zoned
    /\ IF c.method = "acpi"
       THEN ram > vm.current_ram => c.hotplug # None /\ ram - vm.boot_ram <= c.hotplug
       ELSE ram >= vm.boot_ram => c.hotplug # None /\ ram - vm.boot_ram <= c.hotplug

\* What a live memory resize leaves in the configuration.
MemoryResized(c, ram) ==
    IF c.method = "acpi" THEN [c EXCEPT !.size = ram]
    ELSE [c EXCEPT !.hotplugged = IF ram > c.size THEN ram - c.size ELSE None]

\* Vm::resize: vCPUs, memory and balloon in turn; the first refusal ends it and
\* undoes nothing.
ResizeLive(c, vcpus, ram, balloon) ==
    LET vm == dev.vm
        c1 == IF vcpus = None THEN c ELSE [c EXCEPT !.boot = vcpus]
        vm1 == IF vcpus = None THEN vm ELSE [vm EXCEPT !.vcpus = vcpus]
        grown == ram # None /\ IF c.method = "acpi" THEN ram > vm.current_ram ELSE ram >= vm.boot_ram
        c2 == IF ram = None THEN c1 ELSE MemoryResized(c1, ram)
        vm2 == IF grown THEN [vm1 EXCEPT !.current_ram = ram] ELSE vm1
    IN IF vcpus # None /\ vcpus > c.max THEN Fails
       ELSE IF ram # None /\ ~ CanResizeMemory(c, vm, ram) THEN Ends(FALSE, c1, vm1)
       ELSE IF balloon # None /\ c.balloon = None THEN Ends(FALSE, c2, vm2)
       ELSE IF balloon = None THEN Ends(TRUE, c2, vm2)
       ELSE Ends(TRUE, [c2 EXCEPT !.balloon = balloon], [vm2 EXCEPT !.balloon = balloon])

vm_resize(vcpus, ram, balloon) ==
    IF ~ Present(dev.config) THEN Fails
    ELSE IF dev.vm.on THEN ResizeLive(dev.config, vcpus, ram, balloon)
    ELSE Ends(TRUE, ResizeConfig(dev.config, vcpus, ram, balloon), dev.vm)

vm_resize_zone(id, ram) ==
    LET c == dev.config
        named == {k \in DOMAIN c.zones : c.zones[k].id = id}
        Found == Min(named)
        z == c.zones[Found]
    IN IF ~ Present(c) THEN Fails
       ELSE IF named = {} THEN Fails
       ELSE IF ~ dev.vm.on THEN Ends(TRUE, [c EXCEPT !.zones[Found].size = ram], dev.vm)
       ELSE IF ram < z.size \/ ~ dev.vm.zoned \/ z.hotplug = None \/ ram - z.size > z.hotplug THEN Fails
       ELSE Ends(TRUE, [c EXCEPT !.zones[Found].hotplugged = ram - z.size], dev.vm)

\* A careful user asks for what the rest of the configuration can be run with.
Allowed(vcpus, ram, balloon) ==
    Careful /\ Present(dev.config) =>
        LET c == dev.config
            after == ResizeConfig(c, vcpus, ram, balloon)
        IN /\ \A i \in DOMAIN c.devs :
                 vcpus # None /\ c.devs[i].kind \in {"disk", "fs", "net"} =>
                     vcpus >= IF c.devs[i].kind = "net" THEN c.devs[i].queues \div 2 ELSE c.devs[i].queues
           /\ ram # None => c.zones = <<>> /\ ram > 0
           /\ c.balloon # None => after.balloon < (IF ram = None THEN Ram(c) ELSE Min({ram, Ram(after)}))
           /\ c.method # "acpi" /\ dev.vm.on /\ c.balloon # None => after.balloon < Ram(c)

Next ==
    \/ \E c \in Configs : VmConfig_parse(c) \/ vm_create(c)
    \/ vm_boot \/ vm_reboot \/ vm_shutdown \/ vm_delete \/ vm_snapshot \/ vm_restore
    \/ \E d \in Devices : vm_add_device(d) \/ vm_add_virtio(d) \/ vm_add_vsock(d)
    \/ \E id \in (IF dev.vm.on THEN dev.vm.tree ELSE {}) \cup {<<"user", 9>>} : vm_remove_device(id)
    \/ dev.vm.on /\ \E id \in dev.vm.pending : Eject(id)
    \/ \E v \in Vcpus \cup {None}, m \in Sizes \cup {None}, b \in Sizes \cup {None} :
          Allowed(v, m, b) /\ vm_resize(v, m, b)
    \/ \E m \in Sizes :
          /\ Careful /\ Present(dev.config) /\ ~ dev.vm.on /\ dev.config.balloon # None => m > dev.config.balloon
          /\ vm_resize_zone(<<"user", 2>>, m)

Spec == New /\ [][Next]_configVars

-----------------------------------------------------------------------------
(* Properties.                                                             *)

\* A VM that runs can be rebooted: whatever was added, removed, resized or
\* refused since it was booted, the configuration a reboot would build from is
\* one the VMM accepts (Vm::new after the old VM was stopped).
RebootWorks == dev.vm.on => CanBoot(dev.config)

\* The configuration is the VM: its devices are those the guest has not been
\* asked to give up, every one under its name, its vCPUs and its balloon are
\* those that were last asked for, also after a request that failed halfway.
ConfigIsRunning ==
    dev.vm.on =>
        /\ {dev.config.devs[i].id : i \in DOMAIN dev.config.devs} = dev.vm.tree \ dev.vm.pending
        /\ dev.config.boot = dev.vm.vcpus
        /\ dev.config.balloon = dev.vm.balloon

\* A device that was configured behind the IOMMU runs in a VM that has one.
IommuIsThere ==
    dev.vm.on /\ (\E i \in DOMAIN dev.config.devs : dev.config.devs[i].iommu) => dev.vm.iommu

\* No two things of a VM that runs answer to one identifier, a generated name
\* being one that nobody chose.
NamesAreUnique == dev.vm.on => IsInjective(Ids(dev.config))

\* The configuration stays what runs and what can be run again.
ConfigIsKept == RebootWorks /\ ConfigIsRunning /\ IommuIsThere /\ NamesAreUnique
=============================================================================
