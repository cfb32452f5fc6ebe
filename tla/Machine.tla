------------------------------- MODULE Machine -------------------------------
(***************************************************************************)
(* The building of a virtual machine's devices                             *)
(* (vmm/src/device_manager.rs, vmm/src/pci_segment.rs): create_devices and *)
(* everything it calls, at boot, at a reboot and at a restore, where each  *)
(* device must come back with the resources the guest knows.               *)
(*                                                                         *)
(* dev is the DeviceManager, guest the pause state of the devices, host    *)
(* the configuration, the terminals and the last snapshot.                 *)
(***************************************************************************)
EXTENDS Integers, Sequences, FiniteSets, TLC

CONSTANTS
    Configs,       \* [arch, serial, console: the modes, fixed: the devices there is at
                   \* most one of, list: kinds of the others, iommu: a virtual IOMMU]
    Slots,         \* device numbers of the PCI bus
    Cells,         \* addresses for PCI windows
    Targets,       \* those the guest moves windows to
    Detaches,      \* whether devices behind the IOMMU are removed
    Faults,        \* "pause": a device may fail to pause
    MaxOps

VARIABLES dev, guest, host

Now == [dev |-> dev, guest |-> guest, host |-> host]
Become(s) == \E r \in {s} : dev' = r.dev /\ guest' = r.guest /\ host' = r.host

Name(p, i) == [prefix |-> p, index |-> i, pci |-> FALSE]
Pci(id) == [id EXCEPT !.pci = TRUE]
Unnamed == Name("none", 0)
Node(kind) == [kind |-> kind, bdf |-> 0, cells |-> {}, parent |-> Unnamed, migratable |-> TRUE]
Pick(S) == CHOOSE x \in S : \A y \in S : x <= y

\* The steps 1 to n of a construction, each on what the one before it has made.
Steps(s, n, Step(_, _)) ==
    LET made[k \in 0 .. n] == IF k = 0 THEN s ELSE CHOOSE r \in {Step(x, k) : x \in {made[k - 1]}} : TRUE
    IN made[n]

Nothing == [arch |-> "x86_64", io |-> {}, mmio |-> {}, irqs |-> 5, users |-> <<>>, places |-> 0,
            tree |-> <<>>, cnt |-> 0, used |-> {0}, cells |-> {}, attached |-> {},
            handles |-> <<>>, boot |-> {}, serial |-> 0, console |-> 0, pipe |-> FALSE, failed |-> FALSE]

New ==
    /\ \E c \in Configs :
          host = [cfg |-> [arch |-> c.arch, serial |-> c.serial, console |-> c.console,
                           fixed |-> c.fixed, iommu |-> c.iommu,
                           list |-> [k \in DOMAIN c.list |->
                                        [kind |-> c.list[k], id |-> Unnamed, iommu |-> c.iommu]],
                           serialFile |-> 0, consoleFile |-> 0],
                  ptys |-> 0, listeners |-> {}, saved |-> <<>>, vm |-> "off", ops |-> 0]
    /\ dev = Nothing
    /\ guest = [paused |-> {}, order |-> <<>>]

-----------------------------------------------------------------------------
(* Addresses, interrupts, names.                                           *)

Overlap(r, q) == r.at < q.at + q.len /\ q.at < r.at + r.len
Range(who, at, len) == [who |-> who, at |-> at, len |-> len]

\* A range of a bus, refused when another device has a part of it.
IoInsert(d, who, at, len) ==
    IF \E r \in d.io : Overlap(r, Range(who, at, len)) THEN [d EXCEPT !.failed = TRUE]
    ELSE [d EXCEPT !.io = @ \cup {Range(who, at, len)}]
MmioInsert(d, who, at, len) ==
    IF \E r \in d.mmio : Overlap(r, Range(who, at, len)) THEN [d EXCEPT !.failed = TRUE]
    ELSE [d EXCEPT !.mmio = @ \cup {Range(who, at, len)}]

\* A range for a device of the platform, from addresses of their own.
Place(d, who) == MmioInsert([d EXCEPT !.places = @ + 1], who, 1000 + d.places, 1)

allocate_irq(d, who) == [d EXCEPT !.users = Append(@, <<who, d.irqs>>), !.irqs = @ + 1]

Insert(d, id, node) == [d EXCEPT !.tree = (id :> node) @@ @]

\* Mutant: the counter alone makes a name.
next_device_name_unchecked(d, p) == [d |-> [d EXCEPT !.cnt = @ + 1], id |-> Name(p, d.cnt)]

\* The next number that makes a name no device and no configuration has.
next_device_name(d, p) ==
    LET free == {n \in d.cnt .. d.cnt + Cardinality(d.boot) + Cardinality(DOMAIN d.tree) :
                    Name(p, n) \notin d.boot \cup DOMAIN d.tree}
    IN [d |-> [d EXCEPT !.cnt = Pick(free) + 1], id |-> Name(p, Pick(free))]

-----------------------------------------------------------------------------
(* PCI.                                                                    *)

PciSegment_new(d) == MmioInsert(d, "pci config", 500, 1)

new_default_segment(d) ==
    IF d.arch = "x86_64" THEN IoInsert(PciSegment_new(d), "pci config", 3320, 8) ELSE PciSegment_new(d)

\* Eight interrupts that all PCI devices share.
reserve_legacy_interrupts_for_pci_devices(d) ==
    LET Reserve(x, k) == allocate_irq(x, "pci") IN Steps(d, 8, Reserve)

\* Mutant: a device of the tree gets the next free device number as well.
pci_resources_fresh(d, id) == [bdf |-> Pick(Slots \ d.used), cells |-> {}]

\* A device the tree knows is restored where it was, another gets a free device number.
pci_resources(d, id) ==
    IF id \in DOMAIN d.tree THEN [bdf |-> d.tree[id].bdf, cells |-> d.tree[id].cells]
    ELSE [bdf |-> Pick(Slots \ d.used), cells |-> {}]

HasRoom(d) == Slots \ d.used # {} /\ Cells \ d.cells # {}

\* The windows of the device, where they were or at free addresses.
add_pci_device(d, id, kind, at) ==
    LET fresh == IF at.cells # {} THEN at.cells ELSE {Pick(Cells \ d.cells)}
        taken == at.cells \cap d.cells # {} \/ (at.cells # {} /\ at.bdf \in d.used)
        d1 == [d EXCEPT !.used = @ \cup {at.bdf}, !.cells = @ \cup fresh, !.failed = @ \/ taken]
        node == [Node(kind) EXCEPT !.bdf = at.bdf, !.cells = fresh]
    IN Insert(MmioInsert(d1, kind, Pick(fresh), 1), id, node)

add_virtio_pci_device(d, id) ==
    IF Pci(id) \notin DOMAIN d.tree /\ ~HasRoom(d) THEN [d EXCEPT !.failed = TRUE]
    ELSE LET at == pci_resources(d, Pci(id))
             d1 == [d EXCEPT !.tree[id].parent = Pci(id)]
         IN add_pci_device(d1, Pci(id), "virtio-pci", at)

add_passthrough_device(d, id) ==
    IF id \notin DOMAIN d.tree /\ ~HasRoom(d) THEN [d EXCEPT !.failed = TRUE]
    ELSE add_pci_device(d, id, "vfio", pci_resources(d, id))

-----------------------------------------------------------------------------
(* Devices of the platform.                                                *)

add_interrupt_controller(d) ==
    IF d.arch = "aarch64" THEN d
    ELSE Insert(MmioInsert(d, "ioapic", 400, 1), Name("ioapic", 0), Node("ioapic"))

Legacy_x86_64(d) ==
    IoInsert(IoInsert(IoInsert(d, "i8042", 97, 4), "cmos", 112, 2), "debug", 128, 1)

Legacy_aarch64(d) ==
    LET rtc == MmioInsert(allocate_irq(d, "rtc"), "rtc", 401, 1)
        gpio == MmioInsert(allocate_irq(rtc, "gpio"), "gpio", 402, 1)
        tree == Insert(gpio, Name("gpio", 0), Node("gpio"))
    IN MmioInsert(tree, "flash", 0, 4)

add_legacy_devices(d) == IF d.arch = "x86_64" THEN Legacy_x86_64(d) ELSE Legacy_aarch64(d)

add_acpi_devices(d) ==
    LET io(x, who, at) == IF d.arch = "x86_64" THEN IoInsert(x, who, at, 4) ELSE x
        ged == Place(allocate_irq(io(d, "shutdown", 960), "ged"), "ged")
    IN io(ged, "pm timer", 45064)

Serial_x86_64(d) == Insert(IoInsert([d EXCEPT !.users = Append(@, <<"serial", 4>>)], "serial", 1016, 8),
                           Name("serial", 0), Node("serial"))
Serial_aarch64(d) == Insert(MmioInsert(allocate_irq(d, "serial"), "serial", 403, 1),
                            Name("serial", 0), Node("serial"))
add_serial_device(d) == IF d.arch = "x86_64" THEN Serial_x86_64(d) ELSE Serial_aarch64(d)

\* A new terminal of the host.
create_pty(s) == [s EXCEPT !.host.ptys = @ + 1]

\* A process that reports the sizes of the terminal.
listen_for_sigwinch_on_tty(s, pty) ==
    [s EXCEPT !.host.listeners = @ \cup {<<pty, Cardinality(@)>>}, !.dev.pipe = TRUE]

\* A device that is announced later on the PCI bus.
Handle(d, id, kind) ==
    [Insert(d, id, Node(kind)) EXCEPT !.handles = Append(@, id)]

add_virtio_console_device(s, old) ==
    LET fresh == create_pty(s)
        n == fresh.host.ptys
        open == CASE s.host.cfg.console = "pty" /\ old.console # 0 ->
                        [s EXCEPT !.dev.console = old.console, !.host.cfg.consoleFile = old.console,
                                  !.dev.pipe = old.pipe]
                  [] s.host.cfg.console = "pty" /\ old.console = 0 ->
                        listen_for_sigwinch_on_tty(
                            [fresh EXCEPT !.dev.console = n, !.host.cfg.consoleFile = n], n)
                  [] OTHER -> s
    IN IF s.host.cfg.console = "off" THEN s
       ELSE [open EXCEPT !.dev = Handle(@, Name("console", 0), "console")]

add_console_device(s, old) ==
    LET fresh == create_pty(s)
        n == fresh.host.ptys
        open == CASE s.host.cfg.serial = "pty" /\ old.serial # 0 ->
                        [s EXCEPT !.dev.serial = old.serial, !.host.cfg.serialFile = old.serial]
                  [] s.host.cfg.serial = "pty" /\ old.serial = 0 ->
                        [fresh EXCEPT !.dev.serial = n, !.host.cfg.serialFile = n]
                  [] OTHER -> s
    IN add_virtio_console_device(
         IF s.host.cfg.serial = "off" THEN open ELSE [open EXCEPT !.dev = add_serial_device(@)], old)

-----------------------------------------------------------------------------
(* virtio devices.                                                         *)

\* The k-th device of the configuration, named if it has no name; the memory of a
\* persistent memory device is where the tree says or at a free address.
Listed_one(s, k) ==
    LET c == s.host.cfg.list[k]
        n == next_device_name(s.dev, c.kind)
        named == IF c.id # Unnamed THEN [d |-> s.dev, id |-> c.id] ELSE n
        old == IF named.id \in DOMAIN s.dev.tree THEN s.dev.tree[named.id].cells ELSE {}
        cells == IF c.kind # "pmem" THEN {}
                 ELSE IF old # {} THEN old ELSE {Pick(Cells \ s.dev.cells)}
        full == c.kind = "pmem" /\ old = {} /\ Cells \ s.dev.cells = {}
        d1 == [named.d EXCEPT !.cells = @ \cup cells]
        d2 == IF c.kind = "vfio" THEN add_passthrough_device(d1, named.id)
              ELSE [Handle(d1, named.id, c.kind) EXCEPT !.tree[named.id].cells = cells,
                                                        !.tree[named.id].migratable = c.kind # "vdpa"]
    IN IF full THEN [s EXCEPT !.dev.failed = TRUE]
       ELSE [s EXCEPT !.dev = d2, !.host.cfg.list[k].id = named.id]

Listed(s, kind) ==
    LET Make(x, k) == IF x.host.cfg.list[k].kind = kind THEN Listed_one(x, k) ELSE x
    IN Steps(s, Len(s.host.cfg.list), Make)

Single(s, kind) ==
    IF kind \in s.host.cfg.fixed THEN [s EXCEPT !.dev = Handle(@, Name(kind, 0), kind)] ELSE s

make_virtio_block_devices(s) == Listed(s, "disk")
make_virtio_net_devices(s) == Listed(s, "net")
make_virtio_rng_devices(s) == Single(s, "rng")
make_virtio_fs_devices(s) == Listed(s, "fs")
make_virtio_pmem_devices(s) == Listed(s, "pmem")
make_virtio_vsock_devices(s) == Single(s, "vsock")
make_virtio_mem_devices(s) == Single(s, "mem")
make_virtio_balloon_devices(s) == Single(s, "balloon")
make_virtio_watchdog_devices(s) == Single(s, "watchdog")
make_vdpa_devices(s) == Listed(s, "vdpa")
add_vfio_devices(s) == Listed(s, "vfio")
add_user_devices(s) == Listed(s, "user")

make_virtio_devices(s) ==
    LET Make(x, k) ==
            CASE k = 1 -> make_virtio_block_devices(x)
              [] k = 2 -> make_virtio_net_devices(x)
              [] k = 3 -> make_virtio_rng_devices(x)
              [] k = 4 -> make_virtio_fs_devices(x)
              [] k = 5 -> make_virtio_pmem_devices(x)
              [] k = 6 -> make_virtio_vsock_devices(x)
              [] k = 7 -> make_virtio_mem_devices(x)
              [] k = 8 -> make_virtio_balloon_devices(x)
              [] k = 9 -> make_virtio_watchdog_devices(x)
              [] k = 10 -> make_vdpa_devices(x)
    IN Steps(s, 10, Make)

\* Every device made, in order, then those of the host, and the IOMMU last: it is made
\* first, but gets its device number when all the devices behind it have theirs.
add_pci_devices(s) ==
    LET iommu == Name("iommu", 0)
        Add(d, k) == add_virtio_pci_device(d, s.dev.handles[k])
        Behind(x) == {x.host.cfg.list[n].id : n \in {m \in DOMAIN x.host.cfg.list : x.host.cfg.list[m].iommu}}
        Bdfs(x) == {x.dev.tree[i].bdf : i \in {j \in DOMAIN x.dev.tree : [j EXCEPT !.pci = FALSE] \in Behind(x)}}
        AddAll(x, k) ==
            CASE k = 1 /\ x.host.cfg.iommu -> [x EXCEPT !.dev = Insert(@, iommu, Node("iommu"))]
              [] k = 2 -> [x EXCEPT !.dev = Steps(@, Len(s.dev.handles), Add)]
              [] k = 3 -> add_vfio_devices(x)
              [] k = 4 -> add_user_devices(x)
              [] k = 5 /\ x.host.cfg.iommu ->
                    [x EXCEPT !.dev = [add_virtio_pci_device(@, iommu) EXCEPT !.attached = Bdfs(x) \ {0}]]
              [] OTHER -> x
    IN Steps(s, 5, AddAll)

-----------------------------------------------------------------------------
(* The whole machine.                                                      *)

DeviceManager_new(arch, boot, tree, cnt) ==
    LET empty == [Nothing EXCEPT !.arch = arch, !.boot = boot, !.tree = tree, !.cnt = cnt]
        acpi == Place(Place(empty, "memory"), "devices")
    IN new_default_segment(reserve_legacy_interrupts_for_pci_devices(acpi))

create_devices(s, old) ==
    LET Create(x, k) ==
            CASE k = 1 -> [x EXCEPT !.dev = add_interrupt_controller(@)]
              [] k = 2 -> [x EXCEPT !.dev = add_legacy_devices(@)]
              [] k = 3 -> [x EXCEPT !.dev = add_acpi_devices(@)]
              [] k = 4 -> add_console_device(x, old)
              [] k = 5 -> make_virtio_devices(x)
              [] k = 6 -> add_pci_devices(x)
    IN Steps(s, 6, Create)

NoTerminals == [serial |-> 0, console |-> 0, pipe |-> FALSE]
Ids(cfg) == {cfg.list[k].id : k \in DOMAIN cfg.list} \ {Unnamed}
Build(s, old, tree, cnt) ==
    create_devices([s EXCEPT !.dev = DeviceManager_new(s.host.cfg.arch, Ids(s.host.cfg), tree, cnt),
                             !.guest.paused = {}], old)
Count(s) == [s EXCEPT !.host.ops = @ + 1]
May == host.ops < MaxOps /\ ~dev.failed

Boot ==
    /\ May /\ host.vm = "off"
    /\ Become(Count([Build(Now, NoTerminals, <<>>, 0) EXCEPT !.host.vm = "running"]))

\* The terminals outlive the virtual machine.
Reboot ==
    /\ May /\ host.vm = "running"
    /\ Become(Count(Build(Now, [serial |-> dev.serial, console |-> dev.console, pipe |-> dev.pipe], <<>>, 0)))

\* A device is added to the running machine and to the configuration.
Hotplug(kind) ==
    /\ May /\ host.vm = "running" /\ HasRoom(dev) /\ Cardinality(Cells \ dev.cells) > 1
    /\ LET s1 == [Now EXCEPT !.host.cfg.list = Append(@, [kind |-> kind, id |-> Unnamed, iommu |-> FALSE])]
           s2 == Listed_one(s1, Len(s1.host.cfg.list))
           id == s2.host.cfg.list[Len(s1.host.cfg.list)].id
       IN Become(Count(IF kind = "vfio" THEN s2
                       ELSE [s2 EXCEPT !.dev = add_virtio_pci_device(@, id)]))

\* A device is removed, its windows and its device number are free again.
Unplug(k) ==
    /\ May /\ host.vm = "running" /\ k \in DOMAIN host.cfg.list
    /\ Detaches \/ ~host.cfg.list[k].iommu
    /\ LET id == host.cfg.list[k].id
           at == IF Pci(id) \in DOMAIN dev.tree THEN dev.tree[Pci(id)] ELSE dev.tree[id]
       IN Become(Count([Now EXCEPT
            !.dev.tree = [i \in DOMAIN @ \ {id, Pci(id)} |-> @[i]],
            !.dev.used = @ \ {at.bdf}, !.dev.cells = @ \ at.cells,
            !.dev.mmio = {r \in @ : r.at \notin at.cells},
            !.host.cfg.list = [x \in 1 .. Len(@) - 1 |-> IF x < k THEN @[x] ELSE @[x + 1]]]))

\* The guest moves a window.
move_bar(id, c) ==
    /\ May /\ host.vm = "running" /\ id \in DOMAIN dev.tree
    /\ dev.tree[id].kind \in {"virtio-pci", "vfio"} /\ c \in Cells \ dev.cells
    /\ LET old == dev.tree[id].cells
       IN Become(Count([Now EXCEPT !.dev.tree[id].cells = {c}, !.dev.cells = (@ \ old) \cup {c},
            !.dev.mmio = {r \in @ : r.at \notin old} \cup {Range(dev.tree[id].kind, c, 1)}]))

Movable == {i \in DOMAIN dev.tree : dev.tree[i].migratable}

\* Every device of the tree, in the order of a hash table; the first that fails ends it,
\* and a device that is paused already never answers a second pause.
pause ==
    /\ May /\ host.vm = "running"
    /\ \/ /\ guest.paused = {}
          /\ Become(Count([Now EXCEPT !.guest.paused = Movable, !.host.vm = "paused"]))
       \/ /\ "pause" \in Faults /\ guest.paused = {}
          /\ \E S \in {{m} : m \in Movable} : Become(Count([Now EXCEPT !.guest.paused = S]))
       \/ /\ guest.paused # {}
          /\ Become(Count([Now EXCEPT !.host.vm = "stuck"]))

resume ==
    /\ May /\ host.vm = "paused"
    /\ Become(Count([Now EXCEPT !.guest.paused = @ \ Movable, !.host.vm = "running"]))

\* The tree and the counter; the configuration is saved next to them.
snapshot ==
    /\ May /\ host.vm = "paused"
    /\ Become(Count([Now EXCEPT !.host.saved = <<[dev |-> dev, cfg |-> host.cfg]>>]))

\* The nodes without parent, their children, and so on: the n-th layer.
BftIter_new(tree) ==
    LET roots == {i \in DOMAIN tree : tree[i].parent = Unnamed}
        kids(S) == {i \in DOMAIN tree : tree[i].parent \in S}
    IN IF kids(roots) = {} THEN <<roots>> ELSE <<roots, kids(roots)>>

\* The layers from the last to the first.
next_back(layers) == [n \in DOMAIN layers |-> layers[Len(layers) + 1 - n]]

restore_devices(s) ==
    [s EXCEPT !.guest.order = next_back(BftIter_new(s.dev.tree)), !.guest.paused = DOMAIN s.dev.tree]

\* A machine is built from the snapshot: the tree first, then the devices as at a boot.
restore ==
    /\ May /\ host.saved # <<>> /\ host.vm \in {"running", "paused"}
    /\ LET was == host.saved[1]
           s == Build([Now EXCEPT !.host.cfg = was.cfg], NoTerminals, was.dev.tree, was.dev.cnt)
       IN Become(Count([restore_devices(s) EXCEPT !.host.vm = "restored"]))

Next ==
    \/ Boot \/ Reboot \/ pause \/ resume \/ snapshot \/ restore
    \/ \E kind \in {"disk", "vfio", "pmem"} : Hotplug(kind)
    \/ \E k \in 1 .. 3 : Unplug(k)
    \/ \E id \in DOMAIN dev.tree, c \in Targets : move_bar(id, c)

Spec == New /\ [][Next]_<<dev, guest, host>>

-----------------------------------------------------------------------------
(* Properties.                                                             *)

\* Whatever the configuration, and whatever was added, removed and moved before, a
\* machine is built without two devices meeting at an address, a device number, an
\* interrupt or a name (Bus::insert, pci_resources, next_device_name).
MachineIsBuilt ==
    /\ ~dev.failed
    /\ \A r, q \in dev.mmio : r # q => ~Overlap(r, q)
    /\ \A a, b \in DOMAIN dev.users : a # b => dev.users[a][2] # dev.users[b][2]
    /\ \A i, j \in {x \in DOMAIN dev.tree : dev.tree[x].bdf # 0} : i # j => dev.tree[i].bdf # dev.tree[j].bdf
    /\ \A k, l \in DOMAIN host.cfg.list : k # l /\ host.vm # "off" => host.cfg.list[k].id # host.cfg.list[l].id

\* A restored machine is the one of the snapshot: each device has the device number and
\* the windows it had, and the platform its ports and interrupts (restore); the state of a
\* device is there before its transport, which starts it, is restored (restore_devices).
RestoredIsSame ==
    host.vm = "restored" =>
        LET was == host.saved[1].dev
        IN /\ dev.tree = was.tree /\ dev.io = was.io /\ dev.mmio = was.mmio
           /\ \A i \in DOMAIN dev.tree : dev.tree[i].parent # Unnamed =>
                 \E n, m \in DOMAIN guest.order :
                    n < m /\ i \in guest.order[n] /\ dev.tree[i].parent \in guest.order[m]
           /\ dev.users = was.users /\ dev.attached = was.attached /\ dev.used = was.used

\* The terminal the configuration reports is the one in use, it has one process that
\* follows its size, and a reboot keeps it (add_virtio_console_device).
TerminalIsKept ==
    /\ host.vm # "off" =>
          /\ host.cfg.console = "pty" => dev.console # 0 /\ host.cfg.consoleFile = dev.console
          /\ host.cfg.serial = "pty" => dev.serial # 0 /\ host.cfg.serialFile = dev.serial
    /\ \A n \in 1 .. host.ptys : Cardinality({x \in host.listeners : x[1] = n}) <= 1
    /\ host.vm = "running" => host.ptys = (IF host.cfg.console = "pty" THEN 1 ELSE 0)
                                         + (IF host.cfg.serial = "pty" THEN 1 ELSE 0)

\* The pause of the machine returns (pause).
PauseReturns == host.vm # "stuck"

MachineIsSound == MachineIsBuilt /\ RestoredIsSame /\ TerminalIsKept /\ PauseReturns
=============================================================================
