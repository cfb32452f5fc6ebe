---------------------------- MODULE DeviceManager ----------------------------
(***************************************************************************)
(* Hotplug of PCI devices: the requests of vmm/src/vm.rs (add_*,           *)
(* remove_device, resize) on the VMM thread, the DeviceManager they change *)
(* (vmm/src/device_manager.rs, device_tree.rs, pci/src/bus.rs), and the    *)
(* guest that scans and ejects through the ACPI methods and registers of   *)
(* pci_segment.rs, devices/src/acpi.rs.  Every register access and every   *)
(* call of the VMM thread takes the DeviceManager's lock, so each is one   *)
(* step; a request is two of them (the change, then the notification).     *)
(*                                                                         *)
(* Ids are numbers: number n is also the name that next_device_name makes  *)
(* from counter value n.  A device is what it holds of the VM: its node in *)
(* the device tree, its PCI slot, the memory it can reach by DMA.          *)
(***************************************************************************)
EXTENDS Integers, FiniteSets, FiniteSetsExt

CONSTANTS
    Segments, Slots,     \* PCI segments, slots of each; slot 0 is the bridge
    Names, Kinds,        \* device ids; kinds of devices added
    Regions,             \* RAM regions; the least one is there at boot
    Areas,               \* bound: pmem ranges the segment's device area holds
    Faults,              \* steps of an add that may fail
    Retries,             \* the operator may repeat a removal under way
    ByPciId,             \* the operator may name the virtio-pci node
    MaxOps,              \* bound: requests
    Reboots, Restores    \* bounds

VARIABLES dev, guest, host

hotplugVars == <<dev, guest, host>>

Places == Segments \X Slots
NoPlace == <<>>
Absent == [kind |-> "none", at |-> NoPlace, live |-> FALSE]
Virtio == {"disk", "net", "fs", "pmem", "vsock", "vdpa"}
BootRegion == Min(Regions)

TypeOK ==
    /\ DOMAIN dev.tree = Names /\ DOMAIN dev.cfg = Names
    /\ \A n \in Names : dev.tree[n].at \in Places \cup {NoPlace}
    /\ \A s \in Segments : dev.up[s] \subseteq Slots /\ dev.down[s] \subseteq Slots
    /\ dev.container.map \subseteq dev.mem

\* DeviceManager::new: only the host bridge is on each bus (PciBus::new).
NewDeviceManager(mem) ==
    [tree |-> [n \in Names |-> Absent], handles |-> {}, cnt |-> 0,
     used |-> [s \in Segments |-> {0}], sel |-> Min(Segments),
     up |-> [s \in Segments |-> {}], down |-> [s \in Segments |-> {}],
     container |-> [made |-> FALSE, map |-> {}], dma |-> [n \in Names |-> {}],
     areas |-> 0, ged |-> {}, mem |-> mem, cfg |-> [n \in Names |-> Absent]]

New ==
    /\ dev = NewDeviceManager({BootRegion})
    /\ guest = [pc |-> "idle", todo |-> {}, leave |-> {}]
    /\ host = [notify |-> {}, ops |-> 0, boots |-> 0, restores |-> 0,
               asked |-> {}, gone |-> {}, wrong |-> FALSE]

-----------------------------------------------------------------------------
(* What the DeviceManager offers its own add functions.                    *)

InTree(d) == {n \in Names : d.tree[n].kind # "none"}
OnBus(d) == {n \in InTree(d) : d.tree[n].at # NoPlace /\ d.tree[n].live}

validate_identifier(id) == id \notin InTree(dev)

\* The counter runs through the names (usize in the code) until one is free.
next_device_name(d) ==
    LET N == Cardinality(Names)
        free == {i \in 0..(N - 1) : (d.cnt + i) % N \notin InTree(d)}
    IN (d.cnt + Min(free)) % N
HasFreeName(d) == InTree(d) # Names

\* PciBus::next_device_id, the first slot that is free.
FreeSlots(d, s) == Slots \ d.used[s]
next_device_bdf(d, s) == <<s, Min(FreeSlots(d, s))>>
get_device_id(d, at) == [d EXCEPT !.used[at[1]] = @ \cup {at[2]}]
put_device_id(d, at) == [d EXCEPT !.used[at[1]] = @ \ {at[2]}]

Node(d, id, kind, at) == [d EXCEPT !.tree[id] = [kind |-> kind, at |-> at, live |-> TRUE]]

-----------------------------------------------------------------------------
(* The make_* functions: a device and its node, not on the bus yet.  One   *)
(* that fails leaves no node.                                              *)

Make(d, id, kind) == [Node(d, id, kind, NoPlace) EXCEPT !.handles = @ \cup {id}]

make_virtio_block_device(d, id) == Make(d, id, "disk")
make_virtio_net_device(d, id) == Make(d, id, "net")
make_virtio_fs_device(d, id) == Make(d, id, "fs")
make_virtio_vsock_device(d, id) == Make(d, id, "vsock")
\* A pmem device takes a range of the segment's device area, which nothing
\* gives back.
make_virtio_pmem_device(d, id) == [Make(d, id, "pmem") EXCEPT !.areas = @ + 1]
\* A vDPA device comes with a DMA handler.
make_vdpa_device(d, id) == Make(d, id, "vdpa")

MakeVirtio(d, id, kind) ==
    CASE kind = "disk" -> make_virtio_block_device(d, id)
      [] kind = "net" -> make_virtio_net_device(d, id)
      [] kind = "fs" -> make_virtio_fs_device(d, id)
      [] kind = "vsock" -> make_virtio_vsock_device(d, id)
      [] kind = "pmem" -> make_virtio_pmem_device(d, id)
      [] kind = "vdpa" -> make_vdpa_device(d, id)

-----------------------------------------------------------------------------
(* A device on the bus.                                                    *)

add_virtio_pci_device(d, id, kind, at) ==
    [Node(get_device_id(d, at), id, kind, at) EXCEPT
        !.dma[id] = IF kind = "vdpa" THEN d.mem ELSE {}]

\* The container is shared by all VFIO devices and mapped when it is made.
add_vfio_device(d, id, at) ==
    [Node(get_device_id(d, at), id, "vfio", at) EXCEPT
        !.container = IF @.made THEN @ ELSE [made |-> TRUE, map |-> d.mem]]

add_vfio_user_device(d, id, at) ==
    [Node(get_device_id(d, at), id, "user", at) EXCEPT !.dma[id] = d.mem]

Plugged(d, id, kind, at) ==
    IF kind = "vfio" THEN add_vfio_device(d, id, at)
    ELSE IF kind = "user" THEN add_vfio_user_device(d, id, at)
    ELSE add_virtio_pci_device(MakeVirtio(d, id, kind), id, kind, at)

\* What an add that fails leaves behind, by the step that fails: the device
\* cannot be made; the VFIO device cannot be opened once its container is
\* there; the bus has no slot, or the BARs cannot be allocated, once a virtio
\* device is made.
AddFails(d, id, kind, s) ==
    LET slot == FreeSlots(d, s) # {}
        made == IF kind \in Virtio THEN MakeVirtio(d, id, kind) ELSE d IN
       (IF "make" \in Faults /\ kind \in Virtio THEN {d} ELSE {})
    \cup (IF ~ slot THEN {made} ELSE {})
    \cup (IF "open" \in Faults /\ slot /\ kind = "vfio"
          THEN {[get_device_id(d, next_device_bdf(d, s)) EXCEPT
                    !.container = IF @.made THEN @ ELSE [made |-> TRUE, map |-> {}]]} ELSE {})
    \cup (IF "bars" \in Faults /\ slot
          THEN {get_device_id(made, next_device_bdf(made, s))} ELSE {})

Idle == host.notify = {} /\ host.ops < MaxOps

\* Vm::add_disk, add_net, add_fs, add_pmem, add_vdpa, add_vsock, add_device,
\* add_user_device: the device, its bit in PCIU, its entry in the VmConfig.
Add(kind, s, auto, given) ==
    /\ Idle
    /\ kind = "pmem" => dev.areas < Areas
    /\ IF auto THEN HasFreeName(dev) ELSE validate_identifier(given)
    /\ LET id == IF auto THEN next_device_name(dev) ELSE given
           d == IF auto THEN [dev EXCEPT !.cnt = (id + 1) % Cardinality(Names)] ELSE dev
           at == next_device_bdf(d, s)
           plugged == Plugged(d, id, kind, at) IN
       \/ /\ FreeSlots(d, s) # {}
          /\ dev' = [plugged EXCEPT !.up[s] = @ \cup {at[2]}, !.cfg[id] = plugged.tree[id]]
          /\ host' = [host EXCEPT !.ops = @ + 1, !.notify = {"pci"},
                                  !.asked = @ \ {id}, !.gone = @ \ {id}]
       \/ /\ dev' \in AddFails(d, id, kind, s)
          /\ host' = [host EXCEPT !.ops = @ + 1]
    /\ UNCHANGED guest

\* Mutant: the slot is free from the removal on.
RemoveDeviceEarly(id, byPci) ==
    /\ Idle
    /\ id \in OnBus(dev) \ host.asked
    /\ ~ byPci
    /\ dev' = [put_device_id(dev, dev.tree[id].at) EXCEPT
                   !.down[dev.tree[id].at[1]] = @ \cup {dev.tree[id].at[2]}, !.cfg[id] = Absent]
    /\ host' = [host EXCEPT !.ops = @ + 1, !.notify = {"pci"},
                            !.asked = @ \cup {id}, !.gone = @ \cup {id}]
    /\ UNCHANGED guest

\* Vm::remove_device: the device's bit in PCID, its entry out of the VmConfig.
\* The device stays until the guest ejects it.  Named by its virtio-pci node,
\* it stays in the VmConfig.
RemoveDevice(id, byPci) ==
    /\ Idle
    /\ id \in OnBus(dev)
    /\ id \in host.asked => Retries
    /\ byPci => ByPciId /\ dev.tree[id].kind \in Virtio
    /\ dev' = [dev EXCEPT !.down[dev.tree[id].at[1]] = @ \cup {dev.tree[id].at[2]},
                          !.cfg[id] = IF byPci THEN @ ELSE Absent]
    /\ host' = [host EXCEPT !.ops = @ + 1, !.notify = {"pci"},
                            !.asked = @ \cup {id}, !.gone = @ \cup {id}]
    /\ UNCHANGED guest

\* DeviceManager::update_memory: the handles with a DMA handler, the
\* container, the vfio-user devices of the tree.
update_memory(d, r) ==
    [d EXCEPT
        !.mem = @ \cup {r},
        !.dma = [n \in Names |-> IF d.tree[n].kind = "user" \/ (n \in d.handles /\ d.tree[n].kind = "vdpa")
                                 THEN @[n] \cup {r} ELSE @[n]],
        !.container = IF @.made THEN [@ EXCEPT !.map = @ \cup {r}] ELSE @]

\* The memory part of Vm::resize, by ACPI: a new region.
AddMemory(r) ==
    /\ Idle
    /\ r = Min(Regions \ dev.mem)
    /\ dev' = update_memory(dev, r)
    /\ host' = [host EXCEPT !.ops = @ + 1, !.notify = {"mem"}]
    /\ UNCHANGED guest

\* The end of a request: notify_hotplug, AcpiGedDevice::notify.
NotifyHotplug ==
    /\ host.notify # {}
    /\ dev' = [dev EXCEPT !.ged = @ \cup host.notify]
    /\ host' = [host EXCEPT !.notify = {}]
    /\ UNCHANGED guest

-----------------------------------------------------------------------------
(* The guest: _EVT of the GED, PCNT of each segment, PCEJ.                 *)

\* AcpiGedDevice::read clears what it reports.
GuestReadsGed ==
    /\ guest.pc = "idle" /\ dev.ged # {}
    /\ dev' = [dev EXCEPT !.ged = {}]
    /\ guest' = IF "pci" \in dev.ged THEN [guest EXCEPT !.pc = "sel", !.todo = Segments] ELSE guest
    /\ UNCHANGED host

GuestSelects ==
    /\ guest.pc = "sel"
    /\ dev' = [dev EXCEPT !.sel = Min(guest.todo)]
    /\ guest' = [guest EXCEPT !.pc = "pciu"]
    /\ UNCHANGED host

\* DeviceManager::read of PCIU and PCID reports and clears the bitmap.
ReadUp ==
    /\ guest.pc = "pciu"
    /\ dev' = [dev EXCEPT !.up[dev.sel] = {}]
    /\ guest' = [guest EXCEPT !.pc = "pcid"]
    /\ UNCHANGED host

Scanned(todo) == [guest EXCEPT !.todo = todo, !.pc = IF todo = {} THEN "idle" ELSE "sel",
                               !.leave = @ \cup {<<dev.sel, i>> : i \in dev.down[dev.sel]}]
ReadDown ==
    /\ guest.pc = "pcid"
    /\ dev' = [dev EXCEPT !.down[dev.sel] = {}]
    /\ guest' = Scanned(guest.todo \ {dev.sel})
    /\ UNCHANGED host

\* The slot is given back first, then the node with that address is looked
\* for, whatever it is (remove_node_by_pci_bdf); a node without a device ends
\* the ejection there.
EjectDevice(at) ==
    LET d == [put_device_id(dev, at) EXCEPT !.sel = at[1]]
        here == {n \in InTree(d) : d.tree[n].at = at} IN
    \/ /\ here = {}
       /\ dev' = d
       /\ UNCHANGED host
    \/ \E n \in here :
          /\ dev' = IF d.tree[n].live
                    THEN [d EXCEPT !.tree[n] = Absent, !.dma[n] = {}, !.handles = @ \ {n}]
                    ELSE [d EXCEPT !.tree[n] = Absent]
          /\ host' = [host EXCEPT !.wrong = @ \/ (d.tree[n].live /\ n \notin host.asked),
                                  !.asked = IF d.tree[n].live THEN @ \ {n} ELSE @]

\* PCEJ: the guest lets go of a device when its driver has.
GuestEjects(at) ==
    /\ guest.pc = "idle" /\ at \in guest.leave
    /\ EjectDevice(at)
    /\ guest' = [guest EXCEPT !.leave = @ \ {at}]

-----------------------------------------------------------------------------
(* Reboot and restore.                                                     *)

\* create_devices of a new DeviceManager: the devices of the VmConfig, each in
\* the next slot of its segment, in the order of the kinds.
create_devices(mem, cfg) ==
    LET ids == {n \in Names : cfg[n].kind # "none"}
        Rank(n) == <<IF cfg[n].kind \in Virtio THEN 0 ELSE IF cfg[n].kind = "vfio" THEN 1 ELSE 2, n>>
        Before(m, n) == Rank(m)[1] < Rank(n)[1] \/ (Rank(m)[1] = Rank(n)[1] /\ m < n)
        At(n) == <<cfg[n].at[1], 1 + Cardinality({m \in ids : cfg[m].at[1] = cfg[n].at[1] /\ Before(m, n)})>>
        Reaches(n) == n \in ids /\ cfg[n].kind \in {"user", "vdpa"}
        d == NewDeviceManager(mem) IN
    [d EXCEPT
        !.tree = [n \in Names |-> IF n \in ids THEN [cfg[n] EXCEPT !.at = At(n)] ELSE Absent],
        !.cfg = [n \in Names |-> IF n \in ids THEN [cfg[n] EXCEPT !.at = At(n)] ELSE Absent],
        !.used = [s \in Segments |-> {0} \cup {At(n)[2] : n \in {m \in ids : cfg[m].at[1] = s}}],
        !.handles = {n \in ids : cfg[n].kind \in Virtio},
        !.container = IF \E n \in ids : cfg[n].kind = "vfio" THEN [made |-> TRUE, map |-> mem] ELSE @,
        !.dma = [n \in Names |-> IF Reaches(n) THEN mem ELSE {}],
        !.areas = Cardinality({n \in ids : cfg[n].kind = "pmem"})]

Reboot ==
    /\ host.notify = {} /\ host.boots < Reboots
    /\ dev' = create_devices(dev.mem, dev.cfg)
    /\ guest' = [pc |-> "idle", todo |-> {}, leave |-> {}]
    /\ host' = [host EXCEPT !.boots = @ + 1, !.asked = {}]

\* set_state brings back the whole device tree, create_devices the devices of
\* the VmConfig at the addresses their nodes hold (pci_resources); the
\* bitmaps and the GED's flags are not saved.
Restore ==
    /\ host.notify = {} /\ host.restores < Restores
    /\ LET ids == {n \in Names : dev.cfg[n].kind # "none"} IN
       dev' = [dev EXCEPT
          !.tree = [n \in Names |-> [@[n] EXCEPT !.live = n \in ids]],
          !.used = [s \in Segments |-> {0} \cup {dev.tree[n].at[2] : n \in {m \in ids : dev.tree[m].at[1] = s}}],
          !.handles = @ \cap ids, !.dma = [n \in Names |-> IF n \in ids THEN @[n] ELSE {}],
          !.up = [s \in Segments |-> {}], !.down = [s \in Segments |-> {}], !.ged = {},
          !.sel = Min(Segments)]
    /\ host' = [host EXCEPT !.restores = @ + 1]
    /\ UNCHANGED guest

Next ==
    \/ \E k \in Kinds, s \in Segments, auto \in BOOLEAN, n \in Names : Add(k, s, auto, n)
    \/ \E n \in Names, b \in BOOLEAN : RemoveDevice(n, b)
    \/ \E r \in Regions \ dev.mem : AddMemory(r)
    \/ NotifyHotplug
    \/ GuestReadsGed \/ GuestSelects \/ ReadUp \/ ReadDown
    \/ \E at \in Places : GuestEjects(at)
    \/ Reboot \/ Restore

Spec == New /\ [][Next]_hotplugVars

-----------------------------------------------------------------------------
(* Properties.                                                             *)

\* The guest ejects only a device that the operator has asked to remove, never
\* one that took the slot of an earlier device (remove_device, eject_device).
RemovalHitsItsTarget == ~ host.wrong

\* Between requests every device that does DMA reaches all of the guest's RAM,
\* in whatever order devices and memory were added (update_memory,
\* add_vfio_device, add_virtio_pci_device).
DmaSeesMemory ==
    host.notify = {} => \A n \in OnBus(dev) :
        CASE dev.tree[n].kind = "vfio" -> dev.container.map = dev.mem
          [] dev.tree[n].kind \in {"user", "vdpa"} -> dev.dma[n] = dev.mem
          [] OTHER -> TRUE

\* A bit set in PCIU or PCID is on its way to the guest: a notification is to
\* be raised or read, or a scan under way has the segment still to read.
HotplugIsAnnounced ==
    \A s \in Segments :
        LET soon == "pci" \in dev.ged \cup host.notify
            ahead == s \in guest.todo /\ ~ (guest.pc \in {"pciu", "pcid"} /\ dev.sel = s) IN
        /\ dev.up[s] # {} => soon \/ ahead \/ (guest.pc = "pciu" /\ dev.sel = s)
        /\ dev.down[s] # {} => soon \/ s \in guest.todo

\* A device that the operator removed is not created at the next reboot.
RemovedStaysRemoved == \A n \in host.gone : dev.cfg[n].kind = "none"
=============================================================================
