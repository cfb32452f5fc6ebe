-------------------------------- MODULE Vfio --------------------------------
(***************************************************************************)
(* A device passed through: the common part of VFIO and vfio-user devices  *)
(* (pci/src/vfio.rs, pci/src/vfio_user.rs) with their MSI capability       *)
(* (pci/src/msi.rs).                                                       *)
(*                                                                         *)
(* dev is the VMM's VfioCommon, guest the guest's interrupt handler, host  *)
(* the device as the kernel, or the vfio-user server, presents it and the  *)
(* memory slots of the VM.  An access of the guest holds the lock of the   *)
(* device to its end, so it is one step.                                   *)
(***************************************************************************)
EXTENDS Integers, Sequences, FiniteSets, SequencesExt

CONSTANTS
    Messages,            \* what the guest may program as an MSI message
    MaxMme,              \* bound: the log of the number of MSI vectors the guest enables
    Refused,             \* interrupt modes the kernel refuses to set up
    HandlerTraps,        \* the guest's interrupt handler uses registers that are not mapped
    BarSize,             \* the size of the BAR; a page is 2 of it
    Bases,               \* where the guest may move the BAR to
    MaxMoves, MaxRestores

VARIABLES dev, guest, host

vfioVars == <<dev, guest, host>>

PageSize == 2
Batch == 2               \* events in a message to a vfio-user server (16 in the code)
Span(at, len) == at..(at + len - 1)

-----------------------------------------------------------------------------
(* The BARs, from the registers of the device or from the saved resources. *)

\* What the registers from the first on are: unused, an I/O, a 32-bit or a
\* 64-bit memory BAR, or the upper half of one.
Registers ==
    {r \in [0..2 -> {"none", "io", "mem32", "mem64", "upper"}] :
        \A i \in 0..2 : (r[i] = "upper") = (i > 0 /\ r[IF i > 0 THEN i - 1 ELSE 0] = "mem64")}

BarsOf(regs) ==
    {[index |-> i, type |-> regs[i]] : i \in {j \in 0..2 : regs[j] \in {"io", "mem32", "mem64"}}}

\* resources is the set of the saved BARs, or empty when the size of each BAR
\* is asked of the device.
allocate_bars(regs, resources) ==
    LET At(i) == IF resources # {} THEN {r \in resources : r.index = i}
                 ELSE IF regs[i] = "none" THEN {}
                 ELSE {[index |-> i, type |-> IF regs[i] = "upper" THEN "mem32" ELSE regs[i]]}
        Visit(acc, i) ==
            IF i < acc.next THEN acc
            ELSE [bars |-> acc.bars \cup At(i),
                  next |-> IF \E b \in At(i) : b.type = "mem64" THEN i + 2 ELSE i + 1]
    IN FoldLeft(Visit, [bars |-> {}, next |-> 0], <<0, 1, 2>>).bars

-----------------------------------------------------------------------------
(* What of the BAR the guest reaches without an exit.                      *)

align_4k(a) == ((a + PageSize - 1) \div PageSize) * PageSize

\* Around the MSI-X table and the pending bits, in the order of their offsets.
Gaps(size, ranges) ==
    LET Gap(acc, at) ==
            [areas |-> IF at > acc.current
                       THEN Append(acc.areas, [offset |-> acc.current, size |-> at - acc.current])
                       ELSE acc.areas,
             current |-> align_4k(at + 1)]
        all == FoldLeft(Gap, [areas |-> <<>>, current |-> 0], SetToSortSeq(ranges, <))
    IN IF size > all.current
       THEN Append(all.areas, [offset |-> all.current, size |-> size - all.current])
       ELSE all.areas

\* A layout: the offsets in the BAR of the MSI-X table and of the pending bits
\* (each 1 long), and what the region is said to be: mappable around MSI-X, with
\* no capability, or that of a vfio-user server, which gives the areas itself.
Layouts ==
    {l \in [ranges : SUBSET (0..(BarSize - 1)), cap : {"msix mappable", "none", "server"}] :
        Cardinality(l.ranges) \in {0, 2}}

\* A region that holds the MSI-X table is mapped only around it.
generate_sparse_areas(l) ==
    IF l.cap = "none" /\ l.ranges # {} THEN <<>> ELSE Gaps(BarSize, l.ranges)

\* Those of a vfio-user server, which leaves out what it wants to trap, or the
\* whole region if it has none.
ServerAreas(l) == IF l.ranges = {} THEN <<>> ELSE Gaps(BarSize, l.ranges)
user_areas(l) ==
    IF ServerAreas(l) = <<>> THEN << [offset |-> 0, size |-> BarSize] >> ELSE ServerAreas(l)

AreasOf(l) == IF l.cap = "server" THEN user_areas(l) ELSE generate_sparse_areas(l)

SlotsAt(base, l) ==
    LET areas == AreasOf(l)
    IN [i \in DOMAIN areas |-> [start |-> base + areas[i].offset, size |-> areas[i].size]]

\* The memory slots of a VM are whole pages: any other layout is refused.
Mappable(l) == \A i \in DOMAIN AreasOf(l) : AreasOf(l)[i].size % PageSize = 0

map_mmio_regions(s) ==
    LET slots == SlotsAt(s.dev.base, s.dev.layout)
    IN [s EXCEPT !.dev.slots = slots,
                 !.host.slots = @ \cup {slots[i] : i \in DOMAIN slots}]

unmap_mmio_regions(s) ==
    [s EXCEPT !.host.slots = @ \ {s.dev.slots[i] : i \in DOMAIN s.dev.slots}]

-----------------------------------------------------------------------------
(* The interrupts of the device.                                           *)

\* The kernel has one kind of interrupt set up at a time, and setting one up
\* clears its enable bit in the configuration space.
set_irqs(h, mode, first, n) ==
    IF h.mode \in {"none", mode} /\ mode \notin Refused
    THEN [h EXCEPT !.mode = mode, !.vectors = first + n, !.masked = FALSE, !.bits = @ \ {mode}]
    ELSE h

\* A vfio-user server is sent the events in batches.
enable_irq_user(h, mode, n) ==
    LET Send(acc, i) ==
            LET sent == Batch * (i - 1)
            IN set_irqs(acc, mode, sent, IF n - sent > Batch THEN Batch ELSE n - sent)
    IN FoldLeft(Send, h, [i \in 1..((n + Batch - 1) \div Batch) |-> i])

enable_irq(h, mode, n) ==
    IF h.session = "kernel" THEN set_irqs(h, mode, 0, n) ELSE enable_irq_user(h, mode, n)

disable_irq(h, mode) ==
    IF h.mode = mode THEN [h EXCEPT !.mode = "none", !.vectors = 0, !.masked = FALSE] ELSE h

enable_intx(s) ==
    LET h == enable_irq(s.host, "intx", 1)
    IN IF s.dev.intx # "off" THEN s
       ELSE [s EXCEPT !.host = h, !.dev.intx = IF h.mode = "intx" THEN "on" ELSE "off"]

disable_intx(s) ==
    LET h == disable_irq(s.host, "intx")
    IN IF s.dev.intx # "on" THEN s
       ELSE [s EXCEPT !.host = h, !.dev.intx = IF h.mode = "intx" THEN "on" ELSE "off"]

num_enabled_vectors(d) == 2 ^ d.msi.mme

\* A vector without an event means none is set up.
enable_msi(s) ==
    IF num_enabled_vectors(s.dev) > s.dev.msi.group THEN s
    ELSE [s EXCEPT !.host = enable_irq(@, "msi", num_enabled_vectors(s.dev))]

disable_msi(s) == [s EXCEPT !.host = disable_irq(@, "msi")]
enable_msix(s) == [s EXCEPT !.host = enable_irq(@, "msix", s.dev.msix.entries)]
disable_msix(s) == [s EXCEPT !.host = disable_irq(@, "msix")]

\* MsiConfig::update: the routes of the enabled vectors follow each write.
MsiRoutes(s) ==
    [s EXCEPT !.host.routes =
        [v \in DOMAIN @ |-> IF s.dev.msi.on /\ v < num_enabled_vectors(s.dev)
                            THEN s.dev.msi.msg ELSE @[v]],
              !.host.open = s.dev.msi.on]

initialize_msi(s, msi) ==
    [s EXCEPT !.dev.msi = [msi EXCEPT !.group = 2 ^ msi.mme, !.on = FALSE],
              !.host.routes = [v \in 0..(2 ^ msi.mme - 1) |-> "none"],
              !.host.open = FALSE]

\* Mutant: INTx is left on when MSI is enabled.
update_msi_capabilities_keeps_intx(s, msi) ==
    LET t == MsiRoutes([s EXCEPT !.dev.msi = msi])
    IN CASE ~ s.dev.msi.on /\ msi.on -> enable_msi(t)
         [] s.dev.msi.on /\ ~ msi.on -> enable_intx(disable_msi(t))
         [] OTHER -> t

update_msi_capabilities(s, msi) ==
    LET t == MsiRoutes([s EXCEPT !.dev.msi = msi])
    IN CASE ~ s.dev.msi.on /\ msi.on -> enable_msi(disable_intx(t))
         [] s.dev.msi.on /\ ~ msi.on -> enable_intx(disable_msi(t))
         [] OTHER -> t

update_msix_capabilities(s, on) ==
    LET t == [s EXCEPT !.dev.msix.on = on]
    IN CASE ~ s.dev.msix.on /\ on -> enable_msix(disable_intx(t))
         [] s.dev.msix.on /\ ~ on -> enable_intx(disable_msix(t))
         [] OTHER -> t

-----------------------------------------------------------------------------
Become(s) == dev' = s.dev /\ host' = s.host
Now == [dev |-> dev, host |-> host]

NoMsi == [on |-> FALSE, mme |-> 0, msg |-> "none", group |-> 1]
UsualRegisters == [i \in 0..2 |-> CASE i = 0 -> "mem64" [] i = 1 -> "upper" [] OTHER -> "mem32"]
ResetHost == [regs |-> UsualRegisters, session |-> "kernel", mode |-> "none", vectors |-> 0, masked |-> FALSE, bits |-> {},
              routes |-> [v \in 0..0 |-> "none"], open |-> FALSE, slots |-> {}]

Opened(l, regs) ==
    [ResetHost EXCEPT !.regs = regs,
                      !.session = IF l.cap = "server" THEN "server" ELSE "kernel"]

\* The capabilities of the device's list that the kernel supports.
parse_capabilities(list, supported) == list \cap supported \cap {"msi", "msix"}

\* The device is reset, its capabilities are read, INTx is enabled if it has
\* it, its BARs are allocated, its regions are mapped.
New ==
    /\ guest = [irq |-> FALSE, moves |-> 0, restores |-> 0]
    /\ \E l \in Layouts, intx \in {"none", "off"}, regs \in Registers,
          supported \in {{"msi"}, {"msi", "msix"}} :
        LET d == [alive |-> TRUE, intx |-> intx, msi |-> NoMsi,
                  caps |-> parse_capabilities({"msi", "msix", "pcie"}, supported),
                  msix |-> [on |-> FALSE, entries |-> 3],
                  bars |-> allocate_bars(regs, {}), base |-> 0, layout |-> l, slots |-> <<>>]
            s == map_mmio_regions(enable_intx([dev |-> d, host |-> Opened(l, regs)]))
        IN /\ Mappable(l) /\ regs[0] # "none" /\ (regs # UsualRegisters => l.ranges = {} /\ l.cap = "none")
           /\ dev = s.dev /\ host = s.host

\* The VMM's view is updated, with what follows from it, and then the device's
\* own configuration space is written.
WriteConfig(s, mode, on) ==
    Become([s EXCEPT !.host.bits = IF on THEN @ \cup {mode} ELSE @ \ {mode}])

\* A guest has one of MSI and MSI-X enabled, and changes the number of vectors
\* only while MSI is disabled.
WriteMsiControl(on, mme) ==
    /\ dev.alive /\ "msi" \in dev.caps
    /\ on => ~ dev.msix.on
    /\ dev.msi.on => mme = dev.msi.mme
    /\ WriteConfig(update_msi_capabilities(Now, [dev.msi EXCEPT !.on = on, !.mme = mme]), "msi", on)
    /\ UNCHANGED guest

WriteMsiMessage(m) ==
    /\ dev.alive /\ "msi" \in dev.caps
    /\ Become(update_msi_capabilities(Now, [dev.msi EXCEPT !.msg = m]))
    /\ UNCHANGED guest

WriteMsixControl(on) ==
    /\ dev.alive /\ "msix" \in dev.caps
    /\ on => ~ dev.msi.on
    /\ WriteConfig(update_msix_capabilities(Now, on), "msix", on)
    /\ UNCHANGED guest

\* INTx: the kernel masks it until it is told that the guest has seen it.
DeviceRaises ==
    /\ dev.alive /\ host.mode = "intx" /\ ~ host.masked
    /\ host' = [host EXCEPT !.masked = TRUE]
    /\ guest' = [guest EXCEPT !.irq = TRUE]
    /\ UNCHANGED dev

\* read_bar and write_bar: an access that traps is taken for the end of the
\* interrupt; one to a mapped page goes to the device unseen.
read_bar ==
    /\ dev.alive /\ guest.irq
    /\ guest' = [guest EXCEPT !.irq = FALSE]
    /\ host' = IF HandlerTraps /\ dev.intx = "on" THEN [host EXCEPT !.masked = FALSE] ELSE host
    /\ UNCHANGED dev

\* Mutant: the slots are put at the new place and the old ones are left.
move_bar_leaves(base) ==
    LET moved == SlotsAt(base, dev.layout)
    IN /\ dev.alive /\ base # dev.base /\ guest.moves < MaxMoves
       /\ dev' = [dev EXCEPT !.base = base, !.slots = moved]
       /\ host' = [host EXCEPT !.slots = @ \cup {moved[i] : i \in DOMAIN moved}]
       /\ guest' = [guest EXCEPT !.moves = @ + 1]

\* One slot after another is removed and created at its new place.
move_bar(base) ==
    LET Shift(slot) == [slot EXCEPT !.start = @ + (base - dev.base)]
        Move(slots, slot) == (slots \ {slot}) \cup {Shift(slot)}
    IN /\ dev.alive /\ base # dev.base /\ guest.moves < MaxMoves
       /\ dev' = [dev EXCEPT !.base = base, !.slots = [i \in DOMAIN @ |-> Shift(@[i])]]
       /\ host' = [host EXCEPT !.slots = FoldLeft(Move, @, dev.slots)]
       /\ guest' = [guest EXCEPT !.moves = @ + 1]

\* A snapshot of the paused VM is restored: the device is opened and reset
\* again, and its interrupts are set up as they were.
set_state(s) ==
    LET fresh == [dev |-> [s.dev EXCEPT !.intx = IF @ = "none" THEN "none" ELSE "off",
                                        !.msix.on = FALSE, !.slots = <<>>,
                                        !.bars = allocate_bars(s.host.regs, s.dev.bars)],
                  host |-> Opened(s.dev.layout, s.host.regs)]
    IN initialize_msi(IF s.dev.intx = "on" THEN enable_intx(fresh) ELSE fresh, s.dev.msi)

restore ==
    LET a == set_state(Now)
        b == MsiRoutes([a EXCEPT !.dev.msi.on = dev.msi.on])
        c == IF dev.msi.on THEN enable_msi(b) ELSE b
        d == [c EXCEPT !.dev.msix.on = dev.msix.on]
    IN /\ dev.alive /\ guest.restores < MaxRestores
       /\ Become(map_mmio_regions(IF dev.msix.on THEN enable_msix(d) ELSE d))
       /\ guest' = [guest EXCEPT !.restores = @ + 1, !.irq = FALSE]

\* A vfio-user client then closes its session.
shutdown(h) == IF h.session = "server" THEN [h EXCEPT !.session = "closed"] ELSE h

drop ==
    LET a == unmap_mmio_regions(Now)
        b == IF dev.msix.on THEN disable_msix(a) ELSE a
        c == IF dev.msi.on THEN disable_msi(b) ELSE b
    IN /\ dev.alive
       /\ Become([disable_intx(c) EXCEPT !.dev.alive = FALSE, !.host = shutdown(@)])
       /\ UNCHANGED guest

Next ==
    \/ \E on \in BOOLEAN, mme \in 0..MaxMme : WriteMsiControl(on, mme)
    \/ \E m \in Messages : WriteMsiMessage(m)
    \/ \E on \in BOOLEAN : WriteMsixControl(on)
    \/ DeviceRaises
    \/ read_bar
    \/ \E b \in Bases : move_bar(b)
    \/ restore
    \/ drop

Spec == New /\ [][Next]_vfioVars

-----------------------------------------------------------------------------
\* The interrupts the device is set up for are the ones the guest enabled,
\* whatever the order of its writes and through a restore, and MSI is routed
\* as the guest programmed it last; a device that is gone has none.
InterruptsFollowGuest ==
    LET mode == IF ~ dev.alive THEN "none"
                ELSE IF dev.msix.on THEN "msix"
                ELSE IF dev.msi.on THEN "msi"
                ELSE IF dev.intx # "none" THEN "intx" ELSE "none"
    IN /\ host.mode = mode
       /\ dev.intx # "none" => (dev.intx = "on") = (mode = "intx")
       /\ mode = "msix" => host.vectors = dev.msix.entries
       /\ mode = "msi" => /\ host.vectors = num_enabled_vectors(dev) /\ host.open
                          /\ \A v \in 0..(host.vectors - 1) : host.routes[v] = dev.msi.msg

\* The guest reads the enable bits as it wrote them; after a restore the device
\* has them clear.
EnableBitsReadBack ==
    (dev.alive /\ guest.restores = 0) =>
        host.bits = (IF dev.msi.on THEN {"msi"} ELSE {})
                        \cup (IF dev.msix.on THEN {"msix"} ELSE {})

\* INTx stays masked only until the guest's handler has run.
IntxIsRearmed == (host.mode = "intx" /\ host.masked) => guest.irq

\* The guest reaches the MSI-X table and the pending bits only through the VMM,
\* wherever it moves the BAR, and what it reaches directly is in the BAR.
TableIsTrapped ==
    LET mapped == UNION {Span(s.start, s.size) : s \in host.slots}
    IN IF dev.alive
       THEN /\ mapped \subseteq Span(dev.base, BarSize)
            /\ mapped \cap {dev.base + r : r \in dev.layout.ranges} = {}
       ELSE mapped = {}

\* The VMM has the BARs of the device, also after a restore.
BarsAreTheDevices == dev.bars = BarsOf(host.regs)
=============================================================================
