------------------------- MODULE InterruptController ------------------------
(***************************************************************************)
(* Interrupt controllers, in two independent parts: the IOAPIC with the    *)
(* routes of KVM (IoapicNew, IoapicNext), and the GIC (GicNew, GicNext).   *)
(***************************************************************************)
EXTENDS Integers, Sequences, FiniteSets, SequencesExt

CONSTANTS
    Pins,          \* pins of the IOAPIC that are used
    Lows,          \* low halves of entries the guest writes
    Highs,         \* high halves
    Vectors,       \* vectors of the message-signalled interrupt of a device
    EarlyInject,   \* whether KVM raises a pending event before the route is there
    Quiet,         \* whether a snapshot is taken only when nothing is pending
    MaxWrites, MaxRaised, MaxRestores,
    Vcpus,         \* number of vCPUs
    NumIrqs,       \* interrupts of the controller, 32 private ones included
    Spis,          \* shared interrupts in use, counted from 0
    Events,        \* device events the ITS can map
    PriorityBits,  \* possible numbers of priority bits
    Late,          \* a device raises events after the devices were paused
    Optimised,     \* reads through a shared reference may yield its initial value
    MaxOps, MaxGicRestores

VARIABLES dev, guest, host

Now == [dev |-> dev, guest |-> guest, host |-> host]
Become(s) == dev' = s.dev /\ guest' = s.guest /\ host' = s.host

-----------------------------------------------------------------------------
(***************************************************************************)
(* The interrupt controller of the x86 platform (devices/src/ioapic.rs),   *)
(* the groups of interrupt routes it and the PCI devices share             *)
(* (vmm/src/interrupt.rs), and the routing table of the hypervisor         *)
(* (hypervisor/src/kvm/mod.rs).                                            *)
(*                                                                         *)
(* dev is the Ioapic, the routes and the updates under way, guest what the *)
(* guest programmed and received, host the table and the event fds of KVM. *)
(* A register of 64 bits is a pair of halves; a redirection table entry    *)
(* has its bits where the hardware has them.                               *)
(***************************************************************************)

MsiGsi == Cardinality(Pins)
Registers == {0} \cup {16 + 2 * p + h : p \in Pins, h \in 0 .. 1}
Gsis == Pins \cup {MsiGsi}
NoRoute == [addr |-> 0, data |-> 0]
Masked == [low |-> 65536, high |-> 0]
Idle == [pc |-> "idle", gsi |-> 0, route |-> NoRoute, masked |-> FALSE, seen |-> [g \in Gsis |-> NoRoute]]

IoapicNew ==
    /\ dev = [id_reg |-> 0, reg_sel |-> 0, entries |-> [p \in Pins |-> Masked],
              used |-> [p \in Pins |-> FALSE], apic |-> 1048576,
              registered |-> [g \in Gsis |-> FALSE],
              routes |-> [g \in Gsis |-> NoRoute],       \* gsi_msi_routes, NoRoute: masked or absent
              ioapic |-> Idle, msi |-> Idle]
    /\ guest = [writes |-> 0, raised |-> 0, wrong |-> FALSE, lost |-> FALSE, before |-> [p \in Pins |-> Masked],
                msi |-> NoRoute, wrote |-> [r \in Registers |-> IF r = 0 \/ r % 2 = 1 THEN 0 ELSE 65536],
                got |-> [g \in Gsis |-> 0]]
    /\ host = [table |-> [g \in Gsis |-> NoRoute], count |-> [g \in Gsis |-> 0], restores |-> 0]

-----------------------------------------------------------------------------
(* The bits of an entry.                                                   *)

Bit(n, b) == (n \div (2 ^ b)) % 2
vector(e) == e.low % 256
delivery_mode(e) == (e.low \div 256) % 8
destination_mode(e) == Bit(e.low, 11)
remote_irr(e) == Bit(e.low, 14)
trigger_mode(e) == Bit(e.low, 15)
interrupt_mask(e) == Bit(e.low, 16)
destination_field(e) == (e.high \div (2 ^ 24)) % 256
set_delivery_status(e, v) == [e EXCEPT !.low = @ + (v - Bit(@, 12)) * 4096]
set_remote_irr(e, v) == [e EXCEPT !.low = @ + (v - Bit(@, 14)) * 16384]

\* The register of entry i: low half at 16 + 2i, high half after it.
decode_irq_from_selector(sel) == [irq |-> (sel - 16) \div 2, high |-> sel % 2 # 0]

\* The message of an entry.
Message(d, e) ==
    [addr |-> d.apic + destination_field(e) * 4096 + 8 + destination_mode(e) * 4,
     data |-> trigger_mode(e) * 32768 + remote_irr(e) * 16384 + delivery_mode(e) * 256 + vector(e)]

\* Without the bit that says an interrupt is in service.
Plain(m) == [m EXCEPT !.data = @ - Bit(@, 14) * 16384]

-----------------------------------------------------------------------------
(* Routes.                                                                 *)

enable(d, g) == [d EXCEPT !.registered[g] = TRUE]
disable(d, g) == [d EXCEPT !.registered[g] = FALSE]

\* The whole table is replaced by the routes that are not masked.
set_gsi_routes(s) == [s EXCEPT !.host.table = s.dev.routes]

make_routing_entry(route, masked) == IF masked THEN NoRoute ELSE route

\* An interrupt reaches the guest: it must be one the guest asked for.
Deliver(s, g) ==
    LET m == s.host.table[g]
        asked == IF g = MsiGsi THEN {s.guest.msi, s.dev.msi.route}
                 ELSE {Message(s.dev, s.dev.entries[g]), Message(s.dev, s.guest.before[g])}
    IN IF m = NoRoute THEN [s EXCEPT !.guest.lost = TRUE, !.host.count[g] = 0]
       ELSE [s EXCEPT !.guest.got[g] = 1, !.host.count[g] = 0,
                      !.guest.wrong = @ \/ Plain(m) \notin {Plain(a) : a \in asked}]

\* The event fd is written; KVM takes the event when it watches the fd.
trigger(s, g) ==
    IF s.dev.registered[g] THEN Deliver([s EXCEPT !.host.count[g] = 1], g)
    ELSE [s EXCEPT !.host.count[g] = 1]

\* First part of MsiInterruptGroup::update: the event fd is watched or not.
update_starts(s, who, g, route, masked) ==
    [s EXCEPT !.dev = [(IF masked THEN disable(@, g) ELSE enable(@, g)) EXCEPT
                         ![who] = [pc |-> "route", gsi |-> g, route |-> route, masked |-> masked,
                                   seen |-> s.dev.routes]]]

\* Mutant: the table is made from the routes as they were before the lock.
update_ends_unlocked(s, who) ==
    LET u == s.dev[who]
        r == [u.seen EXCEPT ![u.gsi] = make_routing_entry(u.route, u.masked)]
    IN set_gsi_routes([s EXCEPT !.dev.routes = r, !.dev[who] = Idle])

\* Second part: the route, and the table, under the lock all groups share.
update_ends(s, who) ==
    LET u == s.dev[who]
    IN set_gsi_routes([s EXCEPT !.dev.routes[u.gsi] = make_routing_entry(u.route, u.masked),
                                !.dev[who] = Idle])

-----------------------------------------------------------------------------
(* The IOAPIC.                                                             *)

\* The route of a pin and its mask, from both halves of its entry.
update_entry(s, irq) ==
    update_starts(s, "ioapic", irq, Message(s.dev, s.dev.entries[irq]),
                  interrupt_mask(s.dev.entries[irq]) = 1)

\* The identifier, or a half of an entry; delivery status and remote IRR are not the guest's to write.
ioapic_write(s, val) ==
    LET r == decode_irq_from_selector(s.dev.reg_sel)
        old == s.dev.entries[r.irq]
        kept == set_remote_irr(set_delivery_status([low |-> val, high |-> old.high], Bit(old.low, 12)),
                               Bit(old.low, 14))
        new == IF r.high THEN [old EXCEPT !.high = val] ELSE kept
        s1 == [s EXCEPT !.dev.entries[r.irq] = new, !.guest.before[r.irq] = old]
    IN IF s.dev.reg_sel = 0 THEN [s EXCEPT !.dev.id_reg = (val \div (2 ^ 24)) % 16]
       ELSE [update_entry(s1, r.irq) EXCEPT !.dev.used[r.irq] = TRUE]

\* A device raises a pin; the state of the entry follows the message.
service_irq(s, irq) ==
    LET e == s.dev.entries[irq]
        served == set_delivery_status(IF trigger_mode(e) = 1 THEN set_remote_irr(e, 1) ELSE e, 0)
    IN [trigger(s, irq) EXCEPT !.dev.entries[irq] = served]

end_of_interrupt(s, vec) ==
    [s EXCEPT !.dev.entries = [p \in Pins |->
        IF vector(@[p]) = vec /\ trigger_mode(@[p]) = 1 THEN set_remote_irr(@[p], 0) ELSE @[p]]]

ioapic_read(d) ==
    CASE d.reg_sel = 1 -> 1507345
      [] d.reg_sel \in {0, 2} -> (d.id_reg % 16) * (2 ^ 24)
      [] OTHER -> LET r == decode_irq_from_selector(d.reg_sel)
                  IN IF r.high THEN d.entries[r.irq].high ELSE d.entries[r.irq].low

\* The entries the guest has used make the routes again, one after the other.
set_state(s) ==
    LET live(p) == s.dev.used[p] /\ interrupt_mask(s.dev.entries[p]) = 0
        r == [g \in Gsis |-> IF g \in Pins /\ live(g) THEN Message(s.dev, s.dev.entries[g])
                             ELSE IF g = MsiGsi THEN s.guest.msi ELSE NoRoute]
    IN set_gsi_routes([s EXCEPT !.dev.routes = r,
                                !.dev.registered = [g \in Gsis |-> r[g] # NoRoute]])

-----------------------------------------------------------------------------
(* Actions.                                                                *)

Held == dev.ioapic.pc # "idle"      \* the lock of the IOAPIC

Select(r) ==
    /\ ~Held /\ r # dev.reg_sel
    /\ Become([Now EXCEPT !.dev.reg_sel = r])

WriteHalf(val) ==
    /\ ~Held /\ guest.writes < MaxWrites
    /\ val \in (IF dev.reg_sel = 0 \/ dev.reg_sel % 2 = 1 THEN Highs ELSE Lows)
    /\ Become([ioapic_write(Now, val) EXCEPT !.guest.writes = @ + 1, !.guest.wrote[dev.reg_sel] = val])

IoapicUpdated == Held /\ Become(update_ends(Now, "ioapic"))

\* The guest gives the message of a device that has its own interrupt.
WriteMsi(v) ==
    /\ dev.msi.pc = "idle" /\ guest.writes < MaxWrites
    /\ Become([update_starts(Now, "msi", MsiGsi, [addr |-> dev.apic, data |-> v], FALSE)
                  EXCEPT !.guest.writes = @ + 1])

MsiUpdated ==
    /\ dev.msi.pc # "idle"
    /\ Become([update_ends(Now, "msi") EXCEPT !.guest.msi = dev.msi.route])

\* A device of the platform, through the IOAPIC and its lock.
RaisePin(p) ==
    /\ ~Held /\ guest.raised < MaxRaised
    /\ Become([service_irq(Now, p) EXCEPT !.guest.raised = @ + 1])

\* The device with its own interrupt, which takes no lock, once it has a route.
RaiseMsi ==
    /\ guest.raised < MaxRaised /\ guest.msi # NoRoute
    /\ Become([trigger(Now, MsiGsi) EXCEPT !.guest.raised = @ + 1])

\* An event written before the fd was watched is taken when it is.
KvmInjects(g) ==
    /\ dev.registered[g] /\ host.count[g] > 0
    /\ EarlyInject \/ \A w \in {"ioapic", "msi"} : dev[w].pc = "idle" \/ dev[w].gsi # g
    /\ Become(Deliver(Now, g))

Eoi(p) ==
    /\ ~Held /\ guest.got[p] = 1
    /\ Become([end_of_interrupt(Now, vector(dev.entries[p])) EXCEPT !.guest.got[p] = 0])

\* The machine is saved and another one made: the event fds are new.
Restore ==
    /\ ~Held /\ dev.msi.pc = "idle" /\ host.restores < MaxRestores
    /\ Quiet => \A g \in Gsis : host.count[g] = 0
    /\ LET lose == \E p \in Pins : host.count[p] > 0 /\ trigger_mode(dev.entries[p]) = 1
           s1 == [Now EXCEPT !.host.count = [g \in Gsis |-> 0], !.host.restores = @ + 1,
                             !.guest.lost = @ \/ lose]
       IN Become(set_state(s1))

IoapicNext ==
    \/ \E r \in Registers : Select(r)
    \/ \E v \in Lows \cup Highs : WriteHalf(v)
    \/ IoapicUpdated \/ MsiUpdated \/ RaiseMsi \/ Restore
    \/ \E v \in Vectors : WriteMsi(v)
    \/ \E p \in Pins : RaisePin(p) \/ Eoi(p)
    \/ \E g \in Gsis : KvmInjects(g)

IoapicSpec == IoapicNew /\ [][IoapicNext]_<<dev, guest, host>>

-----------------------------------------------------------------------------
(* Properties.                                                             *)

\* Between updates the table of the hypervisor is what the guest programmed: no update of
\* one device undoes the route of another (update, set_gsi_routes), and a restored machine
\* has the routes of the saved one (set_state).
RoutesAreCurrent ==
    /\ \A p \in Pins : dev.ioapic.pc = "idle" =>
          LET e == dev.entries[p]
          IN Plain(host.table[p]) = IF dev.used[p] /\ interrupt_mask(e) = 0
                                    THEN Plain(Message(dev, e)) ELSE NoRoute
    /\ dev.msi.pc = "idle" => host.table[MsiGsi] = guest.msi

\* The guest gets each interrupt as it programmed it, never with the vector of one entry
\* and the destination of another, and none is dropped (update, trigger).
InterruptsArrive == ~guest.wrong /\ ~guest.lost

\* A register reads as the guest wrote it, whatever was raised and served meanwhile, but
\* for the two bits that are the controller's (ioapic_write, ioapic_read).
RegistersReadBack ==
    \A r \in Registers :
        LET v == ioapic_read([dev EXCEPT !.reg_sel = r])
            w == guest.wrote[r]
        IN IF r >= 16 /\ r % 2 = 0
           THEN v - Bit(v, 12) * 4096 - Bit(v, 14) * 16384 = w - Bit(w, 12) * 4096 - Bit(w, 14) * 16384
           ELSE v = w

InterruptsAreRouted == RoutesAreCurrent /\ InterruptsArrive /\ RegistersReadBack

-----------------------------------------------------------------------------
(***************************************************************************)
(* The interrupt controller of aarch64 guests: a GICv3 with an ITS that    *)
(* lives in KVM.  The program creates it, flushes its tables to guest      *)
(* memory when the machine is paused, reads its registers one by one for a *)
(* snapshot and writes them back, in an order that matters, into a new one *)
(* (devices/src/gic.rs, hypervisor/src/kvm/aarch64/gic, vmm/src/vm.rs).    *)
(*                                                                         *)
(* dev is what the program holds, guest what the guest has asked for, and  *)
(* host the controller in KVM with the tables in guest memory.  Registers  *)
(* that only hold a value behave like the routes and are left out.         *)
(***************************************************************************)

Cpus == 1 .. Vcpus

-----------------------------------------------------------------------------
(* KVM's controller.                                                       *)

Icc == <<"SRE", "CTLR", "IGRPEN0", "IGRPEN1", "PMR", "BPR0", "BPR1", "AP0R0", "AP0R1", "AP0R2", "AP0R3",
         "AP1R0", "AP1R1", "AP1R2", "AP1R3">>

\* A new controller.
Blank(bits) ==
    [enable |-> {}, pend |-> {}, active |-> {}, route |-> [i \in Spis |-> 0], ctlr |-> 0,
     redist |-> [c \in Cpus |-> [lpis |-> 0, base |-> 0, enable |-> {}, pend |-> {}]],
     icc |-> [c \in Cpus |-> [r \in ToSet(Icc) |-> IF r = "CTLR" THEN bits ELSE 0]],
     cbaser |-> 0, creadr |-> 0, cwriter |-> 0, baser |-> 0, enabled |-> 0,
     map |-> {}, lpi |-> [c \in Cpus |-> {}], irqfd |-> FALSE]

\* The guest memory the controller uses: the ITS table and each vCPU's pending table.
NoTables == [map |-> {}, lpi |-> [c \in Cpus |-> {}]]

\* The interrupts a word of a register is about.
WordOf(bpi, w) == {i \in Spis : (i * bpi) \div 32 = w - 1}

KvmDistRead(k, reg, w) ==
    CASE reg \in {"ICENABLER", "ISENABLER"} -> k.enable \cap WordOf(1, w)
      [] reg \in {"ICPENDR", "ISPENDR"} -> k.pend \cap WordOf(1, w)
      [] reg \in {"ICACTIVER", "ISACTIVER"} -> k.active \cap WordOf(1, w)
      [] reg = "IROUTER" -> {(i * 10) + k.route[i] : i \in WordOf(64, w)}

KvmDistWrite(k, reg, val) ==
    CASE reg = "ICENABLER" -> [k EXCEPT !.enable = @ \ val]
      [] reg = "ISENABLER" -> [k EXCEPT !.enable = @ \cup val]
      [] reg = "ICPENDR" -> [k EXCEPT !.pend = @ \ val]
      [] reg = "ISPENDR" -> [k EXCEPT !.pend = @ \cup val]
      [] reg = "ICACTIVER" -> [k EXCEPT !.active = @ \ val]
      [] reg = "ISACTIVER" -> [k EXCEPT !.active = @ \cup val]
      [] reg = "IROUTER" -> [k EXCEPT !.route =
            [i \in Spis |-> IF \E v \in val : v \div 10 = i THEN (CHOOSE v \in val : v \div 10 = i) % 10
                            ELSE @[i]]]

KvmRedistRead(k, c, reg) ==
    CASE reg = "PENDBASER" -> {k.redist[c].base}
      [] reg = "CTLR" -> {k.redist[c].lpis}
      [] reg \in {"ICENABLER0", "ISENABLER0"} -> k.redist[c].enable
      [] reg \in {"ICPENDR0", "ISPENDR0"} -> k.redist[c].pend

\* The place of the pending table cannot change once LPIs are enabled.
KvmRedistWrite(k, c, reg, val) ==
    LET one == CHOOSE v \in val : TRUE
    IN CASE reg = "PENDBASER" -> IF k.redist[c].lpis = 1 THEN k ELSE [k EXCEPT !.redist[c].base = one]
         [] reg = "CTLR" -> [k EXCEPT !.redist[c].lpis = one]
         [] reg = "ICENABLER0" -> [k EXCEPT !.redist[c].enable = @ \ val]
         [] reg = "ISENABLER0" -> [k EXCEPT !.redist[c].enable = @ \cup val]
         [] reg = "ICPENDR0" -> [k EXCEPT !.redist[c].pend = @ \ val]
         [] reg = "ISPENDR0" -> [k EXCEPT !.redist[c].pend = @ \cup val]

\* A new place for the command queue restarts it; an enabled ITS runs what is queued.
KvmItsWrite(k, reg, val) ==
    CASE reg = "CBASER" -> [k EXCEPT !.cbaser = val, !.creadr = 0, !.cwriter = 0]
      [] reg = "CREADR" -> [k EXCEPT !.creadr = val]
      [] reg = "CWRITER" -> [k EXCEPT !.cwriter = val, !.creadr = IF k.enabled = 1 THEN val ELSE @]
      [] reg = "BASER" -> [k EXCEPT !.baser = val]
      [] reg = "CTLR" -> [k EXCEPT !.enabled = val, !.creadr = IF val = 1 THEN k.cwriter ELSE @]

\* The tables go to memory at the places the registers name, and come back from there.
KvmSave(k, ram) ==
    [map |-> IF k.baser = 1 THEN k.map ELSE ram.map,
     lpi |-> [c \in Cpus |-> IF k.redist[c].base = c THEN k.lpi[c] ELSE ram.lpi[c]]]
KvmLoad(k, ram) ==
    IF k.baser # 1 THEN k
    ELSE [k EXCEPT !.map = ram.map,
            !.lpi = [c \in Cpus |-> IF k.redist[c].base = c /\ k.redist[c].lpis = 1
                                    THEN {e \in ram.lpi[c] : <<e, c>> \in ram.map} ELSE {}]]

-----------------------------------------------------------------------------
(* The program's accesses.                                                 *)

VGIC_DIST_REGS == <<"ICENABLER", "ISENABLER", "IROUTER", "ICPENDR", "ISPENDR", "ICACTIVER", "ISACTIVER">>
VGIC_RDIST_REGS == <<"PENDBASER", "CTLR">>
VGIC_SGI_REGS == <<"ICENABLER0", "ISENABLER0", "ICPENDR0", "ISPENDR0">>

\* Mutant: a last, partly used word is forgotten.
compute_reg_len_floor(bpi) == ((bpi * (NumIrqs - 32)) \div 8) \div 4

\* Words of a register of bpi bits for each interrupt.
compute_reg_len(bpi) ==
    LET bits == bpi * (NumIrqs - 32)
        bytes == (bits \div 8) + (IF bits % 8 > 0 THEN 4 ELSE 0)
    IN (bytes + 3) \div 4

DistAccesses ==
    FlattenSeq([n \in 1 .. Len(VGIC_DIST_REGS) |->
        [w \in 1 .. compute_reg_len(IF VGIC_DIST_REGS[n] = "IROUTER" THEN 64 ELSE 1) |->
            [reg |-> VGIC_DIST_REGS[n], word |-> w]]])

access_redists_aux(typers, regs) ==
    FlattenSeq([n \in 1 .. Len(typers) |-> [m \in 1 .. Len(regs) |-> [cpu |-> typers[n], reg |-> regs[m]]]])
RedistAccesses(typers) ==
    access_redists_aux(typers, VGIC_RDIST_REGS) \o access_redists_aux(typers, VGIC_SGI_REGS)

\* Registers a CPU interface with so many priority bits has.
Implemented(bits, reg) ==
    CASE reg \in {"AP0R1", "AP1R1"} -> bits >= 6
      [] reg \in {"AP0R2", "AP0R3", "AP1R2", "AP1R3"} -> bits = 7
      [] OTHER -> TRUE
IccAccesses(typers, bits) ==
    FlattenSeq([n \in 1 .. Len(typers) |->
        LET regs == SelectSeq(Icc, LAMBDA r : Implemented(bits, r))
        IN [m \in 1 .. Len(regs) |-> [cpu |-> typers[n], reg |-> regs[m]]]])

\* What a read yields: KVM writes through a reference the program holds as shared.
Yields(val, initial) == IF Optimised THEN {val, initial} ELSE {val}

get_dist_regs(k) ==
    LET a == DistAccesses IN [i \in 1 .. Len(a) |-> KvmDistRead(k, a[i].reg, a[i].word)]
\* The words of a register are disjoint: writing them in turn is writing their union.
set_dist_regs(k, state) ==
    LET a == DistAccesses
        words(reg) == UNION {state[i] : i \in {j \in 1 .. Len(a) : a[j].reg = reg}}
    IN FoldLeft(LAMBDA acc, reg : KvmDistWrite(acc, reg, words(reg)), k, VGIC_DIST_REGS)

get_redist_regs(k, typers) ==
    LET a == RedistAccesses(typers) IN [i \in 1 .. Len(a) |-> KvmRedistRead(k, a[i].cpu, a[i].reg)]
set_redist_regs(k, typers, state) ==
    LET a == RedistAccesses(typers)
    IN FoldLeft(LAMBDA acc, i : KvmRedistWrite(acc, a[i].cpu, a[i].reg, state[i]), k, [i \in 1 .. Len(a) |-> i])

\* The number of bits is read on the way, from the control register.
get_icc_regs(k, typers) ==
    LET a == IccAccesses(typers, k.icc[typers[1]]["CTLR"])
    IN [i \in 1 .. Len(a) |-> k.icc[a[i].cpu][a[i].reg]]
set_icc_regs(k, typers, state) ==
    LET a == IccAccesses(typers, state[2])
        place(c, reg) == {i \in 1 .. Len(a) : a[i] = [cpu |-> c, reg |-> reg]}
    IN [k EXCEPT !.icc = [c \in Cpus |-> [reg \in ToSet(Icc) |->
            IF place(c, reg) = {} THEN @[c][reg] ELSE state[CHOOSE i \in place(c, reg) : TRUE]]]]

\* The vCPUs the registers are addressed by; until they are known, all of them are the first.
construct_gicr_typers == [c \in Cpus |-> c]
set_gicr_typers(s) == [s EXCEPT !.dev.typers = construct_gicr_typers]

state(k, typers) ==
    {[dist |-> get_dist_regs(k), rdist |-> get_redist_regs(k, typers), icc |-> get_icc_regs(k, typers),
      ctlr |-> ctlr, cbaser |-> k.cbaser, creadr |-> creadr, cwriter |-> k.cwriter, baser |-> k.baser,
      enabled |-> k.enabled] : ctlr \in Yields(k.ctlr, 0), creadr \in Yields(k.creadr, 0)}

\* Mutant: the tables are read before the place they are in is known.
set_state_tables_first(k, typers, st, ram) ==
    LET its(acc, reg, val) == KvmItsWrite(acc, reg, val)
        k1 == [k EXCEPT !.ctlr = st.ctlr]
        k2 == set_icc_regs(set_redist_regs(set_dist_regs(k1, st.dist), typers, st.rdist), typers, st.icc)
        k3 == its(its(its(k2, "CBASER", st.cbaser), "CREADR", st.creadr), "CWRITER", st.cwriter)
    IN its(its(KvmLoad(k3, ram), "BASER", st.baser), "CTLR", st.enabled)

gic_set_state(k, typers, st, ram) ==
    LET its(acc, reg, val) == KvmItsWrite(acc, reg, val)
        k1 == [k EXCEPT !.ctlr = st.ctlr]
        k2 == set_icc_regs(set_redist_regs(set_dist_regs(k1, st.dist), typers, st.rdist), typers, st.icc)
        k3 == its(its(its(k2, "CBASER", st.cbaser), "CREADR", st.creadr), "CWRITER", st.cwriter)
    IN its(KvmLoad(its(k3, "BASER", st.baser), ram), "CTLR", st.enabled)

-----------------------------------------------------------------------------
(* The machine.                                                            *)

create_vgic(bits) == Blank(bits)
gic_enable(k) == [k EXCEPT !.irqfd = TRUE]

\* A guest that has booted: its tables have places, LPIs are enabled, its vCPUs have used
\* their interfaces.
Booted(bits) ==
    LET k == gic_enable(create_vgic(bits))
    IN [k EXCEPT !.enable = Spis, !.route = [i \in Spis |-> IF i = 0 THEN 1 ELSE Vcpus], !.ctlr = 1,
                 !.cbaser = 1, !.baser = 1, !.enabled = 1,
                 !.redist = [c \in Cpus |-> [lpis |-> 1, base |-> c, enable |-> {c}, pend |-> {}]],
                 !.icc = [c \in Cpus |-> [r \in ToSet(Icc) |->
                             IF r = "CTLR" THEN bits ELSE IF Implemented(bits, r) THEN c ELSE 0]]]

GicNew ==
    \E bits \in PriorityBits :
        /\ dev = [pc |-> "run", typers |-> [c \in Cpus |-> 1], saved |-> {}, bits |-> bits]
        /\ guest = [due |-> {}, spi |-> {}, sgi |-> {}, mapped |-> {}, queued |-> 0, ops |-> 0]
        /\ host = [kvm |-> Booted(bits), ram |-> NoTables, restores |-> 0]

Op(s) == guest.ops < MaxOps /\ Become([s EXCEPT !.guest.ops = @ + 1])

\* The guest maps an event to a vCPU by a command in the queue of the ITS.
MapEvent ==
    /\ dev.pc = "run"
    /\ \E e \in Events, c \in Cpus :
         /\ \A m \in guest.mapped : m[1] # e
         /\ Op([Now EXCEPT !.guest.mapped = @ \cup {<<e, c>>}, !.guest.queued = @ + 1,
                           !.host.kvm = KvmItsWrite([@ EXCEPT !.map = @ \cup {<<e, c>>}], "CWRITER", @.cwriter + 1)])

\* One vCPU interrupts another.
SendSgi ==
    dev.pc = "run" /\ \E c \in Cpus : Op([Now EXCEPT !.host.kvm.redist[c].pend = @ \cup {c},
                                                     !.guest.sgi = @ \cup {c}])

\* A device raises its line, or an event of its own.
gic_service_irq ==
    /\ dev.pc \in {"run", "vcpus"} /\ host.kvm.irqfd
    /\ \E i \in Spis : Op([Now EXCEPT !.host.kvm.pend = @ \cup {i}, !.guest.spi = @ \cup {i}])

RaiseEvent ==
    /\ dev.pc \in {"run", "vcpus"} \cup (IF Late THEN {"devices", "flushed"} ELSE {})
    /\ \E m \in guest.mapped :
         Op([Now EXCEPT !.host.kvm.lpi[m[2]] = IF m \in host.kvm.map THEN @ \cup {m[1]} ELSE @,
                        !.guest.due = @ \cup {m}])

\* A vCPU takes what is pending for it.
Take ==
    /\ dev.pc = "run"
    /\ \/ \E c \in Cpus : \E e \in host.kvm.lpi[c] :
             Become([Now EXCEPT !.host.kvm.lpi[c] = @ \ {e}, !.guest.due = @ \ {<<e, c>>}])
       \/ \E i \in host.kvm.pend \cap host.kvm.enable :
             Become([Now EXCEPT !.host.kvm.pend = @ \ {i}, !.guest.spi = @ \ {i}])
       \/ \E c \in Cpus : host.kvm.redist[c].pend # {}
             /\ Become([Now EXCEPT !.host.kvm.redist[c].pend = {}, !.guest.sgi = @ \ {c}])

\* The machine is paused: the vCPUs, the devices, then the tables of the controller.
Pause ==
    \/ dev.pc = "run" /\ host.restores < MaxGicRestores /\ Become([Now EXCEPT !.dev.pc = "vcpus"])
    \/ dev.pc = "vcpus" /\ Become([Now EXCEPT !.dev.pc = "devices"])

\* RDIST pending tables and ITS tables into guest RAM.
save_data_tables(k, ram) == KvmSave(k, ram)

Flush ==
    /\ dev.pc = "devices"
    /\ Become([Now EXCEPT !.dev.pc = "flushed", !.host.ram = save_data_tables(host.kvm, @)])

Resume == dev.pc \in {"flushed", "snapshot", "restored"} /\ Become([Now EXCEPT !.dev.pc = "run"])

add_vgic_snapshot_section ==
    /\ dev.pc = "flushed"
    /\ LET s1 == set_gicr_typers(Now)
       IN \E st \in state(host.kvm, s1.dev.typers) :
             Become([s1 EXCEPT !.dev.pc = "snapshot", !.dev.saved = {st}])

\* A new process with the same memory: a new controller, addressed by the saved vCPUs.
restore_vgic_and_enable_interrupt ==
    /\ dev.pc = "snapshot"
    /\ LET s1 == set_gicr_typers([Now EXCEPT !.dev.typers = [c \in Cpus |-> 1],
                                             !.host.kvm = create_vgic(dev.bits)])
           st == CHOOSE x \in dev.saved : TRUE
       IN Become([s1 EXCEPT !.dev.pc = "restored", !.dev.saved = {}, !.host.restores = @ + 1,
                            !.host.kvm = gic_enable(gic_set_state(@, s1.dev.typers, st, host.ram))])

GicNext ==
    \/ MapEvent \/ SendSgi \/ gic_service_irq \/ RaiseEvent \/ Take
    \/ Pause \/ Flush \/ Resume \/ add_vgic_snapshot_section \/ restore_vgic_and_enable_interrupt

GicSpec == GicNew /\ [][GicNext]_<<dev, guest, host>>

-----------------------------------------------------------------------------
(* Properties.                                                             *)

\* Nothing that was raised and not yet taken is forgotten: not a line, nor an event of a
\* device, nor an interrupt between vCPUs, however the machine was saved and restored.
PendingIsKept ==
    /\ \A m \in guest.due : m[1] \in host.kvm.lpi[m[2]]
    /\ host.kvm.pend = guest.spi
    /\ \A c \in guest.sgi : c \in host.kvm.redist[c].pend

\* The controller is set up as the guest left it: its routes, its table of events, the place
\* in the command queue, and the interface of each vCPU.
SetupIsKept ==
    /\ host.kvm.map = guest.mapped
    /\ host.kvm.creadr = guest.queued /\ host.kvm.cwriter = guest.queued
    /\ host.kvm = [Booted(dev.bits) EXCEPT !.map = host.kvm.map, !.lpi = host.kvm.lpi, !.pend = host.kvm.pend,
                      !.creadr = guest.queued, !.cwriter = guest.queued,
                      !.redist = [c \in Cpus |-> [@[c] EXCEPT !.pend = host.kvm.redist[c].pend]]]

GicIsKept == PendingIsKept /\ SetupIsKept

=============================================================================
