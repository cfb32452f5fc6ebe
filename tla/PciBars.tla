------------------------------- MODULE PciBars -------------------------------
(***************************************************************************)
(* Where the BARs of PCI devices are: the registers the guest programs     *)
(* (pci/src/configuration.rs, pci/src/bus.rs), the ranges that             *)
(* AddressManager::move_bar (vmm/src/device_manager.rs) frees, allocates   *)
(* and routes (vm-allocator/src/address.rs, vm-device/src/bus.rs), what    *)
(* the device itself keeps (virtio-devices/src/transport/pci_device.rs),   *)
(* and the resources the device tree saves for a restore.                  *)
(*                                                                         *)
(* Each device has one BAR.  An address is 4 * hi + lo: the 32-bit hole is *)
(* hi = 0, the 64-bit area of the segment hi = 1 and 2.  A configuration   *)
(* write holds the lock of the PCI bus and of the device to its end, so it *)
(* is one step.                                                            *)
(***************************************************************************)
EXTENDS Integers, Sequences, FiniteSets, FiniteSetsExt

CONSTANTS
    Devices, Wide,       \* PCI functions, those with a 64-bit BAR
    Big,                 \* those whose BAR is 2 long, the others' is 1
    Polite,              \* no BAR is moved to, or hot added at, a place that
                         \* another one has or is being given
    MaxOps               \* bound: programmings, hotplugs and restores

VARIABLES dev, guest, host

barVars == <<dev, guest, host>>

Ones == -1                          \* the value 0xffff_ffff
Hole == 0..3
Area == 4..11
SpaceOf(d) == IF d \in Wide THEN Area ELSE Hole
LenOf(d) == IF d \in Big THEN 2 ELSE 1
Addr(hi, lo) == 4 * hi + lo
Span(at, len) == at..(at + len - 1)
Extent(at, len) == [at |-> at, len |-> len]

-----------------------------------------------------------------------------
(* AddressAllocator.                                                       *)

AlignUp(a, n) == ((a + n - 1) \div n) * n
Overlap(r, at, len) == Span(r.at, r.len) \cap Span(at, len) # {}

available_range(space, ranges, at, len) ==
    /\ at = AlignUp(at, len)
    /\ Span(at, len) \subseteq space
    /\ \A r \in ranges : ~ Overlap(r, at, len)

\* The gaps from the top: below each range, or the end marker, down to the
\* end of the one before it.  The result is the set of at most one address.
first_available_range(space, ranges, len) ==
    LET marks == {Extent(Max(space) + 1, 0)} \cup {r \in ranges : r.at \in space}
        PrevEnd(r) == Max({Min(space)} \cup {q.at + q.len : q \in {p \in marks : p.at < r.at}})
        fits == {r.at : r \in {q \in marks : q.at - AlignUp(PrevEnd(q), len) >= len}}
    IN IF fits = {} THEN {} ELSE {AlignUp(Max(fits) - (len + len - 1), len)}

free(ranges, at, len) == ranges \ {Extent(at, len)}

-----------------------------------------------------------------------------
NoDevice == [there |-> FALSE, lo |-> 0, hi |-> 0, blo |-> 0, bhi |-> 0,
             region |-> -1, resource |-> -1, ioevent |-> -1]

Present == {d \in Devices : dev.fn[d].there}

\* Bus::resolve: the range that starts last at or below the address.
resolve(bus, a) ==
    LET below == {e \in bus : e.at <= a}
        e == CHOOSE x \in below : \A y \in below : y.at <= x.at
    IN IF below # {} /\ a < e.at + e.len THEN {e.fn} ELSE {}

\* Bus::update_range is a removal and an insertion, each of which may fail.
update_range(bus, old, new, len) ==
    LET found == resolve(bus, old)
        left == {e \in bus : e.at # old} IN
    IF found = {} \/ left = bus THEN [ok |-> FALSE, bus |-> bus]
    ELSE IF \E e \in left : Overlap(e, new, len) THEN [ok |-> FALSE, bus |-> left]
    ELSE [ok |-> TRUE, bus |-> left \cup {[at |-> new, len |-> len, fn |-> CHOOSE d \in found : TRUE]}]

\* AddressManager::move_bar: each step ends it when it fails.  A 64-bit BAR
\* that is in no segment's area has no allocator.
move_bar(s, d, old, new) ==
    LET len == LenOf(d)
        managed == d \notin Wide \/ old \in SpaceOf(d)
        freed == IF managed THEN free(s.alloc, old, len) ELSE s.alloc
        taken == IF managed THEN freed \cup {Extent(new, len)} ELSE freed
        fits == managed => available_range(SpaceOf(d), freed, new, len)
        moved == update_range(s.bus, old, new, len) IN
    IF ~ fits THEN [s EXCEPT !.alloc = freed]
    ELSE IF ~ moved.ok \/ s.fn[d].resource # old
    THEN [s EXCEPT !.alloc = taken, !.bus = moved.bus]
    ELSE [s EXCEPT
            !.alloc = taken, !.bus = moved.bus,
            !.fn[d].resource = new,
            !.fn[d].ioevent = new,
            !.fn[d].region = IF @ = old THEN new ELSE @]

\* detect_bar_reprogramming: what the write makes of the addresses in use.  A
\* 64-bit BAR moves when its upper half is written.
\* Mutant: the lower half of a 64-bit BAR moves it too.
DetectEager(s, d, reg, v) ==
    LET f == s.fn[d]
        new == IF reg = "lo" THEN Addr(f.hi, v) ELSE Addr(v, f.lo)
        old == Addr(f.bhi, f.blo) IN
    IF v = Ones \/ new = old THEN s
    ELSE move_bar([s EXCEPT !.fn[d].blo = new % 4, !.fn[d].bhi = new \div 4], d, old, new)

detect_bar_reprogramming(s, d, reg, v) ==
    LET f == s.fn[d]
        new == IF d \in Wide THEN Addr(v, f.lo) ELSE v
        old == Addr(f.bhi, f.blo) IN
    IF v = Ones \/ (d \in Wide /\ reg = "lo") \/ new = old THEN s
    ELSE move_bar([s EXCEPT !.fn[d].blo = new % 4, !.fn[d].bhi = new \div 4], d, old, new)

\* write_reg: all ones leave the size's mask.
write_reg(s, d, reg, v) ==
    LET stored == IF v # Ones THEN v
                  ELSE IF reg = "hi" THEN 3 ELSE IF d \in Big THEN 2 ELSE 3 IN
    IF reg = "lo" THEN [s EXCEPT !.fn[d].lo = stored] ELSE [s EXCEPT !.fn[d].hi = stored]

\* config_space_write of PciConfigIo and of PciConfigMmio: the move, then the
\* register, whether the move failed or not.
config_space_write(d, reg, v) ==
    dev' = write_reg(detect_bar_reprogramming(dev, d, reg, v), d, reg, v)

-----------------------------------------------------------------------------
New ==
    /\ dev = [fn |-> [d \in Devices |-> NoDevice], alloc |-> {}, bus |-> {}]
    /\ guest = [todo |-> [d \in Devices |-> <<>>], at |-> [d \in Devices |-> -1]]
    /\ host = [ops |-> 0]

Settled(d) == guest.todo[d] = <<>>
Busy(a, len, d) == \E e \in Present \ {d} :
    \/ Overlap(Extent(guest.at[e], LenOf(e)), a, len)
    \/ Overlap(Extent(Addr(dev.fn[e].bhi, dev.fn[e].blo), LenOf(e)), a, len)

Spend == host.ops < MaxOps /\ host' = [host EXCEPT !.ops = @ + 1]

\* add_pci_device: allocate_bars, register_mapping, then the ioeventfds and
\* the node of add_virtio_pci_device.
Add(d) ==
    /\ ~ dev.fn[d].there /\ Spend
    /\ \E at \in first_available_range(SpaceOf(d), dev.alloc, LenOf(d)) :
          /\ Polite => ~ Busy(at, LenOf(d), d)
          /\ \A e \in dev.bus : ~ Overlap(e, at, LenOf(d))
          /\ dev' = [dev EXCEPT
                !.alloc = @ \cup {Extent(at, LenOf(d))},
                !.bus = @ \cup {[at |-> at, len |-> LenOf(d), fn |-> d]},
                !.fn[d] = [there |-> TRUE, lo |-> at % 4, hi |-> at \div 4,
                           blo |-> at % 4, bhi |-> at \div 4,
                           region |-> at, resource |-> at, ioevent |-> at]]
          /\ guest' = [guest EXCEPT !.at[d] = at]

\* eject_device: free_bars, then off every bus.
Eject(d) ==
    /\ dev.fn[d].there /\ Settled(d) /\ Spend
    /\ dev' = [dev EXCEPT !.alloc = free(@, dev.fn[d].region, LenOf(d)),
                          !.bus = {e \in @ : e.fn # d}, !.fn[d] = NoDevice]
    /\ guest' = [guest EXCEPT !.at[d] = -1]

\* The guest sizes a BAR: each half written with ones and then put back.
GuestSizes(d) ==
    /\ dev.fn[d].there /\ Settled(d) /\ Spend
    /\ guest' = [guest EXCEPT !.todo[d] =
            <<<<"lo", Ones>>, <<"lo", guest.at[d] % 4>>>> \o
            (IF d \in Wide THEN <<<<"hi", Ones>>, <<"hi", guest.at[d] \div 4>>>> ELSE <<>>)]
    /\ UNCHANGED dev

\* The guest moves a BAR, the lower half first.
GuestMoves(d, to) ==
    /\ dev.fn[d].there /\ Settled(d) /\ Spend
    /\ to \in SpaceOf(d) /\ to = AlignUp(to, LenOf(d))
    /\ Polite => ~ Busy(to, LenOf(d), d)
    /\ guest' = [guest EXCEPT !.at[d] = to, !.todo[d] =
            <<<<"lo", to % 4>>>> \o (IF d \in Wide THEN <<<<"hi", to \div 4>>>> ELSE <<>>)]
    /\ UNCHANGED dev

GuestWrites(d) ==
    /\ ~ Settled(d)
    /\ config_space_write(d, Head(guest.todo[d])[1], Head(guest.todo[d])[2])
    /\ guest' = [guest EXCEPT !.todo[d] = Tail(@)]
    /\ UNCHANGED host

\* A restore makes each device again at the address its node holds
\* (pci_resources, allocate_bars), then PciConfiguration::set_state.
Restore ==
    /\ Spend
    /\ LET Again(d) == Extent(dev.fn[d].resource, LenOf(d)) IN
       dev' = [dev EXCEPT
          !.alloc = {Again(d) : d \in Present},
          !.bus = {[at |-> dev.fn[d].resource, len |-> LenOf(d), fn |-> d] : d \in Present},
          !.fn = [d \in Devices |-> IF d \in Present
                     THEN [@[d] EXCEPT !.region = dev.fn[d].resource,
                                   !.ioevent = dev.fn[d].resource] ELSE @[d]]]
    /\ UNCHANGED guest

Next ==
    \/ \E d \in Devices : Add(d) \/ Eject(d) \/ GuestSizes(d) \/ GuestWrites(d)
    \/ \E d \in Devices, a \in Hole \cup Area : GuestMoves(d, a)
    \/ Restore

Spec == New /\ [][Next]_barVars

-----------------------------------------------------------------------------
(* Properties.                                                             *)

\* A BAR that the guest has finished programming is at the address its
\* registers show, and there for everyone: the bus routes that range to the
\* device and nothing else, the allocator holds it, the queue notifications
\* are caught there, and the device and the device tree know it for the
\* ejection and the restore (config_space_write, move_bar, update_range).
BarsAreRouted ==
    \A d \in Present : Settled(d) =>
        LET a == Addr(dev.fn[d].hi, dev.fn[d].lo) IN
        /\ a = guest.at[d]
        /\ \A x \in Span(a, LenOf(d)) : resolve(dev.bus, x) = {d}
        /\ {e \in dev.bus : e.fn = d} = {[at |-> a, len |-> LenOf(d), fn |-> d]}
        /\ Extent(a, LenOf(d)) \in dev.alloc
        /\ dev.fn[d].region = a /\ dev.fn[d].resource = a /\ dev.fn[d].ioevent = a

\* The allocator's ranges never overlap, and a BAR is refused only when no
\* aligned place is left for it (AddressAllocator::first_available_range).
AllocatesWhenFree ==
    /\ \A r, q \in dev.alloc : r # q => ~ Overlap(r, q.at, q.len)
    /\ \A d \in Devices :
          LET places == {a \in SpaceOf(d) : available_range(SpaceOf(d), dev.alloc, a, LenOf(d))}
              found == first_available_range(SpaceOf(d), dev.alloc, LenOf(d)) IN
          found = IF places = {} THEN {} ELSE {Max(places)}
=============================================================================
