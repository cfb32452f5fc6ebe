-------------------------------- MODULE Iommu --------------------------------
(***************************************************************************)
(* virtio-iommu (virtio-devices/src/iommu.rs): the requests of the driver, *)
(* the translation that the workers of other devices do with the tables    *)
(* while they change, and the external mappings (VFIO, vDPA, vhost) that   *)
(* follow them.  Addresses are page numbers.  The driver attaches an       *)
(* endpoint to a domain without mappings, maps disjoint ranges, unmaps     *)
(* what it mapped, and detaches an endpoint once its mappings are gone.    *)
(***************************************************************************)
EXTENDS Integers, Sequences, FiniteSets

CONSTANTS
    Endpoints, External,    \* endpoints; those with an external mapping
    Domains,
    Pages,                  \* I/O virtual and guest physical page numbers
    PageSizeMask,           \* VIRTIO_IOMMU_PAGE_SIZE_MASK, in pages
    MaxSize,                \* bound: pages of a mapping
    MapFails,               \* an external map or unmap may fail
    Restores                \* bound: restores from a snapshot

VARIABLES dev, guest, host

iommuVars == <<dev, guest, host>>

NoDomain == [map |-> {}, kind |-> "none"]
Mapping == [virt : Pages, gpa : Pages, size : 1..MaxSize]
Detached == "detached"
Pick(S) == CHOOSE x \in S : TRUE

\* dev.endpoints, dev.domains: the IommuMapping; host.ext: what each external
\* mapping holds; guest.held: what the driver relies on.
TypeOK ==
    /\ dev.endpoints \in [Endpoints -> Domains \cup {Detached}]
    /\ \A d \in Domains : dev.domains[d].map \subseteq Mapping
    /\ host.ext \in [Endpoints -> SUBSET Mapping]
    /\ guest.held \in [Domains -> SUBSET Mapping]

\* Iommu::new: everything bypasses until the driver says otherwise.
New ==
    /\ dev = [endpoints |-> [e \in Endpoints |-> Detached],
              domains |-> [d \in Domains |-> NoDomain], bypass |-> TRUE, entering |-> {}]
    /\ host = [ext |-> [e \in Endpoints |-> {}], restores |-> 0]
    /\ guest = [req |-> <<>>, held |-> [d \in Domains |-> {}]]

-----------------------------------------------------------------------------
(* Translation: an access of device e.                                     *)

Covers(m, a) == m.virt <= a /\ a < m.virt + m.size
Error == -1

\* IommuMapping::translate_gva looks only at mappings that start within
\* PageSizeMask below the address.
translate_gva(e, a) ==
    LET d == dev.endpoints[e]
        start == IF PageSizeMask > a THEN 0 ELSE a - PageSizeMask
        hits == {m \in dev.domains[d].map : start <= m.virt /\ Covers(m, a)} IN
    IF d = Detached THEN IF dev.bypass THEN a ELSE Error
    ELSE IF dev.domains[d] = NoDomain THEN Error
    ELSE IF dev.domains[d].kind = "bypass" THEN a
    ELSE IF hits = {} THEN Error ELSE a - Pick(hits).virt + Pick(hits).gpa

\* IommuMapping::translate_gpa, the way back: the first mapping in the order
\* of virtual addresses.
translate_gpa(e, p) ==
    LET d == dev.endpoints[e]
        hits == {m \in dev.domains[d].map : m.gpa <= p /\ p < m.gpa + m.size}
        first == CHOOSE m \in hits : \A n \in hits : m.virt <= n.virt IN
    IF d = Detached THEN IF dev.bypass THEN p ELSE Error
    ELSE IF dev.domains[d] = NoDomain THEN Error
    ELSE IF dev.domains[d].kind = "bypass" THEN p
    ELSE IF hits = {} THEN Error ELSE p - first.gpa + first.virt

-----------------------------------------------------------------------------
(* The driver: one request at a time.                                      *)

Ask(req, held) ==
    /\ guest.req = <<>>
    /\ guest' = [guest EXCEPT !.req = <<req>>, !.held = held]
    /\ UNCHANGED <<dev, host>>

Overlap(m, n) == \E a \in Pages : Covers(m, a) /\ Covers(n, a)

DriverAttaches(e, d, kind) ==
    /\ dev.endpoints[e] = Detached /\ guest.held[d] = {}
    /\ dev.domains[d] # NoDomain => dev.domains[d].kind = kind
    /\ Ask([type |-> "ATTACH", e |-> e, d |-> d, kind |-> kind], guest.held)
DriverDetaches(e) ==
    /\ dev.endpoints[e] # Detached /\ guest.held[dev.endpoints[e]] = {}
    /\ Ask([type |-> "DETACH", e |-> e, d |-> dev.endpoints[e]], guest.held)
DriverMaps(d, m) ==
    /\ m.virt + m.size - 1 \in Pages /\ m.gpa + m.size - 1 \in Pages
    /\ \A n \in guest.held[d] : ~ Overlap(m, n)
    /\ Ask([type |-> "MAP", d |-> d, m |-> m], guest.held)
\* The driver relies on the mapping no more once it has asked.
DriverUnmaps(d, m) ==
    /\ m \in guest.held[d]
    /\ Ask([type |-> "UNMAP", d |-> d, m |-> m], [guest.held EXCEPT ![d] = @ \ {m}])

\* write_config: the bypass byte, if the driver acked BYPASS_CONFIG.
WriteBypass(b) ==
    /\ dev.bypass # b
    /\ dev' = [dev EXCEPT !.bypass = b]
    /\ UNCHANGED <<guest, host>>

-----------------------------------------------------------------------------
(* The worker.                                                             *)

Answer(held) == guest' = [guest EXCEPT !.req = <<>>, !.held = held]
Request(type) == guest.req # <<>> /\ Head(guest.req).type = type
Req == Head(guest.req)
In(d) == {e \in Endpoints : dev.endpoints[e] = d}

\* Attach writes the two tables one after the other, and keeps a domain that
\* exists.
AttachEndpoint ==
    /\ Request("ATTACH") /\ dev.entering = {}
    /\ dev' = [dev EXCEPT !.endpoints[Req.e] = Req.d, !.entering = {Req.d}]
    /\ UNCHANGED <<guest, host>>
AttachDomain ==
    /\ Request("ATTACH") /\ dev.entering # {}
    /\ dev' = [dev EXCEPT !.entering = {},
          !.domains[Req.d] = IF @ = NoDomain THEN [map |-> {}, kind |-> Req.kind] ELSE @]
    /\ Answer(guest.held)
    /\ UNCHANGED host

Detach ==
    /\ Request("DETACH")
    /\ dev' = [dev EXCEPT !.endpoints[Req.e] = Detached,
                          !.domains[Req.d] = IF In(Req.d) \ {Req.e} = {} THEN NoDomain ELSE @]
    /\ Answer(guest.held)
    /\ UNCHANGED host

\* A domain that bypasses, or that is not there, is refused.
Refuse ==
    /\ Request("MAP") \/ Request("UNMAP")
    /\ dev.domains[Req.d] = NoDomain \/ dev.domains[Req.d].kind = "bypass"
    /\ Answer(guest.held)
    /\ UNCHANGED <<dev, host>>

Mappable == dev.domains[Req.d].kind = "mapped"
\* The external mappings of the domain's endpoints, changed in turn; one that
\* fails keeps the rest and the domain from being changed, and the status that
\* the driver reads is still VIRTIO_IOMMU_S_OK.
Mapped(done) == [e \in Endpoints |-> IF e \in done THEN host.ext[e] \cup {Req.m} ELSE host.ext[e]]
Unmapped(done) == [e \in Endpoints |-> IF e \in done THEN host.ext[e] \ {Req.m} ELSE host.ext[e]]

MapRange ==
    /\ Request("MAP") /\ Mappable
    /\ LET ext == In(Req.d) \cap External IN
       \/ /\ host' = [host EXCEPT !.ext = Mapped(ext)]
          /\ dev' = [dev EXCEPT !.domains[Req.d].map = @ \cup {Req.m}]
          /\ Answer([guest.held EXCEPT ![Req.d] = @ \cup {Req.m}])
       \/ /\ MapFails
          /\ \E done \in (SUBSET ext) \ {ext} : host' = [host EXCEPT !.ext = Mapped(done)]
          /\ Answer([guest.held EXCEPT ![Req.d] = @ \cup {Req.m}])
          /\ UNCHANGED dev

\* Mutant: the external mappings are left to the driver's next map.
UnmapRangeLazy ==
    /\ Request("UNMAP") /\ Mappable
    /\ dev' = [dev EXCEPT !.domains[Req.d].map = @ \ {Req.m}]
    /\ Answer(guest.held)
    /\ UNCHANGED host
UnmapRange ==
    /\ Request("UNMAP") /\ Mappable
    /\ LET ext == In(Req.d) \cap External IN
       \/ /\ host' = [host EXCEPT !.ext = Unmapped(ext)]
          /\ dev' = [dev EXCEPT !.domains[Req.d].map = @ \ {Req.m}]
          /\ Answer(guest.held)
       \/ /\ MapFails
          /\ \E done \in (SUBSET ext) \ {ext} : host' = [host EXCEPT !.ext = Unmapped(done)]
          /\ Answer(guest.held)
          /\ UNCHANGED dev

\* set_state in a new process: the tables come back; the bypass mode and the
\* external mappings do not.
Restore ==
    /\ host.restores < Restores /\ dev.entering = {}
    /\ dev' = [dev EXCEPT !.bypass = TRUE]
    /\ host' = [ext |-> [e \in Endpoints |-> {}], restores |-> host.restores + 1]
    /\ UNCHANGED guest

Next ==
    \/ \E e \in Endpoints, d \in Domains, k \in {"mapped", "bypass"} : DriverAttaches(e, d, k)
    \/ \E e \in Endpoints : DriverDetaches(e)
    \/ \E d \in Domains, m \in Mapping : DriverMaps(d, m) \/ DriverUnmaps(d, m)
    \/ \E b \in BOOLEAN : WriteBypass(b)
    \/ AttachEndpoint \/ AttachDomain \/ Detach \/ Refuse \/ MapRange \/ UnmapRange \/ Restore

Spec == New /\ [][Next]_iommuVars

-----------------------------------------------------------------------------
(* Properties.                                                             *)

\* An access of an attached device goes where the driver's current mappings
\* say and nowhere else, at every moment of an attach, a map or an unmap, and
\* translate_gpa leads back to an address that translates to the same page.
TranslationIsTrue ==
    \A e \in Endpoints, a \in Pages :
        LET d == dev.endpoints[e]
            t == translate_gva(e, a)
            Means(m) == Covers(m, a) /\ t = a - m.virt + m.gpa IN
        d # Detached /\ dev.domains[d].kind = "mapped" =>
            /\ (\E m \in guest.held[d] : Covers(m, a)) => t # Error
            /\ t # Error => \E m \in dev.domains[d].map : Means(m)
            /\ t # Error => translate_gva(e, translate_gpa(e, t)) = t

\* Between requests a device with an external mapping reaches exactly what its
\* domain maps: what was unmapped is out of its reach when the driver hears of
\* it (Request::parse).
ExternalFollowsDomain ==
    guest.req = <<>> => \A e \in External :
        LET d == dev.endpoints[e] IN
        d # Detached => host.ext[e] = dev.domains[d].map
=============================================================================
