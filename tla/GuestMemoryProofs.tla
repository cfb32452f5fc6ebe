-------------------------- MODULE GuestMemoryProofs --------------------------
(***************************************************************************)
(* Proofs about the devices that say which pages of the guest may be       *)
(* reached (Iommu and Balloon), as MCGuestIo puts them together.           *)
(*                                                                         *)
(* For any endpoints, domains and address range, an access translates to   *)
(* what the driver has mapped, and the external mapping of an endpoint     *)
(* holds what its domain does, provided that no mapping is larger than the *)
(* range that translate_gva looks at, that external maps do not fail and   *)
(* that the device is not restored.  For any set of pages, the balloon     *)
(* gives back no page that the driver uses.                                *)
(***************************************************************************)
EXTENDS MCGuestIo, WellFoundedInduction, TLAPS

Kind == {"none", "mapped", "bypass"}
Domain == [map : SUBSET U!Mapping, kind : Kind]

IommuTypes ==
    /\ dev \in [endpoints : [Endpoints -> Domains \cup {U!Detached}], domains : [Domains -> Domain],
                bypass : BOOLEAN, entering : SUBSET Domains]
    /\ host \in [ext : [Endpoints -> SUBSET U!Mapping], restores : Nat]
    /\ guest = [req |-> guest.req, held |-> guest.held]
    /\ guest.held \in [Domains -> SUBSET U!Mapping]

\* What the driver has asked for, and what it knew when it asked.
Asked(r) ==
    /\ r.type \in {"ATTACH", "DETACH", "MAP", "UNMAP"} /\ r.d \in Domains
    /\ r.type = "ATTACH" =>
           /\ r.e \in Endpoints /\ r.kind \in {"mapped", "bypass"} /\ guest.held[r.d] = {}
           /\ dev.entering = {} => dev.endpoints[r.e] = U!Detached
    /\ r.type = "DETACH" =>
           r.e \in Endpoints /\ dev.endpoints[r.e] = r.d /\ guest.held[r.d] = {}
    /\ r.type \in {"MAP", "UNMAP"} => r.m \in U!Mapping
    /\ r.type = "MAP" =>
           /\ r.m.virt + r.m.size - 1 \in IovaPages /\ r.m.gpa + r.m.size - 1 \in IovaPages
           /\ \A n \in guest.held[r.d] : ~ U!Overlap(r.m, n)
    /\ r.type = "UNMAP" => r.m \in dev.domains[r.d].map

Requested == guest.req = <<>> \/ \E r : guest.req = <<r>> /\ Asked(r)

\* The mapping that the worker has still to remove.
Going(d) == IF guest.req # <<>> /\ U!Req.type = "UNMAP" /\ U!Req.d = d THEN {U!Req.m} ELSE {}

\* A domain maps what the driver relies on, and that mapping; its mappings are
\* within the address range and apart from each other.
Follows(d) ==
    /\ dev.domains[d].map \ Going(d) = guest.held[d]
    /\ dev.domains[d].kind # "mapped" => dev.domains[d].map = {}
    /\ \A m \in dev.domains[d].map :
           m.virt + m.size - 1 \in IovaPages /\ m.gpa + m.size - 1 \in IovaPages
    /\ \A m, n \in dev.domains[d].map : m # n => ~ U!Overlap(m, n)

\* An external mapping holds what the domain of its endpoint does, at every step.
Reach(e) ==
    host.ext[e] = IF dev.endpoints[e] = U!Detached THEN {} ELSE dev.domains[dev.endpoints[e]].map

IommuInv ==
    /\ IommuTypes /\ Requested
    /\ \A d \in Domains : Follows(d)
    /\ \A e \in External : Reach(e)

-----------------------------------------------------------------------------
(* The IOMMU: its tables follow the driver.                                *)

\* Ranges overlap each other or not at all.
LEMMA OverlapBothWays == ASSUME NEW m, NEW n, U!Overlap(m, n) PROVE U!Overlap(n, m)
BY DEF U!Overlap

\* A request that is there is the one that was asked.
LEMMA TheRequest ==
    ASSUME Requested, guest.req # <<>>
    PROVE  guest.req = <<U!Req>> /\ Asked(U!Req)
<1>1. PICK r : guest.req = <<r>> /\ Asked(r)
  BY DEF Requested
<1>2. U!Req = r
  BY <1>1 DEF U!Req
<1> QED
  BY <1>1, <1>2

\* The domain of a request, other than to unmap, maps what the driver relies on.
LEMMA NothingGoing ==
    ASSUME IommuInv, NEW d \in Domains, guest.req = <<>> \/ U!Req.type # "UNMAP"
    PROVE  dev.domains[d].map = guest.held[d]
BY DEF IommuInv, Follows, Going

\* The device as it is made.
LEMMA IommuInitially == ASSUME U!New, External \subseteq Endpoints PROVE IommuInv
<1> USE DEF U!New
<1>1. U!NoDomain \in Domain
  BY DEF U!NoDomain, Domain, Kind
<1>2. IommuTypes
  BY <1>1 DEF IommuTypes
<1>3. Requested
  BY DEF Requested
<1>4. ASSUME NEW d \in Domains PROVE Follows(d)
  BY DEF Follows, Going, U!NoDomain
<1>5. ASSUME NEW e \in External PROVE Reach(e)
  BY DEF Reach
<1> QED
  BY <1>2, <1>3, <1>4, <1>5 DEF IommuInv

\* What the driver asks changes nothing but what it relies on.
LEMMA IommuAsks ==
    ASSUME IommuInv, External \subseteq Endpoints, guest.req = <<>>, UNCHANGED <<dev, host>>,
           NEW r, NEW held \in [Domains -> SUBSET U!Mapping],
           guest' = [guest EXCEPT !.req = <<r>>, !.held = held],
           Asked(r)',
           \A d \in Domains : guest.held[d] \ Going(d)' = held[d]
    PROVE  IommuInv'
<1>1. guest' = [req |-> <<r>>, held |-> held]
  BY DEF IommuInv, IommuTypes
<1>2. guest'.req = <<r>> /\ guest'.held = held
  BY <1>1
<1>3. IommuTypes'
  BY <1>1, <1>2 DEF IommuInv, IommuTypes
<1>4. Requested'
  BY <1>2 DEF Requested
<1>5. ASSUME NEW d \in Domains PROVE Follows(d)'
  <2>1. dev.domains[d].map = guest.held[d]
    BY NothingGoing
  <2>2. dev'.domains[d].map \ Going(d)' = guest'.held[d]
    BY <1>2, <2>1
  <2> QED
    BY <2>2 DEF IommuInv, Follows
<1>6. ASSUME NEW e \in External PROVE Reach(e)'
  BY DEF IommuInv, Reach
<1> QED
  BY <1>3, <1>4, <1>5, <1>6 DEF IommuInv

\* The four requests of the driver.
LEMMA DriverSteps ==
    ASSUME IommuInv, External \subseteq Endpoints,
           \/ \E e \in Endpoints, d \in Domains, k \in {"mapped", "bypass"} : U!DriverAttaches(e, d, k)
           \/ \E e \in Endpoints : U!DriverDetaches(e)
           \/ \E d \in Domains, m \in U!Mapping : U!DriverMaps(d, m) \/ U!DriverUnmaps(d, m)
    PROVE  IommuInv'
<1>0. /\ guest = [req |-> guest.req, held |-> guest.held]
      /\ guest.held \in [Domains -> SUBSET U!Mapping]
  BY DEF IommuInv, IommuTypes
<1>1. ASSUME NEW e \in Endpoints, NEW d \in Domains, NEW k \in {"mapped", "bypass"},
             U!DriverAttaches(e, d, k)
      PROVE  IommuInv'
  <2> DEFINE r == [type |-> "ATTACH", e |-> e, d |-> d, kind |-> k]
  <2>1. /\ guest.req = <<>> /\ UNCHANGED <<dev, host>>
        /\ guest' = [guest EXCEPT !.req = <<r>>, !.held = guest.held]
        /\ dev.endpoints[e] = U!Detached /\ guest.held[d] = {}
    BY <1>1 DEF U!DriverAttaches, U!Ask
  <2>2. guest'.held = guest.held /\ guest'.req = <<r>>
    BY <1>0, <2>1
  <2>3. Asked(r)'
    BY <2>1, <2>2 DEF Asked
  <2>4. \A c \in Domains : guest.held[c] \ Going(c)' = guest.held[c]
    BY <2>2 DEF Going, U!Req
  <2> QED
    BY <1>0, <2>1, <2>3, <2>4, IommuAsks
<1>2. ASSUME NEW e \in Endpoints, U!DriverDetaches(e) PROVE IommuInv'
  <2> DEFINE r == [type |-> "DETACH", e |-> e, d |-> dev.endpoints[e]]
  <2>1. /\ guest.req = <<>> /\ UNCHANGED <<dev, host>>
        /\ guest' = [guest EXCEPT !.req = <<r>>, !.held = guest.held]
        /\ dev.endpoints[e] # U!Detached /\ guest.held[dev.endpoints[e]] = {}
    BY <1>2 DEF U!DriverDetaches, U!Ask
  <2>2. guest'.held = guest.held /\ guest'.req = <<r>>
    BY <1>0, <2>1
  <2>3. dev.endpoints[e] \in Domains
    BY <2>1 DEF IommuInv, IommuTypes
  <2>4. Asked(r)'
    BY <2>1, <2>2, <2>3 DEF Asked
  <2>5. \A c \in Domains : guest.held[c] \ Going(c)' = guest.held[c]
    BY <2>2 DEF Going, U!Req
  <2> QED
    BY <1>0, <2>1, <2>4, <2>5, IommuAsks
<1>3. ASSUME NEW d \in Domains, NEW m \in U!Mapping, U!DriverMaps(d, m) PROVE IommuInv'
  <2> DEFINE r == [type |-> "MAP", d |-> d, m |-> m]
  <2>1. /\ guest.req = <<>> /\ UNCHANGED <<dev, host>>
        /\ guest' = [guest EXCEPT !.req = <<r>>, !.held = guest.held]
        /\ m.virt + m.size - 1 \in IovaPages /\ m.gpa + m.size - 1 \in IovaPages
        /\ \A n \in guest.held[d] : ~ U!Overlap(m, n)
    BY <1>3 DEF U!DriverMaps, U!Ask
  <2>2. guest'.held = guest.held /\ guest'.req = <<r>>
    BY <1>0, <2>1
  <2>3. Asked(r)'
    BY <2>1, <2>2 DEF Asked
  <2>4. \A c \in Domains : guest.held[c] \ Going(c)' = guest.held[c]
    BY <2>2 DEF Going, U!Req
  <2> QED
    BY <1>0, <2>1, <2>3, <2>4, IommuAsks
<1>4. ASSUME NEW d \in Domains, NEW m \in U!Mapping, U!DriverUnmaps(d, m) PROVE IommuInv'
  <2> DEFINE r == [type |-> "UNMAP", d |-> d, m |-> m]
             held == [guest.held EXCEPT ![d] = guest.held[d] \ {m}]
  <2>1. /\ guest.req = <<>> /\ UNCHANGED <<dev, host>> /\ m \in guest.held[d]
        /\ guest' = [guest EXCEPT !.req = <<r>>, !.held = held]
    BY <1>4 DEF U!DriverUnmaps, U!Ask
  <2>2. guest'.held = held /\ guest'.req = <<r>>
    BY <1>0, <2>1
  <2>3. m \in dev.domains[d].map
    BY <2>1, NothingGoing
  <2>4. Asked(r)'
    BY <2>1, <2>2, <2>3 DEF Asked
  <2>5. \A c \in Domains : guest.held[c] \ Going(c)' = held[c]
    <3>1. \A c \in Domains : Going(c)' = IF d = c THEN {m} ELSE {}
      BY <2>2 DEF Going, U!Req
    <3> QED
      BY <1>0, <3>1
  <2>6. held \in [Domains -> SUBSET U!Mapping]
    BY <1>0
  <2> HIDE DEF r, held
  <2> QED
    BY <2>1, <2>4, <2>5, <2>6, IommuAsks
<1> QED
  BY <1>1, <1>2, <1>3, <1>4

\* A step of the worker that ends a request leaves nothing going.
LEMMA Answered ==
    ASSUME IommuTypes, NEW held \in [Domains -> SUBSET U!Mapping], U!Answer(held)
    PROVE  /\ guest'.req = <<>> /\ guest'.held = held
           /\ guest' = [req |-> guest'.req, held |-> guest'.held]
           /\ Requested' /\ \A d \in Domains : Going(d)' = {}
<1>1. guest' = [req |-> <<>>, held |-> held]
  BY DEF IommuTypes, U!Answer
<1>2. guest'.req = <<>> /\ guest'.held = held
  BY <1>1
<1> QED
  BY <1>1, <1>2 DEF Requested, Going

\* AttachEndpoint gives the endpoint a domain that maps nothing (Attach, the
\* first table).
LEMMA AttachEndpointStep ==
    ASSUME IommuInv, External \subseteq Endpoints, U!Detached \notin Domains, U!AttachEndpoint
    PROVE  IommuInv'
<1> DEFINE r == U!Req
<1>1. guest.req # <<>> /\ r.type = "ATTACH" /\ dev.entering = {} /\ UNCHANGED <<guest, host>>
  BY DEF U!AttachEndpoint, U!Request, U!Req
<1>2. guest.req = <<r>> /\ Asked(r)
  BY <1>1, TheRequest DEF IommuInv
<1>3. r.e \in Endpoints /\ r.d \in Domains /\ guest.held[r.d] = {} /\ dev.endpoints[r.e] = U!Detached
  BY <1>1, <1>2 DEF Asked
<1>4. /\ dev'.endpoints = [dev.endpoints EXCEPT ![r.e] = r.d]
      /\ dev'.domains = dev.domains /\ dev'.entering = {r.d}
      /\ IommuTypes'
  <2>1. dev' = [dev EXCEPT !.endpoints = [dev.endpoints EXCEPT ![r.e] = r.d], !.entering = {r.d}]
    BY DEF U!AttachEndpoint
  <2>2. /\ dev'.endpoints = [dev.endpoints EXCEPT ![r.e] = r.d]
        /\ dev'.domains = dev.domains /\ dev'.entering = {r.d}
    BY <2>1 DEF IommuInv, IommuTypes
  <2> QED
    BY <1>1, <1>3, <2>1, <2>2 DEF IommuInv, IommuTypes
<1>5. Requested'
  <2>1. PICK q : q = r
    OBVIOUS
  <2>2. Asked(q)'
    BY <1>1, <1>2, <1>4, <2>1 DEF Asked
  <2>3. guest'.req = <<q>>
    BY <1>1, <1>2, <2>1
  <2> QED
    BY <2>2, <2>3 DEF Requested
<1>6. ASSUME NEW d \in Domains PROVE Follows(d)'
  <2>1. Going(d)' = Going(d)
    BY <1>1 DEF Going, U!Req
  <2> QED
    BY <1>1, <1>4, <2>1 DEF IommuInv, Follows
<1>7. dev.domains[r.d].map = {}
  BY <1>1, <1>3, NothingGoing
<1>8. ASSUME NEW e \in External PROVE Reach(e)'
  <2>1. Reach(e)
    BY DEF IommuInv
  <2>2. CASE e = r.e
    BY <1>1, <1>3, <1>4, <1>7, <2>1, <2>2 DEF Reach, IommuInv, IommuTypes
  <2>3. CASE e # r.e
    BY <1>1, <1>3, <1>4, <2>1, <2>3 DEF Reach, IommuInv, IommuTypes
  <2> QED
    BY <2>2, <2>3
<1> QED
  BY <1>4, <1>5, <1>6, <1>8 DEF IommuInv

\* A step that ends a request about a domain that maps nothing, which leaves the
\* maps of all domains as they were.
LEMMA EmptyDomainStep ==
    ASSUME IommuInv, External \subseteq Endpoints, IommuTypes', U!Answer(guest.held), UNCHANGED host,
           guest.req = <<>> \/ U!Req.type # "UNMAP",
           \A d \in Domains : dev'.domains[d].map = dev.domains[d].map,
           \A d \in Domains : dev'.domains[d].kind # "mapped" => dev'.domains[d].map = {},
           \A e \in External : \/ dev'.endpoints[e] = dev.endpoints[e]
                               \/ dev'.endpoints[e] = U!Detached /\ host.ext[e] = {}
    PROVE  IommuInv'
<1>1. guest'.held = guest.held /\ Requested' /\ \A d \in Domains : Going(d)' = {}
  BY Answered DEF IommuInv, IommuTypes
<1>2. ASSUME NEW d \in Domains PROVE Follows(d)'
  <2>1. dev'.domains[d].map = guest'.held[d]
    BY <1>1, NothingGoing
  <2> QED
    BY <1>1, <2>1 DEF IommuInv, Follows
<1>3. ASSUME NEW e \in External PROVE Reach(e)'
  BY DEF IommuInv, Reach, IommuTypes
<1> QED
  BY <1>1, <1>2, <1>3 DEF IommuInv

\* AttachDomain makes a domain that maps nothing, or keeps it (Attach, the second
\* table).
LEMMA AttachDomainStep ==
    ASSUME IommuInv, External \subseteq Endpoints, U!AttachDomain
    PROVE  IommuInv'
<1> DEFINE r == U!Req
           new == IF dev.domains[r.d] = U!NoDomain THEN [map |-> {}, kind |-> r.kind]
                  ELSE dev.domains[r.d]
<1>1. guest.req # <<>> /\ r.type = "ATTACH" /\ U!Answer(guest.held) /\ UNCHANGED host
  BY DEF U!AttachDomain, U!Request, U!Req
<1>2. r.d \in Domains /\ r.kind \in {"mapped", "bypass"}
  BY <1>1, TheRequest DEF IommuInv, Asked
<1>3. dev' = [dev EXCEPT !.entering = {}, !.domains = [dev.domains EXCEPT ![r.d] = new]]
  BY DEF U!AttachDomain
<1>4. new \in Domain /\ new.map = dev.domains[r.d].map
  <2>1. dev.domains[r.d] \in Domain
    BY <1>2 DEF IommuInv, IommuTypes
  <2>2. CASE dev.domains[r.d] = U!NoDomain
    <3>1. new = [map |-> {}, kind |-> r.kind] /\ dev.domains[r.d].map = {}
      BY <2>2 DEF U!NoDomain
    <3> HIDE DEF new
    <3> QED
      BY <1>2, <3>1 DEF Domain, Kind
  <2>3. CASE dev.domains[r.d] # U!NoDomain
    BY <2>1, <2>3
  <2> QED
    BY <2>2, <2>3
<1>5. new.kind # "mapped" => new.map = {}
  BY <1>2 DEF IommuInv, Follows
<1> HIDE DEF new
<1>6. /\ dev'.domains = [dev.domains EXCEPT ![r.d] = new] /\ dev'.endpoints = dev.endpoints
      /\ IommuTypes'
  <2>1. dev'.domains = [dev.domains EXCEPT ![r.d] = new] /\ dev'.endpoints = dev.endpoints
    BY <1>3 DEF IommuInv, IommuTypes
  <2>2. guest' = [req |-> guest'.req, held |-> guest'.held] /\ guest'.held = guest.held
    BY <1>1, Answered DEF IommuInv, IommuTypes
  <2> QED
    BY <1>1, <1>2, <1>3, <1>4, <2>1, <2>2 DEF IommuInv, IommuTypes
<1>7. \A d \in Domains : /\ dev'.domains[d].map = dev.domains[d].map
                         /\ dev'.domains[d].kind # "mapped" => dev'.domains[d].map = {}
  BY <1>2, <1>4, <1>5, <1>6 DEF IommuInv, IommuTypes, Follows
<1> QED
  BY <1>1, <1>6, <1>7, EmptyDomainStep

\* Detach drops a domain that maps nothing when its last endpoint leaves it.
LEMMA DetachStep ==
    ASSUME IommuInv, External \subseteq Endpoints, U!Detached \notin Domains, U!Detach
    PROVE  IommuInv'
<1> DEFINE r == U!Req
           new == IF U!In(r.d) \ {r.e} = {} THEN U!NoDomain ELSE dev.domains[r.d]
<1>1. guest.req # <<>> /\ r.type = "DETACH" /\ U!Answer(guest.held) /\ UNCHANGED host
  BY DEF U!Detach, U!Request, U!Req
<1>2. r.d \in Domains /\ r.e \in Endpoints /\ dev.endpoints[r.e] = r.d /\ guest.held[r.d] = {}
  BY <1>1, TheRequest DEF IommuInv, Asked
<1>3. dev' = [dev EXCEPT !.endpoints = [dev.endpoints EXCEPT ![r.e] = U!Detached],
                         !.domains = [dev.domains EXCEPT ![r.d] = new]]
  BY DEF U!Detach
<1>4. dev.domains[r.d].map = {}
  BY <1>1, <1>2, NothingGoing
<1>5. new \in Domain /\ new.map = {}
  BY <1>2, <1>4 DEF U!NoDomain, Domain, Kind, IommuInv, IommuTypes
<1> HIDE DEF new
<1>6. /\ dev'.domains = [dev.domains EXCEPT ![r.d] = new]
      /\ dev'.endpoints = [dev.endpoints EXCEPT ![r.e] = U!Detached]
      /\ IommuTypes'
  <2>1. /\ dev'.domains = [dev.domains EXCEPT ![r.d] = new]
        /\ dev'.endpoints = [dev.endpoints EXCEPT ![r.e] = U!Detached]
    BY <1>3 DEF IommuInv, IommuTypes
  <2>2. guest' = [req |-> guest'.req, held |-> guest'.held] /\ guest'.held = guest.held
    BY <1>1, Answered DEF IommuInv, IommuTypes
  <2> QED
    BY <1>1, <1>2, <1>3, <1>5, <2>1, <2>2 DEF IommuInv, IommuTypes
<1>7. \A d \in Domains : /\ dev'.domains[d].map = dev.domains[d].map
                         /\ dev'.domains[d].kind # "mapped" => dev'.domains[d].map = {}
  BY <1>2, <1>4, <1>5, <1>6 DEF IommuInv, IommuTypes, Follows
<1>8. ASSUME NEW e \in External
      PROVE  \/ dev'.endpoints[e] = dev.endpoints[e]
             \/ dev'.endpoints[e] = U!Detached /\ host.ext[e] = {}
  BY <1>2, <1>4, <1>6 DEF IommuInv, Reach, IommuTypes
<1> QED
  BY <1>1, <1>6, <1>7, <1>8, EmptyDomainStep

\* A refused request changes nothing: nothing is mapped in its domain.
LEMMA RefuseStep ==
    ASSUME IommuInv, External \subseteq Endpoints, U!Refuse
    PROVE  IommuInv'
<1> DEFINE r == U!Req
<1>1. /\ guest.req # <<>> /\ r.type \in {"MAP", "UNMAP"} /\ U!Answer(guest.held)
      /\ UNCHANGED <<dev, host>>
      /\ dev.domains[r.d] = U!NoDomain \/ dev.domains[r.d].kind = "bypass"
  BY DEF U!Refuse, U!Request, U!Req
<1>2. r.d \in Domains /\ (r.type = "UNMAP" => r.m \in dev.domains[r.d].map)
  BY <1>1, TheRequest DEF IommuInv, Asked
<1>3. dev.domains[r.d].kind # "mapped"
  BY <1>1 DEF U!NoDomain
<1>4. dev.domains[r.d].map = {}
  BY <1>2, <1>3 DEF IommuInv, Follows
<1>5. r.type # "UNMAP"
  BY <1>2, <1>4
<1>6. IommuTypes'
  <2>1. guest' = [req |-> guest'.req, held |-> guest'.held] /\ guest'.held = guest.held
    BY <1>1, Answered DEF IommuInv, IommuTypes
  <2> QED
    BY <1>1, <2>1 DEF IommuInv, IommuTypes
<1>7. /\ \A d \in Domains : /\ dev'.domains[d].map = dev.domains[d].map
                            /\ dev'.domains[d].kind # "mapped" => dev'.domains[d].map = {}
      /\ \A e \in External : dev'.endpoints[e] = dev.endpoints[e]
  BY <1>1 DEF IommuInv, Follows
<1> QED
  BY <1>1, <1>5, <1>6, <1>7, EmptyDomainStep

\* The types, when a step writes the domains and the external mappings.
LEMMA NewTypes ==
    ASSUME IommuTypes, NEW domains \in [Domains -> Domain],
           NEW ext \in [Endpoints -> SUBSET U!Mapping],
           dev' = [dev EXCEPT !.domains = domains], host' = [host EXCEPT !.ext = ext],
           guest' = [req |-> guest'.req, held |-> guest'.held],
           guest'.held \in [Domains -> SUBSET U!Mapping]
    PROVE  /\ IommuTypes'
           /\ dev'.domains = domains /\ dev'.endpoints = dev.endpoints /\ host'.ext = ext
<1>1. dev' \in [endpoints : [Endpoints -> Domains \cup {U!Detached}], domains : [Domains -> Domain],
                bypass : BOOLEAN, entering : SUBSET Domains]
  BY DEF IommuTypes
<1>2. host' \in [ext : [Endpoints -> SUBSET U!Mapping], restores : Nat]
  BY DEF IommuTypes
<1>3. dev'.domains = domains /\ dev'.endpoints = dev.endpoints /\ host'.ext = ext
  BY DEF IommuTypes
<1> QED
  BY <1>1, <1>2, <1>3 DEF IommuTypes

\* A step that ends a request by giving a domain another map, and the external
\* mappings of its endpoints with it.
LEMMA NewMapStep ==
    ASSUME IommuInv, External \subseteq Endpoints, U!Detached \notin Domains,
           NEW d \in Domains, NEW map \in SUBSET U!Mapping,
           NEW held \in [Domains -> SUBSET U!Mapping], U!Answer(held),
           held = [guest.held EXCEPT ![d] = map],
           guest.req # <<>>, U!Req.type = "UNMAP" => U!Req.d = d,
           dev' = [dev EXCEPT !.domains = [dev.domains EXCEPT ![d] = [dev.domains[d] EXCEPT !.map = map]]],
           host' = [host EXCEPT !.ext = [e \in Endpoints |->
               IF e \in U!In(d) \cap External THEN map ELSE host.ext[e]]],
           dev.domains[d].kind = "mapped",
           \A m \in map : m.virt + m.size - 1 \in IovaPages /\ m.gpa + m.size - 1 \in IovaPages,
           \A m, n \in map : m # n => ~ U!Overlap(m, n)
    PROVE  IommuInv'
<1> DEFINE new == [dev.domains[d] EXCEPT !.map = map]
           ext == [e \in Endpoints |-> IF e \in U!In(d) \cap External THEN map ELSE host.ext[e]]
<1>1. /\ guest'.held = held /\ Requested' /\ \A c \in Domains : Going(c)' = {}
      /\ guest' = [req |-> guest'.req, held |-> guest'.held]
  BY Answered DEF IommuInv
<1>2. new \in Domain /\ new.map = map /\ new.kind = "mapped"
  <2>1. dev.domains[d] \in Domain
    BY DEF IommuInv, IommuTypes
  <2> QED
    BY <2>1 DEF Domain
<1>3. ext \in [Endpoints -> SUBSET U!Mapping]
  BY DEF IommuInv, IommuTypes
<1>4. /\ dev' = [dev EXCEPT !.domains = [dev.domains EXCEPT ![d] = new]]
      /\ host' = [host EXCEPT !.ext = ext]
  OBVIOUS
<1> HIDE DEF new
<1>5. [dev.domains EXCEPT ![d] = new] \in [Domains -> Domain]
  BY <1>2 DEF IommuInv, IommuTypes
<1>6. /\ dev'.domains = [dev.domains EXCEPT ![d] = new] /\ dev'.endpoints = dev.endpoints
      /\ host'.ext = ext /\ IommuTypes'
  <2> HIDE DEF ext
  <2> QED
    BY <1>1, <1>3, <1>4, <1>5, NewTypes DEF IommuInv
<1>7. ASSUME NEW c \in Domains PROVE Follows(c)'
  <2>1. CASE c = d
    <3>1. dev'.domains[c] = new /\ guest'.held[c] = map
      BY <1>1, <1>6, <2>1 DEF IommuInv, IommuTypes
    <3> QED
      BY <1>1, <1>2, <3>1 DEF Follows
  <2>2. CASE c # d
    <3>1. dev'.domains[c] = dev.domains[c] /\ guest'.held[c] = guest.held[c] /\ Going(c) = {}
      BY <1>1, <1>6, <2>2 DEF IommuInv, IommuTypes, Going
    <3>2. Follows(c)
      BY DEF IommuInv
    <3> QED
      BY <1>1, <3>1, <3>2 DEF Follows
  <2> QED
    BY <2>1, <2>2
<1>8. ASSUME NEW e \in External PROVE Reach(e)'
  <2>1. Reach(e) /\ e \in Endpoints /\ dev.endpoints[e] \in Domains \cup {U!Detached}
    BY DEF IommuInv, IommuTypes
  <2>2. CASE dev.endpoints[e] = d
    <3>1. host'.ext[e] = map
      BY <1>6, <2>1, <2>2 DEF U!In
    <3> QED
      BY <1>2, <1>6, <2>1, <2>2, <3>1 DEF Reach, IommuInv, IommuTypes
  <2>3. CASE dev.endpoints[e] # d
    <3>1. host'.ext[e] = host.ext[e]
      BY <1>6, <2>1, <2>3 DEF U!In
    <3> QED
      BY <1>6, <2>1, <2>3, <3>1 DEF Reach, IommuInv, IommuTypes
  <2> QED
    BY <2>2, <2>3
<1> QED
  BY <1>1, <1>6, <1>7, <1>8 DEF IommuInv

\* MapRange, when no external map fails.
LEMMA MapRangeStep ==
    ASSUME IommuInv, External \subseteq Endpoints, U!Detached \notin Domains, MapFails = FALSE,
           U!MapRange
    PROVE  IommuInv'
<1> DEFINE r == U!Req
           d == r.d
           map == dev.domains[d].map \cup {r.m}
<1>1. guest.req # <<>> /\ r.type = "MAP" /\ dev.domains[d].kind = "mapped"
  BY DEF U!MapRange, U!Request, U!Req, U!Mappable
<1>2. /\ d \in Domains /\ r.m \in U!Mapping
      /\ r.m.virt + r.m.size - 1 \in IovaPages /\ r.m.gpa + r.m.size - 1 \in IovaPages
      /\ \A n \in guest.held[d] : ~ U!Overlap(r.m, n)
  BY <1>1, TheRequest DEF IommuInv, Asked
<1>3. dev.domains[d].map = guest.held[d]
  BY <1>1, <1>2, NothingGoing
<1>4. /\ host' = [host EXCEPT !.ext = U!Mapped(U!In(d) \cap External)]
      /\ dev' = [dev EXCEPT !.domains = [dev.domains EXCEPT ![d] = [dev.domains[d] EXCEPT !.map = map]]]
      /\ U!Answer([guest.held EXCEPT ![d] = guest.held[d] \cup {r.m}])
  BY DEF U!MapRange
<1>5. guest.held[d] \cup {r.m} = map
  BY <1>3
<1>6. map \in SUBSET U!Mapping
  BY <1>2, <1>3 DEF IommuInv, IommuTypes
<1>7. U!Mapped(U!In(d) \cap External)
          = [e \in Endpoints |-> IF e \in U!In(d) \cap External THEN map ELSE host.ext[e]]
  <2>1. ASSUME NEW e \in U!In(d) \cap External PROVE host.ext[e] = dev.domains[d].map
    BY <1>2 DEF IommuInv, Reach, U!In
  <2> QED
    BY <2>1 DEF U!Mapped
<1>8. \A m \in map : m.virt + m.size - 1 \in IovaPages /\ m.gpa + m.size - 1 \in IovaPages
  BY <1>2 DEF IommuInv, Follows
<1>9. \A m, n \in map : m # n => ~ U!Overlap(m, n)
  BY <1>2, <1>3, OverlapBothWays DEF IommuInv, Follows
<1>10. [guest.held EXCEPT ![d] = map] \in [Domains -> SUBSET U!Mapping]
  BY <1>2, <1>6 DEF IommuInv, IommuTypes
<1> HIDE DEF r, map
<1> QED
  BY <1>1, <1>2, <1>4, <1>5, <1>6, <1>7, <1>8, <1>9, <1>10, NewMapStep DEF r

\* UnmapRange, when no external unmap fails.
LEMMA UnmapRangeStep ==
    ASSUME IommuInv, External \subseteq Endpoints, U!Detached \notin Domains, MapFails = FALSE,
           U!UnmapRange
    PROVE  IommuInv'
<1> DEFINE r == U!Req
           d == r.d
           map == dev.domains[d].map \ {r.m}
<1>1. guest.req # <<>> /\ r.type = "UNMAP" /\ dev.domains[d].kind = "mapped"
  BY DEF U!UnmapRange, U!Request, U!Req, U!Mappable
<1>2. d \in Domains
  BY <1>1, TheRequest DEF IommuInv, Asked
<1>3. guest.held[d] = map
  BY <1>1, <1>2 DEF IommuInv, Follows, Going
<1>4. /\ host' = [host EXCEPT !.ext = U!Unmapped(U!In(d) \cap External)]
      /\ dev' = [dev EXCEPT !.domains = [dev.domains EXCEPT ![d] = [dev.domains[d] EXCEPT !.map = map]]]
      /\ U!Answer(guest.held)
  BY DEF U!UnmapRange
<1>5. map \in SUBSET U!Mapping /\ guest.held \in [Domains -> SUBSET U!Mapping]
  BY <1>2, <1>3 DEF IommuInv, IommuTypes
<1>6. guest.held = [guest.held EXCEPT ![d] = map]
  BY <1>2, <1>3, <1>5
<1>7. U!Unmapped(U!In(d) \cap External)
          = [e \in Endpoints |-> IF e \in U!In(d) \cap External THEN map ELSE host.ext[e]]
  <2>1. ASSUME NEW e \in U!In(d) \cap External PROVE host.ext[e] = dev.domains[d].map
    BY <1>2 DEF IommuInv, Reach, U!In
  <2> QED
    BY <2>1 DEF U!Unmapped
<1>8. \A m \in map : m.virt + m.size - 1 \in IovaPages /\ m.gpa + m.size - 1 \in IovaPages
  BY <1>2 DEF IommuInv, Follows
<1>9. \A m, n \in map : m # n => ~ U!Overlap(m, n)
  BY <1>2 DEF IommuInv, Follows
<1> HIDE DEF r, map
<1> QED
  BY <1>1, <1>2, <1>4, <1>5, <1>6, <1>7, <1>8, <1>9, NewMapStep DEF r

\* Every step of the IOMMU keeps the invariant.
LEMMA IommuStep ==
    ASSUME IommuInv, External \subseteq Endpoints, U!Detached \notin Domains,
           MapFails = FALSE, IommuRestores = 0, [U!Next]_(U!iommuVars)
    PROVE  IommuInv'
<1>1. CASE UNCHANGED U!iommuVars
  <2>1. dev' = dev /\ guest' = guest /\ host' = host
    BY <1>1 DEF U!iommuVars
  <2>2. IommuTypes'
    BY <2>1 DEF IommuInv, IommuTypes
  <2>3. Requested'
    BY <2>1 DEF IommuInv, Requested, Asked
  <2>4. (\A d \in Domains : Follows(d)') /\ (\A e \in External : Reach(e)')
    BY <2>1 DEF IommuInv, Follows, Going, Reach, U!Req
  <2> QED
    BY <2>2, <2>3, <2>4 DEF IommuInv
<1>2. ASSUME NEW b \in BOOLEAN, U!WriteBypass(b) PROVE IommuInv'
  <2>1. /\ guest' = guest /\ host' = host /\ dev' = [dev EXCEPT !.bypass = b]
    BY <1>2 DEF U!WriteBypass
  <2>2. /\ dev'.endpoints = dev.endpoints /\ dev'.domains = dev.domains
        /\ dev'.entering = dev.entering
    BY <2>1 DEF IommuInv, IommuTypes
  <2>3. IommuTypes'
    BY <2>1, <2>2 DEF IommuInv, IommuTypes
  <2>4. Requested'
    BY <2>1, <2>2 DEF IommuInv, Requested, Asked
  <2>5. (\A d \in Domains : Follows(d)') /\ (\A e \in External : Reach(e)')
    BY <2>1, <2>2 DEF IommuInv, Follows, Going, Reach, U!Req
  <2> QED
    BY <2>3, <2>4, <2>5 DEF IommuInv
<1>3. ~ U!Restore
  BY DEF U!Restore, IommuInv, IommuTypes
<1> QED
  BY <1>1, <1>2, <1>3, DriverSteps, AttachEndpointStep, AttachDomainStep, DetachStep, RefuseStep,
     MapRangeStep, UnmapRangeStep DEF U!Next

-----------------------------------------------------------------------------
(* The IOMMU: what the tables say.                                         *)

\* A set of numbers has a least one.
LEMMA Least == ASSUME NEW T, T \subseteq Nat, T # {} PROVE \E x \in T : \A y \in T : x <= y
<1> DEFINE Before == OpToRel(<, Nat)
<1>1. IsWellFoundedOn(Before, Nat)
  BY NatLessThanWellFounded
<1> HIDE DEF Before
<1>2. PICK x \in T : \A y \in T : ~ (<<y, x>> \in Before)
  BY <1>1, WFMin
<1>3. \A y \in T : y < x => <<y, x>> \in Before
  BY DEF Before, OpToRel
<1>4. \A y \in T : ~ (y < x)
  BY <1>2, <1>3, Zenon
<1> QED
  BY <1>4

\* The addresses are those up to a last one, and no mapping is larger than the
\* range below an address that translate_gva looks at.
InRange ==
    /\ \E last \in Nat : IovaPages = 0..last
    /\ PageSizeMask \in Nat /\ MaxSize \in Nat /\ MaxSize <= PageSizeMask + 1

\* The addresses of a mapping are numbers.
LEMMA Numbers ==
    ASSUME InRange, NEW m \in U!Mapping
    PROVE  m.virt \in Nat /\ m.gpa \in Nat /\ m.size \in Nat
BY DEF InRange, U!Mapping

\* An access within a mapping of the domain goes where that mapping says.
LEMMA WhereMapped ==
    ASSUME IommuInv, InRange, NEW e \in Endpoints, NEW d \in Domains, dev.endpoints[e] = d,
           U!Detached \notin Domains, dev.domains[d].kind = "mapped",
           NEW m \in dev.domains[d].map, NEW a \in IovaPages, U!Covers(m, a)
    PROVE  U!translate_gva(e, a) = a - m.virt + m.gpa
<1> DEFINE start == IF PageSizeMask > a THEN 0 ELSE a - PageSizeMask
           hits == {n \in dev.domains[d].map : start <= n.virt /\ U!Covers(n, a)}
<1>1. m \in U!Mapping
  BY DEF IommuInv, IommuTypes, Domain
<1>2. m \in hits
  BY <1>1 DEF InRange, U!Covers, U!Mapping
<1>3. \A n \in hits : n = m
  BY DEF IommuInv, Follows, U!Overlap
<1>4. hits = {m}
  <2> HIDE DEF hits
  <2> QED
    BY <1>2, <1>3
<1>5. U!Pick(hits) = m
  <2> HIDE DEF hits
  <2> QED
    BY <1>4 DEF U!Pick
<1>6. dev.domains[d] # U!NoDomain
  BY DEF U!NoDomain
<1>7. U!translate_gva(e, a) = a - U!Pick(hits).virt + U!Pick(hits).gpa
  BY <1>4, <1>6 DEF U!translate_gva
<1> QED
  BY <1>5, <1>7

\* An access that translates is within a mapping of the domain.
LEMMA OnlyMapped ==
    ASSUME NEW e \in Endpoints, NEW d \in Domains, dev.endpoints[e] = d,
           U!Detached \notin Domains, dev.domains[d].kind = "mapped",
           NEW a \in IovaPages, U!translate_gva(e, a) # U!Error
    PROVE  \E m \in dev.domains[d].map : U!Covers(m, a)
BY DEF U!translate_gva, U!NoDomain

\* The way back from what a mapping leads to is an address of a mapping that
\* leads there.
LEMMA WayBack ==
    ASSUME IommuInv, InRange, NEW e \in Endpoints, NEW d \in Domains, dev.endpoints[e] = d,
           U!Detached \notin Domains, dev.domains[d].kind = "mapped",
           NEW m \in dev.domains[d].map, NEW p \in Nat, m.gpa <= p, p < m.gpa + m.size
    PROVE  \E k \in dev.domains[d].map :
               /\ k.gpa <= p /\ p < k.gpa + k.size
               /\ U!translate_gpa(e, p) = p - k.gpa + k.virt
<1> DEFINE hits == {n \in dev.domains[d].map : n.gpa <= p /\ p < n.gpa + n.size}
           first == CHOOSE n \in hits : \A k \in hits : n.virt <= k.virt
           starts == {n.virt : n \in hits}
<1>1. \A n \in hits : n \in U!Mapping
  BY DEF IommuInv, IommuTypes, Domain
<1>2. starts \subseteq Nat /\ starts # {}
  <2>1. \A n \in U!Mapping : n.virt \in Nat
    BY DEF U!Mapping, InRange
  <2>2. m \in hits
    OBVIOUS
  <2> HIDE DEF hits
  <2> QED
    BY <1>1, <2>1, <2>2
<1>3. \E n \in hits : \A k \in hits : n.virt <= k.virt
  <2> HIDE DEF hits
  <2>1. PICK x \in starts : \A y \in starts : x <= y
    <3> HIDE DEF starts
    <3> QED
      BY <1>2, Least
  <2> QED
    BY <2>1
<1>4. first \in hits /\ hits # {}
  <2> HIDE DEF hits
  <2> QED
    BY <1>3
<1>5. dev.domains[d] # U!NoDomain
  BY DEF U!NoDomain
<1>6. U!translate_gpa(e, p) = p - first.gpa + first.virt
  BY <1>4, <1>5 DEF U!translate_gpa
<1> HIDE DEF first
<1> QED
  BY <1>4, <1>6

\* The two translations are true to the tables, and to the driver's mappings.
LEMMA Translates ==
    ASSUME IommuInv, InRange, U!Detached \notin Domains
    PROVE  U!TranslationIsTrue
<1> SUFFICES ASSUME NEW e \in Endpoints, NEW a \in IovaPages,
                    dev.endpoints[e] # U!Detached, dev.domains[dev.endpoints[e]].kind = "mapped"
             PROVE  LET d == dev.endpoints[e]
                        t == U!translate_gva(e, a) IN
                    /\ (\E m \in guest.held[d] : U!Covers(m, a)) => t # U!Error
                    /\ t # U!Error => \E m \in dev.domains[d].map :
                                          U!Covers(m, a) /\ t = a - m.virt + m.gpa
                    /\ t # U!Error => U!translate_gva(e, U!translate_gpa(e, t)) = t
  BY DEF U!TranslationIsTrue
<1> DEFINE d == dev.endpoints[e]
           t == U!translate_gva(e, a)
<1>1. d \in Domains
  BY DEF IommuInv, IommuTypes
<1>2. \A m \in dev.domains[d].map : m \in U!Mapping
  BY <1>1 DEF IommuInv, IommuTypes, Domain
<1>3. guest.held[d] \subseteq dev.domains[d].map
  BY <1>1 DEF IommuInv, Follows
<1>4. ASSUME NEW m \in dev.domains[d].map, U!Covers(m, a)
      PROVE  t = a - m.virt + m.gpa /\ t # U!Error
  <2>1. t = a - m.virt + m.gpa
    BY <1>1, <1>4, WhereMapped
  <2> QED
    BY <1>2, <1>4, <2>1 DEF U!Covers, U!Error, U!Mapping, InRange
<1>5. t # U!Error => \E m \in dev.domains[d].map : U!Covers(m, a)
  BY <1>1, OnlyMapped
<1>6. ASSUME t # U!Error PROVE U!translate_gva(e, U!translate_gpa(e, t)) = t
  <2>1. PICK m \in dev.domains[d].map : U!Covers(m, a)
    BY <1>5, <1>6
  <2>2. t \in Nat /\ m.gpa <= t /\ t < m.gpa + m.size
    <3>1. m.virt \in Nat /\ m.gpa \in Nat /\ m.size \in Nat /\ a \in Nat
      BY <1>2, Numbers DEF InRange
    <3>2. t = a - m.virt + m.gpa
      BY <1>4, <2>1
    <3> HIDE DEF t
    <3> QED
      BY <2>1, <3>1, <3>2 DEF U!Covers
  <2>3. PICK k \in dev.domains[d].map :
            k.gpa <= t /\ t < k.gpa + k.size /\ U!translate_gpa(e, t) = t - k.gpa + k.virt
    <3> HIDE DEF t
    <3> QED
      BY <1>1, <2>2, WayBack
  <2> DEFINE b == t - k.gpa + k.virt
  <2>4. b \in IovaPages /\ U!Covers(k, b) /\ b - k.virt + k.gpa = t
    <3>1. k \in U!Mapping /\ k.virt + k.size - 1 \in IovaPages
      BY <1>1, <1>2 DEF IommuInv, Follows
    <3>2. k.virt \in Nat /\ k.gpa \in Nat /\ k.size \in Nat
      BY <3>1, Numbers
    <3>3. PICK last \in Nat : IovaPages = 0..last
      BY DEF InRange
    <3> HIDE DEF t
    <3> QED
      BY SMTT(30), <2>2, <2>3, <3>1, <3>2, <3>3 DEF U!Covers
  <2>5. U!translate_gva(e, b) = b - k.virt + k.gpa
    <3> HIDE DEF b
    <3> QED
      BY <1>1, <2>4, WhereMapped
  <2> QED
    BY <2>3, <2>4, <2>5
<1> QED
  BY <1>3, <1>4, <1>5, <1>6

-----------------------------------------------------------------------------
(* The balloon.                                                            *)

BalloonTypes ==
    /\ dev = [num_pages |-> dev.num_pages, actual |-> dev.actual, size |-> dev.size, evt |-> dev.evt,
              answers |-> dev.answers, worker |-> dev.worker, queue |-> dev.queue, todo |-> dev.todo]
    /\ guest = [state |-> guest.state, chain |-> guest.chain, evts |-> guest.evts,
                config |-> guest.config]
    /\ host = [content |-> host.content, vmm |-> host.vmm]
    /\ guest.state \in [GuestPages -> {"used", "lent", "balloon"}]
    /\ guest.chain \in [A!Queues -> SUBSET GuestPages]
    /\ host.content \in [GuestPages -> {"data", "gone"}]

\* A published page is lent by the driver and is in one chain, and the worker is
\* at pages of the chain it took.
BalloonInv ==
    /\ BalloonTypes
    /\ dev.queue \in {"none"} \cup A!Queues
    /\ \A q \in A!Queues : \A p \in guest.chain[q] : guest.state[p] = "lent"
    /\ \A q, r \in A!Queues : q # r => guest.chain[q] \cap guest.chain[r] = {}
    /\ dev.todo \subseteq IF dev.queue = "none" THEN {} ELSE guest.chain[dev.queue]

\* The device as it is made, with no chain published.
LEMMA BalloonInitially == ASSUME A!New PROVE BalloonInv
<1>1. PICK size \in BalloonSizes :
          dev = [num_pages |-> size, actual |-> 0, size |-> size, evt |-> FALSE, answers |-> 0,
                 worker |-> "none", queue |-> "none", todo |-> {}]
  BY DEF A!New
<1>2. /\ guest = [state |-> [p \in GuestPages |-> "used"], chain |-> [q \in A!Queues |-> {}],
                  evts |-> {}, config |-> FALSE]
      /\ host = [content |-> [p \in GuestPages |-> "data"], vmm |-> "idle"]
  BY DEF A!New
<1>3. BalloonTypes
  BY <1>1, <1>2 DEF BalloonTypes
<1> QED
  BY <1>1, <1>2, <1>3 DEF BalloonInv

\* Steps of the VMM thread, of the worker on its resize event, and of the driver
\* on a page or a register, which leave the queues alone.
LEMMA BalloonQuiet ==
    ASSUME BalloonInv,
           \/ A!Activate \/ A!ResizeAnswered \/ (\E size \in BalloonSizes : A!ResizeWork(size))
           \/ A!WriteActual \/ A!ResizeEvent \/ (\E p \in GuestPages : A!DriverWrites(p))
           \/ UNCHANGED A!balloonVars
    PROVE  BalloonInv' /\ A!PageIsKept
<1> USE DEF BalloonInv, BalloonTypes
<1>1. /\ dev'.queue = dev.queue /\ dev'.todo = dev.todo
      /\ dev' = [num_pages |-> dev'.num_pages, actual |-> dev'.actual, size |-> dev'.size,
                 evt |-> dev'.evt, answers |-> dev'.answers, worker |-> dev'.worker,
                 queue |-> dev'.queue, todo |-> dev'.todo]
  BY DEF A!Activate, A!ResizeAnswered, A!ResizeWork, A!WriteActual, A!ResizeEvent, A!DriverWrites,
         A!balloonVars
<1>2. /\ guest'.state = guest.state /\ guest'.chain = guest.chain
      /\ guest' = [state |-> guest'.state, chain |-> guest'.chain, evts |-> guest'.evts,
                   config |-> guest'.config]
  BY DEF A!Activate, A!ResizeAnswered, A!ResizeWork, A!WriteActual, A!ResizeEvent, A!DriverWrites,
         A!balloonVars
<1>3. /\ host' = [content |-> host'.content, vmm |-> host'.vmm]
      /\ \/ host'.content = host.content
         \/ \E p \in GuestPages : host'.content = [host.content EXCEPT ![p] = "data"]
  BY DEF A!Activate, A!ResizeAnswered, A!ResizeWork, A!WriteActual, A!ResizeEvent, A!DriverWrites,
         A!balloonVars
<1>4. A!PageIsKept
  BY <1>3 DEF A!PageIsKept
<1>5. host'.content \in [GuestPages -> {"data", "gone"}]
  BY SMTT(30), <1>3
<1>6. BalloonTypes'
  BY <1>1, <1>2, <1>3, <1>5
<1> HIDE DEF BalloonTypes
<1> QED
  BY <1>1, <1>2, <1>4, <1>6

\* The driver publishes pages of which none is in a chain.
LEMMA BalloonPublishes ==
    ASSUME BalloonInv, UNCHANGED <<dev, host>>, NEW q \in A!Queues, NEW pages \in SUBSET GuestPages,
           \A p \in pages : guest.state[p] # "lent", guest.chain[q] = {}, A!Publish(q, pages)
    PROVE  BalloonInv' /\ A!PageIsKept
<1> DEFINE state == [p \in GuestPages |-> IF p \in pages THEN "lent" ELSE guest.state[p]]
           chain == [guest.chain EXCEPT ![q] = pages]
<1>1. guest' = [guest EXCEPT !.state = state, !.chain = chain, !.evts = guest.evts \cup {q}]
  BY DEF A!Publish
<1>2. /\ guest' = [state |-> state, chain |-> chain, evts |-> guest.evts \cup {q},
                   config |-> guest.config]
      /\ guest'.state = state /\ guest'.chain = chain
  <2> HIDE DEF state, chain
  <2> QED
    BY <1>1 DEF BalloonInv, BalloonTypes
<1>3. /\ state \in [GuestPages -> {"used", "lent", "balloon"}]
      /\ chain \in [A!Queues -> SUBSET GuestPages]
  BY DEF BalloonInv, BalloonTypes
<1>4. BalloonTypes'
  <2> HIDE DEF state, chain
  <2> QED
    BY <1>2, <1>3 DEF BalloonInv, BalloonTypes
<1>5. \A r \in A!Queues : \A p \in guest.chain[r] : p \notin pages
  BY DEF BalloonInv
<1>6. \A r \in A!Queues : \A p \in chain[r] : state[p] = "lent"
  BY <1>5 DEF BalloonInv, BalloonTypes
<1>7. \A r, s \in A!Queues : r # s => chain[r] \cap chain[s] = {}
  BY <1>5 DEF BalloonInv, BalloonTypes
<1>8. dev'.todo \subseteq IF dev'.queue = "none" THEN {} ELSE guest'.chain[dev'.queue]
  BY <1>2 DEF BalloonInv, BalloonTypes
<1>9. A!PageIsKept
  BY DEF BalloonInv, BalloonTypes, A!PageIsKept
<1> HIDE DEF state, chain
<1> QED
  BY <1>2, <1>4, <1>6, <1>7, <1>8, <1>9 DEF BalloonInv

\* The driver's three queues.
LEMMA BalloonDriver ==
    ASSUME BalloonInv, A!DriverInflates \/ A!DriverDeflates \/ A!DriverReports
    PROVE  BalloonInv' /\ A!PageIsKept
<1>1. UNCHANGED <<dev, host>>
  BY DEF A!DriverInflates, A!DriverDeflates, A!DriverReports
<1>2. PICK q \in A!Queues, pages \in SUBSET GuestPages :
          /\ \A p \in pages : guest.state[p] # "lent"
          /\ guest.chain[q] = {} /\ A!Publish(q, pages)
  <2>1. CASE A!DriverInflates
    BY <2>1 DEF A!DriverInflates, A!Queues
  <2>2. CASE A!DriverDeflates
    BY <2>2 DEF A!DriverDeflates, A!Queues
  <2>3. CASE A!DriverReports
    BY <2>3 DEF A!DriverReports, A!Queues
  <2> QED
    BY <2>1, <2>2, <2>3
<1> QED
  BY <1>1, <1>2, BalloonPublishes

\* The worker takes a chain.
LEMMA BalloonTakes ==
    ASSUME BalloonInv, NEW q \in A!Queues, A!QueueEvent(q)
    PROVE  BalloonInv' /\ A!PageIsKept
<1> USE DEF BalloonInv, BalloonTypes
<1>1. /\ dev'.queue = q /\ dev'.todo = guest.chain[q] /\ host' = host
      /\ dev' = [num_pages |-> dev'.num_pages, actual |-> dev'.actual, size |-> dev'.size,
                 evt |-> dev'.evt, answers |-> dev'.answers, worker |-> dev'.worker,
                 queue |-> dev'.queue, todo |-> dev'.todo]
  BY DEF A!QueueEvent
<1>2. /\ guest'.state = guest.state /\ guest'.chain = guest.chain
      /\ guest' = [state |-> guest'.state, chain |-> guest'.chain, evts |-> guest'.evts,
                   config |-> guest'.config]
  BY DEF A!QueueEvent
<1>3. q # "none"
  BY DEF A!Queues
<1> QED
  BY <1>1, <1>2, <1>3 DEF A!PageIsKept

\* The worker gives a page of the chain back, or fails and ends.
LEMMA BalloonProcesses ==
    ASSUME BalloonInv, NEW p \in GuestPages, A!ProcessPage(p)
    PROVE  BalloonInv' /\ A!PageIsKept
<1>1. guest' = guest /\ p \in dev.todo /\ dev.queue # "none"
  BY DEF A!ProcessPage
<1>2. /\ dev' = [num_pages |-> dev'.num_pages, actual |-> dev'.actual, size |-> dev'.size,
                 evt |-> dev'.evt, answers |-> dev'.answers, worker |-> dev'.worker,
                 queue |-> dev'.queue, todo |-> dev'.todo]
      /\ \/ dev'.queue = dev.queue /\ dev'.todo = dev.todo \ {p}
         \/ dev'.queue = "none" /\ dev'.todo = {}
  BY DEF A!ProcessPage, BalloonInv, BalloonTypes
<1>3. /\ host' = [content |-> host'.content, vmm |-> host'.vmm]
      /\ \/ host'.content = host.content
         \/ host'.content = [host.content EXCEPT ![p] = "gone"]
  BY DEF A!ProcessPage, BalloonInv, BalloonTypes
<1>4. guest.state[p] = "lent"
  BY <1>1 DEF BalloonInv
<1>5. BalloonInv'
  <2>1. host'.content \in [GuestPages -> {"data", "gone"}]
    BY SMTT(30), <1>3 DEF BalloonInv, BalloonTypes
  <2>2. BalloonTypes'
    BY <1>1, <1>2, <1>3, <2>1 DEF BalloonInv, BalloonTypes
  <2> QED
    BY <1>1, <1>2, <2>2 DEF BalloonInv
<1>6. A!PageIsKept
  BY <1>3, <1>4 DEF A!PageIsKept, BalloonInv, BalloonTypes
<1> QED
  BY <1>5, <1>6

\* The worker returns a chain, whose pages are in no other.
LEMMA BalloonReturns ==
    ASSUME BalloonInv, A!NotifyQueue
    PROVE  BalloonInv' /\ A!PageIsKept
<1> DEFINE q == dev.queue
           state == [p \in GuestPages |-> IF p \notin guest.chain[q] THEN guest.state[p]
                                          ELSE IF q = "inflate" THEN "balloon" ELSE "used"]
           chain == [guest.chain EXCEPT ![q] = {}]
<1>1. q \in A!Queues /\ host' = host /\ dev' = [dev EXCEPT !.queue = "none"] /\ dev.todo = {}
  BY DEF A!NotifyQueue, BalloonInv
<1>2. guest' = [guest EXCEPT !.chain = chain, !.state = state]
  BY DEF A!NotifyQueue, A!Returned
<1>3. /\ guest' = [state |-> state, chain |-> chain, evts |-> guest.evts, config |-> guest.config]
      /\ guest'.state = state /\ guest'.chain = chain
  <2> HIDE DEF state, chain
  <2> QED
    BY <1>2 DEF BalloonInv, BalloonTypes
<1>4. /\ state \in [GuestPages -> {"used", "lent", "balloon"}]
      /\ chain \in [A!Queues -> SUBSET GuestPages]
  BY <1>1 DEF BalloonInv, BalloonTypes
<1>5. /\ dev' = [num_pages |-> dev'.num_pages, actual |-> dev'.actual, size |-> dev'.size,
                 evt |-> dev'.evt, answers |-> dev'.answers, worker |-> dev'.worker,
                 queue |-> dev'.queue, todo |-> dev'.todo]
      /\ dev'.queue = "none" /\ dev'.todo = {}
  BY <1>1 DEF BalloonInv, BalloonTypes
<1>6. BalloonTypes'
  <2> HIDE DEF state, chain
  <2> QED
    BY <1>1, <1>3, <1>4, <1>5 DEF BalloonInv, BalloonTypes
<1>7. \A r \in A!Queues : \A p \in chain[r] : state[p] = "lent"
  BY <1>1 DEF BalloonInv, BalloonTypes
<1>8. \A r, s \in A!Queues : r # s => chain[r] \cap chain[s] = {}
  BY <1>1 DEF BalloonInv, BalloonTypes
<1>9. A!PageIsKept
  BY <1>1 DEF BalloonInv, BalloonTypes, A!PageIsKept
<1> HIDE DEF state, chain
<1> QED
  BY <1>3, <1>5, <1>6, <1>7, <1>8, <1>9 DEF BalloonInv

\* Every step of the balloon keeps the invariant and the pages in use.
LEMMA BalloonStep ==
    ASSUME BalloonInv, [A!Next]_(A!balloonVars)
    PROVE  BalloonInv' /\ A!PageIsKept
BY BalloonQuiet, BalloonDriver, BalloonTakes, BalloonProcesses, BalloonReturns DEF A!Next

-----------------------------------------------------------------------------
(* What the run checks, for any constants.                                 *)

\* A step of the whole is a step of the part, or leaves its variables alone.
LEMMA Parts ==
    ASSUME [Next]_vars
    PROVE  /\ part' = part
           /\ part = "iommu" => [U!Next]_(U!iommuVars)
           /\ part = "balloon" => [A!Next]_(A!balloonVars)
BY DEF Next, vars, U!iommuVars, A!balloonVars

\* At every moment of an attach, a map or an unmap, an access of a device goes
\* where the mappings of its domain say, it succeeds where the driver relies on a
\* mapping, and the way back leads to the same page; and between requests an
\* external mapping holds what the domain does.  No mapping may be larger than the
\* range that translate_gva looks at, no external map may fail, and the device is
\* not restored.
THEOREM TranslationTrue ==
    ASSUME InRange, External \subseteq Endpoints, U!Detached \notin Domains,
           MapFails = FALSE, IommuRestores = 0
    PROVE  Spec => []TranslationIsTrue
<1> DEFINE Inv == part = "iommu" => IommuInv
<1>1. Init => Inv
  BY IommuInitially DEF Init
<1>2. Inv /\ [Next]_vars => Inv'
  BY Parts, IommuStep
<1>3. Inv => TranslationIsTrue
  <2>1. ASSUME IommuInv PROVE U!ExternalFollowsDomain
    BY <2>1 DEF U!ExternalFollowsDomain, IommuInv, Reach
  <2> QED
    BY <2>1, Translates DEF TranslationIsTrue
<1> HIDE DEF Inv
<1> QED
  BY <1>1, <1>2, <1>3, PTL DEF Spec

\* The balloon discards no page that the driver uses, whichever order the worker
\* takes the queues in and wherever it fails.
THEOREM PageKept == Spec => UsedPageIsKept
<1> DEFINE Inv == part = "balloon" => BalloonInv
<1>1. Init => Inv
  BY BalloonInitially DEF Init
<1>2. Inv /\ [Next]_vars => Inv'
  BY Parts, BalloonStep
<1>3. Inv /\ [Next]_vars => [part = "balloon" => A!PageIsKept]_vars
  BY Parts, BalloonStep
<1> HIDE DEF Inv
<1> QED
  BY <1>1, <1>2, <1>3, PTL DEF Spec, UsedPageIsKept
=============================================================================
