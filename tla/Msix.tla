-------------------------------- MODULE Msix --------------------------------
(***************************************************************************)
(* MSI-X of one PCI function (pci/src/msix.rs) over the interrupt group    *)
(* that realises it with KVM irqfds and GSI routes (vmm/src/interrupt.rs). *)
(* Three parties meet here: the vCPU that writes the MSI-X capability and  *)
(* table, holding the lock of MsixConfig; the device threads that raise    *)
(* interrupts through VirtioInterruptMsix::trigger, under the same lock;   *)
(* and the processes that hold the eventfd returned by notifier(), which   *)
(* write it whenever they like.  The kernel takes a pending event of a     *)
(* registered irqfd and sends the message its routing table has for it.    *)
(***************************************************************************)
EXTENDS FiniteSets

CONSTANTS Vectors,    \* the vectors of the function
          Msgs,       \* the messages (address and data) an entry can hold
          ZeroMsg,    \* the message of an entry nobody has written
          NoMsg,      \* no route in the kernel's table
          Backends    \* the vectors whose notifier another process has

ASSUME MsgAssumption == ZeroMsg \in Msgs /\ NoMsg \notin Msgs
ASSUME BackendAssumption == Backends \subseteq Vectors

VARIABLES entry,      \* table_entries: message and mask of every vector
          ctl,        \* MsixConfig.masked and MsixConfig.enabled
          pba,        \* vectors whose pending bit is set
          registered, \* InterruptRoute.registered: irqfd known to the kernel
          routes,     \* the routing table last given to the kernel
          fd,         \* vectors whose eventfd counter is not zero
          lock,       \* a vCPU holds the lock of MsixConfig
          todo,       \* vectors update() has still to be called for
          cur,        \* the vector whose update() is half done, if any
          flush,      \* vectors whose pending bit is looked at before unlock
          owed        \* history: raised with MSI-X enabled, not yet sent

vars == <<entry, ctl, pba, registered, routes, fd, lock, todo, cur, flush, owed>>

Entries == [msg : Msgs, masked : BOOLEAN]

Init ==
    /\ entry = [v \in Vectors |-> [msg |-> ZeroMsg, masked |-> TRUE]]
    /\ ctl = [masked |-> TRUE, enabled |-> FALSE]
    /\ pba = {}
    /\ registered = {}
    /\ routes = [v \in Vectors |-> NoMsg]
    /\ fd = {}
    /\ lock = FALSE
    /\ todo = {}
    /\ cur = {}
    /\ flush = {}
    /\ owed = {}

Open == ctl.enabled /\ ~ctl.masked

-----------------------------------------------------------------------------
(* The kernel *)

\* The messages the kernel sends when it handles the pending events of S.
Sent(S) == {v \in S : routes[v] # NoMsg}

\* The kernel handles a pending event of a registered irqfd.  With no route
\* the event is consumed all the same.
Inject(v) ==
    /\ v \in fd \cap registered
    /\ fd' = fd \ {v}
    /\ owed' = owed \ Sent({v})
    /\ UNCHANGED <<entry, ctl, pba, registered, routes, lock, todo, cur, flush>>

\* Unregistering waits for the injections under way.
Unregister(S) ==
    /\ registered' = registered \ S
    /\ fd' = fd \ (S \cap registered)

\* What is owed once S has been unregistered.
StillOwed(S) == owed \ Sent(S \cap registered \cap fd)

-----------------------------------------------------------------------------
(* The guest writes the capability or the table *)

\* The vectors whose pending bit set_msg_ctl looks at.
FlushAfterCtl(m, e) == IF ctl.masked /\ ~m THEN Vectors ELSE {}

\* Mutant: only a change of the enable bit unregisters.
CtlClosesOnDisable(m, e) ==
    /\ ctl' = [masked |-> m, enabled |-> e]
    /\ todo' = IF ctl' # ctl /\ e /\ ~m THEN Vectors ELSE {}
    /\ IF ctl.enabled /\ ~e
       THEN /\ Unregister(Vectors)
            /\ owed' = {}
       ELSE UNCHANGED <<registered, fd, owed>>

\* set_msg_ctl stores the two bits, and disables the group when the function
\* is no longer both enabled and unmasked.
WriteCtl(m, e) ==
    /\ ctl' = [masked |-> m, enabled |-> e]
    /\ todo' = IF ctl' # ctl /\ e /\ ~m THEN Vectors ELSE {}
    /\ IF ctl' # ctl /\ ~(e /\ ~m) /\ (ctl.enabled \/ ~ctl.masked)
       THEN /\ Unregister(Vectors)
            /\ owed' = IF e THEN StillOwed(Vectors) ELSE {}
       ELSE /\ UNCHANGED <<registered, fd>>
            /\ owed' = IF e THEN owed ELSE {}

SetMsgCtl(m, e) ==
    /\ ~lock
    /\ lock' = TRUE
    /\ WriteCtl(m, e)
    /\ flush' = FlushAfterCtl(m, e)
    /\ UNCHANGED <<entry, pba, routes, cur>>

\* Mutant: an entry is routed again only when its mask changes.
UpdateOnFlip(v, e) == IF Open /\ e.masked # entry[v].masked THEN {v} ELSE {}
\* write_table calls update() for the vector when MSI-X is in use.
UpdateAfterWrite(v, e) == IF Open THEN {v} ELSE {}

WriteTable(v, e) ==
    /\ ~lock
    /\ lock' = TRUE
    /\ entry' = [entry EXCEPT ![v] = e]
    /\ todo' = UpdateAfterWrite(v, e)
    /\ flush' = IF ~ctl.masked /\ entry[v].masked /\ ~e.masked THEN {v} ELSE {}
    /\ UNCHANGED <<ctl, pba, registered, routes, fd, cur, owed>>

\* MsiInterruptGroup::update, first effect: the irqfd is unregistered when
\* the vector is masked and registered when it is not.
UpdateFd(v) ==
    /\ v \in todo
    /\ cur = {}
    /\ cur' = {v}
    /\ IF entry[v].masked
       THEN Unregister({v}) /\ owed' = StillOwed({v})
       ELSE registered' = registered \cup {v} /\ UNCHANGED <<fd, owed>>
    /\ UNCHANGED <<entry, ctl, pba, routes, lock, todo, flush>>

\* set_gsi_routes gives the kernel the unmasked entries only.
RouteOf(e) == IF e.masked THEN NoMsg ELSE e.msg

\* Mutant: the loop does not advance to the next vector.
UpdateRouteAgain(v) ==
    /\ v \in cur
    /\ routes' = [routes EXCEPT ![v] = RouteOf(entry[v])]
    /\ cur' = {}
    /\ UNCHANGED <<entry, ctl, pba, registered, fd, lock, todo, flush, owed>>

\* MsiInterruptGroup::update, second effect: the entry is inserted and the
\* whole table is given to the kernel.
UpdateRoute(v) ==
    /\ v \in cur
    /\ routes' = [routes EXCEPT ![v] = RouteOf(entry[v])]
    /\ todo' = todo \ {v}
    /\ cur' = {}
    /\ UNCHANGED <<entry, ctl, pba, registered, fd, lock, flush, owed>>

\* inject_msix_and_clear_pba for the vectors that are no longer masked and
\* whose pending bit is set, then the lock is released.
Unlock ==
    /\ lock
    /\ todo = {}
    /\ lock' = FALSE
    /\ flush' = {}
    /\ LET S == {v \in flush \cap pba : ~entry[v].masked}
       IN  /\ fd' = fd \cup S
           /\ pba' = pba \ S
    /\ UNCHANGED <<entry, ctl, registered, routes, todo, cur, owed>>

-----------------------------------------------------------------------------
(* The sources of interrupts, and restore *)

\* Mutant: only the mask of the entry is looked at.
EntryMasked(v) == entry[v].masked
\* VirtioInterruptMsix::trigger records the interrupt instead of sending it.
Masked(v) == ctl.masked \/ entry[v].masked

\* VirtioInterruptMsix::trigger by a device thread.
Trigger(v) ==
    /\ ~lock
    /\ IF Masked(v)
       THEN pba' = pba \cup {v} /\ UNCHANGED fd
       ELSE fd' = fd \cup {v} /\ UNCHANGED pba
    /\ owed' = IF ctl.enabled THEN owed \cup {v} ELSE owed
    /\ UNCHANGED <<entry, ctl, registered, routes, lock, todo, cur, flush>>

\* A backend process writes the eventfd it got from notifier().
Notify(v) ==
    /\ fd' = fd \cup {v}
    /\ owed' = IF ctl.enabled THEN owed \cup {v} ELSE owed
    /\ UNCHANGED <<entry, ctl, pba, registered, routes, lock, todo, cur, flush>>

\* Snapshot with every thread paused and the kernel idle, then set_state in a
\* new process: update() for the unmasked vectors, each followed by enable()
\* of the whole group.
Restore ==
    /\ ~lock
    /\ fd \cap registered = {}
    /\ fd' = {}
    /\ LET unmasked == {v \in Vectors : Open /\ ~entry[v].masked}
       IN  /\ registered' = IF unmasked # {} THEN Vectors ELSE {}
           /\ routes' = [v \in Vectors |-> IF v \in unmasked THEN entry[v].msg ELSE NoMsg]
    /\ UNCHANGED <<entry, ctl, pba, lock, todo, cur, flush, owed>>

Guest ==
    \/ \E m, e \in BOOLEAN : SetMsgCtl(m, e)
    \/ \E v \in Vectors, e \in Entries : WriteTable(v, e)

Vcpu == (\E v \in Vectors : UpdateFd(v) \/ UpdateRoute(v)) \/ Unlock

Kernel == \E v \in Vectors : Inject(v)

Source ==
    \/ \E v \in Vectors \ Backends : Trigger(v)
    \/ \E v \in Backends : Notify(v)

Next == Guest \/ Vcpu \/ Kernel \/ Source \/ Restore

Spec == Init /\ [][Next]_vars

\* A vCPU in the VMM finishes the access it emulates, and the kernel handles
\* pending events.
FairSpec == Spec /\ WF_vars(Vcpu) /\ \A v \in Vectors : WF_vars(Inject(v))

-----------------------------------------------------------------------------
TypeOK ==
    /\ entry \in [Vectors -> Entries]
    /\ ctl \in [masked : BOOLEAN, enabled : BOOLEAN]
    /\ pba \subseteq Vectors
    /\ registered \subseteq Vectors
    /\ routes \in [Vectors -> Msgs \cup {NoMsg}]
    /\ fd \subseteq Vectors
    /\ lock \in BOOLEAN
    /\ todo \subseteq Vectors
    /\ cur \subseteq todo
    /\ flush \subseteq Vectors
    /\ owed \subseteq Vectors

\* An interrupt a device thread raises while MSI-X is enabled is sent, or is
\* still recorded in the pending bits or in the eventfd: masking and unmasking
\* a vector or the function, changing the message and restoring never lose it.
InterruptNotLost == owed \ Backends \subseteq pba \cup fd

\* When no access is being emulated, the vectors the guest left open are
\* registered and the kernel sends exactly the message of their entry.
OpenIsRouted ==
    (~lock /\ Open) => \A v \in Vectors :
        ~entry[v].masked => v \in registered /\ routes[v] = entry[v].msg

\* Once the write that masks a vector, masks the function or disables MSI-X
\* has been emulated, the kernel can send nothing for it.
MaskedIsSilent ==
    ~lock => \A v \in Vectors :
        (~Open \/ entry[v].masked) => v \notin registered \/ routes[v] = NoMsg

\* A vector that ends up open does not keep the interrupt of a device thread
\* waiting for ever.
OwedIsSent ==
    \A v \in Vectors \ Backends :
        <>[](Open /\ ~entry[v].masked) => []<>(v \notin owed)
-----------------------------------------------------------------------------
(* The inductive invariant behind the safety properties *)

\* A vector that no update is due for is in the state its entry asks for.
Settled(v) ==
    IF entry[v].masked
    THEN v \notin registered \/ routes[v] = NoMsg
    ELSE v \in registered /\ routes[v] = entry[v].msg

\* Only the holder of the lock has work left, and only an open function has
\* vectors to update or irqfds registered.
LockInv ==
    /\ ~lock => todo = {} /\ flush = {}
    /\ ~Open => todo = {} /\ registered = {}
    /\ flush # {} => ~ctl.masked

RouteInv ==
    /\ Open => \A v \in Vectors \ todo : Settled(v)
    /\ \A v \in cur : entry[v].masked <=> v \notin registered

PendingInv == \A v \in pba : ctl.masked \/ entry[v].masked \/ v \in flush

\* An interrupt that is owed and has no pending bit is in the eventfd of a
\* registered vector that has a route, so handling it sends the message.
OwedInv ==
    /\ owed # {} => ctl.enabled
    /\ \A v \in (owed \ Backends) \ pba :
          v \in fd /\ v \in registered /\ routes[v] # NoMsg

IInv == TypeOK /\ LockInv /\ RouteInv /\ PendingInv /\ OwedInv
=============================================================================
