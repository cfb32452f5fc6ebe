----------------------------- MODULE MsixProofs -----------------------------
(***************************************************************************)
(* The safety of MSI-X (Msix) for any number of vectors and messages and   *)
(* any split of the vectors between device threads and backend processes:  *)
(* no interrupt of a device thread is lost, an open vector is routed with  *)
(* its current message, a masked one is silent.                            *)
(***************************************************************************)
EXTENDS Msix, TLAPS

\* The state of MsixConfig::new satisfies the inductive invariant.
LEMMA InitInv == Init => IInv
<1> SUFFICES ASSUME Init PROVE IInv
  OBVIOUS
<1>1. entry \in [Vectors -> Entries]
  BY MsgAssumption DEF Init, Entries
<1>2. TypeOK
  BY <1>1 DEF Init, TypeOK
<1>3. LockInv /\ RouteInv /\ PendingInv /\ OwedInv
  BY DEF Init, LockInv, RouteInv, PendingInv, OwedInv, Open
<1> QED BY <1>2, <1>3 DEF IInv

\* SetMsgCtl: opening queues every vector for update, closing unregisters
\* every vector after the kernel has sent what is pending.
LEMMA SetMsgCtlInv ==
  ASSUME IInv, NEW m \in BOOLEAN, NEW e \in BOOLEAN, SetMsgCtl(m, e)
  PROVE  IInv'
<1> USE DEF IInv, SetMsgCtl, WriteCtl, FlushAfterCtl, Unregister
<1>1. TypeOK'
  BY DEF TypeOK, LockInv, StillOwed, Sent
<1>2. LockInv'
  BY DEF TypeOK, LockInv, Open
<1>3. RouteInv'
  BY DEF TypeOK, LockInv, RouteInv, Open, Settled
<1>4. PendingInv'
  BY DEF TypeOK, LockInv, PendingInv
<1>5. OwedInv'
  BY DEF TypeOK, LockInv, OwedInv, StillOwed, Sent, Open
<1> QED BY <1>1, <1>2, <1>3, <1>4, <1>5

\* WriteTable: the vector is queued for update when MSI-X is in use, and for
\* a look at its pending bit when it is unmasked.
LEMMA WriteTableInv ==
  ASSUME IInv, NEW u \in Vectors, NEW e \in Entries, WriteTable(u, e)
  PROVE  IInv'
<1> USE DEF IInv, WriteTable, UpdateAfterWrite
<1>1. TypeOK'
  BY DEF TypeOK, LockInv
<1>2. LockInv'
  BY DEF TypeOK, LockInv, Open
<1>3. RouteInv'
  BY DEF TypeOK, LockInv, RouteInv, Open, Settled
<1>4. PendingInv'
  BY DEF TypeOK, LockInv, PendingInv, Entries
<1>5. OwedInv'
  BY DEF TypeOK, OwedInv
<1> QED BY <1>1, <1>2, <1>3, <1>4, <1>5

\* UpdateFd: what is pending on a vector that is unregistered is sent first.
LEMMA UpdateFdInv ==
  ASSUME IInv, NEW u \in Vectors, UpdateFd(u)
  PROVE  IInv'
<1> USE DEF IInv, UpdateFd, Unregister
<1>1. TypeOK'
  BY DEF TypeOK, StillOwed, Sent
<1>2. LockInv'
  BY DEF TypeOK, LockInv, Open
<1>3. RouteInv'
  BY DEF TypeOK, LockInv, RouteInv, Open, Settled
<1>4. PendingInv'
  BY DEF TypeOK, PendingInv
<1>5. OwedInv'
  BY DEF TypeOK, LockInv, OwedInv, StillOwed, Sent, Open
<1> QED BY <1>1, <1>2, <1>3, <1>4, <1>5

\* UpdateRoute: a vector whose route is removed is not registered any more.
LEMMA UpdateRouteInv ==
  ASSUME IInv, NEW u \in Vectors, UpdateRoute(u)
  PROVE  IInv'
<1> USE DEF IInv, UpdateRoute, RouteOf
<1>1. TypeOK'
  BY DEF TypeOK, Entries
<1>2. LockInv'
  BY DEF TypeOK, LockInv, Open
<1>3. RouteInv'
  BY DEF TypeOK, LockInv, RouteInv, Open, Settled
<1>4. PendingInv'
  BY DEF TypeOK, PendingInv
<1>5. OwedInv'
  BY MsgAssumption DEF TypeOK, Entries, RouteInv, OwedInv
<1> QED BY <1>1, <1>2, <1>3, <1>4, <1>5

\* Unlock: a pending bit is replayed only on a vector that is settled.
LEMMA UnlockInv ==
  ASSUME IInv, Unlock
  PROVE  IInv'
<1> USE DEF IInv, Unlock
<1>1. TypeOK'
  BY DEF TypeOK
<1>2. LockInv'
  BY DEF TypeOK, LockInv, Open
<1>3. RouteInv'
  BY DEF TypeOK, LockInv, RouteInv, Open, Settled
<1>4. PendingInv'
  BY DEF TypeOK, PendingInv
<1>5. OwedInv'
  BY MsgAssumption DEF TypeOK, Entries, LockInv, RouteInv, OwedInv, Open, Settled
<1> QED BY <1>1, <1>2, <1>3, <1>4, <1>5

\* Trigger: an interrupt is written to the eventfd only when the vector is
\* open, and then the vector is settled.
LEMMA TriggerInv ==
  ASSUME IInv, NEW u \in Vectors \ Backends, Trigger(u)
  PROVE  IInv'
<1> USE DEF IInv, Trigger, Masked
<1>1. TypeOK'
  BY DEF TypeOK
<1>2. LockInv'
  BY DEF TypeOK, LockInv, Open
<1>3. RouteInv'
  BY DEF TypeOK, LockInv, RouteInv, Open, Settled
<1>4. PendingInv'
  BY DEF TypeOK, PendingInv
<1>5. OwedInv'
  BY MsgAssumption DEF TypeOK, Entries, LockInv, RouteInv, OwedInv, Open, Settled
<1> QED BY <1>1, <1>2, <1>3, <1>4, <1>5

\* The kernel, a backend process and a restore.
LEMMA OthersInv ==
  ASSUME IInv, (\E v \in Vectors : Inject(v)) \/ (\E v \in Backends : Notify(v)) \/ Restore
  PROVE  IInv'
<1>1. ASSUME NEW u \in Vectors, Inject(u)
      PROVE  IInv'
  BY <1>1 DEF IInv, TypeOK, LockInv, RouteInv, PendingInv, OwedInv, Open, Settled, Inject, Sent
<1>2. ASSUME NEW u \in Backends, Notify(u)
      PROVE  IInv'
  BY <1>2, BackendAssumption
  DEF IInv, TypeOK, LockInv, RouteInv, PendingInv, OwedInv, Open, Settled, Notify
<1>3. ASSUME Restore
      PROVE  IInv'
  <2> USE <1>3 DEF IInv, Restore
  <2>1. TypeOK'
    BY DEF TypeOK, Entries
  <2>2. LockInv'
    BY DEF TypeOK, LockInv, Open
  <2>3. RouteInv'
    BY DEF TypeOK, LockInv, RouteInv, Open, Settled
  <2>4. PendingInv' /\ OwedInv'
    BY DEF TypeOK, PendingInv, OwedInv
  <2> QED BY <2>1, <2>2, <2>3, <2>4
<1> QED BY <1>1, <1>2, <1>3

\* Every step preserves the inductive invariant.
LEMMA StepInv == IInv /\ [Next]_vars => IInv'
<1> SUFFICES ASSUME IInv, [Next]_vars PROVE IInv'
  OBVIOUS
<1>1. CASE Guest
  BY <1>1, SetMsgCtlInv, WriteTableInv DEF Guest
<1>2. CASE Vcpu
  BY <1>2, UpdateFdInv, UpdateRouteInv, UnlockInv DEF Vcpu
<1>3. CASE Kernel \/ Restore
  BY <1>3, OthersInv DEF Kernel
<1>4. CASE Source
  BY <1>4, TriggerInv, OthersInv DEF Source
<1>5. CASE UNCHANGED vars
  BY <1>5 DEF vars, IInv, TypeOK, LockInv, RouteInv, PendingInv, OwedInv, Open, Settled
<1> QED BY <1>1, <1>2, <1>3, <1>4, <1>5 DEF Next

\* The inductive invariant holds in every reachable state.
THEOREM Invariance == Spec => []IInv
  BY InitInv, StepInv, PTL DEF Spec

\* An interrupt a device thread raises while MSI-X is enabled is never lost,
\* whatever the guest does to the masks and the messages and across restores.
THEOREM NotLost == Spec => []InterruptNotLost
<1>1. IInv => InterruptNotLost
  BY DEF IInv, OwedInv, InterruptNotLost
<1> QED BY <1>1, Invariance, PTL

\* When no access is being emulated, the kernel sends for every open vector
\* exactly the message of its entry.
THEOREM RoutedWhenOpen == Spec => []OpenIsRouted
<1>1. IInv => OpenIsRouted
  BY DEF IInv, LockInv, RouteInv, Settled, OpenIsRouted
<1> QED BY <1>1, Invariance, PTL

\* Once the write that masks a vector or closes MSI-X has been emulated, the
\* kernel sends nothing for the vector.
THEOREM SilentWhenMasked == Spec => []MaskedIsSilent
<1>1. IInv => MaskedIsSilent
  BY DEF IInv, TypeOK, LockInv, RouteInv, Settled, MaskedIsSilent
<1> QED BY <1>1, Invariance, PTL

=============================================================================
