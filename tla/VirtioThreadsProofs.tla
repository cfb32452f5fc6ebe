------------------------- MODULE VirtioThreadsProofs -------------------------
(***************************************************************************)
(* Proofs about VirtioThreads, for any finite set of workers: the types,   *)
(* that a paused device is quiet, and that no worker sleeps through a      *)
(* resume.                                                                 *)
(***************************************************************************)
EXTENDS VirtioThreads, TLAPS, FiniteSetTheorems, SequenceTheorems

\* Who waits in the barrier, read off the program counters.
BarrierCoherent ==
    /\ CtlId \in arrived <=> ctl = "pause_wait"
    /\ \A w \in Workers : w \in arrived <=> wpc[w] = "barrier"

\* Where the flags stand while each operation is in progress.
OperationCoherent ==
    /\ ctl \in {"pause_write", "pause_arrive", "pause_wait"} => paused /\ armed
    /\ ctl \in {"reset_unpark", "reset_kill", "reset_join"} => ~armed
    /\ ~armed /\ ctl \in {"idle", "unpark"} => \A w \in Workers : wpc[w] = "none"
    /\ acked => paused /\ ctl = "idle"

\* The inductive invariant.  PausedIsQuiet alone is not inductive: that the
\* barrier opens only with every worker in it needs BarrierCoherent, and that
\* the flag is still up when it opens needs OperationCoherent.
IInv == TypeOK /\ BarrierCoherent /\ OperationCoherent /\ PausedIsQuiet

\* A full barrier holds every participant (Barrier::new(n + 1) counts to n + 1).
LEMMA FullBarrier ==
    ASSUME NEW A \in SUBSET (Workers \cup {CtlId}), Cardinality(A) = BarrierSize
    PROVE  A = Workers \cup {CtlId}
<1>1. /\ IsFiniteSet(Workers \cup {CtlId})
      /\ Cardinality(Workers \cup {CtlId}) = Cardinality(Workers) + 1
  BY FS_AddElement, WorkersFinite, CtlNotWorker
<1> QED
  BY <1>1, FS_Subset DEF BarrierSize

\* What epoll_wait returns is a sequence of event ids.
LEMMA OrdersType ==
    ASSUME NEW S \in SUBSET EventIds, NEW s \in Orders(S)
    PROVE  s \in Seq(EventIds)
<1>1. IsFiniteSet(EventIds)
  <2>1. IsFiniteSet({"PAUSE"} \cup {"KILL"})
    BY FS_Singleton, FS_AddElement
  <2>2. IsFiniteSet({"PAUSE"} \cup {"KILL"} \cup {"QUEUE"})
    BY <2>1, FS_AddElement
  <2>3. EventIds = {"PAUSE"} \cup {"KILL"} \cup {"QUEUE"}
    BY DEF EventIds
  <2> QED BY <2>2, <2>3
<1>2. Cardinality(S) \in Nat
  BY <1>1, FS_Subset, FS_CardinalityType
<1>3. s \in [1 .. Cardinality(S) -> S]
  BY DEF Orders
<1>4. s \in [1 .. Cardinality(S) -> EventIds]
  BY <1>3
<1> QED
  BY <1>2, <1>4

\* Dropping the event just handled leaves a sequence of event ids.
LEMMA TailType ==
    ASSUME TypeOK, NEW w \in Workers, events[w] # <<>>
    PROVE  [events EXCEPT ![w] = Tail(events[w])] \in [Workers -> Seq(EventIds)]
<1>1. events[w] \in Seq(EventIds) /\ events \in [Workers -> Seq(EventIds)]
  BY DEF TypeOK
<1>2. Tail(events[w]) \in Seq(EventIds)
  BY <1>1, HeadTailProperties
<1> QED
  BY <1>1, <1>2

\* A participant entering the barrier keeps the invariant's parts that speak
\* of the barrier, whether or not it is the last one to come.
LEMMA BarrierStep ==
    ASSUME IInv, NEW p \in Workers \cup {CtlId}, BarrierWait(p),
           p \notin arrived,
           p = CtlId => ctl = "pause_arrive",
           p # CtlId => wpc[p] = "dispatch",
           UNCHANGED <<paused, armed>>
    PROVE  /\ arrived' \subseteq Workers \cup {CtlId}
           /\ wpc' \in [Workers -> WorkerPcs]
           /\ ctl' \in CtlPcs /\ acked' \in BOOLEAN
           /\ BarrierCoherent' /\ OperationCoherent' /\ PausedIsQuiet'
<1> DEFINE here == arrived \cup {p}
<1>t. here \in SUBSET (Workers \cup {CtlId})
  BY DEF IInv, TypeOK
<1>n. ~acked
  <2>1. CASE p = CtlId
    BY <2>1 DEF IInv, OperationCoherent
  <2>2. CASE p # CtlId
    BY <2>2 DEF IInv, PausedIsQuiet
  <2> QED BY <2>1, <2>2
<1>1. CASE Cardinality(here) = BarrierSize
  <2>1. here = Workers \cup {CtlId}
    BY <1>1, <1>t, FullBarrier
  <2>2. paused /\ armed
    BY <2>1 DEF IInv, BarrierCoherent, OperationCoherent
  <2>3. /\ arrived' = {} /\ wpc' = [w \in Workers |-> "check"]
        /\ ctl' = "idle" /\ acked' = TRUE
    BY <1>1, <2>1 DEF BarrierWait
  <2> QED
    BY <2>2, <2>3 DEF BarrierCoherent, OperationCoherent, PausedIsQuiet,
                      WorkerPcs, CtlPcs, IInv, TypeOK
<1>2. CASE Cardinality(here) # BarrierSize /\ p = CtlId
  <2>1. arrived' = here /\ wpc' = wpc /\ ctl' = "pause_wait" /\ acked' = acked
    BY <1>2 DEF BarrierWait
  <2> QED
    BY <1>2, <1>n, <1>t, <2>1, CtlNotWorker
    DEF BarrierCoherent, OperationCoherent, PausedIsQuiet, CtlPcs, IInv, TypeOK
<1>3. CASE Cardinality(here) # BarrierSize /\ p # CtlId
  <2>1. arrived' = here /\ wpc' = [wpc EXCEPT ![p] = "barrier"]
        /\ ctl' = ctl /\ acked' = acked
    BY <1>3 DEF BarrierWait
  <2>2. ~(~armed /\ ctl \in {"idle", "unpark"})
    BY <1>3 DEF IInv, OperationCoherent
  <2> QED
    BY <1>3, <1>n, <1>t, <2>1, <2>2, CtlNotWorker
    DEF BarrierCoherent, OperationCoherent, PausedIsQuiet, WorkerPcs, IInv, TypeOK
<1> QED
  BY <1>1, <1>2, <1>3

\* Each operation and each step of a worker keeps the inductive invariant.
LEMMA InductiveStep == IInv /\ [Next]_vars => IInv'
<1> SUFFICES ASSUME IInv, [Next]_vars PROVE IInv'
  OBVIOUS
<1> USE DEF IInv
<1>1. CASE Activate
  BY <1>1 DEF Activate, TypeOK, BarrierCoherent, OperationCoherent,
              PausedIsQuiet, WorkerPcs
<1>2. CASE PauseStore
  BY <1>2 DEF PauseStore, TypeOK, BarrierCoherent, OperationCoherent,
              PausedIsQuiet, CtlPcs
<1>3. CASE PauseWrite
  BY <1>3 DEF PauseWrite, TypeOK, BarrierCoherent, OperationCoherent,
              PausedIsQuiet, CtlPcs
<1>4. CASE PauseArrive
  <2>1. CtlId \notin arrived
    BY <1>4 DEF PauseArrive, BarrierCoherent
  <2> QED
    BY <1>4, <2>1, BarrierStep DEF PauseArrive, TypeOK
<1>5. CASE ResumeStore
  BY <1>5 DEF ResumeStore, TypeOK, BarrierCoherent, OperationCoherent,
              PausedIsQuiet, CtlPcs
<1>6. CASE ResumeDone
  BY <1>6 DEF ResumeDone, TypeOK, BarrierCoherent, OperationCoherent,
              PausedIsQuiet, CtlPcs
<1>7. CASE ResetStore
  BY <1>7 DEF ResetStore, TypeOK, BarrierCoherent, OperationCoherent,
              PausedIsQuiet, CtlPcs
<1>8. CASE ResetUnparked
  BY <1>8 DEF ResetUnparked, TypeOK, BarrierCoherent, OperationCoherent,
              PausedIsQuiet, CtlPcs
<1>9. CASE ResetKill
  BY <1>9 DEF ResetKill, TypeOK, BarrierCoherent, OperationCoherent,
              PausedIsQuiet, CtlPcs
<1>10. CASE ResetJoin
  BY <1>10 DEF ResetJoin, TypeOK, BarrierCoherent, OperationCoherent,
               PausedIsQuiet, CtlPcs, WorkerPcs
<1>11. ASSUME NEW w \in Workers, Unpark(w) PROVE IInv'
  BY <1>11 DEF Unpark, TypeOK, BarrierCoherent, OperationCoherent, PausedIsQuiet
<1>12. ASSUME NEW w \in Workers, Worker(w) PROVE IInv'
  <2> USE DEF ctlVars
  <2>1. CASE StartCheck(w)
    BY <2>1 DEF StartCheck, TypeOK, BarrierCoherent, OperationCoherent,
                PausedIsQuiet, WorkerPcs
  <2>2. CASE EpollWait(w)
    <3>1. PICK s \in Orders(Readable(w)) : events' = [events EXCEPT ![w] = s]
      BY <2>2 DEF EpollWait
    <3>2. s \in Seq(EventIds)
      BY OrdersType DEF Readable
    <3>3. events' \in [Workers -> Seq(EventIds)]
      BY <3>1, <3>2 DEF TypeOK
    <3> QED
      BY <2>2, <3>3 DEF EpollWait, TypeOK, BarrierCoherent, OperationCoherent,
                        PausedIsQuiet, WorkerPcs
  <2>3. CASE EndOfEvents(w)
    BY <2>3 DEF EndOfEvents, TypeOK, BarrierCoherent, OperationCoherent,
                PausedIsQuiet, WorkerPcs
  <2>4. CASE DispatchKill(w)
    BY <2>4 DEF DispatchKill, TypeOK, BarrierCoherent, OperationCoherent,
                PausedIsQuiet, WorkerPcs
  <2>5. CASE DispatchPause(w)
    <3>1. events' \in [Workers -> Seq(EventIds)]
      BY <2>5, TailType DEF DispatchPause
    <3>2. w \notin arrived /\ w # CtlId
      BY <2>5, CtlNotWorker DEF DispatchPause, BarrierCoherent
    <3> QED
      BY <2>5, <3>1, <3>2, BarrierStep DEF DispatchPause, TypeOK
  <2>6. CASE DispatchQueue(w)
    <3>1. events' \in [Workers -> Seq(EventIds)]
      BY <2>6, TailType DEF DispatchQueue
    <3> QED
      BY <2>6, <3>1 DEF DispatchQueue, TypeOK, BarrierCoherent,
                        OperationCoherent, PausedIsQuiet, WorkerPcs
  <2>7. CASE HandleReturn(w)
    BY <2>7 DEF HandleReturn, TypeOK, BarrierCoherent, OperationCoherent,
                PausedIsQuiet, WorkerPcs
  <2>8. CASE PauseCheck(w)
    BY <2>8 DEF PauseCheck, TypeOK, BarrierCoherent, OperationCoherent,
                PausedIsQuiet, WorkerPcs
  <2>9. CASE Drain(w)
    BY <2>9 DEF Drain, TypeOK, BarrierCoherent, OperationCoherent,
                PausedIsQuiet, WorkerPcs
  <2>10. CASE ParkReturn(w)
    BY <2>10 DEF ParkReturn, TypeOK, BarrierCoherent, OperationCoherent,
                 PausedIsQuiet, WorkerPcs
  <2> QED
    BY <1>12, <2>1, <2>2, <2>3, <2>4, <2>5, <2>6, <2>7, <2>8, <2>9, <2>10 DEF Worker
<1>13. ASSUME NEW w \in Workers, Kick(w) PROVE IInv'
  BY <1>13 DEF Kick, ctlVars, TypeOK, BarrierCoherent, OperationCoherent, PausedIsQuiet
<1>14. CASE UNCHANGED vars
  BY <1>14 DEF vars, TypeOK, BarrierCoherent, OperationCoherent, PausedIsQuiet
<1> QED
  BY <1>1, <1>2, <1>3, <1>4, <1>5, <1>6, <1>7, <1>8, <1>9, <1>10, <1>11,
     <1>12, <1>13, <1>14 DEF Next, Control

\* The inductive invariant holds in every reachable state of the threads and
\* operations of a virtio device.
THEOREM Invariance == Spec => []IInv
<1>1. Init => IInv
  <2> SUFFICES ASSUME Init PROVE IInv
    OBVIOUS
  <2>e. <<>> \in Seq(EventIds)
    OBVIOUS
  <2>f. events \in [Workers -> Seq(EventIds)]
    BY <2>e DEF Init
  <2>1. TypeOK
    BY <2>f DEF Init, TypeOK, WorkerPcs, CtlPcs
  <2>2. BarrierCoherent /\ OperationCoherent /\ PausedIsQuiet
    BY DEF Init, BarrierCoherent, OperationCoherent, PausedIsQuiet
  <2> QED
    BY <2>1, <2>2 DEF IInv
<1> QED
  BY <1>1, InductiveStep, PTL DEF Spec

\* Every variable of VirtioCommon, its eventfds and its workers keeps its type.
THEOREM TypeCorrect == Spec => []TypeOK
BY Invariance, PTL DEF IInv

\* From the return of pause() to the next resume() no worker of the device is
\* in its event loop, for any number of workers.
THEOREM PausedQuiet == Spec => []PausedIsQuiet
BY Invariance, PTL DEF IInv

\* A step of an operation or of a worker leaves no parked worker without a wake-up:
\* the flag is read before park(), and resume() and reset() clear it before they
\* unpark every worker there is.
LEMMA WakeupStep == IInv /\ NoLostWakeup /\ [Next]_vars => NoLostWakeup'
<1> SUFFICES ASSUME IInv, NoLostWakeup, [Next]_vars PROVE NoLostWakeup'
  OBVIOUS
<1> USE DEF IInv, NoLostWakeup, TypeOK
<1>b. ASSUME NEW p \in Workers \cup {CtlId}, BarrierWait(p), UNCHANGED <<paused, token, todo>>
      PROVE  NoLostWakeup'
  <2>1. \A w \in Workers : wpc'[w] = wpc[w] \/ wpc'[w] \in {"check", "barrier"}
    BY <1>b, CtlNotWorker DEF BarrierWait
  <2> QED
    BY <1>b, <2>1
<1>1. CASE Activate
  BY <1>1 DEF Activate
<1>2. CASE PauseStore
  BY <1>2 DEF PauseStore
<1>3. CASE PauseWrite
  BY <1>3 DEF PauseWrite
<1>4. CASE PauseArrive
  BY <1>4, <1>b DEF PauseArrive
<1>5. CASE ResumeStore
  BY <1>5 DEF ResumeStore, OperationCoherent
<1>6. CASE ResumeDone
  BY <1>6 DEF ResumeDone
<1>7. CASE ResetStore
  BY <1>7 DEF ResetStore
<1>8. CASE ResetUnparked
  BY <1>8 DEF ResetUnparked
<1>9. CASE ResetKill
  BY <1>9 DEF ResetKill
<1>10. CASE ResetJoin
  BY <1>10 DEF ResetJoin
<1>11. ASSUME NEW w \in Workers, Unpark(w) PROVE NoLostWakeup'
  BY <1>11 DEF Unpark
<1>12. ASSUME NEW w \in Workers, Worker(w) PROVE NoLostWakeup'
  <2> USE DEF ctlVars
  <2>1. CASE StartCheck(w)
    BY <2>1 DEF StartCheck
  <2>2. CASE EpollWait(w)
    BY <2>2 DEF EpollWait
  <2>3. CASE EndOfEvents(w)
    BY <2>3 DEF EndOfEvents
  <2>4. CASE DispatchKill(w)
    BY <2>4 DEF DispatchKill
  <2>5. CASE DispatchPause(w)
    BY <2>5, <1>b DEF DispatchPause
  <2>6. CASE DispatchQueue(w)
    BY <2>6 DEF DispatchQueue
  <2>7. CASE HandleReturn(w)
    BY <2>7 DEF HandleReturn
  <2>8. CASE PauseCheck(w)
    BY <2>8 DEF PauseCheck
  <2>9. CASE Drain(w)
    BY <2>9 DEF Drain
  <2>10. CASE ParkReturn(w)
    BY <2>10 DEF ParkReturn
  <2> QED
    BY <1>12, <2>1, <2>2, <2>3, <2>4, <2>5, <2>6, <2>7, <2>8, <2>9, <2>10 DEF Worker
<1>13. ASSUME NEW w \in Workers, Kick(w) PROVE NoLostWakeup'
  BY <1>13 DEF Kick, ctlVars
<1>14. CASE UNCHANGED vars
  BY <1>14 DEF vars
<1> QED
  BY <1>1, <1>2, <1>3, <1>4, <1>5, <1>6, <1>7, <1>8, <1>9, <1>10, <1>11,
     <1>12, <1>13, <1>14 DEF Next, Control

\* A worker that parks because of a pause is woken by the resume or the reset that
\* ends it, whenever it looks at the flag, for any number of workers.
THEOREM NoWakeupLost == Spec => []NoLostWakeup
<1>1. Init => NoLostWakeup
  BY DEF Init, NoLostWakeup
<1> QED
  BY <1>1, WakeupStep, Invariance, PTL DEF Spec
=============================================================================
