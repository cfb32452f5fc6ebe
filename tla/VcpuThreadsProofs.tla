-------------------------- MODULE VcpuThreadsProofs --------------------------
(***************************************************************************)
(* Proofs about VcpuThreads, for any number of vCPUs: the types, that a    *)
(* pause that begins clean stops every vCPU, and that no thread is left    *)
(* parked.                                                                 *)
(***************************************************************************)
EXTENDS VcpuThreads, TLAPS

Pausing == op \in {"pause_kill", "pause_load", "pause_lock"}

\* The pause flag is up from the store in pause() to the one in resume().
FlagUp ==
    Pausing \/ vmPaused \/ op \in {"resume_lock", "resume_store"} => pauseSignalled

\* While a clean pause is under way, or has been reached, a thread that has
\* reported back sits in its park loop or has ended, and so have all those
\* that the loop over the vCPUs has left behind.
PauseInv ==
    clean /\ (Pausing \/ vmPaused) =>
       \A v \in Vcpus :
          /\ handle[v] /\ interrupted[v] => vpc[v] \in {"park_check", "parked", "exited"}
          /\ vmPaused \/ op = "pause_lock" \/ v < cur => (handle[v] => interrupted[v])

\* vmPaused, the mutex and the operation in progress agree; a vCPU without a
\* handle has no thread; an ejecting thread owns the mutex.
Coherent ==
    /\ op # "down" => (op # "idle" <=> cmLock = Vmm)
    /\ op = "down" => cmLock # Vmm
    /\ vmPaused => op \in {"idle", "resume_lock", "resume_store"}
    /\ \A v \in Vcpus : vpc[v] \in {"eject_kill", "eject_load", "eject_join"} => cmLock = v
    /\ \A v \in Vcpus : vpc[v] = "none" => ~handle[v]
    /\ \A v \in Vcpus : ~handle[v] => vpc[v] \in {"none", "exited"}

\* The inductive invariant: CleanPauseStops needs PauseInv, which says what
\* the loop over the vCPUs has achieved so far, and Coherent, by which nobody
\* ejects a vCPU behind the back of a pause.
IInv == TypeOK /\ FlagUp /\ PauseInv /\ Coherent

\* What the proofs use of the numbering of the vCPUs.
LEMMA VcpuIds ==
    /\ 0 \in Vcpus /\ Vcpus \subseteq Nat
    /\ Vmm \notin Vcpus /\ NoOne \notin Vcpus /\ Vmm # NoOne
    /\ \A c \in Vcpus : \/ c + 1 < NVcpus /\ c + 1 \in Vcpus
                        \/ ~(c + 1 < NVcpus) /\ c + 1 = NVcpus
    /\ \A v, c \in Vcpus : c + 1 = NVcpus => (v < c \/ v = c)
    /\ \A v, c \in Vcpus : v < c + 1 => (v < c \/ v = c)
    /\ \A v \in Vcpus : ~(v < 0)
BY NVcpusPositive DEF Vcpus, Vmm, NoOne

\* Every step of the VMM thread and of every vCPU thread keeps the invariant.
LEMMA InductiveStep == IInv /\ [Next]_vars => IInv'
<1> SUFFICES ASSUME IInv, [Next]_vars PROVE IInv'
  OBVIOUS
<1> USE VcpuIds DEF IInv, flags, vmmVars
<1>1. CASE StartVcpus
  <2>1. TypeOK'
    BY <1>1 DEF TypeOK, StartVcpus, Ops, VcpuPcs
  <2>2. FlagUp'
    BY <1>1 DEF TypeOK, FlagUp, Pausing, Coherent, StartVcpus
  <2>3. PauseInv'
    BY <1>1 DEF TypeOK, FlagUp, PauseInv, Pausing, Coherent, StartVcpus
  <2>4. Coherent'
    BY <1>1 DEF TypeOK, PauseInv, Pausing, Coherent, StartVcpus
  <2> QED BY <2>1, <2>2, <2>3, <2>4
<1>2. CASE StartDone
  <2>1. TypeOK'
    BY <1>2 DEF TypeOK, StartDone, Ops, VcpuPcs
  <2>2. FlagUp'
    BY <1>2 DEF TypeOK, FlagUp, Pausing, Coherent, StartDone
  <2>3. PauseInv'
    BY <1>2 DEF TypeOK, FlagUp, PauseInv, Pausing, Coherent, StartDone
  <2>4. Coherent'
    BY <1>2 DEF TypeOK, PauseInv, Pausing, Coherent, StartDone
  <2> QED BY <2>1, <2>2, <2>3, <2>4
<1>3. CASE PauseStore
  <2>1. TypeOK'
    BY <1>3 DEF TypeOK, PauseStore, Ops, VcpuPcs
  <2>2. FlagUp'
    BY <1>3 DEF TypeOK, FlagUp, Pausing, Coherent, PauseStore
  <2>3. PauseInv'
    BY <1>3 DEF TypeOK, FlagUp, PauseInv, Pausing, Coherent, PauseStore
  <2>4. Coherent'
    BY <1>3 DEF TypeOK, PauseInv, Pausing, Coherent, PauseStore
  <2> QED BY <2>1, <2>2, <2>3, <2>4
<1>4. CASE SignalSend
  <2>1. TypeOK'
    BY <1>4 DEF TypeOK, SignalSend, Advance, AfterSignal, Ops, VcpuPcs
  <2>2. FlagUp'
    BY <1>4 DEF TypeOK, FlagUp, Pausing, Coherent, SignalSend, Advance, AfterSignal
  <2>3. PauseInv'
    BY <1>4 DEF TypeOK, FlagUp, PauseInv, Pausing, Coherent, SignalSend, Advance, AfterSignal
  <2>4. Coherent'
    BY <1>4 DEF TypeOK, PauseInv, Pausing, Coherent, SignalSend, Advance, AfterSignal
  <2> QED BY <2>1, <2>2, <2>3, <2>4
<1>5. CASE SignalLoad
  <2>1. TypeOK'
    BY <1>5 DEF TypeOK, SignalLoad, Ops, VcpuPcs
  <2>2. FlagUp'
    BY <1>5 DEF TypeOK, FlagUp, Pausing, Coherent, SignalLoad
  <2>3. PauseInv'
    BY <1>5 DEF TypeOK, FlagUp, PauseInv, Pausing, Coherent, SignalLoad
  <2>4. Coherent'
    BY <1>5 DEF TypeOK, PauseInv, Pausing, Coherent, SignalLoad
  <2> QED BY <2>1, <2>2, <2>3, <2>4
<1>6. CASE PauseLock
  <2>1. TypeOK'
    BY <1>6 DEF TypeOK, PauseLock, Advance, Ops, VcpuPcs
  <2>2. FlagUp'
    BY <1>6 DEF TypeOK, FlagUp, Pausing, Coherent, PauseLock, Advance
  <2>3. PauseInv'
    BY <1>6 DEF TypeOK, FlagUp, PauseInv, Pausing, Coherent, PauseLock, Advance
  <2>4. Coherent'
    BY <1>6 DEF TypeOK, PauseInv, Pausing, Coherent, PauseLock, Advance
  <2> QED BY <2>1, <2>2, <2>3, <2>4
<1>7. CASE ResumeBegin
  <2>1. TypeOK'
    BY <1>7 DEF TypeOK, ResumeBegin, Ops, VcpuPcs
  <2>2. FlagUp'
    BY <1>7 DEF TypeOK, FlagUp, Pausing, Coherent, ResumeBegin
  <2>3. PauseInv'
    BY <1>7 DEF TypeOK, FlagUp, PauseInv, Pausing, Coherent, ResumeBegin
  <2>4. Coherent'
    BY <1>7 DEF TypeOK, PauseInv, Pausing, Coherent, ResumeBegin
  <2> QED BY <2>1, <2>2, <2>3, <2>4
<1>8. CASE ResumeLock
  <2>1. TypeOK'
    BY <1>8 DEF TypeOK, ResumeLock, Advance, Ops, VcpuPcs
  <2>2. FlagUp'
    BY <1>8 DEF TypeOK, FlagUp, Pausing, Coherent, ResumeLock, Advance
  <2>3. PauseInv'
    BY <1>8 DEF TypeOK, FlagUp, PauseInv, Pausing, Coherent, ResumeLock, Advance
  <2>4. Coherent'
    BY <1>8 DEF TypeOK, PauseInv, Pausing, Coherent, ResumeLock, Advance
  <2> QED BY <2>1, <2>2, <2>3, <2>4
<1>9. CASE ResumeStore
  <2>1. TypeOK'
    BY <1>9 DEF TypeOK, ResumeStore, Ops, VcpuPcs
  <2>2. FlagUp'
    BY <1>9 DEF TypeOK, FlagUp, Pausing, Coherent, ResumeStore
  <2>3. PauseInv'
    BY <1>9 DEF TypeOK, FlagUp, PauseInv, Pausing, Coherent, ResumeStore
  <2>4. Coherent'
    BY <1>9 DEF TypeOK, PauseInv, Pausing, Coherent, ResumeStore
  <2> QED BY <2>1, <2>2, <2>3, <2>4
<1>10. CASE UnparkThread
  <2>1. TypeOK'
    BY <1>10 DEF TypeOK, UnparkThread, Advance, Ops, VcpuPcs
  <2>2. FlagUp'
    BY <1>10 DEF TypeOK, FlagUp, Pausing, Coherent, UnparkThread, Advance
  <2>3. PauseInv'
    BY <1>10 DEF TypeOK, FlagUp, PauseInv, Pausing, Coherent, UnparkThread, Advance
  <2>4. Coherent'
    BY <1>10 DEF TypeOK, PauseInv, Pausing, Coherent, UnparkThread, Advance
  <2> QED BY <2>1, <2>2, <2>3, <2>4
<1>11. CASE ShutdownKill
  <2>1. TypeOK'
    BY <1>11 DEF TypeOK, ShutdownKill, Ops, VcpuPcs
  <2>2. FlagUp'
    BY <1>11 DEF TypeOK, FlagUp, Pausing, Coherent, ShutdownKill
  <2>3. PauseInv'
    BY <1>11 DEF TypeOK, FlagUp, PauseInv, Pausing, Coherent, ShutdownKill
  <2>4. Coherent'
    BY <1>11 DEF TypeOK, PauseInv, Pausing, Coherent, ShutdownKill
  <2> QED BY <2>1, <2>2, <2>3, <2>4
<1>12. CASE ShutdownStore
  <2>1. TypeOK'
    BY <1>12 DEF TypeOK, ShutdownStore, Ops, VcpuPcs
  <2>2. FlagUp'
    BY <1>12 DEF TypeOK, FlagUp, Pausing, Coherent, ShutdownStore
  <2>3. PauseInv'
    BY <1>12 DEF TypeOK, FlagUp, PauseInv, Pausing, Coherent, ShutdownStore
  <2>4. Coherent'
    BY <1>12 DEF TypeOK, PauseInv, Pausing, Coherent, ShutdownStore
  <2> QED BY <2>1, <2>2, <2>3, <2>4
<1>13. CASE ShutdownJoin
  <2>1. TypeOK'
    BY <1>13 DEF TypeOK, ShutdownJoin, Advance, Ops, VcpuPcs
  <2>2. FlagUp'
    BY <1>13 DEF TypeOK, FlagUp, Pausing, Coherent, ShutdownJoin, Advance
  <2>3. PauseInv'
    BY <1>13 DEF TypeOK, FlagUp, PauseInv, Pausing, Coherent, ShutdownJoin, Advance
  <2>4. Coherent'
    BY <1>13 DEF TypeOK, PauseInv, Pausing, Coherent, ShutdownJoin, Advance
  <2> QED BY <2>1, <2>2, <2>3, <2>4
<1>14. ASSUME NEW v \in Vcpus, ThreadReady(v) PROVE IInv'
  <2>1. TypeOK'
    BY <1>14 DEF TypeOK, ThreadReady, Goto, Ops, VcpuPcs
  <2>2. FlagUp'
    BY <1>14 DEF TypeOK, FlagUp, Pausing, Coherent, ThreadReady, Goto
  <2>3. PauseInv'
    BY <1>14 DEF TypeOK, FlagUp, PauseInv, Pausing, Coherent, ThreadReady, Goto
  <2>4. Coherent'
    BY <1>14 DEF TypeOK, PauseInv, Pausing, Coherent, ThreadReady, Goto
  <2> QED BY <2>1, <2>2, <2>3, <2>4
<1>15. ASSUME NEW v \in Vcpus, TopOfLoop(v) PROVE IInv'
  <2>1. TypeOK'
    BY <1>15 DEF TypeOK, TopOfLoop, Goto, Ops, VcpuPcs
  <2>2. FlagUp'
    BY <1>15 DEF TypeOK, FlagUp, Pausing, Coherent, TopOfLoop, Goto
  <2>3. PauseInv'
    BY <1>15 DEF TypeOK, FlagUp, PauseInv, Pausing, Coherent, TopOfLoop, Goto
  <2>4. Coherent'
    BY <1>15 DEF TypeOK, PauseInv, Pausing, Coherent, TopOfLoop, Goto
  <2> QED BY <2>1, <2>2, <2>3, <2>4
<1>16. ASSUME NEW v \in Vcpus, ImmediateExit(v) PROVE IInv'
  <2>1. TypeOK'
    BY <1>16 DEF TypeOK, ImmediateExit, Goto, Ops, VcpuPcs
  <2>2. FlagUp'
    BY <1>16 DEF TypeOK, FlagUp, Pausing, Coherent, ImmediateExit, Goto
  <2>3. PauseInv'
    BY <1>16 DEF TypeOK, FlagUp, PauseInv, Pausing, Coherent, ImmediateExit, Goto
  <2>4. Coherent'
    BY <1>16 DEF TypeOK, PauseInv, Pausing, Coherent, ImmediateExit, Goto
  <2> QED BY <2>1, <2>2, <2>3, <2>4
<1>17. ASSUME NEW v \in Vcpus, SetInterrupted(v) PROVE IInv'
  <2>1. TypeOK'
    BY <1>17 DEF TypeOK, SetInterrupted, Goto, Ops, VcpuPcs
  <2>2. FlagUp'
    BY <1>17 DEF TypeOK, FlagUp, Pausing, Coherent, SetInterrupted, Goto
  <2>3. PauseInv'
    BY <1>17 DEF TypeOK, FlagUp, PauseInv, Pausing, Coherent, SetInterrupted, Goto
  <2>4. Coherent'
    BY <1>17 DEF TypeOK, PauseInv, Pausing, Coherent, SetInterrupted, Goto
  <2> QED BY <2>1, <2>2, <2>3, <2>4
<1>18. ASSUME NEW v \in Vcpus, ParkCheck(v) PROVE IInv'
  <2>1. TypeOK'
    BY <1>18 DEF TypeOK, ParkCheck, Goto, Ops, VcpuPcs
  <2>2. FlagUp'
    BY <1>18 DEF TypeOK, FlagUp, Pausing, Coherent, ParkCheck, Goto
  <2>3. PauseInv'
    BY <1>18 DEF TypeOK, FlagUp, PauseInv, Pausing, Coherent, ParkCheck, Goto
  <2>4. Coherent'
    BY <1>18 DEF TypeOK, PauseInv, Pausing, Coherent, ParkCheck, Goto
  <2> QED BY <2>1, <2>2, <2>3, <2>4
<1>19. ASSUME NEW v \in Vcpus, ParkReturn(v) PROVE IInv'
  <2>1. TypeOK'
    BY <1>19 DEF TypeOK, ParkReturn, Goto, Ops, VcpuPcs
  <2>2. FlagUp'
    BY <1>19 DEF TypeOK, FlagUp, Pausing, Coherent, ParkReturn, Goto
  <2>3. PauseInv'
    BY <1>19 DEF TypeOK, FlagUp, PauseInv, Pausing, Coherent, ParkReturn, Goto
  <2>4. Coherent'
    BY <1>19 DEF TypeOK, PauseInv, Pausing, Coherent, ParkReturn, Goto
  <2> QED BY <2>1, <2>2, <2>3, <2>4
<1>20. ASSUME NEW v \in Vcpus, ClearInterrupted(v) PROVE IInv'
  <2>1. TypeOK'
    BY <1>20 DEF TypeOK, ClearInterrupted, Goto, Ops, VcpuPcs
  <2>2. FlagUp'
    BY <1>20 DEF TypeOK, FlagUp, Pausing, Coherent, ClearInterrupted, Goto
  <2>3. PauseInv'
    BY <1>20 DEF TypeOK, FlagUp, PauseInv, Pausing, Coherent, ClearInterrupted, Goto
  <2>4. Coherent'
    BY <1>20 DEF TypeOK, PauseInv, Pausing, Coherent, ClearInterrupted, Goto
  <2> QED BY <2>1, <2>2, <2>3, <2>4
<1>21. ASSUME NEW v \in Vcpus, KillCheck(v) PROVE IInv'
  <2>1. TypeOK'
    <3>1. vpc' \in [Vcpus -> VcpuPcs]
      BY <1>21 DEF TypeOK, KillCheck, Goto, VcpuPcs
    <3>2. interrupted' \in [Vcpus -> BOOLEAN]
      BY <1>21 DEF TypeOK, KillCheck
    <3> QED BY <1>21, <3>1, <3>2 DEF TypeOK, KillCheck
  <2>2. FlagUp'
    BY <1>21 DEF TypeOK, FlagUp, Pausing, Coherent, KillCheck, Goto
  <2>3. PauseInv'
    BY <1>21 DEF TypeOK, FlagUp, PauseInv, Pausing, Coherent, KillCheck, Goto
  <2>4. Coherent'
    BY <1>21 DEF TypeOK, PauseInv, Pausing, Coherent, KillCheck, Goto
  <2> QED BY <2>1, <2>2, <2>3, <2>4
<1>22. ASSUME NEW v \in Vcpus, EnterGuest(v) PROVE IInv'
  <2>1. TypeOK'
    BY <1>22 DEF TypeOK, EnterGuest, Goto, Ops, VcpuPcs
  <2>2. FlagUp'
    BY <1>22 DEF TypeOK, FlagUp, Pausing, Coherent, EnterGuest, Goto
  <2>3. PauseInv'
    BY <1>22 DEF TypeOK, FlagUp, PauseInv, Pausing, Coherent, EnterGuest, Goto
  <2>4. Coherent'
    BY <1>22 DEF TypeOK, PauseInv, Pausing, Coherent, EnterGuest, Goto
  <2> QED BY <2>1, <2>2, <2>3, <2>4
<1>23. ASSUME NEW v \in Vcpus, ExitIgnored(v) PROVE IInv'
  <2>1. TypeOK'
    BY <1>23 DEF TypeOK, ExitIgnored, Goto, Ops, VcpuPcs
  <2>2. FlagUp'
    BY <1>23 DEF TypeOK, FlagUp, Pausing, Coherent, ExitIgnored, Goto
  <2>3. PauseInv'
    BY <1>23 DEF TypeOK, FlagUp, PauseInv, Pausing, Coherent, ExitIgnored, Goto
  <2>4. Coherent'
    BY <1>23 DEF TypeOK, PauseInv, Pausing, Coherent, ExitIgnored, Goto
  <2> QED BY <2>1, <2>2, <2>3, <2>4
<1>24. ASSUME NEW v \in Vcpus, ExitStop(v) PROVE IInv'
  <2>1. TypeOK'
    BY <1>24 DEF TypeOK, ExitStop, Goto, Ops, VcpuPcs
  <2>2. FlagUp'
    BY <1>24 DEF TypeOK, FlagUp, Pausing, Coherent, ExitStop, Goto
  <2>3. PauseInv'
    BY <1>24 DEF TypeOK, FlagUp, PauseInv, Pausing, Coherent, ExitStop, Goto
  <2>4. Coherent'
    BY <1>24 DEF TypeOK, PauseInv, Pausing, Coherent, ExitStop, Goto
  <2> QED BY <2>1, <2>2, <2>3, <2>4
<1>25. ASSUME NEW v \in Vcpus, ExitError(v) PROVE IInv'
  <2>1. TypeOK'
    BY <1>25 DEF TypeOK, ExitError, Goto, Ops, VcpuPcs
  <2>2. FlagUp'
    BY <1>25 DEF TypeOK, FlagUp, Pausing, Coherent, ExitError, Goto
  <2>3. PauseInv'
    BY <1>25 DEF TypeOK, FlagUp, PauseInv, Pausing, Coherent, ExitError, Goto
  <2>4. Coherent'
    BY <1>25 DEF TypeOK, PauseInv, Pausing, Coherent, ExitError, Goto
  <2> QED BY <2>1, <2>2, <2>3, <2>4
<1>26. ASSUME NEW v \in Vcpus, ExitRegs(v) PROVE IInv'
  <2>1. TypeOK'
    BY <1>26 DEF TypeOK, ExitRegs, Goto, Ops, VcpuPcs
  <2>2. FlagUp'
    BY <1>26 DEF TypeOK, FlagUp, Pausing, Coherent, ExitRegs, Goto
  <2>3. PauseInv'
    BY <1>26 DEF TypeOK, FlagUp, PauseInv, Pausing, Coherent, ExitRegs, Goto
  <2>4. Coherent'
    BY <1>26 DEF TypeOK, PauseInv, Pausing, Coherent, ExitRegs, Goto
  <2> QED BY <2>1, <2>2, <2>3, <2>4
<1>27. ASSUME NEW v \in Vcpus, RegsAccess(v) PROVE IInv'
  <2>1. TypeOK'
    BY <1>27 DEF TypeOK, RegsAccess, Goto, Ops, VcpuPcs
  <2>2. FlagUp'
    BY <1>27 DEF TypeOK, FlagUp, Pausing, Coherent, RegsAccess, Goto
  <2>3. PauseInv'
    BY <1>27 DEF TypeOK, FlagUp, PauseInv, Pausing, Coherent, RegsAccess, Goto
  <2>4. Coherent'
    BY <1>27 DEF TypeOK, PauseInv, Pausing, Coherent, RegsAccess, Goto
  <2> QED BY <2>1, <2>2, <2>3, <2>4
<1>28. ASSUME NEW v \in Vcpus, EjectSignal(v) PROVE IInv'
  <2>1. TypeOK'
    BY <1>28 DEF TypeOK, EjectSignal, AfterSignal, Ops, VcpuPcs
  <2>2. FlagUp'
    BY <1>28 DEF TypeOK, FlagUp, Pausing, Coherent, EjectSignal, AfterSignal
  <2>3. PauseInv'
    BY <1>28 DEF TypeOK, FlagUp, PauseInv, Pausing, Coherent, EjectSignal, AfterSignal
  <2>4. Coherent'
    BY <1>28 DEF TypeOK, PauseInv, Pausing, Coherent, EjectSignal, AfterSignal
  <2> QED BY <2>1, <2>2, <2>3, <2>4
<1>29. ASSUME NEW v \in Vcpus, EjectLoad(v) PROVE IInv'
  <2>1. TypeOK'
    BY <1>29 DEF TypeOK, EjectLoad, Goto, Ops, VcpuPcs
  <2>2. FlagUp'
    BY <1>29 DEF TypeOK, FlagUp, Pausing, Coherent, EjectLoad, Goto
  <2>3. PauseInv'
    BY <1>29 DEF TypeOK, FlagUp, PauseInv, Pausing, Coherent, EjectLoad, Goto
  <2>4. Coherent'
    BY <1>29 DEF TypeOK, PauseInv, Pausing, Coherent, EjectLoad, Goto
  <2> QED BY <2>1, <2>2, <2>3, <2>4
<1>30. ASSUME NEW v \in Vcpus, EjectJoin(v) PROVE IInv'
  <2>1. TypeOK'
    BY <1>30 DEF TypeOK, EjectJoin, Goto, Ops, VcpuPcs
  <2>2. FlagUp'
    BY <1>30 DEF TypeOK, FlagUp, Pausing, Coherent, EjectJoin, Goto
  <2>3. PauseInv'
    BY <1>30 DEF TypeOK, FlagUp, PauseInv, Pausing, Coherent, EjectJoin, Goto
  <2>4. Coherent'
    BY <1>30 DEF TypeOK, PauseInv, Pausing, Coherent, EjectJoin, Goto
  <2> QED BY <2>1, <2>2, <2>3, <2>4
<1>31. ASSUME NEW v \in Vcpus, NEW t \in Vcpus, EjectKill(v, t) PROVE IInv'
  <2>1. TypeOK'
    BY <1>31 DEF TypeOK, EjectKill, Goto, Ops, VcpuPcs
  <2>2. FlagUp'
    BY <1>31 DEF TypeOK, FlagUp, Pausing, Coherent, EjectKill, Goto
  <2>3. PauseInv'
    BY <1>31 DEF TypeOK, FlagUp, PauseInv, Pausing, Coherent, EjectKill, Goto
  <2>4. Coherent'
    BY <1>31 DEF TypeOK, PauseInv, Pausing, Coherent, EjectKill, Goto
  <2> QED BY <2>1, <2>2, <2>3, <2>4
<1>32. CASE UNCHANGED vars
  BY <1>32 DEF vars, TypeOK, FlagUp, PauseInv, Pausing, Coherent
<1> QED
  BY <1>1, <1>2, <1>3, <1>4, <1>5, <1>6, <1>7, <1>8, <1>9, <1>10, <1>11,
     <1>12, <1>13, <1>14, <1>15, <1>16, <1>17, <1>18, <1>19, <1>20,
     <1>21, <1>22, <1>23, <1>24, <1>25, <1>26, <1>27, <1>28, <1>29,
     <1>30, <1>31, <1>32
  DEF Next, VmmStarts, VmmSteps, VcpuProgress, GuestChoice

\* The inductive invariant holds in every reachable state of the vCPU threads.
THEOREM Invariance == Spec => []IInv
<1>1. Init => IInv
  <2> SUFFICES ASSUME Init PROVE IInv
    OBVIOUS
  <2>1. TypeOK
    BY VcpuIds DEF Init, TypeOK, Ops, VcpuPcs
  <2>2. FlagUp /\ PauseInv /\ Coherent
    BY VcpuIds DEF Init, FlagUp, PauseInv, Coherent, Pausing
  <2> QED
    BY <2>1, <2>2 DEF IInv
<1> QED
  BY <1>1, InductiveStep, PTL DEF Spec

\* Every variable of CpuManager and of its threads keeps its type.
THEOREM TypeCorrect == Spec => []TypeOK
BY Invariance, PTL DEF IInv

\* After a pause that began clean, no vCPU is in the guest or on its way
\* there until resume() is called, for any number of vCPUs.
THEOREM CleanPause == Spec => []CleanPauseStops
<1>1. IInv => CleanPauseStops
  BY DEF IInv, TypeOK, PauseInv, Coherent, CleanPauseStops, Stopped
<1> QED
  BY <1>1, Invariance, PTL

\* A second inductive invariant, on top of the first: the loop that unparks
\* the threads starts at vCPU 0.
UnparkInv == NoLostUnpark /\ (op \in {"resume_store", "down_store"} => cur = 0)

\* Every step keeps the second invariant.
LEMMA UnparkStep == IInv /\ UnparkInv /\ [Next]_vars => UnparkInv'
<1> SUFFICES ASSUME IInv, UnparkInv, [Next]_vars PROVE UnparkInv'
  OBVIOUS
<1> USE VcpuIds DEF IInv, UnparkInv, NoLostUnpark, TypeOK, flags, vmmVars
<1>1. CASE StartVcpus
  BY <1>1 DEF StartVcpus
<1>2. CASE StartDone
  BY <1>2 DEF StartDone
<1>3. CASE PauseStore
  BY <1>3 DEF PauseStore
<1>4. CASE SignalSend
  BY <1>4 DEF SignalSend, AfterSignal, Advance
<1>5. CASE SignalLoad
  BY <1>5 DEF SignalLoad
<1>6. CASE PauseLock
  BY <1>6 DEF PauseLock, Advance
<1>7. CASE ResumeBegin \/ ResumeLock \/ ResumeStore
  BY <1>7 DEF ResumeBegin, ResumeLock, ResumeStore, Advance
<1>8. CASE UnparkThread
  BY <1>8 DEF UnparkThread, Advance, Coherent
<1>9. CASE ShutdownKill \/ ShutdownStore \/ ShutdownJoin
  BY <1>9 DEF ShutdownKill, ShutdownStore, ShutdownJoin, Advance
<1>10. ASSUME NEW v \in Vcpus,
              \/ ThreadReady(v) \/ TopOfLoop(v) \/ ImmediateExit(v)
              \/ SetInterrupted(v) \/ ParkCheck(v) \/ ParkReturn(v)
              \/ ClearInterrupted(v) \/ KillCheck(v) \/ EnterGuest(v)
       PROVE  UnparkInv'
  BY <1>10 DEF ThreadReady, TopOfLoop, ImmediateExit, SetInterrupted, ParkCheck,
               ParkReturn, ClearInterrupted, KillCheck, EnterGuest, Goto
<1>11. ASSUME NEW v \in Vcpus,
              \/ ExitIgnored(v) \/ ExitStop(v) \/ ExitError(v) \/ ExitRegs(v)
              \/ RegsAccess(v) \/ EjectSignal(v) \/ EjectLoad(v)
              \/ \E t \in Vcpus : EjectKill(v, t)
       PROVE  UnparkInv'
  BY <1>11 DEF ExitIgnored, ExitStop, ExitError, ExitRegs, RegsAccess,
               EjectSignal, EjectLoad, EjectKill, AfterSignal, Goto
<1>12. ASSUME NEW v \in Vcpus, EjectJoin(v) PROVE UnparkInv'
  BY <1>12 DEF EjectJoin
<1>13. CASE UNCHANGED vars
  BY <1>13 DEF vars
<1> QED
  BY <1>1, <1>2, <1>3, <1>4, <1>5, <1>6, <1>7, <1>8, <1>9, <1>10, <1>11,
     <1>12, <1>13
  DEF Next, VmmStarts, VmmSteps, VcpuProgress, GuestChoice

\* A thread parked by a pause never sleeps through the resume or shutdown that
\* should wake it, for any number of vCPUs.
THEOREM NoUnparkLost == Spec => []NoLostUnpark
<1>1. Init => UnparkInv
  BY DEF Init, UnparkInv, NoLostUnpark
<1>2. UnparkInv => NoLostUnpark
  BY DEF UnparkInv
<1> QED
  BY <1>1, <1>2, Invariance, UnparkStep, PTL DEF Spec
=============================================================================
