----------------------------- MODULE VcpuThreads -----------------------------
(***************************************************************************)
(* The vCPU threads and the operations of CpuManager (vmm/src/cpu.rs) that  *)
(* start, pause, resume, eject and stop them.                              *)
(*                                                                         *)
(* Three kinds of actors interleave: the VMM thread, which runs the        *)
(* operations with the CpuManager mutex held; every vCPU thread, which     *)
(* loops around KVM_RUN with its own Vcpu mutex held; and a vCPU thread    *)
(* that ejects another vCPU through the hotplug registers, which takes the *)
(* CpuManager mutex as well.  A signal sent to a vCPU thread only has an   *)
(* effect if the thread is inside KVM_RUN at that moment.                  *)
(***************************************************************************)
EXTENDS Naturals

CONSTANTS
    NVcpus,       \* max_vcpus; vCPU ids are 0 .. NVcpus - 1
    GuestUsesRegs,\* may the guest access the CPU hotplug registers?
    RunMayFail    \* may a thread fail to set up, or KVM_RUN fail or return
                  \* an unexpected exit?

ASSUME NVcpusPositive == NVcpus \in Nat \ {0}
ASSUME FlagsBoolean == GuestUsesRegs \in BOOLEAN /\ RunMayFail \in BOOLEAN

Vcpus == 0 .. NVcpus - 1
Vmm == NVcpus            \* the VMM thread, as an owner of the mutex
NoOne == NVcpus + 1

VARIABLES
    pauseSignalled,  \* vcpus_pause_signalled
    killSignalled,   \* vcpus_kill_signalled
    kill,            \* kill[v]: VcpuState.kill
    interrupted,     \* interrupted[v]: VcpuState.vcpu_run_interrupted
    handle,          \* handle[v]: VcpuState.handle is Some
    token,           \* token[v]: the park/unpark token of the thread
    vpc,             \* program counter of each vCPU thread
    target,          \* target[v]: the vCPU that v is ejecting
    cmLock,          \* owner of the CpuManager mutex
    op, cur,         \* operation of the VMM thread and the vCPU it is at
    vmPaused,        \* pause() returned and resume() was not called since
    clean            \* no thread was still interrupted when pause() began

vars == <<pauseSignalled, killSignalled, kill, interrupted, handle, token,
          vpc, target, cmLock, op, cur, vmPaused, clean>>

VcpuPcs == {"none", "init", "failed", "ready", "top", "immediate", "interrupt",
            "park_check", "parked", "clear", "kill_check", "lock", "run",
            "regs", "eject_kill", "eject_load", "eject_join", "post_run",
            "exited"}

Ops == {"idle", "start_wait", "pause_kill", "pause_load", "pause_lock",
        "resume_lock", "resume_store", "resume_unpark", "down_store",
        "down_unpark", "down_kill", "down_load", "down_join", "down"}

\* The thread holds its Vcpu mutex: from before KVM_RUN to the end of the turn.
HoldsVcpu(v) == vpc[v] \in {"run", "regs", "eject_kill", "eject_load",
                            "eject_join", "post_run"}

Init ==
    /\ pauseSignalled = FALSE /\ killSignalled = FALSE
    /\ kill = [v \in Vcpus |-> FALSE]
    /\ interrupted = [v \in Vcpus |-> FALSE]
    /\ handle = [v \in Vcpus |-> FALSE]
    /\ token = [v \in Vcpus |-> FALSE]
    /\ vpc = [v \in Vcpus |-> "none"]
    /\ target = [v \in Vcpus |-> v]
    /\ cmLock = NoOne
    /\ op = "idle" /\ cur = 0
    /\ vmPaused = FALSE /\ clean = TRUE

flags == <<pauseSignalled, killSignalled, kill>>

-----------------------------------------------------------------------------
(* The VMM thread.                                                         *)

\* activate_vcpus: spawn a thread for every inactive vCPU.  The flags of a
\* vCPU that was ejected earlier are reused as they were left.
StartVcpus ==
    /\ op = "idle" /\ cmLock = NoOne /\ ~vmPaused
    /\ \E v \in Vcpus : ~handle[v]
    /\ cmLock' = Vmm
    /\ handle' = [v \in Vcpus |-> TRUE]
    /\ vpc' = [v \in Vcpus |-> IF handle[v] THEN vpc[v] ELSE "init"]
    /\ token' = [v \in Vcpus |-> handle[v] /\ token[v]]
    /\ op' = "start_wait"
    /\ UNCHANGED <<flags, interrupted, target, cur, vmPaused, clean>>

\* vcpu_thread_barrier.wait(): opens once every new thread has reached it.
StartDone ==
    /\ op = "start_wait"
    /\ \A v \in Vcpus : vpc[v] \notin {"init", "failed"}
    /\ vpc' = [v \in Vcpus |-> IF vpc[v] = "ready" THEN "top" ELSE vpc[v]]
    /\ cmLock' = NoOne
    /\ op' = "idle"
    /\ UNCHANGED <<flags, interrupted, handle, token, target, cur, vmPaused, clean>>

PauseStore ==
    /\ op = "idle" /\ cmLock = NoOne /\ ~vmPaused
    /\ \E v \in Vcpus : handle[v]
    /\ cmLock' = Vmm
    /\ pauseSignalled' = TRUE
    /\ op' = "pause_kill" /\ cur' = 0
    /\ clean' = \A v \in Vcpus : handle[v] => ~interrupted[v]
    /\ UNCHANGED <<killSignalled, kill, interrupted, handle, token, vpc, target,
                   vmPaused>>

\* pthread_kill(v): KVM_RUN returns EINTR; anywhere else the signal is lost.
AfterSignal(v) == IF vpc[v] = "run" THEN [vpc EXCEPT ![v] = "post_run"] ELSE vpc

\* The operation goes on with the next vCPU, or leaves the loop over them.
Advance(after) ==
    IF cur + 1 < NVcpus
    THEN cur' = cur + 1 /\ UNCHANGED op
    ELSE cur' = 0 /\ op' = after

\* signal_thread: send the signal ...
SignalSend ==
    /\ op \in {"pause_kill", "down_kill"}
    /\ IF handle[cur]
       THEN /\ vpc' = AfterSignal(cur)
            /\ op' = IF op = "pause_kill" THEN "pause_load" ELSE "down_load"
            /\ UNCHANGED cur
       ELSE /\ Advance(IF op = "pause_kill" THEN "pause_lock" ELSE "down_join")
            /\ UNCHANGED vpc
    /\ UNCHANGED <<flags, interrupted, handle, token, target, cmLock, vmPaused, clean>>

\* Mutant of SignalLoad: one signal per thread, without waiting for it.
SignalOnce ==
    /\ op \in {"pause_load", "down_load"}
    /\ LET again == IF op = "pause_load" THEN "pause_kill" ELSE "down_kill"
           after == IF op = "pause_load" THEN "pause_lock" ELSE "down_join"
       IN  IF cur + 1 < NVcpus
           THEN cur' = cur + 1 /\ op' = again
           ELSE cur' = 0 /\ op' = after
    /\ UNCHANGED <<flags, interrupted, handle, token, vpc, target, cmLock,
                   vmPaused, clean>>

\* ... and send it again, after a sleep, until the thread reports back.
SignalLoad ==
    /\ op \in {"pause_load", "down_load"}
    /\ LET again == IF op = "pause_load" THEN "pause_kill" ELSE "down_kill"
           after == IF op = "pause_load" THEN "pause_lock" ELSE "down_join"
       IN  IF interrupted[cur]
           THEN IF cur + 1 < NVcpus
                THEN cur' = cur + 1 /\ op' = again
                ELSE cur' = 0 /\ op' = after
           ELSE op' = again /\ UNCHANGED cur
    /\ UNCHANGED <<flags, interrupted, handle, token, vpc, target, cmLock,
                   vmPaused, clean>>

\* vcpu.lock().pause() for every vCPU, then pause() returns.
PauseLock ==
    /\ op = "pause_lock" /\ ~HoldsVcpu(cur)
    /\ Advance("idle")
    /\ vmPaused' = (cur + 1 = NVcpus)
    /\ cmLock' = IF cur + 1 = NVcpus THEN NoOne ELSE cmLock
    /\ UNCHANGED <<flags, interrupted, handle, token, vpc, target, clean>>

ResumeBegin ==
    /\ op = "idle" /\ cmLock = NoOne /\ vmPaused
    /\ cmLock' = Vmm
    /\ op' = "resume_lock" /\ cur' = 0
    /\ UNCHANGED <<flags, interrupted, handle, token, vpc, target, vmPaused, clean>>

ResumeLock ==
    /\ op = "resume_lock" /\ ~HoldsVcpu(cur)
    /\ Advance("resume_store")
    /\ UNCHANGED <<flags, interrupted, handle, token, vpc, target, cmLock,
                   vmPaused, clean>>

ResumeStore ==
    /\ op = "resume_store"
    /\ pauseSignalled' = FALSE
    /\ vmPaused' = FALSE
    /\ op' = "resume_unpark"
    /\ UNCHANGED <<killSignalled, kill, interrupted, handle, token, vpc, target,
                   cmLock, cur, clean>>

\* Mutant of UnparkThread: the flag is cleared but the threads stay parked.
UnparkNobody ==
    /\ op \in {"resume_unpark", "down_unpark"}
    /\ Advance(IF op = "resume_unpark" THEN "idle" ELSE "down_kill")
    /\ cmLock' = IF op = "resume_unpark" /\ cur + 1 = NVcpus THEN NoOne ELSE cmLock
    /\ UNCHANGED <<flags, interrupted, handle, token, vpc, target, vmPaused, clean>>

\* unpark_thread for every vCPU, on resume and on shutdown.
UnparkThread ==
    /\ op \in {"resume_unpark", "down_unpark"}
    /\ token' = IF handle[cur] THEN [token EXCEPT ![cur] = TRUE] ELSE token
    /\ Advance(IF op = "resume_unpark" THEN "idle" ELSE "down_kill")
    /\ cmLock' = IF op = "resume_unpark" /\ cur + 1 = NVcpus THEN NoOne ELSE cmLock
    /\ UNCHANGED <<flags, interrupted, handle, vpc, target, vmPaused, clean>>

\* shutdown: kill flag, then pause flag, then unpark, signal and join.
ShutdownKill ==
    /\ op = "idle" /\ cmLock = NoOne
    /\ \E v \in Vcpus : handle[v]
    /\ cmLock' = Vmm
    /\ killSignalled' = TRUE
    /\ vmPaused' = FALSE
    /\ op' = "down_store" /\ cur' = 0
    /\ UNCHANGED <<pauseSignalled, kill, interrupted, handle, token, vpc, target,
                   clean>>

ShutdownStore ==
    /\ op = "down_store"
    /\ pauseSignalled' = FALSE
    /\ op' = "down_unpark"
    /\ UNCHANGED <<killSignalled, kill, interrupted, handle, token, vpc, target,
                   cmLock, cur, vmPaused, clean>>

ShutdownJoin ==
    /\ op = "down_join"
    /\ handle[cur] => vpc[cur] = "exited"
    /\ handle' = [handle EXCEPT ![cur] = FALSE]
    /\ Advance("down")
    /\ cmLock' = IF cur + 1 = NVcpus THEN NoOne ELSE cmLock
    /\ UNCHANGED <<flags, interrupted, token, vpc, target, vmPaused, clean>>

VmmStarts == StartVcpus \/ PauseStore \/ ResumeBegin \/ ShutdownKill

VmmSteps ==
    \/ StartDone \/ SignalSend \/ SignalLoad \/ PauseLock
    \/ ResumeLock \/ ResumeStore \/ UnparkThread
    \/ ShutdownStore \/ ShutdownJoin

-----------------------------------------------------------------------------
(* One turn of the loop of a vCPU thread.                                  *)

vmmVars == <<pauseSignalled, killSignalled, handle, op, cur, vmPaused, clean>>

Goto(v, pc) == vpc' = [vpc EXCEPT ![v] = pc]

\* CPU affinity and the seccomp filter; on a failure the closure returns
\* before the barrier.
ThreadReady(v) ==
    /\ vpc[v] = "init"
    /\ \E fails \in {FALSE, RunMayFail} : Goto(v, IF fails THEN "failed" ELSE "ready")
    /\ UNCHANGED <<vmmVars, kill, interrupted, token, target, cmLock>>

TopOfLoop(v) ==
    /\ vpc[v] = "top"
    /\ Goto(v, IF pauseSignalled THEN "immediate" ELSE "kill_check")
    /\ UNCHANGED <<vmmVars, kill, interrupted, token, target, cmLock>>

\* KVM_RUN with immediate_exit completes a pending I/O exit; an unexpected
\* result ends the thread.
ImmediateExit(v) ==
    /\ vpc[v] = "immediate"
    /\ \E fails \in {FALSE, RunMayFail} : Goto(v, IF fails THEN "exited" ELSE "interrupt")
    /\ UNCHANGED <<vmmVars, kill, interrupted, token, target, cmLock>>

\* Mutant of SetInterrupted: the thread parks without reporting back.
ParkSilently(v) ==
    /\ vpc[v] = "interrupt"
    /\ Goto(v, "park_check")
    /\ UNCHANGED <<vmmVars, kill, interrupted, token, target, cmLock>>

SetInterrupted(v) ==
    /\ vpc[v] = "interrupt"
    /\ interrupted' = [interrupted EXCEPT ![v] = TRUE]
    /\ Goto(v, "park_check")
    /\ UNCHANGED <<vmmVars, kill, token, target, cmLock>>

ParkCheck(v) ==
    /\ vpc[v] = "park_check"
    /\ Goto(v, IF pauseSignalled THEN "parked" ELSE "clear")
    /\ UNCHANGED <<vmmVars, kill, interrupted, token, target, cmLock>>

\* park() returns with the token, or spuriously.
ParkReturn(v) ==
    /\ vpc[v] = "parked"
    /\ token' = [token EXCEPT ![v] = FALSE]
    /\ Goto(v, "park_check")
    /\ UNCHANGED <<vmmVars, kill, interrupted, target, cmLock>>

ClearInterrupted(v) ==
    /\ vpc[v] = "clear"
    /\ interrupted' = [interrupted EXCEPT ![v] = FALSE]
    /\ Goto(v, "kill_check")
    /\ UNCHANGED <<vmmVars, kill, token, target, cmLock>>

\* The two places where the thread is told to terminate.
KillCheck(v) ==
    /\ vpc[v] \in {"kill_check", "post_run"}
    /\ IF killSignalled \/ kill[v]
       THEN /\ interrupted' = [interrupted EXCEPT ![v] = TRUE]
            /\ Goto(v, "exited")
       ELSE /\ Goto(v, IF vpc[v] = "post_run" THEN "top" ELSE "lock")
            /\ UNCHANGED interrupted
    /\ UNCHANGED <<vmmVars, kill, token, target, cmLock>>

EnterGuest(v) ==
    /\ vpc[v] = "lock"
    /\ Goto(v, "run")
    /\ UNCHANGED <<vmmVars, kill, interrupted, token, target, cmLock>>

\* KVM_RUN returns by itself: an exit the loop ignores or handles in place ...
ExitIgnored(v) ==
    /\ vpc[v] = "run"
    /\ Goto(v, "post_run")
    /\ UNCHANGED <<vmmVars, kill, interrupted, token, target, cmLock>>

\* ... or the guest resets or shuts down ...
ExitStop(v) ==
    /\ vpc[v] = "run"
    /\ interrupted' = [interrupted EXCEPT ![v] = TRUE]
    /\ Goto(v, "exited")
    /\ UNCHANGED <<vmmVars, kill, token, target, cmLock>>

\* ... or KVM_RUN fails, or its exit is not known: the thread just ends ...
ExitError(v) ==
    /\ RunMayFail /\ vpc[v] = "run"
    /\ Goto(v, "exited")
    /\ UNCHANGED <<vmmVars, kill, interrupted, token, target, cmLock>>

\* ... or the guest accesses the hotplug registers: the bus locks CpuManager.
ExitRegs(v) ==
    /\ GuestUsesRegs /\ vpc[v] = "run"
    /\ Goto(v, "regs")
    /\ UNCHANGED <<vmmVars, kill, interrupted, token, target, cmLock>>

\* Any register access but an eject: nothing that matters to the threads.
RegsAccess(v) ==
    /\ vpc[v] = "regs" /\ cmLock = NoOne
    /\ Goto(v, "post_run")
    /\ UNCHANGED <<vmmVars, kill, interrupted, token, target, cmLock>>

\* remove_vcpu: set kill, signal until the thread reports back, join it.
EjectKill(v, t) ==
    /\ vpc[v] = "regs" /\ cmLock = NoOne
    /\ handle[t]
    /\ cmLock' = v
    /\ kill' = [kill EXCEPT ![t] = TRUE]
    /\ target' = [target EXCEPT ![v] = t]
    /\ Goto(v, "eject_kill")
    /\ UNCHANGED <<vmmVars, interrupted, token>>

EjectSignal(v) ==
    /\ vpc[v] = "eject_kill"
    /\ vpc' = [AfterSignal(target[v]) EXCEPT ![v] = "eject_load"]
    /\ UNCHANGED <<vmmVars, kill, interrupted, token, target, cmLock>>

EjectLoad(v) ==
    /\ vpc[v] = "eject_load"
    /\ Goto(v, IF interrupted[target[v]] THEN "eject_join" ELSE "eject_kill")
    /\ UNCHANGED <<vmmVars, kill, interrupted, token, target, cmLock>>

EjectJoin(v) ==
    /\ vpc[v] = "eject_join" /\ vpc[target[v]] = "exited"
    /\ handle' = [handle EXCEPT ![target[v]] = FALSE]
    /\ kill' = [kill EXCEPT ![target[v]] = FALSE]
    /\ vpc' = [vpc EXCEPT ![v] = "post_run", ![target[v]] = "none"]
    /\ cmLock' = NoOne
    /\ UNCHANGED <<pauseSignalled, killSignalled, op, cur, vmPaused, clean,
                   interrupted, token, target>>

\* The steps a vCPU thread takes once it is scheduled ...
VcpuProgress(v) ==
    \/ ThreadReady(v) \/ TopOfLoop(v) \/ ImmediateExit(v)
    \/ SetInterrupted(v) \/ ParkCheck(v) \/ (token[v] /\ ParkReturn(v))
    \/ ClearInterrupted(v) \/ KillCheck(v) \/ EnterGuest(v)
    \/ RegsAccess(v) \/ EjectSignal(v) \/ EjectLoad(v) \/ EjectJoin(v)

\* ... and those that only the guest, or nobody, decides on.
GuestChoice(v) ==
    \/ ExitIgnored(v) \/ ExitStop(v) \/ ExitError(v) \/ ExitRegs(v)
    \/ ParkReturn(v)
    \/ \E t \in Vcpus : EjectKill(v, t)

Next == \/ VmmStarts \/ VmmSteps
        \/ \E v \in Vcpus : VcpuProgress(v) \/ GuestChoice(v)

Spec == Init /\ [][Next]_vars

\* The scheduler runs every thread; an operation that has begun goes on.  No
\* fairness is assumed of the guest: a vCPU may stay in KVM_RUN for ever.
FairSpec == /\ Spec
            /\ WF_vars(VmmSteps)
            /\ \A v \in Vcpus : WF_vars(VcpuProgress(v))

-----------------------------------------------------------------------------
TypeOK ==
    /\ pauseSignalled \in BOOLEAN /\ killSignalled \in BOOLEAN
    /\ kill \in [Vcpus -> BOOLEAN] /\ interrupted \in [Vcpus -> BOOLEAN]
    /\ handle \in [Vcpus -> BOOLEAN] /\ token \in [Vcpus -> BOOLEAN]
    /\ vpc \in [Vcpus -> VcpuPcs]
    /\ target \in [Vcpus -> Vcpus]
    /\ cmLock \in Vcpus \cup {Vmm, NoOne}
    /\ op \in Ops /\ cur \in Vcpus
    /\ vmPaused \in BOOLEAN /\ clean \in BOOLEAN

Stopped(v) == vpc[v] \in {"none", "park_check", "parked", "exited"}

\* If no thread was still on its way out of an earlier pause when pause()
\* began, then no vCPU executes guest code from its return until resume().
CleanPauseStops == vmPaused /\ clean => \A v \in Vcpus : Stopped(v)

\* Once CpuManager::pause has returned no vCPU executes guest code until
\* resume(), so that "once paused, the VM can be safely snapshot".
PauseStops == vmPaused => \A v \in Vcpus : vpc[v] # "run"

\* No vCPU thread sleeps through a resume or a shutdown: a parked thread finds
\* the pause flag up, or has its token, or is about to be unparked.
NoLostUnpark ==
    \A v \in Vcpus :
       vpc[v] = "parked" /\ ~pauseSignalled =>
          token[v] \/ (op \in {"resume_unpark", "down_unpark"} /\ cur <= v)

\* No vCPU is at the hotplug registers, and none has ended on an error.
Undisturbed ==
    \A v \in Vcpus : /\ vpc[v] \notin {"regs", "eject_kill", "eject_load", "eject_join"}
                     /\ vpc[v] = "exited" => interrupted[v]

\* A pause that begins clean comes back: every thread is driven out of
\* KVM_RUN by the repeated signal and acknowledges.
CleanPauseReturns == (op = "pause_kill" /\ clean /\ []Undisturbed) ~> vmPaused

\* Undisturbed, CpuManager::shutdown comes back with every vCPU thread joined,
\* provided no thread that goes on has the flag of an earlier thread.
QuietShutdownReturns ==
    (/\ op = "down_store"
     /\ \A v \in Vcpus : interrupted[v] => vpc[v] \in {"none", "park_check", "parked", "clear", "exited"}
     /\ []Undisturbed) ~> (op = "down")

\* The operations of the CpuManager that wait for vCPU threads come back.
PauseAndShutdownReturn == CleanPauseReturns /\ QuietShutdownReturns
=============================================================================
