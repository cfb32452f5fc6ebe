---------------------------- MODULE VirtioThreads ----------------------------
(***************************************************************************)
(* The worker threads of one virtio device and the operations that start,  *)
(* pause, resume and stop them: VirtioCommon (virtio-devices/src/device.rs) *)
(* and the loop every worker runs, EpollHelper::run                        *)
(* (virtio-devices/src/epoll_helper.rs).                                   *)
(*                                                                         *)
(* The device sits behind a mutex, so at most one of activate, pause,      *)
(* resume and reset is in progress: ctl is the program counter of that     *)
(* operation.  Each worker w has its own program counter wpc[w].  The      *)
(* eventfds are level triggered: a worker sees an event as long as its     *)
(* counter is not zero.                                                    *)
(***************************************************************************)
EXTENDS Naturals, FiniteSets, Sequences

CONSTANTS
    Workers,          \* the threads in VirtioCommon.epoll_threads
    HandlersMayFail   \* may handle_event return true (stop the loop)?

ASSUME WorkersFinite == IsFiniteSet(Workers) /\ Workers # {}
ASSUME FailBoolean == HandlersMayFail \in BOOLEAN

CtlId == "ctl"                      \* the thread that calls pause()
ASSUME CtlNotWorker == CtlId \notin Workers

VARIABLES
    paused,     \* AtomicBool VirtioCommon.paused
    armed,      \* pause_evt and kill_evt are Some: the device is activated
    pauseEvt,   \* counter of the pause eventfd
    killEvt,    \* counter of the kill eventfd
    queueEvt,   \* queueEvt[w]: w's queue eventfd is readable
    wpc,        \* program counter of each worker
    events,     \* events[w]: what epoll_wait returned to w, not yet handled
    token,      \* token[w]: the park/unpark token of w
    arrived,    \* who is waiting in the paused_sync barrier
    ctl,        \* program counter of the operation on VirtioCommon
    todo,       \* workers that resume() has still to unpark
    acked       \* pause() has returned and resume() was not called since

vars == <<paused, armed, pauseEvt, killEvt, queueEvt, wpc, events, token,
          arrived, ctl, todo, acked>>

EventIds == {"PAUSE", "KILL", "QUEUE"}

WorkerPcs == {"none",        \* not spawned, or joined
              "start",       \* about to test paused before the loop
              "start_park",  \* parked before the loop
              "wait",        \* in epoll_wait
              "dispatch",    \* going through the returned events
              "handle",      \* inside handler.handle_event
              "barrier",     \* in paused_sync.wait()
              "check",       \* about to test paused inside the loop
              "park",        \* parked inside the loop
              "drain",       \* about to read pause_evt
              "exited"}      \* run() has returned

CtlPcs == {"idle", "pause_write", "pause_arrive", "pause_wait", "unpark",
           "reset_unpark", "reset_kill", "reset_join"}

Init ==
    /\ paused = FALSE
    /\ armed = FALSE
    /\ pauseEvt = 0
    /\ killEvt = 0
    /\ queueEvt = [w \in Workers |-> FALSE]
    /\ wpc = [w \in Workers |-> "none"]
    /\ events = [w \in Workers |-> <<>>]
    /\ token = [w \in Workers |-> FALSE]
    /\ arrived = {}
    /\ ctl = "idle"
    /\ todo = {}
    /\ acked = FALSE

-----------------------------------------------------------------------------
(* Operations on VirtioCommon.                                             *)

\* activate() creates fresh eventfds, then the device spawns its workers.
Activate ==
    /\ ctl = "idle" /\ ~armed
    /\ armed' = TRUE
    /\ pauseEvt' = 0 /\ killEvt' = 0
    /\ wpc' = [w \in Workers |-> "start"]
    /\ events' = [w \in Workers |-> <<>>]
    /\ token' = [w \in Workers |-> FALSE]
    /\ UNCHANGED <<paused, queueEvt, arrived, ctl, todo, acked>>

\* pause() stores the flag; without a pause_evt there is nobody to wait for.
PauseStore ==
    /\ ctl = "idle" /\ ~acked
    /\ paused' = TRUE
    /\ ctl' = IF armed THEN "pause_write" ELSE "idle"
    /\ acked' = ~armed
    /\ UNCHANGED <<armed, pauseEvt, killEvt, queueEvt, wpc, events, token,
                   arrived, todo>>

PauseWrite ==
    /\ ctl = "pause_write"
    /\ pauseEvt' = pauseEvt + 1
    /\ ctl' = "pause_arrive"
    /\ UNCHANGED <<paused, armed, killEvt, queueEvt, wpc, events, token,
                   arrived, todo, acked>>

\* Mutants of BarrierSize: the pausing thread, or nobody, counted wrongly.
BarrierSizeTooSmall == Cardinality(Workers)
\* Barrier::new(n + 1): one participant per worker and the pausing thread.
BarrierSize == Cardinality(Workers) + 1

\* Participant p calls wait().  The last one releases everybody.
BarrierWait(p) ==
    LET here == arrived \cup {p} IN
    IF Cardinality(here) = BarrierSize
    THEN /\ arrived' = {}
         /\ wpc' = [w \in Workers |-> IF w \in here THEN "check" ELSE wpc[w]]
         /\ ctl' = IF CtlId \in here THEN "idle" ELSE ctl
         /\ acked' = (acked \/ CtlId \in here)
    ELSE /\ arrived' = here
         /\ wpc' = IF p = CtlId THEN wpc ELSE [wpc EXCEPT ![p] = "barrier"]
         /\ ctl' = IF p = CtlId THEN "pause_wait" ELSE ctl
         /\ UNCHANGED acked

PauseArrive ==
    /\ ctl = "pause_arrive"
    /\ BarrierWait(CtlId)
    /\ UNCHANGED <<paused, armed, pauseEvt, killEvt, queueEvt, events, token,
                   todo>>

\* Mutant of ResumeStore: the flag is cleared but nobody is unparked.
ResumeWithoutUnpark ==
    /\ ctl = "idle" /\ acked
    /\ paused' = FALSE
    /\ acked' = FALSE
    /\ todo' = {}
    /\ ctl' = "unpark"
    /\ UNCHANGED <<armed, pauseEvt, killEvt, queueEvt, wpc, events, token,
                   arrived>>

\* resume() clears the flag and then unparks the workers one by one.
ResumeStore ==
    /\ ctl = "idle" /\ acked
    /\ paused' = FALSE
    /\ acked' = FALSE
    /\ todo' = IF armed THEN Workers ELSE {}
    /\ ctl' = "unpark"
    /\ UNCHANGED <<armed, pauseEvt, killEvt, queueEvt, wpc, events, token,
                   arrived>>

Unpark(w) ==
    /\ ctl \in {"unpark", "reset_unpark"} /\ w \in todo
    /\ token' = [token EXCEPT ![w] = TRUE]
    /\ todo' = todo \ {w}
    /\ UNCHANGED <<paused, armed, pauseEvt, killEvt, queueEvt, wpc, events,
                   arrived, ctl, acked>>

ResumeDone ==
    /\ ctl = "unpark" /\ todo = {}
    /\ ctl' = "idle"
    /\ UNCHANGED <<paused, armed, pauseEvt, killEvt, queueEvt, wpc, events,
                   token, arrived, todo, acked>>

\* reset(), called by a running vCPU, so never while the VM is paused: takes
\* pause_evt, resumes the workers, writes kill_evt and joins them.
ResetStore ==
    /\ ctl = "idle" /\ armed /\ ~acked
    /\ armed' = FALSE
    /\ paused' = FALSE
    /\ todo' = Workers
    /\ ctl' = "reset_unpark"
    /\ UNCHANGED <<pauseEvt, killEvt, queueEvt, wpc, events, token, arrived,
                   acked>>

ResetUnparked ==
    /\ ctl = "reset_unpark" /\ todo = {}
    /\ ctl' = "reset_kill"
    /\ UNCHANGED <<paused, armed, pauseEvt, killEvt, queueEvt, wpc, events,
                   token, arrived, todo, acked>>

\* Mutant of ResetKill: kill_evt is dropped without being written.
ResetWithoutKill ==
    /\ ctl = "reset_kill"
    /\ ctl' = "reset_join"
    /\ UNCHANGED <<paused, armed, pauseEvt, killEvt, queueEvt, wpc, events,
                   token, arrived, todo, acked>>

ResetKill ==
    /\ ctl = "reset_kill"
    /\ killEvt' = killEvt + 1
    /\ ctl' = "reset_join"
    /\ UNCHANGED <<paused, armed, pauseEvt, queueEvt, wpc, events, token,
                   arrived, todo, acked>>

ResetJoin ==
    /\ ctl = "reset_join"
    /\ \A w \in Workers : wpc[w] = "exited"
    /\ wpc' = [w \in Workers |-> "none"]
    /\ ctl' = "idle"
    /\ UNCHANGED <<paused, armed, pauseEvt, killEvt, queueEvt, events, token,
                   arrived, todo, acked>>

Control ==
    \/ Activate \/ PauseStore \/ PauseWrite \/ PauseArrive
    \/ ResumeStore \/ ResumeDone
    \/ ResetStore \/ ResetUnparked \/ ResetKill \/ ResetJoin
    \/ \E w \in Workers : Unpark(w)

-----------------------------------------------------------------------------
(* EpollHelper::run, one step of worker w each.                            *)

ctlVars == <<paused, armed, killEvt, todo>>

\* while paused.load() { park() } before the loop.
StartCheck(w) ==
    /\ wpc[w] = "start"
    /\ wpc' = [wpc EXCEPT ![w] = IF paused THEN "start_park" ELSE "wait"]
    /\ UNCHANGED <<ctlVars, pauseEvt, queueEvt, events, token, arrived, ctl,
                   acked>>

\* park() consumes the token; it may also return for no reason.
ParkReturn(w) ==
    /\ wpc[w] \in {"start_park", "park"}
    /\ token' = [token EXCEPT ![w] = FALSE]
    /\ wpc' = [wpc EXCEPT ![w] = IF wpc[w] = "park" THEN "check" ELSE "start"]
    /\ UNCHANGED <<ctlVars, pauseEvt, queueEvt, events, arrived, ctl, acked>>

Readable(w) ==
    {e \in EventIds : \/ e = "PAUSE" /\ pauseEvt > 0
                      \/ e = "KILL" /\ killEvt > 0
                      \/ e = "QUEUE" /\ queueEvt[w]}

\* The orders in which epoll_wait may return the events in S.
Orders(S) == {s \in [1 .. Cardinality(S) -> S] : \A e \in S : \E i \in DOMAIN s : s[i] = e}

EpollWait(w) ==
    /\ wpc[w] = "wait"
    /\ Readable(w) # {}
    /\ \E s \in Orders(Readable(w)) : events' = [events EXCEPT ![w] = s]
    /\ wpc' = [wpc EXCEPT ![w] = "dispatch"]
    /\ UNCHANGED <<ctlVars, pauseEvt, queueEvt, token, arrived, ctl, acked>>

EndOfEvents(w) ==
    /\ wpc[w] = "dispatch" /\ events[w] = <<>>
    /\ wpc' = [wpc EXCEPT ![w] = "wait"]
    /\ UNCHANGED <<ctlVars, pauseEvt, queueEvt, events, token, arrived, ctl,
                   acked>>

DispatchKill(w) ==
    /\ wpc[w] = "dispatch" /\ events[w] # <<>> /\ Head(events[w]) = "KILL"
    /\ wpc' = [wpc EXCEPT ![w] = "exited"]
    /\ UNCHANGED <<ctlVars, pauseEvt, queueEvt, events, token, arrived, ctl,
                   acked>>

DispatchPause(w) ==
    /\ wpc[w] = "dispatch" /\ events[w] # <<>> /\ Head(events[w]) = "PAUSE"
    /\ events' = [events EXCEPT ![w] = Tail(events[w])]
    /\ BarrierWait(w)
    /\ UNCHANGED <<ctlVars, pauseEvt, queueEvt, token>>

\* handle_event reads the queue eventfd and then works on the queue.
DispatchQueue(w) ==
    /\ wpc[w] = "dispatch" /\ events[w] # <<>> /\ Head(events[w]) = "QUEUE"
    /\ events' = [events EXCEPT ![w] = Tail(events[w])]
    /\ queueEvt' = [queueEvt EXCEPT ![w] = FALSE]
    /\ wpc' = [wpc EXCEPT ![w] = "handle"]
    /\ UNCHANGED <<ctlVars, pauseEvt, token, arrived, ctl, acked>>

HandleReturn(w) ==
    /\ wpc[w] = "handle"
    /\ \E stop \in {FALSE, HandlersMayFail} :
          wpc' = [wpc EXCEPT ![w] = IF stop THEN "exited" ELSE "dispatch"]
    /\ UNCHANGED <<ctlVars, pauseEvt, queueEvt, events, token, arrived, ctl,
                   acked>>

\* while paused.load() { park() } after the barrier.
PauseCheck(w) ==
    /\ wpc[w] = "check"
    /\ wpc' = [wpc EXCEPT ![w] = IF paused THEN "park" ELSE "drain"]
    /\ UNCHANGED <<ctlVars, pauseEvt, queueEvt, events, token, arrived, ctl,
                   acked>>

\* Reading an eventfd zeroes its counter; on zero the read fails, unnoticed.
Drain(w) ==
    /\ wpc[w] = "drain"
    /\ pauseEvt' = 0
    /\ wpc' = [wpc EXCEPT ![w] = "dispatch"]
    /\ UNCHANGED <<ctlVars, queueEvt, events, token, arrived, ctl, acked>>

Worker(w) ==
    \/ StartCheck(w) \/ EpollWait(w) \/ EndOfEvents(w)
    \/ DispatchKill(w) \/ DispatchPause(w) \/ DispatchQueue(w)
    \/ HandleReturn(w) \/ PauseCheck(w) \/ Drain(w)
    \/ ParkReturn(w)

\* The guest makes buffers available and notifies the queue.
Kick(w) ==
    /\ ~queueEvt[w] /\ armed /\ ~acked
    /\ queueEvt' = [queueEvt EXCEPT ![w] = TRUE]
    /\ UNCHANGED <<ctlVars, pauseEvt, wpc, events, token, arrived, ctl, acked>>

Next == Control \/ \E w \in Workers : Worker(w) \/ Kick(w)

Spec == Init /\ [][Next]_vars

(* An operation that has begun goes on, and a worker takes the steps that  *)
(* are open to it.  Nobody is obliged to begin an operation or to kick a   *)
(* queue, and park() need not return without a token.                      *)
Progress ==
    \/ PauseWrite \/ PauseArrive \/ ResumeDone
    \/ ResetUnparked \/ ResetKill \/ ResetJoin
    \/ \E w \in Workers : Unpark(w)

WorkerProgress(w) ==
    \/ StartCheck(w) \/ EpollWait(w) \/ EndOfEvents(w)
    \/ DispatchKill(w) \/ DispatchPause(w) \/ DispatchQueue(w)
    \/ HandleReturn(w) \/ PauseCheck(w) \/ Drain(w)
    \/ token[w] /\ ParkReturn(w)

FairSpec == /\ Spec
            /\ WF_vars(Progress)
            /\ \A w \in Workers : WF_vars(WorkerProgress(w))

-----------------------------------------------------------------------------
TypeOK ==
    /\ paused \in BOOLEAN /\ armed \in BOOLEAN /\ acked \in BOOLEAN
    /\ pauseEvt \in Nat /\ killEvt \in Nat
    /\ queueEvt \in [Workers -> BOOLEAN]
    /\ token \in [Workers -> BOOLEAN]
    /\ wpc \in [Workers -> WorkerPcs]
    /\ events \in [Workers -> Seq(EventIds)]
    /\ arrived \subseteq Workers \cup {CtlId}
    /\ ctl \in CtlPcs
    /\ todo \subseteq Workers

\* Between the return of pause() and the next resume() no worker is inside
\* its event loop: nothing touches a queue, so device state and guest memory
\* can be saved (VirtioCommon::pause "Wait for all threads to acknowledge the
\* pause before going any further").
PausedIsQuiet ==
    acked => \A w \in Workers :
                wpc[w] \in {"none", "start", "start_park", "check", "park", "exited"}

\* A worker never sleeps through a resume: whenever the flag is down, a
\* parked worker holds a token or is about to be handed one.
NoLostWakeup ==
    \A w \in Workers :
       wpc[w] \in {"start_park", "park"} /\ ~paused => token[w] \/ w \in todo

\* reset() joins its workers: it comes back to its caller, whatever the
\* workers were doing when it began.
ResetReturns == (ctl = "reset_unpark") ~> (ctl = "idle")

\* The workers have all settled: each waits for events, or is handling some,
\* and the previous pause has been drained by all of them.
Settled == /\ pauseEvt = 0
           /\ \A w \in Workers : wpc[w] \in {"wait", "dispatch", "handle"}

\* A pause that begins when every worker has settled is acknowledged by all
\* of them, so pause() returns, unless a handler fails and ends its worker.
SettledPauseReturns ==
    (ctl = "pause_write" /\ Settled /\ [](\A w \in Workers : wpc[w] # "exited")) ~> acked

\* pause() and reset() come back from a device whose workers are in any state
\* that Settled and the barriers allow.
PauseAndResetReturn == ResetReturns /\ SettledPauseReturns
=============================================================================
