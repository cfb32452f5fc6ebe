-------------------------------- MODULE Vmm --------------------------------
(***************************************************************************)
(* The VMM thread: its event loop (Vmm::control_loop, vmm/src/lib.rs), the   *)
(* API requests it serves and the life of the VM they act on (vmm/src/vm.rs) *)
(*                                                                         *)
(* API clients put a request in an mpsc channel and then write to api_evt.  *)
(* The loop waits for readable event descriptors and serves the batch that   *)
(* epoll returned, one event after the other.  An operation that stops the   *)
(* vCPUs waits for them, and a vCPU may itself be waiting for the VMM thread *)
(* to activate a virtio device.  The vCPUs are modelled by one of them; the  *)
(* protocol that stops it is the subject of VcpuThreads.                    *)
(***************************************************************************)
EXTENDS Naturals, Sequences

CONSTANTS
    Clients,         \* threads that send API requests: "main", "http"
    Requests,        \* the requests the HTTP server forwards
    GuestActivates,  \* may the guest start a virtio driver?
    Faults           \* may an operation fail half-way?

AllRequests == {"create", "boot", "pause", "resume", "snapshot", "restore",
                "shutdown", "reboot", "delete", "vmm_shutdown", "info"}

VARIABLES
    config,     \* vm_config is Some
    vm,         \* state of the Vm in self.vm, or "None"
    kernel,     \* load_kernel_handle and what boot() made of it
    signals,    \* signal_handler threads in self.threads of the Vm (cap: 2)
    vcpu,       \* the vCPU thread
    pending,    \* pending_activations is not empty
    evt,        \* evt[e]: the counter of event descriptor e is not zero
    batch,      \* events of the current epoll batch still to be served
    job,        \* the operation in progress that stops the vCPU
    stage,      \* how far it has come: "begin", "stopping"
    serving,    \* the client whose request is being served
    loop,       \* "wait", "busy", or how the loop ended
    channel,    \* requests in the mpsc channel: <<client, request>>
    client      \* progress of each client

machine == <<config, vm, kernel, signals, vcpu, pending>>
control == <<batch, job, stage, serving, loop>>
api == <<channel, client>>
vars == <<machine, evt, control, api>>

Events == {"exit", "reset", "activate", "api"}
NoClient == "nobody"
VmStates == {"Created", "Running", "Shutdown", "Paused", "BreakPoint"}
SignalCap == 2

Init ==
    /\ config = FALSE /\ vm = "None" /\ kernel = "none" /\ signals = 0
    /\ vcpu = "absent" /\ pending = FALSE
    /\ evt = [e \in Events |-> FALSE]
    /\ batch = {} /\ job = "none" /\ stage = "begin" /\ serving = NoClient /\ loop = "wait"
    /\ channel = <<>>
    /\ client = [c \in Clients |-> "idle"]

\* Mutant of ValidTransition: a paused VM cannot be shut down.
PausedCannotStop(from, to) ==
    CASE from = "Created"    -> to \in {"Running", "Paused", "BreakPoint"}
      [] from = "Running"    -> to \in {"Paused", "Shutdown", "BreakPoint"}
      [] OTHER               -> to = "Running"

\* VmState::valid_transition
ValidTransition(from, to) ==
    CASE from = "Created"    -> to \in {"Running", "Paused", "BreakPoint"}
      [] from = "Running"    -> to \in {"Paused", "Shutdown", "BreakPoint"}
      [] from = "Shutdown"   -> to = "Running"
      [] from = "Paused"     -> to \in {"Running", "Shutdown"}
      [] from = "BreakPoint" -> to \in {"Created", "Running"}
      [] OTHER               -> FALSE

Alive == loop \in {"wait", "busy"}

-----------------------------------------------------------------------------
(* API clients.                                                            *)

\* The main thread creates and boots the VM it was given on its command line;
\* the HTTP server sends one request at a time.  (Started with --restore, the
\* main thread sends a single restore request, as the server may do.)
NextRequests(c) ==
    IF c = "http" THEN Requests
    ELSE CASE client[c] = "idle" -> {"create"}
           [] client[c] = "created" -> {"boot"}
           [] OTHER -> {}

\* A client between the two statements: it has sent a request and not yet
\* written its event.
Unwritten == {"sent", "sent_boot", "answered", "answered_boot"}

\* api_sender.send()
SendRequest(c, r) ==
    /\ Alive
    /\ client[c] \in {"idle", "created"} /\ r \in NextRequests(c)
    /\ channel' = Append(channel, <<c, r>>)
    /\ client' = [client EXCEPT ![c] = IF r = "boot" /\ c = "main" THEN "sent_boot" ELSE "sent"]
    /\ UNCHANGED <<machine, evt, control>>

\* What a client does once it has its response.
Answer(c, s) ==
    IF c = "http" THEN "idle" ELSE IF s \in {"waiting", "answered"} THEN "created" ELSE "done"

\* api_evt.write(1), then wait on the response channel.  The request may have
\* been served meanwhile, on the event of another client.
WriteApiEvent(c) ==
    /\ client[c] \in Unwritten
    /\ evt' = [evt EXCEPT !["api"] = TRUE]
    /\ client' = [client EXCEPT ![c] = CASE @ = "sent" -> "waiting"
                                        [] @ = "sent_boot" -> "waiting_boot"
                                        [] OTHER -> Answer(c, @)]
    /\ UNCHANGED <<machine, control, channel>>

\* The client's response has arrived; it may still have to write its event.
Answered(c) ==
    client' = [client EXCEPT ![c] = CASE @ = "sent" -> "answered"
                                      [] @ = "sent_boot" -> "answered_boot"
                                      [] OTHER -> Answer(c, @)]

-----------------------------------------------------------------------------
(* What the operations do to the VM.  Each is a relation between machine and *)
(* machine'; the operations that have to stop the vCPU come further down.   *)

Keep == UNCHANGED machine

VmCreate == config' = TRUE /\ UNCHANGED <<vm, kernel, signals, vcpu, pending>>

\* Vm::resume: vCPUs first, then clock and devices; an error leaves the state.
VmResume ==
    /\ UNCHANGED <<config, kernel, signals, pending>>
    /\ IF ~ValidTransition(vm, "Running") THEN UNCHANGED <<vm, vcpu>>
       ELSE /\ vcpu' = IF vcpu = "parked" THEN "guest" ELSE vcpu
            /\ vm' = "Running" \/ (Faults /\ vm' = vm)

\* The part of Vm::boot behind the state check, on the Vm in state k: set up
\* the signal handler, take the entry point, create and start the vCPUs.
BootFrom(k, sigs) ==
    /\ signals' = IF sigs < SignalCap THEN sigs + 1 ELSE sigs
    /\ \/ /\ kernel' = IF k = "loading" THEN "loaded" ELSE k
          /\ vm' = "Running" /\ vcpu' = "guest"
       \/ /\ Faults
          /\ kernel' \in {k, "taken"} /\ vm' = "Created" /\ vcpu' = "absent"
    /\ pending' = FALSE

\* Vmm::vm_boot
VmBoot ==
    \/ ~config /\ Keep
    \/ /\ config /\ vm = "None"
       /\ \/ BootFrom("loading", 0) /\ UNCHANGED config
          \/ Faults /\ Keep
    \/ config /\ vm = "Paused" /\ VmResume
    \/ config /\ vm = "Created" /\ BootFrom(kernel, signals) /\ UNCHANGED config
    \/ config /\ vm \notin {"None", "Paused", "Created"} /\ Keep

\* Vmm::vm_restore; on success the vCPUs are started and park at once.  It
\* fails before or after it has stored the configuration, or in Vm::restore,
\* before or after the vCPUs are started.
VmRestore ==
    \/ (vm # "None" \/ config) /\ Keep
    \/ /\ vm = "None" /\ ~config
       /\ \/ /\ config' = TRUE /\ vm' = "Paused" /\ kernel' = "restored"
             /\ signals' = 1 /\ vcpu' = "parked" /\ pending' = FALSE
          \/ Faults /\ Keep
          \/ /\ Faults /\ config' = TRUE
             /\ UNCHANGED <<vm, kernel, signals, vcpu, pending>>
          \/ /\ Faults /\ config' = TRUE /\ vm' = "Created" /\ kernel' = "taken"
             /\ signals' = 0 /\ vcpu' \in {"absent", "parked"} /\ pending' = FALSE

\* DeviceManager::activate_virtio_devices; the barrier releases the vCPU.
ActivateDevices ==
    /\ pending' = FALSE
    /\ vcpu' = IF pending /\ vcpu = "barrier" THEN "guest" ELSE vcpu

-----------------------------------------------------------------------------
(* The event loop.                                                         *)

\* epoll::wait returns every readable descriptor.
EpollWait ==
    /\ loop = "wait"
    /\ \E e \in Events : evt[e]
    /\ batch' = {e \in Events : evt[e]}
    /\ loop' = "busy"
    /\ UNCHANGED <<machine, evt, job, stage, serving, api>>

Idle == loop = "busy" /\ job = "none"

EndOfBatch ==
    /\ Idle /\ batch = {}
    /\ loop' = "wait"
    /\ UNCHANGED <<machine, evt, batch, job, stage, serving, api>>

Consume(e) == batch' = batch \ {e} /\ evt' = [evt EXCEPT ![e] = FALSE]

StopOps == {"pause", "shutdown", "reboot", "delete", "vmm_shutdown"}

Start(op, c) == job' = op /\ stage' = "begin" /\ serving' = c /\ UNCHANGED loop

\* One request per api event, whatever the counter of the descriptor was.
ServeApi ==
    /\ Idle /\ "api" \in batch /\ channel # <<>>
    /\ Consume("api")
    /\ channel' = Tail(channel)
    /\ LET c == Head(channel)[1]
           r == Head(channel)[2]
       IN  IF r \in StopOps
           THEN Start(r, c) /\ UNCHANGED <<machine, client>>
           ELSE /\ CASE r = "create"  -> IF config THEN Keep ELSE VmCreate
                     [] r = "boot"    -> VmBoot
                     [] r = "resume"  -> IF vm = "None" THEN Keep ELSE VmResume
                     [] r = "restore" -> VmRestore
                     [] OTHER         -> Keep
                /\ Answered(c)
                /\ UNCHANGED <<job, stage, serving, loop>>

\* A descriptor that somebody else has read meanwhile ends the loop.
ReadFails(e) ==
    /\ batch' = batch \ {e} /\ loop' = "EventFdRead"
    /\ UNCHANGED <<machine, evt, job, stage, serving, api>>

ServeExit ==
    /\ Idle /\ "exit" \in batch
    /\ IF evt["exit"]
       THEN Consume("exit") /\ Start("exit", NoClient) /\ UNCHANGED <<machine, api>>
       ELSE ReadFails("exit")

ServeReset ==
    /\ Idle /\ "reset" \in batch
    /\ IF evt["reset"]
       THEN Consume("reset") /\ Start("reset", NoClient) /\ UNCHANGED <<machine, api>>
       ELSE ReadFails("reset")

\* The event is left alone, and stays readable, while there is no VM.
ServeActivate ==
    /\ Idle /\ "activate" \in batch
    /\ IF vm = "None"
       THEN batch' = batch \ {"activate"} /\ UNCHANGED <<machine, evt, job, stage, serving, loop, api>>
       ELSE IF ~evt["activate"] THEN ReadFails("activate")
       ELSE /\ Consume("activate")
            /\ \/ ActivateDevices /\ UNCHANGED loop
               \/ /\ Faults /\ pending /\ loop' = "ActivateVirtioDevices"
                  /\ pending' = FALSE /\ UNCHANGED vcpu
            /\ UNCHANGED <<config, vm, kernel, signals, job, stage, serving, api>>

-----------------------------------------------------------------------------
(* Operations that stop the vCPU.                                          *)

\* The loop ends after an exit event or a VmmShutdown request, and on an
\* error of an operation that no client asked for.
LoopAfter(op, ok) ==
    CASE op = "exit" -> IF ok THEN "done" ELSE "VmmShutdown"
      [] op = "vmm_shutdown" -> "done"
      [] op = "reset" -> IF ok THEN "busy" ELSE "VmReboot"
      [] OTHER -> "busy"

Finish(ok) ==
    /\ loop' = LoopAfter(job, ok)
    /\ IF serving = NoClient THEN UNCHANGED client ELSE Answered(serving)
    /\ job' = "none" /\ stage' = "begin" /\ serving' = NoClient

GoOn == stage' = "stopping" /\ UNCHANGED <<job, serving, loop, client>>

Deletes == job \in {"delete", "exit", "vmm_shutdown"}

\* Vm::pause up to the point where it signals the vCPUs: pending devices are
\* activated first.
PauseBegin ==
    /\ job = "pause" /\ stage = "begin"
    /\ IF ~ValidTransition(vm, "Paused")
       THEN Finish(FALSE) /\ Keep
       ELSE /\ ActivateDevices /\ UNCHANGED <<config, vm, kernel, signals>>
            /\ GoOn \/ (Faults /\ Finish(FALSE))
    /\ UNCHANGED <<evt, batch, channel>>

\* vm_shutdown, vm_reboot and vm_delete take the Vm out of self.vm; then
\* Vm::shutdown refuses a VM that was never booted, and fails before it has
\* stopped the vCPUs when a device cannot be resumed.
ShutdownBegin ==
    /\ job \notin {"none", "pause"} /\ stage = "begin"
    /\ vm' = "None"
    /\ IF vm = "None"
       THEN /\ config' = (config /\ ~Deletes)
            /\ Finish(Deletes)
       ELSE /\ UNCHANGED config
            /\ IF ValidTransition(vm, "Shutdown")
               THEN GoOn \/ (Faults /\ Finish(FALSE))
               ELSE Finish(FALSE)
    /\ UNCHANGED <<kernel, signals, vcpu, pending, evt, batch, channel>>

\* Mutant of VcpuStops: a parked vCPU is not woken up.
OnlyRunningStops ==
    /\ stage = "stopping" /\ vcpu = "guest"
    /\ vcpu' = IF job = "pause" THEN "parked" ELSE "gone"
    /\ UNCHANGED <<config, vm, kernel, signals, pending, evt, control, api>>

\* The vCPU thread honours the request to park or to terminate.
VcpuStops ==
    /\ stage = "stopping" /\ vcpu \in {"guest", "parked"}
    /\ vcpu' = IF job = "pause" THEN "parked" ELSE "gone"
    /\ UNCHANGED <<config, vm, kernel, signals, pending, evt, control, api>>

\* The devices are paused last; an error leaves the state as it was.
PauseDone ==
    /\ job = "pause" /\ stage = "stopping" /\ vcpu \in {"parked", "gone", "absent"}
    /\ \/ vm' = "Paused" /\ Finish(TRUE)
       \/ Faults /\ UNCHANGED vm /\ Finish(FALSE)
    /\ UNCHANGED <<config, kernel, signals, vcpu, pending, evt, batch, channel>>

\* vm_reboot drops a reset event that came with the one being served, and
\* creates and boots a new Vm.
Rebooted ==
    /\ evt' = [evt EXCEPT !["reset"] = FALSE]
    /\ pending' = FALSE /\ UNCHANGED config
    /\ \/ /\ vm' = "Running" /\ kernel' = "loaded" /\ signals' = 1 /\ vcpu' = "guest"
          /\ Finish(TRUE)
       \/ /\ Faults
          /\ vm' = "None" /\ kernel' = "none" /\ signals' = 0 /\ vcpu' = "absent"
          /\ Finish(FALSE)

\* Vm::shutdown joins the vCPU threads and every thread in self.threads; it
\* has closed the signals of the last signal handler only.
ShutdownDone ==
    /\ job \notin {"none", "pause"} /\ stage = "stopping"
    /\ vcpu \in {"gone", "absent"} /\ signals <= 1
    /\ IF job \in {"reboot", "reset"} THEN Rebooted
       ELSE /\ vm' = "None" /\ kernel' = "none" /\ signals' = 0 /\ vcpu' = "absent"
            /\ pending' = FALSE
            /\ config' = (config /\ ~Deletes)
            /\ UNCHANGED evt
            /\ Finish(TRUE)
    /\ UNCHANGED <<batch, channel>>

-----------------------------------------------------------------------------
(* The guest.                                                              *)

Raise(e) == evt' = [evt EXCEPT ![e] = TRUE]

\* A reset or a shutdown, through a device register or a KVM exit; only the
\* latter ends the vCPU thread.
GuestLeaves(e) ==
    /\ Alive /\ vcpu = "guest" /\ e \in {"reset", "exit"}
    /\ Raise(e)
    /\ vcpu' \in {"guest", "gone"}
    /\ UNCHANGED <<config, vm, kernel, signals, pending, control, api>>

\* The driver is ready: the vCPU queues an activation, signals it and waits
\* at the barrier.
GuestActivate ==
    /\ Alive /\ GuestActivates /\ vcpu = "guest" /\ ~pending
    /\ pending' = TRUE
    /\ Raise("activate")
    /\ vcpu' = "barrier"
    /\ UNCHANGED <<config, vm, kernel, signals, control, api>>

LoopStep ==
    \/ EpollWait \/ EndOfBatch \/ ServeApi \/ ServeExit \/ ServeReset \/ ServeActivate
    \/ PauseBegin \/ ShutdownBegin \/ PauseDone \/ ShutdownDone

Next ==
    \/ LoopStep \/ VcpuStops \/ GuestActivate
    \/ \E e \in Events : GuestLeaves(e)
    \/ \E c \in Clients : WriteApiEvent(c) \/ \E r \in AllRequests : SendRequest(c, r)

Spec == Init /\ [][Next]_vars

\* The VMM thread and the vCPU thread are scheduled, and a client that has
\* sent its request goes on to notify.
FairSpec == /\ Spec
            /\ WF_vars(LoopStep) /\ WF_vars(VcpuStops)
            /\ \A c \in Clients : WF_vars(WriteApiEvent(c))

-----------------------------------------------------------------------------
TypeOK ==
    /\ config \in BOOLEAN /\ vm \in VmStates \cup {"None"}
    /\ kernel \in {"none", "loading", "loaded", "taken", "restored"}
    /\ signals \in 0 .. SignalCap
    /\ vcpu \in {"absent", "guest", "barrier", "parked", "gone"}
    /\ pending \in BOOLEAN
    /\ evt \in [Events -> BOOLEAN] /\ batch \subseteq Events
    /\ job \in StopOps \cup {"none", "exit", "reset"}
    /\ stage \in {"begin", "stopping"}
    /\ serving \in Clients \cup {NoClient}
    /\ loop \in {"wait", "busy", "done", "EventFdRead", "VmReboot", "VmmShutdown",
                 "ActivateVirtioDevices"}
    /\ channel \in Seq(Clients \X AllRequests)
    /\ client \in [Clients -> {"idle", "sent", "waiting", "created", "sent_boot",
                               "waiting_boot", "done", "answered", "answered_boot"}]

Waiting(c) == client[c] \in {"waiting", "waiting_boot"}

\* The loop never blocks in api_receiver.recv(): whenever api_evt is readable,
\* or the batch holds its event, a request is in the channel.
ApiEventHasRequest == evt["api"] \/ "api" \in batch => channel # <<>>

\* A VM that reports Paused executes nothing: "once paused, the VM can be
\* safely snapshot".
PausedIsStopped == vm = "Paused" => vcpu \in {"parked", "gone", "absent"}

\* No vCPU outlives its VM.
NoOrphanVcpu == vm = "None" /\ job = "none" => vcpu \in {"absent", "gone"}

\* "Each command will receive a response back", or the VMM is gone.
CommandAnswered == \A c \in Clients : Waiting(c) ~> ~Waiting(c) \/ ~Alive

\* What the event loop keeps true between any two events: it never waits for
\* a request that is not there, a paused VM executes nothing, and no vCPU
\* outlives its VM.
LoopIsSound == ApiEventHasRequest /\ PausedIsStopped /\ NoOrphanVcpu
=============================================================================
