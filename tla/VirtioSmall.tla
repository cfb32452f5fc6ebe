----------------------------- MODULE VirtioSmall ----------------------------
(***************************************************************************)
(* Small virtio devices, in two independent parts: the watchdog            *)
(* (WatchdogNew, WatchdogNext), and pmem with rng (PmemNew, PmemNext).     *)
(***************************************************************************)
EXTENDS Integers, Sequences, SequencesExt

CONSTANTS
    Interval,      \* WATCHDOG_TIMER_INTERVAL
    Timeout,       \* WATCHDOG_TIMEOUT
    MaxTime, MaxPings, MaxOps,
    Rebinds,       \* a driver that has pinged resets the device
    Steady,        \* the VM is not paused while the worker has a timer event at hand
    Kinds,         \* subset of {"pmem", "rng"}
    Files,         \* subset of {"file", "directory", "discard"}: what pmem is backed by
    Pages, MaxWrites, MaxRequests, MaxFaults,
    Idle           \* a VM is saved only when its device has no event to handle

VARIABLES dev, guest, host

Now == [dev |-> dev, guest |-> guest, host |-> host]
Become(s) == dev' = s.dev /\ guest' = s.guest /\ host' = s.host

-----------------------------------------------------------------------------
(***************************************************************************)
(* The virtio-watchdog device (virtio-devices/src/watchdog.rs): the driver *)
(* pings it, and the VM is reset when the pings stop.                      *)
(*                                                                         *)
(* dev is the device with its worker, guest the driver, host the timerfd,  *)
(* the VMM thread that pauses the device, and time.  The worker takes a    *)
(* set of events from epoll and handles them one by one; it is prompt      *)
(* (time passes only when it has nothing to do, is parked or is blocked).  *)
(***************************************************************************)

None == -1

WatchdogNew ==
    /\ dev = [active |-> FALSE, last_ping_time |-> None, batch |-> {}, at |-> "none",
              queue_evt |-> FALSE, pause_evt |-> FALSE, avail |-> 0]
    /\ guest = [pings |-> 0, silent |-> None]
    /\ host = [now |-> 0, armed |-> 0, expired |-> FALSE, vm |-> "running", ops |-> 0,
               reset_evt |-> FALSE, silence |-> None, enabled |-> FALSE]

\* Setting a timerfd also forgets the expirations nobody has read.
timerfd_setup(s, secs) == [s EXCEPT !.host.armed = secs, !.host.expired = FALSE]

-----------------------------------------------------------------------------
(* The worker.                                                             *)

Ready == (IF dev.queue_evt THEN {"queue"} ELSE {}) \cup
         (IF host.expired THEN {"timer"} ELSE {}) \cup
         (IF dev.pause_evt THEN {"pause"} ELSE {})

run ==
    /\ dev.at = "wait" /\ Ready # {}
    /\ Become([Now EXCEPT !.dev.at = "handle", !.dev.batch = Ready])

Handled(e) == [Now EXCEPT !.dev.batch = @ \ {e},
                          !.dev.at = IF dev.batch = {e} THEN "wait" ELSE "handle"]

\* The first ping starts the timer, every ping notes the time.
process_queue(s) ==
    LET t == IF s.dev.last_ping_time = None THEN timerfd_setup(s, Interval) ELSE s
    IN IF s.dev.avail = 0 THEN s
       ELSE [t EXCEPT !.dev.last_ping_time = s.host.now, !.dev.avail = 0,
                      !.guest.silent = 0]

QUEUE_AVAIL_EVENT ==
    /\ dev.at = "handle" /\ "queue" \in dev.batch
    /\ Become(process_queue([Handled("queue") EXCEPT !.dev.queue_evt = FALSE]))

\* Mutant: the last ping is taken for none.
Expired_never(s) == s

\* The VM is reset when the last ping is too long ago.
Expired(s) ==
    IF s.dev.last_ping_time # None /\ s.host.now - s.dev.last_ping_time > Timeout
    THEN [s EXCEPT !.host.reset_evt = TRUE, !.host.silence = s.guest.silent]
    ELSE s

\* The timerfd blocks a reader while there is no expiration.
TIMER_EXPIRED_EVENT ==
    /\ dev.at = "handle" /\ "timer" \in dev.batch
    /\ IF host.expired
       THEN Become(Expired([Handled("timer") EXCEPT !.host.expired = FALSE]))
       ELSE Become([Now EXCEPT !.dev.at = "read"])

ReadReturns ==
    /\ dev.at = "read" /\ host.expired
    /\ Become(Expired([Handled("timer") EXCEPT !.host.expired = FALSE]))

Park ==
    /\ dev.at = "handle" /\ "pause" \in dev.batch
    /\ Become([Now EXCEPT !.dev.batch = @ \ {"pause"}, !.dev.pause_evt = FALSE,
                          !.dev.at = "parked"])

-----------------------------------------------------------------------------
(* The device.                                                             *)

activate ==
    /\ host.vm = "running" /\ ~dev.active
    /\ Become([Now EXCEPT !.dev.active = TRUE, !.dev.at = "wait"])

\* The worker is woken, killed and joined, which needs it to come back to
\* epoll; the timer runs on and the last ping is kept.
reset ==
    /\ host.vm = "running" /\ dev.active /\ dev.at = "wait" /\ host.ops < MaxOps
    /\ dev.last_ping_time = None \/ Rebinds
    /\ Become([Now EXCEPT !.dev.active = FALSE, !.dev.at = "none", !.dev.avail = 0,
                          !.dev.queue_evt = FALSE, !.host.ops = @ + 1,
                          !.guest.silent = None])

\* The timer is stopped, and then the worker.
pause ==
    /\ host.vm = "running" /\ host.ops < MaxOps
    /\ Steady => ~ (host.expired /\ dev.at # "none")
    /\ Become([timerfd_setup(Now, 0) EXCEPT !.host.vm = "pausing", !.host.ops = @ + 1])

PauseWorker ==
    /\ host.vm = "pausing"
    /\ Become(IF dev.active THEN [Now EXCEPT !.dev.pause_evt = TRUE, !.host.vm = "waiting"]
              ELSE [Now EXCEPT !.host.vm = "paused"])

PauseReturns ==
    /\ host.vm = "waiting" /\ dev.at = "parked"
    /\ Become([Now EXCEPT !.host.vm = "paused"])

\* A watchdog in use starts anew.
resume ==
    /\ host.vm = "paused"
    /\ LET s == IF dev.last_ping_time = None THEN Now
                ELSE [timerfd_setup(Now, Interval) EXCEPT !.dev.last_ping_time = host.now]
       IN Become([s EXCEPT !.host.vm = "running",
                           !.dev.at = IF @ # "parked" THEN @
                                      ELSE IF dev.batch = {} THEN "wait" ELSE "handle"])

\* The device of a snapshot of the paused VM: a new timer, not yet started; the
\* worker waits until the device is resumed.
state(s) == [s EXCEPT !.host.enabled = s.dev.last_ping_time # None]

set_state(s) ==
    [s EXCEPT !.dev.last_ping_time = IF s.host.enabled THEN s.host.now ELSE None]

Restore ==
    /\ host.vm = "paused" /\ host.ops < MaxOps
    /\ LET s == state(Now)
       IN Become(set_state([s EXCEPT !.host.armed = 0, !.host.expired = FALSE, !.dev.batch = {},
                                     !.dev.queue_evt = FALSE, !.dev.pause_evt = FALSE,
                                     !.dev.last_ping_time = None, !.host.ops = @ + 1]))

-----------------------------------------------------------------------------
(* The driver and time.                                                    *)

Ping ==
    /\ host.vm = "running" /\ dev.active /\ guest.pings < MaxPings
    /\ Become([Now EXCEPT !.guest.pings = @ + 1,
                          !.dev.avail = @ + 1, !.dev.queue_evt = TRUE])

Busy ==
    \/ dev.at = "handle"
    \/ dev.at = "wait" /\ Ready # {}
    \/ dev.at = "read" /\ host.expired
    \/ host.vm \in {"pausing", "waiting"} /\ dev.at # "read"

\* silent is how long the VM has run since a ping was answered.
Tick ==
    /\ host.now < MaxTime /\ ~Busy /\ ~host.reset_evt
    /\ Become([Now EXCEPT !.host.now = @ + 1,
                          !.host.armed = IF @ = 1 THEN Interval ELSE IF @ = 0 THEN 0 ELSE @ - 1,
                          !.host.expired = @ \/ host.armed = 1,
                          !.guest.silent = IF @ = None \/ host.vm # "running" THEN @ ELSE @ + 1])

WatchdogNext ==
    \/ run \/ QUEUE_AVAIL_EVENT \/ TIMER_EXPIRED_EVENT \/ ReadReturns \/ Park
    \/ activate \/ reset \/ pause \/ PauseWorker \/ PauseReturns \/ resume \/ Restore
    \/ Ping \/ Tick

WatchdogSpec == WatchdogNew /\ [][WatchdogNext]_<<dev, guest, host>>

-----------------------------------------------------------------------------

\* The VM is reset only for a driver that has not pinged for the time-out while
\* the VM ran: time the VM was paused, or saved, does not count
\* (watchdog.rs set_state: "to ensure that we don't unnecessarily reboot due to
\* the offline time").
OnlySilenceResets == host.reset_evt => host.silence > Timeout

\* A running VM whose driver has stopped to ping is reset, at the latest one
\* interval after the time-out; pauses and restores in between start the time
\* again, and never switch the watchdog off.
SilenceResets ==
    host.vm = "running" /\ dev.active /\ dev.last_ping_time # None /\ ~Busy /\ guest.silent # None
        => \/ host.reset_evt
           \/ host.now - dev.last_ping_time <= Timeout + Interval

\* The VMM thread does not wait for a worker that itself waits for a timer
\* nobody will start.
PauseIsMet == ~ (host.vm = "waiting" /\ dev.at = "read" /\ host.armed = 0 /\ ~host.expired)

\* What the watchdog promises.
WatchdogWatches == OnlySilenceResets /\ SilenceResets /\ PauseIsMet

-----------------------------------------------------------------------------
(***************************************************************************)
(* The virtio-pmem device (virtio-devices/src/pmem.rs) with the making of  *)
(* it (vmm/src/device_manager.rs), and the virtio-rng device               *)
(* (virtio-devices/src/rng.rs), which works its queue in the same way.     *)
(*                                                                         *)
(* dev is the device, guest the driver and what it has seen, host the file *)
(* behind a pmem device: cache is what the host's page cache holds, disk   *)
(* what is durable.  A page is told by its version.                        *)
(***************************************************************************)

Zero == [p \in Pages |-> 0]

PmemNew ==
    /\ dev = [kind |-> "none", file |-> "none", map |-> Zero, worker |-> "none",
              queue_evt |-> FALSE, avail |-> <<>>]
    /\ guest = [wrote |-> Zero, flushed |-> Zero, asked |-> Zero, requests |-> 0, writes |-> 0,
                used |-> <<>>]
    /\ host = [cache |-> Zero, disk |-> Zero, vm |-> "none", faults |-> 0, saved |-> Zero]

\* What the guest reads: its private copies, or the file.
Content(s) == [p \in Pages |-> IF s.dev.file = "discard" /\ s.dev.map[p] > 0
                               THEN s.dev.map[p] ELSE s.host.cache[p]]

-----------------------------------------------------------------------------
(* The making of a device.                                                 *)

Rng_new == Become([Now EXCEPT !.dev.kind = "rng", !.dev.map = Zero, !.dev.worker = "none"])

Pmem_new(s, file) ==
    [s EXCEPT !.dev.kind = "pmem", !.dev.file = file, !.dev.map = Zero, !.dev.worker = "none"]

\* A directory gives a file without a name; writes that are to be discarded go
\* to a private mapping.
make_virtio_pmem_device(file) ==
    Become(Pmem_new(IF file = "directory" THEN [Now EXCEPT !.host.cache = Zero, !.host.disk = Zero]
                    ELSE Now, file))

MakeDevice ==
    /\ dev.kind = "none"
    /\ \/ "rng" \in Kinds /\ Rng_new
       \/ "pmem" \in Kinds /\ \E f \in Files : make_virtio_pmem_device(f)

Activated(s) == [s EXCEPT !.dev.worker = "wait", !.host.vm = "running"]

Rng_activate ==
    /\ dev.kind = "rng" /\ host.vm = "none" /\ dev.worker = "none"
    /\ Become(Activated(Now))

Pmem_activate ==
    /\ dev.kind = "pmem" /\ host.vm = "none" /\ dev.worker = "none"
    /\ Become(Activated(Now))

-----------------------------------------------------------------------------
(* The worker.                                                             *)

\* A request is a chain of the driver; a malformed one is returned untouched.
Rng_process_queue(s) ==
    LET Filled(c) == IF c.type = "writable" THEN [c EXCEPT !.len = 1] ELSE c
    IN [s EXCEPT !.guest.used = @ \o [i \in DOMAIN s.dev.avail |-> Filled(s.dev.avail[i])],
                 !.dev.avail = <<>>]

parse(c) == c.type = "flush"

\* Mutant: the answer does not wait for the file.
Flushed_unsynced(s, ok) ==
    [s EXCEPT !.guest.used = Append(@, [type |-> "flush", len |-> 1, status |-> "ok"])]

\* A flush syncs the file and answers with how that went.
Flushed(s, ok) ==
    LET c == [type |-> "flush", len |-> 1, status |-> IF ok THEN "ok" ELSE "eio"]
    IN [s EXCEPT !.host.disk = IF ok THEN s.host.cache ELSE @,
                 !.guest.used = Append(@, c)]

Pmem_process_queue(s, syncs) ==
    FoldLeft(LAMBDA t, c : IF parse(c) THEN Flushed(t, syncs)
                           ELSE [t EXCEPT !.guest.used = Append(@, c)],
             [s EXCEPT !.dev.avail = <<>>], s.dev.avail)

Rng_handle_event ==
    /\ dev.worker = "wait" /\ dev.queue_evt /\ dev.kind = "rng"
    /\ Become(Rng_process_queue([Now EXCEPT !.dev.queue_evt = FALSE]))

\* A sync that fails leaves what it wrote unknown; here, nothing.
Pmem_handle_event ==
    /\ dev.worker = "wait" /\ dev.queue_evt /\ dev.kind = "pmem"
    /\ \/ Become(Pmem_process_queue([Now EXCEPT !.dev.queue_evt = FALSE], TRUE))
       \/ /\ host.faults < MaxFaults
          /\ Become(Pmem_process_queue([Now EXCEPT !.dev.queue_evt = FALSE,
                                                   !.host.faults = @ + 1], FALSE))

-----------------------------------------------------------------------------
(* Pausing, saving and restoring.                                          *)

Pmem_pause ==
    /\ host.vm = "running" /\ dev.kind = "pmem"
    /\ Become([Now EXCEPT !.host.vm = "paused", !.dev.worker = "parked"])

Rng_pause ==
    /\ host.vm = "running" /\ dev.kind = "rng"
    /\ Become([Now EXCEPT !.host.vm = "paused", !.dev.worker = "parked"])

Resumed(s) == [s EXCEPT !.host.vm = "running", !.dev.worker = "wait"]
Pmem_resume == host.vm = "paused" /\ dev.kind = "pmem" /\ Become(Resumed(Now))
Rng_resume == host.vm = "paused" /\ dev.kind = "rng" /\ Become(Resumed(Now))

\* A saved VM comes back with the features and the range of its device, with
\* the rings of guest memory, and with events nobody has signalled yet.
Restored(s) == [s EXCEPT !.dev.queue_evt = FALSE, !.dev.worker = "parked"]

Pmem_set_state(s) == Restored([Pmem_new(s, s.dev.file) EXCEPT !.host.faults = @ + 1])

Pmem_restore ==
    /\ host.vm = "paused" /\ dev.kind = "pmem" /\ host.faults < MaxFaults
    /\ Idle => ~dev.queue_evt /\ dev.file = "file"
    /\ Become(Pmem_set_state(IF dev.file = "directory" THEN [Now EXCEPT !.host.cache = Zero] ELSE Now))

Rng_set_state ==
    /\ host.vm = "paused" /\ dev.kind = "rng" /\ host.faults < MaxFaults
    /\ Idle => ~dev.queue_evt
    /\ Become(Restored([Now EXCEPT !.host.faults = @ + 1]))

\* The driver takes its device down; what it had asked for is forgotten.
Down(s) == [s EXCEPT !.dev.worker = "none", !.dev.avail = <<>>, !.dev.queue_evt = FALSE,
                     !.host.vm = "none", !.guest.requests = @ - Len(s.dev.avail)]
Pmem_reset == host.vm = "running" /\ dev.kind = "pmem" /\ Become(Down(Now))
Rng_reset == host.vm = "running" /\ dev.kind = "rng" /\ Become(Down(Now))

-----------------------------------------------------------------------------
(* The driver, and crashes of the host.                                    *)

WritePage(p) ==
    /\ host.vm = "running" /\ dev.kind = "pmem" /\ guest.writes < MaxWrites
    /\ LET v == guest.writes + 1
           s == [Now EXCEPT !.guest.writes = v, !.guest.wrote[p] = v]
       IN Become(IF dev.file = "discard" THEN [s EXCEPT !.dev.map[p] = v]
                 ELSE [s EXCEPT !.host.cache[p] = v])

Types == [pmem |-> {"flush", "bad"}, rng |-> {"writable", "bad"}, none |-> {}]

\* One flush at a time: asked is what it is to make durable.
Ask ==
    /\ host.vm = "running" /\ guest.requests < MaxRequests /\ dev.worker # "none"
    /\ \E t \in Types[dev.kind] :
          /\ t = "flush" => \A c \in ToSet(dev.avail \o guest.used) : c.type # "flush"
          /\ Become([Now EXCEPT !.dev.avail = Append(@, [type |-> t, len |-> 0, status |-> "none"]),
                                !.guest.requests = @ + 1, !.dev.queue_evt = TRUE,
                                !.guest.asked = IF t = "flush" THEN guest.wrote ELSE @])

TakeUsed ==
    /\ host.vm = "running" /\ guest.used # <<>>
    /\ LET c == Head(guest.used)
       IN Become([Now EXCEPT !.guest.used = Tail(@), !.guest.requests = @ - 1,
                             !.guest.flushed = IF c.type = "flush" /\ c.status = "ok"
                                               THEN guest.asked ELSE @])

\* The host goes down: of what was not synced, any part may be on the disk.
Crash ==
    /\ dev.kind = "pmem" /\ host.vm # "none" /\ host.faults < MaxFaults
    /\ \E d \in [Pages -> 0 .. MaxWrites] :
          /\ \A p \in Pages : d[p] \in {host.disk[p], host.cache[p]}
          /\ Become([Down(Now) EXCEPT !.host.disk = d, !.host.cache = d, !.dev.map = Zero,
                                      !.host.faults = @ + 1, !.guest.wrote = d,
                                      !.guest.used = <<>>, !.guest.requests = 0])

PmemNext ==
    \/ MakeDevice \/ Rng_activate \/ Pmem_activate \/ Rng_handle_event \/ Pmem_handle_event
    \/ Pmem_pause \/ Rng_pause \/ Pmem_resume \/ Rng_resume \/ Pmem_restore \/ Rng_set_state
    \/ Pmem_reset \/ Rng_reset \/ (\E p \in Pages : WritePage(p)) \/ Ask \/ TakeUsed \/ Crash

PmemSpec == PmemNew /\ [][PmemNext]_<<dev, guest, host>>

-----------------------------------------------------------------------------

\* What the driver was told is flushed is durable, whatever crashes, failed
\* syncs, resets and restores come in between (pmem.rs process_queue).  Writes
\* to be discarded are the exception, as their name says.
FlushedIsDurable ==
    dev.kind = "pmem" /\ dev.file = "file" => \A p \in Pages : host.disk[p] >= guest.flushed[p]

\* The running guest reads from pmem what it wrote, also after a restore.
WrittenIsRead == host.vm = "running" /\ dev.kind = "pmem" => Content(Now) = guest.wrote

\* A worker without an event to handle has returned every chain of the driver.
NothingForgotten ==
    host.vm = "running" /\ dev.worker = "wait" /\ ~dev.queue_evt => dev.avail = <<>>

\* What the two devices promise.
PmemKeeps == FlushedIsDurable /\ WrittenIsRead /\ NothingForgotten

=============================================================================
