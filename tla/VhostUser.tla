----------------------------- MODULE VhostUser ------------------------------
(***************************************************************************)
(* A vhost-user device (virtio-devices/src/vhost_user/): the rings are     *)
(* served by another process, the back-end, over a socket.  The worker of  *)
(* the device only watches the socket and connects again when the back-end *)
(* has gone; the VMM thread activates, pauses, resumes, resets, migrates   *)
(* and hot-plugs memory over the same connection.                          *)
(*                                                                         *)
(* dev is the device (VhostUserCommon, VhostUserHandle and the worker),    *)
(* host the back-end, guest the driver and what became of its requests.    *)
(* Request i writes page i of the guest's memory when it is served.        *)
(***************************************************************************)
EXTENDS Integers, FiniteSets

CONSTANTS
    MaxReq,          \* requests the driver makes
    Inflight,        \* the back-end has INFLIGHT_SHMFD
    MemSlots,        \* the back-end has CONFIGURE_MEM_SLOTS
    Regions,         \* regions of memory, the first one there at boot
    LogBytes,        \* bytes of the dirty log, one bit in each is used
    WordBytes,       \* bytes of a word of the log
    Calm,            \* no reset or pause meets a back-end that has failed
    LateMove,        \* the cache window may move while the device is active
    MaxFails, MaxOps

VARIABLES dev, guest, host

vhostVars == <<dev, guest, host>>

Requests == 0..(MaxReq - 1)

New ==
    /\ dev = [vu |-> "open", ready |-> FALSE, active |-> FALSE,
              worker |-> "none", watched |-> FALSE, kill |-> FALSE,
              vm |-> "running", pausable |-> FALSE, log |-> FALSE, mig |-> "off",
              region |-> 1, window |-> 0, handler |-> 0, ops |-> 0]
    /\ guest = [avail |-> 0, used |-> {}, sees |-> 1, owed |-> {}]
    /\ host = [up |-> TRUE, conn |-> TRUE, enabled |-> FALSE, next |-> 0,
               own |-> {}, shm |-> {}, table |-> 0, logging |-> FALSE,
               logged |-> {}, fails |-> 0]

Now == [dev |-> dev, guest |-> guest, host |-> host]
Become(s) == dev' = s.dev /\ guest' = s.guest /\ host' = s.host

\* Every operation of the VMM thread counts against the bound.
Op == dev.ops < MaxOps
Counted(s) == [s EXCEPT !.dev.ops = @ + 1]

-----------------------------------------------------------------------------
(* The back-end, as the messages of the VMM use it.                        *)

\* A served request: its page is written, and noted if pages are logged.
Served(s, rs) ==
    [s EXCEPT !.guest.used = @ \cup rs,
              !.guest.owed = IF s.dev.mig = "off" THEN @ ELSE @ \cup rs,
              !.host.logged = IF s.host.logging THEN @ \cup rs ELSE @,
              !.host.own = @ \ rs, !.host.shm = @ \ rs]

\* Disabling a ring lets what was taken from it end first.
set_vring_enable(s, on) ==
    LET d == IF on THEN s ELSE Served(s, s.host.own)
    IN [d EXCEPT !.host.enabled = on]

Fetch ==
    /\ host.up /\ host.conn /\ host.enabled /\ host.next < guest.avail
    /\ host' = [host EXCEPT !.next = @ + 1, !.own = @ \cup {host.next},
                            !.shm = IF Inflight THEN @ \cup {host.next} ELSE @]
    /\ UNCHANGED <<dev, guest>>

Serve ==
    /\ host.up
    /\ \E r \in host.own : Become(Served(Now, {r}))

\* The back-end goes away, and with it what it had taken; the region of the
\* requests in flight is kept by the VMM.
Fail ==
    /\ host.up /\ host.fails < MaxFails
    /\ Calm => dev.vm # "pausing" /\ ~dev.kill
    /\ host' = [host EXCEPT !.up = FALSE, !.conn = FALSE, !.enabled = FALSE,
                            !.own = {}, !.logging = FALSE, !.logged = {},
                            !.table = 0, !.fails = @ + 1]
    /\ UNCHANGED <<dev, guest>>

Restart ==
    /\ ~host.up
    /\ host' = [host EXCEPT !.up = TRUE]
    /\ UNCHANGED <<dev, guest>>

-----------------------------------------------------------------------------
(* Setting the back-end up.                                                *)

\* Mutant: a new connection is not told of the requests in flight.
setup_vhost_user_forgets(s, first) ==
    [s EXCEPT !.dev.ready = TRUE,
              !.host.table = s.dev.region, !.host.logging = FALSE,
              !.host.own = {}, !.host.shm = {},
              !.host.next = IF Inflight THEN Cardinality(s.guest.used)
                                        ELSE s.guest.avail,
              !.host.enabled = TRUE]

\* Features, memory, the region of requests in flight (new at the first
\* time), the rings from the index the driver has reached, and the rings are
\* enabled.  A back-end with INFLIGHT_SHMFD goes by the used index and by
\* what was in flight instead.
setup_vhost_user(s, first) ==
    LET kept == IF first \/ ~Inflight THEN {} ELSE s.host.shm
    IN [s EXCEPT !.dev.ready = TRUE,
                 !.host.table = s.dev.region, !.host.logging = FALSE,
                 !.host.own = kept, !.host.shm = kept,
                 !.host.next = IF Inflight
                               THEN Cardinality(s.guest.used) + Cardinality(kept)
                               ELSE s.guest.avail,
                 !.host.enabled = TRUE]

\* The device with its worker, which watches the socket, and the handler of
\* the requests of the back-end.
Activated(s) ==
    [s EXCEPT !.dev.active = TRUE, !.dev.worker = "run", !.dev.watched = TRUE,
              !.dev.pausable = TRUE, !.dev.handler = s.dev.window]

\* With no connection every message is an error and changes nothing.
activate ==
    /\ Op /\ dev.vm = "running" /\ ~dev.active /\ ~dev.kill /\ dev.vu = "open"
    /\ host.conn
    /\ Become(Counted(Activated(setup_vhost_user(Now, TRUE))))

\* Rings disabled, ownership reset, and the worker is told to end.  Without
\* a connection the reset fails, but the device has lost its pause event.
reset ==
    /\ Op /\ dev.vm = "running" /\ dev.active /\ dev.mig = "off"
    /\ \/ /\ ~host.conn /\ ~Calm
          /\ Become(Counted([Now EXCEPT !.dev.pausable = FALSE]))
       \/ /\ host.conn
          /\ LET s == set_vring_enable(Now, FALSE)
             IN Become(Counted([s EXCEPT
                  !.dev.active = FALSE, !.dev.kill = TRUE, !.dev.pausable = FALSE,
                  !.guest.avail = 0, !.guest.used = {},
                  !.host.next = 0, !.host.own = {}, !.host.shm = {}]))

-----------------------------------------------------------------------------
(* The worker.                                                             *)

\* The socket was hung up: it is watched no more and a new one is opened.
handle_event ==
    /\ dev.worker = "run" /\ dev.watched /\ ~host.conn
    /\ dev' = [dev EXCEPT !.worker = "connecting", !.watched = FALSE]
    /\ UNCHANGED <<guest, host>>

reconnect ==
    /\ dev.worker = "connecting" /\ host.up
    /\ LET s == setup_vhost_user(Now, FALSE)
       IN Become([s EXCEPT !.dev.worker = "run", !.dev.watched = TRUE,
                           !.dev.log = FALSE, !.host.conn = TRUE])

\* Nobody answered for a minute: the worker ends.
connect_vhost_user_times_out ==
    /\ dev.worker = "connecting" /\ ~host.up
    /\ dev' = [dev EXCEPT !.worker = "dead"]
    /\ UNCHANGED <<guest, host>>

WorkerEnds ==
    /\ dev.kill /\ dev.worker \in {"run", "dead"}
    /\ dev' = [dev EXCEPT !.kill = FALSE, !.worker = "none", !.watched = FALSE]
    /\ UNCHANGED <<guest, host>>

-----------------------------------------------------------------------------
(* Pausing and resuming, by the VMM thread.                                *)

\* The rings are disabled first, which fails without a connection; then the
\* worker is asked to park and is waited for.
pause ==
    /\ Op /\ dev.vm = "running" /\ ~dev.kill
    /\ IF dev.vu = "open" /\ dev.ready /\ ~host.conn
       THEN Become(Counted([Now EXCEPT !.dev.vm = "stuck"]))
       ELSE LET s == IF dev.vu = "open" /\ dev.ready
                     THEN set_vring_enable(Now, FALSE) ELSE Now
            IN Become(Counted([s EXCEPT !.dev.vm =
                 IF dev.pausable THEN "pausing" ELSE "paused"]))

Park ==
    /\ dev.vm = "pausing" /\ dev.worker = "run"
    /\ dev' = [dev EXCEPT !.vm = "paused", !.worker = "parked"]
    /\ UNCHANGED <<guest, host>>

\* The worker goes on, then the rings are enabled.
Resumed(s) ==
    LET w == [s EXCEPT !.dev.worker = IF @ = "parked" THEN "run" ELSE @]
    IN IF w.dev.vu = "none" \/ ~w.dev.ready THEN [w EXCEPT !.dev.vm = "running"]
       ELSE IF w.dev.vu = "open" /\ w.host.conn
            THEN [set_vring_enable(w, TRUE) EXCEPT !.dev.vm = "running"]
            ELSE [w EXCEPT !.dev.vm = "stuck"]

resume ==
    /\ Op /\ dev.vm = "paused" /\ dev.mig = "off"
    /\ Become(Counted(Resumed(Now)))

-----------------------------------------------------------------------------
(* Memory hot-plug and the window of the virtio-fs cache.                  *)

\* The memory of the VM grows, the back-end is told, and only then the guest
\* may be told: an error of the back-end is one of the whole resize.
add_memory_region ==
    /\ Op /\ dev.vm = "running" /\ dev.region < Regions /\ dev.mig = "off"
    /\ LET s == [Now EXCEPT !.dev.region = @ + 1]
           told == dev.vu = "open" /\ (MemSlots \/ dev.active)
       IN \/ told /\ ~host.conn /\ Become(Counted(s))
          \/ told /\ host.conn
               /\ Become(Counted([s EXCEPT !.guest.sees = s.dev.region,
                                           !.host.table = s.dev.region]))
          \/ ~told /\ Become(Counted([s EXCEPT !.guest.sees = s.dev.region]))

\* The guest moves the BAR the cache of a virtio-fs device is in.
set_shm_regions ==
    /\ Op /\ dev.vm = "running" /\ dev.window = 0
    /\ LateMove \/ ~dev.active
    /\ Become(Counted([Now EXCEPT !.dev.window = 1]))

-----------------------------------------------------------------------------
(* Migration: the log of the pages the back-end writes.                    *)

\* The pages the log is read for: whole words only.
LoggedPages == {p \in Requests : p < (LogBytes \div WordBytes) * WordBytes}

\* The back-end is given a new region to log in.
update_log_base(s) == [s EXCEPT !.dev.log = TRUE, !.host.logged = {}]

stop_dirty_log(s) ==
    [s EXCEPT !.dev.log = FALSE, !.host.logging = FALSE, !.host.logged = {}]

start_dirty_log ==
    /\ Op /\ dev.mig = "off" /\ dev.vm = "running" /\ dev.active
    /\ IF host.conn
       THEN Become(Counted([update_log_base(Now) EXCEPT
              !.dev.mig = "log", !.guest.owed = {}, !.host.logging = TRUE]))
       ELSE Become(Counted([Now EXCEPT !.dev.mig = "failed"]))

\* Mutant: a connection without a log is taken to have written nothing.
dirty_log_empty ==
    /\ Op /\ dev.mig = "log" /\ dev.vm \in {"running", "paused"}
    /\ IF ~host.conn
       THEN Become(Counted([Now EXCEPT !.dev.mig = "failed"]))
       ELSE Become(Counted([update_log_base(Now) EXCEPT
              !.guest.owed = @ \ (host.logged \cap LoggedPages),
              !.dev.mig = IF dev.vm = "paused" THEN "last" ELSE @]))

\* A new region replaces the old one, which is read; a connection that had
\* none (it is a new one) ends the migration.
dirty_log ==
    /\ Op /\ dev.mig = "log" /\ dev.vm \in {"running", "paused"}
    /\ IF ~host.conn \/ ~dev.log
       THEN Become(Counted([Now EXCEPT !.dev.mig = "failed",
                                       !.dev.log = host.conn]))
       ELSE Become(Counted([update_log_base(Now) EXCEPT
              !.guest.owed = @ \ (host.logged \cap LoggedPages),
              !.dev.mig = IF dev.vm = "paused" THEN "last" ELSE @]))

\* After the last pages: logging ends, the state is taken and the socket is
\* closed, for the destination to connect to the back-end.
snapshot ==
    /\ dev.mig = "last"
    /\ IF ~host.conn THEN dev' = [dev EXCEPT !.mig = "failed"] /\ UNCHANGED <<guest, host>>
       ELSE Become([stop_dirty_log(Now) EXCEPT
              !.dev.mig = "sent", !.dev.vu = "closed", !.dev.watched = FALSE,
              !.host.conn = FALSE, !.host.own = {}, !.host.shm = {}])

\* The error path: logging is stopped, and only if that worked a paused VM
\* is resumed.
MigrationFails ==
    /\ \/ dev.mig \in {"failed", "sent"}
       \/ dev.mig = "log" /\ dev.vm \in {"running", "paused"}
    /\ IF dev.vu = "open" /\ host.conn
       THEN LET s == [stop_dirty_log(Now) EXCEPT !.dev.mig = "off"]
            IN Become(IF dev.vm = "paused" THEN Resumed(s) ELSE s)
       ELSE Become([Now EXCEPT !.dev.mig = "off",
              !.dev.vm = IF @ = "paused" THEN "stuck" ELSE @])

\* The VMM of the destination connects to the back-end.
restore_backend_connection(s) ==
    [s EXCEPT !.dev.vu = "open", !.dev.ready = FALSE, !.host.conn = TRUE]

\* The source drops its handle and ends its worker; the device of the
\* destination is activated from the state that was sent and resumed.
complete_migration ==
    /\ dev.mig = "sent" /\ host.up
    /\ LET s == Activated(setup_vhost_user(restore_backend_connection(Now), TRUE))
       IN Become([s EXCEPT !.dev.mig = "off", !.dev.vm = "running"])

-----------------------------------------------------------------------------
(* The driver.                                                             *)

Submit ==
    /\ dev.vm = "running" /\ dev.active /\ guest.avail < MaxReq
    /\ guest' = [guest EXCEPT !.avail = @ + 1]
    /\ UNCHANGED <<dev, host>>

Next ==
    \/ Submit \/ Fetch \/ Serve \/ Fail \/ Restart
    \/ activate \/ reset \/ handle_event \/ reconnect
    \/ connect_vhost_user_times_out \/ WorkerEnds
    \/ pause \/ Park \/ resume
    \/ add_memory_region \/ set_shm_regions
    \/ start_dirty_log \/ dirty_log \/ snapshot \/ MigrationFails
    \/ complete_migration

Spec == New /\ [][Next]_vhostVars

-----------------------------------------------------------------------------
(* What a vhost-user device is to do.                                      *)

\* Every request the driver has made has been served, is being served, is
\* still to be taken from the ring, or is kept in the region of the requests
\* in flight for the back-end that comes next.  A back-end that goes away
\* loses none.
RequestIsKept ==
    dev.active /\ dev.vu = "open" =>
        \A r \in 0..(guest.avail - 1) :
            \/ r \in guest.used \cup host.own \cup host.shm
            \/ r >= (IF host.conn THEN host.next
                     ELSE Cardinality(guest.used) + Cardinality(host.shm))

\* As long as the worker runs, a connection that was lost is noticed.
LossIsNoticed ==
    dev.active /\ dev.worker \in {"run", "parked"} /\ dev.vu = "open" /\ ~dev.kill
        => dev.watched

\* While the VM is paused the back-end serves no ring: the memory a snapshot
\* is taken of does not change.
PausedIsIdle ==
    dev.vm = "paused" => ~host.enabled /\ host.own = {}

\* The VMM thread that pauses the device is not left waiting for a worker
\* that has ended.
PauseIsMet ==
    dev.vm = "pausing" => dev.worker # "dead"

\* The back-end of an active device can reach all the memory the guest was
\* told of, also when it connected while memory was being added.
MemoryIsShared ==
    dev.active /\ dev.vu = "open" /\ host.conn => host.table >= guest.sees

\* Once the last pages were sent, every page the back-end wrote since the
\* migration began was sent; a log that was lost fails the migration.
LogIsComplete ==
    dev.mig \in {"last", "sent"} => guest.owed = {}

\* The handler of the requests of the back-end knows the window of the cache
\* where the guest has put it.
WindowIsCurrent ==
    dev.active => dev.handler = dev.window

VhostUserServes ==
    RequestIsKept /\ LossIsNoticed /\ PausedIsIdle /\ PauseIsMet
        /\ MemoryIsShared /\ LogIsComplete /\ WindowIsCurrent
=============================================================================
