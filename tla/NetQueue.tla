------------------------------ MODULE NetQueue ------------------------------
(***************************************************************************)
(* A virtio-net queue pair: the worker thread of virtio-devices/src/net.rs *)
(* with the queue processing of net_util/src/queue_pair.rs, between the    *)
(* guest's driver and a tap.  A ring is three counters: chains published   *)
(* (avail), taken (next) and returned (used).  Both sides suppress         *)
(* notifications with EVENT_IDX.  The rate limiter of a direction is seen  *)
(* through consume (a chain passes, or is lent to, or refused: the last    *)
(* two block the limiter) and the timer that unblocks it.                  *)
(***************************************************************************)
EXTENDS Integers, Sequences

CONSTANTS
    MaxChains,      \* bound: chains a driver publishes on a queue
    MaxFrames,      \* bound: frames that arrive on the tap
    Restores        \* bound: snapshots this device is restored from

VARIABLES
    ring,           \* queue -> the two rings and what the device keeps of them
    driver,         \* queue -> the guest's driver: its step, used index read
    kick, irq,      \* queue -> queue eventfd; interrupt raised
    limiter,        \* queue -> "open", or blocked with the timer "armed"/"ready"
    net,            \* listeners and flags of NetQueuePair and NetEpollHandler
    tap,            \* frames waiting in the tap, arrived, and whether it is full
    worker,         \* position of the worker and locals of its loop
    restores

netVars == <<ring, driver, kick, irq, limiter, net, tap, worker, restores>>

Queues == {"rx", "tx"}
All(v) == [q \in Queues |-> v]

TypeOK ==
    /\ ring \in [Queues -> [avail : 0..MaxChains, next : 0..MaxChains,
            used : 0..MaxChains, avail_event : 0..MaxChains,
            used_event : 0..MaxChains, signalled_used : -1..MaxChains]]
    /\ driver \in [Queues -> [published : BOOLEAN, seen : 0..MaxChains]]
    /\ kick \in [Queues -> BOOLEAN] /\ irq \in [Queues -> BOOLEAN]
    /\ limiter \in [Queues -> {"open", "armed", "ready"}]
    /\ net \in [rx_tap_listening : BOOLEAN, tx_tap_listening : BOOLEAN,
                rx_desc_avail : BOOLEAN, driver_awake : BOOLEAN]
    /\ tap \in [in : 0..MaxFrames, arrived : 0..MaxFrames, full : BOOLEAN]
    /\ worker \in [pc : {"wait", "rx", "rx_enable", "rx_check", "rx_done",
                         "tx", "tx_enable", "tx_check", "tx_done", "dead"},
                   rate_limit_reached : BOOLEAN, retry : BOOLEAN]
    /\ restores \in 0..Restores

NewHandler(listening) ==
    [rx_tap_listening |-> listening, tx_tap_listening |-> FALSE,
     rx_desc_avail |-> FALSE, driver_awake |-> FALSE]

\* Net::activate; NetEpollHandler::run listens to the tap from the start if
\* the driver has already given receive buffers.
Activate ==
    /\ ring \in [Queues -> [avail : 0..1, next : {0}, used : {0},
            avail_event : {0}, used_event : {0}, signalled_used : {-1}]]
    /\ driver = All([published |-> FALSE, seen |-> 0])
    /\ kick = [q \in Queues |-> ring[q].avail > 0] /\ irq = All(FALSE)
    /\ limiter = All("open")
    /\ net = NewHandler(ring["rx"].used < ring["rx"].avail)
    /\ tap = [in |-> 0, arrived |-> 0, full |-> FALSE]
    /\ worker = [pc |-> "wait", rate_limit_reached |-> FALSE, retry |-> FALSE]
    /\ restores = 0

-----------------------------------------------------------------------------
(* The guest's driver and the host's network.                              *)

DriverPublish(q) ==
    /\ ~driver[q].published /\ ring[q].avail < MaxChains
    /\ ring' = [ring EXCEPT ![q].avail = @ + 1]
    /\ driver' = [driver EXCEPT ![q].published = TRUE]
    /\ UNCHANGED <<kick, irq, limiter, net, tap, worker, restores>>

DriverKick(q) ==
    /\ driver[q].published
    /\ driver' = [driver EXCEPT ![q].published = FALSE]
    /\ kick' = [kick EXCEPT ![q] = @ \/ ring[q].avail_event = ring[q].avail - 1]
    /\ UNCHANGED <<ring, irq, limiter, net, tap, worker, restores>>

\* The driver's interrupt handler empties the used ring and asks for an
\* interrupt at the next entry.
DriverReap(q) ==
    /\ irq[q] /\ irq' = [irq EXCEPT ![q] = FALSE]
    /\ driver' = [driver EXCEPT ![q].seen = ring[q].used]
    /\ ring' = [ring EXCEPT ![q].used_event = ring[q].used]
    /\ UNCHANGED <<kick, limiter, net, tap, worker, restores>>

FrameArrives ==
    /\ tap.arrived < MaxFrames
    /\ tap' = [tap EXCEPT !.arrived = @ + 1, !.in = @ + 1]
    /\ UNCHANGED <<ring, driver, kick, irq, limiter, net, worker, restores>>

TapFillsOrDrains ==
    /\ tap' = [tap EXCEPT !.full = ~@]
    /\ UNCHANGED <<ring, driver, kick, irq, limiter, net, worker, restores>>

TimerExpires(q) ==
    /\ limiter[q] = "armed" /\ limiter' = [limiter EXCEPT ![q] = "ready"]
    /\ UNCHANGED <<ring, driver, kick, irq, net, tap, worker, restores>>

-----------------------------------------------------------------------------
(* Events of the worker, handled in any order.                             *)

is_blocked(q) == limiter[q] # "open"

\* The steps of the loop over the chains of a queue.
Enabling(q) == IF q = "rx" THEN "rx_enable" ELSE "tx_enable"
Checking(q) == IF q = "rx" THEN "rx_check" ELSE "tx_check"
Done(q) == IF q = "rx" THEN "rx_done" ELSE "tx_done"

Enter(pc) == worker' = [pc |-> pc, rate_limit_reached |-> FALSE, retry |-> FALSE]

handle_rx_event ==
    /\ worker.pc = "wait" /\ kick["rx"]
    /\ kick' = [kick EXCEPT !["rx"] = FALSE]
    /\ net' = [net EXCEPT !.driver_awake = TRUE, !.rx_desc_avail = TRUE,
                          !.rx_tap_listening = @ \/ ~is_blocked("rx")]
    /\ UNCHANGED <<ring, driver, irq, limiter, tap, worker, restores>>

handle_tx_event == Enter(IF is_blocked("tx") THEN "wait" ELSE "tx")

TxQueueEvent ==
    /\ worker.pc = "wait" /\ kick["tx"]
    /\ kick' = [kick EXCEPT !["tx"] = FALSE]
    /\ net' = [net EXCEPT !.driver_awake = TRUE]
    /\ handle_tx_event
    /\ UNCHANGED <<ring, driver, irq, limiter, tap, restores>>

TxTapEvent ==
    /\ worker.pc = "wait" /\ net.tx_tap_listening /\ ~tap.full
    /\ handle_tx_event
    /\ UNCHANGED <<ring, driver, kick, irq, limiter, net, tap, restores>>

handle_rx_tap_event ==
    /\ worker.pc = "wait" /\ net.rx_tap_listening /\ tap.in > 0
    /\ Enter("rx")
    /\ UNCHANGED <<ring, driver, kick, irq, limiter, net, tap, restores>>

RxRateLimiterEvent ==
    /\ worker.pc = "wait" /\ limiter["rx"] = "ready"
    /\ limiter' = [limiter EXCEPT !["rx"] = "open"]
    /\ net' = [net EXCEPT !.rx_tap_listening = @ \/ net.rx_desc_avail]
    /\ UNCHANGED <<ring, driver, kick, irq, tap, worker, restores>>

\* Mutant: the limiter's event does not restart the transmission.
TxRateLimiterEventIdle ==
    /\ worker.pc = "wait" /\ limiter["tx"] = "ready"
    /\ limiter' = [limiter EXCEPT !["tx"] = "open"]
    /\ UNCHANGED <<ring, driver, kick, irq, net, tap, worker, restores>>

TxRateLimiterEvent ==
    /\ worker.pc = "wait" /\ limiter["tx"] = "ready"
    /\ limiter' = [limiter EXCEPT !["tx"] = "open"]
    /\ net' = [net EXCEPT !.driver_awake = TRUE]
    /\ Enter("tx")
    /\ UNCHANGED <<ring, driver, kick, irq, tap, restores>>

-----------------------------------------------------------------------------
(* TxVirtio/RxVirtio::process_desc_chain, one ring access at a time.       *)

\* The chain is returned and RateLimiter::consume is called for it: a blocked
\* limiter refuses; an open one lets it pass, or blocks (after a refusal, or
\* after a loan for the last chain that passes).
ReturnChain(q) ==
    /\ ring' = [ring EXCEPT ![q] = [ring[q] EXCEPT !.next = ring[q].next + 1,
                                                !.used = ring[q].used + 1]]
    /\ \/ /\ worker' = [worker EXCEPT !.pc = Enabling(q),
                                      !.rate_limit_reached = is_blocked(q)]
          /\ UNCHANGED limiter
       \/ /\ ~is_blocked(q) /\ limiter' = [limiter EXCEPT ![q] = "armed"]
          /\ \E refused \in BOOLEAN :
                worker' = [worker EXCEPT !.pc = Enabling(q),
                                         !.rate_limit_reached = refused]

\* The tap would block: the iterator steps back and the loop ends.
WouldBlock(q) ==
    /\ worker' = [worker EXCEPT !.pc = Done(q), !.retry = TRUE]
    /\ UNCHANGED <<ring, limiter>>

\* An invalid chain, or another error of the tap, ends the thread.
Fail == worker' = [worker EXCEPT !.pc = "dead"] /\ UNCHANGED <<ring, limiter>>

HasChain(q) ==
    worker.pc = q /\ ring[q].next < ring[q].avail /\ ~worker.rate_limit_reached

TxChain ==
    /\ HasChain("tx")
    /\ \/ ~tap.full /\ ReturnChain("tx")
       \/ tap.full /\ WouldBlock("tx")
       \/ Fail
    /\ UNCHANGED <<driver, kick, irq, net, tap, restores>>

RxChain ==
    /\ HasChain("rx")
    /\ \/ /\ tap.in > 0 /\ ReturnChain("rx")
          /\ tap' = [tap EXCEPT !.in = @ - 1]
       \/ tap.in = 0 /\ WouldBlock("rx") /\ UNCHANGED tap
       \/ Fail /\ UNCHANGED tap
    /\ UNCHANGED <<driver, kick, irq, net, restores>>

\* No chain is left, or the limit is reached and the iterator steps back; only
\* the receive side reports that chains remain.
StopChains(q) ==
    /\ worker.pc = q /\ (ring[q].next = ring[q].avail \/ worker.rate_limit_reached)
    /\ worker' = [worker EXCEPT !.pc = Done(q),
                      !.retry = (q = "rx" /\ ring[q].next < ring[q].avail)]
    /\ UNCHANGED <<ring, driver, kick, irq, limiter, net, tap, restores>>

\* Queue::enable_notification: the threshold is published ...
EnableNotification(q) ==
    /\ worker.pc = Enabling(q)
    /\ ring' = [ring EXCEPT ![q].avail_event = ring[q].next]
    /\ worker' = [worker EXCEPT !.pc = Checking(q)]
    /\ UNCHANGED <<driver, kick, irq, limiter, net, tap, restores>>

\* ... and the ring is read again.
CheckAvail(q) ==
    /\ worker.pc = Checking(q)
    /\ worker' = [worker EXCEPT !.pc =
            IF ring[q].avail # ring[q].next THEN q ELSE Done(q)]
    /\ UNCHANGED <<ring, driver, kick, irq, limiter, net, tap, restores>>

\* Queue::needs_notification: has the used index passed used_event since the
\* last decision?
NeedsNotification(r) ==
    \/ r.signalled_used = -1
    \/ r.used_event \in r.signalled_used .. (r.used - 1)

SignalUsedQueue(q) ==
    /\ ring' = [ring EXCEPT ![q].signalled_used = ring[q].used]
    /\ irq' = [irq EXCEPT ![q] = @ \/ NeedsNotification(ring[q]) \/ ~net.driver_awake]
    /\ worker' = [worker EXCEPT !.pc = "wait"]

process_tx ==
    /\ worker.pc = "tx_done" /\ SignalUsedQueue("tx")
    /\ net' = [net EXCEPT !.tx_tap_listening = worker.retry]
    /\ UNCHANGED <<driver, kick, limiter, tap, restores>>

process_rx ==
    /\ worker.pc = "rx_done" /\ SignalUsedQueue("rx")
    /\ net' = [net EXCEPT !.rx_desc_avail = worker.retry, !.rx_tap_listening =
                    @ /\ worker.retry /\ ~is_blocked("rx")]
    /\ UNCHANGED <<driver, kick, limiter, tap, restores>>

\* A paused device is snapshot and restored into another VMM: rings and driver
\* are kept; the handler, its eventfds, listeners and timers are new.  Kicks
\* written before the pause event were handled before it.
Restore ==
    /\ restores < Restores /\ restores' = restores + 1
    /\ worker.pc = "wait" /\ kick = All(FALSE)
    /\ ring' = [q \in Queues |-> [ring[q] EXCEPT !.signalled_used = -1]]
    /\ limiter' = All("open")
    /\ net' = NewHandler(ring["rx"].used < ring["rx"].avail)
    /\ UNCHANGED <<driver, kick, irq, tap, worker>>

Next ==
    \/ \E q \in Queues : DriverPublish(q) \/ DriverKick(q) \/ DriverReap(q)
    \/ FrameArrives \/ TapFillsOrDrains
    \/ \E q \in Queues : TimerExpires(q)
    \/ handle_rx_event \/ TxQueueEvent \/ TxTapEvent \/ handle_rx_tap_event
    \/ RxRateLimiterEvent \/ TxRateLimiterEvent
    \/ TxChain \/ RxChain
    \/ \E q \in Queues : StopChains(q) \/ EnableNotification(q) \/ CheckAvail(q)
    \/ process_tx \/ process_rx
    \/ Restore

Spec == Activate /\ [][Next]_netVars

-----------------------------------------------------------------------------

\* A frame the driver has handed over is never forgotten: while the worker
\* waits, an unsent chain has a kick on its way, or the limiter's timer or a
\* writable tap will start the transmission again.
TxNotForgotten ==
    worker.pc = "wait" /\ ring["tx"].next < ring["tx"].avail =>
        \/ kick["tx"] \/ driver["tx"].published
        \/ is_blocked("tx")
        \/ net.tx_tap_listening

\* The same on receive: while buffers are in the ring the tap is watched, or a
\* kick or the limiter's event will watch it.
RxNotForgotten ==
    worker.pc = "wait" /\ ring["rx"].next < ring["rx"].avail =>
        \/ net.rx_tap_listening
        \/ kick["rx"] \/ driver["rx"].published
        \/ is_blocked("rx") /\ net.rx_desc_avail

\* A returned chain that the driver has not read has its interrupt raised,
\* unless the worker is still to decide about it.
UsedIsSignalled ==
    \A q \in Queues :
        ring[q].used > driver[q].seen /\ worker.pc \in {"wait"} \union
                (IF q = "tx" THEN {"rx", "rx_done"} ELSE {"tx", "tx_done"})
            => irq[q]

\* What either side hands over reaches the other.
FramesAreServed == TxNotForgotten /\ RxNotForgotten /\ UsedIsSignalled

=============================================================================
