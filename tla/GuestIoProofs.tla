---------------------------- MODULE GuestIoProofs ----------------------------
(***************************************************************************)
(* Proofs about the workers of a guest's network and disk (NetQueue and    *)
(* BlockQueue), as MCGuestIo puts them together.                           *)
(*                                                                         *)
(* For rings of any length and any number of frames, what a network device *)
(* returns is signalled, no receive buffer is forgotten, and no frame to   *)
(* transmit is, as long as the device is not restored.  For any number of  *)
(* requests of any kinds, no disk request is lost, and what is returned is *)
(* as durable as was promised, provided that the host's fsync does not     *)
(* fail.                                                                   *)
(***************************************************************************)
EXTENDS MCGuestIo, TLAPS

(* The network.                                                            *)

Ring == [avail : Nat, next : Nat, used : Nat, avail_event : Nat, used_event : Nat,
         signalled_used : Int]
Driver == [published : BOOLEAN, seen : Nat]
Handler == [rx_tap_listening : BOOLEAN, tx_tap_listening : BOOLEAN,
            rx_desc_avail : BOOLEAN, driver_awake : BOOLEAN]
Loop(q) == {q, N!Enabling(q), N!Checking(q)}
Phase(q) == Loop(q) \cup {N!Done(q)}
Pcs == {"wait", "dead"} \cup Phase("rx") \cup Phase("tx")
Worker == [pc : Pcs, rate_limit_reached : BOOLEAN, retry : BOOLEAN]

\* The types, without the bounds of TypeOK that no proof needs.
NetTypes ==
    /\ ring \in [N!Queues -> Ring] /\ driver \in [N!Queues -> Driver]
    /\ kick \in [N!Queues -> BOOLEAN] /\ irq \in [N!Queues -> BOOLEAN]
    /\ limiter \in [N!Queues -> {"open", "armed", "ready"}]
    /\ net \in Handler /\ worker \in Worker /\ restores \in Nat

\* The indices of a ring: the device asks to be kicked at the next chain, except
\* between taking a chain and saying so, and the driver to be interrupted at the
\* first chain it has not seen.
Indices(q) ==
    /\ ring[q].next <= ring[q].avail /\ ring[q].used = ring[q].next
    /\ driver[q].published => ring[q].avail >= 1
    /\ ring[q].avail_event = IF worker.pc = N!Enabling(q) THEN ring[q].next - 1 ELSE ring[q].next
    /\ ring[q].used_event = driver[q].seen /\ driver[q].seen <= ring[q].used
    /\ -1 <= ring[q].signalled_used /\ ring[q].signalled_used <= ring[q].used

\* What the loop over the chains of a queue knows.
InLoop(q) ==
    /\ worker.pc \in Loop(q) => ~worker.retry
    /\ worker.pc \in Phase(q) /\ worker.rate_limit_reached => N!is_blocked(q)
    /\ worker.pc \in Phase("rx") => net.rx_tap_listening

\* The chains whose kick is not still to come.
Announced(q) == IF driver[q].published THEN ring[q].avail - 1 ELSE ring[q].avail

\* A chain that the driver has announced is on its way, at every step of the
\* worker: TxNotForgotten and RxNotForgotten say so only for the worker that waits.
TxOnItsWay ==
    ring["tx"].next < Announced("tx") =>
        \/ kick["tx"] \/ N!is_blocked("tx") \/ worker.pc \in Loop("tx") \cup {"dead"}
        \/ worker.pc = "tx_done" /\ worker.retry
        \/ worker.pc \notin Phase("tx") /\ net.tx_tap_listening
RxOnItsWay ==
    ring["rx"].next < Announced("rx") =>
        \/ kick["rx"] \/ worker.pc \in Loop("rx") \cup {"dead"}
        \/ worker.pc = "rx_done" /\ worker.retry
        \/ /\ worker.pc \notin Phase("rx")
           /\ net.rx_tap_listening \/ (N!is_blocked("rx") /\ net.rx_desc_avail)

\* The driver has an interrupt for what it has not seen, unless the worker is
\* still to decide; and for what the worker has decided upon.
Signalled(q) ==
    /\ worker.pc \notin Phase(q) \cup {"dead"} /\ ring[q].used > driver[q].seen => irq[q]
    /\ ring[q].signalled_used > driver[q].seen => irq[q]

PerQueue == \A q \in N!Queues : Indices(q) /\ InLoop(q) /\ Signalled(q)

\* The inductive invariant; with TxOnItsWay, that of TxNotForgotten.
NetInv == NetTypes /\ PerQueue /\ RxOnItsWay

-----------------------------------------------------------------------------

\* The worker is where one queue is served, or waits.
LEMMA Places ==
    ASSUME NEW q \in N!Queues
    PROVE  /\ q \in Pcs /\ N!Enabling(q) \in Pcs /\ N!Checking(q) \in Pcs /\ N!Done(q) \in Pcs
           /\ Loop("rx") = {"rx", "rx_enable", "rx_check"} /\ N!Done("rx") = "rx_done"
           /\ Loop("tx") = {"tx", "tx_enable", "tx_check"} /\ N!Done("tx") = "tx_done"
BY DEF N!Queues, Pcs, Phase, Loop, N!Enabling, N!Checking, N!Done

LEMMA NetInitially ==
    ASSUME MaxChains \in Nat, N!Activate PROVE NetInv /\ TxOnItsWay
<1> USE DEF N!Activate
<1>1. NetTypes
  BY SMTT(30) DEF NetTypes, Ring, Driver, Handler, Worker, Pcs, N!NewHandler, N!All, N!Queues
<1>2. ASSUME NEW q \in N!Queues PROVE Indices(q) /\ InLoop(q) /\ Signalled(q)
  BY <1>2 DEF Indices, InLoop, Signalled, Loop, Phase, N!Enabling, N!Checking, N!Done, N!All, N!Queues
<1>3. RxOnItsWay /\ TxOnItsWay
  BY DEF RxOnItsWay, TxOnItsWay, Announced, N!All, N!Queues
<1> QED BY <1>1, <1>2, <1>3 DEF NetInv, PerQueue

\* process_desc_chain takes a chain, returns it and asks the limiter: the loop goes
\* on, and ends with the limiter blocked when the limiter refuses.
LEMMA ReturnChainStep ==
    ASSUME NetInv, NEW r \in N!Queues, N!HasChain(r), N!ReturnChain(r),
           UNCHANGED <<driver, kick, irq, net, restores>>
    PROVE  NetInv'
<1> USE DEF NetInv, PerQueue, N!HasChain, N!Queues, Phase, Loop, N!Enabling, N!Checking, N!Done, N!is_blocked
<1> DEFINE taken == [ring[r] EXCEPT !.next = ring[r].next + 1, !.used = ring[r].used + 1]
<1>1. ring[r] \in Ring /\ ring[r].next < ring[r].avail /\ ring' = [ring EXCEPT ![r] = taken]
  BY DEF N!ReturnChain, NetTypes
<1>2. /\ ring' \in [N!Queues -> Ring]
      /\ \A q \in N!Queues : q # r => ring'[q] = ring[q]
      /\ ring'[r] = taken
  <2>1. taken \in Ring
    <3>1. ring[r].next + 1 \in Nat /\ ring[r].used + 1 \in Nat
      BY <1>1 DEF Ring
    <3>2. \A m, n \in Nat : [ring[r] EXCEPT !.next = m, !.used = n] \in Ring
      BY <1>1 DEF Ring
    <3> QED BY <3>1, <3>2
  <2> HIDE DEF taken
  <2> QED BY <1>1, <2>1 DEF NetTypes
<1>3. /\ worker' \in Worker /\ worker'.pc = N!Enabling(r) /\ ~worker'.retry
      /\ worker'.rate_limit_reached => limiter'[r] # "open"
      /\ limiter' \in [N!Queues -> {"open", "armed", "ready"}]
      /\ \A q \in N!Queues : q # r => limiter'[q] = limiter[q]
  <2>1. \/ limiter' = limiter \/ limiter' = [limiter EXCEPT ![r] = "armed"]
    BY DEF N!ReturnChain
  <2>2. PICK refused \in BOOLEAN :
          /\ worker' = [worker EXCEPT !.pc = N!Enabling(r), !.rate_limit_reached = refused]
          /\ refused => limiter'[r] # "open"
    BY DEF N!ReturnChain, NetTypes
  <2> QED BY ZenonT(30), <2>1, <2>2 DEF NetTypes, Worker, Pcs, InLoop
<1>4. NetTypes'
  BY <1>2, <1>3 DEF NetTypes
<1>5. ASSUME NEW q \in N!Queues PROVE (Indices(q) /\ InLoop(q) /\ Signalled(q))'
  <2>1. Indices(q)'
    BY <1>1, <1>2, <1>3 DEF NetTypes, Indices, Ring, Driver
  <2>2. InLoop(q)'
    BY <1>3 DEF InLoop
  <2>3. Signalled(q)'
    BY <1>1, <1>2, <1>3 DEF Signalled, NetTypes, Ring
  <2> QED BY <2>1, <2>2, <2>3
<1>6. RxOnItsWay'
  BY <1>1, <1>2, <1>3 DEF RxOnItsWay, Announced, NetTypes, Ring, Driver
<1> QED BY <1>4, <1>5, <1>6

\* The tap would block, or fails: the loop ends, to be tried again or not at all.
LEMMA NoChainStep ==
    ASSUME NetInv, NEW r \in N!Queues, N!HasChain(r), N!WouldBlock(r) \/ N!Fail,
           UNCHANGED <<driver, kick, irq, net, restores>>
    PROVE  NetInv'
<1> USE DEF NetInv, PerQueue, N!HasChain, N!WouldBlock, N!Fail, N!Queues, Phase, Loop, N!Enabling, N!Checking, N!Done,
            N!is_blocked
<1>1. NetTypes'
  BY DEF NetTypes, Worker, Pcs
<1>2. ASSUME NEW q \in N!Queues PROVE (Indices(q) /\ InLoop(q) /\ Signalled(q))'
  BY ZenonT(30) DEF NetTypes, Indices, InLoop, Signalled, Worker
<1>3. RxOnItsWay'
  BY DEF RxOnItsWay, Announced, NetTypes, Worker
<1> QED BY <1>1, <1>2, <1>3

\* The worker is done with a queue and decides whether to interrupt: the driver has
\* been interrupted for all that it has not seen, or its used_event was not passed.
LEMMA SignalStep ==
    ASSUME NetInv, NEW r \in N!Queues, worker.pc = N!Done(r), N!SignalUsedQueue(r), UNCHANGED driver
    PROVE  /\ ring' \in [N!Queues -> Ring] /\ irq' \in [N!Queues -> BOOLEAN] /\ worker' \in Worker
           /\ \A q \in N!Queues : q # r => ring'[q] = ring[q] /\ irq'[q] = irq[q]
           /\ ring'[r] = [ring[r] EXCEPT !.signalled_used = ring[r].used]
           /\ worker' = [worker EXCEPT !.pc = "wait"]
           /\ \A q \in N!Queues : Signalled(q)'
<1> USE DEF NetInv, PerQueue, N!Queues
<1>1. /\ ring' = [ring EXCEPT ![r] = [ring[r] EXCEPT !.signalled_used = ring[r].used]]
      /\ worker' = [worker EXCEPT !.pc = "wait"]
      /\ \A q \in N!Queues : q # r => irq'[q] = irq[q]
      /\ irq'[r] = (irq[r] \/ N!NeedsNotification(ring[r]) \/ ~net.driver_awake)
      /\ irq' \in [N!Queues -> BOOLEAN]
  BY DEF N!SignalUsedQueue, NetTypes, Handler
<1>2. /\ ring' \in [N!Queues -> Ring] /\ worker' \in Worker
      /\ \A q \in N!Queues : q # r => ring'[q] = ring[q]
      /\ ring'[r] = [ring[r] EXCEPT !.signalled_used = ring[r].used]
  BY <1>1 DEF NetTypes, Ring, Worker, Pcs
<1>3. ring[r].used > driver[r].seen => irq'[r]
  BY <1>1 DEF Signalled, Indices, N!NeedsNotification, NetTypes, Ring, Driver
<1>4. ASSUME NEW q \in N!Queues PROVE Signalled(q)'
  <2>1. CASE q = r
    BY <1>2, <1>3, <2>1 DEF Signalled, NetTypes, Ring
  <2>2. CASE q # r
    <3>1. worker.pc \notin Phase(q) \cup {"dead"}
      BY <2>2 DEF Phase, Loop, N!Enabling, N!Checking, N!Done
    <3> QED BY <1>1, <1>2, <2>2, <3>1 DEF Signalled
  <2> QED BY <2>1, <2>2
<1> QED BY <1>1, <1>2, <1>4

\* Every step keeps the invariant.
LEMMA NetStep ==
    ASSUME MaxChains \in Nat, NetInv, [N!Next]_(N!netVars) PROVE NetInv'
<1> USE DEF NetInv, PerQueue, N!Queues, Phase, Loop, N!Enabling, N!Checking, N!Done, N!is_blocked
<1>1. ASSUME NEW r \in N!Queues, N!DriverPublish(r) PROVE NetInv'
  <2> USE <1>1 DEF N!DriverPublish
  <2>1. NetTypes'
    <3>1. ring' = [ring EXCEPT ![r] = [ring[r] EXCEPT !.avail = ring[r].avail + 1]]
      BY DEF NetTypes, Ring
    <3>2. ring' \in [N!Queues -> Ring]
      BY <3>1 DEF NetTypes, Ring
    <3> QED BY <3>2 DEF NetTypes, Driver
  <2>2. ASSUME NEW q \in N!Queues PROVE (Indices(q) /\ InLoop(q) /\ Signalled(q))'
    <3>1. Indices(q)'
      BY DEF NetTypes, Indices, Ring, Driver, Worker
    <3>2. InLoop(q)'
      BY DEF NetTypes, InLoop, Worker, Handler
    <3>3. Signalled(q)'
      BY DEF NetTypes, Signalled, Indices, Ring, Driver, Worker
    <3> QED BY <3>1, <3>2, <3>3
  <2>3. RxOnItsWay'
    BY DEF NetTypes, RxOnItsWay, Announced, Indices, InLoop, Ring, Driver, Worker, Handler
  <2> QED BY <2>1, <2>2, <2>3 DEF PerQueue
<1>2. ASSUME NEW r \in N!Queues, N!DriverKick(r) PROVE NetInv'
  <2> USE <1>2 DEF N!DriverKick
  <2>1. NetTypes'
    BY ZenonT(60) DEF NetTypes, Ring, Driver, Handler, Worker, Pcs
  <2>2. ASSUME NEW q \in N!Queues PROVE (Indices(q) /\ InLoop(q) /\ Signalled(q))'
    <3>1. Indices(q)'
      BY DEF NetTypes, Indices, Ring, Driver, Worker
    <3>2. InLoop(q)'
      BY DEF NetTypes, InLoop, Worker, Handler
    <3>3. Signalled(q)'
      BY DEF NetTypes, Signalled, Indices, Ring, Driver, Worker
    <3> QED BY <3>1, <3>2, <3>3
  <2>3. RxOnItsWay'
    BY DEF NetTypes, RxOnItsWay, Announced, Indices, InLoop, Ring, Driver, Worker, Handler
  <2> QED BY <2>1, <2>2, <2>3 DEF PerQueue
<1>3. ASSUME NEW r \in N!Queues, N!DriverReap(r) PROVE NetInv'
  <2> USE <1>3 DEF N!DriverReap
  <2>1. NetTypes'
    BY SMTT(30) DEF NetTypes, Ring, Driver, Handler, Worker, Pcs
  <2>2. ASSUME NEW q \in N!Queues PROVE (Indices(q) /\ InLoop(q) /\ Signalled(q))'
    <3>1. Indices(q)'
      BY DEF NetTypes, Indices, Ring, Driver, Worker
    <3>2. InLoop(q)'
      BY DEF NetTypes, InLoop, Worker, Handler
    <3>3. Signalled(q)'
      BY DEF NetTypes, Signalled, Indices, Ring, Driver, Worker
    <3> QED BY <3>1, <3>2, <3>3
  <2>3. RxOnItsWay'
    BY DEF NetTypes, RxOnItsWay, Announced, Indices, InLoop, Ring, Driver, Worker, Handler
  <2> QED BY <2>1, <2>2, <2>3 DEF PerQueue
<1>4. ASSUME N!FrameArrives \/ N!TapFillsOrDrains PROVE NetInv'
  <2> USE <1>4 DEF N!FrameArrives, N!TapFillsOrDrains
  <2>1. NetTypes'
    BY SMTT(30) DEF NetTypes, Ring, Driver, Handler, Worker, Pcs
  <2>2. ASSUME NEW q \in N!Queues PROVE (Indices(q) /\ InLoop(q) /\ Signalled(q))'
    <3>1. Indices(q)'
      BY DEF NetTypes, Indices, Ring, Driver, Worker
    <3>2. InLoop(q)'
      BY DEF NetTypes, InLoop, Worker, Handler
    <3>3. Signalled(q)'
      BY DEF NetTypes, Signalled, Indices, Ring, Driver, Worker
    <3> QED BY <3>1, <3>2, <3>3
  <2>3. RxOnItsWay'
    BY DEF NetTypes, RxOnItsWay, Announced, Indices, InLoop, Ring, Driver, Worker, Handler
  <2> QED BY <2>1, <2>2, <2>3 DEF PerQueue
<1>5. ASSUME NEW r \in N!Queues, N!TimerExpires(r) PROVE NetInv'
  <2> USE <1>5 DEF N!TimerExpires
  <2>1. NetTypes'
    BY SMTT(30) DEF NetTypes, Ring, Driver, Handler, Worker, Pcs
  <2>2. ASSUME NEW q \in N!Queues PROVE (Indices(q) /\ InLoop(q) /\ Signalled(q))'
    <3>1. Indices(q)'
      BY DEF NetTypes, Indices, Ring, Driver, Worker
    <3>2. InLoop(q)'
      BY DEF NetTypes, InLoop, Worker, Handler
    <3>3. Signalled(q)'
      BY DEF NetTypes, Signalled, Indices, Ring, Driver, Worker
    <3> QED BY <3>1, <3>2, <3>3
  <2>3. RxOnItsWay'
    BY DEF NetTypes, RxOnItsWay, Announced, Indices, InLoop, Ring, Driver, Worker, Handler
  <2> QED BY <2>1, <2>2, <2>3 DEF PerQueue
<1>6. ASSUME N!handle_rx_event PROVE NetInv'
  <2> USE <1>6 DEF N!handle_rx_event
  <2>1. NetTypes'
    BY ZenonT(60) DEF NetTypes, Ring, Driver, Handler, Worker, Pcs
  <2>2. ASSUME NEW q \in N!Queues PROVE (Indices(q) /\ InLoop(q) /\ Signalled(q))'
    <3>1. Indices(q)'
      BY DEF NetTypes, Indices, Ring, Driver, Worker
    <3>2. InLoop(q)'
      BY DEF NetTypes, InLoop, Worker, Handler
    <3>3. Signalled(q)'
      BY DEF NetTypes, Signalled, Indices, Ring, Driver, Worker
    <3> QED BY <3>1, <3>2, <3>3
  <2>3. RxOnItsWay'
    BY DEF NetTypes, RxOnItsWay, Announced, Indices, InLoop, Ring, Driver, Worker, Handler
  <2> QED BY <2>1, <2>2, <2>3 DEF PerQueue
<1>7. ASSUME N!TxQueueEvent PROVE NetInv'
  <2> USE <1>7 DEF N!TxQueueEvent, N!handle_tx_event, N!Enter
  <2>1. NetTypes'
    BY ZenonT(60) DEF NetTypes, Ring, Driver, Handler, Worker, Pcs
  <2>2. ASSUME NEW q \in N!Queues PROVE (Indices(q) /\ InLoop(q) /\ Signalled(q))'
    <3>1. Indices(q)'
      BY DEF NetTypes, Indices, Ring, Driver, Worker
    <3>2. InLoop(q)'
      BY DEF NetTypes, InLoop, Worker, Handler
    <3>3. Signalled(q)'
      BY DEF NetTypes, Signalled, Indices, Ring, Driver, Worker
    <3> QED BY <3>1, <3>2, <3>3
  <2>3. RxOnItsWay'
    BY DEF NetTypes, RxOnItsWay, Announced, Indices, InLoop, Ring, Driver, Worker, Handler
  <2> QED BY <2>1, <2>2, <2>3 DEF PerQueue
<1>8. ASSUME N!TxTapEvent PROVE NetInv'
  <2> USE <1>8 DEF N!TxTapEvent, N!handle_tx_event, N!Enter
  <2>1. NetTypes'
    BY SMTT(30) DEF NetTypes, Ring, Driver, Handler, Worker, Pcs
  <2>2. ASSUME NEW q \in N!Queues PROVE (Indices(q) /\ InLoop(q) /\ Signalled(q))'
    <3>1. Indices(q)'
      BY DEF NetTypes, Indices, Ring, Driver, Worker
    <3>2. InLoop(q)'
      BY DEF NetTypes, InLoop, Worker, Handler
    <3>3. Signalled(q)'
      BY DEF NetTypes, Signalled, Indices, Ring, Driver, Worker
    <3> QED BY <3>1, <3>2, <3>3
  <2>3. RxOnItsWay'
    BY DEF NetTypes, RxOnItsWay, Announced, Indices, InLoop, Ring, Driver, Worker, Handler
  <2> QED BY <2>1, <2>2, <2>3 DEF PerQueue
<1>9. ASSUME N!handle_rx_tap_event PROVE NetInv'
  <2> USE <1>9 DEF N!handle_rx_tap_event, N!Enter
  <2>1. NetTypes'
    BY SMTT(30) DEF NetTypes, Ring, Driver, Handler, Worker, Pcs
  <2>2. ASSUME NEW q \in N!Queues PROVE (Indices(q) /\ InLoop(q) /\ Signalled(q))'
    <3>1. Indices(q)'
      BY DEF NetTypes, Indices, Ring, Driver, Worker
    <3>2. InLoop(q)'
      BY DEF NetTypes, InLoop, Worker, Handler
    <3>3. Signalled(q)'
      BY DEF NetTypes, Signalled, Indices, Ring, Driver, Worker
    <3> QED BY <3>1, <3>2, <3>3
  <2>3. RxOnItsWay'
    BY DEF NetTypes, RxOnItsWay, Announced, Indices, InLoop, Ring, Driver, Worker, Handler
  <2> QED BY <2>1, <2>2, <2>3 DEF PerQueue
<1>10. ASSUME N!RxRateLimiterEvent PROVE NetInv'
  <2> USE <1>10 DEF N!RxRateLimiterEvent
  <2>1. NetTypes'
    BY SMTT(30) DEF NetTypes, Ring, Driver, Handler, Worker, Pcs
  <2>2. ASSUME NEW q \in N!Queues PROVE (Indices(q) /\ InLoop(q) /\ Signalled(q))'
    <3>1. Indices(q)'
      BY DEF NetTypes, Indices, Ring, Driver, Worker
    <3>2. InLoop(q)'
      BY DEF NetTypes, InLoop, Worker, Handler
    <3>3. Signalled(q)'
      BY DEF NetTypes, Signalled, Indices, Ring, Driver, Worker
    <3> QED BY <3>1, <3>2, <3>3
  <2>3. RxOnItsWay'
    BY DEF NetTypes, RxOnItsWay, Announced, Indices, InLoop, Ring, Driver, Worker, Handler
  <2> QED BY <2>1, <2>2, <2>3 DEF PerQueue
<1>11. ASSUME N!TxRateLimiterEvent PROVE NetInv'
  <2> USE <1>11 DEF N!TxRateLimiterEvent, N!Enter
  <2>1. NetTypes'
    BY ZenonT(60) DEF NetTypes, Ring, Driver, Handler, Worker, Pcs
  <2>2. ASSUME NEW q \in N!Queues PROVE (Indices(q) /\ InLoop(q) /\ Signalled(q))'
    <3>1. Indices(q)'
      BY DEF NetTypes, Indices, Ring, Driver, Worker
    <3>2. InLoop(q)'
      BY DEF NetTypes, InLoop, Worker, Handler
    <3>3. Signalled(q)'
      BY DEF NetTypes, Signalled, Indices, Ring, Driver, Worker
    <3> QED BY <3>1, <3>2, <3>3
  <2>3. RxOnItsWay'
    BY DEF NetTypes, RxOnItsWay, Announced, Indices, InLoop, Ring, Driver, Worker, Handler
  <2> QED BY <2>1, <2>2, <2>3 DEF PerQueue
<1>12. ASSUME N!TxChain PROVE NetInv'
  BY <1>12, ReturnChainStep, NoChainStep DEF N!TxChain
<1>13. ASSUME N!RxChain PROVE NetInv'
  BY <1>13, ReturnChainStep, NoChainStep DEF N!RxChain
<1>14. ASSUME NEW r \in N!Queues, N!StopChains(r) PROVE NetInv'
  <2> USE <1>14 DEF N!StopChains
  <2>1. NetTypes'
    BY ZenonT(60) DEF NetTypes, Ring, Driver, Handler, Worker, Pcs
  <2>2. ASSUME NEW q \in N!Queues PROVE (Indices(q) /\ InLoop(q) /\ Signalled(q))'
    <3>1. Indices(q)'
      BY DEF NetTypes, Indices, Ring, Driver, Worker
    <3>2. InLoop(q)'
      BY DEF NetTypes, InLoop, Worker, Handler
    <3>3. Signalled(q)'
      BY DEF NetTypes, Signalled, Indices, Ring, Driver, Worker
    <3> QED BY <3>1, <3>2, <3>3
  <2>3. RxOnItsWay'
    BY DEF NetTypes, RxOnItsWay, Announced, Indices, InLoop, Ring, Driver, Worker, Handler
  <2> QED BY <2>1, <2>2, <2>3 DEF PerQueue
<1>15. ASSUME NEW r \in N!Queues, N!EnableNotification(r) PROVE NetInv'
  <2> USE <1>15 DEF N!EnableNotification
  <2>1. NetTypes'
    BY SMTT(30) DEF NetTypes, Ring, Driver, Handler, Worker, Pcs
  <2>2. ASSUME NEW q \in N!Queues PROVE (Indices(q) /\ InLoop(q) /\ Signalled(q))'
    <3>1. Indices(q)'
      BY DEF NetTypes, Indices, Ring, Driver, Worker
    <3>2. InLoop(q)'
      BY DEF NetTypes, InLoop, Worker, Handler
    <3>3. Signalled(q)'
      BY DEF NetTypes, Signalled, Indices, Ring, Driver, Worker
    <3> QED BY <3>1, <3>2, <3>3
  <2>3. RxOnItsWay'
    BY DEF NetTypes, RxOnItsWay, Announced, Indices, InLoop, Ring, Driver, Worker, Handler
  <2> QED BY <2>1, <2>2, <2>3 DEF PerQueue
<1>16. ASSUME NEW r \in N!Queues, N!CheckAvail(r) PROVE NetInv'
  <2> USE <1>16 DEF N!CheckAvail
  <2>1. NetTypes'
    BY SMTT(30) DEF NetTypes, Ring, Driver, Handler, Worker, Pcs
  <2>2. ASSUME NEW q \in N!Queues PROVE (Indices(q) /\ InLoop(q) /\ Signalled(q))'
    <3>1. Indices(q)'
      BY DEF NetTypes, Indices, Ring, Driver, Worker
    <3>2. InLoop(q)'
      BY DEF NetTypes, InLoop, Worker, Handler
    <3>3. Signalled(q)'
      BY DEF NetTypes, Signalled, Indices, Ring, Driver, Worker
    <3> QED BY <3>1, <3>2, <3>3
  <2>3. RxOnItsWay'
    BY DEF NetTypes, RxOnItsWay, Announced, Indices, InLoop, Ring, Driver, Worker, Handler
  <2> QED BY <2>1, <2>2, <2>3 DEF PerQueue
<1>17. ASSUME N!process_tx PROVE NetInv'
  <2> USE <1>17 DEF N!process_tx
  <2>0. /\ ring' \in [N!Queues -> Ring] /\ irq' \in [N!Queues -> BOOLEAN] /\ worker' \in Worker
        /\ \A q \in N!Queues : q # "tx" => ring'[q] = ring[q] /\ irq'[q] = irq[q]
        /\ ring'["tx"] = [ring["tx"] EXCEPT !.signalled_used = ring["tx"].used]
        /\ worker' = [worker EXCEPT !.pc = "wait"]
        /\ \A q \in N!Queues : Signalled(q)'
    BY SignalStep
  <2>1. NetTypes'
    BY <2>0 DEF NetTypes, Handler, Worker
  <2>2. ASSUME NEW q \in N!Queues PROVE (Indices(q) /\ InLoop(q) /\ Signalled(q))'
    <3>1. Indices(q)'
      BY <2>0 DEF NetTypes, Indices, Ring, Driver, Worker
    <3>2. InLoop(q)'
      BY <2>0 DEF NetTypes, InLoop, Worker, Handler
    <3>3. Signalled(q)'
      BY <2>0
    <3> QED BY <3>1, <3>2, <3>3
  <2>3. RxOnItsWay'
    BY <2>0 DEF NetTypes, RxOnItsWay, Announced, Indices, InLoop, Ring, Driver, Worker, Handler
  <2> QED BY <2>1, <2>2, <2>3 DEF PerQueue
<1>18. ASSUME N!process_rx PROVE NetInv'
  <2> USE <1>18 DEF N!process_rx
  <2>0. /\ ring' \in [N!Queues -> Ring] /\ irq' \in [N!Queues -> BOOLEAN] /\ worker' \in Worker
        /\ \A q \in N!Queues : q # "rx" => ring'[q] = ring[q] /\ irq'[q] = irq[q]
        /\ ring'["rx"] = [ring["rx"] EXCEPT !.signalled_used = ring["rx"].used]
        /\ worker' = [worker EXCEPT !.pc = "wait"]
        /\ \A q \in N!Queues : Signalled(q)'
    BY SignalStep
  <2>1. NetTypes'
    BY <2>0 DEF NetTypes, Handler, Worker
  <2>2. ASSUME NEW q \in N!Queues PROVE (Indices(q) /\ InLoop(q) /\ Signalled(q))'
    <3>1. Indices(q)'
      BY <2>0 DEF NetTypes, Indices, Ring, Driver, Worker
    <3>2. InLoop(q)'
      BY <2>0 DEF NetTypes, InLoop, Worker, Handler
    <3>3. Signalled(q)'
      BY <2>0
    <3> QED BY <3>1, <3>2, <3>3
  <2>3. RxOnItsWay'
    BY <2>0 DEF NetTypes, RxOnItsWay, Announced, Indices, InLoop, Ring, Driver, Worker, Handler
  <2> QED BY <2>1, <2>2, <2>3 DEF PerQueue
<1>19. ASSUME N!Restore PROVE NetInv'
  <2> USE <1>19 DEF N!Restore, N!All, N!NewHandler
  <2>1. NetTypes'
    BY SMTT(30) DEF NetTypes, Ring, Driver, Handler, Worker, Pcs
  <2>2. ASSUME NEW q \in N!Queues PROVE (Indices(q) /\ InLoop(q) /\ Signalled(q))'
    <3>1. Indices(q)'
      BY DEF NetTypes, Indices, Ring, Driver, Worker
    <3>2. InLoop(q)'
      BY DEF NetTypes, InLoop, Worker, Handler
    <3>3. Signalled(q)'
      BY DEF NetTypes, Signalled, Indices, Ring, Driver, Worker
    <3> QED BY <3>1, <3>2, <3>3
  <2>3. RxOnItsWay'
    BY DEF NetTypes, RxOnItsWay, Announced, Indices, InLoop, Ring, Driver, Worker, Handler
  <2> QED BY <2>1, <2>2, <2>3 DEF PerQueue
<1>20. CASE UNCHANGED N!netVars
  BY <1>20 DEF N!netVars, NetTypes, PerQueue, Indices, InLoop, Signalled, RxOnItsWay, Announced
<1> QED
  BY <1>1, <1>2, <1>3, <1>4, <1>5, <1>6, <1>7, <1>8, <1>9, <1>10, <1>11, <1>12, <1>13, <1>14, <1>15, <1>16, <1>17, <1>18, <1>19, <1>20 DEF N!Next

\* A transmission is not forgotten by a step of a device that is not restored: what
\* the limiter holds back its event starts again, what the tap holds back the tap does.
LEMMA TxStep ==
    ASSUME MaxChains \in Nat, Restores = 0, NetInv, TxOnItsWay, [N!Next]_(N!netVars) PROVE TxOnItsWay'
<1> USE DEF NetInv, PerQueue, N!Queues, Phase, Loop, N!Enabling, N!Checking, N!Done, N!is_blocked
<1>1. ASSUME NEW r \in N!Queues, N!DriverPublish(r) PROVE TxOnItsWay'
  BY <1>1 DEF NetTypes, TxOnItsWay, Announced, Indices, InLoop, Ring, Driver, Worker, Handler, N!DriverPublish
<1>2. ASSUME NEW r \in N!Queues, N!DriverKick(r) PROVE TxOnItsWay'
  BY <1>2 DEF NetTypes, TxOnItsWay, Announced, Indices, InLoop, Ring, Driver, Worker, Handler, N!DriverKick
<1>3. ASSUME NEW r \in N!Queues, N!DriverReap(r) PROVE TxOnItsWay'
  BY <1>3 DEF NetTypes, TxOnItsWay, Announced, Indices, InLoop, Ring, Driver, Worker, Handler, N!DriverReap
<1>4. ASSUME N!FrameArrives \/ N!TapFillsOrDrains PROVE TxOnItsWay'
  BY <1>4 DEF NetTypes, TxOnItsWay, Announced, Indices, InLoop, Ring, Driver, Worker, Handler, N!FrameArrives, N!TapFillsOrDrains
<1>5. ASSUME NEW r \in N!Queues, N!TimerExpires(r) PROVE TxOnItsWay'
  BY <1>5 DEF NetTypes, TxOnItsWay, Announced, Indices, InLoop, Ring, Driver, Worker, Handler, N!TimerExpires
<1>6. ASSUME N!handle_rx_event PROVE TxOnItsWay'
  BY <1>6 DEF NetTypes, TxOnItsWay, Announced, Indices, InLoop, Ring, Driver, Worker, Handler, N!handle_rx_event
<1>7. ASSUME N!TxQueueEvent PROVE TxOnItsWay'
  BY <1>7 DEF NetTypes, TxOnItsWay, Announced, Indices, InLoop, Ring, Driver, Worker, Handler, N!TxQueueEvent, N!handle_tx_event, N!Enter
<1>8. ASSUME N!TxTapEvent PROVE TxOnItsWay'
  BY <1>8 DEF NetTypes, TxOnItsWay, Announced, Indices, InLoop, Ring, Driver, Worker, Handler, N!TxTapEvent, N!handle_tx_event, N!Enter
<1>9. ASSUME N!handle_rx_tap_event PROVE TxOnItsWay'
  BY <1>9 DEF NetTypes, TxOnItsWay, Announced, Indices, InLoop, Ring, Driver, Worker, Handler, N!handle_rx_tap_event, N!Enter
<1>10. ASSUME N!RxRateLimiterEvent PROVE TxOnItsWay'
  BY <1>10 DEF NetTypes, TxOnItsWay, Announced, Indices, InLoop, Ring, Driver, Worker, Handler, N!RxRateLimiterEvent
<1>11. ASSUME N!TxRateLimiterEvent PROVE TxOnItsWay'
  BY <1>11 DEF NetTypes, TxOnItsWay, Announced, Indices, InLoop, Ring, Driver, Worker, Handler, N!TxRateLimiterEvent, N!Enter
<1>12. ASSUME N!TxChain PROVE TxOnItsWay'
  BY <1>12 DEF NetTypes, TxOnItsWay, Announced, Indices, InLoop, Ring, Driver, Worker, Handler, N!TxChain, N!HasChain, N!ReturnChain, N!WouldBlock, N!Fail
<1>13. ASSUME N!RxChain PROVE TxOnItsWay'
  BY <1>13 DEF NetTypes, TxOnItsWay, Announced, Indices, InLoop, Ring, Driver, Worker, Handler, N!RxChain, N!HasChain, N!ReturnChain, N!WouldBlock, N!Fail
<1>14. ASSUME NEW r \in N!Queues, N!StopChains(r) PROVE TxOnItsWay'
  BY <1>14 DEF NetTypes, TxOnItsWay, Announced, Indices, InLoop, Ring, Driver, Worker, Handler, N!StopChains
<1>15. ASSUME NEW r \in N!Queues, N!EnableNotification(r) PROVE TxOnItsWay'
  BY <1>15 DEF NetTypes, TxOnItsWay, Announced, Indices, InLoop, Ring, Driver, Worker, Handler, N!EnableNotification
<1>16. ASSUME NEW r \in N!Queues, N!CheckAvail(r) PROVE TxOnItsWay'
  BY <1>16 DEF NetTypes, TxOnItsWay, Announced, Indices, InLoop, Ring, Driver, Worker, Handler, N!CheckAvail
<1>17. ASSUME N!process_tx PROVE TxOnItsWay'
  BY <1>17 DEF NetTypes, TxOnItsWay, Announced, Indices, InLoop, Ring, Driver, Worker, Handler, N!process_tx, N!SignalUsedQueue, N!NeedsNotification
<1>18. ASSUME N!process_rx PROVE TxOnItsWay'
  BY <1>18 DEF NetTypes, TxOnItsWay, Announced, Indices, InLoop, Ring, Driver, Worker, Handler, N!process_rx, N!SignalUsedQueue, N!NeedsNotification
<1>19. ASSUME N!Restore PROVE TxOnItsWay'
  BY <1>19 DEF N!Restore, NetTypes
<1>20. CASE UNCHANGED N!netVars
  BY <1>20 DEF TxOnItsWay, Announced, N!netVars
<1> QED
  BY <1>1, <1>2, <1>3, <1>4, <1>5, <1>6, <1>7, <1>8, <1>9, <1>10, <1>11, <1>12, <1>13, <1>14, <1>15, <1>16, <1>17, <1>18, <1>19, <1>20 DEF N!Next

\* What the invariants say of a worker that waits.
LEMMA Served ==
    /\ NetInv => N!RxNotForgotten /\ N!UsedIsSignalled
    /\ TxOnItsWay => N!TxNotForgotten
<1> USE DEF Announced, Phase, Loop, N!Enabling, N!Checking, N!Done
<1>1. NetInv => N!RxNotForgotten
  BY DEF NetInv, RxOnItsWay, N!RxNotForgotten
<1>2. NetInv => N!UsedIsSignalled
  BY DEF NetInv, PerQueue, Signalled, N!UsedIsSignalled, N!Queues
<1>3. TxOnItsWay => N!TxNotForgotten
  BY DEF TxOnItsWay, N!TxNotForgotten
<1> QED
  BY <1>1, <1>2, <1>3

-----------------------------------------------------------------------------
(* The disk.                                                               *)

Elements(s) == {s[i] : i \in 1..Len(s)}

Completed == Elements(cq)
Answered == Elements(worker.heads)

Chains == Seq(B!Positions)

\* The types, without the bounds of TypeOK that no proof needs.
BlockTypes ==
    /\ avail \in Seq(Kinds) /\ Len(avail) <= MaxRequests
    /\ promised \in [B!Positions -> SUBSET B!Positions]
    /\ next \in Nat /\ used \in Seq(B!Positions)
    /\ kick \in {"none", "owed", "set"}
    /\ request_list \subseteq B!Positions /\ mode \in [B!Positions -> BOOLEAN]
    /\ running \subseteq B!Positions /\ cq \in Seq(B!Positions)
    /\ notifier \in BOOLEAN /\ writeback \in BOOLEAN
    /\ disk \in [cached : SUBSET B!Positions, durable : SUBSET B!Positions]
    /\ limiter \in {"none", "open", "armed", "ready"}
    /\ worker \in [pc : {"wait", "submit", "dead"}, last : Nat, heads : Chains]

\* The device takes what is published, and everything else it holds it has taken.
Taken ==
    /\ next <= worker.last /\ worker.last <= Len(avail)
    /\ worker.pc = "wait" => worker.heads = <<>>
    /\ B!Returned \subseteq 1..next /\ Completed \subseteq 1..next
    /\ running \subseteq 1..next /\ Answered \subseteq 1..next

\* What the host has executed: a completed write is cached, a completed flush
\* has made durable all that it promised.
Executed ==
    /\ disk.durable \subseteq disk.cached
    /\ \A h \in 1..Len(avail) :
          promised[h] \subseteq disk.cached /\ (avail[h] # "Flush" => promised[h] = {})
    /\ \A h \in Completed \cup B!Returned :
          promised[h] \subseteq disk.durable /\ (avail[h] = "Out" => h \in disk.cached)
    /\ \A h \in Answered : avail[h] = "GetDeviceId"
    /\ \A h \in B!Returned : avail[h] = "Out" /\ ~mode[h] => h \in disk.durable

\* RequestNotLost, by the sets that a request can be in.
Somewhere ==
    \A h \in 1..Len(avail) : h \notin B!Returned /\ worker.pc # "dead" =>
        IF h <= next
        THEN h \in Answered \/ (h \in request_list /\ (h \in running \/ (notifier /\ h \in Completed)))
        ELSE \/ kick # "none" \/ limiter \in {"armed", "ready"}
             \/ worker.pc = "submit" /\ h <= worker.last

\* The inductive invariant; with Executed, that of DurableAsPromised, which needs
\* to know what happened to a request before it was returned.
BlockInv == BlockTypes /\ Taken /\ Somewhere

-----------------------------------------------------------------------------

\* Returning chains adds them to the used ring.
LEMMA Concatenated ==
    ASSUME NEW S, NEW s \in Seq(S), NEW t \in Seq(S)
    PROVE  Elements(s \o t) = Elements(s) \cup Elements(t)
<1>1. \A i \in 1..Len(s) : (s \o t)[i] = s[i] /\ i \in 1..Len(s \o t)
  OBVIOUS
<1>2. \A i \in 1..Len(t) : (s \o t)[Len(s) + i] = t[i] /\ Len(s) + i \in 1..Len(s \o t)
  OBVIOUS
<1>3. \A i \in 1..Len(s \o t) : i \in 1..Len(s) \/ (i - Len(s) \in 1..Len(t) /\ i = Len(s) + (i - Len(s)))
  OBVIOUS
<1>4. \A i \in 1..Len(s \o t) : (s \o t)[i] \in Elements(s) \cup Elements(t)
  BY <1>1, <1>2, <1>3 DEF Elements
<1>5. \A e \in Elements(s \o t) : e \in Elements(s) \cup Elements(t)
  BY <1>4 DEF Elements
<1>6. \A e \in Elements(s) \cup Elements(t) : e \in Elements(s \o t)
  BY <1>1, <1>2 DEF Elements
<1> QED BY <1>5, <1>6

LEMMA Appended ==
    ASSUME NEW S, NEW s \in Seq(S), NEW e \in S
    PROVE  /\ Append(s, e) \in Seq(S)
           /\ Elements(Append(s, e)) = Elements(s) \cup {e}
<1>1. \A i \in 1..Len(s) : Append(s, e)[i] = s[i] /\ i \in 1..Len(Append(s, e))
  OBVIOUS
<1>2. Append(s, e)[Len(s) + 1] = e /\ Len(Append(s, e)) = Len(s) + 1
  OBVIOUS
<1>3. Len(s) \in Nat
  OBVIOUS
<1>4. \A x : x \in Elements(Append(s, e)) <=> x \in Elements(s) \cup {e}
  BY <1>1, <1>2, <1>3 DEF Elements
<1> QED BY <1>4

LEMMA Empty == Elements(<<>>) = {}
BY DEF Elements

\* The initial states: an activated queue holds nothing.
LEMMA BlockInitially ==
    ASSUME MaxRequests \in Nat, B!Activate PROVE BlockInv /\ Executed
<1> USE DEF B!Activate
<1>1. B!Returned = {} /\ Completed = {} /\ Answered = {} /\ Len(avail) = 0
  BY Empty DEF B!Returned, Completed, Answered, Elements
<1>2. BlockTypes
  <2>1. worker \in [pc : {"wait", "submit", "dead"}, last : Nat, heads : Chains]
    <3>1. <<>> \in Chains
      BY DEF Chains
    <3> QED BY <3>1
  <2>2. promised \in [B!Positions -> SUBSET B!Positions] /\ mode \in [B!Positions -> BOOLEAN]
    OBVIOUS
  <2>3. disk \in [cached : SUBSET B!Positions, durable : SUBSET B!Positions]
    OBVIOUS
  <2>4. avail \in Seq(Kinds) /\ used \in Seq(B!Positions) /\ cq \in Seq(B!Positions)
    OBVIOUS
  <2>5. Len(avail) <= MaxRequests /\ limiter \in {"none", "open", "armed", "ready"}
    BY <1>1
  <2> QED BY <2>1, <2>2, <2>3, <2>4, <2>5 DEF BlockTypes
<1>3. Taken
  BY <1>1 DEF Taken
<1>4. Somewhere
  BY <1>1 DEF Somewhere
<1>5. Executed
  BY <1>1 DEF Executed
<1> QED BY <1>2, <1>3, <1>4, <1>5 DEF BlockInv

\* Every step keeps what each request's place is.
LEMMA BlockStep ==
    ASSUME MaxRequests \in Nat, BlockInv, [B!Next]_(B!blockVars) PROVE BlockInv'
<1> USE DEF BlockInv, B!blockVars, B!driverVars, B!backVars
<1>1. CASE \E kind \in Kinds : B!DriverPublish(kind)
  <2> USE <1>1 DEF B!DriverPublish
  <2>0. B!Returned' = B!Returned /\ Completed' = Completed /\ Answered' = Answered
    BY DEF B!Returned, Completed, Answered
  <2>1. BlockTypes'
    <3> PICK kind \in Kinds : B!DriverPublish(kind)
      OBVIOUS
    <3>1. avail' \in Seq(Kinds) /\ Len(avail') = Len(avail) + 1
      BY DEF BlockTypes
    <3>2. promised' \in [B!Positions -> SUBSET B!Positions]
      <4>1. B!Returned \subseteq B!Positions
        BY DEF B!Returned, BlockTypes
      <4>2. {h \in B!Returned : avail[h] = "Out"} \subseteq B!Positions
        BY <4>1
      <4> DEFINE P == IF kind = "Flush" THEN {h \in B!Returned : avail[h] = "Out"} ELSE {}
      <4>3. promised' = [promised EXCEPT ![Len(avail) + 1] = P]
        OBVIOUS
      <4>4. P \subseteq B!Positions
        BY <4>2
      <4> HIDE DEF P
      <4>5. promised \in [B!Positions -> SUBSET B!Positions]
        BY DEF BlockTypes
      <4> HIDE DEF BlockInv, B!DriverPublish
      <4> QED BY <4>3, <4>4, <4>5
    <3> QED BY <3>1, <3>2 DEF BlockTypes
  <2>2. Taken'
    BY <2>0 DEF Taken, BlockTypes
  <2>3. Somewhere'
    BY <2>0 DEF Somewhere, Taken, BlockTypes
  <2> QED BY <2>1, <2>2, <2>3
<1>2. CASE B!DriverKick
  <2> USE <1>2 DEF B!DriverKick
  <2>0. B!Returned' = B!Returned /\ Completed' = Completed /\ Answered' = Answered
    BY DEF B!Returned, Completed, Answered
  <2>1. BlockTypes'
    BY <2>0 DEF BlockTypes
  <2>2. Taken'
    BY <2>0 DEF Taken, BlockTypes
  <2>3. Somewhere'
    BY <2>0 DEF Somewhere, Taken, BlockTypes
  <2> QED BY <2>1, <2>2, <2>3
<1>3. CASE B!WriteConfig
  <2> USE <1>3 DEF B!WriteConfig
  <2>0. B!Returned' = B!Returned /\ Completed' = Completed /\ Answered' = Answered
    BY DEF B!Returned, Completed, Answered
  <2>1. BlockTypes'
    BY <2>0 DEF BlockTypes
  <2>2. Taken'
    BY <2>0 DEF Taken, BlockTypes
  <2>3. Somewhere'
    BY <2>0 DEF Somewhere, Taken, BlockTypes
  <2> QED BY <2>1, <2>2, <2>3
<1>4. CASE B!TimerExpires
  <2> USE <1>4 DEF B!TimerExpires
  <2>0. B!Returned' = B!Returned /\ Completed' = Completed /\ Answered' = Answered
    BY DEF B!Returned, Completed, Answered
  <2>1. BlockTypes'
    BY <2>0 DEF BlockTypes
  <2>2. Taken'
    BY <2>0 DEF Taken, BlockTypes
  <2>3. Somewhere'
    BY <2>0 DEF Somewhere, Taken, BlockTypes
  <2> QED BY <2>1, <2>2, <2>3
<1>5. CASE B!QueueAvailEvent
  <2> USE <1>5 DEF B!QueueAvailEvent, B!Iterate
  <2>0. B!Returned' = B!Returned /\ Completed' = Completed /\ Answered' = {} /\ Answered = {}
    BY SMTT(30), Empty DEF B!Returned, Completed, Answered, BlockTypes, Taken
  <2>1. BlockTypes'
    <3>1. worker' \in [pc : {"wait", "submit", "dead"}, last : Nat, heads : Chains]
      <4>1. worker' = worker \/ worker' = [pc |-> "submit", last |-> Len(avail), heads |-> <<>>]
        OBVIOUS
      <4>2. worker \in [pc : {"wait", "submit", "dead"}, last : Nat, heads : Chains]
        BY DEF BlockTypes
      <4>3. <<>> \in Chains /\ Len(avail) \in Nat
        BY SMTT(30) DEF BlockTypes, Chains
      <4> HIDE DEF BlockInv, B!QueueAvailEvent, B!Iterate
      <4> QED BY SMTT(30), <4>1, <4>2, <4>3
    <3> QED BY <3>1 DEF BlockTypes
  <2>2. Taken'
    BY SMTT(30), <2>0 DEF Taken, BlockTypes
  <2>3. Somewhere'
    BY SMTT(30), <2>0 DEF Somewhere, Taken, BlockTypes
  <2> QED BY <2>1, <2>2, <2>3
<1>6. CASE B!RateLimiterEvent
  <2> USE <1>6 DEF B!RateLimiterEvent, B!Iterate
  <2>0. B!Returned' = B!Returned /\ Completed' = Completed /\ Answered' = {} /\ Answered = {}
    BY Empty DEF B!Returned, Completed, Answered, BlockTypes, Taken
  <2>1. BlockTypes'
    <3>1. worker' \in [pc : {"wait", "submit", "dead"}, last : Nat, heads : Chains]
      <4>1. worker' = worker \/ worker' = [pc |-> "submit", last |-> Len(avail), heads |-> <<>>]
        OBVIOUS
      <4>2. worker \in [pc : {"wait", "submit", "dead"}, last : Nat, heads : Chains]
        BY DEF BlockTypes
      <4>3. <<>> \in Chains /\ Len(avail) \in Nat
        BY DEF BlockTypes, Chains
      <4> HIDE DEF BlockInv, B!RateLimiterEvent, B!Iterate, B!blockVars
      <4> QED BY SMTT(30), <4>1, <4>2, <4>3
    <3> QED BY <3>1 DEF BlockTypes
  <2>2. Taken'
    BY SMTT(30), <2>0 DEF Taken, BlockTypes
  <2>3. Somewhere'
    BY SMTT(30), <2>0 DEF Somewhere, Taken, BlockTypes
  <2> QED BY <2>1, <2>2, <2>3
<1>7. CASE B!Refused
  <2> USE <1>7 DEF B!Refused, B!ReturnHeads
  <2>e. Elements(used \o worker.heads) = Elements(used) \cup Elements(worker.heads)
    BY Concatenated DEF BlockTypes, Chains
  <2>0. B!Returned' = B!Returned \cup Answered /\ Completed' = Completed /\ Answered' = {}
    <3>1. B!Returned' = Elements(used') /\ B!Returned = Elements(used)
      BY DEF B!Returned, Elements
    <3> QED BY <2>e, <3>1, Empty DEF Completed, Answered, BlockTypes
  <2>1. BlockTypes'
    <3>1. used' \in Seq(B!Positions)
      BY DEF BlockTypes, Chains
    <3>2. worker' \in [pc : {"wait", "submit", "dead"}, last : Nat, heads : Chains]
      <4>1. worker' = [worker EXCEPT !.pc = "wait", !.heads = <<>>]
        OBVIOUS
      <4>2. worker \in [pc : {"wait", "submit", "dead"}, last : Nat, heads : Chains]
        BY DEF BlockTypes
      <4>3. <<>> \in Chains
        BY DEF Chains
      <4> HIDE <1>7
      <4> QED BY <4>1, <4>2, <4>3
    <3> QED BY <3>1, <3>2 DEF BlockTypes
  <2>2. Taken'
    BY <2>0 DEF Taken, BlockTypes
  <2>3. Somewhere'
    BY <2>0 DEF Somewhere, Taken, BlockTypes
  <2> QED BY <2>1, <2>2, <2>3
<1>8. CASE B!Submit
  <2> USE <1>8 DEF B!Submit, B!Consumed, B!execute_async
  <2>p. next + 1 \in B!Positions /\ next + 1 \in 1..Len(avail)
    BY DEF Taken, BlockTypes, B!Positions
  <2>i. 1..next \subseteq 1..next' /\ next + 1 \in 1..next'
    BY DEF BlockTypes
  <2>w. worker'.pc = "submit" /\ worker'.last = worker.last
    BY DEF BlockTypes
  <2>h. Append(worker.heads, next + 1) \in Chains /\ Elements(Append(worker.heads, next + 1)) = Answered \cup {next + 1}
    BY <2>p, Appended DEF BlockTypes, Answered, Chains
  <2>0. /\ B!Returned' = B!Returned /\ Completed' = Completed
        /\ Answered' = IF avail[next + 1] # "GetDeviceId" THEN Answered ELSE Answered \cup {next + 1}
    BY <2>h DEF B!Returned, Completed, Answered, BlockTypes
  <2>1. BlockTypes'
    <3>1. mode' \in [B!Positions -> BOOLEAN]
      BY DEF BlockTypes
    <3>2. worker' \in [pc : {"wait", "submit", "dead"}, last : Nat, heads : Chains]
      BY <2>h DEF BlockTypes
    <3>3. request_list' \subseteq B!Positions /\ running' \subseteq B!Positions
      BY <2>p DEF BlockTypes
    <3>4. next' \in Nat /\ limiter' \in {"none", "open", "armed", "ready"}
      BY DEF BlockTypes
    <3> QED BY <3>1, <3>2, <3>3, <3>4 DEF BlockTypes
  <2>2. Taken'
    <3>1. CASE avail[next + 1] # "GetDeviceId"
      BY <2>0, <2>p, <2>i, <3>1 DEF Taken, BlockTypes
    <3>2. CASE avail[next + 1] = "GetDeviceId"
      BY <2>0, <2>p, <2>i, <2>w, <3>2 DEF Taken, BlockTypes
    <3> QED BY <3>1, <3>2
  <2>3. Somewhere'
    BY <2>0, <2>p, <2>w DEF Somewhere, Taken, BlockTypes
  <2> QED BY <2>1, <2>2, <2>3
<1>9. CASE B!SubmitEnds
  <2> USE <1>9 DEF B!SubmitEnds, B!ReturnHeads
  <2>e. Elements(used \o worker.heads) = Elements(used) \cup Elements(worker.heads)
    BY Concatenated DEF BlockTypes, Chains
  <2>0. B!Returned' = B!Returned \cup Answered /\ Completed' = Completed /\ Answered' = {}
    <3>1. B!Returned' = Elements(used') /\ B!Returned = Elements(used)
      BY DEF B!Returned, Elements
    <3> QED BY <2>e, <3>1, Empty DEF Completed, Answered, BlockTypes
  <2>1. BlockTypes'
    <3>1. used' \in Seq(B!Positions)
      BY DEF BlockTypes, Chains
    <3>2. worker' \in [pc : {"wait", "submit", "dead"}, last : Nat, heads : Chains]
      <4>1. worker' = [worker EXCEPT !.pc = "wait", !.heads = <<>>]
        OBVIOUS
      <4>2. worker \in [pc : {"wait", "submit", "dead"}, last : Nat, heads : Chains]
        BY DEF BlockTypes
      <4>3. <<>> \in Chains
        BY DEF Chains
      <4> HIDE <1>9
      <4> QED BY <4>1, <4>2, <4>3
    <3> QED BY <3>1, <3>2 DEF BlockTypes
  <2>2. Taken'
    BY <2>0 DEF Taken, BlockTypes
  <2>3. Somewhere'
    BY <2>0 DEF Somewhere, Taken, BlockTypes
  <2> QED BY <2>1, <2>2, <2>3
<1>10. ASSUME NEW h \in B!Positions, B!HostExecutes(h) PROVE BlockInv'
  <2> USE <1>10 DEF B!HostExecutes, B!Sync
  <2>0. B!Returned' = B!Returned /\ Completed' = Completed \cup {h} /\ Answered' = Answered
    BY Appended DEF B!Returned, Completed, Answered, BlockTypes
  <2>1. BlockTypes'
    BY <2>0, Appended DEF BlockTypes
  <2>2. Taken'
    BY <2>0 DEF Taken, BlockTypes
  <2>3. Somewhere'
    BY <2>0 DEF Somewhere, Taken, BlockTypes
  <2> QED BY <2>1, <2>2, <2>3
<1>11. CASE B!CompletionEvent
  <2> USE <1>11 DEF B!CompletionEvent, B!Sync
  <2>e. Elements(used \o cq) = Elements(used) \cup Elements(cq)
    BY Concatenated DEF BlockTypes, Chains
  <2>0. B!Returned' = B!Returned \cup Completed /\ Completed' = {} /\ Answered' = Answered
    <3>1. B!Returned' = Elements(used') /\ B!Returned = Elements(used)
      BY DEF B!Returned, Elements
    <3> QED BY <2>e, <3>1, Empty DEF Completed, Answered, BlockTypes
  <2>1. BlockTypes'
    <3>1. used' \in Seq(B!Positions) /\ cq' \in Seq(B!Positions)
      BY DEF BlockTypes
    <3>2. disk' \in [cached : SUBSET B!Positions, durable : SUBSET B!Positions]
      BY DEF BlockTypes
    <3> QED BY <3>1, <3>2 DEF BlockTypes
  <2>2. Taken'
    BY <2>0 DEF Taken, BlockTypes
  <2>3. Somewhere'
    <3>1. request_list' = request_list \ Completed
      BY DEF Completed, Elements
    <3>2. UNCHANGED <<avail, next, kick, limiter, running, worker>>
      OBVIOUS
    <3> HIDE <1>11
    <3> QED BY <2>0, <3>1, <3>2 DEF Somewhere, Taken, BlockTypes
  <2> QED BY <2>1, <2>2, <2>3
<1>12. CASE B!Fail
  <2> USE <1>12 DEF B!Fail
  <2>0. B!Returned' = B!Returned /\ Completed' = Completed /\ Answered' = Answered
    BY DEF B!Returned, Completed, Answered, BlockTypes
  <2>1. BlockTypes'
    BY <2>0 DEF BlockTypes
  <2>2. Taken'
    BY <2>0 DEF Taken, BlockTypes
  <2>3. Somewhere'
    BY <2>0 DEF Somewhere, Taken, BlockTypes
  <2> QED BY <2>1, <2>2, <2>3
<1>13. CASE UNCHANGED B!blockVars
  BY <1>13 DEF BlockTypes, Taken, Somewhere, B!Returned, Completed, Answered
<1> QED BY <1>1, <1>2, <1>3, <1>4, <1>5, <1>6, <1>7, <1>8, <1>9, <1>10, <1>11, <1>12, <1>13 DEF B!Next

\* Where the requests are is where BlockInv says, and so no request is lost: that is
\* RequestNotLost, in the words of the ring and the completion queue.
LEMMA Located == Somewhere => B!RequestNotLost
BY DEF Somewhere, B!RequestNotLost, Answered, Completed, Elements

\* What a step does to the disk, when fsync does not fail: nothing durable is
\* lost, what is executed and what is returned keep their promises.
LEMMA DurableStep ==
    ASSUME MaxRequests \in Nat, FsyncFails = FALSE, BlockInv, Executed, [B!Next]_(B!blockVars)
    PROVE  Executed'
<1> USE DEF BlockInv, B!blockVars, B!driverVars, B!backVars
<1>1. CASE \E kind \in Kinds : B!DriverPublish(kind)
  <2> USE DEF B!DriverPublish
  <2>0. B!Returned' = B!Returned /\ Completed' = Completed /\ Answered' = Answered
    BY <1>1 DEF B!Returned, Completed, Answered
  <2>1. PICK kind \in Kinds : B!DriverPublish(kind)
    BY <1>1
  <2>2. /\ Len(avail') = Len(avail) + 1 /\ avail'[Len(avail) + 1] = kind
        /\ \A h \in 1..Len(avail) : avail'[h] = avail[h] /\ promised'[h] = promised[h]
    BY <2>1 DEF BlockTypes, B!Positions
  <2>3. \A h \in B!Returned \cup Completed \cup Answered : h \in 1..Len(avail)
    BY DEF Taken, BlockTypes
  <2>4. /\ promised'[Len(avail) + 1] \subseteq disk.cached
        /\ kind # "Flush" => promised'[Len(avail) + 1] = {}
    BY <2>1 DEF BlockTypes, B!Positions, Executed
  <2>5. UNCHANGED <<disk, mode>>
    BY <2>1
  <2>6. \A h \in 1..Len(avail') : h \in 1..Len(avail) \/ h = Len(avail) + 1
    BY <2>2 DEF BlockTypes
  <2> HIDE DEF B!DriverPublish
  <2> QED BY <2>0, <2>2, <2>3, <2>4, <2>5, <2>6 DEF Executed
<1>2. CASE B!DriverKick \/ B!WriteConfig \/ B!TimerExpires
  BY <1>2 DEF B!DriverKick, B!WriteConfig, B!TimerExpires, Executed, B!Returned, Completed, Answered
<1>3. CASE B!QueueAvailEvent \/ B!RateLimiterEvent
  <2>1. B!Returned' = B!Returned /\ Completed' = Completed /\ (Answered' = {} \/ Answered' = Answered)
    BY SMTT(30), <1>3, Empty DEF B!QueueAvailEvent, B!RateLimiterEvent, B!Iterate, B!Returned, Completed, Answered, BlockTypes
  <2>2. UNCHANGED <<avail, promised, disk, mode>>
    BY <1>3 DEF B!QueueAvailEvent, B!RateLimiterEvent
  <2> QED BY <2>1, <2>2 DEF Executed
<1>4. CASE B!Refused \/ B!SubmitEnds
  <2>1. B!Returned' = B!Returned \cup Answered /\ Completed' = Completed /\ Answered' = {}
    <3>1. used' = used \o worker.heads /\ worker' = [worker EXCEPT !.pc = "wait", !.heads = <<>>]
      BY <1>4 DEF B!Refused, B!SubmitEnds, B!ReturnHeads
    <3>2. Elements(used \o worker.heads) = Elements(used) \cup Elements(worker.heads)
      BY Concatenated DEF BlockTypes, Chains
    <3>3. B!Returned' = Elements(used') /\ B!Returned = Elements(used)
      BY DEF B!Returned, Elements
    <3>4. UNCHANGED cq
      BY <1>4 DEF B!Refused, B!SubmitEnds
    <3> QED BY <3>1, <3>2, <3>3, <3>4, Empty DEF Completed, Answered, BlockTypes
  <2>2. UNCHANGED <<avail, promised, disk, mode>>
    BY <1>4 DEF B!Refused, B!SubmitEnds
  <2>3. \A h \in Answered : h \in 1..Len(avail)
    BY DEF Taken, BlockTypes
  <2> QED BY <2>1, <2>2, <2>3 DEF Executed
<1>5. CASE B!Submit
  <2> USE <1>5 DEF B!Submit, B!execute_async
  <2>1. next + 1 \in B!Positions /\ next + 1 \in 1..Len(avail) /\ next + 1 \notin 1..next
    BY DEF Taken, BlockTypes, B!Positions
  <2>2. B!Returned' = B!Returned /\ Completed' = Completed /\ UNCHANGED <<avail, promised, disk>>
    BY DEF B!Returned, Completed
  <2>3. \A h \in Answered' : h \in Answered \/ (h = next + 1 /\ avail[h] = "GetDeviceId")
    <3>1. CASE avail[next + 1] # "GetDeviceId"
      BY <3>1 DEF Answered
    <3>2. CASE avail[next + 1] = "GetDeviceId"
      <4>1. Answered' = Elements(Append(worker.heads, next + 1))
        BY <3>2 DEF Answered, BlockTypes
      <4> QED BY <3>2, <4>1, <2>1, Appended DEF Answered, BlockTypes, Chains
    <3> QED BY <3>1, <3>2
  <2>4. \A h \in B!Returned : mode'[h] = mode[h]
    <3>1. \A h \in B!Returned : h \in B!Positions /\ h # next + 1
      BY <2>1 DEF Taken, BlockTypes, B!Returned
    <3>2. mode' = mode \/ mode' = [mode EXCEPT ![next + 1] = writeback]
      OBVIOUS
    <3>3. mode \in [B!Positions -> BOOLEAN]
      BY DEF BlockTypes
    <3> HIDE <1>5
    <3> QED BY <3>1, <3>2, <3>3
  <2> QED BY <2>2, <2>3, <2>4 DEF Executed
<1>6. ASSUME NEW r \in B!Positions, B!HostExecutes(r) PROVE Executed'
  <2> USE DEF B!HostExecutes, B!Sync
  <2>1. B!Returned' = B!Returned /\ Completed' = Completed \cup {r} /\ Answered' = Answered
    BY <1>6, Appended DEF B!Returned, Completed, Answered, BlockTypes
  <2>2. UNCHANGED <<avail, promised, mode>> /\ r \in 1..Len(avail)
    BY <1>6 DEF Taken, BlockTypes
  <2>3. /\ disk.cached \subseteq disk'.cached /\ disk.durable \subseteq disk'.durable
        /\ disk'.durable \subseteq disk'.cached
    BY <1>6 DEF BlockTypes, Executed
  <2>4. avail[r] = "Out" => r \in disk'.cached
    BY <1>6 DEF BlockTypes
  <2>5. promised[r] \subseteq disk'.durable
    <3>1. CASE avail[r] = "Flush"
      <4>1. disk'.durable = disk.cached
        BY <1>6, <3>1 DEF BlockTypes
      <4> QED BY <2>2, <4>1 DEF Executed
    <3>2. CASE avail[r] # "Flush"
      BY <2>2, <3>2 DEF Executed
    <3> QED BY <3>1, <3>2
  <2> HIDE DEF B!HostExecutes, B!Sync
  <2> QED BY <2>1, <2>2, <2>3, <2>4, <2>5 DEF Executed
<1>7. CASE B!CompletionEvent
  <2> USE DEF B!CompletionEvent, B!Sync
  <2>1. B!Returned' = B!Returned \cup Completed /\ Completed' = {} /\ Answered' = Answered
    <3>1. used' = used \o cq /\ cq' = <<>> /\ UNCHANGED worker
      BY <1>7
    <3>2. Elements(used \o cq) = Elements(used) \cup Elements(cq)
      BY Concatenated DEF BlockTypes
    <3>3. B!Returned' = Elements(used') /\ B!Returned = Elements(used)
      BY DEF B!Returned, Elements
    <3> QED BY <3>1, <3>2, <3>3, Empty DEF Completed, Answered
  <2>2. UNCHANGED <<avail, promised, mode>>
    BY <1>7
  <2>3. disk' = disk \/ disk' = [disk EXCEPT !.durable = disk.cached]
    BY <1>7
  <2>4. \A h \in Completed : avail[h] = "Out" /\ ~mode[h] => disk'.durable = disk.cached
    <3>1. ASSUME NEW h \in Completed, avail[h] = "Out", ~mode[h]
          PROVE  disk' = [disk EXCEPT !.durable = disk.cached]
      BY <1>7, <3>1 DEF Completed, Elements
    <3> QED BY <3>1 DEF BlockTypes
  <2>5. /\ disk'.cached = disk.cached /\ disk.durable \subseteq disk'.durable
        /\ disk'.durable \subseteq disk'.cached
    BY <2>3 DEF BlockTypes, Executed
  <2> HIDE DEF B!CompletionEvent, B!Sync
  <2> QED BY <2>1, <2>2, <2>4, <2>5 DEF Executed
<1>8. CASE B!Fail
  <2>1. B!Returned' = B!Returned /\ Completed' = Completed /\ Answered' = Answered
    BY <1>8 DEF B!Fail, B!Returned, Completed, Answered, BlockTypes
  <2>2. UNCHANGED <<avail, promised, disk, mode>>
    BY <1>8 DEF B!Fail
  <2> QED BY <2>1, <2>2 DEF Executed
<1>9. CASE UNCHANGED B!blockVars
  BY <1>9 DEF Executed, B!Returned, Completed, Answered
<1> QED BY <1>1, <1>2, <1>3, <1>4, <1>5, <1>6, <1>7, <1>8, <1>9 DEF B!Next

-----------------------------------------------------------------------------
(* The run.                                                                *)

\* A behaviour of the run is that of the part it starts as.
LEMMA Parts ==
    ASSUME [Next]_vars
    PROVE  /\ part' = part
           /\ part = "net" => [N!Next]_(N!netVars)
           /\ part = "block" => [B!Next]_(B!blockVars)
<1> USE DEF vars, NetOnly, BlockOnly, LimiterOnly, Shared, N!netVars, B!blockVars
<1>1. CASE UNCHANGED vars
  BY <1>1
<1>2. CASE Next
  BY <1>2 DEF Next
<1> QED
  BY <1>1, <1>2

\* No receive buffer is forgotten and no returned chain goes unnoticed, over any
\* number of snapshots and restores (net.rs: process_rx, signal_used_queue).
THEOREM BuffersServed ==
    ASSUME MaxChains \in Nat
    PROVE  Spec => [](part = "net" => N!RxNotForgotten /\ N!UsedIsSignalled)
<1> DEFINE Inv == part = "net" => NetInv
<1>1. Init => Inv
  BY NetInitially DEF Init
<1>2. Inv /\ [Next]_vars => Inv'
  BY Parts, NetStep
<1>3. Inv => (part = "net" => N!RxNotForgotten /\ N!UsedIsSignalled)
  BY Served
<1> QED
  BY <1>1, <1>2, <1>3, PTL DEF Spec

\* A device that is not restored forgets no frame to transmit either (net.rs:
\* handle_tx_event, process_tx).
THEOREM FramesServed ==
    ASSUME MaxChains \in Nat, Restores = 0
    PROVE  Spec => []FramesAreServed
<1> DEFINE Inv == part = "net" => NetInv /\ TxOnItsWay
<1>1. Init => Inv
  BY NetInitially DEF Init
<1>2. Inv /\ [Next]_vars => Inv'
  BY Parts, NetStep, TxStep
<1>3. Inv => FramesAreServed
  BY Served DEF FramesAreServed, N!FramesAreServed
<1> QED
  BY <1>1, <1>2, <1>3, PTL DEF Spec

\* No request is lost, whatever the back-end, the limiter and the driver do: while
\* the worker of block.rs lives, a request that is not returned is about to be
\* taken, in the back-end, or waits for the limiter.
THEOREM NothingLost ==
    ASSUME MaxRequests \in Nat
    PROVE  Spec => [](part = "block" => B!RequestNotLost)
<1> DEFINE Inv == part = "block" => BlockInv
<1>1. Init => Inv
  BY BlockInitially DEF Init
<1>2. Inv /\ [Next]_vars => Inv'
  BY Parts, BlockStep
<1>3. Inv => (part = "block" => B!RequestNotLost)
  BY Located DEF BlockInv
<1> QED
  BY <1>1, <1>2, <1>3, PTL DEF Spec

\* A returned request has done what it says as well: where fsync does not fail, a
\* returned flush covers the writes returned before it was published, and a write
\* submitted in writethrough mode is durable (process_queue_complete).
THEOREM RequestsKept ==
    ASSUME MaxRequests \in Nat, FsyncFails = FALSE
    PROVE  Spec => []RequestsAreKept
<1> DEFINE Inv == part = "block" => BlockInv /\ Executed
<1>1. Init => Inv
  BY BlockInitially DEF Init
<1>2. Inv /\ [Next]_vars => Inv'
  BY Parts, BlockStep, DurableStep
<1>3. Inv => RequestsAreKept
  BY Located DEF BlockInv, Executed, RequestsAreKept, B!RequestsAreKept, B!DurableAsPromised
<1> QED
  BY <1>1, <1>2, <1>3, PTL DEF Spec
=============================================================================
