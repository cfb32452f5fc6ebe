------------------------------- MODULE Balloon -------------------------------
(***************************************************************************)
(* virtio-balloon (virtio-devices/src/balloon.rs): the worker that gives   *)
(* pages back to the host when the driver inflates the balloon or reports  *)
(* free pages, advises about them when it deflates, and the resize         *)
(* handshake with the VMM thread, which waits for the worker.              *)
(***************************************************************************)
EXTENDS Integers, Sequences, FiniteSets

CONSTANTS
    Pages,          \* guest pages
    Sizes,          \* balloon sizes the API asks for, in pages
    Reporting,      \* VIRTIO_BALLOON_F_REPORTING was acked
    ReleaseFails    \* fallocate or madvise may fail

VARIABLES dev, guest, host

balloonVars == <<dev, guest, host>>

Queues == {"inflate", "deflate"} \cup (IF Reporting THEN {"reporting"} ELSE {})

\* dev.todo: pages of the chain being processed; guest.chain: a published
\* chain; guest.state: who uses a page; host.content: what a page holds.
TypeOK ==
    /\ dev \in [num_pages : Sizes, actual : 0..Cardinality(Pages), size : Sizes, evt : BOOLEAN,
                answers : 0..1, worker : {"none", "run", "dead"},
                queue : {"none"} \cup Queues, todo : SUBSET Pages]
    /\ guest \in [state : [Pages -> {"used", "lent", "balloon"}],
                  chain : [Queues -> SUBSET Pages], evts : SUBSET Queues, config : BOOLEAN]
    /\ host \in [content : [Pages -> {"data", "gone"}], vmm : {"idle", "resize"}]

\* Balloon::new, and the VM before the driver has set the device up.
New ==
    /\ \E size \in Sizes :
        dev = [num_pages |-> size, actual |-> 0, size |-> size, evt |-> FALSE, answers |-> 0,
               worker |-> "none", queue |-> "none", todo |-> {}]
    /\ guest = [state |-> [p \in Pages |-> "used"], chain |-> [q \in Queues |-> {}], evts |-> {},
                config |-> FALSE]
    /\ host = [content |-> [p \in Pages |-> "data"], vmm |-> "idle"]

-----------------------------------------------------------------------------
(* The VMM thread: it activates the device, and waits for resizes.         *)

Activate ==
    /\ host.vmm = "idle" /\ dev.worker = "none"
    /\ dev' = [dev EXCEPT !.worker = "run"]
    /\ UNCHANGED <<guest, host>>

\* VirtioBalloonResize::work; there need not be a worker.
ResizeWork(size) ==
    /\ host.vmm = "idle"
    /\ dev' = [dev EXCEPT !.size = size, !.evt = TRUE]
    /\ host' = [host EXCEPT !.vmm = "resize"]
    /\ UNCHANGED guest

ResizeAnswered ==
    /\ host.vmm = "resize" /\ dev.answers > 0
    /\ dev' = [dev EXCEPT !.answers = 0]
    /\ host' = [host EXCEPT !.vmm = "idle"]
    /\ UNCHANGED guest

-----------------------------------------------------------------------------
(* The driver: it stops using a page, publishes it and waits for the chain *)
(* to come back; then the page is in the balloon, or in use again.         *)

Publish(q, pages) ==
    guest' = [guest EXCEPT !.state = [p \in Pages |-> IF p \in pages THEN "lent" ELSE @[p]],
                           !.chain[q] = pages, !.evts = @ \cup {q}]

DriverInflates ==
    /\ dev.worker # "none"
    /\ \E pages \in SUBSET {p \in Pages : guest.state[p] = "used"} :
        /\ pages # {} /\ guest.chain["inflate"] = {} /\ Publish("inflate", pages)
    /\ UNCHANGED <<dev, host>>
DriverDeflates ==
    /\ dev.worker # "none"
    /\ \E pages \in SUBSET {p \in Pages : guest.state[p] = "balloon"} :
        /\ pages # {} /\ guest.chain["deflate"] = {} /\ Publish("deflate", pages)
    /\ UNCHANGED <<dev, host>>
DriverReports ==
    /\ dev.worker # "none" /\ Reporting
    /\ \E pages \in SUBSET {p \in Pages : guest.state[p] = "used"} :
        /\ pages # {} /\ guest.chain["reporting"] = {} /\ Publish("reporting", pages)
    /\ UNCHANGED <<dev, host>>

\* Writing a page of its own brings it back into existence.
DriverWrites(p) ==
    /\ guest.state[p] = "used" /\ host.content[p] = "gone"
    /\ host' = [host EXCEPT !.content[p] = "data"]
    /\ UNCHANGED <<dev, guest>>

\* write_config: the number of pages in the balloon.
WriteActual ==
    LET n == Cardinality({p \in Pages : guest.state[p] = "balloon"}) IN
    /\ dev.actual # n
    /\ dev' = [dev EXCEPT !.actual = n]
    /\ UNCHANGED <<guest, host>>

-----------------------------------------------------------------------------
(* The worker.                                                             *)

ResizeEvent ==
    /\ dev.worker = "run" /\ dev.queue = "none" /\ dev.evt
    /\ dev' = [dev EXCEPT !.evt = FALSE, !.num_pages = dev.size, !.answers = 1]
    /\ guest' = [guest EXCEPT !.config = TRUE]
    /\ UNCHANGED host

\* notify_queue: the chain is used, the driver is interrupted and has its
\* pages back; a page it reported was free and holds nothing.
Returned(q) ==
    [guest EXCEPT !.chain[q] = {},
                  !.state = [p \in Pages |->
                      IF p \notin guest.chain[q] THEN @[p]
                      ELSE IF q = "inflate" THEN "balloon" ELSE "used"]]

\* Mutant: the chain is returned before its pages are processed.
QueueEventEarly(q) ==
    /\ dev.worker = "run" /\ dev.queue = "none" /\ q \in guest.evts
    /\ dev' = [dev EXCEPT !.queue = q, !.todo = guest.chain[q]]
    /\ guest' = [Returned(q) EXCEPT !.evts = @ \ {q}]
    /\ UNCHANGED host
QueueEvent(q) ==
    /\ dev.worker = "run" /\ dev.queue = "none" /\ q \in guest.evts
    /\ dev' = [dev EXCEPT !.queue = q, !.todo = guest.chain[q]]
    /\ guest' = [guest EXCEPT !.evts = @ \ {q}]
    /\ UNCHANGED host

\* release_memory_range, or advise_memory_range(MADV_WILLNEED); a failure
\* ends the worker, and the chain is never returned.
ProcessPage(p) ==
    /\ dev.queue # "none" /\ p \in dev.todo
    /\ \/ /\ dev' = [dev EXCEPT !.todo = @ \ {p}]
          /\ host' = [host EXCEPT !.content[p] = IF dev.queue = "deflate" THEN @ ELSE "gone"]
       \/ /\ ReleaseFails
          /\ dev' = [dev EXCEPT !.worker = "dead", !.queue = "none", !.todo = {}]
          /\ UNCHANGED host
    /\ UNCHANGED guest

NotifyQueue ==
    /\ dev.queue # "none" /\ dev.todo = {}
    /\ guest' = Returned(dev.queue)
    /\ dev' = [dev EXCEPT !.queue = "none"]
    /\ UNCHANGED host

Next ==
    \/ Activate \/ ResizeAnswered \/ (\E size \in Sizes : ResizeWork(size))
    \/ DriverInflates \/ DriverDeflates \/ DriverReports \/ WriteActual
    \/ ResizeEvent \/ NotifyQueue
    \/ \E q \in Queues : QueueEvent(q)
    \/ \E p \in Pages : DriverWrites(p) \/ ProcessPage(p)

Spec == New /\ [][Next]_balloonVars

-----------------------------------------------------------------------------
(* Properties.                                                             *)

\* The host never discards a page that the driver uses: a page is processed
\* only between its publication and its return (process_queue, notify_queue).
PageIsKept ==
    \A p \in Pages : host.content[p] = "data" /\ host'.content[p] = "gone" =>
        guest.state[p] = "lent"
=============================================================================
