----------------------------- MODULE BlockQueue -----------------------------
(***************************************************************************)
(* A virtio-blk queue: the worker of virtio-devices/src/block.rs, the      *)
(* requests of block_util/src/lib.rs and the asynchronous (io_uring,       *)
(* raw_async.rs) or synchronous back-end that executes them.  A request is *)
(* the position of its chain in the avail ring; its data is what it does   *)
(* to the disk: a write is first cached by the host, a flush or an fsync   *)
(* makes the cached writes durable.                                        *)
(***************************************************************************)
EXTENDS Integers, Sequences, FiniteSets

CONSTANTS
    MaxRequests,    \* bound: requests the driver publishes
    Kinds,          \* the request types it uses
    FsyncFails      \* the host's fsync may fail

VARIABLES
    avail,          \* the published requests, in ring order: their types
    promised,       \* flush -> writes completed when the flush was published
    next,           \* next_avail of the device
    used,           \* returned requests, in ring order
    kick,           \* the queue's eventfd; "owed": published, not yet written
    request_list,   \* requests in flight
    mode,           \* request -> the writeback flag it was submitted with
    running,        \* requests the back-end has accepted and not executed
    cq, notifier,   \* completion queue of the back-end, and its eventfd
    disk,           \* writes cached by the host, writes that are durable
    writeback,      \* the device's cache mode, shared with the vCPUs
    limiter,        \* "open", or blocked with the timer "armed"/"ready"
    worker          \* position, end of the batch being submitted, and its
                    \* used_desc_heads: the requests answered meanwhile

blockVars == <<avail, promised, next, used, kick, request_list, mode,
               running, cq, notifier, disk, writeback, limiter, worker>>

driverVars == <<avail, promised>>
backVars == <<running, cq, notifier, disk>>

Positions == 1..MaxRequests
Returned == {used[i] : i \in 1..Len(used)}

TypeOK ==
    /\ avail \in Seq(Kinds) /\ Len(avail) <= MaxRequests
    /\ promised \in [Positions -> SUBSET Positions]
    /\ next \in 0..MaxRequests /\ used \in Seq(Positions)
    /\ kick \in {"none", "owed", "set"}
    /\ request_list \subseteq Positions /\ mode \in [Positions -> BOOLEAN]
    /\ running \subseteq Positions /\ cq \in Seq(Positions)
    /\ notifier \in BOOLEAN /\ writeback \in BOOLEAN
    /\ disk \in [cached : SUBSET Positions, durable : SUBSET Positions]
    /\ limiter \in {"none", "open", "armed", "ready"}
    /\ worker \in [pc : {"wait", "submit", "dead"}, last : 0..MaxRequests,
                   heads : Seq(Positions)]

\* Block::activate; update_writeback takes the mode from the configuration
\* space, or from the negotiated features.
Activate ==
    /\ avail = <<>> /\ promised = [h \in Positions |-> {}]
    /\ next = 0 /\ used = <<>> /\ kick = "none"
    /\ request_list = {} /\ mode = [h \in Positions |-> TRUE]
    /\ running = {} /\ cq = <<>> /\ notifier = FALSE
    /\ disk = [cached |-> {}, durable |-> {}]
    /\ writeback \in BOOLEAN
    /\ limiter \in {"none", "open"}
    /\ worker = [pc |-> "wait", last |-> 0, heads |-> <<>>]

-----------------------------------------------------------------------------
(* The driver, on a vCPU.                                                  *)

DriverPublish(kind) ==
    /\ Len(avail) < MaxRequests /\ kick # "owed"
    /\ avail' = Append(avail, kind)
    /\ promised' = [promised EXCEPT ![Len(avail) + 1] =
            IF kind = "Flush" THEN {h \in Returned : avail[h] = "Out"} ELSE {}]
    /\ kick' = "owed"
    /\ UNCHANGED <<next, used, request_list, mode, backVars, writeback, limiter, worker>>

DriverKick ==
    /\ kick = "owed" /\ kick' = "set"
    /\ UNCHANGED <<driverVars, next, used, request_list, mode, backVars, writeback,
                   limiter, worker>>

\* Block::write_config on the writeback field, then update_writeback.
WriteConfig ==
    /\ writeback' = ~writeback
    /\ UNCHANGED <<driverVars, next, used, kick, request_list, mode, backVars,
                   limiter, worker>>

TimerExpires ==
    /\ limiter = "armed" /\ limiter' = "ready"
    /\ UNCHANGED <<driverVars, next, used, kick, request_list, mode, backVars,
                   writeback, worker>>

-----------------------------------------------------------------------------
(* Submission.                                                             *)

\* process_queue_submit starts: the iterator reads the avail index once.
Iterate == worker' = [pc |-> "submit", last |-> Len(avail), heads |-> <<>>]

\* It ends: the requests it answered itself are returned.
ReturnHeads ==
    /\ used' = used \o worker.heads
    /\ worker' = [worker EXCEPT !.pc = "wait", !.heads = <<>>]

QueueAvailEvent ==
    /\ worker.pc = "wait" /\ kick = "set" /\ kick' = "none"
    /\ IF limiter \in {"armed", "ready"} THEN UNCHANGED worker ELSE Iterate
    /\ UNCHANGED <<driverVars, next, used, request_list, mode, backVars, writeback, limiter>>

RateLimiterEvent ==
    /\ worker.pc = "wait" /\ limiter = "ready" /\ limiter' = "open"
    /\ Iterate
    /\ UNCHANGED <<driverVars, next, used, kick, request_list, mode, backVars, writeback>>

\* The limiter refuses (and refunds the other bucket): the chain is put back.
Refused ==
    /\ worker.pc = "submit" /\ next < worker.last
    /\ limiter # "none"
    /\ limiter' = IF limiter = "open" THEN "armed" ELSE limiter
    /\ ReturnHeads
    /\ UNCHANGED <<driverVars, next, kick, request_list, mode, backVars, writeback>>

\* An open limiter may also lend for this request, and block for the next.
Consumed == limiter' = limiter \/ (limiter = "open" /\ limiter' = "armed")

\* Reads, writes and flushes are handed to the back-end (io_uring runs them
\* later, a synchronous file at once); GetDeviceId is answered at once.
execute_async(kind) == kind # "GetDeviceId"

\* A request keeps the cache mode it is submitted under.
Submit ==
    LET h == next + 1
    IN  /\ worker.pc = "submit" /\ next < worker.last
        /\ limiter \in {"none", "open"} /\ Consumed
        /\ next' = h
        /\ IF execute_async(avail[h])
           THEN /\ request_list' = request_list \union {h}
                /\ mode' = [mode EXCEPT ![h] = writeback]
                /\ running' = running \union {h}
                /\ UNCHANGED worker
           ELSE /\ worker' = [worker EXCEPT !.heads = Append(@, h)]
                /\ UNCHANGED <<request_list, mode, running>>
        /\ UNCHANGED <<driverVars, used, kick, cq, notifier, disk, writeback>>

SubmitEnds ==
    /\ worker.pc = "submit" /\ next = worker.last
    /\ ReturnHeads
    /\ UNCHANGED <<driverVars, next, kick, request_list, mode, backVars,
                   writeback, limiter>>

-----------------------------------------------------------------------------
(* Execution by the host, in any order, and completion.                    *)

Sync(d) == [d EXCEPT !.durable = d.cached]

HostExecutes(h) ==
    /\ h \in running /\ running' = running \ {h}
    /\ disk' = CASE avail[h] = "Out"   -> [disk EXCEPT !.cached = @ \union {h}]
                 [] avail[h] = "Flush" -> Sync(disk)
                 [] OTHER -> disk
    /\ cq' = Append(cq, h) /\ notifier' = TRUE
    /\ UNCHANGED <<driverVars, next, used, kick, request_list, mode, writeback,
                   limiter, worker>>

\* Mutant: the mode is read when the request completes.
CompletionEventLateMode ==
    /\ worker.pc = "wait" /\ notifier /\ notifier' = FALSE
    /\ disk' = IF ~writeback THEN Sync(disk) ELSE disk
    /\ request_list' = request_list \ {cq[i] : i \in 1..Len(cq)}
    /\ used' = used \o cq /\ cq' = <<>>
    /\ UNCHANGED <<driverVars, next, kick, mode, running, writeback, limiter, worker>>

\* process_queue_complete: every completion is matched with its request, a
\* write that was submitted in writethrough mode is synced first, then the
\* chains are returned.  The result of that fsync is not looked at.
CompletionEvent ==
    LET done == {cq[i] : i \in 1..Len(cq)}
    IN  /\ worker.pc = "wait" /\ notifier /\ notifier' = FALSE
        /\ done \subseteq request_list
        /\ disk' \in IF \E h \in done : avail[h] = "Out" /\ ~mode[h]
                     THEN {Sync(disk)} \union (IF FsyncFails THEN {disk} ELSE {})
                     ELSE {disk}
        /\ request_list' = request_list \ done
        /\ used' = used \o cq /\ cq' = <<>>
        /\ UNCHANGED <<driverVars, next, kick, mode, running, writeback, limiter, worker>>

\* A request that cannot be parsed or executed, or that the host fails, ends
\* the thread, and what the batch answered is not returned; so would a
\* completion without its request.
Fail ==
    /\ \/ worker.pc = "submit" /\ next < worker.last
       \/ worker.pc = "wait" /\ notifier
    /\ worker' = [worker EXCEPT !.pc = "dead"]
    /\ UNCHANGED <<driverVars, next, used, kick, request_list, mode, backVars,
                   writeback, limiter>>

Next ==
    \/ \E kind \in Kinds : DriverPublish(kind)
    \/ DriverKick \/ WriteConfig \/ TimerExpires
    \/ QueueAvailEvent \/ RateLimiterEvent
    \/ Refused \/ Submit \/ SubmitEnds
    \/ \E h \in Positions : HostExecutes(h)
    \/ CompletionEvent \/ Fail

Spec == Activate /\ [][Next]_blockVars

-----------------------------------------------------------------------------

\* What the cache mode promises holds whatever the order in which the host
\* executes the requests and however the mode changes meanwhile: a returned
\* flush covers every write that had been returned before it was published,
\* and a returned write that was submitted in writethrough mode is durable.
DurableAsPromised ==
    \A h \in Returned :
        /\ promised[h] \subseteq disk.durable
        /\ avail[h] = "Out" /\ ~mode[h] => h \in disk.durable

\* No request is lost: while the worker lives, one that was published and not
\* returned is about to be taken, in the back-end, or waits for the limiter.
RequestNotLost ==
    \A h \in 1..Len(avail) : h \notin Returned /\ worker.pc # "dead" =>
        IF h <= next
        THEN \/ \E i \in 1..Len(worker.heads) : worker.heads[i] = h
             \/ /\ h \in request_list
                /\ h \in running \/ (notifier /\ \E i \in 1..Len(cq) : cq[i] = h)
        ELSE \/ kick # "none" \/ limiter \in {"armed", "ready"}
             \/ worker.pc = "submit" /\ h <= worker.last

\* A request is neither lost nor answered for more than was done.
RequestsAreKept == RequestNotLost /\ DurableAsPromised

=============================================================================
