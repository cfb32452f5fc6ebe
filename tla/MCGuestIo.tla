------------------------------ MODULE MCGuestIo ------------------------------
(***************************************************************************)
(* The workers that move a guest's data (NetQueue, BlockQueue, with their  *)
(* RateLimiter) and those that say which of its pages may be reached       *)
(* (Iommu, Balloon), checked in one run: a behaviour is that of one of     *)
(* them, chosen by `part' in the initial state.  The variables that two of *)
(* them name alike are shared; the variables of the others are Idle.       *)
(***************************************************************************)
EXTENDS Integers, Sequences, FiniteSets

CONSTANTS MaxChains, MaxFrames, Restores, MaxRequests, Kinds, FsyncFails,
          Types, TimerRefill, Requests, MaxTime, Width,
          Endpoints, External, Domains, IovaPages, PageSizeMask, MaxSize, MapFails, IommuRestores,
          GuestPages, BalloonSizes, Reporting, ReleaseFails

VARIABLES part,
    ring, driver, kick, irq, limiter, net, tap, worker, restores,
    avail, promised, next, used, request_list, mode, running, cq, notifier,
    disk, writeback,
    bucket, timer_active, timer_fd, now, window, granted, borrowed,
    dev, guest, host

Size == [t \in Types |-> IF t = "bytes" THEN 4 ELSE 2]
Burst == [t \in Types |-> IF t = "bytes" THEN 2 ELSE 0]
RefillTime == [t \in Types |-> 4]

N == INSTANCE NetQueue
B == INSTANCE BlockQueue
R == INSTANCE RateLimiter
U == INSTANCE Iommu WITH Pages <- IovaPages, Restores <- IommuRestores
A == INSTANCE Balloon WITH Pages <- GuestPages, Sizes <- BalloonSizes

Idle == "idle"

NetOnly == <<ring, driver, irq, net, tap, restores>>
BlockOnly == <<avail, promised, next, used, request_list, mode, running, cq,
               notifier, disk, writeback>>
LimiterOnly == <<bucket, timer_active, timer_fd, now, window, granted, borrowed>>
Shared == <<kick, limiter, worker>>
Rest == <<dev, guest, host>>

NetIdle ==
    /\ ring = Idle /\ driver = Idle /\ irq = Idle /\ net = Idle /\ tap = Idle
    /\ restores = Idle
BlockIdle ==
    /\ avail = Idle /\ promised = Idle /\ next = Idle /\ used = Idle
    /\ request_list = Idle /\ mode = Idle /\ running = Idle /\ cq = Idle
    /\ notifier = Idle /\ disk = Idle /\ writeback = Idle
LimiterIdle ==
    /\ bucket = Idle /\ timer_active = Idle /\ timer_fd = Idle /\ now = Idle /\ window = Idle
    /\ granted = Idle /\ borrowed = Idle
SharedIdle ==
    /\ kick = Idle /\ limiter = Idle /\ worker = Idle
RestIdle ==
    /\ dev = Idle /\ guest = Idle /\ host = Idle
OthersIdle ==
    /\ NetIdle /\ BlockIdle /\ LimiterIdle /\ SharedIdle

Init ==
    \/ part = "net" /\ N!Activate /\ BlockIdle /\ LimiterIdle /\ RestIdle
    \/ part = "block" /\ B!Activate /\ NetIdle /\ LimiterIdle /\ RestIdle
    \/ part = "limiter" /\ R!New /\ NetIdle /\ BlockIdle /\ SharedIdle /\ RestIdle
    \/ part = "iommu" /\ U!New /\ OthersIdle
    \/ part = "balloon" /\ A!New /\ OthersIdle

Others == <<NetOnly, BlockOnly, LimiterOnly, Shared>>

Next ==
    \/ part = "net" /\ N!Next /\ UNCHANGED <<part, BlockOnly, LimiterOnly, Rest>>
    \/ part = "block" /\ B!Next /\ UNCHANGED <<part, NetOnly, LimiterOnly, Rest>>
    \/ part = "limiter" /\ R!Next /\ UNCHANGED <<part, NetOnly, BlockOnly, Shared, Rest>>
    \/ part = "iommu" /\ U!Next /\ UNCHANGED <<part, Others>>
    \/ part = "balloon" /\ A!Next /\ UNCHANGED <<part, Others>>

vars == <<part, NetOnly, BlockOnly, LimiterOnly, Shared, dev, guest, host>>
Spec == Init /\ [][Next]_vars

\* No frame and no buffer is forgotten by a virtio-net worker, and what it
\* returns is signalled (see NetQueue).
FramesAreServed == part = "net" => N!FramesAreServed

\* A limiter never grants more than its rate (see RateLimiter).
WithinRate == part = "limiter" => R!WithinRate

\* No virtio-blk request is lost, and one that is returned is as durable as the
\* cache mode promises (see BlockQueue).
RequestsAreKept == part = "block" => B!RequestsAreKept

\* The IOMMU translates as the guest's mappings say, and the mappings of a
\* device outside the VMM follow its domain (see Iommu).
TranslationIsTrue == part = "iommu" => U!TranslationIsTrue /\ U!ExternalFollowsDomain

\* The balloon takes no page that the guest uses (see Balloon).
UsedPageIsKept == [][part = "balloon" => A!PageIsKept]_vars
=============================================================================
