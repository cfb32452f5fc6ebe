---------------------------- MODULE RateLimiter ----------------------------
(***************************************************************************)
(* The token bucket rate limiter of rate_limiter/src/lib.rs: two buckets   *)
(* (bytes and operations) and one timer that blocks both while it runs.    *)
(* Time advances in milliseconds by Tick; `elapsed' is the time since a    *)
(* bucket's last_update.  All arithmetic on the refill is done modulo      *)
(* 2^Width, as the release build does on u64.                              *)
(***************************************************************************)
EXTENDS Integers

CONSTANTS
    Types,          \* TokenType: bytes and operations
    Size,           \* capacity of each bucket
    Burst,          \* one-time burst of each bucket
    RefillTime,     \* complete refill time of each bucket, in ms
    TimerRefill,    \* TIMER_REFILL_DUR, in ms
    Requests,       \* token counts a caller asks for
    MaxTime,        \* bound: length of a behaviour, in ms
    Width           \* bits of the machine word

VARIABLES
    bucket,         \* type -> [budget, burst, elapsed]
    timer_active,   \* the flag that makes consume fail
    timer_fd,       \* -1 disarmed, n > 0 expires in n ms, 0 expired (readable)
    now,            \* ms since the limiter was created
    window,         \* start of the observed window
    granted,        \* type -> tokens granted in the window
    borrowed        \* type -> tokens lent beyond the budget in the window

limiterVars == <<bucket, timer_active, timer_fd, now, window, granted, borrowed>>

TypeOK ==
    /\ bucket \in [Types -> [budget : Nat, burst : Nat, elapsed : 0..MaxTime]]
    /\ timer_active \in BOOLEAN
    /\ timer_fd \in Int /\ timer_fd >= -1
    /\ now \in 0..MaxTime /\ window \in 0..MaxTime
    /\ granted \in [Types -> Nat] /\ borrowed \in [Types -> Nat]

-----------------------------------------------------------------------------

gcd[x \in Nat, y \in Nat] == IF y = 0 THEN x ELSE gcd[y, x % y]

ProcessedCapacity(t) == Size[t] \div gcd[Size[t], RefillTime[t]]

ProcessedRefillTime(t) == RefillTime[t] \div gcd[Size[t], RefillTime[t]]

NewBucket(t) == [budget |-> Size[t], burst |-> Burst[t], elapsed |-> 0]

New ==
    /\ bucket = [t \in Types |-> NewBucket(t)]
    /\ timer_active = FALSE /\ timer_fd = -1
    /\ now = 0 /\ window = 0
    /\ granted = [t \in Types |-> 0] /\ borrowed = [t \in Types |-> 0]

\* Mutant: the refill is not capped.
RefilledUncapped(b, t) ==
    b.budget + (b.elapsed * ProcessedCapacity(t)) \div ProcessedRefillTime(t)

Refilled(b, t) ==
    LET sum == b.budget +
            ((b.elapsed * ProcessedCapacity(t)) % 2^Width)
                \div ProcessedRefillTime(t)
    IN  IF sum >= Size[t] THEN Size[t] ELSE sum

\* TokenBucket::reduce: the outcome and the bucket it leaves.
Reduce(b, t, tokens) ==
    LET rest == tokens - b.burst
        full == Refilled(b, t)
    IN  IF b.burst > 0 /\ b.burst >= tokens
        THEN [outcome |-> "Success", over |-> 0,
              left |-> [b EXCEPT !.burst = @ - tokens, !.elapsed = 0]]
        ELSE IF rest <= full
        THEN [outcome |-> "Success", over |-> 0,
              left |-> [budget |-> full - rest, burst |-> 0, elapsed |-> 0]]
        ELSE IF rest > Size[t]
        THEN [outcome |-> "OverConsumption", over |-> rest - full,
              left |-> [budget |-> 0, burst |-> 0, elapsed |-> 0]]
        ELSE [outcome |-> "Failure", over |-> 0,
              left |-> [budget |-> full, burst |-> 0, elapsed |-> 0]]

\* timerfd_settime: a zero duration disarms the timer.
Settime(dur) == IF dur = 0 THEN -1 ELSE dur

ActivateTimer(dur) ==
    /\ timer_fd' = Settime(dur)
    /\ timer_active' = TRUE

Consume(t, tokens) ==
    LET r == Reduce(bucket[t], t, tokens)
    IN  /\ ~timer_active
        /\ bucket' = [bucket EXCEPT ![t] = r.left]
        /\ \/ /\ r.outcome = "Failure"
              /\ ActivateTimer(TimerRefill)
              /\ UNCHANGED <<granted, borrowed>>
           \/ /\ r.outcome = "Success"
              /\ granted' = [granted EXCEPT ![t] = @ + tokens]
              /\ UNCHANGED <<timer_active, timer_fd, borrowed>>
           \/ /\ r.outcome = "OverConsumption"
              /\ ActivateTimer((r.over * RefillTime[t]) \div Size[t])
              /\ granted' = [granted EXCEPT ![t] = @ + tokens]
              /\ borrowed' = [borrowed EXCEPT ![t] = @ + r.over]
        /\ UNCHANGED <<now, window>>

\* manual_replenish: a caller gives back the tokens of a request that the
\* other bucket refused.
ManualReplenish(t, tokens) ==
    /\ granted[t] >= tokens
    /\ bucket' = [bucket EXCEPT ![t] =
            IF @.burst > 0 THEN [@ EXCEPT !.burst = @ + tokens]
            ELSE [@ EXCEPT !.budget = IF @ + tokens > Size[t] THEN Size[t]
                                      ELSE @ + tokens]]
    /\ granted' = [granted EXCEPT ![t] = @ - tokens]
    /\ UNCHANGED <<timer_active, timer_fd, now, window, borrowed>>

EventHandler ==
    /\ timer_fd = 0
    /\ timer_fd' = -1
    /\ timer_active' = FALSE
    /\ UNCHANGED <<bucket, now, window, granted, borrowed>>

Tick ==
    /\ now < MaxTime
    /\ now' = now + 1
    /\ bucket' = [t \in Types |-> [bucket[t] EXCEPT !.elapsed = @ + 1]]
    /\ timer_fd' = IF timer_fd > 0 THEN timer_fd - 1 ELSE timer_fd
    /\ UNCHANGED <<timer_active, window, granted, borrowed>>

\* An observer starts to count at any moment.
OpenWindow ==
    /\ window = 0 /\ now > 0
    /\ window' = now
    /\ granted' = [t \in Types |-> 0] /\ borrowed' = [t \in Types |-> 0]
    /\ UNCHANGED <<bucket, timer_active, timer_fd, now>>

Next ==
    \/ \E t \in Types, n \in Requests : Consume(t, n)
    \/ \E t \in Types, n \in Requests : ManualReplenish(t, n)
    \/ EventHandler
    \/ Tick
    \/ OpenWindow

Spec == New /\ [][Next]_limiterVars

-----------------------------------------------------------------------------

\* However requests, refusals, refunds and refills interleave, what a bucket
\* grants in any window of time never exceeds its burst, its capacity, what
\* it refills in that window, and what it lends (a loan is paid for by the
\* time the timer blocks the limiter).
WithinRate ==
    \A t \in Types :
        granted[t] <= Burst[t] + Size[t] + borrowed[t]
                        + ((now - window) * Size[t]) \div RefillTime[t]

\* A blocked limiter always has a running or an expired timer: the event that
\* unblocks it is on its way.  It does not hold where an overdraft is so small
\* that the time to pay for it rounds to zero, which disarms the timer.
BlockedHasTimer == timer_active => timer_fd >= 0
=============================================================================
