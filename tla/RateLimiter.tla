---------------------------- MODULE RateLimiter ----------------------------
(***************************************************************************)
(* The rate limiter of the HTTP server (RateLimiter in                     *)
(* src/server/src/main.rs): a bucket of tokens per address, filled with    *)
(* the time that passes and emptied by one token a request.  Tokens are    *)
(* counted in units, Token units each, and Refill units come back in a     *)
(* tick of the clock.                                                      *)
(*                                                                         *)
(* A caller reads the clock before it takes the lock of the buckets, so    *)
(* the times of two requests may reach a bucket in the wrong order.        *)
(***************************************************************************)
EXTENDS Integers

CONSTANTS Callers,           \* the tasks that serve requests
          Addresses,         \* the addresses that requests come from
          Token,             \* the units of one token
          Capacity,          \* RATE_LIMIT_CAPACITY, in units
          Refill,            \* RATE_LIMIT_REFILL_PER_SEC, in units a tick
          MaxTime            \* Bounds the model: the last tick of the clock

ASSUME LimiterAssumption ==
    /\ Token \in Nat \ {0} /\ Capacity \in Nat /\ Capacity >= Token
    /\ Refill \in Nat /\ MaxTime \in Nat

VARIABLES clock,             \* the time, in ticks
          buckets,           \* RateLimiter::buckets: a function from the addresses seen so far
          waiting,           \* the calls between their look at the clock and the lock
          ledgers            \* history variable: an account of a stretch of requests of one
                             \* address, for each address of which a stretch has begun

limiter == <<clock, buckets, waiting, ledgers>>

-----------------------------------------------------------------------------
Smaller(a, b) == IF a < b THEN a ELSE b
Elapsed(from, to) == IF to > from THEN to - from ELSE 0

\* A bucket whose clock stands still while it is empty.
RefilledKeepingTime(bucket, now) ==
    [tokens |-> Smaller(bucket.tokens + Elapsed(bucket.last_refill, now) * Refill, Capacity),
     last_refill |-> IF bucket.tokens < Token THEN bucket.last_refill ELSE now]

\* What a request at time now makes of a bucket.
Refilled(bucket, now) ==
    [tokens |-> Smaller(bucket.tokens + Elapsed(bucket.last_refill, now) * Refill, Capacity),
     last_refill |-> now]
Fresh(now) == [tokens |-> Capacity, last_refill |-> now]

\* The bucket of an address as a request finds it, and whether it pays.
Found(key, now) == Refilled(IF key \in DOMAIN buckets THEN buckets[key] ELSE Fresh(now), now)
Allowed(key, now) == Found(key, now).tokens >= Token

-----------------------------------------------------------------------------
(* The account of a stretch: the times of its first and its last request,  *)
(* the units that its requests were given, the units for the time from     *)
(* each to the next, whether none came with an earlier time than the one   *)
(* before, and whether one was refused that should not have been: the very *)
(* first of its address, or one a token's time after the one before.       *)
Paid(key, now) == IF Allowed(key, now) THEN Token ELSE 0

Opened(key, now) ==
    [first |-> now, last |-> now, spent |-> Paid(key, now), earned |-> 0, ordered |-> TRUE,
     starved |-> key \notin DOMAIN buckets /\ ~Allowed(key, now)]

Continued(ledger, key, now) ==
    [first   |-> ledger.first,
     last    |-> now,
     spent   |-> ledger.spent + Paid(key, now),
     earned  |-> ledger.earned + Elapsed(ledger.last, now) * Refill,
     ordered |-> ledger.ordered /\ ledger.last =< now,
     starved |-> \/ ledger.starved
                 \/ Elapsed(ledger.last, now) * Refill >= Token /\ ~Allowed(key, now)]

\* A stretch may begin with any request, and then has all that follow.
Account(key, now) ==
    \/ key \in DOMAIN ledgers /\ ledgers' = [ledgers EXCEPT ![key] = Continued(@, key, now)]
    \/ key \notin DOMAIN ledgers /\ UNCHANGED ledgers
    \/ key \notin DOMAIN ledgers /\ ledgers' = [k \in DOMAIN ledgers \cup {key} |->
                                                  IF k = key THEN Opened(key, now) ELSE ledgers[k]]

-----------------------------------------------------------------------------
LimiterInit == clock = 0 /\ buckets = <<>> /\ waiting = {} /\ ledgers = <<>>

Tick == clock < MaxTime /\ clock' = clock + 1 /\ UNCHANGED <<buckets, waiting, ledgers>>

\* check_and_consume up to the lock.
Arrive(caller, key) ==
    /\ \A call \in waiting : call.caller # caller
    /\ waiting' = waiting \cup {[caller |-> caller, key |-> key, now |-> clock]}
    /\ UNCHANGED <<clock, buckets, ledgers>>

\* The rest of it, under the lock.
check_and_consume(call) ==
    LET found == Found(call.key, call.now)
        left  == [found EXCEPT !.tokens = IF Allowed(call.key, call.now) THEN @ - Token ELSE @]
    IN  /\ waiting' = waiting \ {call}
        /\ buckets' = [k \in DOMAIN buckets \cup {call.key} |-> IF k = call.key THEN left ELSE buckets[k]]
        /\ Account(call.key, call.now)
        /\ UNCHANGED clock

LimiterNext ==
    \/ Tick
    \/ \E caller \in Callers, key \in Addresses : Arrive(caller, key)
    \/ \E call \in waiting : check_and_consume(call)

LimiterSpec == LimiterInit /\ [][LimiterNext]_limiter

-----------------------------------------------------------------------------
\* In any stretch of requests of one address, no more are allowed than the
\* bucket holds and the time from each request to the next refills, which is
\* the time from the first to the last unless two passed each other on the way
\* to the lock.  And none is refused that comes first of all or a token's time
\* after the last one of its address, whatever the other addresses do
\* (RateLimiter::check_and_consume).
BudgetHolds ==
    \A key \in DOMAIN ledgers :
        LET ledger == ledgers[key]
        IN  /\ ledger.spent =< Capacity + ledger.earned
            /\ ledger.ordered => ledger.spent =< Capacity + (ledger.last - ledger.first) * Refill
            /\ ~ledger.starved
=============================================================================
