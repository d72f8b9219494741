------------------------------ MODULE RateLimit ------------------------------
(***************************************************************************)
(* The limiter: requests of one caller counted in a key that expires.      *)
(*                                                                         *)
(* Source: app/core/rate_limit.py, app/api/rate_limits.py.                 *)
(*                                                                         *)
(* Each command to Redis is atomic; requests interleave between them, die  *)
(* between them, and the key may expire between them.  A key that expires  *)
(* and is counted up again is a new window.                                *)
(***************************************************************************)
EXTENDS Integers

CONSTANTS
    Callers,        \* requests of one caller under one policy
    Quota,          \* limit of the policy
    Window,         \* window_seconds, in ticks
    MaxWindows,     \* bound: windows begun
    MaxCounted,     \* bound: requests counted in a window
    MaxOutages      \* bound: commands Redis fails, and requests that die

ASSUME RateLimitAssumption ==
    /\ Quota \in Nat /\ Window \in Nat \ {0}
    /\ MaxWindows \in Nat /\ MaxCounted \in Nat \ {0} /\ MaxOutages \in Nat

VARIABLES
    counter,     \* the key: its count, and its time to live or Never
    window,      \* which window the key is, or 0 before the first
    calling,     \* where each request is
    through,     \* history: requests counted and allowed, per window
    turnedAway,  \* history: windows in which a request was refused
    outages      \* bound: outages so far

rateVars == <<counter, window, calling, through, turnedAway, outages>>

Never == -1
NoKey == [count |-> 0, ttl |-> 0]
NotCalling == [stage |-> "idle", used |-> 0, of |-> 0]

RateLimitInit ==
    /\ counter = NoKey
    /\ window = 0
    /\ calling = [c \in Callers |-> NotCalling]
    /\ through = [n \in 1..MaxWindows |-> 0]
    /\ turnedAway = {}
    /\ outages = 0

Outage == outages < MaxOutages /\ outages' = outages + 1

\* INCR makes a key that does not exist, without an expiry.
Incr(c) ==
    /\ calling[c] = NotCalling
    /\ IF counter = NoKey
       THEN /\ window < MaxWindows
            /\ window' = window + 1
            /\ counter' = [count |-> 1, ttl |-> Never]
       ELSE /\ counter.count < MaxCounted
            /\ counter' = [counter EXCEPT !.count = @ + 1]
            /\ UNCHANGED window
    /\ calling' = [calling EXCEPT ![c] =
            [stage |-> IF counter'.count = 1 THEN "expire" ELSE "ttl",
             used |-> counter'.count, of |-> window']]
    /\ UNCHANGED <<through, turnedAway, outages>>

\* Mutant: only the first request of a window gives the key an expiry.
NoRepair(ttl) == FALSE

\* if ttl < 0: TTL of a key that is gone is negative as well.
NeedsExpiry(ttl) == ttl = Never \/ ttl = 0

ReadTtl(c) ==
    /\ calling[c].stage = "ttl"
    /\ calling' = [calling EXCEPT ![c].stage =
                        IF NeedsExpiry(counter.ttl) THEN "expire" ELSE "decide"]
    /\ UNCHANGED <<counter, window, through, turnedAway, outages>>

\* EXPIRE does nothing to a key that is gone.
SetExpiry(c) ==
    /\ calling[c].stage = "expire"
    /\ counter' = IF counter = NoKey THEN counter ELSE [counter EXCEPT !.ttl = Window]
    /\ calling' = [calling EXCEPT ![c].stage = "decide"]
    /\ UNCHANGED <<window, through, turnedAway, outages>>

\* Mutant: one more than the limit.
AtMostPlusOne(count) == count <= Quota + 1

\* allowed = used <= policy.limit
WithinQuota(count) == count <= Quota

Decide(c) ==
    /\ calling[c].stage = "decide"
    /\ IF WithinQuota(calling[c].used)
       THEN /\ through' = [through EXCEPT ![calling[c].of] = @ + 1]
            /\ UNCHANGED turnedAway
       ELSE turnedAway' = turnedAway \cup {calling[c].of} /\ UNCHANGED through
    /\ calling' = [calling EXCEPT ![c] = NotCalling]
    /\ UNCHANGED <<counter, window, outages>>

\* RedisError: the request is let through; or the request dies.
FailOpen(c) ==
    /\ calling[c].stage \in {"expire", "ttl"}
    /\ Outage
    /\ calling' = [calling EXCEPT ![c] = NotCalling]
    /\ UNCHANGED <<counter, window, through, turnedAway>>

TimePasses ==
    /\ counter.ttl > 0
    /\ counter' = IF counter.ttl = 1 THEN NoKey ELSE [counter EXCEPT !.ttl = @ - 1]
    /\ UNCHANGED <<window, calling, through, turnedAway, outages>>

RateLimitNext ==
    \/ \E c \in Callers : Incr(c) \/ ReadTtl(c) \/ SetExpiry(c) \/ Decide(c) \/ FailOpen(c)
    \/ TimePasses

RateLimitSpec == RateLimitInit /\ [][RateLimitNext]_rateVars

-----------------------------------------------------------------------------
(* Properties                                                              *)

\* Every variable has its type.
RateLimitTypeOK ==
    /\ counter \in [count : 0..MaxCounted, ttl : -1..Window]
    /\ window \in 0..MaxWindows
    /\ calling \in [Callers -> [stage : {"idle", "ttl", "expire", "decide"},
                                used : 0..MaxCounted, of : 0..MaxWindows]]
    /\ through \in [1..MaxWindows -> Nat]
    /\ turnedAway \subseteq 1..MaxWindows
    /\ outages \in 0..MaxOutages

\* However requests interleave and whichever of them die, no window lets more
\* through than the limit, but for those let through because Redis failed; and a
\* caller who has been refused is not refused for ever: the key that refused them
\* has an expiry, even if the request that made it died before giving it one.
WindowsHold ==
    /\ \A n \in 1..MaxWindows : through[n] <= Quota
    /\ window \in turnedAway => counter.ttl # Never

=============================================================================
