------------------------------ MODULE RateLimit ------------------------------
(***************************************************************************)
(* What tools.RateLimiter computes before it asks the cache, what both     *)
(* caches make of it, and what AllowRateLimit must guarantee: a bucket of  *)
(* Burst tokens that refills one token per interval.  The settings are     *)
(* durations in nanoseconds; the clocks and the stored times count         *)
(* microseconds, the ticks of the model.                                   *)
(***************************************************************************)
EXTENDS Naturals, FiniteSets

CONSTANTS
    Requests,      \* calls of Limit for one key
    Window,        \* the limiter's window, in nanoseconds
    Rate,          \* tokens per window
    Burst,         \* tokens the bucket holds
    TTL,           \* the configured lifetime of an idle bucket, in nanoseconds
    Microsecond,   \* nanoseconds of a tick
    MaxClock       \* bound on time

ASSUME RateLimitAssumption ==
    /\ IsFiniteSet(Requests)
    /\ Window \in Nat \ {0} /\ Rate \in Nat \ {0} /\ Burst \in Nat \ {0} /\ TTL \in Nat \ {0}
    /\ Microsecond \in Nat \ {0} /\ MaxClock \in Nat

CeilDiv(a, b) == (a \div b) + (IF a % b = 0 THEN 0 ELSE 1)

\* RateLimiter.Limit: rounded up to whole nanoseconds.
interval == CeilDiv(Window, Rate)

\* RateLimitTTL: never less than the time a full refill takes.
RateLimitTTL == IF TTL > interval * Burst THEN TTL ELSE interval * Burst

\* What both caches charge for a token: interval.Microseconds() cuts the rest off, but
\* a token costs at least one.
intervalMicros == IF interval < Microsecond THEN 1 ELSE interval \div Microsecond

\* The decision both backends take from the stored theoretical arrival time.
Arrival(tat, now) == IF tat < now THEN now ELSE tat

\* Mutant: the burst is forgotten.
RefusedUnburst(tat, now) == now < tat

Refused(tat, now) == now + (Burst - 1) * intervalMicros < tat

\* The part of the interval the caches cannot count, and so never charge.
Uncounted == IF interval < Microsecond THEN 0 ELSE interval % Microsecond

\* How many of the stamps, whose second component is a time, lie in [a, b].
Within(stamps, a, b) == Cardinality({s \in stamps : a <= s[2] /\ s[2] <= b})

\* The rate holds over every stretch of time: Burst tokens at once, then one per interval,
\* each early by at most so many nanoseconds.
RateHolds(stamps, early) ==
    \A a, b \in {s[2] : s \in stamps} : a <= b =>
        Within(stamps, a, b) <= Burst + ((b - a) * Microsecond) \div (interval - early)
=============================================================================
