----------------------------- MODULE RedisLimit -----------------------------
(***************************************************************************)
(* AllowRateLimit on Redis: one Lua script per call, which reads Redis's   *)
(* clock and runs atomically, so only the clock and the bucket's lifetime  *)
(* matter.  A token is charged in whole microseconds; PX and PEXPIRE take  *)
(* milliseconds.                                                           *)
(***************************************************************************)
EXTENDS RateLimit

CONSTANT Millisecond   \* microseconds of a millisecond, at least one

VARIABLES
    clock,     \* Redis's clock
    entry,     \* the bucket: set, tat, dies (the last millisecond it lives)
    answer,    \* request -> "none", "allowed" or "refused"
    taken      \* <<request, now>> of the calls that took a token

vars == <<clock, entry, answer, taken>>

\* ttl.Milliseconds() rounds down, to no less than one.
ttl_ms == LET ms == Millisecond * Microsecond
          IN  IF RateLimitTTL < ms THEN 1 ELSE RateLimitTTL \div ms

\* Redis expires a key once its clock has passed the millisecond of its end.
Alive == entry.set /\ entry.dies >= clock \div Millisecond
Dies  == (clock \div Millisecond) + ttl_ms

Init ==
    /\ clock \in 0..(Millisecond - 1)
    /\ entry = [set |-> FALSE, tat |-> 0, dies |-> 0]
    /\ answer = [r \in Requests |-> "none"]
    /\ taken = {}

Tick ==
    /\ clock < MaxClock
    /\ clock' = clock + 1
    /\ UNCHANGED <<entry, answer, taken>>

\* allowRateLimitScript.
Script(r) ==
    /\ answer[r] = "none"
    /\ LET tat == IF Alive THEN Arrival(entry.tat, clock) ELSE clock
       IN  \/ /\ Refused(tat, clock)
              /\ entry' = [entry EXCEPT !.dies = Dies]
              /\ answer' = [answer EXCEPT ![r] = "refused"]
              /\ UNCHANGED taken
           \/ /\ ~Refused(tat, clock)
              /\ entry' = [set |-> TRUE, tat |-> tat + intervalMicros, dies |-> Dies]
              /\ answer' = [answer EXCEPT ![r] = "allowed"]
              /\ taken' = taken \union {<<r, clock>>}
    /\ UNCHANGED clock

Next == Tick \/ \E r \in Requests : Script(r)

Spec == Init /\ [][Next]_vars

\* "RateLimitTTL retains a bucket until it could have refilled completely": the bucket
\* does not die before its refill, so the rate holds over every stretch of time, short
\* only of the part of a microsecond the script's interval leaves out.
RateRespected == RateHolds(taken, Uncounted)
=============================================================================
