--------------------------- MODULE MemcachedLimit ---------------------------
(***************************************************************************)
(* AllowRateLimit on memcached: calls read the clock, look the bucket up   *)
(* and store it with Add or CompareAndSwap, each in a step of its own, and *)
(* start over when another call was faster.  A token is charged in whole   *)
(* microseconds; memcached counts an entry's lifetime in whole seconds of  *)
(* its own clock.                                                          *)
(***************************************************************************)
EXTENDS RateLimit

CONSTANTS
    Second,        \* microseconds of a second
    MaxAttempts    \* maxCASAttempts

ASSUME MemcachedAssumption == Second \in Nat \ {0} /\ MaxAttempts \in Nat \ {0}

VARIABLES
    clock,      \* the time all replicas and memcached agree on
    entry,      \* the bucket: tat, cas (its version), dies (second of its end)
    call,       \* request -> its local state
    taken,      \* <<request, now, version stored>> of the calls that took a token
    writes,     \* updates of the bucket so far: the source of versions
    stalled     \* a bucket died between a call's clock reading and its Add

vars == <<clock, entry, call, taken, writes, stalled>>

NoEntry == [tat |-> 0, cas |-> 0, dies |-> 0]
Idle    == [step |-> "start", attempt |-> 0, now |-> 0, tat |-> 0, cas |-> 0, began |-> 0]

\* memcached's own clock, and whether the bucket is still there.
Coarse == clock \div Second
Alive  == entry.cas # 0 /\ entry.dies > Coarse

\* rateLimitExpiration: whole seconds, rounded up, and one more.
rateLimitExpiration == CeilDiv(RateLimitTTL, Second * Microsecond) + 1

Init ==
    /\ clock \in 0..(Second - 1) /\ entry = NoEntry
    /\ call = [r \in Requests |-> Idle]
    /\ taken = {} /\ writes = 0 /\ stalled = FALSE

Tick ==
    /\ clock < MaxClock
    /\ clock' = clock + 1
    /\ UNCHANGED <<entry, call, taken, writes, stalled>>

\* The call returns: allowed, refused, contended or error.
Return(r, answer) == call' = [call EXCEPT ![r] = [Idle EXCEPT !.step = answer]]

\* Mutant: one attempt fewer.
BeginImpatient(r) ==
    /\ call[r].step = "start"
    /\ \/ /\ call[r].attempt < MaxAttempts - 1
          /\ call' = [call EXCEPT ![r].step = "get", ![r].attempt = @ + 1, ![r].now = clock,
                                  ![r].began = IF call[r].attempt = 0 THEN writes ELSE @]
       \/ call[r].attempt = MaxAttempts - 1 /\ Return(r, "contended")
    /\ UNCHANGED <<clock, entry, taken, writes, stalled>>

\* The head of the loop: another attempt reads the clock, or there are none left.
Begin(r) ==
    /\ call[r].step = "start"
    /\ \/ /\ call[r].attempt < MaxAttempts
          /\ call' = [call EXCEPT ![r].step = "get", ![r].attempt = @ + 1, ![r].now = clock,
                                  ![r].began = IF call[r].attempt = 0 THEN writes ELSE @]
       \/ call[r].attempt = MaxAttempts /\ Return(r, "contended")
    /\ UNCHANGED <<clock, entry, taken, writes, stalled>>

\* ctx.Err, or a client call that fails without effect.
Break(r) ==
    /\ call[r].step \in {"start", "get", "add", "cas"}
    /\ Return(r, "error")
    /\ UNCHANGED <<clock, entry, taken, writes, stalled>>

\* client.Get.  A hit is decided at once; nothing is stored for a refusal.
Get(r) ==
    /\ call[r].step = "get"
    /\ LET tat == Arrival(entry.tat, call[r].now)
       IN  \/ ~Alive /\ call' = [call EXCEPT ![r].step = "add"]
           \/ Alive /\ Refused(tat, call[r].now) /\ Return(r, "refused")
           \/ /\ Alive /\ ~Refused(tat, call[r].now)
              /\ call' = [call EXCEPT ![r].step = "cas", ![r].tat = tat, ![r].cas = entry.cas]
    /\ UNCHANGED <<clock, entry, taken, writes, stalled>>

\* The bucket is stored; the answer may be lost on its way back.
Store(r, tat) ==
    /\ entry' = [tat |-> tat, cas |-> writes + 1, dies |-> Coarse + rateLimitExpiration]
    /\ writes' = writes + 1
    /\ taken' = taken \union {<<r, call[r].now, writes + 1>>}
    /\ Return(r, "allowed") \/ Return(r, "error")

Retry(r) == call' = [call EXCEPT ![r].step = "start"] /\ UNCHANGED <<entry, taken, writes>>

\* client.Add: stores only if there is no bucket.
AddItem(r) ==
    /\ call[r].step = "add"
    /\ \/ /\ ~Alive /\ Store(r, call[r].now + intervalMicros)
          /\ stalled' = (stalled \/ entry.dies > call[r].now \div Second)
       \/ Alive /\ Retry(r) /\ UNCHANGED stalled
    /\ UNCHANGED clock

\* Mutant: the bucket is stored whatever happened to it since it was read.
CompareAndSwapBlind(r) ==
    /\ call[r].step = "cas"
    /\ Store(r, call[r].tat + intervalMicros)
    /\ UNCHANGED <<clock, stalled>>

\* client.CompareAndSwap: the version must be the one that was read.  For a bucket that
\* is gone the client reports a cache miss, which is an error here.
CompareAndSwap(r) ==
    /\ call[r].step = "cas"
    /\ \/ Alive /\ entry.cas = call[r].cas /\ Store(r, call[r].tat + intervalMicros)
       \/ Alive /\ entry.cas # call[r].cas /\ Retry(r)
       \/ ~Alive /\ Return(r, "error") /\ UNCHANGED <<entry, taken, writes>>
    /\ UNCHANGED <<clock, stalled>>

Next ==
    \/ Tick
    \/ \E r \in Requests : Begin(r) \/ Break(r) \/ Get(r) \/ AddItem(r) \/ CompareAndSwap(r)

Spec == Init /\ [][Next]_vars

-----------------------------------------------------------------------------

Call(w) == [step: {"start", "get", "add", "cas", "allowed", "refused", "contended", "error"},
            attempt: 0..MaxAttempts, now: Nat, tat: Nat, cas: 0..w, began: 0..w]

TypeOK ==
    /\ clock \in Nat /\ writes \in Nat /\ stalled \in BOOLEAN
    /\ entry \in [tat: Nat, cas: 0..writes, dies: Nat]
    /\ call \in [Requests -> Call(writes)]
    /\ taken \subseteq (Requests \X Nat \X (1..writes))

\* Concurrent calls are limited as one: however their lookups and updates interleave, and
\* although the bucket dies after whole seconds, every stretch of time has at most the
\* burst plus one call per configured interval - short of the part of a microsecond that
\* interval.Microseconds() cuts off - unless a call was held up across the bucket's end.
RateRespected == stalled \/ RateHolds(taken, Uncounted)

\* The bucket is empty at time now: since the call s, and in the order the bucket was
\* stored, as many tokens were taken as the burst and the refill since then, at what a token
\* is charged, allow.
Exhausted(now) ==
    \E s \in taken :
        /\ s[2] <= now
        /\ Cardinality({t \in taken : t[3] >= s[3]}) + 1 > Burst + (now - s[2]) \div intervalMicros

\* A call is refused only for a bucket that is empty at its time; a call whose clock
\* reading is older than another's may be refused for that one.
RefusedForCause ==
    [][\A r \in Requests : call[r].step = "get" /\ call'[r].step = "refused"
          => stalled \/ Exhausted(call[r].now) \/ \E s \in taken : s[2] > call[r].now]_vars

\* A call gives up as contended only after as many updates by others since it began.
ContendedMeansBusy ==
    [][\A r \in Requests : call[r].step = "start" /\ call'[r].step = "contended"
          => writes >= call[r].began + MaxAttempts]_vars
=============================================================================
