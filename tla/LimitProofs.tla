----------------------------- MODULE LimitProofs -----------------------------
(***************************************************************************)
(* Proofs about MemcachedLimit, for any number of concurrent calls and any *)
(* window, rate, burst, lifetime and number of attempts: the calls are     *)
(* limited as one, none is refused without cause, and none gives up        *)
(* without contention.  RedisLimit keeps the rate where its lifetime in    *)
(* whole milliseconds covers the refill, and refuses nobody without cause  *)
(* whatever its lifetime.  The rate kept is the configured one short of    *)
(* the part of a microsecond the caches do not charge, and the configured  *)
(* one itself where the interval is a whole number of microseconds.        *)
(***************************************************************************)
EXTENDS MemcachedLimit, FiniteSetTheorems, TLAPS

\* The stamps from a on, and the tokens taken since the bucket had version v.
Since(a) == {s \in taken : a <= s[2]}
After(v) == {s \in taken : s[3] >= v}

\* What the lifetime of a bucket is computed from, the interval, covers what a token is
\* charged; an interval below a microsecond is charged one, which the padding of a second
\* still makes up for with a burst of at most a million.
LifetimeSuffices == Microsecond <= interval \/ Burst <= Second

\* The version counts the updates; the bucket outlives its refill.
BucketInv ==
    /\ entry.cas = writes
    /\ writes = 0 => entry.tat = 0
    /\ LifetimeSuffices => entry.tat <= entry.dies * Second
    /\ IsFiniteSet(taken)

\* The arrival time is ahead of every time a by an interval for each stamp from a on.
AheadInv == \A a \in Nat : Since(a) # {} => a + Cardinality(Since(a)) * intervalMicros <= entry.tat

\* It is that of a bucket that was full at one of the stamps and has been charged one
\* interval for each token since.
TatInv == writes > 0 => \E s \in taken : entry.tat = s[2] + Cardinality(After(s[3])) * intervalMicros

\* The rate, before it is divided by the interval.
RateInv ==
    \A a, b \in Nat : a <= b =>
        Cardinality({s \in taken : a <= s[2] /\ s[2] <= b}) * intervalMicros <= (b - a) + Burst * intervalMicros

\* A call that is about to swap has decided on the bucket of the version it read.
CallInv ==
    \A r \in Requests :
        /\ call[r].now <= clock
        /\ call[r].step = "cas" =>
              /\ ~Refused(call[r].tat, call[r].now)
              /\ call[r].cas = entry.cas => call[r].tat = Arrival(entry.tat, call[r].now)

\* The account of the tokens, as long as no call was held up.
Account == TatInv /\ (LifetimeSuffices => AheadInv /\ RateInv)

LimitInv == TypeOK /\ BucketInv /\ CallInv /\ (~stalled => Account)

-----------------------------------------------------------------------------
(* Arithmetic. *)

LEMMA Division ==
    ASSUME NEW x \in Nat, NEW d \in Nat \ {0}
    PROVE  /\ x \div d \in Nat /\ x % d \in Nat /\ x % d < d
           /\ x = d * (x \div d) + (x % d)
OBVIOUS

LEMMA Products ==
    ASSUME NEW a \in Nat, NEW b \in Nat, NEW c \in Nat, a <= b
    PROVE  a * c <= b * c
OBVIOUS

LEMMA Rounded ==
    ASSUME NEW x \in Nat, NEW d \in Nat \ {0}
    PROVE  CeilDiv(x, d) \in Nat /\ x <= CeilDiv(x, d) * d /\ (x > 0 => CeilDiv(x, d) > 0)
<1> DEFINE q == x \div d
<1> DEFINE m == x % d
<1>1. q \in Nat /\ m \in Nat /\ m < d /\ x = d * q + m BY Division
<1>2. CeilDiv(x, d) = q + (IF m = 0 THEN 0 ELSE 1) BY DEF CeilDiv
<1> HIDE DEF q, m
<1>3. d * q \in Nat /\ (q + 1) * d = d * q + d /\ q * d = d * q BY <1>1
<1>4. CASE m = 0
  <2>1. CeilDiv(x, d) = q BY <1>1, <1>2, <1>4
  <2>2. x = q * d BY <1>1, <1>3, <1>4
  <2>3. x > 0 => q # 0 BY <2>2
  <2> QED BY <1>1, <2>1, <2>2, <2>3
<1>5. CASE m # 0
  <2>1. CeilDiv(x, d) = q + 1 BY <1>2, <1>5
  <2> QED BY <1>1, <1>3, <2>1
<1> QED BY <1>4, <1>5

\* The charge and the interval: what is charged is no less than the counted part.
LEMMA Interval ==
    /\ intervalMicros \in Nat \ {0} /\ interval \in Nat \ {0} /\ Uncounted \in Nat
    /\ interval - Uncounted \in Nat \ {0}
    /\ interval - Uncounted <= intervalMicros * Microsecond
    /\ Microsecond <= interval => intervalMicros * Microsecond <= interval
<1> DEFINE q == interval \div Microsecond
<1> DEFINE m == interval % Microsecond
<1>0. Microsecond \in Nat \ {0} BY RateLimitAssumption
<1>1. interval \in Nat \ {0} BY Rounded, RateLimitAssumption DEF interval
<1>2. q \in Nat /\ m \in Nat /\ m < Microsecond /\ interval = Microsecond * q + m
  BY <1>0, <1>1, Division
<1>3. intervalMicros = IF interval < Microsecond THEN 1 ELSE q BY DEF intervalMicros
<1>4. Uncounted = IF interval < Microsecond THEN 0 ELSE m BY DEF Uncounted
<1> HIDE DEF q, m
<1>5. q * Microsecond = Microsecond * q /\ Microsecond * q \in Nat BY <1>0, <1>2
<1>6. CASE interval < Microsecond
  <2>1. intervalMicros = 1 /\ Uncounted = 0 BY <1>3, <1>4, <1>6
  <2> QED BY <1>0, <1>1, <1>6, <2>1
<1>7. CASE ~(interval < Microsecond)
  <2>1. intervalMicros = q /\ Uncounted = m BY <1>3, <1>4, <1>7
  <2>2. q # 0
    <3> SUFFICES ASSUME q = 0 PROVE FALSE
      OBVIOUS
    <3>1. interval = m BY <1>0, <1>2
    <3> QED BY <1>0, <1>1, <1>2, <1>7, <3>1
  <2>3. interval - m = q * Microsecond BY <1>1, <1>2, <1>5
  <2>4. q * Microsecond >= 1 BY <1>0, <1>1, <1>2, <1>5, <1>7, <2>3
  <2> QED BY <1>0, <1>1, <1>2, <1>5, <2>1, <2>2, <2>3, <2>4
<1> QED BY <1>6, <1>7

\* A whole number of microseconds is at least one.
LEMMA WholeMicros == ASSUME interval % Microsecond = 0 PROVE Microsecond <= interval
<1> DEFINE q == interval \div Microsecond
<1>1. Microsecond \in Nat \ {0} /\ interval \in Nat \ {0} BY RateLimitAssumption, Interval
<1>2. q \in Nat /\ interval = Microsecond * q + 0 BY <1>1, Division
<1> HIDE DEF q
<1>3. q # 0 BY <1>1, <1>2
<1>4. 1 * Microsecond <= q * Microsecond BY <1>1, <1>2, <1>3, Products
<1> QED BY <1>1, <1>2, <1>4

\* A common factor cancels.
LEMMA Cancelled ==
    ASSUME NEW a \in Nat, NEW b \in Nat, NEW m \in Nat \ {0}, a * m <= b * m
    PROVE  a <= b
<1> SUFFICES ASSUME b + 1 <= a PROVE FALSE
  OBVIOUS
<1>1. (b + 1) * m <= a * m BY Products
<1>2. (b + 1) * m = b * m + m /\ b * m \in Nat /\ a * m \in Nat OBVIOUS
<1> QED BY <1>1, <1>2

\* c charges of d that fit into x and n more fit into n and the whole ones of x.
LEMMA Divided ==
    ASSUME NEW c \in Nat, NEW n \in Nat, NEW x \in Nat, NEW d \in Nat \ {0}, c * d <= x + n * d
    PROVE  c <= n + x \div d
<1> DEFINE q == x \div d
<1>1. q \in Nat /\ x < d * q + d BY Division
<1> HIDE DEF q
<1>2. SUFFICES ASSUME n + q + 1 <= c PROVE FALSE
  BY <1>1 DEF q
<1>3. (n + q + 1) * d <= c * d BY <1>1, <1>2, Products
<1>4. (n + q + 1) * d = n * d + d * q + d BY <1>1
<1>5. d * q \in Nat /\ n * d \in Nat /\ c * d \in Nat BY <1>1
<1> QED BY <1>1, <1>3, <1>4, <1>5

\* So do charges of less than d.
LEMMA Lowered ==
    ASSUME NEW c \in Nat, NEW n \in Nat, NEW x \in Nat, NEW d \in Nat, NEW i \in Nat, i <= d,
           c * d <= x + n * d
    PROVE  c * i <= x + n * i
<1>1. c * i \in Nat /\ n * i \in Nat OBVIOUS
<1>2. CASE c <= n
  <2>1. c * i <= n * i BY <1>2, Products
  <2> QED BY <1>1, <2>1
<1>3. CASE n < c
  <2>1. PICK e \in Nat : c = n + e
    <3>1. c - n \in Nat /\ c = n + (c - n) BY <1>3
    <3> QED BY <3>1
  <2>2. (n + e) * d = n * d + e * d /\ (n + e) * i = n * i + e * i BY <2>1
  <2>3. i * e <= d * e BY <2>1, Products
  <2>4. i * e = e * i /\ d * e = e * d /\ e * d \in Nat /\ n * d \in Nat /\ e * i \in Nat BY <2>1
  <2> QED BY <1>1, <2>1, <2>2, <2>3, <2>4
<1> QED BY <1>2, <1>3

\* And the other way round.
LEMMA Multiplied ==
    ASSUME NEW c \in Nat, NEW n \in Nat, NEW x \in Nat, c <= n + x \div intervalMicros
    PROVE  c * intervalMicros <= x + n * intervalMicros
<1> DEFINE q == x \div intervalMicros
<1>1. q \in Nat /\ intervalMicros * q <= x BY Interval, Division
<1>2. c <= n + q OBVIOUS
<1> HIDE DEF q
<1>3. c * intervalMicros <= (n + q) * intervalMicros BY <1>1, <1>2, Interval, Products
<1>4. (n + q) * intervalMicros = n * intervalMicros + intervalMicros * q BY <1>1, Interval
<1>5. intervalMicros * q \in Nat /\ n * intervalMicros \in Nat /\ c * intervalMicros \in Nat BY <1>1, Interval
<1> QED BY <1>1, <1>3, <1>4, <1>5

\* The lifetime in seconds, before the padding, covers the refill at what is charged.
LEMMA RefillCounted ==
    ASSUME LifetimeSuffices
    PROVE  /\ CeilDiv(RateLimitTTL, Second * Microsecond) \in Nat
           /\ Burst * intervalMicros <= CeilDiv(RateLimitTTL, Second * Microsecond) * Second
<1> DEFINE e == CeilDiv(RateLimitTTL, Second * Microsecond)
<1>0. /\ Second \in Nat \ {0} /\ Microsecond \in Nat \ {0} /\ Burst \in Nat \ {0} /\ TTL \in Nat \ {0}
      /\ Second * Microsecond \in Nat \ {0}
      /\ intervalMicros \in Nat \ {0} /\ interval \in Nat \ {0}
  BY Interval, RateLimitAssumption, MemcachedAssumption
<1>1. interval * Burst \in Nat BY <1>0
<1>2. RateLimitTTL \in Nat \ {0} /\ interval * Burst <= RateLimitTTL BY <1>0, <1>1 DEF RateLimitTTL
<1>3. e \in Nat /\ RateLimitTTL <= e * (Second * Microsecond) /\ e > 0 BY <1>0, <1>2, Rounded
<1> HIDE DEF e
<1>4. CASE Microsecond <= interval
  <2>1. intervalMicros * Microsecond <= interval BY <1>4, Interval
  <2>2. (intervalMicros * Microsecond) * Burst <= interval * Burst
    BY <1>0, <2>1, Products
  <2>3. /\ (intervalMicros * Microsecond) * Burst = (Burst * intervalMicros) * Microsecond
        /\ e * (Second * Microsecond) = (e * Second) * Microsecond
        /\ Burst * intervalMicros \in Nat /\ e * Second \in Nat
    BY <1>0, <1>3
  <2>4. (Burst * intervalMicros) * Microsecond \in Nat /\ (e * Second) * Microsecond \in Nat
    BY <1>0, <2>3
  <2>5. (Burst * intervalMicros) * Microsecond <= (e * Second) * Microsecond
    BY <1>1, <1>2, <1>3, <2>2, <2>3, <2>4
  <2>6. Burst * intervalMicros <= e * Second BY <1>0, <2>3, <2>5, Cancelled
  <2> QED BY <1>3, <2>6 DEF e
<1>5. CASE interval < Microsecond
  <2>1. intervalMicros = 1 BY <1>5 DEF intervalMicros
  <2>2. Burst <= Second BY <1>0, <1>5 DEF LifetimeSuffices
  <2>3. 1 * Second <= e * Second BY <1>0, <1>3, Products
  <2>4. Burst * intervalMicros <= e * Second BY <1>0, <1>3, <2>1, <2>2, <2>3
  <2> QED BY <1>3, <2>4 DEF e
<1> QED BY <1>0, <1>4, <1>5

\* A bucket stored at time c lives longer than its refill takes.
LEMMA Lifetime ==
    ASSUME NEW c \in Nat, NEW n \in Nat, n <= c, NEW tat \in Nat, tat <= n + Burst * intervalMicros
    PROVE  /\ (c \div Second) + rateLimitExpiration \in Nat
           /\ LifetimeSuffices => tat <= ((c \div Second) + rateLimitExpiration) * Second
<1> DEFINE q == c \div Second
<1> DEFINE e == CeilDiv(RateLimitTTL, Second * Microsecond)
<1>1. Burst * intervalMicros \in Nat BY Interval, RateLimitAssumption
<1>2. e \in Nat
  <2>1. interval * Burst \in Nat BY Interval, RateLimitAssumption
  <2>2. RateLimitTTL \in Nat /\ Second * Microsecond \in Nat \ {0}
    BY <2>1, RateLimitAssumption, MemcachedAssumption DEF RateLimitTTL
  <2> QED BY <2>2, Rounded
<1>3. LifetimeSuffices => Burst * intervalMicros <= e * Second BY RefillCounted
<1>4. q \in Nat /\ c < Second * q + Second BY Division, MemcachedAssumption
<1>5. rateLimitExpiration = e + 1 BY DEF rateLimitExpiration
<1> HIDE DEF q, e
<1>6. (q + (e + 1)) * Second = Second * q + e * Second + Second BY <1>2, <1>4, MemcachedAssumption
<1>7. Second * q \in Nat /\ e * Second \in Nat BY <1>2, <1>4, MemcachedAssumption
<1>8. LifetimeSuffices => tat <= (q + (e + 1)) * Second
  BY <1>1, <1>3, <1>4, <1>6, <1>7, MemcachedAssumption
<1> QED BY <1>2, <1>4, <1>5, <1>8 DEF q

\* A bucket that died before the second of a clock reading was refilled by then.
LEMMA Refilled ==
    ASSUME NEW tat \in Nat, NEW dies \in Nat, NEW n \in Nat,
           tat <= dies * Second, dies <= n \div Second
    PROVE  tat <= n
<1> DEFINE q == n \div Second
<1>1. q \in Nat /\ Second * q <= n BY Division, MemcachedAssumption
<1>2. dies <= q OBVIOUS
<1> HIDE DEF q
<1>3. dies * Second <= q * Second BY <1>1, <1>2, Products, MemcachedAssumption
<1>4. q * Second = Second * q /\ dies * Second \in Nat /\ q * Second \in Nat
  BY <1>1, MemcachedAssumption
<1> QED BY <1>1, <1>3, <1>4

\* What the two decisions compute.
LEMMA Decided ==
    ASSUME NEW tat \in Nat, NEW n \in Nat
    PROVE  /\ Arrival(tat, n) \in Nat /\ Arrival(tat, n) >= tat /\ Arrival(tat, n) >= n
           /\ tat <= n => Arrival(tat, n) = n
           /\ tat > n => Arrival(tat, n) = tat
           /\ ~Refused(tat, n) <=> tat + intervalMicros <= n + Burst * intervalMicros
<1>1. /\ Arrival(tat, n) \in Nat /\ Arrival(tat, n) >= tat /\ Arrival(tat, n) >= n
      /\ tat <= n => Arrival(tat, n) = n
      /\ tat > n => Arrival(tat, n) = tat
  BY DEF Arrival
<1>2. (Burst - 1) * intervalMicros = Burst * intervalMicros - intervalMicros /\ Burst * intervalMicros \in Nat
  BY Interval, RateLimitAssumption
<1>3. ~Refused(tat, n) <=> tat + intervalMicros <= n + Burst * intervalMicros
  BY <1>2, Interval DEF Refused
<1> QED BY <1>1, <1>3

-----------------------------------------------------------------------------
(* Taking a token. *)

\* One element more.
LEMMA OneMore ==
    ASSUME NEW S, IsFiniteSet(S), NEW x
    PROVE  /\ IsFiniteSet(S \union {x}) /\ Cardinality(S) \in Nat
           /\ Cardinality(S \union {x}) \in Nat
           /\ Cardinality(S \union {x}) <= Cardinality(S) + 1
           /\ x \notin S => Cardinality(S \union {x}) = Cardinality(S) + 1
<1>1. IsFiniteSet(S \union {x}) BY FS_AddElement
<1>2. Cardinality(S) \in Nat /\ Cardinality(S \union {x}) \in Nat BY <1>1, FS_CardinalityType
<1>3. x \notin S => Cardinality(S \union {x}) = Cardinality(S) + 1 BY FS_AddElement
<1>4. Cardinality(S \union {x}) <= Cardinality(S) + 1
  <2>1. CASE x \in S
    <3>1. S \union {x} = S BY <2>1
    <3>2. Cardinality(S \union {x}) = Cardinality(S) BY <3>1, Zenon
    <3> QED BY <1>2, <3>2
  <2>2. CASE x \notin S BY <1>2, <1>3, <2>2
  <2> QED BY <2>1, <2>2
<1> QED BY <1>1, <1>2, <1>3, <1>4

LEMMA Parts ==
    ASSUME IsFiniteSet(taken), NEW S \in SUBSET taken
    PROVE  IsFiniteSet(S) /\ Cardinality(S) \in Nat
BY FS_Subset, FS_CardinalityType

\* A token is taken at time n: the bucket is charged an interval from the arrival time on,
\* which was not too far ahead.
Takes(new, n) ==
    /\ new[2] = n /\ taken' = taken \union {new}
    /\ entry'.tat = Arrival(entry.tat, n) + intervalMicros
    /\ entry'.tat <= n + Burst * intervalMicros

LEMMA TakesCharge ==
    ASSUME entry.tat \in Nat, NEW new, NEW n \in Nat, Takes(new, n)
    PROVE  /\ entry'.tat \in Nat
           /\ entry'.tat >= entry.tat + intervalMicros /\ entry'.tat >= n + intervalMicros
           /\ entry.tat <= n => entry'.tat = n + intervalMicros
           /\ entry.tat > n => entry'.tat = entry.tat + intervalMicros
<1> DEFINE x == Arrival(entry.tat, n)
<1>2. /\ x \in Nat /\ x >= entry.tat /\ x >= n
      /\ entry.tat <= n => x = n
      /\ entry.tat > n => x = entry.tat
  BY Decided
<1>3. entry'.tat = x + intervalMicros BY DEF Takes
<1> HIDE DEF x
<1> QED BY <1>2, <1>3, Interval

\* The bucket is charged from the call's time on, or from an arrival time ahead of it.
LEMMA TakesStamp ==
    ASSUME TypeOK, BucketInv, TatInv, NEW r \in Requests, NEW n \in Nat, NEW tat \in Nat,
           NEW new, new = <<r, n, writes + 1>>, taken' = taken \union {new},
           entry'.tat = tat + intervalMicros, tat = n \/ (tat = entry.tat /\ entry.tat > n)
    PROVE  \E s \in taken' : entry'.tat = s[2] + Cardinality(After(s[3])') * intervalMicros
<1>1. writes \in Nat /\ entry.tat \in Nat /\ \A s \in taken : s[3] \in Nat /\ s[3] <= writes
  BY DEF TypeOK
<1>2. new \in taken' /\ new[2] = n /\ new[3] = writes + 1 OBVIOUS
<1>3. CASE tat = n
  <2>1. entry'.tat = n + intervalMicros BY <1>3
  <2>2. After(new[3])' = {new}
    <3>1. \A s \in taken : ~(s[3] >= writes + 1) BY <1>1
    <3> QED BY <1>1, <1>2, <3>1 DEF After
  <2>3. Cardinality(After(new[3])') = 1 BY <2>2, FS_Singleton
  <2> QED BY <1>2, <2>1, <2>3, Interval
<1>4. CASE tat = entry.tat /\ entry.tat > n
  <2>1. entry'.tat = entry.tat + intervalMicros BY <1>4
  <2>2. writes > 0 BY <1>1, <1>4 DEF BucketInv
  <2>3. PICK s \in taken : entry.tat = s[2] + Cardinality(After(s[3])) * intervalMicros
    BY <2>2 DEF TatInv
  <2>4. After(s[3])' = After(s[3]) \union {new} /\ new \notin After(s[3])
    <3>1. writes + 1 >= s[3] BY <1>1
    <3>2. \A u \in taken : u # new BY <1>1
    <3> QED BY <1>2, <3>1, <3>2 DEF After
  <2>5. IsFiniteSet(After(s[3])) BY Parts DEF After, BucketInv
  <2>6. /\ Cardinality(After(s[3])) \in Nat
        /\ Cardinality(After(s[3])') = Cardinality(After(s[3])) + 1
    BY <2>4, <2>5, OneMore
  <2>7. s \in taken' /\ s[2] \in Nat BY DEF TypeOK
  <2>8. (Cardinality(After(s[3])) + 1) * intervalMicros = Cardinality(After(s[3])) * intervalMicros + intervalMicros
    BY <2>6, Interval
  <2>9. Cardinality(After(s[3])) * intervalMicros \in Nat BY <2>6, Interval
  <2> QED BY <2>1, <2>3, <2>6, <2>7, <2>8, <2>9, Interval
<1> QED BY <1>3, <1>4

LEMMA TakesAhead ==
    ASSUME entry.tat \in Nat, IsFiniteSet(taken), AheadInv, NEW new, NEW n \in Nat, Takes(new, n),
           NEW a \in Nat, Since(a)' # {}
    PROVE  a + Cardinality(Since(a)') * intervalMicros <= entry'.tat
<1>1. /\ entry'.tat \in Nat
      /\ entry'.tat >= entry.tat + intervalMicros /\ entry'.tat >= n + intervalMicros
  BY TakesCharge
<1>2. IsFiniteSet(Since(a)) BY Parts DEF Since
<1>3. Cardinality(Since(a)) \in Nat BY <1>2, FS_CardinalityType
<1>4. Cardinality(Since(a)) * intervalMicros \in Nat BY <1>3, Interval
<1>5. CASE n < a
  <2>1. Since(a)' = Since(a) BY <1>5 DEF Since, Takes
  <2>2. a + Cardinality(Since(a)) * intervalMicros <= entry.tat BY <2>1 DEF AheadInv
  <2> QED BY <1>1, <1>4, <2>1, <2>2, Interval
<1>6. CASE n >= a
  <2>1. Since(a)' = Since(a) \union {new} BY <1>6 DEF Since, Takes
  <2>2. Cardinality(Since(a)') \in Nat /\ Cardinality(Since(a)') <= Cardinality(Since(a)) + 1
    BY <1>2, <2>1, OneMore
  <2>3. Cardinality(Since(a)') * intervalMicros <= (Cardinality(Since(a)) + 1) * intervalMicros
    BY <1>3, <2>2, Interval, Products
  <2>4. (Cardinality(Since(a)) + 1) * intervalMicros = Cardinality(Since(a)) * intervalMicros + intervalMicros
    BY <1>3, Interval
  <2>5. a + Cardinality(Since(a)) * intervalMicros + intervalMicros <= entry'.tat
    <3>1. CASE Since(a) = {}
      <4>1. Cardinality(Since(a)) = 0 BY <3>1, FS_EmptySet
      <4> QED BY <1>1, <1>6, <4>1, Interval
    <3>2. CASE Since(a) # {}
      <4>1. a + Cardinality(Since(a)) * intervalMicros <= entry.tat BY <3>2 DEF AheadInv
      <4> QED BY <1>1, <1>4, <4>1, Interval
    <3> QED BY <3>1, <3>2
  <2>6. Cardinality(Since(a)') * intervalMicros \in Nat BY <2>2, Interval
  <2> QED BY <1>1, <1>4, <2>3, <2>4, <2>5, <2>6, Interval
<1> QED BY <1>5, <1>6

LEMMA TakesRate ==
    ASSUME entry.tat \in Nat, IsFiniteSet(taken), AheadInv, RateInv, NEW new, NEW n \in Nat, Takes(new, n)
    PROVE  RateInv'
<1> DEFINE Between(a, b) == {s \in taken : a <= s[2] /\ s[2] <= b}
<1> SUFFICES ASSUME NEW a \in Nat, NEW b \in Nat, a <= b
             PROVE  Cardinality(Between(a, b)') * intervalMicros <= (b - a) + Burst * intervalMicros
  BY DEF RateInv
<1>1. CASE ~(a <= n /\ n <= b)
  <2>1. Between(a, b)' = Between(a, b) BY <1>1 DEF Takes
  <2> QED BY <2>1 DEF RateInv
<1>2. CASE a <= n /\ n <= b
  <2>1. Between(a, b)' \subseteq Since(a)' BY DEF Since
  <2>2. IsFiniteSet(taken') BY FS_AddElement DEF Takes
  <2>3. IsFiniteSet(Since(a)') BY <2>2, FS_Subset DEF Since
  <2>4. /\ Cardinality(Between(a, b)') \in Nat /\ Cardinality(Since(a)') \in Nat
        /\ Cardinality(Between(a, b)') <= Cardinality(Since(a)')
    <3> HIDE DEF Between
    <3> QED BY <2>1, <2>3, FS_Subset, FS_CardinalityType
  <2>5. Cardinality(Between(a, b)') * intervalMicros <= Cardinality(Since(a)') * intervalMicros
    <3> HIDE DEF Between
    <3> QED BY <2>4, Interval, Products
  <2>6. new \in Since(a)' BY <1>2 DEF Since, Takes
  <2>7. a + Cardinality(Since(a)') * intervalMicros <= entry'.tat BY <2>6, TakesAhead
  <2>8. entry'.tat <= n + Burst * intervalMicros /\ entry'.tat \in Nat
    BY TakesCharge DEF Takes
  <2>9. /\ Cardinality(Between(a, b)') * intervalMicros \in Nat
        /\ Cardinality(Since(a)') * intervalMicros \in Nat /\ Burst * intervalMicros \in Nat
    <3> HIDE DEF Between
    <3> QED BY <2>4, Interval, RateLimitAssumption
  <2> HIDE DEF Between
  <2> QED BY <1>2, <2>5, <2>7, <2>8, <2>9
<1> QED BY <1>1, <1>2

-----------------------------------------------------------------------------
(* The steps. *)

\* The values a call takes.
LEMMA Calls ==
    ASSUME TypeOK, NEW r \in Requests
    PROVE  /\ call[r] \in Call(writes)
           /\ call[r].now \in Nat /\ call[r].tat \in Nat
           /\ call[r].cas \in 0..writes /\ call[r].began \in 0..writes
           /\ call[r].attempt \in 0..MaxAttempts
BY DEF TypeOK, Call

\* One call changes its state; the table stays well typed.
LEMMA CallTypes ==
    ASSUME TypeOK, NEW r \in Requests, NEW c, c \in Call(writes'),
           call' = [call EXCEPT ![r] = c], writes' \in Nat, writes' >= writes
    PROVE  call' \in [Requests -> Call(writes')]
<1>1. \A q \in Requests : call[q] \in Call(writes')
  <2> SUFFICES ASSUME NEW q \in Requests PROVE call[q] \in Call(writes')
    OBVIOUS
  <2>1. call[q] \in Call(writes) BY Calls
  <2>2. 0..writes \subseteq 0..writes' BY DEF TypeOK
  <2> QED BY <2>1, <2>2 DEF Call
<1> QED BY <1>1 DEF TypeOK

\* The state of a call that has returned.
LEMMA Returned ==
    ASSUME NEW w \in Nat, NEW answer \in {"allowed", "refused", "contended", "error"}
    PROVE  [Idle EXCEPT !.step = answer] \in Call(w)
BY MemcachedAssumption DEF Idle, Call

LEMMA InitHolds == Init => LimitInv
<1> SUFFICES ASSUME Init PROVE LimitInv
  OBVIOUS
<1> USE DEF Init, NoEntry, Idle
<1>1. TypeOK
  <2>1. Idle \in Call(0) BY MemcachedAssumption DEF Call
  <2>2. clock \in Nat /\ writes = 0 BY MemcachedAssumption
  <2>3. call \in [Requests -> Call(writes)] BY <2>1, <2>2
  <2>4. stalled \in BOOLEAN OBVIOUS
  <2>5. entry \in [tat: Nat, cas: 0..writes, dies: Nat] BY <2>2
  <2> QED BY <2>2, <2>3, <2>4, <2>5 DEF TypeOK
<1>2. BucketInv BY FS_EmptySet, MemcachedAssumption DEF BucketInv
<1>3. CallInv BY MemcachedAssumption DEF CallInv
<1>4. TatInv /\ AheadInv BY DEF TatInv, AheadInv, Since
<1>5. RateInv
  <2> SUFFICES ASSUME NEW a \in Nat, NEW b \in Nat, a <= b
               PROVE  Cardinality({s \in taken : a <= s[2] /\ s[2] <= b}) * intervalMicros
                         <= (b - a) + Burst * intervalMicros
    BY DEF RateInv
  <2>1. {s \in taken : a <= s[2] /\ s[2] <= b} = {} OBVIOUS
  <2>2. Cardinality({s \in taken : a <= s[2] /\ s[2] <= b}) = 0 BY <2>1, FS_EmptySet
  <2>3. Burst * intervalMicros \in Nat BY Interval, RateLimitAssumption
  <2> QED BY <2>2, <2>3, Interval
<1> QED BY <1>1, <1>2, <1>3, <1>4, <1>5 DEF LimitInv, Account

\* A step that stores nothing keeps what is said of the bucket and of the stamps.
LEMMA NothingStored ==
    ASSUME LimitInv, UNCHANGED <<entry, taken, writes>>, stalled' = stalled
    PROVE  BucketInv' /\ (~stalled' => Account')
<1>1. BucketInv' BY DEF LimitInv, BucketInv, LifetimeSuffices
<1>2. ASSUME ~stalled' PROVE Account'
  <2>1. Account BY <1>2 DEF LimitInv
  <2>2. TatInv' BY <2>1 DEF Account, TatInv, After
  <2>3. ASSUME LifetimeSuffices PROVE AheadInv' /\ RateInv'
    BY <2>1, <2>3 DEF Account, AheadInv, Since, RateInv
  <2> QED BY <2>2, <2>3 DEF Account, LifetimeSuffices
<1> QED BY <1>1, <1>2

\* Tick and the steps of a call that store nothing.
LEMMA TickHolds == LimitInv /\ Tick => LimitInv'
<1> SUFFICES ASSUME LimitInv, Tick PROVE LimitInv'
  OBVIOUS
<1> USE DEF Tick
<1>1. TypeOK' BY DEF LimitInv, TypeOK
<1>2. BucketInv' /\ (~stalled' => Account') BY NothingStored
<1>3. CallInv'
  <2> SUFFICES ASSUME NEW r \in Requests
               PROVE  /\ call[r].now <= clock'
                      /\ call[r].step = "cas" =>
                            /\ ~Refused(call[r].tat, call[r].now)
                            /\ call[r].cas = entry.cas => call[r].tat = Arrival(entry.tat, call[r].now)
    BY DEF CallInv, Refused, Arrival
  <2>1. call[r].now <= clock' BY Calls DEF LimitInv, CallInv, TypeOK
  <2> QED BY <2>1 DEF LimitInv, CallInv
<1> QED BY <1>1, <1>2, <1>3 DEF LimitInv

\* A call that moves on with what it has read, or is over.
LEMMA MovesOn ==
    ASSUME LimitInv, NEW r \in Requests, NEW c, c \in Call(writes),
           call' = [call EXCEPT ![r] = c], UNCHANGED <<clock, entry, taken, writes, stalled>>,
           c.now <= clock,
           c.step = "cas" => /\ ~Refused(c.tat, c.now)
                             /\ c.cas = entry.cas => c.tat = Arrival(entry.tat, c.now)
    PROVE  LimitInv'
<1>1. TypeOK'
  <2>1. writes' \in Nat /\ writes' >= writes BY DEF LimitInv, TypeOK
  <2>2. c \in Call(writes') OBVIOUS
  <2>3. TypeOK BY DEF LimitInv
  <2>4. call' \in [Requests -> Call(writes')] BY <2>1, <2>2, <2>3, CallTypes
  <2> QED BY <2>3, <2>4 DEF TypeOK
<1>2. BucketInv' /\ (~stalled' => Account') BY NothingStored
<1>3. CallInv'
  <2> SUFFICES ASSUME NEW q \in Requests
               PROVE  /\ call'[q].now <= clock
                      /\ call'[q].step = "cas" =>
                            /\ ~Refused(call'[q].tat, call'[q].now)
                            /\ call'[q].cas = entry.cas => call'[q].tat = Arrival(entry.tat, call'[q].now)
    BY DEF CallInv, Refused, Arrival
  <2>1. CASE q = r
    <3>1. call'[q] = c BY <2>1 DEF LimitInv, TypeOK
    <3> QED BY <3>1
  <2>2. CASE q # r
    <3>1. call'[q] = call[q] BY <2>2 DEF LimitInv, TypeOK
    <3> QED BY <3>1 DEF LimitInv, CallInv
  <2> QED BY <2>1, <2>2
<1> QED BY <1>1, <1>2, <1>3 DEF LimitInv

\* A call that returns without having stored anything.
LEMMA ReturnHolds ==
    ASSUME LimitInv, NEW r \in Requests, NEW answer \in {"allowed", "refused", "contended", "error"},
           Return(r, answer), UNCHANGED <<clock, entry, taken, writes, stalled>>
    PROVE  LimitInv'
<1> DEFINE c == [Idle EXCEPT !.step = answer]
<1>1. c \in Call(writes) BY Returned DEF LimitInv, TypeOK
<1>2. c.now = 0 /\ c.step = answer BY DEF Idle
<1>3. call' = [call EXCEPT ![r] = c] BY DEF Return
<1>4. c.now <= clock BY <1>2 DEF LimitInv, TypeOK
<1> HIDE DEF c
<1> QED BY <1>1, <1>2, <1>3, <1>4, MovesOn

LEMMA BeginHolds ==
    ASSUME LimitInv, NEW r \in Requests, Begin(r)
    PROVE  LimitInv'
<1>1. CASE call[r].attempt = MaxAttempts /\ Return(r, "contended")
  BY <1>1, ReturnHolds DEF Begin
<1>2. CASE /\ call[r].attempt < MaxAttempts
           /\ call' = [call EXCEPT ![r].step = "get", ![r].attempt = @ + 1, ![r].now = clock,
                                   ![r].began = IF call[r].attempt = 0 THEN writes ELSE @]
  <2> DEFINE c == [call[r] EXCEPT !.step = "get", !.attempt = @ + 1, !.now = clock,
                                  !.began = IF call[r].attempt = 0 THEN writes ELSE @]
  <2>1. c \in Call(writes)
    <3>1. call[r] \in Call(writes) /\ call[r].attempt + 1 \in 0..MaxAttempts
      BY <1>2, Calls, MemcachedAssumption DEF LimitInv
    <3>2. clock \in Nat /\ writes \in 0..writes BY DEF LimitInv, TypeOK
    <3> QED BY <3>1, <3>2 DEF Call
  <2>2. call' = [call EXCEPT ![r] = c] BY <1>2 DEF LimitInv, TypeOK
  <2>3. c.now = clock /\ c.step = "get"
    <3>1. call[r] \in Call(writes) BY Calls DEF LimitInv
    <3> QED BY <3>1 DEF Call
  <2>4. c.now <= clock BY <2>3 DEF LimitInv, TypeOK
  <2> HIDE DEF c
  <2> QED BY <2>1, <2>2, <2>3, <2>4, MovesOn DEF Begin
<1> QED BY <1>1, <1>2 DEF Begin

LEMMA GetHolds ==
    ASSUME LimitInv, NEW r \in Requests, Get(r)
    PROVE  LimitInv'
<1> DEFINE tat == Arrival(entry.tat, call[r].now)
<1>0. call[r] \in Call(writes) /\ call[r].now \in Nat /\ call[r].now <= clock
  BY Calls DEF LimitInv, CallInv
<1>1. CASE call' = [call EXCEPT ![r].step = "add"]
  <2> DEFINE c == [call[r] EXCEPT !.step = "add"]
  <2>1. c \in Call(writes) /\ c.now = call[r].now /\ c.step = "add" BY <1>0 DEF Call
  <2>2. call' = [call EXCEPT ![r] = c] BY <1>1 DEF LimitInv, TypeOK
  <2> HIDE DEF c
  <2> QED BY <1>0, <2>1, <2>2, MovesOn DEF Get
<1>2. CASE Return(r, "refused") BY <1>2, ReturnHolds DEF Get
<1>3. CASE /\ ~Refused(tat, call[r].now)
           /\ call' = [call EXCEPT ![r].step = "cas", ![r].tat = tat, ![r].cas = entry.cas]
  <2> DEFINE c == [call[r] EXCEPT !.step = "cas", !.tat = tat, !.cas = entry.cas]
  <2>0. tat \in Nat /\ entry.cas \in 0..writes
    <3>1. entry.tat \in Nat /\ entry.cas \in 0..writes BY DEF LimitInv, TypeOK
    <3> QED BY <1>0, <3>1, Decided
  <2> HIDE DEF tat
  <2>1. c \in Call(writes) /\ c.now = call[r].now /\ c.step = "cas" /\ c.tat = tat
    BY <1>0, <2>0 DEF Call
  <2>2. call' = [call EXCEPT ![r] = c] BY <1>3 DEF LimitInv, TypeOK
  <2>3. ~Refused(c.tat, c.now) /\ c.tat = Arrival(entry.tat, c.now)
    BY <1>3, <2>1 DEF tat
  <2> HIDE DEF c
  <2> QED BY <1>0, <2>1, <2>2, <2>3, MovesOn DEF Get
<1> QED BY <1>1, <1>2, <1>3 DEF Get

\* A call that stores the bucket: from there on every other call that has read it is too
\* late, so only what the bucket says has to be shown.
LEMMA StoreHolds ==
    ASSUME LimitInv, NEW r \in Requests, NEW tat \in Nat, Store(r, tat + intervalMicros),
           clock' = clock, stalled' \in BOOLEAN, stalled => stalled',
           tat + intervalMicros <= call[r].now + Burst * intervalMicros,
           tat = call[r].now \/ (tat = entry.tat /\ entry.tat > call[r].now) \/ stalled',
           ~stalled' /\ LifetimeSuffices => tat = Arrival(entry.tat, call[r].now)
    PROVE  LimitInv'
<1> DEFINE n == call[r].now
<1>0. /\ n \in Nat /\ n <= clock /\ clock \in Nat /\ writes \in Nat
      /\ TypeOK /\ BucketInv /\ writes' = writes + 1
  BY Calls DEF LimitInv, CallInv, TypeOK, Store
<1>1. PICK answer \in {"allowed", "error"} : Return(r, answer) BY DEF Store
<1> DEFINE c == [Idle EXCEPT !.step = answer]
<1>2. c \in Call(writes') /\ c.now = 0 /\ c.step # "cas"
  <2>1. writes' \in Nat BY <1>0
  <2> QED BY <2>1, Returned DEF Idle
<1>3. call' = [call EXCEPT ![r] = c] BY <1>1 DEF Return
<1> HIDE DEF c
<1>4. /\ entry' = [tat |-> tat + intervalMicros, cas |-> writes + 1, dies |-> Coarse + rateLimitExpiration]
      /\ taken' = taken \union {<<r, n, writes + 1>>}
  BY DEF Store
<1>5. /\ Coarse + rateLimitExpiration \in Nat
      /\ LifetimeSuffices => tat + intervalMicros <= (Coarse + rateLimitExpiration) * Second
  <2>1. tat + intervalMicros \in Nat BY Interval
  <2> QED BY <1>0, <2>1, Lifetime DEF Coarse
<1> HIDE DEF n
<1>6. TypeOK'
  <2>1. call' \in [Requests -> Call(writes')]
    <3>1. writes' \in Nat /\ writes' >= writes BY <1>0
    <3> QED BY <1>0, <1>2, <1>3, <3>1, CallTypes
  <2>2. entry' \in [tat: Nat, cas: 0..writes', dies: Nat] BY <1>0, <1>4, <1>5, Interval
  <2>3. taken' \subseteq (Requests \X Nat \X (1..writes'))
    <3>1. 1..writes \subseteq 1..writes' /\ writes + 1 \in 1..writes' BY <1>0
    <3>2. taken \subseteq (Requests \X Nat \X (1..writes)) BY <1>0 DEF TypeOK
    <3> QED BY <1>0, <1>4, <3>1, <3>2
  <2> QED BY <1>0, <2>1, <2>2, <2>3 DEF TypeOK
<1>7. BucketInv'
  <2>1. IsFiniteSet(taken') BY <1>0, <1>4, FS_AddElement DEF BucketInv
  <2> QED BY <1>0, <1>4, <1>5, <2>1 DEF BucketInv, LifetimeSuffices
<1>8. CallInv'
  <2> SUFFICES ASSUME NEW q \in Requests
               PROVE  /\ call'[q].now <= clock
                      /\ call'[q].step = "cas" =>
                            /\ ~Refused(call'[q].tat, call'[q].now)
                            /\ call'[q].cas # entry'.cas
    BY DEF CallInv, Refused, Arrival
  <2>1. CASE q = r
    <3>1. call'[q] = c BY <1>0, <1>3, <2>1 DEF TypeOK
    <3> QED BY <1>0, <1>2, <3>1
  <2>2. CASE q # r
    <3>1. call'[q] = call[q] BY <1>0, <1>3, <2>2 DEF TypeOK
    <3>2. call[q].cas \in 0..writes BY <1>0, Calls
    <3>3. entry'.cas = writes + 1 BY <1>4
    <3>4. call[q].cas # entry'.cas BY <1>0, <3>2, <3>3
    <3> QED BY <3>1, <3>4 DEF LimitInv, CallInv
  <2> QED BY <2>1, <2>2
<1>9. ASSUME ~stalled' PROVE Account'
  <2>1. Account BY <1>9 DEF LimitInv
  <2>2. entry.tat \in Nat /\ IsFiniteSet(taken) BY <1>0 DEF TypeOK, BucketInv
  <2>3. entry'.tat = tat + intervalMicros BY <1>4
  <2>4. TatInv'
    <3>1. tat = n \/ (tat = entry.tat /\ entry.tat > n) BY <1>9 DEF n
    <3>2. PICK new : new = <<r, n, writes + 1>> OBVIOUS
    <3>3. \E s \in taken' : entry'.tat = s[2] + Cardinality(After(s[3])') * intervalMicros
      BY <1>0, <1>4, <2>1, <2>3, <3>1, <3>2, TakesStamp DEF Account
    <3> QED BY <3>3 DEF TatInv
  <2>5. ASSUME LifetimeSuffices PROVE AheadInv' /\ RateInv'
    <3>1. AheadInv /\ RateInv BY <2>1, <2>5 DEF Account
    <3>2. Takes(<<r, n, writes + 1>>, n)
      <4>1. tat = Arrival(entry.tat, n) BY <1>9, <2>5 DEF n
      <4>2. tat + intervalMicros <= n + Burst * intervalMicros BY DEF n
      <4> QED BY <1>4, <2>3, <4>1, <4>2 DEF Takes
    <3>3. \A a \in Nat : Since(a)' # {} => a + Cardinality(Since(a)') * intervalMicros <= entry'.tat
      BY <1>0, <2>2, <3>1, <3>2, TakesAhead
    <3>4. RateInv' BY <1>0, <2>2, <3>1, <3>2, TakesRate
    <3> QED BY <3>3, <3>4 DEF AheadInv
  <2> QED BY <2>4, <2>5 DEF Account, LifetimeSuffices
<1> QED BY <1>6, <1>7, <1>8, <1>9 DEF LimitInv

\* client.Add: with no bucket there is nothing to wait for, and the one before was refilled,
\* unless the call stalled.
LEMMA AddHolds ==
    ASSUME LimitInv, NEW r \in Requests, AddItem(r)
    PROVE  LimitInv'
<1>0. call[r] \in Call(writes) /\ call[r].now \in Nat /\ call[r].now <= clock
  BY Calls DEF LimitInv, CallInv
<1>1. CASE ~Alive /\ Store(r, call[r].now + intervalMicros)
           /\ stalled' = (stalled \/ entry.dies > call[r].now \div Second)
  <2> DEFINE n == call[r].now
  <2>1. n + intervalMicros <= n + Burst * intervalMicros
    <3>1. intervalMicros <= Burst * intervalMicros
      <4>1. 1 * intervalMicros <= Burst * intervalMicros BY Products, Interval, RateLimitAssumption
      <4> QED BY <4>1, Interval
    <3>2. Burst * intervalMicros \in Nat BY Interval, RateLimitAssumption
    <3> QED BY <1>0, <3>1, <3>2, Interval
  <2>2. ASSUME ~stalled', LifetimeSuffices PROVE n = Arrival(entry.tat, n)
    <3>1. entry.tat \in Nat /\ entry.dies \in Nat /\ entry.tat <= entry.dies * Second
      BY <2>2 DEF LimitInv, TypeOK, BucketInv
    <3>2. n \div Second \in Nat BY <1>0, Division, MemcachedAssumption
    <3>3. ~(entry.dies > n \div Second) BY <1>1, <2>2
    <3>4. entry.dies <= n \div Second BY <3>1, <3>2, <3>3
    <3>5. entry.tat <= n BY <1>0, <3>1, <3>4, Refilled
    <3> QED BY <1>0, <3>1, <3>5, Decided
  <2>3. stalled' \in BOOLEAN /\ (stalled => stalled') BY <1>1
  <2> QED BY <1>0, <1>1, <2>1, <2>2, <2>3, StoreHolds DEF AddItem
<1>2. CASE Retry(r) /\ UNCHANGED stalled
  <2> DEFINE c == [call[r] EXCEPT !.step = "start"]
  <2>1. c \in Call(writes) /\ c.now = call[r].now /\ c.step = "start" BY <1>0 DEF Call
  <2>2. call' = [call EXCEPT ![r] = c] BY <1>2 DEF LimitInv, TypeOK, Retry
  <2> HIDE DEF c
  <2> QED BY <1>0, <1>2, <2>1, <2>2, MovesOn DEF AddItem, Retry
<1> QED BY <1>1, <1>2 DEF AddItem

\* client.CompareAndSwap: the decision was taken on this very bucket.
LEMMA SwapHolds ==
    ASSUME LimitInv, NEW r \in Requests, CompareAndSwap(r)
    PROVE  LimitInv'
<1>0. /\ call[r] \in Call(writes) /\ call[r].now \in Nat /\ call[r].tat \in Nat
      /\ call[r].now <= clock /\ call[r].step = "cas"
  BY Calls DEF LimitInv, CallInv, CompareAndSwap
<1>1. CASE Alive /\ entry.cas = call[r].cas /\ Store(r, call[r].tat + intervalMicros)
  <2>1. /\ call[r].tat = Arrival(entry.tat, call[r].now)
        /\ ~Refused(call[r].tat, call[r].now)
    BY <1>0, <1>1 DEF LimitInv, CallInv
  <2>2. call[r].tat + intervalMicros <= call[r].now + Burst * intervalMicros BY <1>0, <2>1, Decided
  <2>3. stalled' \in BOOLEAN /\ (stalled => stalled') BY DEF LimitInv, TypeOK, CompareAndSwap
  <2>4. call[r].tat = call[r].now \/ (call[r].tat = entry.tat /\ entry.tat > call[r].now)
    <3>1. entry.tat \in Nat BY DEF LimitInv, TypeOK
    <3> QED BY <1>0, <2>1, <3>1, Decided
  <2> QED BY <1>0, <1>1, <2>1, <2>2, <2>3, <2>4, StoreHolds DEF CompareAndSwap
<1>2. CASE Retry(r)
  <2> DEFINE c == [call[r] EXCEPT !.step = "start"]
  <2>1. c \in Call(writes) /\ c.now = call[r].now /\ c.step = "start" BY <1>0 DEF Call
  <2>2. call' = [call EXCEPT ![r] = c] BY <1>2 DEF LimitInv, TypeOK, Retry
  <2> HIDE DEF c
  <2> QED BY <1>0, <1>2, <2>1, <2>2, MovesOn DEF CompareAndSwap, Retry
<1>3. CASE ~Alive /\ Return(r, "error") /\ UNCHANGED <<entry, taken, writes>>
  BY <1>3, ReturnHolds DEF CompareAndSwap
<1> QED BY <1>1, <1>2, <1>3 DEF CompareAndSwap

-----------------------------------------------------------------------------
LEMMA StepHolds == LimitInv /\ [Next]_vars => LimitInv'
<1> SUFFICES ASSUME LimitInv, [Next]_vars PROVE LimitInv'
  OBVIOUS
<1>1. CASE Tick BY <1>1, TickHolds
<1>2. ASSUME NEW r \in Requests, Begin(r) PROVE LimitInv' BY <1>2, BeginHolds
<1>3. ASSUME NEW r \in Requests, Break(r) PROVE LimitInv' BY <1>3, ReturnHolds DEF Break
<1>4. ASSUME NEW r \in Requests, Get(r) PROVE LimitInv' BY <1>4, GetHolds
<1>5. ASSUME NEW r \in Requests, AddItem(r) PROVE LimitInv' BY <1>5, AddHolds
<1>6. ASSUME NEW r \in Requests, CompareAndSwap(r) PROVE LimitInv' BY <1>6, SwapHolds
<1>7. CASE UNCHANGED vars
  <2> USE <1>7 DEF vars
  <2>1. TypeOK' BY DEF LimitInv, TypeOK
  <2>2. BucketInv' /\ (~stalled' => Account') BY NothingStored
  <2>3. CallInv' BY DEF LimitInv, CallInv, Refused, Arrival
  <2> QED BY <2>1, <2>2, <2>3 DEF LimitInv
<1> QED BY <1>1, <1>2, <1>3, <1>4, <1>5, <1>6, <1>7 DEF Next

\* The bucket, the calls under way and the tokens taken agree with one another.
THEOREM LimitSafe == Spec => []LimitInv
BY InitHolds, StepHolds, PTL DEF Spec

\* The rate, divided by an interval of nanoseconds that is not longer than what is charged.
LEMMA RateFollows ==
    ASSUME IsFiniteSet(taken), \A s \in taken : s[2] \in Nat, RateInv,
           NEW early \in Nat, interval - early \in Nat \ {0},
           interval - early <= intervalMicros * Microsecond
    PROVE  RateHolds(taken, early)
<1> SUFFICES ASSUME NEW s \in taken, NEW u \in taken, s[2] <= u[2]
             PROVE  Within(taken, s[2], u[2])
                       <= Burst + ((u[2] - s[2]) * Microsecond) \div (interval - early)
  BY DEF RateHolds
<1> DEFINE W == {v \in taken : s[2] <= v[2] /\ v[2] <= u[2]}
<1>1. s[2] \in Nat /\ u[2] \in Nat OBVIOUS
<1>2. Cardinality(W) * intervalMicros <= (u[2] - s[2]) + Burst * intervalMicros BY <1>1 DEF RateInv
<1>3. PICK k \in Nat : k = Cardinality(W) BY Parts
<1>4. Within(taken, s[2], u[2]) = k BY <1>3 DEF Within
<1>5. PICK x \in Nat : x = u[2] - s[2] BY <1>1
<1>6. k * intervalMicros <= x + Burst * intervalMicros BY <1>2, <1>3, <1>5
<1> HIDE DEF W
<1>7. PICK q \in Nat : q = intervalMicros BY Interval
<1>8. PICK i \in Nat \ {0} : i = interval - early OBVIOUS
<1>9. Burst \in Nat /\ Microsecond \in Nat BY RateLimitAssumption
<1>10. k * q <= x + Burst * q BY <1>6, <1>7
<1>11. (k * q) * Microsecond <= (x + Burst * q) * Microsecond
  <2>1. k * q \in Nat /\ x + Burst * q \in Nat BY <1>3, <1>5, <1>7, <1>9
  <2> QED BY <1>9, <1>10, <2>1, Products
<1>12. /\ (k * q) * Microsecond = k * (q * Microsecond)
       /\ (x + Burst * q) * Microsecond = x * Microsecond + Burst * (q * Microsecond)
  BY <1>3, <1>5, <1>7, <1>9
<1>13. PICK d \in Nat : d = q * Microsecond BY <1>7, <1>9
<1>14. PICK y \in Nat : y = x * Microsecond BY <1>5, <1>9
<1>15. k * d <= y + Burst * d BY <1>11, <1>12, <1>13, <1>14
<1>16. k * i <= y + Burst * i BY <1>3, <1>7, <1>8, <1>9, <1>13, <1>14, <1>15, Lowered
<1>17. k <= Burst + y \div i BY <1>3, <1>8, <1>9, <1>14, <1>16, Divided
<1> QED BY <1>4, <1>5, <1>8, <1>14, <1>17

\* The invariant gives the rate, for every early that makes up for what is not charged.
LEMMA AccountFollows ==
    ASSUME LifetimeSuffices, LimitInv, ~stalled, NEW early \in Nat, interval - early \in Nat \ {0},
           interval - early <= intervalMicros * Microsecond
    PROVE  RateHolds(taken, early)
<1>1. \A s \in taken : s[2] \in Nat BY DEF LimitInv, TypeOK
<1>2. RateInv /\ IsFiniteSet(taken) BY DEF LimitInv, BucketInv, Account
<1> QED BY <1>1, <1>2, RateFollows

\* Concurrent calls of AllowRateLimit on memcached are limited as one: in every stretch of
\* time at most the burst and one call per interval, short of the part of a microsecond that
\* interval.Microseconds() cuts off, take a token, unless a call was held up across the end
\* of the bucket's life.
THEOREM RateKept == LifetimeSuffices /\ Spec => []RateRespected
<1> SUFFICES ASSUME LifetimeSuffices PROVE Spec => []RateRespected
  OBVIOUS
<1>1. ASSUME LimitInv, ~stalled PROVE RateHolds(taken, Uncounted)
  BY <1>1, Interval, AccountFollows
<1>2. LimitInv => RateRespected BY <1>1 DEF RateRespected
<1> QED BY <1>2, LimitSafe, PTL

\* Where the interval is a whole number of microseconds (a rate that divides a million per
\* second) nothing is cut off and the configured rate itself is kept.
THEOREM StatedRateKept ==
    interval % Microsecond = 0 /\ Spec => [](stalled \/ RateHolds(taken, 0))
<1> SUFFICES ASSUME interval % Microsecond = 0 PROVE Spec => [](stalled \/ RateHolds(taken, 0))
  OBVIOUS
<1>1. Microsecond <= interval BY WholeMicros
<1>2. Uncounted = 0 BY DEF Uncounted
<1>3. interval - Uncounted = interval - 0 BY <1>2
<1>4. ASSUME LimitInv, ~stalled PROVE RateHolds(taken, 0)
  BY <1>1, <1>2, <1>3, <1>4, Interval, AccountFollows DEF LifetimeSuffices
<1>5. LimitInv => (stalled \/ RateHolds(taken, 0)) BY <1>4
<1> QED BY <1>5, LimitSafe, PTL

-----------------------------------------------------------------------------
(* Refusals. *)

\* A bucket whose arrival time is too far ahead has given out its burst and its refill.
LEMMA RefusalsJustified ==
    ASSUME LimitInv, ~stalled, NEW n \in Nat, Refused(Arrival(entry.tat, n), n)
    PROVE  Exhausted(n) \/ \E s \in taken : s[2] > n
<1>0. entry.tat \in Nat /\ writes \in Nat /\ Burst \in Nat \ {0} /\ Burst * intervalMicros \in Nat
  BY Interval, RateLimitAssumption DEF LimitInv, TypeOK
<1>1. entry.tat > n /\ entry.tat + intervalMicros > n + Burst * intervalMicros
  <2> DEFINE x == Arrival(entry.tat, n)
  <2>1. x \in Nat /\ (entry.tat <= n => x = n) /\ (entry.tat > n => x = entry.tat)
    BY <1>0, Decided
  <2>2. x + intervalMicros > n + Burst * intervalMicros BY <1>0, <2>1, Decided, Interval
  <2>3. intervalMicros <= Burst * intervalMicros
    <3>1. 1 * intervalMicros <= Burst * intervalMicros BY <1>0, Products, Interval
    <3> QED BY <3>1, Interval
  <2> HIDE DEF x
  <2> QED BY <1>0, <2>1, <2>2, <2>3, Interval
<1>2. writes > 0 BY <1>0, <1>1 DEF LimitInv, BucketInv
<1>3. PICK s \in taken : entry.tat = s[2] + Cardinality(After(s[3])) * intervalMicros
  BY <1>2 DEF LimitInv, Account, TatInv
<1>4. s[2] \in Nat BY DEF LimitInv, TypeOK
<1>5. CASE s[2] > n BY <1>5
<1>6. CASE s[2] <= n
  <2> DEFINE k == Cardinality(After(s[3]))
  <2>1. k \in Nat
    <3>1. IsFiniteSet(After(s[3])) BY Parts DEF After, LimitInv, BucketInv
    <3> QED BY <3>1, FS_CardinalityType
  <2>2. n - s[2] \in Nat BY <1>4, <1>6
  <2>3. k = Cardinality({u \in taken : u[3] >= s[3]}) BY DEF After
  <2>4. entry.tat = s[2] + k * intervalMicros BY <1>3
  <2> HIDE DEF k
  <2>5. (k + 1) * intervalMicros = k * intervalMicros + intervalMicros /\ k * intervalMicros \in Nat BY <2>1, Interval
  <2>6. ~((k + 1) * intervalMicros <= (n - s[2]) + Burst * intervalMicros)
    BY <1>0, <1>1, <1>4, <2>2, <2>4, <2>5, Interval
  <2>7. (n - s[2]) \div intervalMicros \in Nat BY <2>2, Division, Interval
  <2>8. ~(k + 1 <= Burst + (n - s[2]) \div intervalMicros)
    <3>1. k + 1 \in Nat BY <2>1
    <3> QED BY <1>0, <2>2, <2>6, <3>1, Multiplied
  <2>9. k + 1 > Burst + (n - s[2]) \div intervalMicros BY <1>0, <2>1, <2>7, <2>8
  <2> QED BY <1>6, <2>3, <2>9 DEF Exhausted
<1> QED BY <1>0, <1>4, <1>5, <1>6

\* Only Get refuses.
LEMMA RefusingStep ==
    ASSUME LimitInv, Next, NEW r \in Requests, call[r].step = "get", call'[r].step = "refused"
    PROVE  Refused(Arrival(entry.tat, call[r].now), call[r].now)
<1>0. call \in [Requests -> Call(writes)] BY DEF LimitInv, TypeOK
<1>1. call'[r] # call[r] OBVIOUS
<1>2. CASE Tick BY <1>1, <1>2 DEF Tick
<1>3. ASSUME NEW q \in Requests, Begin(q) \/ Break(q) \/ AddItem(q) \/ CompareAndSwap(q)
      PROVE  FALSE
  <2>1. q = r BY <1>0, <1>1, <1>3
    DEF Begin, Break, AddItem, CompareAndSwap, Store, Retry, Return
  <2>2. Break(r) BY <1>3, <2>1 DEF Begin, AddItem, CompareAndSwap
  <2> QED BY <1>0, <2>2 DEF Break, Return, Idle
<1>4. ASSUME NEW q \in Requests, Get(q)
      PROVE  Refused(Arrival(entry.tat, call[r].now), call[r].now)
  <2>1. q = r BY <1>0, <1>1, <1>4 DEF Get, Return
  <2>2. CASE call' = [call EXCEPT ![r].step = "add"] BY <1>0, <2>2
  <2>3. CASE call' = [call EXCEPT ![r].step = "cas", ![r].tat = Arrival(entry.tat, call[r].now), ![r].cas = entry.cas]
    BY <1>0, <2>3 DEF Call
  <2> QED BY <1>4, <2>1, <2>2, <2>3 DEF Get
<1> QED BY <1>2, <1>3, <1>4 DEF Next

\* A call of AllowRateLimit is refused only when, at its time, the bucket is empty, or because
\* its clock reading is older than another call's.
THEOREM RefusedRightly == Spec => RefusedForCause
<1>1. LimitInv /\ [Next]_vars =>
        [\A r \in Requests : call[r].step = "get" /\ call'[r].step = "refused"
            => stalled \/ Exhausted(call[r].now) \/ \E s \in taken : s[2] > call[r].now]_vars
  <2> SUFFICES ASSUME LimitInv, Next, NEW r \in Requests,
                      call[r].step = "get", call'[r].step = "refused", ~stalled
               PROVE  Exhausted(call[r].now) \/ \E s \in taken : s[2] > call[r].now
    OBVIOUS
  <2>1. call[r].now \in Nat BY Calls DEF LimitInv
  <2> QED BY <2>1, RefusingStep, RefusalsJustified
<1> QED BY <1>1, LimitSafe, PTL DEF Spec, RefusedForCause

-----------------------------------------------------------------------------
(* Contention. *)

\* Every attempt that failed was beaten by an update of its own: one that came after this
\* call had read the bucket, or had found none.
Attempted(c) ==
    /\ c.step = "start" => writes >= c.began + c.attempt
    /\ c.step \in {"get", "add", "cas"} => writes + 1 >= c.began + c.attempt
    /\ c.step = "add" /\ Alive => writes >= c.began + c.attempt
    /\ c.step = "cas" => c.cas + 1 >= c.began + c.attempt

AttemptInv == \A r \in Requests : Attempted(call[r])

\* A bucket that dies stays dead until it is stored.
LEMMA DeadStays ==
    ASSUME LimitInv, Tick, ~Alive
    PROVE  ~Alive'
<1>1. clock \in Nat /\ clock' = clock + 1 /\ entry' = entry BY DEF LimitInv, TypeOK, Tick
<1> DEFINE q == clock \div Second
<1> DEFINE p == (clock + 1) \div Second
<1>2. /\ q \in Nat /\ Second * q <= clock /\ p \in Nat /\ clock + 1 < Second * p + Second
  <2>1. clock + 1 \in Nat BY <1>1
  <2> QED BY <1>1, <2>1, Division, MemcachedAssumption
<1>3. Coarse = q /\ Coarse' = p BY <1>1 DEF Coarse
<1> HIDE DEF q, p
<1>4. q <= p
  <2> SUFFICES ASSUME p + 1 <= q PROVE FALSE
    BY <1>2
  <2>1. (p + 1) * Second <= q * Second BY <1>2, Products, MemcachedAssumption
  <2>2. (p + 1) * Second = Second * p + Second /\ q * Second = Second * q
    BY <1>2, MemcachedAssumption
  <2>3. Second * p \in Nat /\ Second * q \in Nat BY <1>2, MemcachedAssumption
  <2> QED BY <1>1, <1>2, <2>1, <2>2, <2>3, MemcachedAssumption
<1>5. entry.dies \in Nat BY DEF LimitInv, TypeOK
<1> QED BY <1>1, <1>2, <1>3, <1>4, <1>5 DEF Alive

\* What one call does leaves the others as attempted as they were.
LEMMA OthersAttempted ==
    ASSUME LimitInv, NEW c \in Call(writes), Attempted(c), UNCHANGED <<clock, entry, writes>>
    PROVE  Attempted(c)'
BY DEF Attempted, Alive, Coarse

LEMMA StoredAttempted ==
    ASSUME LimitInv, NEW c \in Call(writes), Attempted(c), writes' = writes + 1
    PROVE  Attempted(c)'
<1>1. c.began \in Nat /\ c.attempt \in Nat /\ c.cas \in Nat /\ writes \in Nat
  BY MemcachedAssumption DEF Call, LimitInv, TypeOK
<1>2. c.step = "start" => writes' >= c.began + c.attempt BY <1>1 DEF Attempted
<1>3. c.step \in {"get", "add", "cas"} => writes' >= c.began + c.attempt BY <1>1 DEF Attempted
<1>4. c.step \in {"get", "add", "cas"} => writes' + 1 >= c.began + c.attempt BY <1>1, <1>3
<1>5. c.step = "cas" => c.cas + 1 >= c.began + c.attempt BY DEF Attempted
<1> QED BY <1>2, <1>3, <1>4, <1>5 DEF Attempted

\* Whatever the acting call becomes.
LEMMA ActingAttempted ==
    ASSUME LimitInv, AttemptInv, NEW r \in Requests,
           \/ UNCHANGED <<clock, entry, writes>>
           \/ writes' = writes + 1,
           NEW c, call' = [call EXCEPT ![r] = c], Attempted(c)'
    PROVE  AttemptInv'
<1> SUFFICES ASSUME NEW q \in Requests PROVE Attempted(call[q])'
  BY DEF AttemptInv
<1>0. call \in [Requests -> Call(writes)] BY DEF LimitInv, TypeOK
<1>1. CASE q = r
  <2>1. call'[q] = c BY <1>0, <1>1
  <2> QED BY <2>1 DEF Attempted
<1>2. CASE q # r
  <2>1. call'[q] = call[q] /\ call[q] \in Call(writes) BY <1>0, <1>2
  <2>2. Attempted(call[q]) BY DEF AttemptInv
  <2>3. PICK d \in Call(writes) : d = call[q] BY <2>1
  <2>4. Attempted(d)' BY <2>2, <2>3, OthersAttempted, StoredAttempted
  <2> QED BY <2>1, <2>3, <2>4 DEF Attempted
<1> QED BY <1>1, <1>2

LEMMA ReturnAttempted ==
    ASSUME LimitInv, AttemptInv, NEW r \in Requests,
           NEW answer \in {"allowed", "refused", "contended", "error"}, Return(r, answer),
           UNCHANGED <<clock, entry, writes>> \/ writes' = writes + 1
    PROVE  AttemptInv'
<1>1. PICK c : c = [Idle EXCEPT !.step = answer] OBVIOUS
<1>2. c.step = answer BY <1>1 DEF Idle
<1>3. Attempted(c)' BY <1>2 DEF Attempted
<1>4. call' = [call EXCEPT ![r] = c] BY <1>1 DEF Return
<1> QED BY <1>3, <1>4, ActingAttempted

LEMMA RetryAttempted ==
    ASSUME LimitInv, AttemptInv, NEW r \in Requests, Retry(r), UNCHANGED clock,
           writes >= call[r].began + call[r].attempt
    PROVE  AttemptInv'
<1>1. PICK c : c = [call[r] EXCEPT !.step = "start"] OBVIOUS
<1>2. call[r] \in Call(writes) BY Calls DEF LimitInv
<1>3. c.step = "start" /\ c.began = call[r].began /\ c.attempt = call[r].attempt
  BY <1>1, <1>2 DEF Call
<1>4. Attempted(c)' BY <1>3 DEF Attempted, Retry
<1>5. call' = [call EXCEPT ![r] = c] BY <1>1 DEF Retry, LimitInv, TypeOK
<1> QED BY <1>4, <1>5, ActingAttempted DEF Retry

LEMMA BeginAttempted ==
    ASSUME LimitInv, AttemptInv, NEW r \in Requests, Begin(r)
    PROVE  AttemptInv'
<1>1. CASE Return(r, "contended") BY <1>1, ReturnAttempted DEF Begin
<1>2. CASE call' = [call EXCEPT ![r].step = "get", ![r].attempt = @ + 1, ![r].now = clock,
                                ![r].began = IF call[r].attempt = 0 THEN writes ELSE @]
  <2>1. PICK c : c = [call[r] EXCEPT !.step = "get", !.attempt = @ + 1, !.now = clock,
                                     !.began = IF call[r].attempt = 0 THEN writes ELSE @]
    OBVIOUS
  <2>2. call[r] \in Call(writes) BY Calls DEF LimitInv
  <2>3. /\ c.step = "get" /\ c.attempt = call[r].attempt + 1
        /\ c.began = IF call[r].attempt = 0 THEN writes ELSE call[r].began
    BY <2>1, <2>2 DEF Call
  <2>4. /\ call[r].attempt \in Nat /\ call[r].began \in Nat /\ writes \in Nat
        /\ writes >= call[r].began + call[r].attempt
    BY Calls, MemcachedAssumption DEF LimitInv, TypeOK, AttemptInv, Attempted, Begin
  <2>5. writes + 1 >= c.began + c.attempt BY <2>3, <2>4
  <2>6. Attempted(c)' BY <2>3, <2>5 DEF Attempted, Begin
  <2>7. call' = [call EXCEPT ![r] = c] BY <1>2, <2>1 DEF LimitInv, TypeOK
  <2> QED BY <2>6, <2>7, ActingAttempted DEF Begin
<1> QED BY <1>1, <1>2 DEF Begin

LEMMA GetAttempted ==
    ASSUME LimitInv, AttemptInv, NEW r \in Requests, Get(r)
    PROVE  AttemptInv'
<1>0. /\ call[r] \in Call(writes) /\ call[r].attempt \in Nat /\ call[r].began \in Nat
      /\ writes \in Nat /\ writes + 1 >= call[r].began + call[r].attempt
  BY Calls, MemcachedAssumption DEF LimitInv, TypeOK, AttemptInv, Attempted, Get
<1>1. CASE ~Alive /\ call' = [call EXCEPT ![r].step = "add"]
  <2>1. PICK c : c = [call[r] EXCEPT !.step = "add"] OBVIOUS
  <2>2. c.step = "add" /\ c.attempt = call[r].attempt /\ c.began = call[r].began
    BY <1>0, <2>1 DEF Call
  <2>3. ~Alive' BY <1>1 DEF Alive, Coarse, Get
  <2>4. Attempted(c)' BY <1>0, <2>2, <2>3 DEF Attempted, Get
  <2>5. call' = [call EXCEPT ![r] = c] BY <1>1, <2>1 DEF LimitInv, TypeOK
  <2> QED BY <2>4, <2>5, ActingAttempted DEF Get
<1>2. CASE Return(r, "refused") BY <1>2, ReturnAttempted DEF Get
<1>3. CASE call' = [call EXCEPT ![r].step = "cas", ![r].tat = Arrival(entry.tat, call[r].now),
                                ![r].cas = entry.cas]
  <2>1. PICK c : c = [call[r] EXCEPT !.step = "cas", !.tat = Arrival(entry.tat, call[r].now),
                                     !.cas = entry.cas]
    OBVIOUS
  <2>2. /\ c.step = "cas" /\ c.attempt = call[r].attempt /\ c.began = call[r].began
        /\ c.cas = entry.cas
    BY <1>0, <2>1 DEF Call
  <2>3. entry.cas = writes BY DEF LimitInv, BucketInv
  <2>4. Attempted(c)' BY <1>0, <2>2, <2>3 DEF Attempted, Get
  <2>5. call' = [call EXCEPT ![r] = c] BY <1>3, <2>1 DEF LimitInv, TypeOK
  <2> QED BY <2>4, <2>5, ActingAttempted DEF Get
<1> QED BY <1>1, <1>2, <1>3 DEF Get

LEMMA StoreAttempted ==
    ASSUME LimitInv, AttemptInv, NEW r \in Requests, AddItem(r) \/ CompareAndSwap(r)
    PROVE  AttemptInv'
<1>0. /\ call[r].attempt \in Nat /\ call[r].began \in Nat /\ call[r].cas \in 0..writes
      /\ writes \in Nat /\ entry.cas = writes
  BY Calls, MemcachedAssumption DEF LimitInv, TypeOK, BucketInv
<1>1. ASSUME NEW tat, Store(r, tat) PROVE AttemptInv'
  <2>1. PICK answer \in {"allowed", "error"} : Return(r, answer) BY <1>1 DEF Store
  <2> QED BY <1>1, <2>1, ReturnAttempted DEF Store
<1>2. CASE Retry(r)
  <2>1. writes >= call[r].began + call[r].attempt
    <3>1. CASE AddItem(r) /\ Alive
      BY <1>0, <3>1 DEF AttemptInv, Attempted, AddItem
    <3>2. CASE CompareAndSwap(r) /\ entry.cas # call[r].cas
      BY <1>0, <3>2 DEF AttemptInv, Attempted, CompareAndSwap
    <3>3. CASE AddItem(r) /\ ~Alive BY <1>0, <1>2, <3>3 DEF AddItem, Store, Retry
    <3>4. CASE CompareAndSwap(r) /\ entry.cas = call[r].cas
      <4>1. call[r] \in Call(writes) /\ call \in [Requests -> Call(writes)]
        BY Calls DEF LimitInv, TypeOK
      <4>2. CASE Return(r, "error") BY <1>2, <4>1, <4>2 DEF Return, Retry, Idle
      <4>3. CASE writes' = writes + 1 BY <1>0, <1>2, <4>3 DEF Retry
      <4> QED BY <3>4, <4>2, <4>3 DEF CompareAndSwap, Store
    <3> QED BY <3>1, <3>2, <3>3, <3>4
  <2> QED BY <1>2, <2>1, RetryAttempted DEF AddItem, CompareAndSwap
<1>3. CASE Return(r, "error") /\ UNCHANGED <<clock, entry, writes>> BY <1>3, ReturnAttempted
<1> QED BY <1>1, <1>2, <1>3 DEF AddItem, CompareAndSwap

\* A call of AllowRateLimit gives up as contended only after the bucket was updated by others
\* as many times, since it began, as it may attempt.
THEOREM ContentionIsReal == Spec => ContendedMeansBusy
<1>1. Init => AttemptInv
  BY DEF Init, Idle, AttemptInv, Attempted
<1>2. LimitInv /\ AttemptInv /\ [Next]_vars => AttemptInv'
  <2> SUFFICES ASSUME LimitInv, AttemptInv, [Next]_vars PROVE AttemptInv'
    OBVIOUS
  <2>1. CASE Tick
    <3> SUFFICES ASSUME NEW r \in Requests PROVE Attempted(call[r])'
      BY DEF AttemptInv
    <3>1. Attempted(call[r]) BY DEF AttemptInv
    <3>2. Alive' => Alive BY <2>1, DeadStays
    <3> QED BY <2>1, <3>1, <3>2 DEF Attempted, Tick
  <2>2. ASSUME NEW r \in Requests, Break(r) PROVE AttemptInv' BY <2>2, ReturnAttempted DEF Break
  <2>3. CASE UNCHANGED vars
    BY <2>3 DEF vars, AttemptInv, Attempted, Alive, Coarse
  <2> QED BY <2>1, <2>2, <2>3, BeginAttempted, GetAttempted, StoreAttempted DEF Next
<1>3. AttemptInv /\ LimitInv /\ [Next]_vars =>
        [\A r \in Requests : call[r].step = "start" /\ call'[r].step = "contended"
            => writes >= call[r].began + MaxAttempts]_vars
  <2> SUFFICES ASSUME AttemptInv, LimitInv, Next, NEW r \in Requests,
                      call[r].step = "start", call'[r].step = "contended"
               PROVE  writes >= call[r].began + MaxAttempts
    OBVIOUS
  <2>0. call \in [Requests -> Call(writes)] BY DEF LimitInv, TypeOK
  <2>1. call'[r] # call[r] OBVIOUS
  <2>2. ~Tick BY <2>1 DEF Tick
  <2>3. PICK q \in Requests : Begin(q) \/ Break(q) \/ Get(q) \/ AddItem(q) \/ CompareAndSwap(q)
    BY <2>2 DEF Next
  <2>4. q = r BY <2>0, <2>1, <2>3
    DEF Begin, Break, Get, AddItem, CompareAndSwap, Store, Retry, Return
  <2>5. Begin(r) \/ Break(r) BY <2>3, <2>4 DEF Get, AddItem, CompareAndSwap
  <2>6. ~Break(r) BY <2>0 DEF Break, Return, Idle
  <2>7. call[r].attempt = MaxAttempts BY <2>0, <2>5, <2>6 DEF Begin, Call
  <2> QED BY <2>7 DEF AttemptInv, Attempted
<1> QED BY <1>1, <1>2, <1>3, LimitSafe, PTL DEF Spec, ContendedMeansBusy

-----------------------------------------------------------------------------
(* The Redis cache, whose clock, bucket and tokens have the same names. *)

CONSTANT Millisecond
VARIABLE answer

R == INSTANCE RedisLimit

\* The lifetime in whole milliseconds covers the refill: always when the refill takes a whole
\* number of milliseconds, or the configured lifetime is a millisecond longer.
RefillCovered == Millisecond \in Nat \ {0} /\ intervalMicros * Burst <= R!ttl_ms * Millisecond

LEMMA SameArithmetic ==
    /\ R!interval = interval /\ R!intervalMicros = intervalMicros /\ R!Uncounted = Uncounted
    /\ R!RateLimitTTL = RateLimitTTL
    /\ \A tat, n : R!Arrival(tat, n) = Arrival(tat, n) /\ (R!Refused(tat, n) <=> Refused(tat, n))
    /\ \A early : R!RateHolds(taken, early) <=> RateHolds(taken, early)
<1>1. R!interval = interval BY DEF R!interval, interval, R!CeilDiv, CeilDiv
<1>2. R!RateLimitTTL = RateLimitTTL BY <1>1 DEF R!RateLimitTTL, RateLimitTTL
<1>3. R!intervalMicros = intervalMicros BY <1>1 DEF R!intervalMicros, intervalMicros
<1>4. R!Uncounted = Uncounted BY <1>1 DEF R!Uncounted, Uncounted
<1>5. \A tat, n : R!Arrival(tat, n) = Arrival(tat, n) BY DEF R!Arrival, Arrival
<1>6. \A tat, n : R!Refused(tat, n) <=> Refused(tat, n) BY <1>3 DEF R!Refused, Refused
<1>7. \A early : R!RateHolds(taken, early) <=> RateHolds(taken, early)
  BY <1>1 DEF R!RateHolds, RateHolds, R!Within, Within, R!Cardinality, Cardinality
<1> QED BY <1>1, <1>2, <1>3, <1>4, <1>5, <1>6, <1>7

\* The bucket outlives its refill, by the clock that counts milliseconds.
RedisInv ==
    /\ clock \in Nat /\ entry \in [set: BOOLEAN, tat: Nat, dies: Nat]
    /\ taken \subseteq Requests \X Nat /\ IsFiniteSet(taken)
    /\ ~entry.set => entry.tat = 0
    /\ entry.dies <= R!Dies
    /\ entry.tat < (entry.dies + 1) * Millisecond
    /\ AheadInv /\ RateInv

LEMMA RedisLifetime ==
    ASSUME RefillCovered, clock \in Nat
    PROVE  /\ R!ttl_ms \in Nat /\ R!Dies \in Nat
           /\ clock + Burst * intervalMicros < (R!Dies + 1) * Millisecond
<1> DEFINE q == clock \div Millisecond
<1>1. Millisecond \in Nat \ {0} /\ intervalMicros * Burst <= R!ttl_ms * Millisecond BY DEF RefillCovered
<1>2. q \in Nat /\ clock < Millisecond * q + Millisecond BY <1>1, Division
<1>3. RateLimitTTL \in Nat
  <2>1. interval * Burst \in Nat BY Interval, RateLimitAssumption
  <2> QED BY <2>1, RateLimitAssumption DEF RateLimitTTL
<1>4. RateLimitTTL \div (Millisecond * Microsecond) \in Nat
  <2>1. Millisecond * Microsecond \in Nat \ {0} BY <1>1, RateLimitAssumption
  <2> QED BY <1>3, <2>1, Division
<1>5. R!ttl_ms \in Nat BY <1>4, SameArithmetic DEF R!ttl_ms
<1>6. R!Dies = q + R!ttl_ms BY DEF R!Dies
<1> HIDE DEF q
<1>7. PICK t \in Nat : t = R!ttl_ms BY <1>5
<1>8. (q + t + 1) * Millisecond = Millisecond * q + t * Millisecond + Millisecond BY <1>1, <1>2
<1>9. Millisecond * q \in Nat /\ t * Millisecond \in Nat BY <1>1, <1>2
<1>10. intervalMicros * Burst = Burst * intervalMicros /\ Burst * intervalMicros \in Nat BY Interval, RateLimitAssumption
<1>11. clock + Burst * intervalMicros < (q + t + 1) * Millisecond
  BY <1>1, <1>2, <1>7, <1>8, <1>9, <1>10
<1> QED BY <1>2, <1>5, <1>6, <1>7, <1>11

\* A bucket that is gone was refilled.
LEMMA RedisRefilled ==
    ASSUME RefillCovered, RedisInv, ~R!Alive
    PROVE  entry.tat <= clock
<1>1. CASE ~entry.set BY <1>1 DEF RedisInv
<1>2. CASE entry.dies < clock \div Millisecond
  <2> DEFINE q == clock \div Millisecond
  <2>1. Millisecond \in Nat \ {0} /\ clock \in Nat /\ entry.tat \in Nat /\ entry.dies \in Nat
    BY DEF RefillCovered, RedisInv
  <2>2. q \in Nat /\ Millisecond * q <= clock BY <2>1, Division
  <2>3. entry.dies + 1 <= q BY <1>2, <2>1, <2>2
  <2> HIDE DEF q
  <2>4. (entry.dies + 1) * Millisecond <= q * Millisecond BY <2>1, <2>2, <2>3, Products
  <2>5. q * Millisecond = Millisecond * q /\ q * Millisecond \in Nat /\ (entry.dies + 1) * Millisecond \in Nat
    BY <2>1, <2>2
  <2>6. entry.tat < (entry.dies + 1) * Millisecond BY DEF RedisInv
  <2> QED BY <2>1, <2>2, <2>4, <2>5, <2>6
<1>3. entry.dies \in Nat /\ clock \div Millisecond \in Nat
  BY Division DEF RedisInv, RefillCovered
<1> QED BY <1>1, <1>2, <1>3 DEF R!Alive

LEMMA RedisStart == ASSUME RefillCovered, R!Init PROVE RedisInv
<1>1. clock \in Nat /\ Millisecond \in Nat \ {0} BY DEF R!Init, RefillCovered
<1>2. entry = [set |-> FALSE, tat |-> 0, dies |-> 0] /\ taken = {} BY DEF R!Init
<1>3. entry.dies <= R!Dies BY <1>1, <1>2, RedisLifetime
<1>4. entry.tat < (entry.dies + 1) * Millisecond BY <1>1, <1>2
<1>5. IsFiniteSet(taken) BY <1>2, FS_EmptySet
<1>6. AheadInv BY <1>2 DEF AheadInv, Since
<1>7. RateInv
  <2> SUFFICES ASSUME NEW a \in Nat, NEW b \in Nat, a <= b
               PROVE  Cardinality({s \in taken : a <= s[2] /\ s[2] <= b}) * intervalMicros
                         <= (b - a) + Burst * intervalMicros
    BY DEF RateInv
  <2>1. {s \in taken : a <= s[2] /\ s[2] <= b} = {} BY <1>2
  <2>2. Cardinality({s \in taken : a <= s[2] /\ s[2] <= b}) = 0 BY <2>1, FS_EmptySet
  <2>3. Burst * intervalMicros \in Nat BY Interval, RateLimitAssumption
  <2> QED BY <2>2, <2>3, Interval
<1> QED BY <1>1, <1>2, <1>3, <1>4, <1>5, <1>6, <1>7 DEF RedisInv

\* The end of a bucket's life moves on with the clock.
LEMMA DiesLater ==
    ASSUME RefillCovered, clock \in Nat, clock' = clock + 1
    PROVE  R!Dies <= R!Dies' /\ R!Dies' \in Nat
<1> DEFINE q == clock \div Millisecond
<1> DEFINE p == (clock + 1) \div Millisecond
<1>1. Millisecond \in Nat \ {0} /\ clock + 1 \in Nat BY DEF RefillCovered
<1>2. q \in Nat /\ Millisecond * q <= clock /\ p \in Nat /\ clock + 1 < Millisecond * p + Millisecond
  BY <1>1, Division
<1>3. R!ttl_ms \in Nat BY RedisLifetime
<1>4. R!Dies = q + R!ttl_ms /\ R!Dies' = p + R!ttl_ms BY DEF R!Dies, R!ttl_ms, R!RateLimitTTL, R!interval, R!CeilDiv
<1> HIDE DEF q, p
<1>5. q <= p
  <2> SUFFICES ASSUME p + 1 <= q PROVE FALSE
    BY <1>2
  <2>1. (p + 1) * Millisecond <= q * Millisecond BY <1>1, <1>2, Products
  <2>2. (p + 1) * Millisecond = Millisecond * p + Millisecond /\ q * Millisecond = Millisecond * q
    BY <1>1, <1>2
  <2>3. Millisecond * p \in Nat /\ Millisecond * q \in Nat BY <1>1, <1>2
  <2> QED BY <1>1, <1>2, <2>1, <2>2, <2>3
<1>6. PICK t \in Nat : t = R!ttl_ms BY <1>3
<1> QED BY <1>2, <1>4, <1>5, <1>6

LEMMA RedisStep == ASSUME RefillCovered, RedisInv, [R!Next]_R!vars PROVE RedisInv'
<1>0. /\ clock \in Nat /\ entry \in [set: BOOLEAN, tat: Nat, dies: Nat] /\ entry.tat \in Nat /\ entry.dies \in Nat
      /\ R!Dies \in Nat /\ Burst * intervalMicros \in Nat /\ Millisecond \in Nat \ {0} /\ IsFiniteSet(taken)
      /\ taken \subseteq Requests \X Nat /\ AheadInv /\ RateInv
  BY RedisLifetime, Interval, RateLimitAssumption DEF RedisInv, RefillCovered
<1>1. CASE R!Tick
  <2>1. clock' = clock + 1 /\ UNCHANGED <<entry, taken>> BY <1>1 DEF R!Tick
  <2>2. R!Dies <= R!Dies' /\ R!Dies' \in Nat BY <1>0, <2>1, DiesLater
  <2>3. entry'.dies <= R!Dies' BY <1>0, <2>1, <2>2 DEF RedisInv
  <2>4. AheadInv' /\ RateInv' BY <1>0, <2>1 DEF AheadInv, RateInv, Since
  <2>5. clock' \in Nat BY <1>0, <2>1
  <2> QED BY <2>1, <2>3, <2>4, <2>5 DEF RedisInv
<1>2. ASSUME NEW r \in Requests, R!Script(r) PROVE RedisInv'
  <2> DEFINE tat == IF R!Alive THEN R!Arrival(entry.tat, clock) ELSE clock
  <2>1. tat = Arrival(entry.tat, clock) /\ tat \in Nat
    <3>1. CASE R!Alive BY <1>0, <3>1, SameArithmetic, Decided
    <3>2. CASE ~R!Alive
      <4>1. entry.tat <= clock BY <3>2, RedisRefilled
      <4> QED BY <1>0, <3>2, <4>1, Decided
    <3> QED BY <3>1, <3>2
  <2>2. clock' = clock BY <1>2 DEF R!Script
  <2>3. R!Dies' = R!Dies BY <2>2 DEF R!Dies, R!ttl_ms, R!RateLimitTTL, R!interval, R!CeilDiv
  <2>4. clock + Burst * intervalMicros < (R!Dies + 1) * Millisecond BY <1>0, RedisLifetime
  <2>5. CASE R!Refused(tat, clock) /\ entry' = [entry EXCEPT !.dies = R!Dies] /\ taken' = taken
    <3>1. /\ entry' \in [set: BOOLEAN, tat: Nat, dies: Nat]
          /\ entry'.set = entry.set /\ entry'.tat = entry.tat /\ entry'.dies = R!Dies
      BY <1>0, <2>5
    <3>2. entry'.tat < (entry'.dies + 1) * Millisecond
      <4>1. entry.dies + 1 <= R!Dies + 1 BY <1>0 DEF RedisInv
      <4>2. (entry.dies + 1) * Millisecond <= (R!Dies + 1) * Millisecond BY <1>0, <4>1, Products
      <4>3. (entry.dies + 1) * Millisecond \in Nat /\ (R!Dies + 1) * Millisecond \in Nat BY <1>0
      <4> QED BY <1>0, <3>1, <4>2, <4>3 DEF RedisInv
    <3>3. AheadInv' /\ RateInv' BY <1>0, <2>5, <3>1 DEF AheadInv, RateInv, Since
    <3>4. entry'.dies <= R!Dies' BY <1>0, <2>3, <3>1
    <3> QED BY <1>0, <2>2, <2>5, <3>1, <3>2, <3>3, <3>4 DEF RedisInv
  <2>6. CASE /\ ~R!Refused(tat, clock)
             /\ entry' = [set |-> TRUE, tat |-> tat + R!intervalMicros, dies |-> R!Dies]
             /\ taken' = taken \union {<<r, clock>>}
    <3> HIDE DEF tat
    <3>1. tat + intervalMicros <= clock + Burst * intervalMicros BY <1>0, <2>1, <2>6, SameArithmetic, Decided
    <3>2. entry' = [set |-> TRUE, tat |-> tat + intervalMicros, dies |-> R!Dies] BY <2>6, SameArithmetic
    <3>3. /\ entry' \in [set: BOOLEAN, tat: Nat, dies: Nat]
          /\ entry'.set = TRUE /\ entry'.tat = tat + intervalMicros /\ entry'.dies = R!Dies
      BY <1>0, <2>1, <3>2, Interval
    <3>4. PICK new : new = <<r, clock>> OBVIOUS
    <3>5. Takes(new, clock) BY <2>1, <2>6, <3>1, <3>3, <3>4 DEF Takes
    <3>6. AheadInv' BY <1>0, <3>5, TakesAhead DEF AheadInv
    <3>7. RateInv' BY <1>0, <3>5, TakesRate
    <3>8. IsFiniteSet(taken') /\ taken' \subseteq Requests \X Nat
      <4>1. IsFiniteSet(taken \union {new}) BY <1>0, FS_AddElement DEF RedisInv
      <4>2. taken \subseteq Requests \X Nat /\ <<r, clock>> \in Requests \X Nat BY <1>0 DEF RedisInv
      <4> QED BY <2>6, <3>4, <4>1, <4>2
    <3>9. entry'.tat < (entry'.dies + 1) * Millisecond
      <4>1. (R!Dies + 1) * Millisecond \in Nat BY <1>0
      <4> QED BY <1>0, <2>1, <2>4, <3>1, <3>3, <4>1, Interval
    <3>10. entry'.dies <= R!Dies' BY <1>0, <2>3, <3>3
    <3> QED BY <1>0, <2>2, <3>3, <3>6, <3>7, <3>8, <3>9, <3>10 DEF RedisInv
  <2> QED BY <1>2, <2>5, <2>6 DEF R!Script
<1>3. CASE UNCHANGED R!vars
  <2>1. UNCHANGED <<clock, entry, taken>> BY <1>3 DEF R!vars
  <2>2. R!Dies' = R!Dies BY <2>1 DEF R!Dies, R!ttl_ms, R!RateLimitTTL, R!interval, R!CeilDiv
  <2>3. AheadInv' /\ RateInv' BY <1>0, <2>1 DEF AheadInv, RateInv, Since
  <2> QED BY <2>1, <2>2, <2>3 DEF RedisInv
<1> QED BY <1>1, <1>2, <1>3 DEF R!Next

\* AllowRateLimit on Redis keeps the rate, short of the part of a microsecond the script's
\* interval leaves out, where ttl.Milliseconds(), rounded down, still covers the refill of
\* the bucket.
THEOREM RedisRateKept == RefillCovered /\ R!Spec => []R!RateRespected
<1>1. RedisInv => R!RateRespected
  <2> SUFFICES ASSUME RedisInv PROVE R!RateHolds(taken, Uncounted)
    BY SameArithmetic DEF R!RateRespected
  <2>1. IsFiniteSet(taken) /\ RateInv /\ \A s \in taken : s[2] \in Nat BY DEF RedisInv
  <2>2. RateHolds(taken, Uncounted) BY <2>1, Interval, RateFollows
  <2> QED BY <2>2, SameArithmetic
<1>2. SUFFICES ASSUME RefillCovered PROVE R!Spec => []R!RateRespected
  OBVIOUS
<1>3. R!Init => RedisInv BY <1>2, RedisStart
<1>4. RedisInv /\ [R!Next]_R!vars => RedisInv' BY <1>2, RedisStep
<1> QED BY <1>1, <1>3, <1>4, PTL DEF R!Spec

\* What an operator can see from the settings: an interval of whole microseconds, and a
\* refill of whole milliseconds or a configured lifetime a millisecond longer than it.
SafeSettings ==
    /\ Millisecond \in Nat \ {0}
    /\ interval % Microsecond = 0
    /\ \/ (interval * Burst) % (Millisecond * Microsecond) = 0
       \/ interval * Burst + Millisecond * Microsecond <= TTL

\* Either makes up for the rounding of ttl.Milliseconds().
LEMMA SettingsCover == SafeSettings => RefillCovered
<1> SUFFICES ASSUME SafeSettings PROVE intervalMicros * Burst <= R!ttl_ms * Millisecond
  BY DEF RefillCovered, SafeSettings
<1> DEFINE f == interval * Burst
<1>0. /\ Millisecond \in Nat \ {0} /\ Microsecond \in Nat \ {0} /\ Millisecond * Microsecond \in Nat \ {0}
      /\ interval \in Nat \ {0} /\ intervalMicros \in Nat \ {0} /\ Burst \in Nat \ {0}
      /\ f \in Nat /\ TTL \in Nat
  BY Interval, RateLimitAssumption DEF SafeSettings
<1>1. PICK ms \in Nat \ {0} : ms = Millisecond * Microsecond BY <1>0
<1> DEFINE q == RateLimitTTL \div ms
<1>2. RateLimitTTL = IF TTL > f THEN TTL ELSE f BY DEF RateLimitTTL
<1>3. RateLimitTTL \in Nat /\ f <= RateLimitTTL BY <1>0, <1>2
<1>4. q \in Nat /\ RateLimitTTL < ms * q + ms BY <1>1, <1>3, Division
<1>5. R!ttl_ms = IF RateLimitTTL < ms THEN 1 ELSE q BY <1>1, SameArithmetic DEF R!ttl_ms
<1>6. f % ms = 0 \/ f + ms <= TTL BY <1>1 DEF SafeSettings
<1>7. R!ttl_ms \in Nat /\ f <= R!ttl_ms * ms
  <2>1. CASE RateLimitTTL < ms
    <3>1. R!ttl_ms = 1 BY <1>5, <2>1
    <3> HIDE DEF f
    <3> QED BY <1>0, <1>1, <1>3, <2>1, <3>1
  <2>2. CASE ~(RateLimitTTL < ms)
    <3> DEFINE p == f \div ms
    <3>1. R!ttl_ms = q BY <1>5, <2>2
    <3>2. p \in Nat /\ f % ms \in Nat /\ f = ms * p + (f % ms) BY <1>0, <1>1, Division
    <3>3. f <= ms * q
      <4> HIDE DEF f, q, p
      <4>1. CASE f + ms <= TTL
        <5>1. ms * q \in Nat BY <1>1, <1>4
        <5> QED BY <1>0, <1>1, <1>2, <1>4, <4>1, <5>1
      <4>2. CASE f % ms = 0
        <5>1. f = ms * p BY <1>1, <3>2, <4>2
        <5>2. p <= q
          <6> SUFFICES ASSUME q + 1 <= p PROVE FALSE
            BY <1>4, <3>2
          <6>1. (q + 1) * ms <= p * ms BY <1>1, <1>4, <3>2, Products
          <6>2. (q + 1) * ms = ms * q + ms /\ p * ms = ms * p BY <1>1, <1>4, <3>2
          <6>3. ms * q \in Nat /\ ms * p \in Nat BY <1>1, <1>4, <3>2
          <6> QED BY <1>1, <1>3, <1>4, <5>1, <6>1, <6>2, <6>3
        <5>3. p * ms <= q * ms BY <1>1, <1>4, <3>2, <5>2, Products
        <5> QED BY <1>1, <1>4, <3>2, <5>1, <5>3
      <4> QED BY <1>6, <4>1, <4>2 DEF f
    <3> HIDE DEF f, q, p
    <3>4. q * ms = ms * q BY <1>1, <1>4
    <3> QED BY <1>4, <3>1, <3>3, <3>4
  <2> QED BY <2>1, <2>2
<1>8. PICK t \in Nat : t = R!ttl_ms BY <1>7
<1>9. (intervalMicros * Microsecond) * Burst <= f
  <2>1. Microsecond <= interval BY WholeMicros DEF SafeSettings
  <2>2. intervalMicros * Microsecond <= interval BY <2>1, Interval
  <2>3. intervalMicros * Microsecond \in Nat BY <1>0
  <2> QED BY <1>0, <2>2, <2>3, Products
<1> HIDE DEF f, q
<1>10. /\ (intervalMicros * Microsecond) * Burst = (intervalMicros * Burst) * Microsecond
       /\ t * (Millisecond * Microsecond) = (t * Millisecond) * Microsecond
       /\ intervalMicros * Burst \in Nat /\ t * Millisecond \in Nat
  BY <1>0, <1>8
<1>11. (intervalMicros * Burst) * Microsecond \in Nat /\ (t * Millisecond) * Microsecond \in Nat
  BY <1>0, <1>10
<1>12. f <= t * (Millisecond * Microsecond) BY <1>1, <1>7, <1>8
<1>13. (intervalMicros * Burst) * Microsecond <= (t * Millisecond) * Microsecond
  BY <1>0, <1>9, <1>10, <1>11, <1>12
<1>14. intervalMicros * Burst <= t * Millisecond BY <1>0, <1>10, <1>13, Cancelled
<1> QED BY <1>8, <1>14

\* With such settings AllowRateLimit on Redis keeps the configured rate itself.
THEOREM RedisSettings == SafeSettings /\ R!Spec => []R!RateHolds(taken, 0)
<1> SUFFICES ASSUME SafeSettings PROVE R!Spec => []R!RateHolds(taken, 0)
  OBVIOUS
<1>1. RefillCovered BY SettingsCover
<1>2. R!Uncounted = 0 BY SameArithmetic DEF Uncounted, SafeSettings
<1>3. R!RateRespected => R!RateHolds(taken, 0) BY <1>2 DEF R!RateRespected
<1> QED BY <1>1, <1>3, RedisRateKept, PTL

-----------------------------------------------------------------------------
(* Refusals of the Redis cache: they need no condition on the lifetime. *)

\* From some token on, another one at time n would be more than the rate allows.
Spent(n) == \E s \in taken : s[2] <= n /\ Cardinality(Since(s[2])) >= Burst + (n - s[2]) \div intervalMicros

\* The bucket was full at one of the stamps and has been charged an interval for each token
\* since; a token taken at this very moment left it alive and charged.
RedisTatInv ==
    /\ clock \in Nat /\ entry \in [set: BOOLEAN, tat: Nat, dies: Nat]
    /\ taken \subseteq Requests \X Nat /\ IsFiniteSet(taken)
    /\ answer \in [Requests -> {"none", "allowed", "refused"}]
    /\ \A s \in taken : s[2] <= clock /\ answer[s[1]] # "none"
    /\ \A s \in taken : s[2] = clock => R!Alive /\ entry.tat > clock
    /\ entry.set => \E s \in taken : entry.tat = s[2] + Cardinality(Since(s[2])) * intervalMicros

RedisRefusedForCause ==
    [][\A r \in Requests : answer[r] = "none" /\ answer'[r] = "refused" => Spent(clock)]_(R!vars)

\* What the script stores is alive for the rest of the millisecond, whatever the lifetime.
LEMMA StoredIsAlive ==
    ASSUME Millisecond \in Nat \ {0}, clock \in Nat
    PROVE  R!Dies \in Nat /\ clock \div Millisecond \in Nat /\ R!Dies >= clock \div Millisecond
<1> DEFINE q == clock \div Millisecond
<1>1. q \in Nat BY Division
<1>2. interval * Burst \in Nat BY Interval, RateLimitAssumption
<1>3. RateLimitTTL \in Nat BY <1>2, RateLimitAssumption DEF RateLimitTTL
<1>4. RateLimitTTL \div (Millisecond * Microsecond) \in Nat
  <2>1. Millisecond * Microsecond \in Nat \ {0} BY RateLimitAssumption
  <2> QED BY <1>3, <2>1, Division
<1>5. R!ttl_ms \in Nat BY <1>4, SameArithmetic DEF R!ttl_ms
<1>6. R!Dies = q + R!ttl_ms BY DEF R!Dies
<1> HIDE DEF q
<1>7. R!Dies \in Nat /\ R!Dies >= q BY <1>1, <1>5, <1>6
<1> QED BY <1>1, <1>7 DEF q

LEMMA RedisTatStart == ASSUME Millisecond \in Nat \ {0}, R!Init PROVE RedisTatInv
<1>1. IsFiniteSet({}) BY FS_EmptySet
<1> QED BY <1>1 DEF R!Init, RedisTatInv

\* The script refuses only a bucket that is alive and charged.
LEMMA ScriptReads ==
    ASSUME RedisTatInv,
           NEW tat, tat = (IF R!Alive THEN R!Arrival(entry.tat, clock) ELSE clock)
    PROVE  /\ tat \in Nat /\ tat >= clock
           /\ R!Alive /\ entry.tat > clock => tat = entry.tat
           /\ ~(R!Alive /\ entry.tat > clock) => tat = clock /\ ~R!Refused(tat, clock)
<1>1. clock \in Nat /\ entry.tat \in Nat BY DEF RedisTatInv
<1>2. tat \in Nat /\ tat >= clock
  BY <1>1, Decided, SameArithmetic
<1>3. R!Alive /\ entry.tat > clock => tat = entry.tat BY <1>1, Decided, SameArithmetic
<1>4. ASSUME ~(R!Alive /\ entry.tat > clock) PROVE tat = clock /\ ~R!Refused(tat, clock)
  <2>1. tat = clock
    <3>1. CASE R!Alive
      <4>1. entry.tat <= clock BY <1>1, <1>4, <3>1
      <4> QED BY <1>1, <3>1, <4>1, Decided, SameArithmetic
    <3>2. CASE ~R!Alive BY <3>2
    <3> QED BY <3>1, <3>2
  <2>2. 1 * intervalMicros <= Burst * intervalMicros BY Products, Interval, RateLimitAssumption
  <2>3. clock + intervalMicros <= clock + Burst * intervalMicros BY <1>1, <2>2, Interval, RateLimitAssumption
  <2>4. ~Refused(clock, clock) BY <1>1, <2>3, Decided
  <2> QED BY <2>1, <2>4, SameArithmetic
<1> QED BY <1>2, <1>3, <1>4

\* A token taken at the clock extends the account of the bucket, or starts a new one.
LEMMA RedisCharged ==
    ASSUME RedisTatInv, NEW r \in Requests, answer[r] = "none", NEW tat \in Nat,
           taken' = taken \union {<<r, clock>>}, entry'.tat = tat + intervalMicros,
           R!Alive /\ entry.tat > clock => tat = entry.tat,
           ~(R!Alive /\ entry.tat > clock) => tat = clock
    PROVE  \E s \in taken' : entry'.tat = s[2] + Cardinality(Since(s[2])') * intervalMicros
<1>0. PICK new : new = <<r, clock>> OBVIOUS
<1>1. /\ clock \in Nat /\ entry.tat \in Nat /\ IsFiniteSet(taken)
      /\ \A s \in taken : s[2] \in Nat /\ s[2] <= clock /\ answer[s[1]] # "none"
  BY DEF RedisTatInv
<1>2. new \notin taken /\ taken' = taken \union {new} /\ new[2] = clock BY <1>0, <1>1
<1>3. CASE R!Alive /\ entry.tat > clock
  <2>1. PICK s \in taken : entry.tat = s[2] + Cardinality(Since(s[2])) * intervalMicros
    BY <1>3 DEF RedisTatInv, R!Alive
  <2>2. Since(s[2])' = Since(s[2]) \union {new} BY <1>1, <1>2 DEF Since
  <2>3. new \notin Since(s[2]) BY <1>2 DEF Since
  <2>4. IsFiniteSet(Since(s[2])) BY <1>1, Parts DEF Since
  <2> DEFINE k == Cardinality(Since(s[2]))
  <2>5. k \in Nat /\ Cardinality(Since(s[2])') = k + 1 BY <2>2, <2>3, <2>4, OneMore
  <2>6. entry.tat = s[2] + k * intervalMicros BY <2>1
  <2> HIDE DEF k
  <2>7. (k + 1) * intervalMicros = k * intervalMicros + intervalMicros /\ k * intervalMicros \in Nat BY <2>5, Interval
  <2>8. s \in taken' OBVIOUS
  <2>9. entry'.tat = s[2] + (k + 1) * intervalMicros BY <1>1, <1>3, <2>6, <2>7, Interval
  <2> QED BY <2>5, <2>8, <2>9
<1>4. CASE ~(R!Alive /\ entry.tat > clock)
  <2>1. \A s \in taken : s[2] < clock BY <1>1, <1>4 DEF RedisTatInv
  <2>2. Since(new[2])' = {new}
    <3>1. \A s \in taken : ~(clock <= s[2]) BY <1>1, <2>1
    <3> QED BY <1>1, <1>2, <3>1 DEF Since
  <2>3. Cardinality(Since(new[2])') = 1 BY <2>2, FS_Singleton
  <2>4. entry'.tat = new[2] + 1 * intervalMicros BY <1>1, <1>2, <1>4, Interval
  <2> QED BY <1>2, <2>3, <2>4
<1> QED BY <1>3, <1>4

LEMMA RedisTatStep ==
    ASSUME Millisecond \in Nat \ {0}, RedisTatInv, [R!Next]_R!vars
    PROVE  RedisTatInv'
<1>0. /\ clock \in Nat /\ entry \in [set: BOOLEAN, tat: Nat, dies: Nat]
      /\ taken \subseteq Requests \X Nat /\ IsFiniteSet(taken)
      /\ answer \in [Requests -> {"none", "allowed", "refused"}]
      /\ \A s \in taken : s[1] \in Requests /\ s[2] \in Nat /\ s[2] <= clock /\ answer[s[1]] # "none"
  BY DEF RedisTatInv
<1>1. CASE R!Tick
  <2>1. clock' = clock + 1 /\ UNCHANGED <<entry, answer, taken>> BY <1>1 DEF R!Tick
  <2>2. \A s \in taken : s[2] <= clock' /\ s[2] # clock' BY <1>0, <2>1
  <2>3. clock' \in Nat BY <1>0, <2>1
  <2>4. entry'.set => \E s \in taken' : entry'.tat = s[2] + Cardinality(Since(s[2])') * intervalMicros
    BY <2>1 DEF RedisTatInv, Since
  <2> QED BY <1>0, <2>1, <2>2, <2>3, <2>4 DEF RedisTatInv
<1>2. ASSUME NEW r \in Requests, R!Script(r) PROVE RedisTatInv'
  <2> DEFINE tat == IF R!Alive THEN R!Arrival(entry.tat, clock) ELSE clock
  <2>1. /\ tat \in Nat /\ tat >= clock
        /\ R!Alive /\ entry.tat > clock => tat = entry.tat
        /\ ~(R!Alive /\ entry.tat > clock) => tat = clock /\ ~R!Refused(tat, clock)
    BY ScriptReads
  <2>2. answer[r] = "none" /\ clock' = clock BY <1>2 DEF R!Script
  <2>3. R!Dies \in Nat /\ clock \div Millisecond \in Nat /\ R!Dies >= clock \div Millisecond
    BY <1>0, StoredIsAlive
  <2>4. CASE /\ R!Refused(tat, clock)
             /\ entry' = [entry EXCEPT !.dies = R!Dies]
             /\ answer' = [answer EXCEPT ![r] = "refused"] /\ taken' = taken
    <3>1. R!Alive /\ entry.tat > clock BY <2>1, <2>4
    <3>2. /\ entry' \in [set: BOOLEAN, tat: Nat, dies: Nat]
          /\ entry'.set = entry.set /\ entry'.tat = entry.tat /\ entry'.dies = R!Dies
      BY <1>0, <2>3, <2>4
    <3>3. R!Alive' /\ entry'.tat > clock' BY <2>2, <2>3, <3>1, <3>2 DEF R!Alive
    <3>4. /\ answer' \in [Requests -> {"none", "allowed", "refused"}]
          /\ \A s \in taken' : s[2] <= clock' /\ answer'[s[1]] # "none"
      BY <1>0, <2>2, <2>4
    <3>5. entry'.set => \E s \in taken' : entry'.tat = s[2] + Cardinality(Since(s[2])') * intervalMicros
      BY <2>4, <3>2 DEF RedisTatInv, Since
    <3> QED BY <1>0, <2>2, <2>4, <3>2, <3>3, <3>4, <3>5 DEF RedisTatInv
  <2>5. CASE /\ ~R!Refused(tat, clock)
             /\ entry' = [set |-> TRUE, tat |-> tat + R!intervalMicros, dies |-> R!Dies]
             /\ answer' = [answer EXCEPT ![r] = "allowed"]
             /\ taken' = taken \union {<<r, clock>>}
    <3> HIDE DEF tat
    <3>1. entry' = [set |-> TRUE, tat |-> tat + intervalMicros, dies |-> R!Dies] BY <2>5, SameArithmetic
    <3>2. /\ entry' \in [set: BOOLEAN, tat: Nat, dies: Nat]
          /\ entry'.set = TRUE /\ entry'.tat = tat + intervalMicros /\ entry'.dies = R!Dies
      BY <2>1, <2>3, <3>1, Interval
    <3>3. R!Alive' BY <2>2, <2>3, <3>2 DEF R!Alive
    <3>4. entry'.tat > clock' BY <1>0, <2>1, <2>2, <3>2, Interval
    <3>5. /\ answer' \in [Requests -> {"none", "allowed", "refused"}]
          /\ \A s \in taken' : s[2] <= clock' /\ answer'[s[1]] # "none"
      BY <1>0, <2>2, <2>5
    <3>6. IsFiniteSet(taken') /\ taken' \subseteq Requests \X Nat
      <4>1. IsFiniteSet(taken \union {<<r, clock>>}) BY <1>0, FS_AddElement
      <4>2. <<r, clock>> \in Requests \X Nat BY <1>0
      <4> QED BY <1>0, <2>5, <4>1, <4>2
    <3>7. \E s \in taken' : entry'.tat = s[2] + Cardinality(Since(s[2])') * intervalMicros
      BY <2>1, <2>2, <2>5, <3>2, RedisCharged
    <3>8. clock' \in Nat BY <1>0, <2>2
    <3> QED BY <3>2, <3>3, <3>4, <3>5, <3>6, <3>7, <3>8 DEF RedisTatInv
  <2> QED BY <1>2, <2>4, <2>5 DEF R!Script
<1>3. CASE UNCHANGED R!vars
  <2>1. UNCHANGED <<clock, entry, answer, taken>> BY <1>3 DEF R!vars
  <2>2. R!Alive' <=> R!Alive BY <2>1 DEF R!Alive
  <2>3. entry'.set => \E s \in taken' : entry'.tat = s[2] + Cardinality(Since(s[2])') * intervalMicros
    BY <2>1 DEF RedisTatInv, Since
  <2> QED BY <2>1, <2>2, <2>3 DEF RedisTatInv
<1> QED BY <1>1, <1>2, <1>3 DEF R!Next

\* A refused call found a bucket that had given out its burst and its refill.
LEMMA RedisRefusal ==
    ASSUME RedisTatInv, R!Next, NEW r \in Requests, answer[r] = "none", answer'[r] = "refused"
    PROVE  Spent(clock)
<1>0. /\ clock \in Nat /\ entry.tat \in Nat /\ IsFiniteSet(taken)
      /\ answer \in [Requests -> {"none", "allowed", "refused"}]
      /\ \A s \in taken : s[2] \in Nat /\ s[2] <= clock
      /\ Burst \in Nat \ {0} /\ Burst * intervalMicros \in Nat
  BY Interval, RateLimitAssumption DEF RedisTatInv
<1>1. PICK q \in Requests : R!Script(q) BY DEF R!Next, R!Tick
<1> DEFINE tat == IF R!Alive THEN R!Arrival(entry.tat, clock) ELSE clock
<1>2. R!Refused(tat, clock) BY <1>0, <1>1 DEF R!Script
<1>3. R!Alive /\ entry.tat > clock /\ tat = entry.tat /\ tat \in Nat BY <1>2, ScriptReads
<1>4. ~(entry.tat + intervalMicros <= clock + Burst * intervalMicros)
  <2>1. R!Refused(entry.tat, clock)
    <3> HIDE DEF tat
    <3> QED BY <1>2, <1>3
  <2>2. Refused(entry.tat, clock) BY <2>1, SameArithmetic
  <2> QED BY <1>0, <2>2, Decided
<1>5. PICK s \in taken : entry.tat = s[2] + Cardinality(Since(s[2])) * intervalMicros
  BY <1>3 DEF RedisTatInv, R!Alive
<1> DEFINE k == Cardinality(Since(s[2]))
<1>6. k \in Nat
  <2>1. IsFiniteSet(Since(s[2])) BY <1>0, Parts DEF Since
  <2> QED BY <2>1, FS_CardinalityType
<1>7. entry.tat = s[2] + k * intervalMicros BY <1>5
<1>8. s[2] \in Nat /\ s[2] <= clock /\ clock - s[2] \in Nat BY <1>0
<1> HIDE DEF k, tat
<1>9. (k + 1) * intervalMicros = k * intervalMicros + intervalMicros /\ k * intervalMicros \in Nat BY <1>6, Interval
<1>10. ~((k + 1) * intervalMicros <= (clock - s[2]) + Burst * intervalMicros)
  BY <1>0, <1>4, <1>7, <1>8, <1>9, Interval
<1>11. (clock - s[2]) \div intervalMicros \in Nat BY <1>8, Division, Interval
<1>12. ~(k + 1 <= Burst + (clock - s[2]) \div intervalMicros)
  <2>1. k + 1 \in Nat BY <1>6
  <2> QED BY <1>0, <1>8, <1>10, <2>1, Multiplied
<1>13. k >= Burst + (clock - s[2]) \div intervalMicros BY <1>0, <1>6, <1>11, <1>12
<1> QED BY <1>8, <1>13 DEF Spent, k

\* AllowRateLimit on Redis refuses a call only when the bucket is empty, whatever its lifetime:
\* the rounding of ttl.Milliseconds() can only err in the callers' favour.
THEOREM RedisRefusesRightly == Millisecond \in Nat \ {0} /\ R!Spec => RedisRefusedForCause
<1> SUFFICES ASSUME Millisecond \in Nat \ {0} PROVE R!Spec => RedisRefusedForCause
  OBVIOUS
<1>1. R!Init => RedisTatInv BY RedisTatStart
<1>2. RedisTatInv /\ [R!Next]_R!vars => RedisTatInv' BY RedisTatStep
<1>3. RedisTatInv /\ [R!Next]_R!vars =>
        [\A r \in Requests : answer[r] = "none" /\ answer'[r] = "refused" => Spent(clock)]_(R!vars)
  BY RedisRefusal
<1> QED BY <1>1, <1>2, <1>3, PTL DEF R!Spec, RedisRefusedForCause
=============================================================================
