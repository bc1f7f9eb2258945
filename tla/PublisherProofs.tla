-------------------------- MODULE PublisherProofs ---------------------------
(***************************************************************************)
(* Proof, for any number of calls and slots, that the bounded publisher    *)
(* neither loses nor forges a slot, that the broker gets the message that  *)
(* was sent, that the answers of Publish implement PublishCall, and that   *)
(* slots are given first come, first served.                               *)
(***************************************************************************)
EXTENDS BoundedPublisher, FiniteSetTheorems, SequenceTheorems, TLAPS

\* Nobody is in the queue twice, in the queue and served, or in either without waiting;
\* and nobody waits while a slot is free.
QueueInv ==
    /\ \A i, j \in DOMAIN queue : queue[i] = queue[j] => i = j
    /\ \A i \in DOMAIN queue : pc[queue[i]] = "wait" /\ queue[i] \notin ready
    /\ \A c \in ready : pc[c] = "wait"
    /\ queue # <<>> => cur = MaxInflight

SlotInv == IsFiniteSet(Working) /\ IsFiniteSet(ready) /\ SlotsConserved

\* What is known of one call: a goroutine exists only once the slot was acquired, the
\* broker has a message only from a goroutine, and the message changes only afterwards.
CallInv(c) ==
    /\ pc[c] \in {"idle", "wait"} \/ ret[c] = "capacity" => worker[c] = "none"
    /\ worker[c] = "none" => result[c] = "empty" /\ c \notin accepted
    /\ worker[c] # "none" => copy[c] = "sent"
    /\ ret[c] = "none" <=> pc[c] # "done"
    /\ pc[c] # "done" => msg[c] = "sent"
    /\ result[c] = "nil" => c \in accepted

CallsInv == \A c \in Calls : CallInv(c)

PublisherInv == TypeOK /\ QueueInv /\ SlotInv /\ CallsInv /\ MessageIntact

-----------------------------------------------------------------------------
(* The queue. *)

\* What a queue without its head has.
LEMMA Served ==
    ASSUME NEW q \in Seq(Calls), q # <<>>, \A i, j \in DOMAIN q : q[i] = q[j] => i = j
    PROVE  /\ Head(q) \in Calls /\ Tail(q) \in Seq(Calls)
           /\ 1 \in DOMAIN q /\ Head(q) = q[1]
           /\ \A i \in DOMAIN Tail(q) : i + 1 \in DOMAIN q /\ Tail(q)[i] = q[i + 1] /\ Tail(q)[i] # Head(q)
           /\ \A i, j \in DOMAIN Tail(q) : Tail(q)[i] = Tail(q)[j] => i = j
<1>1. Len(q) \in Nat /\ Len(q) >= 1 /\ DOMAIN q = 1..Len(q) OBVIOUS
<1>2. Head(q) = q[1] /\ q[1] \in Calls /\ 1 \in DOMAIN q BY <1>1
<1>3. Tail(q) \in Seq(Calls) /\ Len(Tail(q)) = Len(q) - 1 /\ DOMAIN Tail(q) = 1..(Len(q) - 1) BY <1>1
<1>4. \A i \in DOMAIN Tail(q) : i + 1 \in DOMAIN q /\ i + 1 # 1 /\ Tail(q)[i] = q[i + 1] BY <1>1, <1>3
<1>5. \A i, j \in DOMAIN Tail(q) : i + 1 = j + 1 => i = j BY <1>3
<1> QED BY <1>2, <1>3, <1>4, <1>5

\* What a queue without one of its members has: that member is gone, the others stay.
LEMMA Left ==
    ASSUME NEW q \in Seq(Calls), NEW n \in DOMAIN q, \A i, j \in DOMAIN q : q[i] = q[j] => i = j,
           NEW r, r = Without(q, n)
    PROVE  /\ r \in Seq(Calls)
           /\ \A i \in DOMAIN r : \E k \in DOMAIN q : k # n /\ r[i] = q[k]
           /\ \A i, j \in DOMAIN r : r[i] = r[j] => i = j
<1> DEFINE At(i) == IF i < n THEN i ELSE i + 1
<1>1. Len(q) \in Nat /\ Len(q) - 1 \in Nat /\ DOMAIN q = 1..Len(q) /\ n \in 1..Len(q) OBVIOUS
<1>2. DOMAIN r = 1..(Len(q) - 1) BY DEF Without
<1>3. \A i \in DOMAIN r : At(i) \in DOMAIN q /\ At(i) # n BY <1>1, <1>2
<1>4. \A i \in DOMAIN r : r[i] = q[At(i)] BY <1>2 DEF Without
<1>5. \A i, j \in DOMAIN r : At(i) = At(j) => i = j BY <1>1, <1>2
<1> HIDE DEF At
<1>6. \A i \in DOMAIN r : r[i] \in Calls BY <1>1, <1>3, <1>4
<1>7. r \in [1..(Len(q) - 1) -> Calls] BY <1>2, <1>6 DEF Without
<1>8. r \in Seq(Calls) BY <1>1, <1>7, SeqDef
<1> QED BY <1>3, <1>4, <1>5, <1>8

\* A slot given back is handed to the first waiter or counted as free: with N slots held
\* by others and those of R, one slot more was in use before.
LEMMA HandedOn ==
    ASSUME TypeOK, QueueInv, NEW R \in SUBSET ready, IsFiniteSet(R),
           NEW N \in Nat, cur = N + Cardinality(R) + 1, GiveBack(R)
    PROVE  /\ cur' \in 0..MaxInflight /\ queue' \in Seq(Calls) /\ ready' \subseteq Calls
           /\ IsFiniteSet(ready') /\ cur' = N + Cardinality(ready')
           /\ \A i, j \in DOMAIN queue' : queue'[i] = queue'[j] => i = j
           /\ \A i \in DOMAIN queue' : queue'[i] \notin ready' /\ \E k \in DOMAIN queue : queue'[i] = queue[k]
           /\ \A d \in ready' : d \in R \/ \E k \in DOMAIN queue : d = queue[k]
           /\ queue' # <<>> => cur' = MaxInflight
<1> USE PublisherAssumption
<1>1. Cardinality(R) \in Nat BY FS_CardinalityType
<1>2. CASE queue = <<>>
  <2>1. cur' = cur - 1 /\ ready' = R /\ queue' = queue BY <1>2 DEF GiveBack
  <2> QED BY <2>1, <1>1, <1>2 DEF TypeOK, QueueInv
<1>3. CASE queue # <<>>
  <2>1. ready' = R \cup {Head(queue)} /\ queue' = Tail(queue) /\ cur' = cur BY <1>3 DEF GiveBack
  <2>2. /\ Head(queue) \in Calls /\ Tail(queue) \in Seq(Calls) /\ 1 \in DOMAIN queue /\ Head(queue) = queue[1]
        /\ \A i \in DOMAIN Tail(queue) :
              i + 1 \in DOMAIN queue /\ Tail(queue)[i] = queue[i + 1] /\ Tail(queue)[i] # Head(queue)
        /\ \A i, j \in DOMAIN Tail(queue) : Tail(queue)[i] = Tail(queue)[j] => i = j
    BY <1>3, Served DEF TypeOK, QueueInv
  <2>3. Head(queue) \notin R BY <2>2 DEF QueueInv
  <2>4. IsFiniteSet(ready') /\ Cardinality(ready') = Cardinality(R) + 1 BY <2>1, <2>3, FS_AddElement
  <2>5. \A i \in DOMAIN queue' : queue'[i] \notin ready' /\ \E k \in DOMAIN queue : queue'[i] = queue[k]
    BY <2>1, <2>2 DEF QueueInv
  <2>6. \A d \in ready' : d \in R \/ \E k \in DOMAIN queue : d = queue[k] BY <2>1, <2>2
  <2>7. cur' = MaxInflight BY <1>3, <2>1 DEF QueueInv
  <2>8. cur' \in 0..MaxInflight /\ cur' = N + Cardinality(ready') BY <2>1, <2>4, <1>1 DEF TypeOK
  <2>9. queue' \in Seq(Calls) /\ ready' \subseteq Calls BY <2>1, <2>2 DEF TypeOK
  <2>10. \A i, j \in DOMAIN queue' : queue'[i] = queue'[j] => i = j BY <2>1, <2>2
  <2> QED BY <2>4, <2>5, <2>6, <2>7, <2>8, <2>9, <2>10
<1> QED BY <1>2, <1>3

-----------------------------------------------------------------------------
(* Steps that leave the semaphore alone. *)

LEMMA QueueFrame ==
    ASSUME TypeOK, QueueInv, UNCHANGED semaphoreVars, \A d \in Calls : pc[d] = "wait" => pc'[d] = "wait"
    PROVE  QueueInv'
<1>1. queue' = queue /\ ready' = ready /\ cur' = cur BY DEF semaphoreVars
<1>2. \A i \in DOMAIN queue : queue[i] \in Calls BY DEF TypeOK
<1> QED BY <1>1, <1>2 DEF QueueInv, TypeOK

LEMMA SlotFrame ==
    ASSUME SlotInv, Working' = Working, UNCHANGED <<cur, ready>>
    PROVE  SlotInv'
BY DEF SlotInv, SlotsConserved

\* Only call c changes.
LEMMA CallsFrame ==
    ASSUME CallsInv, NEW c \in Calls, CallInv(c)',
           \A d \in Calls \ {c} :
               /\ pc'[d] = pc[d] /\ ret'[d] = ret[d] /\ worker'[d] = worker[d] /\ result'[d] = result[d]
               /\ msg'[d] = msg[d] /\ copy'[d] = copy[d] /\ (d \in accepted' <=> d \in accepted)
    PROVE  CallsInv'
BY DEF CallsInv, CallInv

\* publish returns without touching the semaphore.
LEMMA ReturnStep ==
    ASSUME PublisherInv, NEW c \in Calls, AcquireRefused(c) \/ ReceiveResult(c) \/ ContextDone(c)
    PROVE  PublisherInv'
<1> USE DEF PublisherInv, brokerVars
<1>1. PICK a \in {"capacity", "nil", "error", "ctx"} :
          /\ pc' = [pc EXCEPT ![c] = "done"] /\ ret' = [ret EXCEPT ![c] = a]
          /\ a = "capacity" => pc[c] = "idle"
  BY DEF AcquireRefused, ReceiveResult, ContextDone, Return, TypeOK
<1>2. UNCHANGED <<ended, semaphoreVars, worker, result, msg, copy, brokerVars>> /\ pc[c] # "wait"
  BY DEF AcquireRefused, ReceiveResult, ContextDone
<1>3. TypeOK' BY <1>1, <1>2 DEF TypeOK, semaphoreVars
<1>4. QueueInv' BY <1>1, <1>2, QueueFrame DEF TypeOK
<1>5. SlotInv' BY <1>2, SlotFrame DEF Working, semaphoreVars
<1>6. CallInv(c)' BY <1>1, <1>2 DEF CallsInv, CallInv, TypeOK
<1>7. CallsInv' BY <1>1, <1>2, <1>6, CallsFrame DEF TypeOK
<1> QED BY <1>2, <1>3, <1>4, <1>5, <1>7 DEF MessageIntact

\* The context ends, or the caller reuses its message.
LEMMA CallerFreeStep ==
    ASSUME PublisherInv, NEW c \in Calls, ContextEnds(c) \/ Reuse(c)
    PROVE  PublisherInv'
<1> USE DEF PublisherInv, brokerVars
<1>1. UNCHANGED <<pc, ret, semaphoreVars, worker, result, copy, brokerVars>> BY DEF ContextEnds, Reuse
<1>2. msg' = msg \/ (pc[c] = "done" /\ msg' = [msg EXCEPT ![c] = "reused"]) BY DEF ContextEnds, Reuse
<1>3. TypeOK' BY <1>1, <1>2 DEF TypeOK, semaphoreVars, ContextEnds, Reuse
<1>4. QueueInv' BY <1>1, QueueFrame
<1>5. SlotInv' BY <1>1, SlotFrame DEF Working, semaphoreVars
<1>6. CallInv(c)' BY <1>1, <1>2 DEF CallsInv, CallInv, TypeOK
<1>7. CallsInv' BY <1>1, <1>2, <1>6, CallsFrame DEF TypeOK
<1> QED BY <1>1, <1>3, <1>4, <1>5, <1>7 DEF MessageIntact

\* The goroutine and the broker, up to the release.
LEMMA WorkerFreeStep ==
    ASSUME PublisherInv, NEW c \in Calls,
           WorkerGivesUp(c) \/ CallBroker(c) \/ BrokerReturns(c, "nil") \/ BrokerReturns(c, "error")
    PROVE  PublisherInv'
<1> USE DEF PublisherInv, brokerVars
<1>1. UNCHANGED <<pc, ret, ended, semaphoreVars, msg, copy, brokerVars>>
  BY DEF WorkerGivesUp, CallBroker, BrokerReturns
<1>2. PICK w \in {"calling", "release"} : worker' = [worker EXCEPT ![c] = w]
  BY DEF WorkerGivesUp, CallBroker, BrokerReturns
<1>3. worker[c] \in {"start", "calling"} BY DEF WorkerGivesUp, CallBroker, BrokerReturns
<1>4. PICK e \in {"empty", "nil", "error", "ctx"} :
          result' = [result EXCEPT ![c] = e] /\ (e = "nil" => c \in accepted)
  BY DEF WorkerGivesUp, CallBroker, BrokerReturns, TypeOK, CallsInv, CallInv
<1>5. TypeOK' BY <1>1, <1>2, <1>4 DEF TypeOK, semaphoreVars
<1>6. QueueInv' BY <1>1, QueueFrame
<1>7. Working' = Working BY <1>2, <1>3 DEF Working, TypeOK
<1>8. SlotInv' BY <1>1, <1>7, SlotFrame DEF semaphoreVars
<1>9. CallInv(c)' BY <1>1, <1>2, <1>3, <1>4 DEF CallsInv, CallInv, TypeOK
<1>10. CallsInv' BY <1>1, <1>2, <1>4, <1>9, CallsFrame DEF TypeOK
<1> QED BY <1>1, <1>5, <1>6, <1>8, <1>10 DEF MessageIntact

LEMMA AcceptStep ==
    ASSUME PublisherInv, NEW c \in Calls, BrokerAccepts(c)
    PROVE  PublisherInv'
<1> USE DEF PublisherInv
<1>1. UNCHANGED <<pc, ret, ended, semaphoreVars, worker, result, msg, copy>> /\ accepted' = accepted \cup {c}
  BY DEF BrokerAccepts
<1>2. worker[c] # "none" BY DEF BrokerAccepts, CallsInv, CallInv
<1>3. copy[c] = "sent" BY <1>2 DEF CallsInv, CallInv
<1>4. garbled' = garbled BY <1>3 DEF BrokerAccepts
<1>5. TypeOK' BY <1>1, <1>4 DEF TypeOK, semaphoreVars
<1>6. QueueInv' BY <1>1, QueueFrame
<1>7. SlotInv' BY <1>1, SlotFrame DEF Working, semaphoreVars
<1>8. CallInv(c)' BY <1>1, <1>2 DEF CallsInv, CallInv
<1>9. CallsInv' BY <1>1, <1>8, CallsFrame
<1> QED BY <1>4, <1>5, <1>6, <1>7, <1>9 DEF MessageIntact

-----------------------------------------------------------------------------
(* Steps of the semaphore. *)

\* A goroutine starts in a slot: from idle with a free slot, or handed over.
LEMMA StartStep ==
    ASSUME PublisherInv, NEW c \in Calls, AcquireNow(c) \/ AcquireServed(c)
    PROVE  PublisherInv'
<1> USE PublisherAssumption DEF PublisherInv, brokerVars
<1>1. /\ copy' = [copy EXCEPT ![c] = msg[c]] /\ worker' = [worker EXCEPT ![c] = "start"]
      /\ pc' = [pc EXCEPT ![c] = "select"]
      /\ UNCHANGED <<ret, ended, queue, result, msg, accepted, garbled>>
      /\ pc[c] \in {"idle", "wait"}
  BY DEF AcquireNow, AcquireServed, StartWorker
<1>2. worker[c] = "none" /\ msg[c] = "sent" BY <1>1 DEF CallsInv, CallInv
<1>3. Working' = Working \cup {c} /\ c \notin Working BY <1>1, <1>2 DEF Working, TypeOK
<1>4. IsFiniteSet(Working') /\ Cardinality(Working') = Cardinality(Working) + 1
  BY <1>3, FS_AddElement DEF SlotInv
<1>5. Cardinality(Working) \in Nat /\ Cardinality(ready) \in Nat BY FS_CardinalityType DEF SlotInv
<1>6. CallInv(c)' BY <1>1, <1>2 DEF CallsInv, CallInv, TypeOK
<1>7. CallsInv' BY <1>1, <1>6, CallsFrame DEF TypeOK
<1>8. CASE AcquireNow(c)
  <2>1. pc[c] = "idle" /\ cur < MaxInflight /\ queue = <<>> /\ cur' = cur + 1 /\ ready' = ready
    BY <1>8 DEF AcquireNow
  <2>2. TypeOK' BY <1>1, <1>2, <2>1 DEF TypeOK
  <2>3. QueueInv' BY <1>1, <2>1 DEF QueueInv, TypeOK
  <2>4. SlotInv' BY <1>4, <1>5, <2>1 DEF SlotInv, SlotsConserved
  <2> QED BY <1>1, <1>7, <2>2, <2>3, <2>4 DEF MessageIntact
<1>9. CASE AcquireServed(c)
  <2>1. pc[c] = "wait" /\ c \in ready /\ ready' = ready \ {c} /\ cur' = cur BY <1>9 DEF AcquireServed
  <2>2. IsFiniteSet(ready') /\ Cardinality(ready') = Cardinality(ready) - 1
    BY <2>1, FS_RemoveElement DEF SlotInv
  <2>3. TypeOK' BY <1>1, <1>2, <2>1 DEF TypeOK
  <2>4. \A i \in DOMAIN queue : queue[i] \in Calls /\ queue[i] # c BY <2>1 DEF QueueInv, TypeOK
  <2>5. QueueInv' BY <1>1, <2>1, <2>4 DEF QueueInv, TypeOK
  <2>6. SlotInv' BY <1>4, <1>5, <2>1, <2>2 DEF SlotInv, SlotsConserved
  <2> QED BY <1>1, <1>7, <2>3, <2>5, <2>6 DEF MessageIntact
<1> QED BY <1>8, <1>9

LEMMA WaitStep ==
    ASSUME PublisherInv, NEW c \in Calls, AcquireWaits(c)
    PROVE  PublisherInv'
<1> USE PublisherAssumption DEF PublisherInv, brokerVars
<1>1. /\ pc[c] = "idle" /\ queue' = Append(queue, c) /\ pc' = [pc EXCEPT ![c] = "wait"]
      /\ UNCHANGED <<ret, ended, cur, ready, worker, result, msg, copy, accepted, garbled>>
      /\ ~(cur < MaxInflight /\ queue = <<>>)
  BY DEF AcquireWaits
<1>2. queue \in Seq(Calls) /\ Len(queue) \in Nat /\ DOMAIN queue = 1..Len(queue) BY DEF TypeOK
<1>3. /\ queue' \in Seq(Calls) /\ DOMAIN queue' = 1..(Len(queue) + 1)
      /\ queue'[Len(queue) + 1] = c /\ \A i \in 1..Len(queue) : queue'[i] = queue[i]
  BY <1>1, <1>2
<1>4. TypeOK' BY <1>1, <1>3 DEF TypeOK
<1>5. c \notin ready /\ \A i \in DOMAIN queue : queue[i] # c /\ queue[i] \in Calls
  BY <1>1, <1>2 DEF QueueInv, TypeOK
<1>6. \A i \in DOMAIN queue' : i \in 1..Len(queue) \/ i = Len(queue) + 1 BY <1>2, <1>3
<1>7. \A i, j \in DOMAIN queue' : queue'[i] = queue'[j] => i = j
  BY <1>2, <1>3, <1>5, <1>6 DEF QueueInv
<1>8. \A i \in DOMAIN queue' : pc'[queue'[i]] = "wait" /\ queue'[i] \notin ready
  BY <1>1, <1>2, <1>3, <1>5, <1>6 DEF QueueInv, TypeOK
<1>9. \A d \in ready : pc'[d] = "wait" BY <1>1 DEF QueueInv, TypeOK
<1>10. cur = MaxInflight BY <1>1 DEF QueueInv, TypeOK
<1>11. QueueInv' BY <1>1, <1>7, <1>8, <1>9, <1>10 DEF QueueInv
<1>12. SlotInv' BY <1>1, SlotFrame DEF Working
<1>13. CallInv(c)' BY <1>1 DEF CallsInv, CallInv, TypeOK
<1>14. CallsInv' BY <1>1, <1>13, CallsFrame DEF TypeOK
<1> QED BY <1>1, <1>4, <1>11, <1>12, <1>14 DEF MessageIntact

\* A waiter gives up: out of the queue, or handing on the slot it was given.
LEMMA CancelStep ==
    ASSUME PublisherInv, NEW c \in Calls, AcquireCancelled(c)
    PROVE  PublisherInv'
<1> USE PublisherAssumption DEF PublisherInv, brokerVars
<1>1. /\ pc[c] = "wait" /\ pc' = [pc EXCEPT ![c] = "done"] /\ ret' = [ret EXCEPT ![c] = "capacity"]
      /\ UNCHANGED <<ended, worker, result, msg, copy, accepted, garbled>>
  BY DEF AcquireCancelled, Return
<1>2. Working' = Working /\ IsFiniteSet(Working) /\ IsFiniteSet(ready) BY <1>1 DEF Working, SlotInv
<1>3. Cardinality(Working) \in Nat BY <1>2, FS_CardinalityType
<1>4. CallInv(c)' BY <1>1 DEF CallsInv, CallInv, TypeOK
<1>5. CallsInv' BY <1>1, <1>4, CallsFrame DEF TypeOK
<1>6. CASE c \in ready
  <2> DEFINE R == ready \ {c}
  <2>1. GiveBack(R) BY <1>6 DEF AcquireCancelled
  <2>2. R \in SUBSET ready /\ IsFiniteSet(R) /\ Cardinality(R) = Cardinality(ready) - 1
    BY <1>2, <1>6, FS_RemoveElement
  <2>3. cur = Cardinality(Working) + Cardinality(R) + 1
    <3>1. Cardinality(ready) \in Nat BY <1>2, FS_CardinalityType
    <3> QED BY <2>2, <3>1, <1>3 DEF SlotInv, SlotsConserved
  <2> HIDE DEF R
  <2>4. /\ cur' \in 0..MaxInflight /\ queue' \in Seq(Calls) /\ ready' \subseteq Calls
        /\ IsFiniteSet(ready') /\ cur' = Cardinality(Working) + Cardinality(ready')
        /\ \A i, j \in DOMAIN queue' : queue'[i] = queue'[j] => i = j
        /\ \A i \in DOMAIN queue' : queue'[i] \notin ready' /\ \E k \in DOMAIN queue : queue'[i] = queue[k]
        /\ \A d \in ready' : d \in R \/ \E k \in DOMAIN queue : d = queue[k]
        /\ queue' # <<>> => cur' = MaxInflight
    BY <2>1, <2>2, <2>3, <1>3, HandedOn
  <2>5. \A k \in DOMAIN queue : queue[k] \in Calls /\ queue[k] # c /\ pc[queue[k]] = "wait"
    BY <1>6 DEF QueueInv, TypeOK
  <2>6. \A d \in R : d # c /\ d \in Calls /\ pc[d] = "wait" BY DEF QueueInv, TypeOK, R
  <2>7. TypeOK' BY <1>1, <2>4 DEF TypeOK
  <2>8. \A i \in DOMAIN queue' : pc'[queue'[i]] = "wait" BY <1>1, <2>4, <2>5 DEF TypeOK
  <2>9. \A d \in ready' : pc'[d] = "wait" BY <1>1, <2>4, <2>5, <2>6 DEF TypeOK
  <2>10. QueueInv' BY <2>4, <2>8, <2>9 DEF QueueInv
  <2>11. SlotInv' BY <1>2, <2>4 DEF SlotInv, SlotsConserved
  <2> QED BY <1>1, <1>5, <2>7, <2>10, <2>11 DEF MessageIntact
<1>7. CASE c \notin ready
  <2>1. Leave(c) /\ cur' = cur /\ ready' = ready BY <1>7 DEF AcquireCancelled
  <2>2. PICK n \in DOMAIN queue : queue[n] = c /\ queue' = Without(queue, n) BY <2>1 DEF Leave
  <2>3. /\ queue' \in Seq(Calls)
        /\ \A i \in DOMAIN queue' : \E k \in DOMAIN queue : k # n /\ queue'[i] = queue[k]
        /\ \A i, j \in DOMAIN queue' : queue'[i] = queue'[j] => i = j
    <3>1. queue \in Seq(Calls) /\ \A i, j \in DOMAIN queue : queue[i] = queue[j] => i = j BY DEF TypeOK, QueueInv
    <3> QED BY <3>1, <2>2, Left
  <2>4. \A k \in DOMAIN queue : k # n => queue[k] \in Calls /\ queue[k] # c BY <2>2 DEF QueueInv, TypeOK
  <2>5. TypeOK' BY <1>1, <2>1, <2>3 DEF TypeOK
  <2>6. \A i \in DOMAIN queue' : pc'[queue'[i]] = "wait" /\ queue'[i] \notin ready
    BY <1>1, <2>3, <2>4 DEF QueueInv, TypeOK
  <2>7. \A d \in ready : pc'[d] = "wait" BY <1>1, <1>7 DEF QueueInv, TypeOK
  <2>8. cur = MaxInflight
    <3>1. queue # <<>> BY <2>2
    <3> QED BY <3>1 DEF QueueInv
  <2>9. QueueInv' BY <2>1, <2>3, <2>6, <2>7, <2>8 DEF QueueInv
  <2>10. SlotInv' BY <1>2, <2>1, SlotFrame
  <2> QED BY <1>1, <1>5, <2>5, <2>9, <2>10 DEF MessageIntact
<1> QED BY <1>6, <1>7

LEMMA ReleaseStep ==
    ASSUME PublisherInv, NEW c \in Calls, Release(c)
    PROVE  PublisherInv'
<1> USE PublisherAssumption DEF PublisherInv, brokerVars
<1>1. /\ worker[c] = "release" /\ worker' = [worker EXCEPT ![c] = "over"] /\ GiveBack(ready)
      /\ UNCHANGED <<pc, ret, ended, result, msg, copy, accepted, garbled>>
  BY DEF Release
<1>2. Working' = Working \ {c} /\ c \in Working BY <1>1 DEF Working, TypeOK
<1>3. IsFiniteSet(Working') /\ Cardinality(Working') = Cardinality(Working) - 1
  BY <1>2, FS_RemoveElement DEF SlotInv
<1>4. Cardinality(Working) \in Nat /\ Cardinality(Working') \in Nat /\ Cardinality(ready) \in Nat
  BY <1>3, FS_CardinalityType DEF SlotInv
<1>5. cur = Cardinality(Working') + Cardinality(ready) + 1 BY <1>3, <1>4 DEF SlotInv, SlotsConserved
<1>6. IsFiniteSet(ready) BY DEF SlotInv
<1>7. /\ cur' \in 0..MaxInflight /\ queue' \in Seq(Calls) /\ ready' \subseteq Calls
      /\ IsFiniteSet(ready') /\ cur' = Cardinality(Working') + Cardinality(ready')
      /\ \A i, j \in DOMAIN queue' : queue'[i] = queue'[j] => i = j
      /\ \A i \in DOMAIN queue' : queue'[i] \notin ready' /\ \E k \in DOMAIN queue : queue'[i] = queue[k]
      /\ \A d \in ready' : d \in ready \/ \E k \in DOMAIN queue : d = queue[k]
      /\ queue' # <<>> => cur' = MaxInflight
  <2> DEFINE N == Cardinality(Working')
             R == ready
  <2>1. N \in Nat /\ cur = N + Cardinality(R) + 1 /\ R \in SUBSET ready /\ IsFiniteSet(R) /\ GiveBack(R)
    BY <1>1, <1>4, <1>5, <1>6
  <2> HIDE DEF N, R
  <2>2. /\ cur' \in 0..MaxInflight /\ queue' \in Seq(Calls) /\ ready' \subseteq Calls
        /\ IsFiniteSet(ready') /\ cur' = N + Cardinality(ready')
        /\ \A i, j \in DOMAIN queue' : queue'[i] = queue'[j] => i = j
        /\ \A i \in DOMAIN queue' : queue'[i] \notin ready' /\ \E k \in DOMAIN queue : queue'[i] = queue[k]
        /\ \A d \in ready' : d \in R \/ \E k \in DOMAIN queue : d = queue[k]
        /\ queue' # <<>> => cur' = MaxInflight
    BY <2>1, HandedOn
  <2> QED BY <2>2 DEF N, R
<1>8. TypeOK' BY <1>1, <1>7 DEF TypeOK
<1>9. QueueInv' BY <1>1, <1>7 DEF QueueInv
<1>10. SlotInv' BY <1>3, <1>7 DEF SlotInv, SlotsConserved
<1>11. CallInv(c)' BY <1>1 DEF CallsInv, CallInv, TypeOK
<1>12. CallsInv' BY <1>1, <1>11, CallsFrame DEF TypeOK
<1> QED BY <1>1, <1>8, <1>9, <1>10, <1>12 DEF MessageIntact

-----------------------------------------------------------------------------
(* The theorems. *)

LEMMA InitInv == Init => PublisherInv
<1> SUFFICES ASSUME Init PROVE PublisherInv OBVIOUS
<1> USE PublisherAssumption
<1>1. TypeOK BY DEF Init, TypeOK
<1>2. QueueInv BY DEF Init, QueueInv
<1>3. Working = {} /\ ready = {} BY DEF Init, Working
<1>4. SlotInv BY <1>3, FS_EmptySet DEF Init, SlotInv, SlotsConserved
<1>5. CallsInv BY DEF Init, CallsInv, CallInv
<1> QED BY <1>1, <1>2, <1>4, <1>5 DEF PublisherInv, MessageIntact, Init

LEMMA NextInv == PublisherInv /\ [Next]_vars => PublisherInv'
<1> SUFFICES ASSUME PublisherInv, [Next]_vars PROVE PublisherInv' OBVIOUS
<1>1. CASE UNCHANGED vars
  <2>1. UNCHANGED <<pc, ret, ended, cur, queue, ready, worker, result, msg, copy, accepted, garbled>>
    BY <1>1 DEF vars
  <2>2. TypeOK' /\ QueueInv' BY <2>1 DEF PublisherInv, TypeOK, QueueInv
  <2>3. SlotInv' BY <2>1, SlotFrame DEF PublisherInv, Working
  <2>4. CallsInv' BY <2>1 DEF PublisherInv, CallsInv, CallInv
  <2> QED BY <2>1, <2>2, <2>3, <2>4 DEF PublisherInv, MessageIntact
<1>2. CASE Next
  <2> PICK c \in Calls : CallerStep(c) \/ WorkerStep(c) \/ BrokerStep(c) \/ ContextEnds(c) \/ Reuse(c)
    BY <1>2 DEF Next
  <2>1. CASE CallerStep(c) BY <2>1, ReturnStep, StartStep, WaitStep, CancelStep DEF CallerStep
  <2>2. CASE WorkerStep(c) BY <2>2, WorkerFreeStep, ReleaseStep DEF WorkerStep
  <2>3. CASE BrokerStep(c) BY <2>3, WorkerFreeStep, AcceptStep DEF BrokerStep
  <2>4. CASE ContextEnds(c) \/ Reuse(c) BY <2>4, CallerFreeStep
  <2> QED BY <2>1, <2>2, <2>3, <2>4
<1> QED BY <1>1, <1>2

\* The inductive invariant of boundedPublisher.publish and its semaphore.
THEOREM PublisherSafe == Spec => []PublisherInv
BY InitInv, NextInv, PTL DEF Spec

\* The semaphore counts exactly the goroutines of publish and the waiters it just served:
\* no race of a hand-over with the end of a context loses or forges a slot.
THEOREM SlotsKept == Spec => []SlotsConserved
<1>1. PublisherInv => SlotsConserved BY DEF PublisherInv, SlotInv
<1> QED BY <1>1, PublisherSafe, PTL

\* At most MaxInflight goroutines of publish run, also those nobody waits for any more,
\* and nobody waits for a slot while one is free.
InflightBounded ==
    /\ Cardinality(Working) <= MaxInflight
    /\ queue # <<>> => Cardinality(Working) + Cardinality(ready) = MaxInflight

\* InflightBounded holds of every run: broker calls in progress never exceed the limit
\* given to newBoundedPublisher, and no waiter is forgotten while there is room.
THEOREM NeverTooMany == Spec => []InflightBounded
<1>1. PublisherInv => InflightBounded
  <2> SUFFICES ASSUME PublisherInv PROVE InflightBounded OBVIOUS
  <2>1. Cardinality(Working) \in Nat /\ Cardinality(ready) \in Nat
    BY FS_CardinalityType DEF PublisherInv, SlotInv
  <2> QED BY <2>1, PublisherAssumption
      DEF PublisherInv, SlotInv, SlotsConserved, TypeOK, QueueInv, InflightBounded
<1> QED BY <1>1, PublisherSafe, PTL

\* The broker takes the message that was sent, although the caller of publish may reuse
\* it while an abandoned goroutine still runs.
THEOREM MessageKept == Spec => []MessageIntact
<1>1. PublisherInv => MessageIntact BY DEF PublisherInv
<1> QED BY <1>1, PublisherSafe, PTL

\* A step of the publisher is a step of the abstract call, or changes nothing it shows.
LEMMA StepRefines ==
    ASSUME PublisherInv, [Next]_vars
    PROVE  [Answers!Next]_<<ret, accepted>>
<1> USE DEF brokerVars
<1>1. CASE UNCHANGED vars BY <1>1 DEF vars
<1>2. CASE Next
  <2> PICK c \in Calls : CallerStep(c) \/ WorkerStep(c) \/ BrokerStep(c) \/ ContextEnds(c) \/ Reuse(c)
    BY <1>2 DEF Next
  <2>1. CallInv(c) BY DEF PublisherInv, CallsInv
  <2>2. CASE AcquireRefused(c) \/ AcquireCancelled(c)
    <3>1. ret' = [ret EXCEPT ![c] = "capacity"] /\ accepted' = accepted /\ pc[c] \in {"idle", "wait"}
      BY <2>2 DEF AcquireRefused, AcquireCancelled, Return
    <3>2. Answers!Return(c, "capacity") BY <3>1, <2>1 DEF Answers!Return, CallInv
    <3> QED BY <3>2 DEF Answers!Next, Answers!Answer
  <2>3. CASE ReceiveResult(c)
    <3>1. ret' = [ret EXCEPT ![c] = result[c]] /\ accepted' = accepted /\ pc[c] = "select"
      BY <2>3 DEF ReceiveResult, Return
    <3>2. result[c] \in {"nil", "error", "ctx"} BY <2>3 DEF ReceiveResult, PublisherInv, TypeOK
    <3>3. Answers!Return(c, result[c]) BY <3>1, <3>2, <2>1 DEF Answers!Return, CallInv
    <3> QED BY <3>2, <3>3 DEF Answers!Next, Answers!Answer
  <2>4. CASE ContextDone(c)
    <3>1. ret' = [ret EXCEPT ![c] = "ctx"] /\ accepted' = accepted /\ pc[c] = "select"
      BY <2>4 DEF ContextDone, Return
    <3>2. Answers!Return(c, "ctx") BY <3>1, <2>1 DEF Answers!Return, CallInv
    <3> QED BY <3>2 DEF Answers!Next, Answers!Answer
  <2>5. CASE BrokerAccepts(c)
    <3>1. accepted' = accepted \cup {c} /\ ret' = ret BY <2>5 DEF BrokerAccepts
    <3>2. ret[c] # "capacity" BY <2>5, <2>1 DEF BrokerAccepts, CallInv
    <3>3. Answers!Accept(c) BY <3>1, <3>2 DEF Answers!Accept
    <3> QED BY <3>3 DEF Answers!Next
  <2>6. CASE AcquireNow(c) \/ AcquireWaits(c) \/ AcquireServed(c)
    BY <2>6 DEF AcquireNow, AcquireWaits, AcquireServed
  <2>7. CASE WorkerStep(c) BY <2>7 DEF WorkerStep, WorkerGivesUp, CallBroker, Release
  <2>8. CASE \E err \in {"nil", "error"} : BrokerReturns(c, err) BY <2>8 DEF BrokerReturns
  <2>9. CASE ContextEnds(c) \/ Reuse(c) BY <2>9 DEF ContextEnds, Reuse
  <2> QED BY <2>2, <2>3, <2>4, <2>5, <2>6, <2>7, <2>8, <2>9 DEF CallerStep, BrokerStep
<1> QED BY <1>1, <1>2

\* The answers of Publish mean what the outbox takes them to mean: nil that the broker has
\* the message, capacity that it never saw it and never will.
THEOREM PublisherImplementsCall == Spec => ImplementsPublishCall
<1>1. Init => Answers!Init BY DEF Init, Answers!Init
<1>2. PublisherInv /\ [Next]_vars => [Answers!Next]_<<ret, accepted>> BY StepRefines
<1> QED BY <1>1, <1>2, PublisherSafe, PTL DEF Spec, ImplementsPublishCall, Answers!Spec

-----------------------------------------------------------------------------
(* First come, first served. *)

\* One step: a slot is handed to the first waiter only, those who stay keep their order,
\* newcomers stand behind them, and a goroutine starts for a waiter that was handed a slot
\* or when nobody waits.
InTurn ==
    /\ \A i \in DOMAIN queue : queue[i] \in ready' => i = 1
    /\ \A k, l \in DOMAIN queue' : k < l =>
          \A j \in DOMAIN queue : queue'[l] = queue[j] =>
              \E i \in DOMAIN queue : queue'[k] = queue[i] /\ i < j
    /\ \A c \in Calls : worker[c] = "none" /\ worker'[c] # "none" => c \in ready \/ queue = <<>>

ServedInTurn == [][InTurn]_vars

\* The three ways the semaphore changes its list.
LEMMA StaysInTurn ==
    ASSUME TypeOK, QueueInv, queue' = queue, ready' \subseteq ready,
           \A c \in Calls : worker[c] = "none" /\ worker'[c] # "none" => c \in ready \/ queue = <<>>
    PROVE  InTurn
<1>1. \A i \in DOMAIN queue : queue[i] \notin ready' BY DEF QueueInv
<1>2. \A i, j \in DOMAIN queue : queue[i] = queue[j] => i = j BY DEF QueueInv
<1> QED BY <1>1, <1>2 DEF InTurn

LEMMA AppendInTurn ==
    ASSUME TypeOK, QueueInv, NEW c \in Calls, AcquireWaits(c), pc[c] = "idle"
    PROVE  InTurn
<1>1. queue' = Append(queue, c) /\ ready' = ready /\ worker' = worker BY DEF AcquireWaits
<1>2. queue \in Seq(Calls) /\ Len(queue) \in Nat /\ DOMAIN queue = 1..Len(queue) BY DEF TypeOK
<1>3. \A i \in DOMAIN queue : queue[i] # c /\ queue[i] \notin ready BY DEF QueueInv
<1>4. /\ DOMAIN queue' = 1..(Len(queue) + 1)
      /\ \A k \in 1..Len(queue) : queue'[k] = queue[k]
      /\ queue'[Len(queue) + 1] = c
  BY <1>1, <1>2
<1>5. \A i, j \in DOMAIN queue : queue[i] = queue[j] => i = j BY DEF QueueInv
<1>6. ASSUME NEW k \in DOMAIN queue', NEW l \in DOMAIN queue', k < l,
             NEW j \in DOMAIN queue, queue'[l] = queue[j]
      PROVE  \E i \in DOMAIN queue : queue'[k] = queue[i] /\ i < j
  <2>1. l \in 1..Len(queue) BY <1>2, <1>3, <1>4, <1>6
  <2>2. l = j BY <1>2, <1>4, <1>5, <1>6, <2>1
  <2>3. k \in DOMAIN queue /\ queue'[k] = queue[k] /\ k < j BY <1>2, <1>4, <1>6, <2>1, <2>2
  <2> QED BY <2>3
<1> QED BY <1>1, <1>3, <1>6 DEF InTurn

LEMMA HandOverInTurn ==
    ASSUME TypeOK, QueueInv, NEW R \in SUBSET ready, GiveBack(R),
           \A c \in Calls : worker[c] = "none" => worker'[c] = "none"
    PROVE  InTurn
<1>1. CASE queue = <<>>
  BY <1>1 DEF GiveBack, InTurn
<1>2. CASE queue # <<>>
  <2>1. ready' = R \cup {Head(queue)} /\ queue' = Tail(queue) BY <1>2 DEF GiveBack
  <2>2. /\ 1 \in DOMAIN queue /\ Head(queue) = queue[1]
        /\ \A i \in DOMAIN Tail(queue) : i + 1 \in DOMAIN queue /\ Tail(queue)[i] = queue[i + 1]
    BY <1>2, Served DEF TypeOK, QueueInv
  <2>3. \A i, j \in DOMAIN queue : queue[i] = queue[j] => i = j BY DEF QueueInv
  <2>4. \A i \in DOMAIN queue : queue[i] \in ready' => i = 1 BY <2>1, <2>2, <2>3 DEF QueueInv
  <2>5. DOMAIN Tail(queue) \subseteq Nat BY <1>2 DEF TypeOK
  <2>6. ASSUME NEW k \in DOMAIN queue', NEW l \in DOMAIN queue', k < l,
               NEW j \in DOMAIN queue, queue'[l] = queue[j]
        PROVE  \E i \in DOMAIN queue : queue'[k] = queue[i] /\ i < j
    <3>1. k \in Nat /\ l \in Nat BY <2>1, <2>5, <2>6
    <3>2. j = l + 1 BY <2>1, <2>2, <2>3, <2>6
    <3>3. k + 1 \in DOMAIN queue /\ queue'[k] = queue[k + 1] /\ k + 1 < j
      BY <2>1, <2>2, <2>6, <3>1, <3>2
    <3> QED BY <3>3
  <2> QED BY <2>4, <2>6 DEF InTurn
<1> QED BY <1>1, <1>2

LEMMA LeaveInTurn ==
    ASSUME TypeOK, QueueInv, NEW c \in Calls, Leave(c), ready' = ready, worker' = worker
    PROVE  InTurn
<1>1. PICK n \in DOMAIN queue : queue' = Without(queue, n) BY DEF Leave
<1> DEFINE At(i) == IF i < n THEN i ELSE i + 1
<1>2. Len(queue) \in Nat /\ DOMAIN queue = 1..Len(queue) BY DEF TypeOK
<1>3. DOMAIN queue' = 1..(Len(queue) - 1) BY <1>1 DEF Without
<1>4. \A i \in DOMAIN queue' : queue'[i] = queue[At(i)] BY <1>1, <1>3 DEF Without
<1>5. \A i \in DOMAIN queue' : At(i) \in DOMAIN queue BY <1>2, <1>3
<1>6. \A i, j \in DOMAIN queue' : i < j => At(i) < At(j) BY <1>2, <1>3
<1> HIDE DEF At
<1>7. \A i, j \in DOMAIN queue : queue[i] = queue[j] => i = j BY DEF QueueInv
<1>8. ASSUME NEW k \in DOMAIN queue', NEW l \in DOMAIN queue', k < l,
             NEW j \in DOMAIN queue, queue'[l] = queue[j]
      PROVE  \E i \in DOMAIN queue : queue'[k] = queue[i] /\ i < j
  <2>1. At(l) = j BY <1>4, <1>5, <1>7, <1>8
  <2> QED BY <1>4, <1>5, <1>6, <1>8, <2>1
<1>9. \A i \in DOMAIN queue : queue[i] \notin ready' BY DEF QueueInv
<1> QED BY <1>8, <1>9 DEF InTurn

\* Slots are given in the order in which the calls began to wait (Acquire in publish): no
\* newcomer and no other waiter overtakes, whatever contexts end meanwhile.  With a free
\* broker this is why the dead-letter publisher, which never gives up, gets its turn.
THEOREM FirstComeFirstServed == Spec => ServedInTurn
<1>1. ASSUME PublisherInv, [Next]_vars PROVE [InTurn]_vars
  <2> USE <1>1 DEF PublisherInv, brokerVars, semaphoreVars
  <2>1. SUFFICES ASSUME Next PROVE InTurn OBVIOUS
  <2> PICK c \in Calls : CallerStep(c) \/ WorkerStep(c) \/ BrokerStep(c) \/ ContextEnds(c) \/ Reuse(c)
    BY <2>1 DEF Next
  <2>2. CASE AcquireWaits(c) BY <2>2, AppendInTurn DEF AcquireWaits
  <2>3. CASE AcquireNow(c)
    BY <2>3, StaysInTurn DEF AcquireNow, StartWorker, TypeOK
  <2>4. CASE AcquireServed(c)
    <3>1. queue' = queue /\ ready' = ready \ {c} /\ c \in ready /\ worker' = [worker EXCEPT ![c] = "start"]
      BY <2>4 DEF AcquireServed, StartWorker
    <3>2. \A d \in Calls : worker[d] = "none" /\ worker'[d] # "none" => d \in ready
      BY <3>1 DEF TypeOK
    <3> QED BY <3>1, <3>2, StaysInTurn
  <2>5. CASE AcquireCancelled(c)
    <3>1. CASE c \in ready /\ GiveBack(ready \ {c})
      BY <2>5, <3>1, HandOverInTurn DEF AcquireCancelled
    <3>2. CASE Leave(c) /\ UNCHANGED <<cur, ready>>
      BY <2>5, <3>2, LeaveInTurn DEF AcquireCancelled
    <3> QED BY <2>5, <3>1, <3>2 DEF AcquireCancelled
  <2>6. CASE Release(c)
    <3>1. GiveBack(ready) /\ worker[c] = "release" /\ worker' = [worker EXCEPT ![c] = "over"]
      BY <2>6 DEF Release
    <3>2. \A d \in Calls : worker[d] = "none" => worker'[d] = "none" BY <3>1 DEF TypeOK
    <3> QED BY <3>1, <3>2, HandOverInTurn
  <2>7. CASE AcquireRefused(c) \/ ReceiveResult(c) \/ ContextDone(c) \/ BrokerAccepts(c)
             \/ ContextEnds(c) \/ Reuse(c)
    <3>1. UNCHANGED <<queue, ready, worker>>
      BY <2>7 DEF AcquireRefused, ReceiveResult, ContextDone, BrokerAccepts, ContextEnds, Reuse
    <3> QED BY <3>1, StaysInTurn
  <2>8. CASE WorkerGivesUp(c) \/ CallBroker(c) \/ \E err \in {"nil", "error"} : BrokerReturns(c, err)
    <3>1. PICK w \in {"calling", "release"} :
              worker[c] # "none" /\ worker' = [worker EXCEPT ![c] = w] /\ UNCHANGED <<queue, ready>>
      BY <2>8 DEF WorkerGivesUp, CallBroker, BrokerReturns
    <3>2. \A d \in Calls : worker[d] = "none" => worker'[d] = "none" BY <3>1 DEF TypeOK
    <3> QED BY <3>1, <3>2, StaysInTurn
  <2> QED BY <2>2, <2>3, <2>4, <2>5, <2>6, <2>7, <2>8 DEF CallerStep, WorkerStep, BrokerStep
<1> QED BY <1>1, PublisherSafe, PTL DEF Spec, ServedInTurn
=============================================================================
