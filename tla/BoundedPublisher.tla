-------------------------- MODULE BoundedPublisher --------------------------
(***************************************************************************)
(* boundedPublisher (internal/events/publisher.go): concurrent calls share *)
(* a semaphore of MaxInflight slots; each runs the broker call in a        *)
(* goroutine of its own and waits for its result or for its context.       *)
(*                                                                         *)
(* A call publishes one message and is made once.  Outbox publishers (with *)
(* a timeout) and the dead-letter publisher (without one) share the slots. *)
(***************************************************************************)
EXTENDS Naturals, FiniteSets, Sequences

CONSTANTS
    Calls,        \* the calls of Publish
    MaxInflight   \* size of the semaphore

ASSUME PublisherAssumption == MaxInflight \in Nat \ {0}

VARIABLES
    pc,        \* pc[c]: where the caller is
    ret,       \* ret[c]: what Publish returned ("none" before)
    ended,     \* calls whose context is done
    cur,       \* slots in use, as the semaphore counts them
    queue,     \* the semaphore's waiters, first in first out
    ready,     \* waiters that were handed a slot and do not know it yet
    worker,    \* worker[c]: the goroutine of the call
    result,    \* result[c]: its channel of capacity one ("empty" or an error)
    msg,       \* msg[c]: the caller's message: "sent", or "reused" afterwards
    copy,      \* copy[c]: what the goroutine hands to the broker
    accepted,  \* calls whose message the broker has taken
    garbled    \* calls of which the broker took something else

vars == <<pc, ret, ended, cur, queue, ready, worker, result, msg, copy, accepted, garbled>>

TypeOK ==
    /\ pc \in [Calls -> {"idle", "wait", "select", "done"}]
    /\ ret \in [Calls -> {"none", "nil", "capacity", "error", "ctx"}]
    /\ ended \subseteq Calls
    /\ cur \in 0..MaxInflight
    /\ queue \in Seq(Calls)
    /\ ready \subseteq Calls
    /\ worker \in [Calls -> {"none", "start", "calling", "release", "over"}]
    /\ result \in [Calls -> {"empty", "nil", "error", "ctx"}]
    /\ msg \in [Calls -> {"sent", "reused"}]
    /\ copy \in [Calls -> {"none", "sent", "reused"}]
    /\ accepted \subseteq Calls
    /\ garbled \subseteq Calls

Init ==
    /\ pc = [c \in Calls |-> "idle"]
    /\ ret = [c \in Calls |-> "none"]
    /\ ended = {} /\ cur = 0 /\ queue = <<>> /\ ready = {}
    /\ worker = [c \in Calls |-> "none"]
    /\ result = [c \in Calls |-> "empty"]
    /\ msg = [c \in Calls |-> "sent"]
    /\ copy = [c \in Calls |-> "none"]
    /\ accepted = {} /\ garbled = {}

brokerVars == <<accepted, garbled>>
semaphoreVars == <<cur, queue, ready>>

-----------------------------------------------------------------------------
(* The semaphore of golang.org/x/sync, as publish uses it: weights of one. *)

\* Mutant: a released slot is not handed to the waiters.
GiveBackSilently(R) == cur' = cur - 1 /\ ready' = R /\ UNCHANGED queue

\* Release with notifyWaiters: the slot goes to the first waiter, if any.  R
\* is the set of served waiters that still hold theirs.
GiveBack(R) ==
    \/ /\ queue = <<>>
       /\ cur' = cur - 1 /\ ready' = R /\ UNCHANGED queue
    \/ /\ queue # <<>>
       /\ ready' = R \cup {Head(queue)} /\ queue' = Tail(queue) /\ UNCHANGED cur

\* publish returns.
Return(c, a) ==
    /\ pc' = [pc EXCEPT ![c] = "done"]
    /\ ret' = [ret EXCEPT ![c] = a]

\* Copy the message and start the goroutine.
StartWorker(c) ==
    /\ copy' = [copy EXCEPT ![c] = msg[c]]
    /\ worker' = [worker EXCEPT ![c] = "start"]
    /\ pc' = [pc EXCEPT ![c] = "select"]

\* Acquire with the context already done.
AcquireRefused(c) ==
    /\ pc[c] = "idle"
    /\ c \in ended
    /\ Return(c, "capacity")
    /\ UNCHANGED <<ended, semaphoreVars, worker, result, msg, copy, brokerVars>>

\* Acquire with a free slot and nobody waiting.
AcquireNow(c) ==
    /\ pc[c] = "idle"
    /\ c \notin ended
    /\ cur < MaxInflight /\ queue = <<>>
    /\ cur' = cur + 1
    /\ StartWorker(c)
    /\ UNCHANGED <<ret, ended, queue, ready, result, msg, brokerVars>>

AcquireWaits(c) ==
    /\ pc[c] = "idle"
    /\ c \notin ended
    /\ ~(cur < MaxInflight /\ queue = <<>>)
    /\ queue' = Append(queue, c)
    /\ pc' = [pc EXCEPT ![c] = "wait"]
    /\ UNCHANGED <<ret, ended, cur, ready, worker, result, msg, copy, brokerVars>>

\* The waiter was handed a slot and its context is alive.
AcquireServed(c) ==
    /\ pc[c] = "wait" /\ c \in ready /\ c \notin ended
    /\ ready' = ready \ {c}
    /\ StartWorker(c)
    /\ UNCHANGED <<ret, ended, cur, queue, result, msg, brokerVars>>

\* The waiters without the one at position n.
Without(q, n) == [k \in 1..(Len(q) - 1) |-> q[IF k < n THEN k ELSE k + 1]]

\* A waiter is taken out of the list.
Leave(c) == \E n \in DOMAIN queue : queue[n] = c /\ queue' = Without(queue, n)

\* Mutant: a waiter that gives up forgets the slot it was handed.
AcquireCancelledLeaks(c) ==
    /\ pc[c] = "wait" /\ c \in ended
    /\ (c \in ready /\ UNCHANGED queue) \/ (c \notin ready /\ Leave(c))
    /\ ready' = ready \ {c}
    /\ Return(c, "capacity")
    /\ UNCHANGED <<ended, cur, worker, result, msg, copy, brokerVars>>

\* The context ends while waiting.  A slot that was handed over meanwhile goes
\* back; otherwise the waiter leaves the queue.
AcquireCancelled(c) ==
    /\ pc[c] = "wait" /\ c \in ended
    /\ \/ /\ c \in ready
          /\ GiveBack(ready \ {c})
       \/ /\ c \notin ready
          /\ Leave(c)
          /\ UNCHANGED <<cur, ready>>
    /\ Return(c, "capacity")
    /\ UNCHANGED <<ended, worker, result, msg, copy, brokerVars>>

-----------------------------------------------------------------------------
(* The goroutine. *)

\* Mutant: a late goroutine reports a cancelled call as done.
WorkerGivesUpSilently(c) ==
    /\ worker[c] = "start" /\ c \in ended
    /\ result' = [result EXCEPT ![c] = "nil"]
    /\ worker' = [worker EXCEPT ![c] = "release"]
    /\ UNCHANGED <<pc, ret, ended, semaphoreVars, msg, copy, brokerVars>>

\* The context is checked once more before the broker is called.
WorkerGivesUp(c) ==
    /\ worker[c] = "start" /\ c \in ended
    /\ result' = [result EXCEPT ![c] = "ctx"]
    /\ worker' = [worker EXCEPT ![c] = "release"]
    /\ UNCHANGED <<pc, ret, ended, semaphoreVars, msg, copy, brokerVars>>

CallBroker(c) ==
    /\ worker[c] = "start" /\ c \notin ended
    /\ worker' = [worker EXCEPT ![c] = "calling"]
    /\ UNCHANGED <<pc, ret, ended, semaphoreVars, result, msg, copy, brokerVars>>

\* Mutant: the broker reads the caller's message.
BrokerAcceptsShared(c) ==
    /\ worker[c] = "calling" \/ result[c] = "error"
    /\ accepted' = accepted \cup {c}
    /\ garbled' = IF msg[c] = "sent" THEN garbled ELSE garbled \cup {c}
    /\ UNCHANGED <<pc, ret, ended, semaphoreVars, worker, result, msg, copy>>

\* The broker takes the message it reads from the copy: during the call, or
\* after the client library gave up on it with an error.
BrokerAccepts(c) ==
    /\ worker[c] = "calling" \/ result[c] = "error"
    /\ accepted' = accepted \cup {c}
    /\ garbled' = IF copy[c] = "sent" THEN garbled ELSE garbled \cup {c}
    /\ UNCHANGED <<pc, ret, ended, semaphoreVars, worker, result, msg, copy>>

\* The broker call returns: nil for an accepted message, or an error that
\* says nothing (a lost acknowledgement).
BrokerReturns(c, err) ==
    /\ worker[c] = "calling"
    /\ err = "nil" => c \in accepted
    /\ result' = [result EXCEPT ![c] = err]
    /\ worker' = [worker EXCEPT ![c] = "release"]
    /\ UNCHANGED <<pc, ret, ended, semaphoreVars, msg, copy, brokerVars>>

\* The deferred Release.
Release(c) ==
    /\ worker[c] = "release"
    /\ GiveBack(ready)
    /\ worker' = [worker EXCEPT ![c] = "over"]
    /\ UNCHANGED <<pc, ret, ended, result, msg, copy, brokerVars>>

-----------------------------------------------------------------------------
(* The caller's select, its context and its message. *)

ReceiveResult(c) ==
    /\ pc[c] = "select" /\ result[c] # "empty"
    /\ Return(c, result[c])
    /\ UNCHANGED <<ended, semaphoreVars, worker, result, msg, copy, brokerVars>>

\* Mutant: the caller waits for the goroutine after all.
ContextDoneWaits(c) ==
    /\ pc[c] = "select" /\ c \in ended
    /\ result[c] # "empty"
    /\ Return(c, "ctx")
    /\ UNCHANGED <<ended, semaphoreVars, worker, result, msg, copy, brokerVars>>

ContextDone(c) ==
    /\ pc[c] = "select" /\ c \in ended
    /\ Return(c, "ctx")
    /\ UNCHANGED <<ended, semaphoreVars, worker, result, msg, copy, brokerVars>>

\* A timeout or a cancellation, at any moment.
ContextEnds(c) ==
    /\ c \notin ended
    /\ ended' = ended \cup {c}
    /\ UNCHANGED <<pc, ret, semaphoreVars, worker, result, msg, copy, brokerVars>>

\* The caller reuses its message once Publish returned.
Reuse(c) ==
    /\ pc[c] = "done" /\ msg[c] = "sent"
    /\ msg' = [msg EXCEPT ![c] = "reused"]
    /\ UNCHANGED <<pc, ret, ended, semaphoreVars, worker, result, copy, brokerVars>>

-----------------------------------------------------------------------------
CallerStep(c) ==
    \/ AcquireRefused(c) \/ AcquireNow(c) \/ AcquireWaits(c)
    \/ AcquireServed(c) \/ AcquireCancelled(c)
    \/ ReceiveResult(c) \/ ContextDone(c)

\* What the goroutine does by itself; the broker decides when a call ends.
WorkerStep(c) == WorkerGivesUp(c) \/ CallBroker(c) \/ Release(c)

BrokerStep(c) == BrokerAccepts(c) \/ \E err \in {"nil", "error"} : BrokerReturns(c, err)

Next == \E c \in Calls : CallerStep(c) \/ WorkerStep(c) \/ BrokerStep(c)
                         \/ ContextEnds(c) \/ Reuse(c)

Spec == Init /\ [][Next]_vars

\* Goroutines run.  Nothing is assumed of the broker or of the contexts.
Fairness == \A c \in Calls : WF_vars(CallerStep(c)) /\ WF_vars(WorkerStep(c))

FairSpec == Spec /\ Fairness

-----------------------------------------------------------------------------
(* Properties. *)

Working == {c \in Calls : worker[c] \in {"start", "calling", "release"}}

\* Slots are neither lost nor forged, through every race of a hand-over with
\* a timeout: the semaphore counts the goroutines and the waiters just served.
\* So at most MaxInflight broker calls run, even those nobody waits for.
SlotsConserved == cur = Cardinality(Working) + Cardinality(ready)

\* The broker takes what was sent, though callers reuse their messages while
\* abandoned calls still run.
MessageIntact == garbled = {}

\* The answers mean what the outbox takes them to mean.
Answers == INSTANCE PublishCall
ImplementsPublishCall == Answers!Spec

\* A call whose context ends returns, even if the broker never does.
TimedOutReturns == \A c \in Calls : (pc[c] # "idle" /\ c \in ended) ~> pc[c] = "done"

\* If no broker call hangs for ever, nobody waits for ever: also the dead-letter
\* publisher, which has no timeout, gets its slot.
WaitersServed ==
    (\A c \in Calls : []<>(worker[c] # "calling"))
      => \A c \in Calls : pc[c] = "wait" ~> pc[c] # "wait"

=============================================================================
