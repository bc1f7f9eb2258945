------------------------------ MODULE Delivery ------------------------------
(***************************************************************************)
(* The consuming side of the events: a broker topic, the router's handler  *)
(* chain of internal/events/router.go (retries, then the dead-letter       *)
(* topic), and the subscriber that records user history                    *)
(* (internal/auth/workers/auth_events_subscriber.go).                      *)
(*                                                                         *)
(* The broker (external) keeps a copy until it is acknowledged, may        *)
(* deliver it to several consumers, and, with NATS, drops a publication    *)
(* whose Nats-Msg-Id it remembers.                                         *)
(***************************************************************************)
EXTENDS Naturals

CONSTANTS
    Messages,     \* events, by their id
    Invalid,      \* the events handleEvent can never process
    Consumers,    \* concurrent deliveries, of all replicas
    MaxCopies,    \* bound on the copies of an event in the topic
    MaxRetries    \* retries of one delivery

ASSUME DeliveryAssumption ==
    /\ Invalid \subseteq Messages
    /\ MaxCopies \in Nat \ {0}
    /\ MaxRetries \in Nat

VARIABLES
    topic,    \* copies <<m, i>> the broker has and nobody acknowledged
    made,     \* made[m]: copies of m the topic ever held
    seen,     \* deduplication ids the broker remembers
    work,     \* work[k]: the delivery consumer k handles
    history,  \* history[m]: records of m in auth_users_history
    dlq       \* events in the dead-letter topic

vars == <<topic, made, seen, work, history, dlq>>

Copy == Messages \X (1..MaxCopies)
Destination == {"topic", "dlq"}
Idle == [phase |-> "idle"]
Phase == {"handle", "added", "skipped", "poison", "ack"}
Work == [phase: {"idle"}] \cup [phase: Phase, copy: Copy, failures: 0..(MaxRetries + 1)]

TypeOK ==
    /\ topic \subseteq Copy
    /\ made \in [Messages -> 0..MaxCopies]
    /\ seen \subseteq (Destination \X Messages)
    /\ work \in [Consumers -> Work]
    /\ history \in [Messages -> Nat]
    /\ dlq \subseteq Messages

Init ==
    /\ topic = {} /\ seen = {} /\ dlq = {}
    /\ made = [m \in Messages |-> 0]
    /\ work = [k \in Consumers |-> Idle]
    /\ history = [m \in Messages |-> 0]

-----------------------------------------------------------------------------
(* The broker. *)

\* Mutant: the bare event id identifies a message in every destination.
deduplicationIDBare(dest, m) == <<"topic", m>>

\* The Nats-Msg-Id of a message.
deduplicationID(dest, m) == <<dest, m>>

Duplicate(dest, m) == deduplicationID(dest, m) \in seen

\* The broker accepts m; what it recognises as a duplicate it drops.
Publish(m) ==
    \/ /\ Duplicate("topic", m)
       /\ UNCHANGED <<topic, made, seen>>
    \/ /\ ~Duplicate("topic", m)
       /\ made[m] < MaxCopies
       /\ made' = [made EXCEPT ![m] = @ + 1]
       /\ topic' = topic \cup {<<m, made[m] + 1>>}
       /\ seen' = seen \cup {deduplicationID("topic", m)}

\* The deduplication window passes (for brokers without one, at once).
ForgetId(id) ==
    /\ id \in seen
    /\ seen' = seen \ {id}
    /\ UNCHANGED <<topic, made, work, history, dlq>>

\* A first or repeated delivery, also of a copy another consumer still holds.
Deliver(k, x) ==
    /\ work[k] = Idle
    /\ x \in topic
    /\ work' = [work EXCEPT ![k] = [phase |-> "handle", copy |-> x, failures |-> 0]]
    /\ UNCHANGED <<topic, made, seen, history, dlq>>

-----------------------------------------------------------------------------
(* The handler chain. *)

Event(k) == work[k].copy[1]

\* Mutant: an invalid event is retried like any other.
HandleInvalidRetries(k) ==
    /\ work[k].phase = "handle" /\ Event(k) \in Invalid
    /\ UNCHANGED vars

\* handleEvent rejects the event: a permanent error skips the retries.
HandleInvalid(k) ==
    /\ work[k].phase = "handle" /\ Event(k) \in Invalid
    /\ work' = [work EXCEPT ![k].phase = "poison"]
    /\ UNCHANGED <<topic, made, seen, history, dlq>>

\* Mutant: the subscriber looks the event up before it inserts, and nothing keeps two
\* transactions from inserting the same one.
SaveUserHistoryRecordUnkeyed(k) ==
    /\ work[k].phase = "handle" /\ Event(k) \notin Invalid
    /\ work' = [work EXCEPT ![k].phase = IF history[Event(k)] > 0 THEN "skipped" ELSE "added"]
    /\ UNCHANGED <<topic, made, seen, history, dlq>>

\* handleEvent begins a transaction and inserts a record with the event's id, ON CONFLICT (id)
\* DO NOTHING: nothing is added when a committed record has the id, and while another open
\* transaction has added one, the database lets the insert wait for its end.
SaveUserHistoryRecord(k) ==
    /\ work[k].phase = "handle" /\ Event(k) \notin Invalid
    /\ \A j \in Consumers : work[j].phase = "added" => Event(j) # Event(k)
    /\ work' = [work EXCEPT ![k].phase = IF history[Event(k)] > 0 THEN "skipped" ELSE "added"]
    /\ UNCHANGED <<topic, made, seen, history, dlq>>

\* The open transaction of k takes effect.
Committed(k) ==
    history' = IF work[k].phase = "added" THEN [history EXCEPT ![Event(k)] = @ + 1] ELSE history

\* WithTransaction commits, and handleEvent returns no error.
Commit(k) ==
    /\ work[k].phase \in {"added", "skipped"}
    /\ Committed(k)
    /\ work' = [work EXCEPT ![k].phase = "ack"]
    /\ UNCHANGED <<topic, made, seen, dlq>>

\* The database fails the transaction, or commits it and the answer is lost.
\* The retries are local to the delivery; then the event is poisoned.
HandleFails(k) ==
    /\ work[k].phase \in {"handle", "added", "skipped"} /\ Event(k) \notin Invalid
    /\ UNCHANGED history \/ Committed(k)
    /\ work' = [work EXCEPT ![k] =
                  [phase |-> IF work[k].failures < MaxRetries THEN "handle" ELSE "poison",
                   copy |-> work[k].copy, failures |-> work[k].failures + 1]]
    /\ UNCHANGED <<topic, made, seen, dlq>>

\* PoisonQueue publishes to the dead-letter topic through the same publisher.
DeadLetter(k) ==
    /\ work[k].phase = "poison"
    /\ dlq' = IF Duplicate("dlq", Event(k)) THEN dlq ELSE dlq \cup {Event(k)}
    /\ seen' = seen \cup {deduplicationID("dlq", Event(k))}
    /\ work' = [work EXCEPT ![k].phase = "ack"]
    /\ UNCHANGED <<topic, made, history>>

\* Mutant: a failed dead-letter publication is acknowledged.
DeadLetterFailsAcks(k) ==
    /\ work[k].phase = "poison"
    /\ work' = [work EXCEPT ![k].phase = "ack"]
    /\ UNCHANGED <<topic, made, seen, history, dlq>>

\* That publication fails, though the broker may have it: the delivery is
\* negatively acknowledged and the broker delivers the copy again.
DeadLetterFails(k) ==
    /\ work[k].phase = "poison"
    /\ \/ UNCHANGED <<seen, dlq>>
       \/ /\ dlq' = IF Duplicate("dlq", Event(k)) THEN dlq ELSE dlq \cup {Event(k)}
          /\ seen' = seen \cup {deduplicationID("dlq", Event(k))}
    /\ work' = [work EXCEPT ![k] = Idle]
    /\ UNCHANGED <<topic, made, history>>

Ack(k) ==
    /\ work[k].phase = "ack"
    /\ topic' = topic \ {work[k].copy}
    /\ work' = [work EXCEPT ![k] = Idle]
    /\ UNCHANGED <<made, seen, history, dlq>>

\* A crash, a shutdown or a lost acknowledgement: the copy stays, and an open transaction
\* is rolled back unless its commit was already on its way.
Abandon(k) ==
    /\ work[k] # Idle
    /\ UNCHANGED history \/ Committed(k)
    /\ work' = [work EXCEPT ![k] = Idle]
    /\ UNCHANGED <<topic, made, seen, dlq>>

-----------------------------------------------------------------------------
ConsumerNext ==
    \/ \E id \in Destination \X Messages : ForgetId(id)
    \/ \E k \in Consumers : \/ \E x \in Copy : Deliver(k, x)
                            \/ HandleInvalid(k) \/ SaveUserHistoryRecord(k)
                            \/ Commit(k) \/ HandleFails(k)
                            \/ DeadLetter(k) \/ DeadLetterFails(k)
                            \/ Ack(k) \/ Abandon(k)

\* Handled: recorded in the user history, or set aside in the dead-letter topic.
Handled(m) == history[m] > 0 \/ m \in dlq

Waiting(m) == \E x \in topic : x[1] = m

=============================================================================
