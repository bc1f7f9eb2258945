--------------------------- MODULE PipelineProofs ---------------------------
(***************************************************************************)
(* Proof, for any number of events, consumers, copies and retries, that no *)
(* event is lost between the outbox and the user history, that only        *)
(* handled copies are acknowledged, and that an event is recorded once.    *)
(***************************************************************************)
EXTENDS Pipeline, TLAPS

RelayType == stage \in [Messages -> Relay!Stage] /\ accepted \subseteq Messages

\* What the broker remembers it has, and what it accepted it put in the topic.
BrokerInv ==
    /\ \A m \in Messages : <<"topic", m>> \in seen => made[m] >= 1
    /\ \A m \in Messages : <<"dlq", m>> \in seen => m \in dlq
    /\ \A m \in accepted : made[m] >= 1

\* A delivery about to be acknowledged is of a handled event; the retries left.
WorkInv ==
    /\ \A k \in Consumers : work[k].phase = "ack" => Handled(Event(k))
    /\ \A k \in Consumers : work[k].phase \in {"handle", "added", "skipped"} => work[k].failures <= MaxRetries

\* The open transactions: a record that one of them has added is not in the history, and no
\* other one has added it; where nothing was added, a record is there.
OpenInv ==
    /\ \A k \in Consumers : work[k].phase = "added" => history[Event(k)] = 0
    /\ \A k \in Consumers : work[k].phase = "skipped" => history[Event(k)] > 0
    /\ \A j, k \in Consumers :
         work[j].phase = "added" /\ work[k].phase = "added" /\ Event(j) = Event(k) => j = k

SettledInv == \A m \in Messages : stage[m] \in {"processed", "deleted"} => m \in accepted

PipelineInv ==
    /\ TypeOK /\ RelayType
    /\ BrokerInv /\ WorkInv /\ OpenInv /\ SettledInv
    /\ AckedWasHandled /\ RecordedOnce

-----------------------------------------------------------------------------
\* The fields of a delivery in hand.
LEMMA WorkFields ==
    ASSUME TypeOK, NEW k \in Consumers, work[k].phase \in Phase
    PROVE  /\ work[k] \in [phase: Phase, copy: Copy, failures: 0..(MaxRetries + 1)]
           /\ Event(k) \in Messages
<1>1. "idle" \notin Phase BY DEF Phase
<1>2. work[k] \in [phase: Phase, copy: Copy, failures: 0..(MaxRetries + 1)]
  BY <1>1 DEF TypeOK, Work
<1> QED BY <1>2 DEF Event, Copy

\* What was handled stays handled: the history and the dead-letter topic only grow.
LEMMA HandledStays ==
    ASSUME NEW m \in Messages, Handled(m), dlq \subseteq dlq', history[m] > 0 => history'[m] > 0
    PROVE  Handled(m)'
BY DEF Handled

\* The end of an open transaction, whichever it is: it adds a record only where there is
\* none and no other transaction has added one.
LEMMA CommittedValue ==
    ASSUME PipelineInv, NEW k \in Consumers, work[k].phase \in Phase, history' = history \/ Committed(k)
    PROVE  /\ history' \in [Messages -> Nat]
           /\ \A n \in Messages : history'[n] <= 1 /\ (history[n] > 0 => history'[n] > 0)
           /\ \A j \in Consumers \ {k} : work[j].phase = "added" => history'[Event(j)] = 0
           /\ Committed(k) /\ work[k].phase \in {"added", "skipped"} => history'[Event(k)] > 0
<1>1. Event(k) \in Messages BY WorkFields DEF PipelineInv
<1>2. \A j \in Consumers : work[j].phase = "added" => Event(j) \in Messages
  BY WorkFields DEF PipelineInv, Phase
<1>3. history \in [Messages -> Nat] BY DEF PipelineInv, TypeOK
<1>4. CASE work[k].phase = "added" /\ history' = [history EXCEPT ![Event(k)] = @ + 1]
  <2>1. history[Event(k)] = 0 BY <1>4 DEF PipelineInv, OpenInv
  <2>2. history'[Event(k)] = 1 /\ \A n \in Messages : n # Event(k) => history'[n] = history[n]
    BY <1>1, <1>3, <1>4, <2>1
  <2>3. \A j \in Consumers \ {k} : work[j].phase = "added" => Event(j) # Event(k)
    BY <1>4 DEF PipelineInv, OpenInv
  <2>4. history' \in [Messages -> Nat] BY <1>1, <1>3, <1>4, <2>1
  <2> QED BY <1>1, <1>2, <2>1, <2>2, <2>3, <2>4 DEF PipelineInv, OpenInv, RecordedOnce
<1>5. CASE history' = history
  <2>1. /\ \A n \in Messages : history'[n] <= 1 /\ (history[n] > 0 => history'[n] > 0)
        /\ \A j \in Consumers \ {k} : work[j].phase = "added" => history'[Event(j)] = 0
    BY <1>5 DEF PipelineInv, OpenInv, RecordedOnce
  <2>2. work[k].phase = "skipped" => history'[Event(k)] > 0 BY <1>5 DEF PipelineInv, OpenInv
  <2>3. ~(Committed(k) /\ work[k].phase = "added")
    BY <1>1, <1>3, <1>5 DEF Committed, PipelineInv, OpenInv
  <2> QED BY <1>3, <1>5, <2>1, <2>2, <2>3
<1> QED BY <1>4, <1>5 DEF Committed

\* Steps of one consumer that leave the broker and the topic alone.
LEMMA WorkStep ==
    ASSUME PipelineInv, UNCHANGED <<topic, made, relayVars>>,
           NEW k \in Consumers, NEW w \in Work, work' = [work EXCEPT ![k] = w],
           w.phase \in {"handle", "added", "skipped"} => w.failures <= MaxRetries,
           w.phase = "ack" => Handled(w.copy[1])',
           w.phase = "added" =>
              /\ history'[w.copy[1]] = 0
              /\ \A j \in Consumers \ {k} : work[j].phase = "added" => Event(j) # w.copy[1],
           w.phase = "skipped" => history'[w.copy[1]] > 0,
           dlq \subseteq dlq', dlq' \subseteq Messages,
           history' \in [Messages -> Nat],
           \A n \in Messages : history'[n] <= 1 /\ (history[n] > 0 => history'[n] > 0),
           \A j \in Consumers \ {k} : work[j].phase = "added" => history'[Event(j)] = 0,
           seen' \subseteq (Destination \X Messages),
           \A m \in Messages : <<"topic", m>> \in seen' => <<"topic", m>> \in seen,
           \A m \in Messages : <<"dlq", m>> \in seen' => m \in dlq'
    PROVE  PipelineInv'
<1>1. TypeOK' BY DEF PipelineInv, TypeOK
<1>2. RelayType' BY DEF PipelineInv, RelayType, relayVars
<1>3. BrokerInv' BY DEF PipelineInv, BrokerInv, relayVars
<1>4. WorkInv'
  <2>1. ASSUME NEW j \in Consumers, work'[j].phase = "ack" PROVE Handled(Event(j))'
    <3>1. CASE j = k
      BY <2>1, <3>1 DEF PipelineInv, TypeOK, Event, Handled
    <3>2. CASE j # k
      <4>1. work'[j] = work[j] BY <3>2 DEF PipelineInv, TypeOK
      <4>2. Event(j) \in Messages /\ Handled(Event(j))
        BY <2>1, <4>1, WorkFields DEF PipelineInv, WorkInv, Phase
      <4>3. Handled(Event(j)) => history'[Event(j)] > 0 \/ Event(j) \in dlq' BY <4>2 DEF Handled
      <4> QED BY <4>1, <4>2, <4>3 DEF Event, Handled
    <3> QED BY <3>1, <3>2
  <2>2. ASSUME NEW j \in Consumers, work'[j].phase \in {"handle", "added", "skipped"} PROVE work'[j].failures <= MaxRetries
    BY <2>2 DEF PipelineInv, TypeOK, WorkInv
  <2> QED BY <2>1, <2>2 DEF WorkInv
<1>5. SettledInv' BY DEF PipelineInv, SettledInv, relayVars
<1>6. AckedWasHandled'
  <2> SUFFICES ASSUME NEW x \in Copy, x[2] <= made[x[1]], x \notin topic
               PROVE  Handled(x[1])'
    BY DEF AckedWasHandled
  <2>1. x[1] \in Messages /\ Handled(x[1]) BY DEF PipelineInv, AckedWasHandled, Copy
  <2> QED BY <2>1, HandledStays
<1>7. RecordedOnce' BY DEF RecordedOnce
<1>8. OpenInv'
  <2>1. work'[k] = w /\ Event(k)' = w.copy[1] BY DEF PipelineInv, TypeOK, Event
  <2>2. \A j \in Consumers \ {k} : work'[j] = work[j] /\ Event(j)' = Event(j)
    BY DEF PipelineInv, TypeOK, Event
  <2>3. \A j \in Consumers \ {k} : work[j].phase = "skipped" => history'[Event(j)] > 0
    BY WorkFields DEF PipelineInv, OpenInv, Phase
  <2>4. \A j \in Consumers : work'[j].phase = "added" => history'[Event(j)'] = 0 BY <2>1, <2>2
  <2>5. \A j \in Consumers : work'[j].phase = "skipped" => history'[Event(j)'] > 0
    BY <2>1, <2>2, <2>3
  <2>6. ASSUME NEW i \in Consumers, NEW j \in Consumers,
               work'[i].phase = "added", work'[j].phase = "added", Event(i)' = Event(j)'
        PROVE  i = j
    BY <2>1, <2>2, <2>6 DEF PipelineInv, OpenInv
  <2> QED BY <2>4, <2>5, <2>6 DEF OpenInv
<1> QED BY <1>1, <1>2, <1>3, <1>4, <1>5, <1>6, <1>7, <1>8 DEF PipelineInv

-----------------------------------------------------------------------------
\* The broker accepts an event: a new copy, or a duplicate of one it had.
LEMMA AcceptStep ==
    ASSUME PipelineInv, NEW m \in Messages, Accept(m)
    PROVE  PipelineInv'
<1> USE DEF PipelineInv
<1>1. stage' = stage /\ accepted' = accepted \cup {m} /\ UNCHANGED <<work, history, dlq>>
  BY DEF Accept, Relay!Accept
<1>2. RelayType' /\ SettledInv' BY <1>1 DEF RelayType, SettledInv
<1>3. \A n \in Messages : Handled(n)' <=> Handled(n) BY <1>1 DEF Handled
<1>4. WorkInv' /\ OpenInv'
  <2>1. \A k \in Consumers : work[k].phase = "ack" => Event(k) \in Messages BY WorkFields DEF Phase
  <2> QED BY <1>1, <1>3, <2>1 DEF WorkInv, OpenInv, Event
<1>5. RecordedOnce' BY <1>1 DEF RecordedOnce
<1>6. CASE Duplicate("topic", m) /\ UNCHANGED <<topic, made, seen>>
  <2>1. TypeOK' BY <1>1, <1>6 DEF TypeOK
  <2>2. BrokerInv' BY <1>1, <1>6 DEF BrokerInv, Duplicate, deduplicationID
  <2>3. AckedWasHandled' BY <1>3, <1>6 DEF AckedWasHandled, Copy
  <2> QED BY <1>2, <1>4, <1>5, <2>1, <2>2, <2>3
<1>7. CASE /\ made[m] < MaxCopies
           /\ made' = [made EXCEPT ![m] = @ + 1]
           /\ topic' = topic \cup {<<m, made[m] + 1>>}
           /\ seen' = seen \cup {deduplicationID("topic", m)}
  <2>1. made[m] \in Nat /\ made[m] + 1 \in 1..MaxCopies
    BY <1>7, DeliveryAssumption DEF TypeOK
  <2>2. made' \in [Messages -> 0..MaxCopies] /\ made'[m] = made[m] + 1
        /\ \A n \in Messages : n # m => made'[n] = made[n]
    BY <1>7, <2>1, DeliveryAssumption DEF TypeOK
  <2>3. TypeOK'
    <3>1. topic' \subseteq Copy BY <1>7, <2>1 DEF TypeOK, Copy
    <3>2. seen' \subseteq (Destination \X Messages) BY <1>7 DEF TypeOK, Destination, deduplicationID
    <3> QED BY <1>1, <2>2, <3>1, <3>2 DEF TypeOK
  <2>4. BrokerInv' BY <1>1, <1>7, <2>1, <2>2 DEF BrokerInv, deduplicationID, RelayType, TypeOK
  <2>5. AckedWasHandled'
    <3> SUFFICES ASSUME NEW x \in Copy, x[2] <= made'[x[1]], x \notin topic' PROVE Handled(x[1])'
      BY DEF AckedWasHandled
    <3>1. PICK n \in Messages, i \in 1..MaxCopies : x = <<n, i>> BY DEF Copy
    <3>2. i <= made[n]
      <4>1. CASE n # m BY <2>2, <3>1, <4>1
      <4>2. CASE n = m
        <5>1. i # made[m] + 1 BY <1>7, <3>1, <4>2
        <5> QED BY <2>1, <2>2, <3>1, <4>2, <5>1, DeliveryAssumption
      <4> QED BY <4>1, <4>2
    <3>3. x \notin topic BY <1>7
    <3> QED BY <1>3, <3>1, <3>2, <3>3 DEF AckedWasHandled
  <2> QED BY <1>2, <1>4, <1>5, <2>3, <2>4, <2>5
<1> QED BY <1>6, <1>7 DEF Accept, Publish

\* The outbox stores, settles and deletes: only accepted events are settled as delivered.
LEMMA RelayStep ==
    ASSUME PipelineInv, RelayOnly
    PROVE  PipelineInv'
<1> USE DEF PipelineInv
<1>1. UNCHANGED vars BY DEF RelayOnly
<1>2. accepted' = accepted /\ RelayType' /\ SettledInv'
  <2>1. CASE \E m \in Messages : Relay!Store(m)
    BY <2>1 DEF Relay!Store, RelayType, SettledInv, Relay!Stage
  <2>2. CASE \E D, F \in SUBSET Messages : Relay!Settle(D, F)
    BY <2>2 DEF Relay!Settle, Relay!In, RelayType, SettledInv, Relay!Stage
  <2>3. CASE \E D \in SUBSET Messages : Relay!Forget(D)
    BY <2>3 DEF Relay!Forget, Relay!In, RelayType, SettledInv, Relay!Stage
  <2> QED BY <2>1, <2>2, <2>3 DEF RelayOnly
<1>3. TypeOK' /\ BrokerInv' /\ WorkInv' /\ OpenInv' /\ AckedWasHandled' /\ RecordedOnce'
  BY <1>1, <1>2 DEF vars, TypeOK, BrokerInv, WorkInv, OpenInv, AckedWasHandled, RecordedOnce, Handled, Event
<1> QED BY <1>2, <1>3

\* One step of a consumer, or of the broker's memory.
LEMMA ConsumerStep ==
    ASSUME PipelineInv, ConsumerNext, UNCHANGED relayVars
    PROVE  PipelineInv'
<1> USE DEF PipelineInv
<1>0. Idle \in Work /\ Idle.phase = "idle" BY DEF Idle, Work
<1>h. \A n \in Messages : history[n] <= 1 BY DEF RecordedOnce
<1>s. \A m \in Messages : <<"dlq", m>> \in seen => m \in dlq BY DEF BrokerInv
<1>o. \A j \in Consumers : work[j].phase = "added" => history[Event(j)] = 0 BY DEF OpenInv
<1>t. history \in [Messages -> Nat] /\ dlq \subseteq Messages /\ seen \subseteq (Destination \X Messages)
  BY DEF TypeOK
<1>1. ASSUME NEW id \in Destination \X Messages, ForgetId(id) PROVE PipelineInv'
  BY <1>1 DEF ForgetId, relayVars, RelayType, SettledInv, TypeOK, BrokerInv, WorkInv, OpenInv, AckedWasHandled,
              RecordedOnce, Handled, Event
<1>2. ASSUME NEW k \in Consumers, NEW x \in Copy, Deliver(k, x) PROVE PipelineInv'
  <2>0. 0 \in 0..(MaxRetries + 1) BY DeliveryAssumption
  <2>1. PICK w \in Work : w = [phase |-> "handle", copy |-> x, failures |-> 0] BY <2>0 DEF Work, Phase
  <2>2. w.phase = "handle" /\ w.failures <= MaxRetries BY <2>1, DeliveryAssumption
  <2>3. work' = [work EXCEPT ![k] = w] BY <1>2, <2>1 DEF Deliver
  <2> QED BY <1>2, <1>h, <1>o, <1>s, <1>t, <2>2, <2>3, WorkStep DEF Deliver
<1>3. ASSUME NEW k \in Consumers, HandleInvalid(k) PROVE PipelineInv'
  <2>1. PICK w \in Work : w = [work[k] EXCEPT !.phase = "poison"] BY <1>3, WorkFields DEF HandleInvalid, Work, Phase
  <2>2. w.phase = "poison" BY <1>3, <2>1, WorkFields DEF HandleInvalid, Phase
  <2>3. work' = [work EXCEPT ![k] = w] BY <1>3, <2>1 DEF HandleInvalid
  <2> QED BY <1>3, <1>h, <1>o, <1>s, <1>t, <2>2, <2>3, WorkStep DEF HandleInvalid
<1>4. ASSUME NEW k \in Consumers, SaveUserHistoryRecord(k) PROVE PipelineInv'
  <2>1. work[k] \in [phase: Phase, copy: Copy, failures: 0..(MaxRetries + 1)] /\ Event(k) \in Messages
    BY <1>4, WorkFields DEF SaveUserHistoryRecord, Phase
  <2>2. PICK w \in Work : w = [work[k] EXCEPT !.phase = IF history[Event(k)] > 0 THEN "skipped" ELSE "added"]
    BY <2>1 DEF Work, Phase
  <2>3. /\ w.phase = (IF history[Event(k)] > 0 THEN "skipped" ELSE "added") /\ w.copy[1] = Event(k)
    BY <2>1, <2>2 DEF Event
  <2>4. work' = [work EXCEPT ![k] = w] BY <1>4, <2>2 DEF SaveUserHistoryRecord
  <2>5. w.phase = "added" => history'[w.copy[1]] = 0 BY <1>4, <1>t, <2>1, <2>3 DEF SaveUserHistoryRecord
  <2>6. w.phase = "skipped" => history'[w.copy[1]] > 0 BY <1>4, <2>3 DEF SaveUserHistoryRecord
  <2>7. \A j \in Consumers : work[j].phase = "added" => Event(j) # w.copy[1]
    BY <1>4, <2>3 DEF SaveUserHistoryRecord
  <2>8. w.phase # "ack" /\ w.failures <= MaxRetries
    BY <1>4, <2>1, <2>2, <2>3 DEF SaveUserHistoryRecord, WorkInv
  <2> QED BY <1>4, <1>h, <1>o, <1>s, <1>t, <2>4, <2>5, <2>6, <2>7, <2>8, WorkStep DEF SaveUserHistoryRecord
<1>c. ASSUME NEW k \in Consumers, Commit(k) PROVE PipelineInv'
  <2>0. work[k].phase \in Phase BY <1>c DEF Commit, Phase
  <2>1. work[k] \in [phase: Phase, copy: Copy, failures: 0..(MaxRetries + 1)] /\ Event(k) \in Messages
    BY <2>0, WorkFields
  <2>2. PICK w \in Work : w = [work[k] EXCEPT !.phase = "ack"] BY <2>1 DEF Work, Phase
  <2>3. w.phase = "ack" /\ w.copy[1] = Event(k) BY <2>1, <2>2 DEF Event
  <2>4. work' = [work EXCEPT ![k] = w] BY <1>c, <2>2 DEF Commit
  <2>5. /\ history' \in [Messages -> Nat]
        /\ \A n \in Messages : history'[n] <= 1 /\ (history[n] > 0 => history'[n] > 0)
        /\ \A j \in Consumers \ {k} : work[j].phase = "added" => history'[Event(j)] = 0
        /\ history'[Event(k)] > 0
    BY <1>c, <2>0, CommittedValue DEF Commit
  <2>6. Handled(w.copy[1])' BY <2>2, <2>3, <2>5 DEF Handled
  <2> QED BY <1>c, <1>s, <1>t, <2>3, <2>4, <2>5, <2>6, WorkStep DEF Commit
<1>5. ASSUME NEW k \in Consumers, HandleFails(k) PROVE PipelineInv'
  <2>1. work[k].phase \in Phase BY <1>5 DEF HandleFails, Phase
  <2>2. work[k].copy \in Copy /\ work[k].failures \in 0..(MaxRetries + 1) BY <2>1, WorkFields
  <2>3. work[k].failures <= MaxRetries BY <1>5 DEF HandleFails, WorkInv
  <2>4. PICK w \in Work : w = [phase |-> IF work[k].failures < MaxRetries THEN "handle" ELSE "poison",
                               copy |-> work[k].copy, failures |-> work[k].failures + 1]
    <3>1. work[k].failures + 1 \in 0..(MaxRetries + 1) BY <2>2, <2>3, DeliveryAssumption
    <3>2. (IF work[k].failures < MaxRetries THEN "handle" ELSE "poison") \in Phase BY DEF Phase
    <3> QED BY <2>2, <3>1, <3>2 DEF Work
  <2>5. w.phase \in {"handle", "poison"} /\ (w.phase = "handle" => w.failures <= MaxRetries)
    BY <2>2, <2>3, <2>4, DeliveryAssumption
  <2>6. work' = [work EXCEPT ![k] = w] BY <1>5, <2>4 DEF HandleFails
  <2>7. /\ history' \in [Messages -> Nat]
        /\ \A n \in Messages : history'[n] <= 1 /\ (history[n] > 0 => history'[n] > 0)
        /\ \A j \in Consumers \ {k} : work[j].phase = "added" => history'[Event(j)] = 0
    BY <1>5, <2>1, CommittedValue DEF HandleFails
  <2> QED BY <1>5, <1>s, <1>t, <2>5, <2>6, <2>7, WorkStep DEF HandleFails
<1>6. ASSUME NEW m \in Messages,
             dlq' = (IF Duplicate("dlq", m) THEN dlq ELSE dlq \cup {m}),
             seen' = seen \cup {deduplicationID("dlq", m)}
      PROVE  /\ dlq \subseteq dlq' /\ dlq' \subseteq Messages /\ m \in dlq'
             /\ seen' \subseteq (Destination \X Messages)
             /\ \A n \in Messages : <<"topic", n>> \in seen' => <<"topic", n>> \in seen
             /\ \A n \in Messages : <<"dlq", n>> \in seen' => n \in dlq'
  BY <1>6, <1>s, <1>t DEF Duplicate, deduplicationID, Destination
<1>7. ASSUME NEW k \in Consumers, DeadLetter(k) PROVE PipelineInv'
  <2>1. PICK m \in Messages : m = Event(k) BY <1>7, WorkFields DEF DeadLetter, Phase
  <2>2. PICK w \in Work : w = [work[k] EXCEPT !.phase = "ack"] BY <1>7, WorkFields DEF DeadLetter, Work, Phase
  <2>3. w.phase = "ack" /\ w.copy[1] = m BY <1>7, <2>1, <2>2, WorkFields DEF DeadLetter, Event, Phase
  <2>4. work' = [work EXCEPT ![k] = w] BY <1>7, <2>2 DEF DeadLetter
  <2>5. /\ dlq \subseteq dlq' /\ dlq' \subseteq Messages /\ m \in dlq'
        /\ seen' \subseteq (Destination \X Messages)
        /\ \A n \in Messages : <<"topic", n>> \in seen' => <<"topic", n>> \in seen
        /\ \A n \in Messages : <<"dlq", n>> \in seen' => n \in dlq'
    <3>1. dlq' = (IF Duplicate("dlq", m) THEN dlq ELSE dlq \cup {m}) /\ seen' = seen \cup {deduplicationID("dlq", m)}
      BY <1>7, <2>1 DEF DeadLetter
    <3> QED BY <1>6, <3>1
  <2>6. Handled(w.copy[1])' BY <2>3, <2>5 DEF Handled
  <2> QED BY <1>7, <1>h, <1>o, <1>t, <2>3, <2>4, <2>5, <2>6, WorkStep DEF DeadLetter
<1>8. ASSUME NEW k \in Consumers, DeadLetterFails(k) PROVE PipelineInv'
  <2>1. PICK m \in Messages : m = Event(k) BY <1>8, WorkFields DEF DeadLetterFails, Phase
  <2>2. /\ dlq \subseteq dlq' /\ dlq' \subseteq Messages
        /\ seen' \subseteq (Destination \X Messages)
        /\ \A n \in Messages : <<"topic", n>> \in seen' => <<"topic", n>> \in seen
        /\ \A n \in Messages : <<"dlq", n>> \in seen' => n \in dlq'
    <3>1. CASE UNCHANGED <<seen, dlq>> BY <1>s, <1>t, <3>1
    <3>2. CASE dlq' = (IF Duplicate("dlq", m) THEN dlq ELSE dlq \cup {m}) /\ seen' = seen \cup {deduplicationID("dlq", m)}
      BY <1>6, <3>2
    <3> QED BY <1>8, <2>1, <3>1, <3>2 DEF DeadLetterFails
  <2> QED BY <1>0, <1>8, <1>h, <1>o, <1>t, <2>2, WorkStep DEF DeadLetterFails
<1>9. ASSUME NEW k \in Consumers, Abandon(k) PROVE PipelineInv'
  <2>1. work[k].phase \in Phase BY <1>9 DEF Abandon, TypeOK, Work, Idle
  <2>2. /\ history' \in [Messages -> Nat]
        /\ \A n \in Messages : history'[n] <= 1 /\ (history[n] > 0 => history'[n] > 0)
        /\ \A j \in Consumers \ {k} : work[j].phase = "added" => history'[Event(j)] = 0
    BY <1>9, <2>1, CommittedValue DEF Abandon
  <2> QED BY <1>0, <1>9, <1>s, <1>t, <2>2, WorkStep DEF Abandon
<1>10. ASSUME NEW k \in Consumers, Ack(k) PROVE PipelineInv'
  <2>1. PICK x \in Copy : x = work[k].copy BY <1>10, WorkFields DEF Ack, Phase
  <2>2. Handled(x[1]) BY <1>10, <2>1 DEF Ack, WorkInv, Event
  <2>3. UNCHANGED <<made, seen, history, dlq>> /\ topic' = topic \ {x} /\ work' = [work EXCEPT ![k] = Idle]
    BY <1>10, <2>1 DEF Ack
  <2>4. TypeOK' BY <1>0, <2>3 DEF TypeOK
  <2>5. RelayType' /\ SettledInv' /\ BrokerInv' /\ RecordedOnce'
    BY <2>3 DEF relayVars, RelayType, SettledInv, BrokerInv, RecordedOnce
  <2>6. WorkInv' /\ OpenInv' BY <1>0, <2>3 DEF WorkInv, OpenInv, TypeOK, Handled, Event
  <2>7. AckedWasHandled'
    <3> SUFFICES ASSUME NEW y \in Copy, y[2] <= made[y[1]], y \notin topic' PROVE Handled(y[1])
      BY <2>3 DEF AckedWasHandled, Handled
    <3>1. CASE y = x BY <2>2, <3>1
    <3>2. CASE y # x BY <2>3, <3>2 DEF AckedWasHandled
    <3> QED BY <3>1, <3>2
  <2> QED BY <2>4, <2>5, <2>6, <2>7
<1> QED BY <1>1, <1>2, <1>3, <1>4, <1>c, <1>5, <1>7, <1>8, <1>9, <1>10 DEF ConsumerNext

-----------------------------------------------------------------------------
\* The pipeline starts in a state of the invariant and keeps it.
LEMMA PipelineInvariant == PipelineSpec => []PipelineInv
<1>1. PipelineInit => PipelineInv
  <2> SUFFICES ASSUME PipelineInit PROVE PipelineInv OBVIOUS
  <2> USE DEF PipelineInit, Init, Relay!Init
  <2>1. TypeOK BY DeliveryAssumption DEF TypeOK, Idle, Work
  <2>2. RelayType /\ SettledInv BY DEF RelayType, SettledInv, Relay!Stage
  <2>3. BrokerInv /\ WorkInv /\ OpenInv /\ RecordedOnce BY DEF BrokerInv, WorkInv, OpenInv, RecordedOnce, Idle
  <2>4. AckedWasHandled BY DEF AckedWasHandled, Copy
  <2> QED BY <2>1, <2>2, <2>3, <2>4 DEF PipelineInv
<1>2. PipelineInv /\ [PipelineNext]_allVars => PipelineInv'
  <2> SUFFICES ASSUME PipelineInv, [PipelineNext]_allVars PROVE PipelineInv' OBVIOUS
  <2>1. CASE UNCHANGED allVars
    BY <2>1 DEF allVars, PipelineInv, TypeOK, RelayType, SettledInv, BrokerInv, WorkInv, OpenInv, AckedWasHandled,
                RecordedOnce, Handled, Event
  <2> QED BY <2>1, AcceptStep, RelayStep, ConsumerStep DEF PipelineNext
<1> QED BY <1>1, <1>2, PTL DEF PipelineSpec

\* No event the outbox counts as delivered is lost: it is recorded, dead-lettered or
\* still in the topic, for any number of consumers, redeliveries and crashes.
THEOREM NothingLost == PipelineSpec => []NoEventLost
<1>1. PipelineInv => NoEventLost
  <2> SUFFICES ASSUME PipelineInv, NEW m \in Messages, stage[m] \in {"processed", "deleted"}
               PROVE  Handled(m) \/ Waiting(m)
    BY DEF NoEventLost
  <2>1. made[m] >= 1 BY DEF PipelineInv, SettledInv, BrokerInv
  <2>2. <<m, 1>> \in Copy BY DeliveryAssumption DEF Copy
  <2>3. <<m, 1>> \in topic \/ Handled(m) BY <2>1, <2>2 DEF PipelineInv, AckedWasHandled
  <2> QED BY <2>3 DEF Waiting
<1> QED BY <1>1, PipelineInvariant, PTL

\* The router acknowledges a copy only when its event is recorded or dead-lettered.
THEOREM OnlyHandledAcked == PipelineSpec => []AckedWasHandled
<1>1. PipelineInv => AckedWasHandled BY DEF PipelineInv
<1> QED BY <1>1, PipelineInvariant, PTL

\* The user history holds an event at most once, whatever is published or delivered again and
\* however the transactions of any number of consumers that insert it overlap, fail, or
\* commit unnoticed: the insert is conditional, on the records of committed and open ones.
THEOREM HistoryOnce == PipelineSpec => []RecordedOnce
<1>1. PipelineInv => RecordedOnce BY DEF PipelineInv
<1> QED BY <1>1, PipelineInvariant, PTL
=============================================================================
