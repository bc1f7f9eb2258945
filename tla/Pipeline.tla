------------------------------ MODULE Pipeline ------------------------------
(***************************************************************************)
(* Events end to end: the outbox, as the relay that Outbox implements, and *)
(* the consumers of the topic it publishes to.  The two meet in one step:  *)
(* what the relay's broker accepts, the topic holds.                       *)
(***************************************************************************)
EXTENDS Delivery

VARIABLES stage, accepted

relayVars == <<stage, accepted>>
allVars == <<stage, accepted, topic, made, seen, work, history, dlq>>

Relay == INSTANCE EventRelay

PipelineInit == Relay!Init /\ Init

\* The broker accepts a stored event, once or again.
Accept(m) == Relay!Accept(m) /\ Publish(m) /\ UNCHANGED <<work, history, dlq>>

RelayOnly ==
    /\ \/ \E m \in Messages : Relay!Store(m)
       \/ \E D, F \in SUBSET Messages : Relay!Settle(D, F)
       \/ \E D \in SUBSET Messages : Relay!Forget(D)
    /\ UNCHANGED vars

PipelineNext ==
    \/ \E m \in Messages : Accept(m)
    \/ RelayOnly
    \/ ConsumerNext /\ UNCHANGED relayVars

PipelineSpec == PipelineInit /\ [][PipelineNext]_allVars

\* What a consumer does with a delivery in hand: something, in the end; the handler's own
\* work; and what settles the event.
Moves(k) ==
    \/ HandleInvalid(k) \/ SaveUserHistoryRecord(k) \/ Commit(k) \/ HandleFails(k)
    \/ DeadLetter(k) \/ DeadLetterFails(k) \/ Ack(k) \/ Abandon(k)
Tries(k)   == HandleInvalid(k) \/ SaveUserHistoryRecord(k)
Settles(k) == Commit(k) \/ DeadLetter(k)

\* The outbox delivers (Outbox!EventuallyDelivered); a delivery never hangs, since every
\* call it makes ends; the broker delivers again what it still holds; and no event is cut
\* short before its handler runs, or fails in both database and dead-letter topic, for ever.
PipelineFairness ==
    /\ \A k \in Consumers : WF_allVars(Moves(k) /\ UNCHANGED relayVars)
    /\ \A m \in Messages :
         /\ WF_allVars(stage[m] = "pending" /\ m \notin accepted /\ Accept(m))
         /\ SF_allVars(\E k \in Consumers, i \in 1..MaxCopies : Deliver(k, <<m, i>>) /\ UNCHANGED relayVars)
         /\ SF_allVars(\E k \in Consumers : Tries(k) /\ Event(k) = m /\ UNCHANGED relayVars)
         /\ SF_allVars(\E k \in Consumers : Settles(k) /\ Event(k) = m /\ UNCHANGED relayVars)

PipelineFairSpec == PipelineSpec /\ PipelineFairness

-----------------------------------------------------------------------------
(* Properties. *)

\* No event is lost between the two halves: once the outbox counts an event as
\* delivered, and even when its row is deleted, it is recorded, dead-lettered
\* or still in the topic - through redeliveries, crashes, failed dead-letter
\* publications and the broker's deduplication.
NoEventLost ==
    \A m \in Messages :
      stage[m] \in {"processed", "deleted"} => Handled(m) \/ Waiting(m)

\* A copy is acknowledged only when its event is recorded or dead-lettered.
AckedWasHandled ==
    \A x \in Copy : x[2] <= made[x[1]] /\ x \notin topic => Handled(x[1])

\* An event is recorded once, however often it is published and delivered: also when two
\* consumers insert it at the same time, and after a commit whose answer was lost.
RecordedOnce == \A m \in Messages : history[m] <= 1

\* Every stored event is recorded, dead-lettered or refused by the outbox.
EventuallyHandled ==
    \A m \in Messages : stage[m] = "pending" ~> (Handled(m) \/ stage[m] = "failed")

=============================================================================
