---------------------------- MODULE OutboxProofs ----------------------------
(***************************************************************************)
(* Proofs about Outbox for every set of messages, every number of replicas *)
(* and cleaners and every batch size; and, in the last section, about the  *)
(* outbox joined with the topic and the consumers of Delivery.             *)
(***************************************************************************)
EXTENDS Outbox, TLAPS

\* The rows the code writes are rows.
LEMMA RowTypes ==
    /\ NoRow \in Row
    /\ NewRow \in Row
    /\ [NoRow EXCEPT !.status = "deleted"] \in Row
    /\ \A r \in Row : Retried(r) \in Row /\ PermanentlyFailed(r) \in Row
<1>1. NoRow \in Row
  BY OutboxAssumption DEF NoRow, Row, Status
<1>2. NewRow \in Row /\ [NoRow EXCEPT !.status = "deleted"] \in Row
  BY <1>1 DEF NewRow, Row, Status
<1>3. ASSUME NEW r \in Row PROVE Retried(r) \in Row /\ PermanentlyFailed(r) \in Row
  <2>1. /\ r = [status |-> r.status, retries |-> r.retries, due |-> r.due, aged |-> r.aged]
        /\ r.status \in Status /\ r.retries \in 0..RetryCap
        /\ r.due \in BOOLEAN /\ r.aged \in BOOLEAN
    BY DEF Row
  <2>2. (IF r.retries < RetryCap THEN r.retries + 1 ELSE r.retries) \in 0..RetryCap
    BY <2>1, OutboxAssumption
  <2>3. Retried(r) \in Row
    BY <2>1, <2>2 DEF Row, Retried
  <2>4. PermanentlyFailed(r) \in Row
    BY <2>3 DEF Row, Status, PermanentlyFailed
  <2> QED
    BY <2>3, <2>4
<1> QED
  BY <1>1, <1>2, <1>3

\* Every step, one case per action.
LEMMA StepCases ==
    ASSUME Next
    PROVE \/ \E m \in Messages : \/ NewOutboxMessage(m) \/ LateAccept(m) \/ LateLost(m)
                                 \/ BackoffElapses(m) \/ RetentionElapses(m)
          \/ \E p \in Publishers :
               \/ GetUnprocessedMessages(p)
               \/ \E m \in Messages :
                    \/ PublishOk(p, m) \/ PublishTransient(p, m) \/ PublishPermanent(p, m)
                    \/ PublishTimeout(p, m) \/ PublishCapacity(p, m) \/ PublishCancelled(p, m)
               \/ Commit(p) \/ Rollback(p) \/ LoseConnection(p)
          \/ \E c \in Cleaners : \/ StartCleanup(c) \/ SelectExpired(c)
                                 \/ DeleteExpired(c) \/ CleanupFails(c)
BY DEF Next, PublisherNext, CleanerNext

\* Ending a transaction leaves the worker's variables well typed.
LEMMA EndTxType ==
    ASSUME TypeOK, NEW p \in Publishers, EndTx(p)
    PROVE /\ busy' \in [Publishers -> BOOLEAN]
          /\ conn' \in [Publishers -> BOOLEAN]
          /\ batch' \in [Publishers -> SUBSET Messages]
          /\ todo' \in [Publishers -> SUBSET Messages]
          /\ msg' \in [Publishers -> [Messages -> Row]]
          /\ processed' \in [Publishers -> SUBSET Messages]
          /\ failed' \in [Publishers -> SUBSET Messages]
BY RowTypes DEF TypeOK, EndTx

\* Ending a cleanup cycle leaves the cleaner's variables well typed.
LEMMA EndCleanupType ==
    ASSUME TypeOK, NEW c \in Cleaners, EndCleanup(c)
    PROVE /\ clean' \in [Cleaners -> CleanerStep]
          /\ before' \in [Cleaners -> SUBSET Messages]
          /\ ids' \in [Cleaners -> SUBSET Messages]
          /\ left' \in [Cleaners -> 0..MaxBatches]
BY OutboxAssumption DEF TypeOK, EndCleanup, CleanerStep

\* A failed attempt leaves the worker's variables well typed.
LEMMA RecordFailureType ==
    ASSUME TypeOK, NEW p \in Publishers, NEW m \in Messages, NEW r \in Row,
           RecordFailure(p, m, r)
    PROVE /\ msg' \in [Publishers -> [Messages -> Row]]
          /\ failed' \in [Publishers -> SUBSET Messages]
<1>1. msg[p] \in [Messages -> Row]
  BY DEF TypeOK
<1>2. [msg[p] EXCEPT ![m] = r] \in [Messages -> Row]
  BY <1>1
<1> QED
  BY <1>2 DEF TypeOK, RecordFailure

\* Every reachable state of the outbox is well typed.
THEOREM TypeCorrect == Spec => []TypeOK
<1>1. Init => TypeOK
  BY RowTypes, OutboxAssumption DEF Init, TypeOK, CleanerStep
<1>2. TypeOK /\ [Next]_vars => TypeOK'
  <2> SUFFICES ASSUME TypeOK, [Next]_vars PROVE TypeOK'
    OBVIOUS
  <2> USE RowTypes, OutboxAssumption
  <2>1. CASE UNCHANGED vars
    BY <2>1 DEF TypeOK, vars
  <2>2. ASSUME NEW m \in Messages, NewOutboxMessage(m) PROVE TypeOK'
    BY <2>2 DEF TypeOK, NewOutboxMessage, brokerVars, publisherVars, cleanerVars
  <2>3. ASSUME NEW m \in Messages, LateAccept(m) \/ LateLost(m) PROVE TypeOK'
    BY <2>3 DEF TypeOK, LateAccept, LateLost, publisherVars, cleanerVars
  <2>4. ASSUME NEW m \in Messages, BackoffElapses(m) \/ RetentionElapses(m) PROVE TypeOK'
    <3>1. row[m] \in Row
      BY DEF TypeOK
    <3>2. /\ [row[m] EXCEPT !.due = TRUE] \in Row
          /\ [row[m] EXCEPT !.aged = TRUE] \in Row
      BY <3>1 DEF Row
    <3> QED
      BY <2>4, <3>2 DEF TypeOK, BackoffElapses, RetentionElapses,
                        brokerVars, publisherVars, cleanerVars
  <2>5. ASSUME NEW p \in Publishers, GetUnprocessedMessages(p) PROVE TypeOK'
    <3>1. PICK B \in SUBSET Unprocessed :
            /\ batch' = [batch EXCEPT ![p] = B]
            /\ todo' = [todo EXCEPT ![p] = B]
            /\ msg' = [msg EXCEPT ![p] = [m \in Messages |->
                                            IF m \in B THEN row[m] ELSE NoRow]]
      BY <2>5 DEF GetUnprocessedMessages
    <3>2. B \in SUBSET Messages
      BY DEF Unprocessed
    <3>3. [m \in Messages |-> IF m \in B THEN row[m] ELSE NoRow] \in [Messages -> Row]
      BY DEF TypeOK
    <3> QED
      BY <2>5, <3>1, <3>2, <3>3 DEF TypeOK, GetUnprocessedMessages, cleanerVars
  <2>6. ASSUME NEW p \in Publishers, NEW m \in Messages, PublishOk(p, m) PROVE TypeOK'
    BY <2>6 DEF TypeOK, PublishOk, cleanerVars
  <2>7. ASSUME NEW p \in Publishers, NEW m \in Messages,
               PublishTransient(p, m) \/ PublishPermanent(p, m) \/ PublishTimeout(p, m)
        PROVE TypeOK'
    <3>1. msg[p][m] \in Row
      BY DEF TypeOK
    <3>2. PICK r \in Row : RecordFailure(p, m, r)
      BY <2>7, <3>1 DEF PublishTransient, PublishPermanent, PublishTimeout
    <3>3. todo' \in [Publishers -> SUBSET Messages]
      BY <2>7 DEF TypeOK, PublishTransient, PublishPermanent, PublishTimeout
    <3>4. accepted' \subseteq Messages /\ rejected' \subseteq Messages /\ late' \subseteq Messages
      BY <2>7 DEF TypeOK, MayAccept, PublishTransient, PublishPermanent, PublishTimeout
    <3> QED
      BY <3>2, <3>3, <3>4, RecordFailureType DEF TypeOK, RecordFailure, cleanerVars
  <2>8. ASSUME NEW p \in Publishers, NEW m \in Messages, PublishCapacity(p, m) PROVE TypeOK'
    BY <2>8 DEF TypeOK, PublishCapacity, brokerVars, cleanerVars
  <2>9. ASSUME NEW p \in Publishers, NEW m \in Messages, PublishCancelled(p, m) PROVE TypeOK'
    BY <2>9, EndTxType DEF TypeOK, PublishCancelled, cleanerVars
  <2>10. ASSUME NEW p \in Publishers, Commit(p) PROVE TypeOK'
    <3>1. \A m \in Messages : Saved(p, m) \in Row
      <4> SUFFICES ASSUME NEW m \in Messages PROVE Saved(p, m) \in Row
        OBVIOUS
      <4>1. row[m] \in Row /\ msg[p][m] \in Row
        BY DEF TypeOK
      <4>2. [row[m] EXCEPT !.status = "processed", !.due = TRUE, !.aged = FALSE] \in Row
        BY <4>1 DEF Row, Status
      <4> QED
        BY <4>1, <4>2 DEF Saved
    <3>2. row' \in [Messages -> Row]
      BY <2>10, <3>1 DEF Commit
    <3> QED
      BY <2>10, <3>2, EndTxType DEF TypeOK, Commit, brokerVars, cleanerVars
  <2>11. ASSUME NEW p \in Publishers, Rollback(p) PROVE TypeOK'
    BY <2>11, EndTxType DEF TypeOK, Rollback, brokerVars, cleanerVars
  <2>12. ASSUME NEW p \in Publishers, LoseConnection(p) PROVE TypeOK'
    BY <2>12 DEF TypeOK, LoseConnection, brokerVars, cleanerVars
  <2>13. ASSUME NEW c \in Cleaners, StartCleanup(c) PROVE TypeOK'
    BY <2>13 DEF TypeOK, StartCleanup, CleanerStep, brokerVars, publisherVars
  <2>14. ASSUME NEW c \in Cleaners, SelectExpired(c) PROVE TypeOK'
    <3>1. CASE EndCleanup(c)
      BY <2>14, <3>1, EndCleanupType DEF TypeOK, SelectExpired, brokerVars, publisherVars
    <3>2. CASE ~EndCleanup(c)
      <4>1. Expired(c) \subseteq Messages
        BY DEF TypeOK, Expired
      <4>2. PICK S \in SUBSET Expired(c) : ids' = [ids EXCEPT ![c] = S]
        BY <2>14, <3>2 DEF SelectExpired
      <4> QED
        BY <2>14, <3>2, <4>1, <4>2 DEF TypeOK, SelectExpired, CleanerStep, brokerVars, publisherVars
    <3> QED
      BY <3>1, <3>2
  <2>15. ASSUME NEW c \in Cleaners, DeleteExpired(c) PROVE TypeOK'
    <3>1. row' \in [Messages -> Row]
      BY <2>15 DEF TypeOK, DeleteExpired
    <3>2. CASE EndCleanup(c)
      BY <2>15, <3>1, <3>2, EndCleanupType DEF TypeOK, DeleteExpired, brokerVars, publisherVars
    <3>3. CASE ~EndCleanup(c)
      <4>1. left[c] \in 0..MaxBatches
        BY DEF TypeOK
      <4>2. ~(left[c] <= 1) /\ left' = [left EXCEPT ![c] = @ - 1]
        BY <2>15, <3>3 DEF DeleteExpired
      <4>3. left[c] - 1 \in 0..MaxBatches
        BY <4>1, <4>2
      <4> QED
        BY <2>15, <3>1, <3>3, <4>2, <4>3 DEF TypeOK, DeleteExpired, CleanerStep, brokerVars, publisherVars
    <3> QED
      BY <3>2, <3>3
  <2>16. ASSUME NEW c \in Cleaners, CleanupFails(c) PROVE TypeOK'
    BY <2>16, EndCleanupType DEF TypeOK, CleanupFails, brokerVars, publisherVars
  <2> QED
    BY <2>1, <2>2, <2>3, <2>4, <2>5, <2>6, <2>7, <2>8, <2>9, <2>10, <2>11, <2>12,
       <2>13, <2>14, <2>15, <2>16, StepCases
<1> QED
  BY <1>1, <1>2, PTL DEF Spec

\* A step of row m alone that keeps it stored, or stores it, and changes no
\* worker disturbs no transaction.
LEMMA OneRowStep ==
    ASSUME TypeOK, OutboxInv, NEW m \in Messages, NEW r \in Row,
           row' = [row EXCEPT ![m] = r],
           UNCHANGED <<brokerVars, publisherVars>>,
           r.status # "absent",
           row[m].status # "pending" \/ ~row[m].due,
           r.status \in {"processed", "deleted"} => row[m].status = "processed",
           r.status # "failed"
    PROVE OutboxInv'
<1> USE DEF OutboxInv, brokerVars, publisherVars
<1>1. \A p \in Publishers : conn[p] => m \notin batch[p]
  BY DEF CopiesFresh
<1>2. \A n \in Messages : n # m => row'[n] = row[n]
  BY DEF TypeOK
<1>3. row'[m] = r
  BY DEF TypeOK
<1>4. RunShape'
  BY DEF RunShape
<1>5. LocksExclude'
  BY DEF LocksExclude
<1>6. CopiesFresh'
  BY <1>1, <1>2 DEF CopiesFresh, TypeOK
<1>7. PublishedWasAccepted'
  BY DEF PublishedWasAccepted
<1>8. OnlyStored'
  BY <1>2, <1>3 DEF OnlyStored, TypeOK
<1>9. ProcessedWasAccepted'
  BY <1>2, <1>3 DEF ProcessedWasAccepted
<1>10. FailedWasRejected'
  BY <1>2, <1>3 DEF FailedWasRejected
<1> QED
  BY <1>4, <1>5, <1>6, <1>7, <1>8, <1>9, <1>10

\* A step that ends the transaction of p without touching the table keeps the
\* invariant, whatever stored message reaches the broker meanwhile.
LEMMA EndTxStep ==
    ASSUME TypeOK, OutboxInv, NEW p \in Publishers, EndTx(p),
           UNCHANGED <<row, rejected>>,
           accepted \subseteq accepted',
           \A m \in accepted' \cup late' : m \in Messages /\ row[m].status # "absent"
    PROVE OutboxInv'
<1> USE DEF OutboxInv
<1>1. /\ ~busy'[p] /\ ~conn'[p] /\ batch'[p] = {} /\ todo'[p] = {}
      /\ processed'[p] = {} /\ failed'[p] = {}
  BY DEF EndTx, TypeOK
<1>2. \A q \in Publishers : q # p =>
        /\ busy'[q] = busy[q] /\ conn'[q] = conn[q] /\ batch'[q] = batch[q]
        /\ todo'[q] = todo[q] /\ processed'[q] = processed[q]
        /\ failed'[q] = failed[q] /\ msg'[q] = msg[q]
  BY DEF EndTx, TypeOK
<1>3. RunShape'
  BY <1>1, <1>2 DEF RunShape
<1>4. LocksExclude'
  BY <1>1, <1>2 DEF LocksExclude
<1>5. CopiesFresh'
  BY <1>1, <1>2 DEF CopiesFresh
<1>6. PublishedWasAccepted'
  BY <1>1, <1>2 DEF PublishedWasAccepted
<1>7. OnlyStored'
  BY <1>1, <1>2 DEF OnlyStored
<1>8. ProcessedWasAccepted' /\ FailedWasRejected'
  BY DEF ProcessedWasAccepted, FailedWasRejected
<1> QED
  BY <1>3, <1>4, <1>5, <1>6, <1>7, <1>8

\* Recording the outcome of an attempt keeps the invariant: the copy of m is
\* brought up to date with the failure, and m leaves the messages to publish.
LEMMA FailureStep ==
    ASSUME TypeOK, OutboxInv, NEW p \in Publishers, NEW m \in todo[p], NEW r \in Row,
           RecordFailure(p, m, r),
           \/ r = Retried(msg[p][m])
           \/ r = PermanentlyFailed(msg[p][m]) /\ m \in rejected',
           \/ todo' = [todo EXCEPT ![p] = @ \ {m}]
           \/ todo' = [todo EXCEPT ![p] = {}],
           accepted \subseteq accepted', accepted' \subseteq accepted \cup {m},
           rejected \subseteq rejected', rejected' \subseteq Messages,
           late' \subseteq late \cup {m}
    PROVE OutboxInv'
<1> USE DEF OutboxInv
<1>1. m \in Messages /\ m \in batch[p] /\ m \notin processed[p] /\ m \notin failed[p]
  BY DEF RunShape, TypeOK
<1>2. /\ UNCHANGED <<row, busy, conn, batch, processed>>
      /\ failed' = [failed EXCEPT ![p] = @ \cup {m}]
      /\ msg' = [msg EXCEPT ![p] = [@ EXCEPT ![m] = r]]
  BY DEF RecordFailure
<1>3. \A q \in Publishers : todo'[q] \subseteq todo[q] /\ m \notin todo'[p]
  BY DEF TypeOK
<1>4. /\ failed'[p] = failed[p] \cup {m}
      /\ \A q \in Publishers : q # p => failed'[q] = failed[q] /\ msg'[q] = msg[q]
  BY <1>2 DEF TypeOK
<1>5. msg'[p][m] = r /\ \A n \in Messages : n # m => msg'[p][n] = msg[p][n]
  BY <1>1, <1>2 DEF TypeOK
<1>6. RunShape'
  BY <1>1, <1>2, <1>3, <1>4 DEF RunShape
<1>7. LocksExclude'
  BY <1>2 DEF LocksExclude
<1>8. CopiesFresh'
  <2> SUFFICES ASSUME NEW q \in Publishers, conn[q], NEW n \in batch[q]
               PROVE  /\ row[n].status = "pending" /\ row[n].due
                      /\ n \in failed'[q] => \/ msg'[q][n] = Retried(row[n])
                                             \/ /\ msg'[q][n] = PermanentlyFailed(row[n])
                                                /\ n \in rejected'
                      /\ n \notin failed'[q] => msg'[q][n] = row[n]
    BY <1>2 DEF CopiesFresh
  <2>1. n \in Messages
    BY DEF TypeOK
  <2>2. /\ row[n].status = "pending" /\ row[n].due
        /\ n \in failed[q] => \/ msg[q][n] = Retried(row[n])
                              \/ msg[q][n] = PermanentlyFailed(row[n]) /\ n \in rejected
        /\ n \notin failed[q] => msg[q][n] = row[n]
    BY DEF CopiesFresh
  <2>3. CASE q = p /\ n = m
    BY <1>1, <1>4, <1>5, <2>2, <2>3
  <2>4. CASE ~(q = p /\ n = m)
    BY <1>4, <1>5, <2>1, <2>2, <2>4
  <2> QED
    BY <2>3, <2>4
<1>9. PublishedWasAccepted'
  BY <1>2 DEF PublishedWasAccepted
<1>10. OnlyStored'
  BY <1>1, <1>2 DEF OnlyStored
<1>11. ProcessedWasAccepted' /\ FailedWasRejected'
  BY <1>2 DEF ProcessedWasAccepted, FailedWasRejected
<1> QED
  BY <1>6, <1>7, <1>8, <1>9, <1>10, <1>11

\* Locking a batch of unlocked pending rows and reading it.
LEMMA SelectStep ==
    ASSUME TypeOK, OutboxInv, NEW p \in Publishers, GetUnprocessedMessages(p)
    PROVE OutboxInv'
<1> USE DEF OutboxInv
<1>1. PICK B \in SUBSET Unprocessed :
        /\ batch' = [batch EXCEPT ![p] = B]
        /\ todo' = [todo EXCEPT ![p] = B]
        /\ msg' = [msg EXCEPT ![p] = [m \in Messages |-> IF m \in B THEN row[m] ELSE NoRow]]
  BY DEF GetUnprocessedMessages
<1>2. /\ UNCHANGED <<row, accepted, rejected, late, processed, failed>>
      /\ busy' = [busy EXCEPT ![p] = TRUE] /\ conn' = [conn EXCEPT ![p] = TRUE]
  BY DEF GetUnprocessedMessages
<1>3. /\ ~busy[p] /\ batch[p] = {} /\ processed[p] = {} /\ failed[p] = {}
  BY DEF GetUnprocessedMessages, RunShape
<1>4. B \subseteq Messages /\ \A m \in B : row[m].status = "pending" /\ row[m].due
  BY DEF Unprocessed
<1>5. \A q \in Publishers : conn[q] => batch[q] \cap B = {}
  BY DEF Unprocessed, Locked
<1>6. /\ batch'[p] = B /\ todo'[p] = B /\ conn'[p] /\ busy'[p]
      /\ \A m \in B : msg'[p][m] = row[m]
  BY <1>1, <1>2, <1>4 DEF TypeOK
<1>7. \A q \in Publishers : q # p =>
        /\ batch'[q] = batch[q] /\ todo'[q] = todo[q] /\ msg'[q] = msg[q]
        /\ conn'[q] = conn[q] /\ busy'[q] = busy[q]
  BY <1>1, <1>2 DEF TypeOK
<1>8. RunShape'
  BY <1>2, <1>3, <1>6, <1>7 DEF RunShape
<1>9. LocksExclude'
  BY <1>5, <1>6, <1>7 DEF LocksExclude
<1>10. CopiesFresh'
  BY <1>2, <1>3, <1>4, <1>6, <1>7 DEF CopiesFresh
<1>11. PublishedWasAccepted'
  BY <1>2 DEF PublishedWasAccepted
<1>12. OnlyStored'
  BY <1>2, <1>4, <1>6, <1>7 DEF OnlyStored
<1>13. ProcessedWasAccepted' /\ FailedWasRejected'
  BY <1>2 DEF ProcessedWasAccepted, FailedWasRejected
<1> QED
  BY <1>8, <1>9, <1>10, <1>11, <1>12, <1>13

\* A successful attempt.
LEMMA PublishOkStep ==
    ASSUME TypeOK, OutboxInv, NEW p \in Publishers, NEW m \in Messages, PublishOk(p, m)
    PROVE OutboxInv'
<1> USE DEF OutboxInv
<1>1. m \in todo[p] /\ m \in batch[p] /\ m \notin failed[p]
  BY DEF PublishOk, IsNext, RunShape
<1>2. /\ accepted' = accepted \cup {m}
      /\ processed' = [processed EXCEPT ![p] = @ \cup {m}]
      /\ todo' = [todo EXCEPT ![p] = @ \ {m}]
      /\ UNCHANGED <<row, rejected, late, busy, conn, batch, msg, failed>>
  BY DEF PublishOk
<1>3. /\ processed'[p] = processed[p] \cup {m} /\ todo'[p] = todo[p] \ {m}
      /\ \A q \in Publishers : q # p => processed'[q] = processed[q] /\ todo'[q] = todo[q]
  BY <1>2 DEF TypeOK
<1>4. RunShape'
  BY <1>1, <1>2, <1>3 DEF RunShape
<1>5. LocksExclude' /\ CopiesFresh'
  BY <1>2 DEF LocksExclude, CopiesFresh
<1>6. PublishedWasAccepted'
  BY <1>2, <1>3 DEF PublishedWasAccepted
<1>7. OnlyStored'
  BY <1>1, <1>2 DEF OnlyStored
<1>8. ProcessedWasAccepted' /\ FailedWasRejected'
  BY <1>2 DEF ProcessedWasAccepted, FailedWasRejected
<1> QED
  BY <1>4, <1>5, <1>6, <1>7, <1>8

\* What a commit writes: the row of a published message becomes processed, a
\* failed attempt advances the row it was read from, no other row changes.
LEMMA CommitWrites ==
    ASSUME TypeOK, OutboxInv, NEW p \in Publishers, Commit(p), NEW m \in Messages
    PROVE \/ row'[m] = row[m]
          \/ /\ m \in batch[p] /\ row[m].status = "pending"
             /\ \/ row'[m].status = "processed" /\ m \in accepted
                \/ row'[m] = Retried(row[m])
                \/ row'[m] = PermanentlyFailed(row[m]) /\ m \in rejected
<1> USE DEF OutboxInv
<1>1. row'[m] = Saved(p, m) /\ conn[p]
  BY DEF Commit
<1>2. CASE m \in failed[p]
  <2>1. m \in batch[p]
    BY <1>2 DEF RunShape
  <2> QED
    BY <1>1, <1>2, <2>1 DEF Saved, CopiesFresh
<1>3. CASE m \in processed[p]
  <2>1. m \in batch[p] /\ m \notin failed[p] /\ m \in accepted
    BY <1>3 DEF RunShape, PublishedWasAccepted
  <2>2. row[m].status = "pending"
    BY <1>1, <2>1 DEF CopiesFresh
  <2>3. row[m] \in Row
    BY DEF TypeOK
  <2>4. row'[m].status = "processed"
    BY <1>1, <1>3, <2>1, <2>3 DEF Saved, Row
  <2> QED
    BY <2>1, <2>2, <2>4
<1>4. CASE m \notin failed[p] /\ m \notin processed[p]
  BY <1>1, <1>4 DEF Saved
<1> QED
  BY <1>2, <1>3, <1>4

\* The status of a row after a failed attempt.
LEMMA FailureStatus ==
    ASSUME NEW r \in Row
    PROVE /\ Retried(r).status = r.status
          /\ Retried(r).retries >= r.retries
          /\ PermanentlyFailed(r).status = "failed"
<1>1. Retried(r) \in Row /\ r.retries \in Nat
  BY RowTypes DEF Row
<1>2. Retried(r).status = r.status /\ Retried(r).retries >= r.retries
  BY <1>1 DEF Retried, Row
<1>3. PermanentlyFailed(r).status = "failed"
  BY <1>1 DEF PermanentlyFailed, Row
<1> QED
  BY <1>2, <1>3

\* Saving a run and committing.
LEMMA CommitStep ==
    ASSUME TypeOK, OutboxInv, NEW p \in Publishers, Commit(p)
    PROVE OutboxInv'
<1> USE DEF OutboxInv
<1>1. EndTx(p) /\ UNCHANGED brokerVars /\ conn[p]
  BY DEF Commit
<1>2. \A m \in Messages : m \notin batch[p] => row'[m] = row[m]
  BY CommitWrites
<1>3. \A m \in Messages :
        \/ row'[m] = row[m]
        \/ row[m].status = "pending" /\ row'[m].status = "pending"
        \/ row[m].status = "pending" /\ row'[m].status = "processed" /\ m \in accepted
        \/ row[m].status = "pending" /\ row'[m].status = "failed" /\ m \in rejected
  BY CommitWrites, FailureStatus DEF TypeOK
<1>4. /\ ~busy'[p] /\ ~conn'[p] /\ batch'[p] = {} /\ todo'[p] = {}
      /\ processed'[p] = {} /\ failed'[p] = {}
  BY <1>1 DEF EndTx, TypeOK
<1>5. \A q \in Publishers : q # p =>
        /\ busy'[q] = busy[q] /\ conn'[q] = conn[q] /\ batch'[q] = batch[q]
        /\ todo'[q] = todo[q] /\ processed'[q] = processed[q]
        /\ failed'[q] = failed[q] /\ msg'[q] = msg[q]
  BY <1>1 DEF EndTx, TypeOK
<1>6. RunShape'
  BY <1>4, <1>5 DEF RunShape
<1>7. LocksExclude'
  BY <1>4, <1>5 DEF LocksExclude
<1>8. CopiesFresh'
  <2>1. \A q \in Publishers : q # p /\ conn[q] => \A m \in batch[q] : row'[m] = row[m]
    BY <1>1, <1>2 DEF LocksExclude, TypeOK
  <2> QED
    BY <1>1, <1>4, <1>5, <2>1 DEF CopiesFresh, brokerVars
<1>9. PublishedWasAccepted'
  BY <1>1, <1>4, <1>5 DEF PublishedWasAccepted, brokerVars
<1>10. OnlyStored'
  <2>1. \A m \in Messages : row[m].status # "absent" => row'[m].status # "absent"
    BY <1>3
  <2>2. \A q \in Publishers : batch'[q] \subseteq batch[q] /\ batch[q] \subseteq Messages
    BY <1>4, <1>5 DEF TypeOK
  <2> QED
    BY <1>1, <2>1, <2>2 DEF OnlyStored, brokerVars, TypeOK
<1>11. ProcessedWasAccepted' /\ FailedWasRejected'
  BY <1>1, <1>3 DEF ProcessedWasAccepted, FailedWasRejected, brokerVars
<1> QED
  BY <1>6, <1>7, <1>8, <1>9, <1>10, <1>11

\* Deleting processed rows.
LEMMA DeleteStep ==
    ASSUME TypeOK, OutboxInv, NEW c \in Cleaners, DeleteExpired(c)
    PROVE OutboxInv'
<1> USE DEF OutboxInv
<1>1. \A m \in Messages : \/ row'[m] = row[m]
                          \/ row[m].status = "processed" /\ row'[m].status = "deleted"
  BY DEF DeleteExpired, Expired, NoRow
<1>2. UNCHANGED <<accepted, rejected, late, busy, conn, batch, todo, msg, processed, failed>>
  BY DEF DeleteExpired, brokerVars, publisherVars
<1>3. RunShape' /\ LocksExclude' /\ PublishedWasAccepted'
  BY <1>2 DEF RunShape, LocksExclude, PublishedWasAccepted
<1>4. CopiesFresh'
  <2>1. \A p \in Publishers : conn[p] => \A m \in batch[p] : row'[m] = row[m]
    BY <1>1 DEF CopiesFresh, TypeOK
  <2> QED
    BY <1>2, <2>1 DEF CopiesFresh
<1>5. OnlyStored'
  BY <1>1, <1>2 DEF OnlyStored, TypeOK
<1>6. ProcessedWasAccepted' /\ FailedWasRejected'
  BY <1>1, <1>2 DEF ProcessedWasAccepted, FailedWasRejected
<1> QED
  BY <1>3, <1>4, <1>5, <1>6

\* Every step keeps the invariant.
LEMMA InvStep == TypeOK /\ OutboxInv /\ [Next]_vars => OutboxInv'
<1> SUFFICES ASSUME TypeOK, OutboxInv, [Next]_vars PROVE OutboxInv'
  OBVIOUS
<1> USE DEF OutboxInv
<1>1. ASSUME UNCHANGED <<row, brokerVars, publisherVars>> PROVE OutboxInv'
  <2>1. RunShape' /\ LocksExclude' /\ CopiesFresh' /\ PublishedWasAccepted'
    BY <1>1 DEF RunShape, LocksExclude, CopiesFresh, PublishedWasAccepted,
                brokerVars, publisherVars
  <2>2. OnlyStored' /\ ProcessedWasAccepted' /\ FailedWasRejected'
    BY <1>1 DEF OnlyStored, ProcessedWasAccepted, FailedWasRejected,
                brokerVars, publisherVars
  <2> QED
    BY <2>1, <2>2
<1>2. CASE UNCHANGED vars
  BY <1>1, <1>2 DEF vars, brokerVars, publisherVars
<1>3. ASSUME NEW m \in Messages, NewOutboxMessage(m) PROVE OutboxInv'
  <2>1. NewRow \in Row /\ NewRow.status = "pending"
    BY RowTypes DEF NewRow, NoRow
  <2> QED
    BY <1>3, <2>1, OneRowStep DEF NewOutboxMessage
<1>4. ASSUME NEW m \in Messages, LateAccept(m) \/ LateLost(m) PROVE OutboxInv'
  <2>1. /\ UNCHANGED <<row, rejected, publisherVars>>
        /\ accepted \subseteq accepted' /\ accepted' \subseteq accepted \cup late
        /\ late' \subseteq late
    BY <1>4 DEF LateAccept, LateLost
  <2>2. RunShape' /\ LocksExclude' /\ CopiesFresh' /\ PublishedWasAccepted'
    BY <2>1 DEF RunShape, LocksExclude, CopiesFresh, PublishedWasAccepted, publisherVars
  <2>3. OnlyStored' /\ ProcessedWasAccepted' /\ FailedWasRejected'
    BY <2>1 DEF OnlyStored, ProcessedWasAccepted, FailedWasRejected, publisherVars
  <2> QED
    BY <2>2, <2>3
<1>5. ASSUME NEW m \in Messages, BackoffElapses(m) \/ RetentionElapses(m) PROVE OutboxInv'
  <2>1. row[m] \in Row
    BY DEF TypeOK
  <2>2. CASE BackoffElapses(m)
    <3>1. /\ [row[m] EXCEPT !.due = TRUE] \in Row
          /\ [row[m] EXCEPT !.due = TRUE].status = row[m].status
      BY <2>1 DEF Row
    <3> QED
      BY <2>2, <3>1, OneRowStep DEF BackoffElapses
  <2>3. CASE RetentionElapses(m)
    <3>1. /\ [row[m] EXCEPT !.aged = TRUE] \in Row
          /\ [row[m] EXCEPT !.aged = TRUE].status = row[m].status
      BY <2>1 DEF Row
    <3> QED
      BY <2>3, <3>1, OneRowStep DEF RetentionElapses
  <2> QED
    BY <1>5, <2>2, <2>3
<1>6. ASSUME NEW p \in Publishers, NEW m \in Messages,
             PublishTransient(p, m) \/ PublishPermanent(p, m) \/ PublishTimeout(p, m)
      PROVE OutboxInv'
  <2>1. m \in todo[p] /\ msg[p][m] \in Row
    BY <1>6 DEF TypeOK, PublishTransient, PublishPermanent, PublishTimeout, MayAccept, IsNext
  <2>2. CASE PublishTransient(p, m)
    BY <2>1, <2>2, RowTypes, FailureStep DEF MayAccept, PublishTransient, TypeOK
  <2>3. CASE PublishPermanent(p, m)
    BY <2>1, <2>3, RowTypes, FailureStep DEF PublishPermanent, TypeOK
  <2>4. CASE PublishTimeout(p, m)
    BY <2>1, <2>4, RowTypes, FailureStep DEF PublishTimeout, MayAccept, TypeOK
  <2> QED
    BY <1>6, <2>2, <2>3, <2>4
<1>7. ASSUME NEW p \in Publishers, NEW m \in Messages, PublishCapacity(p, m) PROVE OutboxInv'
  <2>1. /\ UNCHANGED <<row, brokerVars, busy, conn, batch, msg, processed, failed>>
        /\ \A q \in Publishers : todo'[q] \subseteq todo[q]
    BY <1>7 DEF PublishCapacity, TypeOK
  <2>2. RunShape'
    BY <2>1 DEF RunShape
  <2>3. LocksExclude' /\ CopiesFresh' /\ PublishedWasAccepted'
    BY <2>1 DEF LocksExclude, CopiesFresh, PublishedWasAccepted, brokerVars
  <2>4. OnlyStored' /\ ProcessedWasAccepted' /\ FailedWasRejected'
    BY <2>1 DEF OnlyStored, ProcessedWasAccepted, FailedWasRejected, brokerVars
  <2> QED
    BY <2>2, <2>3, <2>4
<1>8. ASSUME NEW p \in Publishers, NEW m \in Messages, PublishCancelled(p, m) PROVE OutboxInv'
  <2>1. m \in batch[p]
    BY <1>8 DEF PublishCancelled, IsNext, RunShape
  <2> QED
    BY <1>8, <2>1, EndTxStep DEF PublishCancelled, OnlyStored, TypeOK
<1>9. ASSUME NEW p \in Publishers, Rollback(p) PROVE OutboxInv'
  BY <1>9, EndTxStep DEF Rollback, OnlyStored, TypeOK, brokerVars
<1>10. ASSUME NEW p \in Publishers, LoseConnection(p) PROVE OutboxInv'
  <2>1. /\ UNCHANGED <<row, brokerVars, busy, batch, todo, msg, processed, failed>>
        /\ \A q \in Publishers : conn'[q] => conn[q]
    BY <1>10 DEF LoseConnection, TypeOK
  <2>2. RunShape' /\ LocksExclude' /\ CopiesFresh' /\ PublishedWasAccepted'
    BY <2>1 DEF RunShape, LocksExclude, CopiesFresh, PublishedWasAccepted, brokerVars
  <2>3. OnlyStored' /\ ProcessedWasAccepted' /\ FailedWasRejected'
    BY <2>1 DEF OnlyStored, ProcessedWasAccepted, FailedWasRejected, brokerVars
  <2> QED
    BY <2>2, <2>3
<1>11. ASSUME NEW c \in Cleaners, StartCleanup(c) \/ SelectExpired(c) \/ CleanupFails(c)
       PROVE OutboxInv'
  BY <1>1, <1>11 DEF StartCleanup, SelectExpired, CleanupFails
<1> QED
  BY <1>2, <1>3, <1>4, <1>5, <1>6, <1>7, <1>8, <1>9, <1>10, <1>11, StepCases,
     SelectStep, PublishOkStep, CommitStep, DeleteStep

\* The invariant holds in every reachable state: a run settles only rows that
\* are still as it read them and only with the broker's answer in hand.
THEOREM OutboxSafe == Spec => []OutboxInv
<1>1. Init => OutboxInv
  BY DEF Init, OutboxInv, RunShape, LocksExclude, CopiesFresh, PublishedWasAccepted,
         OnlyStored, ProcessedWasAccepted, FailedWasRejected, NoRow
<1> QED
  BY <1>1, InvStep, TypeCorrect, PTL DEF Spec

\* No event is lost: what is marked processed or deleted was accepted.
THEOREM NoEventLost == Spec => []ProcessedWasAccepted
BY OutboxSafe, PTL DEF OutboxInv

\* Only an invalid message is given up.
THEOREM OnlyInvalidGivenUp == Spec => []FailedWasRejected
BY OutboxSafe, PTL DEF OutboxInv

-----------------------------------------------------------------------------
(* Action properties and refinement. *)

\* What a step can do to one row.
RowChange(m) ==
    \/ row'[m] = row[m]
    \/ row[m].status = "absent" /\ row'[m].status = "pending"
    \/ row[m].status = "pending" /\ row'[m].status = "processed" /\ m \in accepted
    \/ row[m].status = "pending" /\ row'[m].status = "failed"
    \/ row[m].status = "processed" /\ row[m].aged /\ row'[m].status = "deleted"
    \/ /\ row[m].status \in {"pending", "processed"}
       /\ row'[m].status = row[m].status
       /\ row'[m].retries >= row[m].retries

\* Every step of the outbox moves every row along its life cycle.
LEMMA RowSteps ==
    ASSUME TypeOK, OutboxInv, [Next]_vars, NEW m \in Messages
    PROVE RowChange(m)
<1> row[m] \in Row
  BY DEF TypeOK
<1>1. CASE UNCHANGED row
  BY <1>1 DEF RowChange
<1>2. ASSUME NEW n \in Messages, NewOutboxMessage(n) PROVE RowChange(m)
  <2>1. NewRow.status = "pending"
    BY DEF NewRow, NoRow
  <2> QED
    BY <1>2, <2>1 DEF NewOutboxMessage, RowChange, TypeOK
<1>3. ASSUME NEW n \in Messages, BackoffElapses(n) \/ RetentionElapses(n) PROVE RowChange(m)
  <2>1. row[n] \in Row /\ row[n].retries \in Nat
    BY DEF TypeOK, Row
  <2>2. /\ [row[n] EXCEPT !.due = TRUE].status = row[n].status
        /\ [row[n] EXCEPT !.due = TRUE].retries = row[n].retries
        /\ [row[n] EXCEPT !.aged = TRUE].status = row[n].status
        /\ [row[n] EXCEPT !.aged = TRUE].retries = row[n].retries
    BY <2>1 DEF Row
  <2>3. /\ row[n].status \in {"pending", "processed"}
        /\ row'[n].status = row[n].status /\ row'[n].retries = row[n].retries
    BY <1>3, <2>2 DEF BackoffElapses, RetentionElapses, TypeOK
  <2>4. m # n => row'[m] = row[m]
    BY <1>3 DEF BackoffElapses, RetentionElapses, TypeOK
  <2>5. row[n].retries >= row[n].retries
    BY <2>1
  <2> QED
    BY <2>3, <2>4, <2>5 DEF RowChange
<1>4. ASSUME NEW p \in Publishers, Commit(p) PROVE RowChange(m)
  BY <1>4, CommitWrites, FailureStatus DEF RowChange
<1>5. ASSUME NEW c \in Cleaners, DeleteExpired(c) PROVE RowChange(m)
  BY <1>5 DEF DeleteExpired, Expired, NoRow, RowChange
<1>6. ASSUME NEW n \in Messages, LateAccept(n) \/ LateLost(n) PROVE UNCHANGED row
  BY <1>6 DEF LateAccept, LateLost
<1>7. ASSUME NEW p \in Publishers, NEW n \in Messages,
             \/ PublishOk(p, n) \/ PublishTransient(p, n) \/ PublishPermanent(p, n)
             \/ PublishTimeout(p, n) \/ PublishCapacity(p, n) \/ PublishCancelled(p, n)
      PROVE UNCHANGED row
  BY <1>7 DEF PublishOk, PublishTransient, PublishPermanent, PublishTimeout, MayAccept,
              PublishCapacity, PublishCancelled, RecordFailure
<1>8. ASSUME NEW p \in Publishers,
             GetUnprocessedMessages(p) \/ Rollback(p) \/ LoseConnection(p)
      PROVE UNCHANGED row
  BY <1>8 DEF GetUnprocessedMessages, Rollback, LoseConnection
<1>9. ASSUME NEW c \in Cleaners, StartCleanup(c) \/ SelectExpired(c) \/ CleanupFails(c)
      PROVE UNCHANGED row
  BY <1>9 DEF StartCleanup, SelectExpired, CleanupFails
<1>10. CASE UNCHANGED vars
  BY <1>1, <1>10 DEF vars
<1> QED
  BY <1>1, <1>2, <1>3, <1>4, <1>5, <1>6, <1>7, <1>8, <1>9, <1>10, StepCases

\* Rows only advance: no stale whole-row write ever revives a settled message.
THEOREM RowsAdvance == Spec => RowsOnlyAdvance
<1>1. TypeOK /\ OutboxInv /\ [Next]_vars =>
        [\A m \in Messages :
           \/ row'[m] = row[m]
           \/ Rank(row'[m].status) > Rank(row[m].status)
           \/ /\ row'[m].status = row[m].status
              /\ row[m].status \in {"pending", "processed"}
              /\ row'[m].retries >= row[m].retries]_vars
  <2> SUFFICES ASSUME TypeOK, OutboxInv, [Next]_vars, NEW m \in Messages
               PROVE  \/ row'[m] = row[m]
                      \/ Rank(row'[m].status) > Rank(row[m].status)
                      \/ /\ row'[m].status = row[m].status
                         /\ row[m].status \in {"pending", "processed"}
                         /\ row'[m].retries >= row[m].retries
    OBVIOUS
  <2> QED
    BY RowSteps DEF RowChange, Rank
<1> QED
  BY <1>1, TypeCorrect, OutboxSafe, PTL DEF Spec, RowsOnlyAdvance

\* The cleaner deletes nothing but processed rows past their retention.
THEOREM CleanerIsSafe == Spec => DeletedAfterRetention
<1>1. TypeOK /\ OutboxInv /\ [Next]_vars =>
        [\A m \in Messages :
           row[m].status # "deleted" /\ row'[m].status = "deleted"
             => row[m].status = "processed" /\ row[m].aged]_vars
  BY RowSteps DEF RowChange
<1> QED
  BY <1>1, TypeCorrect, OutboxSafe, PTL DEF Spec, DeletedAfterRetention

\* The table as the relay sees it.
Stages == [m \in Messages |-> row[m].status]

\* What a step can do to the broker's set: nothing, or accept one stored
\* message, in a step that leaves the table alone.
LEMMA BrokerSteps ==
    ASSUME TypeOK, OutboxInv, [Next]_vars
    PROVE \/ UNCHANGED accepted
          \/ /\ UNCHANGED row
             /\ \E m \in Messages : /\ row[m].status # "absent"
                                    /\ accepted' = accepted \cup {m}
<1> DEFINE Goal == \/ UNCHANGED accepted
                   \/ /\ UNCHANGED row
                      /\ \E m \in Messages : /\ row[m].status # "absent"
                                             /\ accepted' = accepted \cup {m}
<1>1. ASSUME NEW p \in Publishers, NEW m \in Messages,
             \/ PublishOk(p, m) \/ PublishTransient(p, m) \/ PublishPermanent(p, m)
             \/ PublishTimeout(p, m) \/ PublishCapacity(p, m) \/ PublishCancelled(p, m)
      PROVE Goal
  <2>1. row[m].status # "absent"
    BY <1>1 DEF PublishOk, PublishTransient, PublishPermanent, PublishTimeout, MayAccept,
                PublishCapacity, PublishCancelled, IsNext, OutboxInv, RunShape, OnlyStored
  <2>2. accepted' = accepted \/ accepted' = accepted \cup {m}
    BY <1>1 DEF PublishOk, PublishTransient, PublishPermanent, PublishTimeout, MayAccept,
                PublishCapacity, PublishCancelled, brokerVars
  <2>3. UNCHANGED row
    BY <1>1 DEF PublishOk, PublishTransient, PublishPermanent, PublishTimeout, MayAccept,
                PublishCapacity, PublishCancelled, RecordFailure
  <2> QED
    BY <2>1, <2>2, <2>3
<1>2. ASSUME NEW m \in Messages, LateAccept(m) \/ LateLost(m) PROVE Goal
  BY <1>2 DEF LateAccept, LateLost, OutboxInv, OnlyStored
<1>3. ASSUME NEW m \in Messages,
             NewOutboxMessage(m) \/ BackoffElapses(m) \/ RetentionElapses(m)
      PROVE Goal
  BY <1>3 DEF NewOutboxMessage, BackoffElapses, RetentionElapses, brokerVars
<1>4. ASSUME NEW p \in Publishers,
             \/ GetUnprocessedMessages(p) \/ Commit(p) \/ Rollback(p) \/ LoseConnection(p)
      PROVE Goal
  BY <1>4 DEF GetUnprocessedMessages, Commit, Rollback, LoseConnection, brokerVars
<1>5. ASSUME NEW c \in Cleaners,
             StartCleanup(c) \/ SelectExpired(c) \/ DeleteExpired(c) \/ CleanupFails(c)
      PROVE Goal
  BY <1>5 DEF StartCleanup, SelectExpired, DeleteExpired, CleanupFails, brokerVars
<1>6. CASE UNCHANGED vars
  BY <1>6 DEF vars
<1> QED
  BY <1>1, <1>2, <1>3, <1>4, <1>5, <1>6, StepCases

\* Storing is a step of its own; no other step takes a row out of "absent", and
\* a step that deletes settles nothing.
LEMMA StepKinds ==
    ASSUME TypeOK, OutboxInv, [Next]_vars
    PROVE \/ \E m \in Messages : /\ row[m].status = "absent"
                                 /\ row'[m].status = "pending"
                                 /\ \A n \in Messages : n # m => row'[n] = row[n]
          \/ \A m \in Messages : \/ row'[m].status = row[m].status
                                 \/ /\ row[m].status = "pending"
                                    /\ \/ row'[m].status = "processed" /\ m \in accepted
                                       \/ row'[m].status = "failed"
          \/ \A m \in Messages : \/ row'[m].status = row[m].status
                                 \/ /\ row[m].status = "processed"
                                    /\ row'[m].status = "deleted"
<1> DEFINE Settled == \A m \in Messages :
                        \/ row'[m].status = row[m].status
                        \/ /\ row[m].status = "pending"
                           /\ \/ row'[m].status = "processed" /\ m \in accepted
                              \/ row'[m].status = "failed"
<1>1. ASSUME UNCHANGED row PROVE Settled
  BY <1>1
<1>2. ASSUME NEW m \in Messages, NewOutboxMessage(m)
      PROVE /\ row[m].status = "absent"
            /\ row'[m].status = "pending"
            /\ \A n \in Messages : n # m => row'[n] = row[n]
  BY <1>2 DEF NewOutboxMessage, NewRow, NoRow, TypeOK
<1>3. ASSUME NEW m \in Messages, BackoffElapses(m) \/ RetentionElapses(m) PROVE Settled
  <2>1. row[m] \in Row
    BY DEF TypeOK
  <2>2. /\ [row[m] EXCEPT !.due = TRUE].status = row[m].status
        /\ [row[m] EXCEPT !.aged = TRUE].status = row[m].status
    BY <2>1 DEF Row
  <2> QED
    BY <1>3, <2>2 DEF BackoffElapses, RetentionElapses, TypeOK
<1>4. ASSUME NEW p \in Publishers, Commit(p) PROVE Settled
  BY <1>4, CommitWrites, FailureStatus DEF TypeOK
<1>5. ASSUME NEW c \in Cleaners, DeleteExpired(c)
      PROVE \A m \in Messages : \/ row'[m].status = row[m].status
                                \/ row[m].status = "processed" /\ row'[m].status = "deleted"
  BY <1>5 DEF DeleteExpired, Expired, NoRow
<1>6. ASSUME NEW p \in Publishers, NEW n \in Messages,
             \/ PublishOk(p, n) \/ PublishTransient(p, n) \/ PublishPermanent(p, n)
             \/ PublishTimeout(p, n) \/ PublishCapacity(p, n) \/ PublishCancelled(p, n)
      PROVE UNCHANGED row
  BY <1>6 DEF PublishOk, PublishTransient, PublishPermanent, PublishTimeout, MayAccept,
              PublishCapacity, PublishCancelled, RecordFailure
<1>7. ASSUME NEW p \in Publishers,
             GetUnprocessedMessages(p) \/ Rollback(p) \/ LoseConnection(p)
      PROVE UNCHANGED row
  BY <1>7 DEF GetUnprocessedMessages, Rollback, LoseConnection
<1>8. ASSUME NEW c \in Cleaners, StartCleanup(c) \/ SelectExpired(c) \/ CleanupFails(c)
      PROVE UNCHANGED row
  BY <1>8 DEF StartCleanup, SelectExpired, CleanupFails
<1>9. ASSUME NEW n \in Messages, LateAccept(n) \/ LateLost(n) PROVE UNCHANGED row
  BY <1>9 DEF LateAccept, LateLost
<1>10. CASE UNCHANGED vars
  BY <1>1, <1>10 DEF vars
<1> QED
  BY <1>1, <1>2, <1>3, <1>4, <1>5, <1>6, <1>7, <1>8, <1>9, <1>10, StepCases

\* A step in which the broker accepts nothing stores one event, settles a batch, forgets a
\* batch, or changes nothing a producer can see.
LEMMA TableSteps ==
    ASSUME TypeOK, OutboxInv, [Next]_vars
    PROVE  \/ \E m \in Messages : /\ row[m].status = "absent"
                                  /\ Stages' = [Stages EXCEPT ![m] = "pending"]
           \/ \E D, F \in SUBSET Messages :
                 /\ \A m \in D : row[m].status = "pending" /\ m \in accepted
                 /\ \A m \in F : row[m].status = "pending"
                 /\ Stages' = [m \in Messages |-> IF m \in F THEN "failed"
                                                  ELSE IF m \in D THEN "processed" ELSE Stages[m]]
           \/ \E D \in SUBSET Messages :
                 /\ \A m \in D : row[m].status = "processed"
                 /\ Stages' = [m \in Messages |-> IF m \in D THEN "deleted" ELSE Stages[m]]
<1>1. CASE \E m \in Messages : /\ row[m].status = "absent"
                               /\ row'[m].status = "pending"
                               /\ \A n \in Messages : n # m => row'[n] = row[n]
  <2>1. PICK m \in Messages : /\ row[m].status = "absent"
                              /\ row'[m].status = "pending"
                              /\ \A n \in Messages : n # m => row'[n] = row[n]
    BY <1>1
  <2>2. Stages' = [Stages EXCEPT ![m] = "pending"]
    BY <2>1 DEF Stages
  <2> QED
    BY <2>1, <2>2
<1>2. CASE \A m \in Messages : \/ row'[m].status = row[m].status
                               \/ /\ row[m].status = "pending"
                                  /\ \/ row'[m].status = "processed" /\ m \in accepted
                                     \/ row'[m].status = "failed"
  <2>1. PICK D, F \in SUBSET Messages :
          /\ D = {m \in Messages : row[m].status = "pending" /\ row'[m].status = "processed"}
          /\ F = {m \in Messages : row[m].status = "pending" /\ row'[m].status = "failed"}
    OBVIOUS
  <2>2. Stages' = [m \in Messages |-> IF m \in F THEN "failed"
                                      ELSE IF m \in D THEN "processed" ELSE Stages[m]]
    BY <1>2, <2>1 DEF Stages
  <2>3. /\ \A m \in D : row[m].status = "pending" /\ m \in accepted
        /\ \A m \in F : row[m].status = "pending"
    BY <1>2, <2>1
  <2> QED
    BY <2>2, <2>3
<1>3. CASE \A m \in Messages : \/ row'[m].status = row[m].status
                               \/ /\ row[m].status = "processed"
                                  /\ row'[m].status = "deleted"
  <2>1. PICK D \in SUBSET Messages :
          D = {m \in Messages : row[m].status = "processed" /\ row'[m].status = "deleted"}
    OBVIOUS
  <2>2. Stages' = [m \in Messages |-> IF m \in D THEN "deleted" ELSE Stages[m]]
    BY <1>3, <2>1 DEF Stages
  <2>3. \A m \in D : row[m].status = "processed"
    BY <2>1
  <2> QED
    BY <2>2, <2>3
<1> QED
  BY <1>1, <1>2, <1>3, StepKinds

\* The outbox implements the at-least-once relay: every step stores one event,
\* lets the broker accept one, settles a batch, forgets a batch or changes
\* nothing a producer can see.
THEOREM OutboxImplementsRelay == Spec => ImplementsRelay
<1>1. Init => Relay!Init
  BY DEF Init, Relay!Init, NoRow
<1>2. TypeOK /\ OutboxInv /\ [Next]_vars => [Relay!Next]_<<Stages, accepted>>
  <2> SUFFICES ASSUME TypeOK, OutboxInv, [Next]_vars
               PROVE  [Relay!Next]_<<Stages, accepted>>
    OBVIOUS
  <2>1. CASE ~UNCHANGED accepted
    <3>1. PICK m \in Messages : /\ UNCHANGED row /\ row[m].status # "absent"
                                /\ accepted' = accepted \cup {m}
      BY <2>1, BrokerSteps
    <3>2. Relay!Accept(m)
      BY <3>1 DEF Relay!Accept
    <3> QED
      BY <3>2 DEF Relay!Next
  <2>2. ASSUME UNCHANGED accepted, NEW m \in Messages, row[m].status = "absent",
               Stages' = [Stages EXCEPT ![m] = "pending"]
        PROVE  Relay!Next
    <3>1. Relay!Store(m)
      BY <2>2 DEF Relay!Store, Stages
    <3> QED
      BY <3>1 DEF Relay!Next
  <2>3. ASSUME UNCHANGED accepted, NEW D \in SUBSET Messages, NEW F \in SUBSET Messages,
               \A m \in D : row[m].status = "pending" /\ m \in accepted,
               \A m \in F : row[m].status = "pending",
               Stages' = [m \in Messages |-> IF m \in F THEN "failed"
                                             ELSE IF m \in D THEN "processed" ELSE Stages[m]]
        PROVE  Relay!Next
    <3>1. Relay!Settle(D, F)
      BY <2>3 DEF Relay!Settle, Relay!In, Stages
    <3> QED
      BY <3>1 DEF Relay!Next
  <2>4. ASSUME UNCHANGED accepted, NEW D \in SUBSET Messages, \A m \in D : row[m].status = "processed",
               Stages' = [m \in Messages |-> IF m \in D THEN "deleted" ELSE Stages[m]]
        PROVE  Relay!Next
    <3>1. Relay!Forget(D)
      BY <2>4 DEF Relay!Forget, Relay!In, Stages
    <3> QED
      BY <3>1 DEF Relay!Next
  <2> QED
    BY <2>1, <2>2, <2>3, <2>4, TableSteps
<1> QED
  BY <1>1, <1>2, TypeCorrect, OutboxSafe, PTL DEF Spec, ImplementsRelay, Relay!Spec, Stages


-----------------------------------------------------------------------------
(* The outbox joined with the consumers of the topic it publishes to. *)

CONSTANTS Invalid, Consumers, MaxCopies, MaxRetries
VARIABLES topic, made, seen, work, history, dlq

P == INSTANCE PipelineProofs WITH stage <- [m \in Messages |-> row[m].status]

\* The steps in which the broker may take m.
HandsOver(m) ==
    \/ LateAccept(m)
    \/ \E p \in Publishers : \/ PublishOk(p, m) \/ PublishTransient(p, m)
                             \/ PublishTimeout(p, m) \/ PublishCancelled(p, m)

\* What the broker takes, the topic holds; the outbox and the consumers share nothing else.
ServiceNext ==
    \/ \E m \in Messages : /\ HandsOver(m) /\ m \in accepted'
                           /\ P!Publish(m) /\ UNCHANGED <<work, history, dlq>>
    \/ Next /\ UNCHANGED accepted /\ UNCHANGED P!vars
    \/ P!ConsumerNext /\ UNCHANGED vars

ServiceSpec == Init /\ P!Init /\ [][ServiceNext]_<<vars, P!vars>>

LEMMA HandOver ==
    ASSUME TypeOK, OutboxInv, NEW m \in Messages, HandsOver(m), m \in accepted'
    PROVE  row[m].status # "absent" /\ UNCHANGED row /\ accepted' = accepted \cup {m}
<1>1. CASE LateAccept(m)
  BY <1>1 DEF LateAccept, OutboxInv, OnlyStored
<1>2. ASSUME NEW p \in Publishers,
             \/ PublishOk(p, m) \/ PublishTransient(p, m)
             \/ PublishTimeout(p, m) \/ PublishCancelled(p, m)
      PROVE  row[m].status # "absent" /\ UNCHANGED row /\ accepted' = accepted \cup {m}
  <2>1. row[m].status # "absent"
    BY <1>2 DEF PublishOk, PublishTransient, PublishTimeout, PublishCancelled,
                IsNext, OutboxInv, RunShape, OnlyStored
  <2>2. accepted' = accepted \/ accepted' = accepted \cup {m}
    BY <1>2 DEF PublishOk, PublishTransient, PublishTimeout, MayAccept, PublishCancelled
  <2>3. UNCHANGED row
    BY <1>2 DEF PublishOk, PublishTransient, PublishTimeout, PublishCancelled, RecordFailure
  <2> QED
    BY <2>1, <2>2, <2>3
<1> QED
  BY <1>1, <1>2 DEF HandsOver

\* The outbox of the service is the outbox.
LEMMA ServiceHasOutbox == ServiceSpec => Spec
<1>1. [ServiceNext]_<<vars, P!vars>> => [Next]_vars
  <2>1. ASSUME NEW m \in Messages, HandsOver(m) PROVE Next
    BY <2>1 DEF HandsOver, Next, PublisherNext
  <2> QED
    BY <2>1 DEF ServiceNext
<1> QED
  BY <1>1, PTL DEF ServiceSpec, Spec

\* Each of its steps is one of the pipeline.
LEMMA ServiceSteps ==
    ASSUME TypeOK, OutboxInv, [ServiceNext]_<<vars, P!vars>>
    PROVE  [P!PipelineNext]_P!allVars
<1>1. ASSUME NEW m \in Messages, HandsOver(m), m \in accepted',
             P!Publish(m), UNCHANGED <<work, history, dlq>>
      PROVE  P!PipelineNext
  <2>1. row[m].status # "absent" /\ UNCHANGED row /\ accepted' = accepted \cup {m}
    BY <1>1, HandOver
  <2>2. P!Accept(m)
    BY <1>1, <2>1 DEF P!Accept, P!Relay!Accept
  <2> QED
    BY <2>2 DEF P!PipelineNext
<1>2. CASE Next /\ UNCHANGED accepted /\ UNCHANGED P!vars
  <2>1. ASSUME NEW m \in Messages, row[m].status = "absent",
               Stages' = [Stages EXCEPT ![m] = "pending"]
        PROVE  P!PipelineNext
    <3>1. P!Relay!Store(m)
      BY <1>2, <2>1 DEF P!Relay!Store, Stages
    <3> QED
      BY <1>2, <3>1 DEF P!PipelineNext, P!RelayOnly
  <2>2. ASSUME NEW D \in SUBSET Messages, NEW F \in SUBSET Messages,
               \A m \in D : row[m].status = "pending" /\ m \in accepted,
               \A m \in F : row[m].status = "pending",
               Stages' = [m \in Messages |-> IF m \in F THEN "failed"
                                             ELSE IF m \in D THEN "processed" ELSE Stages[m]]
        PROVE  P!PipelineNext
    <3>1. P!Relay!Settle(D, F)
      BY <1>2, <2>2 DEF P!Relay!Settle, P!Relay!In, Stages
    <3> QED
      BY <1>2, <3>1 DEF P!PipelineNext, P!RelayOnly
  <2>3. ASSUME NEW D \in SUBSET Messages, \A m \in D : row[m].status = "processed",
               Stages' = [m \in Messages |-> IF m \in D THEN "deleted" ELSE Stages[m]]
        PROVE  P!PipelineNext
    <3>1. P!Relay!Forget(D)
      BY <1>2, <2>3 DEF P!Relay!Forget, P!Relay!In, Stages
    <3> QED
      BY <1>2, <3>1 DEF P!PipelineNext, P!RelayOnly
  <2> QED
    BY <1>2, <2>1, <2>2, <2>3, TableSteps
<1>3. CASE P!ConsumerNext /\ UNCHANGED vars
  <2>1. UNCHANGED P!relayVars
    BY <1>3 DEF P!relayVars, vars
  <2> QED
    BY <1>3, <2>1 DEF P!PipelineNext
<1>4. CASE UNCHANGED <<vars, P!vars>>
  BY <1>4 DEF P!allVars, P!vars, vars
<1> QED
  BY <1>1, <1>2, <1>3, <1>4 DEF ServiceNext

\* The workers of the outbox, with their transactions, timeouts and late calls, and the
\* consumers of the topic together are the pipeline that was specified with the relay in
\* the place of the outbox.
THEOREM ServiceIsPipeline == ServiceSpec => P!PipelineSpec
<1>1. Init /\ P!Init => P!PipelineInit
  BY DEF P!PipelineInit, P!Relay!Init, Init, NoRow
<1> QED
  BY <1>1, ServiceHasOutbox, TypeCorrect, OutboxSafe, ServiceSteps, PTL DEF ServiceSpec, P!PipelineSpec

\* End to end, for any number of replicas, events, consumers, batches and retries: an event
\* whose row is processed or deleted is recorded, dead-lettered or still in the topic, only
\* handled deliveries are acknowledged, and an event is recorded once.
THEOREM EndToEnd ==
    P!DeliveryAssumption /\ ServiceSpec => [](P!NoEventLost /\ P!AckedWasHandled /\ P!RecordedOnce)
<1> SUFFICES ASSUME P!DeliveryAssumption
             PROVE  ServiceSpec => [](P!NoEventLost /\ P!AckedWasHandled /\ P!RecordedOnce)
  OBVIOUS
<1>1. P!PipelineSpec => []P!NoEventLost
  BY P!NothingLost, PTL
<1>2. P!PipelineSpec => []P!AckedWasHandled
  BY P!OnlyHandledAcked, PTL
<1>3. P!PipelineSpec => []P!RecordedOnce
  BY P!HistoryOnce, PTL
<1> QED
  BY <1>1, <1>2, <1>3, ServiceIsPipeline, PTL
=============================================================================
