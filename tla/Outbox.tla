------------------------------- MODULE Outbox -------------------------------
(***************************************************************************)
(* The transactional outbox: the table of stored events, the publisher     *)
(* worker of every replica (internal/outbox/workers/publisher.go), the     *)
(* cleaner worker (internal/outbox/workers/cleaner.go) and the statements  *)
(* of internal/outbox/repository/outbox.go they run.                       *)
(*                                                                         *)
(* A message is its rank in the order (created_at, id) of the table.  Time *)
(* is abstracted to what the queries compare: `due' (next_attempt_at is    *)
(* null or past) and `aged' (processed_at is older than the retention).    *)
(* The broker is the set of messages it has accepted; a call the publisher *)
(* stopped waiting for may still be accepted later.                        *)
(***************************************************************************)
EXTENDS Naturals, FiniteSets

CONSTANTS
    Messages,     \* the events, named by their rank in (created_at, id)
    Publishers,   \* the replicas that run the publisher worker
    Cleaners,     \* the replicas that run the cleaner worker
    BatchSize,    \* the publisher's batch size
    RetryCap,     \* the largest retry count (math.MaxInt32 in the code)
    CleanBatch,   \* the cleaner's batch size
    MaxBatches    \* batches the cleaner deletes in one cycle

ASSUME OutboxAssumption ==
    /\ Messages \subseteq Nat
    /\ BatchSize \in Nat \ {0}
    /\ RetryCap \in Nat
    /\ CleanBatch \in Nat \ {0}
    /\ MaxBatches \in Nat \ {0}

VARIABLES
    row,        \* the committed table: row[m]
    accepted,   \* the messages the broker has accepted
    rejected,   \* the messages some attempt found permanently invalid
    late,       \* messages with a broker call nobody waits for any more
    busy,       \* busy[p]: publisher p is inside its transaction
    conn,       \* conn[p]: the database still holds p's transaction open
    batch,      \* batch[p]: the rows p selected FOR UPDATE
    todo,       \* todo[p]: the rows of the batch p has not published yet
    msg,        \* msg[p][m]: p's in-memory copy of row m
    processed,  \* processed[p]: published in this run
    failed,     \* failed[p]: attempts of this run that failed
    clean,      \* clean[c]: what cleaner c does next
    before,     \* before[c]: the rows older than the cutoff of the cycle
    ids,        \* ids[c]: the rows selected for deletion
    left        \* left[c]: batches left in the cycle

tableVars == <<row>>
brokerVars == <<accepted, rejected, late>>
publisherVars == <<busy, conn, batch, todo, msg, processed, failed>>
cleanerVars == <<clean, before, ids, left>>
vars == <<row, accepted, rejected, late,
          busy, conn, batch, todo, msg, processed, failed,
          clean, before, ids, left>>

Status == {"absent", "pending", "processed", "failed", "deleted"}
Row == [status: Status, retries: 0..RetryCap, due: BOOLEAN, aged: BOOLEAN]
CleanerStep == {"idle", "select", "delete"}

NoRow == [status |-> "absent", retries |-> 0, due |-> TRUE, aged |-> FALSE]
NewRow == [NoRow EXCEPT !.status = "pending"]

TypeOK ==
    /\ row \in [Messages -> Row]
    /\ accepted \subseteq Messages
    /\ rejected \subseteq Messages
    /\ late \subseteq Messages
    /\ busy \in [Publishers -> BOOLEAN]
    /\ conn \in [Publishers -> BOOLEAN]
    /\ batch \in [Publishers -> SUBSET Messages]
    /\ todo \in [Publishers -> SUBSET Messages]
    /\ msg \in [Publishers -> [Messages -> Row]]
    /\ processed \in [Publishers -> SUBSET Messages]
    /\ failed \in [Publishers -> SUBSET Messages]
    /\ clean \in [Cleaners -> CleanerStep]
    /\ before \in [Cleaners -> SUBSET Messages]
    /\ ids \in [Cleaners -> SUBSET Messages]
    /\ left \in [Cleaners -> 0..MaxBatches]

Init ==
    /\ row = [m \in Messages |-> NoRow]
    /\ accepted = {} /\ rejected = {} /\ late = {}
    /\ busy = [p \in Publishers |-> FALSE]
    /\ conn = [p \in Publishers |-> FALSE]
    /\ batch = [p \in Publishers |-> {}]
    /\ todo = [p \in Publishers |-> {}]
    /\ msg = [p \in Publishers |-> [m \in Messages |-> NoRow]]
    /\ processed = [p \in Publishers |-> {}]
    /\ failed = [p \in Publishers |-> {}]
    /\ clean = [c \in Cleaners |-> "idle"]
    /\ before = [c \in Cleaners |-> {}]
    /\ ids = [c \in Cleaners |-> {}]
    /\ left = [c \in Cleaners |-> 0]

-----------------------------------------------------------------------------
(* Producers. *)

\* A business transaction that called NewOutboxMessage commits.  Rows become
\* visible in the order of the commits, not in the order of created_at.
NewOutboxMessage(m) ==
    /\ row[m].status = "absent"
    /\ row' = [row EXCEPT ![m] = NewRow]
    /\ UNCHANGED <<brokerVars, publisherVars, cleanerVars>>

-----------------------------------------------------------------------------
(* The publisher worker. *)

\* The rows some open transaction holds locked.
Locked == UNION {batch[p] : p \in {q \in Publishers : conn[q]}}

\* Mutant: a plain SELECT, without FOR UPDATE SKIP LOCKED.
UnprocessedUnlocked == {m \in Messages : row[m].status = "pending" /\ row[m].due}

\* What SELECT ... FOR UPDATE SKIP LOCKED may return.
Unprocessed == {m \in Messages : /\ row[m].status = "pending"
                                 /\ row[m].due
                                 /\ m \notin Locked}

\* B holds the first n rows of S.
FirstRows(B, S, n) ==
    /\ B \subseteq S
    /\ \A b \in B : \A s \in S \ B : b < s
    /\ \/ B = S /\ Cardinality(B) <= n
       \/ Cardinality(B) = n

\* GetUnprocessedMessages with a result: begin, lock and read the batch.
\* (An empty result commits an empty transaction: no step.)
GetUnprocessedMessages(p) ==
    /\ ~busy[p]
    /\ \E B \in SUBSET Unprocessed :
         /\ B # {}
         /\ FirstRows(B, Unprocessed, BatchSize)
         /\ batch' = [batch EXCEPT ![p] = B]
         /\ todo' = [todo EXCEPT ![p] = B]
         /\ msg' = [msg EXCEPT ![p] = [m \in Messages |->
                                         IF m \in B THEN row[m] ELSE NoRow]]
    /\ busy' = [busy EXCEPT ![p] = TRUE]
    /\ conn' = [conn EXCEPT ![p] = TRUE]
    /\ UNCHANGED <<row, accepted, rejected, late, processed, failed, cleanerVars>>

\* m is the message the loop publishes next.
IsNext(p, m) == m \in todo[p] /\ \A n \in todo[p] : m <= n

\* The transaction of p is over, whatever its outcome.
EndTx(p) ==
    /\ busy' = [busy EXCEPT ![p] = FALSE]
    /\ conn' = [conn EXCEPT ![p] = FALSE]
    /\ batch' = [batch EXCEPT ![p] = {}]
    /\ todo' = [todo EXCEPT ![p] = {}]
    /\ msg' = [msg EXCEPT ![p] = [m \in Messages |-> NoRow]]
    /\ processed' = [processed EXCEPT ![p] = {}]
    /\ failed' = [failed EXCEPT ![p] = {}]

\* The broker accepted the message and Publish returned nil.
PublishOk(p, m) ==
    /\ IsNext(p, m)
    /\ accepted' = accepted \cup {m}
    /\ processed' = [processed EXCEPT ![p] = @ \cup {m}]
    /\ todo' = [todo EXCEPT ![p] = @ \ {m}]
    /\ UNCHANGED <<row, rejected, late, busy, conn, batch, msg, failed, cleanerVars>>

\* One more failed attempt: the counter saturates, the next attempt is later.
Retried(r) == [r EXCEPT !.retries = IF @ < RetryCap THEN @ + 1 ELSE @,
                        !.due = FALSE]

\* A permanent error ends the retries: next_attempt_at is null again.
PermanentlyFailed(r) == [Retried(r) EXCEPT !.status = "failed", !.due = TRUE]

\* The attempt failed: p records it in its copy of the message.
RecordFailure(p, m, r) ==
    /\ msg' = [msg EXCEPT ![p] = [@ EXCEPT ![m] = r]]
    /\ failed' = [failed EXCEPT ![p] = @ \cup {m}]
    /\ UNCHANGED <<row, busy, conn, batch, processed, cleanerVars>>

\* After an error that says nothing about the message the broker may never
\* have seen it, have accepted it all the same, or accept it later.
MayAccept(m) ==
    \/ UNCHANGED <<accepted, late>>
    \/ accepted' = accepted \cup {m} /\ UNCHANGED late
    \/ late' = late \cup {m} /\ UNCHANGED accepted

\* Publish returned such an error: a failed attempt.
PublishTransient(p, m) ==
    /\ IsNext(p, m)
    /\ MayAccept(m)
    /\ todo' = [todo EXCEPT ![p] = @ \ {m}]
    /\ RecordFailure(p, m, Retried(msg[p][m]))
    /\ UNCHANGED rejected

\* Publish returned events.Permanent: the message itself is invalid.
PublishPermanent(p, m) ==
    /\ IsNext(p, m)
    /\ rejected' = rejected \cup {m}
    /\ todo' = [todo EXCEPT ![p] = @ \ {m}]
    /\ RecordFailure(p, m, PermanentlyFailed(msg[p][m]))
    /\ UNCHANGED <<accepted, late>>

\* Mutant: a call that outlives its timeout counts as published.
PublishTimeoutIsOk(p, m) ==
    /\ IsNext(p, m)
    /\ late' = late \cup {m}
    /\ todo' = [todo EXCEPT ![p] = {}]
    /\ processed' = [processed EXCEPT ![p] = @ \cup {m}]
    /\ UNCHANGED <<row, accepted, rejected, busy, conn, batch, msg, failed, cleanerVars>>

\* The publish timeout: a failed attempt that also ends the batch.  The broker
\* call was never made, has just succeeded, or goes on without its caller.
PublishTimeout(p, m) ==
    /\ IsNext(p, m)
    /\ MayAccept(m)
    /\ todo' = [todo EXCEPT ![p] = {}]
    /\ RecordFailure(p, m, Retried(msg[p][m]))
    /\ UNCHANGED rejected

\* ErrPublishCapacity: no broker call was made; the message stays due.
PublishCapacity(p, m) ==
    /\ IsNext(p, m)
    /\ todo' = [todo EXCEPT ![p] = {}]
    /\ UNCHANGED <<row, brokerVars, busy, conn, batch, msg, processed, failed,
                   cleanerVars>>

\* The transaction context ended during the call: roll back at once, whatever
\* the call returned.
PublishCancelled(p, m) ==
    /\ IsNext(p, m)
    /\ accepted' \in {accepted, accepted \cup {m}}
    /\ late' \in {late, late \cup {m}}
    /\ EndTx(p)
    /\ UNCHANGED <<row, rejected, cleanerVars>>

\* Mutant: the whole batch is marked processed.
SavedWholeBatch(p, m) ==
    IF m \in failed[p] THEN msg[p][m]
    ELSE IF m \in batch[p]
         THEN [row[m] EXCEPT !.status = "processed", !.due = TRUE, !.aged = FALSE]
         ELSE row[m]

\* SaveProcessedMessages writes three columns, SaveFailedMessages the whole
\* in-memory row.
Saved(p, m) ==
    IF m \in failed[p] THEN msg[p][m]
    ELSE IF m \in processed[p]
         THEN [row[m] EXCEPT !.status = "processed", !.due = TRUE, !.aged = FALSE]
         ELSE row[m]

\* Mutant: the results are saved outside the transaction.
CommitOutsideTx(p) ==
    /\ busy[p]
    /\ todo[p] = {}
    /\ row' = [m \in Messages |-> Saved(p, m)]
    /\ EndTx(p)
    /\ UNCHANGED <<brokerVars, cleanerVars>>

\* The loop is over: save both lists and commit.
Commit(p) ==
    /\ busy[p] /\ conn[p]
    /\ todo[p] = {}
    /\ row' = [m \in Messages |-> Saved(p, m)]
    /\ EndTx(p)
    /\ UNCHANGED <<brokerVars, cleanerVars>>

\* Mutant: the error path leaks the transaction with its locks.
RollbackLeaks(p) ==
    /\ busy[p]
    /\ busy' = [busy EXCEPT ![p] = FALSE]
    /\ todo' = [todo EXCEPT ![p] = {}]
    /\ UNCHANGED <<row, brokerVars, conn, batch, msg, processed, failed, cleanerVars>>

\* Any error of the run, a failed save or commit, a panic or a crash of the
\* replica: nothing the run wrote survives.
Rollback(p) ==
    /\ busy[p]
    /\ EndTx(p)
    /\ UNCHANGED <<row, brokerVars, cleanerVars>>

\* The database drops the connection: its locks are gone while the worker,
\* unaware, goes on publishing until a statement fails.
LoseConnection(p) ==
    /\ conn[p]
    /\ conn' = [conn EXCEPT ![p] = FALSE]
    /\ UNCHANGED <<row, brokerVars, busy, batch, todo, msg, processed, failed,
                   cleanerVars>>

-----------------------------------------------------------------------------
(* The broker and the clock. *)

\* A call nobody waits for reaches the broker, or never does.
LateAccept(m) ==
    /\ m \in late
    /\ accepted' = accepted \cup {m}
    /\ late' \in {late, late \ {m}}
    /\ UNCHANGED <<row, rejected, publisherVars, cleanerVars>>

LateLost(m) ==
    /\ m \in late
    /\ late' = late \ {m}
    /\ UNCHANGED <<row, accepted, rejected, publisherVars, cleanerVars>>

\* The backoff of a failed message is over.
BackoffElapses(m) ==
    /\ row[m].status = "pending" /\ ~row[m].due
    /\ row' = [row EXCEPT ![m] = [@ EXCEPT !.due = TRUE]]
    /\ UNCHANGED <<brokerVars, publisherVars, cleanerVars>>

\* The retention of a processed message is over.
RetentionElapses(m) ==
    /\ row[m].status = "processed" /\ ~row[m].aged
    /\ row' = [row EXCEPT ![m] = [@ EXCEPT !.aged = TRUE]]
    /\ UNCHANGED <<brokerVars, publisherVars, cleanerVars>>

-----------------------------------------------------------------------------
(* The cleaner worker. *)

\* Mutant: the WHERE clause forgets the cutoff.
ExpiredAnyAge(c) == {m \in Messages : row[m].status = "processed"}

\* The rows the WHERE clause of both statements matches: processed, and
\* processed before the cutoff of this cycle.
Expired(c) == {m \in before[c] : row[m].status = "processed" /\ row[m].aged}

\* The ticker fires: one cutoff for the whole cycle.
StartCleanup(c) ==
    /\ clean[c] = "idle"
    /\ clean' = [clean EXCEPT ![c] = "select"]
    /\ before' = [before EXCEPT ![c] =
                    {m \in Messages : row[m].status = "processed" /\ row[m].aged}]
    /\ left' = [left EXCEPT ![c] = MaxBatches]
    /\ UNCHANGED <<row, brokerVars, publisherVars, ids>>

\* The cycle of c is over.
EndCleanup(c) ==
    /\ clean' = [clean EXCEPT ![c] = "idle"]
    /\ before' = [before EXCEPT ![c] = {}]
    /\ ids' = [ids EXCEPT ![c] = {}]
    /\ left' = [left EXCEPT ![c] = 0]

\* Mutant: the cleaner waits for a full batch.
SelectExpiredFull(c) ==
    /\ clean[c] = "select"
    /\ \/ /\ Cardinality(Expired(c)) < CleanBatch
          /\ EndCleanup(c)
       \/ /\ \E S \in SUBSET Expired(c) :
               /\ Cardinality(S) = CleanBatch
               /\ ids' = [ids EXCEPT ![c] = S]
          /\ clean' = [clean EXCEPT ![c] = "delete"]
          /\ UNCHANGED <<before, left>>
    /\ UNCHANGED <<row, brokerVars, publisherVars>>

\* The SELECT of DeleteProcessedMessages; no match means deleted = 0, and the
\* cycle ends because 0 < batchSize.  (The rows past the retention are not
\* told apart by age, so any of them may be the oldest.)
SelectExpired(c) ==
    /\ clean[c] = "select"
    /\ \/ /\ Expired(c) = {}
          /\ EndCleanup(c)
       \/ /\ \E S \in SUBSET Expired(c) :
               /\ S # {}
               /\ \/ Cardinality(S) = CleanBatch
                  \/ S = Expired(c) /\ Cardinality(S) < CleanBatch
               /\ ids' = [ids EXCEPT ![c] = S]
          /\ clean' = [clean EXCEPT ![c] = "delete"]
          /\ UNCHANGED <<before, left>>
    /\ UNCHANGED <<row, brokerVars, publisherVars>>

\* The DELETE rechecks the condition; a short batch, or the last one allowed,
\* ends the cycle.
DeleteExpired(c) ==
    LET D == ids[c] \cap Expired(c) IN
    /\ clean[c] = "delete"
    /\ row' = [m \in Messages |->
                 IF m \in D THEN [NoRow EXCEPT !.status = "deleted"] ELSE row[m]]
    /\ \/ /\ Cardinality(D) < CleanBatch \/ left[c] <= 1
          /\ EndCleanup(c)
       \/ /\ ~(Cardinality(D) < CleanBatch \/ left[c] <= 1)
          /\ clean' = [clean EXCEPT ![c] = "select"]
          /\ ids' = [ids EXCEPT ![c] = {}]
          /\ left' = [left EXCEPT ![c] = @ - 1]
          /\ UNCHANGED before
    /\ UNCHANGED <<brokerVars, publisherVars>>

\* A database error, a cancelled context or a crash ends the cycle early.
CleanupFails(c) ==
    /\ clean[c] # "idle"
    /\ EndCleanup(c)
    /\ UNCHANGED <<row, brokerVars, publisherVars>>

-----------------------------------------------------------------------------
PublisherNext(p) ==
    \/ GetUnprocessedMessages(p)
    \/ \E m \in Messages : \/ PublishOk(p, m)
                           \/ PublishTransient(p, m)
                           \/ PublishPermanent(p, m)
                           \/ PublishTimeout(p, m)
                           \/ PublishCapacity(p, m)
                           \/ PublishCancelled(p, m)
    \/ Commit(p)
    \/ Rollback(p)
    \/ LoseConnection(p)

CleanerNext(c) ==
    \/ StartCleanup(c)
    \/ SelectExpired(c)
    \/ DeleteExpired(c)
    \/ CleanupFails(c)

Next ==
    \/ \E m \in Messages : \/ NewOutboxMessage(m)
                           \/ LateAccept(m)
                           \/ LateLost(m)
                           \/ BackoffElapses(m)
                           \/ RetentionElapses(m)
    \/ \E p \in Publishers : PublisherNext(p)
    \/ \E c \in Cleaners : CleanerNext(c)

Spec == Init /\ [][Next]_vars

\* The worker inside its transaction takes its next step.
WorkerStep(p) ==
    \/ \E m \in Messages : \/ PublishOk(p, m) \/ PublishTransient(p, m)
                           \/ PublishPermanent(p, m) \/ PublishTimeout(p, m)
                           \/ PublishCapacity(p, m) \/ PublishCancelled(p, m)
    \/ Commit(p)
    \/ Rollback(p)

\* Clocks advance, tickers fire and a worker never stops inside a run (weak
\* fairness).  Of the outside world: a broker that is offered a message again
\* and again over a live transaction accepts it at last, and a run that
\* published it is not rolled back for ever (strong fairness).  Nothing is
\* assumed of errors, timeouts, lost connections and late calls.
Fairness ==
    /\ \A m \in Messages : /\ WF_vars(BackoffElapses(m))
                           /\ WF_vars(RetentionElapses(m))
                           /\ SF_vars(\E p \in Publishers : conn[p] /\ PublishOk(p, m))
                           /\ SF_vars(\E p \in Publishers : m \in processed[p] /\ Commit(p))
    /\ \A p \in Publishers : /\ WF_vars(GetUnprocessedMessages(p))
                             /\ WF_vars(WorkerStep(p))
    /\ \A c \in Cleaners : /\ WF_vars(StartCleanup(c))
                           /\ SF_vars(SelectExpired(c))
                           /\ SF_vars(DeleteExpired(c))

FairSpec == Spec /\ Fairness

-----------------------------------------------------------------------------
(* Properties. *)

\* No event is lost: a row is marked processed, and may then be deleted, only
\* when the broker has accepted that message - whatever the timeouts, late
\* calls, lost connections and rollbacks in between.
ProcessedWasAccepted ==
    \A m \in Messages : row[m].status \in {"processed", "deleted"} => m \in accepted

\* A row leaves the retry cycle as failed only because of a permanent error of
\* that very message, never because of a timeout, a full publisher or a
\* neighbour in its batch.
FailedWasRejected ==
    \A m \in Messages : row[m].status = "failed" => m \in rejected

Rank(status) == CASE status = "absent"    -> 0
                  [] status = "pending"   -> 1
                  [] status = "processed" -> 2
                  [] status = "failed"    -> 2
                  [] status = "deleted"   -> 3

\* The whole-row UPDATE of SaveFailedMessages never writes stale data: a row
\* that was settled is never pending again, a failed row is never touched, and
\* a recorded attempt is never forgotten while the row is pending.
RowsOnlyAdvance ==
    [][\A m \in Messages :
         \/ row'[m] = row[m]
         \/ Rank(row'[m].status) > Rank(row[m].status)
         \/ /\ row'[m].status = row[m].status
            /\ row[m].status \in {"pending", "processed"}
            /\ row'[m].retries >= row[m].retries]_vars

\* The cleaner deletes nothing but processed rows past their retention, though
\* it selects and deletes in two statements outside a transaction.
DeletedAfterRetention ==
    [][\A m \in Messages :
         row[m].status # "deleted" /\ row'[m].status = "deleted"
           => row[m].status = "processed" /\ row[m].aged]_vars

-----------------------------------------------------------------------------
(* The inductive invariant behind the properties above, in named parts. *)

\* Only a worker inside its run has anything in hand, and a batch splits into
\* what is still to publish, what was published and what failed.
RunShape ==
    \A p \in Publishers :
      /\ ~busy[p] => batch[p] = {} /\ ~conn[p]
      /\ todo[p] \cup processed[p] \cup failed[p] \subseteq batch[p]
      /\ todo[p] \cap (processed[p] \cup failed[p]) = {}
      /\ processed[p] \cap failed[p] = {}

\* Two open transactions never hold the same row (SKIP LOCKED).
LocksExclude ==
    \A p, q \in Publishers :
      conn[p] /\ conn[q] /\ p # q => batch[p] \cap batch[q] = {}

\* While a transaction is open its rows do not change under it.
CopiesFresh ==
    \A p \in Publishers : conn[p] => \A m \in batch[p] :
      /\ row[m].status = "pending"
      /\ row[m].due
      /\ m \in failed[p] => \/ msg[p][m] = Retried(row[m])
                            \/ msg[p][m] = PermanentlyFailed(row[m]) /\ m \in rejected
      /\ m \notin failed[p] => msg[p][m] = row[m]

\* What a worker counts as published was accepted.
PublishedWasAccepted == \A p \in Publishers : processed[p] \subseteq accepted

\* Nothing is published, or on its way, that was not stored.
OnlyStored ==
    /\ \A p \in Publishers : \A m \in batch[p] : row[m].status # "absent"
    /\ \A m \in late \cup accepted : row[m].status # "absent"

\* A run settles only rows that are still as it read them, and only with the
\* broker's answer in hand, though locks can be lost under a running worker.
OutboxInv ==
    /\ RunShape
    /\ LocksExclude
    /\ CopiesFresh
    /\ PublishedWasAccepted
    /\ OnlyStored
    /\ ProcessedWasAccepted
    /\ FailedWasRejected

\* The outbox implements the at-least-once relay it promises its producers.
Relay == INSTANCE EventRelay WITH stage <- [m \in Messages |-> row[m].status]
ImplementsRelay == Relay!Spec

-----------------------------------------------------------------------------
(* Liveness. *)

\* Every stored event reaches the broker or is marked failed.
EventuallyDelivered ==
    \A m \in Messages :
      row[m].status = "pending" ~> (m \in accepted \/ row[m].status = "failed")

\* Every stored event is settled and, once processed, removed from the table.
EventuallyRemoved ==
    \A m \in Messages :
      row[m].status = "pending" ~> row[m].status \in {"deleted", "failed"}

=============================================================================
