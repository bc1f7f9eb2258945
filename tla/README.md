# A TLA+ model of go42

go42 is a Go service template: an HTTP and gRPC API over a SQL database, with
accounts and login sessions, and domain events that leave through a
transactional outbox and come back through a message router. Its documentation is
assembled into a site by `pages/assemble.mjs`. This directory holds TLA+ specifications of the parts in which concurrency, failure and
ordering decide whether the service is correct, TLC configurations that check
them on small instances, and TLAPS proofs of the central results for instances
of any size. Paths below are relative to the repository (`src/`).

Run a model with `tlc -config MCOutboxSafety.cfg MCOutbox` (the table of runs in
section 3 names the module and configuration of each), check proofs with
`tlapm OutboxProofs.tla`. `PROJECT.json` lists components, runs, hazards,
theorems, and for every definition the source lines it models.

## 1. Inventory

| Component | Source | State | Operations |
|---|---|---|---|
| Transactional outbox | `internal/outbox` | table `transactional_outbox`; per publisher one transaction, its locked batch and in-memory copies; per cleaner one cycle | store with the business change; select a due batch `FOR UPDATE SKIP LOCKED`, publish row by row, save results, commit; delete what is past its retention |
| Bounded publisher | `internal/events/publisher.go` | a weighted semaphore, one goroutine and one result channel per call | acquire or give up, copy the message, call the broker in a goroutine, wait for result or context, release |
| Event router, consuming side | `internal/events/router*.go` | deliveries in progress | retry, recognise permanent errors, publish to the dead-letter topic, acknowledge |
| User history subscriber | `internal/auth/workers/auth_events_subscriber.go` | table `auth_users_history` | validate an event, insert it idempotently |
| Sessions and credentials | `internal/auth/auth.go`, `internal/auth/repository`, `internal/auth/workers/session_cleaner.go` | `auth_users` with `credential_version`; `auth_sessions` with the current refresh token id | sign-up, login, refresh with rotation, logout, account changes, deletion, cleanup of expired sessions |
| API tokens, last-used tracking | `internal/auth`, `workers/token_last_used_updater.go` | `auth_api_tokens`, a lossy channel, two buffers | validate, note the use, flush |
| Authentication middleware and interceptors | `internal/auth/middleware`, `interceptors` | none of their own | validate, load the user, check access |
| Rate limiting | `internal/tools/rate_limit.go`, `internal/cache/*` | one theoretical arrival time per key | allow or refuse, under a mutex, a compare-and-swap loop or a Lua script |
| Documentation assembler | `pages/assemble.mjs` | the bundle read from `docs/`: pages, IDs, the walk along replacements; the generated `pages/docs` | read overview and collections, validate pages, references and index, render, remove and rewrite the output |
| Process lifecycle | `cmd/app/main.go`, `internal/api/*/server.go`, `internal/events/router.go` | servers, workers, error channels, health status | start, report a failure, watch errors, shut down in order |
| Startup connections | `internal/events/{nats,kafka,rabbitmq}`, `internal/database`, `internal/tools/retry.go` | connections being opened | attempt with timeout, retry with backoff, close what came too late |
| Priority queue, pagination, retry delays | `internal/tools` | none | pure functions |
| HTTP/gRPC adapters, configuration, metrics, generated SDKs | `internal/api`, `internal/config`, `api` | none shared | decoding and encoding, reading settings, output |
| Documentation site settings, Swagger UI | `pages/docusaurus.config.ts`, `pages/sidebars.ts`, `static/swagger` | none | constant settings; vendored code |

How they interact. A business operation (sign-up, account change) writes its
row and its event in one database transaction. The outbox publisher of some
replica locks due rows, hands each to `Router.Publish` - the bounded publisher -
and stores the outcome in the same transaction that locked them. The broker
delivers the event to some replica's router, which retries the handler and, when
that is hopeless, publishes the event to the dead-letter topic *through the same
bounded publisher*. Login and logout also publish events, best effort. Sessions
are shared by all replicas through the database alone: nothing is cached, so
correctness rests on the WHERE clauses of single statements. The middleware reads
the session and then its account before every protected request, or notes the use of
an API token in a channel that a background worker writes out. Rate limits are kept
in a cache shared by the replicas. The documentation assembler stands apart: it runs
in a checkout that authors edit, and shares only the file system with them.

What is hard here:

* *at-least-once with timeouts.* A publish call that timed out may still be
  accepted; a commit may fail after the broker accepted; the database may drop a
  connection, and with it the row locks, under a worker that keeps publishing;
* *read, then write in a second statement.* Login, account changes, refresh with
  reuse detection and both cleaners do this; only compare-and-swap conditions
  and repeated conditions in the second statement make it safe;
* *hand-over races* in the semaphore between a released slot and a waiter whose
  context ends at that moment;
* *duplicates*: redelivery, republication, the broker's deduplication by id, the
  dead-letter copy of an event whose original id the broker remembers;
* *checked once, used later*: the middleware's two reads, the limiter's clock
  reading before its compare-and-swap, the files a documentation link was resolved
  against;
* *lifetimes in coarse units*: a limiter's entry must outlive its refill, although
  memcached counts seconds and Redis milliseconds;
* *something must eventually happen*: stored events get out and are removed,
  callers return, waiters are served, expired sessions disappear, uses of tokens are
  written, a walk along replacements ends although they may form a circle.

`PROJECT.json` lists these hazards at their lines, with the properties that
would catch each going wrong.

What makes each part correct, in a sentence: the outbox neither loses an event
nor settles one on stale information; the publisher conserves its slots and its
answers are true; the consuming side records an event once and acknowledges only
what was recorded or dead-lettered; a session lives no longer than the password
it was opened with, its refresh tokens are single-use and a reused one kills the
family; no request is admitted that came after its session ended; a noted use of a
token is not forgotten; a limiter never allows more than its rate; a shutdown
terminates, in order, and reports not-serving for good; the assembler accepts
exactly the sound documents and leaves no half-valid site behind.

## 2. Modules

| Module | Models |
|---|---|
| `EventRelay` | abstract: what the outbox promises its producers |
| `Outbox` | the outbox table, publisher workers, cleaner workers, broker; implements `EventRelay` |
| `OutboxProofs` | theorems about `Outbox`, and about the outbox joined with the consumers |
| `PublishCall` | abstract: what the answers of `Router.Publish` mean |
| `BoundedPublisher` | the semaphore, goroutines and select of one router; implements `PublishCall` |
| `PublisherProofs` | theorems about `BoundedPublisher` |
| `Delivery` | topic, handler chain, dead-letter topic, history subscriber |
| `Pipeline` | composes `EventRelay` and `Delivery`: events end to end |
| `PipelineProofs` | theorems about `Pipeline` |
| `TokenFamily` | abstract: a family of single-use refresh tokens |
| `Session` | accounts, sessions, requests in progress, session cleaner; implements `TokenFamily` |
| `Access` | composes `Session` with the middleware's two reads |
| `SessionProofs` | theorems about `Session` and `Access` |
| `ApiTokens` | notes of used API tokens: channel, collector, swapped buffers, guarded update |
| `ApiTokensProofs` | theorems about `ApiTokens` |
| `RateLimit` | the limiter's arithmetic, and what a limiter owes its callers |
| `MemcachedLimit`, `RedisLimit` | `AllowRateLimit` on the two shared caches |
| `LimitProofs` | theorems about `MemcachedLimit` and `RedisLimit` |
| `AppContexts` | the two contexts of `main` and the calls of `Shutdown`, shared by the two following modules |
| `Lifecycle` | one process: startup steps, servers, error channels and their watchers, ordered shutdown |
| `Probes` | what the process tells the outside: `/ready`, the gRPC health status and its monitor |
| `ProcessProofs` | theorems about `Lifecycle` and `Probes` |
| `Documentation` | documents, the checks on them, links, repository URLs; what a sound set of documents is |
| `Assembly` | the run of `assemble.mjs` beside authors who edit the checkout |
| `AssemblyProofs` | theorems about `Documentation` and `Assembly` |
| `MCOutbox`, `MCPipeline`, `MCLifecycle`, `MCMemcachedLimit`, `MCAssembly` | symmetry sets, structured constants and bounds of instances; the other modules are run as they are |

Operators whose comment begins with *Mutant* are defective variants of the
definition that follows them. No specification uses them; they serve to confirm
that each property notices the defect it is there for.

### Outbox

`row[m]` is the committed row of message `m`; messages are named by their rank
in `(created_at, id)`, the order of the SELECT. Columns are reduced to status,
retry count, `due` (`next_attempt_at` is null or past) and `aged` (`processed_at`
is older than the retention). A publisher's run is one transaction:

* `GetUnprocessedMessages` begins it, skips rows locked by other open
  transactions, locks and copies the first `BatchSize` due rows;
* `PublishOk`, `PublishTransient`, `PublishPermanent`, `PublishTimeout`,
  `PublishCapacity`, `PublishCancelled` are the outcomes of one iteration of the
  loop in `publisher.go`: success, an error that says nothing about the message,
  a permanent error, the publish timeout (a failed attempt that also ends the
  batch), no capacity (ends the batch, not an attempt), and the end of the
  transaction's context (rolls back);
* `Commit` is `SaveProcessedMessages`, `SaveFailedMessages` and the commit. The
  first writes three columns; the second overwrites the whole row from the copy,
  which is why copies must be fresh;
* `Rollback` is every way a run can end without effect; `LoseConnection` frees
  the locks while the worker, unaware, goes on.

`late` holds messages whose broker call nobody waits for; `LateAccept` and
`LateLost` settle it. The cleaner has its two statements as two actions, with one
cutoff per cycle (`before`), the batch limit and the limit of batches per cycle.

### BoundedPublisher

One call of `publish` is one element of `Calls`. The caller is idle, waiting in
the semaphore, in its select, or done; the goroutine is about to start, calling
the broker, about to release, or over. The semaphore of `golang.org/x/sync` is
external and modelled as used, with weights of one: first-in-first-out waiters,
a released slot handed to the head of the queue, and, when a waiter's context
ends after the hand-over, the slot given back. `msg` and `copy` distinguish the
caller's message, which it may reuse after `Publish` returned, from the copy the
goroutine hands to the broker.

### Delivery and Pipeline

A copy of an event stays in `topic` until acknowledged and may be delivered to
several consumers. `seen` is the broker's deduplication memory, keyed by
destination and event id as `deduplicationID` computes it; `ForgetId` ends the
window (a broker without deduplication forgets at once).

`handleEvent` is a transaction of two steps. `SaveUserHistoryRecord` is the insert `ON
CONFLICT (id) DO NOTHING` (`repository.go:422-428`): it adds no record when a committed
one has the event's id, and waits while another open transaction has added one, as a
unique key makes it in each of the supported databases (external). What it added counts
only from `Commit` on. `history[m]` is a count, so a second record would show.
`HandleFails` is a failure of either step: the transaction is rolled back, or committed
with the answer lost. `Abandon` (a crash, a shutdown) leaves an open transaction in the
same doubt. `HandleInvalid`, `DeadLetter`, `DeadLetterFails` and `Ack` are the other steps
of the handler chain.

`Pipeline` joins the abstract relay's `Accept` with the topic's `Publish`. TLC runs it
with the abstract relay; that the concrete outbox in the relay's place changes nothing
is proved (`ServiceIsPipeline`).

### Session

A password is its epoch, the number of password changes before it; refresh
tokens of a session are numbered in the order they are issued and expire in that
order; a session is past `expires_at` when its current token has expired. `req[r]`
is what a request has read: `VerifyPassword` / `CreateSession` are the two halves
of `Login`, `ReadForUpdate` / `UpdateUser` those of an account change,
`ParseRefreshToken` / `RotateSession` or `RotateMisses` / `RevokeReplayed` the
statements of `Refresh`. Any of them may stop in between (`RequestFails`). The
conditions of the statements are operators of their own: `UpdateMatches`,
`RotateMatches`, `Current`, `PastCutoff`. `RotateSession` compares `expires_at`
with a time taken before the statement, so both it and `RotateMisses` are possible
for a session that expired in between. `SetStatus` is an operator's statement on
the status column, which the program reads but never changes itself.

### Access

`Present` is the arrival of a request with an unexpired access token; `late` records
whether its session was by then logged out, revoked, removed or outlived by a
credential change, or its account deleted. `ValidateJWTToken` is the one statement of
`GetActiveSession`, `GetUserByUUID` the load of the account, `Answer` every way a
request ends. Between any two of them every step of `Session` may happen. The gRPC
interceptor makes the same two calls.

### ApiTokens

A use is stamped with the time (`Stamp`) before it is sent (`Send`), so notes reach
the channel out of order; a full channel drops the note, as the code intends.
`Collect` is the collector goroutine's critical section, `Swap`, `Flush` and `Clear`
are the parts of `run`: the swap under the lock, one transaction per token, the
deferred clear. A time of 0 stands for "no entry" and for NULL. `failed` is a history
of the updates that were logged as failed. `Stop` is the end of the context or of the
process: the code writes nothing out at shutdown, so what was not flushed is lost
(requests still in flight may send to a channel nobody reads any more). Creating,
listing and deleting tokens are single statements and are left out.

### RateLimit, MemcachedLimit, RedisLimit

`RateLimit` has the arithmetic of `tools.RateLimiter` and of both caches, in the code's
two units. Settings are nanoseconds: `interval`, the window by the rate, rounded up
(`rate_limit.go:89-92`), and `RateLimitTTL`. Clocks and stored times are microseconds,
the ticks of the model (`Microsecond` nanoseconds each): `intervalMicros` is what a token
is charged, the interval with the rest of a microsecond cut off, but at least one
(`memcached.go:137`, `redis.go:153`), and `Refused` decides by it.

The requirement is stated in nanoseconds and without the decision: in every stretch of
time `[a, b]` at most `Burst` calls plus one per interval are allowed, each early by at
most `early` (`RateHolds(stamps, early)`). The truncation makes `early` = 0 false: at
three calls per second the interval is 333.333334 ms and the charge 333333 µs, so every
token comes back 0.334 µs sooner than configured. `RateRespected` therefore has
`early` = `Uncounted`, the part of the interval that is cut off, always less than a
microsecond, and 0 when the interval is a whole number of microseconds (or less than
one, when a token is charged more than the interval). The instance of
`rate_limit_memcached` is such a truncated interval; with `early` = 0 it has a
counterexample. Taken to the nanosecond, that is less than `internal/cache/cache.go:27`
says ("refilling one token per interval up to burst"); as it stays below the resolution
of the clock both caches read, it is recorded here and not listed as a finding.

`MemcachedLimit` has the loop of `AllowRateLimit` with every client call a step: the
clock reading, `Get`, `Add` or `CompareAndSwap`, whose answer may be lost after it
took effect, and the attempts used up. The entry dies by memcached's clock of whole
seconds. `stalled` records that a call was held up between its clock reading and its
`Add` for so long that a bucket which was alive at the reading died: the call then
stores a bucket with an old time. No lifetime excludes this, so `RateRespected` does.
`taken` records with each token the version the bucket got, since `RefusedForCause`
counts tokens in the order the bucket was charged. Counted by their times alone they
would not explain every refusal: a call with an old clock reading charges the bucket
although its time lies before that of calls already charged.

`RedisLimit` has one atomic step, the Lua script, and a lifetime in milliseconds.
Lifetimes above 30 days and the eviction of entries are not modelled. The local cache
decides under one mutex and is not modelled either.

### Documentation and Assembly

A document is what the checks read of it: whether its single fields are well formed,
its collection, ID, position, status, replacement, related IDs, links, images and the
rows of its index tables. A link is the path it names, `Outside` when it leaves the
checkout or `External` when `localTarget` ignores it. `MetadataOK`, `RowOK`, `IndexOK`
and `Leads` are the checks and the rendering of one page or index; `Candidate` and
`RefusedURL` are `buildContext`. `Sound` says what a valid set of documents is without
reference to any order of checks: a replacement chain, for instance, is sound when
every set of IDs closed under replacement that holds its start holds an accepted
decision, which is not how the code walks it.

`Assembly` is one process at a time, started by `StartCheck` (`--check`) or
`StartAssemble`, which reads the overview, globs and reads each collection, validates
page by page (the files of a glob are a set, read in the order of their paths), follows
replacements step by step (`FollowReplacement`, with the code's
set of visited IDs), checks the index, renders page by page, removes the output and
writes it anew. `Write` and `Touch` are the authors, between any two of these steps:
documents are read once, but the existence of link targets is looked up on disk
three times. `Die` and `DieRemoving` stop the process anywhere, in the middle of the
removal too (whose order by collection is one of the possible ones); `torn` says that
a replacement was cut short and none was completed since. Where the code's order of
checks inside one page decides only which of two errors is reported, the model leaves
it open. The revision and the dirty mark are text of the footer and not modelled.

### Lifecycle

`stage` counts the steps of `main` from logging to the serving goroutines; each may
end the process (`log.Fatalf`). `Closers` is the order in which `shutdown` closes the
enabled components. A server is down, launched (its goroutine exists), serving,
stopped (the serving call returned) or over (its channel is closed); its requests or
deliveries in flight are the flag `busy`. `Requested` says whether a server's end was
asked for - by its own `Shutdown`, or for the router by the application context - and
`Quiet` is the code's check of it before an error is reported. `WatchSelect` is the
select of `watchErrors`, which may take either branch when both are ready and drops
an error that arrives after the cancellation; `MarkFailed` is the `sync.Once` that
fails liveness. In the shutdown, `Finished` is what a component's `Shutdown` waits for
and `Returns` when it returns: the HTTP server, the router and the generic components
give up at their deadline (`Overrun`), the gRPC server forces its connections shut at
the deadline and waits on for its handlers. `GraceExpires`, a second signal (`Killed`)
and a failed start end the process wherever it is; its memory is gone (`Dies`).
Components whose `Shutdown` has no state of interest (profiling, tracing, metrics) are
the closer `pprof` of the liveness instance.

### Probes

`MarkReady` is the compare-and-swap of the HTTP server's `readyStatus`;
`WithdrawReady` the goroutine of `WithReadinessContext`. A request of `/ready` is two
steps, `ReadyLoads` and `ReadyAnswers`, since status and context are read at different
times. The gRPC health monitor has its select (`MonitorTick`, `MonitorEnds`), the check
(`MonitorCheck`), the decision and the write of SERVING (`MonitorDecide`,
`MonitorPut`) apart, because the cancellation or `GrpcShutdown` may come between any
two of them. Pings of database and cache may fail at any time. Of the rest of the
process `Probes` knows the steps of `AppContexts` only: liveness is lost once, the
application context is cancelled once, then the HTTP server and later the gRPC server
are asked to stop. That `Lifecycle` makes no other steps is proved
(`LifecycleDrivesProbes`).

## 3. Runs

| Run | Module, configuration | Checks | Instance |
|---|---|---|---|
| `outbox_safety` | `MCOutbox`, `MCOutboxSafety.cfg` | `OutboxInv`, `ProcessedWasAccepted`, `RowsOnlyAdvance`, `DeletedAfterRetention`, `ImplementsRelay` | 2 events, 2 publishers, 1 cleaner, batches of 2, cleaner batches of 1, at most 2 |
| `outbox_live` | `MCOutbox`, `MCOutboxLive.cfg` | `EventuallyDelivered`, `EventuallyRemoved` | 2 events, 1 publisher, batches of 1 |
| `publisher` | `BoundedPublisher`, `MCBoundedPublisher.cfg` | `SlotsConserved`, `MessageIntact`, `ImplementsPublishCall`, `TimedOutReturns`, `WaitersServed` | 3 calls, 2 slots |
| `pipeline` | `MCPipeline`, `MCPipeline.cfg` | `NoEventLost`, `AckedWasHandled`, `RecordedOnce`, `EventuallyHandled` | a valid or an invalid event, 2 consumers, 2 copies, 1 retry |
| `session` | `Access`, `MCSession.cfg` | `SessionInv`, `ActiveMeansCurrentPassword`, `RefusedFamilyDead`, `TokensSingleUse`, `LateRequestRefused`, `CleanerSparesRenewed`, `ImplementsTokenFamily`, `ExpiredSessionsRemoved` | 1 account, 1 session, 2 requests, 1 request through the middleware, 2 credential versions, 3 tokens, cleaner batches of 1 |
| `lifecycle` | `MCLifecycle`, `MCLifecycle.cfg` | `OnlyCrashesReported`, `DatabaseOutlivesWork`, `CompletedMeansClosed`, `CrashNoticed`, `ShutdownTerminates` | gRPC and router, a generic component, the database |
| `probes` | `Probes`, `MCProbes.cfg` | `LateProbeRefused`, `ProbesWithdrawn` | both servers, one probe at a time |
| `documentation` | `MCAssembly`, `MCAssembly.cfg` | `ValidationExact`, `SiteWhole`, `RunsEnd` | 5 documents in 4 places, 2 other paths, 3 environments, 2 edits, any number of runs |
| `documentation_misused` | `MCAssembly`, `MCAssemblyMisused.cfg` | `ReplacedOnlySuperseded`: **violated** | the same without edits, a requirement with `superseded_by` |
| `rate_limit_memcached` | `MCMemcachedLimit`, `MCMemcachedLimit.cfg` | `RateRespected`, `RefusedForCause`, `ContendedMeansBusy` | 3 calls, a burst of 2, ticks of 2 ns, an interval of 5 ns charged as 2 ticks, seconds of 5 ticks, 2 attempts, 11 ticks |
| `rate_limit_redis` | `RedisLimit`, `MCRedisLimit.cfg` | `RateRespected`: **violated** | 3 calls, a burst of 1, ticks of 2 ns, an interval of 22 ns or 11 ticks, milliseconds of 4 ticks |
| `api_tokens` | `ApiTokens`, `MCApiTokens.cfg` | `NoUseForgotten`, `LastUsedAdvances`, `UsesAreWritten` | 1 token, 2 replicas, 3 uses, a channel of 1 |

Two runs show a disagreement of the code with what is written about it; all other
properties hold.

* *`documentation_misused`.* `docs/handbook/documentation.md:101-102` says "Use
  `superseded_by` only on superseded decisions", and so does the error text in
  `pages/assemble.mjs:88`. The check stands inside the branch for decisions, so a
  requirement (or a handbook page or template) with `superseded_by` passes validation,
  and a requirement is rendered as replaced.
* *`rate_limit_redis`.* `internal/tools/rate_limit.go:103` says that the lifetime
  "retains a bucket until it could have refilled completely".
  `internal/cache/redis/redis.go:155` passes `ttl.Milliseconds()`, which rounds down:
  if the refill takes no whole number of milliseconds and the configured lifetime is no
  longer, the bucket is forgotten in the last millisecond of its refill, and one call
  is allowed too early. The memcached cache rounds up and adds a second; the same
  property holds there.

What the runs show. *Outbox*: with two replicas, every order of timeouts, late
broker answers, lost connections and rollbacks leaves the table truthful; a worker
that lost its locks cannot commit over another's result, although it can publish
the same message once more. *Publisher*: no race of hand-over and timeout loses or
forges a slot; "capacity" really means the broker never saw the message, which is
what lets the outbox leave it due without counting an attempt; the dead-letter
publisher, which has no timeout, is served as long as no broker call hangs for
ever. *Pipeline*: an event the outbox counted as delivered is in the topic, the
history or the dead-letter topic; that depends on the deduplication id naming the
destination. It is recorded once although two consumers insert it in overlapping
transactions, any of which may be rolled back or commit unnoticed. *Session*: a login that verified an old password yields a dead
session; a refresh that loses the race revokes the winner's family too, and that
family never works again; a session renewed between the cleaner's two statements
survives. *Access*: although session and account are two reads, a request that arrives
after a committed logout, revocation, credential change or deletion is refused; one
that arrived before may still be served. *API tokens*: the buffer swap
loses no note, and replicas with buffers of different ages cannot set `last_used_at`
back; only a full channel or a stopped process loses a use. *Rate limiting*:
compare-and-swap makes concurrent calls one limiter, a call that gives up really lost
to as many others as it had attempts, and a call is refused only for an empty bucket
or for one filled at a later time than its own clock reading. *Documentation*:
validation in steps accepts exactly what `Sound` describes, whatever is edited
meanwhile, and a refused or interrupted run leaves the published pages whole unless it
was cut short while replacing them, which the next complete run mends. *Lifecycle*: what `docs/handbook/conventions.md` asks of long-running
components - a normal shutdown emits no error, a terminal failure fails liveness and
readiness - holds in every race of crash, cancellation and watcher; the database is
closed under a handler only if that handler's server ran over its deadline or had
crashed, and never under a gRPC handler; the process ends although a gRPC handler may
hang for ever, because the grace period is waited for outside the sequence. *Probes*:
the monitor may put SERVING back once after `Shutdown` withdrew it, but it always has
the last word, and that is NOT_SERVING.

### Bounds, and why they are enough

* Two publishers with a shared batch meet every conflict of two transactions; two
  events in a batch of two give every position of a failure in a batch, and a
  batch smaller than the table occurs in `outbox_live`. `RetryCap` = 1 makes the
  saturation of the counter happen.
* A cleaner batch of one with two batches per cycle reaches the full batch, the
  short batch and the batch limit.
* Three calls on two slots give two holders and a waiter: hand-overs happen while the
  waiter gives up, and two slots come back at the same time.
* The run of `Pipeline` has two consumers and up to two copies of an event (`MaxCopies`),
  so that one copy is redelivered while it is handled, two copies are handled side by
  side, and two transactions insert the same record. `MaxStored` = 1: a behaviour follows
  the valid or the invalid event, since the liveness check is too slow for both. Events
  meet only in the consumers, of which each handles one delivery at a time; the proofs
  cover any number of events, copies and consumers. Those about the publisher likewise
  cover any number of calls and slots, those about the limiters any calls, times and
  rates, those about the assembler any files, edits and runs.
* `MaxVersion` and `MaxToken` bound the credential changes of an account and the
  rotations of a session: a request may lag a version behind, and a token two
  rotations. Two requests are a winner and a loser; the cleaner and the request through
  the middleware are third parties. Again the proofs cover every number of them.
* One API token suffices, as rows and buffer entries do not interact; two replicas
  write its row from buffers of different ages, and three uses fill a channel of one,
  a buffer and the one put aside.
* Three calls on a bucket of two with two attempts reach refusal and contention. Eleven
  ticks with seconds of five see a bucket die and come back. `Window` and `Rate` do not
  divide, so the interval is rounded up, and then truncated to ticks; the refill takes one
  second exactly, the edge of the rounding of the lifetime. In `rate_limit_redis` the
  interval is whole ticks, so that the lifetime alone is at fault: the refill takes two
  and three quarters milliseconds.
* `MaxEdits` = 2 lets a run meet any two changes of the drafts or paths at any moment,
  among them: two decisions that replace one another in a circle, a chain that ends in
  a proposal, two pages with one ID, equal numbers under different IDs, a file deleted
  after it was listed, a link target removed between two look-ups. Runs are not
  counted.
* `Lifecycle` and `Probes` have no bounds of their own: there are only three servers.
  The run of `Lifecycle` leaves out the HTTP server, whose steps are those of the gRPC
  server with a deadline, and has a generic component in its place.
* `MaxVersion`, `MaxToken`, `MaxCopies`, `MaxClock` and `MaxEdits` bound the model
  only; the proofs hold for every value of them.

The type invariants are no properties of the runs: each is proved, as a theorem of its own
or as a part of an inductive invariant.

Deadlock is not checked in the runs of `Access` (when every account is deleted
and every session removed nothing is left to do), `BoundedPublisher`, `ApiTokens`,
`MemcachedLimit` and `RedisLimit` (each call is made once and ends, and time is
bounded), `Lifecycle` and `Probes` (the process exits). `Outbox`, `Pipeline` and
`Assembly` never stop.

Symmetry is used only where no liveness property is checked: replicas and cleaners in
`outbox_safety`, calls in `rate_limit_memcached`. Messages are ordered and therefore
never symmetric in `Outbox`.

### Fairness

* *Outbox*: clocks advance, tickers fire and a worker inside a run takes its next
  step (weak fairness): the code's loops have no other way to stop. Of the outside
  world it is assumed that a broker offered a message again and again accepts it at
  last, that a run which published it is not rolled back for ever, and that the
  cleaner's statements do not fail for ever (strong fairness): the code retries
  without a limit, so this is the least that can lead to success. Errors,
  timeouts, lost connections and late calls may happen at any time.
* *BoundedPublisher*: goroutines that can run do (weak fairness of the Go
  scheduler). Nothing is assumed of the broker, nor of contexts; `WaitersServed`
  has the condition that no broker call hangs for ever as its hypothesis.
* *Pipeline*: the outbox delivers (its own liveness property), and a consumer with a
  delivery in hand does something with it, if only to fail: all its calls end (weak
  fairness). Of the outside world it is assumed, for each event, that the broker delivers
  again what it still holds, that the deliveries are not all cut short before the handler
  ran, and that the commit and the dead-letter publication do not fail for ever (strong
  fairness).
* *Session*: tokens expire, the cleaner's ticker fires again after an error, and
  its DELETE does not fail for ever. `Access` assumes no more: nothing of requests.
* *ApiTokens*: the two goroutines are scheduled and the ticker ticks (weak fairness).
  Nothing is assumed of requests, of the database or of the process staying up.
* *Assembly*: a started process takes its next step until it ends or is stopped (weak
  fairness). Nothing is assumed of authors or of further runs.
* *Lifecycle*: startup ends one way or the other (its connection attempts have a
  deadline), goroutines that can run do, and the grace timer fires (weak fairness).
  Nothing is assumed of requests in flight, of signals, of the servers' serving loops
  or of the components' own deadlines.
* *Probes*: the monitor and the readiness goroutine run (weak fairness); the monitor's
  select, finding its context done again and again, takes that branch at last (strong
  fairness), since Go picks a ready branch at random. Nothing is assumed of the
  shutdown itself.

## 4. Proofs

Each proof module assumes only the named assumptions of its specifications, which TLC
evaluates on every instance:

* `OutboxAssumption`: messages are naturals, batch sizes and the batch limit positive,
  the retry cap a natural;
* `SessionAssumption`, `AccessAssumption`: there is an account and a session id, the
  bounds are positive;
* `DeliveryAssumption`, `TokensAssumption`: positive bounds, some token and replica;
* `PublisherAssumption`: there is at least one slot;
* `LifecycleAssumption`: the order of shutdown names each component once, among them the
  enabled servers and the database, and the database after the servers;
* `RateLimitAssumption`, `MemcachedAssumption`: finitely many calls; window, rate, burst,
  lifetime, microsecond, second and attempts are positive (`Limit` refuses other settings);
* `DocumentationAssumption`, `AssemblyAssumption`: the order of paths names a file once,
  the overview is a file of its own, absent and unreadable files are no documents, the
  special marks are no IDs or paths.

Every safety property of a passing run is the statement of a theorem.

*Outbox.* `ProcessedWasAccepted` is not inductive: a commit writes what a worker
remembers, so something must be known about that memory. `OutboxInv` adds that a
batch splits into rows still to publish, published and failed (`RunShape`), that
open transactions hold disjoint batches (`LocksExclude`), that the rows of an *open*
transaction are unchanged and its copies are those rows with at most one attempt
added (`CopiesFresh`), that what is counted as published was accepted
(`PublishedWasAccepted`), and that nothing reaches the broker that was not stored
(`OnlyStored`). `CopiesFresh` speaks of open transactions only: a worker that lost
its connection holds stale copies, and is harmless because it cannot commit. There
is one lemma per kind of step. From the invariant follow `NoEventLost`,
`OnlyInvalidGivenUp`, `RowsAdvance` and `CleanerIsSafe`. `OutboxImplementsRelay`
sorts the steps by what they do to `row` and `accepted` (`TableSteps`) and maps each kind
to a relay action or a stutter.

*The outbox and its consumers.* `ServiceSpec` joins `Outbox` and `Delivery`: a step in
which the broker may take a message puts a copy in the topic when the broker takes it,
and every other step of one side leaves the other alone. A step that offers a message the
broker has already may or may not put one more copy there, since brokers deduplicate.
`ServiceIsPipeline` maps the table's status column to the stage of the abstract relay and
reuses `TableSteps`; the messages handed over are stored ones by `OnlyStored`. With the
theorems about `Pipeline` this gives `EndToEnd`, the promise of the whole path from the
business transaction to the history, for any number of replicas, cleaners and consumers.

*Session.* A session records the version it was opened with, not the password. The
bridge is that a version never changes its password: a row read in the past and the
account's row agree on the password whenever they agree on the version
(`ReadsBehind`, `SessionsBehind`). `ExchangedOnce` ties the count of exchanges to the
current token, `RefusedRevoked` says a refused family is revoked for good,
`IdsIssued` that only issued ids are held by requests, `CutoffPast` that the cleaner's
cutoff lies in the past. From `SessionInv` follow the five safety theorems, and with
it `SessionImplementsFamily`: every step exchanges one token, issues a family, kills
some, or stutters; nothing revives one. `RevocationIsFinal` says the last of the concrete
rows: a session that has ended stays ended.

*Access.* `NoLateAdmission` rests on exactly that last fact. `LateInv` says that a late
request belongs to a dead family and was not validated; it is inductive because a dead
family stays dead under every step of `Session`, and the validating statement does not
find one. `AccessIsSession` carries all theorems about `Session` over to `Access`: the
middleware only reads.

*Pipeline.* `PipelineInv` adds to the types that what the broker remembers it really
has, per destination, and that what it accepted it put in the topic (`BrokerInv`); that
an open transaction that added a record is the only one for its event, and that no record
of it is committed (`OpenInv`), which makes `HistoryOnce` inductive; that
a delivery about to be acknowledged is of an event recorded or dead-lettered
(`WorkInv`); and that the relay counts as delivered only what was accepted
(`SettledInv`). The first is the one that matters: without it a dead-letter copy could
be swallowed as a duplicate, and the acknowledgement would lose the event.

*ApiTokens.* `NoUseForgotten` is carried through every step in a form that names the
note's replica, token and time (`Remembered`). Between two runs nothing is left to
write (`RunInv`), so the swap starts a run with exactly the noted tokens, and the clear
removes nothing that is not settled. `Provenance` says that every time in a channel, a
buffer or a row is that of a use of its token, which gives `LastUseMonotone`.

*BoundedPublisher.* `SlotsConserved` counts running goroutines and handed-over slots;
every hand-over moves one call from the queue to `ready`, so `QueueInv` must know that
nobody is queued twice, or queued and served, and that nobody queues while a slot is
free: otherwise a release would hand a slot to somebody who already has one. `CallsInv`
ties each answer to its goroutine, which gives `MessageIntact` and the refinement of
`PublishCall`. `NeverTooMany` adds that no more than `MaxInflight` broker calls run at
once. `FirstComeFirstServed` says that a slot goes to the first waiter only, that those
behind it keep their order when one of them gives up, and that a newcomer starts at once
only if nobody waits; it needs `QueueInv` too, as the order of a list in which somebody
stood twice would mean nothing. It is the safety half of `WaitersServed`.

*Lifecycle.* `CrashInv` follows an error backwards: a marked failure was seen by a
watcher, an error it saw was reported, and what was reported is the end of a server
nobody had asked to stop. `SequenceInv` says that the components asked to stop are
exactly those up to the current one, and that the ones before it have returned;
`WorkInv`, that work in flight of a server which no longer serves was cut off by a crash
or a deadline. With the order of `LifecycleAssumption` these give `DatabaseOutlivesWork`
and `CompletedMeansClosed`, for every set of enabled servers. `ShutdownGoesForward` says
that the shutdown goes on by one component at a time, only when the present one has
returned, and undoes nothing it did, and that an ended process takes no step: the position
in the order of closers is the measure behind `ShutdownTerminates`.

*Probes.* `LateInv` is inductive because neither a failure nor a cancellation is ever
taken back, and the check a late probe still has to pass reads them. `NoLateReady` is a
theorem of its own: a status once withdrawn is never set to ready by a late `markReady`,
and when the monitor is done nobody reports SERVING again. `LifecycleDrivesProbes` is the
link between the two modules: until the process ends, what `Lifecycle` does to the contexts
and to the calls of the two servers' `Shutdown` are steps of `AppContexts`. Its hypothesis
`HttpFirst` is that both servers are enabled and the HTTP server is closed first, as in the
call of `shutdown` (`cmd/app/main.go:713-720`).

*MemcachedLimit.* The rate is a statement about stretches of time, the bucket holds one
number. `TatInv` says what that number is: the arrival time of a bucket that was full at
one of the stamps and has been charged `intervalMicros` for each token since, in the order
the bucket was stored. `AheadInv` says that it lies ahead of *every* time `a` by the
charge for each token stamped from `a` on. As a call is allowed only if the new arrival
time is within `Burst` charges of its clock reading, `RateInv` follows, and from it,
dividing by what of the interval is charged, `RateHolds`. A swap succeeds only on the version that was read
(`CallInv`), so what was decided is what is stored. A bucket that died was refilled
(`BucketInv`: it outlives its arrival time by memcached's clock), unless a call was held
up. That holds under `LifetimeSuffices`: the lifetime is computed from the interval, and
covers what is charged when the interval is at least a microsecond; a shorter one is
charged more than it is, which the second of padding makes up for up to a burst of a
million. `RateKept` has this condition and allows for `Uncounted`; `StatedRateKept` says
that intervals of whole microseconds keep the configured rate itself. `RefusedRightly` and
`ContentionIsReal` need no condition: truncation errs in the callers' favour.
`AttemptInv` charges every failed attempt to an update of its own.

*RedisLimit.* Its property is violated in the run `rate_limit_redis`. `RedisRateKept`
says how far that goes: under `RefillCovered` - the lifetime in whole milliseconds covers
the charges of a full refill - the property, which allows for `Uncounted`, holds for every
number of calls. The proof shares `AheadInv`, `RateInv` and their
lemmas with that of memcached; only the argument that a dead bucket was refilled differs.
`RedisSettings` has the condition as an operator would check it (`SafeSettings`): the
interval is a whole number of microseconds, and the refill takes a whole number of
milliseconds or the configured lifetime is a millisecond longer. Then the configured rate
itself is kept, `RateHolds` with nothing early.
`RedisRefusesRightly` needs no condition on the lifetime: whatever is forgotten early, a call
is refused only when the tokens taken from some moment on are all that burst and rate allow
(`Spent`), so the rounding errs in the callers' favour only. Its invariant `RedisTatInv` is
the counterpart of `TatInv`: the stored time is that of a bucket full at one of the stamps
and charged for every token since, which holds across a bucket that died because the new
one starts from its own stamp.

*Assembly.* Each loop over the pages keeps its promise for the pages it has passed
(`Checked`, `Referred`, `Published`, `Filed`). `Walk` is the invariant of the walk along
replacements: no set of IDs closed under replacement can hold the start without holding
every ID seen. So a walk that ends in an accepted decision has shown what `Sound` asks
for, and one that comes back to a seen ID has found a closed set without an accepted
decision, which refutes it: the walk is exact, not just safe. That neighbouring rows
ascend means that the index is sorted (`Ascends`) by the principle of the least number,
which stands in for an induction. A site that is not being replaced is the whole of one
accepted set of documents, or `torn` (`SiteInv`).

`RunsGoForward` is the safety half of `RunsEnd`. Each step of a run, as long as it runs,
goes to a later stage or, within one, to a later collection, a shorter queue of files, a later page
of those listed, or a strictly longer walk among the IDs the pages have (`Forward`). All of
these are bounded by what was read at the start, which no edit changes afterwards; a walk
in a circle of replacements is bounded by the set of IDs it has seen. `AssemblyTypes` is the
type invariant, in four parts: the checkout, the control, the bundle, the site.

*Proved, and not among the runs' properties*: the compositions `ServiceIsPipeline`,
`EndToEnd`, `AccessIsSession` and `LifecycleDrivesProbes`; the steps forward `RunsGoForward`
and `ShutdownGoesForward`, and the order of service `FirstComeFirstServed`;
`OnlyInvalidGivenUp`, `NoStaleProof`, `RevocationIsFinal`, `NeverTooMany`, `NoLateReady`,
`StatedRateKept`, `RedisRateKept`, `RedisSettings` and `RedisRefusesRightly`; the type invariants `TypeCorrect`,
`ProbesTypes` and `AssemblyTypes`; and the inductive invariants `PublisherSafe`,
`ProcessSafe`, `LimitSafe` and `ValidationSafe`.

*Only model-checked.* Liveness, as fairness and ENABLED are outside the prover's reach:
`EventuallyDelivered`, `EventuallyRemoved`, `TimedOutReturns`, `WaitersServed`,
`EventuallyHandled`, `ExpiredSessionsRemoved`, `CrashNoticed`, `ShutdownTerminates`,
`ProbesWithdrawn`, `RunsEnd` and `UsesAreWritten`. Of `WaitersServed`, `ShutdownTerminates`
and `RunsEnd` the part that needs no fairness is proved, as said above.

## 5. Not modelled, and why

* Startup connections: each is opened once, in sequence, before anything is served.
  What an abandoned attempt leaves behind ends with the process, which `log.Fatalf`
  stops when the retries are used up.
* The no-op and in-process event backends: with them an event may be marked processed
  without reaching anyone, as the handbook says; the pipeline's properties are about
  the durable brokers.
* Details of the database engines: serialization errors and deadlocks appear as
  failures of a statement or a commit. Read-committed isolation is what the models
  assume of single statements. Nested use of a transaction context is not modelled.
* Priority queue, pagination and retry delays: small pure functions with table tests;
  the queue orders the gRPC interceptors once, at startup.
* The background workers in `Lifecycle`: they end with the application context, and
  nothing waits for them.
* The syntax of Markdown and YAML, the settings of the site generator
  (`docusaurus.config.ts`, `sidebars.ts`: constants without operations), the vendored
  Swagger UI.
* Roles, permissions, JWT cryptography, password hashing, request decoding, response
  caching, configuration, metrics, logging, generated code: sequential, or pure
  input and output.
* The status column's stale write-back in `UpdateUser` (`repository.go:60`) is in the
  model but no property is about it: no operation of the program changes the status of
  an existing account. Nor is there one about a process that dies between a missed
  rotation and the revocation of the family: the model has that step, and the family
  then stays alive until a token is reused once more, which is all the code promises.

## 6. Plan

1. The local limiter as a third implementation of `RateLimit`, the creation and
   deletion of API tokens beside their use.
2. Background workers in `Lifecycle`, with what they may leave unfinished.
3. Proofs about what the first two add, and one that puts the bounded publisher, by way of
   `PublishCall`, under the outbox's publish step, as `ServiceIsPipeline` puts the outbox under
   the pipeline.
