# A TLA+ model of orchestron

Orchestron receives webhook events over HTTP, validates them against registered JSON schemas, stores them in an
outbox table, and publishes the rows of that table to Kafka or RabbitMQ. This directory models the path of an event
from the configuration of the process and the request to the broker and the subscriber that prints it. TLC checks
the models on small instances; the safety properties it checks are proved with TLAPS for every instance. Paths below
are relative to the repository.

- [The system](#the-system): components, state, interaction, what is hard
- [The modules](#the-modules): what models what, and how
- [The runs](#the-runs): what TLC checks, with which bounds
- [Fairness](#fairness)
- [The proofs](#the-proofs)
- [Where code and documentation disagree](#where-code-and-documentation-disagree)
- [Not modelled](#not-modelled) and [the plan](#plan)

## The system

| Component | Code | State | Operations |
|---|---|---|---|
| API server | `internal/api/server.go` | a token bucket per API key | receive an event (202, then a goroutine), register a schema |
| Event processor | `internal/processor/event_processor.go` | only the goroutine of each event | size check, two schema reads, transform, enrich, publish, `handleError` |
| Schema registry, validator | `internal/repository/schema_repository.go`, `internal/service/{schema,validator}.go` | table `event_schemas` | insert a version, read the latest |
| Dead letter queue | `internal/service/dlq.go`, `internal/repository/dead_letter_repository.go` | table `dead_letter_queue` | insert; list and mark (no caller yet) |
| Event publisher | `internal/service/publisher.go` | none | one INSERT into the outbox |
| Outbox repository | `internal/repository/outbox_repository.go` | table `event_outbox` | insert, read a page, three updates; clean up (no caller yet) |
| Database connection | `internal/repository/database.go` | a pool of connections | connect until it works, close |
| Outbox processor | `internal/processor/outbox_processor.go` | the page it works on | poll, publish with retries, record the outcome |
| Routing service | `internal/service/routing.go` | the route table, constant | broker, exchange, limit, topic, routing key of a type |
| Kafka publisher | `internal/broker/kafka.go` | a producer with its buffer and reports | produce and wait for the report; flush and close |
| RabbitMQ publisher | `internal/broker/rabbitmq.go` | one AMQP channel, opened once | publish without confirms |
| Configuration | `internal/config/config.go` | none | file, variables and defaults into settings |
| Main | `cmd/orchestron/main.go` | the life of the process | load, connect, serve, drain, close |
| Example subscriber | `cmd/subscriber/main.go` | a queue, one delivery at a time | declare, bind, consume, print, acknowledge |

The components share nothing in memory but the configuration and the broker connection. They interact by direct calls
within a goroutine, and across goroutines and processes through the tables only: a request goroutine writes
`event_outbox`, the polling loop of any instance reads it. So each table is a piece of shared state with concurrent
writers, and each database call is a step. Within a process the pool of connections, the producer and the token
buckets are shared as well.

What is hard to get right here:

- *Interleaving.* Several instances may run on one database. No query locks what it reads, and the updates test only
  the id of a row. A validator reads its schema twice while the registry grows.
- *Failure.* A database call may commit though its answer is lost. A broker may hold a message though the call
  failed, or not hold it though the call succeeded. A process may end between any two steps.
- *Retries.* `go-retry` with `NewExponential` alone tries without end, and `processBatch` does so inside the loop over
  its page. Errors that will never go away are retried as well.
- *Shutdown.* Cancellation reaches the loop in the middle of a page, where every further database call is refused;
  main waits for requests, for ten seconds, but not for the goroutines they started, nor for the loop.
- *Waiting.* Transactions hold a connection while they wait for a row; whoever delivers a Kafka report, the
  producer's goroutine or main in `Flush`, waits for a receiver; a subscriber waits on a channel that may be closed.

What makes the components correct:

- Outbox: a row leaves PENDING only after delivery and never returns; nothing is given up; duplicates have a cause;
  what was saved is eventually delivered.
- Pipeline: an event is stored or dead-lettered, never both; what is stored was valid; an event disappears only for a
  known cause; every event is eventually dealt with.
- Registry: a schema that was found stays found, since every table of versions that is not empty has a latest one.
- Repository: connections come back, no update is lost, nobody waits for ever, a call looks like one step.
- Kafka publisher: nil only for what is in the log, one message at most per call, no call waits for ever, and a
  shutdown gets through except in the one case that is known.
- RabbitMQ and the subscriber: nothing vanishes from a bound queue, nobody holds what another holds, a message is
  printed again only for a fault.
- Service: each key has the requests its bucket allows and no other key takes them; a graceful stop answers everybody
  and finds the database open; settings come from the source that has the say, sound ones come up, a drained process
  ends, and none ends by itself without a cause.
- Together: the broker sees only valid events, never a dead letter; every accepted event is settled, dead or lost for
  a cause.

## The modules

| Module | Models |
|---|---|
| `Routing` | the lookups of the routing service over the route table |
| `OutboxContract` | abstract: rows are stored, delivered at least once, then settled |
| `Outbox` | publisher, outbox table, polling loops, broker attempts, life of each instance |
| `OutboxTable` | abstract: the outbox table with one indivisible step per repository call |
| `OutboxStore` | the repository: pools, transactions, row locks, commits and rollbacks |
| `PublishContract` | abstract: what a publish call promises the outbox |
| `KafkaPublisher` | produce, delivery report, context, flush and close |
| `RabbitDelivery` | one publishing channel, exchange and queue, the example subscribers |
| `SchemaRegistry` | the table of schemas, its writer and its query |
| `EventFate` | abstract: an accepted event is stored, dead or lost, once and for all |
| `EventJourney` | abstract: the same for the whole service, where a stored event is delivered and then settled |
| `EventProcessor` | from the request to the outbox or the dead letter queue |
| `DeadLetterQueue` | the table of dead letters, its writer and its mark |
| `Orchestron` | pipeline, outbox and dead letter queue together |
| `Configuration` | what `Load` makes of a file and an environment |
| `Service` | main, the server with its middlewares and handlers, requests, shutdown, restart |
| `*Proofs` | theorems of the module they are named after; `OutboxAccountsProofs` holds those of `Outbox` that count |
| `MC*` | small instances for TLC |

How they fit together:

```
Configuration --> Service                          (the process around everything)
SchemaRegistry --> EventProcessor ==> EventFate
EventProcessor, DeadLetterQueue, OutboxContract --> Orchestron ==> EventJourney
Routing --> Outbox ==> OutboxContract              (with Kafka)
Outbox ==> OutboxTable                             (its calls are all it does to the table)
OutboxStore ==> OutboxTable                        (what a call is made of)
KafkaPublisher ==> PublishContract                 (the view Outbox has of an attempt)
RabbitDelivery                                     (what becomes of a message after Outbox)

-->  is extended or instantiated by        ==>  implements, checked and proved
```

`Outbox` and `EventProcessor` meet at `PublishEvent`: the latter sees only how many rows an event has
(`outboxRows`), the former begins with the call. A definition of the form `Name_Variant` under the comment "Mutant" is
a faulty version of `Name`. No specification uses it; it exists to show that the property watching `Name` would notice.

### Outbox

A step is one transaction, one publish attempt or one event in the life of an instance.

| State | Code |
|---|---|
| `outbox[r]` | a row of `event_outbox`; `r` stands for its `created_at`, which orders the pages (equal stamps are not modelled) |
| `publishing[p]`, `arrived`, `saved` | calls of `PublishEvent` in progress on instance `p`, ever made, and answered nil |
| `pc[p]`, `batch[p]` | where the loop stands in `processBatch`, and the rest of its page *as it was read* |
| `copies[r]` | messages the broker holds for a row |
| `life[p]` | up, stopping (`cancel()` called), down |
| `channel[p]` | the AMQP channel: open, broken without the client knowing, closed |
| `attempts[p]` | failed attempts at the current row |
| `faults[kind]` | faults so far: lost answers of an INSERT, broken connections, loops kept from recording what they did (a failed UPDATE, a late delivery report, a signal, a crash); their sum is bounded by `MaxFaults` |

`CallPublishEvent`, `SaveEntry` and `SaveUnacknowledged` are `PublishEvent` with its INSERT, whose answer may get
lost. `ProcessPendingEntries` reads a page. For the oldest row left in it the loop takes `DecodeFailure` and
`IncrementRetryCount`, or attempts until `PublishAccepted` or `PublishLost` and then `MarkAsPublished`, or, once
cancelled, `AbandonRetry`, `IncrementRetryCount` and `MarkAsFailed`. Updates of rows go through `UpdateEntry`:
committed, failed (a fault, only logged), or refused because the context is cancelled. A COMMIT that was sent before
`cancel()` still takes effect, so an update at "mark" or "undecoded" may succeed in a stopping instance; the updates
of the error branch begin after the cancellation and are refused. A COMMIT that takes effect when its process is
already gone is put before the end of the process; that a restarted loop may read the row in between is covered by the
update that is refused. `Cancel`, `Exit`, `Crash` and `Restart` are main and the restart policy of
`docker-compose.yml`. A call that fails without effect and is tried again is no step: it would change nothing.

The brokers differ in what a return value means. With Kafka an attempt waits for the delivery report, so nil means
the message is in the log, while an error leaves it open. With RabbitMQ nil means only that a frame was written:
`PublishLost` is a message written to a connection that is already dead, or to an exchange nobody declared, upon
which the server closes the channel.

### OutboxStore

`Outbox` takes a repository call for one step. `OutboxStore` looks inside: a call takes a connection of its
instance's pool (`Begin`; `BeginFails` when the context is done or the connection breaks), executes its statement, and
commits or rolls back. `free[i]` counts the connections of a pool nobody holds, `call[c]` is what a client does and
how far it is, and `draft[c]` holds the rows its statement has locked, with the values a commit would give them.

`Update` is `MarkAsPublished`, `MarkAsFailed` and `IncrementRetryCount`: they wait for the lock of their row and
compute the new value from the row as then committed, which is what `READ COMMITTED` does. `CleanupOldEntries` chooses
its rows when it starts, comes to each later (`Visit`), in any order, since the statement has no ORDER BY, and looks
at the row again if somebody changed it. Two DELETEs may then wait for each other (`WaitsFor`), and PostgreSQL aborts
one of those on such a circle (`Deadlocked`; SQLSTATE 40P01), whose call rolls back and returns an error. `Save` is an
INSERT without an explicit transaction, `Find` a plain SELECT. `Commit`, `CommitFails` (with or without an effect) and
`Rollback` end a transaction and release the connection; `Cancel` is the context of the loop. `OutboxTable` has one
step per call, and a refinement mapping that is the identity on `table`.

`faults[kind]` tells a COMMIT whose answer is lost, which may have taken effect, from a statement that fails and leaves
nothing behind: only the former lets a count exceed its acknowledged calls (`CountsAccounted`). That PostgreSQL notices
a circle is the one assumption of this module that the code does not show; without it `CallsReturn` fails.

### KafkaPublisher

One call of `PublishToKafka` after the other, as the loop makes them: `Enter`, `Produce` or `ProduceFails`, then
`ReceiveReport` or `GiveUp` (the context is done). Below them are the producer's `buffer`, the `wire`, the `log` of the
broker and the `reports` not yet delivered; `poller` is the report that the delivering goroutine tries to send on the
channel of its call, which has no buffer. `ContextDone`, `Flush`, `Close` and `Restart` are the shutdown of main.
`Flush` of confluent-kafka-go 1.9.2 takes reports in main's own goroutine (`FlushPolls`, `flusher`) and looks at its time
only between two of them, so the report of a call that gave up holds main there until somebody kills the process
(`Restart`, also without a fault once the shutdown has begun). `ShutdownGoesOn` says that nothing else holds it up.
librdkafka and the broker appear as what they do with a message: `Transmit`, `Append`, `DeliveryFails`, `Poll`. The
mapping to `PublishContract` takes `log` for what was taken and reads the answers.

### RabbitDelivery

Messages are numbered in the order they are published, so a set stands for a queue that is ordered by age.
`PublishToRabbitMQ` writes to the channel (`channel`, `wire`), `Route` takes a message to the queue or, when none is
bound, drops it without notice (`mandatory` is false). A subscriber goes through `Declare`, `Bind`, `Consume`, then
`Receive` (which prints) and `Ack`, with one delivery at a time (`Deliver` under `Qos(1)`). `Signal` is an orderly stop,
`Crash` one that is not, `DeliveriesEnd` the loss of the connection, after which the `select` spins. `BrokerRestarts`
keeps the durable queue and persistent messages and takes back what was not acknowledged; `Expire` is the message TTL.

### EventProcessor

`stage[e]` is the place of the goroutine of event `e` in `ProcessEvent`; `outboxRows` and `deadLetters`
count its rows. The schema is read by `GetSchema` and again by `Validate`,
which waits as long as the latest schema does not load: the code calls every error of the validator retryable.
`DeadLetterFails` is the single attempt of `handleError` failing, for whatever reason the database has, with or without
the row being there. `Panic` is `retry.NewExponential` with a base of 0. `Stop` ends the process at any point, in a crash
or in order: main waits for requests, not for the goroutines they started. One process is enough, since goroutines of
different processes share no more than those of one. JSON schema evaluation is the constant relation `Accepts`.

A version is a sequence of character codes, because the order of the database on text is what decides which schema is
the latest.

### DeadLetterQueue and Orchestron

`DeadLetterQueue` has the rows of the table in the order of their ids. `ReprocessEntry` sets a mark and does nothing
else; the paged listing changes nothing and is left out. `Orchestron` puts the parts together: `ProcessorStep` is a
step of `EventProcessor` with the row it adds to the dead letter queue, `OutboxStep` one of `OutboxContract` on the
rows of `event_outbox` (`Stored`: one for each INSERT of an event), `OperatorStep` a call of the dead letter service.

### Configuration and Service

`Load` is a function of a file and an environment: plain variables before prefixed variables before the file before
defaults; a prefixed variable counts only for a key that the file or a default already has; durations and sizes decode
or do not; an interval that `ParseDuration` refuses becomes five seconds. `Service` starts from any of its results.
`SettingsRespected` states what `Load` has to get right, for any file and environment. `main` is the place of the main
goroutine: `LoadConfig`, `NewDatabase` (which tries for ever), `NewBroker` (or `BrokerFails`: an unknown type, values
that `NewKafkaPublisher` gets refused, as `max_retries` below one for an idempotent producer, or no RabbitMQ to
connect to), then the server (`Listen`), the loop (`StartLoop`, which panics on an interval that is not positive) and
`Notify`. A request goes through `AuthMiddleware`, `RateLimitMiddleware` with `tokens` and `Refill`, and a handler;
the event handler leaves a goroutine (`event`) behind its 202. After `Signal` main drains (`Shutdown`, or
`ShutdownFails` after ten seconds), cancels the loop, and its deferred calls close broker and database; that closing
the broker returns is assumed here, and `KafkaPublisher` shows when it does not. `Restart` is the policy of the
container.

## The runs

| Run | Question | Answer |
|---|---|---|
| `MCOutboxKafka` | do two instances deliver at least once, with accounted duplicates and final statuses? | yes |
| `MCOutboxRabbit` | what can RabbitMQ lose? | rows, but only once a connection broke or a row of an undeclared exchange was published, whatever else fails |
| `MCOutboxLive` | does every saved event get out, and does no loop get stuck? | yes, under the fairness below |
| `MCOutboxStore` | do concurrent repository calls keep the pool, the counts and the table, and do they all return? | yes, some of them with an error after a deadlock |
| `MCKafkaPublisher` | does a call keep its contract while reports, cancellation and `Close` race, does it return, and does a shutdown get through? | yes, the last unless `Flush` takes the report of a call that gave up |
| `MCRabbitDelivery` | does the queue lose, duplicate or strand a message? | only for a broken connection, an expiration or a fault |
| `MCEventProcessor` | is an event validated, stored or dead-lettered once, lost only for a cause, and dealt with? | yes, the last if its latest schema loads again and again |
| `MCOrchestron` | from the API to the broker: does every event make the journey, and is what is delivered valid? | yes |
| `MCService` | do settings come from the right source, who is served and throttled, what does a shutdown wait for, does the process come up and end, and why? | as stated by its properties |
| the other three | what the documentation says and the code does not do | [see below](#where-code-and-documentation-disagree) |

Bounds and why they suffice:

- *Two instances* in the safety and liveness runs of the outbox. What an instance may meet is another one ahead of it
  or behind it on the same rows; a third adds more of the same, and the proofs hold for any number.
- *Three rows, two events, pages of two*: pages that are full and pages that are not, a row that waits behind a page,
  and room for a second row of one event. `MCOutboxLive` has pages of three, because a row that does not decode
  stays in every page for ever, and a page has to be larger than the number of such rows.
- *A retry limit of one* in the outbox, `RetryCap` equal to it: the count reaches the limit within the faults allowed.
- *Three faults* in `MCOutboxKafka`: each property has a violation under its faulty variant with fewer. Two with
  RabbitMQ, one in the liveness runs: each costs a restart or a lost update, and nothing accumulates.
- *`AttemptCap`* only counts for `RetriesBounded`; elsewhere it is 0 or 1, so that the count does not multiply states.
- *Two pools of one connection, three clients, two rows* in `MCOutboxStore`: a loop that reads, marks, fails, counts and
  cleans up rows against a loop that counts and cleans up the same ones, and shares its only connection with a
  goroutine that inserts. So updates of one row meet, two DELETEs meet in either order of two rows, and a DELETE meets
  an update of a row it has chosen. One connection is the hardest case for `CallsReturn`. Two counts (`MaxCounts`) are
  what a lost update needs.
- *Four calls, three faults* in `MCKafkaPublisher`: calls before and after a restart, one of each kind of failure.
- *Two subscribers, two messages, two faults, expiring messages* in `MCRabbitDelivery`: a message may change its holder
  while another waits behind it.
- *Three events, two types, two versions, two schema texts* in `MCEventProcessor`: a strict text that rejects one event
  and a malformed one, in any order of registration; versions 9 and 10, whose order as text differs from
  their order as numbers; one oversized event; `retry_backoff` set and unset. So each event can meet no schema, a
  schema that rejects it, one that does not load, and a change of schema between the two reads.
- *Three events of one type* in `MCOrchestron`: one that is accepted, one rejected, one too large.
- *Six files, four environments, two keys, three requests* in `MCService`: settings that start and settings that stop
  a process at each place it can stop; two requests of one key for a bucket of one token, one of the other key; one
  refill and one fault.

`MCOutboxKafka` uses symmetry of the two instances, which no property distinguishes; it checks no liveness. No run
turns deadlock checking off: a state without a successor would be reported.

## Fairness

`Outbox!FairSpec`: the ticker fires again and again, so a loop that is idle polls (`ProcessPendingEntries`); goroutines
are scheduled and database calls answer, so each next step of a page is taken (`DecodeFailure`, `MarkAsPublished`,
`AbandonRetry`, `IncrementRetryCount`, `MarkAsFailed`, `LeaveLoop`, `SaveEntry`); main returns after `cancel()`, or
is killed by whoever stops the container when `Flush` holds it (`Exit`);
`restart: unless-stopped` starts a container that stopped (`Restart`). For `PublishAccepted` the assumption is about the
broker: retries without limit meet, at some time, a broker that answers. All of it is weak fairness: none of these
steps is disabled and enabled again by somebody else while it waits. Nothing is assumed of the steps that are
failures; `MaxFaults` bounds them.

`OutboxStore!FairSpec`: strong fairness of each client's progress. A connection or a row lock is taken and given back
by others while a client waits, so weak fairness would not do; `database/sql` hands a returned connection to the request
that waited PostgreSQL queues those who wait for a lock and looks for a circle among them after `deadlock_timeout`.

`KafkaPublisher!FairSpec`: weak fairness of the calls, of transmission, of the goroutine that delivers reports, and of
main once it closes, as long as `Flush` does not wait for a receiver. That the context ends, or that a report is a
failure, is not assumed.

`RabbitDelivery!FairSpec`: the broker routes and delivers, and a subscriber that was started goes on. Nobody has to start
one or to publish; `QueuedIsPrinted` says what follows when the same subscribers go on consuming.

`EventProcessor!FairSpec`: weak fairness of `ProcessEvent(e)` for each event, that is, goroutines are scheduled and the
database answers. There is none for registering schemas, which is why the liveness of an event is conditional
on its latest schema.

`Service!FairSpec`: main, the server's goroutine and the loop's start are scheduled, the ten seconds of the shutdown
pass, the database can be reached, and the publisher's `Close` returns. Handlers have no fairness: one may hang, and
the process must end all the same.

`Orchestron!FairSpec`: each event's goroutine as above, the restart, and each row's way through the outbox, which is what
`MCOutboxLive` checks of `Outbox`.

## The proofs

Every invariant, action property and refinement of the passing runs is a theorem, for all values of the constants
that the named assumptions allow. So are statements that only the proofs cover:

- `TypeOK` of every module;
- `AdmissionBounded` and `WorkShowsSettings` of the service,
  `MessagesAccounted` and `DeadLettersStayDead` of the whole;
- `UsesTable` and `OutboxKeepsContract`, which close the gaps between the modules: `Outbox` works on its table as
  `OutboxTable` says, which `OutboxStore` implements, and the outbox inside `Orchestron` behaves as `OutboxContract`
  says, which `Outbox` implements;
- `NothingSaved`, about every configuration.

What the properties alone lack to be inductive:

`OutboxProofs` (any set of instances, events, route table and bound)

- `TypeCorrect`: type correctness. It includes that a page in memory only names rows of the table.
- `Final`, `NeverFailed`: a PUBLISHED row stays PUBLISHED; no row becomes FAILED. They rest on the invariant
  `StoppedLoop`: a loop stands in the error branch of `processBatch` only while its instance is stopping. The branch
  contains the writes that would break the properties; the invariant shows that these writes are always refused.
  `StepEffect` sums up what any step may do to the table, and each theorem follows from it.
- `Delivery` (with Kafka): a row that is not PENDING was delivered. The inductive invariant `DeliveryInv` adds that a
  loop about to mark a row has delivered it (`MarkedIsDelivered`) and that a Kafka producer is never in the AMQP state
  "broken" (`NeverBroken`). With RabbitMQ the statement is false, since nil comes without a confirm.
- `Refinement` (with Kafka): every step of `Outbox` is a step of `OutboxContract` or a stutter.
- `TableUse` (either broker): seen without the events, every step that touches the table is one call of `OutboxTable`.

`OutboxAccountsProofs` (the counting arguments)

- `Rows`: `RowsInv` counts the row that a call in progress still owes together with the rows that exist.
- `Duplicates`: `CopiesInv` distinguishes open rows from settled ones. Each message of an open row has a loop that is
  about to mark it, or a fault; to a settled row, only loops that still have it in their page can add another, and
  each of them once.
- `LossCause`: `LossInv` traces every message that was not taken to a broken connection or to a row with an undeclared
  exchange, through the channel that row closed and the loops about to mark what was lost with it. Faults of the other
  kinds may happen at any point and are no cause by themselves. A loop that published such a row and was kept from
  recording it leaves the row PENDING, which is why the property has that case.

`OutboxStoreProofs` (any pools, clients and calls)

- `Pool`: free connections and transactions in progress add up to the pool, step by step (`TypeAndPool`).
- `Serialized`: `DraftShape` says which rows a call may have locked; with it no two transactions hold one row, and
  a draft is what its call makes of the row as it is.
- `Counted`: `NotYetCounted` (no count for a row to come) makes `CountsAccounted` inductive.
- `Refinement`: a commit is the step of `OutboxTable`; all other steps stutter.

`KafkaPublisherProofs`: `InOrder` (one call at a time), `MessagesProduced` (what is on its way was produced),
`ReportsTrue` (a positive report means that the message is in the log), `StillWaiting` (while the context lives, the
call of each outstanding message or report waits). They give `Refinement`, and with `ServiceInv` they give `Meeting`:
as long as the context lives, the delivering goroutine never stands before a call that is gone (`StillWaiting`,
`OneAtATime`), and no call waits for a report that nobody will bring (`WaitingIsServed`: its message is somewhere on
the way). `ClosedAfterContext` is why the condition is the context and not the producer: main closes the one after the
other.

`EventProcessorProofs` (any events, types, versions and schema texts)

- `Exclusive`: an event is never in both tables. `FateInv` ties the place of the goroutine to the rows: an event that may
  still be rejected has no row in the outbox, and one that is past the validation has no dead letter.
- `NoUnexplainedLoss`, from `FateInv`: an event that is finished with and in no table means a fault or an unset
  `retry_backoff`.
- `Validated`: what is in the outbox conforms to a registered schema. `ValidationInv` carries that
  from the second schema read to the INSERT; `RegistryGrows` says that registration takes no schema away.
- `StaysFound`: a type whose schema was found keeps a latest one. The order of texts is shown to be transitive and
  total (`TextLessTransitive`, `TextLessTotal`, by the first place where two texts differ), so one more
  version leaves the table with a greatest one (`RegisterKeepsLatest`); the set of versions need not be finite.
- `Refinement`: the pipeline implements `EventFate`.

`RabbitDeliveryProofs`: `PlaceInv` (each message is in one place, and what a subscriber has in its hands is one
delivery) gives `Holder`; `AccountInv` follows a message from place to place (`NoVanishing`); `RepeatInv` counts
`printed`, the subscribers with the message in their inbox and the delivery that may still come against `1 + faults`
(`Repeats`).

`ServiceProofs`: `OrderInv` ties what is open to the place of main (`DatabaseFound`, `Graceful`); `LimiterInv`, while
requests are served, is the balance `tokens + taken = burst + refilled` of each key (`Admission`, `Throttled`).
`SettingsLoaded` proves `SettingsRespected` of any file and any environment, whether in the sets a process may start
with or not: plain variables win, an interval that is not positive was written so, and no variable alone sets
`retry_backoff`; `Loaded` is the invariant. `SettingsInv` ties the place of main to the settings it got past
(`Passed`), so a process that is sent requests, polls or saves events has the settings for it (`Settled`), and a panic
or a fatal end has a cause (`Cause`). Both together give `NothingSaved`: as long as no config file has
`retry_backoff`, no event is saved, whatever the environment; the sample in `config.yaml.example` has it, a deployment
by variables alone does not.

`OrchestronProofs`: every behaviour of the whole is a behaviour of `EventProcessor` (`PipelineRuns`), so the theorems
about it hold there as they stand. `CompositionInv` adds that only stored rows are delivered, that rows beyond the
first go back to faults, and that both views of the dead letter queue agree; `Validity`, `Dead` and `Messages` follow.
`Refinement` maps an event to where it stands in `EventJourney`; the steps that need the invariant are those of the
outbox, where a second row of an event must not take it back from delivered to stored. `OutboxContractKept` maps the
rows: a process that ends takes none away, and an INSERT is one `Store`.

The only assumptions are the named ones on the constants (`RoutingAssumption`, `OutboxAssumption`, `StoreAssumption`,
`KafkaAssumption`, `DeliveryAssumption`, `RegistryAssumption`, `ProcessorAssumption`, `ServiceAssumption`,
`OrchestronAssumption`), which TLC evaluates in the runs, and `BrokerType = "kafka"` where a theorem says so.
Model-checked only: all liveness (`SavedEventReachesBroker` and the like, under the fairness above), which the prover
does not reach.

## Where code and documentation disagree

| Run | Quoted | What the code does |
|---|---|---|
| `MCOutboxRetries` | `routing.go`: "the maximum number of retries for an event type" | retries without limit; the maximum is consulted only after cancellation |
| `MCOutboxReconnect` | `README.md`: "reliable event publishing even during failures" | a closed AMQP channel is never replaced |
| `MCEventProcessorPanic` | `config.go`: "If the config file is not found, it's okay" | `retry_backoff` is then 0, and the first event ends the process |

Each of these runs ends with a counterexample for the one property it checks.

Also seen while modelling, without a run of its own. About events and their way:

- A type routed to the other broker is retried for ever and blocks the rows behind it (`kafka.go:119`,
  `outbox_processor.go:113`). Setting only `broker.type` to rabbitmq does that to every type without a route, since
  `routing.defaults.broker` stays kafka.
- RabbitMQ is used without confirms, so a row may be PUBLISHED whose message is lost (`rabbitmq.go:129`).
- An event answered 202 is in no table until its INSERT; a process that ends before, "Server gracefully stopped"
  included, loses it (`server.go:121`, `main.go:125`).
- A text that is no schema can be registered and makes its events wait for ever (`event_processor.go:177`).
- `handleError` tries the dead letter queue once; when that INSERT fails the event is gone (`DeadLetterFails`, allowed
  by `LossIsExplained` as a fault).
- `ORDER BY version DESC` sorts text, so `FindByType`, "finds the latest schema", prefers version 9 to version 10
  (`TextLess`). No property says that the latest schema is the newest: of versions counted as numbers it would be
  false.
- `Flush` of the Kafka client delivers reports in main's goroutine, on channels without a buffer (`kafka.go:96`,
  `124`). A call that gave up at `cancel()` receives nothing, so its report may hold main there for ever, "Server
  gracefully stopped" already logged and the flush timeout of no use (`FlushPolls`, the exception of
  `ShutdownGoesOn`).
- Dead letters cannot be listed while one of the page is unprocessed, whose NULL `processing_result` does not fit a Go
  string, and `ReprocessEntry` only marks an entry; for an id that does not exist it returns nil
  (`dead_letter_repository.go:63`, `dlq.go:71`).
- A subscriber that has lost its connection spins and takes no message any more (`subscriber/main.go:136`).

About the configuration:

- The samples of `README.md` and `docs/technical_documentation.md` have `max_payload_size: "1MB"`, which `Load` refuses.
- `docker-compose.yml:19` sets `ORCHESTRON_API_API_KEY`, which nothing reads: the plain variable is `API_KEY`, the key
  `api.api_keys`. A prefixed variable for a key without a default, such as `ORCHESTRON_OUTBOX_RETRY_BACKOFF`,
  has no effect unless the file has the key too.
- Routes with a dot in their type, as "order.created" in `config.yaml.example`, never match: viper splits keys at dots.
- An interval of zero or less is a panic in `NewTicker`. A wrong database password is retried for ever.
- `kafka.go:95` is commented "Add context timeout", but no timeout is added.
- `dlq_events_total`, "the total number of events sent to DLQ", is incremented by `handleError` and by the service it
  calls (`event_processor.go:267`, `dlq.go:32`).
- The enricher commented "Add processing timestamp to all events" is registered under `*` and looked up by the exact
  type, so it runs for no ordinary event (`transformer.go:78`, `122`).

## Not modelled

- Metrics and the Go interfaces: they have no state anything depends on.
- Functions nobody calls: `Stop`, `tryAcquireLock`, `releaseLock`, `PublishEventBatch`, `WithTransaction`,
  `FindByTypeAndVersion`, `CreateIndexes`, `HealthCheck`, and `GetDeadLetterEntries`, which only reads. The clean-up and
  `ReprocessEntry`, which have no caller either, are modelled, since they write to tables others use.
- The database's ping loop, whose answer nobody reads; parsing of requests; evaluation of JSON schemas; logging.
- Topics and routing keys, which only address a message, and settings of hosts, ports and buffers.
- What transformers and enrichers write into a payload; the program registers only two, and neither can fail.
- Time: intervals, backoff delays and how long a message lives. A retry or an expiration may come at any time, so every
  order of them and other steps is covered, but nothing is said about how long anything takes.
- Ties of `created_at`, and rows stamped by clocks that disagree beyond the reordering of concurrent calls.

## Plan

Everything planned is done, in this order: `Routing`, `OutboxContract`, `Outbox`; `SchemaRegistry`, `EventFate`,
`EventProcessor`; `OutboxStore`, `KafkaPublisher`, `RabbitDelivery`; `Configuration` and `Service`; `DeadLetterQueue` and
`Orchestron`; the proofs of each. What could follow:

1. Proofs: that an attempt of `Outbox` keeps `PublishContract`, as `TableUse` does for the table; exactly one row and
   one message per event in the absence of faults and other instances, from `Rows` and `Duplicates`; and what `Load`
   makes of the keys that `SettingsLoaded` leaves out.
2. Topics and routing keys as functions of the route table, against a reference definition.
3. The program with its repairs: a limit on the backoff, a channel that is opened again, confirms, and a resubmission
   of dead letters, for which `EventJourney` would need a way back.
