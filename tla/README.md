# Formal models of the core banking platform

TLA+ specifications of the services of this repository, the TLC runs that check them and
the proofs TLAPS checks. Paths are relative to the root of the repository's source (`src/`).

## 1. The system

Four Go services. Each business service owns a PostgreSQL database; they talk through three
Kafka topics, `transfers.requested`, `transfers.completed` and `transfers.failed`. A transfer
is a saga without an orchestrator:

    client -> api-gateway -> transfer-service: row "pending" + outbox event
      -> relay -> transfers.requested -> account-service: debit, credit, outbox event
      -> relay -> transfers.completed | transfers.failed
      -> transfer-service: status of the row;  notification-service: e-mail and SMS rows

| Component | State | Operations | Correct when |
|---|---|---|---|
| account-service: `internal/app/service.go`, `domain/account.go`, `adapters/postgres/account_repo.go` | table `accounts` (balance, currency, status, version), its outbox | `CreateAccount`; `ProcessTransferRequested`: two SELECTs, debit and credit in memory, two versioned UPDATEs, one INSERT into the outbox | no money is made or lost, no overdraft, no lost update; an outcome that is announced is true; every request gets its outcome |
| consumption loop: `adapters/kafka/consumer.go` of three services | the group's offsets, the batch being worked through | poll, dispatch record by record, automatic commit, rebalance, restart | no record is acknowledged before its handler returned |
| outbox and relay: `adapters/kafka/outbox_relay.go`, `adapters/postgres/outbox_repo.go` of two services | table `outbox_events`, the batch read | every 2 s: read 50 unpublished rows by `created_at`, publish and mark each | no row is marked unpublished; every row is published in the end; causal order is kept |
| transfer-service, accepting: `CreateTransfer`, `adapters/redis/idempotency.go` | table `transfers` (UNIQUE key), Redis entries (24 h), its outbox | Redis GET, SELECT by key, INSERT, INSERT into the outbox, Redis SET | a key stands for one transfer; what is accepted is requested |
| transfer-service, outcomes: `HandleTransferCompleted`, `HandleTransferFailed` | status and version of a row | SELECT, versioned UPDATE | a status is final and the one the account-service announced |
| notification-service | table `notifications` | two INSERTs per outcome | each outcome is told on each channel |
| api-gateway: `internal/middleware/middleware.go` | a counter with expiry per client in Redis | INCR and EXPIRE per request, proxying | no more than the limit per window; a client that keeps quiet for one is let in again |
| the saga as a whole | nothing of its own | the two relays | what a client reads of a transfer agrees with the books; retries are free; every transfer settles |
| configuration, `main`, migrations, queries | | | see section 8 |

They share no memory and no database. Calls are HTTP (gateway to service) and SQL or Redis
statements, events go through outbox, relay and topic. Inside a service the HTTP handlers, the
consumer goroutine and the relay goroutine run concurrently, and several instances may run.

What is hard about it:

* **no database transaction anywhere**: a handler is a sequence of statements, each of which may
  fail, fail after taking effect, or be the last one before the process ends. `main` returns
  without waiting for the consumer goroutine, so every deployment can cut a handler short;
* **reads that are stale when used**: balances are absolute values computed from rows read two
  statements earlier, guarded by a version column alone;
* **acknowledgement by polling**: a handler's error is logged and reaches nobody; the next
  `PollFetches` acknowledges the batch, also the records a fetch error made the loop skip;
* **at-least-once everything**: relays publish twice, groups redeliver, clients retry; nothing
  in the account-service remembers which transfers it has carried out;
* **check, then insert** under concurrent requests with one idempotency key;
* **two representations of an amount**: any number of decimals in Go, eight in the column;
* **commands of a pipeline are no transaction**: a counter may go between its INCR and its EXPIRE,
  or never get an expiry.

`PROJECT.json` lists these under `hazards`, each at its line.

## 2. The modules

| Module | What it is | State and actions in the code |
|---|---|---|
| `Numeric` | a NUMERIC(20,8) column | `Stored` is the rounding on writing, `Fits` the overflow check |
| `KafkaConsumer` | `Consumer.Start` over the franz-go group consumer, one partition | `todo[i]`, `cur[i]`: the batch in `EachRecord` and the record in `handleRecord`; `position`, `head`, `committed`: the client's and the group's offsets |
| `Ledger` | abstract specification: atomic postings | what the account-service promises of money, see section 4 |
| `AccountService` | the account-service, over `KafkaConsumer` (`Group`) | one action per SQL statement; `pc[i]` is the statement instance i's handler issues next, `source[i]`, `dest[i]` its copies of the rows |
| `OutboxRelay` | a table `outbox_events` with the relays on it | `batch[r]` is what r has still to do of `relay()`'s loop, `sent[r]` says it stands between `Publish` and `MarkPublished` |
| `KeyRegister` | abstract specification: a register per idempotency key, written once | what the transfer-service promises to clients, see section 4 |
| `TransferRequests` | `POST /transfers` | `pc[q]` is the statement request q's handler issues next; `rows` is the table by its UNIQUE key, `cache` is Redis |
| `Delivery` | what topics, groups and relays come to for a handler | `published` is what the topics hold, `cur[i]` the record in `handleRecord` |
| `TransferOutcomes` | the transfer-service's two outcome handlers, over `Delivery` (`Topics`) | `pc[i]` is the statement the handler issues next, `copy[i]` the row it read, already marked; `rows` is the table |
| `Notifications` | the notification-service's handlers, over `Delivery` | `told[i]` is how far the loop over the channels is; `saved` counts the rows of the table |
| `RateLimiter` | the api-gateway's `Limit` | `counter` and `expiry` are the client's key in Redis; `inFlight` counts the pipelines whose EXPIRE Redis has yet to run |
| `Saga` | `TransferRequests`, `AccountService` and `TransferOutcomes` as one system | `RelayRequest`, `RelayOutcome` carry rows of an outbox into the next service; every other action is a step of one component that leaves the others alone |
| `MC...` | constants for TLC | |
| `...Proofs` | theorems and proofs | `Saga` instances its components together with their proofs, so that `SagaProofs` can cite what is proved of each |
| `SumTheorems` | facts about the sums of the community modules, over finite sets | used by `AccountServiceProofs` and `SagaProofs` |

Granularity: one action is one statement sent to a database, to Redis or to Kafka, with the
computation in memory that follows it (nobody can observe that apart). `ReadDest`, for
example, is the second SELECT together with `Debit`, `Credit` and their refusals.

Failures. A read that fails counts as "account not found", as in the code. A write that fails may
have taken effect (`UpdateErrorAfterEffect`, `SaveErrorAfterEffect`, and the disjuncts of
`InsertError`, `SaveError`, `PublishError`, `MarkError`). `Crash`, `Restart` and `Abandon` end a
handler between any two statements and keep the tables.

Definitions marked *Wrong* in a comment are what a plausible mistake would have made of the
definition that follows. No specification uses them; they show that the properties can fail.

History variables, which no guard of the code reads: `opening`, `debited`, `credited`
(AccountService), `handled`, `skipped` (KafkaConsumer), `earlier`, `missed` (OutboxRelay), `spoiled`
(TransferOutcomes, Notifications), `stamps`, `refusals`, `errors`, `torn`, `last` (RateLimiter; the first
three also bound the number of requests). In `Delivery`, `handled` and `skipped` only decide whether
handing an event out counts as a repetition.

## 3. What is modelled how

* A transfer id, key, account or currency is a model value. Account ids and transfer ids are drawn
  once each, as UUIDs are. A transfer is named by the request that made it.
* Of an event only the transfer it is about matters; `Order` gives what it asks for. Events of
  the transfer-service always parse, so lines 57-69 of the account-service's `service.go`
  cannot return.
* Every row is created active, and nothing in the repository changes a status; the checks for
  frozen accounts are in the model all the same.
* Amounts are integers in units of 1/`Scale` of the column's last place. With `Scale = 1`
  every amount fits the column.
* One partition per topic: Kafka orders records within a partition only, and a transfer's key
  keeps its events in one.
* franz-go's defaults: offsets are committed in the background, up to the batch before the one
  handed out last, or up to the latest one when the client is back in `PollFetches`.
* `NewAccount`, `Create` and the service's `CreateAccount` are one action: nothing happens in
  between, and an INSERT that fails leaves no account anybody knows of. A client that repeats the request
  gets another account.
* `Delivery` is wider than `KafkaConsumer`, which implements it (section 4): events come in any order, a fetch error swallows any
  event, and any event may be handed out again, by several instances at once. Repetitions
  count as mishap `redelivery`. Both outcome topics and all partitions are in it at once.
* The account-service may announce both outcomes of a transfer: a request delivered twice is
  carried out the first time and may fail for want of money the second. `TransferOutcomes`
  therefore starts from any set of events; that each is about a recorded transfer follows
  from `TransferRequests`, where a request is saved after its row.
* An outcome handler that finds no row for its version (`ErrOptimisticLock`) returns; the text of
  a failure reason is left out, whether there is one is not. `MarkCompleted` leaves it in place.
* The two handlers of the notification-service differ in their text only and are one action.
* `created_at` is drawn when an INSERT begins; concurrent INSERTs commit in any order.
* Redis may drop an entry of the idempotency cache at any time; that includes the 24 hours.
* A client of the rate limiter is a value of `RemoteAddr` (with its port, unless chi's `RealIP` put a
  header in its place). Redis runs the two commands of a pipeline in order, with time and other pipelines'
  commands in between; `Tick` removes the keys whose time has come. A pipeline that fails has
  run none, one or both of its commands. Clients share nothing. The counters do not get lost in the model.
* In `Saga`, a relay publishes a row of its outbox again as often as the bound allows: two relays
  read it, or its mark failed (`OutboxRelay` has both). Two outcome rows that say the same come to one event
  handed out twice. Clients name accounts that exist. The notification-service is not part of it:
  it reads the outcome topics and nobody reads what it writes.

## 4. What the runs check

| Run | Instance | Shows |
|---|---|---|
| `account_mishaps` | 2 instances, 2 accounts, 2 opposite transfers, 2 deliveries, each mishap (failing statement, fetch error, rebalance, crash) once | `BooksBalance`: balances add up to what was paid in, less what half-done transfers hold. `TakenBeforeGiven`, `CompletedMeansMoved`, `CommittedMeansHandled`, `VersionNamesContent`, and the refinements `ImplementsLedger` and `ImplementsDelivery` |
| `account_live` | 1 instance, 2 currencies, also orders from and to nobody, 3 deliveries, nothing fails | `EveryRequestAnswered`, and `OneAnswerEach`: one answer per request, in order, and the money of a transfer nobody is at work on was taken and paid out as often as it was announced as completed |
| `relay` | 2 relays, 3 rows, 2 inserted at a time, batches of 2, any two mishaps of different kinds | `MarkedIsInLog`, `EverySavedMarked`, and `FirstInOrder`: a row is overtaken by one inserted after it only if a publish of its own failed |
| `transfer_faults` | 5 overlapping requests with one key, with other amounts, a negative one, one too large, one to oneself; every fault, any number of times | `AnswersAgree`, `OneRequestPerKey`, `CachedMeansRequested`, `OnlyFailuresStrand`, `EveryRowRequested`, and the refinement `ImplementsRegister` |
| `outcomes_mishaps` | 2 instances, contradicting outcomes of one transfer, one outcome of another, each mishap once | `StatusWasAnnounced`, `VersionNamesContent`, `OutcomesRecorded`: an outcome is lost only to an error of its own statements or a swallowed record |
| `notifications` | 2 instances, 2 outcomes, two failing Saves, each other mishap once | `OneErrorOneNotification`, `EveryOutcomeTold`, and `RepeatsHaveReasons`: no more repetitions of a notification than redeliveries and crashes in all |
| `limiter` | 1 client, limit 4, window of 2 ticks, 2 pipelines at once, 8 requests, 4 ticks, any number of errors | `WindowRespected`: at most the limit in any window, unless the counter went in the middle of it with pipelines between their two commands; then as many more as there were of those, which is reached (6 = 4 + 2). `QuietClientsPass` |
| `saga` | 2 instances of each service; a request and its retry under one key, which asks for more than the payee's column holds; amounts finer than the column, failing statements of the accepting service, one mishap of a consumer of either service (failing statement, swallowed record, rebalance, crash), and an outcome handed out again | `StatusTellsTheTruth`: a status agrees with the money moved, but for requests handed out again. `RetriesAreFree`, `AmountsShownAreBooked`, and `EveryTransferSettles`: a requested transfer does not stay pending, unless a statement of a consumer failed, a record was swallowed, or an UPDATE was refused to its handler |

Four runs are expected to fail; each shows where the code does other than its documents say.

| Run | Property | Document | What happens |
|---|---|---|---|
| `account_atomic` | `AllOrNothing` | system-design.md:42 "commits or rolls back", README.md:332 "to the caller for retry" | no statement fails; after a rebalance two instances post at the same time, one loses its destination UPDATE to the version check, having made the source UPDATE; the error is logged |
| `account_fetch_error` | `AtLeastOnce` | README.md:324 | records polled together with an error are acknowledged unhandled |
| `transfer_outbox` | `AcceptedMeansRequested` | system-design.md:30, README.md:336 | INSERT takes effect, an error follows; the retry is answered with a transfer without an event |
| `saga_final` | `StatusIsFinal` | README.md:258 | no statement fails; a request published twice is carried out once and refused once, for want of money; the outcome recorded later replaces the settled status, so a transfer may end as failed though its money moved |

Four more divergences have no run of their own:

* system-design.md:54-55 promises arbitrary precision and half-even rounding. Each UPDATE rounds its balance to
  eight decimals, half away from zero, so an amount finer than that changes the sum of the
  balances. `BooksBalance` therefore holds only while all amounts fit the column exactly (`ExactAmounts`, and always
  with `Scale = 1`); `AmountsShownAreBooked`, checked with
  `Scale = 2` and proved for every scale, bounds the drift: a payee is booked exactly what the table `transfers` shows, a payer at most one
  last place less for each time.
* README.md:336: "Duplicate keys return the original transfer response". Of two overlapping requests with one
  key the one whose INSERT violates the key is answered 500 (`InsertRefused`), without any failure.
* middleware.go:36 speaks of a sliding window. The EXPIRE renews the counter's life with every
  request, so a client that never pauses for a minute is refused for good after its first `rpm`
  requests; `QuietClientsPass` is what is left.
* The same line says the limit is "per client IP". The key is `r.RemoteAddr`, with the port: unless a
  header gives chi's `RealIP` an address to put there, each new connection of a client starts a counter of its own.

The abstract specification `Ledger` says what is left when atomicity is not promised: a posting
changes a balance by the amount relative to what it finds, in the account's currency, never below
zero; a teller pays out only what it has taken; only what was paid out is announced.
`ImplementsLedger` maps `books` to `accounts` without version and status, and `completed` to the
keys of the outbox's completed events. It would fail for a lost update, because then an UPDATE
writes a balance that does not differ from the present one by the amount.

`KeyRegister` says what is left of "duplicate keys return the original response": no statements, no
cache, no memory of what a request has found. A key is taken once, by a valid order that fits the column;
only the request that took it asks for the transfer; a client gets one reply, and if it names
a transfer it is the one of its key, with an amount as the client of that transfer gave it or as the
column holds it, and requested if that client is the one replied to; nothing happens any more in the
name of a client that has its reply. `ImplementsRegister` maps `taken` to the table by its UNIQUE column and
`requested` to the outbox.

`Delivery` is the third abstract specification: what an event handler may rely on, without offsets,
batches, commits or partitions. `AccountService` runs its handlers on `KafkaConsumer`;
`ImplementsDelivery` maps offsets to events and shows that nothing reaches a handler that `Delivery` leaves
out. `TransferOutcomes` and `Notifications`, whose consumers run the same loop on two topics, rest on
`Delivery` alone.

### Bounds

`MaxRequested` (`MaxDelivered` in `Saga`), `MaxMishaps`, `MaxTrouble`, `MaxRows`, `MaxInserting`,
`MaxAsked`, `MaxTime` and `MaxInFlight` (pipelines of one client at a time) are the only bounds in guards. Two
instances are all that can disagree over one row at a time; opposite orders make each account a
source for one and a destination for the other, and both fit the balances, one after the other or
at once. Two deliveries suffice for a redelivery (the same transfer twice) and for a race (two
transfers). `MaxNumeric = 3` makes a credit overflow the column once both accounts hold money.
One mishap of each kind already combines a crash with a failing statement, a rebalance and a
skipped batch; the proofs cover any number. Three rows in batches of two
give a relay a second batch; two open INSERTs let a row appear behind a later one. Two mishaps in
all let the publish of one row fail and a relay crash, or a mark fail; each pair of kinds comes up.
For outcomes, two instances and two contradicting events make both write one row; a third event, of
another transfer, would show a row written under the wrong id. Two failing Saves can hit one
event's two channels or two events.
Requests with different keys share nothing, so one key with five requests is the whole story.
For the limiter, eight requests and four ticks let two windows of four requests follow each other and a counter
expire under two pipelines. In the saga, one key has one transfer, which is published once; a rebalance or a crash
hands it out again, to the other instance or the same one, at each place a handler can be cut short.
That a relay publishes it twice is left to `saga_final` and to the proofs, which bound no deliveries.
`MaxDelivered` leaves room for each transfer that is requested; without that room, its request would stay
in the outbox because of the bound. `MaxNumeric = 14` lets the payee's balance take in 5 and not 7, so
that a transfer does stay pending for want of room in the column. The other refused UPDATE, one that lost the version check,
strands a transfer only where two keys' transfers meet, which is `account_atomic`.
The runs with instances as a symmetry set check safety only.

### Fairness

`AccountService`, `OutboxRelay`, `TransferOutcomes`, `Notifications`: weak fairness per process on the loop of its goroutine
(`Consumer.Start`, `OutboxRelay.Start`). A live process keeps polling and its ticker keeps firing, and
calls return, with an error if need be. Nothing is assumed of automatic commits, faults, clients or
the number of requests. `TransferRequests`: weak fairness on the handler of a request once it has issued its first
statement; whether a request is made at all is the client's business. `Saga`: the same for its components, and for
each relay that it publishes a row it has not published yet, which `EverySavedMarked` shows of
`OutboxRelay`. `RateLimiter` needs none.

## 5. What is proved

TLAPS checks all proofs, for every number of instances, accounts, transfers, requests, keys and
mishaps, from the assumptions the modules name: `NumericAssumption` (the scale is positive),
`ServiceAssumption` (orders are of positive amounts between different accounts, as `NewTransfer`
guarantees; instances, accounts and transfers are finitely many, for the sums),
`NoRowAssumption` and `RequestAssumption` (marks for "nothing" differ from data), and
`SagaAssumption`, which is those of its components for the orders that get as far as them.
Every safety and action property that a passing run checks is stated by a theorem.

`AccountServiceProofs`, by the inductive invariant `IInv` of `AccountService`:

* `TypeCorrect`, `TakenFirst`, `CompletedIsMoved`, `CommittedIsHandled`, `VersionsNameContent`:
  the properties of `account_mishaps` of (nearly) the same names;
* `LedgerImplemented`: Spec implements `Ledger`;
* `DeliveryImplemented`: Spec implements `Delivery`;
* `BooksAlwaysBalance` (`BooksBalance`), while `ExactAmounts`: orders and deposits have no more
  decimals than the column keeps;
* `OneInstanceAnswersOnce` (`OneAnswerEach`), while `Alone` and `RoomLeft`: there is one instance,
  nothing fails, and the balances about to be written fit the column (otherwise the UPDATE is
  refused and the request gets no answer). `account_live` is such an instance.

`TypeOK` is not inductive: that a balance stays a natural number needs that the copy about to be
written belongs to the row it overwrites. `CopiesInv` says so: a copy's row still exists, in the
copy's currency and at least at the copy's version, and *while it is at that version it holds the
balance the copy was computed from*. That survives the UPDATEs of others because every UPDATE
raises the version (`Grows`). With it an UPDATE that passes the version check is a posting relative to
the present balance, which is also the refinement. For the consumer group, `NothingLost` says
that what the owner was handed is done or in the batch it works through, and all
but the latest batch is done; `Committable` never reaches beyond. The proof
goes action by action, with one lemma for the handlers whose instance does not move
(`UndisturbedStep`).

`BooksBalance` compares sums over all accounts and all transfers. `SumTheorems` shows, by induction over
the subsets of a finite set, that a sum changes by as much as the one term that changes; every UPDATE
then changes both sides by the same amount. It needs `BooksInv` besides: each balance is an amount
the column holds, so that storing the new one rounds nothing away. `OneAnswerEach` rests on
`Orderly`: the copies of the one handler are up to date (`Fresh`), so no version check fails, and the
offsets handled, at hand and still to do follow each other without a gap (`InOrder`); `Accounted` says
at each statement how far ahead of the announcements the money is.

Three more invariants are there for the saga. `OnlyRequested`: what is taken or announced
was requested. `NoneTwice`: while there is no rebalance and no crash, a transfer
requested once is taken once at most, and announced as failed only if nothing was taken.
`AccountsBooked`: a balance exceeds the rounded deposit and the rounded amounts posted to it by at
most a last place of the column for each time it paid; rounding is half up, and a payee is credited
exactly the rounded amount because its balance is already a multiple of the last place.

`TransferRequestsProofs`, by the `IInv` of `TransferRequests`: `TypeCorrect`, `KeyNamesTransfer`
(`AnswersAgree`), `RequestedOnce`, `CacheBehind`, `StrandedByFailure`. What makes
`AnswersAgree` inductive is `RequestInv`: an answer names the row of its key, and rows are
never replaced. `RegisterImplemented` (`ImplementsRegister`): Spec implements `KeyRegister`; that an answer found in
the table is not one's own stranded row is `OnlyFailuresStrand`.

`TransferOutcomesProofs`, by the `IInv` of `TransferOutcomes`: `TypeCorrect`, `StatusAnnounced`
(`StatusWasAnnounced`), `VersionsNameContent`. `CopiesInv` makes it inductive: a copy about to be
written has the outcome of the event at hand, and a failure reason only if a failure was announced
for the same transfer.

`NotificationsProofs`, by the `IInv` of `Notifications`: `TypeCorrect`, `ErrorsCostOne`
(`OneErrorOneNotification`), `RepetitionsExplained` (`RepeatsHaveReasons`). `LoopInv` says that each
channel the loop has passed has its row or its error. `RepeatsHaveReasons` is not inductive: it does not
count the handlers that have a channel still ahead of them. `TellingsPaid` does, and the
first delivery still to come: each of these and each row is paid for by a delivery or a crash.

`OutboxRelayProofs`, by the `IInv` of `OutboxRelay`: `TypeCorrect`, `MarkedInLog`
(`MarkedIsInLog`), `CausalOrder` (`FirstInOrder`). `FirstInOrder` speaks of the topic only; what makes it inductive is
`BatchesInOrder`: what a row of a batch has to wait for is in the topic, before it in the same batch,
or a row whose publish failed (`missed`), because
the query leaves out no older unpublished row (`Oldest`) and a marked row is in the topic
(`MarkedIsInLog`). From `RelayAssumption`: a batch holds at least one row.

`RateLimiterProofs`, by the `IInv` of `RateLimiter`: `TypeCorrect`, `LimitHolds`
(`WindowRespected`), `QuietPass` (`QuietClientsPass`), from `LimiterAssumption`. `CounterInv` relates the counter to the history. `Known`: a request is a window old,
or the counter knows of all that came after it, or a torn counter in between explains those it does not know of.
`Covered`: when the counter is due to go, the requests it would lose are a window old, but for those of the
pipelines under way, which `Tick` then records in `torn`. `ExpiryInv`
says that a counter nobody will give an expiry was filled by errors.

`TransferOutcomesProofs` and `NotificationsProofs` rest on `OutcomeAssumption` and `NotificationAssumption`: marks for "nothing" differ from data, and
events are outcomes of transfers.

`SagaProofs`, by the invariant `SInv` of `Saga`:

* `ComponentsRun`: `Saga` implements the specifications of its three components, so that all that
  is proved of one of them holds in the whole;
* `RetriesMoveNothing` (`RetriesAreFree`), `StatusIsTrue` (`StatusTellsTheTruth`),
  `AmountsAreBooked` (`AmountsShownAreBooked`).

`SInv` is the invariants of the components and `Linked`: what was delivered to the account-service was
saved by the transfer-service, and what was published of outcomes was saved by the account-service.
That is all the relays contribute; the rest is a chain through the components. For
`StatusTellsTheTruth`: a status was announced (`StatusWasAnnounced`), its announcement is a row of the
account-service's outbox (`Linked`), a row saying "completed" means money moved
(`CompletedMeansMoved`), and unless the request was handed out again it moved once (`NoneTwice`). For
`RetriesAreFree`: money moves for requested transfers only (`OnlyRequested`), only accepted ones are
requested (`Linked`), and an accepted one is the row of its key (`RequestInv`).

### Only model-checked

Liveness and ENABLED, which are out of TLAPS' reach here: `EveryRequestAnswered`, `EverySavedMarked`,
`EveryRowRequested`, `OutcomesRecorded`, `EveryOutcomeTold`, `EveryTransferSettles` (with its three exceptions, on the instance of section 4 only). And the four
violations of section 4, which are counterexamples.

## 6. How to run

    tlc -config account_mishaps.cfg MCAccountService.tla     # the .cfg names the run
    tlapm AccountServiceProofs.tla                          # likewise the other ...Proofs and SumTheorems

`account_mishaps` (1.15 million states), `relay` (0.75 million, with liveness) and `saga` (0.16 million, with
liveness) take two to four minutes, the others seconds.

## 7. Plan

1. A run of `Saga` with two keys, so that a lost version check strands a transfer in it.
2. Redis losing the limiter's counters, and `WindowRespected` for the time in between.

## 8. What is not modelled

* `GetAccount`, `GetTransfer`: single SELECTs, no effect.
* The gateway's routing and correlation ids, logging, metrics, tracing: no state of the services.
  (The gateway forwards `/api/v1/...` unchanged while the services serve `/accounts` and
  `/transfers`; a matter of two strings, not of behaviour over time.)
* Reading the environment, running migrations, the parsing of HTTP bodies: they either
  succeed before the modelled code runs or refuse without effect.
* PostgreSQL, Redis and Kafka beyond what the code relies on: single statements are atomic,
  Kafka keeps what it acknowledged.
