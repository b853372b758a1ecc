# Specifications of consistent-store

TLA+ models of the order service (orders, inventory, customers), the outbox relay, the
analytics consumer, the notification service and of all of them together,
model-checked with TLC on small instances, and theorems about each of these and about
the whole pipeline that TLAPS checks for every value of the constants.

## The system

| component | state | operations |
|---|---|---|
| order placement (`internal/domains/order`) | `orders`, `order_items`, `outbox_events`; per request the closure's `orderItems` and `totalCents` | `POST /orders`, `GET /orders/{id}` |
| inventory (`internal/domains/inventory`) | `inventory(sku, available_quantity, price_cents)` | `Reserve`, called by the order closure; `GET /inventory/{sku}` |
| customers (`internal/domains/customer`) | `customers(id)` | `POST /customers` |
| transaction store (`pkg/sqltx`, `internal/shared/db`) | the `*sql.Tx` in the context, a pool of 10 connections | `Exec`, `SQLTx`, `Executor` |
| outbox relay (Debezium) and Kafka | position in the WAL; topics `order.events`, `customer.events`; group offsets | append to a topic, fetch, commit an offset, rebalance |
| analytics consumer (`internal/domains/analytics`) | `processed_events`, `order_analytics` | one loop: fetch, project, commit the offset |
| notification service (`internal/domains/notification`) | `notification_log`, `outbox_events` | two loops (orders, customers): fetch, notify, commit the offset |
| process wiring (`cmd/*/main.go`) | the context SIGTERM cancels | `Run`, `Close`, the routes |
| tracing, `pkg/nullable` | none that decides anything | |

How they interact. The three writers meet in PostgreSQL: an order reserves rows of
`inventory`, refers to `customers` by a foreign key and leaves an event in
`outbox_events`, all in one READ COMMITTED transaction. Which connection a
repository uses is decided by the context: `Executor` returns the transaction
`sqltx.Exec` put there, or the pool. Debezium copies `outbox_events` to Kafka, keyed
by aggregate; the two consumers read `order.events` in groups of their own, and the
notification service writes `OrderNotificationSent` back to the same outbox.

What is hard, and so what the models are about:

- *Interleaving.* Requests interleave at every SQL statement; row locks, the wait on
  a locked row with its re-check, deadlocks of opposite item orders, and the
  connection pool all sit between them.
- *Partial failure.* A statement can fail in the server, or its connection can
  break so that the server does not know; ROLLBACK can fail; COMMIT can take effect
  without an answer; the process can die anywhere.
- *Redelivery.* A message is fetched again after a crash, a rebalance, a failed
  offset commit, or because the relay sent it twice, possibly while the transaction
  of its first delivery is still open.
- *Shutdown.* SIGTERM cancels one context that every call of a consumer takes, between
  any two of its statements.
- *Skipping.* After a handler error the consumers' loops `continue`: the reader has
  moved on, and the next offset commit acknowledges the failed message.

What makes each component correct: no oversell and no half order; answers that tell
the truth; an event exactly for each committed order; statistics that count an event
once; one notification and one `OrderNotificationSent` for an order; and progress of
each of them. `PROJECT.json` lists the hazards line by line.

## Modules

| module | models | state and actions |
|---|---|---|
| `OrderLedger` | what placing orders and registering customers promises, without transactions | `stock`, `customers`, `placed`, `announced`; `Place`, `Register` |
| `OrderService` | `POST /orders` over PostgreSQL | committed tables; the server's view of each transaction (`srv`, `writes`, `reserved`); each handler (`pc`, `cmd`, `lines`, `total`, `err`, `reply`) |
| `OrderQuery` | the two GET routes beside `OrderService`, and the clients that read through them | `view`; `Ask`, `RejectPath`, `GetOrderRow`, `GetOrderItems`, `GetInventory` |
| `CustomerService` | `POST /customers` over PostgreSQL | `customers`, `outbox`; `srv`, `inserted`, `events`; `pc`, `body`, `err`, `reply` |
| `KafkaReader` | external: kafka-go's group reader and the topics | `log`, `committed`, `position`, `held` |
| `AnalyticsConsumer` | analytics-consumer (extends `KafkaReader`) | `processed`, `statistics`, `step` |
| `NotificationService` | notification-service (extends `KafkaReader`) | `notificationLog`, `outbox`, `tx`, `orphans`, one step variable per goroutine |
| `OutboxRelay` | external: Debezium as the connector is configured | `wal`, `next`; `Publish`, `Restart` |
| `Pipeline` | the ledger, the relay and both consumers composed | `Serve`, `Relay`, `Count`, `Notify` |
| `OrderServiceProofs`, `CustomerServiceProofs`, `AnalyticsConsumerProofs`, `NotificationServiceProofs`, `PipelineProofs` | theorems about the modules of those names | |
| `OrderContentProofs` | theorems about what orders, refusals and reads contain (`OrderService`, `OrderQuery`) | |
| `KafkaReaderProofs` | lemmas about `KafkaReader` for the consumers | |
| `SumLemmas` | lemmas about `SumFunction` of the community modules | |
| `MC*` | instances for TLC | |

`OrderService` has one action per SQL statement and outcome. `Receive` and `RejectBody`
are the HTTP handler up to the service call. `Begin` is `BeginTx`, which waits for a
connection. `Reserve`, `ReserveInvalid`, `ReserveInsufficient` and `ReserveOutOfRange`
are the outcomes of the inventory UPDATE; `CreateOrder`, `CreateItem` and
`PublishOrderCreated` are the inserts. `Commit` sends COMMIT, `ServerCommits` or
`ServerAborts` decides it, and `CommitReturns` or `CommitReplyLost` is what the handler
learns. `Rollback` and `RollbackLost` end a failed closure, `Panics` one that panics:
the deferred function of `sqltx.Exec` rolls back and net/http closes the connection
without an answer. A transaction's inserts sit in `writes` and its updates in `reserved`
until `ServerCommits` applies them at once; a row is locked exactly while a live
transaction has a share of it. An `UPDATE` waits only for rows that match its WHERE
clause, so a request can be refused without waiting; one that waited evaluates the
clause again, which here is simply that `Reserve` looks at the present state. Deadlock
detection is a fixed point: a set of requests each of which waits for members of the set
only. `RegisterCustomer` is the committed effect of `POST /customers`. The column's
`CHECK (available_quantity >= 0)` is no guard of the model: the WHERE clause makes it
redundant, and `TypeOK`, with the stock in `Nat`, says that it never fires.

In `OrderQuery` a reader is a client that sends one GET after the other and remembers
the orders it was told of (`Learned`), by its 201 or by an earlier read. `Ask` is the
client's step; `RejectPath` is the 400 or 404 of a path the handlers do not accept; the
others are the SELECTs, one statement each, with the outcomes the handlers tell apart.
An order that is not there and a query that fails are one 404 to the client; `err`
keeps them apart for the properties.

`CustomerService` has that route's statements. `Create` waits while a transaction in
flight holds the key (`KeyTaken`) and finds out afterwards whether it committed;
`AlreadyExists` is `ON CONFLICT DO NOTHING` without a row. An empty body or id is
replaced by a fresh uuid (`IdOf`). The module implements the ledger's `Register`, which
is what justifies `RegisterCustomer` in `OrderService` and the use of the ledger in
`Pipeline`.

The consumers have one action per database statement or Kafka call. `Skip` is the
`continue` of the loops. In `NotificationService` a transaction whose handler has
died or lost its connection moves to `orphans`, where the server commits it (if
COMMIT had been sent) or aborts it; an insert waits while an orphan holds its key.

`Shutdown` in both consumers is the signal. From then on `database/sql` refuses every
statement that takes the context (`Cancelled`), except that a COMMIT already sent may
take effect, and the loops end at `FetchMessage` (`OrderLoopEnds`, `CustomerLoopEnds`,
`RunEnds`). But kafka-go's `FetchMessage` and `CommitMessages` select between the
context and their channel, and Go picks any ready case: a fetch or an offset commit
may still succeed, so those actions have no `~stopping`. Hence one shutdown can make a
consumer pass over more than one message: each cancelled handler returns an error, the
loop continues, and the offset commit of an event that needs no database acknowledges
past it. `failed` remembers the events whose handler returned an error, and the
properties below are stated with it. `StartAgain` closes the readers and starts the
service anew.

`Pipeline` instantiates `OrderLedger`, `AnalyticsConsumer` and `NotificationService`
over one `log`. What the ledger announces and what the notification service commits
to its outbox goes to `wal` in commit order, `OutboxRelay` routes it by aggregate type
and partitions it by aggregate id, and the service's own answers come back to it.

Abstractions: an order id is the request (each gets a fresh uuid); prices are
constants since no statement changes them; messages carry the fields the consumers
branch on; spans, trace headers and log texts are left out, except the two log lines
that are a component's only effect (`ignored`, `customerNotices`).

## Runs

| run | instance | what it shows |
|---|---|---|
| `order_safety` | 2 requests, each any of 12 bodies; 2 stocked SKUs and an unknown one; 2 customers, one unregistered; INT4 shrunk to 10; pool of 2 | `TypeOK`, `NoOversell`, `StockConserved`, `OrderWhole`, `CustomerFirst`, `ReplyTruthful`, `RefusalJustified`, and refinement `LedgerSpec` |
| `order_progress` | 3 requests over the same 2 rows in both orders, one of each renaming of the requests; pool of 2 | `EveryRequestAnswered`, `LocksReleased` |
| `order_reads` | 2 requests; 1 reader that sends any GETs, as many as it likes | `ReadWhole`, `ReadsFollowAnswers` |
| `customers` | 3 requests, each for the seeded id, one new id or a generated one; pool of 2 | `TypeOK`, `AnnouncedOnce`, `CreatedIsOwned`, `ConflictIsReal`, refinement `LedgerSpec`, `EveryRegistrationAnswered`, `KeysReleased` |
| `analytics` | 4 deliveries of 3 events, 2 partitions, 2 crashes or shutdowns, 1 failed statement, 1 rebalance or failed offset commit | `TypeOK`, `CountedOnce`, `LossIsBounded`, `AckedIsProcessed` |
| `analytics_progress` | 3 deliveries, one order of total 0, 1 failure of each kind | `EveryOrderProcessed` |
| `notification` | 3 deliveries of order events, 2 partitions, 2 crashes or shutdowns, 1 failed statement, 1 disruption | `TypeOK`, `LogMatchesOutbox`, `AckedIsRecorded` |
| `notification_progress` | 2 deliveries per topic, both goroutines, 1 failure of each kind | `AckedIsNotified`, `EveryOrderRecordedOrFailed`, `EveryCustomerNotified` |
| `pipeline` | one customer to be registered, one order, 2 partitions; any 2 of a crash or shutdown of either consumer and a restart of the connector | `BooksBalance`, `AnsweredOnce`, `DrainedIsComplete`, `PlacedIsAnswered` |

`ReadsFollowAnswers` is the walk RUNBOOK.md:156-179 takes, an order, its GET, then the
stock, each on a connection of its own: what a client has been told is not taken back by
what it reads later.

The consumers' promises are about single messages: an acknowledged event is recorded or
processed unless *its own* handler returned an error. Neither a crash, nor the failure
of another message, nor a shutdown in the middle of an offset commit makes the service
pass over it (`AckedIsRecorded`, `AckedIsProcessed`, `AckedIsNotified` and their
liveness counterparts). `LossIsBounded` says how much the statistics can miss.

In `Pipeline` these become end-to-end statements. `BooksBalance`: the statistics are
those of some set of placed orders, each counted once. `AnsweredOnce`: the service does
not answer its own answers, nor an order twice. `DrainedIsComplete`: when nothing is
left to do, both read models hold every placed order whose handlers returned no error,
and the statistics miss at most one per crash or shutdown. `PlacedIsAnswered`: a placed
order's answer reaches the topic.

Three runs show where the code and its documentation disagree:

- `analytics_lost_update`: the projector marks and counts in two autocommitted
  statements. After a crash between them the redelivered event is logged as a
  duplicate, and was never counted.
- `notification_skipped`: one failed statement and the order is never recorded,
  since the loop does not return to a message that failed.
- `notification_repeated`: a redelivered `CustomerCreated` is notified again; only
  order notifications are idempotent.

Bounds. Two requests are the least that race. The properties of `order_safety` relate
one order to the stock or to one other transaction, and the proofs below cover all of
them for any number of requests. The 12 bodies contain each way the closure can
end: served from one row and two, the same SKU twice with enough and with too little,
each item failing after a good one, a quantity and a total beyond INT4, a customer who
may not be registered yet, and both bodies validation refuses. `order_progress` takes
three requests because a cycle of two lock waits must also free a third who waits for
a connection. For the consumers two partitions are the least at which skipping and
acknowledging differ between partitions, and two crashes the least at which a
redelivery is itself interrupted. `customers` needs three requests: one holds the key,
one waits for it and a third waits for a connection of the pool of two; the ids are
every combination of a seeded one, a new one and a generated one. `pipeline` takes one
order, because what two orders do to each other in a consumer is what `analytics` and
`notification` explore; here the question is the way of one order through five tables
and two topics. `MaxLog`, `MaxCrashes` (crashes and shutdowns of a consumer),
`MaxErrors`, `MaxDisruptions`, `MaxRestarts` (of the connector) and `MaxFaults` (all
together) cap deliveries and failures; nothing else is bounded. A failed statement is
not among the faults of `pipeline`, since `analytics` and `notification` have them.

Fairness. A handler that has begun is a goroutine that keeps running
(`WF` of `HandlerStep`); PostgreSQL answers a COMMIT, ends the transactions of lost
clients (TCP keepalive) and breaks deadlocks (`deadlock_timeout`). No client has to
send its request and no failure has to happen. Waiting requests are fair only weakly:
the progress properties hold because each holder of a lock or a connection lets go
and each request needs it a bounded number of times. The consumers' loops keep running
and every partition with messages is fetched from. A consumer that is stopped comes to
its end, because the cancelled context ends its loops, and somebody starts it again:
that is an assumption about operation, needed only for the liveness properties. The
relay publishes what it has read. Deadlock is checked everywhere; the states in which
the system rests have an explicit stuttering action (`Finished`, `CaughtUp`, `Rest`).

## Theorems

`OrderServiceProofs` proves `Spec => []TypeOK`, `Spec => []NoOversell`,
`Spec => []ReplyTruthful` and the refinement `Spec => LedgerSpec`; `OrderContentProofs`
proves `StockConserved`, `CustomerFirst`, `RefusalJustified` and `OrderWhole` of `Spec`, and `ReadWhole` and `ReadsFollowAnswers` of `QuerySpec`. The only
assumption is `ConstantsOK`: the seed is within the columns' ranges, bodies have a
customer and integer quantities, there are finitely many requests, and the pool is not
empty. The sets of requests, SKUs and customers may be of any size.

None of the properties is inductive. That the stock stays in `Nat` when a transaction
commits rests on `NoOversell`: what it reserved is covered, and nobody else has
touched the row. That in turn rests on where each handler is and what the server
thinks of its transaction. `IInv` adds, per request,

- `SessionOK`: how `pc` and `srv` correspond;
- `ProgressOK`: how far the closure has come, so that the next item and line exist;
- `WritesOK`: what is in the write set at each step, so that what becomes visible is
  one order of a registered customer and one event;
- `AnswerOK`: what has been answered, and when.

Preservation is split by locality. `StepCases` reduces a step to one of one request,
`Local` and `Frame` show that it keeps what is known of the others, `RequestStep` that
it keeps what is known of itself, and `ReserveCovered` and `CommitCovered` are the two
steps that matter to the stock. The refinement then has two visible steps:
`CommitPlaces` maps `ServerCommits` to `Place`, whose guard that the stock pays for
all of the order is exactly what `NoOversell` gives, `RegistrationRegisters` maps
`RegisterCustomer` to `Register`, and `Invisible` covers the rest.

What an order contains is the invariant `Contents` on top of `IInv`. `LinesOK`: the
lines a closure has collected are the first of the body's items, priced, their amount
is `total`, and what the server has reserved of a SKU is exactly their units of it.
`ItemsOK`, `RowOK` and `EventOK` follow the lines through the inserts: the items written
so far are the first of the lines, and the committed row, items and event of a request
are those of the whole body. So a commit takes from the stock what the new
`order_items` add to the other side of `StockConserved`, and `OrderWhole` is what is
left of it. `RefusalOK` is the hard half: a request is refused on what *it* sees, while
others hold reservations that may still be rolled back. `InsufficientIsShort` shows that
what it sees is the committed stock less its own units, `DemandCovers` that those and
the item at hand are part of its demand, and `StockFalls` and `ShortStays` that nothing
that happens later unsays it. `CustomerFirst` needs `Introduced`, that every customer
beyond the seed has an event already, because `CanInsertOrder` sees the row and not the
event. For the readers `ViewsOK` says what each has been told so far, and that all the
orders it knows are committed (`LearnedAreCommitted`); between its two SELECTs, and
between two of its GETs, an order may become committed but never change
(`CommittedStays`), which is why reading without a transaction is enough.

`SumLemmas` makes the sums provable. `SumFunction` of the community modules is a fold,
and what a fold computes would be shown by induction, which the library states as a
theorem with an operator parameter. `SumIsCardinality` avoids it: the sum of a function
into `Nat` is the number of pairs `<<x, i>>` with `i` in `1..f[x]`. It is proved from the
fold's own equation with a least counterexample among the finite subsets of the domain
(`SmallestSubset`), and the laws the theorems use (`SumZero`, `SumLeq`, `SumExtend`,
`SumChange`, `SumRenamed`, `SumSupport`) are facts about cardinality.

`CustomerServiceProofs` proves of `CustomerService`, from `CustomerConstants`,
`TypeOK`, `AnnouncedOnce`, `CreatedIsOwned`, `ConflictIsReal` and `LedgerSpec`. `TypeOK`
includes the bound of the pool (`PoolOK`), which only `Begin` can disturb (`PoolStep`). The key
of `customers` is what everything hangs on, so `IInv` adds `KeysOK` (an id belongs to a
row, or to one transaction in flight, never to both) and `OwnersOK` (registrations that
committed have different ids) to what is known of each request (`SessionOK`, `WritesOK`,
`AnswerOK`). Only `Create` takes a key (`CreateKeys`, from its `~KeyTaken` and the
absent row) and only a commit turns one into a row and an event (`CommitKeys`,
`CommitRegisters`); the other steps are `Quiet`.

`KafkaReaderProofs` is the argument both consumers' promises share. `Passed(g, D)` says
that every message before the group's committed offset is in `D`, and that every
message before the offset it fetches next is in `D` too, but for the one in hand. Its
lemmas say, call by call, that the reader keeps that: a fetch passes over the message
it takes in hand only, `Skip` and `CommitMessages` keep it if the message in hand is in
`D`, and a rebalance or a restart goes back to where only `D` lies behind.
`AcknowledgedDone` is what it is good for. `AnalyticsConsumerProofs`, from
`AnalyticsConstants` and `ReaderConstants`, takes for `D` the messages that need
nothing more (`Handled`: processed, failed, or of another type). `Calls` shows that
every step of the consumer is one of the reader's calls with the message in `Handled`
whenever the loop lets go of it, and `TypeOK` and `AckedIsProcessed` follow.

`CountedOnce` and `LossIsBounded` need the set of what has been counted, which the code
does not keep. `CountInv` says that there is one: a set `S` of processed ids whose
statistics are the rows of `order_analytics`, without the message being projected, and
that what is processed and not in `S` is at most `Bound`. `Bound` is sharper than the
property: a shutdown has been added to `crashes` when it happens, so while the service is
stopping, the order between the two statements is already paid for, and cancelling it
costs nothing more. `CountCases` reduces a step to marking, counting, losing the order in
hand, or none of these.

`NotificationServiceProofs`, from `NotificationConstants` and `ReaderConstants`, proves
`TypeOK`, `LogMatchesOutbox`, `AckedIsRecorded` and `AckedIsNotified`. Its invariant has
`Passed` once for each goroutine (`OrderDone`, `CustomerDone`), `TxOK` for how far the
transaction in hand has come, and `KeysOK`, the primary key of `notification_log`: an id
has a committed row or belongs to one transaction, that of the handler or of an orphan.
`VisibleWhole` is why the log and the outbox stay one, whoever commits: what may commit
is `Whole`, a notification with its event or neither, and by `KeysOK` its id is new.
`DbDrop` is the death of a handler between any two statements, and `DbSettle` the end of
an orphan behind a redelivery's back.

`PipelineProofs` proves `BooksBalance`, `AnsweredOnce` and `DrainedIsComplete` of the
composition, for any number of orders, customers, partitions, crashes, shutdowns and
restarts of the connector. Its assumption `PipelineConstants` says that the topics and
groups differ, that no two orders share an id (the service makes a new one for each),
and that days and partitions are given for every id. The consumers' invariants come from
their own proofs, used over the variables of `Pipeline`: every step of `Count` or
`Notify` is one of theirs (`ConsumerStep`, `ServiceStep`), and a message that the relay
publishes arrives as one of `KafkaReader`'s (`PublishDelivers`, and `Delivery` in each
consumer's proofs). `IInv` adds how the parts fit together:

- `LedgerOK`: an order is placed exactly if the WAL has its row, and every customer
  registered since the start has one;
- `RelayOK`: a topic has only messages of rows in the WAL, and every row the connector
  has passed is in its topic. It may go back and publish a row again, never skip one;
- `ReadOK`: `processed_events` and `notification_log` name placed orders only;
- `AnswersOK`: a WAL row of type `OrderNotificationSent` answers an order whose own row
  is before it, is recorded in `notification_log`, and is the only one to its order.

`WalSteps` reduces a step to one that places, registers or answers, or leaves the WAL
alone. `AnsweredOnce` rests on `LogMatchesOutbox` after the step: a second answer would
be a second outbox row with one id. `BooksBalance` turns the events of `CountInv` into
the placed orders they announce (`CountingOrders`; each order has a message of its own,
so `SumRenamed` gives the same revenue). `DrainedIsComplete` needs no history: with every
reader at the end, `Passed` says of *every* message that nothing more is to be done for
it (`EndDone`, `CaughtUpHandled`, `CaughtUpOrders`, `CaughtUpCustomers`), `RelayOK` that
every row is such a message, and `Bound` what the statistics miss.

Only model-checked is what is out of the provers' reach: liveness under fairness
(`EveryRequestAnswered`, `LocksReleased`, `EveryRegistrationAnswered`, `KeysReleased`,
`EveryOrderProcessed`, `EveryOrderRecordedOrFailed`, `EveryCustomerNotified`,
`PlacedIsAnswered`). Every safety property that a run checks and that holds is proved.

## Not modelled

- Trace propagation: it never influences a stored value or an answer.
- Start-up and configuration: a process that cannot open the database ends before it
  has state, and the compose file has no steps. `pkg/nullable` is unused.
- Nested `sqltx.Exec` (a closure that calls `Exec` joins the outer transaction): no
  service does it.
- The delivery of an HTTP answer. `reply` is what the handler sends; the server's
  `WriteTimeout`, or a client that left, may keep it from arriving.
- The broker's storage and the replication slot: messages and rows, once there, stay.
  `KafkaReader` alone lets any message arrive at any time and any number of times;
  `OutboxRelay` narrows that to commit order with repetition after a restart.
- Payloads that do not parse: the services' publishers are the only producers.

## Plan

1. `SqlTx`, an all-or-nothing specification of `Exec`, if a service ever nests it.
2. Shorter proofs: the steps of `AnalyticsConsumer` and `NotificationService` inside
   `Pipeline` are shown to be theirs by expanding both copies of each action.
