------------------------------ MODULE Pipeline ------------------------------
(***************************************************************************)
(* The whole system: the order service as the ledger it implements, the    *)
(* outbox table and its relay, analytics-consumer and notification-service.*)
(* What the ledger announces and the answers of notification-service go to *)
(* the same outbox, and through the relay to the topics both consumers     *)
(* read: the service gets its own answers back.                            *)
(***************************************************************************)
EXTENDS OutboxRelay, FiniteSets, Functions

CONSTANTS
  Sku, Customer, OrderId, InitStock, InitCustomers,  \* of the ledger
  Orders,          \* the orders clients may place: [id, customer, total, taken]
  Day, DayOf,      \* the date an aggregate's event is created on
  analytics, orderGroup, customerGroup,  \* the consumer groups
  MaxCrashes,      \* bound: crashes and shutdowns of each consumer
  MaxFaults        \* bound: crashes, shutdowns and restarts altogether

VARIABLES
  \* the order service
  stock, customers, placed, announced,
  \* analytics-consumer
  aCommitted, aPosition, aHeld, processed, statistics, step, ignored,
  aFailed, aStopping, aCrashes, aErrors, aDisruptions,
  \* notification-service
  nCommitted, nPosition, nHeld, notificationLog, outbox, tx, orphans,
  orderStep, customerStep, customerNotices,
  nFailed, nStopping, nCrashes, nErrors, nDisruptions

(***************************************************************************)
(* Rows of outbox_events.                                                  *)
(***************************************************************************)
\* Mutant: orders are published under the aggregate type of customers.
AnnouncedRowElsewhere(a) ==
  OutboxRow(a.type, "customer", a.aggregate, a.total, DayOf[a.aggregate])

\* A row announced by the order service.
AnnouncedRow(a) ==
  OutboxRow(a.type, IF a.type = "OrderCreated" THEN "order" ELSE "customer",
            a.aggregate, a.total, DayOf[a.aggregate])

\* The row notification-service writes in answer to event i.
AnswerRow(i) == OutboxRow("OrderNotificationSent", "order", i.of, 0, DayOf[i.of])

CreatedRow(o) == OutboxRow("OrderCreated", "order", o.id, o.total, DayOf[o.id])

CustomerRow(c) == OutboxRow("CustomerCreated", "customer", c, 0, DayOf[c])

Rows ==
  {CreatedRow(o) : o \in Orders} \cup {AnswerRow(CreatedRow(o).id) : o \in Orders}
    \cup {CustomerRow(c) : c \in Customer}

Messages == {Routed(row) : row \in Rows}

(***************************************************************************)
(* The parts.                                                              *)
(***************************************************************************)
ledgerVars == <<stock, customers, placed, announced>>

L == INSTANCE OrderLedger

analyticsVars == <<aCommitted, aPosition, aHeld, processed, statistics, step,
                   ignored, aFailed, aStopping, aCrashes, aErrors, aDisruptions>>

A == INSTANCE AnalyticsConsumer WITH
  Topic <- Topics, Group <- {analytics},
  TopicOf <- [g \in {analytics} |-> orderEvents], Message <- Messages,
  MaxLog <- 0, MaxErrors <- 0, MaxDisruptions <- 0,
  committed <- aCommitted, position <- aPosition, held <- aHeld,
  failed <- aFailed, stopping <- aStopping, crashes <- aCrashes,
  errors <- aErrors, disruptions <- aDisruptions

notificationVars == <<nCommitted, nPosition, nHeld, notificationLog, outbox, tx,
                      orphans, orderStep, customerStep, customerNotices, nFailed,
                      nStopping, nCrashes, nErrors, nDisruptions>>

N == INSTANCE NotificationService WITH
  Topic <- Topics, Group <- {orderGroup, customerGroup},
  TopicOf <- [g \in {orderGroup, customerGroup} |->
                IF g = orderGroup THEN orderEvents ELSE customerEvents],
  Message <- Messages, MaxLog <- 0, MaxErrors <- 0, MaxDisruptions <- 0,
  committed <- nCommitted, position <- nPosition, held <- nHeld,
  failed <- nFailed, stopping <- nStopping, crashes <- nCrashes,
  errors <- nErrors, disruptions <- nDisruptions

\* The service makes a new id for every order, and no two orders share one.  The
\* topics and the groups are the constants of the two consumers.
ASSUME PipelineConstants ==
  /\ orderEvents # customerEvents /\ orderGroup # customerGroup
  /\ Orders \subseteq L!Order
  /\ \A o, q \in Orders : o.id = q.id => o = q
  /\ DayOf \in [OrderId \cup Customer -> Day] /\ IsFiniteSet(Day)
  /\ PartitionOf \in [OrderId \cup Customer -> Partition]
  /\ MaxCrashes \in Nat

vars == <<ledgerVars, log, wal, relayVars, analyticsVars, notificationVars>>

Init == L!Init /\ RelayInit /\ A!Init /\ N!Init

(***************************************************************************)
(* Steps.                                                                  *)
(***************************************************************************)
\* The order service commits: one announcement, one row.
Serve ==
  /\ \/ \E o \in Orders : L!Place(o)
     \/ \E c \in Customer : L!Register(c)
  /\ wal' = Append(wal, AnnouncedRow(announced'[Len(announced')]))
  /\ UNCHANGED <<log, relayVars, analyticsVars, notificationVars>>

Relay ==
  /\ Publish \/ Restart
  /\ UNCHANGED <<ledgerVars, analyticsVars, notificationVars>>

Count ==
  /\ A!ConsumerStep
  /\ UNCHANGED <<ledgerVars, wal, relayVars, notificationVars>>

\* Whatever the service commits to its outbox is in the WAL at that moment.
Notify ==
  /\ N!ServiceStep
  /\ wal' = wal \o [i \in 1..(Len(outbox') - Len(outbox)) |->
                      AnswerRow(outbox'[Len(outbox) + i])]
  /\ UNCHANGED <<ledgerVars, relayVars, analyticsVars>>

Faults == aCrashes + nCrashes + restarts

AtEnd(position, t) == \A p \in Partition : position[p] > Len(log[t][p])

\* Everything committed has been relayed, and every reader is at the end.
Drained ==
  /\ next > Len(wal)
  /\ step = "fetch" /\ AtEnd(aPosition[analytics], orderEvents)
  /\ orderStep = "fetch" /\ AtEnd(nPosition[orderGroup], orderEvents)
  /\ customerStep = "fetch" /\ AtEnd(nPosition[customerGroup], customerEvents)
  /\ orphans = {}

Rest == Drained /\ UNCHANGED vars

Next ==
  \/ (Serve \/ Relay \/ Count \/ Notify) /\ Faults' <= MaxFaults
  \/ Rest

Spec == Init /\ [][Next]_vars

\* The relay publishes what it reads, and the consumers are fair.
Fairness == WF_vars(Publish /\ UNCHANGED <<ledgerVars, analyticsVars, notificationVars>>)
            /\ A!Fairness /\ N!Fairness

FairSpec == Spec /\ Fairness

(***************************************************************************)
(* Properties.                                                             *)
(***************************************************************************)
CreatedId(o) == CreatedRow(o).id

\* The rows order_analytics has of a set of orders.
StatisticsOf(S) == [d \in Day |->
  LET orders == {o \in S : DayOf[o.id] = d}
  IN [count |-> Cardinality(orders), revenue |-> SumFunction([o \in orders |-> o.total])]]

\* The books balance from end to end: the statistics are those of some orders
\* that were placed, each once and for what it cost.
BooksBalance == \E S \in SUBSET placed : statistics = StatisticsOf(S)

RowsOf(type, k) == {i \in DOMAIN wal : wal[i].type = type /\ wal[i].aggregate = k}

\* The service's answers come back to it through the outbox and start nothing:
\* a placed order is answered at most once, after it was announced.
AnsweredOnce == \A k \in OrderId :
  /\ Cardinality(RowsOf("OrderNotificationSent", k)) <= 1
  /\ \A i \in RowsOf("OrderNotificationSent", k) :
       \E j \in RowsOf("OrderCreated", k) : j < i

\* Eventual consistency, the safety half: when nothing is left to do, both read
\* models hold every placed order, except for those whose handler returned an
\* error and, in the statistics, one for each time the consumer was stopped.
DrainedIsComplete == Drained =>
  /\ {CreatedId(o) : o \in placed} \subseteq notificationLog \cup nFailed
  /\ {CreatedId(o) : o \in placed} \subseteq processed \cup aFailed
  /\ Cardinality(processed) - SumFunction([d \in Day |-> statistics[d].count])
       <= aCrashes
  /\ \A c \in customers \ InitCustomers : customerNotices[CustomerRow(c).id] > 0

\* and the liveness half: a placed order is notified and its answer reaches the
\* topic, through restarts of every part.
PlacedIsAnswered == \A o \in Orders :
  (o \in placed) ~>
    \/ Routed(AnswerRow(CreatedId(o))) \in N!Appended(orderEvents)
    \/ CreatedId(o) \in nFailed
=============================================================================
