---------------------------- MODULE OutboxRelay ----------------------------
(***************************************************************************)
(* The way from outbox_events to the topics: Debezium reads the rows out of*)
(* PostgreSQL's WAL in commit order, and the EventRouter the connector is  *)
(* configured with picks topic, key and headers from their columns.  Kafka *)
(* hashes the key to a partition.                                          *)
(*                                                                         *)
(* Debezium is not part of the repository.  What matters here is that it   *)
(* restarts from a position it has confirmed some time ago, so the rows    *)
(* after that are published again, in order.                               *)
(***************************************************************************)
EXTENDS Integers, Sequences

CONSTANTS
  Partition,     \* the partitions of each topic
  PartitionOf,   \* PartitionOf[k]: what Kafka hashes key k to
  orderEvents, customerEvents,  \* the topics
  MaxRestarts    \* bound: restarts of the connector

VARIABLES
  log,       \* log[t][p]: the messages of partition p of topic t
  wal,       \* the committed rows of outbox_events, in commit order
  next,      \* the row the connector publishes next
  restarts   \* how often it has restarted

relayVars == <<next, restarts>>

Topics == {orderEvents, customerEvents}

\* A row carries the columns the router reads, and of its payload what the
\* consumers read.
OutboxRow(type, aggregateType, aggregate, cents, day) ==
  [id |-> [event |-> type, of |-> aggregate], aggregateType |-> aggregateType,
   aggregate |-> aggregate, type |-> type, cents |-> cents, day |-> day]

\* table.field.event.key = aggregate_id
KeyOf(row) == row.aggregate

\* route.by.field = aggregate_type, topic.replacement = ${routedByValue}.events
RouteOf(row) == IF row.aggregateType = "order" THEN orderEvents ELSE customerEvents

Routed(row) ==
  [id |-> row.id, type |-> row.type, topic |-> RouteOf(row),
   partition |-> PartitionOf[KeyOf(row)], cents |-> row.cents, day |-> row.day]

RelayInit ==
  /\ log = [t \in Topics |-> [p \in Partition |-> <<>>]]
  /\ wal = <<>>
  /\ next = 1 /\ restarts = 0

Publish ==
  LET m == Routed(wal[next]) IN
  /\ next <= Len(wal)
  /\ log' = [log EXCEPT ![m.topic][m.partition] = Append(@, m)]
  /\ next' = next + 1
  /\ UNCHANGED <<wal, restarts>>

Restart ==
  /\ restarts < MaxRestarts /\ restarts' = restarts + 1
  /\ \E confirmed \in 1..(next - 1) : next' = confirmed
  /\ UNCHANGED <<log, wal>>
=============================================================================
