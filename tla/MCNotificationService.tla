------------------------ MODULE MCNotificationService ------------------------
(***************************************************************************)
(* Instances of NotificationService small enough for TLC.                  *)
(***************************************************************************)
EXTENDS NotificationService

CONSTANTS e1, e2, e3, c1, c2, p0, p1

MCTopic == {orderEvents, customerEvents}
MCPartition1 == {p0}
MCPartition2 == {p0, p1}
MCGroup == {orderGroup, customerGroup}
MCTopicOf == [g \in MCGroup |-> IF g = orderGroup THEN orderEvents ELSE customerEvents]

Event(i, t, topic, p) == [id |-> i, type |-> t, topic |-> topic, partition |-> p]

\* Two orders on two partitions.
MCOrders == {
  Event(e1, "OrderCreated", orderEvents, p0),
  Event(e2, "OrderCreated", orderEvents, p1),
  Event(e3, "OrderNotificationSent", orderEvents, p1)}

\* An order, a customer, and a message without an event_type header.
MCBothTopics == {
  Event(e1, "OrderCreated", orderEvents, p0),
  Event(c1, "CustomerCreated", customerEvents, p0),
  Event(c2, "", customerEvents, p0)}
=============================================================================
