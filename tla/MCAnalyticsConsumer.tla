------------------------- MODULE MCAnalyticsConsumer -------------------------
(***************************************************************************)
(* Instances of AnalyticsConsumer small enough for TLC.                    *)
(***************************************************************************)
EXTENDS AnalyticsConsumer

CONSTANTS e1, e2, e3, p0, p1, monday, tuesday

MCTopic == {orderEvents}
MCPartition == {p0, p1}
MCGroup == {analytics}
MCTopicOf == [g \in MCGroup |-> orderEvents]
MCDay == {monday, tuesday}

Event(i, t, c, d, p) ==
  [id |-> i, type |-> t, cents |-> c, day |-> d, partition |-> p]

\* Two orders of the same day, one of them with a follow-up event the consumer
\* filters out.
MCMessage == {
  Event(e1, "OrderCreated", 3, monday, p0),
  Event(e2, "OrderCreated", 5, monday, p1),
  Event(e3, "OrderNotificationSent", 0, monday, p0)}

\* Together with an order whose items are free: products may cost 0 cents.
MCMixedOrders == {
  Event(e1, "OrderCreated", 0, monday, p0),
  Event(e2, "OrderCreated", 5, tuesday, p0),
  Event(e3, "OrderCreated", 4, monday, p1)}
=============================================================================
