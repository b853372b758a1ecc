--------------------------- MODULE PipelineProofs ---------------------------
(***************************************************************************)
(* What holds of the whole system, for any orders and customers, any       *)
(* number of partitions and any crashes, shutdowns and restarts.           *)
(*                                                                         *)
(* AP and NP are the consumers' proofs over the variables of Pipeline.     *)
(* Their steps are the steps of A and N (ConsumerStep, ServiceStep), and a *)
(* message arrives by Publish (PublishDelivers), so that their invariants  *)
(* hold here.  What is added is how the parts fit together: what is placed *)
(* is in the WAL (LedgerOK), what is in a topic was in the WAL and what     *)
(* the connector has passed is in a topic (RelayOK), and so the consumers' *)
(* tables name placed orders only (ReadOK) and every answer answers one    *)
(* (AnswersOK).                                                            *)
(***************************************************************************)
EXTENDS Pipeline, SumLemmas

AP == INSTANCE AnalyticsConsumerProofs WITH
  Topic <- Topics, Group <- {analytics},
  TopicOf <- [g \in {analytics} |-> orderEvents], Message <- Messages,
  MaxLog <- 0, MaxErrors <- 0, MaxDisruptions <- 0,
  committed <- aCommitted, position <- aPosition, held <- aHeld,
  failed <- aFailed, stopping <- aStopping, crashes <- aCrashes,
  errors <- aErrors, disruptions <- aDisruptions

NP == INSTANCE NotificationServiceProofs WITH
  Topic <- Topics, Group <- {orderGroup, customerGroup},
  TopicOf <- [g \in {orderGroup, customerGroup} |->
                IF g = orderGroup THEN orderEvents ELSE customerEvents],
  Message <- Messages, MaxLog <- 0, MaxErrors <- 0, MaxDisruptions <- 0,
  committed <- nCommitted, position <- nPosition, held <- nHeld,
  failed <- nFailed, stopping <- nStopping, crashes <- nCrashes,
  errors <- nErrors, disruptions <- nDisruptions

(***************************************************************************)
(* The constants of the parts.                                             *)
(***************************************************************************)
\* The columns of the row of a placed order,
LEMMA CreatedColumns ==
  ASSUME NEW o \in Orders
  PROVE  LET row == CreatedRow(o) IN
         /\ row \in Rows /\ o.id \in OrderId /\ o.total \in Nat
         /\ row.type = "OrderCreated" /\ row.aggregate = o.id
         /\ row.id.event = "OrderCreated" /\ row.id.of = o.id
         /\ row.cents = o.total /\ row.day = DayOf[o.id]
         /\ RouteOf(row) = orderEvents
  BY PipelineConstants DEF Rows, CreatedRow, OutboxRow, RouteOf, L!Order

\* of the answer to it,
LEMMA AnswerColumns ==
  ASSUME NEW o \in Orders
  PROVE  LET row == AnswerRow(CreatedId(o)) IN
         /\ row \in Rows
         /\ row.type = "OrderNotificationSent" /\ row.aggregate = o.id
         /\ row.id.event = "OrderNotificationSent" /\ row.id.of = o.id
         /\ row.cents = 0 /\ row.day = DayOf[o.id]
         /\ RouteOf(row) = orderEvents
  <1>1. CreatedId(o).of = o.id
    BY CreatedColumns DEF CreatedId
  <1>2. AnswerRow(CreatedId(o)) \in Rows
    BY DEF Rows, CreatedId
  <1> QED
    BY <1>1, <1>2 DEF AnswerRow, OutboxRow, RouteOf

\* and of a registered customer.
LEMMA CustomerColumns ==
  ASSUME NEW c \in Customer
  PROVE  LET row == CustomerRow(c) IN
         /\ row \in Rows
         /\ row.type = "CustomerCreated" /\ row.aggregate = c
         /\ row.id.event = "CustomerCreated" /\ row.id.of = c
         /\ row.cents = 0 /\ row.day = DayOf[c]
         /\ RouteOf(row) = customerEvents
  BY DEF Rows, CustomerRow, OutboxRow, RouteOf

\* There are no other rows.
LEMMA RowKinds == \A row \in Rows :
  \/ row.type = "OrderCreated" /\ \E o \in Orders : row = CreatedRow(o)
  \/ row.type = "OrderNotificationSent" /\ \E o \in Orders : row = AnswerRow(CreatedId(o))
  \/ row.type = "CustomerCreated" /\ \E c \in Customer : row = CustomerRow(c)
  <1> SUFFICES ASSUME NEW row \in Rows
               PROVE  \/ row.type = "OrderCreated" /\ \E o \in Orders : row = CreatedRow(o)
                      \/ /\ row.type = "OrderNotificationSent"
                         /\ \E o \in Orders : row = AnswerRow(CreatedId(o))
                      \/ row.type = "CustomerCreated" /\ \E c \in Customer : row = CustomerRow(c)
    OBVIOUS
  <1>1. CASE \E o \in Orders : row = CreatedRow(o)
    BY <1>1, CreatedColumns
  <1>2. CASE \E o \in Orders : row = AnswerRow(CreatedId(o))
    BY <1>2, AnswerColumns
  <1>3. CASE \E c \in Customer : row = CustomerRow(c)
    BY <1>3, CustomerColumns
  <1> QED
    BY <1>1, <1>2, <1>3 DEF Rows, CreatedId

\* What the router makes of a row.
LEMMA RoutedFacts == \A row \in Rows :
  /\ Routed(row).id = row.id /\ Routed(row).type = row.type
  /\ Routed(row).cents = row.cents /\ Routed(row).day = row.day
  /\ Routed(row).topic = RouteOf(row) /\ Routed(row).topic \in Topics
  /\ Routed(row).partition \in Partition
  /\ Routed(row).cents \in Nat /\ Routed(row).day \in Day
  <1> SUFFICES ASSUME NEW row \in Rows
               PROVE  /\ row.aggregate \in OrderId \cup Customer
                      /\ row.cents \in Nat /\ row.day = DayOf[row.aggregate]
    BY PipelineConstants DEF Routed, KeyOf, RouteOf, Topics
  <1>1. CASE \E o \in Orders : row = CreatedRow(o)
    BY <1>1, CreatedColumns
  <1>2. CASE \E o \in Orders : row = AnswerRow(CreatedId(o))
    BY <1>2, AnswerColumns, CreatedColumns
  <1>3. CASE \E c \in Customer : row = CustomerRow(c)
    BY <1>3, CustomerColumns
  <1> QED
    BY <1>1, <1>2, <1>3, RowKinds

\* The id of a row tells its type and its aggregate,
LEMMA IdTells == \A row \in Rows : row.id.event = row.type /\ row.id.of = row.aggregate
  BY RowKinds, CreatedColumns, AnswerColumns, CustomerColumns

\* and these tell the row.
LEMMA RowsDiffer ==
  ASSUME NEW r \in Rows, NEW s \in Rows, r.type = s.type, r.aggregate = s.aggregate
  PROVE  r = s
  <1>1. CASE r.type = "OrderCreated"
    <2>1. PICK o \in Orders : r = CreatedRow(o)
      BY <1>1, RowKinds
    <2>2. PICK q \in Orders : s = CreatedRow(q)
      BY <1>1, RowKinds
    <2> QED
      BY <2>1, <2>2, CreatedColumns, PipelineConstants
  <1>2. CASE r.type = "OrderNotificationSent"
    <2>1. PICK o \in Orders : r = AnswerRow(CreatedId(o))
      BY <1>2, RowKinds
    <2>2. PICK q \in Orders : s = AnswerRow(CreatedId(q))
      BY <1>2, RowKinds
    <2> QED
      BY <2>1, <2>2, AnswerColumns, PipelineConstants
  <1>3. CASE r.type = "CustomerCreated"
    <2>1. PICK c \in Customer : r = CustomerRow(c)
      BY <1>3, RowKinds
    <2>2. PICK d \in Customer : s = CustomerRow(d)
      BY <1>3, RowKinds
    <2> QED
      BY <2>1, <2>2, CustomerColumns
  <1> QED
    BY <1>1, <1>2, <1>3, RowKinds

\* No two messages have the same id.
LEMMA UniqueIds == \A m, n \in Messages : m.id = n.id => m = n
  <1>1. \A r, s \in Rows : r.id = s.id => r = s
    BY IdTells, RowsDiffer
  <1> QED
    BY <1>1, RoutedFacts DEF Messages

\* Finite sets and their sizes are the same wherever they are defined.
LEMMA SameSets ==
  /\ \A S : AP!IsFiniteSet(S) <=> IsFiniteSet(S)
  /\ \A S : AP!Cardinality(S) = Cardinality(S)
  BY DEF AP!IsFiniteSet, IsFiniteSet, AP!Cardinality, Cardinality

\* What analytics-consumer assumes of its constants holds here,
LEMMA AnalyticsConstantsHold == AP!ReaderConstants /\ AP!AnalyticsConstants
  <1>1. \A m \in Messages : m.partition \in Partition /\ m.cents \in Nat /\ m.day \in Day
    BY RoutedFacts DEF Messages
  <1> QED
    BY <1>1, UniqueIds, SameSets, PipelineConstants DEF AP!ReaderConstants, AP!AnalyticsConstants, Topics

\* and what notification-service assumes.
LEMMA NotificationConstantsHold == NP!ReaderConstants /\ NP!NotificationConstants
  <1>1. \A m \in Messages : m.partition \in Partition /\ m.topic \in Topics
    BY RoutedFacts DEF Messages
  <1> QED
    BY <1>1, UniqueIds, PipelineConstants DEF NP!ReaderConstants, NP!NotificationConstants, Topics

(***************************************************************************)
(* The steps of the parts.                                                 *)
(***************************************************************************)
\* analytics-consumer starts as its proofs say it does,
LEMMA ConsumerInit == A!Init => AP!Init
  BY DEF A!Init, A!ReaderInit, A!Nowhere, AP!Init, AP!ReaderInit, AP!Nowhere

\* and steps as they say.
LEMMA ConsumerStep == A!ConsumerStep => AP!ConsumerStep
  <1> SUFFICES ASSUME A!ConsumerStep PROVE AP!ConsumerStep
    OBVIOUS
  <1>1. ASSUME \E p \in Partition : A!Fetch(p)
        PROVE  \E p \in Partition : AP!Fetch(p)
    BY <1>1 DEF A!Fetch, A!FetchMessage, A!Holding, A!Nowhere, A!Goto, A!history, A!process,
       AP!Fetch, AP!FetchMessage, AP!Holding, AP!Nowhere, AP!Goto, AP!history, AP!process
  <1>2. ASSUME A!Handle
        PROVE  AP!Handle
    BY <1>2 DEF A!Handle, A!Ignore, A!Reject, A!MarkProcessed, A!IgnoreDuplicate, A!UpdateStatistics,
       A!CommitOffset, A!CommitMessages, A!HandleFails, A!Skip, A!Goto, A!AtProjector,
       A!Seen, A!Accepts, A!IsOrderCreated, A!Bump, A!Msg, A!InHand, A!MessageAt, A!Nowhere,
       A!readerVars, A!history, A!process, AP!Handle, AP!Ignore, AP!Reject,
       AP!MarkProcessed, AP!IgnoreDuplicate, AP!UpdateStatistics, AP!CommitOffset,
       AP!CommitMessages, AP!HandleFails, AP!Skip, AP!Goto, AP!AtProjector, AP!Seen,
       AP!Accepts, AP!IsOrderCreated, AP!Bump, AP!Msg, AP!InHand, AP!MessageAt, AP!Nowhere,
       AP!readerVars, AP!history, AP!process
  <1>3. ASSUME A!StatementFails
        PROVE  AP!StatementFails
    BY <1>3 DEF A!StatementFails, A!HandleFails, A!Skip, A!Goto, A!AtProjector, A!Accepts,
       A!IsOrderCreated, A!Bump, A!Msg, A!InHand, A!MessageAt, A!Nowhere, AP!StatementFails,
       AP!HandleFails, AP!Skip, AP!Goto, AP!AtProjector, AP!Accepts, AP!IsOrderCreated,
       AP!Bump, AP!Msg, AP!InHand, AP!MessageAt, AP!Nowhere
  <1>4. ASSUME A!CommitOffsetFails \/ A!GroupRebalances \/ A!Crash \/ A!Shutdown
        PROVE  AP!CommitOffsetFails \/ AP!GroupRebalances \/ AP!Crash \/ AP!Shutdown
    BY <1>4 DEF A!CommitOffsetFails, A!GroupRebalances, A!Rebalance, A!Crash, A!Shutdown, A!Restart,
       A!Skip, A!Goto, A!Nowhere, A!readerVars, A!history, AP!CommitOffsetFails,
       AP!GroupRebalances, AP!Rebalance, AP!Crash, AP!Shutdown, AP!Restart, AP!Skip,
       AP!Goto, AP!Nowhere, AP!readerVars, AP!history
  <1>5. ASSUME A!StopStep
        PROVE  AP!StopStep
    BY <1>5 DEF A!StopStep, A!Cancelled, A!CommitOffsetCancelled, A!RunEnds, A!StartAgain,
       A!HandleFails, A!Skip, A!Restart, A!Goto, A!AtProjector, A!Accepts, A!IsOrderCreated,
       A!Msg, A!InHand, A!MessageAt, A!Nowhere, A!readerVars, A!history, A!process,
       AP!StopStep, AP!Cancelled, AP!CommitOffsetCancelled, AP!RunEnds, AP!StartAgain,
       AP!HandleFails, AP!Skip, AP!Restart, AP!Goto, AP!AtProjector, AP!Accepts,
       AP!IsOrderCreated, AP!Msg, AP!InHand, AP!MessageAt, AP!Nowhere, AP!readerVars,
       AP!history, AP!process
  <1> QED
    BY <1>1, <1>2, <1>3, <1>4, <1>5 DEF A!ConsumerStep, AP!ConsumerStep

\* notification-service starts as its proofs say it does,
LEMMA ServiceInit == N!Init => NP!Init
  BY DEF N!Init, N!ReaderInit, N!Nowhere, N!NoTx, N!EventId, NP!Init, NP!ReaderInit,
         NP!Nowhere, NP!NoTx, NP!EventId

\* and steps as they say.
LEMMA ServiceStep == N!ServiceStep => NP!ServiceStep
  <1> SUFFICES ASSUME N!ServiceStep PROVE NP!ServiceStep
    OBVIOUS
  <1>1. ASSUME \E p \in Partition : N!FetchOrder(p) \/ N!FetchCustomer(p)
        PROVE  \E p \in Partition : NP!FetchOrder(p) \/ NP!FetchCustomer(p)
    BY <1>1 DEF N!FetchOrder, N!FetchCustomer, N!FetchMessage, N!Holding, N!Nowhere, N!OrderGoto,
       N!CustomerGoto, N!db, N!orderVars, N!customerVars, N!process, NP!FetchOrder,
       NP!FetchCustomer, NP!FetchMessage, NP!Holding, NP!Nowhere, NP!OrderGoto,
       NP!CustomerGoto, NP!db, NP!orderVars, NP!customerVars, NP!process
  <1>2. ASSUME N!OrderLoop
        PROVE  NP!OrderLoop
    BY <1>2 DEF N!OrderLoop, N!IgnoreOrderEvent, N!BeginOrder, N!InsertNotification,
       N!AlreadyNotified, N!PublishOrderNotificationSent, N!CommitOrder, N!OrderCommitted,
       N!AckOrder, N!Unsettled, N!MakeVisible, N!CommitMessages, N!Begun, N!NoTx,
       N!OrderMsg, N!InHand, N!MessageAt, N!Nowhere, N!OrderGoto, N!readerVars, N!db,
       N!customerVars, N!process, NP!OrderLoop, NP!IgnoreOrderEvent, NP!BeginOrder,
       NP!InsertNotification, NP!AlreadyNotified, NP!PublishOrderNotificationSent,
       NP!CommitOrder, NP!OrderCommitted, NP!AckOrder, NP!Unsettled, NP!MakeVisible,
       NP!CommitMessages, NP!Begun, NP!NoTx, NP!OrderMsg, NP!InHand, NP!MessageAt,
       NP!Nowhere, NP!OrderGoto, NP!readerVars, NP!db, NP!customerVars, NP!process
  <1>3. ASSUME N!CustomerLoop
        PROVE  NP!CustomerLoop
    BY <1>3 DEF N!CustomerLoop, N!IgnoreCustomerEvent, N!NotifyCustomerCreated, N!AckCustomer,
       N!CommitMessages, N!CustomerMsg, N!InHand, N!MessageAt, N!Nowhere, N!CustomerGoto,
       N!readerVars, N!db, N!orderVars, N!process, NP!CustomerLoop, NP!IgnoreCustomerEvent,
       NP!NotifyCustomerCreated, NP!AckCustomer, NP!CommitMessages, NP!CustomerMsg,
       NP!InHand, NP!MessageAt, NP!Nowhere, NP!CustomerGoto, NP!readerVars, NP!db,
       NP!orderVars, NP!process
  <1>4. ASSUME N!SettleOrphan
        PROVE  NP!SettleOrphan
    BY <1>4 DEF N!SettleOrphan, N!OrphanCommits, N!OrphanAborts, N!MakeVisible, N!readerVars,
       N!orderVars, N!customerVars, N!process, NP!SettleOrphan, NP!OrphanCommits,
       NP!OrphanAborts, NP!MakeVisible, NP!readerVars, NP!orderVars, NP!customerVars,
       NP!process
  <1>5. ASSUME N!StatementFails \/ N!ConnectionLost
        PROVE  NP!StatementFails \/ NP!ConnectionLost
    BY <1>5 DEF N!StatementFails, N!ConnectionLost, N!HandlingOrder, N!OrderHandlerFails,
       N!CountError, N!Skip, N!NoTx, N!OrderMsg, N!InHand, N!MessageAt, N!Nowhere,
       N!OrderGoto, N!customerVars, NP!StatementFails, NP!ConnectionLost, NP!HandlingOrder,
       NP!OrderHandlerFails, NP!CountError, NP!Skip, NP!NoTx, NP!OrderMsg, NP!InHand,
       NP!MessageAt, NP!Nowhere, NP!OrderGoto, NP!customerVars
  <1>6. ASSUME \E g \in {orderGroup, customerGroup} : N!OffsetCommitFails(g) \/ N!GroupRebalances(g)
        PROVE  \E g \in {orderGroup, customerGroup} : NP!OffsetCommitFails(g) \/ NP!GroupRebalances(g)
    BY <1>6 DEF N!OffsetCommitFails, N!GroupRebalances, N!Rebalance, N!Skip, N!Nowhere, N!OrderGoto,
       N!CustomerGoto, N!db, N!orderVars, N!customerVars, NP!OffsetCommitFails,
       NP!GroupRebalances, NP!Rebalance, NP!Skip, NP!Nowhere, NP!OrderGoto, NP!CustomerGoto,
       NP!db, NP!orderVars, NP!customerVars
  <1>7. ASSUME N!Crash \/ N!Shutdown
        PROVE  NP!Crash \/ NP!Shutdown
    BY <1>7 DEF N!Crash, N!Shutdown, N!Restart, N!NoTx, N!Nowhere, N!OrderGoto, N!CustomerGoto,
       N!readerVars, N!db, N!orderVars, N!customerVars, NP!Crash, NP!Shutdown, NP!Restart,
       NP!NoTx, NP!Nowhere, NP!OrderGoto, NP!CustomerGoto, NP!readerVars, NP!db,
       NP!orderVars, NP!customerVars
  <1>8. ASSUME N!StopStep
        PROVE  NP!StopStep
    BY <1>8 DEF N!StopStep, N!Cancelled, N!AckCancelled, N!OrderLoopEnds, N!CustomerLoopEnds,
       N!StartAgain, N!HandlingOrder, N!OrderHandlerFails, N!Skip, N!Restart, N!NoTx,
       N!OrderMsg, N!InHand, N!MessageAt, N!Nowhere, N!OrderGoto, N!CustomerGoto,
       N!readerVars, N!db, N!orderVars, N!customerVars, N!process, NP!StopStep,
       NP!Cancelled, NP!AckCancelled, NP!OrderLoopEnds, NP!CustomerLoopEnds, NP!StartAgain,
       NP!HandlingOrder, NP!OrderHandlerFails, NP!Skip, NP!Restart, NP!NoTx, NP!OrderMsg,
       NP!InHand, NP!MessageAt, NP!Nowhere, NP!OrderGoto, NP!CustomerGoto, NP!readerVars,
       NP!db, NP!orderVars, NP!customerVars, NP!process
  <1> QED
    BY <1>1, <1>2, <1>3, <1>4, <1>5, <1>6, <1>7, <1>8 DEF N!ServiceStep, NP!ServiceStep

\* Neither writes to a topic.
LEMMA NobodyWrites ==
  /\ A!ConsumerStep => log' = log
  /\ N!ServiceStep => log' = log
  <1>1. ASSUME A!ConsumerStep PROVE log' = log
    BY <1>1 DEF A!ConsumerStep, A!Fetch, A!FetchMessage, A!Handle, A!Ignore, A!Reject,
       A!MarkProcessed, A!IgnoreDuplicate, A!UpdateStatistics, A!CommitOffset,
       A!CommitMessages, A!StatementFails, A!CommitOffsetFails, A!GroupRebalances,
       A!Rebalance, A!Crash, A!Restart, A!Shutdown, A!StopStep, A!Cancelled,
       A!CommitOffsetCancelled, A!RunEnds, A!StartAgain, A!HandleFails, A!Skip, A!readerVars
  <1>2. ASSUME N!ServiceStep PROVE log' = log
    BY <1>2 DEF N!ServiceStep, N!FetchOrder, N!FetchCustomer, N!FetchMessage, N!OrderLoop,
       N!IgnoreOrderEvent, N!BeginOrder, N!InsertNotification, N!AlreadyNotified,
       N!PublishOrderNotificationSent, N!CommitOrder, N!OrderCommitted, N!AckOrder,
       N!CustomerLoop, N!IgnoreCustomerEvent, N!NotifyCustomerCreated, N!AckCustomer,
       N!CommitMessages, N!SettleOrphan, N!OrphanCommits, N!OrphanAborts, N!StatementFails,
       N!ConnectionLost, N!OrderHandlerFails, N!OffsetCommitFails, N!GroupRebalances,
       N!Rebalance, N!Crash, N!Restart, N!Shutdown, N!StopStep, N!Cancelled, N!AckCancelled,
       N!OrderLoopEnds, N!CustomerLoopEnds, N!StartAgain, N!Skip, N!readerVars
  <1> QED
    BY <1>1, <1>2

(***************************************************************************)
(* The inductive invariant.                                                *)
(***************************************************************************)
Announcements ==
  {L!OrderAnnounced(o.id, o.customer, o.total) : o \in Orders}
    \cup {L!CustomerAnnounced(c) : c \in Customer}

\* What is placed is in the WAL, and so is every customer registered later.
LedgerOK ==
  /\ placed \subseteq Orders
  /\ announced \in Seq(Announcements)
  /\ \A o \in Orders : o \in placed <=> \E i \in DOMAIN wal : wal[i] = CreatedRow(o)
  /\ \A c \in customers \ InitCustomers :
       c \in Customer /\ \E i \in DOMAIN wal : wal[i] = CustomerRow(c)

\* The topics have nothing but what is in the WAL, and all the connector passed.
RelayOK ==
  /\ wal \in Seq(Rows)
  /\ next \in 1..(Len(wal) + 1)
  /\ \A t \in Topics : \A m \in AP!Appended(t) : \E i \in DOMAIN wal : m = Routed(wal[i])
  /\ \A i \in 1..(next - 1) : Routed(wal[i]) \in AP!Appended(RouteOf(wal[i]))

CreatedIds == {CreatedId(o) : o \in placed}

\* The consumers' tables have nothing but placed orders.
ReadOK == processed \subseteq CreatedIds /\ NP!Ids \subseteq CreatedIds

IsAnswer(row) == row.type = "OrderNotificationSent"

\* An answer is the only one to its order, comes after the order's announcement,
\* and is recorded.
AnswersOK ==
  /\ \A i \in DOMAIN wal : IsAnswer(wal[i]) =>
       \E o \in Orders : /\ wal[i] = AnswerRow(CreatedId(o))
                         /\ CreatedId(o) \in notificationLog
                         /\ \E j \in DOMAIN wal : j < i /\ wal[j] = CreatedRow(o)
  /\ \A i, j \in DOMAIN wal :
       IsAnswer(wal[i]) /\ IsAnswer(wal[j]) /\ wal[i].aggregate = wal[j].aggregate => i = j

PartsOK == AP!IInv /\ AP!CountInv /\ NP!IInv

IInv == PartsOK /\ LedgerOK /\ RelayOK /\ ReadOK /\ AnswersOK

(***************************************************************************)
(* The parts keep their invariants.                                        *)
(***************************************************************************)
\* A delivery to one consumer is a delivery to the other.
LEMMA PublishDelivers ==
  ASSUME RelayOK, Publish,
         UNCHANGED <<ledgerVars, analyticsVars, notificationVars>>
  PROVE  /\ Routed(wal[next]) \in Messages /\ Routed(wal[next]).topic \in Topics
         /\ AP!Deliver(Routed(wal[next]).topic, Routed(wal[next]))
         /\ NP!Deliver(Routed(wal[next]).topic, Routed(wal[next]))
  <1>1. wal[next] \in Rows
    BY DEF RelayOK, Publish
  <1>2. Routed(wal[next]) \in Messages /\ Routed(wal[next]).topic \in Topics
    BY <1>1, RoutedFacts DEF Messages
  <1> QED
    BY <1>2 DEF Publish, AP!Deliver, NP!Deliver, analyticsVars, notificationVars

\* Every step of the system is a step of a part or leaves it alone.
LEMMA PartsStep ==
  ASSUME IInv, [Next]_vars
  PROVE  PartsOK'
  <1>1. AP!IInv /\ AP!CountInv /\ NP!IInv
    BY DEF IInv, PartsOK
  <1>2. UNCHANGED <<log, analyticsVars>> => AP!IInv' /\ AP!CountInv'
    <2>1. UNCHANGED <<log, analyticsVars>> => UNCHANGED AP!vars
      BY DEF analyticsVars, AP!vars, AP!readerVars, AP!analyticsVars, AP!history, AP!process
    <2> QED
      BY <1>1, <2>1, AP!InvStep, AP!CountStepOK, AnalyticsConstantsHold
  <1>3. UNCHANGED <<log, notificationVars>> => NP!IInv'
    <2>1. UNCHANGED <<log, notificationVars>> => UNCHANGED NP!vars
      BY DEF notificationVars, NP!vars, NP!readerVars, NP!db, NP!orderVars, NP!customerVars,
         NP!process
    <2> QED
      BY <1>1, <2>1, NP!InvStep, NotificationConstantsHold
  <1>4. CASE Serve
    BY <1>2, <1>3, <1>4 DEF Serve, PartsOK
  <1>5. CASE Relay /\ Publish
    <2>1. /\ Routed(wal[next]) \in Messages /\ Routed(wal[next]).topic \in Topics
          /\ AP!Deliver(Routed(wal[next]).topic, Routed(wal[next]))
          /\ NP!Deliver(Routed(wal[next]).topic, Routed(wal[next]))
      BY <1>5, PublishDelivers DEF Relay, IInv
    <2>2. UNCHANGED AP!analyticsVars
      BY <1>5 DEF Relay, analyticsVars, AP!analyticsVars, AP!history, AP!process
    <2>3. UNCHANGED <<NP!db, NP!orderVars, NP!customerVars, NP!process>>
      BY <1>5 DEF Relay, notificationVars, NP!db, NP!orderVars, NP!customerVars, NP!process
    <2>4. AP!IInv' /\ AP!CountInv'
      BY <1>1, <2>1, <2>2, AP!Delivery, AnalyticsConstantsHold
    <2>5. NP!IInv'
      BY <1>1, <2>1, <2>3, NP!Delivery, NotificationConstantsHold
    <2> QED
      BY <2>4, <2>5 DEF PartsOK
  <1>6. CASE Relay /\ Restart
    BY <1>2, <1>3, <1>6 DEF Relay, Restart, PartsOK
  <1>7. CASE Count
    <2>1. AP!Next
      BY <1>7, ConsumerStep DEF Count, AP!Next
    <2>2. AP!IInv' /\ AP!CountInv'
      BY <1>1, <2>1, AP!InvStep, AP!CountStepOK, AnalyticsConstantsHold
    <2>3. NP!IInv'
      BY <1>3, <1>7, NobodyWrites DEF Count
    <2> QED
      BY <2>2, <2>3 DEF PartsOK
  <1>8. CASE Notify
    <2>1. NP!Next
      BY <1>8, ServiceStep DEF Notify, NP!Next
    <2>2. NP!IInv'
      BY <1>1, <2>1, NP!InvStep, NotificationConstantsHold
    <2>3. AP!IInv' /\ AP!CountInv'
      BY <1>2, <1>8, NobodyWrites DEF Notify
    <2> QED
      BY <2>2, <2>3 DEF PartsOK
  <1>9. CASE UNCHANGED vars
    BY <1>2, <1>3, <1>9 DEF vars, PartsOK
  <1> QED
    BY <1>4, <1>5, <1>6, <1>7, <1>8, <1>9 DEF Next, Rest, Relay

(***************************************************************************)
(* The WAL.                                                                *)
(***************************************************************************)
\* What Append does to a sequence.
LEMMA Appending ==
  ASSUME NEW R, NEW s \in Seq(R), NEW x \in R
  PROVE  /\ Append(s, x) \in Seq(R)
         /\ Len(s) \in Nat /\ DOMAIN s = 1..Len(s)
         /\ DOMAIN Append(s, x) = 1..(Len(s) + 1) /\ Len(Append(s, x)) = Len(s) + 1
         /\ \A i \in 1..Len(s) : s[i] \in R /\ Append(s, x)[i] = s[i]
         /\ Append(s, x)[Len(s) + 1] = x
  OBVIOUS

\* A commit of the order service adds the row of an order or of a customer.
LEMMA ServeWrites ==
  ASSUME IInv, Serve
  PROVE  /\ announced' \in Seq(Announcements)
         /\ \/ \E o \in Orders : L!Place(o) /\ wal' = Append(wal, CreatedRow(o))
            \/ \E c \in Customer : L!Register(c) /\ wal' = Append(wal, CustomerRow(c))
  <1>1. announced \in Seq(Announcements)
    BY DEF IInv, LedgerOK
  <1>2. CASE \E o \in Orders : L!Place(o)
    <2>1. PICK o \in Orders : L!Place(o)
      BY <1>2
    <2> DEFINE a == L!OrderAnnounced(o.id, o.customer, o.total)
    <2>2. a \in Announcements
      BY DEF Announcements
    <2>3. announced' = Append(announced, a)
      BY <2>1 DEF L!Place
    <2>4. announced' \in Seq(Announcements) /\ announced'[Len(announced')] = a
      <3> HIDE DEF a
      <3> QED
        BY <1>1, <2>2, <2>3, Appending
    <2>5. AnnouncedRow(a) = CreatedRow(o)
      BY DEF AnnouncedRow, CreatedRow, L!OrderAnnounced
    <2>6. wal' = Append(wal, CreatedRow(o))
      <3> HIDE DEF a
      <3> QED
        BY <2>4, <2>5 DEF Serve
    <2> QED
      BY <2>1, <2>4, <2>6
  <1>3. CASE \E c \in Customer : L!Register(c)
    <2>1. PICK c \in Customer : L!Register(c)
      BY <1>3
    <2> DEFINE a == L!CustomerAnnounced(c)
    <2>2. a \in Announcements
      BY DEF Announcements
    <2>3. announced' = Append(announced, a)
      BY <2>1 DEF L!Register
    <2>4. announced' \in Seq(Announcements) /\ announced'[Len(announced')] = a
      <3> HIDE DEF a
      <3> QED
        BY <1>1, <2>2, <2>3, Appending
    <2>5. AnnouncedRow(a) = CustomerRow(c)
      BY DEF AnnouncedRow, CustomerRow, L!CustomerAnnounced
    <2>6. wal' = Append(wal, CustomerRow(c))
      <3> HIDE DEF a
      <3> QED
        BY <2>4, <2>5 DEF Serve
    <2> QED
      BY <2>1, <2>4, <2>6
  <1> QED
    BY <1>2, <1>3 DEF Serve

\* A commit of notification-service adds the answer to a placed order.
LEMMA NotifyWrites ==
  ASSUME IInv, Notify
  PROVE  \/ wal' = wal /\ outbox' = outbox
         \/ \E o \in placed : /\ wal' = Append(wal, AnswerRow(CreatedId(o)))
                             /\ outbox' = Append(outbox, CreatedId(o))
  <1>1. NP!IInv /\ NP!Next /\ wal \in Seq(Rows) /\ outbox \in Seq(NP!EventId)
    BY ServiceStep DEF IInv, PartsOK, RelayOK, Notify, NP!Next, NP!IInv, NP!TypeOK
  <1>2. outbox' = outbox \/ \E i \in NP!Ids : outbox' = Append(outbox, i)
    BY <1>1, NP!OutboxStep, NotificationConstantsHold
  <1>3. CASE outbox' = outbox
    <2>1. [i \in 1..(Len(outbox') - Len(outbox)) |-> AnswerRow(outbox'[Len(outbox) + i])] = <<>>
      BY <1>1, <1>3
    <2>2. wal' = wal \o <<>>
      BY <2>1 DEF Notify
    <2> QED
      BY <1>1, <1>3, <2>2
  <1>4. ASSUME NEW i \in NP!Ids, outbox' = Append(outbox, i)
        PROVE  \E o \in placed : /\ wal' = Append(wal, AnswerRow(CreatedId(o)))
                               /\ outbox' = Append(outbox, CreatedId(o))
    <2>1. PICK o \in placed : i = CreatedId(o)
      BY DEF IInv, ReadOK, CreatedIds
    <2>2. Len(outbox) \in Nat /\ Len(outbox') = Len(outbox) + 1 /\ outbox'[Len(outbox) + 1] = i
      BY <1>1, <1>4
    <2>3. [n \in 1..(Len(outbox') - Len(outbox)) |-> AnswerRow(outbox'[Len(outbox) + n])]
            = <<AnswerRow(i)>>
      <3>1. 1..(Len(outbox') - Len(outbox)) = {1}
        BY <2>2
      <3>2. [n \in {1} |-> AnswerRow(outbox'[Len(outbox) + n])] = <<AnswerRow(i)>>
        BY <2>2
      <3> QED
        BY <3>1, <3>2
    <2>4. wal' = wal \o <<AnswerRow(i)>>
      BY <2>3 DEF Notify
    <2>5. wal' = Append(wal, AnswerRow(i))
      BY <1>1, <2>4
    <2> QED
      BY <1>4, <2>1, <2>5
  <1> QED
    BY <1>2, <1>3, <1>4

\* What a step does to the WAL, and what it may add.
Adds(row) ==
  /\ row \in Rows /\ wal' = Append(wal, row)
  /\ UNCHANGED <<log, relayVars, processed>>

\* A step adds the row of an order it places, of a customer it registers or of an
\* answer it records, or leaves the WAL and what it mirrors alone.
LEMMA WalSteps ==
  ASSUME IInv, [Next]_vars
  PROVE  \/ \E o \in Orders : /\ L!Place(o) /\ Adds(CreatedRow(o))
                             /\ announced' \in Seq(Announcements)
                             /\ UNCHANGED notificationVars
         \/ \E c \in Customer : /\ L!Register(c) /\ Adds(CustomerRow(c))
                               /\ announced' \in Seq(Announcements)
                               /\ UNCHANGED notificationVars
         \/ \E o \in placed : /\ Notify /\ Adds(AnswerRow(CreatedId(o)))
                             /\ outbox' = Append(outbox, CreatedId(o))
                             /\ UNCHANGED ledgerVars
         \/ UNCHANGED <<wal, outbox, ledgerVars>>
  <1>1. placed \subseteq Orders
    BY DEF IInv, LedgerOK
  <1>2. CASE Serve
    <2>1. UNCHANGED <<log, relayVars, processed, notificationVars>>
      BY <1>2 DEF Serve, analyticsVars
    <2> QED
      BY <1>2, <2>1, ServeWrites, CreatedColumns, CustomerColumns DEF Adds
  <1>3. CASE Notify
    <2>1. UNCHANGED <<log, relayVars, processed, ledgerVars>>
      BY <1>3, NobodyWrites DEF Notify, analyticsVars
    <2> QED
      BY <1>1, <1>3, <2>1, NotifyWrites, AnswerColumns DEF Adds
  <1>4. CASE Relay \/ Count \/ UNCHANGED vars
    BY <1>4 DEF Relay, Publish, Restart, Count, vars, notificationVars
  <1> QED
    BY <1>2, <1>3, <1>4 DEF Next, Rest

\* The row added is the last one.
LEMMA Added ==
  ASSUME IInv, NEW row, Adds(row)
  PROVE  /\ wal' \in Seq(Rows) /\ Len(wal') = Len(wal) + 1
         /\ Len(wal) \in Nat /\ DOMAIN wal = 1..Len(wal) /\ DOMAIN wal' = 1..(Len(wal) + 1)
         /\ \A i \in 1..Len(wal) : wal'[i] = wal[i]
         /\ wal'[Len(wal) + 1] = row
  <1>1. wal \in Seq(Rows) /\ row \in Rows /\ wal' = Append(wal, row)
    BY DEF IInv, RelayOK, Adds
  <1> QED
    BY <1>1, Appending

\* What is in the WAL stays in it.
LEMMA WalGrows ==
  ASSUME IInv, [Next]_vars
  PROVE  /\ wal' \in Seq(Rows) /\ Len(wal) <= Len(wal') /\ Len(wal) \in Nat /\ Len(wal') \in Nat
         /\ \A i \in DOMAIN wal : i \in DOMAIN wal' /\ wal'[i] = wal[i]
  <1>1. wal \in Seq(Rows)
    BY DEF IInv, RelayOK
  <1>2. CASE wal' = wal
    BY <1>1, <1>2
  <1>3. CASE \E row : Adds(row)
    BY <1>3, Added
  <1> QED
    BY <1>2, <1>3, WalSteps

\* The ledger's part of the invariant.
LEMMA LedgerStep ==
  ASSUME IInv, [Next]_vars
  PROVE  LedgerOK'
  <1>1. /\ wal \in Seq(Rows) /\ placed \subseteq Orders /\ announced \in Seq(Announcements)
        /\ \A o \in Orders : o \in placed <=> \E i \in DOMAIN wal : wal[i] = CreatedRow(o)
        /\ \A c \in customers \ InitCustomers :
             c \in Customer /\ \E i \in DOMAIN wal : wal[i] = CustomerRow(c)
    BY DEF IInv, LedgerOK, RelayOK
  <1>2. \A c \in customers \ InitCustomers :
          c \in Customer /\ \E i \in DOMAIN wal' : wal'[i] = CustomerRow(c)
    BY <1>1, WalGrows
  <1>3. ASSUME NEW row, Adds(row), NEW r
        PROVE  (\E i \in DOMAIN wal' : wal'[i] = r) <=> (r = row \/ \E i \in DOMAIN wal : wal[i] = r)
    <2>1. /\ Len(wal) \in Nat /\ DOMAIN wal = 1..Len(wal) /\ DOMAIN wal' = 1..(Len(wal) + 1)
          /\ \A i \in 1..Len(wal) : wal'[i] = wal[i]
          /\ wal'[Len(wal) + 1] = row
      BY <1>3, Added
    <2>2. \A i \in DOMAIN wal' : i = Len(wal) + 1 \/ (i \in DOMAIN wal /\ wal'[i] = wal[i])
      BY <2>1
    <2>3. \A i \in DOMAIN wal : i \in DOMAIN wal' /\ wal'[i] = wal[i]
      BY <2>1
    <2>4. Len(wal) + 1 \in DOMAIN wal'
      BY <2>1
    <2> QED
      BY <2>1, <2>2, <2>3, <2>4, Zenon
  <1>4. \A o, q \in Orders : CreatedRow(o) = CreatedRow(q) => o = q
    BY CreatedColumns, PipelineConstants
  <1>5. ASSUME NEW o \in Orders, L!Place(o), Adds(CreatedRow(o)), announced' \in Seq(Announcements)
        PROVE  LedgerOK'
    <2>1. placed' = placed \cup {o} /\ customers' = customers
      BY <1>5 DEF L!Place
    <2>2. ASSUME NEW q \in Orders
          PROVE  q \in placed' <=> \E i \in DOMAIN wal' : wal'[i] = CreatedRow(q)
      <3>1. (\E i \in DOMAIN wal' : wal'[i] = CreatedRow(q)) <=>
              (CreatedRow(q) = CreatedRow(o) \/ \E i \in DOMAIN wal : wal[i] = CreatedRow(q))
        BY <1>3, <1>5
      <3>2. q \in placed <=> \E i \in DOMAIN wal : wal[i] = CreatedRow(q)
        BY <1>1
      <3>3. CreatedRow(q) = CreatedRow(o) <=> q = o
        BY <1>4
      <3> QED
        BY <2>1, <3>1, <3>2, <3>3
    <2> QED
      BY <1>1, <1>2, <1>5, <2>1, <2>2 DEF LedgerOK
  <1>6. ASSUME NEW c \in Customer, L!Register(c), Adds(CustomerRow(c)),
               announced' \in Seq(Announcements)
        PROVE  LedgerOK'
    <2>1. placed' = placed /\ customers' = customers \cup {c}
      BY <1>6 DEF L!Register
    <2>2. \A o \in Orders : CreatedRow(o) # CustomerRow(c)
      BY CreatedColumns, CustomerColumns
    <2>3. \E i \in DOMAIN wal' : wal'[i] = CustomerRow(c)
      BY <1>3, <1>6
    <2> QED
      BY <1>1, <1>2, <1>3, <1>6, <2>1, <2>2, <2>3 DEF LedgerOK
  <1>7. ASSUME NEW p \in placed, Adds(AnswerRow(CreatedId(p))), UNCHANGED ledgerVars
        PROVE  LedgerOK'
    <2>1. placed' = placed /\ customers' = customers /\ announced' = announced
      BY <1>7 DEF ledgerVars
    <2>2. \A o \in Orders : CreatedRow(o) # AnswerRow(CreatedId(p))
      BY <1>1, CreatedColumns, AnswerColumns
    <2> QED
      BY <1>1, <1>2, <1>3, <1>7, <2>1, <2>2 DEF LedgerOK
  <1>8. CASE UNCHANGED <<wal, outbox, ledgerVars>>
    BY <1>1, <1>8 DEF LedgerOK, ledgerVars
  <1> QED
    BY <1>5, <1>6, <1>7, <1>8, WalSteps

\* What the connector publishes is on its topic, and nothing else is new.
LEMMA PublishAppends ==
  ASSUME IInv, Publish
  PROVE  /\ wal[next] \in Rows /\ next \in DOMAIN wal
         /\ \A t \in Topics : AP!Appended(t)' =
              AP!Appended(t) \cup (IF t = RouteOf(wal[next]) THEN {Routed(wal[next])} ELSE {})
  <1> DEFINE m == Routed(wal[next])
  <1>1. wal[next] \in Rows /\ next \in DOMAIN wal
    BY DEF IInv, RelayOK, Publish
  <1>2. m.topic = RouteOf(wal[next]) /\ m.topic \in Topics /\ m.partition \in Partition
    BY <1>1, RoutedFacts
  <1>3. log \in [Topics -> [Partition -> Seq(Messages)]]
    BY DEF IInv, PartsOK, AP!IInv, AP!TypeOK, AP!ReaderTypeOK
  <1>4. log' = [log EXCEPT ![m.topic][m.partition] = Append(@, m)] /\ m \in Messages
    BY <1>1 DEF Publish, Messages
  <1> HIDE DEF m
  <1>5. ASSUME NEW t \in Topics, NEW p \in Partition
        PROVE  {log'[t][p][i] : i \in DOMAIN log'[t][p]} =
                 {log[t][p][i] : i \in DOMAIN log[t][p]}
                   \cup (IF t = m.topic /\ p = m.partition THEN {m} ELSE {})
    <2>1. CASE t = m.topic /\ p = m.partition
      <3>1. log'[t][p] = Append(log[t][p], m) /\ log[t][p] \in Seq(Messages)
        BY <1>2, <1>3, <1>4, <2>1
      <3> QED
        BY <1>4, <2>1, <3>1, Appending
    <2>2. CASE ~(t = m.topic /\ p = m.partition)
      <3>1. log'[t][p] = log[t][p]
        BY <1>2, <1>3, <1>4, <2>2
      <3> QED
        BY <2>2, <3>1
    <2> QED
      BY <2>1, <2>2
  <1>6. \A t \in Topics : AP!Appended(t)' =
          AP!Appended(t) \cup (IF t = m.topic THEN {m} ELSE {})
    <2> SUFFICES ASSUME NEW t \in Topics, NEW x
                 PROVE  x \in AP!Appended(t)' <=>
                          x \in AP!Appended(t) \/ (t = m.topic /\ x = m)
      OBVIOUS
    <2>1. x \in AP!Appended(t) <=>
            \E p \in Partition : x \in {log[t][p][i] : i \in DOMAIN log[t][p]}
      BY DEF AP!Appended
    <2>2. x \in AP!Appended(t)' <=>
            \E p \in Partition : x \in {log'[t][p][i] : i \in DOMAIN log'[t][p]}
      BY DEF AP!Appended
    <2>3. ASSUME NEW p \in Partition
          PROVE  x \in {log'[t][p][i] : i \in DOMAIN log'[t][p]} <=>
                   \/ x \in {log[t][p][i] : i \in DOMAIN log[t][p]}
                   \/ t = m.topic /\ p = m.partition /\ x = m
      BY <1>5
    <2> QED
      BY <1>2, <2>1, <2>2, <2>3
  <1> QED
    BY <1>1, <1>2, <1>6 DEF m

\* The relay's part of the invariant.
LEMMA RelayStep ==
  ASSUME IInv, [Next]_vars
  PROVE  RelayOK'
  <1>1. /\ wal \in Seq(Rows) /\ next \in 1..(Len(wal) + 1)
        /\ \A t \in Topics : \A m \in AP!Appended(t) : \E i \in DOMAIN wal : m = Routed(wal[i])
        /\ \A i \in 1..(next - 1) :
             i \in DOMAIN wal /\ Routed(wal[i]) \in AP!Appended(RouteOf(wal[i]))
    BY DEF IInv, RelayOK
  <1>2. /\ wal' \in Seq(Rows) /\ Len(wal) <= Len(wal') /\ Len(wal) \in Nat /\ Len(wal') \in Nat
        /\ \A i \in DOMAIN wal : i \in DOMAIN wal' /\ wal'[i] = wal[i]
    BY WalGrows
  <1>3. CASE UNCHANGED <<log, next>>
    <2>1. \A t : AP!Appended(t)' = AP!Appended(t)
      BY <1>3 DEF AP!Appended
    <2>2. next' \in 1..(Len(wal') + 1)
      BY <1>1, <1>2, <1>3
    <2> QED
      BY <1>1, <1>2, <1>3, <2>1, <2>2 DEF RelayOK
  <1>4. CASE Restart
    <2>1. \A t : AP!Appended(t)' = AP!Appended(t)
      BY <1>4 DEF Restart, AP!Appended
    <2>2. wal' = wal /\ next' \in 1..(next - 1)
      BY <1>4 DEF Restart
    <2>3. next' \in 1..(Len(wal) + 1) /\ \A i \in 1..(next' - 1) : i \in 1..(next - 1)
      <3>1. next \in Nat /\ next' \in Nat /\ 1 <= next' /\ next' < next /\ next <= Len(wal) + 1
        BY <1>1, <1>2, <2>2
      <3>2. \A k, n, w \in Nat : 1 <= k /\ k < n /\ n <= w + 1 =>
              k \in 1..(w + 1) /\ \A i \in 1..(k - 1) : i \in 1..(n - 1)
        OBVIOUS
      <3> QED
        BY <1>2, <3>1, <3>2
    <2> QED
      BY <1>1, <2>1, <2>2, <2>3 DEF RelayOK
  <1>5. CASE Publish
    <2>1. /\ wal[next] \in Rows /\ next \in DOMAIN wal
          /\ \A t \in Topics : AP!Appended(t)' =
               AP!Appended(t) \cup (IF t = RouteOf(wal[next]) THEN {Routed(wal[next])} ELSE {})
      BY <1>5, PublishAppends
    <2>2. wal' = wal /\ next' = next + 1 /\ next <= Len(wal)
      BY <1>5 DEF Publish
    <2>3. next' \in 1..(Len(wal) + 1) /\ \A i \in 1..(next' - 1) : i = next \/ i \in 1..(next - 1)
      BY <1>1, <1>2, <2>2
    <2>4. \A row : RouteOf(row) \in Topics
      BY DEF RouteOf, Topics
    <2>5. ASSUME NEW i \in 1..(next' - 1), NEW t, t = RouteOf(wal[i])
          PROVE  Routed(wal[i]) \in AP!Appended(t)'
      <3>1. t \in Topics
        BY <2>4, <2>5
      <3>2. CASE i = next
        BY <2>1, <2>5, <3>1, <3>2
      <3>3. CASE i \in 1..(next - 1)
        BY <1>1, <2>1, <2>5, <3>1, <3>3
      <3> QED
        BY <2>3, <2>5, <3>2, <3>3
    <2>6. \A t \in Topics : \A m \in AP!Appended(t)' : \E i \in DOMAIN wal : m = Routed(wal[i])
      BY <1>1, <2>1
    <2> QED
      BY <1>1, <2>2, <2>3, <2>5, <2>6 DEF RelayOK
  <1>6. Restart \/ Publish \/ UNCHANGED <<log, next>>
    BY NobodyWrites DEF Next, Rest, Serve, Relay, Count, Notify, vars, relayVars
  <1> QED
    BY <1>3, <1>4, <1>5, <1>6

\* An order on the topic is a placed order.
LEMMA OnTopicIsPlaced ==
  ASSUME IInv, NEW m \in AP!Appended(orderEvents), m.type = "OrderCreated"
  PROVE  m.id \in CreatedIds
  <1>1. PICK i \in DOMAIN wal : m = Routed(wal[i])
    BY DEF IInv, RelayOK, Topics
  <1>2. wal[i] \in Rows
    BY DEF IInv, RelayOK
  <1>3. PICK o \in Orders : wal[i] = CreatedRow(o)
    BY <1>1, <1>2, RoutedFacts, RowKinds
  <1>4. o \in placed
    BY <1>3 DEF IInv, LedgerOK
  <1> QED
    BY <1>1, <1>2, <1>3, <1>4, RoutedFacts DEF CreatedIds, CreatedId

\* The consumers' part of the invariant.
LEMMA ReadStep ==
  ASSUME IInv, [Next]_vars
  PROVE  ReadOK'
  <1>1. processed \subseteq CreatedIds /\ NP!Ids \subseteq CreatedIds
    BY DEF IInv, ReadOK
  <1>2. AP!IInv /\ NP!IInv
    BY DEF IInv, PartsOK
  <1>3. placed \subseteq placed'
    BY DEF Next, Rest, Serve, L!Place, L!Register, Relay, Count, Notify, vars, ledgerVars
  <1>4. CreatedIds \subseteq CreatedIds'
    BY <1>3 DEF CreatedIds
  <1>5. processed' \subseteq CreatedIds
    <2>1. CASE Count
      <3>1. AP!Next
        BY <2>1, ConsumerStep DEF Count, AP!Next
      <3>2. ASSUME NEW i \in processed', i \notin processed
            PROVE  i \in CreatedIds
        <4>1. \E m \in Messages :
                m \in AP!Appended(orderEvents) /\ AP!IsOrderCreated(m) /\ m.id = i
          BY <1>2, <3>1, <3>2, AP!ProcessedStep, AnalyticsConstantsHold
        <4> QED
          BY <4>1, OnTopicIsPlaced DEF AP!IsOrderCreated
      <3> QED
        BY <1>1, <3>2
    <2>2. CASE ~Count
      <3>1. processed' = processed
        BY <2>2 DEF Next, Rest, Serve, Relay, Notify, vars, analyticsVars
      <3> QED
        BY <1>1, <3>1
    <2> QED
      BY <2>1, <2>2
  <1>6. NP!Ids' \subseteq CreatedIds
    <2>1. CASE Notify
      <3>1. NP!Next
        BY <2>1, ServiceStep DEF Notify, NP!Next
      <3>2. ASSUME NEW i \in NP!Ids', i \notin NP!Ids
            PROVE  i \in CreatedIds
        <4>1. \E m \in Messages :
                m \in NP!Appended(orderEvents) /\ m.type = "OrderCreated" /\ m.id = i
          BY <1>2, <3>1, <3>2, NP!IdsStep, NotificationConstantsHold
        <4> QED
          BY <4>1, OnTopicIsPlaced DEF AP!Appended, NP!Appended
      <3> QED
        BY <1>1, <3>2
    <2>2. CASE ~Notify
      <3>1. UNCHANGED notificationVars
        BY <2>2 DEF Next, Rest, Serve, Relay, Count, vars
      <3>2. NP!Ids' = NP!Ids
        BY <3>1 DEF notificationVars, NP!Ids
      <3> QED
        BY <1>1, <3>2
    <2> QED
      BY <2>1, <2>2
  <1> QED
    BY <1>4, <1>5, <1>6 DEF ReadOK

\* The answers' part of the invariant.
LEMMA AnswersStep ==
  ASSUME IInv, [Next]_vars
  PROVE  AnswersOK'
  <1>1. /\ wal \in Seq(Rows) /\ placed \subseteq Orders
        /\ \A o \in placed : \E i \in DOMAIN wal : wal[i] = CreatedRow(o)
    BY DEF IInv, RelayOK, LedgerOK
  <1>2. /\ \A i \in DOMAIN wal : IsAnswer(wal[i]) =>
             \E o \in Orders : /\ wal[i] = AnswerRow(CreatedId(o))
                               /\ CreatedId(o) \in notificationLog
                               /\ \E j \in DOMAIN wal : j < i /\ wal[j] = CreatedRow(o)
        /\ \A i, j \in DOMAIN wal :
             IsAnswer(wal[i]) /\ IsAnswer(wal[j]) /\ wal[i].aggregate = wal[j].aggregate => i = j
    BY DEF IInv, AnswersOK
  <1>3. NP!IInv /\ NP!IInv'
    BY PartsStep DEF IInv, PartsOK
  <1>4. ASSUME NEW row, Adds(row)
        PROVE  /\ Len(wal) \in Nat /\ DOMAIN wal = 1..Len(wal) /\ DOMAIN wal' = 1..(Len(wal) + 1)
               /\ \A i \in 1..Len(wal) : wal'[i] = wal[i]
               /\ wal'[Len(wal) + 1] = row
    BY <1>4, Added
  <1>5. ASSUME NEW row, Adds(row), ~IsAnswer(row), UNCHANGED notificationVars
        PROVE  AnswersOK'
    <2>1. notificationLog' = notificationLog
      BY <1>5 DEF notificationVars
    <2>2. \A i \in DOMAIN wal' : IsAnswer(wal'[i]) => i \in DOMAIN wal /\ wal'[i] = wal[i]
      BY <1>4, <1>5
    <2>3. \A i \in DOMAIN wal : i \in DOMAIN wal' /\ wal'[i] = wal[i]
      BY <1>4, <1>5
    <2> QED
      BY <1>2, <2>1, <2>2, <2>3 DEF AnswersOK
  <1>6. ASSUME NEW o \in placed, Adds(AnswerRow(CreatedId(o))), outbox' = Append(outbox, CreatedId(o))
        PROVE  AnswersOK'
    <2> DEFINE n == Len(wal) + 1
    <2>1. o \in Orders /\ CreatedId(o) \in notificationLog' \ notificationLog
                        /\ notificationLog \subseteq notificationLog'
      <3>1. outbox \in Seq(NP!EventId) /\ outbox' \in Seq(NP!EventId')
        BY <1>3 DEF NP!IInv, NP!TypeOK
      <3>2. /\ Len(outbox) \in Nat /\ DOMAIN outbox = 1..Len(outbox)
            /\ DOMAIN outbox' = 1..(Len(outbox) + 1)
            /\ \A i \in 1..Len(outbox) : outbox'[i] = outbox[i]
            /\ outbox'[Len(outbox) + 1] = CreatedId(o)
        BY <1>6, <3>1
      <3>3. /\ notificationLog = {outbox[i] : i \in DOMAIN outbox}
            /\ notificationLog' = {outbox'[i] : i \in DOMAIN outbox'}
            /\ \A i, j \in DOMAIN outbox' : outbox'[i] = outbox'[j] => i = j
        BY <1>3 DEF NP!IInv, NP!LogMatchesOutbox
      <3> QED
        BY <1>1, <3>2, <3>3
    <2>2. /\ n \in Nat /\ DOMAIN wal = 1..(n - 1) /\ DOMAIN wal' = 1..n
          /\ wal'[n] = AnswerRow(CreatedId(o)) /\ \A i \in 1..(n - 1) : wal'[i] = wal[i]
      BY <1>4, <1>6
    <2> HIDE DEF n
    <2>3. ASSUME NEW i \in DOMAIN wal, IsAnswer(wal[i])
          PROVE  wal[i].aggregate # o.id
      <3>1. PICK q \in Orders : wal[i] = AnswerRow(CreatedId(q)) /\ CreatedId(q) \in notificationLog
        BY <1>2, <2>3
      <3>2. q.id # o.id
        BY <2>1, <3>1, PipelineConstants
      <3>3. wal[i].aggregate = q.id
        BY <3>1, AnswerColumns
      <3> QED
        BY <3>2, <3>3
    <2>4. PICK j \in DOMAIN wal : wal[j] = CreatedRow(o)
      BY <1>1
    <2>5. ASSUME NEW i \in DOMAIN wal', IsAnswer(wal'[i])
          PROVE  \E q \in Orders : /\ wal'[i] = AnswerRow(CreatedId(q))
                                   /\ CreatedId(q) \in notificationLog'
                                   /\ \E k \in DOMAIN wal' : k < i /\ wal'[k] = CreatedRow(q)
      <3>1. CASE i = n
        <4>1. j \in DOMAIN wal' /\ j < i /\ wal'[j] = CreatedRow(o)
          BY <2>2, <2>4, <3>1
        <4> QED
          BY <2>1, <2>2, <3>1, <4>1
      <3>2. CASE i \in DOMAIN wal
        <4>1. wal'[i] = wal[i]
          BY <2>2, <3>2
        <4>2. PICK q \in Orders : /\ wal[i] = AnswerRow(CreatedId(q))
                                  /\ CreatedId(q) \in notificationLog
                                  /\ \E k \in DOMAIN wal : k < i /\ wal[k] = CreatedRow(q)
          BY <1>2, <2>5, <3>2, <4>1
        <4>3. \E k \in DOMAIN wal' : k < i /\ wal'[k] = CreatedRow(q)
          BY <2>2, <4>2
        <4> QED
          BY <2>1, <4>1, <4>2, <4>3
      <3> QED
        BY <2>2, <3>1, <3>2
    <2>6. ASSUME NEW i \in DOMAIN wal', NEW k \in DOMAIN wal', IsAnswer(wal'[i]),
                 IsAnswer(wal'[k]), wal'[i].aggregate = wal'[k].aggregate
          PROVE  i = k
      <3>1. wal'[n].aggregate = o.id
        BY <2>1, <2>2, AnswerColumns
      <3>2. (i = n \/ i \in DOMAIN wal) /\ (k = n \/ k \in DOMAIN wal)
        BY <2>2
      <3>3. \A x \in DOMAIN wal : wal'[x] = wal[x]
        BY <2>2
      <3> QED
        BY <1>2, <2>3, <2>6, <3>1, <3>2, <3>3
    <2> QED
      BY <2>5, <2>6 DEF AnswersOK
  <1>7. CASE UNCHANGED <<wal, outbox, ledgerVars>>
    <2>1. notificationLog' = notificationLog
      BY <1>3, <1>7 DEF NP!IInv, NP!LogMatchesOutbox
    <2> QED
      BY <1>2, <1>7, <2>1 DEF AnswersOK
  <1>8. /\ \A o \in Orders : ~IsAnswer(CreatedRow(o))
        /\ \A c \in Customer : ~IsAnswer(CustomerRow(c))
    BY CreatedColumns, CustomerColumns DEF IsAnswer
  <1> QED
    BY <1>5, <1>6, <1>7, <1>8, WalSteps

(***************************************************************************)
(* The invariant holds, and what it gives.                                 *)
(***************************************************************************)
\* It holds at the start,
LEMMA InvInit == Init => IInv
  <1> SUFFICES ASSUME Init PROVE IInv
    OBVIOUS
  <1>1. PartsOK
    BY ConsumerInit, ServiceInit, AP!InvInit, AP!CountInit, NP!InvInit, AnalyticsConstantsHold,
       NotificationConstantsHold DEF Init, PartsOK
  <1>2. wal = <<>> /\ next = 1 /\ log = [t \in Topics |-> [p \in Partition |-> <<>>]]
    BY DEF Init, RelayInit
  <1>3. \A t \in Topics : AP!Appended(t) = {}
    BY <1>2 DEF AP!Appended
  <1>4. RelayOK
    BY <1>2, <1>3 DEF RelayOK
  <1>5. LedgerOK
    BY <1>2 DEF Init, L!Init, LedgerOK
  <1>6. ReadOK
    BY ServiceInit DEF Init, A!Init, NP!Init, NP!NoTx, NP!Ids, ReadOK
  <1>7. AnswersOK
    BY <1>2 DEF AnswersOK
  <1> QED
    BY <1>1, <1>4, <1>5, <1>6, <1>7 DEF IInv

\* and every step keeps it.
LEMMA InvStep == IInv /\ [Next]_vars => IInv'
  <1> SUFFICES ASSUME IInv, [Next]_vars PROVE IInv'
    OBVIOUS
  <1> QED
    BY PartsStep, LedgerStep, RelayStep, ReadStep, AnswersStep DEF IInv

\* So it always holds.
LEMMA Invariant == Spec => []IInv
  BY InvInit, InvStep, PTL DEF Spec

\* A sum is the same wherever it is defined.
LEMMA SameSums == \A f : AP!SumFunction(f) = SumFunction(f)
  BY DEF AP!SumFunction, AP!SumFunctionOnSet, AP!FoldFunctionOnSet, AP!MapThenFoldSet,
     SumFunction, SumFunctionOnSet, FoldFunctionOnSet, MapThenFoldSet

\* The message of an order.
MessageOf(o) == Routed(CreatedRow(o))

\* What the consumer reads of an order is what the order was.
LEMMA MessageFacts ==
  ASSUME NEW o \in Orders
  PROVE  /\ MessageOf(o) \in Messages /\ MessageOf(o).id = CreatedId(o)
         /\ MessageOf(o).cents = o.total /\ o.total \in Nat
         /\ MessageOf(o).day = DayOf[o.id]
         /\ CreatedId(o).of = o.id
  BY CreatedColumns, RoutedFacts DEF MessageOf, Messages, CreatedId

\* Different orders have different messages.
LEMMA MessagesDiffer ==
  \A o, q \in Orders : (CreatedId(o) = CreatedId(q) \/ MessageOf(o) = MessageOf(q)) => o = q
  BY MessageFacts, PipelineConstants

\* Counting events by their ids is counting the orders they announce.
LEMMA CountingOrders ==
  ASSUME IInv, NEW T \in SUBSET processed, NEW S, S = {o \in placed : CreatedId(o) \in T}
  PROVE  AP!StatisticsOf(T) = StatisticsOf(S)
  <1>1. /\ placed \subseteq Orders /\ T \subseteq CreatedIds /\ IsFiniteSet(T)
    <2>1. IsFiniteSet(processed)
      BY SameSets DEF IInv, PartsOK, AP!CountInv
    <2>2. IsFiniteSet(T)
      BY <2>1, FS_Subset
    <2> QED
      BY <2>2 DEF IInv, LedgerOK, ReadOK
  <1>2. IsFiniteSet(S)
    <2> DEFINE f == [o \in S |-> CreatedId(o)]
    <2>1. f \in [S -> T] /\ \A o, q \in S : f[o] = f[q] => o = q
      BY <1>1, MessagesDiffer
    <2>2. f \in Injection(S, T)
      BY <2>1 DEF Injection, IsInjective
    <2> QED
      BY <1>1, <2>2, FS_Injection
  <1>3. ASSUME NEW d \in Day,
               NEW O, O = {o \in S : DayOf[o.id] = d},
               NEW M, M = {m \in Messages : m.id \in T /\ m.day = d}
        PROVE  /\ Cardinality(M) = Cardinality(O)
               /\ SumFunction([m \in M |-> m.cents]) = SumFunction([o \in O |-> o.total])
    <2> DEFINE b == [o \in O |-> MessageOf(o)]
               f == [o \in O |-> o.total]
               g == [m \in M |-> m.cents]
    <2>1. IsFiniteSet(O)
      BY <1>2, <1>3, FS_Subset
    <2>2. O \subseteq Orders /\ \A o \in O : CreatedId(o) \in T /\ DayOf[o.id] = d
      BY <1>1, <1>3
    <2>3. b \in [O -> M] /\ \A o, q \in O : b[o] = b[q] => o = q
      BY <1>3, <2>2, MessageFacts, MessagesDiffer
    <2>4. ASSUME NEW m \in M PROVE \E o \in O : b[o] = m
      <3>1. m \in Messages /\ m.id \in T /\ m.day = d
        BY <1>3
      <3>2. PICK o \in placed : m.id = CreatedId(o)
        BY <1>1, <3>1 DEF CreatedIds
      <3>3. m = MessageOf(o)
        BY <1>1, <3>1, <3>2, MessageFacts, UniqueIds
      <3>4. o \in O
        BY <1>1, <1>3, <3>1, <3>2, <3>3, MessageFacts
      <3> QED
        BY <3>3, <3>4
    <2>5. f \in [O -> Nat] /\ g \in [M -> Nat] /\ \A o \in O : g[b[o]] = f[o]
      <3>1. f \in [O -> Nat]
        BY <2>2, MessageFacts
      <3>2. \A m \in M : m.cents \in Nat
        BY <1>3, RoutedFacts DEF Messages
      <3>3. \A o \in O : b[o] \in M /\ b[o].cents = o.total
        BY <2>2, <2>3, MessageFacts
      <3> QED
        BY <3>1, <3>2, <3>3
    <2> HIDE DEF b, f, g
    <2>6. ExistsBijection(O, M)
      BY <2>3, <2>4 DEF ExistsBijection, Bijection, Injection, IsInjective, Surjection
    <2>7. IsFiniteSet(M) /\ Cardinality(M) = Cardinality(O)
      BY <2>1, <2>6, FS_Bijection
    <2>8. SumFunction(f) = SumFunction(g)
      BY <2>1, <2>3, <2>4, <2>5, <2>7, SumRenamed
    <2> QED
      BY <2>7, <2>8 DEF f, g
  <1>4. ASSUME NEW d \in Day
        PROVE  AP!StatisticsOf(T)[d] = StatisticsOf(S)[d]
    <2> DEFINE O == {o \in S : DayOf[o.id] = d}
               M == {m \in Messages : m.id \in T /\ m.day = d}
    <2>1. AP!StatisticsOf(T)[d] =
            [count |-> Cardinality(M), revenue |-> SumFunction([m \in M |-> m.cents])]
      BY SameSets, SameSums DEF AP!StatisticsOf
    <2>2. StatisticsOf(S)[d] =
            [count |-> Cardinality(O), revenue |-> SumFunction([o \in O |-> o.total])]
      BY DEF StatisticsOf
    <2>3. /\ Cardinality(M) = Cardinality(O)
          /\ SumFunction([m \in M |-> m.cents]) = SumFunction([o \in O |-> o.total])
      BY <1>3
    <2> QED
      BY <2>1, <2>2, <2>3
  <1>5. /\ AP!StatisticsOf(T) = [d \in Day |-> AP!StatisticsOf(T)[d]]
        /\ StatisticsOf(S) = [d \in Day |-> StatisticsOf(S)[d]]
    BY DEF AP!StatisticsOf, StatisticsOf
  <1> QED
    BY <1>4, <1>5

\* The books balance from end to end, for any number of orders, crashes and
\* redeliveries: the statistics are those of some placed orders, each once.
THEOREM BooksAlwaysBalance == Spec => []BooksBalance
  <1>1. IInv => BooksBalance
    <2> SUFFICES ASSUME IInv PROVE BooksBalance
      OBVIOUS
    <2>1. PICK T \in SUBSET processed : statistics = AP!StatisticsOf(T)
      BY DEF IInv, PartsOK, AP!CountInv
    <2>2. {o \in placed : CreatedId(o) \in T} \in SUBSET placed
      OBVIOUS
    <2> QED
      BY <2>1, <2>2, CountingOrders DEF BooksBalance
  <1> QED
    BY <1>1, Invariant, PTL

\* A placed order is answered at most once, after it was announced, although the
\* service reads its own answers.
THEOREM AnsweredAtMostOnce == Spec => []AnsweredOnce
  <1>1. IInv => AnsweredOnce
    <2> SUFFICES ASSUME IInv, NEW k \in OrderId,
                        NEW R, R = RowsOf("OrderNotificationSent", k)
                 PROVE  /\ Cardinality(R) <= 1
                        /\ \A i \in R : \E j \in RowsOf("OrderCreated", k) : j < i
      BY DEF AnsweredOnce
    <2>1. \A i \in R : i \in DOMAIN wal /\ IsAnswer(wal[i]) /\ wal[i].aggregate = k
      BY DEF RowsOf, IsAnswer
    <2>2. \A i, j \in R : i = j
      BY <2>1 DEF IInv, AnswersOK
    <2>3. Cardinality(R) <= 1
      <3>1. CASE R = {}
        BY <3>1, FS_EmptySet
      <3>2. ASSUME NEW i \in R PROVE Cardinality(R) <= 1
        <4>1. R = {i}
          BY <2>2, <3>2
        <4>2. Cardinality({i}) = 1
          BY FS_Singleton
        <4> QED
          BY <4>1, <4>2
      <3> QED
        BY <3>1, <3>2
    <2>4. ASSUME NEW i \in R PROVE \E j \in RowsOf("OrderCreated", k) : j < i
      <3>1. PICK o \in Orders : /\ wal[i] = AnswerRow(CreatedId(o))
                                /\ \E j \in DOMAIN wal : j < i /\ wal[j] = CreatedRow(o)
        BY <2>1 DEF IInv, AnswersOK
      <3>2. o.id = k
        BY <2>1, <3>1, AnswerColumns
      <3> QED
        BY <3>1, <3>2, CreatedColumns DEF RowsOf
    <2> QED
      BY <2>3, <2>4
  <1> QED
    BY <1>1, Invariant, PTL

\* When nothing is left to do, both read models hold every placed order, but for
\* those whose handler returned an error and what a stopped consumer did not count.
THEOREM DrainedAreComplete == Spec => []DrainedIsComplete
  <1>1. IInv => DrainedIsComplete
    <2> SUFFICES ASSUME IInv, Drained
                 PROVE  /\ {CreatedId(o) : o \in placed} \subseteq notificationLog \cup nFailed
                        /\ {CreatedId(o) : o \in placed} \subseteq processed \cup aFailed
                        /\ Cardinality(processed)
                             - SumFunction([d \in Day |-> statistics[d].count]) <= aCrashes
                        /\ \A c \in customers \ InitCustomers :
                             customerNotices[CustomerRow(c).id] > 0
      BY DEF DrainedIsComplete
    <2>1. AP!IInv /\ AP!CountInv /\ NP!IInv
      BY DEF IInv, PartsOK
    <2>2. \A i \in DOMAIN wal : wal[i] \in Rows /\ Routed(wal[i]) \in AP!Appended(RouteOf(wal[i]))
      BY DEF IInv, RelayOK, Drained
    <2>3. \A o \in placed : o \in Orders /\ MessageOf(o) \in AP!Appended(orderEvents)
                            /\ MessageOf(o).type = "OrderCreated"
      BY <2>2, CreatedColumns, RoutedFacts DEF IInv, LedgerOK, MessageOf
    <2>4. \A t : NP!Appended(t) = AP!Appended(t)
      BY DEF NP!Appended, AP!Appended
    <2>5. \A m \in AP!Appended(orderEvents) :
            AP!IsOrderCreated(m) => m.id \in processed \cup aFailed
      BY <2>1, AP!CaughtUpHandled, AnalyticsConstantsHold DEF Drained, AtEnd
    <2>6. \A m \in NP!Appended(orderEvents) :
            m.type = "OrderCreated" => m.id \in notificationLog \cup nFailed
      BY <2>1, NP!CaughtUpOrders, NotificationConstantsHold DEF Drained, AtEnd
    <2>7. \A m \in NP!Appended(customerEvents) :
            m.type = "CustomerCreated" => customerNotices[m.id] > 0
      BY <2>1, NP!CaughtUpCustomers, NotificationConstantsHold DEF Drained, AtEnd
    <2>8. {CreatedId(o) : o \in placed} \subseteq notificationLog \cup nFailed
      BY <2>3, <2>4, <2>6, MessageFacts
    <2>9. {CreatedId(o) : o \in placed} \subseteq processed \cup aFailed
      BY <2>3, <2>5, MessageFacts DEF AP!IsOrderCreated
    <2>10. Cardinality(processed) - SumFunction([d \in Day |-> statistics[d].count]) <= aCrashes
      <3>1. AP!Uncounted <= AP!Bound
        BY <2>1 DEF AP!CountInv
      <3>2. AP!Uncounted = Cardinality(processed) - SumFunction([d \in Day |-> statistics[d].count])
        BY SameSets, SameSums DEF AP!Uncounted
      <3>3. AP!Bound = aCrashes
        <4>1. aErrors = 0 /\ aCrashes \in Nat
          BY <2>1, PipelineConstants DEF AP!IInv, AP!TypeOK
        <4> QED
          BY <4>1 DEF AP!Bound, Drained
      <3> QED
        BY <3>1, <3>2, <3>3
    <2>11. ASSUME NEW c \in customers \ InitCustomers
           PROVE  customerNotices[CustomerRow(c).id] > 0
      <3>1. c \in Customer /\ \E i \in DOMAIN wal : wal[i] = CustomerRow(c)
        BY DEF IInv, LedgerOK
      <3>2. Routed(CustomerRow(c)) \in AP!Appended(customerEvents)
        BY <2>2, <3>1, CustomerColumns
      <3>3. /\ Routed(CustomerRow(c)).type = "CustomerCreated"
            /\ Routed(CustomerRow(c)).id = CustomerRow(c).id
        BY <3>1, CustomerColumns, RoutedFacts
      <3> QED
        BY <2>4, <2>7, <3>2, <3>3
    <2> QED
      BY <2>8, <2>9, <2>10, <2>11
  <1> QED
    BY <1>1, Invariant, PTL
=============================================================================
