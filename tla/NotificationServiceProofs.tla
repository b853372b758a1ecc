---------------------- MODULE NotificationServiceProofs ----------------------
(***************************************************************************)
(* What holds of NotificationService for every set of messages and         *)
(* partitions and every number of failures, with proofs TLAPS checks: the  *)
(* types, that the log and the outbox are one, and that nothing is         *)
(* acknowledged undone.                                                    *)
(***************************************************************************)
EXTENDS NotificationService, KafkaReaderProofs

\* The messages each goroutine has nothing left to do for,
OrderDone == {m \in Message :
  m.type = "OrderCreated" => m.id \in notificationLog \cup failed}
CustomerDone == {m \in Message :
  m.type = "CustomerCreated" => customerNotices[m.id] > 0}

\* and those after a step.
OrderDoneNext == {m \in Message :
  m.type = "OrderCreated" => m.id \in notificationLog' \cup failed'}
CustomerDoneNext == {m \in Message :
  m.type = "CustomerCreated" => customerNotices'[m.id] > 0}

\* A transaction that may commit has a notification and its event, or neither.
Whole(t) ==
  \/ t.log = {} /\ t.events = <<>>
  \/ \E i \in EventId : t.log = {i} /\ t.events = <<i>>

\* How far the transaction in hand has come.
TxOK ==
  /\ orderStep = "insert" => tx = Begun
  /\ orderStep = "publish" => tx = [state |-> "open", log |-> {OrderMsg.id}, events |-> <<>>]
  /\ orderStep \in {"commit", "committing"} =>
       Whole(tx) /\ OrderMsg.id \in notificationLog \cup tx.log
  /\ tx.state = "committing" => orderStep = "committing"
  /\ orderStep \in {"insert", "publish", "commit", "committing"} =>
       OrderMsg.type = "OrderCreated"

\* The primary key: an id has a committed row, or belongs to one transaction.
KeysOK ==
  /\ tx.log \cap notificationLog = {}
  /\ \A o \in orphans : /\ o.log \cap (notificationLog \cup tx.log) = {}
                        /\ o.state = "committing" => Whole(o)
  /\ \A o, q \in orphans : o = q \/ o.log \cap q.log = {}

\* A goroutine is done with a message before it commits it.
DoneOK ==
  /\ orderStep = "ack" => OrderMsg \in OrderDone
  /\ customerStep = "ack" => CustomerMsg \in CustomerDone

\* The inductive invariant.
IInv ==
  /\ TypeOK
  /\ OffsetsOK
  /\ Passed(orderGroup, OrderDone)
  /\ Passed(customerGroup, CustomerDone)
  /\ TxOK
  /\ KeysOK
  /\ LogMatchesOutbox
  /\ DoneOK

(***************************************************************************)
(* The messages in hand.                                                   *)
(***************************************************************************)
\* The constants name the two groups and the topics they read.
LEMMA GroupFacts ==
  /\ orderGroup \in Group /\ customerGroup \in Group /\ orderGroup # customerGroup
  /\ \A g \in Group : g = orderGroup \/ g = customerGroup
  /\ \A m \in Message : m.topic \in Topic
  BY NotificationConstants

\* Beyond "fetch" there is a message in hand, and it is one of the messages.
LEMMA MsgType ==
  ASSUME TypeOK, OffsetsOK
  PROVE  /\ orderStep \notin {"fetch", "stopped"} =>
              Holding(orderGroup) /\ OrderMsg \in Message /\ OrderMsg.id \in EventId
         /\ customerStep \notin {"fetch", "stopped"} =>
              Holding(customerGroup) /\ CustomerMsg \in Message /\ CustomerMsg.id \in EventId
  <1>1. \A g \in Group : Holding(g) => InHand(g) \in Message
    BY InHandType DEF TypeOK, ReaderOK
  <1> QED
    BY <1>1, GroupFacts DEF TypeOK, OrderMsg, CustomerMsg, EventId

\* What is done stays done.
LEMMA Monotone ==
  ASSUME TypeOK, OffsetsOK, Next
  PROVE  OrderDone \subseteq OrderDoneNext /\ CustomerDone \subseteq CustomerDoneNext
  <1>1. notificationLog \subseteq notificationLog' /\ failed \subseteq failed'
    BY DEF Next, ServiceStep, OrderLoop, CustomerLoop, StopStep, SettleOrphan, Relay,
       FetchOrder, FetchCustomer, IgnoreOrderEvent, BeginOrder, InsertNotification,
       AlreadyNotified, PublishOrderNotificationSent, CommitOrder, OrderCommitted, AckOrder,
       IgnoreCustomerEvent, NotifyCustomerCreated, AckCustomer, StatementFails,
       ConnectionLost, OrphanCommits, OrphanAborts, OffsetCommitFails, GroupRebalances,
       Crash, Shutdown, Cancelled, AckCancelled, OrderLoopEnds, CustomerLoopEnds,
       StartAgain, CaughtUp, OrderHandlerFails, MakeVisible, db, orderVars, vars
  <1>2. \/ customerNotices' = customerNotices
        \/ NotifyCustomerCreated
    BY DEF Next, ServiceStep, OrderLoop, CustomerLoop, StopStep, SettleOrphan, Relay,
       FetchOrder, FetchCustomer, IgnoreOrderEvent, BeginOrder, InsertNotification,
       AlreadyNotified, PublishOrderNotificationSent, CommitOrder, OrderCommitted, AckOrder,
       IgnoreCustomerEvent, AckCustomer, StatementFails,
       ConnectionLost, OrphanCommits, OrphanAborts, OffsetCommitFails, GroupRebalances,
       Crash, Shutdown, Cancelled, AckCancelled, OrderLoopEnds, CustomerLoopEnds,
       StartAgain, CaughtUp, OrderHandlerFails, customerVars, vars
  <1>3. \A i \in EventId : customerNotices[i] > 0 => customerNotices'[i] > 0
    BY <1>2 DEF NotifyCustomerCreated, TypeOK
  <1>4. \A m \in Message : m.id \in EventId
    BY DEF EventId
  <1> QED
    BY <1>1, <1>3, <1>4 DEF OrderDone, OrderDoneNext, CustomerDone, CustomerDoneNext

(***************************************************************************)
(* The readers.                                                            *)
(***************************************************************************)
Away(s) == s \in {"fetch", "stopped"}

\* What the steps do to the readers, and what they are done with then.
Call(E, F) ==
  \/ \E t \in Topic, m \in Message :
       Deliver(t, m) /\ orderStep' = orderStep /\ customerStep' = customerStep
  \/ \E p \in Partition :
       FetchMessage(orderGroup, p) /\ orderStep' = "handle" /\ customerStep' = customerStep
  \/ \E p \in Partition :
       FetchMessage(customerGroup, p) /\ customerStep' = "handle" /\ orderStep' = orderStep
  \/ /\ Skip(orderGroup) \/ CommitMessages(orderGroup)
     /\ Holding(orderGroup) /\ OrderMsg \in E
     /\ orderStep' = "fetch" /\ customerStep' = customerStep
  \/ /\ Skip(customerGroup) \/ CommitMessages(customerGroup)
     /\ Holding(customerGroup) /\ CustomerMsg \in F
     /\ customerStep' = "fetch" /\ orderStep' = orderStep
  \/ \E g \in Group : Rebalance(g) /\ orderStep' = orderStep /\ customerStep' = customerStep
  \/ Restart(Group) /\ orderStep' = "fetch" /\ customerStep' = "fetch"
  \/ /\ UNCHANGED readerVars
     /\ Away(orderStep') = Away(orderStep) /\ Away(customerStep') = Away(customerStep)

\* Every step makes one of these calls.
LEMMA Calls ==
  ASSUME IInv, Next
  PROVE  Call(OrderDoneNext, CustomerDoneNext)
  <1>1. /\ TypeOK /\ OffsetsOK
        /\ (orderStep = "ack" => OrderMsg \in OrderDoneNext)
        /\ (customerStep = "ack" => CustomerMsg \in CustomerDoneNext)
    BY Monotone DEF IInv, DoneOK
  <1>2. /\ ~Away(orderStep) => Holding(orderGroup) /\ OrderMsg \in Message
        /\ ~Away(customerStep) => Holding(customerGroup) /\ CustomerMsg \in Message
    BY <1>1, MsgType DEF Away
  <1>3. tx # NoTx => orderStep \in {"insert", "publish", "commit", "committing"}
    BY <1>1 DEF TypeOK
  <1>4. CASE \E m \in Message : Relay(m)
    BY <1>4, GroupFacts DEF Relay, orderVars, customerVars, Call
  <1>5. CASE \E p \in Partition : FetchOrder(p) \/ FetchCustomer(p)
    BY <1>5 DEF FetchOrder, FetchCustomer, OrderGoto, CustomerGoto, orderVars, customerVars,
       Call
  <1>6. CASE StatementFails \/ ConnectionLost \/ Cancelled
    <2>1. /\ OrderHandlerFails /\ ~Away(orderStep)
      BY <1>3, <1>6 DEF StatementFails, ConnectionLost, Cancelled, HandlingOrder, Away
    <2>2. OrderMsg \in OrderDoneNext
      BY <1>2, <2>1 DEF OrderHandlerFails, OrderDoneNext
    <2> QED
      BY <1>2, <2>1, <2>2 DEF OrderHandlerFails, OrderGoto, customerVars, Call
  <1>7. CASE AckOrder \/ \E g \in Group : (OffsetCommitFails(g) \/ AckCancelled(g)) /\ g = orderGroup
    <2>1. /\ orderStep = "ack" /\ (Skip(orderGroup) \/ CommitMessages(orderGroup))
          /\ orderStep' = "fetch" /\ customerStep' = customerStep
      BY <1>7, GroupFacts DEF AckOrder, OffsetCommitFails, AckCancelled, OrderGoto, CustomerGoto,
         customerVars
    <2> QED
      BY <1>1, <1>2, <2>1 DEF Call, Away
  <1>8. CASE AckCustomer \/ \E g \in Group : (OffsetCommitFails(g) \/ AckCancelled(g)) /\ g = customerGroup
    <2>1. /\ customerStep = "ack" /\ (Skip(customerGroup) \/ CommitMessages(customerGroup))
          /\ customerStep' = "fetch" /\ orderStep' = orderStep
      BY <1>8, GroupFacts DEF AckCustomer, OffsetCommitFails, AckCancelled, OrderGoto,
         CustomerGoto, orderVars
    <2> QED
      BY <1>1, <1>2, <2>1 DEF Call, Away
  <1>9. CASE \E g \in Group : GroupRebalances(g)
    BY <1>9 DEF GroupRebalances, orderVars, customerVars, Call
  <1>10. CASE Crash \/ StartAgain
    BY <1>10 DEF Crash, StartAgain, OrderGoto, CustomerGoto, Call
  <1>11. CASE \/ IgnoreOrderEvent \/ BeginOrder \/ InsertNotification \/ AlreadyNotified
              \/ PublishOrderNotificationSent \/ CommitOrder \/ OrderCommitted
    <2>1. /\ ~Away(orderStep) /\ ~Away(orderStep') /\ customerStep' = customerStep
          /\ UNCHANGED readerVars
      BY <1>11 DEF IgnoreOrderEvent, BeginOrder, InsertNotification, AlreadyNotified,
         PublishOrderNotificationSent, CommitOrder, OrderCommitted, OrderGoto, Away,
         customerVars
    <2> QED
      BY <2>1 DEF Call, Away
  <1>12. CASE IgnoreCustomerEvent \/ NotifyCustomerCreated
    <2>1. /\ ~Away(customerStep) /\ ~Away(customerStep') /\ orderStep' = orderStep
          /\ UNCHANGED readerVars
      BY <1>12 DEF IgnoreCustomerEvent, NotifyCustomerCreated, CustomerGoto, Away, orderVars
    <2> QED
      BY <2>1 DEF Call, Away
  <1>13. CASE OrderLoopEnds \/ CustomerLoopEnds \/ Shutdown \/ CaughtUp \/ SettleOrphan
    <2>1. /\ UNCHANGED readerVars
          /\ orderStep' = orderStep \/ (Away(orderStep) /\ Away(orderStep'))
          /\ customerStep' = customerStep \/ (Away(customerStep) /\ Away(customerStep'))
      BY <1>13 DEF OrderLoopEnds, CustomerLoopEnds, Shutdown, CaughtUp, SettleOrphan,
         OrphanCommits, OrphanAborts, OrderGoto, CustomerGoto, orderVars, customerVars, vars,
         Away
    <2> QED
      BY <2>1 DEF Call, Away
  <1> QED
    BY <1>4, <1>5, <1>6, <1>7, <1>8, <1>9, <1>10, <1>11, <1>12, <1>13, GroupFacts
       DEF Next, ServiceStep, OrderLoop, CustomerLoop, StopStep

\* The readers stay well-formed, and pass over nothing that is not done.
LEMMA ReaderStep ==
  ASSUME IInv, NEW E, NEW F, Call(E, F), OrderDone \subseteq E, CustomerDone \subseteq F
  PROVE  ReaderOK' /\ Passed(orderGroup, E)' /\ Passed(customerGroup, F)'
  <1>1. /\ ReaderOK /\ Passed(orderGroup, E) /\ Passed(customerGroup, F)
        /\ orderGroup \in Group /\ customerGroup \in Group /\ orderGroup # customerGroup
    <2>1. TypeOK /\ OffsetsOK /\ Passed(orderGroup, OrderDone) /\ Passed(customerGroup, CustomerDone)
      BY DEF IInv
    <2> QED
      BY <2>1, GroupFacts, PassedGrows DEF TypeOK, ReaderOK
  <1>2. CASE \E t \in Topic, m \in Message : Deliver(t, m)
    BY <1>1, <1>2, DeliverOK, DeliverPassed
  <1>3. CASE \E p \in Partition : FetchMessage(orderGroup, p) \/ FetchMessage(customerGroup, p)
    BY <1>1, <1>3, FetchOK, FetchPassed
  <1>4. CASE Skip(orderGroup) /\ Holding(orderGroup) /\ OrderMsg \in E
    BY <1>1, <1>4, SkipOK, SkipPassed DEF OrderMsg
  <1>5. CASE CommitMessages(orderGroup) /\ Holding(orderGroup) /\ OrderMsg \in E
    BY <1>1, <1>5, CommitOK, CommitPassed DEF OrderMsg
  <1>6. CASE Skip(customerGroup) /\ Holding(customerGroup) /\ CustomerMsg \in F
    BY <1>1, <1>6, SkipOK, SkipPassed DEF CustomerMsg
  <1>7. CASE CommitMessages(customerGroup) /\ Holding(customerGroup) /\ CustomerMsg \in F
    BY <1>1, <1>7, CommitOK, CommitPassed DEF CustomerMsg
  <1>8. CASE \E g \in Group : Rebalance(g)
    BY <1>1, <1>8, RebalanceOK, RebalancePassed
  <1>9. CASE Restart(Group)
    BY <1>1, <1>9, RestartOK, RestartPassed
  <1>10. CASE UNCHANGED readerVars
    BY <1>1, <1>10, StillOK, StillPassed
  <1> QED
    BY <1>2, <1>3, <1>4, <1>5, <1>6, <1>7, <1>8, <1>9, <1>10 DEF Call

\* A goroutine that has a message in hand is not at FetchMessage, and the other
\* way round.
LEMMA HoldingStep ==
  ASSUME IInv, NEW E, NEW F, Call(E, F)
  PROVE  /\ Away(orderStep') = ~Holding(orderGroup)'
         /\ Away(customerStep') = ~Holding(customerGroup)'
  <1>1. Away(orderStep) = ~Holding(orderGroup) /\ Away(customerStep) = ~Holding(customerGroup)
    BY DEF IInv, TypeOK, Away
  <1>2. /\ orderGroup \in Group /\ customerGroup \in Group /\ orderGroup # customerGroup
        /\ held \in [Group -> {Nowhere} \cup [partition : Partition, offset : Nat \ {0}]]
        /\ position \in [Group -> [Partition -> Nat \ {0}]]
    BY GroupFacts DEF IInv, TypeOK, ReaderTypeOK
  <1>3. Away("fetch") /\ ~Away("handle")
    BY DEF Away
  <1>4. ASSUME NEW g \in Group, NEW p \in Partition, FetchMessage(g, p)
        PROVE  held'[g] # Nowhere /\ \A h \in Group \ {g} : held'[h] = held[h]
    BY <1>2, <1>4 DEF FetchMessage, Nowhere
  <1>5. ASSUME NEW g \in Group, Skip(g) \/ CommitMessages(g)
        PROVE  held'[g] = Nowhere /\ \A h \in Group \ {g} : held'[h] = held[h]
    BY <1>2, <1>5 DEF Skip, CommitMessages
  <1>6. CASE \E p \in Partition :
               FetchMessage(orderGroup, p) /\ orderStep' = "handle" /\ customerStep' = customerStep
    <2>1. held'[orderGroup] # Nowhere /\ held'[customerGroup] = held[customerGroup]
      BY <1>2, <1>4, <1>6
    <2> QED
      BY <1>1, <1>6, <2>1 DEF Holding, Away
  <1>7. CASE \E p \in Partition :
               FetchMessage(customerGroup, p) /\ customerStep' = "handle" /\ orderStep' = orderStep
    <2>1. held'[customerGroup] # Nowhere /\ held'[orderGroup] = held[orderGroup]
      BY <1>2, <1>4, <1>7
    <2> QED
      BY <1>1, <1>7, <2>1 DEF Holding, Away
  <1>8. CASE /\ Skip(orderGroup) \/ CommitMessages(orderGroup)
             /\ orderStep' = "fetch" /\ customerStep' = customerStep
    BY <1>1, <1>2, <1>3, <1>5, <1>8 DEF Holding
  <1>9. CASE /\ Skip(customerGroup) \/ CommitMessages(customerGroup)
             /\ customerStep' = "fetch" /\ orderStep' = orderStep
    BY <1>1, <1>2, <1>3, <1>5, <1>9 DEF Holding
  <1>10. CASE Restart(Group) /\ orderStep' = "fetch" /\ customerStep' = "fetch"
    BY <1>2, <1>3, <1>10 DEF Restart, Holding
  <1>11. CASE /\ held' = held
              /\ Away(orderStep') = Away(orderStep) /\ Away(customerStep') = Away(customerStep)
    BY <1>1, <1>11 DEF Holding
  <1>12. (\E t \in Topic, m \in Message : Deliver(t, m)) \/ (\E g \in Group : Rebalance(g))
           \/ UNCHANGED readerVars => held' = held
    BY DEF Deliver, Rebalance, readerVars
  <1> QED
    BY <1>6, <1>7, <1>8, <1>9, <1>10, <1>11, <1>12 DEF Call

\* A message in hand stays the same while its goroutine works on it.
LEMMA MsgKept ==
  ASSUME IInv, NEW E, NEW F, Call(E, F)
  PROVE  /\ ~Away(orderStep') => orderStep' = "handle" \/ (OrderMsg' = OrderMsg /\ ~Away(orderStep))
         /\ ~Away(customerStep') =>
              customerStep' = "handle" \/ (CustomerMsg' = CustomerMsg /\ ~Away(customerStep))
  <1>1. /\ ReaderOK
        /\ orderGroup \in Group /\ customerGroup \in Group /\ orderGroup # customerGroup
        /\ held \in [Group -> {Nowhere} \cup [partition : Partition, offset : Nat \ {0}]]
    BY GroupFacts DEF IInv, TypeOK, ReaderOK, ReaderTypeOK
  <1>2. Away("fetch") /\ ~Away("handle")
    BY DEF Away
  <1>3. Away(orderStep) = ~Holding(orderGroup) /\ Away(customerStep) = ~Holding(customerGroup)
    BY DEF IInv, TypeOK, Away
  <1>4. (\E t \in Topic, m \in Message : Deliver(t, m)) \/ log' = log
    BY DEF Call, FetchMessage, Skip, CommitMessages, Rebalance, Restart, readerVars
  <1>5. ~Away(orderStep') =>
          orderStep' = "handle" \/ (held'[orderGroup] = held[orderGroup] /\ ~Away(orderStep))
    BY <1>1, <1>2 DEF Call, Deliver, FetchMessage, Skip, CommitMessages, Rebalance, readerVars
  <1>6. ~Away(customerStep') =>
          customerStep' = "handle"
            \/ (held'[customerGroup] = held[customerGroup] /\ ~Away(customerStep))
    BY <1>1, <1>2 DEF Call, Deliver, FetchMessage, Skip, CommitMessages, Rebalance, readerVars
  <1> QED
    BY <1>1, <1>3, <1>4, <1>5, <1>6, InHandKept DEF OrderMsg, CustomerMsg

\* A goroutine is done with a message before it commits it.
LEMMA DoneStep ==
  ASSUME IInv, Next
  PROVE  DoneOK'
  <1>1. /\ orderStep = "ack" => OrderMsg \in OrderDoneNext
        /\ customerStep = "ack" => CustomerMsg \in CustomerDoneNext
    BY Monotone DEF IInv, DoneOK
  <1>2. /\ orderStep' = "ack" => OrderMsg' = OrderMsg /\ OrderMsg \in Message
        /\ customerStep' = "ack" => CustomerMsg' = CustomerMsg /\ CustomerMsg \in Message
    BY Calls, MsgKept, MsgType DEF Away, IInv
  <1>3. ASSUME orderStep' = "ack" PROVE OrderMsg \in OrderDoneNext
    <2>1. orderStep' = orderStep \/ IgnoreOrderEvent \/ OrderCommitted
      BY <1>3 DEF Next, ServiceStep, OrderLoop, CustomerLoop, StopStep, SettleOrphan, Relay,
         FetchOrder, FetchCustomer, BeginOrder, InsertNotification, AlreadyNotified,
         PublishOrderNotificationSent, CommitOrder, AckOrder, IgnoreCustomerEvent,
         NotifyCustomerCreated, AckCustomer, StatementFails, ConnectionLost, OrphanCommits,
         OrphanAborts, OffsetCommitFails, GroupRebalances, Crash, Shutdown, Cancelled,
         AckCancelled, OrderLoopEnds, CustomerLoopEnds, StartAgain, CaughtUp,
         OrderHandlerFails, OrderGoto, orderVars, vars
    <2>2. CASE orderStep' = orderStep
      BY <1>1, <1>3, <2>2
    <2>3. CASE IgnoreOrderEvent
      BY <1>2, <1>3, <2>3 DEF IgnoreOrderEvent, OrderDoneNext
    <2>4. CASE OrderCommitted
      BY <1>2, <1>3, <2>4 DEF OrderCommitted, MakeVisible, OrderDoneNext, IInv, TxOK
    <2> QED
      BY <2>1, <2>2, <2>3, <2>4
  <1>4. ASSUME customerStep' = "ack" PROVE CustomerMsg \in CustomerDoneNext
    <2>1. customerStep' = customerStep \/ IgnoreCustomerEvent \/ NotifyCustomerCreated
      BY <1>4 DEF Next, ServiceStep, OrderLoop, CustomerLoop, StopStep, SettleOrphan, Relay,
         FetchOrder, FetchCustomer, BeginOrder, InsertNotification, AlreadyNotified,
         PublishOrderNotificationSent, CommitOrder, AckOrder, IgnoreOrderEvent, OrderCommitted,
         AckCustomer, StatementFails, ConnectionLost, OrphanCommits,
         OrphanAborts, OffsetCommitFails, GroupRebalances, Crash, Shutdown, Cancelled,
         AckCancelled, OrderLoopEnds, CustomerLoopEnds, StartAgain, CaughtUp,
         OrderHandlerFails, CustomerGoto, customerVars, vars
    <2>2. CASE customerStep' = customerStep
      BY <1>1, <1>4, <2>2
    <2>3. CASE IgnoreCustomerEvent
      BY <1>2, <1>4, <2>3 DEF IgnoreCustomerEvent, CustomerDoneNext
    <2>4. CASE NotifyCustomerCreated
      <3>1. CustomerMsg \in Message /\ CustomerMsg.id \in EventId
        BY <1>2, <1>4 DEF EventId
      <3>2. customerNotices'[CustomerMsg.id] > 0
        BY <2>4, <3>1 DEF NotifyCustomerCreated, IInv, TypeOK
      <3> QED
        BY <3>1, <3>2 DEF CustomerDoneNext
    <2> QED
      BY <2>1, <2>2, <2>3, <2>4
  <1> QED
    BY <1>2, <1>3, <1>4 DEF DoneOK, OrderDone, OrderDoneNext, CustomerDone, CustomerDoneNext

(***************************************************************************)
(* The transactions.                                                       *)
(***************************************************************************)
\* A transaction that becomes visible as a whole keeps the log and the outbox
\* one.
LEMMA VisibleWhole ==
  ASSUME TypeOK, LogMatchesOutbox, NEW t \in Transaction, Whole(t),
         t.log \cap notificationLog = {}, MakeVisible(t)
  PROVE  /\ LogMatchesOutbox'
         /\ outbox' \in Seq(EventId) /\ notificationLog' \subseteq EventId
  <1>1. outbox \in Seq(EventId) /\ notificationLog \subseteq EventId
    BY DEF TypeOK
  <1>2. CASE t.log = {} /\ t.events = <<>>
    <2>1. outbox' = outbox /\ notificationLog' = notificationLog
      BY <1>1, <1>2 DEF MakeVisible
    <2> QED
      BY <1>1, <2>1 DEF LogMatchesOutbox
  <1>3. CASE \E i \in EventId : t.log = {i} /\ t.events = <<i>>
    <2>1. PICK i \in EventId : t.log = {i} /\ t.events = <<i>>
      BY <1>3
    <2>2. i \notin notificationLog /\ notificationLog' = notificationLog \cup {i}
      BY <2>1 DEF MakeVisible
    <2>3. /\ outbox' = Append(outbox, i) /\ outbox' \in Seq(EventId)
      BY <1>1, <2>1 DEF MakeVisible
    <2>4. /\ DOMAIN outbox' = DOMAIN outbox \cup {Len(outbox) + 1}
          /\ Len(outbox) + 1 \notin DOMAIN outbox
          /\ outbox'[Len(outbox) + 1] = i
          /\ \A j \in DOMAIN outbox : outbox'[j] = outbox[j]
      BY <1>1, <2>3
    <2>5. \A j \in DOMAIN outbox : outbox[j] # i
      BY <2>2 DEF LogMatchesOutbox
    <2> QED
      BY <1>1, <2>2, <2>3, <2>4, <2>5 DEF LogMatchesOutbox
  <1> QED
    BY <1>2, <1>3 DEF Whole

\* What a statement leaves of a transaction.
LEMMA Excepts ==
  ASSUME NEW S, NEW L, NEW E, NEW t \in [state : S, log : L, events : E], NEW x
  PROVE  /\ [t EXCEPT !.log = x] = [state |-> t.state, log |-> x, events |-> t.events]
         /\ [t EXCEPT !.events = x] = [state |-> t.state, log |-> t.log, events |-> x]
         /\ [t EXCEPT !.state = x] = [state |-> x, log |-> t.log, events |-> t.events]
  OBVIOUS

\* The state of the database and of its transactions.
DbTypeOK ==
  /\ notificationLog \subseteq EventId
  /\ outbox \in Seq(EventId)
  /\ tx \in Transaction
  /\ orphans \subseteq Transaction
  /\ (tx # NoTx) = (orderStep \in {"insert", "publish", "commit", "committing"})

DbOK == DbTypeOK /\ TxOK /\ KeysOK /\ LogMatchesOutbox

InTx(s) == s \in {"insert", "publish", "commit", "committing"}

\* A step that leaves the database alone.
LEMMA DbStill ==
  ASSUME DbOK, UNCHANGED <<notificationLog, outbox, orphans, tx>>,
         \/ orderStep' = orderStep /\ OrderMsg' = OrderMsg
         \/ ~InTx(orderStep') /\ ~InTx(orderStep)
  PROVE  DbOK'
  <1>1. DbTypeOK' /\ KeysOK' /\ LogMatchesOutbox'
    BY DEF DbOK, DbTypeOK, KeysOK, LogMatchesOutbox, InTx
  <1>2. ASSUME orderStep' = orderStep, OrderMsg' = OrderMsg
        PROVE  TxOK'
    BY <1>2 DEF DbOK, TxOK
  <1>3. ASSUME ~InTx(orderStep'), ~InTx(orderStep)
        PROVE  TxOK'
    BY <1>3 DEF DbOK, TxOK, DbTypeOK, InTx, NoTx
  <1> QED
    BY <1>1, <1>2, <1>3 DEF DbOK

\* The handler is done with its transaction, which the server may still have.
LEMMA DbDrop ==
  ASSUME DbOK, UNCHANGED <<notificationLog, outbox>>, tx' = NoTx, ~InTx(orderStep'),
         \/ orphans' = orphans
         \/ orphans' = orphans \cup {tx}
  PROVE  DbOK'
  <1>1. NoTx.log = {} /\ NoTx.state = "none" /\ NoTx \in Transaction
    BY DEF NoTx, Transaction
  <1>2. DbTypeOK'
    BY <1>1 DEF DbOK, DbTypeOK, InTx
  <1>3. TxOK'
    BY <1>1 DEF TxOK, InTx
  <1>4. tx.state = "committing" => Whole(tx)
    BY DEF DbOK, TxOK
  <1>5. KeysOK'
    BY <1>1, <1>4 DEF DbOK, KeysOK
  <1> QED
    BY <1>2, <1>3, <1>5 DEF DbOK, LogMatchesOutbox

\* One transaction of a dead handler ends.
LEMMA DbSettle ==
  ASSUME TypeOK, DbOK, NEW o \in orphans, OrphanCommits(o) \/ OrphanAborts(o),
         OrderMsg' = OrderMsg
  PROVE  DbOK'
  <1>1. /\ orphans' = orphans \ {o} /\ tx' = tx /\ orderStep' = orderStep
        /\ o \in Transaction
    BY DEF OrphanCommits, OrphanAborts, orderVars, DbOK, DbTypeOK
  <1>2. CASE OrphanAborts(o)
    BY <1>1, <1>2 DEF OrphanAborts, DbOK, DbTypeOK, TxOK, KeysOK, LogMatchesOutbox
  <1>3. CASE OrphanCommits(o)
    <2>1. Whole(o) /\ o.log \cap notificationLog = {} /\ MakeVisible(o)
      BY <1>3 DEF OrphanCommits, DbOK, KeysOK
    <2>2. /\ LogMatchesOutbox'
          /\ outbox' \in Seq(EventId) /\ notificationLog' \subseteq EventId
      BY <1>1, <2>1, VisibleWhole DEF DbOK
    <2>3. notificationLog' = notificationLog \cup o.log
      BY <2>1 DEF MakeVisible
    <2>4. KeysOK'
      BY <1>1, <2>3 DEF DbOK, KeysOK
    <2>5. TxOK'
      BY <1>1, <2>3 DEF DbOK, TxOK
    <2>6. DbTypeOK'
      BY <1>1, <2>2 DEF DbOK, DbTypeOK
    <2> QED
      BY <2>2, <2>4, <2>5, <2>6 DEF DbOK
  <1> QED
    BY <1>2, <1>3

\* The statements of the transaction, one after the other.
LEMMA DbStatement ==
  ASSUME IInv, OrderMsg' = OrderMsg,
         \/ BeginOrder \/ InsertNotification \/ AlreadyNotified
         \/ PublishOrderNotificationSent \/ CommitOrder
  PROVE  DbOK'
  <1>1. /\ DbTypeOK /\ TxOK /\ KeysOK /\ LogMatchesOutbox /\ tx \in Transaction
        /\ UNCHANGED <<notificationLog, outbox, orphans>>
    BY DEF IInv, TypeOK, DbTypeOK, BeginOrder, InsertNotification, AlreadyNotified,
       PublishOrderNotificationSent, CommitOrder, db
  <1>2. OrderMsg \in Message /\ OrderMsg.id \in EventId
    BY MsgType DEF IInv, BeginOrder, InsertNotification, AlreadyNotified,
       PublishOrderNotificationSent, CommitOrder
  <1>3. LogMatchesOutbox' /\ OrderMsg'.type = "OrderCreated"
    BY <1>1 DEF LogMatchesOutbox, TxOK, BeginOrder, InsertNotification, AlreadyNotified,
       PublishOrderNotificationSent, CommitOrder
  <1> SUFFICES /\ tx' \in Transaction /\ TxOK' /\ KeysOK'
               /\ (tx' # NoTx) = InTx(orderStep')
    BY <1>1, <1>3 DEF DbOK, DbTypeOK, InTx
  <1>4. CASE BeginOrder
    <2>1. tx' = Begun /\ orderStep' = "insert"
      BY <1>4 DEF BeginOrder, OrderGoto
    <2>2. Begun \in Transaction /\ Begun # NoTx /\ Begun.log = {} /\ Begun.state = "open"
      BY DEF Begun, Transaction, NoTx
    <2> QED
      BY <1>1, <1>3, <2>1, <2>2 DEF TxOK, KeysOK, InTx
  <1>5. CASE InsertNotification
    <2>1. tx = Begun /\ orderStep' = "publish" /\ OrderMsg.id \notin notificationLog
          /\ \A o \in orphans : OrderMsg.id \notin o.log
      BY <1>1, <1>5 DEF InsertNotification, OrderGoto, TxOK, Unsettled
    <2>2. tx' = [state |-> "open", log |-> {OrderMsg.id}, events |-> <<>>]
      <3>1. tx' = [tx EXCEPT !.log = @ \cup {OrderMsg.id}]
        BY <1>5 DEF InsertNotification
      <3> QED
        BY <1>1, <1>2, <2>1, <3>1, Excepts DEF Begun, Transaction
    <2>3. tx' \in Transaction /\ tx' # NoTx /\ tx'.log = {OrderMsg.id} /\ tx'.state = "open"
      BY <1>2, <2>2 DEF Transaction, NoTx
    <2> QED
      BY <1>1, <1>3, <2>1, <2>2, <2>3 DEF TxOK, KeysOK, InTx
  <1>6. CASE AlreadyNotified
    <2>1. tx' = tx /\ tx = Begun /\ orderStep' = "commit" /\ OrderMsg.id \in notificationLog
      BY <1>1, <1>6 DEF AlreadyNotified, OrderGoto, TxOK
    <2>2. Whole(tx) /\ tx.state = "open" /\ tx # NoTx
      BY <2>1 DEF Whole, Begun, NoTx
    <2> QED
      BY <1>1, <1>3, <2>1, <2>2 DEF TxOK, KeysOK, InTx, Whole
  <1>7. CASE PublishOrderNotificationSent
    <2>1. /\ orderStep' = "commit"
          /\ tx = [state |-> "open", log |-> {OrderMsg.id}, events |-> <<>>]
      BY <1>1, <1>7 DEF PublishOrderNotificationSent, OrderGoto, TxOK
    <2>2. tx' = [state |-> "open", log |-> {OrderMsg.id}, events |-> <<OrderMsg.id>>]
      <3>1. tx' = [tx EXCEPT !.events = Append(@, OrderMsg.id)]
        BY <1>7 DEF PublishOrderNotificationSent
      <3>2. tx.state = "open" /\ tx.log = {OrderMsg.id} /\ tx.events = <<>>
        BY <2>1
      <3>3. tx' = [state |-> tx.state, log |-> tx.log, events |-> Append(tx.events, OrderMsg.id)]
        BY <1>1, <1>2, <3>1, Excepts DEF Transaction
      <3>4. Append(<<>>, OrderMsg.id) = <<OrderMsg.id>>
        OBVIOUS
      <3> QED
        BY <3>2, <3>3, <3>4
    <2>3. /\ tx' \in Transaction /\ tx' # NoTx /\ tx'.log = {OrderMsg.id} /\ tx'.state = "open"
          /\ tx'.events = <<OrderMsg.id>> /\ tx'.log = tx.log
      BY <1>2, <2>1, <2>2 DEF Transaction, NoTx
    <2> QED
      BY <1>1, <1>2, <1>3, <2>1, <2>3 DEF TxOK, KeysOK, InTx, Whole
  <1>8. CASE CommitOrder
    <2>1. /\ orderStep' = "committing" /\ orderStep = "commit"
          /\ Whole(tx) /\ OrderMsg.id \in notificationLog \cup tx.log
      BY <1>1, <1>8 DEF CommitOrder, OrderGoto, TxOK
    <2>2. tx' = [state |-> "committing", log |-> tx.log, events |-> tx.events]
      <3>1. tx' = [tx EXCEPT !.state = "committing"]
        BY <1>8 DEF CommitOrder
      <3> QED
        BY <1>1, <1>2, <3>1, Excepts DEF Transaction
    <2>3. /\ tx' \in Transaction /\ tx' # NoTx /\ tx'.log = tx.log
          /\ tx'.events = tx.events
      BY <1>1, <2>2 DEF Transaction, NoTx
    <2> QED
      BY <1>1, <1>3, <2>1, <2>3 DEF TxOK, KeysOK, InTx, Whole
  <1> QED
    BY <1>4, <1>5, <1>6, <1>7, <1>8

\* Every step keeps the database and its transactions right.
LEMMA DbStep ==
  ASSUME IInv, Next
  PROVE  DbOK'
  <1>1. TypeOK /\ DbOK
    BY DEF IInv, TypeOK, DbOK, DbTypeOK
  <1>2. ~Away(orderStep') => orderStep' = "handle" \/ OrderMsg' = OrderMsg
    BY Calls, MsgKept
  <1>3. \A s : InTx(s) => ~Away(s) /\ s # "handle"
    BY DEF InTx, Away
  <1>4. tx # NoTx => InTx(orderStep)
    BY <1>1 DEF TypeOK, InTx
  <1>5. CASE \/ BeginOrder \/ InsertNotification \/ AlreadyNotified
             \/ PublishOrderNotificationSent \/ CommitOrder
    <2>1. InTx(orderStep')
      BY <1>5 DEF BeginOrder, InsertNotification, AlreadyNotified,
         PublishOrderNotificationSent, CommitOrder, OrderGoto, InTx
    <2> QED
      BY <1>2, <1>3, <1>5, <2>1, DbStatement
  <1>6. CASE OrderCommitted
    <2>1. /\ MakeVisible(tx) /\ tx' = NoTx /\ orderStep' = "ack" /\ orphans' = orphans
          /\ Whole(tx) /\ tx \in Transaction /\ tx.log \cap notificationLog = {}
      BY <1>1, <1>6 DEF OrderCommitted, OrderGoto, DbOK, DbTypeOK, TxOK, KeysOK
    <2>2. /\ LogMatchesOutbox'
          /\ outbox' \in Seq(EventId) /\ notificationLog' \subseteq EventId
      BY <1>1, <2>1, VisibleWhole DEF DbOK
    <2>3. notificationLog' = notificationLog \cup tx.log
      BY <2>1 DEF MakeVisible
    <2>4. NoTx.log = {} /\ NoTx.state = "none" /\ NoTx \in Transaction
      BY DEF NoTx, Transaction
    <2>5. KeysOK'
      BY <1>1, <2>1, <2>3, <2>4 DEF DbOK, KeysOK
    <2>6. TxOK' /\ DbTypeOK'
      BY <1>1, <2>1, <2>2, <2>4 DEF DbOK, DbTypeOK, TxOK
    <2> QED
      BY <2>2, <2>5, <2>6 DEF DbOK
  <1>7. CASE StatementFails \/ ConnectionLost \/ Cancelled \/ Crash
    <2>1. /\ UNCHANGED <<notificationLog, outbox>> /\ tx' = NoTx /\ orderStep' = "fetch"
          /\ orphans' = orphans \/ orphans' = orphans \cup {tx}
      BY <1>7 DEF StatementFails, ConnectionLost, Cancelled, Crash, OrderHandlerFails, OrderGoto
    <2> QED
      BY <1>1, <2>1, DbDrop DEF InTx
  <1>8. CASE SettleOrphan
    <2>1. PICK o \in orphans : OrphanCommits(o) \/ OrphanAborts(o)
      BY <1>8 DEF SettleOrphan
    <2>2. OrderMsg' = OrderMsg
      BY <2>1 DEF OrphanCommits, OrphanAborts, readerVars, OrderMsg, InHand, MessageAt
    <2> QED
      BY <1>1, <2>1, <2>2, DbSettle
  <1>9. CASE \/ \E p \in Partition : FetchOrder(p)
             \/ IgnoreOrderEvent \/ AckOrder \/ OrderLoopEnds \/ StartAgain
             \/ \E g \in Group : OffsetCommitFails(g) /\ orderStep' # orderStep
             \/ \E g \in Group : AckCancelled(g) /\ orderStep' # orderStep
    <2>1. /\ UNCHANGED <<notificationLog, outbox, orphans, tx>>
          /\ ~InTx(orderStep) /\ ~InTx(orderStep')
      BY <1>9 DEF FetchOrder, IgnoreOrderEvent, AckOrder, OrderLoopEnds, StartAgain,
         OffsetCommitFails, AckCancelled, OrderGoto, InTx, db
    <2> QED
      BY <1>1, <2>1, DbStill
  <1>10. CASE \/ \E m \in Message : Relay(m)
              \/ \E p \in Partition : FetchCustomer(p)
              \/ CustomerLoop \/ Shutdown \/ CustomerLoopEnds \/ CaughtUp
              \/ \E g \in Group : GroupRebalances(g)
              \/ \E g \in Group : OffsetCommitFails(g) /\ orderStep' = orderStep
              \/ \E g \in Group : AckCancelled(g) /\ orderStep' = orderStep
    <2>1. UNCHANGED <<notificationLog, outbox, orphans, tx>> /\ orderStep' = orderStep
      BY <1>10 DEF Relay, FetchCustomer, CustomerLoop, IgnoreCustomerEvent,
         NotifyCustomerCreated, AckCustomer, Shutdown, CustomerLoopEnds, CaughtUp,
         GroupRebalances, OffsetCommitFails, AckCancelled, db, orderVars, vars
    <2>2. InTx(orderStep') => OrderMsg' = OrderMsg
      BY <1>2, <1>3
    <2> QED
      BY <1>1, <2>1, <2>2, DbStill
  <1> QED
    BY <1>5, <1>6, <1>7, <1>8, <1>9, <1>10 DEF Next, ServiceStep, OrderLoop, StopStep

(***************************************************************************)
(* The invariant and the theorems.                                         *)
(***************************************************************************)
\* What remains of the types.
RestTypeOK ==
  /\ stopping \in BOOLEAN /\ failed \subseteq EventId
  /\ customerNotices \in [EventId -> Nat]

\* The parts of the types.
LEMMA TypeParts ==
  ASSUME ReaderTypeOK, DbTypeOK, RestTypeOK,
         Away(orderStep) = ~Holding(orderGroup),
         Away(customerStep) = ~Holding(customerGroup)
  PROVE  TypeOK
  BY DEF TypeOK, DbTypeOK, RestTypeOK, Away

\* A step leaves the rest of the types as they are.
LEMMA RestTypeStep ==
  ASSUME IInv, Next
  PROVE  RestTypeOK'
  <1>1. /\ TypeOK /\ RestTypeOK
        /\ orderStep \notin {"fetch", "stopped"} => OrderMsg.id \in EventId
        /\ customerStep = "handle" => CustomerMsg.id \in EventId
    BY MsgType DEF IInv, TypeOK, RestTypeOK
  <1>2. stopping' \in BOOLEAN
    BY <1>1 DEF RestTypeOK, Next, ServiceStep, OrderLoop, CustomerLoop, StopStep,
       SettleOrphan, Relay, FetchOrder, FetchCustomer, IgnoreOrderEvent, BeginOrder,
       InsertNotification, AlreadyNotified, PublishOrderNotificationSent, CommitOrder,
       OrderCommitted, AckOrder, IgnoreCustomerEvent, NotifyCustomerCreated, AckCustomer,
       StatementFails, ConnectionLost, OrphanCommits, OrphanAborts, OffsetCommitFails,
       GroupRebalances, Crash, Shutdown, Cancelled, AckCancelled, OrderLoopEnds,
       CustomerLoopEnds, StartAgain, CaughtUp, CountError, process, vars
  <1>3. failed' = failed \/ StatementFails \/ ConnectionLost \/ Cancelled
    BY DEF Next, ServiceStep, OrderLoop, CustomerLoop, StopStep, SettleOrphan, Relay,
       FetchOrder, FetchCustomer, IgnoreOrderEvent, BeginOrder, InsertNotification,
       AlreadyNotified, PublishOrderNotificationSent, CommitOrder, OrderCommitted, AckOrder,
       IgnoreCustomerEvent, NotifyCustomerCreated, AckCustomer, OrphanCommits, OrphanAborts,
       OffsetCommitFails, GroupRebalances, Crash, Shutdown, AckCancelled, OrderLoopEnds,
       CustomerLoopEnds, StartAgain, CaughtUp, orderVars, vars
  <1>4. failed' \subseteq EventId
    <2>1. CASE StatementFails \/ ConnectionLost \/ Cancelled
      <3>1. OrderHandlerFails /\ orderStep \notin {"fetch", "stopped"}
        BY <1>1, <2>1 DEF StatementFails, ConnectionLost, Cancelled, HandlingOrder, TypeOK
      <3> QED
        BY <1>1, <3>1 DEF OrderHandlerFails, RestTypeOK
    <2> QED
      BY <1>1, <1>3, <2>1 DEF RestTypeOK
  <1>5. customerNotices' = customerNotices \/ NotifyCustomerCreated
    BY DEF Next, ServiceStep, OrderLoop, CustomerLoop, StopStep, SettleOrphan, Relay,
       FetchOrder, FetchCustomer, IgnoreOrderEvent, BeginOrder, InsertNotification,
       AlreadyNotified, PublishOrderNotificationSent, CommitOrder, OrderCommitted, AckOrder,
       IgnoreCustomerEvent, AckCustomer, StatementFails, ConnectionLost, OrphanCommits,
       OrphanAborts, OffsetCommitFails, GroupRebalances, Crash, Shutdown, Cancelled,
       AckCancelled, OrderLoopEnds, CustomerLoopEnds, StartAgain, CaughtUp,
       OrderHandlerFails, customerVars, vars
  <1>6. customerNotices' \in [EventId -> Nat]
    BY <1>1, <1>5 DEF RestTypeOK, NotifyCustomerCreated
  <1> QED
    BY <1>2, <1>4, <1>6 DEF RestTypeOK

\* The invariant holds at the start,
LEMMA InvInit == Init => IInv
  <1> SUFFICES ASSUME Init PROVE IInv
    OBVIOUS
  <1>1. /\ ReaderOK
        /\ Passed(orderGroup, OrderDone) /\ Passed(customerGroup, CustomerDone)
    BY ReaderInitOK, InitPassed, GroupFacts DEF Init
  <1>2. ~Holding(orderGroup) /\ ~Holding(customerGroup)
    BY GroupFacts DEF Init, ReaderInit, Holding
  <1>3. NoTx.log = {} /\ NoTx.state = "none" /\ NoTx \in Transaction
    BY DEF NoTx, Transaction
  <1>4. DbTypeOK /\ RestTypeOK
    <2>1. /\ notificationLog = {} /\ outbox = <<>> /\ orphans = {} /\ tx = NoTx
          /\ orderStep = "fetch" /\ customerNotices = [i \in EventId |-> 0]
          /\ stopping = FALSE /\ failed = {}
      BY DEF Init
    <2>2. DbTypeOK
      BY <1>3, <2>1 DEF DbTypeOK
    <2>3. RestTypeOK
      BY <2>1 DEF RestTypeOK
    <2> QED
      BY <2>2, <2>3
  <1>5. TxOK /\ KeysOK /\ LogMatchesOutbox /\ DoneOK
    BY <1>3 DEF Init, TxOK, KeysOK, LogMatchesOutbox, DoneOK
  <1>6. TypeOK
    <2>1. Away(orderStep) = ~Holding(orderGroup) /\ Away(customerStep) = ~Holding(customerGroup)
      BY <1>2 DEF Init, Away
    <2> QED
      BY <1>1, <1>4, <2>1, TypeParts DEF ReaderOK
  <1> QED
    BY <1>1, <1>5, <1>6 DEF IInv, ReaderOK

\* and every step keeps it.
LEMMA InvStep == IInv /\ [Next]_vars => IInv'
  <1> SUFFICES ASSUME IInv, [Next]_vars PROVE IInv'
    OBVIOUS
  <1>1. ASSUME Next, NEW E, NEW F, E = OrderDoneNext, F = CustomerDoneNext
        PROVE  IInv'
    <2>1. OrderDone' = E /\ CustomerDone' = F
      BY <1>1 DEF OrderDone, OrderDoneNext, CustomerDone, CustomerDoneNext
    <2>2. Call(E, F)
      BY <1>1, Calls
    <2>3. OrderDone \subseteq E /\ CustomerDone \subseteq F
      BY <1>1, Monotone DEF IInv
    <2>4. ReaderOK' /\ Passed(orderGroup, E)' /\ Passed(customerGroup, F)'
      BY <2>2, <2>3, ReaderStep
    <2>5. DbOK' /\ DoneOK' /\ RestTypeOK'
      BY <1>1, DbStep, DoneStep, RestTypeStep
    <2>6. TypeOK'
      <3>1. /\ Away(orderStep') = ~Holding(orderGroup)'
            /\ Away(customerStep') = ~Holding(customerGroup)'
        BY <2>2, HoldingStep
      <3> QED
        BY <2>4, <2>5, <3>1 DEF ReaderOK, DbOK, TypeOK, DbTypeOK, RestTypeOK, Away
    <2>7. Passed(orderGroup, OrderDone)' /\ Passed(customerGroup, CustomerDone)'
      BY <2>1, <2>4 DEF Passed
    <2> QED
      BY <2>4, <2>5, <2>6, <2>7 DEF IInv, ReaderOK, DbOK
  <1>2. ASSUME UNCHANGED vars
        PROVE  IInv'
    <2>1. UNCHANGED readerVars /\ UNCHANGED db /\ UNCHANGED orderVars /\ UNCHANGED customerVars
          /\ stopping' = stopping
      BY <1>2 DEF vars, process
    <2>2. /\ OrderMsg' = OrderMsg /\ CustomerMsg' = CustomerMsg
          /\ OrderDone' = OrderDone /\ CustomerDone' = CustomerDone
          /\ Holding(orderGroup)' = Holding(orderGroup)
          /\ Holding(customerGroup)' = Holding(customerGroup)
      BY <2>1 DEF readerVars, db, orderVars, customerVars, OrderMsg, CustomerMsg, InHand,
         MessageAt, OrderDone, CustomerDone, Holding
    <2>3. OffsetsOK' /\ Passed(orderGroup, OrderDone)' /\ Passed(customerGroup, CustomerDone)'
      BY <2>1, <2>2 DEF readerVars, IInv, OffsetsOK, Passed, LogOf, Holding
    <2>4. ReaderTypeOK' /\ DbTypeOK' /\ RestTypeOK'
      BY <2>1 DEF readerVars, db, orderVars, customerVars, IInv, TypeOK, ReaderTypeOK,
         DbTypeOK, RestTypeOK
    <2>5. TypeOK'
      BY <2>1, <2>2, <2>4 DEF orderVars, customerVars, IInv, TypeOK, DbTypeOK, RestTypeOK
    <2>6. TxOK' /\ KeysOK' /\ LogMatchesOutbox' /\ DoneOK'
      BY <2>1, <2>2 DEF db, orderVars, customerVars, IInv, TxOK, KeysOK, LogMatchesOutbox, DoneOK
    <2> QED
      BY <2>3, <2>5, <2>6 DEF IInv
  <1> QED
    BY <1>1, <1>2

\* So it always holds.
LEMMA Invariant == Spec => []IInv
  BY InvInit, InvStep, PTL DEF Spec

(***************************************************************************)
(* The service as a part of a system: what it promises there rests on these*)
(* facts, and not on how its Relay picks messages.                         *)
(***************************************************************************)
\* A message that arrives on any topic disturbs nothing.
LEMMA Delivery ==
  ASSUME IInv, NEW t \in Topic, NEW m \in Message, Deliver(t, m),
         UNCHANGED <<db, orderVars, customerVars, process>>
  PROVE  IInv'
  <1>1. /\ UNCHANGED <<notificationLog, outbox, orphans, tx, orderStep, failed>>
        /\ UNCHANGED <<customerStep, customerNotices, stopping>> /\ held' = held
    BY DEF db, orderVars, customerVars, process, Deliver
  <1>2. /\ TypeOK /\ ReaderOK /\ DbOK
        /\ Passed(orderGroup, OrderDone) /\ Passed(customerGroup, CustomerDone)
    BY DEF IInv, TypeOK, ReaderOK, DbOK, DbTypeOK
  <1>3. /\ OrderDone' = OrderDone /\ CustomerDone' = CustomerDone
        /\ \A g \in Group : Holding(g)' = Holding(g)
    BY <1>1 DEF OrderDone, CustomerDone, Holding
  <1>4. /\ orderStep \notin {"fetch", "stopped"} => OrderMsg' = OrderMsg
        /\ customerStep \notin {"fetch", "stopped"} => CustomerMsg' = CustomerMsg
    <2>1. /\ orderStep \notin {"fetch", "stopped"} => Holding(orderGroup)
          /\ customerStep \notin {"fetch", "stopped"} => Holding(customerGroup)
      BY MsgType DEF IInv
    <2>2. ASSUME NEW g \in Group, Holding(g)
          PROVE  InHand(g)' = InHand(g)
      <3>1. held'[g] = held[g]
        BY <1>1
      <3> QED
        BY <1>2, <2>2, <3>1, InHandKept
    <2> QED
      BY <2>1, <2>2, GroupFacts DEF OrderMsg, CustomerMsg
  <1>5. ReaderOK'
    BY <1>2, DeliverOK
  <1>6. Passed(orderGroup, OrderDone)' /\ Passed(customerGroup, CustomerDone)'
    <2>1. ASSUME NEW E, NEW F, E = OrderDone, F = CustomerDone
          PROVE  Passed(orderGroup, OrderDone)' /\ Passed(customerGroup, CustomerDone)'
      <3>1. OrderDone' = E /\ CustomerDone' = F
        BY <1>3, <2>1
      <3>2. Passed(orderGroup, E)' /\ Passed(customerGroup, F)'
        BY <1>2, <2>1, GroupFacts, DeliverPassed
      <3> QED
        BY <3>1, <3>2 DEF Passed
    <2> QED
      BY <2>1
  <1>7. DbOK'
    BY <1>1, <1>2, <1>4, DbStill DEF InTx
  <1>8. TypeOK' /\ DoneOK'
    <2>1. DoneOK'
      BY <1>1, <1>3, <1>4 DEF IInv, DoneOK
    <2>2. TypeOK'
      BY <1>1, <1>2, <1>3, <1>5, GroupFacts DEF TypeOK, ReaderOK
    <2> QED
      BY <2>1, <2>2
  <1> QED
    BY <1>5, <1>6, <1>7, <1>8 DEF IInv, ReaderOK, DbOK

\* The ids the service has recorded or is recording.
Ids == notificationLog \cup tx.log \cup UNION {o.log : o \in orphans}

\* Only orders on the topic are recorded.
LEMMA IdsStep ==
  ASSUME IInv, Next, NEW i \in Ids', i \notin Ids
  PROVE  \E m \in Message :
           m \in Appended(orderEvents) /\ m.type = "OrderCreated" /\ m.id = i
  <1>1. TypeOK /\ TxOK /\ OffsetsOK /\ tx \in Transaction
    BY DEF IInv, TypeOK
  <1>2. NoTx.log = {} /\ Begun.log = {}
    BY DEF NoTx, Begun
  <1>3. InsertNotification
    <2>1. CASE BeginOrder
      BY <1>2, <2>1 DEF BeginOrder, Ids, db
    <2>2. CASE PublishOrderNotificationSent \/ CommitOrder
      <3>1. tx'.log = tx.log /\ UNCHANGED db
        BY <1>1, <2>2 DEF PublishOrderNotificationSent, CommitOrder, Transaction
      <3> QED
        BY <3>1 DEF Ids, db
    <2>3. CASE OrderCommitted
      BY <1>2, <2>3 DEF OrderCommitted, MakeVisible, Ids
    <2>4. CASE SettleOrphan
      <3>1. PICK o \in orphans : OrphanCommits(o) \/ OrphanAborts(o)
        BY <2>4 DEF SettleOrphan
      <3>2. orphans' = orphans \ {o} /\ tx' = tx
            /\ notificationLog' \subseteq notificationLog \cup o.log
        BY <3>1 DEF OrphanCommits, OrphanAborts, MakeVisible, orderVars
      <3> QED
        BY <3>2 DEF Ids
    <2>5. CASE StatementFails \/ ConnectionLost \/ Cancelled \/ Crash
      <3>1. /\ notificationLog' = notificationLog /\ tx' = NoTx
            /\ orphans' = orphans \/ orphans' = orphans \cup {tx}
        BY <2>5 DEF StatementFails, ConnectionLost, Cancelled, Crash, OrderHandlerFails
      <3> QED
        BY <1>2, <3>1 DEF Ids
    <2>6. CASE /\ UNCHANGED <<notificationLog, orphans, tx>>
      BY <2>6 DEF Ids
    <2> QED
      BY <2>1, <2>2, <2>3, <2>4, <2>5, <2>6 DEF Next, ServiceStep, OrderLoop, CustomerLoop,
         StopStep, Relay, FetchOrder, FetchCustomer, IgnoreOrderEvent, AlreadyNotified,
         AckOrder, IgnoreCustomerEvent, NotifyCustomerCreated, AckCustomer,
         OffsetCommitFails, GroupRebalances, Shutdown, AckCancelled, OrderLoopEnds,
         CustomerLoopEnds, StartAgain, CaughtUp, db, orderVars, vars
  <1>4. i = OrderMsg.id /\ orderStep = "insert"
    <2>1. tx'.log = tx.log \cup {OrderMsg.id} /\ UNCHANGED db
      BY <1>1, <1>3 DEF InsertNotification, Transaction
    <2> QED
      BY <1>3, <2>1 DEF InsertNotification, Ids, db
  <1>5. OrderMsg.type = "OrderCreated" /\ OrderMsg \in Message /\ Holding(orderGroup)
    BY <1>1, <1>4, MsgType DEF TxOK
  <1>6. OrderMsg \in Appended(orderEvents)
    BY <1>1, <1>5, InHandAppended, GroupFacts, NotificationConstants DEF TypeOK, ReaderOK,
       OrderMsg
  <1> QED
    BY <1>4, <1>5, <1>6

\* A commit adds at most one event, for what the service has recorded.
LEMMA OutboxStep ==
  ASSUME IInv, Next
  PROVE  outbox' = outbox \/ \E i \in Ids : outbox' = Append(outbox, i)
  <1>1. /\ outbox \in Seq(EventId)
        /\ tx.state = "committing" => Whole(tx)
        /\ \A o \in orphans : o.state = "committing" => Whole(o)
    BY DEF IInv, TypeOK, TxOK, KeysOK
  <1>2. \/ outbox' = outbox
        \/ OrderCommitted
        \/ \E o \in orphans : OrphanCommits(o)
    BY DEF Next, ServiceStep, OrderLoop, CustomerLoop, StopStep, SettleOrphan, Relay,
       FetchOrder, FetchCustomer, IgnoreOrderEvent, BeginOrder, InsertNotification,
       AlreadyNotified, PublishOrderNotificationSent, CommitOrder, AckOrder,
       IgnoreCustomerEvent, NotifyCustomerCreated, AckCustomer, StatementFails,
       ConnectionLost, OrphanAborts, OffsetCommitFails, GroupRebalances, Crash, Shutdown,
       Cancelled, AckCancelled, OrderLoopEnds, CustomerLoopEnds, StartAgain, CaughtUp,
       OrderHandlerFails, db, vars
  <1>3. ASSUME NEW t, Whole(t), outbox' = outbox \o t.events, t.log \subseteq Ids
        PROVE  outbox' = outbox \/ \E i \in Ids : outbox' = Append(outbox, i)
    <2>1. CASE t.events = <<>>
      BY <1>1, <1>3, <2>1
    <2>2. ASSUME NEW i \in EventId, t.log = {i}, t.events = <<i>>
          PROVE  i \in Ids /\ outbox' = Append(outbox, i)
      BY <1>1, <1>3, <2>2
    <2> QED
      BY <1>3, <2>1, <2>2 DEF Whole
  <1>4. CASE OrderCommitted
    BY <1>1, <1>3, <1>4 DEF OrderCommitted, MakeVisible, Ids
  <1>5. CASE \E o \in orphans : OrphanCommits(o)
    BY <1>1, <1>3, <1>5 DEF OrphanCommits, MakeVisible, Ids
  <1> QED
    BY <1>2, <1>4, <1>5

\* A service whose goroutines wait at the end of their topics has recorded every
\* order and notified every customer, but for what failed.
LEMMA CaughtUpOrders ==
  ASSUME IInv, orderStep = "fetch",
         \A p \in Partition : position[orderGroup][p] > Len(log[orderEvents][p])
  PROVE  \A m \in Appended(orderEvents) :
           m.type = "OrderCreated" => m.id \in notificationLog \cup failed
  <1>1. /\ ReaderOK /\ orderGroup \in Group /\ TopicOf[orderGroup] = orderEvents
        /\ Passed(orderGroup, OrderDone) /\ ~Holding(orderGroup)
    BY GroupFacts, NotificationConstants DEF IInv, TypeOK, ReaderOK
  <1>2. Appended(orderEvents) \subseteq OrderDone
    BY <1>1, EndDone DEF LogOf
  <1> QED
    BY <1>2 DEF OrderDone

\* The same of the customers.
LEMMA CaughtUpCustomers ==
  ASSUME IInv, customerStep = "fetch",
         \A p \in Partition : position[customerGroup][p] > Len(log[customerEvents][p])
  PROVE  \A m \in Appended(customerEvents) :
           m.type = "CustomerCreated" => customerNotices[m.id] > 0
  <1>1. /\ ReaderOK /\ customerGroup \in Group /\ TopicOf[customerGroup] = customerEvents
        /\ Passed(customerGroup, CustomerDone) /\ ~Holding(customerGroup)
    BY GroupFacts, NotificationConstants DEF IInv, TypeOK, ReaderOK
  <1>2. Appended(customerEvents) \subseteq CustomerDone
    BY <1>1, EndDone DEF LogOf
  <1> QED
    BY <1>2 DEF CustomerDone

\* Types: a goroutine is at FetchMessage exactly while it has no message, and in
\* a transaction exactly between its first statement and its COMMIT.
THEOREM TypeCorrect == Spec => []TypeOK
  <1>1. IInv => TypeOK
    BY DEF IInv
  <1> QED
    BY <1>1, Invariant, PTL

\* The rows of notification_log and the OrderNotificationSent events are one and
\* the same, through redeliveries and the transactions of dead handlers.
THEOREM LogIsOutbox == Spec => []LogMatchesOutbox
  <1>1. IInv => LogMatchesOutbox
    BY DEF IInv
  <1> QED
    BY <1>1, Invariant, PTL

\* No crash, rebalance, shutdown, failed offset commit or failure of another
\* message makes the service acknowledge an order it has not recorded.
THEOREM AcknowledgedAreRecorded == Spec => []AckedIsRecorded
  <1>1. IInv => AckedIsRecorded
    <2> SUFFICES ASSUME IInv PROVE AckedIsRecorded
      OBVIOUS
    <2>1. Acknowledged(orderGroup) \subseteq OrderDone
      BY AcknowledgedDone, GroupFacts DEF IInv, TypeOK, ReaderOK
    <2> QED
      BY <2>1 DEF AckedIsRecorded, OrderDone
  <1> QED
    BY <1>1, Invariant, PTL

\* Nor a customer it has not notified.
THEOREM AcknowledgedAreNotified == Spec => []AckedIsNotified
  <1>1. IInv => AckedIsNotified
    <2> SUFFICES ASSUME IInv PROVE AckedIsNotified
      OBVIOUS
    <2>1. Acknowledged(customerGroup) \subseteq CustomerDone
      BY AcknowledgedDone, GroupFacts DEF IInv, TypeOK, ReaderOK
    <2> QED
      BY <2>1 DEF AckedIsNotified, CustomerDone
  <1> QED
    BY <1>1, Invariant, PTL
=============================================================================
