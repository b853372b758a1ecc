------------------------ MODULE NotificationService ------------------------
(***************************************************************************)
(* notification-service: two goroutines, one per topic, each with a reader *)
(* of its own.  For an OrderCreated event one transaction inserts the row  *)
(* of notification_log and the OrderNotificationSent event; for a          *)
(* CustomerCreated event a line is logged.                                 *)
(*                                                                         *)
(* A transaction can outlive its handler (a crash, a lost connection): the *)
(* server keeps its rows locked until it notices, and a COMMIT that was    *)
(* sent may still take effect.                                             *)
(*                                                                         *)
(* SIGTERM cancels the context every call of both goroutines takes.  What  *)
(* FetchMessage and CommitMessages do then is a select between the context *)
(* and their channel: either can win.                                      *)
(***************************************************************************)
EXTENDS KafkaReader, FiniteSets

CONSTANTS
  orderGroup, customerGroup,    \* notification-service-order and -customer
  orderEvents, customerEvents,  \* their topics
  MaxLog,          \* bound: messages on each topic
  MaxCrashes,      \* bound: crashes and shutdowns of the process
  MaxErrors,       \* bound: failed statements
  MaxDisruptions   \* bound: rebalances and failed offset commits

\* A message is [id, type, topic, partition].  The services' publishers are the
\* only producers, so every payload parses and every id in it is set.
ASSUME NotificationConstants ==
  /\ orderGroup # customerGroup /\ Group = {orderGroup, customerGroup}
  /\ TopicOf[orderGroup] = orderEvents /\ TopicOf[customerGroup] = customerEvents
  /\ \A m \in Message : m.topic \in Topic
  /\ \A m, n \in Message : m.id = n.id => m = n

VARIABLES
  notificationLog,   \* committed rows of notification_log: event ids
  outbox,            \* committed OrderNotificationSent events: the id they answer
  tx,                \* the order goroutine's transaction
  orphans,           \* transactions whose handler is gone
  orderStep,         \* "fetch", "handle", "insert", "publish", "commit", "committing",
                     \* "ack", "stopped"
  customerStep,      \* "fetch", "handle", "ack", "stopped"
  stopping,          \* the context of main is cancelled
  failed,            \* the events whose handler has returned an error
  customerNotices,   \* customerNotices[i]: log lines written for event i
  crashes, errors, disruptions

db == <<notificationLog, outbox, orphans>>
process == <<stopping, crashes, errors, disruptions>>
orderVars == <<tx, orderStep, failed>>
customerVars == <<customerStep, customerNotices>>
vars == <<readerVars, db, orderVars, customerVars, process>>

EventId == {m.id : m \in Message}

NoTx == [state |-> "none", log |-> {}, events |-> <<>>]
Begun == [state |-> "open", log |-> {}, events |-> <<>>]

Init ==
  /\ ReaderInit
  /\ notificationLog = {} /\ outbox = <<>> /\ orphans = {}
  /\ tx = NoTx
  /\ orderStep = "fetch" /\ customerStep = "fetch"
  /\ customerNotices = [i \in EventId |-> 0]
  /\ stopping = FALSE /\ failed = {}
  /\ crashes = 0 /\ errors = 0 /\ disruptions = 0

LogSize(t) == Cardinality(UNION {{<<p, i>> : i \in DOMAIN log[t][p]} : p \in Partition})

Relay(m) ==
  /\ LogSize(m.topic) < MaxLog
  /\ Deliver(m.topic, m)
  /\ UNCHANGED <<db, orderVars, customerVars, process>>

(***************************************************************************)
(* The goroutine of order.events.                                          *)
(***************************************************************************)
OrderMsg == InHand(orderGroup)

OrderGoto(s) == orderStep' = s

\* Mutant: ReadMessage in place of FetchMessage.
FetchOrderByRead(p) ==
  /\ orderStep = "fetch"
  /\ ReadMessage(orderGroup, p)
  /\ OrderGoto("handle")
  /\ UNCHANGED <<db, tx, failed, customerVars, process>>

FetchOrder(p) ==
  /\ orderStep = "fetch"
  /\ FetchMessage(orderGroup, p)
  /\ OrderGoto("handle")
  /\ UNCHANGED <<db, tx, failed, customerVars, process>>

\* Its own OrderNotificationSent, and types it does not know.
IgnoreOrderEvent ==
  /\ orderStep = "handle" /\ OrderMsg.type # "OrderCreated"
  /\ OrderGoto("ack")
  /\ UNCHANGED <<readerVars, db, tx, failed, customerVars, process>>

BeginOrder ==
  /\ ~stopping /\ orderStep = "handle" /\ OrderMsg.type = "OrderCreated"
  /\ tx' = Begun
  /\ OrderGoto("insert")
  /\ UNCHANGED <<readerVars, db, failed, customerVars, process>>

\* Another transaction has inserted the key and has not ended: the insert waits.
Unsettled(i) == \E o \in orphans : i \in o.log

\* INSERT INTO notification_log ... ON CONFLICT DO NOTHING RETURNING true.
InsertNotification ==
  /\ ~stopping /\ orderStep = "insert"
  /\ ~Unsettled(OrderMsg.id) /\ OrderMsg.id \notin notificationLog
  /\ tx' = [tx EXCEPT !.log = @ \cup {OrderMsg.id}]
  /\ OrderGoto("publish")
  /\ UNCHANGED <<readerVars, db, failed, customerVars, process>>

\* Mutant: no "if !notified".
AlreadyNotifiedPublishes ==
  /\ ~stopping /\ orderStep = "insert"
  /\ OrderMsg.id \in notificationLog
  /\ OrderGoto("publish")
  /\ UNCHANGED <<readerVars, db, tx, failed, customerVars, process>>

\* notified is false: commit without an event.
AlreadyNotified ==
  /\ ~stopping /\ orderStep = "insert"
  /\ OrderMsg.id \in notificationLog
  /\ OrderGoto("commit")
  /\ UNCHANGED <<readerVars, db, tx, failed, customerVars, process>>

PublishOrderNotificationSent ==
  /\ ~stopping /\ orderStep = "publish"
  /\ tx' = [tx EXCEPT !.events = Append(@, OrderMsg.id)]
  /\ OrderGoto("commit")
  /\ UNCHANGED <<readerVars, db, failed, customerVars, process>>

CommitOrder ==
  /\ ~stopping /\ orderStep = "commit"
  /\ tx' = [tx EXCEPT !.state = "committing"]
  /\ OrderGoto("committing")
  /\ UNCHANGED <<readerVars, db, failed, customerVars, process>>

MakeVisible(t) ==
  /\ notificationLog' = notificationLog \cup t.log
  /\ outbox' = outbox \o t.events

\* The server commits, and its answer reaches the handler.
OrderCommitted ==
  /\ orderStep = "committing" /\ tx.state = "committing"
  /\ MakeVisible(tx)
  /\ tx' = NoTx
  /\ OrderGoto("ack")
  /\ UNCHANGED <<readerVars, orphans, failed, customerVars, process>>

AckOrder ==
  /\ orderStep = "ack"
  /\ CommitMessages(orderGroup)
  /\ OrderGoto("fetch")
  /\ UNCHANGED <<db, tx, failed, customerVars, process>>

(***************************************************************************)
(* The goroutine of customer.events.                                       *)
(***************************************************************************)
CustomerMsg == InHand(customerGroup)

CustomerGoto(s) == customerStep' = s

\* Mutant: ReadMessage in place of FetchMessage.
FetchCustomerByRead(p) ==
  /\ customerStep = "fetch"
  /\ ReadMessage(customerGroup, p)
  /\ CustomerGoto("handle")
  /\ UNCHANGED <<db, orderVars, customerNotices, process>>

FetchCustomer(p) ==
  /\ customerStep = "fetch"
  /\ FetchMessage(customerGroup, p)
  /\ CustomerGoto("handle")
  /\ UNCHANGED <<db, orderVars, customerNotices, process>>

IgnoreCustomerEvent ==
  /\ customerStep = "handle" /\ CustomerMsg.type # "CustomerCreated"
  /\ CustomerGoto("ack")
  /\ UNCHANGED <<readerVars, db, orderVars, customerNotices, process>>

\* A log line and nothing else: no table remembers it.
NotifyCustomerCreated ==
  /\ customerStep = "handle" /\ CustomerMsg.type = "CustomerCreated"
  /\ customerNotices' = [customerNotices EXCEPT ![CustomerMsg.id] = @ + 1]
  /\ CustomerGoto("ack")
  /\ UNCHANGED <<readerVars, db, orderVars, process>>

AckCustomer ==
  /\ customerStep = "ack"
  /\ CommitMessages(customerGroup)
  /\ CustomerGoto("fetch")
  /\ UNCHANGED <<db, orderVars, customerNotices, process>>

(***************************************************************************)
(* Failures.                                                               *)
(***************************************************************************)
\* Mutant: the handler returns and leaves its transaction open.
OrderHandlerFailsOpen ==
  /\ Skip(orderGroup)
  /\ failed' = failed \cup {OrderMsg.id}
  /\ OrderGoto("fetch")
  /\ UNCHANGED <<notificationLog, outbox, tx, customerVars>>

\* The handler returns an error and runReader skips the message.
OrderHandlerFails ==
  /\ Skip(orderGroup)
  /\ tx' = NoTx
  /\ failed' = failed \cup {OrderMsg.id}
  /\ OrderGoto("fetch")
  /\ UNCHANGED <<notificationLog, outbox, customerVars>>

CountError ==
  /\ errors < MaxErrors /\ errors' = errors + 1
  /\ UNCHANGED <<stopping, crashes, disruptions>>

\* The goroutine is in handleOrderCreated.
HandlingOrder ==
  tx # NoTx \/ (orderStep = "handle" /\ OrderMsg.type = "OrderCreated")

\* BeginTx, a statement or the commit fails, and the transaction with it.
StatementFails ==
  /\ HandlingOrder
  /\ OrderHandlerFails
  /\ CountError
  /\ UNCHANGED orphans

\* The connection breaks: the server still has the transaction.
ConnectionLost ==
  /\ tx # NoTx
  /\ OrderHandlerFails
  /\ CountError
  /\ orphans' = orphans \cup {tx}

OrphanCommits(o) ==
  /\ o.state = "committing"
  /\ MakeVisible(o)
  /\ orphans' = orphans \ {o}
  /\ UNCHANGED <<readerVars, orderVars, customerVars, process>>

OrphanAborts(o) ==
  /\ orphans' = orphans \ {o}
  /\ UNCHANGED <<readerVars, notificationLog, outbox, orderVars, customerVars, process>>

OffsetCommitFails(g) ==
  /\ disruptions < MaxDisruptions /\ disruptions' = disruptions + 1
  /\ Skip(g)
  /\ \/ g = orderGroup /\ orderStep = "ack" /\ OrderGoto("fetch") /\ UNCHANGED customerStep
     \/ g = customerGroup /\ customerStep = "ack" /\ CustomerGoto("fetch") /\ UNCHANGED orderStep
  /\ UNCHANGED <<db, tx, failed, customerNotices, stopping, crashes, errors>>

GroupRebalances(g) ==
  /\ disruptions < MaxDisruptions /\ disruptions' = disruptions + 1
  /\ Rebalance(g)
  /\ UNCHANGED <<db, orderVars, customerVars, stopping, crashes, errors>>

\* The process dies and is started again.
Crash ==
  /\ crashes < MaxCrashes /\ crashes' = crashes + 1
  /\ Restart(Group)
  /\ orphans' = IF tx = NoTx THEN orphans ELSE orphans \cup {tx}
  /\ tx' = NoTx
  /\ OrderGoto("fetch") /\ CustomerGoto("fetch")
  /\ stopping' = FALSE
  /\ UNCHANGED <<notificationLog, outbox, failed, customerNotices, errors, disruptions>>

(***************************************************************************)
(* Shutdown.                                                               *)
(***************************************************************************)
\* SIGTERM or an interrupt cancels the context.
Shutdown ==
  /\ ~stopping /\ stopping' = TRUE
  /\ crashes < MaxCrashes /\ crashes' = crashes + 1
  /\ UNCHANGED <<readerVars, db, orderVars, customerVars, errors, disruptions>>

\* database/sql refuses the next statement and rolls back.  A COMMIT that has
\* been sent is not called back.
Cancelled ==
  /\ stopping
  /\ HandlingOrder /\ tx.state # "committing"
  /\ OrderHandlerFails
  /\ UNCHANGED <<orphans, process>>

\* CommitMessages returns the context's error and nothing was committed.
AckCancelled(g) ==
  /\ stopping
  /\ Skip(g)
  /\ \/ g = orderGroup /\ orderStep = "ack" /\ OrderGoto("fetch") /\ UNCHANGED customerStep
     \/ g = customerGroup /\ customerStep = "ack" /\ CustomerGoto("fetch") /\ UNCHANGED orderStep
  /\ UNCHANGED <<db, tx, failed, customerNotices, process>>

\* FetchMessage returns context.Canceled and the goroutine its last.
OrderLoopEnds ==
  /\ stopping /\ orderStep = "fetch"
  /\ OrderGoto("stopped")
  /\ UNCHANGED <<readerVars, db, tx, failed, customerVars, process>>

CustomerLoopEnds ==
  /\ stopping /\ customerStep = "fetch"
  /\ CustomerGoto("stopped")
  /\ UNCHANGED <<readerVars, db, orderVars, customerNotices, process>>

\* Run returns once both have ended, the readers are closed, and somebody
\* starts the service again.
StartAgain ==
  /\ orderStep = "stopped" /\ customerStep = "stopped"
  /\ Restart(Group)
  /\ OrderGoto("fetch") /\ CustomerGoto("fetch")
  /\ stopping' = FALSE
  /\ UNCHANGED <<db, tx, failed, customerNotices, crashes, errors, disruptions>>

(***************************************************************************)
(* The specification.                                                      *)
(***************************************************************************)
OrderLoop ==
  \/ IgnoreOrderEvent \/ BeginOrder \/ InsertNotification \/ AlreadyNotified
  \/ PublishOrderNotificationSent \/ CommitOrder \/ OrderCommitted \/ AckOrder

CustomerLoop == IgnoreCustomerEvent \/ NotifyCustomerCreated \/ AckCustomer

StopStep ==
  \/ Cancelled
  \/ \E g \in Group : AckCancelled(g)
  \/ OrderLoopEnds \/ CustomerLoopEnds
  \/ StartAgain

SettleOrphan == \E o \in orphans : OrphanCommits(o) \/ OrphanAborts(o)

\* Both goroutines wait in FetchMessage and nothing is left to fetch.
CaughtUp ==
  /\ orderStep = "fetch" /\ customerStep = "fetch" /\ orphans = {}
  /\ \A g \in Group, p \in Partition : position[g][p] > Len(log[TopicOf[g]][p])
  /\ UNCHANGED vars

ServiceStep ==
  \/ \E p \in Partition : FetchOrder(p) \/ FetchCustomer(p)
  \/ OrderLoop
  \/ CustomerLoop
  \/ SettleOrphan
  \/ StatementFails \/ ConnectionLost
  \/ \E g \in Group : OffsetCommitFails(g) \/ GroupRebalances(g)
  \/ Crash
  \/ Shutdown
  \/ StopStep

Next ==
  \/ \E m \in Message : Relay(m)
  \/ ServiceStep
  \/ CaughtUp

Spec == Init /\ [][Next]_vars

\* Both goroutines keep running, every partition gets its turn, the server ends
\* the transactions whose client is gone, and a service that was stopped comes
\* to its end and is started again.
Fairness ==
  /\ WF_vars(OrderLoop) /\ WF_vars(CustomerLoop) /\ WF_vars(SettleOrphan)
  /\ WF_vars(Cancelled) /\ WF_vars(OrderLoopEnds) /\ WF_vars(CustomerLoopEnds)
  /\ WF_vars(StartAgain)
  /\ \A p \in Partition : WF_vars(FetchOrder(p)) /\ WF_vars(FetchCustomer(p))

FairSpec == Spec /\ Fairness

(***************************************************************************)
(* Properties.                                                             *)
(***************************************************************************)
Transaction == [state : {"none", "open", "committing"}, log : SUBSET EventId,
                events : Seq(EventId)]

TypeOK ==
  /\ ReaderTypeOK
  /\ notificationLog \subseteq EventId
  /\ outbox \in Seq(EventId)
  /\ tx \in Transaction
  /\ orphans \subseteq Transaction
  /\ (orderStep \in {"fetch", "stopped"}) = ~Holding(orderGroup)
  /\ (customerStep \in {"fetch", "stopped"}) = ~Holding(customerGroup)
  /\ stopping \in BOOLEAN /\ failed \subseteq EventId
  /\ (tx # NoTx) = (orderStep \in {"insert", "publish", "commit", "committing"})
  /\ customerNotices \in [EventId -> Nat]

\* Recording a notification and publishing OrderNotificationSent are one: each
\* recorded event is answered by exactly one outbox event, and nothing else is,
\* although a transaction of a dead process may commit behind a redelivery.
LogMatchesOutbox ==
  /\ notificationLog = {outbox[i] : i \in DOMAIN outbox}
  /\ \A i, j \in DOMAIN outbox : outbox[i] = outbox[j] => i = j

\* An acknowledged order has its notification unless its own handler returned
\* an error: neither a crash nor the failure of another message, nor a shutdown
\* while its offset is being committed, makes the service pass over it.
AckedIsRecorded == \A m \in Acknowledged(orderGroup) :
  m.type = "OrderCreated" => m.id \in notificationLog \cup failed

\* An acknowledged customer has been notified, whatever happens.
AckedIsNotified == \A m \in Acknowledged(customerGroup) :
  m.type = "CustomerCreated" => customerNotices[m.id] > 0

\* The lock of an orphaned transaction delays a redelivered order, never for
\* ever: every order is recorded unless its handler returned an error, through
\* crashes and shutdowns.
EveryOrderRecordedOrFailed == \A m \in Message :
  (m \in Appended(orderEvents) /\ m.type = "OrderCreated")
    ~> (m.id \in notificationLog \cup failed)

\* Customer notices need no database: nothing that happens to the other
\* goroutine's statements keeps a customer from being notified.
EveryCustomerNotified == \A m \in Message :
  (m \in Appended(customerEvents) /\ m.type = "CustomerCreated")
    ~> (customerNotices[m.id] > 0)

\* "notification-service records notification" (README.md:164) for every order.
\* The code does not keep this: after one failed statement runReader goes on to
\* the next message and never comes back.
EveryOrderRecorded == \A m \in Message :
  (m \in Appended(orderEvents) /\ m.type = "OrderCreated")
    ~> (m.id \in notificationLog)

\* "how idempotent consumers avoid duplicate processing" (README.md:141).  The
\* code does not keep this for customers: a redelivered event is notified again.
CustomerNotifiedOnce == \A i \in EventId : customerNotices[i] <= 1
=============================================================================
