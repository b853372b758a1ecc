---------------------------- MODULE OrderService ----------------------------
(***************************************************************************)
(* POST /orders of cmd/order-service, from the HTTP handler down to the    *)
(* rows it leaves in PostgreSQL.                                           *)
(*                                                                         *)
(* Every request runs the handler, CreateOrder of the order service and    *)
(* the closure it hands to sqltx.Exec, one SQL statement per step, so that *)
(* the statements of concurrent requests interleave.  The database side is *)
(* a READ COMMITTED transaction: what it wrote is private until it         *)
(* commits, the rows it updated stay locked until it ends, and whether a   *)
(* COMMIT took effect is decided by the server, not by the reply.          *)
(*                                                                         *)
(* An order id is fresh for every request (uuid.New), so the request itself*)
(* stands for it.  Trace headers, timestamps and row ids are left out.     *)
(***************************************************************************)
EXTENDS Integers, Sequences, FiniteSets, Functions

CONSTANTS
  Request,        \* the POST /orders requests
  SkuName,        \* the SKUs a client can name
  Sku,            \* those with a row in inventory
  Customer,       \* the customer ids a client can name
  NoCustomer,     \* the empty customer id
  Command,        \* the decoded bodies: [customer, items]
  InitStock,      \* available_quantity after the migrations
  InitCustomers,  \* the customers the migrations seed
  Price,          \* price_cents; no statement of the services changes it
  MaxInt4,        \* the largest value of an INT column
  MaxOpenConns    \* size of the connection pool

Item == [sku : SkuName, qty : Int]

ASSUME ConstantsOK ==
  /\ IsFiniteSet(Request)
  /\ Sku \subseteq SkuName
  /\ NoCustomer \notin Customer
  /\ Command \subseteq [customer : Customer \cup {NoCustomer}, items : Seq(Item)]
  /\ MaxInt4 \in Nat
  /\ InitStock \in [Sku -> 0..MaxInt4]
  /\ InitCustomers \subseteq Customer
  /\ Price \in [Sku -> 0..MaxInt4]
  /\ MaxOpenConns \in Nat \ {0}

VARIABLES
  \* the tables, as committed
  stock,       \* inventory.available_quantity
  customers,   \* customers.id
  orders,      \* rows of orders
  orderItems,  \* orderItems[r]: rows of order_items of order r, as inserted
  outbox,      \* outbox_events, in commit order
  \* the server's side of each request's transaction
  srv,         \* "none", "open", "committing", "committed" or "aborted"
  writes,      \* the rows it inserted and has not committed
  reserved,    \* reserved[r][s]: what it took from s (kept once committed)
  \* the handler's side
  pc,          \* the statement it executes next
  cmd,         \* the request's body
  lines,       \* orderItems/eventItems of the closure: one per reserved item
  total,       \* totalCents of the closure
  err,         \* the error the closure returned
  reply        \* the HTTP status sent, 0 before

tables  == <<stock, customers, orders, orderItems, outbox>>
server  == <<srv, writes, reserved>>
handler == <<pc, cmd, lines, total, err, reply>>
vars    == <<tables, server, handler>>

(***************************************************************************)
(* Rows and events.                                                        *)
(***************************************************************************)
Line == [sku : Sku, qty : Nat, price : Nat]

Row == [id : Request, customer : Customer, total : Nat]

\* Mutant: the row is built before the items are priced.
OrderRowUnpriced(r) == [id |-> r, customer |-> cmd[r].customer, total |-> 0]

OrderRow(r) == [id |-> r, customer |-> cmd[r].customer, total |-> total[r]]

OrderCreated(r) ==
  [type |-> "OrderCreated", aggregate |-> r, customer |-> cmd[r].customer,
   lines |-> lines[r], total |-> total[r]]

CustomerCreated(c) ==
  [type |-> "CustomerCreated", aggregate |-> c, customer |-> c,
   lines |-> <<>>, total |-> 0]

Event ==
  [type : {"OrderCreated", "CustomerCreated"}, aggregate : Request \cup Customer,
   customer : Customer, lines : Seq(Line), total : Nat]

WriteSet == [orders : SUBSET Row, items : Seq(Line), events : Seq(Event)]

NoWrites == [orders |-> {}, items |-> <<>>, events |-> <<>>]

Nothing == [s \in Sku |-> 0]

(***************************************************************************)
(* Transactions and row locks.                                             *)
(***************************************************************************)
\* The server still holds the locks of a transaction it has not ended.
Live(r) == srv[r] \in {"open", "committing"}

\* An UPDATE locks the inventory row until its transaction ends.
Locks(r, s) == Live(r) /\ reserved[r][s] > 0

LockedByOther(r, s) == \E q \in Request \ {r} : Locks(q, s)

\* READ COMMITTED: the committed value and the transaction's own updates.
Visible(r, s) == stock[s] - reserved[r][s]

\* Go errors of the closure, and the status CreateOrder of the handler maps
\* them to.  errors.Is looks through the errors.Join of a failed rollback.
ClientErrors == {"ErrEmptyCustomerID", "ErrEmptyItems", "ErrInvalidQuantity"}

Errors == ClientErrors \cup {"none", "ErrInsufficientInventory", "database", "panic"}

\* After a panic net/http closes the connection without an answer.
StatusOf(e) ==
  IF e \in ClientErrors THEN 400
  ELSE IF e = "ErrInsufficientInventory" THEN 409
  ELSE IF e = "panic" THEN 0 ELSE 500

Validation(c) ==
  IF c.customer = NoCustomer THEN "ErrEmptyCustomerID"
  ELSE IF Len(c.items) = 0 THEN "ErrEmptyItems" ELSE "none"

\* The handler's steps between BeginTx and the end of Exec hold a connection.
StatementSteps == {"reserve", "create", "items", "publish"}
TxSteps == StatementSteps \cup {"commit", "committing", "rollback"}
Steps == TxSteps \cup {"idle", "begin", "done", "gone"}

\* Mutant: Exec returns the closure's error without a Rollback, and with it
\* the connection is never returned to the pool.
ConnectionsLeaked ==
  {r \in Request : pc[r] \in TxSteps \/ (pc[r] = "done" /\ err[r] # "none")}

Connections == {r \in Request : pc[r] \in TxSteps}

Init ==
  /\ stock = InitStock
  /\ customers = InitCustomers
  /\ orders = {}
  /\ orderItems = [r \in Request |-> <<>>]
  /\ outbox = <<>>
  /\ srv = [r \in Request |-> "none"]
  /\ writes = [r \in Request |-> NoWrites]
  /\ reserved = [r \in Request |-> Nothing]
  /\ pc = [r \in Request |-> "idle"]
  /\ cmd \in [Request -> Command]
  /\ lines = [r \in Request |-> <<>>]
  /\ total = [r \in Request |-> 0]
  /\ err = [r \in Request |-> "none"]
  /\ reply = [r \in Request |-> 0]

(***************************************************************************)
(* The ways a step can leave the closure.                                  *)
(***************************************************************************)
Goto(r, step) == pc' = [pc EXCEPT ![r] = step]

\* The closure, or validation, returned e and the client gets its status.
Respond(r, e) ==
  /\ err' = [err EXCEPT ![r] = e]
  /\ reply' = [reply EXCEPT ![r] = IF e = "none" THEN 201 ELSE StatusOf(e)]
  /\ Goto(r, "done")

\* Mutant: the closure tries the failed statement again, inside its transaction.
FailRetry(r, e) == UNCHANGED handler

\* The closure returns e: Exec rolls back next.
Fail(r, e) ==
  /\ err' = [err EXCEPT ![r] = e]
  /\ Goto(r, "rollback")
  /\ UNCHANGED <<cmd, lines, total, reply>>

\* The server forgets an aborted transaction's rows, reservations and locks.
Discard(r) ==
  /\ srv' = [srv EXCEPT ![r] = "aborted"]
  /\ writes' = [writes EXCEPT ![r] = NoWrites]
  /\ reserved' = [reserved EXCEPT ![r] = Nothing]

\* The rows a transaction has inserted so far.
Write(r, os, is, es) ==
  writes' = [writes EXCEPT ![r] = [orders |-> os, items |-> is, events |-> es]]

\* A statement failed in the server, which aborts the transaction at once.
ServerRefuses(r) ==
  /\ Discard(r)
  /\ Fail(r, "database")
  /\ UNCHANGED tables

(***************************************************************************)
(* HTTP handler and validation.                                            *)
(***************************************************************************)
\* The body is not the JSON the handler accepts.
RejectBody(r) ==
  /\ pc[r] = "idle"
  /\ reply' = [reply EXCEPT ![r] = 400]
  /\ Goto(r, "done")
  /\ UNCHANGED <<tables, server, cmd, lines, total, err>>

Receive(r) ==
  /\ pc[r] = "idle"
  /\ IF Validation(cmd[r]) = "none"
     THEN Goto(r, "begin") /\ UNCHANGED <<err, reply>>
     ELSE Respond(r, Validation(cmd[r]))
  /\ UNCHANGED <<tables, server, cmd, lines, total>>

\* BeginTx waits for a connection of the pool.
Begin(r) ==
  /\ pc[r] = "begin"
  /\ Cardinality(Connections) < MaxOpenConns
  /\ srv' = [srv EXCEPT ![r] = "open"]
  /\ Goto(r, "reserve")
  /\ UNCHANGED <<tables, writes, reserved, cmd, lines, total, err, reply>>

\* No connection: database down, or the client left while waiting for one.
BeginFails(r) ==
  /\ pc[r] = "begin"
  /\ Respond(r, "database")
  /\ UNCHANGED <<tables, server, cmd, lines, total>>

(***************************************************************************)
(* The closure: one Reserve per item, then the order, its items and its    *)
(* event.                                                                  *)
(***************************************************************************)
NextItem(r) == cmd[r].items[Len(lines[r]) + 1]

AtItem(r) == pc[r] = "reserve" /\ srv[r] = "open"

\* Mutants: no "available_quantity >= $1"; the check made by a SELECT on a
\* connection of its own; ">" for ">=".
AvailableUnchecked(r, i) == i.sku \in Sku
AvailableOutsideTx(r, i) == i.sku \in Sku /\ stock[i.sku] >= i.qty
AvailableStrict(r, i) == i.sku \in Sku /\ Visible(r, i.sku) > i.qty

\* The UPDATE's WHERE clause, on what the transaction can see.
Available(r, i) == i.sku \in Sku /\ Visible(r, i.sku) >= i.qty

\* $1 is sent as an INT4.
Representable(i) == 0 < i.qty /\ i.qty <= MaxInt4

\* The row matches and nobody else has it locked: take the quantity.  A
\* request that had to wait re-reads the row, so this is also its re-check.
Reserve(r) ==
  LET i == NextItem(r) IN
  /\ AtItem(r)
  /\ Representable(i) /\ Available(r, i)
  /\ ~LockedByOther(r, i.sku)
  /\ reserved' = [reserved EXCEPT ![r][i.sku] = @ + i.qty]
  /\ lines' = [lines EXCEPT ![r] =
       Append(@, [sku |-> i.sku, qty |-> i.qty, price |-> Price[i.sku]])]
  /\ total' = [total EXCEPT ![r] = @ + Price[i.sku] * i.qty]
  /\ Goto(r, IF Len(lines[r]) + 1 = Len(cmd[r].items) THEN "create" ELSE "reserve")
  /\ UNCHANGED <<tables, srv, writes, cmd, err, reply>>

ReserveInvalid(r) ==
  /\ AtItem(r)
  /\ NextItem(r).qty <= 0
  /\ Fail(r, "ErrInvalidQuantity")
  /\ UNCHANGED <<tables, server>>

\* No row matches: too little left, or no such SKU.  An UPDATE waits only for
\* rows that match, so this answer does not wait for a lock.
ReserveInsufficient(r) ==
  /\ AtItem(r)
  /\ Representable(NextItem(r)) /\ ~Available(r, NextItem(r))
  /\ Fail(r, "ErrInsufficientInventory")
  /\ UNCHANGED <<tables, server>>

ReserveOutOfRange(r) ==
  /\ AtItem(r)
  /\ NextItem(r).qty > MaxInt4
  /\ ServerRefuses(r)

\* Mutant: no foreign key.
CanInsertOrderUnreferenced(r) == total[r] <= MaxInt4

\* Foreign key to customers and INT4 total_cents: the statement succeeds, or
\* the server refuses it.
CanInsertOrder(r) == cmd[r].customer \in customers /\ total[r] <= MaxInt4

\* Mutant: the repository inserts the row on a connection of its own.
CreateOrderOutsideTx(r) ==
  /\ pc[r] = "create" /\ srv[r] = "open"
  /\ CanInsertOrder(r)
  /\ orders' = orders \cup {OrderRow(r)}
  /\ Goto(r, "items")
  /\ UNCHANGED <<stock, customers, orderItems, outbox, server, cmd, lines, total,
                 err, reply>>

CreateOrder(r) ==
  /\ pc[r] = "create" /\ srv[r] = "open"
  /\ CanInsertOrder(r)
  /\ Write(r, writes[r].orders \cup {OrderRow(r)}, writes[r].items, writes[r].events)
  /\ Goto(r, "items")
  /\ UNCHANGED <<tables, srv, reserved, cmd, lines, total, err, reply>>

CreateOrderRefused(r) ==
  /\ pc[r] = "create" /\ srv[r] = "open"
  /\ ~CanInsertOrder(r)
  /\ ServerRefuses(r)

\* Mutant: the loop inserts the same item again and again.
NextLineFirst(r) == lines[r][1]

NextLine(r) == lines[r][Len(writes[r].items) + 1]

CreateItem(r) ==
  /\ pc[r] = "items" /\ srv[r] = "open"
  /\ Write(r, writes[r].orders, Append(writes[r].items, NextLine(r)), writes[r].events)
  /\ Goto(r, IF Len(writes[r].items) + 1 = Len(lines[r]) THEN "publish" ELSE "items")
  /\ UNCHANGED <<tables, srv, reserved, cmd, lines, total, err, reply>>

\* Mutant: the publisher writes on a connection of its own, not the context's.
PublishOutsideTx(r) ==
  /\ pc[r] = "publish" /\ srv[r] = "open"
  /\ outbox' = Append(outbox, OrderCreated(r))
  /\ Goto(r, "commit")
  /\ UNCHANGED <<stock, customers, orders, orderItems, server, cmd, lines, total,
                 err, reply>>

PublishOrderCreated(r) ==
  /\ pc[r] = "publish" /\ srv[r] = "open"
  /\ Write(r, writes[r].orders, writes[r].items, Append(writes[r].events, OrderCreated(r)))
  /\ Goto(r, "commit")
  /\ UNCHANGED <<tables, srv, reserved, cmd, lines, total, err, reply>>

(***************************************************************************)
(* The end of sqltx.Exec.                                                  *)
(***************************************************************************)
Commit(r) ==
  /\ pc[r] = "commit"
  /\ srv' = [srv EXCEPT ![r] = "committing"]
  /\ Goto(r, "committing")
  /\ UNCHANGED <<tables, writes, reserved, cmd, lines, total, err, reply>>

\* The server makes the transaction's rows visible, all at once, and frees
\* its locks.
ServerCommits(r) ==
  /\ srv[r] = "committing"
  /\ srv' = [srv EXCEPT ![r] = "committed"]
  /\ stock' = [s \in Sku |-> stock[s] - reserved[r][s]]
  /\ orders' = orders \cup writes[r].orders
  /\ orderItems' = [orderItems EXCEPT ![r] = @ \o writes[r].items]
  /\ outbox' = outbox \o writes[r].events
  /\ writes' = [writes EXCEPT ![r] = NoWrites]
  /\ UNCHANGED <<customers, reserved, handler>>

\* The server fails the commit, or ends a transaction whose client is gone.
ServerAborts(r) ==
  /\ \/ srv[r] = "committing"
     \/ srv[r] = "open" /\ pc[r] \in {"done", "gone"}
  /\ Discard(r)
  /\ UNCHANGED <<tables, handler>>

\* Mutant: Exec drops the error of Commit.
CommitReturnsUnchecked(r) ==
  /\ pc[r] = "committing"
  /\ srv[r] \in {"committed", "aborted"}
  /\ Respond(r, "none")
  /\ UNCHANGED <<tables, server, cmd, lines, total>>

CommitReturns(r) ==
  /\ pc[r] = "committing"
  /\ srv[r] \in {"committed", "aborted"}
  /\ Respond(r, IF srv[r] = "committed" THEN "none" ELSE "database")
  /\ UNCHANGED <<tables, server, cmd, lines, total>>

\* The connection breaks before the server's answer to COMMIT arrives.
CommitReplyLost(r) ==
  /\ pc[r] = "committing"
  /\ Respond(r, "database")
  /\ UNCHANGED <<tables, server, cmd, lines, total>>

Rollback(r) ==
  /\ pc[r] = "rollback"
  /\ Discard(r)
  /\ Respond(r, err[r])
  /\ UNCHANGED <<tables, cmd, lines, total>>

\* ROLLBACK cannot be sent: the server keeps the transaction until it notices.
RollbackLost(r) ==
  /\ pc[r] = "rollback"
  /\ Respond(r, err[r])
  /\ UNCHANGED <<tables, server, cmd, lines, total>>

(***************************************************************************)
(* Failures.                                                               *)
(***************************************************************************)
\* Any statement may fail in the server: a restart, a cancelled request
\* context (database/sql then rolls back by itself), an administrator.
StatementFails(r) ==
  /\ pc[r] \in StatementSteps /\ srv[r] = "open"
  /\ ServerRefuses(r)

\* The connection breaks under a statement; the server does not know yet.
StatementLost(r) ==
  /\ pc[r] \in StatementSteps
  /\ Fail(r, "database")
  /\ UNCHANGED <<tables, server>>

\* The closure panics: Exec's deferred function rolls back and panics again.
Panics(r) ==
  /\ pc[r] \in StatementSteps
  /\ Fail(r, "panic")
  /\ UNCHANGED <<tables, server>>

\* The holders of the lock the request's UPDATE is waiting for.
WaitsFor(r) ==
  IF AtItem(r) /\ Representable(NextItem(r)) /\ Available(r, NextItem(r))
  THEN {q \in Request \ {r} : Locks(q, NextItem(r).sku)}
  ELSE {}

Deadlocked(r) ==
  \E S \in SUBSET Request : r \in S /\ S = UNION {WaitsFor(q) : q \in S}

\* deadlock_timeout: the server breaks a cycle by failing one of its waiters.
DeadlockDetected(r) ==
  /\ AtItem(r)
  /\ Deadlocked(r)
  /\ ServerRefuses(r)

\* The order-service process dies: every request in flight loses its handler.
Crash ==
  /\ \E r \in Request : pc[r] \in TxSteps \cup {"begin"}
  /\ pc' = [r \in Request |->
       IF pc[r] \in TxSteps \cup {"begin"} THEN "gone" ELSE pc[r]]
  /\ UNCHANGED <<tables, server, cmd, lines, total, err, reply>>

(***************************************************************************)
(* POST /customers, as one step: the row and its event in one transaction. *)
(***************************************************************************)
RegisterCustomer(c) ==
  /\ c \notin customers
  /\ customers' = customers \cup {c}
  /\ outbox' = Append(outbox, CustomerCreated(c))
  /\ UNCHANGED <<stock, orders, orderItems, server, handler>>

(***************************************************************************)
(* The specification.                                                      *)
(***************************************************************************)
HandlerStep(r) ==
  \/ Begin(r)
  \/ Reserve(r) \/ ReserveInvalid(r) \/ ReserveInsufficient(r) \/ ReserveOutOfRange(r)
  \/ CreateOrder(r) \/ CreateOrderRefused(r)
  \/ CreateItem(r)
  \/ PublishOrderCreated(r)
  \/ Commit(r) \/ CommitReturns(r)
  \/ Rollback(r)

ServerStep(r) == ServerCommits(r) \/ ServerAborts(r)

Failure(r) ==
  \/ BeginFails(r)
  \/ StatementFails(r) \/ StatementLost(r) \/ Panics(r)
  \/ CommitReplyLost(r) \/ RollbackLost(r)

\* Every request has been answered or lost, and no transaction is left.
Quiet == \A r \in Request : pc[r] \in {"done", "gone"} /\ ~Live(r)

Finished == Quiet /\ UNCHANGED vars

Next ==
  \/ \E r \in Request :
       \/ RejectBody(r) \/ Receive(r)
       \/ HandlerStep(r)
       \/ ServerStep(r)
       \/ DeadlockDetected(r)
       \/ Failure(r)
  \/ Crash
  \/ \E c \in Customer : RegisterCustomer(c)
  \/ Finished

Spec == Init /\ [][Next]_vars

\* A handler that has begun keeps running, PostgreSQL answers a COMMIT, breaks
\* deadlocks and ends the transactions of lost connections.  Nothing makes a
\* client send its request, and no failure has to happen.
Fairness == \A r \in Request :
  /\ WF_vars(HandlerStep(r))
  /\ WF_vars(ServerStep(r))
  /\ WF_vars(DeadlockDetected(r))

FairSpec == Spec /\ Fairness
(***************************************************************************)
(* Properties.                                                             *)
(***************************************************************************)
\* Stock never goes below zero, whatever commits, aborts or overflows.
TypeOK ==
  /\ stock \in [Sku -> Nat]
  /\ customers \subseteq Customer
  /\ orders \subseteq Row
  /\ orderItems \in [Request -> Seq(Line)]
  /\ outbox \in Seq(Event)
  /\ srv \in [Request -> {"none", "open", "committing", "committed", "aborted"}]
  /\ writes \in [Request -> WriteSet]
  /\ reserved \in [Request -> [Sku -> Nat]]
  /\ pc \in [Request -> Steps]
  /\ cmd \in [Request -> Command]
  /\ lines \in [Request -> Seq(Line)]
  /\ total \in [Request -> Nat]
  /\ err \in [Request -> Errors]
  /\ reply \in [Request -> {0, 201, 400, 409, 500}]

Committed(r) == srv[r] = "committed"

\* Two transactions never hold a share of the same inventory row, and each
\* share is still covered by the committed stock: whoever commits next, the
\* UPDATE's "available_quantity >= $1" is as true as when it was evaluated.
NoOversell == \A r \in Request, s \in Sku : Locks(r, s) =>
  /\ reserved[r][s] <= stock[s]
  /\ ~LockedByOther(r, s)

Units(ls, s) ==
  SumFunction([i \in DOMAIN ls |-> IF ls[i].sku = s THEN ls[i].qty ELSE 0])

\* Inventory and order_items agree: what left the stock of a SKU is exactly
\* what the committed orders contain, repeated SKUs included.
StockConserved == \A s \in Sku :
  InitStock[s] - stock[s] = SumFunction([r \in Request |-> Units(orderItems[r], s)])

Amount(ls) == SumFunction([i \in DOMAIN ls |-> ls[i].price * ls[i].qty])

Priced(c) == [i \in DOMAIN c.items |->
  [sku |-> c.items[i].sku, qty |-> c.items[i].qty, price |-> Price[c.items[i].sku]]]

\* Where the outbox announces order r.
Announced(r) ==
  {i \in DOMAIN outbox : outbox[i].type = "OrderCreated" /\ outbox[i].aggregate = r}

\* An order is there as a whole, as the client asked for it: its row, every
\* item in order, the right total, and exactly one event that says the same;
\* or nothing of it is there.
OrderWhole == \A r \in Request :
  LET c == cmd[r]
      rows == {o \in orders : o.id = r}
  IN IF Committed(r)
     THEN /\ rows = {[id |-> r, customer |-> c.customer, total |-> Amount(Priced(c))]}
          /\ orderItems[r] = Priced(c)
          /\ \E i \in DOMAIN outbox :
               /\ Announced(r) = {i}
               /\ outbox[i] = [type |-> "OrderCreated", aggregate |-> r,
                               customer |-> c.customer, lines |-> Priced(c),
                               total |-> Amount(Priced(c))]
     ELSE rows = {} /\ orderItems[r] = <<>> /\ Announced(r) = {}

\* The foreign key holds and an event never precedes its customer's: a
\* consumer that replays the outbox knows the customer of every order.
CustomerFirst == \A i \in DOMAIN outbox : outbox[i].type = "OrderCreated" =>
  \/ outbox[i].customer \in InitCustomers
  \/ \E j \in 1..(i - 1) : outbox[j] = CustomerCreated(outbox[i].customer)

\* What the client is told is what happened: 201 only once the order is
\* durable, 400 and 409 only if it never will be.  (500 promises nothing.)
ReplyTruthful == \A r \in Request :
  /\ reply[r] = 201 => Committed(r)
  /\ reply[r] \in {400, 409} => srv[r] \notin {"committing", "committed"}

Demand(c, s) == SumFunction([i \in DOMAIN c.items |->
  IF c.items[i].sku = s /\ c.items[i].qty > 0 THEN c.items[i].qty ELSE 0])

\* A 409 is never due to another request's unfinished reservation: the stock
\* really is short of one of the SKUs asked for, and stays so.
RefusalJustified == \A r \in Request : reply[r] = 409 =>
  \E i \in DOMAIN cmd[r].items :
    LET s == cmd[r].items[i].sku
    IN s \notin Sku \/ stock[s] < Demand(cmd[r], s)

\* What the ledger sees of a committed order, and of an outbox event.
PlacedOrder(r) ==
  [id |-> r, customer |-> cmd[r].customer, total |-> total[r], taken |-> reserved[r]]

Announcement(e) ==
  [type |-> e.type, aggregate |-> e.aggregate, customer |-> e.customer, total |-> e.total]

Placed == {PlacedOrder(r) : r \in {q \in Request : Committed(q)}}

Announcements == [i \in 1..Len(outbox) |-> Announcement(outbox[i])]

Ledger == INSTANCE OrderLedger WITH
  OrderId <- Request, placed <- Placed, announced <- Announcements

\* Refinement: forget transactions, locks and replies, and what is left is the
\* ledger.  An order is placed when its COMMIT takes effect in the server.
LedgerSpec == Ledger!Spec

\* Every request the handler starts on comes to its end unless the process dies:
\* neither row locks nor the connection pool can block it for ever.  (A request
\* is sent once, so "again and again none is in flight" says this of each.)
EveryRequestAnswered ==
  []<>(\A r \in Request : pc[r] \in {"idle", "done", "gone"})

\* No transaction outlives its request for ever, so no reservation is stuck.
LocksReleased == []<>(\A r \in Request : ~Live(r))
=============================================================================
