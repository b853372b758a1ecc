--------------------------- MODULE CustomerService ---------------------------
(***************************************************************************)
(* POST /customers of cmd/order-service: the handler, CreateCustomer of the*)
(* customer service and the closure it hands to sqltx.Exec, one statement  *)
(* per step.  The row of customers and the CustomerCreated event are one   *)
(* transaction; two requests with one id meet at the primary key, where    *)
(* the second waits until the first one's transaction ends.                *)
(*                                                                         *)
(* An id the service makes up (uuid.NewString) is fresh for its request,   *)
(* so the request stands for it.                                           *)
(***************************************************************************)
EXTENDS Integers, Sequences, FiniteSets

CONSTANTS
  Request,      \* the POST /customers requests
  Named,        \* the ids a client can name
  NoId,         \* an empty customer_id, an empty body, no body
  Seeded,       \* the customers migration 001 inserts
  MaxOpenConns  \* size of the connection pool

CustomerId == Named \cup Request

ASSUME CustomerConstants ==
  /\ Named \cap Request = {} /\ NoId \notin CustomerId
  /\ Seeded \subseteq Named
  /\ MaxOpenConns \in Nat \ {0}

VARIABLES
  \* the tables, as committed
  customers,  \* customers.id
  outbox,     \* the CustomerCreated events, by customer, in commit order
  \* the server's side of each request's transaction
  srv,        \* "none", "open", "committing", "committed" or "aborted"
  inserted,   \* the rows of customers it inserted and has not committed
  events,     \* the events it inserted and has not committed
  \* the handler's side
  pc,         \* the statement it executes next
  body,       \* the customer_id of the request
  err,        \* the error the closure returned
  reply       \* the HTTP status sent, 0 before

tables  == <<customers, outbox>>
server  == <<srv, inserted, events>>
handler == <<pc, body, err, reply>>
vars    == <<tables, server, handler>>

\* Mutant: an empty id is not replaced.
IdOfUnset(r) == body[r]

IdOf(r) == IF body[r] = NoId THEN r ELSE body[r]

StatementSteps == {"create", "publish"}
TxSteps == StatementSteps \cup {"commit", "committing", "rollback"}

\* Mutant: Exec returns the closure's error without a Rollback, and the
\* connection never goes back to the pool.
ConnectionsLeaked == {r \in Request :
  pc[r] \in TxSteps \/ (pc[r] = "done" /\ srv[r] # "none" /\ err[r] # "none")}

Connections == {r \in Request : pc[r] \in TxSteps}

\* The server still holds the keys of a transaction it has not ended.
Live(r) == srv[r] \in {"open", "committing"}

KeyTaken(r) == \E q \in Request \ {r} : Live(q) /\ IdOf(r) \in inserted[q]

\* After a panic net/http closes the connection without an answer.
StatusOf(e) ==
  IF e = "none" THEN 201
  ELSE IF e = "ErrCustomerAlreadyExists" THEN 409
  ELSE IF e = "panic" THEN 0 ELSE 500

Init ==
  /\ customers = Seeded /\ outbox = <<>>
  /\ srv = [r \in Request |-> "none"]
  /\ inserted = [r \in Request |-> {}]
  /\ events = [r \in Request |-> <<>>]
  /\ pc = [r \in Request |-> "idle"]
  /\ body \in [Request -> Named \cup {NoId}]
  /\ err = [r \in Request |-> "none"]
  /\ reply = [r \in Request |-> 0]

Goto(r, step) == pc' = [pc EXCEPT ![r] = step]

Respond(r, e) ==
  /\ err' = [err EXCEPT ![r] = e]
  /\ reply' = [reply EXCEPT ![r] = StatusOf(e)]
  /\ Goto(r, "done")
  /\ UNCHANGED body

\* Mutant: the closure tries the failed statement again, inside its transaction.
FailRetry(r, e) == err' = [err EXCEPT ![r] = e] /\ UNCHANGED <<pc, body, reply>>

\* The closure returns e: Exec rolls back next.
Fail(r, e) ==
  /\ err' = [err EXCEPT ![r] = e]
  /\ Goto(r, "rollback")
  /\ UNCHANGED <<body, reply>>

Discard(r) ==
  /\ srv' = [srv EXCEPT ![r] = "aborted"]
  /\ inserted' = [inserted EXCEPT ![r] = {}]
  /\ events' = [events EXCEPT ![r] = <<>>]

(***************************************************************************)
(* The handler and the start of Exec.                                      *)
(***************************************************************************)
\* The body is not the JSON the handler accepts.
RejectBody(r) ==
  /\ pc[r] = "idle"
  /\ reply' = [reply EXCEPT ![r] = 400]
  /\ Goto(r, "done")
  /\ UNCHANGED <<tables, server, body, err>>

Receive(r) ==
  /\ pc[r] = "idle"
  /\ Goto(r, "begin")
  /\ UNCHANGED <<tables, server, body, err, reply>>

\* BeginTx waits for a connection of the pool.
Begin(r) ==
  /\ pc[r] = "begin"
  /\ Cardinality(Connections) < MaxOpenConns
  /\ srv' = [srv EXCEPT ![r] = "open"]
  /\ Goto(r, "create")
  /\ UNCHANGED <<tables, inserted, events, body, err, reply>>

BeginFails(r) ==
  /\ pc[r] = "begin"
  /\ Respond(r, "database")
  /\ UNCHANGED <<tables, server>>

(***************************************************************************)
(* The closure.                                                            *)
(***************************************************************************)
AtCreate(r) == pc[r] = "create" /\ srv[r] = "open"

\* Mutant: the event is published with the insert, on a connection of its own.
CreateAnnounced(r) ==
  /\ AtCreate(r) /\ ~KeyTaken(r) /\ IdOf(r) \notin customers
  /\ inserted' = [inserted EXCEPT ![r] = @ \cup {IdOf(r)}]
  /\ outbox' = Append(outbox, IdOf(r))
  /\ Goto(r, "commit")
  /\ UNCHANGED <<customers, srv, events, body, err, reply>>

\* INSERT INTO customers ... ON CONFLICT (id) DO NOTHING RETURNING true, once
\* no transaction in flight holds the key.
Create(r) ==
  /\ AtCreate(r) /\ ~KeyTaken(r) /\ IdOf(r) \notin customers
  /\ inserted' = [inserted EXCEPT ![r] = @ \cup {IdOf(r)}]
  /\ Goto(r, "publish")
  /\ UNCHANGED <<tables, srv, events, body, err, reply>>

\* Mutants: no "if !created"; the key of a request still in flight is refused
\* at once.
AlreadyExistsIgnored(r) ==
  /\ AtCreate(r) /\ IdOf(r) \in customers
  /\ Goto(r, "publish")
  /\ UNCHANGED <<tables, server, body, err, reply>>

AlreadyExistsEarly(r) ==
  /\ AtCreate(r) /\ (IdOf(r) \in customers \/ KeyTaken(r))
  /\ Fail(r, "ErrCustomerAlreadyExists")
  /\ UNCHANGED <<tables, server>>

\* No row came back: created is false.
AlreadyExists(r) ==
  /\ AtCreate(r) /\ IdOf(r) \in customers
  /\ Fail(r, "ErrCustomerAlreadyExists")
  /\ UNCHANGED <<tables, server>>

PublishCustomerCreated(r) ==
  /\ pc[r] = "publish" /\ srv[r] = "open"
  /\ events' = [events EXCEPT ![r] = Append(@, IdOf(r))]
  /\ Goto(r, "commit")
  /\ UNCHANGED <<tables, srv, inserted, body, err, reply>>

(***************************************************************************)
(* The end of Exec.                                                        *)
(***************************************************************************)
Commit(r) ==
  /\ pc[r] = "commit"
  /\ srv' = [srv EXCEPT ![r] = "committing"]
  /\ Goto(r, "committing")
  /\ UNCHANGED <<tables, inserted, events, body, err, reply>>

ServerCommits(r) ==
  /\ srv[r] = "committing"
  /\ srv' = [srv EXCEPT ![r] = "committed"]
  /\ customers' = customers \cup inserted[r]
  /\ outbox' = outbox \o events[r]
  /\ UNCHANGED <<inserted, events, handler>>

\* The server fails the commit, or ends a transaction whose client is gone.
ServerAborts(r) ==
  /\ srv[r] = "committing" \/ (srv[r] = "open" /\ pc[r] \in {"done", "gone"})
  /\ Discard(r)
  /\ UNCHANGED <<tables, handler>>

\* Mutant: Exec drops the error of Commit.
CommitReturnsUnchecked(r) ==
  /\ pc[r] = "committing" /\ ~Live(r)
  /\ Respond(r, "none")
  /\ UNCHANGED <<tables, server>>

CommitReturns(r) ==
  /\ pc[r] = "committing" /\ ~Live(r)
  /\ Respond(r, IF srv[r] = "committed" THEN "none" ELSE "database")
  /\ UNCHANGED <<tables, server>>

CommitReplyLost(r) ==
  /\ pc[r] = "committing"
  /\ Respond(r, "database")
  /\ UNCHANGED <<tables, server>>

Rollback(r) ==
  /\ pc[r] = "rollback"
  /\ Discard(r)
  /\ Respond(r, err[r])
  /\ UNCHANGED tables

\* ROLLBACK cannot be sent: the server keeps the key until it notices.
RollbackLost(r) ==
  /\ pc[r] = "rollback"
  /\ Respond(r, err[r])
  /\ UNCHANGED <<tables, server>>

(***************************************************************************)
(* Failures.                                                               *)
(***************************************************************************)
\* A statement fails in the server, which aborts the transaction.
StatementFails(r) ==
  /\ pc[r] \in StatementSteps /\ srv[r] = "open"
  /\ Discard(r)
  /\ Fail(r, "database")
  /\ UNCHANGED tables

\* The connection breaks under a statement; the server does not know yet.
StatementLost(r) ==
  /\ pc[r] \in StatementSteps
  /\ Fail(r, "database")
  /\ UNCHANGED <<tables, server>>

\* The closure panics: Exec's deferred function rolls back and panics again.
Panics(r) ==
  /\ pc[r] \in StatementSteps
  /\ Fail(r, "panic")
  /\ UNCHANGED <<tables, server>>

\* The order-service process dies: every request in flight loses its handler.
Crash ==
  /\ \E r \in Request : pc[r] \in TxSteps \cup {"begin"}
  /\ pc' = [r \in Request |->
       IF pc[r] \in TxSteps \cup {"begin"} THEN "gone" ELSE pc[r]]
  /\ UNCHANGED <<tables, server, body, err, reply>>

(***************************************************************************)
(* The specification.                                                      *)
(***************************************************************************)
HandlerStep(r) ==
  \/ Begin(r) \/ Create(r) \/ AlreadyExists(r) \/ PublishCustomerCreated(r)
  \/ Commit(r) \/ CommitReturns(r) \/ Rollback(r)

ServerStep(r) == ServerCommits(r) \/ ServerAborts(r)

Failure(r) ==
  \/ BeginFails(r) \/ StatementFails(r) \/ StatementLost(r) \/ Panics(r)
  \/ CommitReplyLost(r) \/ RollbackLost(r)

\* Every request has been answered or lost, and no transaction is left.
Finished ==
  /\ \A r \in Request : pc[r] \in {"done", "gone"} /\ ~Live(r)
  /\ UNCHANGED vars

Next ==
  \/ \E r \in Request :
       RejectBody(r) \/ Receive(r) \/ HandlerStep(r) \/ ServerStep(r) \/ Failure(r)
  \/ Crash
  \/ Finished

Spec == Init /\ [][Next]_vars

\* A handler that has begun keeps running; PostgreSQL answers a COMMIT and ends
\* the transactions of lost connections.
Fairness == \A r \in Request : WF_vars(HandlerStep(r)) /\ WF_vars(ServerStep(r))

FairSpec == Spec /\ Fairness

(***************************************************************************)
(* Properties.                                                             *)
(***************************************************************************)
Statuses == {0, 201, 400, 409, 500}

\* What each variable may hold.
VarsOK ==
  /\ customers \subseteq CustomerId
  /\ outbox \in Seq(CustomerId)
  /\ srv \in [Request -> {"none", "open", "committing", "committed", "aborted"}]
  /\ inserted \in [Request -> SUBSET CustomerId]
  /\ events \in [Request -> Seq(CustomerId)]
  /\ pc \in [Request -> TxSteps \cup {"idle", "begin", "done", "gone"}]
  /\ body \in [Request -> Named \cup {NoId}]
  /\ err \in [Request -> {"none", "ErrCustomerAlreadyExists", "database", "panic"}]
  /\ reply \in [Request -> Statuses]

\* The pool hands out no more connections than it may open.
PoolOK == IsFiniteSet(Connections) /\ Cardinality(Connections) <= MaxOpenConns

\* Every variable keeps its type, and the pool its bound.
TypeOK == VarsOK /\ PoolOK

\* A customer and its announcement are one: every customer the service has
\* registered has exactly one CustomerCreated event, and no other id has any,
\* whatever is lost, rolled back or raced for.
AnnouncedOnce ==
  /\ {outbox[i] : i \in DOMAIN outbox} = customers \ Seeded
  /\ \A i, j \in DOMAIN outbox : outbox[i] = outbox[j] => i = j

\* 201 is sent to the one request that registered the customer and only once
\* that is durable, so of two clients that race for an id at most one is told
\* it is theirs, and nobody is told so of a seeded customer.
CreatedIsOwned == \A r \in Request : reply[r] = 201 =>
  /\ IdOf(r) \in customers \ Seeded
  /\ \A q \in Request \ {r} : IdOf(q) = IdOf(r) => srv[q] # "committed"

\* 409 is only sent for a customer that exists for good: a registration still
\* in flight, which may roll back, refuses nobody.
ConflictIsReal == \A r \in Request : reply[r] = 409 => IdOf(r) \in customers

\* What the ledger of the order service sees of it.
NoStock == [s \in {} |-> 0]

Announcements == [i \in 1..Len(outbox) |->
  [type |-> "CustomerCreated", aggregate |-> outbox[i], customer |-> outbox[i],
   total |-> 0]]

Ledger == INSTANCE OrderLedger WITH
  Sku <- {}, Customer <- CustomerId, OrderId <- {}, InitStock <- NoStock,
  InitCustomers <- Seeded, stock <- NoStock, placed <- {},
  announced <- Announcements

\* Refinement: a registration is the ledger's Register, taken when its COMMIT
\* takes effect; OrderService relies on this for its RegisterCustomer.
LedgerSpec == Ledger!Spec

\* Every registration the handler starts on comes to its end unless the process
\* dies: waiting for a key or for a connection is never for ever.
EveryRegistrationAnswered ==
  []<>(\A r \in Request : pc[r] \in {"idle", "done", "gone"})

\* No key stays taken by a transaction that nobody will end.
KeysReleased == []<>(\A r \in Request : ~Live(r))
=============================================================================
