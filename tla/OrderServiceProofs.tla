------------------------- MODULE OrderServiceProofs -------------------------
(***************************************************************************)
(* What holds of OrderService for every set of requests, every catalogue,  *)
(* every price and every pool size, with proofs TLAPS checks.              *)
(*                                                                         *)
(* TypeOK and NoOversell are not inductive by themselves: that the stock   *)
(* stays in Nat rests on the row locks, the locks on the server's view of  *)
(* each transaction, and that on where its handler is.  IInv puts these    *)
(* together, and from it OrderService implements OrderLedger.              *)
(***************************************************************************)
EXTENDS OrderService, TLAPS

\* Where the handler is and what the server thinks of its transaction.
SessionOK(r) ==
  /\ pc[r] \in {"idle", "begin"} => srv[r] = "none"
  /\ pc[r] \in StatementSteps \cup {"commit"} => srv[r] = "open"
  /\ pc[r] = "rollback" => srv[r] \in {"open", "aborted"}
  /\ pc[r] = "committing" => srv[r] \in {"committing", "committed", "aborted"}
  /\ srv[r] = "none" => reserved[r] = Nothing /\ writes[r] = NoWrites

\* How far the closure has come with the items of its command.
ProgressOK(r) ==
  /\ pc[r] \in {"idle", "begin"} => lines[r] = <<>>
  /\ pc[r] \notin {"idle", "done"} => cmd[r].customer \in Customer
  /\ pc[r] = "begin" => Len(cmd[r].items) > 0
  /\ pc[r] = "reserve" => Len(lines[r]) < Len(cmd[r].items)
  /\ pc[r] = "create" => Len(lines[r]) > 0
  /\ pc[r] = "items" => Len(writes[r].items) < Len(lines[r])

\* What the transaction has written, and will make visible if it commits.
WritesOK(r) ==
  /\ pc[r] \in {"reserve", "create"} => writes[r] = NoWrites
  /\ pc[r] \in {"items", "publish", "commit"} \/ srv[r] = "committing" =>
       writes[r].orders = {OrderRow(r)} /\ cmd[r].customer \in customers
  /\ pc[r] \in {"items", "publish"} => writes[r].events = <<>>
  /\ pc[r] = "commit" \/ srv[r] = "committing" =>
       writes[r].events = <<OrderCreated(r)>>
  /\ srv[r] = "committed" => cmd[r].customer \in Customer

\* What the client has been told.
AnswerOK(r) ==
  /\ reply[r] # 0 => pc[r] = "done"
  /\ pc[r] = "rollback" => err[r] # "none"
  /\ srv[r] \in {"committing", "committed"} => pc[r] \in {"committing", "done", "gone"}
  /\ reply[r] = 201 => Committed(r)
  /\ reply[r] \in {400, 409} => srv[r] \notin {"committing", "committed"}

RequestOK(r) == SessionOK(r) /\ ProgressOK(r) /\ WritesOK(r) /\ AnswerOK(r)

IInv ==
  /\ TypeOK
  /\ NoOversell
  /\ \A r \in Request : RequestOK(r)

(***************************************************************************)
(* Facts about the operators.                                              *)
(***************************************************************************)
\* Every error has a status of its own class, or none; no error is a success.
LEMMA StatusType ==
  ASSUME NEW e \in Errors
  PROVE  StatusOf(e) \in {0, 400, 409, 500}
  BY DEF StatusOf

\* The customer and the items of a body have the types the constants promise.
LEMMA CommandType ==
  ASSUME NEW c \in Command
  PROVE  /\ c.customer \in Customer \cup {NoCustomer}
         /\ c.items \in Seq(Item)
  BY ConstantsOK

\* What validation lets through has a customer and at least one item.
LEMMA ValidationPasses ==
  ASSUME NEW c \in Command, Validation(c) = "none"
  PROVE  c.customer \in Customer /\ Len(c.items) > 0
  <1>1. c.customer # NoCustomer /\ Len(c.items) # 0
    BY DEF Validation
  <1>2. Len(c.items) \in Nat
    BY CommandType
  <1> QED
    BY <1>1, <1>2, CommandType

\* Nothing is a quantity of every SKU, and an empty write set is a write set.
LEMMA EmptyTypes == Nothing \in [Sku -> Nat] /\ NoWrites \in WriteSet
  BY DEF Nothing, NoWrites, WriteSet

\* The step after a Reserve reads an item that is there.
LEMMA ItemType ==
  ASSUME TypeOK, NEW r \in Request, RequestOK(r), pc[r] = "reserve"
  PROVE  NextItem(r) \in Item
  <1>1. cmd[r] \in Command /\ lines[r] \in Seq(Line)
    BY DEF TypeOK
  <1>2. cmd[r].items \in Seq(Item)
    BY <1>1, CommandType
  <1>3. Len(lines[r]) + 1 \in 1..Len(cmd[r].items)
    BY <1>1, <1>2 DEF RequestOK, ProgressOK
  <1> QED
    BY <1>2, <1>3 DEF NextItem

\* A handler that gives up leaves well-typed state.
LEMMA FailType ==
  ASSUME TypeOK, NEW r \in Request, NEW e \in Errors, Fail(r, e)
  PROVE  /\ pc' \in [Request -> Steps]
         /\ err' \in [Request -> Errors]
  BY DEF TypeOK, Fail, Goto, Steps, TxSteps

\* So does a handler that answers.
LEMMA RespondType ==
  ASSUME TypeOK, NEW r \in Request, NEW e \in Errors, Respond(r, e)
  PROVE  /\ pc' \in [Request -> Steps]
         /\ err' \in [Request -> Errors]
         /\ reply' \in [Request -> {0, 201, 400, 409, 500}]
  BY StatusType DEF TypeOK, Respond, Goto, Steps

\* The status sent tells success from failure.
LEMMA RespondEffect ==
  ASSUME TypeOK, NEW r \in Request, NEW e \in Errors, Respond(r, e)
  PROVE  /\ pc'[r] = "done"
         /\ e = "none" => reply'[r] = 201
         /\ e # "none" => reply'[r] \in {0, 400, 409, 500}
  BY StatusType DEF TypeOK, Respond, Goto

\* And a server that forgets a transaction.
LEMMA DiscardType ==
  ASSUME TypeOK, NEW r \in Request, Discard(r)
  PROVE  /\ srv' \in [Request -> {"none", "open", "committing", "committed", "aborted"}]
         /\ writes' \in [Request -> WriteSet]
         /\ reserved' \in [Request -> [Sku -> Nat]]
  BY EmptyTypes DEF TypeOK, Discard

(***************************************************************************)
(* Types.                                                                  *)
(***************************************************************************)
LEMMA TypeInit == Init => TypeOK
  BY ConstantsOK, EmptyTypes DEF Init, TypeOK, Steps, Errors

LEMMA TypeStep ==
  ASSUME IInv, [Next]_vars
  PROVE  TypeOK'
  <1> USE DEF IInv
  <1>1. TypeOK
    OBVIOUS
  <1>2. ASSUME NEW r \in Request, RejectBody(r)
        PROVE  TypeOK'
    BY <1>1, <1>2 DEF RejectBody, TypeOK, Goto, tables, server, Steps
  <1>3. ASSUME NEW r \in Request, Receive(r)
        PROVE  TypeOK'
    <2>1. Validation(cmd[r]) \in Errors
      BY DEF Validation, Errors, ClientErrors
    <2>2. CASE Validation(cmd[r]) = "none"
      <3>1. Goto(r, "begin") /\ UNCHANGED <<tables, server, cmd, lines, total, err, reply>>
        BY <1>3, <2>2 DEF Receive
      <3> QED
        BY <1>1, <3>1 DEF TypeOK, Goto, tables, server, Steps
    <2>3. CASE Validation(cmd[r]) # "none"
      BY <1>1, <1>3, <2>1, <2>3, RespondType DEF Receive, TypeOK, tables, server
    <2> QED
      BY <2>2, <2>3
  <1>4. ASSUME NEW r \in Request, Begin(r)
        PROVE  TypeOK'
    BY <1>1, <1>4 DEF Begin, TypeOK, Goto, tables, Steps, TxSteps, StatementSteps
  <1>5. ASSUME NEW r \in Request, BeginFails(r)
        PROVE  TypeOK'
    <2>1. "database" \in Errors
      BY DEF Errors
    <2> QED
      BY <1>1, <1>5, <2>1, RespondType DEF BeginFails, TypeOK, tables, server
  <1>6. ASSUME NEW r \in Request, Reserve(r)
        PROVE  TypeOK'
    <2> DEFINE i == NextItem(r)
    <2>1. i \in Item /\ i.qty \in Nat /\ i.sku \in Sku
      BY <1>1, <1>6, ItemType DEF Reserve, AtItem, Representable, Available, Item
    <2>2. Price[i.sku] \in Nat
      BY <2>1, ConstantsOK
    <2>3. [sku |-> i.sku, qty |-> i.qty, price |-> Price[i.sku]] \in Line
      BY <2>1, <2>2 DEF Line
    <2>4. Price[i.sku] * i.qty \in Nat
      BY <2>1, <2>2
    <2>5. lines' \in [Request -> Seq(Line)]
      BY <1>1, <1>6, <2>3 DEF Reserve, TypeOK
    <2>6. reserved' \in [Request -> [Sku -> Nat]]
      BY <1>1, <1>6, <2>1 DEF Reserve, TypeOK
    <2>7. total' \in [Request -> Nat]
      BY <1>1, <1>6, <2>4 DEF Reserve, TypeOK
    <2>8. pc' \in [Request -> Steps]
      BY <1>1, <1>6 DEF Reserve, TypeOK, Goto, Steps, TxSteps, StatementSteps
    <2> QED
      BY <1>1, <1>6, <2>5, <2>6, <2>7, <2>8 DEF Reserve, TypeOK, tables
  <1>7. ASSUME NEW r \in Request, ReserveInvalid(r) \/ ReserveInsufficient(r)
        PROVE  TypeOK'
    <2>1. {"ErrInvalidQuantity", "ErrInsufficientInventory"} \subseteq Errors
      BY DEF Errors, ClientErrors
    <2>2. PICK e \in Errors : Fail(r, e) /\ UNCHANGED <<tables, server>>
      BY <1>7, <2>1 DEF ReserveInvalid, ReserveInsufficient
    <2> QED
      BY <1>1, <2>2, FailType DEF TypeOK, tables, server, Fail
  <1>8. ASSUME NEW r \in Request, ServerRefuses(r)
        PROVE  TypeOK'
    <2>1. "database" \in Errors
      BY DEF Errors
    <2>2. /\ pc' \in [Request -> Steps]
          /\ err' \in [Request -> Errors]
      BY <1>1, <1>8, <2>1, FailType DEF ServerRefuses
    <2> QED
      BY <1>1, <1>8, <2>2, DiscardType DEF ServerRefuses, TypeOK, tables, Fail
  <1>9. ASSUME NEW r \in Request, CreateOrder(r)
        PROVE  TypeOK'
    <2>1. OrderRow(r) \in Row
      BY <1>1, <1>9 DEF TypeOK, CreateOrder, CanInsertOrder, OrderRow, Row
    <2>2. writes' \in [Request -> WriteSet]
      BY <1>1, <1>9, <2>1 DEF TypeOK, CreateOrder, Write, WriteSet
    <2> QED
      BY <1>1, <1>9, <2>2 DEF TypeOK, CreateOrder, Goto, Steps, TxSteps, StatementSteps, tables
  <1>10. ASSUME NEW r \in Request, CreateItem(r)
         PROVE  TypeOK'
    <2>1. NextLine(r) \in Line
      BY <1>1, <1>10 DEF TypeOK, CreateItem, NextLine, WriteSet, RequestOK, ProgressOK
    <2>2. writes' \in [Request -> WriteSet]
      BY <1>1, <1>10, <2>1 DEF TypeOK, CreateItem, Write, WriteSet
    <2> QED
      BY <1>1, <1>10, <2>2 DEF TypeOK, CreateItem, Goto, Steps, TxSteps, StatementSteps, tables
  <1>11. ASSUME NEW r \in Request, PublishOrderCreated(r)
         PROVE  TypeOK'
    <2>1. OrderCreated(r) \in Event
      BY <1>1, <1>11 DEF TypeOK, PublishOrderCreated, OrderCreated, Event, RequestOK, WritesOK
    <2>2. writes' \in [Request -> WriteSet]
      BY <1>1, <1>11, <2>1 DEF TypeOK, PublishOrderCreated, Write, WriteSet
    <2> QED
      BY <1>1, <1>11, <2>2 DEF TypeOK, PublishOrderCreated, Goto, Steps, TxSteps, tables
  <1>12. ASSUME NEW r \in Request, Commit(r)
         PROVE  TypeOK'
    BY <1>1, <1>12 DEF TypeOK, Commit, Goto, Steps, TxSteps, tables
  <1>13. ASSUME NEW r \in Request, CommitReturns(r) \/ CommitReplyLost(r)
         PROVE  TypeOK'
    <2>1. {"none", "database"} \subseteq Errors
      BY DEF Errors
    <2>2. PICK e \in Errors : Respond(r, e) /\ UNCHANGED <<tables, server, cmd, lines, total>>
      BY <1>13, <2>1 DEF CommitReturns, CommitReplyLost
    <2> QED
      BY <1>1, <2>2, RespondType DEF TypeOK, tables, server
  <1>14. ASSUME NEW r \in Request, Rollback(r) \/ RollbackLost(r)
         PROVE  TypeOK'
    <2>1. err[r] \in Errors
      BY <1>1 DEF TypeOK
    <2>2. Respond(r, err[r]) /\ UNCHANGED <<tables, cmd, lines, total>>
      BY <1>14 DEF Rollback, RollbackLost
    <2>3. /\ pc' \in [Request -> Steps] /\ err' \in [Request -> Errors]
          /\ reply' \in [Request -> {0, 201, 400, 409, 500}]
      BY <1>1, <2>1, <2>2, RespondType
    <2>4. CASE Rollback(r)
      <3>1. Discard(r)
        BY <2>4 DEF Rollback
      <3> QED
        BY <1>1, <2>3, <3>1, DiscardType, <2>2 DEF TypeOK, tables
    <2>5. CASE RollbackLost(r)
      <3>1. server' = server
        BY <2>5 DEF RollbackLost
      <3> QED
        BY <1>1, <2>3, <3>1, <2>2 DEF TypeOK, tables, server
    <2> QED
      BY <1>14, <2>4, <2>5
  <1>15. ASSUME NEW r \in Request, ServerCommits(r)
         PROVE  TypeOK'
    <2>1. ASSUME NEW s \in Sku
          PROVE  stock[s] - reserved[r][s] \in Nat
      <3>1. stock[s] \in Nat /\ reserved[r][s] \in Nat
        BY <1>1 DEF TypeOK
      <3>2. reserved[r][s] > 0 => reserved[r][s] <= stock[s]
        BY <1>15 DEF ServerCommits, NoOversell, Locks, Live
      <3> QED
        BY <3>1, <3>2
    <2>2. stock' \in [Sku -> Nat]
      BY <1>15, <2>1 DEF ServerCommits
    <2>3. writes[r] \in WriteSet
      BY <1>1 DEF TypeOK
    <2>4. orders' \subseteq Row /\ orderItems' \in [Request -> Seq(Line)] /\ outbox' \in Seq(Event)
      BY <1>1, <1>15, <2>3 DEF ServerCommits, TypeOK, WriteSet
    <2>5. writes' \in [Request -> WriteSet]
      BY <1>1, <1>15, EmptyTypes DEF ServerCommits, TypeOK
    <2> QED
      BY <1>1, <1>15, <2>2, <2>4, <2>5 DEF ServerCommits, TypeOK, handler
  <1>16. ASSUME NEW r \in Request, ServerAborts(r)
         PROVE  TypeOK'
    BY <1>1, <1>16, DiscardType DEF ServerAborts, TypeOK, tables, handler
  <1>17. ASSUME NEW r \in Request, StatementLost(r) \/ Panics(r)
         PROVE  TypeOK'
    <2>1. PICK e \in Errors : Fail(r, e) /\ UNCHANGED <<tables, server>>
      BY <1>17 DEF StatementLost, Panics, Errors
    <2> QED
      BY <1>1, <2>1, FailType DEF TypeOK, tables, server, Fail
  <1>18. ASSUME Crash
         PROVE  TypeOK'
    BY <1>1, <1>18 DEF Crash, TypeOK, tables, server, Steps, TxSteps
  <1>19. ASSUME NEW c \in Customer, RegisterCustomer(c)
         PROVE  TypeOK'
    <2>1. CustomerCreated(c) \in Event
      BY DEF CustomerCreated, Event
    <2> QED
      BY <1>1, <1>19, <2>1 DEF RegisterCustomer, TypeOK, server, handler
  <1>20. ASSUME UNCHANGED vars
         PROVE  TypeOK'
    BY <1>1, <1>20 DEF TypeOK, vars, tables, server, handler
  <1> QED
    BY <1>2, <1>3, <1>4, <1>5, <1>6, <1>7, <1>8, <1>9, <1>10, <1>11, <1>12, <1>13,
       <1>14, <1>15, <1>16, <1>17, <1>18, <1>19, <1>20
       DEF Next, HandlerStep, ServerStep, Failure, Finished, ReserveOutOfRange,
           CreateOrderRefused, StatementFails, DeadlockDetected

(***************************************************************************)
(* A step is a step of one request, or of nobody.                          *)
(***************************************************************************)
StepOf(r) ==
  \/ RejectBody(r) \/ Receive(r) \/ Begin(r) \/ BeginFails(r)
  \/ Reserve(r) \/ ReserveInvalid(r) \/ ReserveInsufficient(r)
  \/ pc[r] \in StatementSteps /\ ServerRefuses(r)
  \/ CreateOrder(r) \/ CreateItem(r) \/ PublishOrderCreated(r)
  \/ Commit(r) \/ CommitReturns(r) \/ CommitReplyLost(r)
  \/ Rollback(r) \/ RollbackLost(r)
  \/ ServerCommits(r) \/ ServerAborts(r) \/ StatementLost(r) \/ Panics(r)

\* Statements that fail, for whatever reason, are one case.
LEMMA StepCases ==
  ASSUME [Next]_vars
  PROVE  \/ \E r \in Request : StepOf(r)
         \/ Crash
         \/ \E c \in Customer : RegisterCustomer(c)
         \/ UNCHANGED vars
  <1>1. ASSUME NEW r \in Request,
               \/ ReserveOutOfRange(r) \/ CreateOrderRefused(r)
               \/ StatementFails(r) \/ DeadlockDetected(r)
        PROVE  StepOf(r)
    BY <1>1 DEF StepOf, ReserveOutOfRange, CreateOrderRefused, StatementFails,
                DeadlockDetected, AtItem, StatementSteps
  <1> QED
    BY <1>1 DEF Next, HandlerStep, ServerStep, Failure, Finished, StepOf

Untouched(q) ==
  /\ pc'[q] = pc[q] /\ srv'[q] = srv[q] /\ writes'[q] = writes[q]
  /\ reserved'[q] = reserved[q] /\ cmd'[q] = cmd[q] /\ lines'[q] = lines[q]
  /\ total'[q] = total[q] /\ err'[q] = err[q] /\ reply'[q] = reply[q]

\* A request's step leaves the handlers and transactions of the others alone,
\* and customers are never removed.
LEMMA Local ==
  ASSUME TypeOK, NEW r \in Request, StepOf(r)
  PROVE  /\ \A q \in Request \ {r} : Untouched(q)
         /\ customers' = customers
  BY DEF TypeOK, StepOf, Untouched, RejectBody, Receive, Begin, BeginFails,
         Reserve, ReserveInvalid, ReserveInsufficient, ServerRefuses, CreateOrder,
         CreateItem, PublishOrderCreated, Commit, CommitReturns, CommitReplyLost,
         Rollback, RollbackLost, ServerCommits, ServerAborts, StatementLost, Panics,
         Respond, Fail, Discard, Write, Goto, tables, server, handler

\* What is known of a request survives the steps of the others.
LEMMA Frame ==
  ASSUME NEW q \in Request, RequestOK(q), Untouched(q), customers \subseteq customers'
  PROVE  RequestOK(q)'
  BY DEF RequestOK, SessionOK, ProgressOK, WritesOK, AnswerOK, Untouched,
         OrderRow, OrderCreated, Committed
\* What is known of a request survives its own steps.
LEMMA RequestStep ==
  ASSUME IInv, NEW r \in Request, StepOf(r)
  PROVE  RequestOK(r)'
  <1> USE DEF RequestOK, SessionOK, ProgressOK, WritesOK, AnswerOK, OrderRow,
              OrderCreated, Committed, StatementSteps, tables, server, handler
  <1>1. TypeOK /\ RequestOK(r)
    BY DEF IInv
  <1>2. CASE RejectBody(r)
    BY <1>1, <1>2, StatusType, CommandType DEF TypeOK, RejectBody, Goto
  <1>3. CASE Receive(r)
    <2>1. cmd[r] \in Command /\ pc[r] = "idle" /\ srv[r] = "none"
      BY <1>1, <1>3 DEF TypeOK, Receive
    <2>2. CASE Validation(cmd[r]) = "none"
      BY <1>1, <1>3, <2>1, <2>2, ValidationPasses DEF TypeOK, Receive, Goto
    <2>3. CASE Validation(cmd[r]) # "none"
      <3>1. Validation(cmd[r]) \in Errors /\ Respond(r, Validation(cmd[r]))
        BY <1>3, <2>3 DEF Receive, Validation, Errors, ClientErrors
      <3>2. pc'[r] = "done" /\ reply'[r] \in {0, 400, 409, 500}
        BY <1>1, <2>3, <3>1, RespondEffect
      <3> QED
        BY <1>1, <1>3, <2>1, <3>2 DEF TypeOK, Receive
    <2> QED
      BY <2>2, <2>3
  <1>4. CASE Begin(r)
    BY <1>1, <1>4, StatusType, CommandType DEF TypeOK, Begin, Goto
  <1>5. CASE BeginFails(r)
    <2>1. pc'[r] = "done" /\ reply'[r] \in {0, 400, 409, 500}
      BY <1>1, <1>5, RespondEffect DEF BeginFails, Errors
    <2> QED
      BY <1>1, <1>5, <2>1 DEF TypeOK, BeginFails
  <1>6. CASE Reserve(r)
    BY <1>1, <1>6, StatusType, CommandType DEF TypeOK, Reserve, AtItem, Goto
  <1>7. CASE ReserveInvalid(r) \/ ReserveInsufficient(r) \/ StatementLost(r) \/ Panics(r)
    BY <1>1, <1>7, StatusType, CommandType DEF TypeOK, ReserveInvalid,
       ReserveInsufficient, StatementLost, Panics, AtItem, Fail, Goto
  <1>8. CASE pc[r] \in StatementSteps /\ ServerRefuses(r)
    BY <1>1, <1>8, StatusType, CommandType DEF TypeOK, ServerRefuses, Discard, Fail, Goto
  <1>9. CASE CreateOrder(r)
    <2>1. /\ writes[r] = NoWrites /\ pc[r] = "create" /\ srv[r] = "open"
          /\ cmd[r].customer \in customers /\ reply[r] = 0 /\ Len(lines[r]) > 0
      BY <1>1, <1>9 DEF CreateOrder, CanInsertOrder, TypeOK
    <2>2. writes'[r] = [orders |-> {OrderRow(r)}, items |-> <<>>, events |-> <<>>]
      BY <1>1, <1>9, <2>1 DEF CreateOrder, Write, TypeOK, NoWrites
    <2> QED
      BY <1>1, <1>9, <2>1, <2>2 DEF TypeOK, CreateOrder, Goto
  <1>10. CASE CreateItem(r)
    BY <1>1, <1>10, StatusType, CommandType DEF TypeOK, CreateItem, Write, Goto
  <1>11. CASE PublishOrderCreated(r)
    <2>1. /\ pc[r] = "publish" /\ srv[r] = "open" /\ reply[r] = 0
          /\ writes[r].events = <<>> /\ writes[r].orders = {OrderRow(r)}
      BY <1>1, <1>11 DEF PublishOrderCreated, TypeOK
    <2>2. writes'[r] = [orders |-> {OrderRow(r)}, items |-> writes[r].items,
                        events |-> <<OrderCreated(r)>>]
      BY <1>1, <1>11, <2>1 DEF PublishOrderCreated, Write, TypeOK
    <2> QED
      BY <1>1, <1>11, <2>1, <2>2 DEF TypeOK, PublishOrderCreated, Goto
  <1>12. CASE Commit(r)
    BY <1>1, <1>12, StatusType, CommandType DEF TypeOK, Commit, Goto
  <1>13. CASE CommitReturns(r) \/ CommitReplyLost(r)
    <2>1. PICK e \in Errors : /\ Respond(r, e) /\ UNCHANGED <<tables, server, cmd, lines, total>>
                              /\ e = "none" => srv[r] = "committed"
                              /\ e \notin ClientErrors
                              /\ e \notin {"ErrInsufficientInventory", "panic"}
      BY <1>13 DEF CommitReturns, CommitReplyLost, Errors, ClientErrors
    <2>2. pc'[r] = "done" /\ reply'[r] \in {201, 500} /\ (reply'[r] = 201 => e = "none")
      BY <1>1, <2>1 DEF Respond, StatusOf, TypeOK, Goto
    <2> QED
      BY <1>1, <1>13, <2>1, <2>2 DEF TypeOK, CommitReturns, CommitReplyLost
  <1>14. CASE Rollback(r)
    <2>1. pc'[r] = "done" /\ reply'[r] \in {0, 400, 409, 500}
      BY <1>1, <1>14, RespondEffect DEF Rollback, TypeOK
    <2> QED
      BY <1>1, <1>14, <2>1 DEF TypeOK, Rollback, Discard
  <1>15. CASE RollbackLost(r)
    <2>1. pc'[r] = "done" /\ reply'[r] \in {0, 400, 409, 500}
      BY <1>1, <1>15, RespondEffect DEF RollbackLost, TypeOK
    <2> QED
      BY <1>1, <1>15, <2>1 DEF TypeOK, RollbackLost
  <1>16. CASE ServerCommits(r)
    BY <1>1, <1>16, StatusType, CommandType DEF TypeOK, ServerCommits
  <1>17. CASE ServerAborts(r)
    BY <1>1, <1>17, StatusType, CommandType DEF TypeOK, ServerAborts, Discard
  <1> QED
    BY <1>2, <1>3, <1>4, <1>5, <1>6, <1>7, <1>8, <1>9, <1>10, <1>11,
       <1>12, <1>13, <1>14, <1>15, <1>16, <1>17 DEF StepOf

(***************************************************************************)
(* Row locks and stock.                                                    *)
(***************************************************************************)
\* A step that only gives locks back, and takes nothing out of the stock,
\* cannot oversell.
LEMMA FewerLocks ==
  ASSUME NoOversell, stock' = stock,
         \A q \in Request, s \in Sku :
           Locks(q, s)' => Locks(q, s) /\ reserved'[q][s] = reserved[q][s]
  PROVE  NoOversell'
  BY DEF NoOversell, LockedByOther

\* An UPDATE takes a row nobody else holds, and no more than is visible in it.
LEMMA ReserveCovered ==
  ASSUME IInv, NEW r \in Request, Reserve(r)
  PROVE  NoOversell'
  <1> DEFINE i == NextItem(r)
  <1>1. TypeOK /\ NoOversell /\ RequestOK(r) /\ pc[r] = "reserve"
    BY DEF IInv, Reserve, AtItem
  <1>2. i.sku \in Sku /\ i.qty \in Nat
    BY <1>1, ItemType DEF Reserve, Representable, Available, Item
  <1>3. /\ stock' = stock /\ srv' = srv
        /\ reserved' = [reserved EXCEPT ![r][i.sku] = @ + i.qty]
    BY DEF Reserve, tables
  <1>4. /\ ~LockedByOther(r, i.sku)
        /\ stock[i.sku] - reserved[r][i.sku] >= i.qty
    BY DEF Reserve, Available, Visible
  <1>5. \A q \in Request, s \in Sku :
          q # r \/ s # i.sku => reserved'[q][s] = reserved[q][s]
    BY <1>1, <1>3 DEF TypeOK
  <1>6. reserved'[r][i.sku] = reserved[r][i.sku] + i.qty
    BY <1>1, <1>2, <1>3 DEF TypeOK
  <1>7. ASSUME NEW q \in Request, NEW s \in Sku, Locks(q, s)'
        PROVE  reserved'[q][s] <= stock'[s] /\ ~LockedByOther(q, s)'
    <2>1. CASE s # i.sku
      BY <1>1, <1>3, <1>5, <1>7, <2>1 DEF NoOversell, Locks, Live, LockedByOther
    <2>2. CASE s = i.sku /\ q = r
      <3>1. stock[s] \in Nat /\ reserved[r][s] \in Nat
        BY <1>1 DEF TypeOK
      <3>2. reserved'[q][s] <= stock'[s]
        BY <1>2, <1>3, <1>4, <1>6, <2>2, <3>1
      <3>3. ~LockedByOther(q, s)'
        BY <1>3, <1>4, <1>5, <2>2 DEF LockedByOther, Locks, Live
      <3> QED
        BY <3>2, <3>3
    <2>3. CASE s = i.sku /\ q # r
      BY <1>3, <1>4, <1>5, <1>7, <2>3 DEF LockedByOther, Locks, Live
    <2> QED
      BY <2>1, <2>2, <2>3
  <1> QED
    BY <1>7 DEF NoOversell

\* A commit takes from a row only what its transaction had locked there, so
\* the rows the others hold keep their stock.
LEMMA CommitCovered ==
  ASSUME IInv, NEW r \in Request, ServerCommits(r)
  PROVE  NoOversell'
  <1>1. TypeOK /\ NoOversell /\ srv[r] = "committing"
    BY DEF IInv, ServerCommits
  <1>2. /\ reserved' = reserved
        /\ srv' = [srv EXCEPT ![r] = "committed"]
        /\ stock' = [s \in Sku |-> stock[s] - reserved[r][s]]
    BY DEF ServerCommits
  <1>3. ASSUME NEW q \in Request, NEW s \in Sku, Locks(q, s)'
        PROVE  reserved'[q][s] <= stock'[s] /\ ~LockedByOther(q, s)'
    <2>1. q # r /\ Locks(q, s)
      BY <1>1, <1>2, <1>3 DEF Locks, Live, TypeOK
    <2>2. reserved[q][s] <= stock[s] /\ ~LockedByOther(q, s)
      BY <1>1, <2>1 DEF NoOversell
    <2>3. reserved[r][s] \in Nat /\ stock[s] \in Nat
      BY <1>1 DEF TypeOK
    <2>4. reserved[r][s] = 0
      BY <1>1, <2>1, <2>2, <2>3 DEF LockedByOther, Locks, Live
    <2>5. stock'[s] = stock[s]
      BY <1>2, <2>3, <2>4
    <2>6. ~LockedByOther(q, s)'
      BY <1>1, <1>2, <2>2 DEF LockedByOther, Locks, Live, TypeOK
    <2> QED
      BY <1>2, <2>2, <2>5, <2>6
  <1> QED
    BY <1>3 DEF NoOversell

LEMMA OversellStep ==
  ASSUME IInv, [Next]_vars
  PROVE  NoOversell'
  <1>1. TypeOK /\ NoOversell /\ \A q \in Request : RequestOK(q)
    BY DEF IInv
  <1>2. ASSUME stock' = stock, reserved' = reserved, srv' = srv
        PROVE  NoOversell'
    BY <1>1, <1>2, FewerLocks DEF Locks, Live
  <1>3. ASSUME NEW r \in Request, Begin(r) \/ Commit(r)
        PROVE  NoOversell'
    <2>1. stock' = stock /\ reserved' = reserved
      BY <1>3 DEF Begin, Commit, tables
    <2>2. \A q \in Request, s \in Sku : Locks(q, s)' => Locks(q, s)
      BY <1>1, <1>3, <2>1 DEF Begin, Commit, Locks, Live, TypeOK, RequestOK, SessionOK,
                              Nothing, StatementSteps
    <2> QED
      BY <1>1, <2>1, <2>2, FewerLocks
  <1>4. ASSUME NEW r \in Request, Discard(r), stock' = stock
        PROVE  NoOversell'
    <2>1. \A q \in Request, s \in Sku :
            Locks(q, s)' => Locks(q, s) /\ reserved'[q][s] = reserved[q][s]
      BY <1>1, <1>4 DEF Discard, Locks, Live, TypeOK
    <2> QED
      BY <1>1, <1>4, <2>1, FewerLocks
  <1>5. ASSUME NEW r \in Request, StepOf(r)
        PROVE  NoOversell'
    <2>1. CASE \/ RejectBody(r) \/ Receive(r) \/ BeginFails(r) \/ ReserveInvalid(r)
               \/ ReserveInsufficient(r) \/ CreateOrder(r) \/ CreateItem(r)
               \/ PublishOrderCreated(r) \/ CommitReturns(r) \/ CommitReplyLost(r)
               \/ RollbackLost(r) \/ StatementLost(r) \/ Panics(r)
      BY <1>2, <2>1 DEF RejectBody, Receive, BeginFails, ReserveInvalid,
           ReserveInsufficient, CreateOrder, CreateItem, PublishOrderCreated,
           CommitReturns, CommitReplyLost, RollbackLost, StatementLost, Panics, tables, server
    <2>2. CASE Rollback(r) \/ ServerAborts(r) \/ ServerRefuses(r)
      BY <1>4, <2>2 DEF Rollback, ServerAborts, ServerRefuses, tables
    <2> QED
      BY <1>3, <1>5, <2>1, <2>2, ReserveCovered, CommitCovered DEF StepOf
  <1>6. CASE Crash \/ (\E c \in Customer : RegisterCustomer(c)) \/ UNCHANGED vars
    BY <1>2, <1>6 DEF Crash, RegisterCustomer, vars, tables, server
  <1> QED
    BY <1>5, <1>6, StepCases

(***************************************************************************)
(* The inductive invariant and what it gives.                              *)
(***************************************************************************)
LEMMA InvInit == Init => IInv
  <1> SUFFICES ASSUME Init PROVE IInv
    OBVIOUS
  <1>1. \A r \in Request : RequestOK(r)
    BY DEF Init, RequestOK, SessionOK, ProgressOK, WritesOK, AnswerOK, StatementSteps
  <1>2. NoOversell
    BY DEF Init, NoOversell, Locks, Live
  <1> QED
    BY <1>1, <1>2, TypeInit DEF IInv

LEMMA InvStep == IInv /\ [Next]_vars => IInv'
  <1> SUFFICES ASSUME IInv, [Next]_vars PROVE IInv'
    OBVIOUS
  <1>1. ASSUME NEW q \in Request PROVE RequestOK(q)'
    <2>1. RequestOK(q) /\ TypeOK
      BY DEF IInv
    <2>2. ASSUME NEW r \in Request, StepOf(r) PROVE RequestOK(q)'
      BY <2>1, <2>2, RequestStep, Local, Frame
    <2>3. CASE Crash
      BY <2>1, <2>3 DEF Crash, TypeOK, RequestOK, SessionOK, ProgressOK, WritesOK,
           AnswerOK, OrderRow, OrderCreated, Committed, tables, server,
           StatementSteps, TxSteps
    <2>4. CASE (\E c \in Customer : RegisterCustomer(c)) \/ UNCHANGED vars
      <3>1. Untouched(q) /\ customers \subseteq customers'
        BY <2>4 DEF RegisterCustomer, Untouched, vars, tables, server, handler
      <3> QED
        BY <2>1, <3>1, Frame
    <2> QED
      BY <2>2, <2>3, <2>4, StepCases
  <1> QED
    BY <1>1, TypeStep, OversellStep DEF IInv

LEMMA Invariant == Spec => []IInv
  BY InvInit, InvStep, PTL DEF Spec

\* Types, and with them that no interleaving of commits, aborts, crashes and
\* lost connections drives available_quantity below zero.
THEOREM TypeCorrect == Spec => []TypeOK
  <1>1. IInv => TypeOK
    BY DEF IInv
  <1> QED
    BY <1>1, Invariant, PTL

\* No inventory row is promised to two open transactions, or beyond its stock.
THEOREM NeverOversells == Spec => []NoOversell
  <1>1. IInv => NoOversell
    BY DEF IInv
  <1> QED
    BY <1>1, Invariant, PTL

\* A 201 is only sent for an order that is durable, a 400 or a 409 only for one
\* that never will be.
THEOREM RepliesAreTruthful == Spec => []ReplyTruthful
  <1>1. IInv => ReplyTruthful
    BY DEF IInv, RequestOK, AnswerOK, ReplyTruthful
  <1> QED
    BY <1>1, Invariant, PTL

(***************************************************************************)
(* OrderService implements OrderLedger.  A COMMIT that takes effect places *)
(* one order, a registration registers one customer, and every other step  *)
(* of the program is invisible to the ledger: it neither touches the       *)
(* committed tables nor changes what a committed transaction had taken.    *)
(***************************************************************************)
\* The ledger's view of an order row and of an event is well typed.
LEMMA PlacedType ==
  ASSUME IInv, NEW r \in Request, cmd[r].customer \in Customer
  PROVE  PlacedOrder(r) \in Ledger!Order
  BY DEF IInv, TypeOK, PlacedOrder, Ledger!Order

\* Appending to the outbox appends to the ledger's announcements.
LEMMA AnnounceNext ==
  ASSUME TypeOK, NEW e \in Event, outbox' = Append(outbox, e)
  PROVE  Announcements' = Append(Announcements, Announcement(e))
  <1>1. outbox \in Seq(Event)
    BY DEF TypeOK
  <1>2. Len(outbox) \in Nat /\ Len(outbox') = Len(outbox) + 1
    BY <1>1
  <1>3. \A i \in 1..Len(outbox) : outbox'[i] = outbox[i]
    BY <1>1
  <1>4. outbox'[Len(outbox) + 1] = e
    BY <1>1
  <1> DEFINE A == [i \in 1..Len(outbox) |-> Announcement(outbox[i])]
             V == {Announcement(x) : x \in Event}
             B == [i \in 1..(Len(outbox) + 1) |-> Announcement(outbox'[i])]
  <1>5. A \in Seq(V) /\ Len(A) = Len(outbox)
    BY <1>1, <1>2
  <1>6. Announcements' = B /\ Announcements = A
    BY <1>2 DEF Announcements, Announcement
  <1>7. Append(A, Announcement(e)) = B
    <2>1. Append(A, Announcement(e)) \in Seq(V)
      BY <1>5
    <2>2. Len(Append(A, Announcement(e))) = Len(outbox) + 1
      BY <1>5
    <2> HIDE DEF V
    <2> QED
      BY <1>2, <1>3, <1>4, <1>5, <2>1, <2>2
  <1> QED
    BY <1>6, <1>7

(***************************************************************************)
(* What each step of the program is for the ledger.                        *)
(***************************************************************************)
\* What a committed transaction had taken, and for whom.
SameOrder(q) ==
  /\ Committed(q)' <=> Committed(q)
  /\ Committed(q) => PlacedOrder(q)' = PlacedOrder(q)

\* A step that leaves the tables and the committed orders alone is a stutter.
LEMMA Invisible ==
  ASSUME stock' = stock, customers' = customers, outbox' = outbox,
         \A q \in Request : SameOrder(q)
  PROVE  UNCHANGED Ledger!ledger
  <1>1. Placed' = Placed
    BY DEF Placed, SameOrder
  <1>2. Announcements' = Announcements
    BY DEF Announcements, Announcement
  <1> QED
    BY <1>1, <1>2 DEF Ledger!ledger

\* A request none of whose variables change keeps its order.
LEMMA UntouchedOrder ==
  ASSUME NEW q \in Request, Untouched(q)
  PROVE  SameOrder(q)
  BY DEF Untouched, SameOrder, Committed, PlacedOrder

\* Every step of a request but its commit is invisible.
LEMMA RequestInvisible ==
  ASSUME IInv, NEW r \in Request, StepOf(r), ~ServerCommits(r)
  PROVE  UNCHANGED Ledger!ledger
  <1>1. TypeOK /\ RequestOK(r)
    BY DEF IInv
  <1>2. stock' = stock /\ customers' = customers /\ outbox' = outbox
    BY DEF StepOf, RejectBody, Receive, Begin, BeginFails, Reserve, ReserveInvalid,
           ReserveInsufficient, ServerRefuses, CreateOrder, CreateItem,
           PublishOrderCreated, Commit, CommitReturns, CommitReplyLost, Rollback,
           RollbackLost, ServerAborts, StatementLost, Panics, tables
  <1>3. SameOrder(r)
    <2>1. CASE Committed(r)
      <3>1. CommitReturns(r) \/ CommitReplyLost(r)
        BY <1>1, <2>1 DEF StepOf, RejectBody, Receive, Begin, BeginFails, Reserve,
             ReserveInvalid, ReserveInsufficient, ServerRefuses, CreateOrder, CreateItem, Commit,
             PublishOrderCreated, Rollback, RollbackLost, ServerAborts, StatementLost, Panics,
             StatementSteps, AtItem, Committed, RequestOK, SessionOK
      <3> QED
        BY <2>1, <3>1 DEF CommitReturns, CommitReplyLost, SameOrder,
             Committed, PlacedOrder, server
    <2>2. CASE ~Committed(r)
      <3>1. ~Committed(r)'
        BY <1>1, <2>2 DEF StepOf, RejectBody, Receive, Begin, BeginFails, Reserve,
             ReserveInvalid, ReserveInsufficient, ServerRefuses, CreateOrder, CreateItem,
             PublishOrderCreated, Commit, CommitReturns, CommitReplyLost, Rollback,
             RollbackLost, ServerAborts, StatementLost, Panics, Discard, server, Committed, TypeOK
      <3> QED
        BY <2>2, <3>1 DEF SameOrder, Committed
    <2> QED
      BY <2>1, <2>2
  <1>4. \A q \in Request : SameOrder(q)
    BY <1>1, <1>3, Local, UntouchedOrder
  <1> QED
    BY <1>2, <1>4, Invisible

\* The commit of a transaction places its order: the stock pays for all of it,
\* the customer is known and the one event of the write set announces it.
LEMMA CommitPlaces ==
  ASSUME IInv, NEW r \in Request, ServerCommits(r)
  PROVE  /\ PlacedOrder(r) \in Placed' /\ PlacedOrder(r) \in Ledger!Order
         /\ Ledger!Place(PlacedOrder(r))
  <1> DEFINE p == PlacedOrder(r)
  <1>1. /\ TypeOK /\ NoOversell /\ RequestOK(r) /\ srv[r] = "committing"
    BY DEF IInv, ServerCommits
  <1>2. /\ cmd[r].customer \in customers /\ cmd[r].customer \in Customer
        /\ writes[r].events = <<OrderCreated(r)>>
    BY <1>1 DEF RequestOK, WritesOK, TypeOK
  <1>3. \A q \in Request : PlacedOrder(q)' = PlacedOrder(q)
    BY DEF ServerCommits, PlacedOrder, handler
  <1>4. \A q \in Request : Committed(q)' <=> Committed(q) \/ q = r
    BY <1>1 DEF ServerCommits, Committed, TypeOK
  <1>5. Placed' = Placed \cup {p}
    BY <1>3, <1>4 DEF Placed
  <1>6. \A q \in Placed : q.id # p.id
    BY <1>1 DEF Placed, PlacedOrder, Committed
  <1>7. \A s \in Sku : p.taken[s] <= stock[s]
    <2> SUFFICES ASSUME NEW s \in Sku PROVE reserved[r][s] <= stock[s]
      BY DEF PlacedOrder
    <2>1. reserved[r][s] \in Nat /\ stock[s] \in Nat
      BY <1>1 DEF TypeOK
    <2>2. reserved[r][s] > 0 => reserved[r][s] <= stock[s]
      BY <1>1 DEF NoOversell, Locks, Live
    <2> QED
      BY <2>1, <2>2
  <1>8. /\ stock' = [s \in Sku |-> stock[s] - p.taken[s]]
        /\ customers' = customers
    BY DEF ServerCommits, PlacedOrder
  <1>9. Announcements' = Append(Announcements, Ledger!OrderAnnounced(p.id, p.customer, p.total))
    <2>1. OrderCreated(r) \in Event
      BY <1>1, <1>2 DEF TypeOK, OrderCreated, Event
    <2>2. outbox' = Append(outbox, OrderCreated(r))
      BY <1>1, <1>2, <2>1 DEF ServerCommits, TypeOK
    <2>3. Announcements' = Append(Announcements, Announcement(OrderCreated(r)))
      BY <1>1, <2>1, <2>2, AnnounceNext
    <2>4. Announcement(OrderCreated(r)) = Ledger!OrderAnnounced(p.id, p.customer, p.total)
      BY DEF Announcement, OrderCreated, Ledger!OrderAnnounced, PlacedOrder
    <2> QED
      BY <2>3, <2>4
  <1>10. p \in Ledger!Order
    BY <1>2, PlacedType
  <1> QED
    BY <1>2, <1>5, <1>6, <1>7, <1>8, <1>9, <1>10 DEF Ledger!Place, PlacedOrder

\* A registration is a registration.
LEMMA RegistrationRegisters ==
  ASSUME IInv, NEW c \in Customer, RegisterCustomer(c)
  PROVE  Ledger!Register(c)
  <1>1. Placed' = Placed
    BY DEF RegisterCustomer, Placed, PlacedOrder, Committed, server, handler
  <1>2. CustomerCreated(c) \in Event
    BY DEF CustomerCreated, Event
  <1>3. Announcements' = Append(Announcements, Announcement(CustomerCreated(c)))
    BY <1>2, AnnounceNext DEF RegisterCustomer, IInv
  <1>4. Announcement(CustomerCreated(c)) = Ledger!CustomerAnnounced(c)
    BY DEF Announcement, CustomerCreated, Ledger!CustomerAnnounced
  <1> QED
    BY <1>1, <1>3, <1>4 DEF RegisterCustomer, Ledger!Register

\* The initial tables are the ledger's initial state.
LEMMA LedgerInit == Init => Ledger!Init
  <1> SUFFICES ASSUME Init PROVE Ledger!Init
    OBVIOUS
  <1>1. Placed = {}
    BY DEF Init, Placed, Committed
  <1>2. Announcements = <<>>
    BY DEF Init, Announcements
  <1> QED
    BY <1>1, <1>2 DEF Init, Ledger!Init

\* Every step is a step of the ledger or a stutter.
LEMMA LedgerStep == IInv /\ [Next]_vars => [Ledger!Next]_(Ledger!ledger)
  <1> SUFFICES ASSUME IInv, [Next]_vars PROVE [Ledger!Next]_(Ledger!ledger)
    OBVIOUS
  <1>1. CASE \E r \in Request : StepOf(r)
    <2>1. PICK r \in Request : StepOf(r)
      BY <1>1
    <2>2. CASE ServerCommits(r)
      BY <2>2, CommitPlaces DEF Ledger!Next
    <2>3. CASE ~ServerCommits(r)
      BY <2>1, <2>3, RequestInvisible
    <2> QED
      BY <2>2, <2>3
  <1>2. CASE Crash
    <2>1. \A q \in Request : SameOrder(q)
      BY <1>2 DEF Crash, SameOrder, Committed, PlacedOrder, server
    <2> QED
      BY <1>2, <2>1, Invisible DEF Crash, tables
  <1>3. CASE \E c \in Customer : RegisterCustomer(c)
    BY <1>3, RegistrationRegisters DEF Ledger!Next
  <1>4. CASE UNCHANGED vars
    <2>1. \A q \in Request : Untouched(q)
      BY <1>4 DEF Untouched, vars, server, handler
    <2> QED
      BY <1>4, <2>1, UntouchedOrder, Invisible DEF vars, tables
  <1> QED
    BY <1>1, <1>2, <1>3, <1>4, StepCases

\* Refinement: whatever the requests, the prices and the stock, the order
\* service under concurrency, crashes and lost replies is the ledger.
THEOREM ImplementsLedger == Spec => LedgerSpec
  BY LedgerInit, LedgerStep, Invariant, PTL DEF Spec, LedgerSpec, Ledger!Spec
=============================================================================
