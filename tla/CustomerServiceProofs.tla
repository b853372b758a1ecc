------------------------ MODULE CustomerServiceProofs ------------------------
(***************************************************************************)
(* What holds of CustomerService for every set of requests, every set of   *)
(* ids and every pool size, with proofs TLAPS checks.                      *)
(*                                                                         *)
(* AnnouncedOnce is not inductive: that a commit adds a new customer rests *)
(* on the primary key, which keeps the ids of live transactions apart from *)
(* each other and from the committed rows, and that on where each handler  *)
(* is when its transaction commits.  IInv puts these together.             *)
(***************************************************************************)
EXTENDS CustomerService, FiniteSetTheorems, TLAPS

\* Where the handler is and what the server thinks of its transaction.
SessionOK(r) ==
  /\ pc[r] \in {"idle", "begin"} => srv[r] = "none"
  /\ pc[r] \in StatementSteps \cup {"commit"} => srv[r] = "open"
  /\ pc[r] = "rollback" => srv[r] \in {"open", "aborted"}
  /\ pc[r] = "committing" => srv[r] \in {"committing", "committed", "aborted"}
  /\ srv[r] \in {"committing", "committed"} => pc[r] \in {"committing", "done", "gone"}

\* What the transaction has written.
WritesOK(r) ==
  /\ inserted[r] \subseteq {IdOf(r)}
  /\ srv[r] = "none" \/ pc[r] = "create" => inserted[r] = {} /\ events[r] = <<>>
  /\ pc[r] = "publish" => inserted[r] = {IdOf(r)} /\ events[r] = <<>>
  /\ pc[r] = "commit" \/ srv[r] = "committing" =>
       inserted[r] = {IdOf(r)} /\ events[r] = <<IdOf(r)>>

\* What the client has been told.
AnswerOK(r) ==
  /\ reply[r] # 0 => pc[r] = "done"
  /\ pc[r] = "rollback" => err[r] # "none"
  /\ reply[r] = 201 => srv[r] = "committed"
  /\ err[r] = "ErrCustomerAlreadyExists" => IdOf(r) \in customers
  /\ reply[r] = 409 => IdOf(r) \in customers

\* What is known of one request.
RequestOK(r) == SessionOK(r) /\ WritesOK(r) /\ AnswerOK(r)

\* The primary key: an id belongs to a committed row, or to one transaction.
KeysOK ==
  /\ Seeded \subseteq customers
  /\ \A r \in Request : Live(r) => inserted[r] \cap customers = {}
  /\ \A r, q \in Request : r # q /\ Live(r) /\ Live(q) => inserted[r] \cap inserted[q] = {}

\* A registration that has committed is of a customer of its own.
OwnersOK ==
  /\ \A r \in Request : srv[r] = "committed" => IdOf(r) \in customers \ Seeded
  /\ \A r, q \in Request :
       r # q /\ srv[r] = "committed" /\ srv[q] = "committed" => IdOf(r) # IdOf(q)

\* The inductive invariant.
IInv ==
  /\ TypeOK
  /\ AnnouncedOnce
  /\ KeysOK
  /\ OwnersOK
  /\ \A r \in Request : RequestOK(r)

(***************************************************************************)
(* Types.                                                                  *)
(***************************************************************************)
Outcomes == {"none", "ErrCustomerAlreadyExists", "database", "panic"}

\* Every request is about some customer.
LEMMA IdType ==
  ASSUME TypeOK, NEW r \in Request
  PROVE  IdOf(r) \in CustomerId
  BY DEF TypeOK, VarsOK, IdOf, CustomerId

\* A handler that gives up leaves well-typed state.
LEMMA FailType ==
  ASSUME TypeOK, NEW r \in Request, NEW e \in Outcomes, Fail(r, e)
  PROVE  /\ pc' \in [Request -> TxSteps \cup {"idle", "begin", "done", "gone"}]
         /\ err' \in [Request -> Outcomes]
         /\ body' = body /\ reply' = reply
  BY DEF TypeOK, VarsOK, Fail, Goto, TxSteps, Outcomes

\* So does a handler that answers.
LEMMA RespondType ==
  ASSUME TypeOK, NEW r \in Request, NEW e \in Outcomes, Respond(r, e)
  PROVE  /\ pc' \in [Request -> TxSteps \cup {"idle", "begin", "done", "gone"}]
         /\ err' \in [Request -> Outcomes]
         /\ reply' \in [Request -> Statuses]
         /\ body' = body
  <1>1. StatusOf(e) \in Statuses
    BY DEF StatusOf, Statuses
  <1> QED
    BY <1>1 DEF TypeOK, VarsOK, Respond, Goto, Outcomes

\* And a server that forgets a transaction.
LEMMA DiscardType ==
  ASSUME TypeOK, NEW r \in Request, Discard(r)
  PROVE  /\ srv' \in [Request -> {"none", "open", "committing", "committed", "aborted"}]
         /\ inserted' \in [Request -> SUBSET CustomerId]
         /\ events' \in [Request -> Seq(CustomerId)]
  BY DEF TypeOK, VarsOK, Discard

(***************************************************************************)
(* A step is a step of one request, or of nobody.                          *)
(***************************************************************************)
StepOf(r) ==
  \/ RejectBody(r) \/ Receive(r) \/ Begin(r) \/ BeginFails(r)
  \/ Create(r) \/ AlreadyExists(r) \/ PublishCustomerCreated(r)
  \/ Commit(r) \/ CommitReturns(r) \/ CommitReplyLost(r)
  \/ Rollback(r) \/ RollbackLost(r)
  \/ ServerCommits(r) \/ ServerAborts(r)
  \/ StatementFails(r) \/ StatementLost(r) \/ Panics(r)

\* The actions of Next, by whom they are a step of.
LEMMA StepCases ==
  ASSUME [Next]_vars
  PROVE  (\E r \in Request : StepOf(r)) \/ Crash \/ UNCHANGED vars
  BY DEF Next, HandlerStep, ServerStep, Failure, Finished, StepOf

\* Everything a step of request r does, whatever the step: the columns of the
\* others stay, bodies never change and customers only grow.
LEMMA Local ==
  ASSUME TypeOK, NEW r \in Request, StepOf(r)
  PROVE  /\ body' = body /\ customers \subseteq customers'
         /\ \A q \in Request \ {r} :
              /\ pc'[q] = pc[q] /\ srv'[q] = srv[q] /\ inserted'[q] = inserted[q]
              /\ events'[q] = events[q] /\ err'[q] = err[q] /\ reply'[q] = reply[q]
  BY DEF StepOf, RejectBody, Receive, Begin, BeginFails, Create, AlreadyExists,
         PublishCustomerCreated, Commit, CommitReturns, CommitReplyLost, Rollback,
         RollbackLost, ServerCommits, ServerAborts, StatementFails, StatementLost,
         Panics, Fail, Respond, Discard, Goto, tables, server, handler, TypeOK, VarsOK

\* A step that is no insert, commit or start of one leaves the tables alone and
\* takes no key.
Quiet(r) ==
  /\ customers' = customers /\ outbox' = outbox
  /\ inserted'[r] \subseteq inserted[r]
  /\ srv'[r] \in {"none", "committed"} => srv'[r] = srv[r]
  /\ Live(r)' => Live(r) \/ inserted[r] = {}

\* Every step but the INSERT and the COMMIT is one of these.
LEMMA QuietSteps ==
  ASSUME TypeOK, NEW r \in Request, RequestOK(r), StepOf(r),
         ~Create(r), ~ServerCommits(r)
  PROVE  Quiet(r)
  BY DEF StepOf, RejectBody, Receive, Begin, BeginFails, AlreadyExists,
         PublishCustomerCreated, Commit, CommitReturns, CommitReplyLost, Rollback,
         RollbackLost, ServerAborts, StatementFails, StatementLost, Panics, Fail,
         Respond, Discard, Goto, tables, server, handler, TypeOK, VarsOK, Quiet, Live,
         RequestOK, SessionOK, WritesOK, StatementSteps

\* The service starts well typed.
LEMMA TypeInit == Init => TypeOK
  <1> SUFFICES ASSUME Init PROVE TypeOK
    OBVIOUS
  <1>1. VarsOK
    BY CustomerConstants DEF Init, VarsOK, Statuses, CustomerId
  <1>2. Connections = {}
    BY DEF Init, Connections, TxSteps, StatementSteps
  <1>3. PoolOK
    BY <1>2, FS_EmptySet, CustomerConstants DEF PoolOK
  <1> QED
    BY <1>1, <1>3 DEF TypeOK

\* Only Begin takes a connection, and it waits for a free one.
LEMMA PoolStep ==
  ASSUME TypeOK, [Next]_vars
  PROVE  PoolOK'
  <1>1. IsFiniteSet(Connections) /\ Cardinality(Connections) <= MaxOpenConns
    BY DEF TypeOK, PoolOK
  <1>2. MaxOpenConns \in Nat /\ Cardinality(Connections) \in Nat
    BY <1>1, CustomerConstants, FS_CardinalityType
  <1>3. ASSUME Connections' \subseteq Connections PROVE PoolOK'
    <2>1. /\ IsFiniteSet(Connections')
          /\ Cardinality(Connections') <= Cardinality(Connections)
      BY <1>1, <1>3, FS_Subset
    <2>2. Cardinality(Connections') \in Nat
      BY <2>1, FS_CardinalityType
    <2> QED
      BY <1>1, <1>2, <2>1, <2>2 DEF PoolOK
  <1>4. ASSUME NEW r \in Request, Begin(r) PROVE PoolOK'
    <2>1. Connections' = Connections \cup {r} /\ r \notin Connections
      BY <1>4 DEF Begin, Goto, Connections, TypeOK, VarsOK, TxSteps, StatementSteps
    <2>2. /\ IsFiniteSet(Connections \cup {r})
          /\ Cardinality(Connections \cup {r}) = Cardinality(Connections) + 1
      BY <1>1, <2>1, FS_AddElement
    <2>3. Cardinality(Connections) < MaxOpenConns
      BY <1>4 DEF Begin
    <2>4. Cardinality(Connections') <= MaxOpenConns
      BY <1>2, <2>1, <2>2, <2>3
    <2> QED
      BY <2>1, <2>2, <2>4 DEF PoolOK
  <1>5. ASSUME NEW r \in Request, StepOf(r), ~Begin(r)
        PROVE  Connections' \subseteq Connections
    <2>1. pc'[r] \in TxSteps => pc[r] \in TxSteps
      BY <1>5 DEF StepOf, RejectBody, Receive, BeginFails, Create, AlreadyExists,
         PublishCustomerCreated, Commit, CommitReturns, CommitReplyLost, Rollback,
         RollbackLost, ServerCommits, ServerAborts, StatementFails, StatementLost,
         Panics, Fail, Respond, Goto, AtCreate, handler, TypeOK, VarsOK, TxSteps,
         StatementSteps
    <2> QED
      BY <1>5, <2>1, Local DEF Connections
  <1>6. CASE Crash \/ UNCHANGED vars
    BY <1>3, <1>6 DEF Crash, vars, handler, Connections, TxSteps, StatementSteps
  <1> QED
    BY <1>3, <1>4, <1>5, <1>6, StepCases

\* And every step keeps it so.
LEMMA TypeStep ==
  ASSUME TypeOK, \A r \in Request : RequestOK(r), [Next]_vars
  PROVE  TypeOK'
  <1>1. ASSUME NEW r \in Request,
               RejectBody(r) \/ Receive(r) \/ Begin(r) \/ Commit(r)
        PROVE  VarsOK'
    <2>1. CASE RejectBody(r)
      BY <2>1 DEF RejectBody, Goto, TypeOK, VarsOK, Statuses, tables, server
    <2>2. CASE Receive(r)
      BY <2>2 DEF Receive, Goto, TypeOK, VarsOK, tables, server
    <2>3. CASE Begin(r)
      BY <2>3 DEF Begin, Goto, TypeOK, VarsOK, TxSteps, StatementSteps, tables
    <2>4. CASE Commit(r)
      BY <2>4 DEF Commit, Goto, TypeOK, VarsOK, TxSteps, tables
    <2> QED
      BY <1>1, <2>1, <2>2, <2>3, <2>4
  <1>2. ASSUME NEW r \in Request,
               BeginFails(r) \/ CommitReturns(r) \/ CommitReplyLost(r)
        PROVE  VarsOK'
    <2>1. PICK e \in Outcomes : Respond(r, e) /\ UNCHANGED <<tables, server>>
      BY <1>2 DEF BeginFails, CommitReturns, CommitReplyLost, Outcomes
    <2> QED
      BY <2>1, RespondType DEF TypeOK, VarsOK, Outcomes, tables, server
  <1>3. ASSUME NEW r \in Request, Rollback(r) \/ RollbackLost(r)
        PROVE  VarsOK'
    <2>1. err[r] \in Outcomes /\ Respond(r, err[r]) /\ UNCHANGED tables
      BY <1>3 DEF Rollback, RollbackLost, TypeOK, VarsOK, Outcomes
    <2>2. Discard(r) \/ UNCHANGED server
      BY <1>3 DEF Rollback, RollbackLost
    <2> QED
      BY <2>1, <2>2, RespondType, DiscardType DEF TypeOK, VarsOK, Outcomes, tables, server
  <1>4. ASSUME NEW r \in Request,
               AlreadyExists(r) \/ StatementFails(r) \/ StatementLost(r) \/ Panics(r)
        PROVE  VarsOK'
    <2>1. PICK e \in Outcomes : Fail(r, e) /\ UNCHANGED tables
      BY <1>4 DEF AlreadyExists, StatementFails, StatementLost, Panics, Outcomes
    <2>2. Discard(r) \/ UNCHANGED server
      BY <1>4 DEF AlreadyExists, StatementFails, StatementLost, Panics
    <2> QED
      BY <2>1, <2>2, FailType, DiscardType DEF TypeOK, VarsOK, Outcomes, tables, server
  <1>5. ASSUME NEW r \in Request, Create(r) \/ PublishCustomerCreated(r)
        PROVE  VarsOK'
    <2>1. IdOf(r) \in CustomerId
      BY IdType
    <2>2. CASE Create(r)
      BY <2>1, <2>2 DEF Create, Goto, TypeOK, VarsOK, TxSteps, StatementSteps, tables
    <2>3. CASE PublishCustomerCreated(r)
      <3>1. Append(events[r], IdOf(r)) \in Seq(CustomerId)
        BY <2>1 DEF TypeOK, VarsOK
      <3> QED
        BY <2>3, <3>1 DEF PublishCustomerCreated, Goto, TypeOK, VarsOK, TxSteps, tables
    <2> QED
      BY <1>5, <2>2, <2>3
  <1>6. ASSUME NEW r \in Request, ServerCommits(r)
        PROVE  VarsOK'
    <2>1. customers' \subseteq CustomerId /\ outbox' \in Seq(CustomerId)
      BY <1>6 DEF ServerCommits, TypeOK, VarsOK
    <2> QED
      BY <1>6, <2>1 DEF ServerCommits, TypeOK, VarsOK, handler
  <1>7. ASSUME NEW r \in Request, ServerAborts(r)
        PROVE  VarsOK'
    BY <1>7, DiscardType DEF ServerAborts, TypeOK, VarsOK, tables, handler
  <1>8. ASSUME Crash PROVE VarsOK'
    BY <1>8 DEF Crash, TypeOK, VarsOK, tables, server
  <1>9. ASSUME UNCHANGED vars PROVE VarsOK'
    BY <1>9 DEF TypeOK, VarsOK, vars, tables, server, handler
  <1> QED
    BY <1>1, <1>2, <1>3, <1>4, <1>5, <1>6, <1>7, <1>8, <1>9, StepCases, PoolStep
    DEF StepOf, TypeOK

(***************************************************************************)
(* What is known of one request.                                           *)
(***************************************************************************)
\* Ids of requests do not change.
LEMMA IdStable ==
  ASSUME body' = body, NEW r \in Request
  PROVE  IdOf(r)' = IdOf(r)
  BY DEF IdOf

\* A request whose variables stay keeps what is known of it.
LEMMA Frame ==
  ASSUME NEW q \in Request, RequestOK(q), body' = body, customers \subseteq customers',
         pc'[q] = pc[q], srv'[q] = srv[q], inserted'[q] = inserted[q],
         events'[q] = events[q], err'[q] = err[q], reply'[q] = reply[q]
  PROVE  RequestOK(q)'
  BY IdStable DEF RequestOK, SessionOK, WritesOK, AnswerOK, StatementSteps

\* And one that takes a step does too.
LEMMA RequestStep ==
  ASSUME TypeOK, NEW r \in Request, RequestOK(r), StepOf(r)
  PROVE  RequestOK(r)'
  <1>1. body' = body /\ customers \subseteq customers' /\ IdOf(r)' = IdOf(r)
    BY Local, IdStable
  <1>2. SessionOK(r)'
    BY DEF StepOf, RejectBody, Receive, Begin, BeginFails, Create, AlreadyExists,
         PublishCustomerCreated, Commit, CommitReturns, CommitReplyLost, Rollback,
         RollbackLost, ServerCommits, ServerAborts, StatementFails, StatementLost,
         Panics, Fail, Respond, Discard, Goto, server, handler, TypeOK, VarsOK, AtCreate,
         RequestOK, SessionOK, StatementSteps, TxSteps
  <1>3. WritesOK(r)'
    <2> DEFINE i == IdOf(r)
    <2>1. i' = i
      BY <1>1
    <2> HIDE DEF i
    <2>2. CASE Create(r) \/ PublishCustomerCreated(r)
      <3>1. inserted[r] \subseteq {i}
        BY DEF RequestOK, WritesOK, i
      <3>2. CASE Create(r)
        BY <3>1, <3>2, <1>1 DEF Create, Goto, TypeOK, VarsOK, RequestOK, SessionOK, WritesOK,
             AtCreate, i
      <3>3. CASE PublishCustomerCreated(r)
        <4>1. inserted[r] = {i} /\ events[r] = <<>> /\ events'[r] = <<i>>
          BY <3>3 DEF PublishCustomerCreated, RequestOK, WritesOK, TypeOK, VarsOK, i
        <4> QED
          BY <4>1, <3>3, <1>1 DEF PublishCustomerCreated, Goto, TypeOK, VarsOK, RequestOK,
               WritesOK, i
      <3> QED
        BY <2>2, <3>2, <3>3
    <2>3. CASE \/ Rollback(r) \/ ServerCommits(r) \/ ServerAborts(r) \/ StatementFails(r)
      BY <1>1, <2>3 DEF Rollback, ServerCommits, ServerAborts, StatementFails, Fail,
         Respond, Discard, Goto, handler, TypeOK, VarsOK, RequestOK, SessionOK, WritesOK,
         StatementSteps
    <2>4. CASE \/ RejectBody(r) \/ Receive(r) \/ Begin(r) \/ BeginFails(r)
               \/ AlreadyExists(r) \/ Commit(r)
      BY <1>1, <2>4 DEF RejectBody, Receive, Begin, BeginFails, AlreadyExists, Commit,
         Fail, Respond, Goto, server, TypeOK, VarsOK, AtCreate, RequestOK, SessionOK, WritesOK
    <2>5. CASE \/ CommitReturns(r) \/ CommitReplyLost(r) \/ RollbackLost(r)
               \/ StatementLost(r) \/ Panics(r)
      BY <1>1, <2>5 DEF CommitReturns, CommitReplyLost, RollbackLost, StatementLost,
         Panics, Fail, Respond, Goto, server, TypeOK, VarsOK, RequestOK, SessionOK, WritesOK,
         StatementSteps
    <2> QED
      BY <2>2, <2>3, <2>4, <2>5 DEF StepOf
  <1>4. AnswerOK(r)'
    BY <1>1 DEF StepOf, RejectBody, Receive, Begin, BeginFails, Create, AlreadyExists,
         PublishCustomerCreated, Commit, CommitReturns, CommitReplyLost, Rollback,
         RollbackLost, ServerCommits, ServerAborts, StatementFails, StatementLost,
         Panics, Fail, Respond, Discard, Goto, server, handler, TypeOK, VarsOK, AtCreate,
         RequestOK, SessionOK, AnswerOK, StatementSteps, TxSteps, StatusOf
  <1> QED
    BY <1>2, <1>3, <1>4 DEF RequestOK

(***************************************************************************)
(* The primary key.                                                        *)
(***************************************************************************)
\* A step that takes no key keeps the keys apart.
LEMMA QuietKeys ==
  ASSUME TypeOK, KeysOK, NEW r \in Request, StepOf(r), Quiet(r)
  PROVE  KeysOK'
  <1>1. /\ customers' = customers
        /\ Live(r)' => Live(r) \/ inserted[r] = {}
        /\ inserted'[r] \subseteq inserted[r]
    BY DEF Quiet
  <1>2. ASSUME NEW q \in Request, q # r
        PROVE  (Live(q)' <=> Live(q)) /\ inserted'[q] = inserted[q]
    BY <1>2, Local DEF Live
  <1>3. ASSUME NEW q \in Request, Live(q)'
        PROVE  inserted'[q] \cap customers' = {}
    BY <1>1, <1>2, <1>3 DEF KeysOK
  <1>4. ASSUME NEW p \in Request, NEW q \in Request, p # q, Live(p)', Live(q)'
        PROVE  inserted'[p] \cap inserted'[q] = {}
    BY <1>1, <1>2, <1>4 DEF KeysOK
  <1> QED
    BY <1>1, <1>3, <1>4 DEF KeysOK

\* An insert takes a key nobody has: it has waited for every transaction that
\* held it, and found no row.
LEMMA CreateKeys ==
  ASSUME TypeOK, KeysOK, NEW r \in Request, RequestOK(r), Create(r)
  PROVE  KeysOK'
  <1> DEFINE i == IdOf(r)
  <1>1. /\ customers' = customers /\ srv' = srv /\ i \notin customers
        /\ inserted'[r] = {i}
        /\ \A q \in Request \ {r} : inserted'[q] = inserted[q]
        /\ \A q \in Request \ {r} : Live(q) => i \notin inserted[q]
    BY DEF Create, AtCreate, KeyTaken, tables, TypeOK, VarsOK, RequestOK, WritesOK
  <1>2. \A q \in Request : Live(q)' <=> Live(q)
    BY <1>1 DEF Live
  <1> HIDE DEF i
  <1> QED
    BY <1>1, <1>2 DEF KeysOK

\* A commit turns the key of a transaction into a row.
LEMMA CommitKeys ==
  ASSUME TypeOK, KeysOK, NEW r \in Request, RequestOK(r), ServerCommits(r)
  PROVE  KeysOK'
  <1>1. /\ customers' = customers \cup inserted[r] /\ inserted' = inserted
        /\ Live(r) /\ ~Live(r)'
        /\ \A q \in Request \ {r} : Live(q)' <=> Live(q)
    BY DEF ServerCommits, TypeOK, VarsOK, Live
  <1> QED
    BY <1>1 DEF KeysOK

\* Every step keeps the keys apart.
LEMMA KeysStep ==
  ASSUME IInv, [Next]_vars
  PROVE  KeysOK'
  <1>1. TypeOK /\ KeysOK /\ \A r \in Request : RequestOK(r)
    BY DEF IInv
  <1>2. ASSUME NEW r \in Request, StepOf(r)
        PROVE  KeysOK'
    BY <1>1, <1>2, QuietSteps, QuietKeys, CreateKeys, CommitKeys
  <1>3. CASE Crash \/ UNCHANGED vars
    BY <1>1, <1>3 DEF Crash, vars, tables, server, KeysOK, Live
  <1> QED
    BY <1>2, <1>3, StepCases

(***************************************************************************)
(* Who owns a customer, and how it is announced.                           *)
(***************************************************************************)
\* What a transaction that commits makes visible: one customer that is new, in
\* the table and in no event, and one event.
LEMMA CommitRegisters ==
  ASSUME IInv, NEW r \in Request, ServerCommits(r)
  PROVE  /\ customers' = customers \cup {IdOf(r)} /\ IdOf(r) \notin customers
         /\ IdOf(r) \in CustomerId
         /\ outbox' = Append(outbox, IdOf(r))
  <1>1. TypeOK /\ KeysOK /\ RequestOK(r) /\ srv[r] = "committing"
    BY DEF IInv, ServerCommits
  <1>2. inserted[r] = {IdOf(r)} /\ events[r] = <<IdOf(r)>> /\ IdOf(r) \in CustomerId
    BY <1>1, IdType DEF RequestOK, WritesOK
  <1>3. inserted[r] \cap customers = {}
    BY <1>1 DEF KeysOK, Live
  <1>4. outbox \in Seq(CustomerId) /\ outbox' = outbox \o <<IdOf(r)>>
    BY <1>1, <1>2 DEF TypeOK, VarsOK, ServerCommits
  <1>5. outbox' = Append(outbox, IdOf(r))
    BY <1>2, <1>4
  <1> QED
    BY <1>2, <1>3, <1>5 DEF ServerCommits

\* Every step keeps committed registrations apart.
LEMMA OwnersStep ==
  ASSUME IInv, [Next]_vars
  PROVE  OwnersOK'
  <1>1. TypeOK /\ KeysOK /\ OwnersOK /\ \A r \in Request : RequestOK(r)
    BY DEF IInv
  <1>2. ASSUME NEW r \in Request, StepOf(r), ~ServerCommits(r)
        PROVE  OwnersOK'
    <2>1. \A q \in Request : srv'[q] = "committed" => srv[q] = "committed"
      BY <1>1, <1>2, Local DEF StepOf, RejectBody, Receive, Begin, BeginFails, Create,
         AlreadyExists, PublishCustomerCreated, Commit, CommitReturns, CommitReplyLost,
         Rollback, RollbackLost, ServerAborts, StatementFails, StatementLost, Panics,
         Discard, server, handler, TypeOK, VarsOK
    <2>2. body' = body /\ customers \subseteq customers'
      BY <1>1, <1>2, Local
    <2> QED
      BY <1>1, <2>1, <2>2, IdStable DEF OwnersOK
  <1>3. ASSUME NEW r \in Request, ServerCommits(r)
        PROVE  OwnersOK'
    <2>1. /\ \A q \in Request \ {r} : srv'[q] = "committed" => srv[q] = "committed"
          /\ body' = body
      BY <1>1, <1>3 DEF ServerCommits, TypeOK, VarsOK, handler
    <2>2. customers' = customers \cup {IdOf(r)} /\ IdOf(r) \notin customers
      BY <1>3, CommitRegisters
    <2>3. \A q \in Request : IdOf(q)' = IdOf(q)
      BY <2>1, IdStable
    <2>4. IdOf(r) \notin Seeded
      BY <1>1, <2>2 DEF KeysOK
    <2> QED
      BY <1>1, <2>1, <2>2, <2>3, <2>4 DEF OwnersOK
  <1>4. CASE Crash \/ UNCHANGED vars
    <2>1. srv' = srv /\ customers' = customers /\ body' = body
      BY <1>4 DEF Crash, vars, tables, server, handler
    <2> QED
      BY <1>1, <2>1, IdStable DEF OwnersOK
  <1> QED
    BY <1>2, <1>3, <1>4, StepCases

\* Appending an id that is in no event keeps every id in one event.
LEMMA AnnounceNext ==
  ASSUME TypeOK, KeysOK, AnnouncedOnce, NEW c \in CustomerId, c \notin customers,
         customers' = customers \cup {c}, outbox' = Append(outbox, c)
  PROVE  AnnouncedOnce'
  <1>1. outbox \in Seq(CustomerId) /\ Len(outbox) \in Nat
    BY DEF TypeOK, VarsOK
  <1>2. /\ DOMAIN outbox = 1..Len(outbox)
        /\ DOMAIN outbox' = 1..(Len(outbox) + 1)
        /\ outbox'[Len(outbox) + 1] = c
        /\ \A i \in DOMAIN outbox : outbox'[i] = outbox[i]
    BY <1>1
  <1>3. /\ {outbox[i] : i \in DOMAIN outbox} = customers \ Seeded
        /\ \A i, j \in DOMAIN outbox : outbox[i] = outbox[j] => i = j
    BY DEF AnnouncedOnce
  <1>4. DOMAIN outbox' = DOMAIN outbox \cup {Len(outbox) + 1}
    BY <1>1, <1>2
  <1>5. {outbox'[i] : i \in DOMAIN outbox'} = {outbox[i] : i \in DOMAIN outbox} \cup {c}
    BY <1>2, <1>4
  <1>6. c \notin Seeded /\ \A i \in DOMAIN outbox : outbox[i] # c
    BY <1>3 DEF KeysOK
  <1>7. {outbox'[i] : i \in DOMAIN outbox'} = customers' \ Seeded
    BY <1>3, <1>5, <1>6
  <1>8. \A i, j \in DOMAIN outbox' : outbox'[i] = outbox'[j] => i = j
    BY <1>2, <1>3, <1>4, <1>6
  <1> QED
    BY <1>7, <1>8 DEF AnnouncedOnce

\* Every step keeps one event for each customer.
LEMMA AnnouncedStep ==
  ASSUME IInv, [Next]_vars
  PROVE  AnnouncedOnce'
  <1>1. TypeOK /\ KeysOK /\ AnnouncedOnce /\ \A r \in Request : RequestOK(r)
    BY DEF IInv
  <1>2. ASSUME NEW r \in Request, ServerCommits(r)
        PROVE  AnnouncedOnce'
    BY <1>1, <1>2, CommitRegisters, AnnounceNext
  <1>3. ASSUME NEW r \in Request, StepOf(r), ~ServerCommits(r)
        PROVE  customers' = customers /\ outbox' = outbox
    BY <1>1, <1>3, QuietSteps DEF Quiet, Create, tables
  <1>4. CASE Crash \/ UNCHANGED vars
    BY <1>1, <1>4 DEF Crash, vars, tables, AnnouncedOnce
  <1> QED
    BY <1>1, <1>2, <1>3, <1>4, StepCases DEF AnnouncedOnce

(***************************************************************************)
(* The inductive invariant and what it gives.                              *)
(***************************************************************************)
\* The invariant holds at the start.
LEMMA InvInit == Init => IInv
  <1> SUFFICES ASSUME Init PROVE IInv
    OBVIOUS
  <1>1. \A r \in Request : RequestOK(r)
    BY DEF Init, RequestOK, SessionOK, WritesOK, AnswerOK, StatementSteps
  <1>2. KeysOK /\ OwnersOK
    BY DEF Init, KeysOK, OwnersOK, Live
  <1>3. AnnouncedOnce
    <2>1. DOMAIN outbox = {} /\ customers \ Seeded = {}
      BY DEF Init
    <2> QED
      BY <2>1 DEF AnnouncedOnce
  <1> QED
    BY <1>1, <1>2, <1>3, TypeInit DEF IInv

\* Every step keeps it.
LEMMA InvStep == IInv /\ [Next]_vars => IInv'
  <1> SUFFICES ASSUME IInv, [Next]_vars PROVE IInv'
    OBVIOUS
  <1>1. TypeOK /\ \A r \in Request : RequestOK(r)
    BY DEF IInv
  <1>2. ASSUME NEW q \in Request PROVE RequestOK(q)'
    <2>1. ASSUME NEW r \in Request, StepOf(r) PROVE RequestOK(q)'
      <3>1. CASE q = r
        BY <1>1, <2>1, <3>1, RequestStep
      <3>2. CASE q # r
        BY <1>1, <2>1, <3>2, Local, Frame
      <3> QED
        BY <3>1, <3>2
    <2>2. CASE Crash
      BY <1>1, <2>2, IdStable DEF Crash, TypeOK, VarsOK, RequestOK, SessionOK, WritesOK,
         AnswerOK, tables, server, StatementSteps, TxSteps
    <2>3. CASE UNCHANGED vars
      BY <1>1, <2>3, Frame DEF vars, tables, server, handler
    <2> QED
      BY <2>1, <2>2, <2>3, StepCases
  <1> QED
    BY <1>1, <1>2, TypeStep, KeysStep, OwnersStep, AnnouncedStep DEF IInv

\* So it always holds.
LEMMA Invariant == Spec => []IInv
  BY InvInit, InvStep, PTL DEF Spec

\* Types, for any number of requests, ids and connections.
THEOREM TypeCorrect == Spec => []TypeOK
  <1>1. IInv => TypeOK
    BY DEF IInv
  <1> QED
    BY <1>1, Invariant, PTL

\* Each registered customer is announced by one event, and nobody else is: the
\* row and its event are never parted, and no race on an id makes two of them.
THEOREM EachIsAnnounced == Spec => []AnnouncedOnce
  <1>1. IInv => AnnouncedOnce
    BY DEF IInv
  <1> QED
    BY <1>1, Invariant, PTL

\* A 201 says that the customer is durable and the client's own.
THEOREM CreatedAreOwned == Spec => []CreatedIsOwned
  <1>1. IInv => CreatedIsOwned
    BY DEF IInv, RequestOK, AnswerOK, OwnersOK, CreatedIsOwned
  <1> QED
    BY <1>1, Invariant, PTL

\* A 409 says that the customer exists, not that somebody is about to create it.
THEOREM ConflictsAreReal == Spec => []ConflictIsReal
  <1>1. IInv => ConflictIsReal
    BY DEF IInv, RequestOK, AnswerOK, ConflictIsReal
  <1> QED
    BY <1>1, Invariant, PTL

(***************************************************************************)
(* CustomerService implements the ledger.                                  *)
(***************************************************************************)
\* What the ledger calls the announcement of customer c.
Announcement(c) ==
  [type |-> "CustomerCreated", aggregate |-> c, customer |-> c, total |-> 0]

\* A commit is the ledger's Register.
LEMMA CommitIsRegister ==
  ASSUME IInv, NEW r \in Request, ServerCommits(r)
  PROVE  Ledger!Register(IdOf(r))
  <1> DEFINE c == IdOf(r)
             n == Len(outbox)
             V == {Announcement(x) : x \in CustomerId}
             B == [i \in 1..(n + 1) |-> Announcement(outbox'[i])]
  <1>1. /\ customers' = customers \cup {c} /\ c \notin customers /\ c \in CustomerId
        /\ outbox' = Append(outbox, c) /\ outbox \in Seq(CustomerId)
    BY CommitRegisters DEF IInv, TypeOK, VarsOK
  <1>2. n \in Nat /\ Len(outbox') = n + 1 /\ outbox'[n + 1] = c
    BY <1>1
  <1>3. \A i \in 1..n : outbox'[i] = outbox[i]
    BY <1>1
  <1>4. Announcements \in Seq(V) /\ Len(Announcements) = n
    BY <1>1, <1>2 DEF Announcements, Announcement
  <1>5. Announcements' = B /\ \A i \in 1..n : Announcements[i] = Announcement(outbox[i])
    BY <1>2 DEF Announcements, Announcement
  <1>6. Announcement(c) \in V
    BY <1>1
  <1> HIDE DEF V, c
  <1>7. Append(Announcements, Announcement(c)) = B
    <2> DEFINE A == Append(Announcements, Announcement(c))
    <2>1. A \in Seq(V) /\ Len(A) = n + 1
      BY <1>2, <1>4, <1>6
    <2>2. A[n + 1] = Announcement(c) /\ \A i \in 1..n : A[i] = Announcements[i]
      BY <1>2, <1>4, <1>6
    <2> HIDE DEF A
    <2>3. ASSUME NEW i \in 1..(n + 1)
          PROVE  A[i] = Announcement(outbox'[i])
      <3>1. CASE i = n + 1
        BY <1>2, <2>2, <3>1
      <3>2. CASE i \in 1..n
        BY <1>3, <1>5, <2>2, <3>2
      <3> QED
        BY <1>2, <3>1, <3>2
    <2>4. A = [i \in 1..(n + 1) |-> A[i]]
      BY <1>2, <2>1
    <2> QED
      BY <2>3, <2>4 DEF A
  <1>8. Announcement(c) = Ledger!CustomerAnnounced(c)
    BY DEF Announcement, Ledger!CustomerAnnounced
  <1> QED
    BY <1>1, <1>5, <1>7, <1>8 DEF Ledger!Register, NoStock, c

\* Every other step leaves what the ledger sees alone.
LEMMA LedgerStep == IInv /\ [Next]_vars => [Ledger!Next]_(Ledger!ledger)
  <1> SUFFICES ASSUME IInv, [Next]_vars PROVE [Ledger!Next]_(Ledger!ledger)
    OBVIOUS
  <1>1. TypeOK /\ \A r \in Request : RequestOK(r)
    BY DEF IInv
  <1>2. ASSUME NEW r \in Request, ServerCommits(r)
        PROVE  Ledger!Next
    <2>1. IdOf(r) \in CustomerId
      BY <1>1, IdType
    <2> QED
      BY <1>2, <2>1, CommitIsRegister DEF Ledger!Next
  <1>3. ASSUME NEW r \in Request, StepOf(r), ~ServerCommits(r)
        PROVE  customers' = customers /\ outbox' = outbox
    BY <1>1, <1>3, QuietSteps DEF Quiet, Create, tables
  <1>4. CASE Crash \/ UNCHANGED vars
    BY <1>4 DEF Crash, vars, tables, Ledger!ledger, Announcements, NoStock
  <1>5. CASE customers' = customers /\ outbox' = outbox
    BY <1>5 DEF Ledger!ledger, Announcements, NoStock
  <1> QED
    BY <1>2, <1>3, <1>4, <1>5, StepCases

\* The service starts as the ledger does.
LEMMA LedgerInit == Init => Ledger!Init
  <1> SUFFICES ASSUME Init PROVE Ledger!Init
    OBVIOUS
  <1>1. Announcements = <<>>
    BY DEF Init, Announcements
  <1> QED
    BY <1>1 DEF Init, Ledger!Init

\* Refinement: registering customers under races, crashes and lost replies is
\* the ledger's Register, as OrderService assumes of it.
THEOREM ImplementsLedger == Spec => LedgerSpec
  BY LedgerInit, LedgerStep, Invariant, PTL DEF Spec, LedgerSpec, Ledger!Spec
=============================================================================
