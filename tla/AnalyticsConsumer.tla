------------------------- MODULE AnalyticsConsumer -------------------------
(***************************************************************************)
(* analytics-consumer: the Kafka loop, the event filter and the projector, *)
(* which marks an event as processed in one statement and adds it to the   *)
(* day's statistics in another.  The projector opens no transaction, so    *)
(* each statement commits by itself.                                       *)
(*                                                                         *)
(* SIGTERM cancels the context every call of the loop takes.  What         *)
(* FetchMessage and CommitMessages do then is a select between the context *)
(* and their channel: either can win.                                      *)
(***************************************************************************)
EXTENDS KafkaReader, FiniteSets, Functions

CONSTANTS
  Day,            \* the dates of created_at
  analytics,      \* the consumer group
  orderEvents,    \* its topic, order.events
  MaxLog,         \* bound: messages on the topic
  MaxCrashes,     \* bound: crashes and shutdowns of the process
  MaxErrors,      \* bound: failed statements
  MaxDisruptions  \* bound: rebalances and failed offset commits

\* A message is [id, type, cents, day, partition].  The services' publishers
\* are the only producers, so every payload parses and every id and date is set.
ASSUME AnalyticsConstants ==
  /\ Group = {analytics} /\ TopicOf[analytics] = orderEvents
  /\ \A m, n \in Message : m.id = n.id => m = n
  /\ \A m \in Message : m.cents \in Nat /\ m.day \in Day
  /\ IsFiniteSet(Day)
  /\ MaxCrashes \in Nat /\ MaxErrors \in Nat /\ MaxDisruptions \in Nat

VARIABLES
  processed,   \* processed_events of this consumer: event ids
  statistics,  \* statistics[d]: the row of order_analytics, zeros if absent
  step,        \* "fetch", "handle", "project", "commit", "stopped"
  ignored,     \* the ids logged as "duplicate analytics event ignored"
  failed,      \* the ids whose handler has returned an error
  stopping,    \* the context of main is cancelled
  crashes, errors, disruptions   \* what has gone wrong so far

history == <<ignored, failed>>
process == <<stopping, crashes, errors, disruptions>>
analyticsVars == <<processed, statistics, step, history, process>>
vars == <<readerVars, analyticsVars>>

Msg == InHand(analytics)

Init ==
  /\ ReaderInit
  /\ processed = {}
  /\ statistics = [d \in Day |-> [count |-> 0, revenue |-> 0]]
  /\ step = "fetch"
  /\ ignored = {} /\ failed = {} /\ stopping = FALSE
  /\ crashes = 0 /\ errors = 0 /\ disruptions = 0

Goto(s) == step' = s

Relay(m) ==
  /\ Cardinality(UNION {{<<p, i>> : i \in DOMAIN log[orderEvents][p]} : p \in Partition}) < MaxLog
  /\ Deliver(orderEvents, m)
  /\ UNCHANGED analyticsVars

\* Mutant: ReadMessage in place of FetchMessage.
FetchByRead(p) ==
  /\ step = "fetch"
  /\ ReadMessage(analytics, p)
  /\ Goto("handle")
  /\ UNCHANGED <<processed, statistics, history, process>>

Fetch(p) ==
  /\ step = "fetch"
  /\ FetchMessage(analytics, p)
  /\ Goto("handle")
  /\ UNCHANGED <<processed, statistics, history, process>>

\* handleMessage returns an error: the loop goes on without committing.
HandleFails ==
  /\ Skip(analytics)
  /\ failed' = failed \cup {Msg.id}
  /\ Goto("fetch")

IsOrderCreated(m) == m.type = "OrderCreated"

\* NewOrderCreatedEvent accepts positive totals only, while the orders table and
\* the prices of inventory may be 0: an order of free items is never counted.
Accepts(m) == m.cents > 0

Ignore ==
  /\ step = "handle" /\ ~IsOrderCreated(Msg)
  /\ Goto("commit")
  /\ UNCHANGED <<readerVars, processed, statistics, history, process>>

Reject ==
  /\ step = "handle" /\ IsOrderCreated(Msg) /\ ~Accepts(Msg)
  /\ HandleFails
  /\ UNCHANGED <<processed, statistics, ignored, process>>

AtProjector == step = "handle" /\ IsOrderCreated(Msg) /\ Accepts(Msg)

\* Mutant: no ON CONFLICT check.
SeenNever(m) == FALSE

Seen(m) == m.id \in processed

\* INSERT INTO processed_events ... ON CONFLICT DO NOTHING RETURNING true.
MarkProcessed ==
  /\ ~stopping /\ AtProjector /\ ~Seen(Msg)
  /\ processed' = processed \cup {Msg.id}
  /\ Goto("project")
  /\ UNCHANGED <<readerVars, statistics, history, process>>

IgnoreDuplicate ==
  /\ ~stopping /\ AtProjector /\ Seen(Msg)
  /\ ignored' = ignored \cup {Msg.id}
  /\ Goto("commit")
  /\ UNCHANGED <<readerVars, processed, statistics, failed, process>>

\* Mutant: the UPSERT overwrites the day instead of adding to it.
BumpOverwrite(row, m) == [count |-> 1, revenue |-> m.cents]

\* Mutant: the UPSERT subtracts.
BumpSubtract(row, m) == [count |-> row.count + 1, revenue |-> row.revenue - m.cents]

Bump(row, m) == [count |-> row.count + 1, revenue |-> row.revenue + m.cents]

\* INSERT INTO order_analytics ... ON CONFLICT DO UPDATE.
UpdateStatistics ==
  /\ ~stopping /\ step = "project"
  /\ statistics' = [statistics EXCEPT ![Msg.day] = Bump(@, Msg)]
  /\ Goto("commit")
  /\ UNCHANGED <<readerVars, processed, history, process>>

CommitOffset ==
  /\ step = "commit"
  /\ CommitMessages(analytics)
  /\ Goto("fetch")
  /\ UNCHANGED <<processed, statistics, history, process>>

(***************************************************************************)
(* Failures.                                                               *)
(***************************************************************************)
\* A statement fails, or takes effect and its answer is lost: an error either way.
StatementFails ==
  /\ errors < MaxErrors /\ errors' = errors + 1
  /\ \/ AtProjector /\ UNCHANGED <<processed, statistics>>
     \/ AtProjector /\ processed' = processed \cup {Msg.id} /\ UNCHANGED statistics
     \/ step = "project" /\ UNCHANGED <<processed, statistics>>
     \/ /\ step = "project"
        /\ statistics' = [statistics EXCEPT ![Msg.day] = Bump(@, Msg)]
        /\ UNCHANGED processed
  /\ HandleFails
  /\ UNCHANGED <<ignored, stopping, crashes, disruptions>>

CommitOffsetFails ==
  /\ step = "commit"
  /\ disruptions < MaxDisruptions /\ disruptions' = disruptions + 1
  /\ Skip(analytics)
  /\ Goto("fetch")
  /\ UNCHANGED <<processed, statistics, history, stopping, crashes, errors>>

GroupRebalances ==
  /\ disruptions < MaxDisruptions /\ disruptions' = disruptions + 1
  /\ Rebalance(analytics)
  /\ UNCHANGED <<processed, statistics, step, history, stopping, crashes, errors>>

Crash ==
  /\ crashes < MaxCrashes /\ crashes' = crashes + 1
  /\ Restart({analytics})
  /\ Goto("fetch") /\ stopping' = FALSE
  /\ UNCHANGED <<processed, statistics, history, errors, disruptions>>

(***************************************************************************)
(* Shutdown.                                                               *)
(***************************************************************************)
\* SIGTERM or an interrupt cancels the context.
Shutdown ==
  /\ ~stopping /\ stopping' = TRUE
  /\ crashes < MaxCrashes /\ crashes' = crashes + 1
  /\ UNCHANGED <<readerVars, processed, statistics, step, history, errors, disruptions>>

\* database/sql refuses the projector's next statement.
Cancelled ==
  /\ stopping /\ (AtProjector \/ step = "project")
  /\ HandleFails
  /\ UNCHANGED <<processed, statistics, ignored, process>>

\* CommitMessages returns the context's error and nothing was committed.
CommitOffsetCancelled ==
  /\ stopping /\ step = "commit"
  /\ Skip(analytics)
  /\ Goto("fetch")
  /\ UNCHANGED <<processed, statistics, history, process>>

\* FetchMessage returns context.Canceled: Run returns.
RunEnds ==
  /\ stopping /\ step = "fetch"
  /\ Goto("stopped")
  /\ UNCHANGED <<readerVars, processed, statistics, history, process>>

\* The reader has been closed, and somebody starts the consumer again.
StartAgain ==
  /\ step = "stopped"
  /\ Restart({analytics})
  /\ Goto("fetch") /\ stopping' = FALSE
  /\ UNCHANGED <<processed, statistics, history, crashes, errors, disruptions>>

(***************************************************************************)
(* The specification.                                                      *)
(***************************************************************************)
Handle == \/ Ignore \/ Reject \/ MarkProcessed \/ IgnoreDuplicate
          \/ UpdateStatistics \/ CommitOffset

StopStep == Cancelled \/ CommitOffsetCancelled \/ RunEnds \/ StartAgain

\* Everything delivered has been fetched: the loop waits in FetchMessage.
CaughtUp ==
  /\ step = "fetch"
  /\ \A p \in Partition : position[analytics][p] > Len(log[orderEvents][p])
  /\ UNCHANGED vars

ConsumerStep ==
  \/ \E p \in Partition : Fetch(p)
  \/ Handle
  \/ StatementFails
  \/ CommitOffsetFails
  \/ GroupRebalances
  \/ Crash
  \/ Shutdown
  \/ StopStep

Next ==
  \/ \E m \in Message : Relay(m)
  \/ ConsumerStep
  \/ CaughtUp

Spec == Init /\ [][Next]_vars

\* The loop keeps running, every partition gets its turn, and a consumer that
\* was stopped comes to its end and is started again.
Fairness ==
  /\ WF_vars(Handle)
  /\ \A p \in Partition : WF_vars(Fetch(p))
  /\ WF_vars(Cancelled) /\ WF_vars(RunEnds) /\ WF_vars(StartAgain)

FairSpec == Spec /\ Fairness

(***************************************************************************)
(* Properties.                                                             *)
(***************************************************************************)
TypeOK ==
  /\ ReaderTypeOK
  /\ processed \subseteq {m.id : m \in Message}
  /\ statistics \in [Day -> [count : Nat, revenue : Nat]]
  /\ step \in {"fetch", "handle", "project", "commit", "stopped"}
  /\ (step \in {"fetch", "stopped"}) = ~Holding(analytics)
  /\ ignored \subseteq processed
  /\ failed \subseteq {m.id : m \in Message}
  /\ stopping \in BOOLEAN
  /\ crashes \in 0..MaxCrashes
  /\ errors \in 0..MaxErrors
  /\ disruptions \in 0..MaxDisruptions

\* The statistics of a set of events, each counted once.
StatisticsOf(S) == [d \in Day |->
  LET today == {m \in Message : m.id \in S /\ m.day = d}
  IN [count |-> Cardinality(today),
      revenue |-> SumFunction([m \in today |-> m.cents])]]

\* However often an event is delivered, and wherever the process dies, the rows
\* of order_analytics are those of some processed orders, each counted once.
CountedOnce == \E S \in SUBSET processed : statistics = StatisticsOf(S)

Uncounted ==
  Cardinality(processed) - SumFunction([d \in Day |-> statistics[d].count])

\* Only a failure between the two statements loses an order: what is processed
\* and not counted is bounded by the failed statements, the crashes and the
\* shutdowns, one order each, however many messages a cancelled loop still takes.
LossIsBounded ==
  Uncounted <= crashes + errors + (IF step = "project" THEN 1 ELSE 0)

\* An acknowledged order has been processed unless its own handler returned an
\* error: crashes, rebalances, failed commits and the failures of other messages
\* lead to redelivery, never to a gap.
AckedIsProcessed == \A m \in Acknowledged(analytics) :
  IsOrderCreated(m) => m.id \in processed \cup failed

\* "duplicate analytics event ignored" (kafka.go:135): what is ignored as a
\* duplicate has been counted before.  The code does not keep this: a crash
\* between the two statements leaves an event processed and never counted.
IgnoredWasCounted ==
  \E S \in SUBSET processed : ignored \subseteq S /\ statistics = StatisticsOf(S)

\* Every order on the topic is processed in the end, through crashes, shutdowns
\* and rebalances, unless its handler returns an error.
EveryOrderProcessed == \A m \in Message :
  (m \in Appended(orderEvents) /\ IsOrderCreated(m))
    ~> (m.id \in processed \cup failed)
=============================================================================
