----------------------- MODULE AnalyticsConsumerProofs -----------------------
(***************************************************************************)
(* What holds of AnalyticsConsumer for every set of messages, partitions   *)
(* and days and every number of failures, with proofs TLAPS checks: the    *)
(* types, and that no order is acknowledged undone.                        *)
(***************************************************************************)
EXTENDS AnalyticsConsumer, KafkaReaderProofs, SumLemmas

\* The messages the consumer has nothing left to do for.
Handled == {m \in Message : IsOrderCreated(m) => m.id \in processed \cup failed}
\* The same after a step.
HandledNext == {m \in Message : IsOrderCreated(m) => m.id \in processed' \cup failed'}

\* The inductive invariant.
IInv ==
  /\ TypeOK
  /\ OffsetsOK
  /\ Passed(analytics, Handled)
  /\ step \in {"project", "commit"} => Msg \in Handled

(***************************************************************************)
(* The message in hand.                                                    *)
(***************************************************************************)
\* The constants name a group and the topic it reads.
LEMMA GroupFacts == analytics \in Group /\ orderEvents \in Topic
  BY AnalyticsConstants, ReaderConstants

\* Beyond "fetch" there is a message in hand, and it is one of the messages.
LEMMA MsgType ==
  ASSUME TypeOK, OffsetsOK, step \in {"handle", "project", "commit"}
  PROVE  /\ Holding(analytics) /\ Msg \in Message
         /\ Msg.day \in Day /\ Msg.cents \in Nat
  <1>1. Holding(analytics)
    BY DEF TypeOK
  <1>2. Msg \in Message
    BY <1>1, InHandType, GroupFacts DEF TypeOK, ReaderOK, Msg
  <1> QED
    BY <1>1, <1>2, AnalyticsConstants

\* The rows of order_analytics stay rows.
LEMMA BumpType ==
  ASSUME TypeOK, NEW m \in Message,
         statistics' = [statistics EXCEPT ![m.day] = Bump(@, m)]
  PROVE  statistics' \in [Day -> [count : Nat, revenue : Nat]]
  <1>1. m.day \in Day /\ m.cents \in Nat
    BY AnalyticsConstants
  <1>2. statistics[m.day] \in [count : Nat, revenue : Nat]
    BY <1>1 DEF TypeOK
  <1>3. Bump(statistics[m.day], m) \in [count : Nat, revenue : Nat]
    BY <1>1, <1>2 DEF Bump
  <1> QED
    BY <1>3 DEF TypeOK

(***************************************************************************)
(* Steps.                                                                  *)
(***************************************************************************)
\* The parts of TypeOK that are the consumer's own.
LocalType ==
  /\ processed \subseteq {m.id : m \in Message}
  /\ statistics \in [Day -> [count : Nat, revenue : Nat]]
  /\ step \in {"fetch", "handle", "project", "commit", "stopped"}
  /\ ignored \subseteq processed
  /\ failed \subseteq {m.id : m \in Message}
  /\ stopping \in BOOLEAN
  /\ crashes \in 0..MaxCrashes
  /\ errors \in 0..MaxErrors
  /\ disruptions \in 0..MaxDisruptions

\* The type invariant is those and the reader's.
LEMMA TypeParts ==
  TypeOK <=> /\ ReaderTypeOK /\ LocalType
             /\ (step \in {"fetch", "stopped"}) = ~Holding(analytics)
  BY DEF TypeOK, LocalType

\* Every step keeps the consumer's own part.
LEMMA LocalTypeStep ==
  ASSUME IInv, Next
  PROVE  LocalType'
  <1>1. TypeOK /\ OffsetsOK /\ LocalType
    BY TypeParts DEF IInv
  <1>2. AtProjector \/ step = "project" => Msg.id \in {m.id : m \in Message} /\ Msg \in Message
    BY <1>1, MsgType DEF AtProjector
  <1>3. step \in {"handle", "project", "commit"} => Msg.id \in {m.id : m \in Message} /\ Msg \in Message
    BY <1>1, MsgType
  <1>4. CASE \E m \in Message : Relay(m)
    BY <1>1, <1>4 DEF LocalType, Relay, analyticsVars, history, process
  <1>5. CASE \E p \in Partition : Fetch(p)
    BY <1>1, <1>5 DEF LocalType, Fetch, Goto, history, process
  <1>6. CASE Handle
    BY <1>1, <1>2, <1>3, <1>6, BumpType DEF LocalType, Handle, Ignore, Reject, MarkProcessed,
       IgnoreDuplicate, UpdateStatistics, CommitOffset, HandleFails, Goto, AtProjector,
       Seen, history, process
  <1>7. CASE StatementFails
    <2>1. crashes' = crashes /\ disruptions' = disruptions /\ stopping' = stopping
          /\ ignored' = ignored /\ errors' \in 0..MaxErrors /\ step' = "fetch"
          /\ failed' = failed \cup {Msg.id}
      BY <1>1, <1>7, AnalyticsConstants DEF LocalType, StatementFails, HandleFails, Goto
    <2>2. Msg \in Message /\ Msg.id \in {m.id : m \in Message}
      BY <1>2, <1>7 DEF StatementFails
    <2>3. processed' \in {processed, processed \cup {Msg.id}}
      BY <1>7 DEF StatementFails
    <2>4. statistics' \in [Day -> [count : Nat, revenue : Nat]]
      BY <1>1, <1>7, <2>2, BumpType DEF StatementFails, LocalType
    <2> QED
      BY <1>1, <2>1, <2>2, <2>3, <2>4 DEF LocalType
  <1>8. CASE CommitOffsetFails \/ GroupRebalances
    <2>1. disruptions' \in 0..MaxDisruptions
      BY <1>1, <1>8, AnalyticsConstants DEF LocalType, CommitOffsetFails, GroupRebalances
    <2> QED
      BY <1>1, <1>8, <2>1 DEF LocalType, CommitOffsetFails, GroupRebalances, Goto, history
  <1>9. CASE Crash \/ Shutdown
    <2>1. crashes' \in 0..MaxCrashes
      BY <1>1, <1>9, AnalyticsConstants DEF LocalType, Crash, Shutdown
    <2>2. stopping' \in BOOLEAN /\ step' \in {"fetch", step}
      BY <1>9 DEF Crash, Shutdown, Goto
    <2> QED
      BY <1>1, <1>9, <2>1, <2>2 DEF LocalType, Crash, Shutdown, history
  <1>10. CASE StopStep
    BY <1>1, <1>2, <1>10 DEF LocalType, StopStep, Cancelled, CommitOffsetCancelled, RunEnds,
       StartAgain, HandleFails, Goto, history, process
  <1>11. CASE CaughtUp
    BY <1>1, <1>11 DEF LocalType, CaughtUp, vars, analyticsVars, history, process
  <1> QED
    BY <1>4, <1>5, <1>6, <1>7, <1>8, <1>9, <1>10, <1>11 DEF Next, ConsumerStep

\* What the steps do to the reader, and what they are done with then.
Call(E) ==
  \/ \E m \in Message : Deliver(orderEvents, m) /\ step' = step
  \/ \E p \in Partition : FetchMessage(analytics, p) /\ step' = "handle"
  \/ Skip(analytics) /\ step' = "fetch" /\ Holding(analytics) /\ Msg \in E
  \/ CommitMessages(analytics) /\ step' = "fetch" /\ Holding(analytics) /\ Msg \in E
  \/ Rebalance(analytics) /\ step' = step
  \/ Restart(Group) /\ step' = "fetch"
  \/ /\ UNCHANGED readerVars
     /\ (step' \in {"fetch", "stopped"}) = (step \in {"fetch", "stopped"})
     /\ step' \in {"project", "commit"} /\ step' # step => Msg \in E

\* The sets of ids only grow.
LEMMA Monotone ==
  ASSUME Next
  PROVE  processed \subseteq processed' /\ failed \subseteq failed'
  BY DEF Next, ConsumerStep, Handle, StopStep, Relay, Fetch, Ignore, Reject,
     MarkProcessed, IgnoreDuplicate, UpdateStatistics, CommitOffset, StatementFails,
     CommitOffsetFails, GroupRebalances, Crash, Shutdown, Cancelled,
     CommitOffsetCancelled, RunEnds, StartAgain, CaughtUp, HandleFails, vars,
     analyticsVars, history

\* Every step makes one of these calls.
LEMMA Calls ==
  ASSUME IInv, Next
  PROVE  Call(HandledNext) /\ Handled \subseteq HandledNext
  <1>1. Handled \subseteq HandledNext
    BY Monotone DEF Handled, HandledNext
  <1> SUFFICES Call(HandledNext)
    BY <1>1
  <1>2. TypeOK /\ OffsetsOK /\ (step \in {"project", "commit"} => Msg \in HandledNext)
    BY <1>1 DEF IInv
  <1>3. step \in {"handle", "project", "commit"} => Holding(analytics) /\ Msg \in Message
    BY <1>2, MsgType
  <1>4. CASE \E m \in Message : Relay(m)
    BY <1>4 DEF Relay, analyticsVars, Call
  <1>5. CASE \E p \in Partition : Fetch(p)
    BY <1>5 DEF Fetch, Goto, Call
  <1>6. CASE Reject \/ StatementFails \/ Cancelled
    <2>1. step \in {"handle", "project"} /\ HandleFails
      BY <1>6 DEF Reject, StatementFails, Cancelled, AtProjector
    <2>2. Msg \in HandledNext
      BY <1>3, <2>1 DEF HandleFails, HandledNext
    <2> QED
      BY <1>3, <2>1, <2>2 DEF HandleFails, Goto, Call
  <1>7. CASE CommitOffset \/ CommitOffsetFails \/ CommitOffsetCancelled
    <2>1. /\ step = "commit" /\ step' = "fetch"
          /\ CommitMessages(analytics) \/ Skip(analytics)
      BY <1>7 DEF CommitOffset, CommitOffsetFails, CommitOffsetCancelled, Goto
    <2> QED
      BY <1>2, <1>3, <2>1 DEF Call
  <1>8. CASE Ignore \/ MarkProcessed \/ IgnoreDuplicate
    <2>1. step = "handle" /\ step' \in {"project", "commit"} /\ UNCHANGED readerVars
      BY <1>8 DEF Ignore, MarkProcessed, IgnoreDuplicate, AtProjector, Goto
    <2>2. Msg \in HandledNext
      <3>1. ~IsOrderCreated(Msg) \/ Msg.id \in processed'
        BY <1>8 DEF Ignore, MarkProcessed, IgnoreDuplicate, AtProjector, Seen
      <3> QED
        BY <1>3, <2>1, <3>1 DEF HandledNext
    <2> QED
      BY <2>1, <2>2 DEF Call
  <1>9. CASE UpdateStatistics
    <2>1. step = "project" /\ step' = "commit" /\ UNCHANGED readerVars
      BY <1>9 DEF UpdateStatistics, Goto
    <2> QED
      BY <1>2, <2>1 DEF Call
  <1>10. CASE Shutdown \/ CaughtUp
    <2>1. step' = step /\ UNCHANGED readerVars
      BY <1>10 DEF Shutdown, CaughtUp, vars, analyticsVars
    <2> QED
      BY <2>1 DEF Call
  <1>11. CASE RunEnds
    <2>1. step = "fetch" /\ step' = "stopped" /\ UNCHANGED readerVars
      BY <1>11 DEF RunEnds, Goto
    <2> QED
      BY <2>1 DEF Call
  <1>12. CASE Crash \/ StartAgain
    <2>1. Restart(Group) /\ step' = "fetch"
      BY <1>12, AnalyticsConstants DEF Crash, StartAgain, Goto
    <2> QED
      BY <2>1 DEF Call
  <1>13. CASE GroupRebalances
    BY <1>13 DEF GroupRebalances, Call
  <1> QED
    BY <1>4, <1>5, <1>6, <1>7, <1>8, <1>9, <1>10, <1>11, <1>12, <1>13
       DEF Next, ConsumerStep, Handle, StopStep

\* The reader stays well-formed, and passes over nothing the consumer is not
\* done with.
LEMMA ReaderStep ==
  ASSUME IInv, NEW E, Call(E), Handled \subseteq E
  PROVE  ReaderOK' /\ Passed(analytics, E)'
  <1>1. ReaderOK /\ Passed(analytics, E) /\ analytics \in Group /\ orderEvents \in Topic
    <2>1. TypeOK /\ OffsetsOK /\ Passed(analytics, Handled)
      BY DEF IInv
    <2> QED
      BY <2>1, GroupFacts, PassedGrows DEF TypeOK, ReaderOK
  <1>2. CASE \E m \in Message : Deliver(orderEvents, m)
    BY <1>1, <1>2, DeliverOK, DeliverPassed
  <1>3. CASE \E p \in Partition : FetchMessage(analytics, p)
    BY <1>1, <1>3, FetchOK, FetchPassed
  <1>4. CASE Skip(analytics) /\ Holding(analytics) /\ Msg \in E
    BY <1>1, <1>4, SkipOK, SkipPassed DEF Msg
  <1>5. CASE CommitMessages(analytics) /\ Holding(analytics) /\ Msg \in E
    BY <1>1, <1>5, CommitOK, CommitPassed DEF Msg
  <1>6. CASE Rebalance(analytics)
    BY <1>1, <1>6, RebalanceOK, RebalancePassed
  <1>7. CASE Restart(Group)
    BY <1>1, <1>7, RestartOK, RestartPassed
  <1>8. CASE UNCHANGED readerVars
    BY <1>1, <1>8, StillOK, StillPassed
  <1> QED
    BY <1>2, <1>3, <1>4, <1>5, <1>6, <1>7, <1>8 DEF Call

\* A loop that has a message in hand is not at FetchMessage, and the other way
\* round.
LEMMA HoldingStep ==
  ASSUME IInv, NEW E, Call(E)
  PROVE  (step' \in {"fetch", "stopped"}) = ~Holding(analytics)'
  <1>1. (step \in {"fetch", "stopped"}) = ~Holding(analytics)
    BY DEF IInv, TypeOK
  <1>2. analytics \in Group /\ held \in [Group -> {Nowhere} \cup [partition : Partition, offset : Nat \ {0}]]
        /\ position \in [Group -> [Partition -> Nat \ {0}]]
    BY GroupFacts DEF IInv, TypeOK, ReaderTypeOK
  <1>3. CASE \/ \E m \in Message : Deliver(orderEvents, m) /\ step' = step
             \/ Rebalance(analytics) /\ step' = step
             \/ /\ UNCHANGED readerVars
                /\ (step' \in {"fetch", "stopped"}) = (step \in {"fetch", "stopped"})
    BY <1>1, <1>3 DEF Deliver, Rebalance, readerVars, Holding
  <1>4. CASE \E p \in Partition : FetchMessage(analytics, p) /\ step' = "handle"
    <2>1. PICK p \in Partition : held'[analytics] = [partition |-> p, offset |-> position[analytics][p]]
      BY <1>2, <1>4 DEF FetchMessage
    <2>2. position[analytics][p] # 0
      BY <1>2
    <2>3. held'[analytics] # Nowhere
      BY <2>1, <2>2 DEF Nowhere
    <2> QED
      BY <1>4, <2>3 DEF Holding
  <1>5. CASE \/ Skip(analytics) /\ step' = "fetch"
             \/ CommitMessages(analytics) /\ step' = "fetch"
             \/ Restart(Group) /\ step' = "fetch"
    BY <1>2, <1>5 DEF Skip, CommitMessages, Restart, Holding
  <1> QED
    BY <1>3, <1>4, <1>5 DEF Call

\* A message in hand stays the same while the loop works on it.
LEMMA MsgKept ==
  ASSUME IInv, NEW E, Call(E), step' \in {"project", "commit"}
  PROVE  Msg' = Msg /\ step \in {"handle", "project", "commit"}
  <1>1. ReaderOK /\ analytics \in Group /\ orderEvents \in Topic
    BY GroupFacts DEF IInv, TypeOK, ReaderOK
  <1>2. \/ \E m \in Message : Deliver(orderEvents, m) /\ step' = step
        \/ Rebalance(analytics) /\ step' = step
        \/ /\ UNCHANGED readerVars
           /\ (step' \in {"fetch", "stopped"}) = (step \in {"fetch", "stopped"})
    BY DEF Call
  <1>3. step \in {"handle", "project", "commit"}
    BY <1>2 DEF IInv, TypeOK
  <1>4. Holding(analytics)
    BY <1>3, MsgType DEF IInv
  <1>5. held' = held
    BY <1>2 DEF Deliver, Rebalance, readerVars
  <1>6. (\E t \in Topic, m \in Message : Deliver(t, m)) \/ log' = log
    BY <1>1, <1>2 DEF Rebalance, readerVars
  <1> QED
    BY <1>1, <1>3, <1>4, <1>5, <1>6, InHandKept DEF Msg

\* The consumer is done with a message before it commits it.
LEMMA DoneStep ==
  ASSUME IInv, NEW E, Call(E), Handled \subseteq E, step' \in {"project", "commit"}
  PROVE  Msg' \in E
  <1>1. step \in {"project", "commit"} => Msg \in E
    BY DEF IInv
  <1>2. step' = step \/ Msg \in E
    BY DEF Call
  <1> QED
    BY <1>1, <1>2, MsgKept

(***************************************************************************)
(* The inductive invariant and what it gives.                              *)
(***************************************************************************)
\* The invariant holds at the start.
LEMMA InvInit == Init => IInv
  <1> SUFFICES ASSUME Init PROVE IInv
    OBVIOUS
  <1>1. ReaderOK /\ Passed(analytics, Handled)
    BY ReaderInitOK, InitPassed, GroupFacts DEF Init
  <1>2. LocalType
    <2>1. 0 \in 0..MaxCrashes /\ 0 \in 0..MaxErrors /\ 0 \in 0..MaxDisruptions
      BY AnalyticsConstants
    <2>2. statistics \in [Day -> [count : Nat, revenue : Nat]]
      BY DEF Init
    <2> QED
      BY <2>1, <2>2 DEF Init, LocalType
  <1>3. ~Holding(analytics) /\ step = "fetch"
    BY GroupFacts DEF Init, ReaderInit, Holding
  <1> QED
    BY <1>1, <1>2, <1>3, TypeParts DEF IInv, ReaderOK

\* Every step keeps it.
LEMMA InvStep == IInv /\ [Next]_vars => IInv'
  <1> SUFFICES ASSUME IInv, [Next]_vars PROVE IInv'
    OBVIOUS
  <1>1. ASSUME Next, NEW E, E = HandledNext
        PROVE  IInv'
    <2>1. Handled' = E
      BY <1>1 DEF Handled, HandledNext
    <2>2. Call(E) /\ Handled \subseteq E
      BY <1>1, Calls
    <2>3. ReaderOK' /\ Passed(analytics, E)'
      BY <2>2, ReaderStep
    <2>4. TypeOK'
      <3>1. LocalType' /\ ReaderTypeOK'
        BY <1>1, <2>3, LocalTypeStep DEF ReaderOK
      <3>2. (step' \in {"fetch", "stopped"}) = ~Holding(analytics)'
        BY <2>2, HoldingStep
      <3> QED
        BY <3>1, <3>2 DEF TypeOK, LocalType
    <2>5. step' \in {"project", "commit"} => Msg' \in E
      BY <2>2, DoneStep
    <2>6. Passed(analytics, Handled)'
      BY <2>1, <2>3 DEF Passed
    <2> QED
      BY <2>1, <2>3, <2>4, <2>5, <2>6 DEF IInv, ReaderOK
  <1>2. CASE UNCHANGED vars
    BY <1>2 DEF vars, readerVars, analyticsVars, history, process, IInv, TypeOK,
       ReaderTypeOK, OffsetsOK, Passed, Handled, Msg, InHand, MessageAt, LogOf, Holding
  <1> QED
    BY <1>1, <1>2

\* So it always holds.
LEMMA Invariant == Spec => []IInv
  BY InvInit, InvStep, PTL DEF Spec

(***************************************************************************)
(* What is counted.                                                        *)
(***************************************************************************)
\* How many failures may have lost an order, and the one that may be lost next.
Bound == crashes + errors + (IF step = "project" /\ ~stopping THEN 1 ELSE 0)

\* The statistics are those of some processed orders, the one in hand not yet
\* among them while it waits to be counted, and a shutdown has already paid for
\* the order it cancels.
CountInv ==
  /\ IsFiniteSet(processed)
  /\ step = "project" => Msg.id \in processed
  /\ \E S \in SUBSET processed :
       /\ statistics = StatisticsOf(S)
       /\ step = "project" => Msg.id \notin S
  /\ Uncounted <= Bound

Counts == [d \in Day |-> statistics[d].count]

\* A step marks an order, or counts it, or does neither.
MarkStep ==
  /\ processed' = processed \cup {Msg.id} /\ statistics' = statistics
  /\ step' = "project" => Msg.id \notin processed /\ Msg' = Msg
  /\ Bound' = Bound + 1

CountStep ==
  /\ processed' = processed
  /\ statistics' = [statistics EXCEPT ![Msg.day] = Bump(@, Msg)]
  /\ step = "project" /\ step' # "project"
  /\ Bound' >= Bound - 1

RestStep ==
  /\ UNCHANGED <<processed, statistics>>
  /\ step' = "project" => step = "project" /\ Msg' = Msg
  /\ Bound' >= Bound

\* Which steps do which.
LEMMA CountCases ==
  ASSUME IInv, Next
  PROVE  MarkStep \/ CountStep \/ RestStep
  <1>1. /\ crashes \in Nat /\ errors \in Nat
        /\ stopping \in BOOLEAN
    BY AnalyticsConstants DEF IInv, TypeOK
  <1>2. step' \in {"project", "commit"} => Msg' = Msg
    BY Calls, MsgKept
  <1>3. CASE MarkProcessed
    BY <1>1, <1>2, <1>3 DEF MarkProcessed, Seen, AtProjector, Goto, MarkStep, Bound, process,
       history
  <1>4. CASE UpdateStatistics
    BY <1>1, <1>4 DEF UpdateStatistics, Goto, CountStep, Bound, process, history
  <1>5. CASE StatementFails
    <2>1. step' = "fetch" /\ errors' = errors + 1 /\ crashes' = crashes /\ stopping' = stopping
      BY <1>5 DEF StatementFails, HandleFails, Goto
    <2>2. CASE AtProjector /\ UNCHANGED <<processed, statistics>>
      BY <1>1, <2>1, <2>2 DEF AtProjector, RestStep, Bound
    <2>3. CASE AtProjector /\ processed' = processed \cup {Msg.id} /\ UNCHANGED statistics
      BY <1>1, <2>1, <2>3 DEF AtProjector, MarkStep, Bound
    <2>4. CASE step = "project" /\ UNCHANGED <<processed, statistics>>
      BY <1>1, <2>1, <2>4 DEF RestStep, Bound
    <2>5. CASE /\ step = "project"
               /\ statistics' = [statistics EXCEPT ![Msg.day] = Bump(@, Msg)]
               /\ UNCHANGED processed
      BY <1>1, <2>1, <2>5 DEF CountStep, Bound
    <2> QED
      BY <1>5, <2>2, <2>3, <2>4, <2>5 DEF StatementFails
  <1>6. CASE Crash \/ Shutdown
    <2>1. crashes' = crashes + 1 /\ errors' = errors /\ UNCHANGED <<processed, statistics>>
          /\ step' \in {step, "fetch"}
      BY <1>6 DEF Crash, Shutdown, Goto, history
    <2> QED
      BY <1>1, <1>2, <2>1 DEF RestStep, Bound
  <1>7. CASE Cancelled \/ CommitOffsetCancelled \/ RunEnds \/ StartAgain
    <2>1. /\ crashes' = crashes /\ errors' = errors /\ UNCHANGED <<processed, statistics>>
          /\ step' # "project" /\ (stopping \/ step # "project")
      BY <1>7 DEF Cancelled, CommitOffsetCancelled, RunEnds, StartAgain, HandleFails, Goto,
         history, process
    <2> QED
      BY <1>1, <2>1 DEF RestStep, Bound
  <1>8. CASE Ignore \/ Reject \/ IgnoreDuplicate \/ CommitOffset
    <2>1. /\ UNCHANGED process /\ UNCHANGED <<processed, statistics>>
          /\ step' # "project" /\ step # "project"
      BY <1>8 DEF Ignore, Reject, IgnoreDuplicate, CommitOffset, AtProjector, HandleFails,
         Goto, history
    <2> QED
      BY <1>1, <2>1 DEF RestStep, Bound, process
  <1>9. CASE (\E p \in Partition : Fetch(p)) \/ CommitOffsetFails
    <2>1. /\ crashes' = crashes /\ errors' = errors /\ stopping' = stopping
          /\ UNCHANGED <<processed, statistics>> /\ step' # "project" /\ step # "project"
      BY <1>9 DEF Fetch, CommitOffsetFails, Goto, process
    <2> QED
      BY <1>1, <2>1 DEF RestStep, Bound
  <1>10. CASE (\E m \in Message : Relay(m)) \/ GroupRebalances \/ CaughtUp
    <2>1. /\ crashes' = crashes /\ errors' = errors /\ stopping' = stopping
          /\ UNCHANGED <<processed, statistics>> /\ step' = step
      BY <1>10 DEF Relay, GroupRebalances, CaughtUp, process, history, analyticsVars, vars
    <2> QED
      BY <1>1, <1>2, <2>1 DEF RestStep, Bound
  <1> QED
    BY <1>3, <1>4, <1>5, <1>6, <1>7, <1>8, <1>9, <1>10 DEF Next, ConsumerStep, Handle, StopStep

\* Counting one more order of a day is what Bump does to its row.
LEMMA BumpCounts ==
  ASSUME TypeOK, NEW m \in Message, NEW S, IsFiniteSet(S), m.id \notin S,
         statistics = StatisticsOf(S),
         statistics' = [statistics EXCEPT ![m.day] = Bump(@, m)]
  PROVE  statistics' = StatisticsOf(S \cup {m.id})
  <1> DEFINE T == S \cup {m.id}
             On(U, d) == {n \in Message : n.id \in U /\ n.day = d}
             Revenue(U, d) == SumFunction([n \in On(U, d) |-> n.cents])
  <1>1. \A d \in Day : IsFiniteSet(On(S, d))
    <2> SUFFICES ASSUME NEW d \in Day PROVE IsFiniteSet(On(S, d))
      OBVIOUS
    <2> DEFINE f == [n \in On(S, d) |-> n.id]
    <2>1. f \in [On(S, d) -> S] /\ \A x, y \in On(S, d) : f[x] = f[y] => x = y
      BY AnalyticsConstants
    <2>2. f \in Injection(On(S, d), S)
      BY <2>1 DEF Injection, IsInjective
    <2> QED
      BY <2>2, FS_Injection
  <1>2. \A d \in Day \ {m.day} : On(T, d) = On(S, d)
    BY AnalyticsConstants
  <1>3. On(T, m.day) = On(S, m.day) \cup {m} /\ m \notin On(S, m.day)
    BY AnalyticsConstants
  <1>4. Cardinality(On(T, m.day)) = Cardinality(On(S, m.day)) + 1
    <2>1. IsFiniteSet(On(S, m.day))
      BY <1>1, AnalyticsConstants
    <2> HIDE DEF On
    <2> QED
      BY <1>3, <2>1, FS_AddElement
  <1>5. Revenue(T, m.day) = Revenue(S, m.day) + m.cents
    <2> DEFINE f == [n \in On(S, m.day) |-> n.cents]
               g == [n \in On(T, m.day) |-> n.cents]
    <2>1. f \in [On(S, m.day) -> Nat] /\ g \in [On(S, m.day) \cup {m} -> Nat]
      BY <1>3, AnalyticsConstants
    <2>2. (\A n \in On(S, m.day) : g[n] = f[n]) /\ g[m] = m.cents
      BY <1>3
    <2>3. IsFiniteSet(On(S, m.day))
      BY <1>1, AnalyticsConstants
    <2>4. SumFunction(g) = SumFunction(f) + g[m]
      <3> HIDE DEF f, g, On
      <3> QED
        BY <1>3, <2>1, <2>2, <2>3, SumExtend
    <2> QED
      BY <2>2, <2>4
  <1>6. \A d \in Day, U \in {S, T} : StatisticsOf(U)[d] =
          [count |-> Cardinality(On(U, d)), revenue |-> Revenue(U, d)]
    BY DEF StatisticsOf
  <1>7. ASSUME NEW d \in Day PROVE statistics'[d] = StatisticsOf(T)[d]
    <2>1. CASE d = m.day
      <3>1. statistics'[d] = Bump(statistics[d], m)
        BY <2>1 DEF TypeOK
      <3>2. statistics[d] = [count |-> Cardinality(On(S, m.day)), revenue |-> Revenue(S, m.day)]
        BY <1>6, <2>1
      <3>3. StatisticsOf(T)[d] =
              [count |-> Cardinality(On(T, m.day)), revenue |-> Revenue(T, m.day)]
        BY <1>6, <2>1
      <3> HIDE DEF Revenue, On, T
      <3> QED
        BY <1>4, <1>5, <2>1, <3>1, <3>2, <3>3 DEF Bump
    <2>2. CASE d # m.day
      <3>1. statistics'[d] = statistics[d]
        BY <2>2 DEF TypeOK
      <3> QED
        BY <1>2, <1>6, <2>2, <3>1
    <2> QED
      BY <2>1, <2>2
  <1>8. statistics' = [d \in Day |-> statistics'[d]]
    BY DEF TypeOK
  <1>9. StatisticsOf(T) = [d \in Day |-> StatisticsOf(T)[d]]
    BY DEF StatisticsOf
  <1> HIDE DEF T
  <1>10. [d \in Day |-> statistics'[d]] = [d \in Day |-> StatisticsOf(T)[d]]
    BY <1>7
  <1> QED
    BY <1>8, <1>9, <1>10 DEF T

\* And it adds one to the events that are counted.
LEMMA BumpAddsOne ==
  ASSUME TypeOK, NEW m \in Message,
         statistics' = [statistics EXCEPT ![m.day] = Bump(@, m)]
  PROVE  /\ SumFunction(Counts') = SumFunction(Counts) + 1
         /\ SumFunction(Counts) \in Nat
  <1>1. m.day \in Day /\ IsFiniteSet(Day)
    BY AnalyticsConstants
  <1>2. Counts \in [Day -> Nat]
    BY DEF TypeOK, Counts
  <1>3. \A d \in Day : Counts'[d] = IF d = m.day THEN Counts[d] + 1 ELSE Counts[d]
    BY DEF TypeOK, Counts, Bump
  <1>4. Counts' \in [Day -> Nat]
    BY <1>2, <1>3 DEF Counts
  <1>5. SumFunction(Counts) \in Nat
    BY <1>1, <1>2, SumType
  <1>6. SumFunction(Counts') = SumFunction(Counts) + Counts'[m.day] - Counts[m.day]
    BY <1>1, <1>2, <1>3, <1>4, SumChange
  <1> QED
    BY <1>1, <1>2, <1>3, <1>5, <1>6

\* It holds at the start.
LEMMA CountInit == Init => CountInv
  <1> SUFFICES ASSUME Init PROVE CountInv
    OBVIOUS
  <1>1. processed = {} /\ step = "fetch" /\ crashes = 0 /\ errors = 0
    BY DEF Init
  <1>2. IsFiniteSet({}) /\ Cardinality({}) = 0
    BY FS_EmptySet
  <1>3. statistics = StatisticsOf({})
    <2>1. SumFunction([m \in {} |-> m.cents]) = 0
      <3>1. [m \in {} |-> m.cents] \in [{} -> Nat]
        OBVIOUS
      <3> QED
        BY <1>2, <3>1, SumZero
    <2>2. \A d \in Day : {m \in Message : m.id \in {} /\ m.day = d} = {}
      OBVIOUS
    <2> QED
      BY <1>2, <2>1, <2>2 DEF Init, StatisticsOf
  <1>4. SumFunction(Counts) = 0
    <2>1. Counts \in [Day -> Nat] /\ \A d \in Day : Counts[d] = 0
      BY DEF Init, Counts
    <2> QED
      BY <2>1, SumZero, AnalyticsConstants
  <1>5. Uncounted <= Bound
    <2>1. Uncounted = Cardinality(processed) - SumFunction(Counts)
      BY DEF Uncounted, Counts
    <2> QED
      BY <1>1, <1>2, <1>4, <2>1 DEF Bound
  <1> QED
    BY <1>1, <1>2, <1>3, <1>5 DEF CountInv

\* Every step keeps it.
LEMMA CountStepOK == IInv /\ CountInv /\ [Next]_vars => CountInv'
  <1> SUFFICES ASSUME IInv, CountInv, [Next]_vars PROVE CountInv'
    OBVIOUS
  <1>1. TypeOK /\ OffsetsOK
    BY DEF IInv
  <1>2. /\ IsFiniteSet(processed) /\ Cardinality(processed) \in Nat
        /\ SumFunction(Counts) \in Nat
        /\ Cardinality(processed) - SumFunction(Counts) <= Bound
        /\ Bound \in Nat
    <2>1. Counts \in [Day -> Nat]
      BY <1>1 DEF TypeOK, Counts
    <2>2. SumFunction(Counts) \in Nat
      BY <2>1, SumType, AnalyticsConstants
    <2>3. Bound \in Nat
      BY <1>1, AnalyticsConstants DEF TypeOK, Bound
    <2> QED
      BY <2>2, <2>3, FS_CardinalityType DEF CountInv, Uncounted, Counts
  <1>3. PICK S \in SUBSET processed :
          statistics = StatisticsOf(S) /\ (step = "project" => Msg.id \notin S)
    BY DEF CountInv
  <1>4. Uncounted' = Cardinality(processed') - SumFunction(Counts')
    BY DEF Uncounted, Counts
  <1>5. CASE Next /\ MarkStep
    <2>1. /\ IsFiniteSet(processed') /\ Cardinality(processed') <= Cardinality(processed) + 1
          /\ Cardinality(processed') \in Nat
      <3> DEFINE P == processed \cup {Msg.id}
      <3>1. IsFiniteSet(P) /\ Cardinality(P) \in {Cardinality(processed), Cardinality(processed) + 1}
        BY <1>2, FS_AddElement
      <3>2. processed' = P
        BY <1>5 DEF MarkStep
      <3> HIDE DEF P
      <3> QED
        BY <1>2, <3>1, <3>2
    <2>2. Counts' = Counts
      BY <1>5 DEF MarkStep, Counts
    <2>3. Uncounted' <= Bound'
      BY <1>2, <1>4, <1>5, <2>1, <2>2 DEF MarkStep
    <2>4. S \in SUBSET processed' /\ statistics' = StatisticsOf(S)
      BY <1>3, <1>5 DEF MarkStep
    <2>5. step' = "project" => Msg'.id \in processed' /\ Msg'.id \notin S
      BY <1>3, <1>5 DEF MarkStep
    <2> QED
      BY <2>1, <2>3, <2>4, <2>5 DEF CountInv
  <1>6. CASE Next /\ CountStep
    <2>1. Msg \in Message
      BY <1>1, <1>6, MsgType DEF CountStep
    <2>2. IsFiniteSet(S)
      BY <1>2, FS_Subset
    <2>3. statistics' = StatisticsOf(S \cup {Msg.id})
      BY <1>1, <1>3, <1>6, <2>1, <2>2, BumpCounts DEF CountStep
    <2>4. S \cup {Msg.id} \in SUBSET processed'
      BY <1>6 DEF CountStep, CountInv
    <2>5. SumFunction(Counts') = SumFunction(Counts) + 1
      BY <1>1, <1>6, <2>1, BumpAddsOne DEF CountStep
    <2>6. Bound' \in Int
      BY <1>1, <1>6, InvStep, AnalyticsConstants DEF Bound, IInv, TypeOK
    <2>7. Uncounted' <= Bound'
      BY <1>2, <1>4, <1>6, <2>5, <2>6 DEF CountStep
    <2> QED
      BY <1>2, <1>6, <2>3, <2>4, <2>7 DEF CountInv, CountStep
  <1>7. CASE Next /\ RestStep
    <2>1. Counts' = Counts
      BY <1>7 DEF RestStep, Counts
    <2>2. Bound' \in Int
      BY <1>1, <1>7, InvStep, AnalyticsConstants DEF Bound, IInv, TypeOK
    <2>3. Uncounted' <= Bound'
      BY <1>2, <1>4, <1>7, <2>1, <2>2 DEF RestStep
    <2> QED
      BY <1>2, <1>3, <1>7, <2>3 DEF CountInv, RestStep
  <1>8. CASE UNCHANGED vars
    <2>1. /\ UNCHANGED <<processed, statistics, step, crashes, errors, stopping>>
          /\ Msg' = Msg
      BY <1>8 DEF vars, analyticsVars, history, process, readerVars, Msg, InHand, MessageAt
    <2> QED
      BY <1>2, <1>3, <1>4, <2>1 DEF CountInv, Bound, Uncounted
  <1> QED
    BY <1>5, <1>6, <1>7, <1>8, CountCases

\* So it always holds.
LEMMA CountInvariant == Spec => []CountInv
  BY Invariant, CountInit, CountStepOK, PTL DEF Spec

(***************************************************************************)
(* The consumer as a part of a system: what it promises there rests on     *)
(* these facts, and not on how its Relay picks messages.                   *)
(***************************************************************************)
\* A message that arrives on any topic disturbs nothing.
LEMMA Delivery ==
  ASSUME IInv, CountInv, NEW t \in Topic, NEW m \in Message, Deliver(t, m),
         UNCHANGED analyticsVars
  PROVE  IInv' /\ CountInv'
  <1>1. /\ UNCHANGED <<processed, statistics, step, ignored, failed, stopping>>
        /\ UNCHANGED <<crashes, errors, disruptions>> /\ held' = held
    BY DEF analyticsVars, history, process, Deliver
  <1>2. TypeOK /\ ReaderOK /\ analytics \in Group /\ Passed(analytics, Handled)
    BY GroupFacts DEF IInv, TypeOK, ReaderOK
  <1>3. Handled' = Handled /\ Holding(analytics)' = Holding(analytics)
    BY <1>1 DEF Handled, Holding
  <1>4. step \in {"project", "commit"} => Msg' = Msg
    <2>1. step \in {"project", "commit"} => Holding(analytics)
      BY MsgType DEF IInv
    <2>2. held'[analytics] = held[analytics]
      BY <1>1
    <2>3. Holding(analytics) => InHand(analytics)' = InHand(analytics)
      BY <1>2, <2>2, InHandKept
    <2> QED
      BY <2>1, <2>3 DEF Msg
  <1>5. ReaderOK'
    BY <1>2, DeliverOK
  <1>6. Passed(analytics, Handled)'
    <2>1. ASSUME NEW E, E = Handled
          PROVE  Passed(analytics, Handled)'
      <3>1. Handled' = E
        BY <1>3, <2>1
      <3>2. Passed(analytics, E)'
        BY <1>2, <2>1, DeliverPassed
      <3> QED
        BY <3>1, <3>2 DEF Passed
    <2> QED
      BY <2>1
  <1>7. TypeOK'
    BY <1>1, <1>2, <1>3, <1>5 DEF TypeOK, ReaderOK
  <1>8. IInv'
    BY <1>1, <1>3, <1>4, <1>5, <1>6, <1>7 DEF IInv, ReaderOK
  <1>9. CountInv'
    BY <1>1, <1>4 DEF CountInv, Bound, Uncounted
  <1> QED
    BY <1>8, <1>9

\* Only orders on the topic are marked as processed.
LEMMA ProcessedStep ==
  ASSUME IInv, Next, NEW i \in processed', i \notin processed
  PROVE  \E m \in Message : m \in Appended(orderEvents) /\ IsOrderCreated(m) /\ m.id = i
  <1>1. MarkProcessed \/ StatementFails
    BY DEF Next, ConsumerStep, Handle, StopStep, Relay, Fetch, Ignore, Reject,
       IgnoreDuplicate, UpdateStatistics, CommitOffset, CommitOffsetFails, GroupRebalances,
       Crash, Shutdown, Cancelled, CommitOffsetCancelled, RunEnds, StartAgain, CaughtUp,
       vars, analyticsVars
  <1>2. AtProjector /\ i = Msg.id
    BY <1>1 DEF MarkProcessed, StatementFails
  <1>3. TypeOK /\ OffsetsOK /\ step = "handle" /\ IsOrderCreated(Msg)
    BY <1>2 DEF IInv, AtProjector
  <1>4. Holding(analytics) /\ Msg \in Message
    BY <1>3, MsgType
  <1>5. Msg \in Appended(orderEvents)
    BY <1>3, <1>4, InHandAppended, AnalyticsConstants DEF TypeOK, ReaderOK, Msg
  <1> QED
    BY <1>2, <1>3, <1>4, <1>5

\* A consumer that waits at the end of the topic has handled all of it.
LEMMA CaughtUpHandled ==
  ASSUME IInv, step = "fetch",
         \A p \in Partition : position[analytics][p] > Len(log[orderEvents][p])
  PROVE  \A m \in Appended(orderEvents) : IsOrderCreated(m) => m.id \in processed \cup failed
  <1>1. ReaderOK /\ analytics \in Group /\ TopicOf[analytics] = orderEvents
        /\ Passed(analytics, Handled) /\ ~Holding(analytics)
    BY GroupFacts, AnalyticsConstants DEF IInv, TypeOK, ReaderOK
  <1>2. Appended(orderEvents) \subseteq Handled
    BY <1>1, EndDone DEF LogOf
  <1> QED
    BY <1>2 DEF Handled

\* Types: the statistics stay natural numbers, no offset runs past its log and
\* what is ignored as a duplicate is processed.
THEOREM TypeCorrect == Spec => []TypeOK
  <1>1. IInv => TypeOK
    BY DEF IInv
  <1> QED
    BY <1>1, Invariant, PTL

\* No crash, rebalance, failed commit, shutdown or failure of another message
\* makes the consumer acknowledge an order it has not processed.
THEOREM AcknowledgedAreProcessed == Spec => []AckedIsProcessed
  <1>1. IInv => AckedIsProcessed
    <2> SUFFICES ASSUME IInv PROVE AckedIsProcessed
      OBVIOUS
    <2>1. Acknowledged(analytics) \subseteq Handled
      BY AcknowledgedDone, GroupFacts DEF IInv, TypeOK, ReaderOK
    <2> QED
      BY <2>1 DEF AckedIsProcessed, Handled
  <1> QED
    BY <1>1, Invariant, PTL

\* The statistics are those of some processed orders, each counted once, for
\* any number of redeliveries and crashes.
THEOREM EachIsCountedOnce == Spec => []CountedOnce
  <1>1. CountInv => CountedOnce
    BY DEF CountInv, CountedOnce
  <1> QED
    BY <1>1, CountInvariant, PTL

\* Each failure costs the statistics at most one order.
THEOREM LossBounded == Spec => []LossIsBounded
  <1>1. IInv /\ CountInv => LossIsBounded
    <2> SUFFICES ASSUME IInv, CountInv PROVE LossIsBounded
      OBVIOUS
    <2>1. crashes \in Nat /\ errors \in Nat
      BY AnalyticsConstants DEF IInv, TypeOK
    <2>2. Counts \in [Day -> Nat]
      BY DEF IInv, TypeOK, Counts
    <2>3. SumFunction(Counts) \in Nat /\ Cardinality(processed) \in Nat
      BY <2>2, SumType, AnalyticsConstants, FS_CardinalityType DEF CountInv
    <2>4. Uncounted = Cardinality(processed) - SumFunction(Counts)
      BY DEF Uncounted, Counts
    <2> QED
      BY <2>1, <2>3, <2>4 DEF CountInv, Bound, LossIsBounded
  <1> QED
    BY <1>1, Invariant, CountInvariant, PTL
=============================================================================
