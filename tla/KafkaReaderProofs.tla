------------------------- MODULE KafkaReaderProofs -------------------------
(***************************************************************************)
(* What a reader passes over.  A consumer keeps a set D of messages it is  *)
(* done with.  As long as it only commits or skips messages of D, whatever *)
(* lies behind the committed offset is in D: through rebalances, restarts, *)
(* messages fetched twice and offsets that go back and forth.  D is what   *)
(* the consumers' proofs give a meaning to.                                *)
(***************************************************************************)
EXTENDS KafkaReader, TLAPS

\* The messages of partition p of the topic group g reads.
LogOf(g, p) == log[TopicOf[g]][p]

\* No offset is beyond the end of its partition.
OffsetsOK == \A g \in Group :
  /\ \A p \in Partition : /\ committed[g][p] <= Len(LogOf(g, p)) + 1
                          /\ position[g][p] <= Len(LogOf(g, p)) + 1
  /\ Holding(g) => held[g].offset <= Len(LogOf(g, held[g].partition))

\* Types and offsets together.
ReaderOK == ReaderTypeOK /\ OffsetsOK

\* The group is done with everything behind what it has committed, behind the
\* message in hand, and behind what it fetches next but for the one in hand.
Passed(g, D) == \A p \in Partition : \A i \in 1..Len(LogOf(g, p)) :
  /\ i < committed[g][p] => LogOf(g, p)[i] \in D
  /\ held[g].partition = p /\ i < held[g].offset => LogOf(g, p)[i] \in D
  /\ i < position[g][p] /\ ~(held[g].partition = p /\ held[g].offset = i) =>
       LogOf(g, p)[i] \in D

(***************************************************************************)
(* Types and offsets.                                                      *)
(***************************************************************************)
\* A partition of a group's topic is a sequence of messages.
LEMMA LogType ==
  ASSUME ReaderTypeOK, NEW g \in Group, NEW p \in Partition
  PROVE  LogOf(g, p) \in Seq(Message) /\ Len(LogOf(g, p)) \in Nat
  <1>1. TopicOf[g] \in Topic
    BY ReaderConstants
  <1> QED
    BY <1>1 DEF ReaderTypeOK, LogOf

\* Where a held message comes from.
LEMMA HeldType ==
  ASSUME ReaderTypeOK, NEW g \in Group
  PROVE  IF Holding(g)
         THEN held[g].partition \in Partition /\ held[g].offset \in Nat \ {0}
         ELSE held[g].offset = 0
  BY DEF ReaderTypeOK, Holding, Nowhere

\* A message in hand is a message of the log.
LEMMA InHandType ==
  ASSUME ReaderOK, NEW g \in Group, Holding(g)
  PROVE  /\ held[g].partition \in Partition
         /\ held[g].offset \in 1..Len(LogOf(g, held[g].partition))
         /\ InHand(g) = LogOf(g, held[g].partition)[held[g].offset]
         /\ InHand(g) \in Message
  <1>1. held[g].partition \in Partition /\ held[g].offset \in Nat \ {0}
    BY HeldType DEF ReaderOK
  <1>2. held[g].offset <= Len(LogOf(g, held[g].partition))
    BY DEF ReaderOK, OffsetsOK
  <1>3. /\ LogOf(g, held[g].partition) \in Seq(Message)
        /\ Len(LogOf(g, held[g].partition)) \in Nat
    BY <1>1, LogType DEF ReaderOK
  <1> QED
    BY <1>1, <1>2, <1>3 DEF InHand, MessageAt, LogOf

\* They hold before anything is read,
LEMMA ReaderInitOK == ReaderInit => ReaderOK
  <1> SUFFICES ASSUME ReaderInit PROVE ReaderOK
    OBVIOUS
  <1>1. ReaderTypeOK
    BY DEF ReaderInit, ReaderTypeOK
  <1>2. \A g \in Group, p \in Partition : LogOf(g, p) = <<>>
    BY ReaderConstants DEF ReaderInit, LogOf
  <1>3. OffsetsOK
    BY <1>2 DEF ReaderInit, OffsetsOK, Holding
  <1> QED
    BY <1>1, <1>3 DEF ReaderOK

\* A delivery leaves what is in the partitions where it is.
LEMMA DeliverLog ==
  ASSUME ReaderTypeOK, NEW t \in Topic, NEW m \in Message, Deliver(t, m),
         NEW g \in Group, NEW p \in Partition
  PROVE  /\ Len(LogOf(g, p)) <= Len(LogOf(g, p)')
         /\ \A i \in 1..Len(LogOf(g, p)) : LogOf(g, p)'[i] = LogOf(g, p)[i]
  <1>1. /\ LogOf(g, p) \in Seq(Message) /\ Len(LogOf(g, p)) \in Nat
        /\ TopicOf[g] \in Topic /\ m.partition \in Partition
    BY LogType, ReaderConstants
  <1>2. LogOf(g, p)' = IF TopicOf[g] = t /\ p = m.partition
                       THEN Append(LogOf(g, p), m) ELSE LogOf(g, p)
    BY <1>1 DEF Deliver, LogOf, ReaderTypeOK
  <1>3. /\ Len(Append(LogOf(g, p), m)) = Len(LogOf(g, p)) + 1
        /\ \A i \in 1..Len(LogOf(g, p)) : Append(LogOf(g, p), m)[i] = LogOf(g, p)[i]
    BY <1>1
  <1> QED
    BY <1>1, <1>2, <1>3

\* after a message is appended,
LEMMA DeliverOK ==
  ASSUME ReaderOK, NEW t \in Topic, NEW m \in Message, Deliver(t, m)
  PROVE  ReaderOK'
  <1>1. ReaderTypeOK'
    <2>1. m.partition \in Partition /\ log \in [Topic -> [Partition -> Seq(Message)]]
      BY ReaderConstants DEF ReaderOK, ReaderTypeOK
    <2>2. Append(log[t][m.partition], m) \in Seq(Message)
      BY <2>1
    <2>3. log' \in [Topic -> [Partition -> Seq(Message)]]
      BY <2>1, <2>2 DEF Deliver
    <2> QED
      BY <2>3 DEF ReaderOK, ReaderTypeOK, Deliver
  <1>2. ASSUME NEW g \in Group, NEW p \in Partition
        PROVE  /\ Len(LogOf(g, p)) <= Len(LogOf(g, p)')
               /\ Len(LogOf(g, p)) \in Nat /\ Len(LogOf(g, p)') \in Nat
               /\ committed[g][p] \in Nat /\ position[g][p] \in Nat
    <2>1. committed[g][p] \in Nat /\ position[g][p] \in Nat
      BY <1>2 DEF ReaderOK, ReaderTypeOK
    <2>2. Len(LogOf(g, p)) \in Nat /\ Len(LogOf(g, p)) <= Len(LogOf(g, p)')
      BY <1>2, DeliverLog, LogType DEF ReaderOK
    <2>3. Len(LogOf(g, p)') \in Nat
      <3>1. log'[TopicOf[g]][p] \in Seq(Message)
        BY <1>1, <1>2, ReaderConstants DEF ReaderTypeOK
      <3> QED
        BY <3>1 DEF LogOf
    <2> QED
      BY <2>1, <2>2, <2>3
  <1>3. \A g \in Group : Holding(g) => held[g].partition \in Partition /\ held[g].offset \in Nat
    BY HeldType DEF ReaderOK
  <1>4. OffsetsOK'
    BY <1>2, <1>3 DEF ReaderOK, OffsetsOK, Deliver, Holding
  <1> QED
    BY <1>1, <1>4 DEF ReaderOK

\* after one is fetched,
LEMMA FetchOK ==
  ASSUME ReaderOK, NEW h \in Group, NEW p \in Partition, FetchMessage(h, p)
  PROVE  ReaderOK'
  <1>1. position[h][p] \in Nat \ {0} /\ position[h][p] <= Len(LogOf(h, p))
    BY DEF FetchMessage, LogOf, ReaderOK, ReaderTypeOK
  <1>2. position' \in [Group -> [Partition -> Nat \ {0}]]
    BY <1>1 DEF FetchMessage, ReaderOK, ReaderTypeOK
  <1>3. held' \in [Group -> {Nowhere} \cup [partition : Partition, offset : Nat \ {0}]]
    BY <1>1 DEF FetchMessage, ReaderOK, ReaderTypeOK
  <1>4. ReaderTypeOK'
    BY <1>2, <1>3 DEF FetchMessage, ReaderOK, ReaderTypeOK
  <1>5. \A g \in Group, q \in Partition : Len(LogOf(g, q)) \in Nat
    BY LogType DEF ReaderOK
  <1>6. ASSUME NEW g \in Group, NEW q \in Partition
        PROVE  position'[g][q] <= Len(LogOf(g, q)) + 1
    <2>1. position[g][q] <= Len(LogOf(g, q)) + 1
      BY DEF ReaderOK, OffsetsOK
    <2>2. position'[g][q] = IF g = h /\ q = p THEN position[h][p] + 1 ELSE position[g][q]
      BY DEF FetchMessage, ReaderOK, ReaderTypeOK
    <2> QED
      BY <1>1, <1>5, <2>1, <2>2
  <1>7. ASSUME NEW g \in Group, Holding(g)'
        PROVE  held'[g].offset <= Len(LogOf(g, held'[g].partition))
    <2>1. CASE g = h
      <3>1. held'[g] = [partition |-> p, offset |-> position[h][p]]
        BY <2>1 DEF FetchMessage, ReaderOK, ReaderTypeOK
      <3> QED
        BY <1>1, <2>1, <3>1
    <2>2. CASE g # h
      <3>1. held'[g] = held[g]
        BY <2>2 DEF FetchMessage, ReaderOK, ReaderTypeOK
      <3> QED
        BY <1>7, <3>1 DEF ReaderOK, OffsetsOK, Holding
    <2> QED
      BY <2>1, <2>2
  <1>8. committed' = committed /\ log' = log
    BY DEF FetchMessage
  <1>9. OffsetsOK'
    BY <1>6, <1>7, <1>8 DEF ReaderOK, OffsetsOK, LogOf
  <1> QED
    BY <1>4, <1>9 DEF ReaderOK

\* after a loop goes on without committing,
LEMMA SkipOK ==
  ASSUME ReaderOK, NEW h \in Group, Skip(h)
  PROVE  ReaderOK'
  BY DEF Skip, ReaderOK, ReaderTypeOK, OffsetsOK, Holding, LogOf

\* after a commit,
LEMMA CommitOK ==
  ASSUME ReaderOK, NEW h \in Group, Holding(h), CommitMessages(h)
  PROVE  ReaderOK'
  <1> DEFINE k == held[h].partition
             n == held[h].offset
  <1>1. k \in Partition /\ n \in Nat \ {0} /\ n <= Len(LogOf(h, k))
    BY InHandType, HeldType DEF ReaderOK, OffsetsOK
  <1>2. /\ committed' = [committed EXCEPT ![h][k] = n + 1]
        /\ held' = [held EXCEPT ![h] = Nowhere] /\ log' = log /\ position' = position
    BY DEF CommitMessages
  <1> HIDE DEF k, n
  <1>3. ReaderTypeOK'
    <2>1. n + 1 \in Nat \ {0} /\ committed \in [Group -> [Partition -> Nat \ {0}]]
      BY <1>1 DEF ReaderOK, ReaderTypeOK
    <2>2. committed' \in [Group -> [Partition -> Nat \ {0}]]
      BY <1>1, <1>2, <2>1
    <2>3. held' \in [Group -> {Nowhere} \cup [partition : Partition, offset : Nat \ {0}]]
      BY <1>2 DEF ReaderOK, ReaderTypeOK
    <2> QED
      BY <1>2, <2>2, <2>3 DEF ReaderOK, ReaderTypeOK
  <1>4. Len(LogOf(h, k)) \in Nat
    BY <1>1, LogType DEF ReaderOK
  <1>5. ASSUME NEW g \in Group, NEW q \in Partition
        PROVE  committed'[g][q] <= Len(LogOf(g, q)) + 1
    <2>1. committed \in [Group -> [Partition -> Nat \ {0}]]
          /\ committed[g][q] <= Len(LogOf(g, q)) + 1
      BY <1>5 DEF ReaderOK, ReaderTypeOK, OffsetsOK
    <2>2. CASE g = h /\ q = k
      BY <1>1, <1>2, <1>4, <2>1, <2>2
    <2>3. CASE ~(g = h /\ q = k)
      BY <1>2, <1>5, <2>1, <2>3
    <2> QED
      BY <2>2, <2>3
  <1>6. ASSUME NEW g \in Group, Holding(g)'
        PROVE  held'[g] = held[g] /\ Holding(g)
    BY <1>2, <1>6 DEF Holding, ReaderOK, ReaderTypeOK
  <1>7. OffsetsOK'
    BY <1>2, <1>5, <1>6 DEF ReaderOK, OffsetsOK, LogOf
  <1> QED
    BY <1>3, <1>7 DEF ReaderOK

\* after a rebalance,
LEMMA RebalanceOK ==
  ASSUME ReaderOK, NEW h \in Group, Rebalance(h)
  PROVE  ReaderOK'
  BY DEF Rebalance, ReaderOK, ReaderTypeOK, OffsetsOK, Holding, LogOf

\* after a restart,
LEMMA RestartOK ==
  ASSUME ReaderOK, Restart(Group)
  PROVE  ReaderOK'
  BY DEF Restart, ReaderOK, ReaderTypeOK, OffsetsOK, Holding, LogOf

\* and when the readers do nothing.
LEMMA StillOK ==
  ASSUME ReaderOK, UNCHANGED readerVars
  PROVE  ReaderOK'
  BY DEF readerVars, ReaderOK, ReaderTypeOK, OffsetsOK, Holding, LogOf

\* A message in hand stays what it is while the topics grow.
LEMMA InHandKept ==
  ASSUME ReaderOK, NEW g \in Group, Holding(g), held'[g] = held[g],
         \/ \E t \in Topic, m \in Message : Deliver(t, m)
         \/ log' = log
  PROVE  InHand(g)' = InHand(g)
  <1>1. /\ held[g].partition \in Partition
        /\ held[g].offset \in 1..Len(LogOf(g, held[g].partition))
    BY InHandType
  <1>2. CASE log' = log
    BY <1>2 DEF InHand, MessageAt
  <1>3. ASSUME NEW t \in Topic, NEW m \in Message, Deliver(t, m)
        PROVE  InHand(g)' = InHand(g)
    <2>1. log'[TopicOf[g]][held[g].partition][held[g].offset]
            = log[TopicOf[g]][held[g].partition][held[g].offset]
      BY <1>1, <1>3, DeliverLog DEF ReaderOK, LogOf
    <2> QED
      BY <2>1 DEF InHand, MessageAt
  <1> QED
    BY <1>2, <1>3

(***************************************************************************)
(* What is passed over.                                                    *)
(***************************************************************************)
\* Nothing is passed over before anything is read.
LEMMA InitPassed ==
  ASSUME ReaderInit, NEW g \in Group, NEW D
  PROVE  Passed(g, D)
  <1>1. \A p \in Partition : LogOf(g, p) = <<>>
    BY ReaderConstants DEF ReaderInit, LogOf
  <1> QED
    BY <1>1 DEF Passed

\* Nothing that is still to be delivered is behind an offset.
LEMMA DeliverPassed ==
  ASSUME ReaderOK, NEW t \in Topic, NEW m \in Message, Deliver(t, m),
         NEW g \in Group, NEW D, Passed(g, D)
  PROVE  Passed(g, D)'
  <1>1. committed' = committed /\ position' = position /\ held' = held
    BY DEF Deliver
  <1>2. ASSUME NEW p \in Partition, NEW i \in 1..Len(LogOf(g, p)'),
               \/ i < committed[g][p] \/ i < position[g][p]
               \/ held[g].partition = p /\ i < held[g].offset
        PROVE  i \in 1..Len(LogOf(g, p)) /\ LogOf(g, p)'[i] = LogOf(g, p)[i]
    <2>1. Len(LogOf(g, p)) \in Nat /\ Len(LogOf(g, p)') \in Nat
      BY LogType, DeliverOK DEF ReaderOK, LogOf
    <2>2. committed[g][p] \in Nat /\ position[g][p] \in Nat
      BY DEF ReaderOK, ReaderTypeOK
    <2>3. committed[g][p] <= Len(LogOf(g, p)) + 1 /\ position[g][p] <= Len(LogOf(g, p)) + 1
      BY DEF ReaderOK, OffsetsOK
    <2>4. held[g].partition = p /\ i < held[g].offset =>
            held[g].offset \in Nat /\ held[g].offset <= Len(LogOf(g, p))
      BY HeldType DEF ReaderOK, OffsetsOK
    <2>5. i \in 1..Len(LogOf(g, p))
      BY <1>2, <2>1, <2>2, <2>3, <2>4
    <2> QED
      BY <2>5, DeliverLog DEF ReaderOK
  <1> QED
    BY <1>1, <1>2 DEF Passed

\* The message in hand is the only one behind the position that the group need
\* not be done with.
LEMMA FetchPassed ==
  ASSUME ReaderOK, NEW h \in Group, NEW q \in Partition, FetchMessage(h, q),
         NEW g \in Group, NEW D, Passed(g, D)
  PROVE  Passed(g, D)'
  <1>1. CASE g # h
    <2>1. /\ committed'[g] = committed[g] /\ position'[g] = position[g]
          /\ held'[g] = held[g] /\ LogOf(g, q)' = LogOf(g, q) /\ log' = log
      BY <1>1 DEF FetchMessage, ReaderOK, ReaderTypeOK, LogOf
    <2> QED
      BY <2>1 DEF Passed, LogOf
  <1>2. CASE g = h
    <2>1. /\ committed' = committed /\ log' = log /\ ~Holding(g)
          /\ held'[g].partition = q /\ held'[g].offset = position[g][q]
          /\ position'[g][q] = position[g][q] + 1
          /\ \A p \in Partition \ {q} : position'[g][p] = position[g][p]
      BY <1>2 DEF FetchMessage, ReaderOK, ReaderTypeOK
    <2>2. \A p \in Partition : position[g][p] \in Nat /\ Len(LogOf(g, p)) \in Nat
      BY LogType DEF ReaderOK, ReaderTypeOK
    <2>3. \A i \in Nat \ {0} : held[g].offset # i
      BY <2>1, HeldType DEF ReaderOK
    <2>4. \A p \in Partition : LogOf(g, p)' = LogOf(g, p)
      BY <2>1 DEF LogOf
    <2>5. \A p \in Partition : \A i \in 1..Len(LogOf(g, p)) :
            i < position[g][p] => LogOf(g, p)[i] \in D
      BY <2>2, <2>3 DEF Passed
    <2>6. \A p \in Partition : \A i \in 1..Len(LogOf(g, p)) :
            i < committed[g][p] => LogOf(g, p)[i] \in D
      BY DEF Passed
    <2>7. ASSUME NEW p \in Partition, NEW i \in 1..Len(LogOf(g, p)),
                 \/ held'[g].partition = p /\ i < held'[g].offset
                 \/ /\ i < position'[g][p]
                    /\ ~(held'[g].partition = p /\ held'[g].offset = i)
          PROVE  i < position[g][p]
      BY <2>1, <2>2, <2>7
    <2> QED
      BY <2>1, <2>4, <2>5, <2>6, <2>7 DEF Passed
  <1> QED
    BY <1>1, <1>2

\* A loop that goes on without committing must be done with the message.
LEMMA SkipPassed ==
  ASSUME ReaderOK, NEW h \in Group, Holding(h), Skip(h),
         NEW g \in Group, NEW D, Passed(g, D), g = h => InHand(h) \in D
  PROVE  Passed(g, D)'
  <1>1. CASE g # h
    <2>1. committed' = committed /\ position' = position /\ held'[g] = held[g] /\ log' = log
      BY <1>1 DEF Skip, ReaderOK, ReaderTypeOK
    <2> QED
      BY <2>1 DEF Passed, LogOf
  <1>2. CASE g = h
    <2>1. /\ committed' = committed /\ position' = position /\ log' = log
          /\ held'[g] = Nowhere
      BY <1>2 DEF Skip, ReaderOK, ReaderTypeOK
    <2>2. LogOf(g, held[g].partition)[held[g].offset] \in D
      BY <1>2, InHandType
    <2> QED
      BY <2>1, <2>2 DEF Passed, LogOf, Nowhere
  <1> QED
    BY <1>1, <1>2

\* So must one that commits it, and what lies before it is done already.
LEMMA CommitPassed ==
  ASSUME ReaderOK, NEW h \in Group, Holding(h), CommitMessages(h),
         NEW g \in Group, NEW D, Passed(g, D), g = h => InHand(h) \in D
  PROVE  Passed(g, D)'
  <1> DEFINE k == held[h].partition
             n == held[h].offset
  <1>1. /\ committed' = [committed EXCEPT ![h][k] = n + 1]
        /\ held' = [held EXCEPT ![h] = Nowhere] /\ log' = log /\ position' = position
    BY DEF CommitMessages
  <1>2. k \in Partition /\ n \in Nat
    BY InHandType, HeldType DEF ReaderOK
  <1>3. CASE g # h
    <2>1. committed'[g] = committed[g] /\ held'[g] = held[g]
      BY <1>1, <1>3 DEF ReaderOK, ReaderTypeOK
    <2> QED
      BY <1>1, <2>1 DEF Passed, LogOf
  <1>4. CASE g = h
    <2>1. /\ committed'[g][k] = n + 1 /\ held'[g] = Nowhere
          /\ \A p \in Partition \ {k} : committed'[g][p] = committed[g][p]
      BY <1>1, <1>2, <1>4 DEF ReaderOK, ReaderTypeOK
    <2>2. LogOf(g, k)[n] \in D
      BY <1>4, InHandType
    <2>3. ASSUME NEW i \in 1..Len(LogOf(g, k)), i < n + 1
          PROVE  LogOf(g, k)[i] \in D
      <3>1. Len(LogOf(g, k)) \in Nat
        BY <1>2, LogType DEF ReaderOK
      <3>2. i < n \/ i = n
        BY <1>2, <2>3, <3>1
      <3> QED
        BY <1>2, <1>4, <2>2, <3>2 DEF Passed
    <2>4. \A p \in Partition : \A i \in 1..Len(LogOf(g, p)) :
            i < position[g][p] => LogOf(g, p)[i] \in D
      BY <1>4, <2>2 DEF Passed
    <2>5. \A p \in Partition : LogOf(g, p)' = LogOf(g, p)
      BY <1>1 DEF LogOf
    <2>6. ASSUME NEW p \in Partition, NEW i \in 1..Len(LogOf(g, p)), i < committed'[g][p]
          PROVE  LogOf(g, p)[i] \in D
      BY <2>1, <2>3, <2>6 DEF Passed
    <2>7. \A p \in Partition : \A i \in 1..Len(LogOf(g, p)) : ~(i < held'[g].offset)
      BY <2>1, LogType DEF Nowhere, ReaderOK
    <2> QED
      BY <1>1, <2>4, <2>5, <2>6, <2>7 DEF Passed
  <1> QED
    BY <1>3, <1>4

\* Going back to the committed offsets passes over nothing new.
LEMMA RebalancePassed ==
  ASSUME ReaderOK, NEW h \in Group, Rebalance(h), NEW g \in Group, NEW D, Passed(g, D)
  PROVE  Passed(g, D)'
  BY DEF Rebalance, Passed, LogOf, ReaderOK, ReaderTypeOK

\* Nor does starting from them.
LEMMA RestartPassed ==
  ASSUME ReaderOK, Restart(Group), NEW g \in Group, NEW D, Passed(g, D)
  PROVE  Passed(g, D)'
  BY DEF Restart, Passed, LogOf, ReaderOK, ReaderTypeOK, Nowhere

\* Nor does doing nothing.
LEMMA StillPassed ==
  ASSUME UNCHANGED readerVars, NEW g \in Group, NEW D, Passed(g, D)
  PROVE  Passed(g, D)'
  BY DEF readerVars, Passed, LogOf

\* A group that is done with more has passed over no less.
LEMMA PassedGrows ==
  ASSUME NEW g \in Group, NEW D, NEW E, D \subseteq E, Passed(g, D)
  PROVE  Passed(g, E)
  BY DEF Passed

\* What a group has acknowledged, it is done with.
LEMMA AcknowledgedDone ==
  ASSUME ReaderOK, NEW g \in Group, NEW D, Passed(g, D)
  PROVE  Acknowledged(g) \subseteq D
  <1> SUFFICES ASSUME NEW p \in Partition, NEW i \in 1..(committed[g][p] - 1)
               PROVE  LogOf(g, p)[i] \in D
    BY DEF Acknowledged, LogOf
  <1>1. Len(LogOf(g, p)) \in Nat /\ committed[g][p] \in Nat
    BY LogType DEF ReaderOK, ReaderTypeOK
  <1>2. committed[g][p] <= Len(LogOf(g, p)) + 1
    BY DEF ReaderOK, OffsetsOK
  <1>3. i \in 1..Len(LogOf(g, p)) /\ i < committed[g][p]
    BY <1>1, <1>2
  <1> QED
    BY <1>3 DEF Passed

\* A group at the end of its topic with nothing in hand is done with all of it.
LEMMA EndDone ==
  ASSUME ReaderOK, NEW g \in Group, NEW D, Passed(g, D), ~Holding(g),
         \A p \in Partition : position[g][p] > Len(LogOf(g, p))
  PROVE  Appended(TopicOf[g]) \subseteq D
  <1> SUFFICES ASSUME NEW p \in Partition, NEW i \in DOMAIN LogOf(g, p)
               PROVE  LogOf(g, p)[i] \in D
    BY DEF Appended, LogOf
  <1>1. /\ LogOf(g, p) \in Seq(Message) /\ Len(LogOf(g, p)) \in Nat
        /\ position[g][p] \in Nat
    BY LogType DEF ReaderOK, ReaderTypeOK
  <1>2. i \in 1..Len(LogOf(g, p)) /\ i < position[g][p]
    BY <1>1
  <1>3. held[g].offset # i
    BY <1>2, HeldType DEF ReaderOK
  <1> QED
    BY <1>2, <1>3 DEF Passed

\* A message in hand is on the topic.
LEMMA InHandAppended ==
  ASSUME ReaderOK, NEW g \in Group, Holding(g)
  PROVE  InHand(g) \in Appended(TopicOf[g])
  <1> DEFINE p == held[g].partition
             i == held[g].offset
  <1>1. p \in Partition /\ i \in 1..Len(LogOf(g, p)) /\ InHand(g) = LogOf(g, p)[i]
    BY InHandType
  <1>2. LogOf(g, p) \in Seq(Message)
    BY <1>1, LogType DEF ReaderOK
  <1> HIDE DEF p, i
  <1>3. i \in DOMAIN LogOf(g, p)
    BY <1>1, <1>2
  <1> QED
    BY <1>1, <1>3 DEF Appended, LogOf
=============================================================================
