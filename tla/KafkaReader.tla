---------------------------- MODULE KafkaReader ----------------------------
(***************************************************************************)
(* The kafka.Reader of segmentio/kafka-go as the consumers use it: one     *)
(* reader per consumer group, StartOffset FirstOffset, CommitInterval 0    *)
(* (CommitMessages talks to the broker), and one message in hand at a time.*)
(* The library and the brokers are not part of the repository: this module *)
(* says what the consumers' loops can see of them.                         *)
(*                                                                         *)
(* Two facts about the reader decide what the loops do.  FetchMessage moves*)
(* on to the next message whether or not the last one was committed, and a *)
(* commit is a position in the partition: it acknowledges everything before*)
(* it.                                                                     *)
(***************************************************************************)
EXTENDS Integers, Sequences

CONSTANTS
  Topic,      \* the topics
  Partition,  \* the partitions of each topic
  Group,      \* the consumer groups, one reader each
  TopicOf,    \* TopicOf[g]: the topic group g reads
  Message     \* the messages, each with the partition its key is hashed to

ASSUME ReaderConstants ==
  /\ TopicOf \in [Group -> Topic]
  /\ \A m \in Message : m.partition \in Partition

VARIABLES
  log,        \* log[t][p]: the messages of partition p of topic t
  committed,  \* committed[g][p]: the offset the group would restart from
  position,   \* position[g][p]: the offset the reader fetches next
  held        \* held[g]: where the message in hand came from

readerVars == <<log, committed, position, held>>

Nowhere == [partition |-> "none", offset |-> 0]

Holding(g) == held[g] # Nowhere

MessageAt(g, c) == log[TopicOf[g]][c.partition][c.offset]

InHand(g) == MessageAt(g, held[g])

ReaderInit ==
  /\ log = [t \in Topic |-> [p \in Partition |-> <<>>]]
  /\ committed = [g \in Group |-> [p \in Partition |-> 1]]
  /\ position = [g \in Group |-> [p \in Partition |-> 1]]
  /\ held = [g \in Group |-> Nowhere]

ReaderTypeOK ==
  /\ log \in [Topic -> [Partition -> Seq(Message)]]
  /\ committed \in [Group -> [Partition -> Nat \ {0}]]
  /\ position \in [Group -> [Partition -> Nat \ {0}]]
  /\ held \in [Group -> {Nowhere} \cup [partition : Partition, offset : Nat \ {0}]]

\* The connector appends a message, possibly one it has appended before.
Deliver(t, m) ==
  /\ log' = [log EXCEPT ![t][m.partition] = Append(@, m)]
  /\ UNCHANGED <<committed, position, held>>

\* The reader's other call, which commits as it fetches.  The code does not use
\* it; mutants of the consumers do.
ReadMessage(g, p) ==
  /\ ~Holding(g)
  /\ position[g][p] <= Len(log[TopicOf[g]][p])
  /\ held' = [held EXCEPT ![g] = [partition |-> p, offset |-> position[g][p]]]
  /\ position' = [position EXCEPT ![g][p] = @ + 1]
  /\ committed' = [committed EXCEPT ![g][p] = position[g][p] + 1]
  /\ UNCHANGED log

FetchMessage(g, p) ==
  /\ ~Holding(g)
  /\ position[g][p] <= Len(log[TopicOf[g]][p])
  /\ held' = [held EXCEPT ![g] = [partition |-> p, offset |-> position[g][p]]]
  /\ position' = [position EXCEPT ![g][p] = @ + 1]
  /\ UNCHANGED <<log, committed>>

\* The loop's "continue" after an error: the message is not committed, and the
\* reader does not go back for it.
Skip(g) ==
  /\ held' = [held EXCEPT ![g] = Nowhere]
  /\ UNCHANGED <<log, committed, position>>

CommitMessages(g) ==
  /\ committed' = [committed EXCEPT ![g][held[g].partition] = held[g].offset + 1]
  /\ held' = [held EXCEPT ![g] = Nowhere]
  /\ UNCHANGED <<log, position>>

\* The group rebalances: the reader starts again from what is committed.  A
\* message in hand stays in hand and is committed into the new generation.
Rebalance(g) ==
  /\ position[g] # committed[g]
  /\ position' = [position EXCEPT ![g] = committed[g]]
  /\ UNCHANGED <<log, committed, held>>

\* Mutant: StartOffset LastOffset: a group that has committed nothing starts at
\* the end of the partition.
RestartAtEnd(G) ==
  /\ position' = [g \in Group |-> [p \in Partition |->
       IF g \notin G THEN position[g][p]
       ELSE IF committed[g][p] = 1 THEN Len(log[TopicOf[g]][p]) + 1
       ELSE committed[g][p]]]
  /\ held' = [g \in Group |-> IF g \in G THEN Nowhere ELSE held[g]]
  /\ UNCHANGED <<log, committed>>

\* The process of these groups dies and is started again.
Restart(G) ==
  /\ position' = [g \in Group |-> IF g \in G THEN committed[g] ELSE position[g]]
  /\ held' = [g \in Group |-> IF g \in G THEN Nowhere ELSE held[g]]
  /\ UNCHANGED <<log, committed>>

Appended(t) == UNION {{log[t][p][i] : i \in DOMAIN log[t][p]} : p \in Partition}

\* What the group has acknowledged: it will not be fetched again after a restart.
Acknowledged(g) ==
  UNION {{log[TopicOf[g]][p][i] : i \in 1..(committed[g][p] - 1)} : p \in Partition}
=============================================================================
