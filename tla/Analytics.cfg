\* Four deliveries of three events on two partitions, one failure of each kind.
SPECIFICATION Spec
CONSTANTS
  e1 = e1  e2 = e2  e3 = e3
  p0 = p0  p1 = p1
  monday = monday  tuesday = tuesday
  analytics = analytics
  orderEvents = orderEvents
  Topic <- MCTopic
  Partition <- MCPartition
  Group <- MCGroup
  TopicOf <- MCTopicOf
  Message <- MCMessage
  Day <- MCDay
  MaxLog = 4
  MaxCrashes = 2
  MaxErrors = 1
  MaxDisruptions = 1
INVARIANTS
  TypeOK
  CountedOnce
  LossIsBounded
  AckedIsProcessed
