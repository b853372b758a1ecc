\* One crash, no other failure.
SPECIFICATION Spec
CONSTANTS
  e1 = e1  e2 = e2  e3 = e3  c1 = c1  c2 = c2
  p0 = p0  p1 = p1
  orderGroup = orderGroup  customerGroup = customerGroup
  orderEvents = orderEvents  customerEvents = customerEvents
  Topic <- MCTopic
  Partition <- MCPartition1
  Group <- MCGroup
  TopicOf <- MCTopicOf
  Message <- MCBothTopics
  MaxLog = 2
  MaxCrashes = 1
  MaxErrors = 0
  MaxDisruptions = 0
INVARIANTS
  CustomerNotifiedOnce
