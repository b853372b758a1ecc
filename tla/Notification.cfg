\* Three deliveries of orders on two partitions, failures of every kind.
SPECIFICATION Spec
CONSTANTS
  e1 = e1  e2 = e2  e3 = e3  c1 = c1  c2 = c2
  p0 = p0  p1 = p1
  orderGroup = orderGroup  customerGroup = customerGroup
  orderEvents = orderEvents  customerEvents = customerEvents
  Topic <- MCTopic
  Partition <- MCPartition2
  Group <- MCGroup
  TopicOf <- MCTopicOf
  Message <- MCOrders
  MaxLog = 3
  MaxCrashes = 2
  MaxErrors = 1
  MaxDisruptions = 1
INVARIANTS
  TypeOK
  LogMatchesOutbox
  AckedIsRecorded
