\* One failed statement, no other failure.
SPECIFICATION FairSpec
CONSTANTS
  e1 = e1  e2 = e2  e3 = e3  c1 = c1  c2 = c2
  p0 = p0  p1 = p1
  orderGroup = orderGroup  customerGroup = customerGroup
  orderEvents = orderEvents  customerEvents = customerEvents
  Topic <- MCTopic
  Partition <- MCPartition2
  Group <- MCGroup
  TopicOf <- MCTopicOf
  Message <- MCOrders
  MaxLog = 2
  MaxCrashes = 0
  MaxErrors = 1
  MaxDisruptions = 0
PROPERTIES
  EveryOrderRecorded
