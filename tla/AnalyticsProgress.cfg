\* Free and paid orders, delivered again and again; every kind of failure.
SPECIFICATION FairSpec
CONSTANTS
  e1 = e1  e2 = e2  e3 = e3
  p0 = p0  p1 = p1
  monday = monday  tuesday = tuesday
  analytics = analytics
  orderEvents = orderEvents
  Topic <- MCTopic
  Partition <- MCPartition
  Group <- MCGroup
  TopicOf <- MCTopicOf
  Message <- MCMixedOrders
  Day <- MCDay
  MaxLog = 3
  MaxCrashes = 1
  MaxErrors = 1
  MaxDisruptions = 1
PROPERTIES
  EveryOrderProcessed
