\* One crash, no other failure.
SPECIFICATION Spec
CONSTANTS
  e1 = e1  e2 = e2  e3 = e3
  p0 = p0  p1 = p1
  monday = monday  tuesday = tuesday
  analytics = analytics
  orderEvents = orderEvents
  Topic <- MCTopic
  Partition <- MCPartition
  Group <- MCGroup
  TopicOf <- MCTopicOf
  Message <- MCMessage
  Day <- MCDay
  MaxLog = 3
  MaxCrashes = 1
  MaxErrors = 0
  MaxDisruptions = 0
INVARIANTS
  IgnoredWasCounted
