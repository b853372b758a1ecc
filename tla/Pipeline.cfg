\* One order and its customer from the database to both read models and back, with
\* any two crashes, shutdowns and restarts of different parts.
SPECIFICATION FairSpec
CONSTANTS
  o1 = o1  ann = ann  book = book  p0 = p0  p1 = p1  monday = monday
  orderEvents = orderEvents  customerEvents = customerEvents
  analytics = analytics  orderGroup = orderGroup  customerGroup = customerGroup
  Sku <- MCSku
  Customer <- MCCustomer
  OrderId <- MCOrderId
  InitStock <- MCInitStock
  InitCustomers <- MCNone
  Orders <- MCOrders
  Partition <- MCPartition
  PartitionOf <- MCPartitionOf
  Day <- MCDay
  DayOf <- MCDayOf
  MaxCrashes = 1
  MaxRestarts = 1
  MaxFaults = 2
INVARIANTS
  BooksBalance
  AnsweredOnce
  DrainedIsComplete
PROPERTIES
  PlacedIsAnswered
