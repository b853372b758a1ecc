\* Three requests that meet in the same rows in both orders, two connections.
SPECIFICATION MCLockSpec
CONSTANTS
  r1 = r1  r2 = r2  r3 = r3
  book = book  laptop = laptop  mug = mug
  alice = alice  bob = bob  nobody = nobody
  Request <- MCRequest3
  SkuName <- MCSkuName
  Sku <- MCSku
  Customer <- MCOneCustomer
  NoCustomer = nobody
  Command <- MCLockCommands
  InitStock <- MCInitStock
  InitCustomers <- MCInitCustomers
  Price <- MCPrice
  MaxInt4 = 10
  MaxOpenConns = 2
PROPERTIES
  EveryRequestAnswered
  LocksReleased
