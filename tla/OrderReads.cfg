\* A reader beside two orders being placed.
SPECIFICATION QuerySpec
CONSTANTS
  r1 = r1  r2 = r2  r3 = r3  q1 = q1
  book = book  laptop = laptop  mug = mug
  alice = alice  bob = bob  nobody = nobody
  Request <- MCRequest2
  Reader <- MCReader
  SkuName <- MCSkuName
  Sku <- MCSku
  Customer <- MCOneCustomer
  NoCustomer = nobody
  Command <- MCQueryCommands
  InitStock <- MCInitStock
  InitCustomers <- MCInitCustomers
  Price <- MCPrice
  MaxInt4 = 10
  MaxOpenConns = 2
INVARIANTS
  ReadWhole
  ReadsFollowAnswers
