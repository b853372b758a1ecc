\* Two requests, every pair of bodies, every failure.
SPECIFICATION Spec
CONSTANTS
  r1 = r1  r2 = r2  r3 = r3
  book = book  laptop = laptop  mug = mug
  alice = alice  bob = bob  nobody = nobody
  Request <- MCRequest2
  SkuName <- MCSkuName
  Sku <- MCSku
  Customer <- MCCustomer
  NoCustomer = nobody
  Command <- MCEveryCommand
  InitStock <- MCInitStock
  InitCustomers <- MCInitCustomers
  Price <- MCPrice
  MaxInt4 = 10
  MaxOpenConns = 2
INVARIANTS
  TypeOK
  NoOversell
  StockConserved
  OrderWhole
  CustomerFirst
  ReplyTruthful
  RefusalJustified
PROPERTIES
  LedgerSpec
