\* Three requests, each for the seeded id, one new id or a generated one; a pool of two.
SPECIFICATION FairSpec
CONSTANTS
  r1 = r1  r2 = r2  r3 = r3  seed = seed  ann = ann
  NoId = NoId
  Request <- MCRequest
  Named <- MCNamed
  Seeded <- MCSeeded
  MaxOpenConns = 2
INVARIANTS
  TypeOK
  AnnouncedOnce
  CreatedIsOwned
  ConflictIsReal
PROPERTIES
  LedgerSpec
  EveryRegistrationAnswered
  KeysReleased
