SPECIFICATION FairSpec
CONSTANTS
  Calls = {c1, c2, b1}
  BulkCalls = {b1}
  Ceiling = 2
  Initial = 1
  BulkCapacity <- MCBulkCapacity
  Amount <- MCAmount
  Limit = 3
  Cap = 3
  MaxRetries = 1
  Usage <- MCUsage
  MaxTroubles = 2
INVARIANTS
  TypeOK
  SlotsAccounted
  NobodyWaitsForRoom
  AccountsHold
  NothingIsLeft
PROPERTIES
  EveryCallEnds
CHECK_DEADLOCK FALSE
