SPECIFICATION Spec
CONSTANTS
  Rate = 1
  Files <- MCFiles
  Sessions <- MCSessions
  FirstIds <- MCFirstIds
  MaxFaults = 1
INVARIANTS
  TypeOK
  AssertsHold
  QuitComplete
  RefusedOnlyByItsOwn
  RateKept
PROPERTIES
  RefusalHeard
  VerdictStands
  OrdersEnd
