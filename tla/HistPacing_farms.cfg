SPECIFICATION Spec
CONSTANTS
  Farms = {"f", "g"}
  MarketFarms = {"m"}
  DemoFarms = {"m"}
  Exchanges = {"a", "b", "c"}
  HardCoded <- MCHardCoded
  NoFarm = NoFarm
  NoExchange = NoExchange
  Lists <- TwoLists
  TrueFarm <- MCTrueFarm
  MaxRequests = 2
  CheckInterval = 3
  MinPacingTime = 1
  ViolationPause = 2
  FreshTime = 1
  MaxTime = 3
  MaxReports = 2
INVARIANTS
  TypeOK
  Budget
  Recorded
  OwnRecordPauses
  MemoSkipsNothing
  NoNeedlessWait
CHECK_DEADLOCK FALSE
