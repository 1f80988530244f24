SPECIFICATION Spec
CONSTANTS
  Farms = {"f", "g"}
  MarketFarms = {"m"}
  DemoFarms = {"m"}
  Exchanges = {"a", "b", "c"}
  HardCoded <- MCHardCoded
  NoFarm = NoFarm
  NoExchange = NoExchange
  Lists <- ThreeExchanges
  TrueFarm <- MCTrueFarm
  MaxRequests = 3
  CheckInterval = 4
  MinPacingTime = 1
  ViolationPause = 4
  FreshTime = 2
  MaxTime = 6
  MaxReports = 2
INVARIANT
  PauseKept
CHECK_DEADLOCK FALSE
