SPECIFICATION Spec
CONSTANTS
  Farms = {"f", "g"}
  MarketFarms = {"m"}
  DemoFarms = {"m"}
  Exchanges = {"a", "b", "c"}
  HardCoded <- WrongTable
  NoFarm = NoFarm
  NoExchange = NoExchange
  Lists <- AtFarmF
  TrueFarm <- MCTrueFarm
  MaxRequests = 2
  CheckInterval = 4
  MinPacingTime = 1
  ViolationPause = 3
  FreshTime = 2
  MaxTime = 3
  MaxReports = 4
INVARIANT
  NoAbort
CHECK_DEADLOCK FALSE
