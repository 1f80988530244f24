SPECIFICATION FairSpec
CONSTANTS
  NHist = 1
  Underlying <- MCUnderlying
  NoUnderlying = NoUnderlying
  Series <- MCSeries
  NoJob = NoJob
  SimpleWork = {"ACC_STATUS", "ORDERS"}
  Count <- OneEach
  MaxFaults = 2
PROPERTIES
  Termination
