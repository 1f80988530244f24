SPECIFICATION Spec
CONSTANTS
  NHist = 1
  Underlying <- MCUnderlying
  NoUnderlying = NoUnderlying
  Series <- MCSeries
  NoJob = NoJob
  SimpleWork = {}
  Count <- OneEach
  MaxFaults = 1
INVARIANT
  RepeatAsserted
