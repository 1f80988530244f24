SPECIFICATION Spec
CONSTANTS
  NHist = 3
  Underlying <- MCUnderlying
  NoUnderlying = NoUnderlying
  Series <- MCSeries
  NoJob = NoJob
  SimpleWork = {"EXECUTIONS"}
  Count <- TwoDetails
  MaxFaults = 2
INVARIANTS
  TypeOK
  Agreement
  Conservation
  AnswersMatch
  ConnectionSound
  DumpedOnce
  QuitComplete
PROPERTIES
  FirstVerdictStands
  OneReadyRequest
  ImplementsLedger
