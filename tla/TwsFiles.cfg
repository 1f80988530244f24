SPECIFICATION Spec
CONSTANTS
  IntLimit = 8
  ChunkSize = 2
  BufSize = 3
  Calendar <- MCCalendar
  Durations <- MCDurations
  Cases <- MCCases
INVARIANTS
  TypeOK
  BufferFits
  ReadsUpToFirstBad
  Lossless
  JobsComplete
  BeginsOnBusinessDay
  OwnFilesReadable
PROPERTIES
  Ends
  TextsInOrder
CHECK_DEADLOCK FALSE
