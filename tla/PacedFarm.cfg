SPECIFICATION Spec
CONSTANTS
  MaxRequests = 2
  CheckInterval = 5
  MinPacingTime = 1
  ViolationPause = 3
  FreshTime = 2
  MaxTime = 12
INVARIANTS
  TypeOK
  Burst
  Spacing
  CountLeftAgrees
