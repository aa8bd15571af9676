\* The thresholds of the code, two coroutines.
SPECIFICATION FairSpec
CONSTANTS
  c1 = c1
  c2 = c2
  Caller = {c1, c2}
  FailureThreshold = 5
  SuccessThreshold = 2
  MaxAttempts = 5
  CountCap = 6
INVARIANTS
  TypeOK
  CountsMatchState
  RaisesAfterLastAttempt
PROPERTIES
  Recovers
  FailedProbeReopens
  OperationsEnd
