CONSTANTS
  StartupDelay = 3
  Pause = 2
  TurnDuration = 5
  MaxLate = 3
  Contracts <- MCContracts
  NoLimit = NoLimit
  Never = Never
  WindowSize = 3
  Grace = 2
  Period = 1
  MaxFailures = 2
  MaxEndpoints = 2
SPECIFICATION Spec
INVARIANT WarmupReturns
INVARIANT QuietIsReported
CHECK_DEADLOCK FALSE
