SPECIFICATION Spec
CONSTANTS
  Limit = 3
  WindowSeconds = 2
  TicksPerSecond = 3
  MaxTime = 18
  MaxCalls = 7
INVARIANTS
  WindowBound
  NoFalseRejection
  RetryAfterExact
CHECK_DEADLOCK FALSE
