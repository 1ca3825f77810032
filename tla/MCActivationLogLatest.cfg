SPECIFICATION Spec
CONSTANTS
  Writers = {w1}
  LogSizes = {2}
  MaxCalls = 3
INVARIANTS
  LatestIsInLog
