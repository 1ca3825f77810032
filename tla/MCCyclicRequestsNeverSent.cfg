SPECIFICATION FairSpec
CONSTANTS
  RT_MAX_CYCLIC_INTERFACES = 1
  TickPeriod = 8
  NANOSECONDS_IN_MILLISECOND = 2
  Intervals = {3, 7}
  Offsets = {0, 5}
  MaxPreemption = 0
PROPERTIES
  CreatedIsSent
