CONSTANTS
  w1 = w1
  w2 = w2
  Writers = {w1, w2}
  LogSizes = {0, 2}
  MaxCalls = 3
  Threads = {1, 3}
  Reader = 2
  TICKS_PER_RELOAD = 1
  InitialMinima = {2}
  NANOSECOND_IN_SECOND = 3
  ClockFrequency = 2
  Word = 16
  Scale = 2
  MaxTime = 2
  MaxRuns = 2
  AllRuns = 2
  Percents = {0, 3, 7}
  MaxTicks = 3
  AverageScale = 6
  StackWords = 5
  RT_MEASURE_STACK = TRUE
SPECIFICATION MonitorSpec
SYMMETRY Symmetry
INVARIANTS
  TypeOK
  NoSlotInEmptyLog
  BufferIsHistory
  ReaderIsToldRight
  MeasuredWithinCall
  StatisticsOfHistory
  UsageBoundsOrdered
  IdleUsageOfTicks
  StackUsageOfScan
CHECK_DEADLOCK FALSE
