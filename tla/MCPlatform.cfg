CONSTANTS
  RT_MAX_CYCLIC_INTERFACES = 2
  TickPeriod = 8
  NANOSECONDS_IN_MILLISECOND = 2
  Intervals = {1, 3, 7}
  Offsets = {0, 5}
  MaxPreemption = 2
  Threads = {1, 2, 3}
  InitTask = 1
  KernelIds = {1, 2, 3}
  broker_Semaphore = 2
  RT_MAX_HAL_SEMAPHORES = 2
  MaxDepth = 2
  Period = 2
  MEGA_HZ = 1000
  MAIN_CRYSTAL_OSCILLATOR_FREQUENCY = 12500
  PllaMultipliers = {0, 1, 7, 24, 62}
  PllaDividers = {0, 1, 3, 7}
  Addresses = {0, 2, 5}
  Misaligned = 1000
  Exponents = {3, 4, 5}
SPECIFICATION PlatformSpec
INVARIANTS
  TypeOK
  ExpiryOnSchedule
  TimelyKeepsGoing
  HoldsWhatItWasTold
  FrequencyIsTheHardwares
  RequestedIsUncached
PROPERTIES
  TimelySendsForever
  WaitEnds
  WatchdogAsBuilt
CHECK_DEADLOCK FALSE
