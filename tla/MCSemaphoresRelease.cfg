CONSTANTS
  Threads = {1, 2}
  InitTask = 1
  KernelIds = {1, 2, 3}
  broker_Semaphore = 2
  RT_MAX_HAL_SEMAPHORES = 2
  MaxDepth = 1
SPECIFICATION SemaphoresSpec
PROPERTIES
  HeldIsReleased
CHECK_DEADLOCK FALSE
