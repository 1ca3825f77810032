SPECIFICATION Spec
CONSTANTS
  Readers = {1, 2}
  CounterPeriod = 3
  TICKS_PER_RELOAD = 2
  UlongPeriod = 8
  NANOSECOND_IN_SECOND = 20
  ClockFrequency = 3
  IrqDelay = 1
  MaxReloads = 2
INVARIANTS
  TypeOK
  WrapsCountedOnce
  PairOfOneInstant
  TopReaderPairOfOneInstant
PROPERTIES
  ImplementsClock
