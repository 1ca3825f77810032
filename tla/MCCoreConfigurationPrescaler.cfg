CONSTANTS
  MEGA_HZ = 1000
  MAIN_CRYSTAL_OSCILLATOR_FREQUENCY = 12500
  PllaMultipliers = {24}
  PllaDividers = {1}
  Addresses = {0}
  Misaligned = 1000
  Exponents = {4}
SPECIFICATION CoreSpec
INVARIANTS
  MainClockIsFound
CHECK_DEADLOCK FALSE
