SPECIFICATION FairSpec
CONSTANTS
  t1 = t1
  t2 = t2
  keeper = keeper
  Threads = {t1}
  Poller = t1
  numChannels = 1
  spi = spi
  icm = icm
  memory = memory
  Peripherals = {spi}
  Handled = {spi}
  MEMORY = memory
  SingleMasks = {}
  ListMasks = {{"BIS", "LIS"}}
  NONE = NONE
PROPERTIES
  FinishedIsFoundFinished
