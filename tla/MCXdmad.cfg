SPECIFICATION KeeperSpec
CONSTANTS
  t1 = t1
  t2 = t2
  keeper = keeper
  Threads = {t1, t2, keeper}
  Poller = t1
  numChannels = 2
  spi = spi
  icm = icm
  memory = memory
  Peripherals = {spi, icm}
  Handled = {spi}
  MEMORY = memory
  SingleMasks = {{"BIS"}}
  ListMasks = {{"BIS", "LIS", "RBEIS"}}
  NONE = NONE
INVARIANTS
  TypeOK
  DoneHasStopped
  HandlerMeetsNoFreeChannel
  DoneIsNotified
PROPERTIES
  ImplementsChannels
  SingleTransferEnds
