SPECIFICATION Spec
CONSTANTS
  s1 = s1
  s2 = s2
  unmapped = unmapped
  mapped = mapped
  Interfaces = {unmapped, mapped}
  Mapped = {mapped}
  Cyclic = {mapped}
  Senders = {s1, s2}
  QueueSize = 2
  Callbacks = {f}
  NULL = NULL
  f = f
SYMMETRY Symmetry
INVARIANTS
  TypeOK
  MaximumWasReached
  UninterruptedSendIsCounted
  OverflowReported
PROPERTIES
  MaximumDecreasesOnlyByRace
