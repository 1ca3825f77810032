SPECIFICATION FairSpec
CONSTANTS
  DEATH_REPORT_STACK_TRACE_SIZE = 2
  MaxFaults = 3
  WatchdogBuilds = {TRUE, FALSE}
INVARIANTS
  TypeOK
  ValidReportIsOfOneFault
  SoftwareResetHasReport
PROPERTIES
  UnseenReportIsKept
  FaultLeadsToRestart
