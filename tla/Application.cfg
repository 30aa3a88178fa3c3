SPECIFICATION AppFairSpec
CONSTANTS
  MaxResets = 1
  MaxReconfigs = 1
  MaxFaults = 1
CHECK_DEADLOCK FALSE
INVARIANTS InterruptHasChannel KicksReachTheWatchdog ReturnedIsQuiet
PROPERTIES WatchdogIsKicked FinallyServed
