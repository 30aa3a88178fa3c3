SPECIFICATION MCFairSpec
CONSTANTS
  MaxRequests = 4
  MaxFaults = 2
  Values = {0, 240}
  MaxChanges = 1
  MaxResets = 2
  MaxReconfigs = 1
  MaxFailures = 2
CHECK_DEADLOCK FALSE
INVARIANTS TypesOK FactoryDataSurvives ItemsAreWhole StartedIsComplete RestoredBeforeStart
PROPERTIES KeysAreServed FinallyStarted
