SPECIFICATION Spec
CONSTANTS
  MaxRequests = 1
  MaxFaults = 1
CHECK_DEADLOCK FALSE
PROPERTY ProductionItemsPersist
