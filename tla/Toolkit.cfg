SPECIFICATION MCFairSpec
CONSTANTS
  MaxPackets = 4
  MaxCalls = 2
  MaxResets = 3
  Devices = {d1, d2}
  MaxOpen = 1
  MaxLength = 4
  HostBlock = 2
  MaxTransfers = 2
  MaxFiles = 3
  MaxFaults = 1
CHECK_DEADLOCK FALSE
INVARIANTS TypesOK FlagsFollow NoLostWakeup
PROPERTIES PacketsArrive SignalledOnce ResetIsClean DevicesStayUsable TransfersAreWhole FlashStaysConsistent
