SPECIFICATION MCFairSpec
CONSTANTS
  SavedHosts = {0, 100, 255}
  ShellChips = {"di", "do"}
  MaxCommands = 4
  ConsoleStates = {"FLASHING_RED", "GREEN"}
  Second = 4
  Wrap = 7
  MaxGap = 6
  Leftover = {0, 9}
  MaxEvents = 2
CHECK_DEADLOCK FALSE
INVARIANTS TypesOK StaticAddressIsHost
PROPERTIES SpiStaysClean SpiIsServed LedsShowStatus TimeIsKept
