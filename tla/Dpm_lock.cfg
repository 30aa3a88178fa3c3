SPECIFICATION Spec
CONSTANTS
  Reuse = TRUE
  MaxPackets = 3
  MaxCos = 2
INVARIANT FlagsPublished
