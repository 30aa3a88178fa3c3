SPECIFICATION Spec
CONSTANTS
  Reuse = TRUE
  MaxPackets = 2
  MaxCos = 1
INVARIANT MailboxOnlyIsConsistent
PROPERTIES SendInOrder ReceivesInOrder
