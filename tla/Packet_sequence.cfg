SPECIFICATION Spec
CONSTANTS
  MainCmds <- MCSequence
  SeqCmds <- MCList
  QueueDepth = 2
  ConfigLen = 2
  MaxCalls = 3
  MaxInd = 0
  MaxDepth = 3
  MaxWork = 2
  StackInds = {"OTHER", "RESET_0"}
  StackResults = {TRUE}
  MayStop = FALSE
INVARIANT CorrespondingConfirmation
