SPECIFICATION FairSpec
CONSTANTS
  MainCmds <- MCPlain
  SeqCmds <- MCNone
  QueueDepth = 2
  ConfigLen = 2
  MaxCalls = 3
  MaxInd = 1
  MaxDepth = 3
  MaxWork = 2
  StackInds = {"OTHER", "RESET_0"}
  StackResults = {TRUE, FALSE}
  MayStop = TRUE
INVARIANT OwnConfirmation
PROPERTIES AnswersDispatched QueueDrainedByOwner CallReturns
