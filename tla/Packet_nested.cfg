SPECIFICATION Spec
CONSTANTS
  MainCmds <- MCPlain
  SeqCmds <- MCNone
  QueueDepth = 1
  ConfigLen = 1
  MaxCalls = 1
  MaxInd = 2
  MaxDepth = 3
  MaxWork = 2
  StackInds = {"RESET_1"}
  StackResults = {TRUE}
  MayStop = FALSE
INVARIANTS QueueHoldsOthers AnswerOwed
PROPERTY ImplementsRequestReply
