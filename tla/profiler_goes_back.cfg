SPECIFICATION SafeSpec
CONSTANTS
  Safe = {safe}
  Sources <- Texts
  Signatures <- Written
  Nothing = nothing
  MaxInstances = 2
  MaxDepth = 2
  MaxCount = 2
  CompilesInCalls = FALSE
INVARIANT RecordsGrowMonotonically
CHECK_DEADLOCK FALSE
