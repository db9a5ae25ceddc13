SPECIFICATION ArgumentsSpec
CONSTANTS
  Arguments <- OuterLists
  NestedArguments <- NestedLists
  Callables = {c}
  BoundArguments <- BoundLists
  FrameWords = 4
  MaxNesting = 2
  MaxEarly = 16
INVARIANT ArgumentsArrive
CHECK_DEADLOCK FALSE
