CONSTANTS
    Width = 3
    NaN = NaN
    MAX_STEPS = 9
    Sources <- Loops
    Globals <- MCGlobals
    Selections <- MCPipeline
    Arguments <- MCArguments
SPECIFICATION Spec
PROPERTY HoistingInvariance
CHECK_DEADLOCK FALSE
