CONSTANTS
    Width = 3
    NaN = NaN
    MAX_STEPS = 9
    Sources <- MCSources
    Globals <- MCGlobals
    Selections <- MCSelections
    Arguments <- MCArguments
SPECIFICATION Spec
PROPERTIES CodeMeansTheSource VerifierAccepts PassesKeepMeaning
CHECK_DEADLOCK FALSE
