SPECIFICATION Spec
CONSTANTS
    Width = 16
    NaN = NaN
    MAX_STEPS = 12
    BRANCH_REACH = 40
    STACK_TOP = 2400
    LOOP_LIMIT = 12
    VRegs <- MCVRegs
    Pool <- MCPool
    Forceable <- MCForceable
    ClobberedLists <- MCClobberedLists
    Code <- MCCode
    Displacements <- MCDisplacements
    Requests <- MCRequests
    Texts <- MCTexts
    Sources <- MCSources
INVARIANTS
    BlocksFollowIndentation
    RegistersHoldTheirValues
    WordsDoWhatIsAsked
PROPERTIES
    ParsesWhatWasWritten
    MachineMeansTheSource
    OnlyTheResultIsWritten
    GlobalsOutliveCalls
CHECK_DEADLOCK FALSE
