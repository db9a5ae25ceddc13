SPECIFICATION FairSpec
CONSTANTS
  MaxLevel = 3
  Machines = {m1, m2}
  NoMachine = none
  Settings <- EnforcedSettings
  RefusedLevels = {1, 2}
  MainMayCallHost = TRUE
  ReconfiguresInCalls = TRUE
  IsEditor = FALSE
  EditorThrottle = 8
  Fuel = 1
INVARIANTS
  CallsRunOnTheirMachine
PROPERTY ActivationsEnd
