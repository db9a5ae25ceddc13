SPECIFICATION Spec
CONSTANTS
  MaxLevel = 4
  Machines = {m1, m2}
  NoMachine = none
  Settings <- AllSettings
  RefusedLevels = {1}
  MainMayCallHost = FALSE
  ReconfiguresInCalls = FALSE
  IsEditor = TRUE
  EditorThrottle = 8
  Fuel = 1
SYMMETRY Symmetry
INVARIANTS
  TypeOK
  LevelDiscipline
  CodeRunsOnItsMachine
  GuestRunsOnItsRegisters
  SettingIsTheHosts
PROPERTY Refinement
