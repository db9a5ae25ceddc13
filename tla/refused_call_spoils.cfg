SPECIFICATION Spec
CONSTANTS
  MaxLevel = 3
  Machines = {m1, m2}
  NoMachine = none
  Settings <- LimitedOnly
  RefusedLevels = {2}
  MainMayCallHost = FALSE
  ReconfiguresInCalls = FALSE
  IsEditor = FALSE
  EditorThrottle = 8
  Fuel = 1
INVARIANT GuestRunsOnItsRegisters
