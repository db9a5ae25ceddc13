SPECIFICATION ReferencesSpec
CONSTANTS
  MaxStates = 3
  Values = {x, y}
  Nil = nil
  Junk = junk
  HostArguments <- UpToOneArgument
  ReferencesMax = {1, 2}
  DefaultMaxRefs = 2
  KeepsOverflow = FALSE
  MaxLevel = 3
  Addresses = {a1, a2, a3}
  Nodes = {n1}
  RefCounteds = {r1, r2}
  None = none
  Approved = {r1}
  MaxRefs = 2
  FreesInCalls = FALSE
  RemovesInCalls = FALSE
SYMMETRY Symmetry
INVARIANTS
  IndicesMeanWhatWasStored
  StorageFits
  TypeOK
  HandlesDenoteTheirObjects
  CountedHandlesStayAlive
  AllowListIsExact
PROPERTIES
  HostArgumentsAreReadOnly
  RestrictionsAreNotLifted
