SPECIFICATION PartsSpec
CONSTANTS
  Scripts = {s1, s2}
  Sandboxes = {b1, b2}
  Paths = {p1, p2}
  Contents = {c1, c2}
  None = none
  Programs = {c1}
  Publishing = {c1}
  MaxVersion = 2
  SavesElsewhere = FALSE
  Owners = {n1, n2, own}
  SandboxOwners = {own}
  SharedBoxes = {b1, b2}
  ELFs = {e1}
  CPPScripts = {cpp}
  SafeGDScripts = {}
  ELFOf <- Beside
  Nobody = nobody
  MaxCalls = 2
  AssociatesInCalls = FALSE
  Safe = {safe}
  Sources <- Texts
  Signatures <- Written
  Nothing = nothing
  MaxInstances = 2
  MaxDepth = 2
  MaxCount = 2
  CompilesInCalls = FALSE
  Names = {f, g}
  Addresses = {a1, a2}
  NoFunction = nofunction
  Hashes = {f, g}
  Hash <- OwnHash
  Buffers = {s1buffer, s2buffer}
  Slots = {0}
  SlotOf <- OneSlot
  MaxFunctions = 1
  LooksUpInMain = FALSE
  Releases <- TwoReleases
  NotLoaded = notloaded
  PropertyNames = {"speed", "title", "jump", "hidden"}
  Clashing = {"hidden", "memory_max"}
  BuiltIn = {"memory_max"}
  Inline = {"v0", "v1"}
  Held = {"s0", "s1"}
  Null = "null"
  Gone = "gone"
  MaxProperties = 2
  MaxSlots = 2
  AccessorsSetProperties = FALSE
  Arguments <- OuterLists
  NestedArguments <- NestedLists
  Callables = {c}
  BoundArguments <- BoundLists
  FrameWords = 4
  MaxNesting = 2
  MaxEarly = 7
SYMMETRY Symmetry
INVARIANTS
  RegistryIsExact
  VersionTellsSource
  FunctionsAreOfTheSource
  SharedSandboxesAreCounted
  CallsRunInTheirTree
  NoForeignProgram
  CallsAreComplete
  CountsAreOfTheirFunctions
  NamesResolve
  PublicFunctionsAreFound
  PropertiesAreKept
  ArgumentsArrive
CHECK_DEADLOCK FALSE
