SPECIFICATION FairSpec
CONSTANTS
  m1 = m1
  m2 = m2
  m3 = m3
  Machines = {m1, m2, m3}
  NoMachine = NoMachine
  NoStorage = NoStorage
  Storages <- Node
  Pools = {"workers", "gpu"}
  Data <- AllClasses
  Scenarios <- AllScenarios
  MaxVMs = 2
CHECK_DEADLOCK FALSE
INVARIANTS TypeOK NoPoolLeftBehind AsksForTheClass
PROPERTIES DeletesOnlyUnused MutexIsFree
