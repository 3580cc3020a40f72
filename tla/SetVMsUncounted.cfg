SPECIFICATION Spec
CONSTANTS
  n1 = n1
  n2 = n2
  workers = workers
  Requests = {r1, r2, r3}
  Nodes = {n1, n2}
  NoNode = NoNode
  NoSet = NoSet
  Classes <- AllClasses
  Assignments <- AllSpread
  MaxMem <- FourAndThree
  NameRank <- ByName
  Unstable = {n2}
  ListHasTag = FALSE
  TTL = 0
  MaxTime = 1
CHECK_DEADLOCK FALSE
PROPERTIES SetVMsSpread
