SPECIFICATION Spec
CONSTANTS
  Machines = {m1, m2}
  Nodes = {n1}
  VMIDs = {1, 2}
  HAMachines = {}
  NoNode = NoNode
  NoMachine = NoMachine
  FaultBudget <- Removal
  MaxRequests <- Twice
CHECK_DEADLOCK FALSE
PROPERTIES TearsDownOnlyOwnVM
