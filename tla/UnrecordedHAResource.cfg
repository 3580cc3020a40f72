SPECIFICATION Spec
CONSTANTS
  Machines = {m1}
  Nodes = {n1}
  VMIDs = {1, 2}
  HAMachines = {m1}
  NoNode = NoNode
  NoMachine = NoMachine
  FaultBudget <- LostThenEdit
  MaxRequests <- Twice
CHECK_DEADLOCK FALSE
PROPERTIES DroppedHAIsRefused
