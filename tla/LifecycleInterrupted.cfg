SPECIFICATION FairSpec
CONSTANTS
  Machines = {m1}
  Nodes = {n1}
  VMIDs = {1, 2}
  HAMachines = {m1}
  NoNode = NoNode
  NoMachine = NoMachine
  FaultBudget <- Interrupted
  MaxRequests <- StartsTwice
CHECK_DEADLOCK FALSE
INVARIANTS StepOrder
PROPERTIES TeardownCompletes
