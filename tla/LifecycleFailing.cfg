SPECIFICATION FairSpec
CONSTANTS
  Machines = {m1, m2}
  Nodes = {n1, n2}
  VMIDs = {1, 2}
  HAMachines = {m1}
  NoNode = NoNode
  NoMachine = NoMachine
  FaultBudget <- Failing
  MaxRequests <- Twice
CHECK_DEADLOCK FALSE
INVARIANTS StepOrder GoneMeansNoVM NoStrandedHAResource AtMostOneVM
PROPERTIES ProvisioningCompletes
