SPECIFICATION FairSpec
CONSTANTS
  m1 = m1
  m2 = m2
  n1 = n1
  n2 = n2
  talos = talos
  Machines = {m1, m2}
  Nodes = {n1, n2}
  Isos = {talos}
  Places <- Shared
  NoMachine = NoMachine
  FaultBudgets <- Pairs
CHECK_DEADLOCK FALSE
INVARIANTS TypeOK OneDownload PassesOnlyLanded
PROPERTIES UploadCompletes
