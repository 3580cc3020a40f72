SPECIFICATION Spec
CONSTANTS
  m1 = m1
  m2 = m2
  m3 = m3
  n1 = n1
  n2 = n2
  l1 = l1
  l2 = l2
  vm0 = vm0
  vm1 = vm1
  workers = workers
  naff = naff
  raff = raff
  listed = listed
  Machines = {m1, m2, m3, m4}
  Foreign = {}
  Nodes = {n1}
  RuleNames = {naff, raff, listed}
  Sets = {workers}
  NoSet = NoSet
  NodeRule <- NodeRules
  ResourceRule <- ResourceRules
  NodeLists = {l1, l2}
  NoNodes = NoNodes
  NoRule = NoRule
  Classes <- AllClasses
  Scenarios <- NoFaults
  RuleRetries = 2
CHECK_DEADLOCK FALSE
SYMMETRY AnyMachine
INVARIANTS SetRuleForms
