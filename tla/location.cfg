CONSTANTS
  w1 = w1
  w2 = w2
  LocationCount = 2
  Placed = {1}
  Results = {"house", "coarse"}
  Selectable = {"house"}
  Workers = {w1, w2}
  DiscoveryLimit = 2
  MaxFailures = 1
  MaxOwnerDecisions = 1
  MaxCommands = 2
  MaxUpsets = 1
SPECIFICATION Spec
SYMMETRY Successors
CHECK_DEADLOCK FALSE
INVARIANTS
  RolloutInv
PROPERTIES
  CanariesBeforeRest
  AutomationYields
  ImplementsLease
