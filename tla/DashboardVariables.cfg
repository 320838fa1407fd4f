SPECIFICATION PageSpec
CONSTANTS
  VariableNames = {a, b, c}
  Patient = TRUE
  MaxRequests = 1
SYMMETRY NamesSymmetry
INVARIANTS
  OrderAndReachExact
  CycleFoundExactly
PROPERTIES
  NoFirstCycle
