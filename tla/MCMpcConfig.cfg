SPECIFICATION Spec
CONSTANTS
  MaxNp = 2
  Steps = {1}
  Times = {2}
  Capacities = {1}
  Dims = {1}
  Assigned <- MCAssigned
  Shapes <- MCShapes
  Models <- MCModels
  Malformed <- MCMalformed
INVARIANTS
  ConfiguredAsBuilt
  SolvesInBounds
  AssemblyInBounds
  CouplingIsCurrent
CHECK_DEADLOCK FALSE
