SPECIFICATION Spec
CONSTANTS
  Shapes <- MCShapes
  NormalLayers = 2
  NormalMbn = 4
  MemoryLayers = 4
  Speeds = {10, 30, 50}
  MayChange = {0, 1, 4}
  MaxChanges = 3
INVARIANTS
  EveryDeviceRanked
  FailsOnlySo
PROPERTIES
  PlanningSettles
