SPECIFICATION Spec
CONSTANTS
  Group <- Processes
  NodeOf <- Nodes
  MaxCrashes = 3
  MaxLate = 1
INVARIANTS
  OnTimeAreServed
PROPERTIES
  StopsInTheEnd
