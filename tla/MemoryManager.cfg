CONSTANTS
  Total = 8
  Sizes = {1, 2, 3}
SPECIFICATION Spec
INVARIANTS Tiles Coalesced
PROPERTY ImplementsArena
