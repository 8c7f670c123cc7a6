CONSTANTS
  NStreams = 2
  Warm = {1, 2}
  RequestSizes = {1, 3}
  BorrowSizes = {}
  BufferSizes = {}
  max_split_size = 3
  max_internal_fragment_size = 0
  kMinSplitRemaining = 1
  Capacity = 3
  MaxPending = 1
  Ids = {i1, i2, i3}
  NoId = NoId
SPECIFICATION Spec
SYMMETRY IdSymmetry
INVARIANTS BlocksTile TablesMatchInfo EventsMatchTables EventCountsMatch NoMergeMissed EventCoversWork
PROPERTIES FreshMemory EmptiedCache
