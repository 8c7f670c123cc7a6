CONSTANTS
  NStreams = 1
  Warm = {1}
  RequestSizes = {1, 2}
  BorrowSizes = {1}
  BufferSizes = {1}
  max_split_size = 2
  max_internal_fragment_size = 0
  kMinSplitRemaining = 1
  Capacity = 2
  MaxPending = 1
  Ids = {i1, i2, i3}
  NoId = NoId
SPECIFICATION Spec
INVARIANT AccountsMatch
PROPERTIES ReturnedMemoryIdle CallsReturn
