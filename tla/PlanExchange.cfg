\* Spans of three steps: two spans are consumed, three are produced.
CONSTANTS
  p1 = p1
  p2 = p2
  p3 = p3
  Group = {p1, p2, p3}
  Indices <- MCIndices
  iter_per_rank = 1
  steps = 10
  Workers = 4
  Collective = TRUE
SPECIFICATION Spec
INVARIANTS RemovedAfterAllGot NoStalePlan CallersSeparated
 
