\* One member carries world_rank[0], as the handler's text expects.
CONSTANTS
  p1 = p1
  p2 = p2
  p3 = p3
  p4 = p4
  Group = {p1, p2, p3, p4}
  Firsts = {p1}
  MaxCalls = 3
SPECIFICATION FairSpec
INVARIANTS NobodyLeavesEarly NoLostWakeup
PROPERTY ImplementsRendezvous
