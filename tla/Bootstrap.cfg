CONSTANTS
  p1 = p1
  p2 = p2
  p3 = p3
  p4 = p4
  h1 = h1
  h2 = h2
  Group = {p1, p2, p3, p4}
  Hosts = {h1, h2}
  HostOf <- MCHostOf
SPECIFICATION Spec
INVARIANTS RanksFollowNodes NoAssertFails OneMapping BarrierCallersSeparated
PROPERTY AllReady
