CONSTANTS
  Data = {"a", "b"}
  CpuStreams = {"compute"}
  GpuStreams = {"d2h"}
  Join = "join"
  Blocking = "blocking"
  MaxPendingTasks = 2
  MaxUses = 1
  Main = "main"
  Nobody = "nobody"
SPECIFICATION Spec
INVARIANTS UsedMemoryKept FreedOnce
PROPERTIES FreedInTheEnd CallsReturn
\* The destructor may wait for ever (ExitDeadlock).
CHECK_DEADLOCK FALSE
