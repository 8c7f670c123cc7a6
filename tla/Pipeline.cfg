SPECIFICATION Spec
CONSTANTS
  Jobs <- MCJobs
INVARIANTS
  DataReady
PROPERTIES
  EveryStageFinishes
