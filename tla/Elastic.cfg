SPECIFICATION Spec
CONSTANTS
  N = 3
  Plans <- SomePlans
  Steps = 7
  Epochs = 2
  PRE_PROFILING_ROUND = 5
  SLIDING_WINDOW = 2
INVARIANTS
  RunTogether
  NoShortProfile
PROPERTIES
  EndsUnlessRaced
\* A process that is overtaken in the barrier stops them all.
CHECK_DEADLOCK FALSE
