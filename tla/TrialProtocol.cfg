SPECIFICATION Spec
CONSTANT NumWorkers = 2
INVARIANTS
  TypeOK
  WarmupIsOver
  ValidMeansMeasured
  NothingLeftRunning
PROPERTY TrialEnds
CHECK_DEADLOCK FALSE
