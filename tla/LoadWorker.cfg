SPECIFICATION Spec
CONSTANTS
  Total = 2
  Active = 2
  Second = 3
  Rate = 2
  Duration = 5
  Drain = 1
  Quiet = 1
  StartDelay = 1
  MaxLate = 6
  MaxOverdue = 1
  MaxLag = 2
  MaxQueue = 1
  Phases = 2
INVARIANTS
  TypeOK
  OffersAddUp
  PairedIfDrained
  CountsAreOfThisPhase
  RatioIsHonest
CHECK_DEADLOCK FALSE
