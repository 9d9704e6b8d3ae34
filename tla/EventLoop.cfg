CONSTANTS
  Signals = {"SIGINT", "SIGUSR1", "SIGUSR2"}
  MaxReady = 2
  MaxSamples = 21
SPECIFICATION BusySpec
INVARIANTS SnapshotIsOfInterval PercentilesAreNearestRank
PROPERTY SignalsAreServed
CHECK_DEADLOCK FALSE
