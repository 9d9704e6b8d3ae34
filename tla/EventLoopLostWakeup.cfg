CONSTANTS
  Signals = {"SIGINT"}
  MaxReady = 3
  MaxSamples = 0
SPECIFICATION FairSpec
PROPERTY ShutdownStops
CHECK_DEADLOCK FALSE
