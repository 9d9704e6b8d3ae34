CONSTANTS
  a = a
  b = b
  main = main
  blue = blue
  Fds <- MCFds
  Names <- MCNames
  MainRoom = main
  MaxRoomIdx = 2
  MAX_PROCESSED_FRAMES_PER_POLL = 1
  MAX_BYTES_READ_PER_POLL = 2
  MAX_DATA_SIZE = 2
  MAX_INPUT_BUFFER_BYTES = 1
  ReceiveBuffer = 2
  Backlog = 1
  MaxConnections = 3
  Listener = Listener
SPECIFICATION FairSpec
INVARIANT ReaderIsAlive
PROPERTIES ServedDuringFlood GoneIsNoticed
CHECK_DEADLOCK FALSE
