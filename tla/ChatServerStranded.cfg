CONSTANTS
  a = a
  b = b
  main = main
  blue = blue
  Fds <- MCFds
  Names <- MCMainOnly
  MainRoom = main
  MaxRoomIdx = 0
  MAX_PROCESSED_FRAMES_PER_POLL = 1
  MAX_BYTES_READ_PER_POLL = 2
  MAX_DATA_SIZE = 2
  MAX_INPUT_BUFFER_BYTES = 2
  ReceiveBuffer = 2
  Backlog = 1
  MaxConnections = 2
  Listener = Listener
SPECIFICATION FairSpec
PROPERTY FramesAreProcessed
CHECK_DEADLOCK FALSE
