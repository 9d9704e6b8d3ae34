CONSTANTS
  a = a
  b = b
  c = c
  d = d
  main = main
  blue = blue
  green = green
  Fds <- MCFds
  Names <- MCNames
  MainRoom = main
  MaxRoomIdx = 5
SPECIFICATION ChatSpec
INVARIANT BroadcastReachesRoom
