CONSTANTS
  MAX_PENDING_OUTPUT_BYTES = 4
  MAX_BYTES_WRITTEN_PER_POLL = 3
  SocketBuffer = 2
  MaxMessage = 5
  MaxAccepted = 9
SPECIFICATION FairSpec
INVARIANTS WireInOrder QueueHoldsTheRest SizeIsExact InterestIffPending BudgetRespected
PROPERTY AcceptedIsSent
\* A closed connection takes no further step.
CHECK_DEADLOCK FALSE
