CONSTANTS
  Arguments <- MCArguments
  MaxDirectories = 1
SPECIFICATION Spec
INVARIANTS
  DirectoryIsItsOwn
  SkippedAboveInvalid
  MetadataIsComplete
  EveryTrialIsCounted
  SustainableIsEarned
PROPERTY RowsAreKept
CHECK_DEADLOCK FALSE
