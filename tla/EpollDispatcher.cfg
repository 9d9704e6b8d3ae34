CONSTANTS
  Fds = {1, 2, 3}
  Conditions <- MCConditions
  MaxEvents = 1
SPECIFICATION FairSpec
INVARIANT ListsAreSound
PROPERTIES ImplementsDispatcher NoStarvation
