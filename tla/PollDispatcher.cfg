CONSTANTS
  Fds = {1, 2, 3}
  Conditions <- MCConditions
  MaxEvents = 2
SPECIFICATION Spec
INVARIANTS IndexesMatch
PROPERTY ImplementsDispatcher
