CONSTANTS
  NumCommands = 4
  CacheLimit = 3
  QueueCapacity = 1
  MaxSessions = 3
  MaxCrashes = 1
  MaxRestarts = 0
  Faults = {"link", "age", "crash"}
  CloseCallbacks = {"inline", "later"}
SPECIFICATION Spec
CHECK_DEADLOCK FALSE
INVARIANTS HistoryInv OneAnswer
PROPERTIES ExecutedInOrder
