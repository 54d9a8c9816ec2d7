CONSTANTS
  NumCommands = 1
  CacheLimit = 3
  QueueCapacity = 1
  MaxSessions = 2
  MaxCrashes = 0
  MaxRestarts = 0
  Faults = {"link", "age"}
  CloseCallbacks = {"inline"}
SPECIFICATION Spec
INVARIANTS ExpiredWasNeverDelivered
CHECK_DEADLOCK FALSE
