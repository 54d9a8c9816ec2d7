CONSTANTS
  NumCommands = 2
  CacheLimit = 3
  QueueCapacity = 1
  MaxSessions = 2
  MaxCrashes = 1
  MaxRestarts = 1
  Faults = {"disk", "link", "crash", "refuse", "send", "restart", "age"}
  CloseCallbacks = {"inline"}
SPECIFICATION LiveSpec
CHECK_DEADLOCK FALSE
PROPERTIES EveryCommandSettles
