CONSTANTS
  NumCommands = 2
  CacheLimit = 3
  QueueCapacity = 1
  MaxSessions = 3
  MaxCrashes = 1
  MaxRestarts = 1
  Faults = {"disk", "link", "crash", "refuse", "send", "restart", "age"}
  CloseCallbacks = {"inline", "later"}
SPECIFICATION Spec
CHECK_DEADLOCK FALSE
INVARIANTS AtMostOnce AcceptedBeforeEffect OneInFlightInOrder
PROPERTIES KeepsPromise
