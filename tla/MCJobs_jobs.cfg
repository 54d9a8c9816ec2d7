CONSTANTS
  NumJobs = 3
  Keys = {"a", "b"}
  MaxLogs = 1
  MaxRestarts = 1
  Job = 1
  Limit = 2
  Calls = {1, 2}
  MaxFaults = 2
SPECIFICATION Spec
CHECK_DEADLOCK FALSE
INVARIANTS JobInv LogTellsStatus PageInv FinishedOnceAndTrue
PROPERTIES TerminalIsFinal JobsEndAndAreSeen
