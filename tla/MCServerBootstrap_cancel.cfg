CONSTANTS
  Values = {"a", "b"}
  NumDrafts = 1
  Slots = {1, 2}
  Calls = {1}
  MaxProfiles = 1
  MaxRestarts = 0
  MaxRuns = 1
  Faults = {"cancel"}
SPECIFICATION BootstrapLiveSpec
CHECK_DEADLOCK FALSE
PROPERTIES RemovedStays NoClaimRevived PreparationEnds
