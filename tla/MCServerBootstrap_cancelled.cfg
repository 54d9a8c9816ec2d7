CONSTANTS
  Values = {"a", "b"}
  NumDrafts = 2
  Slots = {1}
  Calls = {1}
  MaxProfiles = 1
  MaxRestarts = 0
  MaxRuns = 2
  Faults = {"cancel"}
SPECIFICATION BootstrapSpec
INVARIANTS LiveClaimIsCurrent
CHECK_DEADLOCK FALSE
