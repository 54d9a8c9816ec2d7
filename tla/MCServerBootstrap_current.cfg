CONSTANTS
  a = a
  b = b
  s1 = s1
  s2 = s2
  c1 = c1
  c2 = c2
  Values = {a, b}
  NumDrafts = 2
  Slots = {s1, s2}
  Calls = {c1, c2}
  MaxProfiles = 0
  MaxRestarts = 1
  MaxRuns = 1
  Faults = {}
SPECIFICATION BootstrapSpec
SYMMETRY Symmetry
CHECK_DEADLOCK FALSE
INVARIANTS CurrentInv
