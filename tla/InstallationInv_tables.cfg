SPECIFICATION Spec
CONSTANTS
  Slots = {1, 2}
  MaxFaults = 1
  Areas = {"profiles", "mods", "optional", "bulk", "files", "workspace"}
CHECK_DEADLOCK FALSE
INVARIANT IInv
