SPECIFICATION Spec
CONSTANTS
  Slots = {1, 2}
  MaxFaults = 0
  Areas = {"mods"}
CHECK_DEADLOCK FALSE
INVARIANT OldModRecoverable
