SPECIFICATION Spec
CONSTANTS
  Updaters = {u1, u2}
  MaxVersion = 3
  MaxStarts = 2
  MaxFaults = 1
PROPERTY NoDowngrade
CHECK_DEADLOCK FALSE
