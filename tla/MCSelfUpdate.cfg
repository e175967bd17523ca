SPECIFICATION Spec
CONSTANTS
  Updaters = {u1, u2}
  MaxVersion = 3
  MaxStarts = 4
  MaxFaults = 3
SYMMETRY Symmetry
INVARIANTS Recoverable
PROPERTY IsAtomic
CHECK_DEADLOCK FALSE
