SPECIFICATION Spec
CONSTANTS
  Callers = {c1, c2}
  Inputs <- MCInputs
  MaxCalls = 2
  MaxFailures = 2
  MaxForeign = 1
SYMMETRY Symmetry
INVARIANTS NothingHidden RetriesConverge PartialForCause
CHECK_DEADLOCK FALSE
