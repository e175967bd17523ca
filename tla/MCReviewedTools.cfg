SPECIFICATION ReviewedSpec
CONSTANTS
  Generators = {g1, g2, g3}
  Principals = {p1, p2}
  Tokens = {t1, t2, t3}
  TaskIDs = {k1, k2}
  NoTask = NoTask
  PlanLifetime = 2
  TaskLifetime = 1
  MaxPlans = 3
  MaxPlansPerPrincipal = 2
  MaxTasks = 2
  MaxTasksPerPrincipal = 1
  MaxTime = 2
  Callers = {c1, c2}
  MaxQuantity = 2
  MaxMutations = 1
  MaxIssued = 2
  MaxForeign = 1
  MaxReviews = 3
  MaxSteps = 2
  Lines = {"l1", "l2"}
  Ordered <- MCOrdered
  Inputs <- MCInputs
SYMMETRY Symmetry
INVARIANTS Reservations TasksAccountedFor MutationsAsReviewed InterferenceNoticed TransitionsAsReviewed OrphansInWindow ReceiptsAsReviewed
PROPERTY HandlesKeepOwner
CHECK_DEADLOCK FALSE
