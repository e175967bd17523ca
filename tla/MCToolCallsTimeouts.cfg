SPECIFICATION Spec
CONSTANTS
  Calls = {c1, c2}
  Records = {1, 2}
  MaxReviews = 2
  MaxForeign = 0
INVARIANT TimeoutsAreVerified
CHECK_DEADLOCK FALSE
