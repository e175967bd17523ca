SPECIFICATION Spec
CONSTANTS
  Calls = {c1, c2}
  Records = {1, 2}
  MaxReviews = 2
  MaxForeign = 1
SYMMETRY Symmetry
INVARIANTS OkWasReal AnswersOwnUp HarmOnlyInWindow WritesWithinReviews ToolsAreDisciplined
CHECK_DEADLOCK FALSE
