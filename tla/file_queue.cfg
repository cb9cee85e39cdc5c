SPECIFICATION Spec
CONSTANTS
  Items = {q1, q2, q3}
  MaxAttempts = 1
  MaxCrashes = 2
INVARIANTS
  SurvivesReload
  FirstInFirstOut
CHECK_DEADLOCK FALSE
