SPECIFICATION Spec
CONSTANTS
  Nothing = Nothing
  MaxItems = 2
  MaxRetries = 2
  MaxCaptures = 3
INVARIANTS
  NeverRaises
\* No captures are left.
CHECK_DEADLOCK FALSE
