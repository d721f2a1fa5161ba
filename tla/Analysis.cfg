SPECIFICATION Spec
CONSTANTS
  Nothing = Nothing
  MaxItems = 2
  MaxRetries = 2
  MaxCaptures = 3
INVARIANTS
  CitationsSupplied
  RetriesSound
  PreparedOnce
\* No captures are left.
CHECK_DEADLOCK FALSE
