SPECIFICATION Spec
CONSTANTS
  ip = ip
  app = app
  name = name
  range = range
  Rules <- MCRules
  KindOf <- MCKindOf
  Patterns <- MCPatterns
  Bracketed <- MCBracketed
  Probes <- MCProbes
  Checkers <- MCCheckers
  c = c
  Admin = Admin
  MaxCalls = 3
INVARIANTS
  CoveredIsBlocked
  ReasonHolds
  ClearLeavesOnlyNew
  SaveFaithful
  LoadComplete
\* Admin may be out of calls while nobody checks.
CHECK_DEADLOCK FALSE
