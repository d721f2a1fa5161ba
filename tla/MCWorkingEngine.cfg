\* Captures of one to three frames out of thirteen, three sets of rules.
SPECIFICATION MainSpec
CONSTANTS
  Frames <- MCFrames
  Bytes <- MCBytes
  Sent <- MCSent
  Captures <- MCCaptures
  RuleSets <- MCRuleSets
  SNIPatterns <- MCSNIPatterns
INVARIANTS
  NamedByFirst
  SurvivorsWritten
  OffsetsAgree
  ExtractorsRight
\* main returns.
CHECK_DEADLOCK FALSE
