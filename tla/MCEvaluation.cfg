SPECIFICATION Spec
CONSTANTS
  none = none  browse = browse  BROWSE = BROWSE
  blank = blank  odd = odd  tunnel = tunnel  home = home
  Capture = Capture
  NoName = none
  Internal = {1, 2, 3, 4}
  Alphabet = 2
  Blank = {blank}
  Irregular = {tunnel}
  Folded <- MCFolded
  Config <- MCConfig
  CommonPorts <- MCCommonPorts
  Chunks = {1, 2, 3, 4}
  Document <- MCDocument
  AppliesTo <- MCAppliesTo
  Size <- MCSize
  SignalTypes <- MCSignalTypes
  Overhead = 2
  Separator = 1
  Programs <- MCPrograms
  Answers <- MCAnswers
  PromptChars = 40
  RulesChars = 7
  ReminderChars = 3
  SchemaTokens = 10
  RiskTokens = 46
  Scale = 12
INVARIANTS
  RetrievalSound
  BudgetRight
  CapHidesNothing
  RedactionNeutral
  RecommendationSound
CHECK_DEADLOCK FALSE
