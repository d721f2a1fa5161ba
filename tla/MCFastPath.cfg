\* Three conversations compete for a table of two records.
SPECIFICATION FairSpec
CONSTANTS
  laptop = laptop
  phone = phone
  web = web
  resolver = resolver
  tube = tube
  plain = plain
  NoName = NoName
  NoPacket = NoPacket
  MaxConnections = 2
  Tuples <- MCTuples
  Apps <- MCApps
  Names <- MCNames
  Packets <- MCPackets
  AppOf <- MCAppOf
  RuleSets <- MCRuleSets
INVARIANTS
  OneRecordPerConversation
  ForwardObeysRules
  DropHasCause
PROPERTIES
  BlockHoldsUntilClosed
  EvictionSparesRecent
  ClosedFlowsLeave
