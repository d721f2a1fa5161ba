\* README.md 411: a blocked flow is dropped in both directions from then on.
SPECIFICATION FairSpec
CONSTANTS
  laptop = laptop
  phone = phone
  web = web
  resolver = resolver
  tube = tube
  plain = plain
  NoName = NoName
  NoPacket = NoPacket
  MaxConnections = 2
  Tuples <- MCTuples
  Apps <- MCApps
  Names <- MCNames
  Packets <- MCPackets
  AppOf <- MCAppOf
  RuleSets <- MCRuleSets
PROPERTIES
  BlockedFlowStaysDropped
