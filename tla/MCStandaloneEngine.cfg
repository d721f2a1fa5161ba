\* One LB with a pool of two FPs; every queue holds one packet.
SPECIFICATION FairSpec
CONSTANTS
  client = client
  server = server
  web = web
  tls = tls
  reply = reply
  site = site
  host = host
  NoTuple = NoTuple
  NoName = NoName
  Tuples = {web, tls, reply}
  NumLBs = 1
  FPsPerLB = 2
  NumPackets = 7
  TupleOf <- MCTupleOf
  Hash <- MCHash
  SrcIP <- MCSrcIP
  SrcPort <- MCSrcPort
  DstPort <- MCDstPort
  NameIn <- MCNameIn
  AppOf <- MCAppOf
  RuleSets <- MCRuleSets
  LBCap = 1
  FPCap = 1
  OutCap = 1
INVARIANTS
  VerdictsAreSequential
  OutputComplete
PROPERTIES
  Terminates
\* After the file is closed all threads have ended.
CHECK_DEADLOCK FALSE
