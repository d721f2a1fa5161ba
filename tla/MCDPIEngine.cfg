\* Two LBs with an FP each; queues of one packet, so that every push may wait.
SPECIFICATION FairSpec
CONSTANTS
  a = a
  b = b
  NoFlow = NoFlow
  Flows = {a, b}
  NumLBs = 2
  FPsPerLB = 1
  NumPackets = 5
  FlowOf <- MCFlowOf
  Route <- MCRoute
  LBCap = 1
  FPCap = 1
  OutCap = 4
  IdleStreak = 2
INVARIANTS
  OnePlaceEach
  FlowOrder
  NothingDiscarded
  IdleScanDrained
PROPERTIES
  Terminates
\* After the file is closed all threads have ended.
CHECK_DEADLOCK FALSE
