\* dpi_engine.py 259: the output thread flushes what the FPs emitted.
SPECIFICATION FairSpec
CONSTANTS
  a = a
  b = b
  NoFlow = NoFlow
  Flows = {a, b}
  NumLBs = 1
  FPsPerLB = 1
  NumPackets = 3
  FlowOf <- MCFlowOf
  Route <- MCRoute
  LBCap = 1
  FPCap = 1
  OutCap = 4
  IdleStreak = 2
INVARIANTS
  FlushedBeforeStop
CHECK_DEADLOCK FALSE
