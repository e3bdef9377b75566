SPECIFICATION Spec
CONSTANTS
  MaxPairs = 3
  Burst = 2
  Hash <- TwoFlows
INVARIANTS FlowOrder
CHECK_DEADLOCK FALSE
