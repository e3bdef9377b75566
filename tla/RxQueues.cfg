SPECIFICATION Spec
CONSTANTS
  MaxPairs = 3
  Burst = 2
  Hash <- TwoFlows
INVARIANTS TypeOK BurstInArray IndexesInRange
PROPERTIES KeepsPromise
CHECK_DEADLOCK FALSE
