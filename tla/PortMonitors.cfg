SPECIFICATION FairSpec
CONSTANTS
  Netdevs = {n1, n2}
  Minus = {n1}
  MaxPipe = 2
  Faults = {"lookup", "vf", "pid", "select", "open"}
INVARIANTS TypeOK InSync ClientOfThread
PROPERTIES MonitorReturns CommandObeyed MonitorStops
CHECK_DEADLOCK FALSE
