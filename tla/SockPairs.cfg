SPECIFICATION FairSpec
CONSTANTS
  MaxRelays = 2
  p1 = p1
  p2 = p2
  Paths = {p1, p2}
  Vfs = {v1, v2}
  Bonds = {b}
  DefaultPath <- TwoSockets
  Faults = {"probe", "slave", "socket", "start", "chown", "detach"}
  None = None
PROPERTIES RequestsEnd
INVARIANTS TypeOK OneToOne ReadyVmAlive NothingLeaked AddAllOrNothing RemovedIsGone NullPathExplained
CHECK_DEADLOCK FALSE
