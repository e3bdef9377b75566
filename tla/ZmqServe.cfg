SPECIFICATION FairSpec
CONSTANTS
    Clients = {c1, c2}
    Faults = {"alloc", "pipe", "create", "zmq"}
INVARIANT FreedUnreferenced
PROPERTY StopReturns
PROPERTY RequestsAnswered
CHECK_DEADLOCK FALSE
