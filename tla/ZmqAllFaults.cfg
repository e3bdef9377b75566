SPECIFICATION Spec
CONSTANTS
    Clients = {c1, c2}
    Faults = {"alloc", "pipe", "create", "bind", "slow", "write", "zmq"}
INVARIANT TypeOK
INVARIANT FdsClosedOnce
INVARIANT ReleasedOnce
CHECK_DEADLOCK FALSE
