CONSTANTS
    c1 = c1
    c2 = c2
    e1 = e1
    e2 = e2
    Clients = {c1, c2}
    Events = {e1, e2}
    None = None
    MaxTime = 3
    MaxConnections = 3
SPECIFICATION StreamSpec
SYMMETRY Symmetry
INVARIANTS StreamTypeOK NoGap StaysRegistered
CHECK_DEADLOCK FALSE
