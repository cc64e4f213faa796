SPECIFICATION Spec
CONSTANTS
    Threads = {r1, r2}
    Stores = {s1, s2}
    Phones = {p1, p2, p3}
    Idle = idle
    MaxCalls = 1
    MaxClock = 3
SYMMETRY Symmetry
INVARIANTS
    OnePlacePerStore
    NumbersInOrder
PROPERTIES
    TurnNeverGrows
    RegisteredAtTheirTurn
    FinishedIsFinal
CHECK_DEADLOCK FALSE
