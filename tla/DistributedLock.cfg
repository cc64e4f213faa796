SPECIFICATION Spec
CONSTANTS
    k1 = k1
    k2 = k2
    Threads = {a, b}
    Keys = {k1, k2}
    Calls <- MCCalls
    None = none
    MaxHolds = 1
INVARIANTS
    Exclusion
    NothingLeftLocked
PROPERTIES
    KeepsPromise
    EveryCallReturns
