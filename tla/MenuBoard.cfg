SPECIFICATION Spec
CONSTANTS
    Threads = {r1, r2}
    Store = store
    Categories = {c1, c2, c3}
    Menus = {m1, m2, m3}
    Idle = idle
    MaxCategories = 2
    MaxMenus = 3
    MaxPosition = 3
SYMMETRY Symmetry
CONSTRAINTS UpToLateCommit FewItems
INVARIANTS
    PositionsDistinct
    LimitsKept
PROPERTIES
    OneItemMoves
    MovedBeside
CHECK_DEADLOCK FALSE
