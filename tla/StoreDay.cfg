SPECIFICATION Spec
CONSTANTS
    Managers = {m1, m2}
    Guests = {g1, g2}
    Numbers = {t1, t2}
    Unkeyed = unkeyed
    Line = line
    Idle = idle
    Entered = entered
    MaxClock = 4
SYMMETRY Symmetry
INVARIANTS
    TablesOfTheDay
PROPERTY CloseLeavesNothingSeen
