CONSTANTS
    t1 = t1
    t2 = t2
    n1 = n1
    n2 = n2
    a1 = a1
    a2 = a2
    Threads = {t1, t2}
    Tables = {n1, n2}
    Activities = {a1, a2}
    Orders = {o1}
    Menus = {m1, m2}
    MaxQuantity = 2
SPECIFICATION Spec
SYMMETRY Symmetry
INVARIANTS TypeOK ServedWhole PriceOfMenus
PROPERTY NothingUndone
CHECK_DEADLOCK FALSE
