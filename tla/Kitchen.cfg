SPECIFICATION Spec
CONSTANTS
    Orders = {o1, o2}
    MaxQuantity = 2
    MaxJobs = 3
SYMMETRY Symmetry
INVARIANTS
    TypeOK
    NumbersFollow
    KitchenAddsUp
CHECK_DEADLOCK FALSE
