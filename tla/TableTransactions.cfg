SPECIFICATION TxSpec
CONSTANTS
    t1 = t1
    t2 = t2
    card = card
    Tables = {t1, t2}
    ApprovalNos = {card}
    Cash = cash
    Emptied = emptied
    Prices <- MCPrices
    Amounts <- MCAmounts
    Discounts <- MCDiscounts
    Long <- MCLong
    Overflow = 0
    Threads = {a, b}
    Kinds <- KeyedKinds
    Openings <- SeatedOrEmpty
    Unkeyed = unkeyed
    Idle = idle
    MaxClock = 5
    MaxActivities = 5
SYMMETRY Symmetry
INVARIANTS
    TxTypeOK
    OneActiveActivity
PROPERTY CommitsAsIfAlone
CHECK_DEADLOCK FALSE
