SPECIFICATION TxSpec
CONSTANTS
    t1 = t1
    t2 = t2
    card = card
    Tables = {t1, t2}
    ApprovalNos = {card}
    Cash = cash
    Emptied = emptied
    Prices <- MCPrices
    Amounts <- MCAmounts
    Discounts <- MCDiscounts
    Long <- MCLong
    Overflow = 0
    Threads = {a, b}
    Kinds <- AllKinds
    Openings <- SeatedOnly
    Unkeyed = unkeyed
    Idle = idle
    MaxClock = 5
    MaxActivities = 5
INVARIANT NoDoubleRefund
CHECK_DEADLOCK FALSE
