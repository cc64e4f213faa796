SPECIFICATION Spec
CONSTANTS
    Tables = {t1, t2}
    ApprovalNos = {card}
    Cash = cash
    Emptied = emptied
    Prices <- MCPrices
    Amounts <- MCAmounts
    Discounts <- MCDiscounts
    Long <- MCLong
    Overflow = 0
    MaxClock = 4
    MaxActivities = 2
SYMMETRY Symmetry
INVARIANTS
    TypeOK
    OneActiveActivity
    RefundsPaired
PROPERTIES
    ClosedIsFinal
    ClosesPaidUnlessMerged
    RefundBalances
CHECK_DEADLOCK FALSE
