\* Two stocks, two prices on both sides, three orders of two shares.
SPECIFICATION Spec
CONSTANTS
    Stock1 = Stock1
    Stock2 = Stock2
    Books = {Stock1, Stock2}
    Prices = {1, 2}
    Shares = {2}
    MaxOrders = 3
    MaxCalls = 1
SYMMETRY Symmetry
VIEW View
CHECK_DEADLOCK FALSE
INVARIANTS
    DepthIsExact
    NoSlotIsShared
    OrdersAreCounted
