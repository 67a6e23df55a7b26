CONSTANTS
    OrderIntMax = 15
    UInt64Size = 64
    NoPrice = NoPrice
    NoLevel = NoLevel
    Ids = {1, 2, 3}
    NewOrders <- TrailingOrders
    Prices = {}
    Quantities = {1}
    MaxQuantity = 3
    Operations = {"execute"}
    MaxExecuted = 2
    QueueKeys <- LimitKeys
SPECIFICATION Spec
INVARIANTS
    NoUseAfterRelease
CHECK_DEADLOCK FALSE
