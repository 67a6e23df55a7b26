CONSTANTS
    OrderIntMax = 15
    UInt64Size = 64
    NoPrice = NoPrice
    NoLevel = NoLevel
    Ids = {1, 2, 3, 4}
    NewOrders <- AonOrders
    Prices = {}
    Quantities = {}
    MaxQuantity = 4
    Operations = {}
    MaxExecuted = 0
    QueueKeys <- LimitKeys
SPECIFICATION Spec
VIEW View
INVARIANTS
    NetIsZero
CHECK_DEADLOCK FALSE
