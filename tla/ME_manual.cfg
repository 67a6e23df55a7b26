CONSTANTS
    OrderIntMax = 15
    UInt64Size = 64
    NoPrice = NoPrice
    NoLevel = NoLevel
    Ids = {1, 2, 3}
    NewOrders <- LimitOrders
    Prices = {1, 2}
    Quantities = {1, 2}
    MaxQuantity = 3
    Operations = {"match", "enable", "disable", "reduce", "modify", "replace"}
    MaxExecuted = 0
    QueueKeys <- LimitKeys
SPECIFICATION Spec
VIEW View
INVARIANTS
    NetIsZero
    BookIsConsistent
PROPERTIES
    MatchUncrosses
CHECK_DEADLOCK FALSE
