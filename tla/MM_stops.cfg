CONSTANTS
    OrderIntMax = 15
    UInt64Size = 100000
    NoPrice = NoPrice
    NoLevel = NoLevel
    Ids = {1, 2}
    NewOrders <- StopOrders
    Prices = {2}
    Quantities = {0, 1}
    MaxQuantity = 2
    MaxExecuted = 1
    Mitigations = {TRUE}
    QueueKeys <- StopKeys
SPECIFICATION Spec
INVARIANTS
    TypeOK
    NotOverfilled
PROPERTIES
    TrailingStopsAreBehind
    KeepsPriceTimePriority
