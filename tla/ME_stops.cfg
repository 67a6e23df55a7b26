CONSTANTS
    OrderIntMax = 15
    UInt64Size = 64
    NoPrice = NoPrice
    NoLevel = NoLevel
    Ids = {1, 2, 3}
    NewOrders <- StopOrders
    Prices = {1, 2}
    Quantities = {1, 2}
    MaxQuantity = 3
    Operations = {"delete", "execute"}
    MaxExecuted = 2
    QueueKeys <- QuoteKeys
SPECIFICATION Spec
VIEW View
INVARIANTS
    TypeOK
    ActivationIsDue
PROPERTIES
    StopsAreSettled
    CallsReturn
    KeepsPriceTimePriority
