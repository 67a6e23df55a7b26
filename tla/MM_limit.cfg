CONSTANTS
    OrderIntMax = 15
    UInt64Size = 64
    NoPrice = NoPrice
    NoLevel = NoLevel
    Ids = {0, 1, 2}
    NewOrders <- LimitOrders
    Prices = {1, 2}
    Quantities = {1, 2}
    MaxQuantity = 2
    MaxExecuted = 1
    Mitigations = {TRUE, FALSE}
    QueueKeys <- LimitKeys
SPECIFICATION Spec
INVARIANTS
    LinksAgree
    VolumesAgree
    BestAgrees
    FeedIsComplete
    NoMissedImprovement
PROPERTIES
    FailureAltersNoOrder
