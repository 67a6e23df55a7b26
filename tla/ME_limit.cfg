CONSTANTS
    OrderIntMax = 15
    UInt64Size = 64
    NoPrice = NoPrice
    NoLevel = NoLevel
    Ids = {1, 2, 3}
    NewOrders <- MixedOrders
    Prices = {1, 2}
    Quantities = {1, 2}
    MaxQuantity = 3
    Operations = {"delete", "mitigate", "replace_with"}
    MaxExecuted = 2
    QueueKeys <- LimitKeys
SPECIFICATION Spec
VIEW View
INVARIANTS
    NoUseAfterRelease
    BookIsNotCrossed
    LeftoverIsUntradable
    MarketBuyIsFilled
    PriceIsAcceptable
    NotOverfilled
    NetIsZero
    FillOrKill
PROPERTIES
    TradesAtTheFront
