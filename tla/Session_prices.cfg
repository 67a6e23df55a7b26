\* Transactions beyond the first chunk.
SPECIFICATION Spec
CONSTANTS
    CHUNK_SIZE = 2
    CHUNK_SIZE_POSITIONS = 3
    CLOCK_INTERVAL = 3
    Symbols = {0}
    Users = {1, 2}
    Accounts = {1, 2, 3}
    Prices = {1, 2}
    Quantities = {1, 2}
    MaxOrders = 3
    Garbage = {0, 2}
    NoOrder = NoOrder
CHECK_DEADLOCK FALSE
INVARIANTS
    PricesAreTheirs
