CONSTANTS
    Users = {u1}
    Prices = {1}
    Quantities = {0, 1}
    QuantityLimit = 65536
    Times = {1, 2}
    Steady = TRUE
    Capacity = 2
    None = None
    MaxOrders = 2
    MaxLog = 2
    MaxCrashes = 1
    MaxDrops = 1
SPECIFICATION Spec
PROPERTIES EveryOrderAnswered StartsUp
CHECK_DEADLOCK FALSE
