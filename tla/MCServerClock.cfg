CONSTANTS
    Users = {u1}
    Prices = {1}
    Quantities = {1}
    QuantityLimit = 65536
    Times = {1, 2}
    Steady = FALSE
    Capacity = 2
    None = None
    MaxOrders = 3
    MaxLog = 3
    MaxCrashes = 1
    MaxDrops = 0
SPECIFICATION Spec
CONSTRAINT NoTies
PROPERTIES ReplayRepeats
CHECK_DEADLOCK FALSE
