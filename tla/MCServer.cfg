CONSTANTS
    Users = {u1, u2}
    Prices = {1}
    Quantities = {1}
    QuantityLimit = 65536
    Times = {1, 2, 3}
    Steady = TRUE
    Capacity = 2
    None = None
    MaxOrders = 3
    MaxLog = 3
    MaxCrashes = 1
    MaxDrops = 0
SYMMETRY Symmetry
SPECIFICATION Spec
INVARIANTS TypeOK EngineFollowsLog IdsIssuedOnce CaughtUp ExecutionsBeforeAck ToldOnce ToldStaysTrue CancelSticks OrdersStay
PROPERTIES NewsOnly ReplayRepeats
CHECK_DEADLOCK FALSE
