CONSTANTS
    b1 = b1
    b2 = b2
    b3 = b3
    s1 = s1
    s2 = s2
    s3 = s3
    u1 = u1
    BuyIds = {b1, b2}
    SellIds = {s1}
    Users = {u1}
    Prices = {1, 2}
    Quantities = {1}
    Times = {1}
    Capacity = 3
    Depth = 2
    QuantityLimit = 4
    MaxSeq = 9
    None = None
SPECIFICATION Spec
INVARIANTS AllLevelsShown
CHECK_DEADLOCK FALSE
