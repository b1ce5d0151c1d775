CONSTANTS
    b1 = b1
    b2 = b2
    b3 = b3
    s1 = s1
    s2 = s2
    s3 = s3
    u1 = u1
    BuyIds = {b1}
    SellIds = {s1, s2, s3}
    Users = {u1}
    Prices = {1, 2}
    Quantities = {1, 2}
    Times = {1}
    Capacity = 2
    Depth = 2
    QuantityLimit = 3
    MaxSeq = 1
    None = None
SPECIFICATION Spec
PROPERTIES MatchEnds ChangesArePublished
CHECK_DEADLOCK FALSE
