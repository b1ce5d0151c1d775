CONSTANTS
    b1 = b1
    b2 = b2
    b3 = b3
    s1 = s1
    s2 = s2
    s3 = s3
    u1 = u1
    BuyIds = {b1, b2, b3}
    SellIds = {s1}
    Users = {u1}
    Prices = {1, 2, 3}
    Quantities = {0, 1, 2}
    Times = {1, 2}
    Capacity = 3
    Depth = 2
    QuantityLimit = 3
    MaxSeq = 1
    None = None
VIEW View
SYMMETRY Symmetry
SPECIFICATION Spec
INVARIANTS TypeOK Conservation NotCrossed NothingEmptyRests Priority WithinLimits MdFresh LevelsComplete ReportedInFull
PROPERTIES RankKept
CHECK_DEADLOCK FALSE
