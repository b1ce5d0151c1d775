CONSTANTS
    Sessions = {s1, s2}
    Users = {u1, u2}
    None = None
    Chunk = 3
    Word = 4
    MaxOrders = 2
    MaxRequests = 2
    Switchers = {s1}
SPECIFICATION Spec
INVARIANTS TypeOK AnswerIsSnapshot SeesEarlierOrders OnlyOwnOrders
PROPERTIES EveryQueryAnswered
CHECK_DEADLOCK FALSE
