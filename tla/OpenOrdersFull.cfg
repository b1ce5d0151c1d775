CONSTANTS
    Sessions = {s1}
    Users = {u1}
    None = None
    Chunk = 2
    Word = 4
    MaxOrders = 2
    MaxRequests = 1
    Switchers = {}
SPECIFICATION Spec
INVARIANTS ResponsesNotFull
CHECK_DEADLOCK FALSE
