CONSTANTS
    Capacity = 6
    Values = {1, 2, 3}
    Nothing = Nothing
VIEW View
SPECIFICATION Spec
INVARIANTS TypeOK Valid NothingLost IteratorSorted
PROPERTIES ImplementsQueue
