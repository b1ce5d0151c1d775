CONSTANTS
    FileSize = 14
    TagSize = 2
    Kinds = {"NewOrder", "CancelOrder"}
    EntrySize <- MCEntrySize
    SymbolEnd <- MCSymbolEnd
    MaxEntries = 4
    LastIndex = 2
SPECIFICATION Spec
INVARIANTS TypeOK AckedSurvive BlockedAtEnd WriterAtEnd
PROPERTIES ImplementsLog
CHECK_DEADLOCK FALSE
