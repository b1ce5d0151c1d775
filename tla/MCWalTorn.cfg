CONSTANTS
    FileSize = 14
    TagSize = 2
    Kinds = {"NewOrder", "CancelOrder"}
    EntrySize <- MCEntrySize
    SymbolEnd <- MCSymbolEnd
    MaxEntries = 4
    LastIndex = 2
SPECIFICATION Spec
CHECK_DEADLOCK FALSE
INVARIANTS OnlyWholeEntries
